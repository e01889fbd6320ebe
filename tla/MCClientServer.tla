--------------------------- MODULE MCClientServer ---------------------------
(* Values of the constants for TLC: alice at the command line, bob beside. *)
EXTENDS ClientServer, TLC

CONSTANT guest

MCNames == {"alice", "bob"}
MCIdentity == [n \in MCNames |-> n]
MCLines == [c \in Conns |-> IF c = guest THEN {<<"join", "bob">>} ELSE {}]
=============================================================================
