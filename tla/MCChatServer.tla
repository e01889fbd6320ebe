---------------------------- MODULE MCChatServer ----------------------------
(* Values of the constants for TLC.                                        *)
EXTENDS ChatServer

CONSTANTS c1, c2, c3

MCNames == {"alice", "ALICE", " bob", "bob", "a|b"}
MCKeys == {"alice", "bob", "a|b"}
MCTrim == [n \in MCNames |-> IF n = " bob" THEN "bob" ELSE n]
MCFold == [n \in MCNames |-> CASE n \in {"alice", "ALICE"} -> "alice"
                               [] n \in {" bob", "bob"} -> "bob"
                               [] OTHER -> n]
MCInvalid == {"a|b"}

(* one user in two spellings *)
SameUser == [c \in Conns |-> {<<"join", IF c = c1 THEN "alice" ELSE "ALICE">>}]

(* two users, silent and chatting *)
TwoUsers == [c \in Conns |-> {<<"join", IF c = c1 THEN "alice" ELSE " bob">>}]
RoomLines == [c \in Conns |-> TwoUsers[c] \cup {<<"send", "-">>}]

OneTalks == [TwoUsers EXCEPT ![c1] = RoomLines[c1]]

(* everything a line can be *)
AnyLines == [c \in Conns |->
  {<<"join", "alice">>, <<"join", "a|b">>, <<"send", "-">>,
   <<"leave", "-">>, <<"junk", "-">>, <<"long", "-">>}]
=============================================================================
