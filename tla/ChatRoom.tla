------------------------------ MODULE ChatRoom ------------------------------
(***************************************************************************)
(* What the chat server promises its users, without connections, queues,   *)
(* dispatcher or locks: there is one history of everything said, and every *)
(* user has a position in it.  ChatServer implements this specification.   *)
(***************************************************************************)
EXTENDS Naturals, Sequences

CONSTANTS Users, Msg

VARIABLES
  said,    \* everything said, in one order for all
  seat,    \* seat[u]: "new", "in" or "out", in this order
  given,   \* given[u]: what u has been given of said
  pos,     \* pos[u]: how much of said has come past u
  missed   \* the users who were not given everything

vars == <<said, seat, given, pos, missed>>

(* n may follow m if they are from two users, or follows it in the story   *)
(* of one: first that they have joined, last that they have left, and the  *)
(* lines between in their order.                                           *)
Follows(m, n) ==
  \/ m.from # n.from
  \/ m.kind = "joined" /\ n.kind # "joined"
  \/ m.kind # "left" /\ n.kind = "left"
  \/ m.kind = "broadcast" /\ n.kind = "broadcast" /\ m.id < n.id

Init ==
  /\ said = <<>>
  /\ seat = [u \in Users |-> "new"]
  /\ given = [u \in Users |-> <<>>]
  /\ pos = [u \in Users |-> 0]
  /\ missed = {}

Enter(u) ==
  /\ seat[u] = "new"
  /\ seat' = [seat EXCEPT ![u] = "in"]
  /\ UNCHANGED <<said, given, pos, missed>>

(* Users speak while they are in, and are said to have left after that.    *)
Say(m) ==
  /\ seat[m.from] = IF m.kind = "left" THEN "out" ELSE "in"
  /\ \A j \in 1..Len(said) : Follows(said[j], m)
  /\ said' = Append(said, m)
  /\ UNCHANGED <<seat, given, pos, missed>>

Hear(u) ==
  /\ seat[u] = "in" /\ pos[u] < Len(said)
  /\ given' = [given EXCEPT ![u] = Append(@, said[pos[u] + 1])]
  /\ pos' = [pos EXCEPT ![u] = @ + 1]
  /\ UNCHANGED <<said, seat, missed>>

(* A message comes past the users in S, who are not given it: those who    *)
(* are in have missed it.                                                  *)
Pass(S) ==
  /\ \A u \in S : pos[u] < Len(said)
  /\ pos' = [u \in Users |-> IF u \in S THEN pos[u] + 1 ELSE pos[u]]
  /\ \E L \in SUBSET S :
       {u \in S : seat[u] = "in"} \subseteq L /\ missed' = missed \cup L
  /\ UNCHANGED <<said, seat, given>>

(* Someone who goes does not take away all they have been given.           *)
Leave(u) ==
  /\ seat[u] # "out"
  /\ seat' = [seat EXCEPT ![u] = "out"]
  /\ \E k \in 0..Len(given[u]) : given' = [given EXCEPT ![u] = SubSeq(@, 1, k)]
  /\ UNCHANGED <<said, pos, missed>>

Next ==
  \/ \E u \in Users : Enter(u) \/ Hear(u) \/ Leave(u)
  \/ \E m \in Msg : Say(m)
  \/ \E S \in SUBSET Users : Pass(S)

Spec == Init /\ [][Next]_vars
-----------------------------------------------------------------------------
(* A user who is in and has missed nothing has been given a gapless run of *)
(* the history, in its order and without duplicates, up to where they are, *)
(* and beginning no later than the news that they have joined.             *)
GapFree ==
  \A u \in Users : seat[u] = "in" /\ u \notin missed =>
    \E i \in 1..pos[u] + 1 :
      /\ given[u] = SubSeq(said, i, pos[u])
      /\ \A j \in 1..pos[u] :
           said[j].kind = "joined" /\ said[j].from = u => i <= j

(* Even with gaps, what one user says arrives at every other in the order  *)
(* it was said, each message at most once.                                 *)
SenderFifo ==
  \A u \in Users : \A i, j \in 1..Len(given[u]) :
    i < j => Follows(given[u][i], given[u][j])
=============================================================================
