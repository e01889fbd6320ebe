------------------------------ MODULE Posting -------------------------------
(***************************************************************************)
(* How a SEND gets into the room: the wait for the sender's rate limiter   *)
(* (server/src/chat/rate_limiter.rs), then forward_to_room, a crossbeam    *)
(* send_timeout that is called from an async task.  A send into a full     *)
(* room does not suspend the task, it blocks the worker thread the task    *)
(* runs on; the dispatcher, which would empty the room, needs a worker     *)
(* too.  Only its recv_timeout has a thread of its own (spawn_blocking).   *)
(*                                                                         *)
(* Time passes in intervals of the quota, 1/rate of a second; messages are *)
(* counted, not told apart.                                                *)
(***************************************************************************)
EXTENDS Integers, FiniteSets

CONSTANTS
  Users,        \* the joined connections
  Workers,      \* worker threads of the runtime
  RoomCap,      \* buffer length of the room
  Configs       \* the arguments with_config may be called with

ASSUME PostingAssumption ==
  /\ Workers \in Nat \ {0}
  /\ RoomCap \in Nat \ {0}
  /\ \A c \in Configs : c.rate \in Nat /\ c.burst \in Nat

VARIABLES
  quota,   \* the limiter's quota
  debt,    \* user -> messages let through and not yet made up for
  task,    \* user -> what the connection task is doing
  queue,   \* messages in the room
  disp,    \* what the dispatcher is doing
  passed   \* history: passed[u][j] is how many messages of u were let through
           \* in this interval and the j intervals before it

vars == <<quota, debt, task, queue, disp, passed>>

-----------------------------------------------------------------------------
(* RateLimiter::with_config: a rate or a burst of zero becomes one.        *)
Raised(n) == IF n = 0 THEN 1 ELSE n

(* Mutant: the arguments as they are.                                      *)
WithConfigAsIs(c) == c

WithConfig(c) == [rate |-> Raised(c.rate), burst |-> Raised(c.burst)]

(* A second reaches over this many earlier intervals.                      *)
Second == 0..quota.rate

Init ==
  /\ quota \in {WithConfig(c) : c \in Configs}
  /\ debt = [u \in Users |-> 0]
  /\ task = [u \in Users |-> "reading"]
  /\ queue = 0
  /\ disp = "check"
  /\ passed = [u \in Users |-> [i \in Second |-> 0]]

Blocked == {u \in Users : task[u] = "blocked"}

(* Some worker thread is not blocked, and polls a task that is ready.      *)
Polled == Cardinality(Blocked) < Workers

-----------------------------------------------------------------------------
(* handle_joined_message decodes a SEND and calls acquire().               *)
ReadSend(u) ==
  /\ task[u] = "reading" /\ Polled
  /\ task' = [task EXCEPT ![u] = "acquire"]
  /\ UNCHANGED <<quota, debt, queue, disp, passed>>

(* forward_to_room: in at once, or blocking the worker on a full room      *)
Forward(u) ==
  \/ /\ queue < RoomCap
     /\ queue' = queue + 1
     /\ task' = [task EXCEPT ![u] = "reading"]
  \/ /\ queue = RoomCap
     /\ task' = [task EXCEPT ![u] = "blocked"]
     /\ UNCHANGED queue

(* Mutant: one more than the burst.                                        *)
ReadyOnceMore(u) == debt[u] <= quota.burst

(* governor lets one more through while the debt is below the burst.       *)
Ready(u) == debt[u] < quota.burst

(* until_ready() is over, and the message goes to the room.                *)
Acquire(u) ==
  /\ task[u] = "acquire" /\ Ready(u) /\ Polled
  /\ debt' = [debt EXCEPT ![u] = @ + 1]
  /\ passed' = [passed EXCEPT ![u] = [j \in Second |-> @[j] + 1]]
  /\ Forward(u)
  /\ UNCHANGED <<quota, disp>>

(* A JOINED or a LEFT is forwarded without asking the limiter.             *)
Announce(u) ==
  /\ task[u] = "reading" /\ Polled
  /\ Forward(u)
  /\ UNCHANGED <<quota, debt, disp, passed>>

(* The blocked send gets its place ...                                     *)
Unblock(u) ==
  /\ task[u] = "blocked" /\ queue < RoomCap
  /\ queue' = queue + 1
  /\ task' = [task EXCEPT ![u] = "reading"]
  /\ UNCHANGED <<quota, debt, disp, passed>>

(* Mutant: send() instead of send_timeout().                               *)
SendBlocks(u) == Unblock(u)

(* ... or gives up after BACKBONE_DEFAULT_SEND_TIMEOUT: the user is sent   *)
(* an Err, and the worker is free.                                         *)
SendTimesOut(u) ==
  /\ task[u] = "blocked" /\ queue = RoomCap
  /\ task' = [task EXCEPT ![u] = "reading"]
  /\ UNCHANGED <<quota, debt, queue, disp, passed>>

Connection(u) == Acquire(u) \/ Unblock(u) \/ SendTimesOut(u)

-----------------------------------------------------------------------------
(* The dispatcher's loop.  It is polled at the top of the loop and for the *)
(* broadcast; the wait for a message is on a thread of its own.            *)
CheckFlag ==
  /\ disp = "check" /\ Polled
  /\ disp' = "recv"
  /\ UNCHANGED <<quota, debt, task, queue, passed>>

Receive ==
  /\ disp = "recv" /\ queue > 0
  /\ queue' = queue - 1
  /\ disp' = "broadcast"
  /\ UNCHANGED <<quota, debt, task, passed>>

ReceiveTimeout ==
  /\ disp = "recv" /\ queue = 0
  /\ disp' = "check"
  /\ UNCHANGED <<quota, debt, task, queue, passed>>

(* Every offer has been taken or has timed out.                            *)
Broadcast ==
  /\ disp = "broadcast" /\ Polled
  /\ disp' = "check"
  /\ UNCHANGED <<quota, debt, task, queue, passed>>

(* An interval is over: every limiter has made up for one message.         *)
Interval ==
  /\ debt' = [u \in Users |-> IF debt[u] = 0 THEN 0 ELSE debt[u] - 1]
  /\ passed' = [u \in Users |->
       [j \in Second |-> IF j = 0 THEN 0 ELSE passed[u][j - 1]]]
  /\ UNCHANGED <<quota, task, queue, disp>>

Next ==
  \/ \E u \in Users : ReadSend(u) \/ Announce(u) \/ Connection(u)
  \/ CheckFlag \/ Receive \/ ReceiveTimeout \/ Broadcast
  \/ Interval

Spec == Init /\ [][Next]_vars

(* Time passes and threads run.  The runtime's queue of ready tasks is     *)
(* served in turn whenever a worker is free, so a task that is ready again *)
(* and again is polled (strong fairness).  Users owe nothing.              *)
FairSpec ==
  /\ Spec
  /\ WF_vars(Interval)
  /\ WF_vars(Receive \/ ReceiveTimeout)
  /\ SF_vars(CheckFlag) /\ SF_vars(Broadcast)
  /\ \A u \in Users :
       SF_vars(Acquire(u)) /\ WF_vars(Unblock(u) \/ SendTimesOut(u))

-----------------------------------------------------------------------------
(* What the limiter allows: in the course of j intervals a user gets no    *)
(* more than the burst and one message per interval past acquire(), so no  *)
(* more than burst + rate in a second.                                     *)
RateBound ==
  \A u \in Users : \A j \in Second : passed[u][j] <= quota.burst + j

(* forward_to_room blocks its worker thread, and everyone's dispatcher may *)
(* be waiting for that very thread.  Even with all workers blocked and the *)
(* room full, a message taken off the room is broadcast in the end and the *)
(* dispatcher receives again.                                              *)
DispatcherGoesOn == (disp = "broadcast") ~> (disp = "recv")

(* Every SEND comes to an end, in the room or with an Err, whatever the    *)
(* configuration of the limiter and however full the room.                 *)
SendEnds == \A u \in Users : (task[u] # "reading") ~> (task[u] = "reading")
=============================================================================
