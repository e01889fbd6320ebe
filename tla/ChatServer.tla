----------------------------- MODULE ChatServer -----------------------------
(***************************************************************************)
(* The server as a whole (server/src/main.rs): the accept loop with its    *)
(* connection permits, the connection tasks, the dispatcher, and the       *)
(* shutdown on ctrl-c, in an environment of clients.                       *)
(***************************************************************************)
EXTENDS Connection, FiniteSets, Functions

CONSTANT MaxConnections

ASSUME ServerAssumption == MaxConnections \in Nat \ {0}

VARIABLES
  holding,   \* the accept loop holds a permit for the next connection
  exited     \* main has returned; the runtime aborts every other task

connVars == <<pc, name, why, inbox, buf, outVars, shutdown, peerVars>>
mainVars == <<holding, exited>>
vars == <<brokerVars, connVars, mainVars>>

Init ==
  /\ ConnectionInit
  /\ holding = FALSE
  /\ exited = FALSE
-----------------------------------------------------------------------------
(* A permit is owned by the accept loop or by a running connection task    *)
(* and returns to the semaphore when its owner drops it.                   *)
Active == {c \in Conns : pc[c] \notin {"idle", "gone"}}
PermitsOut == Cardinality(Active) + IF holding THEN 1 ELSE 0

(* Mutant: one permit too many.                                            *)
AcquireOneMore ==
  /\ ~shutdown /\ ~holding
  /\ PermitsOut <= MaxConnections
  /\ holding' = TRUE
  /\ UNCHANGED <<brokerVars, connVars, exited>>

AcquirePermit ==
  /\ ~shutdown /\ ~holding
  /\ PermitsOut < MaxConnections
  /\ holding' = TRUE
  /\ UNCHANGED <<brokerVars, connVars, exited>>

Accept(c) ==
  /\ ~shutdown /\ holding
  /\ pc[c] = "idle"
  /\ pc' = [pc EXCEPT ![c] = "unauth"]
  /\ holding' = FALSE
  /\ UNCHANGED <<brokerVars, name, why, inbox, buf, outVars, shutdown,
                 peerVars, exited>>

(* accept() fails: the permit is dropped at the end of the iteration.      *)
AcceptError ==
  /\ "acceptError" \in Events
  /\ ~shutdown /\ holding
  /\ holding' = FALSE
  /\ UNCHANGED <<brokerVars, connVars, exited>>

(* ctrl-c completes the select: the accept loop is dropped.                *)
CtrlC ==
  /\ "ctrlC" \in Events
  /\ ~shutdown
  /\ shutdown' = TRUE
  /\ holding' = FALSE
  /\ UNCHANGED <<brokerVars, pc, name, why, inbox, buf, outVars, peerVars,
                 exited>>

StopBroker ==
  /\ shutdown /\ ~stop
  /\ stop' = TRUE
  /\ UNCHANGED <<users, roomVars, chanVars, dispVars, lost, connVars,
                 mainVars>>

(* The dispatcher has been awaited; connection tasks are not.              *)
Exit ==
  /\ stop /\ dpc = "stopped"
  /\ exited' = TRUE
  /\ UNCHANGED <<brokerVars, connVars, holding>>

Main == StopBroker \/ Exit
-----------------------------------------------------------------------------
(* The clients.  A line is written as a body and then its newline; the two *)
(* may arrive together.                                                    *)
peerFrame == <<brokerVars, pc, name, why, buf, outVars, shutdown, mainVars>>

Write(c) ==
  /\ pc[c] \notin {"idle", "gone"} /\ sock[c] \in {"open", "stalled"}
  /\ wrote[c] < 2 * MaxLines /\ wrote[c] % 2 = 0
  /\ \E l \in Lines[c] :
       LET body == [cmd |-> l[1], name |-> l[2], id |-> wrote[c] + 1] IN
       \/ /\ inbox' = [inbox EXCEPT ![c] = @ \o <<body, Newline>>]
          /\ wrote' = [wrote EXCEPT ![c] = @ + 2]
       \/ /\ "split" \in Events
          /\ inbox' = [inbox EXCEPT ![c] = Append(@, body)]
          /\ wrote' = [wrote EXCEPT ![c] = @ + 1]
  /\ UNCHANGED <<peerFrame, sock>>

WriteNewline(c) ==
  /\ pc[c] \notin {"idle", "gone"} /\ sock[c] \in {"open", "stalled"}
  /\ wrote[c] % 2 = 1
  /\ inbox' = [inbox EXCEPT ![c] = Append(@, Newline)]
  /\ wrote' = [wrote EXCEPT ![c] = @ + 1]
  /\ UNCHANGED <<peerFrame, sock>>

(* The two directions are independent: who closes reads on or not, as      *)
(* before, and may stop or resume reading afterwards.                      *)
Close(c) ==
  /\ "close" \in Events
  /\ pc[c] \notin {"idle", "gone"} /\ sock[c] \in {"open", "stalled"}
  /\ sock' = [sock EXCEPT ![c] = IF @ = "open" THEN "eof" ELSE "deaf"]
  /\ UNCHANGED <<peerFrame, inbox, wrote>>

Reset(c) ==
  /\ "reset" \in Events
  /\ pc[c] \notin {"idle", "gone"} /\ sock[c] # "reset"
  /\ sock' = [sock EXCEPT ![c] = "reset"]
  /\ UNCHANGED <<peerFrame, inbox, wrote>>

Stall(c) ==
  /\ "stall" \in Events
  /\ pc[c] \notin {"idle", "gone"} /\ sock[c] \in {"open", "eof"}
  /\ sock' = [sock EXCEPT ![c] = IF @ = "open" THEN "stalled" ELSE "deaf"]
  /\ UNCHANGED <<peerFrame, inbox, wrote>>

Resume(c) ==
  /\ pc[c] # "gone" /\ sock[c] \in {"stalled", "deaf"}
  /\ sock' = [sock EXCEPT ![c] = IF @ = "stalled" THEN "open" ELSE "eof"]
  /\ UNCHANGED <<peerFrame, inbox, wrote>>

Peer(c) ==
  Write(c) \/ WriteNewline(c) \/ Close(c) \/ Reset(c) \/ Stall(c) \/ Resume(c)
-----------------------------------------------------------------------------
Next ==
  /\ ~exited
  /\ \/ AcquirePermit \/ AcceptError \/ CtrlC
     \/ Main
     \/ Dispatcher /\ UNCHANGED <<connVars, mainVars>>
     \/ \E c \in Conns : \/ Accept(c)
                         \/ Tick(c) /\ UNCHANGED mainVars
                         \/ Peer(c)

(* After main returns nothing happens any more.                            *)
Done == exited /\ UNCHANGED vars

Spec == Init /\ [][Next \/ Done]_vars
(* The tasks of the runtime and main are scheduled; the clients, ctrl-c    *)
(* and accept() owe nothing.                                               *)
FairSpec ==
  /\ Spec
  /\ WF_vars(Main /\ ~exited)
  /\ WF_vars(Dispatcher /\ ~exited /\ UNCHANGED <<connVars, mainVars>>)
  /\ \A c \in Conns : WF_vars(Tick(c) /\ ~exited /\ UNCHANGED mainVars)
-----------------------------------------------------------------------------
(* The state stays within its types and the room and every channel within  *)
(* their capacities.                                                       *)
TypeOK ==
  /\ BrokerTypeOK
  /\ ConnectionTypeOK
  /\ holding \in BOOLEAN /\ exited \in BOOLEAN

(* Two connections that are joined at the same time never have the same    *)
(* name up to case: register()'s check and insert under one lock.          *)
UniqueUsernames ==
  \A c, d \in Conns :
    pc[c] \in Registered /\ pc[d] \in Registered /\ c # d
      => Fold[name[c]] # Fold[name[d]]

(* Every connection from register() to leave() is found in the registry    *)
(* under its own key, so that a broadcast reaches it and unregister(),     *)
(* which goes by the key alone, removes its own entry.  Conversely an      *)
(* entry whose connection has ended was left by a failed read or write, or *)
(* by unregister() timing out on the lock, and by nothing else.            *)
RegistryConsistent ==
  /\ \A c \in Conns : pc[c] \in Registered => users[Fold[name[c]]] = c
  /\ \A k \in Keys : \A c \in Conns :
       users[k] = c =>
         \/ pc[c] \in Registered /\ Fold[name[c]] = k
         \/ pc[c] \in Ended /\ why[c] \in {"io", "lock"}

(* An entry of the registry changes hands only by way of the leave() of    *)
(* the connection it belongs to: no one else ever evicts or replaces it.   *)
OnlyOwnerRemoves ==
  [][\A k \in Keys : \A c \in Conns :
       users[k] = c /\ users'[k] # c =>
         users'[k] = NoConn /\ pc[c] = "leaving" /\ pc'[c] # "leaving"]_vars

(* The accept loop never has more than MAX_CONNECTIONS connections         *)
(* running, although it takes the permit before it accepts.                *)
ConnectionLimit == Cardinality(Active) <= MaxConnections
-----------------------------------------------------------------------------
(* What a connection has been written of the room, and what it will be.    *)
Received(c) == heard[c] \o rx[c]

(* The number of messages the dispatcher is done with as far as c goes.    *)
DoneFor(c) == Len(posted) - Len(room)
              - IF dpc = "collect" \/ c \in targets THEN 1 ELSE 0

Seat(c) == IF pc[c] \in Unregistered THEN "new"
           ELSE IF pc[c] \in Registered THEN "in" ELSE "out"

(* The server as the room its users see.                                   *)
Hall == INSTANCE ChatRoom WITH
  Users <- Conns,
  Msg <- RoomMsg,
  said <- posted,
  seat <- [c \in Conns |-> Seat(c)],
  given <- [c \in Conns |-> Received(c)],
  pos <- [c \in Conns |-> DoneFor(c)],
  missed <- lost

(* The server implements the room it promises: however connections,        *)
(* dispatcher, registry and channels interleave, every step is a step of   *)
(* ChatRoom.  In particular nobody is given a message but the next one,    *)
(* and nobody who is in is passed over without being in lost.              *)
RoomPromise == Hall!Spec

(* A joined connection that never missed an offer by a timeout has been    *)
(* given a gapless run of the room's history, in the room's order and      *)
(* without duplicates, up to the message being dispatched, and beginning   *)
(* no later than its own UserJoined.                                       *)
GapFree == Hall!GapFree

(* Even when offers time out, what one user says arrives at every other in *)
(* the order it was said, each message at most once: the line numbers of a *)
(* sender increase, after its UserJoined and before its UserLeft.          *)
SenderFifo == Hall!SenderFifo

(* A client is written nothing of the room before the Ok that answers its  *)
(* JOIN, although it is registered, and offered messages, before that; the *)
(* client takes the first line it reads for the answer.                    *)
AckFirst ==
  \A c \in Conns : heard[c] # <<>> => Ok(c) \in Range(replies[c])

(* "Should not happen for unauthenticated user" (tick_unauthenticated): no *)
(* broadcast is queued for, or on its way to, a connection that has not    *)
(* joined, not even after a JOIN that was refused.                         *)
UnauthHearsNothing ==
  \A c \in Conns : pc[c] \in Unregistered =>
    rx[c] = <<>> /\ c \notin targets /\ c \notin Senders

(* Lines of c the server has read to the end: every second fragment a      *)
(* client writes is a newline.  Lines it has answered: with an error, with *)
(* Ok, or by posting the message.  An Ok that follows the error of its own *)
(* JOIN, of which the room could not be told, is part of the same answer.  *)
FragmentsRead(c) == wrote[c] - Len(inbox[c])
LinesRead(c) == FragmentsRead(c) \div 2
Said(c) == {i \in 1..Len(posted) :
              posted[i].kind = "broadcast" /\ posted[i].from = c}
Belated(c) == \E i \in 2..Len(replies[c]) :
                /\ replies[c][i] = Ok(c)
                /\ replies[c][i - 1] = Err(c, "roomTimeout")
Answered(c) == Len(replies[c]) + Cardinality(Said(c))
               - IF Belated(c) THEN 1 ELSE 0

(* Between ticks every line read has had exactly one answer, whatever was  *)
(* interrupted or skipped on the way: no line is swallowed without a word, *)
(* none is answered twice, and after an over-long line the reader is again *)
(* at the beginning of a line.                                             *)
AnsweredOnce ==
  \A c \in Conns :
    /\ pc[c] \in {"unauth", "drain", "joined"} /\ c \notin writing
    /\ wrote[c] % 2 = 0 \/ sock[c] \in {"open", "stalled"}
    => LinesRead(c) = Answered(c)
-----------------------------------------------------------------------------
(* Shutdown completes whatever the clients do: neither a full channel nor  *)
(* a client that has stopped reading keeps the dispatcher from its flag.   *)
ShutdownCompletes == shutdown ~> exited

(* In a write to a peer that does not read.                                *)
Stuck(c) == c \in writing /\ ~Writable(c)

(* A joined client that closes its connection is eventually unregistered,  *)
(* whatever it wrote before, and whatever the others do.  Three things     *)
(* keep its entry: a reset, which ends the task by way of `?`; leave()     *)
(* timing out on the registry lock; and, for as long as it lasts, a write  *)
(* to a client that has closed its writing half and does not read, since   *)
(* write_all has no timeout.                                               *)
DisconnectCleansUp ==
  \A c \in Conns :
    pc[c] \in Registered /\ Finished(c)
      ~> \/ c \notin Senders \/ exited
         \/ sock[c] = "reset" \/ why[c] = "lock" \/ Stuck(c)

(* Once the clients fall silent, everything posted to the room since a     *)
(* user's own UserJoined has been written to that user, unless an offer to *)
(* them timed out.                                                         *)
EveryoneCatchesUp ==
  \A c \in Conns : <>[](
    /\ pc[c] \in Registered /\ c \notin lost
    /\ \E m \in Range(posted) : m.kind = "joined" /\ m.from = c
    => /\ pc[c] \in {"joined", "drain"} /\ rx[c] = <<>> /\ c \notin writing
       /\ Len(Received(c)) > 0
       /\ Received(c)[Len(Received(c))] = posted[Len(posted)])
-----------------------------------------------------------------------------
(* "When a user sends a leave message, or disconnects their client, the    *)
(* server should ... do any internal bookkeeping to clean up" (README.md): *)
(* no registry entry outlives its connection.                              *)
NoGhosts == \A c \in Senders : pc[c] # "gone"

(* "Leave notification is sent when a client disconnects"                  *)
(* (scripts/integration-tests.go): a user whose connection has ended by    *)
(* end of file or by LEAVE, without a room timeout, is announced.          *)
LeaveAnnounced ==
  \A c \in Conns :
    /\ pc[c] = "gone" /\ why[c] \in {"eof", "leave"} /\ name[c] # NoName
    /\ Err(c, "roomTimeout") \notin Range(replies[c])
    => UserLeft(c, name[c]) \in Range(posted)

(* "It should be able to receive a message from a user and process it."    *)
(* (README.md): a client that only ever writes whole commands is never     *)
(* told that its message was empty.                                        *)
NoLineLost ==
  \A c \in Conns : Err(c, "emptyMessage") \notin Range(replies[c])
=============================================================================
