------------------------------- MODULE Broker -------------------------------
(***************************************************************************)
(* MessageBroker (server/src/chat/broker.rs) and UserRegistry::broadcast:  *)
(* the dispatcher task takes one message at a time from the room, collects *)
(* the registered senders under the registry lock, and then, without the   *)
(* lock, offers the message to all of them concurrently.  Each offer ends  *)
(* by delivery, because the receiver is gone, or after SEND_TIMEOUT on a   *)
(* channel that stays full.  The next message waits for the last offer.    *)
(***************************************************************************)
EXTENDS Registry, Room

CONSTANTS
  ChanCap,   \* USER_CHANNEL_BUFFER_SIZE
  Events     \* what the environment does in a run: a subset of EventKinds

(* A peer closes or resets its connection, stops reading, sends a line in  *)
(* two pieces, writes nothing for READ_TIMEOUT; the registry lock stays    *)
(* contended; accept() fails; ctrl-c.                                      *)
EventKinds == {"close", "reset", "stall", "split", "silence", "lock",
               "acceptError", "ctrlC"}

ASSUME BrokerAssumption == ChanCap \in Nat \ {0} /\ Events \subseteq EventKinds

VARIABLES
  rx,       \* rx[c]: the messages queued in connection c's channel
  closed,   \* connections whose receiver has been dropped
  dpc,      \* where the dispatcher is
  dmsg,     \* the message it is dispatching, a sequence of length 0 or 1
  targets,  \* offers of dmsg still in flight
  stop,     \* shutdown_flag
  lost      \* history: connections that missed a message meant for them

chanVars == <<rx, closed>>
dispVars == <<dpc, dmsg, targets>>

(* The registry lock may be contended for longer than LOCK_TIMEOUT.        *)
LockTimeout == "lock" \in Events

BrokerInit ==
  /\ RegistryInit /\ RoomInit
  /\ rx = [c \in Conns |-> <<>>]
  /\ closed = {}
  /\ dpc = "check" /\ dmsg = <<>> /\ targets = {}
  /\ stop = FALSE
  /\ lost = {}

(* Dropping a receiver drops what is queued in it.                         *)
CloseRx(c) ==
  /\ rx' = [rx EXCEPT ![c] = <<>>]
  /\ closed' = closed \cup {c}
-----------------------------------------------------------------------------
CheckFlag ==
  /\ dpc = "check"
  /\ dpc' = IF stop THEN "stopped" ELSE "recv"
  /\ UNCHANGED <<users, room, posted, chanVars, dmsg, targets, stop, lost>>

(* Mutant: the channel hands out the newest message first.                 *)
ReceiveNewest ==
  /\ dpc = "recv" /\ room # <<>>
  /\ dmsg' = <<room[Len(room)]>>
  /\ room' = SubSeq(room, 1, Len(room) - 1)
  /\ dpc' = "collect"
  /\ UNCHANGED <<users, posted, chanVars, targets, stop, lost>>

Receive ==
  /\ dpc = "recv"
  /\ Recv
  /\ dmsg' = <<Head(room)>>
  /\ dpc' = "collect"
  /\ UNCHANGED <<users, chanVars, targets, stop, lost>>

ReceiveTimeout ==
  /\ dpc = "recv"
  /\ room = <<>>
  /\ dpc' = "check"
  /\ UNCHANGED <<users, room, posted, chanVars, dmsg, targets, stop, lost>>

Collect ==
  /\ dpc = "collect"
  /\ targets' = Senders
  /\ dpc' = "send"
  /\ UNCHANGED <<users, room, posted, chanVars, dmsg, stop, lost>>

(* broadcast() fails with LockTimeout; unwrap_or(0) swallows it and the    *)
(* message reaches nobody.                                                 *)
CollectTimeout ==
  /\ dpc = "collect"
  /\ LockTimeout
  /\ lost' = lost \cup Senders
  /\ dmsg' = <<>>
  /\ dpc' = "check"
  /\ UNCHANGED <<users, room, posted, chanVars, targets, stop>>

(* Mutant: an unbounded channel.                                           *)
DeliverUnbounded(c) ==
  /\ dpc = "send" /\ c \in targets \ closed
  /\ rx' = [rx EXCEPT ![c] = @ \o dmsg]
  /\ targets' = targets \ {c}
  /\ UNCHANGED <<users, room, posted, closed, dpc, dmsg, stop, lost>>

Deliver(c) ==
  /\ dpc = "send" /\ c \in targets
  /\ c \notin closed
  /\ Len(rx[c]) < ChanCap
  /\ rx' = [rx EXCEPT ![c] = @ \o dmsg]
  /\ targets' = targets \ {c}
  /\ UNCHANGED <<users, room, posted, closed, dpc, dmsg, stop, lost>>

DeliverClosed(c) ==
  /\ dpc = "send" /\ c \in targets
  /\ c \in closed
  /\ targets' = targets \ {c}
  /\ UNCHANGED <<users, room, posted, chanVars, dpc, dmsg, stop, lost>>

(* Mutant: send() without a timeout.                                       *)
DeliverWaits(c) == FALSE

DeliverTimeout(c) ==
  /\ dpc = "send" /\ c \in targets
  /\ c \notin closed
  /\ Len(rx[c]) = ChanCap
  /\ targets' = targets \ {c}
  /\ lost' = lost \cup {c}
  /\ UNCHANGED <<users, room, posted, chanVars, dpc, dmsg, stop>>

(* Mutant: take the next message while offers of this one are in flight.   *)
DispatchedEarly ==
  /\ dpc = "send"
  /\ dmsg' = <<>>
  /\ dpc' = "check"
  /\ UNCHANGED <<users, room, posted, chanVars, targets, stop, lost>>

Dispatched ==
  /\ dpc = "send" /\ targets = {}
  /\ dmsg' = <<>>
  /\ dpc' = "check"
  /\ UNCHANGED <<users, room, posted, chanVars, targets, stop, lost>>

Dispatcher ==
  \/ CheckFlag
  \/ Receive
  \/ ReceiveTimeout
  \/ Collect
  \/ CollectTimeout
  \/ Dispatched
  \/ \E c \in Conns : Deliver(c) \/ DeliverClosed(c) \/ DeliverTimeout(c)

brokerVars == <<users, room, posted, rx, closed, dpc, dmsg, targets, stop, lost>>
-----------------------------------------------------------------------------
BrokerTypeOK ==
  /\ users \in [Keys -> Conns \cup {NoConn}]
  /\ room \in Seq(RoomMsg) /\ Len(room) <= RoomCap
  /\ posted \in Seq(RoomMsg)
  /\ rx \in [Conns -> Seq(RoomMsg)]
  /\ \A c \in Conns : Len(rx[c]) <= ChanCap
  /\ closed \subseteq Conns /\ targets \subseteq Conns /\ lost \subseteq Conns
  /\ dpc \in {"check", "recv", "collect", "send", "stopped"}
  /\ dmsg \in Seq(RoomMsg)
  /\ Len(dmsg) = IF dpc \in {"collect", "send"} THEN 1 ELSE 0
  /\ stop \in BOOLEAN
=============================================================================
