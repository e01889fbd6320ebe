-------------------------------- MODULE Room --------------------------------
(***************************************************************************)
(* Room (server/src/chat/room.rs): one bounded FIFO channel through which  *)
(* every broadcast goes.  The sender sits in a RwLock<Option<..>> that is  *)
(* never write-locked and never emptied, and the receiver lives as long as *)
(* the process, so Busy, Poisoned and Closed cannot occur; a send either   *)
(* succeeds or times out on a full buffer.                                 *)
(***************************************************************************)
EXTENDS Messages

CONSTANT RoomCap   \* buffer length

(* Room::new raises a buffer length of 0 to 1.                             *)
ASSUME RoomAssumption == RoomCap \in Nat \ {0}

VARIABLES
  room,    \* the messages in the channel
  posted   \* history: every message ever accepted by the room, in order

roomVars == <<room, posted>>

RoomInit == room = <<>> /\ posted = <<>>

(* send_timeout returning Ok                                               *)
Send(m) ==
  /\ Len(room) < RoomCap
  /\ room' = Append(room, m)
  /\ posted' = Append(posted, m)

(* send_timeout returning Timeout, "message not sent"                      *)
SendTimeout ==
  /\ Len(room) = RoomCap
  /\ UNCHANGED roomVars

(* recv_timeout returning a message                                        *)
Recv == 
  /\ room # <<>>
  /\ room' = Tail(room)
  /\ UNCHANGED posted
=============================================================================
