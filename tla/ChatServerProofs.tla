-------------------------- MODULE ChatServerProofs --------------------------
(***************************************************************************)
(* Proofs about the server for any number of connections, names and keys,  *)
(* any capacities and any set of environment events.                       *)
(***************************************************************************)
EXTENDS ChatServer, SequenceTheorems, TLAPS

(* A leaf that names no prover is left to Zenon; those that need numbers,  *)
(* sequences or large functions cite SMT.                                  *)
USE Zenon

-----------------------------------------------------------------------------
(* Sequences and messages.                                                 *)

(* The messages put into the room by AnnounceJoined, Post and AnnounceLeft *)
(* are room messages.                                                      *)
LEMMA RoomMsgs ==
  ASSUME NEW c \in Conns, NEW n \in Names \cup {NoName}, NEW i \in Ids
  PROVE  /\ UserJoined(c, n) \in RoomMsg
         /\ UserLeft(c, n) \in RoomMsg
         /\ Broadcast(c, n, i) \in RoomMsg
  BY LinesAssumption, SMT DEF UserJoined, UserLeft, Broadcast, RoomMsg, Ids

(* The answers send_message_to_client writes are replies.                  *)
LEMMA Replies ==
  ASSUME NEW c \in Conns, NEW r \in Reasons
  PROVE  Ok(c) \in Reply /\ Err(c, r) \in Reply
  BY LinesAssumption, SMT DEF Ok, Err, Reply, Ids

(* What the read buffer holds has a name and a number.                     *)
LEMMA BufFields ==
  ASSUME NEW b \in Body \cup {NoBody}
  PROVE  /\ b.name \in Names \cup {NoName}
         /\ b.id \in Ids
         /\ b.cmd = "join" => b.name \in Names
         /\ DecodeError(b) \in Reasons
  BY LinesAssumption, SMT DEF Body, NoBody, DecodeError, Reasons, Ids

(* A read takes a body, or nothing, off the front of the stream.           *)
LEMMA LineType ==
  ASSUME NEW c \in Conns, ConnectionTypeOK, HasLine(c)
  PROVE  /\ Line(c) \in Body \cup {NoBody}
         /\ Rest(c) \in Seq(Body \cup {Newline})
  <1>1. inbox[c] \in Seq(Body \cup {Newline}) /\ buf[c] \in Body \cup {NoBody}
    BY DEF ConnectionTypeOK
  <1>2. Line(c) \in Body \cup {NoBody}
    BY <1>1, SMT DEF Line
  <1>3. Rest(c) \in Seq(Body \cup {Newline})
    <2> DEFINE F == Body \cup {Newline}
               s == inbox[c]
    <2>1. CASE s = <<>>
      BY <1>1, <2>1 DEF Rest
    <2>2. CASE s # <<>>
      <3> HIDE DEF F, s
      <3>1. s \in Seq(F)
        BY <1>1 DEF F, s
      <3>2. Tail(s) \in Seq(F) /\ Len(Tail(s)) = Len(s) - 1 /\ Len(s) \in Nat
        BY <2>2, <3>1, SMT
      <3>3. CASE Len(s) = 1
        BY <2>2, <3>2, <3>3 DEF Rest, s, F
      <3>4. CASE Len(s) # 1
        <4>1. Len(s) # 0
          BY <2>2, <3>1, SMT
        <4>2. Tail(s) # <<>>
          BY <3>2, <3>4, <4>1, SMT
        <4>3. Tail(Tail(s)) \in Seq(F)
          BY <3>2, <4>2, SMT
        <4> QED  BY <2>2, <3>2, <4>3 DEF Rest, s, F
      <3> QED  BY <3>3, <3>4
    <2> QED  BY <2>1, <2>2
  <1> QED  BY <1>2, <1>3
-----------------------------------------------------------------------------
(* Type correctness of the dispatcher's steps.                             *)
LEMMA DispatcherType ==
  BrokerTypeOK /\ Dispatcher => BrokerTypeOK'
  <1> SUFFICES ASSUME BrokerTypeOK, Dispatcher PROVE BrokerTypeOK'
    OBVIOUS
  <1> USE RegistryAssumption, RoomAssumption, BrokerAssumption
  <1>1. CASE CheckFlag
    BY <1>1 DEF CheckFlag, BrokerTypeOK, chanVars
  <1>2. CASE Receive
    BY <1>2, SMT DEF Receive, Recv, BrokerTypeOK, chanVars
  <1>3. CASE ReceiveTimeout
    BY <1>3 DEF ReceiveTimeout, BrokerTypeOK, chanVars
  <1>4. CASE Collect
    BY <1>4 DEF Collect, Senders, BrokerTypeOK, chanVars
  <1>5. CASE CollectTimeout
    BY <1>5, SMT DEF CollectTimeout, Senders, BrokerTypeOK, chanVars
  <1>6. CASE Dispatched
    BY <1>6, SMT DEF Dispatched, BrokerTypeOK, chanVars
  <1>7. ASSUME NEW c \in Conns, Deliver(c) PROVE BrokerTypeOK'
    <2>1. rx[c] \in Seq(RoomMsg) /\ dmsg \in Seq(RoomMsg) /\ Len(dmsg) = 1
      BY <1>7 DEF Deliver, BrokerTypeOK
    <2>2. rx[c] \o dmsg \in Seq(RoomMsg) /\ Len(rx[c] \o dmsg) = Len(rx[c]) + 1
      <3>1. Len(rx[c] \o dmsg) = Len(rx[c]) + Len(dmsg)
        BY <2>1, ConcatProperties
      <3> QED  BY <2>1, <3>1, SMT
    <2>3. /\ rx' \in [Conns -> Seq(RoomMsg)]
          /\ \A d \in Conns : Len(rx'[d]) <= ChanCap
      BY <1>7, <2>1, <2>2, SMT DEF Deliver, BrokerTypeOK
    <2> QED  BY <1>7, <2>3 DEF Deliver, BrokerTypeOK
  <1>8. ASSUME NEW c \in Conns, DeliverClosed(c) PROVE BrokerTypeOK'
    BY <1>8 DEF DeliverClosed, BrokerTypeOK, chanVars
  <1>9. ASSUME NEW c \in Conns, DeliverTimeout(c) PROVE BrokerTypeOK'
    BY <1>9 DEF DeliverTimeout, BrokerTypeOK, chanVars
  <1> QED
    BY <1>1, <1>2, <1>3, <1>4, <1>5, <1>6, <1>7, <1>8, <1>9 DEF Dispatcher
-----------------------------------------------------------------------------
(* Ending the task keeps pc, why and the channel well-typed.               *)
LEMMA EndType ==
  ASSUME NEW c \in Conns, TypeOK,
         NEW r \in {"io", "eof", "shutdown", "timeout", "tooLong"},
         End(c, r)
  PROVE  /\ pc' \in [Conns -> Unregistered \cup Registered \cup Ended]
         /\ why' \in [Conns -> {"none", "io", "lock", "eof", "leave",
                                 "shutdown", "timeout", "tooLong"}]
         /\ rx' \in [Conns -> Seq(RoomMsg)]
         /\ \A d \in Conns : Len(rx'[d]) <= ChanCap
         /\ closed' \subseteq Conns
  BY BrokerAssumption, SMT
  DEF End, CloseRx, TypeOK, ConnectionTypeOK, BrokerTypeOK, Ended

(* A write that does not fail goes on at the place it is told.             *)
LEMMA PutType ==
  ASSUME NEW c \in Conns, TypeOK,
         NEW next \in {"unauth", "ackJoin", "drain", "closing"},
         Put(c, next)
  PROVE  /\ pc' \in [Conns -> Unregistered \cup Registered \cup Ended]
         /\ why' = why
         /\ writing' \subseteq Conns
  BY DEF Put, TypeOK, ConnectionTypeOK, Unregistered, Registered

(* The part of TypeOK that a write can disturb.                            *)
WriteTypeOK ==
  /\ pc \in [Conns -> Unregistered \cup Registered \cup Ended]
  /\ why \in [Conns -> {"none", "io", "lock", "eof", "leave", "shutdown",
                        "timeout", "tooLong"}]
  /\ replies \in [Conns -> Seq(Reply)]
  /\ heard \in [Conns -> Seq(RoomMsg)]
  /\ writing \subseteq Conns
  /\ rx \in [Conns -> Seq(RoomMsg)]
  /\ \A c \in Conns : Len(rx[c]) <= ChanCap
  /\ closed \subseteq Conns

(* Both ways of writing, of a reply and of a queued message, preserve it.  *)
LEMMA WriteType ==
  ASSUME NEW c \in Conns, TypeOK,
         NEW next \in {"unauth", "ackJoin", "drain", "closing"},
         \/ \E line \in Reply : WriteReply(c, line, next)
         \/ WriteQueued(c, next)
  PROVE  WriteTypeOK'
  <1>1. CASE WriteFails(c)
    BY <1>1, EndType
    DEF WriteFails, WriteTypeOK, outVars, TypeOK, ConnectionTypeOK
  <1>2. ASSUME NEW line \in Reply, Put(c, next),
               replies' = [replies EXCEPT ![c] = Append(@, line)],
               UNCHANGED <<heard, chanVars>>
        PROVE  WriteTypeOK'
    <2>1. /\ replies[c] \in Seq(Reply) /\ replies \in [Conns -> Seq(Reply)]
      BY DEF TypeOK, ConnectionTypeOK
    <2>2. Append(replies[c], line) \in Seq(Reply)
      BY <1>2, <2>1, SMT
    <2>3. replies' \in [Conns -> Seq(Reply)]
      BY <1>2, <2>1, <2>2
    <2> QED
      BY <1>2, <2>3, PutType
      DEF WriteTypeOK, chanVars, TypeOK, BrokerTypeOK, ConnectionTypeOK
  <1>3. CASE /\ rx[c] # <<>> /\ Put(c, next)
             /\ heard' = [heard EXCEPT ![c] = Append(@, Head(rx[c]))]
             /\ rx' = [rx EXCEPT ![c] = Tail(@)]
             /\ UNCHANGED <<replies, closed>>
    <2>1. /\ rx[c] \in Seq(RoomMsg) /\ Len(rx[c]) <= ChanCap /\ ChanCap \in Nat
          /\ heard[c] \in Seq(RoomMsg) /\ heard \in [Conns -> Seq(RoomMsg)]
      BY BrokerAssumption DEF TypeOK, BrokerTypeOK, ConnectionTypeOK
    <2>2. /\ Tail(rx[c]) \in Seq(RoomMsg) /\ Len(Tail(rx[c])) = Len(rx[c]) - 1
          /\ Head(rx[c]) \in RoomMsg
      BY <1>3, <2>1, HeadTailProperties
    <2>3. /\ rx' \in [Conns -> Seq(RoomMsg)]
          /\ \A d \in Conns : Len(rx'[d]) <= ChanCap
      BY <1>3, <2>1, <2>2, SMT DEF TypeOK, BrokerTypeOK
    <2>4. Append(heard[c], Head(rx[c])) \in Seq(RoomMsg)
      BY <2>1, <2>2, SMT
    <2>5. heard' \in [Conns -> Seq(RoomMsg)]
      BY <1>3, <2>1, <2>4
    <2>6. /\ why' = why /\ writing' \subseteq Conns
          /\ pc' \in [Conns -> Unregistered \cup Registered \cup Ended]
      BY <1>3, PutType
    <2>7. UNCHANGED <<why, replies, closed>>
      BY <1>3, <2>6
    <2> QED
      BY <2>3, <2>5, <2>6, <2>7
      DEF WriteTypeOK, TypeOK, BrokerTypeOK, ConnectionTypeOK
  <1> QED  BY <1>1, <1>2, <1>3 DEF WriteReply, WriteQueued

(* So does finishing a suspended write.                                    *)
LEMMA FlushType ==
  ASSUME NEW c \in Conns, TypeOK, Flush(c), UNCHANGED mainVars
  PROVE  TypeOK'
  <1>1. CASE End(c, "io")
    BY <1>1, EndType
    DEF Flush, TypeOK, ConnectionTypeOK, BrokerTypeOK, mainVars, roomVars,
        others, dispVars, peerVars
  <1>2. CASE UNCHANGED <<pc, why, chanVars>>
    BY <1>2
    DEF Flush, TypeOK, ConnectionTypeOK, BrokerTypeOK, mainVars, roomVars,
        chanVars, others, dispVars, peerVars
  <1> QED  BY <1>1, <1>2 DEF Flush
-----------------------------------------------------------------------------
(* Forwarding a message to the room keeps the room well-typed.             *)
LEMMA SendType ==
  ASSUME BrokerTypeOK, NEW m \in RoomMsg, Send(m) \/ SendTimeout
  PROVE  /\ room' \in Seq(RoomMsg) /\ Len(room') <= RoomCap
         /\ posted' \in Seq(RoomMsg)
  <1>1. CASE Send(m)
    <2>1. room \in Seq(RoomMsg) /\ posted \in Seq(RoomMsg) /\ Len(room) < RoomCap
      BY <1>1 DEF BrokerTypeOK, Send
    <2>2. /\ Append(room, m) \in Seq(RoomMsg) /\ Append(posted, m) \in Seq(RoomMsg)
          /\ Len(Append(room, m)) = Len(room) + 1 /\ Len(room) \in Nat
      BY <2>1, SMT
    <2> QED  BY <1>1, <2>1, <2>2, RoomAssumption, SMT DEF Send
  <1>2. CASE SendTimeout
    BY <1>2 DEF BrokerTypeOK, SendTimeout, roomVars
  <1> QED  BY <1>1, <1>2

(* The first fragment, where it is not the newline e.                      *)
LEMMA FirstFragment ==
  ASSUME NEW S, NEW e, NEW s \in Seq(S \cup {e}), s # <<>>, Head(s) # e
  PROVE  Head(s) \in S /\ Tail(s) \in Seq(S \cup {e})
  BY SMT

(* Type correctness of the connection task's steps.                        *)
LEMMA TickType ==
  ASSUME NEW c \in Conns, TypeOK, Tick(c), UNCHANGED mainVars
  PROVE  TypeOK'
  <1> USE RegistryAssumption
  <1>0. /\ buf[c].name \in Names \cup {NoName} /\ buf[c].id \in Ids
        /\ name[c] \in Names \cup {NoName}
        /\ inbox[c] \in Seq(Body \cup {Newline})
        /\ ConnectionTypeOK /\ BrokerTypeOK
    BY BufFields DEF TypeOK, ConnectionTypeOK
  <1>1. CASE ReadPart(c)
    <2>1. Head(inbox[c]) \in Body /\ Tail(inbox[c]) \in Seq(Body \cup {Newline})
      <3>1. inbox[c] # <<>> /\ Head(inbox[c]) # Newline
        BY <1>1 DEF ReadPart, HasLine
      <3> QED  BY <1>0, <3>1, FirstFragment
    <2>2. /\ inbox' \in [Conns -> Seq(Body \cup {Newline})]
          /\ buf' \in [Conns -> Body \cup {NoBody}]
      BY <1>0, <1>1, <2>1 DEF ReadPart, ConnectionTypeOK
    <2> QED
      BY <1>1, <2>2, ZenonT(60)
      DEF ReadPart, TypeOK, ConnectionTypeOK, BrokerTypeOK, mainVars, roomVars,
          chanVars, outVars, others, dispVars, peerVars
  <1>2. CASE UnauthDisconnect(c)
    <2>1. \E r \in {"io", "eof", "shutdown", "timeout", "tooLong"} : End(c, r)
      BY <1>2 DEF UnauthDisconnect
    <2> QED
      BY <1>2, <2>1, EndType, ZenonT(60)
      DEF UnauthDisconnect, TypeOK, ConnectionTypeOK, BrokerTypeOK, mainVars,
          roomVars, outVars, others, dispVars, peerVars
  <1>3. CASE JoinAccepted(c)
    <2>1. /\ Line(c) \in Body \cup {NoBody} /\ Line(c).name \in Names
          /\ Rest(c) \in Seq(Body \cup {Newline})
      BY <1>0, <1>3, LineType, BufFields DEF JoinAccepted, TakeLine
    <2>2. Trim[Line(c).name] \in Names /\ Fold[Trim[Line(c).name]] \in Keys
      BY <2>1
    <2>3. users' \in [Keys -> Conns \cup {NoConn}]
      BY <1>0, <1>3, <2>2 DEF JoinAccepted, Register, BrokerTypeOK
    <2>4. /\ name' \in [Conns -> Names \cup {NoName}]
          /\ buf' \in [Conns -> Body \cup {NoBody}]
      BY <1>0, <1>3, <2>1, <2>2 DEF JoinAccepted, ConnectionTypeOK
    <2>5. inbox' \in [Conns -> Seq(Body \cup {Newline})]
      BY <1>0, <1>3, <2>1 DEF JoinAccepted, TakeLine, ConnectionTypeOK
    <2>6. pc' \in [Conns -> Unregistered \cup Registered \cup Ended]
      BY <1>0, <1>3 DEF JoinAccepted, ConnectionTypeOK, Registered
    <2> QED
      BY <1>3, <2>3, <2>4, <2>5, <2>6, ZenonT(60)
      DEF JoinAccepted, TypeOK, ConnectionTypeOK, BrokerTypeOK, mainVars,
          roomVars, chanVars, outVars, others, dispVars, peerVars
  <1>4. CASE UnauthReject(c)
    <2>1. /\ Line(c) \in Body \cup {NoBody}
          /\ Rest(c) \in Seq(Body \cup {Newline})
      BY <1>0, <1>4, LineType DEF UnauthReject, TakeLine
    <2>2. PICK r \in Reasons : WriteReply(c, Err(c, r), "unauth")
      <3>1. DecodeError(Line(c)) \in Reasons
        BY <2>1, BufFields
      <3> QED  BY <1>4, <3>1 DEF UnauthReject, JoinRefusal, Reasons
    <2>3. Err(c, r) \in Reply
      BY Replies
    <2> QED
      BY <1>4, <2>1, <2>2, <2>3, WriteType, ZenonT(60)
      DEF UnauthReject, WriteTypeOK, TakeLine, TypeOK, ConnectionTypeOK, BrokerTypeOK,
          mainVars, roomVars, outVars, others, dispVars, peerVars
  <1>5. CASE AnnounceJoined(c)
    <2>1. UserJoined(c, buf[c].name) \in RoomMsg
      BY <1>0, RoomMsgs
    <2>2. /\ room' \in Seq(RoomMsg) /\ Len(room') <= RoomCap
          /\ posted' \in Seq(RoomMsg)
      BY <1>0, <1>5, <2>1, SendType DEF AnnounceJoined
    <2> QED
      BY <1>5, <2>2, ZenonT(60)
      DEF AnnounceJoined, TypeOK, ConnectionTypeOK, BrokerTypeOK, mainVars,
          chanVars, outVars, others, dispVars, peerVars, Registered
  <1>6. CASE AckJoin(c)
    <2>1. PICK l \in Reply, next \in {"ackJoin", "drain"} :
            WriteReply(c, l, next)
      <3>1. Ok(c) \in Reply /\ Err(c, "roomTimeout") \in Reply
        BY Replies DEF Reasons
      <3> QED  BY <1>6, <3>1 DEF AckJoin
    <2>2. UNCHANGED <<users, roomVars, name, inbox, buf, others>>
      BY <1>6 DEF AckJoin
    <2>3. WriteTypeOK'
      BY <2>1, WriteType
    <2> QED
      BY <2>2, <2>3, ZenonT(60)
      DEF TypeOK, WriteTypeOK, ConnectionTypeOK, BrokerTypeOK, mainVars, roomVars, others,
          dispVars, peerVars
  <1>7. CASE DrainOne(c)
    BY <1>7, WriteType, ZenonT(60)
    DEF DrainOne, WriteTypeOK, TypeOK, ConnectionTypeOK, BrokerTypeOK, mainVars, roomVars,
        outVars, others, dispVars, peerVars
  <1>8. CASE DrainDone(c)
    BY <1>8, ZenonT(60)
    DEF DrainDone, TypeOK, ConnectionTypeOK, BrokerTypeOK, mainVars, roomVars,
        chanVars, outVars, others, dispVars, peerVars, Registered
  <1>9. CASE JoinedBroadcast(c)
    BY <1>9, WriteType, ZenonT(60)
    DEF JoinedBroadcast, WriteTypeOK, TypeOK, ConnectionTypeOK, BrokerTypeOK, mainVars,
        roomVars, outVars, others, dispVars, peerVars
  <1>10. CASE JoinedTimeout(c)
    <2>1. pc' \in [Conns -> Unregistered \cup Registered \cup Ended]
      BY <1>0, <1>10 DEF JoinedTimeout, ConnectionTypeOK, Registered
    <2> QED
      BY <1>10, <2>1, ZenonT(60)
      DEF JoinedTimeout, TypeOK, ConnectionTypeOK, BrokerTypeOK, mainVars,
          roomVars, chanVars, outVars, others, dispVars, peerVars
  <1>11. CASE JoinedReadError(c)
    BY <1>11, EndType, ZenonT(60)
    DEF JoinedReadError, TypeOK, ConnectionTypeOK, BrokerTypeOK, mainVars,
        roomVars, outVars, others, dispVars, peerVars
  <1>12. CASE JoinedTooLong(c)
    <2>1. inbox' \in [Conns -> Seq(Body \cup {Newline})]
      BY <1>0, <1>12, SMT DEF JoinedTooLong, TooLong, ConnectionTypeOK
    <2>2. pc' \in [Conns -> Unregistered \cup Registered \cup Ended]
      BY <1>0, <1>12 DEF JoinedTooLong, ConnectionTypeOK, Registered
    <2> QED
      BY <1>12, <2>1, <2>2, ZenonT(60)
      DEF JoinedTooLong, TypeOK, ConnectionTypeOK, BrokerTypeOK, mainVars,
          roomVars, chanVars, outVars, others, dispVars, peerVars
  <1>13. CASE SkipLine(c)
    <2>1. Err(c, "messageTooLong") \in Reply
      BY Replies DEF Reasons
    <2>2. inbox' \in [Conns -> Seq(Body \cup {Newline})]
      BY <1>0, <1>13, SMT DEF SkipLine, ConnectionTypeOK
    <2> QED
      BY <1>13, <2>1, <2>2, WriteType, ZenonT(60)
      DEF SkipLine, WriteTypeOK, TypeOK, ConnectionTypeOK, BrokerTypeOK, mainVars, roomVars,
          outVars, others, dispVars, peerVars
  <1>14. CASE JoinedReject(c)
    <2>1. /\ Line(c) \in Body \cup {NoBody}
          /\ Rest(c) \in Seq(Body \cup {Newline})
      BY <1>0, <1>14, LineType DEF JoinedReject, TakeLine
    <2>2. PICK r \in Reasons : WriteReply(c, Err(c, r), "drain")
      <3>1. DecodeError(Line(c)) \in Reasons
        BY <2>1, BufFields
      <3> QED  BY <1>14, <3>1 DEF JoinedReject, Reasons
    <2>3. Err(c, r) \in Reply
      BY Replies
    <2> QED
      BY <1>14, <2>1, <2>2, <2>3, WriteType, ZenonT(60)
      DEF JoinedReject, WriteTypeOK, TakeLine, TypeOK, ConnectionTypeOK, BrokerTypeOK,
          mainVars, roomVars, outVars, others, dispVars, peerVars
  <1>15. CASE JoinedSend(c)
    <2>1. /\ Line(c) \in Body \cup {NoBody}
          /\ Rest(c) \in Seq(Body \cup {Newline})
      BY <1>0, <1>15, LineType DEF JoinedSend, TakeLine
    <2> QED
      BY <1>15, <2>1, SMTT(30)
      DEF JoinedSend, TakeLine, TypeOK, ConnectionTypeOK, BrokerTypeOK,
          mainVars, roomVars, chanVars, outVars, others, dispVars, peerVars, Registered
  <1>16. CASE Post(c)
    <2>1. Broadcast(c, name[c], buf[c].id) \in RoomMsg
      BY <1>0, RoomMsgs
    <2>2. /\ room' \in Seq(RoomMsg) /\ Len(room') <= RoomCap
          /\ posted' \in Seq(RoomMsg)
      BY <1>0, <1>16, <2>1, SendType DEF Post
    <2> QED
      BY <1>16, <2>2, ZenonT(60)
      DEF Post, TypeOK, ConnectionTypeOK, BrokerTypeOK, mainVars, chanVars,
          outVars, others, dispVars, peerVars, Registered
  <1>23. CASE PostError(c)
    <2>1. Err(c, "roomTimeout") \in Reply
      BY Replies DEF Reasons
    <2> QED
      BY <1>23, <2>1, WriteType, ZenonT(60)
      DEF PostError, WriteTypeOK, TypeOK, ConnectionTypeOK, BrokerTypeOK, mainVars, roomVars,
          outVars, others, dispVars, peerVars
  <1>17. CASE JoinedLeave(c)
    <2>1. Rest(c) \in Seq(Body \cup {Newline})
      BY <1>0, <1>17, LineType DEF JoinedLeave, TakeLine
    <2>2. inbox' \in [Conns -> Seq(Body \cup {Newline})]
      BY <1>0, <1>17, <2>1 DEF JoinedLeave, TakeLine, ConnectionTypeOK
    <2>3. /\ pc' \in [Conns -> Unregistered \cup Registered \cup Ended]
          /\ why' \in [Conns -> {"none", "io", "lock", "eof", "leave",
                                 "shutdown", "timeout", "tooLong"}]
      BY <1>0, <1>17 DEF JoinedLeave, Closing, ConnectionTypeOK, Registered
    <2> QED
      BY <1>17, <2>2, <2>3, ZenonT(60)
      DEF JoinedLeave, TypeOK, ConnectionTypeOK, BrokerTypeOK, mainVars,
          roomVars, chanVars, outVars, others, dispVars, peerVars
  <1>18. CASE JoinedEof(c)
    <2>1. /\ pc' \in [Conns -> Unregistered \cup Registered \cup Ended]
          /\ why' \in [Conns -> {"none", "io", "lock", "eof", "leave",
                                 "shutdown", "timeout", "tooLong"}]
      BY <1>0, <1>18 DEF JoinedEof, Closing, ConnectionTypeOK, Registered
    <2> QED
      BY <1>18, <2>1, ZenonT(60)
      DEF JoinedEof, TypeOK, ConnectionTypeOK, BrokerTypeOK, mainVars,
          roomVars, chanVars, outVars, others, dispVars, peerVars
  <1>19. CASE JoinedShutdown(c)
    <2>1. /\ pc' \in [Conns -> Unregistered \cup Registered \cup Ended]
          /\ why' \in [Conns -> {"none", "io", "lock", "eof", "leave",
                                 "shutdown", "timeout", "tooLong"}]
      BY <1>0, <1>19 DEF JoinedShutdown, Closing, ConnectionTypeOK, Registered
    <2> QED
      BY <1>19, <2>1, ZenonT(60)
      DEF JoinedShutdown, TypeOK, ConnectionTypeOK, BrokerTypeOK, mainVars,
          roomVars, chanVars, outVars, others, dispVars, peerVars
  <1>20. CASE LastDrain(c)
    <2>1. CASE WriteQueued(c, "closing")
      BY <1>20, <2>1, WriteType, ZenonT(60)
      DEF LastDrain, WriteTypeOK, TypeOK, ConnectionTypeOK, BrokerTypeOK, mainVars, roomVars,
          outVars, others, dispVars, peerVars
    <2>2. CASE pc' = [pc EXCEPT ![c] = "leaving"] /\ UNCHANGED <<why, chanVars, outVars>>
      <3>1. pc' \in [Conns -> Unregistered \cup Registered \cup Ended]
        BY <1>0, <2>2 DEF ConnectionTypeOK, Registered
      <3> QED
        BY <1>20, <2>2, <3>1, ZenonT(60)
        DEF LastDrain, TypeOK, ConnectionTypeOK, BrokerTypeOK, mainVars, roomVars,
            chanVars, outVars, others, dispVars, peerVars
    <2> QED  BY <1>20, <2>1, <2>2 DEF LastDrain
  <1>21. CASE Leave(c)
    <2>1. users' \in [Keys -> Conns \cup {NoConn}]
      BY <1>21 DEF Leave, Unregister, TypeOK, BrokerTypeOK
    <2>2. /\ rx' \in [Conns -> Seq(RoomMsg)] /\ closed' \subseteq Conns
          /\ \A d \in Conns : Len(rx'[d]) <= ChanCap
      <3>1. CloseRx(c)
        BY <1>21 DEF Leave
      <3> QED  BY <3>1, BrokerAssumption, SMT DEF CloseRx, TypeOK, BrokerTypeOK
    <2>3. BrokerTypeOK'
      BY <1>21, <2>1, <2>2, ZenonT(60)
      DEF Leave, TypeOK, BrokerTypeOK, roomVars, outVars, others, dispVars
    <2>4. ConnectionTypeOK'
      BY <1>21
      DEF Leave, TypeOK, ConnectionTypeOK, outVars, others, peerVars, Ended
    <2> QED  BY <2>3, <2>4 DEF TypeOK, mainVars
  <1>22. CASE AnnounceLeft(c)
    <2>1. UserLeft(c, name[c]) \in RoomMsg
      BY <1>0, RoomMsgs
    <2>2. /\ room' \in Seq(RoomMsg) /\ Len(room') <= RoomCap
          /\ posted' \in Seq(RoomMsg)
      BY <1>0, <1>22, <2>1, SendType DEF AnnounceLeft
    <2> QED
      BY <1>22, <2>2, ZenonT(60)
      DEF AnnounceLeft, TypeOK, ConnectionTypeOK, BrokerTypeOK, mainVars,
          chanVars, outVars, others, dispVars, peerVars, Ended
  <1>24. CASE LeftError(c)
    <2>1. replies' \in [Conns -> Seq(Reply)]
      <3>1. replies[c] \in Seq(Reply) /\ replies \in [Conns -> Seq(Reply)]
        BY DEF TypeOK, ConnectionTypeOK
      <3>2. Append(replies[c], Err(c, "roomTimeout")) \in Seq(Reply)
        BY <3>1, Replies, SMT DEF Reasons
      <3>3. \/ replies' = replies
            \/ replies' = [replies EXCEPT ![c] = Append(@, Err(c, "roomTimeout"))]
        BY <1>24 DEF LeftError
      <3> QED  BY <3>1, <3>2, <3>3
    <2> QED
      BY <1>24, <2>1, ZenonT(60)
      DEF LeftError, TypeOK, ConnectionTypeOK, BrokerTypeOK, mainVars,
          roomVars, chanVars, outVars, others, dispVars, peerVars, Ended
  <1> QED
    BY <1>1, <1>2, <1>3, <1>4, <1>5, <1>6, <1>7, <1>8, <1>9, <1>10, <1>11,
       <1>12, <1>13, <1>14, <1>15, <1>16, <1>17, <1>18, <1>19, <1>20, <1>21,
       <1>22, <1>23, <1>24, FlushType
    DEF Tick
-----------------------------------------------------------------------------
(* Type correctness of the steps of main and of the clients.               *)
LEMMA MainType ==
  ASSUME TypeOK, AcquirePermit \/ AcceptError \/ CtrlC \/ Main
  PROVE  TypeOK'
  BY DEF AcquirePermit, AcceptError, CtrlC, Main, StopBroker, Exit, TypeOK,
         BrokerTypeOK, ConnectionTypeOK, brokerVars, connVars, mainVars,
         peerVars, outVars, roomVars, chanVars, dispVars

(* Accepting a connection starts its task in a well-typed state.           *)
LEMMA AcceptType ==
  ASSUME NEW c \in Conns, TypeOK, Accept(c)
  PROVE  TypeOK'
  BY DEF Accept, TypeOK, BrokerTypeOK, ConnectionTypeOK, brokerVars, peerVars,
         outVars, Unregistered

(* Whatever a client does leaves the state well-typed.                     *)
LEMMA PeerType ==
  ASSUME NEW c \in Conns, TypeOK, Peer(c)
  PROVE  TypeOK'
  <1>0. inbox[c] \in Seq(Body \cup {Newline}) /\ wrote[c] \in Nat
    BY DEF TypeOK, ConnectionTypeOK
  <1>1. UNCHANGED peerFrame
    BY DEF Peer, Write, WriteNewline, Close, Reset, Stall, Resume
  <1>2. /\ sock' \in [Conns -> {"open", "stalled", "eof", "deaf", "reset"}]
        /\ wrote' \in [Conns -> Nat]
    <2>1. \/ sock' = sock
          \/ \E v \in {"open", "stalled", "eof", "deaf", "reset"} :
               sock' = [sock EXCEPT ![c] = v]
      BY DEF Peer, Write, WriteNewline, Close, Reset, Stall, Resume
    <2>2. \/ wrote' = wrote
          \/ wrote' = [wrote EXCEPT ![c] = wrote[c] + 1]
          \/ wrote' = [wrote EXCEPT ![c] = wrote[c] + 2]
      BY DEF Peer, Write, WriteNewline, Close, Reset, Stall, Resume
    <2>3. sock' \in [Conns -> {"open", "stalled", "eof", "deaf", "reset"}]
      BY <2>1 DEF TypeOK, ConnectionTypeOK
    <2>4. wrote' \in [Conns -> Nat]
      <3>1. wrote[c] + 1 \in Nat /\ wrote[c] + 2 \in Nat
        BY <1>0, SMT
      <3>2. wrote \in [Conns -> Nat]
        BY DEF TypeOK, ConnectionTypeOK
      <3> QED  BY <2>2, <3>1, <3>2
    <2> QED  BY <2>3, <2>4
  <1>3. inbox' \in [Conns -> Seq(Body \cup {Newline})]
    <2>1. CASE Write(c)
      <3> DEFINE body(l) == [cmd |-> l[1], name |-> l[2], id |-> wrote[c] + 1]
      <3>1. PICK l \in Lines[c] :
              \/ inbox' = [inbox EXCEPT ![c] = inbox[c] \o <<body(l), Newline>>]
              \/ inbox' = [inbox EXCEPT ![c] = Append(inbox[c], body(l))]
        BY <2>1 DEF Write
      <3>2. body(l) \in Body
        <4>1. /\ l[1] \in Commands /\ l[2] \in Names \cup {NoName}
              /\ l[1] = "join" => l[2] \in Names
          BY LinesAssumption, SMT
        <4>2. wrote[c] + 1 \in Ids
          <5>1. wrote[c] < 2 * MaxLines
            BY <2>1 DEF Write
          <5>2. wrote[c] \in Nat /\ MaxLines \in Nat
            BY <1>0, LinesAssumption
          <5> QED  BY <5>1, <5>2, SMT DEF Ids
        <4> QED  BY <4>1, <4>2 DEF Body
      <3> HIDE DEF body
      <3>3. <<body(l), Newline>> \in Seq(Body \cup {Newline})
        BY <3>2, SMT
      <3>4. /\ inbox[c] \o <<body(l), Newline>> \in Seq(Body \cup {Newline})
            /\ Append(inbox[c], body(l)) \in Seq(Body \cup {Newline})
        BY <1>0, <3>2, <3>3, SMT
      <3> QED  BY <3>1, <3>4 DEF TypeOK, ConnectionTypeOK
    <2>2. CASE WriteNewline(c)
      <3>1. Append(inbox[c], Newline) \in Seq(Body \cup {Newline})
        BY <1>0, SMT
      <3> QED  BY <2>2, <3>1 DEF WriteNewline, TypeOK, ConnectionTypeOK
    <2> QED
      BY <2>1, <2>2
      DEF Peer, Close, Reset, Stall, Resume, TypeOK, ConnectionTypeOK
  <1> QED
    BY <1>1, <1>2, <1>3
    DEF peerFrame, TypeOK, BrokerTypeOK, ConnectionTypeOK, brokerVars, mainVars,
        outVars

(* Every step keeps the state within its types.                            *)
LEMMA TypeStep ==
  TypeOK /\ [Next \/ Done]_vars => TypeOK'
  <1> SUFFICES ASSUME TypeOK, [Next \/ Done]_vars PROVE TypeOK'
    OBVIOUS
  <1>1. CASE AcquirePermit \/ AcceptError \/ CtrlC \/ Main
    BY <1>1, MainType
  <1>2. CASE Dispatcher /\ UNCHANGED <<connVars, mainVars>>
    BY <1>2, DispatcherType
    DEF TypeOK, ConnectionTypeOK, connVars, mainVars, peerVars, outVars
  <1>3. ASSUME NEW c \in Conns,
               Accept(c) \/ (Tick(c) /\ UNCHANGED mainVars) \/ Peer(c)
        PROVE  TypeOK'
    BY <1>3, AcceptType, TickType, PeerType
  <1>4. CASE UNCHANGED vars
    BY <1>4 DEF vars, TypeOK, BrokerTypeOK, ConnectionTypeOK, brokerVars,
                connVars, mainVars, peerVars, outVars
  <1> QED  BY <1>1, <1>2, <1>3, <1>4 DEF Next, Done

(* The initial state is well-typed.                                        *)
LEMMA TypeInit == Init => TypeOK
  <1> SUFFICES ASSUME Init PROVE TypeOK
    OBVIOUS
  <1>1. BrokerTypeOK
    <2>1. /\ users = [k \in Keys |-> NoConn] /\ room = <<>> /\ posted = <<>>
          /\ rx = [c \in Conns |-> <<>>] /\ dmsg = <<>> /\ dpc = "check"
          /\ closed = {} /\ targets = {} /\ lost = {} /\ stop = FALSE
      BY DEF Init, ConnectionInit, BrokerInit, RegistryInit, RoomInit
    <2>2. Len(room) <= RoomCap /\ \A c \in Conns : Len(rx[c]) <= ChanCap
      BY <2>1, RoomAssumption, BrokerAssumption, SMT
    <2>3. <<>> \in Seq(RoomMsg) /\ Len(<<>>) = 0
      BY SMT
    <2>4. rx \in [Conns -> Seq(RoomMsg)]
      BY <2>1, <2>3
    <2>5. users \in [Keys -> Conns \cup {NoConn}]
      BY <2>1
    <2>6. /\ room \in Seq(RoomMsg) /\ posted \in Seq(RoomMsg)
          /\ dmsg \in Seq(RoomMsg) /\ Len(dmsg) = 0
          /\ dpc \notin {"collect", "send"}
      BY <2>1, <2>3
    <2>7. Len(dmsg) = IF dpc \in {"collect", "send"} THEN 1 ELSE 0
      BY <2>6
    <2>8. /\ closed \subseteq Conns /\ targets \subseteq Conns
          /\ lost \subseteq Conns /\ stop \in BOOLEAN
          /\ dpc \in {"check", "recv", "collect", "send", "stopped"}
      BY <2>1
    <2> QED  BY <2>2, <2>4, <2>5, <2>6, <2>7, <2>8 DEF BrokerTypeOK
  <1>2. ConnectionTypeOK
    <2>1. /\ pc = [c \in Conns |-> "idle"] /\ name = [c \in Conns |-> NoName]
          /\ why = [c \in Conns |-> "none"] /\ sock = [c \in Conns |-> "open"]
          /\ buf = [c \in Conns |-> NoBody] /\ wrote = [c \in Conns |-> 0]
      BY DEF Init, ConnectionInit
    <2>2. /\ inbox = [c \in Conns |-> <<>>] /\ heard = [c \in Conns |-> <<>>]
          /\ replies = [c \in Conns |-> <<>>]
          /\ writing = {} /\ shutdown = FALSE
      BY DEF Init, ConnectionInit
    <2>3. /\ pc \in [Conns -> Unregistered \cup Registered \cup Ended]
          /\ name \in [Conns -> Names \cup {NoName}]
          /\ why \in [Conns -> {"none", "io", "lock", "eof", "leave",
                                 "shutdown", "timeout", "tooLong"}]
          /\ sock \in [Conns -> {"open", "stalled", "eof", "deaf", "reset"}]
          /\ buf \in [Conns -> Body \cup {NoBody}]
          /\ wrote \in [Conns -> Nat]
      BY <2>1 DEF Unregistered
    <2>4. /\ <<>> \in Seq(Body \cup {Newline}) /\ <<>> \in Seq(Reply)
          /\ <<>> \in Seq(RoomMsg)
      BY SMT
    <2>5. /\ inbox \in [Conns -> Seq(Body \cup {Newline})]
          /\ replies \in [Conns -> Seq(Reply)]
          /\ heard \in [Conns -> Seq(RoomMsg)]
      BY <2>2, <2>4
    <2> QED  BY <2>2, <2>3, <2>5 DEF ConnectionTypeOK
  <1> QED  BY <1>1, <1>2 DEF Init, TypeOK

(* The server's state stays within its types, the room within its buffer   *)
(* length and every user channel within its capacity, for any number of    *)
(* connections and any behaviour of the clients.                           *)
THEOREM TypeCorrect == Spec => []TypeOK
  BY TypeInit, TypeStep, PTL DEF Spec
-----------------------------------------------------------------------------
(***************************************************************************)
(* The registry and the connections agree: proofs for any number of        *)
(* connections, names and keys and any set of environment events.          *)
(*                                                                         *)
(* None of the properties is inductive by itself.  That a name is unique   *)
(* follows from the registry pointing back at its owner; that the registry *)
(* points at its owner after an unregister() by key needs every other      *)
(* joined connection to be found under a key of its own; and that nothing  *)
(* is offered to a connection that has not joined needs the snapshot taken *)
(* by broadcast() to hold no such connection.  RegInv is their conjunction *)
(* with the types and the fact that a joined connection has a name.        *)
(***************************************************************************)
RegInv ==
  /\ TypeOK
  /\ \A c \in Conns : pc[c] \in Registered => name[c] \in Names
  /\ RegistryConsistent
  /\ UnauthHearsNothing
-----------------------------------------------------------------------------
(* The shapes a step of a connection task can have, as far as the registry *)
(* is concerned.                                                           *)
Local(c) ==
  /\ targets' = targets
  /\ \A d \in Conns \ {c} :
       pc'[d] = pc[d] /\ name'[d] = name[d] /\ why'[d] = why[d] /\ rx'[d] = rx[d]

Stays(c) ==
  /\ users' = users /\ name' = name
  /\ \/ pc[c] \in Registered /\ pc'[c] \in Registered
     \/ pc[c] \in Unregistered /\ pc'[c] \in Unregistered /\ rx'[c] = rx[c]
     \/ pc[c] \in Ended /\ pc'[c] \in Ended /\ why'[c] = why[c]

Ends(c) ==
  /\ users' = users
  /\ pc'[c] = "gone"
  /\ why'[c] = "io" \/ pc[c] \in Unregistered

Joins(c) ==
  /\ pc[c] \in Unregistered /\ pc'[c] \in Registered
  /\ \E n \in Names : Register(c, n) /\ name'[c] = n

Leaves(c) ==
  /\ pc[c] = "leaving" /\ pc'[c] \in Ended
  /\ \/ Unregister(name[c])
     \/ users' = users /\ why'[c] = "lock"

(* Writes and ends of the task.                                            *)
LEMMA EndShape ==
  ASSUME NEW c \in Conns, TypeOK, NEW r, End(c, r),
         UNCHANGED <<users, name, targets>>, r = "io" \/ pc[c] \in Unregistered
  PROVE  Local(c) /\ Ends(c)
  BY DEF End, CloseRx, Local, Ends, TypeOK, ConnectionTypeOK, BrokerTypeOK

(* A write goes on, is suspended or ends the task; the registry stays.     *)
LEMMA WriteShape ==
  ASSUME NEW c \in Conns, TypeOK, NEW next,
         \/ \E line : WriteReply(c, line, next)
         \/ WriteQueued(c, next) /\ pc[c] \notin Unregistered,
         UNCHANGED <<users, name, targets>>,
         \/ pc[c] \in Registered /\ next \in Registered
         \/ pc[c] \in Unregistered /\ next \in Unregistered
  PROVE  Local(c) /\ (Stays(c) \/ Ends(c))
  <1>1. CASE WriteFails(c)
    BY <1>1, EndShape DEF WriteFails
  <1>2. CASE pc' = [pc EXCEPT ![c] = next] /\ why' = why /\ rx' = rx
    BY <1>2 DEF Local, Stays, TypeOK, ConnectionTypeOK
  <1>3. CASE /\ pc' = [pc EXCEPT ![c] = next] /\ why' = why
             /\ rx' = [rx EXCEPT ![c] = Tail(@)] /\ pc[c] \notin Unregistered
    BY <1>3 DEF Local, Stays, TypeOK, ConnectionTypeOK, BrokerTypeOK
  <1> QED  BY <1>1, <1>2, <1>3 DEF WriteReply, WriteQueued, Put, chanVars

(* Steps that only move the task on.                                       *)
LEMMA MoveShape ==
  ASSUME NEW c \in Conns, TypeOK, NEW next, NEW r,
         pc' = [pc EXCEPT ![c] = next],
         UNCHANGED <<users, name, rx, targets>>,
         \/ pc[c] \in Registered /\ next \in Registered
            /\ why' = [why EXCEPT ![c] = r]
         \/ pc[c] \in Registered /\ next \in Registered /\ why' = why
         \/ pc[c] \in Ended /\ next \in Ended /\ why' = why
  PROVE  Local(c) /\ Stays(c)
  BY DEF Local, Stays, TypeOK, ConnectionTypeOK

(* Every step of a task has one of the shapes.                             *)
LEMMA TickShape ==
  ASSUME NEW c \in Conns, TypeOK, Tick(c)
  PROVE  Local(c) /\ (Stays(c) \/ Ends(c) \/ Joins(c) \/ Leaves(c))
  <1> USE DEF others, dispVars, roomVars, chanVars, outVars
  <1>1. CASE Flush(c)
    <2>1. CASE End(c, "io")
      BY <1>1, <2>1, EndShape DEF Flush
    <2>2. CASE UNCHANGED <<pc, why, rx>>
      BY <1>1, <2>2 DEF Flush, Local, Stays, TypeOK, ConnectionTypeOK
    <2> QED  BY <1>1, <2>1, <2>2 DEF Flush
  <1>2. CASE ReadPart(c)
    BY <1>2 DEF ReadPart, Local, Stays, Registered, Unregistered
  <1>3. CASE UnauthDisconnect(c)
    <2>1. PICK r : End(c, r)
      BY <1>3 DEF UnauthDisconnect
    <2> QED  BY <1>3, <2>1, EndShape DEF UnauthDisconnect, Unregistered
  <1>4. CASE JoinAccepted(c)
    <2>1. Line(c).name \in Names
      BY <1>4, LineType, BufFields DEF JoinAccepted, TakeLine, TypeOK
    <2>2. Trim[Line(c).name] \in Names
      BY <2>1, RegistryAssumption
    <2>3. Joins(c)
      BY <1>4, <2>2
      DEF JoinAccepted, Joins, TypeOK, ConnectionTypeOK, Unregistered, Registered
    <2>4. Local(c)
      BY <1>4 DEF JoinAccepted, Local, TypeOK, ConnectionTypeOK
    <2> QED  BY <2>3, <2>4
  <1>5. CASE UnauthReject(c)
    <2>1. PICK r : WriteReply(c, Err(c, r), "unauth")
      BY <1>5 DEF UnauthReject
    <2> QED  BY <1>5, <2>1, WriteShape DEF UnauthReject, Unregistered
  <1>6. CASE AnnounceJoined(c)
    BY <1>6, MoveShape DEF AnnounceJoined, Registered
  <1>7. CASE AckJoin(c)
    <2>1. PICK next \in Registered : \E l : WriteReply(c, l, next)
      BY <1>7 DEF AckJoin, Registered
    <2> QED  BY <1>7, <2>1, WriteShape DEF AckJoin, Registered
  <1>8. CASE DrainOne(c)
    BY <1>8, WriteShape DEF DrainOne, Registered, Unregistered
  <1>9. CASE DrainDone(c)
    BY <1>9, MoveShape DEF DrainDone, Registered
  <1>10. CASE JoinedBroadcast(c)
    BY <1>10, WriteShape DEF JoinedBroadcast, Registered, Unregistered
  <1>11. CASE JoinedTimeout(c)
    BY <1>11, MoveShape DEF JoinedTimeout, Registered
  <1>12. CASE JoinedReadError(c)
    BY <1>12, EndShape DEF JoinedReadError
  <1>13. CASE JoinedTooLong(c)
    BY <1>13, MoveShape DEF JoinedTooLong, Registered
  <1>14. CASE SkipLine(c)
    BY <1>14, WriteShape DEF SkipLine, Registered
  <1>15. CASE JoinedReject(c)
    BY <1>15, WriteShape DEF JoinedReject, Registered
  <1>16. CASE JoinedSend(c)
    BY <1>16, MoveShape DEF JoinedSend, Registered
  <1>17. CASE Post(c)
    BY <1>17, MoveShape DEF Post, Registered
  <1>18. CASE PostError(c)
    BY <1>18, WriteShape DEF PostError, Registered
  <1>19. CASE JoinedLeave(c)
    BY <1>19, MoveShape DEF JoinedLeave, Closing, Registered
  <1>20. CASE JoinedEof(c)
    BY <1>20, MoveShape DEF JoinedEof, Closing, Registered
  <1>21. CASE JoinedShutdown(c)
    BY <1>21, MoveShape DEF JoinedShutdown, Closing, Registered
  <1>22. CASE LastDrain(c)
    <2>1. CASE WriteQueued(c, "closing")
      BY <1>22, <2>1, WriteShape DEF LastDrain, Registered, Unregistered
    <2>2. CASE pc' = [pc EXCEPT ![c] = "leaving"] /\ UNCHANGED <<why, rx>>
      BY <1>22, <2>2, MoveShape DEF LastDrain, Registered
    <2> QED  BY <1>22, <2>1, <2>2 DEF LastDrain
  <1>23. CASE Leave(c)
    <2>1. Leaves(c)
      BY <1>23 DEF Leave, Leaves, TypeOK, ConnectionTypeOK, Ended
    <2>2. Local(c)
      BY <1>23
      DEF Leave, CloseRx, Local, TypeOK, ConnectionTypeOK, BrokerTypeOK
    <2> QED  BY <2>1, <2>2
  <1>24. CASE AnnounceLeft(c)
    BY <1>24, MoveShape DEF AnnounceLeft, Ended
  <1>25. CASE LeftError(c)
    BY <1>25, MoveShape DEF LeftError, Ended
  <1> QED
    BY <1>1, <1>2, <1>3, <1>4, <1>5, <1>6, <1>7, <1>8, <1>9, <1>10, <1>11,
       <1>12, <1>13, <1>14, <1>15, <1>16, <1>17, <1>18, <1>19, <1>20, <1>21,
       <1>22, <1>23, <1>24, <1>25
    DEF Tick
-----------------------------------------------------------------------------
(* A step of a connection task preserves the invariant, shape by shape.    *)
LEMMA TickRegInv ==
  ASSUME NEW c \in Conns, RegInv, TypeOK',
         Local(c), Stays(c) \/ Ends(c) \/ Joins(c) \/ Leaves(c)
  PROVE  RegInv'
  <1> USE RegistryAssumption
  <1> DEFINE N == \A d \in Conns : pc[d] \in Registered => name[d] \in Names
             Owner(d) == pc[d] \in Registered => users[Fold[name[d]]] = d
             Entry(k, d) == users[k] = d =>
                              \/ pc[d] \in Registered /\ Fold[name[d]] = k
                              \/ pc[d] \in Ended /\ why[d] \in {"io", "lock"}
             Hears(d) == pc[d] \in Unregistered =>
                           rx[d] = <<>> /\ d \notin targets /\ d \notin Senders
  <1>0. /\ users \in [Keys -> Conns \cup {NoConn}]
        /\ N
        /\ \A d \in Conns : Owner(d) /\ Hears(d)
        /\ \A k \in Keys, d \in Conns : Entry(k, d)
        /\ \A d \in Conns : pc[d] \in Registered => Fold[name[d]] \in Keys
    BY DEF RegInv, TypeOK, BrokerTypeOK, RegistryConsistent, UnauthHearsNothing
  <1>s. /\ Registered \cap Unregistered = {} /\ Registered \cap Ended = {}
        /\ Ended \cap Unregistered = {}
        /\ "gone" \in Ended /\ "leaving" \in Registered
    BY DEF Registered, Unregistered, Ended
  <1>g. SUFFICES /\ N' /\ \A d \in Conns : Owner(d)' /\ Hears(d)'
                 /\ \A k \in Keys, d \in Conns : Entry(k, d)'
    BY <1>g DEF RegInv, RegistryConsistent, UnauthHearsNothing
  <1>o. \A d \in Conns : d # c => /\ pc'[d] = pc[d] /\ name'[d] = name[d]
                                 /\ why'[d] = why[d] /\ rx'[d] = rx[d]
    BY DEF Local
  <1>h. ASSUME \A k \in Keys : users'[k] \in {users[k], c, NoConn},
               pc'[c] \in Unregistered =>
                 /\ pc[c] \in Unregistered /\ rx'[c] = rx[c]
                 /\ \A k \in Keys : users'[k] = users[k],
               NEW d \in Conns, pc'[d] \in Unregistered
        PROVE  rx'[d] = <<>> /\ d \notin targets' /\ d \notin Senders'
    <2>1. pc[d] \in Unregistered /\ rx'[d] = rx[d]
      BY <1>h, <1>o
    <2>2. rx[d] = <<>> /\ d \notin targets /\ d \notin Senders
      BY <1>0, <2>1
    <2>3. ASSUME NEW k \in Keys PROVE users'[k] # d
      <3>1. users[k] # d /\ d # NoConn
        BY <2>2 DEF Senders
      <3> QED  BY <1>h, <3>1
    <2>4. d \notin Senders'
      BY <2>3 DEF Senders
    <2> QED  BY <2>1, <2>2, <2>4 DEF Local
  <1>u. ASSUME users' = users,
               NEW d \in Conns, d # c
        PROVE  /\ pc'[d] \in Registered => name'[d] \in Names
               /\ Owner(d)' /\ \A k \in Keys : Entry(k, d)'
    <2>1. /\ pc[d] \in Registered => name[d] \in Names
          /\ Owner(d) /\ \A k \in Keys : Entry(k, d)
      BY <1>0
    <2>2. /\ pc'[d] = pc[d] /\ name'[d] = name[d] /\ why'[d] = why[d]
          /\ users' = users
      BY <1>o, <1>u
    <2> QED  BY <2>1, <2>2
  <1>1. CASE Stays(c)
    <2>1. /\ pc[c] \in Registered => name[c] \in Names
          /\ Owner(c) /\ \A k \in Keys : Entry(k, c)
      BY <1>0
    <2>2. users' = users /\ name' = name
      BY <1>1 DEF Stays
    <2>3. /\ pc'[c] \in Registered <=> pc[c] \in Registered
          /\ pc[c] \in Ended => pc'[c] \in Ended /\ why'[c] = why[c]
          /\ pc'[c] \in Unregistered => pc[c] \in Unregistered /\ rx'[c] = rx[c]
      BY <1>1, <1>s DEF Stays
    <2>4. /\ pc'[c] \in Registered => name'[c] \in Names
          /\ Owner(c)' /\ \A k \in Keys : Entry(k, c)'
      BY <2>1, <2>2, <2>3
    <2>5. \A d \in Conns : Hears(d)'
      BY <1>h, <2>2, <2>3
    <2>6. \A d \in Conns : /\ pc'[d] \in Registered => name'[d] \in Names
                           /\ Owner(d)' /\ \A k \in Keys : Entry(k, d)'
      BY <1>u, <2>2, <2>4
    <2> QED  BY <2>5, <2>6
  <1>2. CASE Ends(c)
    <2>1. /\ users' = users /\ pc'[c] \in Ended /\ pc'[c] \notin Registered
          /\ pc'[c] \notin Unregistered
      BY <1>2, <1>s DEF Ends
    <2>2. ASSUME NEW k \in Keys, users[k] = c PROVE why'[c] \in {"io", "lock"}
      <3>1. CASE why'[c] = "io"
        BY <3>1
      <3>2. CASE pc[c] \in Unregistered
        BY <1>0, <1>s, <2>2, <3>2
      <3> QED  BY <1>2, <3>1, <3>2 DEF Ends
    <2>3. /\ pc'[c] \in Registered => name'[c] \in Names
          /\ Owner(c)' /\ \A k \in Keys : Entry(k, c)'
      BY <2>1, <2>2
    <2>4. \A d \in Conns : Hears(d)'
      BY <1>h, <2>1
    <2>5. \A d \in Conns : /\ pc'[d] \in Registered => name'[d] \in Names
                           /\ Owner(d)' /\ \A k \in Keys : Entry(k, d)'
      BY <1>u, <2>1, <2>3
    <2> QED  BY <2>4, <2>5
  <1>3. CASE Joins(c)
    <2>1. PICK n \in Names : /\ users[Fold[n]] = NoConn
                             /\ users' = [users EXCEPT ![Fold[n]] = c]
                             /\ name'[c] = n
      BY <1>3 DEF Joins, Register, Taken
    <2>n. N'
      BY <1>0, <1>o, <2>1
    <2>2. ASSUME NEW d \in Conns PROVE Owner(d)'
      <3>1. CASE d = c
        BY <1>0, <2>1, <3>1
      <3>2. CASE d # c
        <4>1. name'[d] = name[d] /\ pc'[d] = pc[d]
          BY <1>o, <3>2
        <4>2. ASSUME pc[d] \in Registered PROVE users'[Fold[name[d]]] = d
          <5>1. Fold[name[d]] \in Keys /\ users[Fold[name[d]]] = d
            BY <1>0, <4>2
          <5>2. d # NoConn
            OBVIOUS
          <5> QED  BY <1>0, <2>1, <5>1, <5>2
        <4> QED  BY <4>1, <4>2
      <3> QED  BY <3>1, <3>2
    <2>3. ASSUME NEW k \in Keys, NEW d \in Conns PROVE Entry(k, d)'
      <3>1. CASE k = Fold[n]
        <4>1. users'[k] = c /\ pc'[c] \in Registered /\ Fold[name'[c]] = k
          BY <1>0, <1>3, <2>1, <3>1 DEF Joins
        <4> QED  BY <4>1
      <3>2. CASE k # Fold[n]
        <4>1. users'[k] = users[k]
          BY <1>0, <2>1, <3>2
        <4>2. CASE d = c
          <5>1. users[k] # c
            BY <1>0, <1>3, <1>s DEF Joins
          <5> QED  BY <4>1, <4>2, <5>1
        <4>3. CASE d # c
          <5>1. pc'[d] = pc[d] /\ name'[d] = name[d] /\ why'[d] = why[d]
            BY <1>o, <4>3
          <5>2. Entry(k, d)
            BY <1>0
          <5> QED  BY <4>1, <5>1, <5>2
        <4> QED  BY <4>2, <4>3
      <3> QED  BY <3>1, <3>2
    <2>4. \A d \in Conns : Hears(d)'
      <3>1. pc'[c] \notin Unregistered
        BY <1>3, <1>s DEF Joins
      <3>2. \A k \in Keys : users'[k] \in {users[k], c, NoConn}
        BY <1>0, <2>1
      <3> QED  BY <1>h, <3>1, <3>2
    <2> QED  BY <2>n, <2>2, <2>3, <2>4
  <1>4. CASE Leaves(c)
    <2>e. /\ pc[c] \in Registered /\ pc'[c] \notin Registered /\ pc'[c] \in Ended
          /\ users[Fold[name[c]]] = c
      <3>1. pc[c] \in Registered /\ pc'[c] \notin Registered /\ pc'[c] \in Ended
        BY <1>4, <1>s DEF Leaves
      <3> QED  BY <1>0, <3>1
    <2>u. /\ \A k \in Keys : /\ k # Fold[name[c]] => users'[k] = users[k]
                             /\ users'[k] \in {users[k], NoConn}
          /\ users'[Fold[name[c]]] = NoConn \/ why'[c] = "lock"
          /\ NoConn \notin Conns
      <3>1. Fold[name[c]] \in Keys
        BY <1>0, <2>e
      <3>2. CASE Unregister(name[c])
        BY <1>0, <3>1, <3>2 DEF Unregister
      <3>3. CASE users' = users /\ why'[c] = "lock"
        BY <3>3
      <3> QED  BY <1>4, <3>2, <3>3 DEF Leaves
    <2>1. N'
      BY <1>0, <1>o, <2>e
    <2>2. ASSUME NEW d \in Conns, pc'[d] \in Registered
          PROVE  users'[Fold[name'[d]]] = d
      <3>1. d # c /\ pc'[d] = pc[d] /\ name'[d] = name[d]
        BY <1>o, <2>e, <2>2
      <3>2. users[Fold[name[d]]] = d /\ Fold[name[d]] \in Keys
        BY <1>0, <2>2, <3>1
      <3>3. Fold[name[d]] # Fold[name[c]]
        BY <1>0, <2>e, <3>1, <3>2
      <3> QED  BY <2>u, <3>1, <3>2, <3>3
    <2>3. ASSUME NEW k \in Keys, NEW d \in Conns, users'[k] = d
          PROVE  \/ pc'[d] \in Registered /\ Fold[name'[d]] = k
                 \/ pc'[d] \in Ended /\ why'[d] \in {"io", "lock"}
      <3>1. users[k] = d
        BY <2>u, <2>3
      <3>2. CASE d = c
        <4>1. k = Fold[name[c]]
          <5>1. users[k] = c
            BY <3>1, <3>2
          <5>2. \/ pc[c] \in Registered /\ Fold[name[c]] = k
                \/ pc[c] \in Ended /\ why[c] \in {"io", "lock"}
            BY <1>0, <5>1
          <5> QED  BY <1>s, <2>e, <5>2
        <4>2. why'[c] = "lock"
          BY <2>u, <2>3, <3>2, <4>1
        <4> QED  BY <2>e, <3>2, <4>2
      <3>3. CASE d # c
        BY <1>0, <1>o, <3>1, <3>3
      <3> QED  BY <3>2, <3>3
    <2>4. \A d \in Conns : Hears(d)'
      <3>1. pc'[c] \notin Unregistered
        BY <1>s, <2>e
      <3>2. \A k \in Keys : users'[k] \in {users[k], c, NoConn}
        BY <2>u
      <3> QED  BY <1>h, <3>1, <3>2
    <2> QED  BY <2>1, <2>2, <2>3, <2>4
  <1> QED  BY <1>1, <1>2, <1>3, <1>4

(* The dispatcher reaches only connections in the registry.                *)
LEMMA DispatcherRegInv ==
  ASSUME RegInv, TypeOK', Dispatcher, UNCHANGED connVars
  PROVE  RegInv'
  <1>1. /\ UNCHANGED <<users, pc, name, why>>
    BY DEF Dispatcher, CheckFlag, Receive, ReceiveTimeout, Collect,
           CollectTimeout, Dispatched, Deliver, DeliverClosed, DeliverTimeout,
           connVars
  <1>2. targets' \subseteq targets \cup Senders
    BY DEF Dispatcher, CheckFlag, Receive, ReceiveTimeout, Collect,
           CollectTimeout, Dispatched, Deliver, DeliverClosed, DeliverTimeout
  <1>3. \A c \in Conns : c \notin targets => rx'[c] = rx[c]
    <2>1. ASSUME NEW d \in Conns, Deliver(d)
          PROVE  \A c \in Conns : c \notin targets => rx'[c] = rx[c]
      BY <2>1 DEF Deliver, RegInv, TypeOK, BrokerTypeOK
    <2>2. CASE rx' = rx
      BY <2>2
    <2> QED
      BY <2>1, <2>2
      DEF Dispatcher, CheckFlag, Receive, ReceiveTimeout, Collect,
          CollectTimeout, Dispatched, DeliverClosed, DeliverTimeout, chanVars
  <1>4. UnauthHearsNothing'
    BY <1>1, <1>2, <1>3 DEF RegInv, UnauthHearsNothing, Senders
  <1> QED  BY <1>1, <1>4 DEF RegInv, RegistryConsistent

(* Every step preserves the invariant.                                     *)
LEMMA RegStep ==
  RegInv /\ [Next \/ Done]_vars => RegInv'
  <1> SUFFICES ASSUME RegInv, [Next \/ Done]_vars PROVE RegInv'
    OBVIOUS
  <1>0. TypeOK /\ TypeOK'
    BY TypeStep DEF RegInv
  <1>1. CASE UNCHANGED <<users, pc, name, why, rx, targets>>
    BY <1>0, <1>1
    DEF RegInv, RegistryConsistent, UnauthHearsNothing, Senders
  <1>2. CASE Dispatcher /\ UNCHANGED <<connVars, mainVars>>
    BY <1>0, <1>2, DispatcherRegInv
  <1>3. ASSUME NEW c \in Conns, Tick(c) PROVE RegInv'
    BY <1>0, <1>3, TickShape, TickRegInv
  <1>4. ASSUME NEW c \in Conns, Accept(c) PROVE RegInv'
    <2>1. Local(c) /\ Stays(c)
      BY <1>0, <1>4
      DEF Accept, Local, Stays, brokerVars, TypeOK, ConnectionTypeOK, Unregistered
    <2> QED  BY <1>0, <2>1, TickRegInv
  <1>5. CASE AcquirePermit \/ AcceptError \/ CtrlC \/ Main
    BY <1>1, <1>5 DEF AcquirePermit, AcceptError, CtrlC, Main, StopBroker, Exit,
                      brokerVars, connVars, chanVars, dispVars
  <1>6. ASSUME NEW c \in Conns, Peer(c) PROVE RegInv'
    <2>1. UNCHANGED peerFrame
      BY <1>6 DEF Peer, Write, WriteNewline, Close, Reset, Stall, Resume
    <2> QED  BY <1>1, <2>1 DEF peerFrame, brokerVars
  <1>7. CASE UNCHANGED vars
    BY <1>1, <1>7 DEF vars, brokerVars, connVars
  <1> QED
    BY <1>2, <1>3, <1>4, <1>5, <1>6, <1>7 DEF Next, Done

(* No one is registered, queued for or joined at the start.                *)
LEMMA RegInit == Init => RegInv
  <1> SUFFICES ASSUME Init PROVE RegInv
    OBVIOUS
  <1>1. /\ pc = [c \in Conns |-> "idle"] /\ users = [k \in Keys |-> NoConn]
        /\ rx = [c \in Conns |-> <<>>] /\ targets = {}
    BY DEF Init, ConnectionInit, BrokerInit, RegistryInit
  <1>2. \A c \in Conns : pc[c] \notin Registered /\ rx[c] = <<>>
    BY <1>1 DEF Registered
  <1>3. \A k \in Keys : users[k] \notin Conns
    BY <1>1, RegistryAssumption
  <1>4. RegistryConsistent
    BY <1>2, <1>3 DEF RegistryConsistent
  <1>5. UnauthHearsNothing
    <2>1. \A c \in Conns : c \notin Senders
      BY <1>3 DEF Senders
    <2> QED  BY <1>1, <1>2, <2>1 DEF UnauthHearsNothing
  <1> QED  BY <1>2, <1>4, <1>5, TypeInit DEF RegInv

(* The invariant holds in every state of the server.                       *)
LEMMA RegInvariant == Spec => []RegInv
  BY RegInit, RegStep, PTL DEF Spec
-----------------------------------------------------------------------------
(* The registry holds every joined connection under its own key, and an    *)
(* entry without its connection is one left by a failed read or write or   *)
(* by an unregister() that timed out on the lock.                          *)
THEOREM RegistryIsConsistent == Spec => []RegistryConsistent
  BY RegInvariant, PTL DEF RegInv

(* register() never lets two joined connections have the same name up to   *)
(* case.                                                                   *)
THEOREM UsernamesAreUnique == Spec => []UniqueUsernames
  <1>1. RegInv => UniqueUsernames
    BY DEF RegInv, RegistryConsistent, UniqueUsernames
  <1> QED  BY <1>1, RegInvariant, PTL

(* broadcast() never offers a message to a connection that has not joined. *)
THEOREM UnauthenticatedHearNothing == Spec => []UnauthHearsNothing
  BY RegInvariant, PTL DEF RegInv

(* An entry leaves the registry only by the leave() of its own connection. *)
THEOREM OwnersRemove == Spec => OnlyOwnerRemoves
  <1> DEFINE A == \A k \in Keys : \A c \in Conns :
                    users[k] = c /\ users'[k] # c =>
                      users'[k] = NoConn /\ pc[c] = "leaving"
                        /\ pc'[c] # "leaving"
  <1>1. RegInv /\ [Next \/ Done]_vars => [A]_vars
    <2> SUFFICES ASSUME RegInv, [Next \/ Done]_vars PROVE A
      OBVIOUS
    <2>1. CASE users' = users
      BY <2>1
    <2>2. ASSUME NEW c \in Conns, Tick(c) PROVE A
      <3>1. Stays(c) \/ Ends(c) \/ Joins(c) \/ Leaves(c)
        BY <2>2, TickShape DEF RegInv
      <3>2. CASE Joins(c)
        BY <3>2, RegistryAssumption
        DEF Joins, Register, Taken, RegInv, TypeOK, BrokerTypeOK
      <3>3. CASE Leaves(c)
        <4>1. users[Fold[name[c]]] = c /\ name[c] \in Names
          BY <3>3 DEF Leaves, RegInv, RegistryConsistent, Registered
        <4> QED
          BY <2>1, <3>3, <4>1, RegistryAssumption
          DEF Leaves, Unregister, RegInv, TypeOK, BrokerTypeOK, Ended
      <3> QED  BY <2>1, <3>1, <3>2, <3>3 DEF Stays, Ends
    <2>3. \/ users' = users
          \/ \E c \in Conns : Tick(c)
      BY DEF Next, Done, AcquirePermit, AcceptError, CtrlC, Main, StopBroker,
             Exit, Dispatcher, CheckFlag, Receive, ReceiveTimeout, Collect,
             CollectTimeout, Dispatched, Deliver, DeliverClosed,
             DeliverTimeout, Accept, Peer, Write, WriteNewline, Close, Reset,
             Stall, Resume, peerFrame, brokerVars, vars
    <2> QED  BY <2>1, <2>2, <2>3
  <1> QED  BY <1>1, RegInvariant, PTL DEF Spec, OnlyOwnerRemoves
-----------------------------------------------------------------------------
(* The connection limit of the accept loop.  The limit alone is not        *)
(* inductive: Accept starts a task without looking at the semaphore.  What *)
(* every step preserves is the limit on permits, the one the loop holds    *)
(* included.                                                               *)
PermitInv ==
  /\ TypeOK
  /\ IsFiniteSet(Active)
  /\ PermitsOut <= MaxConnections

(* What is used here and later of the cardinality of finite sets.  It is   *)
(* a hypothesis of the lemmas that count, and ClientServerProofs, where    *)
(* their theorems are, proves it from FiniteSetTheorems.                   *)
Counting ==
  /\ IsFiniteSet({}) /\ Cardinality({}) = 0
  /\ \A n \in Nat : IsFiniteSet(1..n)
  /\ \A S : IsFiniteSet(S) => Cardinality(S) \in Nat
  /\ \A S, T : IsFiniteSet(S) /\ T \subseteq S =>
       IsFiniteSet(T) /\ Cardinality(T) <= Cardinality(S)
  /\ \A S, x : IsFiniteSet(S) /\ x \notin S =>
       IsFiniteSet(S \cup {x}) /\ Cardinality(S \cup {x}) = Cardinality(S) + 1

(* A step of a task starts no other task.                                  *)
LEMMA TickActive ==
  ASSUME NEW c \in Conns, TypeOK, Tick(c)
  PROVE  Active' \subseteq Active
  <1>1. pc'[c] \in {"idle", "gone"} \/ pc[c] \notin {"idle", "gone"}
    BY DEF Tick, Flush, ReadPart, UnauthDisconnect, JoinAccepted, UnauthReject,
           AnnounceJoined, AckJoin, DrainOne, DrainDone, JoinedBroadcast,
           JoinedTimeout, JoinedReadError, JoinedTooLong, SkipLine,
           JoinedReject, JoinedSend, Post, PostError, JoinedLeave, JoinedEof,
           JoinedShutdown, LastDrain, Leave, AnnounceLeft, LeftError, End,
           TypeOK, ConnectionTypeOK
  <1>2. \A d \in Conns \ {c} : pc'[d] = pc[d]
    BY TickShape DEF Local
  <1> QED  BY <1>1, <1>2 DEF Active

(* Steps that start no task and take no permit.                            *)
LEMMA FewerPermits ==
  ASSUME Counting, PermitInv, TypeOK', Active' \subseteq Active,
         holding' = holding \/ holding' = FALSE
  PROVE  PermitInv'
  <1>1. /\ IsFiniteSet(Active') /\ Cardinality(Active') <= Cardinality(Active)
        /\ Cardinality(Active') \in Nat /\ Cardinality(Active) \in Nat
    BY DEF Counting, PermitInv
  <1> QED  BY <1>1, ServerAssumption, SMT DEF PermitInv, PermitsOut, TypeOK

(* Every step keeps the permits that are out within the semaphore.         *)
LEMMA PermitStep ==
  ASSUME Counting
  PROVE  PermitInv /\ [Next \/ Done]_vars => PermitInv'
  <1> SUFFICES ASSUME PermitInv, [Next \/ Done]_vars PROVE PermitInv'
    OBVIOUS
  <1>0. TypeOK /\ TypeOK'
    BY TypeStep DEF PermitInv
  <1>1. ASSUME NEW c \in Conns, Tick(c), UNCHANGED mainVars PROVE PermitInv'
    BY <1>0, <1>1, TickActive, FewerPermits DEF mainVars
  <1>2. CASE AcquirePermit
    <2>1. Active' = Active
      BY <1>2 DEF AcquirePermit, Active, connVars
    <2>2. Cardinality(Active) \in Nat
      BY DEF Counting, PermitInv
    <2> QED
      BY <1>0, <1>2, <2>1, <2>2, ServerAssumption, SMT
      DEF AcquirePermit, PermitInv, PermitsOut
  <1>3. ASSUME NEW c \in Conns, Accept(c) PROVE PermitInv'
    <2>1. Active' = Active \cup {c} /\ c \notin Active
      BY <1>0, <1>3 DEF Accept, Active, TypeOK, ConnectionTypeOK
    <2>2. /\ IsFiniteSet(Active')
          /\ Cardinality(Active') = Cardinality(Active) + 1
          /\ Cardinality(Active) \in Nat
      BY <2>1 DEF Counting, PermitInv
    <2> QED
      BY <1>0, <1>3, <2>2, ServerAssumption, SMT
      DEF Accept, PermitInv, PermitsOut
  <1>4. CASE UNCHANGED pc /\ (holding' = holding \/ holding' = FALSE)
    BY <1>0, <1>4, FewerPermits DEF Active
  <1>5. \/ AcquirePermit
        \/ \E c \in Conns : Accept(c) \/ (Tick(c) /\ UNCHANGED mainVars)
        \/ UNCHANGED pc /\ (holding' = holding \/ holding' = FALSE)
    BY DEF Next, Done, AcceptError, CtrlC, Main, StopBroker, Exit, Peer, Write,
           WriteNewline, Close, Reset, Stall, Resume, peerFrame, connVars,
           mainVars, vars
  <1> QED  BY <1>1, <1>2, <1>3, <1>4, <1>5

(* At first no permit is taken.                                            *)
LEMMA PermitInit ==
  ASSUME Counting
  PROVE  Init => PermitInv
  <1> SUFFICES ASSUME Init PROVE PermitInv
    OBVIOUS
  <1>1. Active = {} /\ holding = FALSE
    BY DEF Init, ConnectionInit, Active
  <1> QED
    BY <1>1, TypeInit, ServerAssumption, SMT DEF Counting, PermitInv, PermitsOut

(* A permit for every task, and one for the next, bound the tasks.         *)
LEMMA PermitsLimit ==
  ASSUME Counting
  PROVE  PermitInv => ConnectionLimit
  BY ServerAssumption, SMT DEF Counting, PermitInv, PermitsOut, ConnectionLimit
-----------------------------------------------------------------------------
(* What a step of a connection task does, and what it reads and posts.     *)

(* Messages of c, and the lines of c among them.                           *)
Of(m, c) == m.from = c
LineOf(m, c) == m.from = c /\ m.kind = "broadcast"

(* The pc of the other tasks stays, and so do the dispatcher, the history  *)
(* of losses and what the clients have done.                               *)
Alone(c) ==
  /\ \A d \in Conns \ {c} : pc'[d] = pc[d]
  /\ UNCHANGED <<dpc, dmsg, targets, lost, wrote>>

(* A connection task leaves the dispatcher and the sockets alone ...       *)
LEMMA TickKeepsOthers ==
  ASSUME NEW c \in Conns, Tick(c)
  PROVE  UNCHANGED others
  BY DEF Tick, Flush, ReadPart, UnauthDisconnect, JoinAccepted,
         UnauthReject, AnnounceJoined, AckJoin, DrainOne, DrainDone,
         JoinedBroadcast, JoinedTimeout, JoinedReadError, JoinedTooLong,
         SkipLine, JoinedReject, JoinedSend, Post, PostError, JoinedLeave,
         JoinedEof, JoinedShutdown, LastDrain, Leave, AnnounceLeft, LeftError

(* ... and touches no one else's channel or position.                      *)
LEMMA TickAlone ==
  ASSUME NEW c \in Conns, TypeOK, Tick(c)
  PROVE  Alone(c)
  <1>1. UNCHANGED others
    BY TickKeepsOthers
  <1>2. Local(c)
    BY TickShape
  <1> QED  BY <1>1, <1>2 DEF Alone, Local, others, dispVars, peerVars
-----------------------------------------------------------------------------
(* What it puts into the room.                                             *)
Posts(c, m) ==
  /\ Send(m)
  /\ \/ /\ pc[c] = "announceJoined" /\ pc'[c] = "ackJoin"
        /\ m = UserJoined(c, buf[c].name)
     \/ /\ pc[c] = "posting" /\ pc'[c] = "drain"
        /\ m = Broadcast(c, name[c], buf[c].id)
     \/ /\ pc[c] = "announceLeft" /\ pc'[c] = "gone"
        /\ m = UserLeft(c, name[c])

(* A connection task adds at most one message to the room, in its own name *)
(* and at the moment its state calls for.                                  *)
LEMMA TickPosts ==
  ASSUME NEW c \in Conns, TypeOK, Tick(c)
  PROVE  UNCHANGED <<room, posted>> \/ \E m : Posts(c, m)
  <1>1. CASE AnnounceJoined(c)
    BY <1>1
    DEF AnnounceJoined, Posts, SendTimeout, roomVars, TypeOK, ConnectionTypeOK
  <1>2. CASE Post(c)
    BY <1>2 DEF Post, Posts, SendTimeout, roomVars, TypeOK, ConnectionTypeOK
  <1>3. CASE AnnounceLeft(c)
    BY <1>3
    DEF AnnounceLeft, Posts, SendTimeout, roomVars, TypeOK, ConnectionTypeOK
  <1>4. CASE UNCHANGED roomVars
    BY <1>4 DEF roomVars
  <1> QED
    BY <1>1, <1>2, <1>3, <1>4
    DEF Tick, Flush, ReadPart, UnauthDisconnect, JoinAccepted, UnauthReject,
        AckJoin, DrainOne, DrainDone, JoinedBroadcast, JoinedTimeout,
        JoinedReadError, JoinedTooLong, SkipLine, JoinedReject, JoinedSend,
        PostError, JoinedLeave, JoinedEof, JoinedShutdown, LastDrain, Leave,
        LeftError
-----------------------------------------------------------------------------
(* What it reads: n fragments, and a body kept in buf was there before or  *)
(* is the first of them.                                                   *)
Cut(s, t, n) == Len(t) = Len(s) - n /\ \A i \in 1..Len(t) : t[i] = s[i + n]

Keep(c, n) ==
  /\ pc'[c] \in {"joined", "posting"} /\ buf'[c] # NoBody =>
       \/ pc[c] \in {"joined", "posting"} /\ buf'[c] = buf[c]
       \/ n > 0 /\ inbox[c][1] # Newline /\ buf'[c] = inbox[c][1]
  /\ pc'[c] = "posting" => \/ buf'[c] # NoBody
                           \/ pc[c] = "posting" /\ buf' = buf

Reads(c) ==
  /\ \A d \in Conns \ {c} : inbox'[d] = inbox[d] /\ buf'[d] = buf[d]
  /\ \E n \in 0..Len(inbox[c]) : Cut(inbox[c], inbox'[c], n) /\ Keep(c, n)

(* Fragments taken off an inbox.                                           *)
LEMMA CutTail ==
  ASSUME NEW S, NEW s \in Seq(S)
  PROVE  /\ Cut(s, s, 0)
         /\ s # <<>> => Cut(s, Tail(s), 1) /\ s[1] = Head(s) /\ Len(s) > 0
         /\ Len(s) > 1 => Cut(s, Tail(Tail(s)), 2)
  <1>1. Cut(s, s, 0)
    BY SMT DEF Cut
  <1>2. ASSUME s # <<>> PROVE Cut(s, Tail(s), 1) /\ s[1] = Head(s) /\ Len(s) > 0
    BY <1>2, SMT DEF Cut
  <1>3. ASSUME Len(s) > 1 PROVE Cut(s, Tail(Tail(s)), 2)
    <2>1. Tail(s) \in Seq(S) /\ Len(Tail(s)) = Len(s) - 1 /\ Len(s) \in Nat
          /\ \A i \in 1..Len(Tail(s)) : Tail(s)[i] = s[i + 1]
      BY <1>3, SMT
    <2> DEFINE t == Tail(s)
    <2> HIDE DEF t
    <2>2. t # <<>> => Len(Tail(t)) = Len(t) - 1
                      /\ \A i \in 1..Len(Tail(t)) : Tail(t)[i] = t[i + 1]
      BY <2>1, SMT DEF t
    <2>t. Len(t) > 0 /\ Len(t) = Len(s) - 1
      BY <1>3, <2>1, SMT DEF t
    <2>3. Len(Tail(t)) = Len(s) - 2 /\ t # <<>>
      <3>1. t # <<>>
        BY <2>t, SMT
      <3>2. Len(Tail(t)) = Len(t) - 1
        BY <2>2, <3>1
      <3>3. Len(s) \in Nat
        BY SMT
      <3> QED  BY <2>t, <3>1, <3>2, <3>3, SMT
    <2>4. ASSUME NEW i \in 1..Len(Tail(t)) PROVE Tail(t)[i] = s[i + 2]
      <3>1. i + 1 \in 1..Len(t) /\ i + 1 + 1 = i + 2
        BY <2>1, <2>3, SMT DEF t
      <3> QED  BY <2>1, <2>2, <2>3, <3>1 DEF t
    <2> QED  BY <2>3, <2>4 DEF Cut, t
  <1> QED  BY <1>1, <1>2, <1>3

(* Where the fragments that are left lay before.                           *)
LEMMA CutPlaces ==
  ASSUME NEW s, NEW t, Len(s) \in Nat, NEW n \in 0..Len(s), Cut(s, t, n)
  PROVE  /\ Len(t) \in Nat
         /\ \A i \in 1..Len(t) : i + n \in 1..Len(s) /\ t[i] = s[i + n]
  <1>1. Len(t) = Len(s) - n /\ \A i \in 1..Len(t) : t[i] = s[i + n]
    BY DEF Cut
  <1> DEFINE k == Len(s)
             l == Len(t)
  <1>2. k \in Nat /\ n \in 0..k /\ l = k - n
    BY <1>1
  <1> HIDE DEF k, l
  <1>3. l \in Nat /\ \A i \in 1..l : i + n \in 1..k
    BY <1>2, SMT
  <1> QED  BY <1>1, <1>3 DEF k, l

(* A line read to its end.                                                 *)
LEMMA TakeCut ==
  ASSUME NEW c \in Conns, TypeOK, TakeLine(c)
  PROVE  \E n \in 0..Len(inbox[c]) :
           /\ Cut(inbox[c], inbox'[c], n)
           /\ \/ Line(c) = buf[c]
              \/ n > 0 /\ inbox[c][1] # Newline /\ Line(c) = inbox[c][1]
  <1> DEFINE s == inbox[c]
  <1>1. /\ s \in Seq(Body \cup {Newline}) /\ Len(s) \in Nat
        /\ inbox'[c] = Rest(c)
    BY SMT DEF TakeLine, TypeOK, ConnectionTypeOK
  <1>n. Len(s) \in Nat
    BY <1>1
  <1> HIDE DEF s
  <1>2. /\ Cut(s, s, 0)
        /\ s # <<>> => Cut(s, Tail(s), 1) /\ s[1] = Head(s) /\ Len(s) > 0
        /\ Len(s) > 1 => Cut(s, Tail(Tail(s)), 2)
    BY <1>1, CutTail
  <1>3. CASE s = <<>>
    <2>1. inbox'[c] = s /\ Line(c) = buf[c]
      BY <1>1, <1>3 DEF s, Rest, Line
    <2> QED  BY <1>1, <1>2, <2>1, SMT DEF s
  <1>4. CASE s # <<>> /\ Head(s) = Newline
    <2>1. inbox'[c] = Tail(s) /\ Line(c) = buf[c]
      BY <1>1, <1>4 DEF s, Rest, Line
    <2>2. 1 \in 0..Len(s)
      BY <1>1, <1>2, <1>4, SMT
    <2> QED  BY <1>2, <1>4, <2>1, <2>2 DEF s
  <1>5. CASE s # <<>> /\ Head(s) # Newline /\ Len(s) = 1
    <2>1. inbox'[c] = Tail(s) /\ Line(c) = s[1]
      BY <1>1, <1>2, <1>5 DEF s, Rest, Line
    <2>2. 1 \in 0..Len(s) /\ 1 > 0
      BY <1>1, <1>2, <1>5, SMT
    <2> QED  BY <1>2, <1>5, <2>1, <2>2 DEF s
  <1>6. CASE s # <<>> /\ Head(s) # Newline /\ Len(s) > 1
    <2>m. Len(s) > 1
      BY <1>6
    <2>0. Len(s) # 1
      <3>1. \A n \in Nat : n > 1 => n # 1
        BY SMT
      <3> QED  BY <1>n, <2>m, <3>1
    <2>1. inbox'[c] = Tail(Tail(s)) /\ Line(c) = s[1]
      BY <1>1, <1>2, <1>6, <2>0 DEF s, Rest, Line
    <2>2. 2 \in 0..Len(s) /\ 2 > 0
      BY <1>n, <2>m, SMT
    <2> QED  BY <1>2, <1>6, <2>1, <2>2 DEF s
  <1>7. s = <<>> \/ Len(s) = 1 \/ Len(s) > 1
    BY <1>n, <1>2, SMT
  <1> QED  BY <1>3, <1>4, <1>5, <1>6, <1>7 DEF s

(* A step that reads nothing and does not come into the joined state.      *)
LEMMA ReadsNothing ==
  ASSUME NEW c \in Conns, TypeOK, inbox' = inbox,
         \A d \in Conns \ {c} : buf'[d] = buf[d],
         \/ pc'[c] \notin {"joined", "posting"}
         \/ pc'[c] = pc[c] /\ buf' = buf
         \/ pc'[c] = "joined" /\ buf'[c] = NoBody
  PROVE  Reads(c)
  <1>1. Cut(inbox[c], inbox'[c], 0) /\ 0 \in 0..Len(inbox[c])
    BY CutTail, SMT DEF TypeOK, ConnectionTypeOK
  <1>2. Keep(c, 0)
    BY DEF Keep
  <1> QED  BY <1>1, <1>2 DEF Reads

(* A write goes to its next point or ends the task.                        *)
LEMMA WriteGoes ==
  ASSUME NEW c \in Conns, TypeOK, NEW next,
         (\E line : WriteReply(c, line, next)) \/ WriteQueued(c, next)
  PROVE  pc'[c] \in {next, "gone"}
  BY DEF WriteReply, WriteQueued, WriteFails, Put, End, TypeOK, ConnectionTypeOK

(* A line is read, and the task goes elsewhere.                            *)
LEMMA ReadsLine ==
  ASSUME NEW c \in Conns, TypeOK, TakeLine(c),
         \A d \in Conns \ {c} : buf'[d] = buf[d],
         pc'[c] \notin {"joined", "posting"}
  PROVE  Reads(c)
  <1>1. \A d \in Conns \ {c} : inbox'[d] = inbox[d]
    BY DEF TakeLine, TypeOK, ConnectionTypeOK
  <1>2. PICK n \in 0..Len(inbox[c]) : Cut(inbox[c], inbox'[c], n)
    BY TakeCut
  <1>3. Keep(c, n)
    BY DEF Keep
  <1> QED  BY <1>1, <1>2, <1>3 DEF Reads

(* What a connection task holds of a line was at the head of the client's  *)
(* unread input.                                                           *)
LEMMA TickReads ==
  ASSUME NEW c \in Conns, TypeOK, Tick(c)
  PROVE  Reads(c)
  <1> DEFINE Same == \A d \in Conns \ {c} : buf'[d] = buf[d]
  <1>t. pc \in [Conns -> Unregistered \cup Registered \cup Ended]
        /\ buf \in [Conns -> Body \cup {NoBody}]
        /\ inbox \in [Conns -> Seq(Body \cup {Newline})]
    BY DEF TypeOK, ConnectionTypeOK
  <1>1. CASE \/ AnnounceJoined(c) \/ JoinedTimeout(c) \/ JoinedReadError(c)
             \/ Post(c) \/ JoinedEof(c) \/ JoinedShutdown(c) \/ Leave(c)
             \/ AnnounceLeft(c) \/ LeftError(c) \/ UnauthDisconnect(c)
    <2>1. /\ inbox' = inbox /\ buf' = buf
          /\ pc'[c] \notin {"joined", "posting"}
      BY <1>1, <1>t
      DEF AnnounceJoined, JoinedTimeout, JoinedReadError, Post, JoinedEof,
          JoinedShutdown, Closing, Leave, AnnounceLeft, LeftError,
          UnauthDisconnect, End
    <2> QED  BY <2>1, ReadsNothing
  <1>2. CASE Flush(c)
    <2>1. /\ inbox' = inbox /\ buf' = buf
          /\ pc'[c] = pc[c] \/ pc'[c] \notin {"joined", "posting"}
      BY <1>2, <1>t DEF Flush, End
    <2> QED  BY <2>1, ReadsNothing
  <1>3. CASE DrainDone(c)
    <2>1. /\ inbox' = inbox /\ pc'[c] = "joined" /\ buf'[c] = NoBody /\ Same
      BY <1>3, <1>t DEF DrainDone
    <2> QED  BY <2>1, ReadsNothing
  <1>4. CASE \/ AckJoin(c) \/ DrainOne(c) \/ JoinedBroadcast(c)
             \/ PostError(c) \/ LastDrain(c)
    <2>1. inbox' = inbox /\ buf' = buf
      BY <1>4 DEF AckJoin, DrainOne, JoinedBroadcast, PostError, LastDrain
    <2>2. \/ pc'[c] = "leaving"
          \/ \E next \in {"ackJoin", "drain", "closing"} :
               (\E l : WriteReply(c, l, next)) \/ WriteQueued(c, next)
      BY <1>4, <1>t
      DEF AckJoin, DrainOne, JoinedBroadcast, PostError, LastDrain
    <2>3. pc'[c] \notin {"joined", "posting"}
      BY <2>2, WriteGoes
    <2> QED  BY <2>1, <2>3, ReadsNothing
  <1>5. CASE JoinAccepted(c) \/ JoinedLeave(c)
    <2>1. TakeLine(c) /\ pc'[c] \notin {"joined", "posting"} /\ Same
      BY <1>5, <1>t DEF JoinAccepted, JoinedLeave, Closing
    <2> QED  BY <2>1, ReadsLine
  <1>6. CASE UnauthReject(c) \/ JoinedReject(c)
    <2>1. TakeLine(c) /\ Same
      BY <1>6, <1>t DEF UnauthReject, JoinedReject
    <2>2. \E next \in {"unauth", "drain"} : \E l : WriteReply(c, l, next)
      BY <1>6 DEF UnauthReject, JoinedReject
    <2>3. pc'[c] \notin {"joined", "posting"}
      BY <2>2, WriteGoes
    <2> QED  BY <2>1, <2>3, ReadsLine
  <1>7. CASE JoinedSend(c)
    <2>1. /\ TakeLine(c) /\ Same /\ buf'[c] = Line(c) /\ pc[c] = "joined"
          /\ \A d \in Conns \ {c} : inbox'[d] = inbox[d]
      BY <1>7, <1>t DEF JoinedSend, TakeLine
    <2>2. Line(c) # NoBody
      BY <1>7, SMT DEF JoinedSend, NoBody
    <2>3. PICK n \in 0..Len(inbox[c]) :
            /\ Cut(inbox[c], inbox'[c], n)
            /\ \/ Line(c) = buf[c]
               \/ n > 0 /\ inbox[c][1] # Newline /\ Line(c) = inbox[c][1]
      BY <2>1, TakeCut
    <2>4. Keep(c, n)
      BY <2>1, <2>2, <2>3 DEF Keep
    <2> QED  BY <2>1, <2>3, <2>4 DEF Reads
  <1>8. CASE ReadPart(c)
    <2>1. /\ inbox[c] # <<>> /\ Head(inbox[c]) # Newline
          /\ buf'[c] = Head(inbox[c]) /\ inbox'[c] = Tail(inbox[c])
          /\ Same /\ pc'[c] # "posting"
          /\ \A d \in Conns \ {c} : inbox'[d] = inbox[d]
      BY <1>8, <1>t DEF ReadPart, HasLine
    <2>2. /\ Cut(inbox[c], inbox'[c], 1) /\ inbox[c][1] = Head(inbox[c])
          /\ Len(inbox[c]) > 0
      BY <1>t, <2>1, CutTail
    <2>3. 1 \in 0..Len(inbox[c])
      BY <1>t, <2>2, SMT
    <2>4. Keep(c, 1)
      BY <2>1, <2>2, SMT DEF Keep
    <2> QED  BY <2>1, <2>2, <2>3, <2>4 DEF Reads
  <1>9. CASE JoinedTooLong(c) \/ SkipLine(c)
    <2>1. /\ \/ inbox'[c] = inbox[c]
             \/ inbox[c] # <<>> /\ inbox'[c] = Tail(inbox[c])
          /\ \A d \in Conns \ {c} : inbox'[d] = inbox[d]
          /\ Same
      BY <1>9, <1>t DEF JoinedTooLong, SkipLine, TooLong
    <2>2. pc'[c] \notin {"joined", "posting"}
      <3>1. CASE JoinedTooLong(c)
        BY <1>t, <3>1 DEF JoinedTooLong
      <3>2. CASE SkipLine(c)
        <4>1. \E l : WriteReply(c, l, "drain")
          BY <3>2 DEF SkipLine
        <4> QED  BY <4>1, WriteGoes, SMT
      <3> QED  BY <1>9, <3>1, <3>2
    <2>3. PICK n \in 0..Len(inbox[c]) : Cut(inbox[c], inbox'[c], n)
      <3>1. CASE inbox'[c] = inbox[c]
        BY <1>t, <3>1, CutTail, SMT
      <3>2. CASE inbox[c] # <<>> /\ inbox'[c] = Tail(inbox[c])
        <4>1. Cut(inbox[c], inbox'[c], 1) /\ Len(inbox[c]) > 0
          BY <1>t, <3>2, CutTail
        <4>2. 1 \in 0..Len(inbox[c])
          BY <1>t, <4>1, SMT
        <4> QED  BY <4>1, <4>2
      <3> QED  BY <2>1, <3>1, <3>2
    <2>4. Keep(c, n)
      BY <2>2 DEF Keep
    <2> QED  BY <2>1, <2>3, <2>4 DEF Reads
  <1> QED  BY <1>1, <1>2, <1>3, <1>4, <1>5, <1>6, <1>7, <1>8, <1>9 DEF Tick
-----------------------------------------------------------------------------
(* A message sent is the last of the history and of the room.              *)
LEMMA SendAppends ==
  ASSUME TypeOK, NEW m, Send(m)
  PROVE  /\ Len(posted) \in Nat /\ Len(room) \in Nat
         /\ Len(posted') = Len(posted) + 1 /\ Len(room') = Len(room) + 1
         /\ \A j \in 1..Len(posted) : posted'[j] = posted[j]
         /\ \A j \in 1..Len(room) : room'[j] = room[j]
         /\ posted'[Len(posted) + 1] = m /\ room'[Len(room) + 1] = m
  BY SMT DEF TypeOK, BrokerTypeOK, Send

(* Whose message it is, and which number it carries.                       *)
LEMMA PostsOwn ==
  ASSUME NEW c \in Conns, NEW d \in Conns, NEW m, Posts(c, m)
  PROVE  /\ Of(m, d) <=> c = d
         /\ LineOf(m, d) => c = d /\ pc[c] = "posting" /\ m.id = buf[c].id
         /\ m.kind = "left" => pc[c] = "announceLeft" /\ pc'[c] = "gone"
         /\ pc'[c] \notin Unregistered \cup {"announceJoined"}
  <1>1. CASE /\ pc[c] = "announceJoined" /\ pc'[c] = "ackJoin"
             /\ m = UserJoined(c, buf[c].name)
    BY <1>1 DEF Of, LineOf, UserJoined, Unregistered
  <1>2. CASE /\ pc[c] = "posting" /\ pc'[c] = "drain"
             /\ m = Broadcast(c, name[c], buf[c].id)
    BY <1>2 DEF Of, LineOf, Broadcast, Unregistered
  <1>3. CASE /\ pc[c] = "announceLeft" /\ pc'[c] = "gone"
             /\ m = UserLeft(c, name[c])
    BY <1>3 DEF Of, LineOf, UserLeft, Unregistered
  <1> QED  BY <1>1, <1>2, <1>3 DEF Posts

(* A client that writes does so to its own connection.                     *)
LEMMA PeerWrites ==
  ASSUME NEW c \in Conns, TypeOK, Peer(c), NEW d \in Conns
  PROVE  \/ inbox'[d] = inbox[d] /\ wrote'[d] = wrote[d]
         \/ Write(d) \/ WriteNewline(d)
  <1>1. CASE Close(c) \/ Reset(c) \/ Stall(c) \/ Resume(c)
    BY <1>1 DEF Close, Reset, Stall, Resume
  <1>2. CASE (Write(c) \/ WriteNewline(c)) /\ c # d
    <2>1. inbox \in [Conns -> Seq(Body \cup {Newline})] /\ wrote \in [Conns -> Nat]
      BY DEF TypeOK, ConnectionTypeOK
    <2>2. \/ WriteNewline(c)
          \/ /\ \E f : inbox' = [inbox EXCEPT ![c] = f]
             /\ \E n : wrote' = [wrote EXCEPT ![c] = n]
      BY <1>2 DEF Write
    <2> QED  BY <1>2, <2>1, <2>2 DEF WriteNewline
  <1> QED  BY <1>1, <1>2 DEF Peer
=============================================================================
