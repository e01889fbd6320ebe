----------------------------- MODULE Connection -----------------------------
(***************************************************************************)
(* The per-connection task (server/src/chat/connection.rs).  pc[c] is the  *)
(* ConnectionState together with the point inside its tick that the task   *)
(* has reached; a tick is cut wherever another task can come in between:   *)
(* around each use of the registry, of the room and of the channel.        *)
(*                                                                         *)
(*   unauth          waiting for input, not joined                         *)
(*   announceJoined  registered, UserJoined not yet forwarded              *)
(*   ackJoin         UserJoined forwarded, Ok not yet written              *)
(*   joinErr         forwarding UserJoined failed, Err not yet written     *)
(*   drain           Joined, in drain_broadcasts at the top of the loop    *)
(*   joined          Joined, waiting for input                             *)
(*   posting         a SEND was decoded, in acquire() / forward_to_room    *)
(*   postErr         forwarding it failed, Err not yet written             *)
(*   skipping        reading away the rest of an over-long line            *)
(*   closing         in the last drain_broadcasts before leave()           *)
(*   leaving         about to unregister                                   *)
(*   announceLeft    unregistered after end of file, UserLeft not yet sent *)
(*   leftErr         forwarding UserLeft failed, Err not yet written       *)
(*   gone            the task has ended                                    *)
(*                                                                         *)
(* A write to a peer that does not read suspends the task at the write;    *)
(* pc[c] then says where the task goes on.                                 *)
(*                                                                         *)
(* The peer is the environment: it writes lines, closes its writing half,  *)
(* resets the connection, and stops and resumes reading.  sock[c] is       *)
(*                                                                         *)
(*               reads    does not read                                    *)
(*   writing     open     stalled                                          *)
(*   finished    eof      deaf                                             *)
(*                                                                         *)
(* or reset.                                                               *)
(***************************************************************************)
EXTENDS Broker

CONSTANT
  Lines       \* Lines[c]: the <<command, name>> pairs client c may write

ASSUME LinesAssumption ==
  /\ Lines \in [Conns -> SUBSET (Commands \X (Names \cup {NoName}))]
  /\ \A c \in Conns : \A l \in Lines[c] : l[1] = "join" => l[2] \in Names
  /\ MaxLines \in Nat

VARIABLES
  pc, name,
  why,        \* why the connection is being or was closed
  sock,       \* the peer, see above
  inbox,      \* fragments that have arrived and are not yet read
  buf,        \* the read buffer: a body whose newline has not been read yet
  wrote,      \* number of fragments the peer has written
  replies,    \* history: the answers handed to the socket ...
  heard,      \* ... and the room's messages
  writing,    \* the connections suspended in a write
  shutdown    \* value of the shutdown watch channel

peerVars == <<sock, wrote>>
outVars  == <<replies, heard, writing>>
others   == <<dispVars, stop, lost, shutdown, peerVars>>

Unregistered == {"idle", "unauth"}
Registered   == {"announceJoined", "joinErr", "ackJoin", "drain", "joined",
                 "posting", "postErr", "skipping", "closing", "leaving"}
Ended        == {"announceLeft", "leftErr", "gone"}

ConnectionInit ==
  /\ BrokerInit
  /\ pc = [c \in Conns |-> "idle"]
  /\ name = [c \in Conns |-> NoName]
  /\ why = [c \in Conns |-> "none"]
  /\ sock = [c \in Conns |-> "open"]
  /\ inbox = [c \in Conns |-> <<>>]
  /\ buf = [c \in Conns |-> NoBody]
  /\ wrote = [c \in Conns |-> 0]
  /\ replies = [c \in Conns |-> <<>>] /\ heard = [c \in Conns |-> <<>>]
  /\ writing = {}
  /\ shutdown = FALSE
-----------------------------------------------------------------------------
(* The select in wait_for_input is biased: shutdown first, then the        *)
(* channel, and the socket only when neither is ready.                     *)
Reading(c) == ~shutdown /\ rx[c] = <<>>

(* The peer has closed its writing half, whether or not it still reads.    *)
Finished(c) == sock[c] \in {"eof", "deaf"}

(* The outcomes of read_until.  A line is complete at its newline, or at   *)
(* the end of file if something precedes it.  A peer that may still write  *)
(* may let READ_TIMEOUT pass, if the run has it fall silent.               *)
TooLong(c) == inbox[c] # <<>> /\ Head(inbox[c]).cmd = "long"
HasLine(c) ==
  \/ /\ inbox[c] # <<>>
     /\ ~TooLong(c)
     /\ Head(inbox[c]) = Newline \/ Len(inbox[c]) > 1 \/ Finished(c)
  \/ inbox[c] = <<>> /\ buf[c] # NoBody /\ Finished(c)
AtEof(c)     == inbox[c] = <<>> /\ buf[c] = NoBody /\ Finished(c)
ReadFails(c) == inbox[c] = <<>> /\ sock[c] = "reset"
Starved(c)   == /\ "silence" \in Events
                /\ inbox[c] = <<>> /\ sock[c] \in {"open", "stalled"}

Line(c) == IF inbox[c] = <<>> \/ Head(inbox[c]) = Newline
           THEN buf[c] ELSE Head(inbox[c])
Rest(c) == IF inbox[c] = <<>> THEN <<>>
           ELSE IF Head(inbox[c]) = Newline \/ Len(inbox[c]) = 1
           THEN Tail(inbox[c]) ELSE Tail(Tail(inbox[c]))

TakeLine(c) == HasLine(c) /\ inbox' = [inbox EXCEPT ![c] = Rest(c)]

(* The task returns: its receiver is dropped.                              *)
End(c, reason) ==
  /\ pc' = [pc EXCEPT ![c] = "gone"]
  /\ why' = [why EXCEPT ![c] = reason]
  /\ CloseRx(c)

(* Writing to a peer that does not read suspends the task, whether or not  *)
(* the peer has finished writing; to one that reset the connection it      *)
(* fails, and the `?` ends the task.                                       *)
Writable(c) == sock[c] \in {"open", "eof"}

Put(c, next) ==
  /\ sock[c] # "reset"
  /\ pc' = [pc EXCEPT ![c] = next]
  /\ writing' = IF Writable(c) THEN writing ELSE writing \cup {c}
  /\ UNCHANGED why

WriteFails(c) == sock[c] = "reset" /\ End(c, "io") /\ UNCHANGED outVars

WriteReply(c, line, next) ==
  \/ /\ Put(c, next)
     /\ replies' = [replies EXCEPT ![c] = Append(@, line)]
     /\ UNCHANGED <<heard, chanVars>>
  \/ WriteFails(c)

WriteQueued(c, next) ==
  /\ rx[c] # <<>>
  /\ \/ /\ Put(c, next)
        /\ heard' = [heard EXCEPT ![c] = Append(@, Head(rx[c]))]
        /\ rx' = [rx EXCEPT ![c] = Tail(@)]
        /\ UNCHANGED <<replies, closed>>
     \/ WriteFails(c)

(* The suspended write goes through or fails.                              *)
Flush(c) ==
  /\ c \in writing
  /\ \/ Writable(c) /\ UNCHANGED <<pc, why, chanVars>>
     \/ sock[c] = "reset" /\ End(c, "io")
  /\ writing' = writing \ {c}
  /\ UNCHANGED <<users, roomVars, name, inbox, buf, replies, heard, others>>
-----------------------------------------------------------------------------
(* read_until consumes what has arrived of a line and waits for the rest.  *)
(* If another branch of the select completes first, the part already read  *)
(* stays in buf, and is cleared at the start of the next tick.             *)
ReadPart(c) ==
  /\ pc[c] \in {"unauth", "joined"}
  /\ Reading(c)
  /\ inbox[c] # <<>> /\ ~TooLong(c) /\ ~HasLine(c)
  /\ buf' = [buf EXCEPT ![c] = Head(inbox[c])]
  /\ inbox' = [inbox EXCEPT ![c] = Tail(@)]
  /\ UNCHANGED <<users, roomVars, chanVars, pc, name, why, outVars, others>>

UnauthDisconnect(c) ==
  /\ pc[c] = "unauth"
  /\ \/ shutdown /\ End(c, "shutdown")
     \/ Reading(c) /\ Starved(c) /\ End(c, "timeout")
     \/ Reading(c) /\ AtEof(c) /\ End(c, "eof")
     \/ Reading(c) /\ ReadFails(c) /\ End(c, "io")
     \/ Reading(c) /\ TooLong(c) /\ End(c, "tooLong")
  /\ UNCHANGED <<users, roomVars, name, inbox, buf, outVars, others>>

JoinAccepted(c) ==
  /\ pc[c] = "unauth" /\ Reading(c)
  /\ TakeLine(c)
  /\ Line(c).cmd = "join" /\ Line(c).name \notin Invalid
  /\ Register(c, Trim[Line(c).name])
  /\ name' = [name EXCEPT ![c] = Trim[Line(c).name]]
  /\ buf' = [buf EXCEPT ![c] = Line(c)]
  /\ pc' = [pc EXCEPT ![c] = "announceJoined"]
  /\ UNCHANGED <<roomVars, chanVars, why, outVars, others>>

JoinRefusal(c) ==
  {r \in {"invalidUsername", "lockTimeout", "usernameTaken"} :
     \/ r = "invalidUsername" /\ Line(c).name \in Invalid
     \/ r = "lockTimeout" /\ Line(c).name \notin Invalid /\ LockTimeout
     \/ r = "usernameTaken" /\ Line(c).name \notin Invalid
                             /\ Taken(Trim[Line(c).name])}

(* Mutant: a refused JOIN cleans up after itself, by key.                  *)
UnauthRejectCleansUp(c) ==
  /\ pc[c] = "unauth" /\ Reading(c)
  /\ TakeLine(c)
  /\ Line(c).cmd = "join" /\ Taken(Trim[Line(c).name])
  /\ WriteReply(c, Err(c, "usernameTaken"), "unauth")
  /\ Unregister(Trim[Line(c).name])
  /\ buf' = [buf EXCEPT ![c] = NoBody]
  /\ UNCHANGED <<roomVars, name, others>>

(* Mutant: a JOIN under a name that is taken replaces the entry's sender.  *)
UnauthRejectReplaces(c) ==
  /\ pc[c] = "unauth" /\ Reading(c)
  /\ TakeLine(c)
  /\ Line(c).cmd = "join" /\ Taken(Trim[Line(c).name])
  /\ WriteReply(c, Err(c, "usernameTaken"), "unauth")
  /\ users' = [users EXCEPT ![Fold[Trim[Line(c).name]]] = c]
  /\ buf' = [buf EXCEPT ![c] = NoBody]
  /\ UNCHANGED <<roomVars, name, others>>

UnauthReject(c) ==
  /\ pc[c] = "unauth" /\ Reading(c)
  /\ TakeLine(c)
  /\ \E r \in CASE Line(c).cmd = "join" -> JoinRefusal(c)
                [] Line(c).cmd \in {"send", "leave"} -> {"mustJoinFirst"}
                [] OTHER -> {DecodeError(Line(c))} :
       WriteReply(c, Err(c, r), "unauth")
  /\ buf' = [buf EXCEPT ![c] = NoBody]
  /\ UNCHANGED <<users, roomVars, name, others>>

(* Mutant: a full room turns the JOIN into a failure, still registered.    *)
AnnounceJoinedGivesUp(c) ==
  /\ pc[c] = "announceJoined"
  /\ \/ Send(UserJoined(c, buf[c].name)) /\ pc' = [pc EXCEPT ![c] = "ackJoin"]
     \/ SendTimeout /\ pc' = [pc EXCEPT ![c] = "unauth"]
  /\ UNCHANGED <<users, chanVars, name, why, inbox, buf, outVars, others>>

(* Mutant: the loop is entered before the Ok is written.                   *)
AnnounceJoinedNoAck(c) ==
  /\ pc[c] = "announceJoined"
  /\ Send(UserJoined(c, buf[c].name))
  /\ pc' = [pc EXCEPT ![c] = "drain"]
  /\ UNCHANGED <<users, chanVars, name, why, inbox, buf, outVars, others>>

(* The notification carries the name as the client sent it, not trimmed.   *)
AnnounceJoined(c) ==
  /\ pc[c] = "announceJoined"
  /\ \/ Send(UserJoined(c, buf[c].name)) /\ pc' = [pc EXCEPT ![c] = "ackJoin"]
     \/ SendTimeout /\ pc' = [pc EXCEPT ![c] = "joinErr"]
  /\ UNCHANGED <<users, chanVars, name, why, inbox, buf, outVars, others>>

AckJoin(c) ==
  /\ \/ pc[c] = "joinErr" /\ WriteReply(c, Err(c, "roomTimeout"), "ackJoin")
     \/ pc[c] = "ackJoin" /\ WriteReply(c, Ok(c), "drain")
  /\ UNCHANGED <<users, roomVars, name, inbox, buf, others>>
-----------------------------------------------------------------------------
DrainOne(c) ==
  /\ pc[c] = "drain"
  /\ WriteQueued(c, "drain")
  /\ UNCHANGED <<users, roomVars, name, inbox, buf, others>>

DrainDone(c) ==
  /\ pc[c] = "drain" /\ rx[c] = <<>>
  /\ buf' = [buf EXCEPT ![c] = NoBody]
  /\ pc' = [pc EXCEPT ![c] = "joined"]
  /\ UNCHANGED <<users, roomVars, chanVars, name, why, inbox, outVars, others>>

JoinedBroadcast(c) ==
  /\ pc[c] = "joined" /\ ~shutdown
  /\ WriteQueued(c, "drain")
  /\ UNCHANGED <<users, roomVars, name, inbox, buf, others>>

JoinedTimeout(c) ==
  /\ pc[c] = "joined" /\ Reading(c) /\ Starved(c)
  /\ pc' = [pc EXCEPT ![c] = "drain"]
  /\ UNCHANGED <<users, roomVars, chanVars, name, why, inbox, buf, outVars,
                 others>>

JoinedReadError(c) ==
  /\ \/ pc[c] = "joined" /\ Reading(c)
     \/ pc[c] = "skipping"
  /\ ReadFails(c)
  /\ End(c, "io")
  /\ UNCHANGED <<users, roomVars, name, inbox, buf, outVars, others>>

JoinedTooLong(c) ==
  /\ pc[c] = "joined" /\ Reading(c) /\ TooLong(c)
  /\ inbox' = [inbox EXCEPT ![c] = Tail(@)]
  /\ pc' = [pc EXCEPT ![c] = "skipping"]
  /\ UNCHANGED <<users, roomVars, chanVars, name, why, buf, outVars, others>>

(* Mutant: the rest of the over-long line is not read away.                *)
SkipNothing(c) ==
  /\ pc[c] = "skipping"
  /\ WriteReply(c, Err(c, "messageTooLong"), "drain")
  /\ UNCHANGED <<users, roomVars, name, inbox, buf, others>>

(* The rest of the line is read without a timeout, and without looking at  *)
(* the shutdown signal or the channel.                                     *)
SkipLine(c) ==
  /\ pc[c] = "skipping"
  /\ inbox[c] # <<>> \/ Finished(c)
  /\ inbox' = [inbox EXCEPT ![c] = IF @ = <<>> THEN @ ELSE Tail(@)]
  /\ WriteReply(c, Err(c, "messageTooLong"), "drain")
  /\ UNCHANGED <<users, roomVars, name, buf, others>>

JoinedReject(c) ==
  /\ pc[c] = "joined" /\ Reading(c)
  /\ TakeLine(c)
  /\ Line(c).cmd \notin {"send", "leave"}
  /\ WriteReply(c, Err(c, IF Line(c).cmd = "join" THEN "invalidCommand"
                          ELSE DecodeError(Line(c))), "drain")
  /\ UNCHANGED <<users, roomVars, name, buf, others>>

JoinedSend(c) ==
  /\ pc[c] = "joined" /\ Reading(c)
  /\ TakeLine(c)
  /\ Line(c).cmd = "send"
  /\ buf' = [buf EXCEPT ![c] = Line(c)]
  /\ pc' = [pc EXCEPT ![c] = "posting"]
  /\ UNCHANGED <<users, roomVars, chanVars, name, why, outVars, others>>

Post(c) ==
  /\ pc[c] = "posting"
  /\ \/ /\ Send(Broadcast(c, name[c], buf[c].id))
        /\ pc' = [pc EXCEPT ![c] = "drain"]
     \/ SendTimeout /\ pc' = [pc EXCEPT ![c] = "postErr"]
  /\ UNCHANGED <<users, chanVars, name, why, inbox, buf, outVars, others>>

PostError(c) ==
  /\ pc[c] = "postErr"
  /\ WriteReply(c, Err(c, "roomTimeout"), "drain")
  /\ UNCHANGED <<users, roomVars, name, inbox, buf, others>>
-----------------------------------------------------------------------------
Closing(c, reason) ==
  /\ pc' = [pc EXCEPT ![c] = "closing"]
  /\ why' = [why EXCEPT ![c] = reason]

JoinedLeave(c) ==
  /\ pc[c] = "joined" /\ Reading(c)
  /\ TakeLine(c)
  /\ Line(c).cmd = "leave"
  /\ Closing(c, "leave")
  /\ UNCHANGED <<users, roomVars, chanVars, name, buf, outVars, others>>

(* Mutant: end of file ends the task without leave().                      *)
JoinedEofQuits(c) ==
  /\ pc[c] = "joined" /\ Reading(c) /\ AtEof(c)
  /\ End(c, "eof")
  /\ UNCHANGED <<users, roomVars, name, inbox, buf, outVars, others>>

JoinedEof(c) ==
  /\ pc[c] = "joined" /\ Reading(c) /\ AtEof(c)
  /\ Closing(c, "eof")
  /\ UNCHANGED <<users, roomVars, chanVars, name, inbox, buf, outVars, others>>

JoinedShutdown(c) ==
  /\ pc[c] = "joined" /\ shutdown
  /\ Closing(c, "shutdown")
  /\ UNCHANGED <<users, roomVars, chanVars, name, inbox, buf, outVars, others>>

LastDrain(c) ==
  /\ pc[c] = "closing"
  /\ \/ WriteQueued(c, "closing")
     \/ /\ rx[c] = <<>>
        /\ pc' = [pc EXCEPT ![c] = "leaving"]
        /\ UNCHANGED <<why, chanVars, outVars>>
  /\ UNCHANGED <<users, roomVars, name, inbox, buf, others>>

(* leave() consumes the Joined value, so its receiver is dropped even when *)
(* unregister times out on the lock, which is only logged.                 *)
Leave(c) ==
  /\ pc[c] = "leaving"
  /\ \/ Unregister(name[c]) /\ UNCHANGED why
     \/ /\ LockTimeout
        /\ why' = [why EXCEPT ![c] = "lock"]
        /\ UNCHANGED users
  /\ CloseRx(c)
  /\ pc' = [pc EXCEPT ![c] = IF why[c] = "eof" THEN "announceLeft" ELSE "gone"]
  /\ UNCHANGED <<roomVars, name, inbox, buf, outVars, others>>

AnnounceLeft(c) ==
  /\ pc[c] = "announceLeft"
  /\ \/ Send(UserLeft(c, name[c])) /\ pc' = [pc EXCEPT ![c] = "gone"]
     \/ SendTimeout /\ pc' = [pc EXCEPT ![c] = "leftErr"]
  /\ UNCHANGED <<users, chanVars, name, why, inbox, buf, outVars, others>>

LeftError(c) ==
  /\ pc[c] = "leftErr"
  /\ \/ /\ Writable(c)
        /\ replies' = [replies EXCEPT ![c] = Append(@, Err(c, "roomTimeout"))]
     \/ sock[c] = "reset" /\ UNCHANGED replies
  /\ pc' = [pc EXCEPT ![c] = "gone"]
  /\ UNCHANGED <<users, roomVars, chanVars, name, why, inbox, buf, heard,
                 writing, others>>

Tick(c) ==
  \/ Flush(c)
  \/ /\ c \notin writing
     /\ \/ ReadPart(c) \/ UnauthDisconnect(c) \/ JoinAccepted(c)
        \/ UnauthReject(c) \/ AnnounceJoined(c) \/ AckJoin(c)
        \/ DrainOne(c) \/ DrainDone(c) \/ JoinedBroadcast(c)
        \/ JoinedTimeout(c) \/ JoinedReadError(c) \/ JoinedTooLong(c)
        \/ SkipLine(c) \/ JoinedReject(c) \/ JoinedSend(c) \/ Post(c)
        \/ PostError(c) \/ JoinedLeave(c) \/ JoinedEof(c)
        \/ JoinedShutdown(c) \/ LastDrain(c) \/ Leave(c)
        \/ AnnounceLeft(c) \/ LeftError(c)
-----------------------------------------------------------------------------
ConnectionTypeOK ==
  /\ pc \in [Conns -> Unregistered \cup Registered \cup Ended]
  /\ name \in [Conns -> Names \cup {NoName}]
  /\ why \in [Conns -> {"none", "io", "lock", "eof", "leave", "shutdown",
                        "timeout", "tooLong"}]
  /\ sock \in [Conns -> {"open", "stalled", "eof", "deaf", "reset"}]
  /\ inbox \in [Conns -> Seq(Body \cup {Newline})]
  /\ buf \in [Conns -> Body \cup {NoBody}]
  /\ wrote \in [Conns -> Nat]
  /\ replies \in [Conns -> Seq(Reply)] /\ heard \in [Conns -> Seq(RoomMsg)]
  /\ writing \subseteq Conns
  /\ shutdown \in BOOLEAN
=============================================================================
