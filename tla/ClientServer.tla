---------------------------- MODULE ClientServer ----------------------------
(***************************************************************************)
(* The command line client on one connection of the server.  What Client   *)
(* leaves to its environment is done by ChatServer here, and the other way *)
(* round: the lines of connection me are those the client writes, each as  *)
(* a body and, by a write of its own, a newline; what the client is told   *)
(* is what the connection task has written.  The other connections are     *)
(* guests, who are free to write what Lines says, and to close.  The       *)
(* server is not shut down.                                                *)
(***************************************************************************)
EXTENDS ChatServer

CONSTANTS
  me,                                \* the client's connection
  UserName,                          \* its --username
  MaxGuest,                          \* bound: lines written by a guest
  CmdCap, MaxInput, MaxTalk, Faults  \* see Client

ASSUME ClientAssumption ==
  /\ me \in Conns /\ UserName \in Names
  /\ CmdCap \in Nat \ {0} /\ MaxInput \in Nat /\ MaxInput < MaxLines
  /\ Faults \subseteq {"drop", "readline"}

VARIABLES main, reader, input, cmds, flag, typed, sent, got

clientVars == <<main, reader, input, cmds, flag, typed, sent, got>>
allVars == <<vars, clientVars>>

(* The client's end of the connection.                                     *)
Up == pc[me] # "gone" /\ sock[me] = "open"
Told == Len(replies[me]) + Len(heard[me])
FirstLine == IF Told = 0 THEN "none"
             ELSE IF replies[me] = <<>> THEN "line"
             ELSE IF replies[me][1] = Ok(me) THEN "ok" ELSE "err"

Cl == INSTANCE Client WITH told <- Told, answer <- FirstLine, up <- Up

AllInit == Init /\ Cl!LocalInit
-----------------------------------------------------------------------------
(* A command's kind is what the server decodes; a line written to a server *)
(* that has gone is lost.                                                  *)
BodyOf(cmd) == [cmd |-> cmd.kind, id |-> wrote[me] + 1,
                name |-> IF cmd.kind = "join" THEN UserName ELSE NoName]

ClientWrites ==
  /\ Up => wrote[me] % 2 = 0
  /\ UNCHANGED <<peerFrame, sock>>
  /\ Cl!Writes
  /\ IF Up /\ sent' # sent
     THEN /\ inbox' = [inbox EXCEPT ![me] = Append(@, BodyOf(sent'[Len(sent')]))]
          /\ wrote' = [wrote EXCEPT ![me] = @ + 1]
     ELSE UNCHANGED <<inbox, wrote>>

ClientNewline == WriteNewline(me) /\ UNCHANGED clientVars

ClientSteps == UNCHANGED vars /\ Cl!Step

(* The process is gone: its socket is closed, and reset if lines of the    *)
(* server were left unread or come after that.                             *)
HangUp ==
  /\ Cl!Ended /\ wrote[me] % 2 = 0
  /\ \/ sock[me] = "open" /\ sock' = [sock EXCEPT ![me] = "eof"]
     \/ /\ sock[me] \in {"open", "eof"} /\ got < Told
        /\ sock' = [sock EXCEPT ![me] = "reset"]
  /\ UNCHANGED <<peerFrame, inbox, wrote, clientVars>>

ClientNext ==
  \/ ~Cl!Ended /\ (ClientWrites \/ ClientSteps)
  \/ ClientNewline \/ HangUp

Guest(c) == (Write(c) /\ wrote[c] < 2 * MaxGuest) \/ Close(c)

ServerNext ==
  /\ \/ AcquirePermit \/ AcceptError
     \/ Dispatcher /\ UNCHANGED <<connVars, mainVars>>
     \/ \E c \in Conns : \/ Accept(c) /\ (c = me => main # "connect")
                         \/ Tick(c) /\ UNCHANGED mainVars
     \/ \E c \in Conns \ {me} : Guest(c)
  /\ UNCHANGED clientVars

AllDone == Cl!Ended /\ UNCHANGED allVars

AllSpec == AllInit /\ [][ClientNext \/ ServerNext \/ AllDone]_allVars

AllFairSpec ==
  /\ AllSpec
  /\ WF_allVars(Dispatcher /\ UNCHANGED <<connVars, mainVars, clientVars>>)
  /\ \A c \in Conns :
       WF_allVars(Tick(c) /\ UNCHANGED <<mainVars, clientVars>>)
  /\ WF_allVars(ClientNewline)
  /\ WF_allVars(~Cl!Ended /\ (ClientWrites \/ (UNCHANGED vars /\ Cl!MainStep)))
  /\ WF_allVars(~Cl!Ended /\ UNCHANGED vars /\ Cl!Reader)
  /\ WF_allVars(~Cl!Ended /\ UNCHANGED vars /\ Cl!Thread)
-----------------------------------------------------------------------------
(* The server is the environment the client was written for: nothing       *)
(* reaches the client before the answer to its JOIN, whoever talks in the  *)
(* room meanwhile, and no step of the server is one that Client, and what  *)
(* is shown of it, does not reckon with.                                   *)
ClientIsServed == Cl!Spec

(* Client and server agree on who has joined.  While the client takes the  *)
(* user's commands its connection, unless closed, is registered and past   *)
(* the Ok; and a client that has given up on its JOIN is registered only   *)
(* if the room was full, when the JOIN is answered with Err and then Ok.   *)
Agreement ==
  /\ main \notin {"connect", "join", "answer", "failed"} =>
       pc[me] \notin Unregistered \cup {"announceJoined", "joinErr", "ackJoin"}
  /\ main = "failed" /\ reader = "none" /\ pc[me] \in Registered =>
       replies[me] # <<>> /\ replies[me][1] = Err(me, "roomTimeout")

(* Ctrl-c and ctrl-d end the program without further input: the LEAVE they *)
(* stand for reaches the server, which closes, which ends the reader, for  *)
(* which main waits.  The one exception is a server that lost a line of    *)
(* the client, to a broadcast or a read timeout between body and newline,  *)
(* and has answered that it was empty.                                     *)
InterruptExits ==
  input = "sendLast" ~>
    Cl!Ended \/ Cl!Wedged \/ Err(me, "emptyMessage") \in Range(replies[me])
=============================================================================
