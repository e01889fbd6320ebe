------------------------- MODULE ClientServerProofs -------------------------
(***************************************************************************)
(* Client and server agree on who has joined: proofs for any number of     *)
(* other connections, whatever they do, and for any capacities.            *)
(*                                                                         *)
(* The steps of the composition are those of ChatServer but for two of the *)
(* client's, a body that arrives and the end of the client; what is shown  *)
(* of ChatServer step by step therefore holds here too.  That a client     *)
(* that took an Err for the answer is not registered later rests on the    *)
(* count of lines and answers: it has written one line, and a connection   *)
(* that has answered it has nothing left to register for.                  *)
(*                                                                         *)
(* The theorems about the server that count, ConnectionsAreLimited and     *)
(* EveryLineIsAnsweredOnce, stand at the end too, where Counting is        *)
(* proved.                                                                 *)
(***************************************************************************)
EXTENDS ClientServer, AnswerProofs

(* A leaf that names no prover is left to Zenon; those that need numbers,  *)
(* sequences or large functions cite SMT.                                  *)
USE Zenon

(* The state of the connection the client shares with the server.          *)
Shared ==
  /\ \/ sock[me] = "open"
     \/ sock[me] \in {"eof", "reset"} /\ Cl!Ended /\ wrote[me] % 2 = 0
  /\ wrote[me] <= 2 * Len(sent)
  /\ ~exited

Agreed ==
  /\ reader = "none" /\ pc[me] \in Registered /\ replies[me] # <<>> =>
       replies[me][1] \in {Ok(me), Err(me, "roomTimeout")}
  /\ reader # "none" => pc[me] \in Past \cup Ended
  /\ main = "failed" /\ reader = "none" =>
       \/ pc[me] \in Ended
       \/ replies[me] # <<>> /\ replies[me][1] # Ok(me)

AllNext == ClientNext \/ ServerNext \/ AllDone

(* The first element of a sequence.                                        *)
LEMMA HeadIn ==
  ASSUME NEW S, NEW s \in Seq(S), s # <<>>
  PROVE  Head(s) \in S
BY SMT

(* A body arrives at the server.                                           *)
Arrives ==
  /\ UNCHANGED <<peerFrame, sock>>
  /\ pc[me] # "gone" /\ sock[me] = "open" /\ wrote[me] % 2 = 0
  /\ \E b \in Body : inbox' = [inbox EXCEPT ![me] = Append(@, b)]
  /\ wrote' = [wrote EXCEPT ![me] = @ + 1]

(* What a body that arrives, and the end of the client, leave alone.       *)
LEMMA Kept ==
  ASSUME UNCHANGED peerFrame
  PROVE  UNCHANGED <<pc, buf, replies, heard, posted, exited>>
BY DEF peerFrame, brokerVars, roomVars, outVars, mainVars

(* A body that arrives keeps the types of the server ...                   *)
LEMMA ArrivesType ==
  ASSUME TypeOK, Arrives
  PROVE  TypeOK'
<1>1. PICK b \in Body : inbox' = [inbox EXCEPT ![me] = Append(@, b)]
  BY DEF Arrives
<1>2. UNCHANGED <<peerFrame, sock>> /\ wrote' = [wrote EXCEPT ![me] = @ + 1]
  BY DEF Arrives
<1>3. inbox \in [Conns -> Seq(Body \cup {Newline})] /\ wrote \in [Conns -> Nat]
      /\ me \in Conns
  BY ClientAssumption DEF TypeOK, ConnectionTypeOK
<1>4. Append(inbox[me], b) \in Seq(Body \cup {Newline})
  BY <1>3, SMT
<1>5. inbox' \in [Conns -> Seq(Body \cup {Newline})]
  BY <1>1, <1>3, <1>4
<1>6. wrote' \in [Conns -> Nat]
  BY <1>2, <1>3, SMT
<1>. QED
  BY <1>2, <1>5, <1>6
  DEF peerFrame, TypeOK, BrokerTypeOK, ConnectionTypeOK, brokerVars, mainVars,
      outVars

(* ... and so does the end of the client.                                  *)
LEMMA HangUpType ==
  ASSUME TypeOK, HangUp
  PROVE  TypeOK'
<1>1. UNCHANGED <<peerFrame, inbox, wrote>>
      /\ \E v \in {"eof", "reset"} : sock' = [sock EXCEPT ![me] = v]
  BY DEF HangUp
<1>2. sock' \in [Conns -> {"open", "stalled", "eof", "deaf", "reset"}]
  BY <1>1 DEF TypeOK, ConnectionTypeOK
<1>. QED
  BY <1>1, <1>2
  DEF peerFrame, TypeOK, BrokerTypeOK, ConnectionTypeOK, brokerVars, mainVars,
      outVars

(* The count of lines and answers, when a body arrives ...                 *)
LEMMA ArrivesInStep ==
  ASSUME TypeOK, Arrives, NEW d \in Conns, InStep(d)
  PROVE  InStep(d)'
<1>1. UNCHANGED <<pc, buf, replies, posted, sock>>
  BY Kept DEF Arrives
<1>2. inbox \in [Conns -> Seq(Body \cup {Newline})] /\ wrote \in [Conns -> Nat]
      /\ me \in Conns
  BY ClientAssumption DEF TypeOK, ConnectionTypeOK
<1>3. Framed(inbox[d], wrote[d])
  BY DEF InStep
<1>4. Cardinality(Said(d)') = Cardinality(Said(d))
  BY <1>1 DEF Said
<1>5. CASE d = me
  <2>1. PICK b \in Body : inbox'[d] = Append(inbox[d], b)
    BY <1>2, <1>5 DEF Arrives
  <2>2. wrote'[d] = wrote[d] + 1 /\ wrote[d] % 2 = 0 /\ sock[d] = "open"
    BY <1>2, <1>5 DEF Arrives
  <2>3. inbox[d] \in Seq(Body \cup {Newline}) /\ wrote[d] \in Nat
    BY <1>2
  <2>4. b # Newline
    BY SMT DEF Body, Newline, Commands
  <2>5. b = Newline <=> wrote[d] % 2 = 1
    BY <2>2, <2>4, SMT
  <2>6. Framed(inbox'[d], wrote'[d])
        /\ wrote'[d] - Len(inbox'[d]) = wrote[d] - Len(inbox[d])
    <3> DEFINE s == inbox[d]
               t == inbox'[d]
               w == wrote[d]
               x == wrote'[d]
               S == Body \cup {Newline}
    <3>1. s \in Seq(S) /\ w \in Nat /\ Framed(s, w) /\ x = w + 1
          /\ t = Append(s, b) /\ (b = Newline <=> w % 2 = 1)
      BY <1>3, <2>1, <2>2, <2>3, <2>5
    <3>. HIDE DEF s, t, w, x, S
    <3>2. Framed(t, x) /\ x - Len(t) = w - Len(s)
      BY <3>1, AppendFramed
    <3>. QED
      BY <3>2 DEF s, t, w, x
  <2>7. Settled(d)
    BY <2>2 DEF Settled
  <2>8. FragmentsRead(d)' = FragmentsRead(d)
    BY <2>6 DEF FragmentsRead
  <2>. QED
    BY <1>1, <1>4, <2>6, <2>7, <2>8, SameInStep
<1>6. CASE d # me
  <2>1. inbox'[d] = inbox[d] /\ wrote'[d] = wrote[d]
    BY <1>2, <1>6 DEF Arrives
  <2>2. FragmentsRead(d)' = FragmentsRead(d) /\ (Settled(d)' <=> Settled(d))
        /\ Framed(inbox'[d], wrote'[d])
    BY <1>1, <1>3, <2>1 DEF FragmentsRead, Settled
  <2>. QED
    BY <1>1, <1>4, <2>2, SameInStep
<1>. QED
  BY <1>5, <1>6

(* ... and when the client hangs up.                                       *)
LEMMA HangUpInStep ==
  ASSUME TypeOK, HangUp, NEW d \in Conns, InStep(d)
  PROVE  InStep(d)'
<1>1. UNCHANGED <<pc, buf, replies, posted, inbox, wrote>>
  BY Kept DEF HangUp
<1>2. Framed(inbox'[d], wrote'[d]) /\ FragmentsRead(d)' = FragmentsRead(d)
      /\ Cardinality(Said(d)') = Cardinality(Said(d))
  BY <1>1 DEF InStep, FragmentsRead, Said
<1>3. Settled(d)
      \/ sock'[d] = sock[d]
  <2>1. CASE d = me
    BY <2>1 DEF HangUp, Settled
  <2>2. CASE d # me
    BY <2>2, ClientAssumption DEF HangUp, TypeOK, ConnectionTypeOK
  <2>. QED
    BY <2>1, <2>2
<1>4. Settled(d)' => Settled(d)
  BY <1>1, <1>3 DEF Settled
<1>. QED
  BY <1>1, <1>2, <1>4, SameInStep

-----------------------------------------------------------------------------
(* All of two fragments read, if a line was.                               *)
LEMMA NumbersOfOne ==
  ASSUME NEW w \in Nat, NEW l \in Nat, NEW n \in Nat, NEW f \in Nat,
         w <= 2, f = w - l, n >= 1, f \div 2 = n
  PROVE  l = 0 /\ f % 2 = 0
BY SMT

(* The server leaves the client's end of the connection to the client.     *)
LEMMA ServerSide ==
  ASSUME TypeOK, ServerNext
  PROVE  sock'[me] = sock[me] /\ wrote'[me] = wrote[me] /\ exited' = exited
<1>0. sock \in [Conns -> {"open", "stalled", "eof", "deaf", "reset"}]
      /\ wrote \in [Conns -> Nat] /\ me \in Conns
  BY ClientAssumption DEF TypeOK, ConnectionTypeOK
<1>1. CASE AcquirePermit \/ AcceptError
  BY <1>1 DEF AcquirePermit, AcceptError, connVars, peerVars
<1>2. CASE Dispatcher /\ UNCHANGED <<connVars, mainVars>>
  BY <1>2 DEF connVars, peerVars, mainVars
<1>3. ASSUME NEW c \in Conns, Accept(c)
      PROVE  UNCHANGED <<sock, wrote, exited>>
  BY <1>3 DEF Accept, peerVars
<1>4. ASSUME NEW c \in Conns, Tick(c) /\ UNCHANGED mainVars
      PROVE  UNCHANGED <<sock, wrote, exited>>
  <2>1. UNCHANGED others
    BY <1>4, TickKeepsOthers
  <2>. QED
    BY <1>4, <2>1 DEF others, peerVars, mainVars
<1>5. ASSUME NEW c \in Conns \ {me}, Guest(c)
      PROVE  sock'[me] = sock[me] /\ wrote'[me] = wrote[me] /\ exited' = exited
  <2>1. exited' = exited
    BY <1>5 DEF Guest, Write, Close, peerFrame, mainVars
  <2>2. \/ sock' = sock
        \/ \E v : sock' = [sock EXCEPT ![c] = v]
    BY <1>5 DEF Guest, Write, Close
  <2>3. \/ wrote' = wrote
        \/ wrote' = [wrote EXCEPT ![c] = @ + 1]
        \/ wrote' = [wrote EXCEPT ![c] = @ + 2]
    BY <1>5 DEF Guest, Write, Close
  <2>. QED
    BY <1>0, <2>1, <2>2, <2>3
<1>. QED
  BY <1>1, <1>2, <1>3, <1>4, <1>5 DEF ServerNext

(* An odd number of fragments is one less than two for every line.         *)
LEMMA OddBelow ==
  ASSUME NEW a \in Nat, NEW n \in Nat, a % 2 = 1, a <= 2 * n
  PROVE  a + 1 <= 2 * n
BY SMT

-----------------------------------------------------------------------------
(* How the client leaves the states in which it waits for the answer.      *)
Waits == UNCHANGED reader /\ (main' = "failed" => main = "failed")

Fails ==
  /\ main \in {"join", "answer"} /\ UNCHANGED reader
  /\ (Told > 0 /\ FirstLine # "ok") \/ ~Up

(* The states of a connection, sorted.                                     *)
LEMMA Sorted ==
  ASSUME TypeOK
  PROVE  /\ me \in Conns
         /\ pc[me] \in Asking \cup {"ackJoin"} \cup Past \cup Ended
         /\ Asking \cup {"ackJoin"} \cup Past \cup Ended
              = Unregistered \cup Registered \cup Ended
<1>1. Asking \cup {"ackJoin"} \cup Past \cup Ended
        = Unregistered \cup Registered \cup Ended
  BY DEF Asking, Past, Registered, Unregistered
<1>2. me \in Conns
  BY ClientAssumption
<1>. QED
  BY <1>1, <1>2 DEF TypeOK, ConnectionTypeOK

(* A connection joins by a line.                                           *)
LEMMA TickEnters ==
  ASSUME TypeOK, Tick(me), pc[me] \in Unregistered, pc'[me] \in Registered
  PROVE  pc[me] = "unauth" /\ HasLine(me)
<1>0. me \in Conns /\ pc \in [Conns -> Unregistered \cup Registered \cup Ended]
  BY ClientAssumption DEF TypeOK, ConnectionTypeOK
<1>1. pc[me] \in {"idle", "unauth"} /\ pc'[me] \notin {"idle", "unauth", "gone"}
  BY DEF Unregistered, Registered
<1>2. ~(AnnounceJoined(me) \/ AckJoin(me) \/ DrainOne(me) \/ DrainDone(me)
        \/ JoinedBroadcast(me) \/ JoinedTimeout(me) \/ JoinedReadError(me))
  BY <1>1 DEF AnnounceJoined, AckJoin, DrainOne, DrainDone, JoinedBroadcast,
              JoinedTimeout, JoinedReadError
<1>3. ~(JoinedTooLong(me) \/ SkipLine(me) \/ JoinedReject(me) \/ JoinedSend(me)
        \/ Post(me) \/ PostError(me) \/ JoinedLeave(me))
  BY <1>1 DEF JoinedTooLong, SkipLine, JoinedReject, JoinedSend, Post, PostError,
              JoinedLeave
<1>4. ~(JoinedEof(me) \/ JoinedShutdown(me) \/ LastDrain(me) \/ Leave(me)
        \/ AnnounceLeft(me) \/ LeftError(me))
  BY <1>1 DEF JoinedEof, JoinedShutdown, LastDrain, Leave, AnnounceLeft, LeftError
<1>5. ~(Flush(me) \/ ReadPart(me) \/ UnauthDisconnect(me))
  BY <1>0, <1>1 DEF Flush, ReadPart, UnauthDisconnect, End
<1>6. ~UnauthReject(me)
  <2> SUFFICES ASSUME UnauthReject(me) PROVE FALSE
    OBVIOUS
  <2>1. PICK line : WriteReply(me, line, "unauth")
    BY DEF UnauthReject
  <2>2. pc'[me] \in {"unauth", "gone"}
    BY <1>0, <2>1 DEF WriteReply, Put, WriteFails, End
  <2>. QED
    BY <1>1, <2>2
<1>7. JoinAccepted(me)
  BY <1>2, <1>3, <1>4, <1>5, <1>6 DEF Tick
<1>. QED
  BY <1>7 DEF JoinAccepted, TakeLine

(* How the connection of the client goes on: a task past the Ok stays      *)
(* there until it ends, and one that has ended does not start again.       *)
LEMMA TickPasses ==
  ASSUME TypeOK, Tick(me)
  PROVE  /\ pc[me] \in Past => pc'[me] \in Past \cup Ended
         /\ pc[me] \in Ended => pc'[me] \in Ended
         /\ pc[me] \in Unregistered /\ pc'[me] \in Registered =>
              pc[me] = "unauth" /\ HasLine(me)
<1>0. me \in Conns
  BY ClientAssumption
<1>1. Turn(me) /\ (Stays(me) \/ Ends(me) \/ Joins(me) \/ Leaves(me))
  BY <1>0, TickTurn, TickShape
<1>2. pc \in [Conns -> Unregistered \cup Registered \cup Ended]
  BY DEF TypeOK, ConnectionTypeOK
<1>3. pc[me] \in Ended => pc'[me] \in Ended
  BY <1>1 DEF Stays, Ends, Joins, Leaves, Registered, Unregistered, Ended
<1>4. pc[me] \in Registered => pc'[me] \in Registered \cup Ended
  BY <1>1 DEF Stays, Ends, Joins, Leaves, Registered, Unregistered, Ended
<1>5. pc'[me] \in Registered => pc'[me] \in Running \/ pc'[me] \in Past
  BY DEF Registered, Running, Asking, Past
<1>6. pc[me] \in Past /\ pc'[me] \in Running => pc'[me] \in Past
  BY <1>1 DEF Turn, Rests, Begins, Decodes, TurnsDown, Tells, Settles, Posts, Past
<1>7. pc[me] \in Past => pc[me] \in Registered
  BY DEF Past, Registered
<1>8. ASSUME pc[me] \in Unregistered, pc'[me] \in Registered
      PROVE  pc[me] = "unauth" /\ HasLine(me)
  BY <1>8, TickEnters
<1>. QED
  BY <1>3, <1>4, <1>5, <1>6, <1>7, <1>8

(* The first thing said to a connection that joins is Ok, or that the room *)
(* was full.                                                               *)
LEMMA FirstAnswer ==
  ASSUME TypeOK, Tick(me), pc[me] \notin Past, pc'[me] \in Registered,
         replies[me] = <<>>, replies'[me] # <<>>
  PROVE  replies'[me][1] \in {Ok(me), Err(me, "roomTimeout")}
<1>0. me \in Conns /\ replies \in [Conns -> Seq(Reply)]
  BY ClientAssumption DEF TypeOK, ConnectionTypeOK
<1>1. \E r \in {Ok(me), Err(me, "roomTimeout")} :
        replies'[me] = Append(replies[me], r)
  <2>1. CASE pc'[me] \in Past
    <3>1. replies' = [replies EXCEPT ![me] = Append(@, Ok(me))]
      BY <1>0, <2>1, TickAnswers DEF Answers
    <3>. QED
      BY <1>0, <3>1
  <2>2. CASE pc'[me] \in {"announceJoined", "joinErr", "ackJoin"}
    <3>1. Turn(me) /\ pc'[me] \in Running
      BY <1>0, <2>2, TickTurn DEF Running, Asking
    <3>2. replies'[me] # replies[me]
      OBVIOUS
    <3>3. Settles(me) \/ TurnsDown(me)
      BY <3>1, <3>2 DEF Turn, Rests, Begins, Decodes, Quiet, Tells
    <3>4. ~TurnsDown(me)
      BY <2>2 DEF TurnsDown
    <3>. QED
      BY <2>2, <3>3, <3>4 DEF Settles
  <2>3. pc'[me] \in Past \cup {"announceJoined", "joinErr", "ackJoin"}
    BY DEF Registered, Past
  <2>. QED
    BY <2>1, <2>2, <2>3
<1>2. PICK r \in {Ok(me), Err(me, "roomTimeout")} :
        replies'[me] = Append(<<>>, r)
  BY <1>1
<1>3. \A e : Append(<<>>, e)[1] = e
  <2> SUFFICES ASSUME NEW e PROVE Append(<<>>, e)[1] = e
    OBVIOUS
  <2>1. <<>> \in Seq({e}) /\ Len(<<>>) = 0
    BY SMT
  <2>. QED
    BY <2>1, AppendKeeps, SMT
<1>. QED
  BY <1>2, <1>3

-----------------------------------------------------------------------------
(* The client's proofs, with the lines the server has sent for what it is  *)
(* told.                                                                   *)
CP == INSTANCE ClientProofs WITH told <- Told, answer <- FirstLine, up <- Up

(* The inductive invariant.                                                *)
AllInv ==
  /\ TypeOK /\ AckInv /\ AnswerInv
  /\ CP!ClientInv /\ CP!Bounded
  /\ Shared /\ Agreed

(* The client here is the one that ClientProofs is about.                  *)
LEMMA SameClient == (Cl!Writes => CP!Writes) /\ (Cl!Step => CP!Step)
<1>1. Cl!Writes => CP!Writes
  <2>1. Cl!Join => CP!Join
    BY DEF Cl!Join, CP!Join, Cl!Command, CP!Command, Cl!net, CP!net
  <2>2. Cl!Take => CP!Take
    BY DEF Cl!Take, CP!Take, Cl!net, CP!net
  <2>. QED
    BY <2>1, <2>2 DEF Cl!Writes, CP!Writes
<1>2. Cl!Step => CP!Step
  <2>1. Cl!MainStep => CP!MainStep
    BY DEF Cl!MainStep, CP!MainStep, Cl!Connect, CP!Connect, Cl!Answer,
           CP!Answer, Cl!NoMoreCommands, CP!NoMoreCommands, Cl!SetFlag,
           CP!SetFlag, Cl!AwaitReader, CP!AwaitReader, Cl!JoinThread,
           CP!JoinThread, Cl!net, CP!net
  <2>2. Cl!Reader => CP!Reader
    BY DEF Cl!Reader, CP!Reader, Cl!ReadLine, CP!ReadLine, Cl!ReadEnds,
           CP!ReadEnds, Cl!net, CP!net
  <2>3. Cl!Thread => CP!Thread
    BY DEF Cl!Thread, CP!Thread, Cl!OpenEditor, CP!OpenEditor, Cl!CheckFlag,
           CP!CheckFlag, Cl!Hand, CP!Hand, Cl!net, CP!net
  <2>4. Cl!User => CP!User
    BY DEF Cl!User, CP!User, Cl!Enter, CP!Enter, Cl!Type, CP!Type,
           Cl!ReadlineError, CP!ReadlineError, Cl!Command, CP!Command,
           Cl!Kinds, CP!Kinds, Cl!net, CP!net
  <2>. QED
    BY <2>1, <2>2, <2>3, <2>4 DEF Cl!Step, CP!Step
<1>. QED
  BY <1>1, <1>2

(* A step of the composition is one of the client, or leaves it alone.     *)
LEMMA ClientMoves ==
  ASSUME [AllNext]_allVars
  PROVE  CP!Writes \/ CP!Step \/ UNCHANGED CP!local
<1>3. UNCHANGED clientVars => UNCHANGED CP!local
  BY DEF clientVars, CP!local
<1>. QED
  BY <1>3, SameClient
  DEF AllNext, ClientNext, ClientWrites, ClientSteps, ClientNewline, HangUp,
      ServerNext, AllDone, allVars

(* The number of lines the client has sent.                                *)
LEMMA SentType ==
  ASSUME CP!ClientInv
  PROVE  Len(sent) \in Nat
<1>1. sent \in Seq([kind : CP!Kinds \cup {"join"}, num : Nat])
  BY DEF CP!ClientInv, CP!ClientTypes
<1>. QED
  BY <1>1, LenProperties

(* What it carries is a command the server decodes.                        *)
LEMMA BodyType ==
  ASSUME TypeOK, CP!ClientInv, CP!Bounded, Shared, CP!Writes,
         wrote[me] % 2 = 0, sent' # sent
  PROVE  /\ BodyOf(sent'[Len(sent')]) \in Body
         /\ Len(sent') = Len(sent) + 1
<1> DEFINE e == sent'[Len(sent')]
<1>1. sent \in Seq([kind : CP!Kinds \cup {"join"}, num : Nat])
      /\ cmds \in Seq([kind : CP!Kinds, num : Nat])
  BY DEF CP!ClientInv, CP!ClientTypes
<1>2. \E c : sent' = Append(sent, c) /\ c.kind \in {"join", "send", "leave"}
  <2>1. CASE CP!Join
    <3>1. sent' = Append(sent, CP!Command("join", 0))
      BY <2>1 DEF CP!Join
    <3>. QED
      BY <3>1, SMT DEF CP!Command
  <2>2. CASE CP!Take
    <3>1. sent' = Append(sent, Head(cmds)) /\ Head(cmds).kind # "unknown"
          /\ cmds # <<>>
      BY <2>2 DEF CP!Take
    <3>2. Head(cmds) \in [kind : CP!Kinds, num : Nat]
      BY <1>1, <3>1, HeadIn
    <3>. QED
      BY <3>1, <3>2 DEF CP!Kinds
  <2>. QED
    BY <2>1, <2>2 DEF CP!Writes
<1>3. PICK c : sent' = Append(sent, c) /\ c.kind \in {"join", "send", "leave"}
  BY <1>2
<1>4. Len(sent') = Len(sent) + 1 /\ e = c /\ Len(sent) \in Nat
  BY <1>1, <1>3, AppendKeeps, SMT
<1>. HIDE DEF e
<1>5. wrote[me] + 1 \in Ids
  <2>1. CP!Bounded'
    BY CP!BoundedStep, ClientAssumption
  <2>2. CP!ClientInv'
    BY CP!ClientStep
  <2>3. Len(typed') \in Nat /\ Len(typed') <= MaxInput /\ Len(sent') <= Len(typed') + 1
    BY <2>1, <2>2, SMT DEF CP!Bounded, CP!ClientInv, CP!ClientTypes
  <2>4. wrote[me] \in Nat /\ wrote[me] <= 2 * Len(sent)
    BY ClientAssumption DEF Shared, TypeOK, ConnectionTypeOK
  <2>5. MaxLines \in Nat /\ MaxInput \in Nat /\ MaxInput < MaxLines
    BY ClientAssumption, LinesAssumption
  <2>. QED
    BY <2>3, <2>4, <2>5, <1>4, SMT DEF Ids
<1>6. BodyOf(e) \in Body
  BY <1>3, <1>4, <1>5, ClientAssumption DEF BodyOf, Body, Commands
<1>. QED
  BY <1>4, <1>6 DEF e

(* On the server's side every step is one of ChatServer, or a body of the  *)
(* client arrives, or the client hangs up.                                 *)
LEMMA ServerMoves ==
  ASSUME TypeOK, CP!ClientInv, CP!Bounded, Shared, [AllNext]_allVars
  PROVE  \/ [Next \/ Done]_vars
         \/ Arrives /\ Len(sent') = Len(sent) + 1 /\ ~Cl!Ended
         \/ HangUp
<1>1. CASE ~Cl!Ended /\ ClientWrites
  <2>1. CASE Up /\ sent' # sent
    <3>1. wrote[me] % 2 = 0 /\ UNCHANGED <<peerFrame, sock>>
          /\ inbox' = [inbox EXCEPT ![me] = Append(@, BodyOf(sent'[Len(sent')]))]
          /\ wrote' = [wrote EXCEPT ![me] = @ + 1]
      BY <1>1, <2>1 DEF ClientWrites
    <3>2. CP!Writes
      BY <1>1, SameClient DEF ClientWrites
    <3>3. BodyOf(sent'[Len(sent')]) \in Body /\ Len(sent') = Len(sent) + 1
      BY <2>1, <3>1, <3>2, BodyType
    <3>. QED
      BY <1>1, <2>1, <3>1, <3>3 DEF Arrives, Up
  <2>2. CASE ~(Up /\ sent' # sent)
    BY <1>1, <2>2 DEF ClientWrites, peerFrame, vars, connVars, peerVars
  <2>. QED
    BY <2>1, <2>2
<1>2. CASE ClientSteps \/ UNCHANGED allVars
  BY <1>2 DEF ClientSteps, allVars
<1>3. CASE ClientNewline
  BY <1>3, ClientAssumption DEF ClientNewline, Next, Peer, Shared
<1>4. CASE ServerNext
  BY <1>4, ClientAssumption DEF ServerNext, Guest, Next, Peer, Shared
<1>. QED
  BY <1>1, <1>2, <1>3, <1>4 DEF AllNext, ClientNext, AllDone

(* What was shown of ChatServer step by step holds of the composition.     *)
LEMMA ServerStep ==
  ASSUME Counting, AllInv, [AllNext]_allVars
  PROVE  TypeOK' /\ AckInv' /\ AnswerInv'
<1>1. TypeOK /\ AckInv /\ AnswerInv /\ CP!ClientInv /\ CP!Bounded /\ Shared
  BY DEF AllInv
<1>2. CASE [Next \/ Done]_vars
  BY <1>1, <1>2, TypeStep, AckStep, AnswerStep
<1>3. CASE Arrives \/ HangUp
  <2>1. TypeOK'
    BY <1>1, <1>3, ArrivesType, HangUpType
  <2>2. UNCHANGED <<pc, replies, heard>>
    BY <1>3, Kept DEF Arrives, HangUp
  <2>3. AckInv'
    BY <1>1, <2>2 DEF AckInv, Acked, Ok
  <2>4. \A d \in Conns : InStep(d)'
    BY <1>1, <1>3, ArrivesInStep, HangUpInStep DEF AnswerInv
  <2>. QED
    BY <2>1, <2>3, <2>4 DEF AnswerInv
<1>. QED
  BY <1>1, <1>2, <1>3, ServerMoves

(* A client that waits for the answer has written one line; once that has  *)
(* been answered, and the connection is still not joined, there is none    *)
(* left to read.                                                           *)
LEMMA NoLineLeft ==
  ASSUME Counting, AllInv,
         reader = "none", pc[me] = "unauth", replies[me] # <<>>
  PROVE  ~HasLine(me)
<1>1. me \in Conns /\ TypeOK /\ InStep(me) /\ Shared /\ CP!Bounded /\ CP!ClientInv
  BY ClientAssumption DEF AllInv, AnswerInv
<1>2. wrote[me] \in Nat /\ replies[me] \in Seq(Reply) /\ Len(inbox[me]) \in Nat
  BY <1>1, SMT DEF TypeOK, ConnectionTypeOK
<1>3. Len(replies[me]) \in Nat /\ Len(replies[me]) >= 1
  BY <1>2, SMT
<1>4. wrote[me] <= 2
  <2>1. typed = <<>> /\ Len(sent) <= Len(typed) + 1
    BY <1>1 DEF CP!Bounded
  <2>2. Len(typed) = 0 /\ Len(sent) \in Nat
    BY <2>1, <1>1, SMT DEF CP!ClientInv, CP!ClientTypes
  <2>3. wrote[me] <= 2 * Len(sent)
    BY <1>1 DEF Shared
  <2>. QED
    BY <2>1, <2>2, <2>3, <1>2, SMT
<1>5. ~Acked(me) /\ LinesRead(me) = Answered(me) + Owes(me)
      /\ (Midline(me) => FragmentsRead(me) % 2 = 1)
  <2>1. Settled(me)
    BY <1>1 DEF Shared, Settled
  <2>2. "unauth" \in Asking /\ "unauth" \in Running
    BY StatesApart
  <2>. QED
    BY <1>1, <2>1, <2>2 DEF InStep, Balanced
<1>6. Owes(me) = 0
  BY DEF Owes
<1>7. ~Belated(me)
  BY <1>1, <1>5, BelatedIsAcked
<1>8. FragmentsRead(me) \in Nat /\ LinesRead(me) \in Nat
  BY <1>1, CountType DEF InStep
<1>9. LinesRead(me) >= 1
  <2>1. Cardinality(Said(me)) \in Nat
    BY <1>1, AnsweredType
  <2>2. Answered(me) = Len(replies[me]) + Cardinality(Said(me)) - 0
    BY <1>7 DEF Answered
  <2>. QED
    BY <2>1, <2>2, <1>3, <1>5, <1>6, SMT
<1>10. Len(inbox[me]) = 0 /\ FragmentsRead(me) % 2 = 0
  <2> DEFINE w == wrote[me]
             l == Len(inbox[me])
             n == LinesRead(me)
             f == FragmentsRead(me)
  <2>1. w \in Nat /\ l \in Nat /\ n \in Nat /\ f \in Nat /\ w <= 2
        /\ f = w - l /\ n >= 1 /\ f \div 2 = n
    BY <1>2, <1>4, <1>8, <1>9 DEF FragmentsRead, LinesRead
  <2>. HIDE DEF w, l, n, f
  <2>2. l = 0 /\ f % 2 = 0
    BY <2>1, NumbersOfOne
  <2>. QED
    BY <2>2 DEF l, f
<1>11. inbox[me] = <<>>
  BY <1>1, <1>10, SMT DEF TypeOK, ConnectionTypeOK
<1>12. buf[me] = NoBody
  BY <1>5, <1>10, SMT DEF Midline
<1>. QED
  BY <1>11, <1>12 DEF HasLine

(* Steps of the client but those that write leave what was sent alone.     *)
LEMMA StepSendsNothing ==
  ASSUME CP!Step
  PROVE  UNCHANGED sent
BY DEF CP!Step, CP!MainStep, CP!Connect, CP!Answer, CP!NoMoreCommands,
       CP!SetFlag, CP!AwaitReader, CP!JoinThread, CP!Reader, CP!ReadLine,
       CP!ReadEnds, CP!Thread, CP!OpenEditor, CP!CheckFlag, CP!Hand, CP!User,
       CP!Enter, CP!Type, CP!ReadlineError

(* Each end of the connection is moved by one party alone.                 *)
LEMMA SharedStep ==
  ASSUME AllInv, [AllNext]_allVars
  PROVE  Shared'
<1>1. Shared /\ TypeOK /\ CP!ClientInv /\ me \in Conns
  BY ClientAssumption DEF AllInv
<1>2. sock \in [Conns -> {"open", "stalled", "eof", "deaf", "reset"}]
      /\ wrote \in [Conns -> Nat] /\ wrote[me] \in Nat /\ Len(sent) \in Nat
  <2>1. sock \in [Conns -> {"open", "stalled", "eof", "deaf", "reset"}]
        /\ wrote \in [Conns -> Nat]
    BY <1>1 DEF TypeOK, ConnectionTypeOK
  <2>2. Len(sent) \in Nat
    BY <1>1, SentType
  <2>. QED
    BY <1>1, <2>1, <2>2
<1>3. CASE ~Cl!Ended /\ ClientWrites
  <2>1. sock' = sock /\ exited' = exited /\ sock[me] = "open"
    BY <1>1, <1>3, Kept DEF ClientWrites, Shared
  <2>2. CP!Writes
    BY <1>3, SameClient DEF ClientWrites
  <2>3. sent' = sent \/ \E c : sent' = Append(sent, c)
    BY <2>2 DEF CP!Writes, CP!Join, CP!Take
  <2>4. Len(sent') = Len(sent) \/ (Len(sent') = Len(sent) + 1 /\ sent' # sent)
    <3>1. CASE sent' = sent
      BY <3>1
    <3>2. CASE \E c : sent' = Append(sent, c)
      <4>1. PICK c : sent' = Append(sent, c)
        BY <3>2
      <4>2. Len(sent') = Len(sent) + 1
        BY <4>1, <1>1, AppendKeeps DEF CP!ClientInv, CP!ClientTypes
      <4>. QED
        BY <4>2, <1>2
    <3>. QED
      BY <2>3, <3>1, <3>2
  <2>5. wrote'[me] = wrote[me] \/ (wrote'[me] = wrote[me] + 1 /\ sent' # sent)
    BY <1>1, <1>2, <1>3 DEF ClientWrites
  <2>6. wrote'[me] <= 2 * Len(sent')
    <3>1. wrote[me] <= 2 * Len(sent)
      BY <1>1 DEF Shared
    <3>2. sent' # sent => Len(sent') = Len(sent) + 1
      BY <2>3, <2>4, <1>1, AppendKeeps DEF CP!ClientInv, CP!ClientTypes
    <3>. QED
      BY <2>4, <2>5, <3>1, <3>2, <1>2, SMT
  <2>. QED
    BY <1>1, <2>1, <2>6 DEF Shared
<1>4. CASE ~Cl!Ended /\ ClientSteps
  <2>1. sock' = sock /\ wrote' = wrote /\ exited' = exited /\ sock[me] = "open"
    BY <1>1, <1>4 DEF ClientSteps, vars, connVars, peerVars, mainVars, Shared
  <2>2. sent' = sent
    BY <1>4, SameClient, StepSendsNothing DEF ClientSteps
  <2>. QED
    BY <1>1, <2>1, <2>2 DEF Shared
<1>5. CASE ClientNewline
  <2>1. sock' = sock /\ exited' = exited /\ UNCHANGED clientVars
        /\ sock[me] \in {"open", "stalled"} /\ wrote[me] % 2 = 1
        /\ wrote'[me] = wrote[me] + 1
    BY <1>2, <1>1, <1>5, Kept DEF ClientNewline, WriteNewline
  <2>2. sent' = sent
    BY <2>1 DEF clientVars
  <2>3. wrote[me] <= 2 * Len(sent)
    BY <1>1 DEF Shared
  <2>4. wrote'[me] <= 2 * Len(sent')
    BY <1>2, <2>1, <2>2, <2>3, OddBelow
  <2>. QED
    BY <1>1, <2>1, <2>4 DEF Shared
<1>6. CASE HangUp
  <2>1. sock'[me] \in {"eof", "reset"} /\ exited' = exited /\ wrote' = wrote
        /\ UNCHANGED clientVars /\ Cl!Ended /\ wrote[me] % 2 = 0
    BY <1>1, <1>2, <1>6, Kept DEF HangUp
  <2>2. sent' = sent /\ Cl!Ended'
    BY <2>1 DEF clientVars, Cl!Ended
  <2>. QED
    BY <1>1, <2>1, <2>2 DEF Shared
<1>7. CASE ServerNext \/ UNCHANGED allVars
  <2>1. sock'[me] = sock[me] /\ wrote'[me] = wrote[me] /\ exited' = exited
        /\ UNCHANGED clientVars
    BY <1>1, <1>7, ServerSide
    DEF ServerNext, allVars, vars, connVars, peerVars, mainVars
  <2>2. sent' = sent /\ (Cl!Ended' <=> Cl!Ended)
    BY <2>1 DEF clientVars, Cl!Ended
  <2>. QED
    BY <1>1, <2>1, <2>2 DEF Shared
<1>. QED
  BY <1>3, <1>4, <1>5, <1>6, <1>7 DEF AllNext, ClientNext, AllDone

(* A step of the client finds its reader running, waits on, starts the     *)
(* reader after an Ok, or fails.                                           *)
LEMMA ClientTurns ==
  ASSUME CP!ClientInv, CP!Bounded,
         CP!Writes \/ CP!Step \/ UNCHANGED CP!local
  PROVE  \/ reader # "none" /\ reader' # "none"
         \/ Waits
         \/ Told > 0 /\ FirstLine = "ok" /\ reader' # "none"
         \/ Fails
<1>1. CASE CP!Join
  BY <1>1 DEF CP!Join, Waits, Fails
<1>2. CASE CP!Take
  <2>1. main = "recv" /\ reader' = reader
    BY <1>2 DEF CP!Take
  <2>. QED
    BY <2>1 DEF CP!Bounded, CP!Early
<1>3. CASE CP!Connect
  <2>1. main' = "join" /\ reader' = reader
    BY <1>3, ClientAssumption DEF CP!Connect
  <2>. QED
    BY <2>1 DEF Waits
<1>4. CASE CP!Answer
  BY <1>4 DEF CP!Answer, Fails
<1>5. CASE CP!NoMoreCommands \/ CP!SetFlag \/ CP!AwaitReader \/ CP!JoinThread
  BY <1>5 DEF CP!NoMoreCommands, CP!SetFlag, CP!AwaitReader, CP!JoinThread, Waits
<1>6. CASE CP!Reader
  BY <1>6 DEF CP!Reader, CP!ReadLine, CP!ReadEnds
<1>7. CASE CP!Thread \/ CP!User \/ UNCHANGED CP!local
  <2>1. UNCHANGED <<main, reader>>
    BY <1>7 DEF CP!Thread, CP!OpenEditor, CP!CheckFlag, CP!Hand, CP!User,
                CP!Enter, CP!Type, CP!ReadlineError, CP!local
  <2>. QED
    BY <2>1 DEF Waits
<1>. QED
  BY <1>1, <1>2, <1>3, <1>4, <1>5, <1>6, <1>7
  DEF CP!Writes, CP!Step, CP!MainStep

(* The client's own steps: what it takes for the answer is one.            *)
LEMMA ClientAgrees ==
  ASSUME AllInv, CP!Writes \/ CP!Step \/ UNCHANGED CP!local,
         UNCHANGED <<pc, replies>>
  PROVE  Agreed'
<1>1. me \in Conns /\ TypeOK /\ AckInv /\ InStep(me) /\ Shared /\ Agreed
      /\ CP!Bounded /\ CP!ClientInv
  BY ClientAssumption DEF AllInv, AnswerInv
<1>2. replies[me] \in Seq(Reply) /\ heard[me] \in Seq(RoomMsg)
  BY <1>1 DEF TypeOK, ConnectionTypeOK
<1>3. CASE reader # "none" /\ reader' # "none"
  BY <1>1, <1>3 DEF Agreed
<1>4. CASE Waits
  BY <1>1, <1>4 DEF Agreed, Waits, Ok, Err
<1>5. CASE Told > 0 /\ FirstLine = "ok" /\ reader' # "none"
  <2>1. replies[me] # <<>> /\ replies[me][1] = Ok(me)
    BY <1>5 DEF FirstLine
  <2>2. 1 \in 1..Len(replies[me])
    BY <2>1, <1>2, SMT
  <2>3. Acked(me)
    BY <2>1, <2>2 DEF Acked
  <2>4. pc[me] \in Past \cup Ended
    BY <2>3, <1>1, Sorted DEF InStep, Balanced
  <2>. QED
    BY <2>4, <1>5 DEF Agreed
<1>6. CASE Fails
  <2>1. reader = "none" /\ reader' = "none"
    BY <1>6, <1>1 DEF Fails, CP!Bounded, CP!Early
  <2>2. CASE ~Up
    <3>1. ~Cl!Ended
      BY <1>6 DEF Fails, Cl!Ended
    <3>2. pc[me] = "gone"
      BY <3>1, <2>2, <1>1 DEF Up, Shared
    <3>. QED
      BY <3>2, <2>1 DEF Agreed, Ended, Registered
  <2>3. CASE Told > 0 /\ FirstLine # "ok"
    <3>1. replies[me] # <<>>
      <4>1. CASE heard[me] = <<>>
        <5>1. Len(heard[me]) = 0 /\ Len(replies[me]) \in Nat
          BY <1>2, <4>1, EmptySeq, SMT
        <5>2. Len(replies[me]) # 0
          BY <2>3, <5>1, SMT DEF Told
        <5>. QED
          BY <5>2, EmptySeq
      <4>2. CASE heard[me] # <<>>
        <5>1. Acked(me)
          BY <4>2, <1>1 DEF AckInv
        <5>2. PICK i \in 1..Len(replies[me]) : TRUE
          BY <5>1 DEF Acked
        <5>3. Len(replies[me]) # 0
          BY <5>2, SMT
        <5>. QED
          BY <5>3, EmptySeq
      <4>. QED
        BY <4>1, <4>2
    <3>2. replies[me][1] # Ok(me)
      <4>1. Told # 0
        BY <2>3, SMT
      <4>. QED
        BY <2>3, <3>1, <4>1 DEF FirstLine
    <3>. QED
      BY <3>1, <3>2, <2>1, <1>1 DEF Agreed, Ok, Err
  <2>. QED
    BY <2>2, <2>3, <1>6 DEF Fails
<1>. QED
  BY <1>1, <1>3, <1>4, <1>5, <1>6, ClientTurns

(* A server step that leaves the connection where it is.                   *)
LEMMA SameAgrees ==
  ASSUME AllInv, UNCHANGED clientVars,
         pc'[me] = pc[me] \/ (pc[me] = "idle" /\ pc'[me] = "unauth"),
         replies'[me] = replies[me]
  PROVE  Agreed'
<1>1. Agreed /\ reader' = reader /\ main' = main
  BY DEF AllInv, clientVars
<1>2. "idle" \notin Past \cup Ended /\ "unauth" \notin Registered
  BY DEF Past, Ended, Registered
<1>. QED
  BY <1>1, <1>2 DEF Agreed, Ok, Err

(* The connection task of the client.                                      *)
LEMMA TickAgrees ==
  ASSUME Counting, AllInv, Tick(me), UNCHANGED clientVars
  PROVE  Agreed'
<1>1. me \in Conns /\ TypeOK /\ AckInv /\ Agreed
      /\ reader' = reader /\ main' = main
  BY ClientAssumption DEF AllInv, clientVars
<1>2. replies \in [Conns -> Seq(Reply)] /\ replies[me] \in Seq(Reply)
  BY <1>1 DEF TypeOK, ConnectionTypeOK
<1>3. /\ pc[me] \in Past => pc'[me] \in Past \cup Ended
      /\ pc[me] \in Ended => pc'[me] \in Ended
      /\ pc[me] \in Unregistered /\ pc'[me] \in Registered =>
           pc[me] = "unauth" /\ HasLine(me)
  BY <1>1, TickPasses
<1>4. replies'[me] = replies[me] \/ \E l : replies'[me] = Append(replies[me], l)
  <2>1. \/ replies' = replies
        \/ \E l : replies' = [replies EXCEPT ![me] = Append(@, l)]
    <3>1. Answers(me)
      BY <1>1, TickAnswers
    <3>. QED
      BY <3>1 DEF Answers
  <2>2. ASSUME NEW l, replies' = [replies EXCEPT ![me] = Append(@, l)]
        PROVE  replies'[me] = Append(replies[me], l)
    BY <1>1, <1>2, <2>2
  <2>. QED
    BY <2>1, <2>2
<1>5. replies[me] # <<>> => replies'[me] # <<>> /\ replies'[me][1] = replies[me][1]
  <2> SUFFICES ASSUME replies[me] # <<>>, NEW l, replies'[me] = Append(replies[me], l)
               PROVE  replies'[me] # <<>> /\ replies'[me][1] = replies[me][1]
    BY <1>4
  <2> DEFINE s == replies[me]
             t == replies'[me]
  <2>1. Len(s) \in Nat /\ Len(s) >= 1
    BY <1>2, SMT
  <2>2. Len(t) = Len(s) + 1 /\ \A i \in 1..Len(s) : t[i] = s[i]
    BY <1>2, AppendKeeps, SMT
  <2>. HIDE DEF s, t
  <2>3. 1 \in 1..Len(s) /\ Len(t) # 0
    BY <2>1, <2>2, SMT
  <2>4. t # <<>> /\ t[1] = s[1]
    BY <2>2, <2>3, SMT
  <2>. QED
    BY <2>4 DEF s, t
<1>6. ASSUME reader = "none", pc'[me] \in Registered, replies'[me] # <<>>
      PROVE  replies'[me][1] \in {Ok(me), Err(me, "roomTimeout")}
  <2>1. CASE replies[me] # <<>>
    <3>1. pc[me] \in Registered
      <4>1. CASE pc[me] \in Unregistered
        <5>1. pc[me] = "unauth" /\ HasLine(me)
          BY <1>3, <1>6, <4>1
        <5>. QED
          BY <1>6, <2>1, <5>1, NoLineLeft
      <4>2. CASE pc[me] \in Ended
        <5>1. pc'[me] \in Ended
          BY <1>3, <4>2
        <5>. QED
          BY <1>6, <5>1 DEF Registered, Ended
      <4>3. pc[me] \in Unregistered \cup Registered \cup Ended
        BY <1>1 DEF TypeOK, ConnectionTypeOK
      <4>. QED
        BY <4>1, <4>2, <4>3
    <3>2. replies[me][1] \in {Ok(me), Err(me, "roomTimeout")}
      BY <1>1, <1>6, <2>1, <3>1 DEF Agreed
    <3>. QED
      BY <1>5, <2>1, <3>2
  <2>2. CASE replies[me] = <<>>
    <3>1. ~Acked(me)
      BY <2>2, SMT DEF Acked
    <3>2. pc[me] \notin Past
      BY <1>1, <3>1 DEF AckInv
    <3>. QED
      BY <1>1, <1>6, <2>2, <3>2, FirstAnswer
  <2>. QED
    BY <2>1, <2>2
<1>7. reader # "none" => pc'[me] \in Past \cup Ended
  BY <1>1, <1>3 DEF Agreed
<1>8. main = "failed" /\ reader = "none" =>
        pc'[me] \in Ended \/ (replies'[me] # <<>> /\ replies'[me][1] # Ok(me))
  BY <1>1, <1>3, <1>5 DEF Agreed
<1>. QED
  BY <1>1, <1>6, <1>7, <1>8 DEF Agreed, Ok, Err

-----------------------------------------------------------------------------
(* Who has joined, from one state of the composition to the next.          *)
LEMMA AgreedStep ==
  ASSUME Counting, AllInv, [AllNext]_allVars
  PROVE  Agreed'
<1>1. me \in Conns /\ TypeOK
  BY ClientAssumption DEF AllInv
<1>2. pc \in [Conns -> Unregistered \cup Registered \cup Ended]
      /\ replies \in [Conns -> Seq(Reply)]
  BY <1>1 DEF TypeOK, ConnectionTypeOK
<1>3. CASE ClientWrites \/ ClientSteps
  <2>1. UNCHANGED <<pc, replies>>
    BY <1>3, Kept DEF ClientWrites, ClientSteps, vars, connVars, outVars
  <2>. QED
    BY <2>1, ClientMoves, ClientAgrees
<1>4. CASE ClientNewline \/ HangUp
  <2>1. UNCHANGED <<pc, replies>> /\ UNCHANGED clientVars
    BY <1>4, Kept DEF ClientNewline, WriteNewline, HangUp, clientVars
  <2>. QED
    BY <2>1, SameAgrees
<1>5. ASSUME NEW c \in Conns, Tick(c), UNCHANGED clientVars
      PROVE  Agreed'
  <2>1. CASE c = me
    BY <1>5, <2>1, TickAgrees
  <2>2. CASE c # me
    <3>1. pc'[me] = pc[me] /\ replies'[me] = replies[me]
      BY <1>1, <1>2, <1>5, <2>2, TickAnswers DEF Answers
    <3>. QED
      BY <1>5, <3>1, SameAgrees
  <2>. QED
    BY <2>1, <2>2
<1>6. ASSUME NEW c \in Conns, Accept(c), UNCHANGED clientVars
      PROVE  Agreed'
  <2>1. pc[c] = "idle" /\ pc' = [pc EXCEPT ![c] = "unauth"] /\ replies' = replies
    BY <1>6 DEF Accept, outVars
  <2>2. pc'[me] = pc[me] \/ (pc[me] = "idle" /\ pc'[me] = "unauth")
    BY <1>1, <1>2, <2>1
  <2>. QED
    BY <1>6, <2>1, <2>2, SameAgrees
<1>7. CASE (AcquirePermit \/ AcceptError) /\ UNCHANGED clientVars
  <2>1. UNCHANGED <<pc, replies>>
    BY <1>7 DEF AcquirePermit, AcceptError, connVars, outVars
  <2>. QED
    BY <1>7, <2>1, SameAgrees
<1>8. CASE Dispatcher /\ UNCHANGED <<connVars, mainVars>> /\ UNCHANGED clientVars
  <2>1. UNCHANGED <<pc, replies>>
    BY <1>8 DEF connVars, outVars
  <2>. QED
    BY <1>8, <2>1, SameAgrees
<1>9. ASSUME NEW c \in Conns, Guest(c), UNCHANGED clientVars
      PROVE  Agreed'
  <2>1. UNCHANGED peerFrame
    BY <1>9 DEF Guest, Write, Close
  <2>. QED
    BY <1>9, <2>1, Kept, SameAgrees
<1>10. CASE UNCHANGED allVars
  <2>1. UNCHANGED <<pc, replies>> /\ UNCHANGED clientVars
    BY <1>10 DEF allVars, vars, connVars, outVars
  <2>. QED
    BY <2>1, SameAgrees
<1>11. CASE ServerNext
  BY <1>5, <1>6, <1>7, <1>8, <1>9, <1>11 DEF ServerNext
<1>. QED
  BY <1>3, <1>4, <1>10, <1>11 DEF AllNext, ClientNext, AllDone

(* Every step of the composition keeps the invariant.                      *)
LEMMA AllStep ==
  ASSUME Counting
  PROVE  AllInv /\ [AllNext]_allVars => AllInv'
<1> SUFFICES ASSUME AllInv, [AllNext]_allVars PROVE AllInv'
  OBVIOUS
<1>1. TypeOK' /\ AckInv' /\ AnswerInv'
  BY ServerStep
<1>2. CP!ClientInv /\ CP!Bounded
  BY DEF AllInv
<1>3. CP!Writes \/ CP!Step \/ UNCHANGED CP!local
  BY ClientMoves
<1>4. CP!ClientInv'
  BY <1>2, <1>3, CP!ClientStep
<1>5. CP!Bounded'
  BY <1>2, <1>3, CP!BoundedStep, ClientAssumption
<1>6. Shared' /\ Agreed'
  BY SharedStep, AgreedStep
<1>. QED
  BY <1>1, <1>4, <1>5, <1>6 DEF AllInv

(* At first the client has written nothing and has not been told anything. *)
LEMMA AllStart ==
  ASSUME Counting
  PROVE  AllInit => AllInv
<1> SUFFICES ASSUME AllInit PROVE AllInv
  OBVIOUS
<1>1. TypeOK /\ AckInv /\ AnswerInv
  BY TypeInit, AckInit, AnswerInit DEF AllInit
<1>2. CP!LocalInit
  BY DEF AllInit, Cl!LocalInit, CP!LocalInit
<1>3. CP!ClientInv /\ CP!Bounded
  BY <1>2, CP!ClientInit, CP!BoundedInit, ClientAssumption
<1>4. Shared
  <2>1. sock[me] = "open" /\ wrote[me] = 0 /\ ~exited
    BY ClientAssumption DEF AllInit, Init, ConnectionInit
  <2>2. Len(sent) \in Nat
    BY <1>3, SentType
  <2>. QED
    BY <2>1, <2>2, SMT DEF Shared
<1>5. Agreed
  <2>1. pc[me] = "idle" /\ reader = "none" /\ main = "connect"
    BY <1>2, ClientAssumption DEF AllInit, Init, ConnectionInit, CP!LocalInit
  <2>. QED
    BY <2>1 DEF Agreed, Registered
<1>. QED
  BY <1>1, <1>3, <1>4, <1>5 DEF AllInv

-----------------------------------------------------------------------------
INSTANCE FiniteSetTheorems

(* The facts of counting the lemmas above assume.                          *)
LEMMA CountingHolds == Counting
<1>1. IsFiniteSet({}) /\ Cardinality({}) = 0
  BY FS_EmptySet, SMT
<1>2. \A n \in Nat : IsFiniteSet(1..n)
  <2> TAKE n \in Nat
  <2>1. 1 \in Int /\ n \in Int
    BY SMT
  <2>. QED
    BY <2>1, FS_Interval, SMT
<1>3. \A S : IsFiniteSet(S) => Cardinality(S) \in Nat
  BY FS_CardinalityType, SMT
<1>4. \A S, T : IsFiniteSet(S) /\ T \subseteq S =>
        IsFiniteSet(T) /\ Cardinality(T) <= Cardinality(S)
  BY FS_Subset, SMT
<1>5. \A S, x : IsFiniteSet(S) /\ x \notin S =>
        IsFiniteSet(S \cup {x}) /\ Cardinality(S \cup {x}) = Cardinality(S) + 1
  BY FS_AddElement, SMT
<1>. QED
  BY <1>1, <1>2, <1>3, <1>4, <1>5 DEF Counting

(* The accept loop never has more than MAX_CONNECTIONS connections running *)
(* at once: a permit is taken before a connection is accepted and given    *)
(* back when its task ends.                                                *)
THEOREM ConnectionsAreLimited == Spec => []ConnectionLimit
<1>. QED
  BY CountingHolds, PermitInit, PermitStep, PermitsLimit, PTL DEF Spec

(* Between ticks every line read has had exactly one answer, for any       *)
(* number of clients and lines, whatever is cut in pieces, skipped, timed  *)
(* out or refused on the way.                                              *)
THEOREM EveryLineIsAnsweredOnce == Spec => []AnsweredOnce
<1>1. AnswerInv /\ TypeOK => AnsweredOnce
  BY CountingHolds, AnswerSafe
<1>. QED
  BY <1>1, CountingHolds, AnswerInit, AnswerStep, TypeCorrect, PTL DEF Spec

(* Client and server agree on who has joined, whatever the guests do: a    *)
(* client that takes commands is registered or closed, and one that gave   *)
(* up on its JOIN is registered only if the room was full.                 *)
THEOREM ClientAndServerAgree == AllSpec => []Agreement
<1>1. AllInv => Agreement
  <2> SUFFICES ASSUME AllInv PROVE Agreement
    OBVIOUS
  <2>1. Agreed /\ CP!Bounded
    BY DEF AllInv
  <2>2. ASSUME main \notin {"connect", "join", "answer", "failed"}
        PROVE  pc[me] \notin Unregistered \cup {"announceJoined", "joinErr", "ackJoin"}
    <3>1. reader # "none"
      BY <2>1, <2>2 DEF CP!Bounded, CP!Early
    <3>2. pc[me] \in Past \cup Ended
      BY <2>1, <3>1 DEF Agreed
    <3>. QED
      BY <3>2 DEF Past, Ended, Unregistered
  <2>3. ASSUME main = "failed", reader = "none", pc[me] \in Registered
        PROVE  replies[me] # <<>> /\ replies[me][1] = Err(me, "roomTimeout")
    <3>1. pc[me] \notin Ended
      BY <2>3 DEF Registered, Ended
    <3>2. replies[me] # <<>> /\ replies[me][1] # Ok(me)
      BY <2>1, <2>3, <3>1 DEF Agreed
    <3>. QED
      BY <2>1, <2>3, <3>2 DEF Agreed
  <2>. QED
    BY <2>2, <2>3 DEF Agreement
<1>. QED
  BY <1>1, CountingHolds, AllStart, AllStep, PTL DEF AllSpec, AllNext

(* What is shown of the server and of the client apart holds of the two    *)
(* together: each line of a connection has one answer, the Ok comes before *)
(* the room, and the server is sent what the user typed.                   *)
THEOREM PartsKeepTheirWord ==
  AllSpec => [](AnsweredOnce /\ AckFirst /\ CP!SentIsTyped)
<1>1. AllInv => AnsweredOnce /\ AckFirst /\ CP!SentIsTyped
  BY CountingHolds, AnswerSafe, AckSafe DEF AllInv, CP!ClientInv
<1>. QED
  BY <1>1, CountingHolds, AllStart, AllStep, PTL DEF AllSpec, AllNext

(* Beside the client, too, the accept loop keeps to MAX_CONNECTIONS.       *)
THEOREM ConnectionsStayLimited == AllSpec => []ConnectionLimit
<1>1. AllInit => PermitInv
  BY CountingHolds, PermitInit DEF AllInit
<1>2. AllInv /\ AllInv' /\ PermitInv /\ [AllNext]_allVars => PermitInv'
  <2> SUFFICES ASSUME AllInv, AllInv', PermitInv, [AllNext]_allVars
               PROVE  PermitInv'
    OBVIOUS
  <2>1. CASE [Next \/ Done]_vars
    BY <2>1, CountingHolds, PermitStep
  <2>2. CASE Arrives \/ HangUp
    <3>1. UNCHANGED <<pc, holding>>
      BY <2>2 DEF Arrives, HangUp, peerFrame, mainVars
    <3>2. UNCHANGED <<Active, PermitsOut>>
      BY <3>1 DEF Active, PermitsOut
    <3>3. TypeOK'
      BY DEF AllInv
    <3>. QED
      BY <3>2, <3>3 DEF PermitInv
  <2>. QED
    BY <2>1, <2>2, ServerMoves DEF AllInv
<1>. QED
  BY <1>1, <1>2, CountingHolds, AllStart, AllStep, PermitsLimit, PTL
  DEF AllSpec, AllNext
=============================================================================
