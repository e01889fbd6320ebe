---------------------------- MODULE AnswerProofs ----------------------------
(***************************************************************************)
(* The lines a connection is answered with, for any number of clients and  *)
(* lines and for any capacities.                                           *)
(*                                                                         *)
(* OkComesFirst: the answer to a JOIN comes before anything of the room,   *)
(* although the user is registered, and sent broadcasts, before it is      *)
(* written.                                                                *)
(*                                                                         *)
(* AnswerInv: a connection that waits for input has answered every line it *)
(* has read, once.  The invariant counts what is owed too: a JOIN or a     *)
(* SEND on its way to the room has been read and not answered, a line read *)
(* in part is not a line yet, and a JOIN that found the room full is       *)
(* answered with an Err, after which the Ok is one line too many.  The     *)
(* theorem about it, EveryLineIsAnsweredOnce, is in ClientServerProofs.    *)
(***************************************************************************)
EXTENDS ChatServerProofs

(* A leaf that names no prover is left to Zenon; those that need numbers,  *)
(* sequences or large functions cite SMT.                                  *)
USE Zenon

(* The states of a connection that lie past the Ok ...                     *)
Past == {"drain", "joined", "posting", "postErr", "skipping", "closing",
         "leaving"}

Acked(c) == \E i \in 1..Len(replies[c]) : replies[c][i] = Ok(c)

(* ... are what AckFirst rests on: only in these is the channel drained.   *)
AckInv ==
  \A c \in Conns : pc[c] \in Past \/ heard[c] # <<>> => Acked(c)

(* What a step of a connection task does to the client's lines: it may     *)
(* append an answer, the Ok when it passes into Past, and in Past alone a  *)
(* message of the room.                                                    *)
Answers(c) ==
  /\ \A d \in Conns \ {c} : pc'[d] = pc[d]
  /\ \/ replies' = replies
     \/ \E line : replies' = [replies EXCEPT ![c] = Append(@, line)]
  /\ pc'[c] \in Past /\ pc[c] \notin Past =>
       replies' = [replies EXCEPT ![c] = Append(@, Ok(c))]
  /\ \/ heard' = heard
     \/ pc[c] \in Past /\ \A d \in Conns \ {c} : heard'[d] = heard[d]

(* Appending to a list keeps what is in it.                                *)
LEMMA AppendKeeps ==
  ASSUME NEW S, NEW s \in Seq(S), NEW e
  PROVE  /\ Len(s) \in Nat /\ Len(Append(s, e)) = Len(s) + 1
         /\ \A i \in 1..Len(s) : Append(s, e)[i] = s[i]
         /\ Append(s, e)[Len(s) + 1] = e
  <1>1. s \in Seq(S \cup {e}) /\ e \in S \cup {e}
    BY SMT
  <1> QED  BY <1>1, SMT

(* A write, from a state in Past or into one that is not, or of the Ok.    *)
LEMMA WriteAnswers ==
  ASSUME NEW c \in Conns, TypeOK, NEW next, NEW line,
         WriteReply(c, line, next),
         pc[c] \in Past \/ next \notin Past \/ line = Ok(c)
  PROVE  Answers(c)
  <1>t. pc \in [Conns -> Unregistered \cup Registered \cup Ended]
    BY DEF TypeOK, ConnectionTypeOK
  <1>1. CASE WriteFails(c)
    BY <1>t, <1>1 DEF WriteFails, End, outVars, Answers, Past
  <1>2. CASE ~WriteFails(c)
    <2>1. /\ pc' = [pc EXCEPT ![c] = next] /\ heard' = heard
          /\ replies' = [replies EXCEPT ![c] = Append(@, line)]
      BY <1>2 DEF WriteReply, Put
    <2> QED  BY <1>t, <2>1 DEF Answers
  <1> QED  BY <1>1, <1>2

(* A message of the room is written in Past only.                          *)
LEMMA QueuedAnswers ==
  ASSUME NEW c \in Conns, TypeOK, NEW next, WriteQueued(c, next),
         pc[c] \in Past
  PROVE  Answers(c)
  <1>t. /\ pc \in [Conns -> Unregistered \cup Registered \cup Ended]
        /\ heard \in [Conns -> Seq(RoomMsg)]
    BY DEF TypeOK, ConnectionTypeOK
  <1>1. CASE WriteFails(c)
    BY <1>t, <1>1 DEF WriteFails, End, outVars, Answers, Past
  <1>2. CASE ~WriteFails(c)
    <2>1. /\ pc' = [pc EXCEPT ![c] = next] /\ replies' = replies
          /\ heard' = [heard EXCEPT ![c] = Append(@, Head(rx[c]))]
      BY <1>2 DEF WriteQueued, Put
    <2> QED  BY <1>t, <2>1 DEF Answers
  <1> QED  BY <1>1, <1>2

(* Every step of a connection task is of that shape.                       *)
LEMMA TickAnswers ==
  ASSUME NEW c \in Conns, TypeOK, Tick(c)
  PROVE  Answers(c)
  <1>t. pc \in [Conns -> Unregistered \cup Registered \cup Ended]
    BY DEF TypeOK, ConnectionTypeOK
  <1>1. CASE Flush(c)
    BY <1>t, <1>1 DEF Flush, End, Answers, Past
  <1>2. CASE UnauthDisconnect(c) \/ JoinedReadError(c)
    BY <1>t, <1>2
    DEF UnauthDisconnect, JoinedReadError, End, outVars, Answers, Past
  <1>3. CASE \/ ReadPart(c) \/ JoinAccepted(c) \/ AnnounceJoined(c)
             \/ DrainDone(c) \/ JoinedTimeout(c) \/ JoinedTooLong(c)
             \/ JoinedSend(c)
    BY <1>t, <1>3
    DEF ReadPart, JoinAccepted, AnnounceJoined, DrainDone, JoinedTimeout,
        JoinedTooLong, JoinedSend, outVars, Answers, Past
  <1>4. CASE \/ Post(c) \/ JoinedLeave(c) \/ JoinedEof(c)
             \/ JoinedShutdown(c) \/ AnnounceLeft(c) \/ Leave(c)
    BY <1>t, <1>4
    DEF Post, JoinedLeave, JoinedEof, JoinedShutdown, Closing, AnnounceLeft,
        Leave, outVars, Answers, Past
  <1>5. CASE LeftError(c)
    BY <1>t, <1>5 DEF LeftError, Answers, Past
  <1>6. CASE UnauthReject(c)
    <2>1. PICK line : WriteReply(c, line, "unauth")
      BY <1>6 DEF UnauthReject
    <2> QED  BY <2>1, WriteAnswers DEF Past
  <1>7. CASE AckJoin(c)
    <2>1. CASE WriteReply(c, Err(c, "roomTimeout"), "ackJoin")
      BY <2>1, WriteAnswers DEF Past
    <2>2. CASE WriteReply(c, Ok(c), "drain")
      BY <2>2, WriteAnswers
    <2> QED  BY <1>7, <2>1, <2>2 DEF AckJoin
  <1>8. CASE SkipLine(c) \/ JoinedReject(c) \/ PostError(c)
    <2>1. pc[c] \in Past
      BY <1>8 DEF SkipLine, JoinedReject, PostError, Past
    <2>2. PICK line : WriteReply(c, line, "drain")
      BY <1>8 DEF SkipLine, JoinedReject, PostError
    <2> QED  BY <2>1, <2>2, WriteAnswers
  <1>9. CASE DrainOne(c) \/ JoinedBroadcast(c)
    BY <1>9, QueuedAnswers DEF DrainOne, JoinedBroadcast, Past
  <1>10. CASE LastDrain(c)
    <2>1. CASE WriteQueued(c, "closing")
      BY <1>10, <2>1, QueuedAnswers DEF LastDrain, Past
    <2>2. CASE ~WriteQueued(c, "closing")
      BY <1>t, <1>10, <2>2 DEF LastDrain, outVars, Answers, Past
    <2> QED  BY <2>1, <2>2
  <1> QED
    BY <1>1, <1>2, <1>3, <1>4, <1>5, <1>6, <1>7, <1>8, <1>9, <1>10 DEF Tick

(* An answer once given stays given.                                       *)
LEMMA StaysAcked ==
  ASSUME NEW c \in Conns, TypeOK, Answers(c), NEW d \in Conns, Acked(d)
  PROVE  Acked(d)'
  <1>t. replies \in [Conns -> Seq(Reply)]
    BY DEF TypeOK, ConnectionTypeOK
  <1>1. CASE replies'[d] = replies[d]
    BY <1>1 DEF Acked, Ok
  <1>2. CASE \E line : replies'[d] = Append(replies[d], line)
    <2>1. PICK line : replies'[d] = Append(replies[d], line)
      BY <1>2
    <2>2. PICK i \in 1..Len(replies[d]) : replies[d][i] = Ok(d)
      BY DEF Acked
    <2> DEFINE s == replies[d]
               t == replies'[d]
    <2>3. /\ Len(s) \in Nat /\ Len(t) = Len(s) + 1
          /\ \A k \in 1..Len(s) : t[k] = s[k]
      BY <1>t, <2>1, AppendKeeps, SMT
    <2> HIDE DEF s, t
    <2>4. i \in 1..Len(t) /\ t[i] = Ok(d)
      BY <2>2, <2>3, SMT DEF s
    <2> QED  BY <2>4 DEF Acked, Ok, t
  <1>3. \/ replies'[d] = replies[d]
        \/ \E line : replies'[d] = Append(replies[d], line)
    <2>1. CASE replies' = replies
      BY <2>1
    <2>2. CASE \E line : replies' = [replies EXCEPT ![c] = Append(@, line)]
      BY <1>t, <2>2
    <2> QED  BY <2>1, <2>2 DEF Answers
  <1> QED  BY <1>1, <1>2, <1>3

(* A connection passes into Past by the Ok.                                *)
LEMMA BecomesAcked ==
  ASSUME NEW c \in Conns, TypeOK,
         replies' = [replies EXCEPT ![c] = Append(@, Ok(c))]
  PROVE  Acked(c)'
  <1>t. replies \in [Conns -> Seq(Reply)]
    BY DEF TypeOK, ConnectionTypeOK
  <1>1. replies'[c] = Append(replies[c], Ok(c))
    BY <1>t
  <1> DEFINE s == replies[c]
             t == replies'[c]
  <1>2. Len(s) \in Nat /\ Len(t) = Len(s) + 1 /\ t[Len(s) + 1] = Ok(c)
    BY <1>t, <1>1, AppendKeeps, SMT
  <1>3. Len(s) + 1 \in 1..Len(t)
    BY <1>2, SMT
  <1> QED  BY <1>2, <1>3 DEF Acked, Ok

(* Every step of the server or its clients preserves the invariant.        *)
LEMMA AckStep ==
  TypeOK /\ AckInv /\ [Next \/ Done]_vars => AckInv'
  <1> SUFFICES ASSUME TypeOK, AckInv, [Next \/ Done]_vars, NEW d \in Conns,
                      pc'[d] \in Past \/ heard'[d] # <<>>
               PROVE  Acked(d)'
    BY DEF AckInv
  <1>1. CASE UNCHANGED <<replies, heard>>
             /\ (pc'[d] \in Past => pc[d] \in Past)
    <2>1. Acked(d)
      BY <1>1 DEF AckInv
    <2> QED  BY <1>1, <2>1 DEF Acked, Ok
  <1>2. ASSUME NEW c \in Conns, Tick(c) PROVE Acked(d)'
    <2>1. Answers(c)
      BY <1>2, TickAnswers
    <2>2. CASE Acked(d)
      BY <2>1, <2>2, StaysAcked
    <2>3. CASE ~Acked(d)
      <3>1. pc[d] \notin Past /\ heard[d] = <<>>
        BY <2>3 DEF AckInv
      <3>2. heard'[d] = heard[d]
        BY <2>1, <3>1 DEF Answers
      <3>3. pc'[d] \in Past /\ c = d
        BY <2>1, <3>1, <3>2 DEF Answers
      <3> QED  BY <2>1, <3>1, <3>3, BecomesAcked DEF Answers
    <2> QED  BY <2>2, <2>3
  <1>3. CASE Dispatcher /\ UNCHANGED <<connVars, mainVars>>
    BY <1>1, <1>3 DEF connVars, outVars
  <1>4. ASSUME NEW c \in Conns, Accept(c) PROVE Acked(d)'
    <2>1. pc \in [Conns -> Unregistered \cup Registered \cup Ended]
      BY DEF TypeOK, ConnectionTypeOK
    <2> QED  BY <1>1, <1>4, <2>1 DEF Accept, outVars, Past
  <1>5. CASE AcquirePermit \/ AcceptError \/ CtrlC \/ Main
    BY <1>1, <1>5 DEF AcquirePermit, AcceptError, CtrlC, Main, StopBroker, Exit,
                      connVars, outVars
  <1>6. ASSUME NEW c \in Conns, Peer(c) PROVE Acked(d)'
    <2>1. UNCHANGED peerFrame
      BY <1>6 DEF Peer, Write, WriteNewline, Close, Reset, Stall, Resume
    <2> QED  BY <1>1, <2>1 DEF peerFrame, outVars
  <1>7. CASE UNCHANGED vars
    BY <1>1, <1>7 DEF vars, connVars, outVars
  <1> QED
    BY <1>2, <1>3, <1>4, <1>5, <1>6, <1>7 DEF Next, Done

(* At the start no one is past the Ok and nothing has been written.        *)
LEMMA AckInit == Init => AckInv
  BY DEF Init, ConnectionInit, AckInv, Past

(* Who has been written a message of the room has been written the Ok.     *)
LEMMA AckSafe ==
  ASSUME TypeOK, AckInv
  PROVE  AckFirst
  <1> SUFFICES ASSUME NEW c \in Conns, heard[c] # <<>>
               PROVE  Ok(c) \in Range(replies[c])
    BY DEF AckFirst
  <1>1. PICK i \in 1..Len(replies[c]) : replies[c][i] = Ok(c)
    BY DEF AckInv, Acked
  <1>2. replies[c] \in Seq(Reply)
    BY DEF TypeOK, ConnectionTypeOK
  <1>3. i \in DOMAIN replies[c]
    BY <1>1, <1>2, SMT
  <1> QED  BY <1>1, <1>3 DEF Range

(* The Ok of a JOIN is written before any message of the room, for any     *)
(* number of clients and whatever the dispatcher has queued meanwhile.     *)
THEOREM OkComesFirst == Spec => []AckFirst
  <1>1. TypeOK /\ AckInv => AckFirst
    BY AckSafe
  <1> QED  BY <1>1, AckInit, AckStep, TypeCorrect, PTL DEF Spec
-----------------------------------------------------------------------------
(* Every line read has one answer.  Between two ticks the lines read and   *)
(* the answers agree; within one the task owes an answer.  What a client   *)
(* has written alternates bodies and newlines, so a line is read to its    *)
(* end when an even number of fragments has been read.                     *)
Asking == Unregistered \cup {"announceJoined", "joinErr"}
Running == Asking \cup {"ackJoin", "drain", "joined", "posting", "postErr",
                        "skipping"}

Framed(s, w) ==
  /\ Len(s) <= w
  /\ \A i \in 1..Len(s) : s[i] = Newline <=> (w - Len(s) + i) % 2 = 0

Refused(c) ==
  replies[c] # <<>> /\ replies[c][Len(replies[c])] = Err(c, "roomTimeout")

(* A client that closes in the middle of a line has that part taken for a  *)
(* line; the count is about the others.                                    *)
Settled(c) == wrote[c] % 2 = 0 \/ sock[c] \in {"open", "stalled"}

Owes(c) == IF \/ pc[c] \in {"announceJoined", "joinErr", "posting", "postErr"}
              \/ pc[c] = "ackJoin" /\ ~Refused(c)
           THEN 1 ELSE 0

Midline(c) ==
  \/ pc[c] = "skipping"
  \/ pc[c] \in {"idle", "unauth", "joined"} /\ buf[c] # NoBody

Balanced(c) ==
  /\ pc[c] \in Asking \cup {"ackJoin"} => ~Acked(c)
  /\ pc[c] \in Asking => ~Refused(c)
  /\ Midline(c) => FragmentsRead(c) % 2 = 1
  /\ Settled(c) /\ pc[c] \in Running => LinesRead(c) = Answered(c) + Owes(c)

InStep(c) == Framed(inbox[c], wrote[c]) /\ Balanced(c)

AnswerInv == \A c \in Conns : InStep(c)

(* Halves and parity.                                                      *)
LEMMA Parity ==
  ASSUME NEW a \in Nat
  PROVE  /\ a % 2 = 0 \/ a % 2 = 1
         /\ (a + 1) % 2 = 0 <=> a % 2 = 1
         /\ (a + 2) % 2 = a % 2
         /\ a \div 2 \in Nat
         /\ a % 2 = 1 => (a + 1) \div 2 = a \div 2 + 1
         /\ a % 2 = 0 => (a + 1) \div 2 = a \div 2
         /\ (a + 2) \div 2 = a \div 2 + 1
  BY SMT

(* Reading n fragments leaves the rest framed, n fragments further on.     *)
LEMMA CutFramed ==
  ASSUME NEW s, NEW t, NEW w \in Nat, Len(s) \in Nat, NEW n \in 0..Len(s),
         Cut(s, t, n), Framed(s, w)
  PROVE  /\ Framed(t, w) /\ Len(t) \in Nat
         /\ w - Len(s) \in Nat /\ w - Len(t) = (w - Len(s)) + n
  <1>1. /\ Len(t) \in Nat
        /\ \A i \in 1..Len(t) : i + n \in 1..Len(s) /\ t[i] = s[i + n]
    BY CutPlaces, SMT
  <1>2. Len(t) = Len(s) - n
    BY DEF Cut
  <1>3. /\ Len(s) <= w
        /\ \A i \in 1..Len(s) : s[i] = Newline <=> (w - Len(s) + i) % 2 = 0
    BY DEF Framed
  <1> DEFINE k == Len(s)
             l == Len(t)
  <1>4. k \in Nat /\ l \in Nat /\ k <= w /\ n \in 0..k /\ l = k - n
    BY <1>1, <1>2, <1>3
  <1> HIDE DEF k, l
  <1>5. l <= w /\ w - k \in Nat /\ w - l = (w - k) + n
    BY <1>4, SMT
  <1>6. ASSUME NEW i \in 1..l
        PROVE  t[i] = Newline <=> (w - l + i) % 2 = 0
    <2>1. i + n \in 1..k /\ t[i] = s[i + n]
      BY <1>1 DEF k, l
    <2>2. w - l + i = w - k + (i + n)
      BY <1>4, SMT
    <2>3. s[i + n] = Newline <=> (w - k + (i + n)) % 2 = 0
      BY <1>3, <2>1 DEF k
    <2> QED  BY <2>1, <2>2, <2>3
  <1> QED  BY <1>1, <1>5, <1>6 DEF Framed, k, l

(* The first unread fragment says on which side of a newline the reader    *)
(* is.                                                                     *)
LEMMA FramedHead ==
  ASSUME NEW S, NEW s \in Seq(S), s # <<>>, NEW w \in Nat, Framed(s, w)
  PROVE  /\ w - Len(s) \in Nat
         /\ Head(s) = Newline <=> (w - Len(s)) % 2 = 1
  <1>1. s[1] = Head(s) /\ Len(s) > 0 /\ Len(s) \in Nat
    BY CutTail, SMT
  <1>2. Len(s) <= w /\ (s[1] = Newline <=> (w - Len(s) + 1) % 2 = 0)
    BY <1>1, SMT DEF Framed
  <1>3. w - Len(s) \in Nat
    BY <1>1, <1>2, SMT
  <1> QED  BY <1>1, <1>2, <1>3, Parity

(* The unread input of a connection, as the lemmas above take it.          *)
LEMMA InboxType ==
  ASSUME NEW c \in Conns, TypeOK
  PROVE  /\ inbox[c] \in Seq(Body \cup {Newline}) /\ Len(inbox[c]) \in Nat
         /\ wrote[c] \in Nat
  BY SMT DEF TypeOK, ConnectionTypeOK

(* A newline is told by its kind.                                          *)
LEMMA NewlineKind == Newline.cmd = "newline"
  BY DEF Newline

(* The reader takes the first part of a line ...                           *)
TakesPart(c) ==
  inbox[c] # <<>> /\ Head(inbox[c]) # Newline /\ inbox'[c] = Tail(inbox[c])

(* ... or reads away what is left of it.                                   *)
SkipsRest(c) ==
  /\ pc[c] = "skipping"
  /\ inbox[c] # <<>> \/ Finished(c)
  /\ inbox'[c] = IF inbox[c] = <<>> THEN <<>> ELSE Tail(inbox[c])

(* A part of a line read is no line read.                                  *)
LEMMA PartRead ==
  ASSUME NEW c \in Conns, TypeOK, InStep(c), wrote' = wrote, TakesPart(c)
  PROVE  /\ Framed(inbox'[c], wrote'[c])
         /\ LinesRead(c)' = LinesRead(c) /\ FragmentsRead(c)' % 2 = 1
  <1> DEFINE s == inbox[c]
             t == inbox'[c]
             w == wrote[c]
             f == w - Len(s)
  <1>1. /\ s \in Seq(Body \cup {Newline}) /\ Len(s) \in Nat /\ w \in Nat
        /\ s # <<>> /\ Head(s) # Newline /\ t = Tail(s) /\ Framed(s, w)
    BY InboxType DEF TakesPart, InStep
  <1>2. wrote'[c] = w
    OBVIOUS
  <1> HIDE DEF s, t, w
  <1>3. Cut(s, t, 1) /\ 1 \in 0..Len(s)
    BY <1>1, CutTail, SMT
  <1>4. f \in Nat /\ f % 2 # 1
    BY <1>1, FramedHead
  <1>5. Framed(t, w) /\ w - Len(t) = f + 1
    BY <1>1, <1>3, CutFramed, SMT
  <1>6. (w - Len(t)) \div 2 = f \div 2 /\ (w - Len(t)) % 2 = 1
    <2> HIDE DEF f
    <2> QED  BY <1>4, <1>5, Parity, SMT
  <1> QED  BY <1>2, <1>5, <1>6 DEF LinesRead, FragmentsRead, s, t, w

(* A newline read is a line read.                                          *)
LEMMA NewlineRead ==
  ASSUME NEW c \in Conns, TypeOK, InStep(c), wrote' = wrote,
         inbox[c] # <<>>, Head(inbox[c]) = Newline, inbox'[c] = Tail(inbox[c])
  PROVE  /\ Framed(inbox'[c], wrote'[c])
         /\ LinesRead(c)' = LinesRead(c) + 1
  <1> DEFINE s == inbox[c]
             t == inbox'[c]
             w == wrote[c]
             f == w - Len(s)
  <1>1. /\ s \in Seq(Body \cup {Newline}) /\ Len(s) \in Nat /\ w \in Nat
        /\ s # <<>> /\ Head(s) = Newline /\ t = Tail(s) /\ Framed(s, w)
    BY InboxType DEF InStep
  <1>2. wrote'[c] = w
    OBVIOUS
  <1> HIDE DEF s, t, w
  <1>3. Cut(s, t, 1) /\ 1 \in 0..Len(s)
    BY <1>1, CutTail, SMT
  <1>4. f \in Nat /\ f % 2 = 1
    BY <1>1, FramedHead
  <1>5. Framed(t, w) /\ w - Len(t) = f + 1
    BY <1>1, <1>3, CutFramed, SMT
  <1>6. (w - Len(t)) \div 2 = f \div 2 + 1
    <2> HIDE DEF f
    <2> QED  BY <1>4, <1>5, Parity
  <1> QED  BY <1>2, <1>5, <1>6 DEF LinesRead, FragmentsRead, s, t, w

(* So is a body with the newline behind it.                                *)
LEMMA WholeRead ==
  ASSUME NEW c \in Conns, TypeOK, InStep(c), wrote' = wrote,
         Len(inbox[c]) > 1, inbox'[c] = Tail(Tail(inbox[c]))
  PROVE  /\ Framed(inbox'[c], wrote'[c])
         /\ LinesRead(c)' = LinesRead(c) + 1
  <1> DEFINE s == inbox[c]
             t == inbox'[c]
             w == wrote[c]
             f == w - Len(s)
  <1>1. /\ s \in Seq(Body \cup {Newline}) /\ Len(s) \in Nat /\ w \in Nat
        /\ Len(s) > 1 /\ t = Tail(Tail(s)) /\ Framed(s, w)
    BY InboxType DEF InStep
  <1>2. wrote'[c] = w
    OBVIOUS
  <1> HIDE DEF s, t, w
  <1>3. Cut(s, t, 2) /\ 2 \in 0..Len(s)
    BY <1>1, CutTail, SMT
  <1>4. Len(s) \in Nat /\ w \in Nat /\ Framed(s, w)
    BY <1>1
  <1>5. Framed(t, w) /\ f \in Nat /\ w - Len(t) = f + 2
    BY <1>3, <1>4, CutFramed, SMT
  <1>6. (w - Len(t)) \div 2 = f \div 2 + 1
    <2> HIDE DEF f
    <2> QED  BY <1>5, Parity
  <1> QED  BY <1>2, <1>5, <1>6 DEF LinesRead, FragmentsRead, s, t, w

(* With nothing left to read, the reader is where the client stopped.      *)
LEMMA NothingLeft ==
  ASSUME NEW c \in Conns, TypeOK, InStep(c), inbox[c] = <<>>
  PROVE  FragmentsRead(c) = wrote[c] /\ wrote[c] \in Nat
  <1>1. Len(inbox[c]) = 0 /\ wrote[c] \in Nat
    BY InboxType
  <1> QED  BY <1>1, SMT DEF FragmentsRead

(* A line read to its end, by a client that has not closed in the middle   *)
(* of one, is one line more.                                               *)
LEMMA LineRead ==
  ASSUME NEW c \in Conns, TypeOK, InStep(c), wrote' = wrote,
         \/ TakeLine(c) /\ pc[c] \in {"unauth", "joined"}
         \/ SkipsRest(c)
  PROVE  /\ Framed(inbox'[c], wrote'[c])
         /\ Settled(c) => LinesRead(c)' = LinesRead(c) + 1
  <1>t. /\ inbox[c] \in Seq(Body \cup {Newline}) /\ Len(inbox[c]) \in Nat
        /\ wrote[c] \in Nat /\ inbox \in [Conns -> Seq(Body \cup {Newline})]
    BY InboxType DEF TypeOK, ConnectionTypeOK
  <1>e. ASSUME Finished(c), wrote[c] % 2 = 1 PROVE ~Settled(c)
    BY <1>e, SMT DEF Settled, Finished
  <1>1. CASE inbox[c] = <<>>
    <2>1. Finished(c) /\ Midline(c) /\ inbox'[c] = inbox[c]
      BY <1>t, <1>1 DEF TakeLine, HasLine, Rest, SkipsRest, Midline
    <2>2. wrote[c] % 2 = 1
      BY <1>1, <2>1, NothingLeft DEF InStep, Balanced
    <2>3. Framed(inbox'[c], wrote'[c])
      BY <2>1 DEF InStep
    <2> QED  BY <1>e, <2>1, <2>2, <2>3
  <1>2. CASE inbox[c] # <<>> /\ SkipsRest(c)
    <2>1. Midline(c) /\ inbox'[c] = Tail(inbox[c])
      BY <1>2 DEF SkipsRest, Midline
    <2>2. FragmentsRead(c) % 2 = 1 /\ Framed(inbox[c], wrote[c])
      BY <2>1 DEF InStep, Balanced
    <2>3. Head(inbox[c]) = Newline
      BY <1>2, <1>t, <2>2, FramedHead DEF FragmentsRead
    <2> QED  BY <1>2, <2>1, <2>3, NewlineRead
  <1>3. CASE inbox[c] # <<>> /\ TakeLine(c) /\ Head(inbox[c]) = Newline
    <2>1. inbox'[c] = Tail(inbox[c])
      BY <1>3, <1>t DEF TakeLine, Rest
    <2> QED  BY <1>3, <2>1, NewlineRead
  <1>4. CASE inbox[c] # <<>> /\ TakeLine(c) /\ Head(inbox[c]) # Newline
    <2>1. CASE Len(inbox[c]) = 1
      <3>1. inbox'[c] = Tail(inbox[c]) /\ Finished(c)
        <4>1. ~(Len(inbox[c]) > 1)
          BY <2>1, SMT
        <4> QED  BY <1>4, <1>t, <2>1, <4>1 DEF TakeLine, Rest, HasLine
      <3>2. /\ Framed(inbox'[c], wrote'[c]) /\ FragmentsRead(c)' % 2 = 1
        BY <1>4, <3>1, PartRead DEF TakesPart
      <3>3. Len(inbox'[c]) = 0
        BY <1>4, <1>t, <2>1, <3>1, SMT
      <3>4. FragmentsRead(c)' = wrote[c]
        BY <1>t, <3>3, SMT DEF FragmentsRead
      <3> QED  BY <1>e, <3>1, <3>2, <3>4
    <2>2. CASE Len(inbox[c]) > 1
      <3>0. Len(inbox[c]) # 1
        <4>1. \A n \in Nat : n > 1 => n # 1
          BY SMT
        <4> QED  BY <1>t, <2>2, <4>1
      <3>1. inbox'[c] = Tail(Tail(inbox[c]))
        BY <1>4, <1>t, <3>0 DEF TakeLine, Rest
      <3> QED  BY <2>2, <3>1, WholeRead
    <2>3. Len(inbox[c]) = 1 \/ Len(inbox[c]) > 1
      <3>1. Len(inbox[c]) > 0
        BY <1>4, <1>t, CutTail
      <3>2. \A n \in Nat : n > 0 => n = 1 \/ n > 1
        BY SMT
      <3> QED  BY <1>t, <3>1, <3>2
    <2> QED  BY <2>1, <2>2, <2>3
  <1> QED  BY <1>1, <1>2, <1>3, <1>4
-----------------------------------------------------------------------------
(* No answer to a line is an Ok and an error at once.                      *)
LEMMA OkIsNoError ==
  ASSUME NEW c, NEW r \in Reasons
  PROVE  Ok(c) # Err(c, r) /\ Err(c, r).kind = r /\ Ok(c).kind = "ok"
  BY DEF Ok, Err, Reasons

(* What an answer appended does to the counts.                             *)
LEMMA AnswerAppended ==
  ASSUME NEW c \in Conns, TypeOK, NEW e, replies'[c] = Append(replies[c], e)
  PROVE  /\ Len(replies[c]) \in Nat /\ Len(replies'[c]) = Len(replies[c]) + 1
         /\ Acked(c)' <=> Acked(c) \/ e = Ok(c)
         /\ Refused(c)' <=> e = Err(c, "roomTimeout")
         /\ Belated(c)' <=> Belated(c) \/ (e = Ok(c) /\ Refused(c))
  <1> DEFINE s == replies[c]
             t == replies'[c]
             k == Len(s)
             y == Ok(c)
             x == Err(c, "roomTimeout")
  <1>t. replies[c] \in Seq(Reply)
    BY DEF TypeOK, ConnectionTypeOK
  <1>1. /\ k \in Nat /\ Len(t) = k + 1 /\ t[k + 1] = e
        /\ \A i \in 1..k : t[i] = s[i]
    <2>1. s \in Seq(Reply) /\ t = Append(s, e)
      BY <1>t
    <2> HIDE DEF s, t
    <2> QED  BY <2>1, AppendKeeps, SMT
  <1>2. /\ s # <<>> <=> k \in 1..k
        /\ t # <<>>
    <2>1. s = <<>> <=> k = 0
      BY <1>t, SMT
    <2>2. t # <<>>
      BY <1>t, SMT
    <2> QED  BY <1>1, <2>1, <2>2, SMT
  <1>3. /\ Acked(c) <=> \E i \in 1..k : s[i] = y
        /\ Acked(c)' <=> \E i \in 1..Len(t) : t[i] = y
        /\ Refused(c) <=> s # <<>> /\ s[k] = x
        /\ Refused(c)' <=> t # <<>> /\ t[Len(t)] = x
        /\ Belated(c) <=> \E i \in 2..k : s[i] = y /\ s[i - 1] = x
        /\ Belated(c)' <=> \E i \in 2..Len(t) : t[i] = y /\ t[i - 1] = x
    BY DEF Acked, Refused, Belated, Ok, Err
  <1> HIDE DEF s, t, k, y, x
  <1>4. 1..(k + 1) = 1..k \cup {k + 1} /\ \A i \in 1..k : i # k + 1
    BY <1>1, SMT
  <1>5. Acked(c)' <=> Acked(c) \/ e = y
    BY <1>1, <1>3, <1>4
  <1>6. Refused(c)' <=> e = x
    BY <1>1, <1>2, <1>3
  <1>7. ASSUME Belated(c) PROVE Belated(c)'
    <2>1. PICK i \in 2..k : s[i] = y /\ s[i - 1] = x
      BY <1>3, <1>7
    <2>2. i \in 1..k /\ i - 1 \in 1..k /\ i \in 2..(k + 1)
      BY <1>1, SMT
    <2>3. t[i] = y /\ t[i - 1] = x
      BY <1>1, <2>1, <2>2
    <2> QED  BY <1>1, <1>3, <2>2, <2>3
  <1>8. ASSUME e = y, Refused(c) PROVE Belated(c)'
    <2>1. k \in 1..k /\ s[k] = x
      BY <1>2, <1>3, <1>8
    <2>2. k + 1 \in 2..(k + 1) /\ k + 1 - 1 = k
      BY <1>1, <2>1, SMT
    <2>3. t[k + 1] = y /\ t[k] = x
      BY <1>1, <1>8, <2>1
    <2> QED  BY <1>1, <1>3, <2>2, <2>3, SMT
  <1>9. ASSUME Belated(c)' PROVE Belated(c) \/ (e = y /\ Refused(c))
    <2>1. PICK i \in 2..(k + 1) : t[i] = y /\ t[i - 1] = x
      BY <1>1, <1>3, <1>9
    <2>2. CASE i = k + 1
      <3>1. i - 1 = k /\ k \in 1..k
        BY <1>1, <2>2, SMT
      <3>2. e = y /\ s[k] = x
        BY <1>1, <2>1, <2>2, <3>1
      <3> QED  BY <1>2, <1>3, <3>1, <3>2
    <2>3. CASE i \in 2..k
      <3>1. i \in 1..k /\ i - 1 \in 1..k
        BY <1>1, <2>3, SMT
      <3>2. s[i] = y /\ s[i - 1] = x
        BY <1>1, <2>1, <3>1
      <3> QED  BY <1>3, <2>3, <3>2
    <2>4. i = k + 1 \/ i \in 2..k
      BY <1>1, SMT
    <2> QED  BY <2>2, <2>3, <2>4
  <1> QED  BY <1>1, <1>5, <1>6, <1>7, <1>8, <1>9 DEF s, t, k, y, x

(* What has not been acknowledged has not been acknowledged late.          *)
LEMMA BelatedIsAcked ==
  ASSUME NEW c \in Conns, TypeOK, Belated(c)
  PROVE  Acked(c)
  <1>1. PICK i \in 2..Len(replies[c]) : replies[c][i] = Ok(c)
    BY DEF Belated
  <1>2. Len(replies[c]) \in Nat
    BY SMT DEF TypeOK, ConnectionTypeOK
  <1>3. i \in 1..Len(replies[c])
    BY <1>2, SMT
  <1> QED  BY <1>1, <1>3 DEF Acked

(* The answers are a number, and those posted a finite set.                *)
LEMMA AnsweredType ==
  ASSUME Counting, NEW c \in Conns, TypeOK
  PROVE  /\ IsFiniteSet(Said(c)) /\ Cardinality(Said(c)) \in Nat
         /\ Len(replies[c]) \in Nat /\ Len(posted) \in Nat
         /\ Said(c) \subseteq 1..Len(posted)
  <1>1. Len(replies[c]) \in Nat /\ Len(posted) \in Nat
    BY SMT DEF TypeOK, ConnectionTypeOK, BrokerTypeOK
  <1>2. Said(c) \subseteq 1..Len(posted)
    BY DEF Said
  <1>3. IsFiniteSet(1..Len(posted))
    BY <1>1 DEF Counting
  <1>4. IsFiniteSet(Said(c))
    BY <1>2, <1>3 DEF Counting
  <1> QED  BY <1>1, <1>2, <1>4 DEF Counting

(* A message posted counts if it is a line of c's.                         *)
LEMMA SaidMore ==
  ASSUME Counting, NEW c \in Conns, TypeOK, NEW m, Send(m)
  PROVE  Cardinality(Said(c)') =
           Cardinality(Said(c)) + IF LineOf(m, c) THEN 1 ELSE 0
  <1> DEFINE l == Len(posted)
  <1>1. /\ l \in Nat /\ Len(posted') = l + 1
        /\ \A j \in 1..l : posted'[j] = posted[j]
        /\ posted'[l + 1] = m
    BY SendAppends
  <1>2. /\ Said(c) = {j \in 1..l : LineOf(posted[j], c)}
        /\ Said(c)' = {j \in 1..(l + 1) : LineOf(posted'[j], c)}
    BY <1>1 DEF Said, LineOf
  <1>3. /\ IsFiniteSet(Said(c)) /\ Cardinality(Said(c)) \in Nat
    BY AnsweredType
  <1> HIDE DEF l
  <1>4. 1..(l + 1) = 1..l \cup {l + 1} /\ l + 1 \notin 1..l
    BY <1>1, SMT
  <1>5. CASE LineOf(m, c)
    <2>1. Said(c)' = Said(c) \cup {l + 1} /\ l + 1 \notin Said(c)
      BY <1>1, <1>2, <1>4, <1>5
    <2> QED  BY <1>3, <1>5, <2>1 DEF Counting
  <1>6. CASE ~LineOf(m, c)
    <2>1. Said(c)' = Said(c)
      BY <1>1, <1>2, <1>4, <1>6
    <2> QED  BY <1>3, <1>6, <2>1, SMT
  <1> QED  BY <1>5, <1>6
-----------------------------------------------------------------------------
(* The steps of a connection task, by what they do to the count: it ends,  *)
(* or rests; it reads a part of a line, or a line it goes on to work at or *)
(* turns down; it posts, or writes the answer it owed.                     *)
Quiet(c) == replies'[c] = replies[c] /\ posted' = posted

Rests(c) ==
  /\ Quiet(c) /\ inbox'[c] = inbox[c]
  /\ \/ pc'[c] = pc[c] /\ buf'[c] = buf[c]
     \/ pc[c] \in {"drain", "joined"} /\ pc'[c] = "drain"
     \/ pc[c] = "drain" /\ pc'[c] = "joined" /\ buf'[c] = NoBody
     \/ pc[c] = "announceJoined" /\ pc'[c] = "joinErr"
     \/ pc[c] = "posting" /\ pc'[c] = "postErr"

Begins(c) ==
  /\ Quiet(c) /\ TakesPart(c)
  /\ \/ pc[c] \in {"unauth", "joined"} /\ pc'[c] = pc[c]
     \/ pc[c] = "joined" /\ pc'[c] = "skipping"

Decodes(c) ==
  /\ Quiet(c) /\ TakeLine(c)
  /\ \/ pc[c] = "unauth" /\ pc'[c] = "announceJoined"
     \/ pc[c] = "joined" /\ pc'[c] = "posting"

TurnsDown(c) ==
  /\ posted' = posted
  /\ \/ TakeLine(c) /\ pc[c] \in {"unauth", "joined"}
     \/ SkipsRest(c)
  /\ \E r \in Reasons :
       /\ replies'[c] = Append(replies[c], Err(c, r))
       /\ \/ /\ pc[c] = "unauth" /\ pc'[c] = "unauth" /\ buf'[c] = NoBody
             /\ r # "roomTimeout"
          \/ pc[c] \in {"joined", "skipping"} /\ pc'[c] = "drain"

Tells(c) ==
  /\ replies'[c] = replies[c] /\ inbox'[c] = inbox[c]
  /\ \E m : Posts(c, m)

Settles(c) ==
  /\ posted' = posted /\ inbox'[c] = inbox[c]
  /\ \/ /\ pc[c] = "joinErr" /\ pc'[c] = "ackJoin"
        /\ replies'[c] = Append(replies[c], Err(c, "roomTimeout"))
     \/ /\ pc[c] = "ackJoin" /\ pc'[c] = "drain"
        /\ replies'[c] = Append(replies[c], Ok(c))
     \/ /\ pc[c] = "postErr" /\ pc'[c] = "drain"
        /\ replies'[c] = Append(replies[c], Err(c, "roomTimeout"))

Turn(c) ==
  \/ pc'[c] \notin Running
  \/ Rests(c) \/ Begins(c) \/ Decodes(c) \/ TurnsDown(c) \/ Tells(c)
  \/ Settles(c)

(* A write that is accepted, or the task has ended.                        *)
LEMMA WriteTurn ==
  ASSUME NEW c \in Conns, TypeOK, NEW next, NEW line,
         WriteReply(c, line, next)
  PROVE  \/ pc'[c] \notin Running
         \/ pc'[c] = next /\ replies'[c] = Append(replies[c], line)
  <1>t. /\ pc \in [Conns -> Unregistered \cup Registered \cup Ended]
        /\ replies \in [Conns -> Seq(Reply)]
    BY DEF TypeOK, ConnectionTypeOK
  <1>1. CASE WriteFails(c)
    <2>1. pc'[c] = "gone"
      BY <1>t, <1>1 DEF WriteFails, End
    <2> QED  BY <2>1 DEF Running, Asking, Unregistered
  <1>2. CASE Put(c, next) /\ replies' = [replies EXCEPT ![c] = Append(@, line)]
    BY <1>t, <1>2 DEF Put
  <1> QED  BY <1>1, <1>2 DEF WriteReply

(* The same of a message of the room.                                      *)
LEMMA QueuedTurn ==
  ASSUME NEW c \in Conns, TypeOK, NEW next, WriteQueued(c, next)
  PROVE  \/ pc'[c] \notin Running
         \/ pc'[c] = next /\ replies'[c] = replies[c]
  <1>t. pc \in [Conns -> Unregistered \cup Registered \cup Ended]
    BY DEF TypeOK, ConnectionTypeOK
  <1>1. CASE WriteFails(c)
    <2>1. pc'[c] = "gone"
      BY <1>t, <1>1 DEF WriteFails, End
    <2> QED  BY <2>1 DEF Running, Asking, Unregistered
  <1>2. CASE Put(c, next) /\ replies' = replies
    BY <1>t, <1>2 DEF Put
  <1> QED  BY <1>1, <1>2 DEF WriteQueued

(* Every step of a connection task is one of these turns.                  *)
LEMMA TickTurn ==
  ASSUME NEW c \in Conns, TypeOK, Tick(c)
  PROVE  Turn(c)
  <1>t. /\ pc \in [Conns -> Unregistered \cup Registered \cup Ended]
        /\ buf \in [Conns -> Body \cup {NoBody}]
        /\ inbox \in [Conns -> Seq(Body \cup {Newline})]
    BY DEF TypeOK, ConnectionTypeOK
  <1>r. {"gone", "closing", "leaving", "announceLeft", "leftErr"}
          \cap Running = {}
    BY DEF Running, Asking, Unregistered
  <1>1. CASE Flush(c)
    <2>1. /\ inbox' = inbox /\ buf' = buf /\ replies' = replies
          /\ posted' = posted /\ (pc' = pc \/ pc'[c] = "gone")
      BY <1>t, <1>1 DEF Flush, End, roomVars
    <2> QED  BY <1>r, <2>1 DEF Turn, Rests, Quiet
  <1>2. CASE \/ UnauthDisconnect(c) \/ JoinedReadError(c) \/ JoinedLeave(c)
             \/ JoinedEof(c) \/ JoinedShutdown(c) \/ Leave(c)
             \/ AnnounceLeft(c) \/ LeftError(c)
    <2>1. pc'[c] \in {"gone", "closing", "announceLeft", "leftErr"}
      BY <1>t, <1>2
      DEF UnauthDisconnect, JoinedReadError, JoinedLeave, JoinedEof,
          JoinedShutdown, Leave, AnnounceLeft, LeftError, End, Closing
    <2> QED  BY <1>r, <2>1 DEF Turn
  <1>3. CASE ReadPart(c)
    <2>1. /\ inbox[c] # <<>> /\ Head(inbox[c]) # Newline
          /\ inbox'[c] = Tail(inbox[c]) /\ pc' = pc
          /\ pc[c] \in {"unauth", "joined"} /\ Quiet(c)
      BY <1>t, <1>3 DEF ReadPart, HasLine, Quiet, outVars, roomVars
    <2> QED  BY <2>1 DEF Turn, Begins, TakesPart
  <1>4. CASE JoinedTooLong(c)
    <2>1. /\ inbox[c] # <<>> /\ Head(inbox[c]).cmd = "long"
          /\ inbox'[c] = Tail(inbox[c]) /\ pc[c] = "joined"
          /\ pc'[c] = "skipping" /\ Quiet(c)
      BY <1>t, <1>4 DEF JoinedTooLong, TooLong, Quiet, outVars, roomVars
    <2>2. Head(inbox[c]) # Newline
      BY <2>1, NewlineKind
    <2> QED  BY <2>1, <2>2 DEF Turn, Begins, TakesPart
  <1>5. CASE JoinAccepted(c) \/ JoinedSend(c)
    <2>1. /\ TakeLine(c) /\ Quiet(c)
          /\ \/ pc[c] = "unauth" /\ pc'[c] = "announceJoined"
             \/ pc[c] = "joined" /\ pc'[c] = "posting"
      BY <1>t, <1>5 DEF JoinAccepted, JoinedSend, Quiet, outVars, roomVars
    <2> QED  BY <2>1 DEF Turn, Decodes
  <1>6. CASE UnauthReject(c)
    <2>1. PICK r \in Reasons \ {"roomTimeout"} : WriteReply(c, Err(c, r), "unauth")
      <3>1. DecodeError(Line(c)) \in Reasons \ {"roomTimeout"}
        BY DEF DecodeError, Reasons
      <3>2. JoinRefusal(c) \subseteq Reasons \ {"roomTimeout"}
        BY DEF JoinRefusal, Reasons
      <3>3. "mustJoinFirst" \in Reasons \ {"roomTimeout"}
        BY DEF Reasons
      <3> QED  BY <1>6, <3>1, <3>2, <3>3 DEF UnauthReject
    <2>2. /\ TakeLine(c) /\ pc[c] = "unauth" /\ buf'[c] = NoBody
          /\ posted' = posted
      BY <1>t, <1>6 DEF UnauthReject, roomVars
    <2> QED  BY <2>1, <2>2, WriteTurn DEF Turn, TurnsDown
  <1>7. CASE JoinedReject(c)
    <2>1. PICK r \in Reasons : WriteReply(c, Err(c, r), "drain")
      <3>1. DecodeError(Line(c)) \in Reasons /\ "invalidCommand" \in Reasons
        BY DEF DecodeError, Reasons
      <3> QED  BY <1>7, <3>1 DEF JoinedReject
    <2>2. TakeLine(c) /\ pc[c] = "joined" /\ posted' = posted
      BY <1>7 DEF JoinedReject, roomVars
    <2> QED  BY <2>1, <2>2, WriteTurn DEF Turn, TurnsDown
  <1>8. CASE SkipLine(c)
    <2>1. /\ WriteReply(c, Err(c, "messageTooLong"), "drain")
          /\ "messageTooLong" \in Reasons
      BY <1>8 DEF SkipLine, Reasons
    <2>2. SkipsRest(c) /\ pc[c] = "skipping" /\ posted' = posted
      BY <1>t, <1>8 DEF SkipLine, SkipsRest, roomVars
    <2> QED  BY <2>1, <2>2, WriteTurn DEF Turn, TurnsDown
  <1>9. CASE AnnounceJoined(c) \/ Post(c)
    <2>1. inbox' = inbox /\ replies' = replies
      BY <1>9 DEF AnnounceJoined, Post, outVars
    <2>2. CASE \E m : Posts(c, m)
      BY <2>1, <2>2 DEF Turn, Tells
    <2>3. CASE ~\E m : Posts(c, m)
      <3>1. /\ posted' = posted
            /\ \/ pc[c] = "announceJoined" /\ pc'[c] = "joinErr"
               \/ pc[c] = "posting" /\ pc'[c] = "postErr"
        BY <1>t, <1>9, <2>3
        DEF AnnounceJoined, Post, Posts, SendTimeout, roomVars
      <3> QED  BY <2>1, <3>1 DEF Turn, Rests, Quiet
    <2> QED  BY <2>2, <2>3
  <1>10. CASE AckJoin(c) \/ PostError(c)
    <2>1. inbox' = inbox /\ posted' = posted
      BY <1>10 DEF AckJoin, PostError, roomVars
    <2>2. \/ /\ pc[c] = "joinErr"
             /\ WriteReply(c, Err(c, "roomTimeout"), "ackJoin")
          \/ pc[c] = "ackJoin" /\ WriteReply(c, Ok(c), "drain")
          \/ /\ pc[c] = "postErr"
             /\ WriteReply(c, Err(c, "roomTimeout"), "drain")
      BY <1>10 DEF AckJoin, PostError
    <2> QED  BY <2>1, <2>2, WriteTurn DEF Turn, Settles
  <1>11. CASE DrainOne(c) \/ JoinedBroadcast(c)
    <2>1. /\ inbox' = inbox /\ posted' = posted
          /\ pc[c] \in {"drain", "joined"} /\ WriteQueued(c, "drain")
      BY <1>11 DEF DrainOne, JoinedBroadcast, roomVars
    <2> QED  BY <2>1, QueuedTurn DEF Turn, Rests, Quiet
  <1>12. CASE DrainDone(c) \/ JoinedTimeout(c)
    <2>1. /\ inbox' = inbox /\ posted' = posted /\ replies' = replies
          /\ \/ pc[c] = "joined" /\ pc'[c] = "drain"
             \/ pc[c] = "drain" /\ pc'[c] = "joined" /\ buf'[c] = NoBody
      BY <1>t, <1>12 DEF DrainDone, JoinedTimeout, roomVars, outVars
    <2> QED  BY <2>1 DEF Turn, Rests, Quiet
  <1>13. CASE LastDrain(c)
    <2>1. CASE WriteQueued(c, "closing")
      BY <1>r, <2>1, QueuedTurn DEF Turn
    <2>2. CASE pc' = [pc EXCEPT ![c] = "leaving"]
      BY <1>r, <1>t, <2>2 DEF Turn
    <2> QED  BY <1>13, <2>1, <2>2 DEF LastDrain
  <1> QED
    BY <1>1, <1>2, <1>3, <1>4, <1>5, <1>6, <1>7, <1>8, <1>9, <1>10, <1>11,
       <1>12, <1>13
    DEF Tick
-----------------------------------------------------------------------------
(* The two counts are numbers.                                             *)
LEMMA CountType ==
  ASSUME Counting, NEW c \in Conns, TypeOK, Framed(inbox[c], wrote[c])
  PROVE  /\ FragmentsRead(c) \in Nat /\ LinesRead(c) \in Nat
         /\ Answered(c) \in Int /\ Owes(c) \in {0, 1}
  <1>1. /\ Len(inbox[c]) \in Nat /\ wrote[c] \in Nat
        /\ Len(inbox[c]) <= wrote[c]
    BY InboxType DEF Framed
  <1>2. FragmentsRead(c) \in Nat
    BY <1>1, SMT DEF FragmentsRead
  <1>3. LinesRead(c) \in Nat
    BY <1>2, Parity DEF LinesRead
  <1>4. Len(replies[c]) \in Nat /\ Cardinality(Said(c)) \in Nat
    BY AnsweredType
  <1>5. Answered(c) \in Int
    BY <1>4, SMT DEF Answered
  <1> QED  BY <1>2, <1>3, <1>5 DEF Owes

(* With nothing written to the client and no line of theirs posted, the    *)
(* answers are what they were.                                             *)
LEMMA QuietCounts ==
  ASSUME NEW c \in Conns, replies'[c] = replies[c]
  PROVE  /\ Acked(c)' <=> Acked(c)
         /\ Refused(c)' <=> Refused(c)
         /\ Belated(c)' <=> Belated(c)
         /\ posted' = posted => Answered(c)' = Answered(c)
  <1>1. /\ Acked(c)' <=> Acked(c)
        /\ Refused(c)' <=> Refused(c)
        /\ Belated(c)' <=> Belated(c)
    BY DEF Acked, Refused, Belated, Ok, Err
  <1>2. posted' = posted => Said(c)' = Said(c)
    BY DEF Said
  <1> QED  BY <1>1, <1>2 DEF Answered

(* Every answer is one more, but for an Ok that comes after its error.     *)
LEMMA WrittenCounts ==
  ASSUME Counting, NEW c \in Conns, TypeOK, NEW e, posted' = posted,
         replies'[c] = Append(replies[c], e)
  PROVE  /\ e # Ok(c) => Answered(c)' = Answered(c) + 1
         /\ e = Ok(c) /\ ~Acked(c) =>
              Answered(c)' = Answered(c) + IF Refused(c) THEN 0 ELSE 1
  <1>1. /\ Len(replies[c]) \in Nat /\ Len(replies'[c]) = Len(replies[c]) + 1
        /\ Belated(c)' <=> Belated(c) \/ (e = Ok(c) /\ Refused(c))
    BY AnswerAppended
  <1>2. Said(c)' = Said(c) /\ Cardinality(Said(c)) \in Nat
    BY AnsweredType DEF Said
  <1>3. ~Acked(c) => ~Belated(c)
    BY BelatedIsAcked
  <1> DEFINE k == Len(replies[c])
             n == Cardinality(Said(c))
             B == Belated(c)
             D == Belated(c)'
  <1>4. /\ k \in Nat /\ n \in Nat
        /\ Answered(c) = k + n - IF B THEN 1 ELSE 0
        /\ Answered(c)' = (k + 1) + n - IF D THEN 1 ELSE 0
    BY <1>1, <1>2 DEF Answered
  <1>5. D <=> B \/ (e = Ok(c) /\ Refused(c))
    BY <1>1
  <1>6. ~Acked(c) => ~B
    BY <1>3
  <1> HIDE DEF k, n, B, D
  <1> QED  BY <1>4, <1>5, <1>6, SMT

(* Whatever a connection reads, the rest stays framed.                     *)
LEMMA TickFramed ==
  ASSUME NEW c \in Conns, TypeOK, Tick(c), Framed(inbox[c], wrote[c])
  PROVE  Framed(inbox'[c], wrote'[c])
  <1>1. PICK n \in 0..Len(inbox[c]) : Cut(inbox[c], inbox'[c], n)
    BY TickReads DEF Reads
  <1>2. Len(inbox[c]) \in Nat /\ wrote[c] \in Nat
    BY InboxType
  <1>3. wrote' = wrote
    BY TickAlone DEF Alone
  <1>4. Framed(inbox'[c], wrote[c])
    BY <1>1, <1>2, CutFramed
  <1> QED  BY <1>3, <1>4

(* The states that the count does not speak of.                            *)
LEMMA StatesApart ==
  /\ Asking \subseteq Running /\ "ackJoin" \in Running
  /\ {"idle", "unauth", "joined", "skipping"} \subseteq Running
  /\ {"idle", "unauth", "announceJoined", "joinErr"} = Asking
  /\ "ackJoin" \notin Asking
  /\ {"drain", "joined", "posting", "postErr", "skipping"} \cap Asking = {}
  BY DEF Running, Asking, Unregistered

(* The balance of lines read and answers, when one of them or both grow.   *)
LEMMA StillBalanced ==
  ASSUME NEW c \in Conns, Answered(c) \in Int,
         LinesRead(c) = Answered(c) + Owes(c),
         \/ /\ LinesRead(c)' = LinesRead(c) + 1 /\ Answered(c)' = Answered(c)
            /\ Owes(c) = 0 /\ Owes(c)' = 1
         \/ /\ LinesRead(c)' = LinesRead(c) + 1 /\ Answered(c)' = Answered(c) + 1
            /\ Owes(c) = 0 /\ Owes(c)' = 0
         \/ /\ LinesRead(c)' = LinesRead(c) /\ Answered(c)' = Answered(c) + 1
            /\ Owes(c) = 1 /\ Owes(c)' = 0
         \/ /\ LinesRead(c)' = LinesRead(c) /\ Answered(c)' = Answered(c)
            /\ Owes(c)' = Owes(c)
  PROVE  LinesRead(c)' = Answered(c)' + Owes(c)'
  <1> DEFINE l == LinesRead(c)
             m == LinesRead(c)'
             a == Answered(c)
             b == Answered(c)'
             o == Owes(c)
             p == Owes(c)'
  <1>1. /\ a \in Int /\ l = a + o
        /\ \/ m = l + 1 /\ b = a /\ o = 0 /\ p = 1
           \/ m = l + 1 /\ b = a + 1 /\ o = 0 /\ p = 0
           \/ m = l /\ b = a + 1 /\ o = 1 /\ p = 0
           \/ m = l /\ b = a /\ p = o
    OBVIOUS
  <1> HIDE DEF l, m, a, b, o, p
  <1>2. m = b + p
    BY <1>1, SMT
  <1> QED  BY <1>2 DEF m, b, p

(* The end of a task settles everything.                                   *)
LEMMA EndsBalanced ==
  ASSUME NEW c \in Conns, pc'[c] \notin Running
  PROVE  Balanced(c)'
  BY StatesApart DEF Balanced, Midline

(* A step that neither reads nor answers.                                  *)
LEMMA RestsBalanced ==
  ASSUME NEW c \in Conns, InStep(c), UNCHANGED <<wrote, sock>>, Rests(c)
  PROVE  Balanced(c)'
  <1>1. /\ (Acked(c)' <=> Acked(c)) /\ (Refused(c)' <=> Refused(c))
        /\ Answered(c)' = Answered(c)
    BY QuietCounts DEF Rests, Quiet
  <1>2. FragmentsRead(c)' = FragmentsRead(c) /\ LinesRead(c)' = LinesRead(c)
    BY DEF Rests, FragmentsRead, LinesRead
  <1>3. Settled(c)' <=> Settled(c)
    BY DEF Settled
  <1>4. \/ pc'[c] = pc[c] /\ buf'[c] = buf[c]
        \/ pc[c] \in {"drain", "joined"} /\ pc'[c] = "drain"
        \/ pc[c] = "drain" /\ pc'[c] = "joined" /\ buf'[c] = NoBody
        \/ pc[c] = "announceJoined" /\ pc'[c] = "joinErr"
        \/ pc[c] = "posting" /\ pc'[c] = "postErr"
    BY DEF Rests
  <1>5. Midline(c)' => Midline(c)
    BY <1>4 DEF Midline
  <1>6. Owes(c)' = Owes(c)
    BY <1>1, <1>4 DEF Owes
  <1>7. /\ pc'[c] \in Asking => pc[c] \in Asking
        /\ pc'[c] = "ackJoin" => pc[c] = "ackJoin"
        /\ pc'[c] \in Running => pc[c] \in Running
    BY <1>4, StatesApart DEF Running
  <1>8. /\ pc[c] \in Asking \cup {"ackJoin"} => ~Acked(c)
        /\ pc[c] \in Asking => ~Refused(c)
        /\ Midline(c) => FragmentsRead(c) % 2 = 1
        /\ Settled(c) /\ pc[c] \in Running => LinesRead(c) = Answered(c) + Owes(c)
    BY DEF InStep, Balanced
  <1> QED  BY <1>1, <1>2, <1>3, <1>5, <1>6, <1>7, <1>8 DEF Balanced

(* A part of a line is read.                                               *)
LEMMA BeginsBalanced ==
  ASSUME NEW c \in Conns, TypeOK, InStep(c), UNCHANGED <<wrote, sock>>,
         Begins(c)
  PROVE  Balanced(c)'
  <1>1. /\ (Acked(c)' <=> Acked(c)) /\ (Refused(c)' <=> Refused(c))
        /\ Answered(c)' = Answered(c)
    BY QuietCounts DEF Begins, Quiet
  <1>2. FragmentsRead(c)' % 2 = 1 /\ LinesRead(c)' = LinesRead(c)
    BY PartRead DEF Begins
  <1>3. Settled(c)' <=> Settled(c)
    BY DEF Settled
  <1>4. \/ pc[c] \in {"unauth", "joined"} /\ pc'[c] = pc[c]
        \/ pc[c] = "joined" /\ pc'[c] = "skipping"
    BY DEF Begins
  <1>6. Owes(c)' = Owes(c)
    BY <1>1, <1>4 DEF Owes
  <1>7. /\ pc'[c] \in Asking => pc[c] \in Asking
        /\ pc'[c] # "ackJoin" /\ pc[c] \in Running
    BY <1>4, StatesApart DEF Running
  <1>8. /\ pc[c] \in Asking => ~Acked(c) /\ ~Refused(c)
        /\ Settled(c) /\ pc[c] \in Running => LinesRead(c) = Answered(c) + Owes(c)
    BY DEF InStep, Balanced
  <1> QED  BY <1>1, <1>2, <1>3, <1>6, <1>7, <1>8 DEF Balanced

(* A line is read, and its answer owed.                                    *)
LEMMA DecodesBalanced ==
  ASSUME Counting, NEW c \in Conns, TypeOK, InStep(c),
         UNCHANGED <<wrote, sock>>, Decodes(c)
  PROVE  Balanced(c)'
  <1>1. /\ (Acked(c)' <=> Acked(c)) /\ (Refused(c)' <=> Refused(c))
        /\ Answered(c)' = Answered(c)
    BY QuietCounts DEF Decodes, Quiet
  <1>2. Settled(c) => LinesRead(c)' = LinesRead(c) + 1
    BY LineRead DEF Decodes
  <1>3. Settled(c)' <=> Settled(c)
    BY DEF Settled
  <1>4. \/ pc[c] = "unauth" /\ pc'[c] = "announceJoined"
        \/ pc[c] = "joined" /\ pc'[c] = "posting"
    BY DEF Decodes
  <1>5. ~Midline(c)'
    BY <1>4 DEF Midline
  <1>6. Owes(c)' = 1 /\ Owes(c) = 0
    BY <1>4 DEF Owes
  <1>7. /\ pc'[c] \in Asking => pc[c] \in Asking
        /\ pc'[c] # "ackJoin" /\ pc[c] \in Running
    BY <1>4, StatesApart DEF Running
  <1>8. /\ pc[c] \in Asking => ~Acked(c) /\ ~Refused(c)
        /\ Settled(c) /\ pc[c] \in Running => LinesRead(c) = Answered(c) + Owes(c)
    BY DEF InStep, Balanced
  <1>9. Settled(c) => LinesRead(c)' = Answered(c)' + Owes(c)'
    <2>1. Answered(c) \in Int
      BY CountType DEF InStep
    <2> QED  BY <1>1, <1>2, <1>6, <1>7, <1>8, <2>1, StillBalanced
  <1> QED  BY <1>1, <1>3, <1>5, <1>7, <1>8, <1>9 DEF Balanced

(* A line is read, and turned down at once.                                *)
LEMMA TurnsDownBalanced ==
  ASSUME Counting, NEW c \in Conns, TypeOK, InStep(c),
         UNCHANGED <<wrote, sock>>, TurnsDown(c)
  PROVE  Balanced(c)'
  <1>1. PICK r \in Reasons :
          /\ replies'[c] = Append(replies[c], Err(c, r))
          /\ \/ /\ pc[c] = "unauth" /\ pc'[c] = "unauth" /\ buf'[c] = NoBody
                /\ r # "roomTimeout"
             \/ pc[c] \in {"joined", "skipping"} /\ pc'[c] = "drain"
    BY DEF TurnsDown
  <1>2. Settled(c) => LinesRead(c)' = LinesRead(c) + 1
    BY LineRead DEF TurnsDown
  <1>3. Settled(c)' <=> Settled(c)
    BY DEF Settled
  <1>r. Err(c, r) # Ok(c) /\ (r # "roomTimeout" => Err(c, r) # Err(c, "roomTimeout"))
    <2>1. Err(c, r) # Ok(c) /\ Err(c, r).kind = r
      BY OkIsNoError
    <2>2. Err(c, "roomTimeout").kind = "roomTimeout"
      BY DEF Err
    <2> QED  BY <2>1, <2>2
  <1>a. Answered(c)' = Answered(c) + 1
    BY <1>1, <1>r, WrittenCounts DEF TurnsDown
  <1>b. /\ Acked(c)' <=> Acked(c)
        /\ r # "roomTimeout" => ~Refused(c)'
    BY <1>1, <1>r, AnswerAppended
  <1>5. ~Midline(c)'
    BY <1>1 DEF Midline
  <1>6. Owes(c)' = 0 /\ Owes(c) = 0
    BY <1>1 DEF Owes
  <1>7. /\ pc'[c] \in Asking => pc[c] \in Asking /\ r # "roomTimeout"
        /\ pc'[c] # "ackJoin" /\ pc[c] \in Running
    BY <1>1, StatesApart DEF Running
  <1>8. /\ pc[c] \in Asking => ~Acked(c) /\ ~Refused(c)
        /\ Settled(c) /\ pc[c] \in Running => LinesRead(c) = Answered(c) + Owes(c)
    BY DEF InStep, Balanced
  <1>9. Settled(c) => LinesRead(c)' = Answered(c)' + Owes(c)'
    <2>1. Answered(c) \in Int
      BY CountType DEF InStep
    <2> QED  BY <1>a, <1>2, <1>6, <1>7, <1>8, <2>1, StillBalanced
  <1> QED  BY <1>b, <1>3, <1>5, <1>7, <1>8, <1>9 DEF Balanced

(* A message is posted: the answer to a SEND, and nothing to a JOIN yet.   *)
LEMMA TellsBalanced ==
  ASSUME Counting, NEW c \in Conns, TypeOK, InStep(c),
         UNCHANGED <<wrote, sock>>, Tells(c)
  PROVE  Balanced(c)'
  <1>0. PICK m : Posts(c, m)
    BY DEF Tells
  <1>1. /\ (Acked(c)' <=> Acked(c)) /\ (Refused(c)' <=> Refused(c))
        /\ (Belated(c)' <=> Belated(c)) /\ replies'[c] = replies[c]
    BY QuietCounts DEF Tells
  <1>2. LinesRead(c)' = LinesRead(c)
    BY DEF Tells, FragmentsRead, LinesRead
  <1>3. Settled(c)' <=> Settled(c)
    BY DEF Settled
  <1>4. \/ /\ pc[c] = "announceJoined" /\ pc'[c] = "ackJoin"
           /\ ~LineOf(m, c)
        \/ /\ pc[c] = "posting" /\ pc'[c] = "drain"
           /\ LineOf(m, c)
        \/ pc'[c] = "gone"
    <2>1. \A n : ~LineOf(UserJoined(c, n), c)
      BY DEF LineOf, UserJoined
    <2>2. \A n, i : LineOf(Broadcast(c, n, i), c)
      BY DEF LineOf, Broadcast
    <2> QED  BY <1>0, <2>1, <2>2 DEF Posts
  <1>5. CASE pc'[c] = "gone"
    BY <1>5, EndsBalanced DEF Running, Asking, Unregistered
  <1>s. /\ Cardinality(Said(c)) \in Nat /\ Len(replies[c]) \in Nat
        /\ Cardinality(Said(c)') =
             Cardinality(Said(c)) + IF LineOf(m, c) THEN 1 ELSE 0
    BY <1>0, AnsweredType, SaidMore DEF Posts
  <1>a. Answered(c)' = Answered(c) + IF LineOf(m, c) THEN 1 ELSE 0
    <2> DEFINE k == Len(replies[c])
               n == Cardinality(Said(c))
               q == Cardinality(Said(c)')
               b == IF Belated(c) THEN 1 ELSE 0
               a == IF LineOf(m, c) THEN 1 ELSE 0
    <2>1. Answered(c) = k + n - b /\ Answered(c)' = k + q - b
      BY <1>1 DEF Answered
    <2>2. k \in Nat /\ n \in Nat /\ q = n + a
      BY <1>s
    <2>3. a \in {0, 1} /\ b \in {0, 1}
      OBVIOUS
    <2> HIDE DEF k, n, q, a, b
    <2>4. Answered(c)' = Answered(c) + a
      BY <2>1, <2>2, <2>3, SMT
    <2> QED  BY <2>4 DEF a
  <1>8. /\ pc[c] \in Asking => ~Acked(c) /\ ~Refused(c)
        /\ Settled(c) /\ pc[c] \in Running => LinesRead(c) = Answered(c) + Owes(c)
    BY DEF InStep, Balanced
  <1>n. Answered(c) \in Int
    BY CountType DEF InStep
  <1>6. CASE /\ pc[c] = "announceJoined" /\ pc'[c] = "ackJoin"
             /\ ~LineOf(m, c)
    <2>1. ~Acked(c)' /\ ~Refused(c)' /\ pc[c] \in Running /\ pc'[c] \notin Asking
      BY <1>1, <1>6, <1>8, StatesApart
    <2>2. Owes(c)' = 1 /\ Owes(c) = 1 /\ ~Midline(c)'
      BY <1>6, <2>1 DEF Owes, Midline
    <2>3. Settled(c) => LinesRead(c)' = Answered(c)' + Owes(c)'
      <3>1. Answered(c)' = Answered(c)
        <4>1. Answered(c)' = Answered(c) + 0
          BY <1>a, <1>6
        <4> QED  BY <1>n, <4>1, SMT
      <3> QED
        BY <1>n, <1>2, <1>8, <2>1, <2>2, <3>1, StillBalanced
    <2> QED  BY <1>3, <2>1, <2>2, <2>3 DEF Balanced
  <1>7. CASE /\ pc[c] = "posting" /\ pc'[c] = "drain"
             /\ LineOf(m, c)
    <2>1. pc[c] \in Running /\ pc'[c] \notin Asking /\ pc'[c] # "ackJoin"
      BY <1>7, StatesApart DEF Running
    <2>2. Owes(c)' = 0 /\ Owes(c) = 1 /\ ~Midline(c)'
      BY <1>7 DEF Owes, Midline
    <2>3. Settled(c) => LinesRead(c)' = Answered(c)' + Owes(c)'
      <3>1. Answered(c)' = Answered(c) + 1
        BY <1>a, <1>7
      <3> QED
        BY <1>n, <1>2, <1>8, <2>1, <2>2, <3>1, StillBalanced
    <2> QED  BY <1>3, <2>1, <2>2, <2>3 DEF Balanced
  <1> QED  BY <1>4, <1>5, <1>6, <1>7

(* The answer that was owed is written; after the error of a JOIN the Ok   *)
(* still follows.                                                          *)
LEMMA SettlesBalanced ==
  ASSUME Counting, NEW c \in Conns, TypeOK, InStep(c),
         UNCHANGED <<wrote, sock>>, Settles(c)
  PROVE  Balanced(c)'
  <1>2. LinesRead(c)' = LinesRead(c)
    BY DEF Settles, FragmentsRead, LinesRead
  <1>3. Settled(c)' <=> Settled(c)
    BY DEF Settled
  <1>p. posted' = posted
    BY DEF Settles
  <1>8. /\ pc[c] \in Asking \cup {"ackJoin"} => ~Acked(c)
        /\ Settled(c) /\ pc[c] \in Running => LinesRead(c) = Answered(c) + Owes(c)
    BY DEF InStep, Balanced
  <1>n. Answered(c) \in Int
    BY CountType DEF InStep
  <1>e. Err(c, "roomTimeout") # Ok(c)
    BY OkIsNoError DEF Reasons
  <1>5. CASE /\ pc[c] \in {"joinErr", "postErr"}
             /\ pc'[c] = IF pc[c] = "joinErr" THEN "ackJoin" ELSE "drain"
             /\ replies'[c] = Append(replies[c], Err(c, "roomTimeout"))
    <2>1. Answered(c)' = Answered(c) + 1
      BY <1>5, <1>e, <1>p, WrittenCounts
    <2>2. (Acked(c)' <=> Acked(c)) /\ Refused(c)'
      BY <1>5, <1>e, AnswerAppended
    <2>3. Owes(c)' = 0 /\ Owes(c) = 1 /\ ~Midline(c)'
      BY <1>5, <2>2 DEF Owes, Midline
    <2>4. /\ pc[c] \in Running /\ pc'[c] \notin Asking
          /\ pc'[c] = "ackJoin" => pc[c] \in Asking
      BY <1>5, StatesApart DEF Running
    <2>5. Settled(c) => LinesRead(c)' = Answered(c)' + Owes(c)'
      BY <1>n, <1>2, <1>8, <2>1, <2>3, <2>4, StillBalanced
    <2> QED  BY <1>3, <1>8, <2>2, <2>3, <2>4, <2>5 DEF Balanced
  <1>6. CASE /\ pc[c] = "ackJoin" /\ pc'[c] = "drain"
             /\ replies'[c] = Append(replies[c], Ok(c))
    <2>1. Answered(c)' = Answered(c) + IF Refused(c) THEN 0 ELSE 1
      BY <1>6, <1>p, <1>8, WrittenCounts
    <2>3. Owes(c)' = 0 /\ Owes(c) = (IF Refused(c) THEN 0 ELSE 1) /\ ~Midline(c)'
      BY <1>6 DEF Owes, Midline
    <2>4. pc[c] \in Running /\ pc'[c] \notin Asking /\ pc'[c] # "ackJoin"
      BY <1>6, StatesApart
    <2>5. Settled(c) => LinesRead(c)' = Answered(c)' + Owes(c)'
      <3>1. CASE Refused(c)
        <4>1. Answered(c)' = Answered(c) /\ Owes(c)' = Owes(c)
          BY <1>n, <2>1, <2>3, <3>1, SMT
        <4> QED
          BY <1>n, <1>2, <1>8, <2>4, <4>1, StillBalanced
      <3>2. CASE ~Refused(c)
        <4>1. Answered(c)' = Answered(c) + 1 /\ Owes(c) = 1
          BY <2>1, <2>3, <3>2
        <4> QED
          BY <1>n, <1>2, <1>8, <2>3, <2>4, <4>1, StillBalanced
      <3> QED  BY <3>1, <3>2
    <2> QED  BY <1>3, <2>3, <2>4, <2>5 DEF Balanced
  <1> QED  BY <1>5, <1>6 DEF Settles
-----------------------------------------------------------------------------
(* A connection task keeps its own count ...                               *)
LEMMA TickInStep ==
  ASSUME Counting, NEW c \in Conns, TypeOK, InStep(c), Tick(c), UNCHANGED sock
  PROVE  InStep(c)'
  <1>1. Framed(inbox'[c], wrote'[c])
    BY TickFramed DEF InStep
  <1>2. wrote' = wrote
    BY TickAlone DEF Alone
  <1>3. Turn(c)
    BY TickTurn
  <1>4. Balanced(c)'
    BY <1>2, <1>3, EndsBalanced, RestsBalanced, BeginsBalanced,
       DecodesBalanced, TurnsDownBalanced, TellsBalanced, SettlesBalanced
    DEF Turn
  <1> QED  BY <1>1, <1>4 DEF InStep

(* What the count of a connection depends on.                              *)
LEMMA SameInStep ==
  ASSUME NEW d \in Conns, TypeOK, InStep(d),
         pc'[d] = pc[d], buf'[d] = buf[d], replies'[d] = replies[d],
         FragmentsRead(d)' = FragmentsRead(d), Settled(d)' => Settled(d),
         Cardinality(Said(d)') = Cardinality(Said(d)),
         Framed(inbox'[d], wrote'[d])
  PROVE  InStep(d)'
  <1>1. /\ (Acked(d)' <=> Acked(d)) /\ (Refused(d)' <=> Refused(d))
        /\ (Belated(d)' <=> Belated(d))
    BY QuietCounts
  <1>2. Answered(d)' = Answered(d)
    BY <1>1 DEF Answered
  <1>3. LinesRead(d)' = LinesRead(d)
    BY DEF LinesRead
  <1>4. Owes(d)' = Owes(d) /\ (Midline(d)' <=> Midline(d))
    BY <1>1 DEF Owes, Midline
  <1>5. Balanced(d)
    BY DEF InStep
  <1>6. Balanced(d)'
    BY <1>1, <1>2, <1>3, <1>4, <1>5 DEF Balanced
  <1> QED  BY <1>6 DEF InStep

(* ... and nobody else's.                                                  *)
LEMMA TickOthers ==
  ASSUME Counting, NEW c \in Conns, TypeOK, Tick(c), UNCHANGED sock,
         NEW d \in Conns, d # c, InStep(d)
  PROVE  InStep(d)'
  <1>1. /\ pc'[d] = pc[d] /\ wrote' = wrote
    BY TickAlone DEF Alone
  <1>2. inbox'[d] = inbox[d] /\ buf'[d] = buf[d]
    BY TickReads DEF Reads
  <1>3. replies'[d] = replies[d]
    <2>1. replies \in [Conns -> Seq(Reply)]
      BY DEF TypeOK, ConnectionTypeOK
    <2>2. \/ replies' = replies
          \/ \E line : replies' = [replies EXCEPT ![c] = Append(@, line)]
      BY TickAnswers DEF Answers
    <2> QED  BY <2>1, <2>2
  <1>4. Cardinality(Said(d)') = Cardinality(Said(d))
    <2>1. CASE posted' = posted
      BY <2>1 DEF Said
    <2>2. ASSUME NEW m, Posts(c, m) PROVE Cardinality(Said(d)') = Cardinality(Said(d))
      <3>1. ~LineOf(m, d)
        BY <2>2, PostsOwn
      <3>2. /\ Cardinality(Said(d)') =
                 Cardinality(Said(d)) + IF LineOf(m, d) THEN 1 ELSE 0
            /\ Cardinality(Said(d)) \in Nat
        BY <2>2, SaidMore, AnsweredType DEF Posts
      <3> QED  BY <3>1, <3>2, SMT
    <2> QED  BY <2>1, <2>2, TickPosts
  <1>5. /\ FragmentsRead(d)' = FragmentsRead(d)
        /\ Settled(d)' <=> Settled(d)
        /\ Framed(inbox'[d], wrote'[d])
    BY <1>1, <1>2 DEF FragmentsRead, Settled, InStep
  <1> QED  BY <1>1, <1>2, <1>3, <1>4, <1>5, SameInStep

(* A fragment more, a body after a newline or a newline after a body.      *)
LEMMA AppendFramed ==
  ASSUME NEW S, NEW s \in Seq(S), NEW w \in Nat, Framed(s, w), NEW e,
         e = Newline <=> w % 2 = 1,
         NEW t, t = Append(s, e), NEW x, x = w + 1
  PROVE  Framed(t, x) /\ x - Len(t) = w - Len(s)
  <1> DEFINE k == Len(s)
  <1>1. /\ k \in Nat /\ Len(t) = k + 1 /\ t[k + 1] = e
        /\ \A i \in 1..k : t[i] = s[i]
    BY AppendKeeps, SMT
  <1>2. k <= w /\ \A i \in 1..k : s[i] = Newline <=> (w - k + i) % 2 = 0
    BY DEF Framed
  <1> HIDE DEF k
  <1>3. w + 1 - (k + 1) = w - k /\ k + 1 <= w + 1
    BY <1>1, <1>2, SMT
  <1>4. ASSUME NEW i \in 1..(k + 1)
        PROVE  t[i] = Newline <=> (w - k + i) % 2 = 0
    <2>1. CASE i \in 1..k
      BY <1>1, <1>2, <2>1
    <2>2. CASE i = k + 1
      <3>1. w - k + i = w + 1
        BY <1>1, <1>2, <2>2, SMT
      <3>2. (w + 1) % 2 = 0 <=> w % 2 = 1
        BY Parity
      <3> QED  BY <1>1, <2>2, <3>1, <3>2
    <2>3. i \in 1..k \/ i = k + 1
      BY <1>1, SMT
    <2> QED  BY <2>1, <2>2, <2>3
  <1>5. Framed(t, x)
    <2>1. ASSUME NEW z, Len(z) = k + 1,
                 \A i \in 1..(k + 1) : z[i] = Newline <=> (w - k + i) % 2 = 0
          PROVE  Framed(z, w + 1)
      BY <1>3, <2>1, SMT DEF Framed
    <2> QED  BY <1>1, <1>4, <2>1
  <1> QED  BY <1>1, <1>3, <1>5, SMT DEF k

(* Two more is one more, twice.                                            *)
LEMMA OneAndOne ==
  ASSUME NEW w \in Nat
  PROVE  w + 1 \in Nat /\ w + 2 = (w + 1) + 1
  BY SMT

(* A sequence over a set is one over a larger set.                         *)
LEMMA SeqOfMore ==
  ASSUME NEW S, NEW s \in Seq(S), NEW b
  PROVE  s \in Seq(S \cup {b})
  BY SMT

(* Two fragments that arrive together arrive one after the other.          *)
LEMMA TwoMore ==
  ASSUME NEW S, NEW s \in Seq(S), NEW a \in S, NEW b \in S
  PROVE  s \o <<a, b>> = Append(Append(s, a), b) /\ Append(s, a) \in Seq(S)
  <1> DEFINE t == s \o <<a, b>>
             u == Append(s, a)
             v == Append(u, b)
             k == Len(s)
  <1>1. /\ t \in Seq(S) /\ k \in Nat /\ Len(t) = k + 2
        /\ t[k + 1] = a /\ t[k + 2] = b /\ \A i \in 1..k : t[i] = s[i]
    BY SMT
  <1>2. u \in Seq(S) /\ Len(u) = k + 1 /\ u[k + 1] = a /\ \A i \in 1..k : u[i] = s[i]
    BY SMT
  <1> HIDE DEF u
  <1>3. /\ v \in Seq(S) /\ Len(v) = Len(u) + 1 /\ v[Len(u) + 1] = b
        /\ \A i \in 1..Len(u) : v[i] = u[i]
    BY <1>2, SMT
  <1> HIDE DEF t, v, k
  <1>4. Len(v) = k + 2 /\ v[k + 2] = b /\ \A i \in 1..(k + 1) : v[i] = u[i]
    BY <1>1, <1>2, <1>3, SMT
  <1>5. ASSUME NEW i \in 1..(k + 2) PROVE t[i] = v[i]
    <2>1. i \in 1..k \/ i = k + 1 \/ i = k + 2
      BY <1>1, SMT
    <2>2. CASE i \in 1..k
      <3>1. i \in 1..(k + 1)
        BY <1>1, <2>2, SMT
      <3> QED  BY <1>1, <1>2, <1>4, <2>2, <3>1
    <2>3. CASE i = k + 1
      <3>1. i \in 1..(k + 1)
        BY <1>1, <2>3, SMT
      <3> QED  BY <1>1, <1>2, <1>4, <2>3, <3>1
    <2>4. CASE i = k + 2
      BY <1>1, <1>4, <2>4
    <2> QED  BY <2>1, <2>2, <2>3, <2>4
  <1>6. t = v
    BY <1>1, <1>3, <1>4, <1>5, SeqEqual
  <1> QED  BY <1>2, <1>6 DEF t, u, v

(* A client that writes reads nothing away: the fragments it adds go on    *)
(* where the last one stopped.                                             *)
LEMMA WriteFramed ==
  ASSUME NEW c \in Conns, TypeOK, TypeOK', Framed(inbox[c], wrote[c]),
         Write(c) \/ WriteNewline(c)
  PROVE  /\ Framed(inbox'[c], wrote'[c])
         /\ wrote'[c] - Len(inbox'[c]) = wrote[c] - Len(inbox[c])
  <1> DEFINE s == inbox[c]
             t == inbox'[c]
             w == wrote[c]
             x == wrote'[c]
             S == Body \cup {Newline}
  <1>t. /\ s \in Seq(S) /\ w \in Nat /\ Framed(s, w) /\ Newline \in S
        /\ inbox \in [Conns -> Seq(S)] /\ wrote \in [Conns -> Nat]
    BY DEF TypeOK, ConnectionTypeOK
  <1>1. CASE WriteNewline(c)
    <2>1. w % 2 = 1 /\ t = Append(s, Newline) /\ x = w + 1
      BY <1>t, <1>1 DEF WriteNewline
    <2> HIDE DEF s, t, w, x, S
    <2>2. Framed(t, x) /\ x - Len(t) = w - Len(s)
      BY <1>t, <2>1, AppendFramed
    <2> QED  BY <2>2 DEF s, t, w, x
  <1>2. CASE Write(c)
    <2> DEFINE body(l) == [cmd |-> l[1], name |-> l[2], id |-> wrote[c] + 1]
    <2>1. PICK l \in Lines[c] :
            \/ /\ inbox' = [inbox EXCEPT ![c] = inbox[c] \o <<body(l), Newline>>]
               /\ wrote' = [wrote EXCEPT ![c] = wrote[c] + 2]
            \/ /\ inbox' = [inbox EXCEPT ![c] = Append(inbox[c], body(l))]
               /\ wrote' = [wrote EXCEPT ![c] = wrote[c] + 1]
      BY <1>2 DEF Write
    <2> DEFINE b == body(l)
               B == S \cup {b}
    <2>2. w % 2 = 0
      BY <1>2 DEF Write
    <2>3. b # Newline
      <3>1. l[1] \in Commands
        <4>1. Lines[c] \subseteq Commands \X (Names \cup {NoName})
          BY LinesAssumption
        <4>2. \A p \in Commands \X (Names \cup {NoName}) : p[1] \in Commands
          OBVIOUS
        <4> QED  BY <4>1, <4>2
      <3>2. b.cmd = l[1] /\ l[1] # "newline"
        BY <3>1 DEF Commands
      <3> QED  BY <3>2, NewlineKind
    <2>4. \/ t = s \o <<b, Newline>> /\ x = w + 2
          \/ t = Append(s, b) /\ x = w + 1
      BY <1>t, <2>1
    <2>n. Newline \in S
      OBVIOUS
    <2> HIDE DEF s, t, w, x, S, b
    <2>5. s \in Seq(B) /\ b \in B /\ Newline \in B
      BY <1>t, <2>n, SeqOfMore
    <2> HIDE DEF B
    <2>6. b = Newline <=> w % 2 = 1
      BY <2>2, <2>3, SMT
    <2>7. CASE t = Append(s, b) /\ x = w + 1
      <3>1. Framed(t, x) /\ x - Len(t) = w - Len(s)
        BY <1>t, <2>5, <2>6, <2>7, AppendFramed
      <3> QED  BY <3>1 DEF s, t, w, x
    <2>8. CASE t = s \o <<b, Newline>> /\ x = w + 2
      <3> DEFINE u == Append(s, b)
                 y == w + 1
      <3>1. t = Append(u, Newline) /\ u \in Seq(B)
        BY <2>5, <2>8, TwoMore, SMT
      <3>2. Framed(u, y) /\ y - Len(u) = w - Len(s)
        <4>1. u = Append(s, b) /\ y = w + 1
          OBVIOUS
        <4> HIDE DEF u, y
        <4> QED  BY <1>t, <2>5, <2>6, <4>1, AppendFramed
      <3>3. y \in Nat /\ y % 2 = 1 /\ x = y + 1
        <4>1. y \in Nat /\ x = y + 1
          BY <1>t, <2>8, OneAndOne
        <4>2. y % 2 = 0 <=> w % 2 = 1
          BY <1>t, Parity
        <4> HIDE DEF y
        <4>3. y % 2 = 0 \/ y % 2 = 1
          BY <4>1, Parity
        <4> QED  BY <2>2, <4>1, <4>2, <4>3
      <3> HIDE DEF u, y
      <3>4. Framed(t, x) /\ x - Len(t) = y - Len(u)
        BY <3>1, <3>2, <3>3, AppendFramed
      <3> QED  BY <3>2, <3>4 DEF s, t, w, x
    <2> QED  BY <2>4, <2>7, <2>8
  <1> QED  BY <1>1, <1>2

(* Clients' steps leave every count alone.                                 *)
LEMMA PeerInStep ==
  ASSUME NEW c \in Conns, TypeOK, TypeOK', Peer(c), NEW d \in Conns, InStep(d)
  PROVE  InStep(d)'
  <1>t. /\ sock \in [Conns -> {"open", "stalled", "eof", "deaf", "reset"}]
        /\ inbox \in [Conns -> Seq(Body \cup {Newline})]
        /\ wrote \in [Conns -> Nat]
    BY DEF TypeOK, ConnectionTypeOK
  <1>0. posted' = posted /\ pc' = pc /\ buf' = buf /\ replies' = replies
    BY DEF Peer, Write, WriteNewline, Close, Reset, Stall, Resume, peerFrame,
           brokerVars, roomVars, outVars
  <1>1. Cardinality(Said(d)') = Cardinality(Said(d))
    BY <1>0 DEF Said
  <1>f. Framed(inbox[d], wrote[d])
    BY DEF InStep
  <1>2. CASE Write(d) \/ WriteNewline(d)
    <2>1. /\ Framed(inbox'[d], wrote'[d])
          /\ FragmentsRead(d)' = FragmentsRead(d)
      BY <1>f, <1>2, WriteFramed DEF FragmentsRead
    <2>2. Settled(d)
      BY <1>2 DEF Settled, Write, WriteNewline
    <2> QED  BY <1>0, <1>1, <2>1, <2>2, SameInStep
  <1>3. CASE inbox'[d] = inbox[d] /\ wrote'[d] = wrote[d]
    <2>1. sock'[d] \in {"open", "stalled"} => sock[d] \in {"open", "stalled"}
      <3>1. CASE Write(c) \/ WriteNewline(c)
        BY <3>1 DEF Write, WriteNewline
      <3>2. CASE Close(c) \/ Reset(c)
        BY <1>t, <3>2 DEF Close, Reset
      <3>3. CASE Stall(c) \/ Resume(c)
        BY <1>t, <3>3 DEF Stall, Resume
      <3> QED  BY <3>1, <3>2, <3>3 DEF Peer
    <2>2. Settled(d)' => Settled(d)
      BY <1>3, <2>1 DEF Settled
    <2>3. Framed(inbox'[d], wrote'[d]) /\ FragmentsRead(d)' = FragmentsRead(d)
      BY <1>f, <1>3 DEF FragmentsRead
    <2> QED  BY <1>0, <1>1, <2>2, <2>3, SameInStep
  <1>4. \/ inbox'[d] = inbox[d] /\ wrote'[d] = wrote[d]
        \/ Write(d) \/ WriteNewline(d)
    BY PeerWrites
  <1> QED  BY <1>2, <1>3, <1>4

(* Every step of the server or its clients preserves the count.            *)
LEMMA AnswerStep ==
  ASSUME Counting
  PROVE  TypeOK /\ TypeOK' /\ AnswerInv /\ [Next \/ Done]_vars => AnswerInv'
  <1> SUFFICES ASSUME TypeOK, TypeOK', AnswerInv, [Next \/ Done]_vars,
                      NEW d \in Conns
               PROVE  InStep(d)'
    BY DEF AnswerInv
  <1>0. InStep(d)
    BY DEF AnswerInv
  <1>1. CASE /\ UNCHANGED <<buf, replies, inbox, wrote, sock, posted>>
             /\ pc'[d] = pc[d]
    <2>1. Cardinality(Said(d)') = Cardinality(Said(d))
      BY <1>1 DEF Said
    <2>2. /\ FragmentsRead(d)' = FragmentsRead(d)
          /\ Settled(d)' <=> Settled(d)
          /\ Framed(inbox'[d], wrote'[d])
      BY <1>0, <1>1 DEF FragmentsRead, Settled, InStep
    <2> QED  BY <1>0, <1>1, <2>1, <2>2, SameInStep
  <1>2. ASSUME NEW c \in Conns, Tick(c) PROVE InStep(d)'
    <2>1. UNCHANGED sock
      BY <1>2, TickKeepsOthers DEF others, peerVars
    <2>2. CASE d = c
      BY <1>0, <1>2, <2>1, <2>2, TickInStep
    <2>3. CASE d # c
      BY <1>0, <1>2, <2>1, <2>3, TickOthers
    <2> QED  BY <2>2, <2>3
  <1>3. CASE Dispatcher /\ UNCHANGED <<connVars, mainVars>>
    <2>1. posted' = posted
      BY <1>3
      DEF Dispatcher, CheckFlag, Receive, ReceiveTimeout, Collect,
          CollectTimeout, Dispatched, Deliver, DeliverClosed, DeliverTimeout,
          Recv, roomVars
    <2> QED  BY <1>1, <1>3, <2>1 DEF connVars, outVars, peerVars
  <1>4. ASSUME NEW c \in Conns, Accept(c) PROVE InStep(d)'
    <2>t. pc \in [Conns -> Unregistered \cup Registered \cup Ended]
      BY DEF TypeOK, ConnectionTypeOK
    <2>u. UNCHANGED <<buf, replies, inbox, wrote, sock, posted>>
      BY <1>4 DEF Accept, brokerVars, roomVars, outVars, peerVars
    <2>1. CASE d # c
      BY <1>1, <1>4, <2>t, <2>u, <2>1 DEF Accept
    <2>2. CASE d = c
      <3>1. pc[d] = "idle" /\ pc'[d] = "unauth"
        BY <1>4, <2>t, <2>2 DEF Accept
      <3>2. /\ (Acked(d)' <=> Acked(d)) /\ (Refused(d)' <=> Refused(d))
            /\ Answered(d)' = Answered(d)
        BY <2>u, QuietCounts
      <3>3. /\ FragmentsRead(d)' = FragmentsRead(d)
            /\ LinesRead(d)' = LinesRead(d)
            /\ Settled(d)' <=> Settled(d)
            /\ Framed(inbox'[d], wrote'[d])
        BY <1>0, <2>u DEF FragmentsRead, LinesRead, Settled, InStep
      <3>4. Owes(d)' = Owes(d) /\ (Midline(d)' <=> Midline(d))
        BY <2>u, <3>1 DEF Owes, Midline
      <3>5. pc[d] \in Asking /\ pc[d] \in Running
        BY <3>1, StatesApart
      <3>6. Balanced(d)
        BY <1>0 DEF InStep
      <3>7. Balanced(d)'
        BY <3>2, <3>3, <3>4, <3>5, <3>6 DEF Balanced
      <3> QED  BY <3>3, <3>7 DEF InStep
    <2> QED  BY <2>1, <2>2
  <1>5. CASE AcquirePermit \/ AcceptError \/ CtrlC \/ Main
    BY <1>1, <1>5
    DEF AcquirePermit, AcceptError, CtrlC, Main, StopBroker, Exit, connVars,
        outVars, peerVars, brokerVars, roomVars
  <1>6. ASSUME NEW c \in Conns, Peer(c) PROVE InStep(d)'
    BY <1>0, <1>6, PeerInStep
  <1>7. CASE UNCHANGED vars
    BY <1>1, <1>7 DEF vars, connVars, outVars, peerVars, brokerVars, roomVars
  <1> QED
    BY <1>2, <1>3, <1>4, <1>5, <1>6, <1>7 DEF Next, Done

(* At the start nothing has been written, read or answered.                *)
LEMMA AnswerInit ==
  ASSUME Counting
  PROVE  Init => AnswerInv
  <1> SUFFICES ASSUME Init, NEW c \in Conns PROVE InStep(c)
    BY DEF AnswerInv
  <1>1. /\ pc[c] = "idle" /\ inbox[c] = <<>> /\ wrote[c] = 0
        /\ replies[c] = <<>> /\ posted = <<>> /\ buf[c] = NoBody
    BY DEF Init, ConnectionInit, BrokerInit, RoomInit
  <1>2. Len(inbox[c]) = 0 /\ Len(replies[c]) = 0 /\ Len(posted) = 0
    BY <1>1
  <1>3. Framed(inbox[c], wrote[c]) /\ FragmentsRead(c) = 0
    <2>1. Len(inbox[c]) = 0 /\ wrote[c] = 0
      BY <1>1, <1>2
    <2>2. 0 <= 0 /\ 1..0 = {} /\ 0 - 0 = 0
      BY SMT
    <2> QED  BY <2>1, <2>2 DEF Framed, FragmentsRead
  <1>4. ~Acked(c) /\ ~Refused(c) /\ ~Belated(c)
    BY <1>1, <1>2, SMT DEF Acked, Refused, Belated
  <1>5. Said(c) = {} /\ Cardinality({}) = 0
    <2>1. 1..Len(posted) = {}
      BY <1>2, SMT
    <2>2. Cardinality({}) = 0
      BY DEF Counting
    <2> QED  BY <2>1, <2>2 DEF Said
  <1>6. Answered(c) = 0 /\ LinesRead(c) = 0
    <2>1. Cardinality(Said(c)) = 0
      BY <1>5
    <2>2. Answered(c) = 0 + 0 - 0
      BY <1>2, <1>4, <2>1 DEF Answered
    <2>3. 0 \div 2 = 0 /\ 0 + 0 - 0 = 0
      BY SMT
    <2> QED  BY <1>3, <2>2, <2>3 DEF LinesRead
  <1>7. ~Midline(c) /\ Owes(c) = 0
    BY <1>1 DEF Midline, Owes
  <1>8. LinesRead(c) = Answered(c) + Owes(c)
    BY <1>6, <1>7, SMT
  <1> QED  BY <1>3, <1>4, <1>7, <1>8 DEF InStep, Balanced

(* A connection that waits for input owes nothing.                         *)
LEMMA AnswerSafe ==
  ASSUME Counting, AnswerInv, TypeOK
  PROVE  AnsweredOnce
  <1> SUFFICES ASSUME NEW c \in Conns, Settled(c),
                      pc[c] \in {"unauth", "drain", "joined"}
               PROVE  LinesRead(c) = Answered(c)
    BY DEF AnsweredOnce, Settled
  <1>1. pc[c] \in Running /\ Owes(c) = 0
    BY DEF Owes, Running, Asking, Unregistered
  <1>2. LinesRead(c) = Answered(c) + Owes(c)
    BY <1>1 DEF AnswerInv, InStep, Balanced
  <1>3. Answered(c) \in Int
    BY CountType DEF AnswerInv, InStep
  <1> QED  BY <1>1, <1>2, <1>3, SMT
=============================================================================
