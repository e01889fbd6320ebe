-------------------------- MODULE RefinementProofs --------------------------
(***************************************************************************)
(* ChatServer implements ChatRoom: every step of the server is a step of   *)
(* the room its users see, or none.  A connection task that registers      *)
(* enters, one that ends leaves, one that posts says something; the        *)
(* dispatcher's offers are heard or pass.                                  *)
(***************************************************************************)
EXTENDS ChatServerProofs

(* A leaf that names no prover is left to Zenon; those that need numbers,  *)
(* sequences or large functions cite SMT.                                  *)
USE Zenon

-----------------------------------------------------------------------------
(* What the history of the room has to do with the state of the server.    *)
(* The refinement of ChatRoom needs to know where the message being        *)
(* dispatched sits in the history (Queue), that a dropped receiver is that *)
(* of an ended task (Dropped), that a user speaks after joining and not    *)
(* after leaving (Story), and that what a client has written but the room  *)
(* does not have yet carries larger numbers than what it has (Pending,     *)
(* Held).                                                                  *)

(* The room holds the end of the history, before it the message being      *)
(* dispatched.                                                             *)
Queue ==
  /\ Len(room) <= Len(posted)
  /\ \A k \in 1..Len(room) : room[k] = posted[Len(posted) - Len(room) + k]
  /\ dpc \in {"collect", "send"} =>
       /\ Len(room) < Len(posted)
       /\ dmsg = <<posted[Len(posted) - Len(room)]>>
  /\ dpc # "send" => targets = {}

Dropped ==
  \A c \in Conns : /\ c \in closed <=> pc[c] \in Ended
                   /\ pc[c] \in Ended => rx[c] = <<>>

(* The lines of c in h are numbered below n.                               *)
Below(h, c, n) == \A j \in 1..Len(h) : LineOf(h[j], c) => h[j].id < n

Story(c) ==
  \A j \in 1..Len(posted) : Of(posted[j], c) =>
    /\ pc[c] \notin Unregistered \cup {"announceJoined"}
    /\ posted[j].kind = "left" => pc[c] = "gone"

Pending(c) ==
  /\ Below(posted, c, wrote[c] + 1)
  /\ \A i \in 1..Len(inbox[c]) : inbox[c][i] # Newline =>
       /\ Below(posted, c, inbox[c][i].id)
       /\ inbox[c][i].id <= wrote[c]
       /\ \A k \in 1..Len(inbox[c]) :
            k > i /\ inbox[c][k] # Newline => inbox[c][i].id < inbox[c][k].id

Held(c) ==
  /\ pc[c] = "posting" => buf[c] # NoBody
  /\ pc[c] \in {"joined", "posting"} /\ buf[c] # NoBody =>
       /\ Below(posted, c, buf[c].id)
       /\ buf[c].id <= wrote[c]
       /\ \A i \in 1..Len(inbox[c]) :
            inbox[c][i] # Newline => buf[c].id < inbox[c][i].id

HistInv ==
  /\ Queue
  /\ Dropped
  /\ \A c \in Conns : Story(c) /\ Pending(c) /\ Held(c)
-----------------------------------------------------------------------------
(* What a step of a connection task does to its channel and to what has    *)
(* been written to the client: nothing, a message is moved from one to the *)
(* other, or the receiver is dropped.                                      *)
Keeps(c) ==
  /\ UNCHANGED <<heard, rx, closed>>
  /\ pc[c] \in Ended <=> pc'[c] \in Ended

Hands(c) ==
  /\ rx[c] # <<>> /\ closed' = closed
  /\ heard' = [heard EXCEPT ![c] = Append(@, Head(rx[c]))]
  /\ rx' = [rx EXCEPT ![c] = Tail(@)]
  /\ pc[c] \in Ended <=> pc'[c] \in Ended

Drops(c) == CloseRx(c) /\ heard' = heard /\ pc'[c] \in Ended

(* A write.                                                                *)
LEMMA WriteHands ==
  ASSUME NEW c \in Conns, TypeOK, NEW next, next \notin Ended,
         pc[c] \notin Ended,
         (\E line : WriteReply(c, line, next)) \/ WriteQueued(c, next)
  PROVE  Keeps(c) \/ Hands(c) \/ Drops(c)
  <1>1. CASE WriteFails(c)
    BY <1>1
    DEF WriteFails, End, Drops, outVars, TypeOK, ConnectionTypeOK, Ended
  <1>2. CASE Put(c, next) /\ UNCHANGED <<heard, rx, closed>>
    BY <1>2 DEF Put, Keeps, TypeOK, ConnectionTypeOK
  <1>3. CASE WriteQueued(c, next) /\ ~WriteFails(c)
    BY <1>3 DEF WriteQueued, Put, Hands, TypeOK, ConnectionTypeOK
  <1> QED  BY <1>1, <1>2, <1>3 DEF WriteReply, chanVars

(* A step of a connection task leaves its channel alone, moves its first   *)
(* message to the client, or drops the channel as the task ends.           *)
LEMMA TickHands ==
  ASSUME NEW c \in Conns, TypeOK, Tick(c)
  PROVE  Keeps(c) \/ Hands(c) \/ Drops(c)
  <1> USE DEF chanVars, outVars
  <1>1. CASE Flush(c)
    BY <1>1
    DEF Flush, End, Keeps, Drops, TypeOK, ConnectionTypeOK, Ended
  <1>2. CASE UnauthDisconnect(c) \/ JoinedReadError(c)
    BY <1>2 DEF UnauthDisconnect, JoinedReadError, End, Drops, TypeOK,
                ConnectionTypeOK, Ended
  <1>3. CASE \/ ReadPart(c) \/ JoinAccepted(c) \/ AnnounceJoined(c)
             \/ DrainDone(c) \/ JoinedTimeout(c) \/ JoinedTooLong(c)
             \/ JoinedSend(c) \/ Post(c) \/ JoinedLeave(c) \/ JoinedEof(c)
             \/ JoinedShutdown(c) \/ AnnounceLeft(c) \/ LeftError(c)
    BY <1>3
    DEF ReadPart, JoinAccepted, AnnounceJoined, DrainDone, JoinedTimeout,
        JoinedTooLong, JoinedSend, Post, JoinedLeave, JoinedEof, Closing,
        JoinedShutdown, AnnounceLeft, LeftError, Keeps, TypeOK,
        ConnectionTypeOK, Ended
  <1>4. CASE UnauthReject(c)
    <2>1. \E line : WriteReply(c, line, "unauth")
      BY <1>4 DEF UnauthReject
    <2> QED  BY <1>4, <2>1, WriteHands DEF UnauthReject, Ended
  <1>5. CASE AckJoin(c)
    <2>1. PICK next : next \notin Ended /\ \E line : WriteReply(c, line, next)
      BY <1>5 DEF AckJoin, Ended
    <2> QED  BY <1>5, <2>1, WriteHands DEF AckJoin, Ended
  <1>6. CASE DrainOne(c) \/ JoinedBroadcast(c) \/ SkipLine(c)
             \/ JoinedReject(c) \/ PostError(c)
    <2>1. (\E line : WriteReply(c, line, "drain")) \/ WriteQueued(c, "drain")
      BY <1>6 DEF DrainOne, JoinedBroadcast, SkipLine, JoinedReject, PostError
    <2>2. pc[c] \notin Ended /\ "drain" \notin Ended
      BY <1>6
      DEF DrainOne, JoinedBroadcast, SkipLine, JoinedReject, PostError, Ended
    <2> QED  BY <2>1, <2>2, WriteHands
  <1>7. CASE LastDrain(c)
    <2>1. CASE WriteQueued(c, "closing")
      BY <1>7, <2>1, WriteHands DEF LastDrain, Ended
    <2>2. CASE ~WriteQueued(c, "closing")
      BY <1>7, <2>2 DEF LastDrain, Keeps, TypeOK, ConnectionTypeOK, Ended
    <2> QED  BY <2>1, <2>2
  <1>8. CASE Leave(c)
    BY <1>8 DEF Leave, Drops, TypeOK, ConnectionTypeOK, Ended
  <1> QED  BY <1>1, <1>2, <1>3, <1>4, <1>5, <1>6, <1>7, <1>8 DEF Tick

-----------------------------------------------------------------------------
(* Of numbers, what the following argues with.                             *)
LEMMA Numbers ==
  /\ \A a, b, k \in Nat : a < b + 1 /\ b < k => a < k + 1
  /\ \A a, b, k \in Nat : a <= b /\ b < k => a <= k
  /\ \A a, b, k \in Nat : a > b => a + k > b + k
  BY SMT

(* The room's content stays the tail of its history when a connection      *)
(* posts.                                                                  *)
LEMMA QueueTick ==
  ASSUME NEW c \in Conns, TypeOK, TypeOK', Queue, Tick(c)
  PROVE  Queue'
  <1>1. UNCHANGED <<dpc, dmsg, targets>>
    BY TickAlone DEF Alone
  <1>2. CASE UNCHANGED <<room, posted>>
    BY <1>1, <1>2 DEF Queue
  <1>3. ASSUME NEW m, Posts(c, m) PROVE Queue'
    <2>1. /\ Len(posted) \in Nat /\ Len(room) \in Nat
          /\ Len(posted') = Len(posted) + 1 /\ Len(room') = Len(room) + 1
          /\ \A j \in 1..Len(posted) : posted'[j] = posted[j]
          /\ \A j \in 1..Len(room) : room'[j] = room[j]
          /\ posted'[Len(posted) + 1] = m /\ room'[Len(room) + 1] = m
      BY <1>3, SendAppends DEF Posts
    <2> DEFINE p == Len(posted) - Len(room)
    <2>p. /\ Len(posted') - Len(room') = p /\ p \in Nat
          /\ \A k \in 1..Len(room) : room[k] = posted[p + k] /\ p + k \in 1..Len(posted)
          /\ p + (Len(room) + 1) = Len(posted) + 1
      BY <2>1, SMT DEF Queue
    <2>2. ASSUME NEW k \in 1..Len(room') PROVE room'[k] = posted'[p + k]
      <3>1. CASE k = Len(room) + 1
        BY <2>1, <2>p, <3>1
      <3>2. CASE k \in 1..Len(room)
        BY <2>1, <2>p, <3>2
      <3>3. k \in 1..Len(room) \/ k = Len(room) + 1
        BY <2>1, SMT
      <3> QED  BY <3>1, <3>2, <3>3
    <2>3. ASSUME dpc \in {"collect", "send"} PROVE dmsg = <<posted'[p]>> /\ p > 0
      <3>1. dmsg = <<posted[p]>> /\ p \in 1..Len(posted)
        BY <2>1, <2>3, SMT DEF Queue
      <3> QED  BY <2>1, <3>1, SMT
    <2> HIDE DEF p
    <2>4. dpc \in {"collect", "send"} => Len(room') < Len(posted')
      BY <2>1, <2>3, <2>p, SMT
    <2>5. Len(room') <= Len(posted')
      BY <2>1, <2>p, SMT
    <2>6. \A k \in 1..Len(room') : room'[k] = posted'[Len(posted') - Len(room') + k]
      BY <2>2, <2>p
    <2>7. dpc \in {"collect", "send"} =>
            dmsg = <<posted'[Len(posted') - Len(room')]>>
      BY <2>3, <2>p
    <2> QED  BY <1>1, <2>4, <2>5, <2>6, <2>7 DEF Queue
  <1> QED  BY <1>2, <1>3, TickPosts

(* A channel that was dropped stays empty.                                 *)
LEMMA DroppedTick ==
  ASSUME NEW c \in Conns, TypeOK, Dropped, Tick(c)
  PROVE  Dropped'
  <1>1. Alone(c)
    BY TickAlone
  <1>2. CASE Keeps(c)
    BY <1>1, <1>2 DEF Alone, Keeps, Dropped
  <1>3. CASE Hands(c)
    BY <1>1, <1>3 DEF Alone, Hands, Dropped, TypeOK, BrokerTypeOK
  <1>4. CASE Drops(c)
    BY <1>1, <1>4 DEF Alone, Drops, CloseRx, Dropped, TypeOK, BrokerTypeOK
  <1> QED  BY <1>2, <1>3, <1>4, TickHands

(* A task does not go back to where it has not been heard of, and an ended *)
(* one does nothing.                                                       *)
Unheard == Unregistered \cup {"announceJoined"}

(* A connection never returns to a state in which the room has not heard   *)
(* of it, and never comes back from its end.                               *)
LEMMA TickOnward ==
  ASSUME NEW c \in Conns, TypeOK, Tick(c)
  PROVE  /\ pc'[c] \in Unheard => pc[c] \in Unheard
         /\ pc[c] = "gone" => pc'[c] = "gone"
  <1>t. pc \in [Conns -> Unregistered \cup Registered \cup Ended]
    BY DEF TypeOK, ConnectionTypeOK
  <1>1. CASE Flush(c)
    BY <1>1, <1>t DEF Flush, End, Unheard, Unregistered
  <1>2. CASE ReadPart(c) \/ UnauthDisconnect(c) \/ JoinAccepted(c)
    BY <1>2, <1>t DEF ReadPart, UnauthDisconnect, JoinAccepted, Unheard,
                      Unregistered
  <1>3. CASE UnauthReject(c)
    BY <1>3 DEF UnauthReject, Unheard, Unregistered
  <1>4. CASE \/ AnnounceJoined(c) \/ DrainDone(c) \/ JoinedTimeout(c)
             \/ JoinedReadError(c) \/ JoinedTooLong(c) \/ JoinedSend(c)
             \/ Post(c) \/ JoinedLeave(c) \/ JoinedEof(c) \/ JoinedShutdown(c)
             \/ Leave(c) \/ AnnounceLeft(c) \/ LeftError(c)
    BY <1>4, <1>t
    DEF AnnounceJoined, DrainDone, JoinedTimeout, JoinedReadError,
        JoinedTooLong, JoinedSend, Post, JoinedLeave, JoinedEof,
        JoinedShutdown, Closing, End, Leave, AnnounceLeft, LeftError, Unheard,
        Unregistered
  <1>5. CASE \/ AckJoin(c) \/ DrainOne(c) \/ JoinedBroadcast(c) \/ SkipLine(c)
             \/ JoinedReject(c) \/ PostError(c) \/ LastDrain(c)
    <2>1. pc[c] # "gone"
      BY <1>5 DEF AckJoin, DrainOne, JoinedBroadcast, SkipLine, JoinedReject,
                  PostError, LastDrain
    <2>2. \/ pc'[c] = "leaving"
          \/ \E next \in {"ackJoin", "drain", "closing"} :
               (\E l : WriteReply(c, l, next)) \/ WriteQueued(c, next)
      BY <1>5, <1>t DEF AckJoin, DrainOne, JoinedBroadcast, SkipLine,
                        JoinedReject, PostError, LastDrain
    <2>3. pc'[c] \in {"leaving", "ackJoin", "drain", "closing", "gone"}
      BY <2>2, WriteGoes
    <2> QED  BY <2>1, <2>3 DEF Unheard, Unregistered
  <1> QED  BY <1>1, <1>2, <1>3, <1>4, <1>5 DEF Tick

(* What the room's history tells of a user agrees with the user's state    *)
(* after a step of any connection.                                         *)
LEMMA StoryTick ==
  ASSUME NEW c \in Conns, NEW d \in Conns, TypeOK, Story(d), Tick(c)
  PROVE  Story(d)'
  <1>1. /\ pc'[d] \in Unheard => pc[d] \in Unheard
        /\ pc[d] = "gone" => pc'[d] = "gone"
    BY TickAlone, TickOnward DEF Alone
  <1>2. ASSUME NEW j \in 1..Len(posted), Of(posted[j], d)
        PROVE  /\ pc'[d] \notin Unheard
               /\ posted[j].kind = "left" => pc'[d] = "gone"
    BY <1>1, <1>2 DEF Story, Unheard
  <1>3. CASE UNCHANGED <<room, posted>>
    BY <1>2, <1>3 DEF Story, Unheard
  <1>4. ASSUME NEW m, Posts(c, m) PROVE Story(d)'
    <2>1. /\ Len(posted) \in Nat /\ Len(posted') = Len(posted) + 1
          /\ \A j \in 1..Len(posted) : posted'[j] = posted[j]
          /\ posted'[Len(posted) + 1] = m
      BY <1>4, SendAppends DEF Posts
    <2> SUFFICES ASSUME NEW j \in 1..Len(posted'), Of(posted'[j], d)
                 PROVE  /\ pc'[d] \notin Unheard
                        /\ posted'[j].kind = "left" => pc'[d] = "gone"
      BY DEF Story, Unheard
    <2>2. CASE j \in 1..Len(posted)
      BY <1>2, <2>1, <2>2
    <2>3. CASE j = Len(posted) + 1
      <3>1. Of(m, d) /\ posted'[j] = m
        BY <2>1, <2>3
      <3> QED  BY <1>4, <3>1, PostsOwn DEF Unheard
    <2> QED  BY <2>1, <2>2, <2>3, SMT
  <1> QED  BY <1>3, <1>4, TickPosts

(* Numbers above those in the history stay above, unless the message that  *)
(* comes in is as large.                                                   *)
LEMMA BelowTick ==
  ASSUME NEW c \in Conns, NEW d \in Conns, TypeOK, Tick(c)
  PROVE  \A n : /\ Below(posted, d, n)
                /\ c = d /\ pc[c] = "posting" => buf[c].id < n
                => Below(posted', d, n)
  <1> SUFFICES ASSUME NEW n, Below(posted, d, n),
                      c = d /\ pc[c] = "posting" => buf[c].id < n
               PROVE  Below(posted', d, n)
    OBVIOUS
  <1>1. CASE UNCHANGED <<room, posted>>
    BY <1>1
  <1>2. ASSUME NEW m, Posts(c, m) PROVE Below(posted', d, n)
    <2>1. /\ Len(posted) \in Nat /\ Len(posted') = Len(posted) + 1
          /\ \A j \in 1..Len(posted) : posted'[j] = posted[j]
          /\ posted'[Len(posted) + 1] = m
      BY <1>2, SendAppends DEF Posts
    <2> SUFFICES ASSUME NEW j \in 1..Len(posted'), LineOf(posted'[j], d)
                 PROVE  posted'[j].id < n
      BY DEF Below
    <2>2. CASE j \in 1..Len(posted)
      BY <2>1, <2>2 DEF Below
    <2>3. CASE j = Len(posted) + 1
      <3>1. LineOf(m, d) /\ posted'[j] = m
        BY <2>1, <2>3
      <3> QED  BY <1>2, <3>1, PostsOwn
    <2> QED  BY <2>1, <2>2, <2>3, SMT
  <1> QED  BY <1>1, <1>2, TickPosts

(* The numbers of what is in an inbox or in the buffer.                    *)
LEMMA NumbersType ==
  ASSUME NEW c \in Conns, TypeOK
  PROVE  /\ Len(inbox[c]) \in Nat /\ wrote[c] \in Nat
         /\ \A i \in 1..Len(inbox[c]) : inbox[c][i].id \in Nat
         /\ buf[c].id \in Nat
  <1>1. \A b \in Body \cup {Newline, NoBody} : b.id \in Nat
    BY LinesAssumption, SMT DEF Body, Newline, NoBody, Ids
  <1>2. /\ inbox[c] \in Seq(Body \cup {Newline}) /\ wrote[c] \in Nat
        /\ buf[c] \in Body \cup {NoBody}
    BY DEF TypeOK, ConnectionTypeOK
  <1>3. \A i \in 1..Len(inbox[c]) : inbox[c][i] \in Body \cup {Newline}
    BY <1>2, ElementOfSeq
  <1> QED  BY <1>1, <1>2, <1>3, SMT

(* The lines a client has written and the server has not read are newer    *)
(* than any the room has of it, and stay in order, when a connection       *)
(* moves.                                                                  *)
LEMMA PendingTick ==
  ASSUME NEW c \in Conns, NEW d \in Conns, TypeOK, TypeOK', Tick(c),
         Pending(d), Held(d)
  PROVE  Pending(d)'
  <1>1. /\ \A n : /\ Below(posted, d, n)
                  /\ c = d /\ pc[c] = "posting" => buf[c].id < n
                  => Below(posted', d, n)
        /\ wrote' = wrote
    BY BelowTick, TickAlone DEF Alone
  <1>2. PICK n \in 0..Len(inbox[d]) : Cut(inbox[d], inbox'[d], n)
    <2>1. CASE c = d
      BY <2>1, TickReads DEF Reads
    <2>2. CASE c # d
      <3>1. inbox'[d] = inbox[d] /\ Len(inbox[d]) \in Nat
        BY <2>2, TickReads, NumbersType DEF Reads
      <3>2. Cut(inbox[d], inbox'[d], 0)
        BY <3>1, CutTail DEF TypeOK, ConnectionTypeOK
      <3> QED  BY <3>1, <3>2, SMT
    <2> QED  BY <2>1, <2>2
  <1>n. /\ Len(inbox[d]) \in Nat /\ wrote[d] \in Nat /\ buf[d].id \in Nat
        /\ \A i \in 1..Len(inbox[d]) : inbox[d][i].id \in Nat
    BY NumbersType
  <1>p. /\ Len(inbox'[d]) \in Nat
        /\ \A i \in 1..Len(inbox'[d]) :
             i + n \in 1..Len(inbox[d]) /\ inbox'[d][i] = inbox[d][i + n]
    <2>1. Len(inbox[d]) \in Nat
      BY <1>n
    <2> DEFINE s == inbox[d]
               t == inbox'[d]
    <2>2. Len(s) \in Nat /\ n \in 0..Len(s) /\ Cut(s, t, n)
      BY <1>2, <2>1
    <2> HIDE DEF s, t
    <2>3. /\ Len(t) \in Nat
          /\ \A i \in 1..Len(t) : i + n \in 1..Len(s) /\ t[i] = s[i + n]
      BY <2>2, CutPlaces, SMT
    <2> QED  BY <2>3 DEF s, t
  <1>3. /\ Len(inbox[d]) \in Nat /\ wrote[d] \in Nat /\ buf[d].id \in Nat
        /\ Len(inbox'[d]) \in Nat
        /\ \A i \in 1..Len(inbox[d]) : inbox[d][i].id \in Nat
    BY <1>n, <1>p
  <1>4. ASSUME NEW i \in 1..Len(inbox[d]), inbox[d][i] # Newline
        PROVE  Below(posted', d, inbox[d][i].id)
    BY <1>1, <1>4 DEF Pending, Held
  <1>5. Below(posted', d, wrote[d] + 1)
    <2>1. Below(posted, d, wrote[d] + 1)
      BY DEF Pending
    <2>2. ASSUME pc[d] = "posting" PROVE buf[d].id < wrote[d] + 1
      <3>1. buf[d].id <= wrote[d]
        BY <2>2 DEF Held
      <3>2. buf[d].id \in Nat /\ wrote[d] \in Nat
        BY <1>3
      <3> QED  BY <3>1, <3>2, SMT
    <2> QED  BY <1>1, <2>1, <2>2
  <1>6. ASSUME NEW i \in 1..Len(inbox'[d])
        PROVE  i + n \in 1..Len(inbox[d]) /\ inbox'[d][i] = inbox[d][i + n]
    BY <1>p
  <1>7. ASSUME NEW i \in 1..Len(inbox'[d]), inbox'[d][i] # Newline
        PROVE  /\ Below(posted', d, inbox'[d][i].id)
               /\ inbox'[d][i].id <= wrote[d]
    BY <1>4, <1>6, <1>7 DEF Pending
  <1>8. ASSUME NEW i \in 1..Len(inbox'[d]), inbox'[d][i] # Newline,
               NEW k \in 1..Len(inbox'[d]), k > i, inbox'[d][k] # Newline
        PROVE  inbox'[d][i].id < inbox'[d][k].id
    <2>1. k + n > i + n
      <3>1. i \in Nat /\ k \in Nat /\ n \in Nat
        BY <1>3, SMT
      <3> QED  BY <1>8, <3>1, Numbers
    <2> QED  BY <1>6, <1>8, <2>1 DEF Pending
  <1> QED  BY <1>1, <1>5, <1>7, <1>8 DEF Pending

(* The line a connection holds is newer than any the room has of it and    *)
(* older than those still unread, when a connection moves.                 *)
LEMMA HeldTick ==
  ASSUME NEW c \in Conns, NEW d \in Conns, TypeOK, TypeOK', Tick(c),
         Pending(d), Held(d)
  PROVE  Held(d)'
  <1>1. wrote' = wrote /\ (c # d => pc'[d] = pc[d])
    BY TickAlone DEF Alone
  <1>2. CASE c # d
    <2>1. pc'[d] = pc[d] /\ buf'[d] = buf[d] /\ inbox'[d] = inbox[d]
      BY <1>1, <1>2, TickReads DEF Reads
    <2>2. \A n : Below(posted, d, n) => Below(posted', d, n)
      BY <1>2, BelowTick
    <2> QED  BY <1>1, <2>1, <2>2 DEF Held
  <1>3. CASE c = d
    <2>1. PICK n \in 0..Len(inbox[d]) : Cut(inbox[d], inbox'[d], n) /\ Keep(d, n)
      BY <1>3, TickReads DEF Reads
    <2>2. pc'[d] = "posting" => buf'[d] # NoBody
      BY <2>1 DEF Keep, Held
    <2> SUFFICES ASSUME pc'[d] \in {"joined", "posting"}, buf'[d] # NoBody
                 PROVE  /\ Below(posted', d, buf'[d].id)
                        /\ buf'[d].id <= wrote[d]
                        /\ \A i \in 1..Len(inbox'[d]) : inbox'[d][i] # Newline
                             => buf'[d].id < inbox'[d][i].id
      BY <1>1, <2>2 DEF Held
    <2>3. posted' = posted
      BY <1>3, TickPosts DEF Posts
    <2>4. /\ Len(inbox[d]) \in Nat
          /\ \A i \in 1..Len(inbox'[d]) :
               i + n \in 1..Len(inbox[d]) /\ inbox'[d][i] = inbox[d][i + n]
      <3>1. Len(inbox[d]) \in Nat
        BY NumbersType
      <3> DEFINE s == inbox[d]
                 t == inbox'[d]
      <3>2. Len(s) \in Nat /\ n \in 0..Len(s) /\ Cut(s, t, n)
        BY <2>1, <3>1
      <3> HIDE DEF s, t
      <3>3. \A i \in 1..Len(t) : i + n \in 1..Len(s) /\ t[i] = s[i + n]
        BY <3>2, CutPlaces, SMT
      <3> QED  BY <3>1, <3>3 DEF s, t
    <2>5. CASE pc[d] \in {"joined", "posting"} /\ buf'[d] = buf[d]
      BY <2>3, <2>4, <2>5 DEF Held
    <2>6. CASE n > 0 /\ inbox[d][1] # Newline /\ buf'[d] = inbox[d][1]
      <3>1. 1 \in 1..Len(inbox[d]) /\ \A i \in 1..Len(inbox'[d]) : i + n > 1
        <4> DEFINE k == Len(inbox[d])
                   l == Len(inbox'[d])
        <4>1. k \in Nat
          BY <2>4
        <4>2. n \in 0..k /\ n > 0
          BY <2>1, <2>6
        <4> HIDE DEF k, l
        <4>3. 1 \in 1..k /\ \A i \in 1..l : i + n > 1
          BY <4>1, <4>2, SMT
        <4> QED  BY <4>3 DEF k, l
      <3> QED  BY <2>3, <2>4, <2>6, <3>1 DEF Pending
    <2> QED  BY <2>1, <2>5, <2>6 DEF Keep
  <1> QED  BY <1>2, <1>3
-----------------------------------------------------------------------------
(* The dispatcher keeps its place in the history.                          *)
LEMMA QueueDispatcher ==
  ASSUME TypeOK, TypeOK', Queue, Dispatcher
  PROVE  Queue' /\ posted' = posted
  <1>t. /\ room \in Seq(RoomMsg) /\ posted \in Seq(RoomMsg)
        /\ Len(room) \in Nat /\ Len(posted) \in Nat
    BY SMT DEF TypeOK, BrokerTypeOK
  <1>1. CASE CheckFlag \/ ReceiveTimeout
    BY <1>1 DEF CheckFlag, ReceiveTimeout, Queue
  <1>2. CASE Receive
    <2>1. /\ room # <<>> /\ room' = Tail(room) /\ posted' = posted
          /\ dmsg' = <<Head(room)>> /\ dpc = "recv" /\ dpc' = "collect"
          /\ targets' = targets
      BY <1>2 DEF Receive, Recv
    <2>2. /\ Len(room) > 0 /\ Len(room') = Len(room) - 1 /\ Head(room) = room[1]
          /\ \A k \in 1..Len(room') : room'[k] = room[k + 1]
      BY <1>t, <2>1, SMT
    <2> DEFINE p == Len(posted) - Len(room)
    <2>3. /\ Len(posted') - Len(room') = p + 1 /\ Len(room') < Len(posted')
          /\ Len(room') <= Len(posted') /\ p \in Nat
      BY <1>t, <2>1, <2>2, SMT DEF Queue
    <2>4. \A k \in 1..Len(room) : room[k] = posted[p + k]
      BY DEF Queue
    <2> HIDE DEF p
    <2>5. ASSUME NEW k \in 1..Len(room') PROVE room'[k] = posted'[p + 1 + k]
      <3>1. k + 1 \in 1..Len(room) /\ p + (k + 1) = p + 1 + k
        BY <1>t, <2>2, <2>3, SMT
      <3> QED  BY <2>1, <2>2, <2>4, <3>1
    <2>6. dmsg' = <<posted'[p + 1]>>
      <3>1. 1 \in 1..Len(room)
        BY <1>t, <2>2, SMT
      <3> QED  BY <2>1, <2>2, <2>4, <3>1
    <2>7. targets' = {} /\ dpc' # "send"
      BY <2>1 DEF Queue
    <2> QED  BY <2>1, <2>3, <2>5, <2>6, <2>7 DEF Queue
  <1>3. CASE Collect \/ CollectTimeout \/ Dispatched
    BY <1>3 DEF Collect, CollectTimeout, Dispatched, Queue
  <1>4. ASSUME NEW c \in Conns, Deliver(c) \/ DeliverClosed(c) \/ DeliverTimeout(c)
        PROVE  Queue' /\ posted' = posted
    BY <1>4 DEF Deliver, DeliverClosed, DeliverTimeout, Queue
  <1> QED  BY <1>1, <1>2, <1>3, <1>4 DEF Dispatcher

(* It does not touch a dropped receiver.                                   *)
LEMMA DroppedDispatcher ==
  ASSUME TypeOK, Dropped, Dispatcher, UNCHANGED connVars
  PROVE  Dropped'
  <1>1. closed' = closed /\ pc' = pc
    BY DEF Dispatcher, CheckFlag, Receive, ReceiveTimeout, Collect,
           CollectTimeout, Dispatched, Deliver, DeliverClosed, DeliverTimeout,
           chanVars, connVars
  <1>2. CASE rx' = rx
    BY <1>1, <1>2 DEF Dropped
  <1>3. ASSUME NEW c \in Conns, Deliver(c) PROVE Dropped'
    BY <1>1, <1>3 DEF Deliver, Dropped, TypeOK, BrokerTypeOK
  <1> QED
    BY <1>2, <1>3
    DEF Dispatcher, CheckFlag, Receive, ReceiveTimeout, Collect,
        CollectTimeout, Dispatched, DeliverClosed, DeliverTimeout, chanVars

(* A client adds to its inbox, and what it adds has a number of its own.   *)
Grows(s, t, w, x) ==
  /\ Len(s) \in Nat /\ Len(t) \in Nat /\ Len(s) <= Len(t) /\ w < x
  /\ \A i \in 1..Len(s) : t[i] = s[i]
  /\ \A i \in 1..Len(t) : t[i] # Newline =>
       i \in 1..Len(s) \/ (i = Len(s) + 1 /\ t[i].id = w + 1)

(* One fragment more, a newline or a body with the next number.            *)
LEMMA GrowsByOne ==
  ASSUME NEW S, NEW s \in Seq(S), NEW e, NEW t, t = Append(s, e),
         NEW w \in Nat, NEW x, x = w + 1, e = Newline \/ e.id = w + 1
  PROVE  Grows(s, t, w, x)
  <1>1. /\ Len(s) \in Nat /\ Len(t) = Len(s) + 1
        /\ \A i \in 1..Len(s) : t[i] = s[i]
        /\ t[Len(s) + 1] = e
    <2>1. s \in Seq(S \cup {e}) /\ e \in S \cup {e}
      BY SMT
    <2> QED  BY <2>1, SMT
  <1> DEFINE k == Len(s)
             l == Len(t)
  <1>2. k \in Nat /\ l = k + 1
    BY <1>1
  <1> HIDE DEF k, l
  <1>3. l \in Nat /\ k <= l /\ w < x
    BY <1>2, SMT
  <1>4. ASSUME NEW i \in 1..l, t[i] # Newline
        PROVE  i \in 1..k \/ (i = k + 1 /\ t[i].id = w + 1)
    <2>1. i \in 1..k \/ i = k + 1
      BY <1>2, SMT
    <2>2. t[k + 1] = e
      BY <1>1 DEF k
    <2> QED  BY <1>4, <2>1, <2>2
  <1> QED  BY <1>1, <1>3, <1>4 DEF Grows, k, l

(* A client's write appends to its unread input, with a number it has not  *)
(* used.                                                                   *)
LEMMA PeerGrows ==
  ASSUME NEW c \in Conns, TypeOK, Write(c) \/ WriteNewline(c)
  PROVE  Grows(inbox[c], inbox'[c], wrote[c], wrote'[c])
  <1> DEFINE s == inbox[c]
             S == Body \cup {Newline}
  <1>t. /\ inbox \in [Conns -> Seq(S)] /\ wrote \in [Conns -> Nat]
        /\ s \in Seq(S) /\ Len(s) \in Nat /\ Newline \in S
    BY SMT DEF TypeOK, ConnectionTypeOK
  <1> HIDE DEF s, S
  <1>1. CASE WriteNewline(c)
    <2>1. inbox'[c] = Append(s, Newline) /\ wrote'[c] = wrote[c] + 1
      BY <1>1, <1>t DEF WriteNewline, s
    <2>2. wrote[c] \in Nat
      BY <1>t
    <2> QED  BY <1>t, <2>1, <2>2, GrowsByOne DEF s
  <1>2. CASE Write(c)
    <2>1. PICK l \in Lines[c] :
            LET b == [cmd |-> l[1], name |-> l[2], id |-> wrote[c] + 1] IN
            \/ /\ inbox' = [inbox EXCEPT ![c] = @ \o <<b, Newline>>]
               /\ wrote' = [wrote EXCEPT ![c] = @ + 2]
            \/ /\ inbox' = [inbox EXCEPT ![c] = Append(@, b)]
               /\ wrote' = [wrote EXCEPT ![c] = @ + 1]
      BY <1>2 DEF Write
    <2> DEFINE b == [cmd |-> l[1], name |-> l[2], id |-> wrote[c] + 1]
    <2>2. b.id = wrote[c] + 1
      OBVIOUS
    <2>3. \/ inbox'[c] = s \o <<b, Newline>> /\ wrote'[c] = wrote[c] + 2
          \/ inbox'[c] = Append(s, b) /\ wrote'[c] = wrote[c] + 1
      BY <1>t, <2>1 DEF s
    <2> HIDE DEF b
    <2>4. CASE inbox'[c] = Append(s, b) /\ wrote'[c] = wrote[c] + 1
      <3>1. wrote[c] \in Nat
        BY <1>t
      <3> QED  BY <1>t, <2>2, <2>4, <3>1, GrowsByOne DEF s
    <2>5. CASE inbox'[c] = s \o <<b, Newline>> /\ wrote'[c] = wrote[c] + 2
      <3>1. /\ Len(s \o <<b, Newline>>) = Len(s) + 2
            /\ \A i \in 1..Len(s) : (s \o <<b, Newline>>)[i] = s[i]
            /\ (s \o <<b, Newline>>)[Len(s) + 1] = b
            /\ (s \o <<b, Newline>>)[Len(s) + 2] = Newline
        <4>1. s \in Seq(S \cup {b}) /\ <<b, Newline>> \in Seq(S \cup {b})
          BY <1>t, SMT
        <4> QED  BY <4>1, <1>t, SMT
      <3> DEFINE t == s \o <<b, Newline>>
      <3>2. /\ Len(t) = Len(s) + 2 /\ t[Len(s) + 1] = b
            /\ t[Len(s) + 2] = Newline /\ \A i \in 1..Len(s) : t[i] = s[i]
        BY <3>1
      <3>3. t = inbox'[c]
        BY <2>5
      <3> HIDE DEF t
      <3>4. Len(s) \in Nat /\ wrote[c] \in Nat /\ wrote'[c] = wrote[c] + 2
        BY <1>t, <2>5
      <3>5. ASSUME NEW i \in 1..Len(t), t[i] # Newline
            PROVE  i \in 1..Len(s) \/ (i = Len(s) + 1 /\ t[i].id = wrote[c] + 1)
        <4>1. i # Len(s) + 2
          BY <3>2, <3>5
        <4>2. i \in 1..Len(s) \/ i = Len(s) + 1
          BY <3>2, <3>4, <4>1, SMT
        <4> QED  BY <2>2, <3>2, <4>2
      <3>6. /\ Len(t) \in Nat /\ Len(s) <= Len(t) /\ wrote[c] < wrote'[c]
            /\ \A i \in 1..Len(s) : t[i] = s[i]
        BY <3>2, <3>4, SMT
      <3> QED  BY <3>3, <3>4, <3>5, <3>6 DEF Grows, s
    <2> QED  BY <2>3, <2>4, <2>5
  <1> QED  BY <1>1, <1>2

(* Clients' steps keep the numbers of unread and held lines in order.      *)
LEMMA PeerNumbers ==
  ASSUME NEW c \in Conns, TypeOK, TypeOK', Peer(c), NEW d \in Conns,
         Pending(d), Held(d)
  PROVE  Pending(d)' /\ Held(d)'
  <1>0. posted' = posted /\ pc' = pc /\ buf' = buf
    BY DEF Peer, Write, WriteNewline, Close, Reset, Stall, Resume, peerFrame,
           brokerVars
  <1>1. CASE inbox'[d] = inbox[d] /\ wrote'[d] = wrote[d]
    BY <1>0, <1>1 DEF Pending, Held
  <1>2. CASE Grows(inbox[d], inbox'[d], wrote[d], wrote'[d])
    <2> DEFINE s == inbox[d]
               t == inbox'[d]
               w == wrote[d]
               x == wrote'[d]
    <2>1. /\ w \in Nat /\ x \in Nat /\ buf[d].id \in Nat
          /\ \A i \in 1..Len(s) : s[i].id \in Nat
      <3>1. wrote' \in [Conns -> Nat]
        BY DEF TypeOK, ConnectionTypeOK
      <3> QED  BY <3>1, NumbersType
    <2>2. \A j \in 1..Len(posted) : LineOf(posted[j], d) => posted[j].id \in Nat
      <3>1. \A j \in 1..Len(posted) : posted[j] \in RoomMsg
        BY ElementOfSeq DEF TypeOK, BrokerTypeOK
      <3>2. Ids \subseteq Nat
        BY LinesAssumption, SMT DEF Ids
      <3>3. \A m \in RoomMsg : m.id \in Nat
        BY <3>2 DEF RoomMsg
      <3> QED  BY <3>1, <3>3
    <2>3. /\ Below(posted, d, w + 1)
          /\ \A i \in 1..Len(s) : s[i] # Newline =>
               /\ Below(posted, d, s[i].id) /\ s[i].id <= w
               /\ \A k \in 1..Len(s) : k > i /\ s[k] # Newline => s[i].id < s[k].id
      BY DEF Pending
    <2>g. /\ Len(s) \in Nat /\ Len(t) \in Nat /\ Len(s) <= Len(t) /\ w < x
          /\ \A i \in 1..Len(s) : t[i] = s[i]
          /\ \A i \in 1..Len(t) : t[i] # Newline =>
               i \in 1..Len(s) \/ (i = Len(s) + 1 /\ t[i].id = w + 1)
      BY <1>2 DEF Grows
    <2>h. pc[d] \in {"joined", "posting"} /\ buf[d] # NoBody =>
            /\ Below(posted, d, buf[d].id) /\ buf[d].id <= w
            /\ \A i \in 1..Len(s) : s[i] # Newline => buf[d].id < s[i].id
      BY DEF Held
    <2> HIDE DEF s, t, w, x
    <2>w. w \in Nat /\ x \in Nat /\ buf[d].id \in Nat /\ w < x
      BY <2>1, <2>g
    <2>4. Below(posted, d, x + 1)
      <3> SUFFICES ASSUME NEW j \in 1..Len(posted), LineOf(posted[j], d)
                   PROVE  posted[j].id < x + 1
        BY DEF Below
      <3>1. posted[j].id \in Nat
        BY <2>2
      <3>2. posted[j].id < w + 1
        BY <2>3 DEF Below
      <3> QED  BY <2>w, <3>1, <3>2, Numbers
    <2>5. ASSUME NEW i \in 1..Len(t), t[i] # Newline
          PROVE  Below(posted, d, t[i].id) /\ t[i].id <= x
      <3>1. CASE i \in 1..Len(s)
        <4>1. t[i] = s[i] /\ s[i].id \in Nat
          BY <2>1, <2>g, <3>1
        <4>2. Below(posted, d, s[i].id) /\ s[i].id <= w
          BY <2>3, <2>5, <3>1, <4>1
        <4>3. s[i].id <= x
          BY <2>w, <4>1, <4>2, Numbers
        <4> QED  BY <4>1, <4>2, <4>3
      <3>2. CASE t[i].id = w + 1
        <4>1. w + 1 <= x
          BY <2>1, <2>g, SMT
        <4>2. Below(posted, d, t[i].id) /\ t[i].id <= x
          BY <2>3, <3>2, <4>1
        <4> QED  BY <4>2
      <3>3. i \in 1..Len(s) \/ t[i].id = w + 1
        BY <2>5, <2>g
      <3> QED  BY <3>1, <3>2, <3>3
    <2>6. ASSUME NEW i \in 1..Len(t), t[i] # Newline,
                 NEW k \in 1..Len(t), t[k] # Newline, k > i
          PROVE  t[i].id < t[k].id
      <3>1. i \in 1..Len(s)
        <4>1. i \in 1..Len(s) \/ i = Len(s) + 1
          BY <2>6, <2>g
        <4>2. k \in 1..Len(s) \/ k = Len(s) + 1
          BY <2>6, <2>g
        <4> QED  BY <2>6, <2>g, <4>1, <4>2, SMT
      <3>2. t[i] = s[i] /\ s[i].id \in Nat
        BY <2>1, <2>g, <3>1
      <3>3. CASE k \in 1..Len(s)
        <4>1. t[k] = s[k]
          BY <2>g, <3>3
        <4> QED  BY <2>3, <2>6, <3>1, <3>2, <3>3, <4>1
      <3>4. CASE t[k].id = w + 1
        <4>1. s[i].id <= w
          BY <2>3, <2>6, <3>1, <3>2
        <4> QED  BY <2>1, <3>2, <3>4, <4>1, SMT
      <3> QED  BY <2>6, <2>g, <3>3, <3>4
    <2>7. ASSUME pc[d] \in {"joined", "posting"}, buf[d] # NoBody
          PROVE  /\ Below(posted, d, buf[d].id) /\ buf[d].id <= x
                 /\ \A i \in 1..Len(t) : t[i] # Newline => buf[d].id < t[i].id
      <3>1. /\ Below(posted, d, buf[d].id) /\ buf[d].id <= w
            /\ \A i \in 1..Len(s) : s[i] # Newline => buf[d].id < s[i].id
        BY <2>7, <2>h
      <3>2. ASSUME NEW i \in 1..Len(t), t[i] # Newline
            PROVE  buf[d].id < t[i].id
        <4>1. CASE i \in 1..Len(s)
          BY <2>g, <3>1, <3>2, <4>1
        <4>2. CASE t[i].id = w + 1
          <5>1. buf[d].id <= w
            BY <3>1
          <5>2. buf[d].id < w + 1
            BY <2>w, <5>1, SMT
          <5> QED  BY <4>2, <5>2
        <4> QED  BY <2>g, <3>2, <4>1, <4>2
      <3>3. buf[d].id <= x
        <4>1. buf[d].id <= w
          BY <3>1
        <4> QED  BY <2>w, <4>1, SMT
      <3> QED  BY <3>1, <3>2, <3>3
    <2>8. Pending(d)'
      BY <1>0, <2>4, <2>5, <2>6 DEF Pending, t, x
    <2>9. Held(d)'
      BY <1>0, <2>7 DEF Held, t, x
    <2> QED  BY <2>8, <2>9
  <1> QED  BY <1>1, <1>2, PeerWrites, PeerGrows

(* Every step of the server or its clients preserves the invariant of the  *)
(* histories.                                                              *)
LEMMA HistStep ==
  RegInv /\ HistInv /\ [Next \/ Done]_vars => HistInv'
  <1> SUFFICES ASSUME RegInv, HistInv, [Next \/ Done]_vars PROVE HistInv'
    OBVIOUS
  <1>0. TypeOK /\ TypeOK'
    BY TypeStep DEF RegInv
  <1>1. CASE UNCHANGED <<room, posted, dpc, dmsg, targets, closed, pc, rx,
                         inbox, wrote, buf>>
    BY <1>1 DEF HistInv, Queue, Dropped, Story, Pending, Held
  <1>2. CASE Dispatcher /\ UNCHANGED <<connVars, mainVars>>
    <2>1. /\ Queue' /\ Dropped' /\ posted' = posted
          /\ UNCHANGED <<pc, inbox, wrote, buf>>
      BY <1>0, <1>2, QueueDispatcher, DroppedDispatcher
      DEF HistInv, connVars, peerVars
    <2> QED  BY <2>1 DEF HistInv, Story, Pending, Held
  <1>3. ASSUME NEW c \in Conns, Tick(c) PROVE HistInv'
    BY <1>0, <1>3, QueueTick, DroppedTick, StoryTick, PendingTick, HeldTick
    DEF HistInv
  <1>4. ASSUME NEW c \in Conns, Accept(c) PROVE HistInv'
    <2>1. /\ UNCHANGED <<room, posted, dpc, dmsg, targets, closed, rx, inbox,
                         wrote, buf>>
          /\ pc[c] = "idle" /\ pc' = [pc EXCEPT ![c] = "unauth"]
          /\ pc \in [Conns -> Unregistered \cup Registered \cup Ended]
      BY <1>0, <1>4
      DEF Accept, brokerVars, peerVars, TypeOK, ConnectionTypeOK
    <2>2. Queue'
      BY <2>1 DEF HistInv, Queue
    <2>3. Dropped'
      BY <2>1 DEF HistInv, Dropped, Ended
    <2>4. ASSUME NEW d \in Conns PROVE Story(d)' /\ Pending(d)' /\ Held(d)'
      <3>1. /\ Story(d) /\ Pending(d) /\ Held(d)
            /\ \/ pc'[d] = pc[d]
               \/ pc[d] \in Unregistered /\ pc'[d] = "unauth"
        BY <2>1 DEF HistInv, Unregistered
      <3>2. Story(d)'
        BY <2>1, <3>1 DEF Story
      <3>3. Pending(d)' /\ Held(d)'
        BY <2>1, <3>1 DEF Pending, Held
      <3> QED  BY <3>2, <3>3
    <2> QED  BY <2>2, <2>3, <2>4 DEF HistInv
  <1>5. CASE AcquirePermit \/ AcceptError \/ CtrlC \/ Main
    BY <1>1, <1>5 DEF AcquirePermit, AcceptError, CtrlC, Main, StopBroker, Exit,
                      brokerVars, connVars, chanVars, dispVars, roomVars, peerVars
  <1>6. ASSUME NEW c \in Conns, Peer(c) PROVE HistInv'
    <2>1. UNCHANGED <<room, posted, dpc, dmsg, targets, closed, pc, rx>>
      BY <1>6 DEF Peer, Write, WriteNewline, Close, Reset, Stall, Resume,
                  peerFrame, brokerVars
    <2>2. Queue' /\ Dropped' /\ \A d \in Conns : Story(d)'
      BY <2>1 DEF HistInv, Queue, Dropped, Story
    <2>3. \A d \in Conns : Pending(d)' /\ Held(d)'
      BY <1>0, <1>6, PeerNumbers DEF HistInv
    <2> QED  BY <2>2, <2>3 DEF HistInv
  <1>7. CASE UNCHANGED vars
    BY <1>1, <1>7 DEF vars, brokerVars, connVars, peerVars
  <1> QED
    BY <1>2, <1>3, <1>4, <1>5, <1>6, <1>7 DEF Next, Done

(* The invariant of the histories holds when the server starts.            *)
LEMMA HistInit == Init => HistInv
  <1> SUFFICES ASSUME Init PROVE HistInv
    OBVIOUS
  <1>1. /\ room = <<>> /\ posted = <<>> /\ targets = {} /\ dpc = "check"
        /\ closed = {} /\ Len(room) = 0 /\ Len(posted) = 0
    BY DEF Init, ConnectionInit, BrokerInit, RoomInit
  <1>2. \A c \in Conns : /\ pc[c] = "idle" /\ inbox[c] = <<>> /\ wrote[c] = 0
                         /\ Len(inbox[c]) = 0
    BY DEF Init, ConnectionInit
  <1>3. Queue
    BY <1>1, SMT DEF Queue
  <1>4. Dropped
    BY <1>1, <1>2 DEF Dropped, Ended
  <1>5. \A c \in Conns : Story(c) /\ Pending(c) /\ Held(c)
    <2>1. 1..Len(posted) = {} /\ \A c \in Conns : 1..Len(inbox[c]) = {}
      BY <1>1, <1>2, SMT
    <2>2. \A c \in Conns : pc[c] \notin {"joined", "posting"}
      BY <1>2
    <2>3. \A c \in Conns : pc[c] # "posting"
      BY <1>2
    <2> QED  BY <2>1, <2>2, <2>3 DEF Story, Pending, Held, Below
  <1> QED  BY <1>3, <1>4, <1>5 DEF HistInv

(* The invariant of the histories holds in every state.                    *)
LEMMA HistInvariant == Spec => []HistInv
  BY HistInit, HistStep, RegInvariant, PTL DEF Spec
-----------------------------------------------------------------------------
(* ChatRoom with what is proved of it.                                     *)
Promise == INSTANCE ChatRoomProofs WITH
  Users <- Conns,
  Msg <- RoomMsg,
  said <- posted,
  seat <- [c \in Conns |-> Seat(c)],
  given <- [c \in Conns |-> Received(c)],
  pos <- [c \in Conns |-> DoneFor(c)],
  missed <- lost

(* The steps of the room, in terms of the server's state.                  *)
SameSeat(c)  == Seat(c)' = Seat(c)
SameGiven(c) == Received(c)' = Received(c)
SamePos(c)   == DoneFor(c)' = DoneFor(c)
Same(c)      == SameSeat(c) /\ SameGiven(c) /\ SamePos(c)

(* A step that changes no seat, no position and nothing given is no step   *)
(* of the promised room.                                                   *)
LEMMA Stutters ==
  ASSUME \A c \in Conns : Same(c), posted' = posted, lost' = lost
  PROVE  UNCHANGED Hall!vars
  BY DEF Hall!vars, Same, SameSeat, SameGiven, SamePos

(* A step in which one user takes a seat is an Enter of the promised room. *)
LEMMA Enters ==
  ASSUME NEW u \in Conns, Seat(u) = "new", Seat(u)' = "in",
         \A c \in Conns \ {u} : SameSeat(c),
         \A c \in Conns : SameGiven(c) /\ SamePos(c),
         posted' = posted, lost' = lost
  PROVE  Hall!Enter(u)
  BY DEF Hall!Enter, SameSeat, SameGiven, SamePos

(* A step that adds one message to the history is a Say of the promised    *)
(* room.                                                                   *)
LEMMA Says ==
  ASSUME NEW m \in RoomMsg, \A c \in Conns : Same(c), lost' = lost,
         Seat(m.from) = IF m.kind = "left" THEN "out" ELSE "in",
         \A j \in 1..Len(posted) : Hall!Follows(posted[j], m),
         posted' = Append(posted, m)
  PROVE  Hall!Say(m)
  BY DEF Hall!Say, Same, SameSeat, SameGiven, SamePos, RoomMsg

(* A step that gives one user the next message is a Hear of the promised   *)
(* room.                                                                   *)
LEMMA Hears ==
  ASSUME NEW u \in Conns, Seat(u) = "in", DoneFor(u) < Len(posted),
         \A c \in Conns : SameSeat(c),
         \A c \in Conns \ {u} : SameGiven(c) /\ SamePos(c),
         Received(u)' = Append(Received(u), posted[DoneFor(u) + 1]),
         DoneFor(u)' = DoneFor(u) + 1,
         posted' = posted, lost' = lost
  PROVE  Hall!Hear(u)
  BY DEF Hall!Hear, SameSeat, SameGiven, SamePos

(* A step in which messages pass some users by is a Pass of the promised   *)
(* room.                                                                   *)
LEMMA Passes ==
  ASSUME NEW S \in SUBSET Conns, NEW L \in SUBSET S,
         \A c \in S : DoneFor(c) < Len(posted) /\ DoneFor(c)' = DoneFor(c) + 1,
         \A c \in Conns \ S : SamePos(c),
         \A c \in Conns : SameSeat(c) /\ SameGiven(c),
         \A c \in S : Seat(c) = "in" => c \in L,
         posted' = posted, lost' = lost \cup L
  PROVE  Hall!Pass(S)
  BY DEF Hall!Pass, SameSeat, SameGiven, SamePos

(* A step in which one user gives up the seat is a Leave of the promised   *)
(* room.                                                                   *)
LEMMA Goes ==
  ASSUME NEW u \in Conns, Seat(u) # "out", Seat(u)' = "out",
         \A c \in Conns \ {u} : SameSeat(c) /\ SameGiven(c),
         \A c \in Conns : SamePos(c),
         \E k \in 0..Len(Received(u)) : Received(u)' = SubSeq(Received(u), 1, k),
         posted' = posted, lost' = lost
  PROVE  Hall!Leave(u)
  BY DEF Hall!Leave, SameSeat, SameGiven, SamePos
-----------------------------------------------------------------------------
(* Seats are the three groups of points a task can be at.                  *)
LEMMA SeatOf ==
  ASSUME NEW c \in Conns, TypeOK
  PROVE  /\ Seat(c) = "new" <=> pc[c] \in Unregistered
         /\ Seat(c) = "in" <=> pc[c] \in Registered
         /\ Seat(c) = "out" <=> pc[c] \in Ended
         /\ Seat(c) \in {"new", "in", "out"}
  BY DEF Seat, TypeOK, ConnectionTypeOK, Unregistered, Registered, Ended

(* What a task puts into the room fits its user's story.                   *)
LEMMA PostFollows ==
  ASSUME NEW c \in Conns, TypeOK, TypeOK', NEW m, Posts(c, m), Story(c), Held(c)
  PROVE  /\ m \in RoomMsg
         /\ m.from = c
         /\ \A j \in 1..Len(posted) : Hall!Follows(posted[j], m)
  <1>1. m \in RoomMsg
    <2>1. posted' \in Seq(RoomMsg) /\ Len(posted) + 1 \in 1..Len(posted')
          /\ posted'[Len(posted) + 1] = m
      BY SendAppends, SMT DEF Posts, TypeOK, BrokerTypeOK
    <2> QED  BY <2>1, ElementOfSeq
  <1>2. m.from = c
    BY SMT DEF Posts, UserJoined, UserLeft, Broadcast
  <1>3. ASSUME NEW j \in 1..Len(posted) PROVE Hall!Follows(posted[j], m)
    <2>1. CASE posted[j].from # c
      BY <1>2, <2>1 DEF Hall!Follows
    <2>2. CASE posted[j].from = c
      <3>1. /\ pc[c] \notin Unregistered \cup {"announceJoined"}
            /\ posted[j].kind = "left" => pc[c] = "gone"
        BY <2>2 DEF Story, Of
      <3>2. posted[j].kind \in {"joined", "left", "broadcast"}
        <4>1. posted[j] \in RoomMsg
          BY ElementOfSeq DEF TypeOK, BrokerTypeOK
        <4> QED  BY <4>1 DEF RoomMsg
      <3>3. CASE pc[c] = "announceLeft"
        <4>1. m.kind = "left" /\ posted[j].kind # "left"
          BY <3>1, <3>3, SMT DEF Posts, UserLeft
        <4> QED  BY <4>1 DEF Hall!Follows
      <3>4. CASE pc[c] = "posting"
        <4>1. m.kind = "broadcast" /\ m.id = buf[c].id /\ posted[j].kind # "left"
          BY <3>1, <3>4, SMT DEF Posts, Broadcast
        <4>2. CASE posted[j].kind = "joined"
          BY <4>1, <4>2 DEF Hall!Follows
        <4>3. CASE posted[j].kind = "broadcast"
          <5>1. Below(posted, c, buf[c].id)
            BY <3>4 DEF Held
          <5>2. posted[j].id < buf[c].id
            BY <2>2, <4>3, <5>1 DEF Below, LineOf
          <5> QED  BY <4>1, <4>3, <5>2 DEF Hall!Follows
        <4> QED  BY <3>2, <4>1, <4>2, <4>3
      <3> QED  BY <3>1, <3>3, <3>4 DEF Posts
    <2> QED  BY <2>1, <2>2
  <1> QED  BY <1>1, <1>2, <1>3

(* Handing a message on keeps the sum of what a user has been given.       *)
LEMMA HandsSame ==
  ASSUME NEW c \in Conns, TypeOK, Hands(c)
  PROVE  SameGiven(c)
  <1> DEFINE h == heard[c]
             r == rx[c]
  <1>1. /\ h \in Seq(RoomMsg) /\ r \in Seq(RoomMsg) /\ r # <<>>
        /\ heard'[c] = Append(h, Head(r)) /\ rx'[c] = Tail(r)
    BY DEF Hands, TypeOK, ConnectionTypeOK, BrokerTypeOK
  <1> HIDE DEF h, r
  <1>2. Append(h, Head(r)) \o Tail(r) = h \o r
    <2>1. /\ Head(r) \in RoomMsg /\ Tail(r) \in Seq(RoomMsg)
          /\ r = <<Head(r)>> \o Tail(r) /\ <<Head(r)>> \in Seq(RoomMsg)
      BY <1>1, SMT
    <2>2. Append(h, Head(r)) = h \o <<Head(r)>>
      BY <1>1, <2>1, SMT
    <2>3. (h \o <<Head(r)>>) \o Tail(r) = h \o (<<Head(r)>> \o Tail(r))
      <3> DEFINE e == <<Head(r)>>
                 t == Tail(r)
      <3>1. h \in Seq(RoomMsg) /\ e \in Seq(RoomMsg) /\ t \in Seq(RoomMsg)
        BY <1>1, <2>1
      <3> HIDE DEF e, t
      <3>2. (h \o e) \o t = h \o (e \o t)
        BY <3>1, ConcatAssociative, SMT
      <3> QED  BY <3>2 DEF e, t
    <2> QED  BY <2>1, <2>2, <2>3
  <1> QED  BY <1>1, <1>2 DEF SameGiven, Received, h, r

(* A dropped receiver leaves what had been written.                        *)
LEMMA DropsPrefix ==
  ASSUME NEW c \in Conns, TypeOK, Drops(c)
  PROVE  /\ \E k \in 0..Len(Received(c)) : Received(c)' = SubSeq(Received(c), 1, k)
         /\ rx[c] = <<>> => SameGiven(c)
  <1> DEFINE h == heard[c]
             r == rx[c]
  <1>1. /\ h \in Seq(RoomMsg) /\ r \in Seq(RoomMsg)
        /\ heard'[c] = h /\ rx'[c] = <<>>
    BY DEF Drops, CloseRx, TypeOK, ConnectionTypeOK, BrokerTypeOK
  <1> HIDE DEF h, r
  <1>2. /\ h \o <<>> = h /\ Len(h) \in Nat /\ Len(r) \in Nat
        /\ Len(h \o r) = Len(h) + Len(r)
    BY <1>1, SMT
  <1>3. SubSeq(h \o r, 1, Len(h)) = h
    <2>1. h \o r \in Seq(RoomMsg)
      BY <1>1, SMT
    <2>2. \A i \in 1..Len(h) : (h \o r)[i] = h[i]
      BY <1>1, SMT
    <2> QED  BY <1>1, <1>2, <2>1, <2>2, SMT
  <1>4. Len(h) \in 0..Len(h \o r)
    BY <1>2, SMT
  <1>5. Received(c) = h \o r /\ Received(c)' = h
    BY <1>1, <1>2 DEF Received, h, r
  <1>6. r = <<>> => h \o r = h
    BY <1>2
  <1> QED  BY <1>3, <1>4, <1>5, <1>6 DEF SameGiven, r
-----------------------------------------------------------------------------
(* A step of a connection task.                                            *)
LEMMA TickHall ==
  ASSUME NEW c \in Conns, RegInv, HistInv, TypeOK', Tick(c)
  PROVE  Hall!Next \/ UNCHANGED Hall!vars
  <1>0. /\ TypeOK /\ Story(c) /\ Held(c) /\ Dropped
        /\ Alone(c) /\ (Keeps(c) \/ Hands(c) \/ Drops(c))
        /\ UNCHANGED <<room, posted>> \/ \E m : Posts(c, m)
        /\ Stays(c) \/ Ends(c) \/ Joins(c) \/ Leaves(c)
    BY TickAlone, TickHands, TickPosts, TickShape DEF RegInv, HistInv
  <1>s. /\ Registered \cap Unregistered = {} /\ Registered \cap Ended = {}
        /\ Ended \cap Unregistered = {} /\ "gone" \in Ended
        /\ "leaving" \in Registered
    BY DEF Registered, Unregistered, Ended
  <1>1. lost' = lost /\ \A d \in Conns \ {c} : SameSeat(d)
    BY <1>0 DEF Alone, SameSeat, Seat
  <1>2. \A d \in Conns \ {c} : SameGiven(d)
    <2>1. \A d \in Conns \ {c} : heard'[d] = heard[d] /\ rx'[d] = rx[d]
      BY <1>0
      DEF Keeps, Hands, Drops, CloseRx, TypeOK, ConnectionTypeOK, BrokerTypeOK
    <2> QED  BY <2>1 DEF SameGiven, Received
  <1>3. \A d \in Conns : SamePos(d)
    <2>1. dpc' = dpc /\ targets' = targets
      BY <1>0 DEF Alone
    <2>2. Len(posted') - Len(room') = Len(posted) - Len(room)
      <3>1. ASSUME NEW m, Posts(c, m)
            PROVE  Len(posted') - Len(room') = Len(posted) - Len(room)
        <4>1. /\ Len(posted) \in Nat /\ Len(room) \in Nat
              /\ Len(posted') = Len(posted) + 1 /\ Len(room') = Len(room) + 1
          BY <1>0, <3>1, SendAppends DEF Posts
        <4> QED  BY <4>1, SMT
      <3> QED  BY <1>0, <3>1
    <2> QED  BY <2>1, <2>2 DEF SamePos, DoneFor
  <1>4. CASE Drops(c) /\ pc[c] \notin Ended
    <2>1. pc'[c] \in Ended /\ posted' = posted
      <3>1. pc'[c] \in Ended
        BY <1>4 DEF Drops
      <3> QED  BY <1>0, <1>4, <3>1 DEF Posts, Ended
    <2>2. Seat(c) # "out" /\ Seat(c)' = "out"
      <3>1. Seat(c)' = "out" <=> pc'[c] \in Ended
        BY SeatOf, <1>s DEF Seat, TypeOK, ConnectionTypeOK
      <3> QED  BY <1>0, <1>4, <2>1, <3>1, SeatOf
    <2>3. \E k \in 0..Len(Received(c)) : Received(c)' = SubSeq(Received(c), 1, k)
      BY <1>0, <1>4, DropsPrefix
    <2>4. Hall!Leave(c)
      BY <1>1, <1>2, <1>3, <2>1, <2>2, <2>3, Goes
    <2> QED  BY <2>4 DEF Hall!Next
  <1>5. CASE ~Drops(c) \/ pc[c] \in Ended
    <2>1. SameGiven(c) /\ (pc[c] \in Ended <=> pc'[c] \in Ended)
      <3>1. CASE Keeps(c)
        BY <3>1 DEF Keeps, SameGiven, Received
      <3>2. CASE Hands(c)
        BY <1>0, <3>2, HandsSame DEF Hands
      <3>3. CASE Drops(c)
        BY <1>0, <1>5, <3>3, DropsPrefix DEF Dropped, Drops
      <3> QED  BY <1>0, <3>1, <3>2, <3>3
    <2>2. CASE \E m : Posts(c, m)
      <3>1. PICK m : Posts(c, m)
        BY <2>2
      <3>2. /\ m \in RoomMsg /\ m.from = c
            /\ \A j \in 1..Len(posted) : Hall!Follows(posted[j], m)
        BY <1>0, <3>1, PostFollows
      <3>3. /\ SameSeat(c)
            /\ Seat(c) = IF m.kind = "left" THEN "out" ELSE "in"
        BY <3>1, SMT DEF Posts, SameSeat, Seat, Registered, Unregistered,
                    UserJoined, UserLeft, Broadcast
      <3>4. \A d \in Conns : Same(d)
        BY <1>1, <1>2, <1>3, <2>1, <3>3 DEF Same
      <3>5. posted' = Append(posted, m)
        BY <3>1 DEF Posts, Send
      <3>6. Hall!Say(m)
        BY <1>1, <3>2, <3>3, <3>4, <3>5, Says
      <3> QED  BY <3>2, <3>6 DEF Hall!Next
    <2>3. CASE posted' = posted /\ Joins(c)
      <3>1. Seat(c) = "new" /\ Seat(c)' = "in"
        BY <1>s, <2>3 DEF Joins, Seat
      <3>2. Hall!Enter(c)
        BY <1>1, <1>2, <1>3, <2>1, <2>3, <3>1, Enters
      <3> QED  BY <3>2 DEF Hall!Next
    <2>4. CASE posted' = posted /\ ~Joins(c)
      <3>1. SameSeat(c)
        BY <1>0, <1>s, <2>1, <2>4 DEF Stays, Ends, Leaves, SameSeat, Seat
      <3>2. \A d \in Conns : Same(d)
        BY <1>1, <1>2, <1>3, <2>1, <3>1 DEF Same
      <3> QED  BY <1>1, <2>4, <3>2, Stutters
    <2> QED  BY <1>0, <2>2, <2>3, <2>4
  <1> QED  BY <1>4, <1>5

(* A step of the dispatcher.                                               *)
LEMMA DispatcherHall ==
  ASSUME RegInv, HistInv, Dispatcher, UNCHANGED connVars
  PROVE  Hall!Next \/ UNCHANGED Hall!vars
  <1>0. /\ TypeOK /\ Queue /\ Dropped
        /\ Len(posted) \in Nat /\ Len(room) \in Nat
        /\ Len(posted) - Len(room) \in Nat /\ room \in Seq(RoomMsg)
    BY SMT DEF RegInv, HistInv, TypeOK, BrokerTypeOK, Queue
  <1>1. heard' = heard /\ pc' = pc /\ users' = users
    BY DEF connVars, outVars, Dispatcher, CheckFlag, Receive, ReceiveTimeout,
           Collect, CollectTimeout, Dispatched, Deliver, DeliverClosed,
           DeliverTimeout
  <1>2. \A c \in Conns : SameSeat(c)
    BY <1>1 DEF SameSeat, Seat
  <1>3. \A c \in Conns : rx'[c] = rx[c] => SameGiven(c)
    BY <1>1 DEF SameGiven, Received
  <1>4. \A c \in Conns : Seat(c) = "in" => c \in Senders
    BY <1>0, SeatOf, RegistryAssumption
    DEF RegInv, RegistryConsistent, Senders, Registered
  <1> DEFINE p == Len(posted) - Len(room)
  <1>5. CASE CheckFlag \/ ReceiveTimeout \/ Dispatched
    <2>1. /\ UNCHANGED <<room, posted, rx, targets, lost>>
          /\ dpc # "collect" /\ dpc' # "collect"
      BY <1>5 DEF CheckFlag, ReceiveTimeout, Dispatched, chanVars
    <2>2. \A c \in Conns : SamePos(c)
      BY <2>1 DEF SamePos, DoneFor
    <2> QED  BY <1>2, <1>3, <2>1, <2>2, Stutters DEF Same
  <1>6. CASE Receive
    <2>1. /\ UNCHANGED <<posted, rx, targets, lost>> /\ targets = {}
          /\ dpc = "recv" /\ dpc' = "collect"
          /\ room # <<>> /\ room' = Tail(room)
      BY <1>0, <1>6 DEF Receive, Recv, Queue, chanVars
    <2>2. Len(room') = Len(room) - 1
      BY <1>0, <2>1, SMT
    <2>3. \A c \in Conns : DoneFor(c)' = DoneFor(c)
      BY <1>0, <2>1, <2>2, SMT DEF DoneFor
    <2> QED  BY <1>2, <1>3, <2>1, <2>3, Stutters DEF Same, SamePos
  <1>7. CASE Collect
    <2>1. /\ UNCHANGED <<room, posted, rx, lost>> /\ targets' = Senders
          /\ dpc = "collect" /\ dpc' = "send"
      BY <1>7 DEF Collect, chanVars
    <2> DEFINE S == Conns \ Senders
    <2>2. \A c \in Conns : DoneFor(c) = p - 1 /\ p - 1 < Len(posted)
      BY <1>0, <2>1, SMT DEF DoneFor
    <2>3. /\ \A c \in S : DoneFor(c)' = p
          /\ \A c \in Conns \ S : DoneFor(c)' = p - 1
      BY <1>0, <2>1, SMT DEF DoneFor
    <2>4. \A c \in S : DoneFor(c) < Len(posted) /\ DoneFor(c)' = DoneFor(c) + 1
      BY <1>0, <2>2, <2>3, SMT
    <2>5. \A c \in Conns \ S : SamePos(c)
      BY <2>2, <2>3 DEF SamePos
    <2>6. /\ {} \in SUBSET S /\ S \in SUBSET Conns /\ lost' = lost \cup {}
          /\ \A c \in S : Seat(c) = "in" => c \in {}
          /\ \A c \in Conns : SameSeat(c) /\ SameGiven(c)
      BY <1>2, <1>3, <1>4, <2>1
    <2> HIDE DEF S
    <2>7. Hall!Pass(S)
      BY <2>1, <2>4, <2>5, <2>6, Passes
    <2> QED  BY <2>6, <2>7 DEF Hall!Next
  <1>8. CASE CollectTimeout
    <2>1. /\ UNCHANGED <<room, posted, rx, targets>> /\ lost' = lost \cup Senders
          /\ targets = {} /\ dpc = "collect" /\ dpc' = "check"
      BY <1>0, <1>8 DEF CollectTimeout, chanVars, Queue
    <2>2. \A c \in Conns : /\ DoneFor(c) = p - 1 /\ DoneFor(c)' = p
                           /\ DoneFor(c) < Len(posted)
                           /\ DoneFor(c)' = DoneFor(c) + 1
      BY <1>0, <2>1, SMT DEF DoneFor
    <2>3. /\ Senders \in SUBSET Conns /\ Conns \in SUBSET Conns
          /\ \A c \in Conns : SameSeat(c) /\ SameGiven(c)
      BY <1>2, <1>3, <2>1 DEF Senders
    <2>4. Hall!Pass(Conns)
      BY <1>4, <2>1, <2>2, <2>3, Passes
    <2> QED  BY <2>3, <2>4 DEF Hall!Next
  <1>9. ASSUME NEW c \in Conns, c \in targets, dpc = "send", dpc' = "send",
               targets' = targets \ {c}, UNCHANGED <<room, posted>>
        PROVE  /\ \A d \in Conns \ {c} : SamePos(d)
               /\ DoneFor(c) = p - 1 /\ DoneFor(c)' = DoneFor(c) + 1
               /\ DoneFor(c) < Len(posted)
    BY <1>0, <1>9, SMT DEF SamePos, DoneFor
  <1>10. ASSUME NEW c \in Conns, DeliverClosed(c) PROVE Hall!Next
    <2>1. /\ c \in targets /\ dpc = "send" /\ dpc' = "send"
          /\ targets' = targets \ {c} /\ UNCHANGED <<room, posted, rx, lost>>
          /\ c \in closed
      BY <1>10 DEF DeliverClosed, chanVars
    <2>2. Seat(c) # "in" /\ {c} \in SUBSET Conns /\ {} \in SUBSET {c}
      BY <1>0, <2>1, SeatOf DEF Dropped
    <2>3. /\ lost' = lost \cup {}
          /\ \A d \in Conns : SameSeat(d) /\ SameGiven(d)
          /\ \A d \in {c} : Seat(d) = "in" => d \in {}
          /\ \A d \in {c} : DoneFor(d) < Len(posted) /\ DoneFor(d)' = DoneFor(d) + 1
          /\ \A d \in Conns \ {c} : SamePos(d)
      BY <1>2, <1>3, <1>9, <2>1, <2>2
    <2>4. Hall!Pass({c})
      BY <2>1, <2>2, <2>3, Passes
    <2> QED  BY <2>2, <2>4 DEF Hall!Next
  <1>11. ASSUME NEW c \in Conns, DeliverTimeout(c) PROVE Hall!Next
    <2>1. /\ c \in targets /\ dpc = "send" /\ dpc' = "send"
          /\ targets' = targets \ {c} /\ UNCHANGED <<room, posted, rx>>
          /\ lost' = lost \cup {c}
      BY <1>11 DEF DeliverTimeout, chanVars
    <2>2. {c} \in SUBSET Conns /\ {c} \in SUBSET {c}
      OBVIOUS
    <2>3. /\ \A d \in Conns : SameSeat(d) /\ SameGiven(d)
          /\ \A d \in {c} : Seat(d) = "in" => d \in {c}
          /\ \A d \in {c} : DoneFor(d) < Len(posted) /\ DoneFor(d)' = DoneFor(d) + 1
          /\ \A d \in Conns \ {c} : SamePos(d)
      BY <1>2, <1>3, <1>9, <2>1, <2>2
    <2>4. Hall!Pass({c})
      BY <2>1, <2>2, <2>3, Passes
    <2> QED  BY <2>2, <2>4 DEF Hall!Next
  <1>12. ASSUME NEW c \in Conns, Deliver(c) PROVE Hall!Next
    <2>1. /\ c \in targets /\ dpc = "send" /\ dpc' = "send"
          /\ targets' = targets \ {c} /\ UNCHANGED <<room, posted, lost>>
          /\ c \notin closed /\ rx' = [rx EXCEPT ![c] = @ \o dmsg]
      BY <1>12 DEF Deliver
    <2>2. Seat(c) = "in"
      <3>1. pc[c] \notin Unregistered /\ pc[c] \notin Ended
        BY <1>0, <2>1 DEF RegInv, UnauthHearsNothing, Dropped
      <3> QED  BY <1>0, <3>1, SeatOf
    <2>3. /\ \A d \in Conns \ {c} : SamePos(d) /\ SameGiven(d)
          /\ DoneFor(c) = p - 1 /\ DoneFor(c)' = DoneFor(c) + 1
          /\ DoneFor(c) < Len(posted)
      BY <1>0, <1>3, <1>9, <2>1 DEF TypeOK, BrokerTypeOK
    <2>4. Received(c)' = Append(Received(c), posted[DoneFor(c) + 1])
      <3> DEFINE h == heard[c]
                 r == rx[c]
                 n == posted[p]
      <3>1. /\ h \in Seq(RoomMsg) /\ r \in Seq(RoomMsg) /\ dmsg = <<n>>
            /\ DoneFor(c) + 1 = p /\ p \in 1..Len(posted)
        <4>1. /\ heard \in [Conns -> Seq(RoomMsg)] /\ rx \in [Conns -> Seq(RoomMsg)]
              /\ Len(posted) \in Nat /\ Len(room) \in Nat
          BY <1>0 DEF TypeOK, BrokerTypeOK, ConnectionTypeOK
        <4>2. Len(room) < Len(posted) /\ dmsg = <<n>>
          BY <1>0, <2>1 DEF Queue
        <4>3. p \in 1..Len(posted) /\ DoneFor(c) + 1 = p
          <5>1. p \in 1..Len(posted)
            BY <4>1, <4>2, SMT
          <5> HIDE DEF p
          <5> QED  BY <2>3, <4>1, <5>1, SMT
        <4> QED  BY <4>1, <4>2, <4>3
      <3>2. n \in RoomMsg
        BY <1>0, <3>1, ElementOfSeq DEF TypeOK, BrokerTypeOK
      <3>3. heard'[c] = h /\ rx'[c] = r \o <<n>>
        BY <1>0, <1>1, <2>1, <3>1 DEF TypeOK, BrokerTypeOK
      <3>4. Received(c) = h \o r /\ Received(c)' = h \o (r \o <<n>>)
        BY <3>3 DEF Received
      <3>5. posted[DoneFor(c) + 1] = n
        BY <3>1
      <3> HIDE DEF h, r, n
      <3>6. <<n>> \in Seq(RoomMsg)
        BY <3>2, SMT
      <3>7. h \o (r \o <<n>>) = (h \o r) \o <<n>>
        BY <3>1, <3>6, ConcatAssociative, SMT
      <3>8. (h \o r) \o <<n>> = Append(h \o r, n)
        BY <3>1, <3>2, SMT
      <3> QED  BY <3>4, <3>5, <3>7, <3>8
    <2>5. Hall!Hear(c)
      BY <1>2, <2>1, <2>2, <2>3, <2>4, Hears
    <2> QED  BY <2>5 DEF Hall!Next
  <1> QED
    BY <1>5, <1>6, <1>7, <1>8, <1>10, <1>11, <1>12 DEF Dispatcher

(* Every step of the server.                                               *)
LEMMA StepHall ==
  RegInv /\ HistInv /\ [Next \/ Done]_vars => [Hall!Next]_(Hall!vars)
  <1> SUFFICES ASSUME RegInv, HistInv, [Next \/ Done]_vars
               PROVE  Hall!Next \/ UNCHANGED Hall!vars
    OBVIOUS
  <1>0. TypeOK /\ TypeOK'
    BY TypeStep DEF RegInv
  <1>1. ASSUME UNCHANGED <<room, posted, dpc, targets, lost, heard, rx>>,
               \A c \in Conns : SameSeat(c)
        PROVE  UNCHANGED Hall!vars
    <2>1. \A c \in Conns : Same(c)
      BY <1>1 DEF Same, SameGiven, SamePos, Received, DoneFor
    <2> QED  BY <1>1, <2>1, Stutters
  <1>2. ASSUME UNCHANGED <<room, posted, dpc, targets, lost, heard, rx, pc>>
        PROVE  UNCHANGED Hall!vars
    BY <1>1, <1>2 DEF SameSeat, Seat
  <1>3. ASSUME NEW c \in Conns, Accept(c) PROVE UNCHANGED Hall!vars
    <2>1. \A d \in Conns : SameSeat(d)
      BY <1>0, <1>3 DEF Accept, SameSeat, Seat, Unregistered, TypeOK,
                        ConnectionTypeOK
    <2> QED  BY <1>1, <1>3, <2>1 DEF Accept, brokerVars, outVars
  <1>4. CASE AcquirePermit \/ AcceptError \/ CtrlC \/ Main
    BY <1>2, <1>4 DEF AcquirePermit, AcceptError, CtrlC, Main, StopBroker, Exit,
                      brokerVars, connVars, chanVars, dispVars, roomVars, outVars
  <1>5. ASSUME NEW c \in Conns, Peer(c) PROVE UNCHANGED Hall!vars
    <2>1. UNCHANGED peerFrame
      BY <1>5 DEF Peer, Write, WriteNewline, Close, Reset, Stall, Resume
    <2> QED  BY <1>2, <2>1 DEF peerFrame, brokerVars, outVars
  <1>6. CASE UNCHANGED vars
    BY <1>2, <1>6 DEF vars, brokerVars, connVars, outVars
  <1> QED
    BY <1>0, <1>3, <1>4, <1>5, <1>6, TickHall, DispatcherHall DEF Next, Done

(* The server starts as the promised room does.                            *)
LEMMA InitHall == Init => Hall!Init
  <1> SUFFICES ASSUME Init PROVE Hall!Init
    OBVIOUS
  <1>1. /\ posted = <<>> /\ room = <<>> /\ lost = {} /\ targets = {}
        /\ dpc = "check" /\ Len(posted) = 0 /\ Len(room) = 0
    BY DEF Init, ConnectionInit, BrokerInit, RoomInit
  <1>2. \A c \in Conns : pc[c] = "idle" /\ heard[c] = <<>> /\ rx[c] = <<>>
    BY DEF Init, ConnectionInit, BrokerInit
  <1>3. \A c \in Conns : Seat(c) = "new" /\ DoneFor(c) = 0
    <2>1. \A c \in Conns : Seat(c) = "new"
      BY <1>2 DEF Seat, Unregistered
    <2>2. ASSUME NEW c \in Conns PROVE DoneFor(c) = 0
      <3>1. (IF dpc = "collect" \/ c \in targets THEN 1 ELSE 0) = 0
        BY <1>1
      <3>2. 0 - 0 - 0 = 0
        BY SMT
      <3> QED  BY <1>1, <3>1, <3>2 DEF DoneFor
    <2> QED  BY <2>1, <2>2
  <1>4. <<>> \o <<>> = <<>>
    BY SMT
  <1>5. \A c \in Conns : Received(c) = <<>>
    BY <1>2, <1>4 DEF Received
  <1> QED  BY <1>1, <1>3, <1>5 DEF Hall!Init
-----------------------------------------------------------------------------
(* However its tasks interleave, the server gives its users the room that  *)
(* ChatRoom describes.                                                     *)
THEOREM ServerKeepsPromise == Spec => RoomPromise
  BY InitHall, StepHall, RegInvariant, HistInvariant, PTL
  DEF Spec, RoomPromise, Hall!Spec

(* A user to whom no offer timed out has been given a gapless run of the   *)
(* room's history.                                                         *)
THEOREM DeliveryHasNoGaps == Spec => []GapFree
  <1>1. Hall!Init => Promise!Init
    BY DEF Hall!Init, Promise!Init
  <1>2. [Hall!Next]_(Hall!vars) => [Promise!Next]_(Promise!vars)
    BY DEF Hall!Next, Hall!vars, Hall!Enter, Hall!Say, Hall!Hear, Hall!Pass,
           Hall!Leave, Hall!Follows, Promise!Next, Promise!vars,
           Promise!Enter, Promise!Say, Promise!Hear, Promise!Pass,
           Promise!Leave, Promise!Follows
  <1>3. Promise!GapFree => GapFree
    BY DEF Promise!GapFree, GapFree, Hall!GapFree
  <1>4. Promise!Spec => []Promise!GapFree
    BY Promise!RunsHaveNoGap
  <1> QED
    BY <1>1, <1>2, <1>3, <1>4, ServerKeepsPromise, PTL
    DEF RoomPromise, Hall!Spec, Promise!Spec

(* What one user says arrives at every other in order and at most once,    *)
(* whatever was lost.                                                      *)
THEOREM SendersAreFifo == Spec => []SenderFifo
  <1>1. Hall!Init => Promise!Init
    BY DEF Hall!Init, Promise!Init
  <1>2. [Hall!Next]_(Hall!vars) => [Promise!Next]_(Promise!vars)
    BY DEF Hall!Next, Hall!vars, Hall!Enter, Hall!Say, Hall!Hear, Hall!Pass,
           Hall!Leave, Hall!Follows, Promise!Next, Promise!vars,
           Promise!Enter, Promise!Say, Promise!Hear, Promise!Pass,
           Promise!Leave, Promise!Follows
  <1>3. Promise!SenderFifo => SenderFifo
    BY DEF Promise!SenderFifo, SenderFifo, Hall!SenderFifo, Promise!Follows,
           Hall!Follows
  <1> QED
    BY <1>1, <1>2, <1>3, Promise!SendersKeepOrder, ServerKeepsPromise, PTL
    DEF RoomPromise, Hall!Spec, Promise!Spec
=============================================================================
