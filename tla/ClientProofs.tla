---------------------------- MODULE ClientProofs ----------------------------
(***************************************************************************)
(* That the server is sent what the user entered, whatever the bounds, the *)
(* capacity of the channel and the faults.                                 *)
(*                                                                         *)
(* A command is in one of three places after it was entered: in the hands  *)
(* of the readline thread, in the channel, or taken by main.  The channel  *)
(* holds a stretch of what was typed, without a gap, and what main has     *)
(* taken is all that came before it; while main takes commands it has      *)
(* written all of those that are known, and no LEAVE.                      *)
(***************************************************************************)
EXTENDS Client, TLAPS

Handing == IF input \in {"send", "sendLast"} THEN 1 ELSE 0
Taken == Len(typed) - Len(cmds) - Handing

Early == {"connect", "join", "answer"}

ClientTypes ==
  /\ main \in Early \cup {"recv", "break", "awaitReader", "joinThread", "exited",
                          "failed"}
  /\ input \in {"none", "open", "check", "readline", "send", "sendLast", "done"}
  /\ typed \in Seq([kind : Kinds, num : Nat])
  /\ cmds \in Seq([kind : Kinds, num : Nat])
  /\ sent \in Seq([kind : Kinds \cup {"join"}, num : Nat])

NoLeave == \A i \in 1..Len(sent) : sent[i].kind # "leave"

(* The inductive invariant.                                                *)
ClientInv ==
  /\ ClientTypes
  /\ \A j \in 1..Len(typed) : typed[j].num = j
  /\ Taken \in Nat
  /\ \A i \in 1..Len(cmds) : cmds[i] = typed[Taken + i]
  /\ main \in Early =>
       /\ input = "none" /\ typed = <<>> /\ cmds = <<>>
       /\ sent = IF main = "answer" THEN <<Command("join", 0)>> ELSE <<>>
  /\ main = "recv" => sent # <<>> /\ Upto(Taken) /\ NoLeave
  /\ SentIsTyped

(* How much is sent at most, and who runs before the answer to the JOIN.   *)
Bounded ==
  /\ reader = "none" <=> input = "none"
  /\ input = "none" => typed = <<>>
  /\ main \in Early => reader = "none"
  /\ reader = "none" => main \in Early \cup {"failed"}
  /\ Len(typed) <= MaxInput
  /\ Len(sent) <= Len(typed) + 1
  /\ main = "recv" => Len(sent) <= Taken + 1
-----------------------------------------------------------------------------
(* The elements of a sequence.                                             *)
LEMMA Element ==
  ASSUME NEW S, NEW s \in Seq(S), NEW i \in 1..Len(s)
  PROVE  s[i] \in S
OBVIOUS

(* More typing leaves the first k commands as they are.                    *)
LEMMA TypedMore ==
  ASSUME ClientTypes, NEW k \in 0..Len(typed), Upto(k),
         NEW e, typed' = Append(typed, e), UNCHANGED sent
  PROVE  Upto(k)'
<1>1. \A j \in 1..k : j \in 1..Len(typed) /\ typed'[j] = typed[j]
  BY DEF ClientTypes
<1>2. \A j \in 1..k : Known(typed[j])' <=> Known(typed[j])
  BY <1>1 DEF Known
<1>. QED
  BY <1>1, <1>2 DEF Upto

(* The next command is not known: the first k + 1 are covered.             *)
LEMMA SkipsUnknown ==
  ASSUME ClientTypes, NEW k \in Nat, Upto(k), ~Known(typed[k + 1])
  PROVE  Upto(k + 1)
<1>1. \A j \in 1..k + 1 : j \in 1..k \/ j = k + 1
  OBVIOUS
<1>2. \A j \in 1..k : j \in 1..k + 1
  OBVIOUS
<1>. QED
  BY <1>1, <1>2 DEF Upto

(* The next command is known and is written.                               *)
LEMMA SendsKnown ==
  ASSUME ClientTypes, \A j \in 1..Len(typed) : typed[j].num = j,
         sent # <<>>, NEW k \in Nat, k + 1 <= Len(typed),
         Upto(k), Known(typed[k + 1]),
         sent' = Append(sent, typed[k + 1]), UNCHANGED typed
  PROVE  Upto(k + 1)'
<1> DEFINE n == Len(sent)
<1>1. n \in Nat /\ n > 0
  BY DEF ClientTypes
<1>2. Len(sent') = n + 1 /\ sent'[n + 1] = typed[k + 1]
      /\ \A i \in 1..n : sent'[i] = sent[i]
  BY DEF ClientTypes
<1>3. \A i \in 2..Len(sent') : i \in 2..n \/ i = n + 1
  BY <1>1, <1>2
<1>4. n + 1 \in 2..Len(sent') /\ \A i \in 2..n : i \in 1..n /\ i \in 2..Len(sent')
  BY <1>1, <1>2
<1>5. \A j \in 1..k + 1 : (j \in 1..k \/ j = k + 1) /\ j \in 1..Len(typed)
  OBVIOUS
<1>6. k + 1 \in 1..k + 1 /\ \A j \in 1..k : j \in 1..k + 1
  OBVIOUS
<1>. HIDE DEF n
<1>7. \A i \in 2..Len(sent') : \E j \in 1..k + 1 :
        Known(typed[j]) /\ sent'[i] = typed[j]
  <2> SUFFICES ASSUME NEW i \in 2..Len(sent')
               PROVE  \E j \in 1..k + 1 : Known(typed[j]) /\ sent'[i] = typed[j]
    OBVIOUS
  <2>1. CASE i \in 2..n
    <3>1. PICK j \in 1..k : Known(typed[j]) /\ sent[i] = typed[j]
      BY <2>1 DEF Upto, n
    <3>2. j \in 1..k + 1 /\ sent'[i] = sent[i]
      BY <1>2, <1>4, <1>6, <2>1
    <3>. QED
      BY <3>1, <3>2
  <2>2. CASE i = n + 1
    <3>1. k + 1 \in 1..k + 1 /\ Known(typed[k + 1]) /\ sent'[i] = typed[k + 1]
      BY <1>2, <1>6, <2>2
    <3>. QED
      BY <3>1, Zenon
  <2>. QED
    BY <1>3, <2>1, <2>2
<1>8. \A j \in 1..k + 1 : Known(typed[j]) =>
        \E i \in 2..Len(sent') : sent'[i] = typed[j]
  <2> SUFFICES ASSUME NEW j \in 1..k + 1, Known(typed[j])
               PROVE  \E i \in 2..Len(sent') : sent'[i] = typed[j]
    OBVIOUS
  <2>1. CASE j \in 1..k
    <3>1. PICK i \in 2..n : sent[i] = typed[j]
      BY <2>1 DEF Upto, n
    <3>2. i \in 2..Len(sent') /\ sent'[i] = sent[i]
      BY <1>2, <1>4
    <3>. QED
      BY <3>1, <3>2
  <2>2. CASE j = k + 1
    <3>1. n + 1 \in 2..Len(sent') /\ sent'[n + 1] = typed[j]
      BY <1>2, <1>4, <2>2
    <3>. QED
      BY <3>1, Zenon
  <2>. QED
    BY <1>5, <2>1, <2>2
<1>9. \A i, j \in 2..Len(sent') : i < j => sent'[i].num < sent'[j].num
  <2> SUFFICES ASSUME NEW i \in 2..Len(sent'), NEW j \in 2..Len(sent'), i < j
               PROVE  sent'[i].num < sent'[j].num
    OBVIOUS
  <2>1. i \in 2..n /\ (j \in 2..n \/ j = n + 1)
    BY <1>1, <1>2
  <2>2. CASE j \in 2..n
    BY <2>1, <2>2, <1>2, <1>4 DEF Upto, n
  <2>3. CASE j = n + 1
    <3>1. PICK m \in 1..k : sent[i] = typed[m]
      BY <2>1 DEF Upto, n
    <3>2. sent'[i] = typed[m] /\ m \in 1..Len(typed)
      BY <3>1, <2>1, <1>2, <1>4
    <3>3. sent'[i].num = m /\ sent'[j].num = k + 1
      BY <3>2, <2>3, <1>2
    <3>. QED
      BY <3>3
  <2>. QED
    BY <2>1, <2>2, <2>3
<1>. QED
  BY <1>7, <1>8, <1>9 DEF Upto, Known

(* What was sent when no LEAVE was, with one more line.                    *)
LEMMA LeaveLast ==
  ASSUME ClientTypes, NoLeave, NEW e, sent' = Append(sent, e)
  PROVE  /\ \A i \in 1..Len(sent') - 1 : sent'[i].kind # "leave"
         /\ e.kind # "leave" => NoLeave'
<1>1. Len(sent') = Len(sent) + 1 /\ sent'[Len(sent) + 1] = e
      /\ \A i \in 1..Len(sent) : sent'[i] = sent[i]
  BY DEF ClientTypes
<1>2. \A i \in 1..Len(sent') : i \in 1..Len(sent) \/ i = Len(sent) + 1
  BY <1>1 DEF ClientTypes
<1>3. \A i \in 1..Len(sent') - 1 : i \in 1..Len(sent)
  BY <1>1 DEF ClientTypes
<1>. QED
  BY <1>1, <1>2, <1>3 DEF NoLeave
-----------------------------------------------------------------------------
(* A step that neither writes, types nor moves a command.                  *)
LEMMA Idles ==
  ASSUME ClientInv, UNCHANGED <<typed, cmds, sent>>, ClientTypes',
         Handing' = Handing, main' = "recv" => main = "recv",
         main' \in Early => /\ main \in Early /\ UNCHANGED input
                            /\ main' = "answer" <=> main = "answer"
  PROVE  ClientInv'
<1>1. Taken' = Taken
  BY DEF Taken
<1>2. \A k : Upto(k)' <=> Upto(k)
  BY DEF Upto, Known
<1>3. SentIsTyped' /\ (NoLeave' <=> NoLeave)
  BY <1>2 DEF ClientInv, SentIsTyped, NoLeave
<1>. QED
  BY <1>1, <1>2, <1>3 DEF ClientInv, Command

(* Nothing has been typed and no more than the JOIN has been written.      *)
Blank ==
  /\ typed = <<>> /\ cmds = <<>> /\ Handing = 0
  /\ sent \in {<<>>, <<Command("join", 0)>>}
Fresh ==
  /\ \A j \in 1..Len(typed) : typed[j].num = j
  /\ Taken \in Nat
  /\ \A i \in 1..Len(cmds) : cmds[i] = typed[Taken + i]
  /\ Upto(Taken) /\ NoLeave /\ SentIsTyped

(* Then what the invariant says of the commands holds.                     *)
LEMMA Nothing == Blank => Fresh
<1> SUFFICES ASSUME Blank PROVE Fresh
  OBVIOUS
<1> USE DEF Blank, Fresh
<1>1. Len(typed) = 0 /\ Len(cmds) = 0 /\ Taken = 0
  BY DEF Taken
<1>2. Len(sent) \in {0, 1} /\ \A i \in 1..Len(sent) : sent[i] = Command("join", 0)
  OBVIOUS
<1>3. Upto(0)
  BY <1>2 DEF Upto
<1>4. NoLeave
  BY <1>2 DEF NoLeave, Command
<1>5. SentIsTyped
  <2>1. 0 \in 0..Len(typed)
    BY <1>1
  <2>2. \A i \in 1..Len(sent) - 1 : i \in 1..Len(sent)
    BY <1>2
  <2>. QED
    BY <2>1, <2>2, <1>3, <1>4 DEF SentIsTyped, NoLeave
<1>. QED
  BY <1>1, <1>3, <1>4, <1>5

(* main connects, and has sent nothing yet.                                *)
LEMMA ConnectKeeps ==
  ASSUME ClientInv, Connect
  PROVE  ClientInv'
<1>1. main = "connect" /\ main' \in {"join", "failed"}
      /\ UNCHANGED <<input, typed, cmds, sent>>
  BY DEF Connect
<1>2. ClientTypes' /\ Handing' = Handing
  BY <1>1 DEF ClientInv, ClientTypes, Early, Handing
<1>. QED
  BY <1>1, <1>2, Idles DEF Early

(* main sends the JOIN, the first line of all.                             *)
LEMMA JoinKeeps ==
  ASSUME ClientInv, Join
  PROVE  ClientInv'
<1>1. main = "join" /\ main' \in {"answer", "failed"}
      /\ UNCHANGED <<input, typed, cmds>>
  BY DEF Join
<1>2. input = "none" /\ typed = <<>> /\ cmds = <<>> /\ sent = <<>>
  BY <1>1 DEF ClientInv, Early
<1>3. sent' \in {<<>>, <<Command("join", 0)>>}
      /\ (main' = "answer" => sent' = <<Command("join", 0)>>)
  BY <1>2 DEF Join
<1>4. ClientTypes' /\ Handing' = 0
  <2>1. Command("join", 0) \in [kind : Kinds \cup {"join"}, num : Nat]
    BY DEF Command
  <2>2. sent' \in Seq([kind : Kinds \cup {"join"}, num : Nat])
    <3>1. <<Command("join", 0)>> \in Seq([kind : Kinds \cup {"join"}, num : Nat])
      BY <2>1
    <3>2. \A S : <<>> \in Seq(S)
      OBVIOUS
    <3>. QED
      BY <3>1, <3>2, <1>3, Zenon
  <2>. QED
    BY <1>1, <1>2, <2>2 DEF ClientInv, ClientTypes, Early, Handing
<1>5. Blank'
  BY <1>1, <1>2, <1>3, <1>4 DEF Blank, Command
<1>6. Fresh'
  BY <1>5, Nothing, PTL
<1>. QED
  BY <1>1, <1>2, <1>3, <1>4, <1>6 DEF ClientInv, Early, Command, Fresh

(* main takes the answer to the JOIN, and starts the readline thread.      *)
LEMMA AnswerKeeps ==
  ASSUME ClientInv, Answer
  PROVE  ClientInv'
<1>1. main = "answer" /\ UNCHANGED <<typed, cmds, sent>>
  BY DEF Answer
<1>2. input = "none" /\ typed = <<>> /\ cmds = <<>>
      /\ sent = <<Command("join", 0)>>
  BY <1>1 DEF ClientInv, Early
<1>3. \/ main' = "recv" /\ input' = "open"
      \/ main' = "failed" /\ input' = input
  BY DEF Answer
<1>4. ClientTypes' /\ Handing' = 0
  BY <1>1, <1>2, <1>3 DEF ClientInv, ClientTypes, Early, Handing
<1>5. Blank'
  BY <1>1, <1>2, <1>4 DEF Blank, Command
<1>6. Fresh'
  BY <1>5, Nothing, PTL
<1>7. sent' # <<>>
  BY <1>1, <1>2
<1>. QED
  BY <1>3, <1>4, <1>6, <1>7 DEF ClientInv, Early, Fresh

(* A command moves from the channel to main.                               *)
LEMMA TakeKeeps ==
  ASSUME ClientInv, Take
  PROVE  ClientInv'
<1> DEFINE c == Head(cmds)
<1>0. PICK k \in Nat : k = Taken
  BY DEF ClientInv
<1>1. main = "recv" /\ cmds # <<>> /\ cmds' = Tail(cmds) /\ UNCHANGED <<input, typed>>
  BY DEF Take
<1>2. ClientTypes /\ k \in Nat /\ sent # <<>> /\ Upto(k) /\ NoLeave
      /\ \A j \in 1..Len(typed) : typed[j].num = j
  BY <1>0, <1>1 DEF ClientInv
<1>3. cmds \in Seq([kind : Kinds, num : Nat]) /\ Len(typed) \in Nat
      /\ typed \in Seq([kind : Kinds, num : Nat])
  BY <1>2 DEF ClientTypes
<1>4. Len(cmds) \in Nat \ {0} /\ c = cmds[1] /\ Len(cmds') = Len(cmds) - 1
      /\ cmds' \in Seq([kind : Kinds, num : Nat])
      /\ \A i \in 1..Len(cmds') : i + 1 \in 1..Len(cmds) /\ cmds'[i] = cmds[i + 1]
  BY <1>1, <1>3
<1>5. Handing \in {0, 1} /\ Handing' = Handing
  BY <1>1 DEF Handing
<1>6. Taken' = k + 1 /\ k + 1 \in Nat /\ k + 1 <= Len(typed)
  BY <1>0, <1>1, <1>2, <1>3, <1>4, <1>5 DEF Taken
<1>7. c = typed[k + 1] /\ c \in [kind : Kinds, num : Nat]
  <2>1. 1 \in 1..Len(cmds) /\ k + 1 \in 1..Len(typed)
    BY <1>2, <1>3, <1>4, <1>6
  <2>2. cmds[1] = typed[Taken + 1]
    BY <2>1 DEF ClientInv
  <2>3. c = typed[k + 1]
    BY <2>2, <1>0, <1>4
  <2>4. typed[k + 1] \in [kind : Kinds, num : Nat]
    BY <2>1, <1>3, Element
  <2>. QED
    BY <2>3, <2>4
<1>8. \A i \in 1..Len(cmds') : cmds'[i] = typed'[Taken' + i]
  <2> SUFFICES ASSUME NEW i \in 1..Len(cmds') PROVE cmds'[i] = typed'[Taken' + i]
    OBVIOUS
  <2>1. cmds'[i] = typed[Taken + (i + 1)]
    BY <1>4 DEF ClientInv
  <2>2. Taken + (i + 1) = Taken' + i
    BY <1>0, <1>2, <1>4, <1>6
  <2>. QED
    BY <2>1, <2>2, <1>1
<1>. HIDE DEF c
<1>9. \/ main' = "break" /\ UNCHANGED sent
      \/ ~Known(c) /\ main' = "recv" /\ UNCHANGED sent
      \/ /\ Known(c) /\ sent' = Append(sent, c)
         /\ main' = IF c.kind = "leave" THEN "break" ELSE "recv"
      \/ main' = "failed" /\ UNCHANGED sent
      \/ /\ main' = "failed" /\ Known(c) /\ sent' = Append(sent, c)
  BY <1>1 DEF Take, Known, c
<1>10. ClientTypes'
  <2>1. c \in [kind : Kinds \cup {"join"}, num : Nat]
    BY <1>7
  <2>2. sent' \in Seq([kind : Kinds \cup {"join"}, num : Nat])
    <3>1. sent \in Seq([kind : Kinds \cup {"join"}, num : Nat])
      BY <1>2 DEF ClientTypes
    <3>2. Append(sent, c) \in Seq([kind : Kinds \cup {"join"}, num : Nat])
      BY <2>1, <3>1
    <3>. QED
      BY <3>1, <3>2, <1>9, Zenon
  <2>3. main' \in {"recv", "break", "failed"}
    BY <1>9
  <2>. QED
    BY <1>1, <1>2, <1>4, <2>2, <2>3 DEF ClientTypes, Early
<1>11. /\ Taken' \in Nat /\ main' \notin Early
       /\ \A j \in 1..Len(typed') : typed'[j].num = j
  BY <1>1, <1>2, <1>6, <1>9 DEF Early
<1>12. SUFFICES (main' = "recv" => sent' # <<>> /\ Upto(k + 1)' /\ NoLeave')
                /\ SentIsTyped'
  BY <1>6, <1>8, <1>10, <1>11, Zenon DEF ClientInv
<1>13. k \in 0..Len(typed') /\ k + 1 \in 0..Len(typed')
  BY <1>1, <1>2, <1>3, <1>6
<1>14. CASE UNCHANGED sent
  <2>1. Upto(k)' /\ NoLeave' /\ sent' # <<>>
    BY <1>1, <1>2, <1>14 DEF Upto, NoLeave, Known
  <2>2. SentIsTyped'
    <3>1. \A i \in 1..Len(sent) - 1 : sent[i].kind # "leave"
      BY DEF ClientInv, SentIsTyped
    <3>. QED
      BY <2>1, <3>1, <1>13, <1>14 DEF SentIsTyped
  <2>3. main' = "recv" => ~Known(c)
    <3>1. sent' = Append(sent, c) => sent' # sent
      BY <1>2 DEF ClientTypes
    <3>. QED
      BY <3>1, <1>9, <1>14
  <2>4. main' = "recv" => Upto(k + 1)
    BY <2>3, <1>2, <1>7, SkipsUnknown
  <2>5. main' = "recv" => Upto(k + 1)'
    BY <2>4, <1>1, <1>14 DEF Upto, Known
  <2>. QED
    BY <2>1, <2>2, <2>5
<1>15. CASE Known(c) /\ sent' = Append(sent, c)
  <2>1. Upto(k + 1)'
    BY <1>1, <1>2, <1>6, <1>7, <1>15, SendsKnown
  <2>2. /\ \A i \in 1..Len(sent') - 1 : sent'[i].kind # "leave"
        /\ c.kind # "leave" => NoLeave'
    BY <1>2, <1>15, LeaveLast
  <2>3. main' = "recv" => c.kind # "leave"
    <3>1. sent' # sent
      BY <1>2, <1>15 DEF ClientTypes
    <3>. QED
      BY <3>1, <1>9
  <2>4. sent' # <<>>
    <3>1. Len(Append(sent, c)) = Len(sent) + 1 /\ Len(sent) \in Nat
      BY <1>2 DEF ClientTypes
    <3>. QED
      BY <3>1, <1>15
  <2>. QED
    BY <2>1, <2>2, <2>3, <2>4, <1>13 DEF SentIsTyped
<1>. QED
  BY <1>9, <1>14, <1>15

(* main is past its loop, or finds the channel closed and leaves it.       *)
LEMMA NoMoreKeeps ==
  ASSUME ClientInv, NoMoreCommands \/ SetFlag \/ AwaitReader \/ JoinThread
  PROVE  ClientInv'
<1>1. main' \in {"break", "awaitReader", "joinThread", "exited"}
      /\ UNCHANGED <<input, typed, cmds, sent>>
  BY DEF NoMoreCommands, SetFlag, AwaitReader, JoinThread
<1>2. ClientTypes' /\ Handing' = Handing
  BY <1>1 DEF ClientInv, ClientTypes, Early, Handing
<1>. QED
  BY <1>1, <1>2, Idles DEF Early

(* The reader task neither types nor sends.                                *)
LEMMA ReaderKeeps ==
  ASSUME ClientInv, Reader
  PROVE  ClientInv'
<1>1. UNCHANGED <<main, input, typed, cmds, sent>>
  BY DEF Reader, ReadLine, ReadEnds
<1>2. ClientTypes' /\ Handing' = Handing
  BY <1>1 DEF ClientInv, ClientTypes, Handing
<1>. QED
  BY <1>1, <1>2, Idles

(* The readline thread before and between commands.                        *)
LEMMA ThreadKeeps ==
  ASSUME ClientInv, OpenEditor \/ CheckFlag \/ Enter \/ ReadlineError
  PROVE  ClientInv'
<1>1. input \in {"open", "check", "readline"}
      /\ input' \in {"check", "readline", "done"}
      /\ UNCHANGED <<main, typed, cmds, sent>>
  BY DEF OpenEditor, CheckFlag, Enter, ReadlineError
<1>2. ClientTypes' /\ Handing' = Handing
  BY <1>1 DEF ClientInv, ClientTypes, Handing
<1>3. main \notin Early
  BY <1>1 DEF ClientInv
<1>. QED
  BY <1>1, <1>2, <1>3, Idles

(* A command moves from the thread to the channel.                         *)
LEMMA HandKeeps ==
  ASSUME ClientInv, Hand
  PROVE  ClientInv'
<1> DEFINE e == typed[Len(typed)]
<1>1. input \in {"send", "sendLast"} /\ input' \in {"check", "done"}
      /\ cmds' = Append(cmds, e) /\ UNCHANGED <<main, typed, sent>>
  BY DEF Hand
<1>2. Handing = 1 /\ Handing' = 0 /\ main \notin Early
  BY <1>1 DEF Handing, ClientInv
<1>3. cmds \in Seq([kind : Kinds, num : Nat]) /\ Len(cmds) \in Nat
      /\ typed \in Seq([kind : Kinds, num : Nat]) /\ Len(typed) \in Nat
      /\ Taken \in Nat
  BY DEF ClientInv, ClientTypes
<1>4. Len(typed) \in 1..Len(typed) /\ Taken + (Len(cmds) + 1) = Len(typed)
  BY <1>2, <1>3 DEF Taken
<1>5. e \in [kind : Kinds, num : Nat]
  BY <1>3, <1>4, Element
<1>. HIDE DEF e
<1>6. cmds' \in Seq([kind : Kinds, num : Nat]) /\ Len(cmds') = Len(cmds) + 1
      /\ cmds'[Len(cmds) + 1] = e /\ \A i \in 1..Len(cmds) : cmds'[i] = cmds[i]
  BY <1>1, <1>3, <1>5
<1>7. ClientTypes'
  BY <1>1, <1>6 DEF ClientInv, ClientTypes
<1>8. Taken' = Taken
  BY <1>1, <1>2, <1>3, <1>6 DEF Taken
<1>9. \A i \in 1..Len(cmds') : cmds'[i] = typed'[Taken' + i]
  <2> SUFFICES ASSUME NEW i \in 1..Len(cmds') PROVE cmds'[i] = typed[Taken + i]
    BY <1>1, <1>8
  <2>1. i \in 1..Len(cmds) \/ i = Len(cmds) + 1
    BY <1>3, <1>6
  <2>2. CASE i \in 1..Len(cmds)
    BY <2>2, <1>6 DEF ClientInv
  <2>3. CASE i = Len(cmds) + 1
    BY <2>3, <1>4, <1>6 DEF e
  <2>. QED
    BY <2>1, <2>2, <2>3
<1>10. \A k : Upto(k)' <=> Upto(k)
  BY <1>1 DEF Upto, Known
<1>11. SentIsTyped' /\ (NoLeave' <=> NoLeave)
  BY <1>1, <1>10 DEF ClientInv, SentIsTyped, NoLeave
<1>. QED
  BY <1>1, <1>2, <1>7, <1>8, <1>9, <1>10, <1>11 DEF ClientInv

(* The user enters a command.                                              *)
LEMMA TypeKeeps ==
  ASSUME ClientInv, Type
  PROVE  ClientInv'
<1>1. PICK kind \in Kinds : typed' = Append(typed, Command(kind, Len(typed) + 1))
  BY DEF Type, Kinds
<1> DEFINE e == Command(kind, Len(typed) + 1)
<1>2. input = "readline" /\ input' \in {"send", "sendLast"}
      /\ UNCHANGED <<main, cmds, sent>>
  BY DEF Type
<1>3. Handing = 0 /\ Handing' = 1 /\ main \notin Early
  BY <1>2 DEF Handing, ClientInv
<1>4. Len(cmds) \in Nat /\ Len(typed) \in Nat /\ Taken \in Nat
      /\ typed \in Seq([kind : Kinds, num : Nat])
  BY DEF ClientInv, ClientTypes
<1>5. e \in [kind : Kinds, num : Nat] /\ e.num = Len(typed) + 1
  BY <1>4 DEF Command
<1>. HIDE DEF e
<1>6. typed' = Append(typed, e)
  BY <1>1 DEF e
<1>7. typed' \in Seq([kind : Kinds, num : Nat]) /\ Len(typed') = Len(typed) + 1
      /\ typed'[Len(typed) + 1] = e /\ \A i \in 1..Len(typed) : typed'[i] = typed[i]
  BY <1>4, <1>5, <1>6
<1>8. ClientTypes'
  BY <1>2, <1>7 DEF ClientInv, ClientTypes
<1>9. Taken' = Taken /\ Taken + Len(cmds) = Len(typed)
  BY <1>2, <1>3, <1>4, <1>7 DEF Taken
<1>10. \A j \in 1..Len(typed') : typed'[j].num = j
  <2>1. \A j \in 1..Len(typed') : j \in 1..Len(typed) \/ j = Len(typed) + 1
    BY <1>4, <1>7
  <2>. QED
    BY <2>1, <1>5, <1>7 DEF ClientInv
<1>11. \A i \in 1..Len(cmds') : cmds'[i] = typed'[Taken' + i]
  <2> SUFFICES ASSUME NEW i \in 1..Len(cmds) PROVE cmds[i] = typed'[Taken + i]
    BY <1>2, <1>9
  <2>1. Taken + i \in 1..Len(typed)
    BY <1>4, <1>9
  <2>2. cmds[i] = typed[Taken + i]
    BY DEF ClientInv
  <2>. QED
    BY <2>1, <2>2, <1>7
<1>12. \A k \in 0..Len(typed) : Upto(k) => Upto(k)'
  BY <1>2, <1>6, TypedMore DEF ClientInv
<1>13. SentIsTyped'
  <2>1. PICK k \in 0..Len(typed) : Upto(k)
    BY DEF ClientInv, SentIsTyped
  <2>2. k \in 0..Len(typed')
    BY <1>4, <1>7
  <2>3. \A i \in 1..Len(sent) - 1 : sent[i].kind # "leave"
    BY DEF ClientInv, SentIsTyped
  <2>. QED
    BY <2>1, <2>2, <2>3, <1>2, <1>12 DEF SentIsTyped
<1>14. main' = "recv" => sent' # <<>> /\ Upto(Taken)' /\ NoLeave'
  <2> SUFFICES ASSUME main = "recv" PROVE sent # <<>> /\ Upto(Taken)' /\ NoLeave'
    BY <1>2
  <2>1. PICK k \in 0..Len(typed) : k = Taken
    BY <1>4, <1>9
  <2>2. sent # <<>> /\ Upto(k) /\ NoLeave
    BY <2>1 DEF ClientInv
  <2>3. Upto(k)'
    BY <2>2, <1>12
  <2>. QED
    BY <2>1, <2>2, <2>3, <1>2, <1>9 DEF NoLeave
<1>. QED
  BY <1>2, <1>3, <1>4, <1>8, <1>9, <1>10, <1>11, <1>13, <1>14 DEF ClientInv
-----------------------------------------------------------------------------
(* Every step of the client, wherever it runs, and any step of its         *)
(* environment.                                                            *)
LEMMA ClientStep ==
  ASSUME ClientInv, Writes \/ Step \/ UNCHANGED local
  PROVE  ClientInv'
<1>1. CASE Writes
  BY <1>1, JoinKeeps, TakeKeeps DEF Writes
<1>2. CASE MainStep
  BY <1>2, ConnectKeeps, AnswerKeeps, NoMoreKeeps DEF MainStep
<1>3. CASE Reader
  BY <1>3, ReaderKeeps
<1>4. CASE Thread
  BY <1>4, ThreadKeeps, HandKeeps DEF Thread
<1>5. CASE User
  BY <1>5, ThreadKeeps, TypeKeeps DEF User
<1>6. CASE UNCHANGED local
  <2>1. ClientTypes' /\ Handing' = Handing /\ UNCHANGED <<main, input, typed, cmds, sent>>
    BY <1>6 DEF ClientInv, ClientTypes, Handing, local
  <2>. QED
    BY <2>1, Idles
<1>. QED
  BY <1>1, <1>2, <1>3, <1>4, <1>5, <1>6 DEF Step

(* At first nothing has been typed, handed over or sent.                   *)
LEMMA ClientInit == LocalInit => ClientInv
<1> SUFFICES ASSUME LocalInit PROVE ClientInv
  OBVIOUS
<1>1. ClientTypes /\ Blank /\ main = "connect" /\ input = "none"
  BY DEF LocalInit, ClientTypes, Early, Blank, Handing
<1>2. Fresh
  BY <1>1, Nothing
<1>. QED
  BY <1>1, <1>2 DEF ClientInv, Fresh, LocalInit, Early

(* What the server is sent is what was typed, from the first command on,   *)
(* in order, without a gap, and with nothing after a LEAVE: however the    *)
(* readline thread, main and the connection's end are interleaved, and     *)
(* whatever the capacity of the channel between the two.                   *)
THEOREM ServerIsSentWhatWasTyped == Spec => []SentIsTyped
<1>1. Init => ClientInv
  BY ClientInit DEF Init
<1>2. ClientInv /\ [Next \/ Done]_vars => ClientInv'
  <2> SUFFICES ASSUME ClientInv, [Next \/ Done]_vars PROVE ClientInv'
    OBVIOUS
  <2>1. Writes \/ Step \/ UNCHANGED local
    BY DEF Next, Done, Server, Talks, Closes, vars
  <2>. QED
    BY <2>1, ClientStep
<1>3. ClientInv => SentIsTyped
  BY DEF ClientInv
<1>. QED
  BY <1>1, <1>2, <1>3, PTL DEF Spec
-----------------------------------------------------------------------------
(* A step that neither writes, types nor moves a command.                  *)
LEMMA IdlesBounded ==
  ASSUME Bounded, UNCHANGED <<typed, cmds, sent>>, Handing' = Handing,
         main' = "recv" => main = "recv",
         main' \in Early => main \in Early,
         main \in Early \cup {"failed"} /\ reader = "none" =>
           main' \in Early \cup {"failed"},
         (reader = "none" /\ UNCHANGED <<reader, input>>)
           \/ (reader # "none" /\ reader' # "none" /\ input' # "none"
               /\ main \notin Early)
  PROVE  Bounded'
<1>1. Taken' = Taken
  BY DEF Taken
<1>. QED
  BY <1>1 DEF Bounded

(* The lengths of what is typed, sent and queued are numbers.              *)
LEMMA Lengths ==
  ASSUME ClientInv
  PROVE  Len(typed) \in Nat /\ Len(cmds) \in Nat /\ Len(sent) \in Nat
         /\ Taken \in Nat /\ Handing \in {0, 1} /\ Taken <= Len(typed)
         /\ Taken = Len(typed) - Len(cmds) - Handing
<1>1. Len(typed) \in Nat /\ Len(cmds) \in Nat /\ Len(sent) \in Nat /\ Taken \in Nat
  BY DEF ClientInv, ClientTypes
<1>2. Handing \in {0, 1}
  BY DEF Handing
<1>. QED
  BY <1>1, <1>2 DEF Taken

(* main writes.                                                            *)
LEMMA WritesBounded ==
  ASSUME ClientInv, Bounded, MaxInput \in Nat, Writes
  PROVE  Bounded'
<1>1. CASE Join
  <2>1. main = "join" /\ main' \in {"answer", "failed"}
        /\ UNCHANGED <<reader, input, typed, cmds>>
        /\ sent' \in {sent, Append(sent, Command("join", 0))}
    BY <1>1 DEF Join
  <2>2. typed = <<>> /\ sent = <<>>
    BY <2>1 DEF ClientInv, Early
  <2>3. Len(sent') <= 1 /\ Len(typed') = 0
    <3>1. sent' \in {<<>>, <<Command("join", 0)>>}
      BY <2>1, <2>2
    <3>2. Len(sent') \in {0, 1}
      BY <3>1
    <3>3. typed' = <<>>
      BY <2>1, <2>2
    <3>4. Len(typed') = 0
      BY <3>3
    <3>5. \A n : n \in {0, 1} => n <= 1
      OBVIOUS
    <3>. QED
      BY <3>2, <3>4, <3>5
  <2>4. Len(sent') <= Len(typed') + 1
    BY <2>3
  <2>. QED
    BY <2>1, <2>3, <2>4 DEF Bounded, Early
<1>2. CASE Take
  <2>1. main = "recv" /\ cmds # <<>> /\ cmds' = Tail(cmds)
        /\ UNCHANGED <<reader, input, typed>>
        /\ main' \in {"recv", "break", "failed"}
        /\ sent' \in {sent, Append(sent, Head(cmds))}
    BY <1>2 DEF Take
  <2>2. Len(cmds') = Len(cmds) - 1 /\ Len(cmds) > 0 /\ Len(sent') <= Len(sent) + 1
    BY <2>1, Lengths DEF ClientInv, ClientTypes
  <2>3. Handing' = Handing
    BY <2>1 DEF Handing
  <2>4. Len(typed') = Len(typed)
    BY <2>1
  <2>5. Len(sent') \in Nat
    BY <2>1 DEF ClientInv, ClientTypes
  <2>6. Taken' = Taken + 1
    BY <2>2, <2>3, <2>4, Lengths DEF Taken
  <2>7. Len(sent) <= Taken + 1 /\ Taken + 1 <= Len(typed)
    BY <2>1, <2>2, Lengths DEF Bounded
  <2>8. Len(sent') <= Taken' + 1 /\ Len(sent') <= Len(typed') + 1
    BY <2>2, <2>4, <2>5, <2>6, <2>7, Lengths
  <2>9. reader # "none"
    BY <2>1 DEF Bounded, Early
  <2>. QED
    BY <2>1, <2>4, <2>8, <2>9 DEF Bounded, Early
<1>. QED
  BY <1>1, <1>2 DEF Writes

(* The bounds are preserved, whatever the environment does.                *)
LEMMA BoundedStep ==
  ASSUME ClientInv, Bounded, MaxInput \in Nat, Writes \/ Step \/ UNCHANGED local
  PROVE  Bounded'
<1>1. CASE Writes
  BY <1>1, WritesBounded
<1>2. CASE Connect \/ NoMoreCommands \/ SetFlag \/ AwaitReader \/ JoinThread
  <2>1. UNCHANGED <<typed, cmds, sent, reader, input>>
    BY <1>2 DEF Connect, NoMoreCommands, SetFlag, AwaitReader, JoinThread
  <2>2. \/ main = "connect" /\ main' \in {"join", "failed"}
        \/ main \in {"recv", "break", "awaitReader", "joinThread"}
           /\ main' \in {"break", "awaitReader", "joinThread", "exited"}
    BY <1>2 DEF Connect, NoMoreCommands, SetFlag, AwaitReader, JoinThread
  <2>3. Handing' = Handing
    BY <2>1 DEF Handing
  <2>4. main = "connect" <=> reader = "none"
    BY <2>2 DEF Bounded, Early
  <2>. QED
    BY <2>1, <2>2, <2>3, <2>4, IdlesBounded DEF Bounded, Early
<1>3. CASE Answer
  <2>1. main = "answer" /\ UNCHANGED <<typed, cmds, sent>>
        /\ \/ main' = "recv" /\ reader' = "reading" /\ input' = "open"
           \/ main' = "failed" /\ UNCHANGED <<reader, input>>
    BY <1>3 DEF Answer
  <2>2. typed = <<>> /\ cmds = <<>> /\ sent = <<Command("join", 0)>>
        /\ reader = "none" /\ input = "none"
    BY <2>1 DEF ClientInv, Early, Bounded
  <2>3. Len(typed') = 0 /\ Len(cmds') = 0 /\ Len(sent') = 1
    BY <2>1, <2>2
  <2>4. main' = "recv" => Taken' = 0
    <3>1. main' = "recv" => input' = "open"
      BY <2>1
    <3>2. main' = "recv" => Handing' = 0
      BY <3>1 DEF Handing
    <3>. QED
      BY <3>2, <2>3 DEF Taken
  <2>5. Len(typed') <= MaxInput /\ Len(sent') <= Len(typed') + 1
        /\ (main' = "recv" => Len(sent') <= Taken' + 1)
    BY <2>3, <2>4
  <2>. QED
    BY <2>1, <2>2, <2>5 DEF Bounded, Early
<1>4. CASE Reader \/ UNCHANGED local
  <2>1. UNCHANGED <<typed, cmds, sent, input, main>>
        /\ \/ reader' = reader
           \/ reader = "reading" /\ reader' = "done"
    BY <1>4 DEF Reader, ReadLine, ReadEnds, local
  <2>2. Handing' = Handing
    BY <2>1 DEF Handing
  <2>. QED
    BY <2>1, <2>2, IdlesBounded DEF Bounded
<1>5. CASE OpenEditor \/ CheckFlag \/ Enter \/ ReadlineError
  <2>1. UNCHANGED <<typed, cmds, sent, reader, main>>
        /\ input \in {"open", "check", "readline"}
        /\ input' \in {"check", "readline", "done"}
    BY <1>5 DEF OpenEditor, CheckFlag, Enter, ReadlineError
  <2>2. Handing' = Handing
    BY <2>1 DEF Handing
  <2>. QED
    BY <2>1, <2>2, IdlesBounded DEF Bounded
<1>6. CASE Hand
  <2>1. UNCHANGED <<typed, sent, reader, main>>
        /\ input \in {"send", "sendLast"} /\ input' \in {"check", "done"}
        /\ cmds' = Append(cmds, typed[Len(typed)])
    BY <1>6 DEF Hand
  <2>2. Len(cmds') = Len(cmds) + 1 /\ Handing = 1 /\ Handing' = 0
    BY <2>1 DEF Handing, ClientInv, ClientTypes
  <2>3. Taken' = Taken
    BY <2>1, <2>2, Lengths DEF Taken
  <2>. QED
    BY <2>1, <2>3 DEF Bounded
<1>7. CASE Type
  <2>1. UNCHANGED <<cmds, sent, reader, main>> /\ Len(typed) < MaxInput
        /\ input = "readline" /\ input' \in {"send", "sendLast"}
    BY <1>7 DEF Type
  <2>2. PICK e : typed' = Append(typed, e)
    BY <1>7 DEF Type
  <2>3. Len(typed') = Len(typed) + 1 /\ Handing = 0 /\ Handing' = 1
    BY <2>1, <2>2 DEF Handing, ClientInv, ClientTypes
  <2>4. Taken' = Taken
    BY <2>1, <2>3, Lengths DEF Taken
  <2>5. Len(typed') <= MaxInput /\ Len(sent') <= Len(typed') + 1
    BY <2>1, <2>3, Lengths DEF Bounded
  <2>. QED
    BY <2>1, <2>4, <2>5 DEF Bounded
<1>. QED
  BY <1>1, <1>2, <1>3, <1>4, <1>5, <1>6, <1>7 DEF Step, MainStep, Thread, User

(* The bounds hold of a client that has not started.                       *)
LEMMA BoundedInit ==
  ASSUME LocalInit, MaxInput \in Nat
  PROVE  Bounded
<1>1. Len(typed) = 0 /\ Len(sent) = 0
  BY DEF LocalInit
<1>. QED
  BY <1>1 DEF LocalInit, Bounded, Early
=============================================================================
