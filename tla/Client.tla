------------------------------- MODULE Client -------------------------------
(***************************************************************************)
(* The command line client (client/src/main.rs): main, which after joining *)
(* takes the user's commands from a channel and writes them to the server; *)
(* a task that reads what the server sends; and a thread in readline that  *)
(* feeds the channel.  They share the shutdown flag.  The user and the     *)
(* server are the environment.                                             *)
(*                                                                         *)
(*   main    connect, join, answer (reading the answer), recv (taking      *)
(*           commands), break (out of the loop), awaitReader, joinThread,  *)
(*           exited, failed                                                *)
(*   reader  none, reading, done                                           *)
(*   input   none, open (creating the editor), check (top of the loop),    *)
(*           readline, send, sendLast (after which the thread ends), done  *)
(***************************************************************************)
EXTENDS Naturals, Sequences

CONSTANTS
  CmdCap,     \* capacity of the command channel
  MaxInput,   \* bound: commands the user enters
  MaxTalk,    \* bound: lines the server sends
  Faults      \* what may go wrong: "refuse", "drop", "readline"

VARIABLES
  main, reader, input,
  cmds,      \* the command channel
  flag,      \* shutdown
  typed,     \* history: the commands entered; the thread is sending the last
  sent,      \* history: the lines written to the server
  got,       \* number of lines read from the server
  told,      \* number of lines the server has sent
  answer,    \* the first of them: "ok", "err" or not yet there ("none")
  up         \* the server has not closed the connection

local == <<main, reader, input, cmds, flag, typed, sent, got>>
net == <<told, answer, up>>
vars == <<local, net>>

(* A command is what it is and its number.                                 *)
Command(k, n) == [kind |-> k, num |-> n]
Kinds == {"send", "leave", "unknown"}

LocalInit ==
  /\ main = "connect" /\ reader = "none" /\ input = "none"
  /\ cmds = <<>> /\ flag = FALSE
  /\ typed = <<>> /\ sent = <<>> /\ got = 0
Init == LocalInit /\ told = 0 /\ answer = "none" /\ up = TRUE
-----------------------------------------------------------------------------
(* main                                                                    *)
Connect ==
  /\ main = "connect"
  /\ main' \in {"join"} \cup IF "refuse" \in Faults THEN {"failed"} ELSE {}
  /\ UNCHANGED <<reader, input, cmds, flag, typed, sent, got, net>>

(* A write to a connection the server has closed may still succeed, and a  *)
(* line counts as sent when its body has been written; the newline, which  *)
(* is a write of its own, may fail after that.                             *)
Join ==
  /\ main = "join"
  /\ \/ main' = "answer" /\ sent' = Append(sent, Command("join", 0))
     \/ /\ ~up /\ main' = "failed"
        /\ sent' \in {sent, Append(sent, Command("join", 0))}
  /\ UNCHANGED <<reader, input, cmds, flag, typed, got, net>>

(* Mutant: only an ERR is taken for a refusal, and any line for the answer.*)
AnswerAnything ==
  /\ main = "answer" /\ told > 0
  /\ got' = 1
  /\ main' = "recv" /\ reader' = "reading" /\ input' = "open"
  /\ UNCHANGED <<cmds, flag, typed, sent, net>>

(* Anything but OK, an end of file included, is a failure; so is an error  *)
(* of the read, which may come before what was sent has been read.         *)
Answer ==
  /\ main = "answer"
  /\ \/ /\ told > 0 /\ answer = "ok"
        /\ main' = "recv" /\ reader' = "reading" /\ input' = "open"
        /\ got' = 1
     \/ /\ told > 0 /\ answer # "ok"
        /\ main' = "failed" /\ UNCHANGED <<reader, input>>
        /\ got' = 1
     \/ ~up /\ main' = "failed" /\ UNCHANGED <<reader, input, got>>
  /\ UNCHANGED <<cmds, flag, typed, sent, net>>

(* Mutant: LEAVE ends the loop without being written.                      *)
TakeSilently ==
  /\ main = "recv" /\ cmds # <<>>
  /\ cmds' = Tail(cmds)
  /\ sent' = IF flag \/ Head(cmds).kind # "send" THEN sent
             ELSE Append(sent, Head(cmds))
  /\ main' = IF flag \/ Head(cmds).kind = "leave" THEN "break" ELSE "recv"
  /\ UNCHANGED <<reader, input, flag, typed, got, net>>

(* One command.  A failed write ends the loop after SEND and, by way of    *)
(* `?`, the program after LEAVE; that of the newline of a SEND is ignored. *)
Take ==
  /\ main = "recv" /\ cmds # <<>>
  /\ cmds' = Tail(cmds)
  /\ LET cmd == Head(cmds).kind IN
     \/ flag /\ main' = "break" /\ UNCHANGED sent
     \/ ~flag /\ cmd = "unknown" /\ UNCHANGED <<main, sent>>
     \/ /\ ~flag /\ cmd # "unknown"
        /\ sent' = Append(sent, Head(cmds))
        /\ main' = IF cmd = "leave" THEN "break" ELSE "recv"
     \/ /\ ~flag /\ cmd = "send" /\ ~up
        /\ main' = "break" /\ UNCHANGED sent
     \/ /\ ~flag /\ cmd = "leave" /\ ~up
        /\ main' = "failed" /\ sent' \in {sent, Append(sent, Head(cmds))}
  /\ UNCHANGED <<reader, input, flag, typed, got, net>>

(* The thread has ended and dropped its end of the channel.                *)
NoMoreCommands ==
  /\ main = "recv" /\ cmds = <<>> /\ input = "done"
  /\ main' = "break"
  /\ UNCHANGED <<reader, input, cmds, flag, typed, sent, got, net>>

SetFlag ==
  /\ main = "break"
  /\ flag' = TRUE
  /\ main' = "awaitReader"
  /\ UNCHANGED <<reader, input, cmds, typed, sent, got, net>>

AwaitReader ==
  /\ main = "awaitReader" /\ reader = "done"
  /\ main' = "joinThread"
  /\ UNCHANGED <<reader, input, cmds, flag, typed, sent, got, net>>

JoinThread ==
  /\ main = "joinThread" /\ input = "done"
  /\ main' = "exited"
  /\ UNCHANGED <<reader, input, cmds, flag, typed, sent, got, net>>

Writes == Join \/ Take
MainStep == Connect \/ Answer \/ NoMoreCommands \/ SetFlag \/ AwaitReader
            \/ JoinThread
-----------------------------------------------------------------------------
(* The reader task                                                         *)
ReadLine ==
  /\ reader = "reading" /\ got < told
  /\ got' = got + 1
  /\ UNCHANGED <<main, reader, input, cmds, flag, typed, sent, net>>

(* Mutant: the end of the connection is not reported.                      *)
ReadEndsQuietly ==
  /\ reader = "reading" /\ ~up
  /\ reader' = "done"
  /\ UNCHANGED <<main, input, cmds, flag, typed, sent, got, net>>

(* End of file, or an error, which may come before all has been read.      *)
ReadEnds ==
  /\ reader = "reading" /\ ~up
  /\ flag' = TRUE
  /\ reader' = "done"
  /\ UNCHANGED <<main, input, cmds, typed, sent, got, net>>

Reader == ReadLine \/ ReadEnds
-----------------------------------------------------------------------------
(* The readline thread, and the user in it: an empty line, a command,      *)
(* ctrl-c or ctrl-d, or an error of the terminal.                          *)
OpenEditor ==
  /\ input = "open"
  /\ input' \in {"check"} \cup IF "readline" \in Faults THEN {"done"} ELSE {}
  /\ UNCHANGED <<main, reader, cmds, flag, typed, sent, got, net>>

CheckFlag ==
  /\ input = "check"
  /\ input' = IF flag THEN "done" ELSE "readline"
  /\ UNCHANGED <<main, reader, cmds, flag, typed, sent, got, net>>

(* Mutant: a full channel drops the command.                               *)
HandDrops ==
  /\ input \in {"send", "sendLast"}
  /\ cmds' = IF Len(cmds) = CmdCap THEN cmds
             ELSE Append(cmds, typed[Len(typed)])
  /\ input' = IF input = "send" THEN "check" ELSE "done"
  /\ UNCHANGED <<main, reader, flag, typed, sent, got, net>>

(* blocking_send: the receiver lives as long as main, so it never fails.   *)
Hand ==
  /\ input \in {"send", "sendLast"}
  /\ Len(cmds) < CmdCap
  /\ cmds' = Append(cmds, typed[Len(typed)])
  /\ input' = IF input = "send" THEN "check" ELSE "done"
  /\ UNCHANGED <<main, reader, flag, typed, sent, got, net>>

Thread == OpenEditor \/ CheckFlag \/ Hand

Enter ==
  /\ input = "readline"
  /\ input' = "check"
  /\ UNCHANGED <<main, reader, cmds, flag, typed, sent, got, net>>

Type ==
  /\ input = "readline" /\ Len(typed) < MaxInput
  /\ \/ input' = "send" /\ \E k \in Kinds :
          typed' = Append(typed, Command(k, Len(typed) + 1))
     \/ input' = "sendLast"
        /\ typed' = Append(typed, Command("leave", Len(typed) + 1))
  /\ UNCHANGED <<main, reader, cmds, flag, sent, got, net>>

ReadlineError ==
  /\ "readline" \in Faults
  /\ input = "readline"
  /\ input' = "done"
  /\ UNCHANGED <<main, reader, cmds, flag, typed, sent, got, net>>

User == Enter \/ Type \/ ReadlineError
-----------------------------------------------------------------------------
(* After main returns the process is gone, whatever its threads do.        *)
Ended == main \in {"exited", "failed"}

(* The server: it answers the JOIN, sends what others say, and closes when *)
(* it has been sent LEAVE, when the client has gone, or for reasons of its *)
(* own.  It may not notice at once that the client has gone.               *)
Talks ==
  /\ up \/ Ended
  /\ told < MaxTalk /\ sent # <<>>
  /\ told' = told + 1
  /\ IF told = 0 THEN answer' \in {"ok", "err"} ELSE UNCHANGED answer
  /\ UNCHANGED <<local, up>>

LeaveSent == \E i \in 1..Len(sent) : sent[i].kind = "leave"

Closes ==
  /\ up
  /\ LeaveSent \/ Ended \/ "drop" \in Faults
  /\ up' = FALSE
  /\ UNCHANGED <<local, told, answer>>

Server == Talks \/ Closes
Step == MainStep \/ Reader \/ Thread \/ User
Next == (~Ended /\ (Writes \/ Step)) \/ Server
Done == Ended /\ UNCHANGED vars
Spec == Init /\ [][Next \/ Done]_vars

(* main, the reader task and the thread run, and the server closes after a *)
(* LEAVE; the user owes nothing.                                           *)
FairSpec ==
  /\ Spec
  /\ WF_vars((MainStep \/ Writes) /\ ~Ended)
  /\ WF_vars(Reader /\ ~Ended) /\ WF_vars(Thread /\ ~Ended)
  /\ WF_vars(Closes /\ LeaveSent)

(* The user presses return now and then.                                   *)
EnterSpec == FairSpec /\ WF_vars(Enter /\ ~Ended)
-----------------------------------------------------------------------------
(* What the server is sent after the JOIN is what the user entered, from   *)
(* the first command to the k-th, in order and without a gap, but for      *)
(* commands that are not known; and nothing follows a LEAVE.  Commands are *)
(* numbered in the order they are entered.                                 *)
Known(c) == c.kind # "unknown"
Upto(k) ==
  /\ \A i \in 2..Len(sent) : \E j \in 1..k : Known(typed[j]) /\ sent[i] = typed[j]
  /\ \A j \in 1..k : Known(typed[j]) => \E i \in 2..Len(sent) : sent[i] = typed[j]
  /\ \A i, j \in 2..Len(sent) : i < j => sent[i].num < sent[j].num
SentIsTyped ==
  /\ \E k \in 0..Len(typed) : Upto(k)
  /\ \A i \in 1..Len(sent) - 1 : sent[i].kind # "leave"

(* main joins the readline thread, which waits for room in a channel that  *)
(* only main, no longer receiving, could make.                             *)
Wedged ==
  main = "joinThread" /\ input \in {"send", "sendLast"} /\ Len(cmds) = CmdCap

(* A server that has gone away ends the program if the user presses return *)
(* (nothing wakes main or readline before that), unless the channel was    *)
(* full of commands when main stopped taking them.                         *)
DisconnectExits == ~up ~> Ended \/ Wedged

(* "`leave` this will disconnect the client from the server and exit the   *)
(* CLI." (README.md)                                                       *)
LeaveExits == LeaveSent ~> Ended
=============================================================================
