----------------------------- MODULE LineReader -----------------------------
(***************************************************************************)
(* How the bytes of a client become messages (wait_for_input, tick_joined  *)
(* and handle_joined_message in server/src/chat/connection.rs): a line is  *)
(* read with read_until under take(MAX_CLIENT_BUFFER_SIZE + 1), an         *)
(* over-long one is read away in pieces, and what is left is decoded.  A   *)
(* byte is a token of Wire.                                                *)
(*                                                                         *)
(* The bytes arrive in pieces of any size.  The buffer is what has been    *)
(* read since start; a broadcast or the read timeout, which cancels        *)
(* read_until, makes it start anew.                                        *)
(***************************************************************************)
EXTENDS Wire

CONSTANTS
  Streams,    \* what the client may write in all
  BufSize,    \* MAX_CLIENT_BUFFER_SIZE
  SkipSize,   \* MAX_CLIENT_MESSAGE_LENGTH
  MaxCuts     \* bound: cancelled reads

ASSUME ReaderAssumption ==
  /\ BufSize \in Nat \ {0} /\ SkipSize \in Nat \ {0} /\ MaxCuts \in Nat
  /\ \A s \in Streams : s \in Seq(Range(s))

VARIABLES
  stream, joined,
  here,       \* number of bytes that have arrived
  eof,        \* the client has closed, and the server can see it
  mode,       \* "read", "skip" (an over-long line) or "end"
  start,      \* number of bytes before the buffer
  used,       \* number of bytes read
  cuts,       \* history: where a read was cancelled
  handled     \* history: what was made of each line, and where it lay

peer == <<stream, joined, here, eof>>
vars == <<peer, mode, start, used, cuts, handled>>

Init ==
  /\ stream \in Streams /\ joined \in BOOLEAN
  /\ here = 0 /\ eof = FALSE
  /\ mode = "read" /\ start = 0 /\ used = 0
  /\ cuts = {} /\ handled = <<>>
-----------------------------------------------------------------------------
(* How far read_until gets under take(limit) with what has arrived, and    *)
(* whether it returns.                                                     *)
Reach(limit) ==
  Min({here, start + limit} \cup {i \in used + 1 .. here : stream[i] = NL})
Returns(limit) ==
  LET to == Reach(limit)
  IN \/ to = start + limit
     \/ to > used /\ stream[to] = NL
     \/ to = here /\ eof

(* A line has been read up to a byte: the buffer goes to the decoder, or   *)
(* the line is answered with MessageTooLong.                               *)
Handle(to, tooLong) ==
  handled' = Append(handled, [from |-> start, to |-> to, tooLong |-> tooLong])
Decoded(h) == ClientDecode(SubSeq(stream, h.from + 1, h.to))

(* Mutant: take() stops at the limit itself.                               *)
ReadShort ==
  /\ mode = "read" /\ Returns(BufSize)
  /\ LET to == Reach(BufSize) IN
     /\ used' = to /\ start' = to
     /\ IF to = start THEN mode' = "end" /\ UNCHANGED handled
        ELSE Handle(to, FALSE) /\ UNCHANGED mode
  /\ UNCHANGED <<peer, cuts>>

(* wait_for_input returns with n bytes.  Before the JOIN a line that is    *)
(* too long ends the task; after it, the rest of the line is to be skipped *)
(* unless its newline was the last byte taken.                             *)
Read ==
  /\ mode = "read" /\ Returns(BufSize + 1)
  /\ LET to == Reach(BufSize + 1)
         n == to - start IN
     /\ used' = to /\ start' = to
     /\ \/ n = 0 /\ mode' = "end" /\ UNCHANGED handled
        \/ n \in 1..BufSize /\ Handle(to, FALSE) /\ UNCHANGED mode
        \/ n > BufSize /\ ~joined /\ mode' = "end" /\ UNCHANGED handled
        \/ /\ n > BufSize /\ joined
           /\ IF stream[to] = NL THEN Handle(to, TRUE) /\ UNCHANGED mode
              ELSE mode' = "skip" /\ UNCHANGED handled
  /\ UNCHANGED <<peer, cuts>>

(* Mutant: the end of file does not end the loop.                          *)
SkipToNewline ==
  /\ mode = "skip" /\ Returns(SkipSize)
  /\ LET to == Reach(SkipSize) IN
     /\ used' = to /\ start' = to
     /\ IF to > start /\ stream[to] = NL
        THEN mode' = "read" /\ Handle(to, TRUE)
        ELSE UNCHANGED <<mode, handled>>
  /\ UNCHANGED <<peer, cuts>>

(* One round of the loop that reads the rest of the line away.             *)
Skip ==
  /\ mode = "skip" /\ Returns(SkipSize)
  /\ LET to == Reach(SkipSize) IN
     /\ used' = to /\ start' = to
     /\ IF to = start \/ stream[to] = NL
        THEN mode' = "read" /\ Handle(to, TRUE)
        ELSE UNCHANGED <<mode, handled>>
  /\ UNCHANGED <<peer, cuts>>

(* The bytes that are there do not end the line: read_until waits.         *)
Wait ==
  /\ used < here
  /\ \E limit \in {IF mode = "read" THEN BufSize + 1 ELSE SkipSize} :
       ~Returns(limit) /\ used' = Reach(limit)
  /\ mode # "end"
  /\ UNCHANGED <<peer, mode, start, cuts, handled>>

(* A broadcast, or the read timeout, cancels read_until; the next tick     *)
(* clears the buffer.  Skipping is not part of the select.                 *)
Cancel ==
  /\ mode = "read" /\ joined /\ Cardinality(cuts) < MaxCuts
  /\ start < used /\ ~Returns(BufSize + 1)
  /\ start' = used
  /\ cuts' = cuts \cup {used}
  /\ UNCHANGED <<peer, mode, used, handled>>

(* Before the JOIN the read timeout ends the task.                         *)
Expire ==
  /\ mode = "read" /\ ~joined /\ ~Returns(BufSize + 1)
  /\ mode' = "end"
  /\ UNCHANGED <<peer, start, used, cuts, handled>>

Reader == Read \/ Skip \/ Wait

Arrive ==
  /\ here < Len(stream)
  /\ here' \in here + 1 .. Len(stream)
  /\ UNCHANGED <<stream, joined, eof, mode, start, used, cuts, handled>>

Close ==
  /\ here = Len(stream) /\ ~eof
  /\ eof' = TRUE
  /\ UNCHANGED <<stream, joined, here, mode, start, used, cuts, handled>>

Done == mode = "end" /\ UNCHANGED vars

Spec == Init /\ [][Reader \/ Cancel \/ Expire \/ Arrive \/ Close \/ Done]_vars

(* The task is polled, and the client ends what it has begun: its bytes    *)
(* arrive, and its end of file.                                            *)
FairSpec == Spec /\ WF_vars(Reader) /\ WF_vars(Arrive) /\ WF_vars(Close)
-----------------------------------------------------------------------------
(* A reference: the lines of the stream, cut at its newlines.              *)
Ends == {i \in 1..Len(stream) : stream[i] = NL \/ i = Len(stream)}
EndOf(i) == CHOOSE e \in Ends : Cardinality({d \in Ends : d <= e}) = i
BeginOf(i) == IF i = 1 THEN 0 ELSE EndOf(i - 1)

(* However the bytes arrive and reads are cancelled, every line, be it     *)
(* below, at or above the limit, is handled once and in its turn: what is  *)
(* decoded is the line, or what followed the last cancelled read of it,    *)
(* and it is refused exactly if that is more than BufSize bytes.           *)
ReadsLines ==
  /\ Len(handled) <= Cardinality(Ends)
  /\ \A i \in 1..Len(handled) :
       LET h == handled[i]
           from == Max({BeginOf(i)} \cup {c \in cuts : c < EndOf(i)})
       IN /\ h.to = EndOf(i)
          /\ h.tooLong <=> h.to - from > BufSize
          /\ ~h.tooLong => h.from = from
  /\ mode = "read" =>
       Len(handled) = Cardinality({e \in Ends : e <= start /\ e \notin cuts})

(* The rest of an over-long line, which is awaited without timeout, is     *)
(* done with once the client has ended the line or closed.                 *)
SkipEnds == mode = "skip" ~> mode = "read"

(* The messages of the lines so far, and the names that are accepted.      *)
Messages == {Decoded(h) : h \in {x \in Range(handled) : ~x.tooLong}}
Said == {m \in Messages : m.kind = "SEND"}
Accepted == {m.a : m \in {x \in Messages :
               x.kind = "JOIN" /\ ValidateUsername(x.a) = "Valid"}}

(* What may have been given as --username where a name was accepted: JOIN  *)
(* carries it as it is, and decoding that drops blanks at its end.         *)
Usernames == Accepted \cup {Append(a, " ") : a \in Accepted}

(* What a user says is what the others are shown, separators and blanks    *)
(* included, under the user's --username without the blanks around it.     *)
(* The server writes it to the sender too, and the only client that does   *)
(* not show it is one whose --username is that name to the letter: that of *)
(* the sender, unless its --username has blanks around it.                 *)
Relayed ==
  \A r \in Usernames, u \in Usernames \cup {<<"b">>}, m \in Said :
    LET n == Trim(ClientDecode(Append(ClientEncode(Msg("JOIN", r, <<>>)), NL)).a)
        told == Msg("BROADCAST", n, m.a)
        line == Append(ServerEncode(told), NL)
    IN /\ Shows(u, line) = IF u = Trim(r) THEN <<>> ELSE <<told>>
       /\ ClientDecode(Append(ClientEncode(m), NL)) = m

(* A reference for what users take for one name: what lies between the     *)
(* surrounding blanks, in capitals, where the sharp s is SS.               *)
Surrounded(s, i, j) == \A k \in DOMAIN s : s[k] \in Blanks <=> k \notin i..j
Capital(t) == CASE t = "a" -> <<"A">> [] t = "b" -> <<"B">> [] t = "s" -> <<"S">>
                [] t = "ss" -> <<"S", "S">>
                [] t = "join" -> <<"JOIN">> [] t = "send" -> <<"SEND">>
                [] OTHER -> <<t>>
InCapitals(s) == Concat([i \in DOMAIN s |-> Capital(s[i])])
SameLetters(a, b) ==
  \E i, j \in DOMAIN a, k, l \in DOMAIN b :
    /\ Surrounded(a, i, j) /\ Surrounded(b, k, l)
    /\ InCapitals(SubSeq(a, i, j)) = InCapitals(SubSeq(b, k, l))

(* Two names that are accepted have one key exactly if they are the same   *)
(* in capitals and up to surrounding blanks: folding, which NormalizedKey  *)
(* does into a buffer of fixed size, neither joins nor separates more.     *)
KeysIgnoreCase ==
  \A a, b \in Accepted : KeyOf(a) = KeyOf(b) <=> SameLetters(a, b)
=============================================================================
