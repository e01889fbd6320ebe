-------------------------------- MODULE Wire --------------------------------
(***************************************************************************)
(* The text of a line: the codec of common/src/tcp_message.rs, and the     *)
(* validation and folding of names of server/src/chat/string.rs.           *)
(*                                                                         *)
(* A text is a sequence of tokens: a separator, a blank, a newline, a      *)
(* letter, a keyword, or a byte that is not UTF-8.                         *)
(***************************************************************************)
EXTENDS Naturals, Sequences, FiniteSetsExt

CONSTANT MaxName   \* MAX_USERNAME_LEN

ASSUME WireAssumption == MaxName \in Nat \ {0}

Sep == "|"
NL == "\n"
Blanks == {" ", NL}
NotUtf8 == "0xFF"

(* str::to_uppercase on the words that occur.                              *)
Uppercase(t) == CASE t = "join" -> "JOIN" [] t = "send" -> "SEND"
                  [] t = "a" -> "A" [] OTHER -> t

Trim(s) ==
  LET ink == {i \in DOMAIN s : s[i] \notin Blanks}
  IN IF ink = {} THEN <<>> ELSE SubSeq(s, Min(ink), Max(ink))

(* Mutant: the last separator splits.                                      *)
FieldsFromTheEnd(s) ==
  LET seps == {i \in DOMAIN s : s[i] = Sep}
      i == Max(seps)
  IN IF seps = {} THEN <<s>> ELSE <<SubSeq(s, 1, i - 1), SubSeq(s, i + 1, Len(s))>>

(* What precedes the first separator and, if there is one, what follows.   *)
Fields(s) ==
  LET seps == {i \in DOMAIN s : s[i] = Sep}
      i == Min(seps)
  IN IF seps = {} THEN <<s>> ELSE <<SubSeq(s, 1, i - 1), SubSeq(s, i + 1, Len(s))>>

Word(s) == IF Len(s) = 1 THEN Uppercase(s[1]) ELSE "?"

(* A message has a kind and up to two fields; a failure has the kind of    *)
(* the parse error.                                                        *)
Msg(kind, a, b) == [kind |-> kind, a |-> a, b |-> b]
Bare(kind) == Msg(kind, <<>>, <<>>)

(* ClientMessage                                                           *)
ClientEncode(m) ==
  IF m.kind = "LEAVE" THEN <<"LEAVE">> ELSE <<m.kind, Sep>> \o m.a

ClientDecode(bytes) ==
  LET f == Fields(Trim(bytes))
      w == Word(f[1])
  IN IF NotUtf8 \in Range(bytes) THEN Bare("invalidUtf8")
     ELSE IF Trim(bytes) = <<>> THEN Bare("empty")
     ELSE CASE w \in {"JOIN", "SEND"} -> IF Len(f) = 1 \/ f[2] = <<>>
                                        THEN Bare("missingField")
                                        ELSE Msg(w, f[2], <<>>)
            [] w = "LEAVE" -> Bare("LEAVE")
            [] OTHER -> Bare("unknown")

(* ServerMessage                                                           *)
ServerEncode(m) ==
  CASE m.kind = "OK" -> <<"OK">>
    [] m.kind \in {"ERR", "JOINED", "LEFT"} -> <<m.kind, Sep>> \o m.a
    [] m.kind = "BROADCAST" -> <<m.kind, Sep>> \o m.a \o <<Sep>> \o m.b

ServerDecode(bytes) ==
  LET f == Fields(Trim(bytes))
      w == Word(f[1])
  IN IF NotUtf8 \in Range(bytes) THEN Bare("invalidUtf8")
     ELSE IF Trim(bytes) = <<>> THEN Bare("empty")
     ELSE IF w = "OK" THEN Bare("OK")
     ELSE IF w \notin {"ERR", "JOINED", "LEFT", "BROADCAST"}
     THEN Bare("unknown")
     ELSE IF Len(f) = 1 THEN Bare("missingField")
     ELSE IF w # "BROADCAST" THEN Msg(w, f[2], <<>>)
     ELSE LET g == Fields(f[2])
          IN Msg(w, g[1], IF Len(g) = 1 THEN <<>> ELSE g[2])

(* What the client of a user shows of a line (parse_server_message): not   *)
(* what the user did, and a line it cannot decode as it is.                *)
Shows(user, bytes) ==
  LET m == ServerDecode(bytes) IN
  CASE m.kind = "OK" -> <<>>
    [] m.kind \in {"JOINED", "LEFT", "BROADCAST"} ->
         IF m.a = user THEN <<>> ELSE <<m>>
    [] m.kind = "ERR" -> <<m>>
    [] OTHER -> IF Trim(bytes) = <<>> THEN <<>>
                ELSE <<Msg("raw", Trim(bytes), <<>>)>>
-----------------------------------------------------------------------------
(* Names.  Any token but these is made of letters, digits and underscores. *)
IsValidUsernameStr(s) ==
  s # <<>> /\ Range(s) \cap (Blanks \cup {Sep, NotUtf8, "-"}) = {}

ValidateUsername(s) ==
  LET t == Trim(s)
  IN IF t = <<>> THEN "Empty"
     ELSE IF Len(t) > MaxName THEN "TooLong"
     ELSE IF IsValidUsernameStr(t) THEN "Valid" ELSE "InvalidChars"

(* Texts, one after the other.                                             *)
Concat(texts) ==
  LET upTo[i \in 0..Len(texts)] == IF i = 0 THEN <<>> ELSE upTo[i - 1] \o texts[i]
  IN upTo[Len(texts)]

(* str::to_lowercase, letter by letter, and utf8_case_fold, which may make *)
(* a name longer: "ss" is the sharp s.                                     *)
Lowercase(t) == CASE t = "A" -> "a" [] t = "B" -> "b" [] t = "S" -> "s"
                  [] t = "JOIN" -> "join" [] t = "SEND" -> "send"
                  [] OTHER -> t

(* Mutant: folding is lowercasing.                                         *)
FoldedToLower(t) == <<Lowercase(t)>>

Folded(t) == IF t = "ss" THEN <<"s", "s">> ELSE <<Lowercase(t)>>
CaseFold(s) == Concat([i \in DOMAIN s |-> Folded(s[i])])

(* CASE_FOLD_BUFFER_SIZE, in characters of the largest size.  What does    *)
(* not fit is lowercased instead.                                          *)
FoldBuffer == MaxName * 3
ToLowercase(s) == IF Len(CaseFold(s)) <= FoldBuffer THEN CaseFold(s)
                  ELSE [i \in DOMAIN s |-> Lowercase(s[i])]

(* Username::new and NormalizedKey::from_username.                         *)
KeyOf(s) == ToLowercase(Trim(s))
=============================================================================
