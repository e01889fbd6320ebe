-------------------------- MODULE LineReaderProofs --------------------------
(***************************************************************************)
(* Lines are told apart and refused at the limit, for streams of any kind  *)
(* and length, any limits, and however the bytes arrive and reads are      *)
(* cancelled; and what the codec makes of the lines, of any length, is     *)
(* what was said, under the name that was accepted.                        *)
(***************************************************************************)
EXTENDS LineReader, FiniteSetTheorems, WellFoundedInduction, TLAPS

(* A leaf that names no prover is left to Zenon; those that need numbers,  *)
(* sequences or large functions cite SMT.                                  *)
USE Zenon

(* No newline among the bytes after a and up to b.                         *)
Clear(a, b) == \A i \in a + 1 .. b : stream[i] # NL

(* Where the line being read begins, if no read of it was cancelled.       *)
Prev == IF Len(handled) = 0 THEN 0 ELSE handled[Len(handled)].to

Limit == IF mode = "read" THEN BufSize + 1 ELSE SkipSize

ReaderTypes ==
  /\ stream \in Streams /\ joined \in BOOLEAN /\ eof \in BOOLEAN
  /\ mode \in {"read", "skip", "end"}
  /\ here \in Nat /\ used \in Nat /\ start \in Nat
  /\ start <= used /\ used <= here /\ here <= Len(stream)
  /\ eof => here = Len(stream)
  /\ handled \in Seq([from : Nat, to : Nat, tooLong : BOOLEAN])
  /\ \A c \in cuts : c \in 1..start /\ stream[c] # NL

(* What is handled of a line begins at f: where the line before it ended,  *)
(* or where a read was last cancelled.                                     *)
Origin(f) ==
  /\ f \in {Prev} \cup cuts /\ Prev <= f /\ \A c \in cuts : c <= f
  /\ Clear(f, used)
  /\ Len(handled) = Cardinality({e \in Ends : e <= f /\ e \notin cuts})
  /\ IF mode = "read" THEN f = start ELSE f + BufSize < start

(* The lines handled are the first of the stream.                          *)
From(i) == Max({BeginOf(i)} \cup {c \in cuts : c < EndOf(i)})
Handled(i) ==
  /\ handled[i].to = EndOf(i) /\ handled[i].to <= Prev
  /\ handled[i].tooLong <=> handled[i].to - From(i) > BufSize
  /\ ~handled[i].tooLong => handled[i].from = From(i)

(* The inductive invariant.                                                *)
LineInv ==
  /\ ReaderTypes
  /\ Len(handled) <= Cardinality(Ends)
  /\ \A i \in 1..Len(handled) : Handled(i)
  /\ mode # "end" => used <= start + Limit /\ \E f \in 0..start : Origin(f)
-----------------------------------------------------------------------------
(* A set of naturals has a least element.                                  *)
LEMMA Least ==
  ASSUME NEW S, S \subseteq Nat, S # {}
  PROVE  Min(S) \in S /\ \A y \in S : Min(S) <= y
<1>1. PICK x \in S : \A y \in S : ~(<<y, x>> \in OpToRel(<, Nat))
  BY NatLessThanWellFounded, WFMin
<1>2. \A a, b \in Nat : a < b => <<a, b>> \in OpToRel(<, Nat)
  BY DEF OpToRel
<1>3. \A y \in S : ~(y < x)
  BY <1>1, <1>2
<1>4. \A y \in S : x <= y
  <2> SUFFICES ASSUME NEW y \in S PROVE x <= y
    OBVIOUS
  <2>1. x \in Nat /\ y \in Nat /\ ~(y < x)
    BY <1>3
  <2>. QED
    BY <2>1, SMT
<1>5. \E z \in S : \A y \in S : z <= y
  BY <1>4
<1>. QED
  BY <1>5 DEF Min

(* The greatest element of a set, if there is one.                         *)
LEMMA Greatest ==
  ASSUME NEW S, S \subseteq Nat, NEW f \in S, \A y \in S : y <= f
  PROVE  Max(S) = f
<1>1. \A y \in S : f >= y
  OBVIOUS
<1>2. Max(S) \in S /\ \A y \in S : Max(S) >= y
  BY <1>1 DEF Max
<1>3. Max(S) >= f /\ f >= Max(S) /\ Max(S) \in Nat /\ f \in Nat
  BY <1>1, <1>2
<1>. QED
  BY <1>3, SMT

(* The length of the stream.                                               *)
LEMMA StreamType ==
  ASSUME ReaderTypes
  PROVE  Len(stream) \in Nat
<1>1. stream \in Seq(Range(stream))
  BY ReaderAssumption DEF ReaderTypes
<1>. QED
  BY <1>1, SMT

(* How far a read gets: past no newline, and to one unless it is out of    *)
(* bytes or at its limit.                                                  *)
LEMMA ReachFacts ==
  ASSUME ReaderTypes, NEW limit \in Nat, used <= start + limit,
         NEW to, to = Reach(limit)
  PROVE  /\ to \in Nat /\ used <= to /\ to <= here /\ to <= start + limit
         /\ Clear(used, to - 1)
<1> DEFINE B == {i \in used + 1 .. here : stream[i] = NL}
           S == {here, start + limit} \cup B
<1>1. here \in Nat /\ used \in Nat /\ start \in Nat /\ used <= here
  BY DEF ReaderTypes
<1>2. S \subseteq Nat /\ S # {} /\ to = Min(S)
  BY <1>1, SMT DEF Reach
<1>3. to \in S /\ \A y \in S : to <= y
  BY <1>2, Least
<1>4. here \in S /\ start + limit \in S /\ \A y \in S : used <= y /\ y \in Nat
  BY <1>1, SMT
<1>5. ASSUME NEW i \in used + 1 .. to - 1, stream[i] = NL
      PROVE  FALSE
  <2>1. to \in Nat /\ to <= here
    BY <1>3, <1>4
  <2>2. i \in used + 1 .. here /\ ~(to <= i)
    BY <2>1, <1>1, SMT
  <2>3. i \in S
    BY <2>2, <1>5
  <2>. QED
    BY <2>2, <2>3, <1>3
<1>. HIDE DEF S, B
<1>. QED
  BY <1>3, <1>4, <1>5 DEF Clear
-----------------------------------------------------------------------------
UpTo(e) == {d \in Ends : d <= e}

(* The ends of lines are finitely many ...                                 *)
LEMMA EndsFinite ==
  ASSUME ReaderTypes, NEW T, T \subseteq Ends
  PROVE  IsFiniteSet(T) /\ Cardinality(T) \in Nat /\ Cardinality(T) <= Cardinality(Ends)
<1>1. IsFiniteSet(1..Len(stream))
  BY StreamType, FS_Interval, SMT
<1>2. IsFiniteSet(Ends)
  <2>1. Ends \subseteq 1..Len(stream)
    BY DEF Ends
  <2>. QED
    BY <1>1, <2>1, FS_Subset
<1>. QED
  BY <1>2, FS_Subset, FS_CardinalityType

(* ... and numbered in order.                                              *)
LEMMA NumberOfEnd ==
  ASSUME ReaderTypes, NEW e \in Ends, NEW n, n = Cardinality(UpTo(e))
  PROVE  EndOf(n) = e
<1>1. ASSUME NEW a \in Ends, NEW b \in Ends, a < b
      PROVE  Cardinality(UpTo(a)) < Cardinality(UpTo(b))
  <2>1. a \in Nat /\ b \in Nat /\ \A d \in Ends : d \in Nat
    BY StreamType, SMT DEF Ends
  <2>2. UpTo(a) \subseteq UpTo(b) /\ b \in UpTo(b) /\ b \notin UpTo(a)
    <3>1. \A d \in Ends : d <= a => d <= b
      BY <1>1, <2>1, SMT
    <3>2. b <= b /\ ~(b <= a)
      BY <1>1, <2>1, SMT
    <3>. QED
      BY <3>1, <3>2 DEF UpTo
  <2>3. IsFiniteSet(UpTo(b)) /\ Cardinality(UpTo(b)) \in Nat
        /\ Cardinality(UpTo(a)) \in Nat
    <3>1. UpTo(a) \subseteq Ends /\ UpTo(b) \subseteq Ends
      BY DEF UpTo
    <3>. QED
      BY <3>1, EndsFinite
  <2>4. Cardinality(UpTo(a)) <= Cardinality(UpTo(b))
        /\ Cardinality(UpTo(a)) # Cardinality(UpTo(b))
    BY <2>2, <2>3, FS_Subset
  <2>. QED
    BY <2>3, <2>4, SMT
<1>2. \A d \in Ends : d \in Nat /\ Cardinality(UpTo(d)) \in Nat
  <2> SUFFICES ASSUME NEW d \in Ends PROVE d \in Nat /\ Cardinality(UpTo(d)) \in Nat
    OBVIOUS
  <2>1. UpTo(d) \subseteq Ends
    BY DEF UpTo
  <2>2. Cardinality(UpTo(d)) \in Nat
    BY <2>1, EndsFinite
  <2>3. d \in Nat
    BY StreamType, SMT DEF Ends
  <2>. QED
    BY <2>2, <2>3
<1>3. \A d \in Ends : Cardinality(UpTo(d)) = n => d = e
  <2> SUFFICES ASSUME NEW d \in Ends, d # e
               PROVE  Cardinality(UpTo(d)) # Cardinality(UpTo(e))
    OBVIOUS
  <2>1. d < e \/ e < d
    BY <1>2, SMT
  <2>2. \/ Cardinality(UpTo(d)) < Cardinality(UpTo(e))
        \/ Cardinality(UpTo(e)) < Cardinality(UpTo(d))
    BY <1>1, <2>1
  <2>. QED
    BY <1>2, <2>2, SMT
<1>4. EndOf(n) = CHOOSE d \in Ends : Cardinality(UpTo(d)) = n
  BY DEF EndOf, UpTo
<1>. QED
  BY <1>3, <1>4

(* The line that begins at f, or of which a read was cancelled there, is   *)
(* the next.                                                               *)
LEMMA NextLine ==
  ASSUME ReaderTypes, NEW f \in Nat, Origin(f), NEW to \in Ends, f < to,
         Clear(f, to - 1)
  PROVE  /\ EndOf(Len(handled) + 1) = to
         /\ Len(handled) + 1 = Cardinality({e \in Ends : e <= to /\ e \notin cuts})
         /\ Len(handled) + 1 <= Cardinality(Ends)
<1> DEFINE A == {e \in Ends : e <= f /\ e \notin cuts}
           B == {e \in Ends : e <= to /\ e \notin cuts}
<1>1. Len(stream) \in Nat /\ to \in 1..Len(stream) /\ Ends \subseteq 1..Len(stream)
  BY StreamType DEF Ends
<1>2. \A c \in cuts : c \in Nat /\ c <= f /\ stream[c] # NL
  BY SMT DEF Origin, ReaderTypes
<1>3. \A e \in Ends : e <= to => e <= f \/ e = to
  <2> SUFFICES ASSUME NEW e \in Ends, e <= to, ~(e <= f), e # to
               PROVE  FALSE
    OBVIOUS
  <2>1. e \in f + 1 .. to - 1
    BY <1>1, SMT
  <2>2. stream[e] # NL
    BY <2>1 DEF Clear
  <2>3. e = Len(stream)
    BY <2>2 DEF Ends
  <2>. QED
    BY <1>1, <2>1, <2>3, SMT
<1>4. \A e \in Ends : e <= f => e \notin cuts
  <2> SUFFICES ASSUME NEW e \in Ends, e <= f, e \in cuts PROVE FALSE
    OBVIOUS
  <2>1. e = Len(stream)
    BY <1>2 DEF Ends
  <2>. QED
    BY <1>1, <2>1, SMT
<1>5. to \notin cuts /\ to \notin A
  BY <1>1, <1>2, SMT
<1>6. B = A \cup {to}
  <2>1. \A e \in Ends : e <= f => e <= to
    BY <1>1, SMT
  <2>2. to <= to
    BY <1>1, SMT
  <2>. QED
    BY <1>3, <1>5, <2>1, <2>2
<1>7. UpTo(to) = B
  <2>1. \A e \in Ends : e <= to => e \notin cuts
    BY <1>3, <1>4, <1>5
  <2>. QED
    BY <2>1 DEF UpTo
<1>8. IsFiniteSet(A) /\ Cardinality(B) <= Cardinality(Ends)
  <2>1. A \subseteq Ends /\ B \subseteq Ends
    OBVIOUS
  <2>. HIDE DEF A, B
  <2>. QED
    BY <2>1, EndsFinite
<1>9. Len(handled) = Cardinality(A)
  BY DEF Origin
<1>. HIDE DEF A, B
<1>10. Cardinality(B) = Cardinality(A) + 1
  BY <1>5, <1>6, <1>8, FS_AddElement
<1>11. Len(handled) + 1 = Cardinality(B)
  BY <1>9, <1>10
<1>12. EndOf(Len(handled) + 1) = to
  BY <1>7, <1>11, NumberOfEnd
<1>. QED
  BY <1>8, <1>11, <1>12 DEF B
-----------------------------------------------------------------------------
(* The lines of a stream do not change.                                    *)
LEMMA SameEnds ==
  ASSUME stream' = stream
  PROVE  /\ Ends' = Ends /\ \A i : EndOf(i)' = EndOf(i)
         /\ \A i : BeginOf(i)' = BeginOf(i)
         /\ \A a, b : Clear(a, b)' <=> Clear(a, b)
<1>1. Ends' = Ends
  BY DEF Ends
<1>2. \A i : EndOf(i)' = EndOf(i)
  BY <1>1 DEF EndOf
<1>3. \A i : BeginOf(i)' = BeginOf(i)
  BY <1>2 DEF BeginOf
<1>. QED
  BY <1>1, <1>2, <1>3 DEF Clear

(* With one element more.                                                  *)
LEMMA OneMore ==
  ASSUME NEW S, NEW s \in Seq(S), NEW e \in S, NEW t, t = Append(s, e)
  PROVE  /\ Len(s) \in Nat /\ Len(t) = Len(s) + 1 /\ t[Len(s) + 1] = e
         /\ t \in Seq(S)
         /\ \A i \in 1..Len(s) : t[i] = s[i]
BY SMT

(* The elements of a sequence.                                             *)
LEMMA ElementOf ==
  ASSUME NEW S, NEW s \in Seq(S), NEW i \in 1..Len(s)
  PROVE  s[i] \in S
BY SMT

(* What is handled of the next line begins at f.                           *)
LEMMA FromOrigin ==
  ASSUME LineInv, NEW f \in Nat, Origin(f), NEW to \in Nat, f < to,
         EndOf(Len(handled) + 1) = to
  PROVE  From(Len(handled) + 1) = f
<1> DEFINE n == Len(handled)
<1>1. n \in Nat /\ cuts \subseteq Nat
  BY SMT DEF LineInv, ReaderTypes
<1>2. Prev = BeginOf(n + 1)
  <2>1. CASE n = 0
    BY <2>1, SMT DEF Prev, BeginOf
  <2>2. CASE n # 0
    <3>1. n \in 1..n /\ n + 1 - 1 = n /\ n + 1 # 1
      BY <1>1, <2>2, SMT
    <3>2. handled[n].to = EndOf(n)
      BY <3>1 DEF LineInv, Handled
    <3>. QED
      BY <2>2, <3>1, <3>2, SMT DEF Prev, BeginOf
  <2>. QED
    BY <2>1, <2>2
<1>3. {c \in cuts : c < EndOf(n + 1)} = cuts
  <2>1. \A c \in cuts : c \in Nat /\ c <= f
    BY <1>1 DEF Origin
  <2>2. \A c \in cuts : c < to
    BY <2>1, SMT
  <2>. QED
    BY <2>2
<1>4. Prev <= f /\ f \in {Prev} \cup cuts /\ \A c \in cuts : c <= f
  BY DEF Origin
<1>5. Prev \in Nat
  <2>1. CASE n = 0
    BY <2>1 DEF Prev
  <2>2. CASE n # 0
    <3>1. n \in 1..Len(handled)
      BY <1>1, <2>2, SMT
    <3>2. handled[n] \in [from : Nat, to : Nat, tooLong : BOOLEAN]
      BY <3>1, ElementOf DEF LineInv, ReaderTypes
    <3>. QED
      BY <2>2, <3>2 DEF Prev
  <2>. QED
    BY <2>1, <2>2
<1>6. Max({Prev} \cup cuts) = f
  BY <1>1, <1>4, <1>5, Greatest
<1>. QED
  BY <1>2, <1>3, <1>6 DEF From

(* A line is handled, at its end.                                          *)
LEMMA HandleKeeps ==
  ASSUME LineInv, NEW f \in 0..start, Origin(f), NEW to \in Ends, f < to,
         Clear(f, to - 1), start <= to, to <= here,
         NEW tl \in BOOLEAN, Handle(to, tl),
         tl <=> to - f > BufSize, ~tl => start = f,
         start' = to, used' = to, mode' = "read", UNCHANGED <<peer, cuts>>
  PROVE  LineInv'
<1> DEFINE n == Len(handled)
           h == [from |-> start, to |-> to, tooLong |-> tl]
           R == [from : Nat, to : Nat, tooLong : BOOLEAN]
<1>1. ReaderTypes /\ start \in Nat /\ f \in Nat /\ here \in Nat
  BY SMT DEF LineInv, ReaderTypes
<1>2. to \in Nat /\ to >= 1
  BY <1>1, StreamType, SMT DEF Ends
<1>3. /\ n \in Nat /\ Len(handled') = n + 1 /\ handled'[n + 1] = h
      /\ handled' \in Seq(R) /\ \A i \in 1..n : handled'[i] = handled[i]
  <2>1. handled \in Seq(R) /\ h \in R /\ handled' = Append(handled, h)
    BY <1>1, <1>2 DEF ReaderTypes, Handle
  <2>. HIDE DEF R, h
  <2>. QED
    BY <2>1, OneMore, SMT
<1>4. /\ EndOf(n + 1) = to
      /\ n + 1 = Cardinality({e \in Ends : e <= to /\ e \notin cuts})
      /\ n + 1 <= Cardinality(Ends)
  BY <1>1, NextLine
<1>5. From(n + 1) = f
  BY <1>1, <1>2, <1>4, FromOrigin
<1>6. stream' = stream /\ cuts' = cuts /\ here' = here /\ eof' = eof /\ joined' = joined
  BY DEF peer
<1>7. /\ Ends' = Ends /\ \A i : EndOf(i)' = EndOf(i)
      /\ \A i : BeginOf(i)' = BeginOf(i)
  BY <1>6, SameEnds
<1>8. \A i : From(i)' = From(i)
  BY <1>6, <1>7 DEF From
<1>9. Prev' = to
  <2>1. Len(handled') # 0 /\ handled'[Len(handled')].to = to
    BY <1>3, SMT
  <2>. QED
    BY <2>1 DEF Prev
<1>10. \A c \in cuts : c \in 1..start /\ c <= f /\ stream[c] # NL
  BY <1>1 DEF Origin, ReaderTypes
<1>11. ReaderTypes'
  <2>1. \A c \in cuts : c \in 1..to
    BY <1>1, <1>2, <1>10, SMT
  <2>2. handled' \in Seq([from : Nat, to : Nat, tooLong : BOOLEAN])
    BY <1>3
  <2>. HIDE DEF n, h, R
  <2>. QED
    BY <1>1, <1>2, <1>6, <1>10, <2>1, <2>2, SMT DEF ReaderTypes
<1>12. ASSUME NEW i \in 1..Len(handled') PROVE Handled(i)'
  <2>1. CASE i = n + 1
    <3>1. handled'[i] = h /\ h.to = to /\ h.from = start /\ h.tooLong = tl
      BY <1>3, <2>1
    <3>2. to <= to
      BY <1>2, SMT
    <3>. HIDE DEF h, n
    <3>. QED
      BY <1>4, <1>5, <1>7, <1>8, <1>9, <2>1, <3>1, <3>2 DEF Handled
  <2>2. CASE i \in 1..n
    <3>1. Handled(i) /\ handled'[i] = handled[i]
      BY <1>3, <2>2 DEF LineInv
    <3>2. handled[i].to \in Nat /\ Prev \in Nat /\ Prev <= to
      <4>1. Prev <= f
        BY DEF Origin
      <4>2. n \in 1..n
        BY <1>3, <2>2, SMT
      <4>3. handled[i] \in R /\ handled[n] \in R
        <5>1. handled \in Seq(R)
          BY <1>1 DEF ReaderTypes
        <5>. HIDE DEF R
        <5>. QED
          BY <2>2, <4>2, <5>1, ElementOf
      <4>4. Prev = handled[n].to
        BY <2>2, <1>3, SMT DEF Prev
      <4>. QED
        BY <1>1, <1>2, <4>1, <4>3, <4>4, SMT
    <3>3. handled[i].to <= to
      BY <1>2, <3>1, <3>2, SMT DEF Handled
    <3>. QED
      BY <1>7, <1>8, <1>9, <3>1, <3>3 DEF Handled
  <2>. QED
    BY <1>3, <2>1, <2>2, SMT
<1>13. Origin(to)'
  <2>1. Clear(to, used)'
    BY <1>2, SMT DEF Clear
  <2>2. \A c \in cuts : c <= to
    BY <1>1, <1>2, <1>10, SMT
  <2>3. Len(handled') = Cardinality({e \in Ends' : e <= to /\ e \notin cuts'})
    BY <1>3, <1>4, <1>6, <1>7
  <2>4. to <= to
    BY <1>2, SMT
  <2>. QED
    BY <1>6, <1>9, <2>1, <2>2, <2>3, <2>4 DEF Origin
<1>14. used' <= start' + Limit' /\ to \in 0..start'
  BY <1>2, ReaderAssumption, SMT DEF Limit
<1>15. Len(handled') <= Cardinality(Ends')
  BY <1>3, <1>4, <1>7
<1>16. mode' # "end" => used' <= start' + Limit' /\ \E g \in 0..start' : Origin(g)'
  BY <1>13, <1>14
<1>. QED
  BY <1>11, <1>12, <1>15, <1>16 DEF LineInv
-----------------------------------------------------------------------------
(* One stretch without a newline after another.                            *)
LEMMA ClearOn ==
  ASSUME NEW a \in Nat, NEW b \in Nat, NEW c \in Nat, a <= b, b <= c,
         Clear(a, b), Clear(b, c - 1)
  PROVE  /\ Clear(a, c - 1)
         /\ (c = b \/ stream[c] # NL) => Clear(a, c)
<1>1. ASSUME NEW i \in a + 1 .. c - 1 PROVE stream[i] # NL
  <2>1. i \in a + 1 .. b \/ i \in b + 1 .. c - 1
    BY SMT
  <2>. QED
    BY <2>1 DEF Clear
<1>2. ASSUME c = b \/ stream[c] # NL, NEW i \in a + 1 .. c PROVE stream[i] # NL
  <2>1. i \in a + 1 .. c - 1 \/ i = c
    BY SMT
  <2>2. CASE i = c
    <3>1. c = b => i \in a + 1 .. b
      BY <2>2
    <3>. QED
      BY <1>2, <2>2, <3>1 DEF Clear
  <2>. QED
    BY <1>1, <2>1, <2>2
<1>. QED
  BY <1>1, <1>2 DEF Clear

(* The line goes on.                                                       *)
LEMMA SameOrigin ==
  ASSUME NEW f, Origin(f), UNCHANGED <<stream, cuts, handled>>,
         Clear(f, used'), IF mode' = "read" THEN f = start' ELSE f + BufSize < start'
  PROVE  Origin(f)'
<1>1. Ends' = Ends /\ Prev' = Prev /\ (Clear(f, used)' <=> Clear(f, used'))
  BY SameEnds DEF Prev, Clear
<1>. QED
  BY <1>1 DEF Origin

(* No line is handled, and no read cancelled.                              *)
LEMMA GoesOn ==
  ASSUME LineInv, UNCHANGED <<stream, cuts, handled>>, ReaderTypes',
         mode' # "end" => used' <= start' + Limit' /\ \E f \in 0..start' : Origin(f)'
  PROVE  LineInv'
<1>1. /\ Ends' = Ends /\ \A i : EndOf(i)' = EndOf(i)
      /\ \A i : BeginOf(i)' = BeginOf(i)
  BY SameEnds
<1>2. \A i : From(i)' = From(i)
  BY <1>1 DEF From
<1>3. \A i \in 1..Len(handled) : Handled(i)'
  BY <1>1, <1>2 DEF LineInv, Handled, Prev
<1>4. Len(handled') <= Cardinality(Ends')
  BY <1>1 DEF LineInv
<1>. QED
  BY <1>3, <1>4 DEF LineInv

(* The end of the task.                                                    *)
LEMMA EndKeeps ==
  ASSUME LineInv, UNCHANGED <<peer, cuts, handled>>, mode' = "end",
         start' \in Nat, used' \in Nat, start <= start', start' <= used', used' <= here
  PROVE  LineInv'
<1>1. stream' = stream /\ joined' = joined /\ here' = here /\ eof' = eof
  BY DEF peer
<1>2. ReaderTypes /\ start \in Nat
  BY DEF LineInv, ReaderTypes
<1>3. \A c \in cuts : c \in 1..start' /\ stream[c] # NL
  BY <1>2, SMT DEF ReaderTypes
<1>4. ReaderTypes'
  BY <1>1, <1>2, <1>3 DEF ReaderTypes
<1>. QED
  BY <1>1, <1>4, GoesOn

(* The line is over-long, and its end is not there yet.                    *)
LEMMA SkipsOn ==
  ASSUME LineInv, NEW f \in 0..start, Origin(f), NEW to \in Nat,
         start <= to, to <= here, Clear(f, to), f + BufSize < to,
         used' = to, start' = to, mode' = "skip",
         UNCHANGED <<stream, joined, here, eof, cuts, handled>>
  PROVE  LineInv'
<1>1. Origin(f)'
  BY SameOrigin
<1>2. ReaderTypes /\ start \in Nat /\ f \in Nat
  BY SMT DEF LineInv, ReaderTypes
<1>3. \A c \in cuts : c \in 1..to /\ stream[c] # NL
  BY <1>2, SMT DEF ReaderTypes
<1>4. to <= to /\ f \in 0..to
  BY <1>2, SMT
<1>5. ReaderTypes'
  BY <1>2, <1>3, <1>4 DEF ReaderTypes
<1>6. used' <= start' + Limit'
  BY ReaderAssumption, SMT DEF Limit
<1>7. \E g \in 0..start' : Origin(g)'
  BY <1>1, <1>4
<1>. QED
  BY <1>5, <1>6, <1>7, GoesOn

(* wait_for_input.                                                         *)
LEMMA ReadKeeps ==
  ASSUME LineInv, Read
  PROVE  LineInv'
<1>0. PICK to : to = Reach(BufSize + 1)
  OBVIOUS
<1>1. mode = "read" /\ Returns(BufSize + 1) /\ used' = to /\ start' = to
      /\ UNCHANGED <<peer, cuts>>
  BY <1>0 DEF Read
<1>2. \/ mode' = "end" /\ UNCHANGED handled
      \/ to - start \in 1..BufSize /\ Handle(to, FALSE) /\ UNCHANGED mode
      \/ to - start > BufSize /\ stream[to] = NL /\ Handle(to, TRUE) /\ UNCHANGED mode
      \/ to - start > BufSize /\ stream[to] # NL /\ mode' = "skip" /\ UNCHANGED handled
  BY <1>0 DEF Read
<1>3. \/ to = start + (BufSize + 1)
      \/ to > used /\ stream[to] = NL
      \/ to = here /\ eof
  BY <1>0, <1>1 DEF Returns
<1>4. ReaderTypes /\ BufSize \in Nat /\ used <= start + (BufSize + 1)
  BY <1>1, ReaderAssumption DEF LineInv, Limit
<1>5. PICK f \in 0..start : f = start /\ Origin(f)
  BY <1>1 DEF LineInv, Origin
<1>6. f \in Nat /\ start = f /\ used \in Nat /\ here \in Nat /\ f <= used
      /\ Clear(f, used) /\ here <= Len(stream) /\ (eof => here = Len(stream))
  BY <1>4, <1>5 DEF Origin, ReaderTypes
<1>7. to \in Nat /\ used <= to /\ to <= here /\ to <= f + (BufSize + 1)
      /\ Clear(used, to - 1)
  <2>1. BufSize + 1 \in Nat
    BY <1>4, SMT
  <2>. QED
    BY <1>0, <1>4, <1>6, <2>1, ReachFacts
<1>8. /\ Clear(f, to - 1)
      /\ stream[to] # NL => Clear(f, to)
  BY <1>6, <1>7, ClearOn
<1>9. Len(stream) \in Nat /\ f <= to /\ to <= to
  BY <1>4, <1>6, <1>7, StreamType, SMT
<1>10. CASE mode' = "end" /\ UNCHANGED handled
  BY <1>1, <1>6, <1>7, <1>9, <1>10, EndKeeps
<1>11. CASE to - start \in 1..BufSize /\ Handle(to, FALSE) /\ UNCHANGED mode
  <2>1. f < to /\ to # f + (BufSize + 1) /\ ~(to - f > BufSize)
    BY <1>4, <1>6, <1>7, <1>11, SMT
  <2>2. to \in 1..Len(stream) /\ (stream[to] = NL \/ to = Len(stream))
    BY <1>3, <1>6, <1>7, <1>9, <2>1, SMT
  <2>3. to \in Ends
    BY <2>2 DEF Ends
  <2>. QED
    BY <1>1, <1>5, <1>6, <1>7, <1>8, <1>9, <1>11, <2>1, <2>3, HandleKeeps
<1>12. CASE to - start > BufSize /\ stream[to] = NL /\ Handle(to, TRUE) /\ UNCHANGED mode
  <2>1. f < to /\ to - f > BufSize
    BY <1>4, <1>6, <1>7, <1>12, SMT
  <2>2. to \in 1..Len(stream)
    BY <1>6, <1>7, <1>9, <2>1, SMT
  <2>3. to \in Ends
    BY <1>12, <2>2 DEF Ends
  <2>. QED
    BY <1>1, <1>5, <1>6, <1>7, <1>8, <1>9, <1>12, <2>1, <2>3, HandleKeeps
<1>13. CASE to - start > BufSize /\ stream[to] # NL /\ mode' = "skip" /\ UNCHANGED handled
  <2>1. Clear(f, to) /\ f + BufSize < to
    BY <1>4, <1>6, <1>7, <1>8, <1>13, SMT
  <2>2. UNCHANGED <<stream, joined, here, eof, cuts, handled>>
    BY <1>1, <1>13 DEF peer
  <2>. QED
    BY <1>1, <1>4, <1>5, <1>6, <1>7, <1>9, <1>13, <2>1, <2>2, SkipsOn
<1>. QED
  BY <1>2, <1>10, <1>11, <1>12, <1>13

(* The rest of an over-long line is read away.                             *)
LEMMA SkipKeeps ==
  ASSUME LineInv, Skip
  PROVE  LineInv'
<1>0. PICK to : to = Reach(SkipSize)
  OBVIOUS
<1>1. mode = "skip" /\ Returns(SkipSize) /\ used' = to /\ start' = to
      /\ UNCHANGED <<peer, cuts>>
  BY <1>0 DEF Skip
<1>2. \/ /\ to = start \/ stream[to] = NL
         /\ mode' = "read" /\ Handle(to, TRUE)
      \/ to # start /\ stream[to] # NL /\ UNCHANGED <<mode, handled>>
  BY <1>0 DEF Skip
<1>3. \/ to = start + SkipSize
      \/ to > used /\ stream[to] = NL
      \/ to = here /\ eof
  BY <1>0, <1>1 DEF Returns
<1>4. ReaderTypes /\ BufSize \in Nat /\ SkipSize \in Nat /\ SkipSize # 0
      /\ used <= start + SkipSize
  BY <1>1, ReaderAssumption DEF LineInv, Limit
<1>5. PICK f \in 0..start : Origin(f)
  BY <1>1 DEF LineInv
<1>6. /\ f \in Nat /\ start \in Nat /\ used \in Nat /\ here \in Nat
      /\ start <= used /\ here <= Len(stream) /\ (eof => here = Len(stream))
  BY <1>4, <1>5, SMT DEF ReaderTypes
<1>7. Clear(f, used) /\ f + BufSize < start
  BY <1>1, <1>5 DEF Origin
<1>8. to \in Nat /\ used <= to /\ to <= here /\ to <= start + SkipSize
      /\ Clear(used, to - 1)
  BY <1>0, <1>4, ReachFacts
<1>9. f <= used /\ f < to /\ start <= to /\ to - f > BufSize /\ f + BufSize < to
      /\ Len(stream) \in Nat /\ to \in 1..Len(stream)
  BY <1>4, <1>6, <1>7, <1>8, StreamType, SMT
<1>10. /\ Clear(f, to - 1)
       /\ stream[to] # NL => Clear(f, to)
  BY <1>6, <1>7, <1>8, <1>9, ClearOn
<1>11. CASE (to = start \/ stream[to] = NL) /\ mode' = "read" /\ Handle(to, TRUE)
  <2>1. stream[to] = NL \/ to = Len(stream)
    BY <1>3, <1>4, <1>6, <1>8, <1>9, <1>11, SMT
  <2>2. to \in Ends
    BY <1>9, <2>1 DEF Ends
  <2>. QED
    BY <1>1, <1>5, <1>8, <1>9, <1>10, <1>11, <2>2, HandleKeeps
<1>12. CASE to # start /\ stream[to] # NL /\ UNCHANGED <<mode, handled>>
  <2>1. UNCHANGED <<stream, joined, here, eof, cuts, handled>>
    BY <1>1, <1>12 DEF peer
  <2>. QED
    BY <1>1, <1>4, <1>5, <1>6, <1>8, <1>9, <1>10, <1>12, <2>1, SkipsOn
<1>. QED
  BY <1>2, <1>11, <1>12

(* read_until takes what is there and waits for more.                      *)
LEMMA WaitKeeps ==
  ASSUME LineInv, Wait
  PROVE  LineInv'
<1>0. PICK to : to = Reach(Limit)
  OBVIOUS
<1>1. mode # "end" /\ ~Returns(Limit) /\ used' = to
      /\ UNCHANGED <<peer, mode, start, cuts, handled>>
  BY <1>0 DEF Wait, Limit
<1>2. to = used \/ stream[to] # NL \/ ~(to > used)
  BY <1>0, <1>1 DEF Returns
<1>3. ReaderTypes /\ Limit \in Nat /\ used <= start + Limit
  BY <1>1, ReaderAssumption, SMT DEF LineInv, Limit
<1>4. PICK f \in 0..start : Origin(f)
  BY <1>1 DEF LineInv
<1>5. f \in Nat /\ start \in Nat /\ used \in Nat /\ start <= used /\ f <= used
      /\ Clear(f, used)
  BY <1>3, <1>4, SMT DEF ReaderTypes, Origin
<1>6. to \in Nat /\ used <= to /\ to <= here /\ to <= start + Limit
      /\ Clear(used, to - 1)
  BY <1>0, <1>3, ReachFacts
<1>7. to = used \/ stream[to] # NL
  BY <1>2, <1>5, <1>6, SMT
<1>8. Clear(f, used')
  BY <1>1, <1>5, <1>6, <1>7, ClearOn
<1>9. stream' = stream /\ joined' = joined /\ here' = here /\ eof' = eof
      /\ mode' = mode /\ start' = start /\ cuts' = cuts /\ handled' = handled
  BY <1>1 DEF peer
<1>10. IF mode' = "read" THEN f = start' ELSE f + BufSize < start'
  BY <1>4, <1>9 DEF Origin
<1>11. Origin(f)'
  BY <1>4, <1>8, <1>9, <1>10, SameOrigin
<1>12. ReaderTypes'
  BY <1>1, <1>3, <1>5, <1>6, <1>9, SMT DEF ReaderTypes
<1>13. used' <= start' + Limit'
  BY <1>1, <1>6, <1>9 DEF Limit
<1>14. \E g \in 0..start' : Origin(g)'
  <2>1. f \in 0..start'
    BY <1>9
  <2>. QED
    BY <1>11, <2>1
<1>. QED
  BY <1>9, <1>12, <1>13, <1>14, GoesOn

(* The socket takes more bytes, or the end of file.                        *)
LEMMA PeerKeeps ==
  ASSUME LineInv, Arrive \/ Close
  PROVE  LineInv'
<1>1. UNCHANGED <<stream, joined, mode, start, used, cuts, handled>>
  BY DEF Arrive, Close
<1>2. ReaderTypes
  BY DEF LineInv
<1>3. Len(stream) \in Nat
  BY <1>2, StreamType
<1>4. here' \in Nat /\ eof' \in BOOLEAN /\ used <= here' /\ here' <= Len(stream)
      /\ (eof' => here' = Len(stream))
  <2>1. here \in Nat /\ used \in Nat /\ used <= here /\ here <= Len(stream)
        /\ eof \in BOOLEAN /\ (eof => here = Len(stream))
    BY <1>2 DEF ReaderTypes
  <2>2. CASE Arrive
    <3>1. here < Len(stream) /\ here' \in here + 1 .. Len(stream) /\ eof' = eof
      BY <2>2 DEF Arrive
    <3>2. ~eof
      BY <2>1, <3>1, <1>3, SMT
    <3>. QED
      BY <1>3, <2>1, <3>1, <3>2, SMT
  <2>3. CASE Close
    <3>1. here = Len(stream) /\ here' = here /\ eof' = TRUE
      BY <2>3 DEF Close
    <3>. QED
      BY <2>1, <3>1
  <2>. QED
    BY <2>2, <2>3
<1>5. ReaderTypes'
  BY <1>1, <1>2, <1>4 DEF ReaderTypes
<1>6. ASSUME mode' # "end" PROVE used' <= start' + Limit' /\ \E g \in 0..start' : Origin(g)'
  <2>1. PICK f \in 0..start : Origin(f)
    BY <1>1, <1>6 DEF LineInv
  <2>2. Clear(f, used') /\ IF mode' = "read" THEN f = start' ELSE f + BufSize < start'
    BY <1>1, <2>1 DEF Origin
  <2>3. Origin(f)'
    BY <1>1, <2>1, <2>2, SameOrigin
  <2>4. f \in 0..start'
    BY <1>1
  <2>5. used' <= start' + Limit'
    BY <1>1, <1>6 DEF LineInv, Limit
  <2>. QED
    BY <2>3, <2>4, <2>5
<1>. QED
  BY <1>1, <1>5, <1>6, GoesOn

(* The end of the last line handled is a place in the stream.              *)
LEMMA PrevType ==
  ASSUME ReaderTypes
  PROVE  Prev \in Nat
<1>1. CASE Len(handled) = 0
  BY <1>1 DEF Prev
<1>2. CASE Len(handled) # 0
  <2>1. Len(handled) \in 1..Len(handled)
    BY <1>2, SMT DEF ReaderTypes
  <2>2. handled[Len(handled)] \in [from : Nat, to : Nat, tooLong : BOOLEAN]
    BY <2>1, ElementOf DEF ReaderTypes
  <2>. QED
    BY <1>2, <2>2 DEF Prev
<1>. QED
  BY <1>1, <1>2

(* A cancelled read: what it had read of the line is gone, and the lines   *)
(* handled before are what they were.                                      *)
LEMMA CancelKeeps ==
  ASSUME LineInv, Cancel
  PROVE  LineInv'
<1>0. PICK u : u = used
  OBVIOUS
<1>1. mode = "read" /\ start < u /\ start' = u /\ used' = u /\ cuts' = cuts \cup {u}
      /\ stream' = stream /\ joined' = joined /\ here' = here /\ eof' = eof
      /\ mode' = mode /\ handled' = handled
  BY <1>0 DEF Cancel, peer
<1>2. ReaderTypes /\ Len(stream) \in Nat
  BY StreamType DEF LineInv
<1>3. PICK f \in 0..start : f = start /\ Origin(f)
  BY <1>1 DEF LineInv, Origin
<1>4. f \in Nat /\ u \in Nat /\ f = start /\ f < u /\ u <= here /\ here <= Len(stream)
      /\ here \in Nat /\ Clear(f, u) /\ Prev <= f /\ \A c \in cuts : c \in 1..f
  BY <1>0, <1>1, <1>2, <1>3 DEF Origin, ReaderTypes
<1>5. u \in 1..u /\ stream[u] # NL
  BY <1>4, SMT DEF Clear
<1>6. \A c \in cuts' : c \in 1..u /\ stream[c] # NL
  <2>1. \A c \in cuts : c \in 1..u /\ stream[c] # NL
    BY <1>2, <1>4, SMT DEF ReaderTypes
  <2>. QED
    BY <1>1, <1>5, <2>1
<1>7. ReaderTypes'
  BY <1>1, <1>2, <1>4, <1>6, SMT DEF ReaderTypes
<1>8. /\ Ends' = Ends /\ \A i : EndOf(i)' = EndOf(i)
      /\ \A i : BeginOf(i)' = BeginOf(i)
  BY <1>1, SameEnds
<1>9. Prev' = Prev
  BY <1>1 DEF Prev
<1>10. {e \in Ends : e <= u /\ e \notin cuts \cup {u}}
       = {e \in Ends : e <= f /\ e \notin cuts}
  <2>1. ASSUME NEW e \in Ends PROVE (e <= u /\ e # u) <=> e <= f
    <3>1. e \in 1..Len(stream) /\ (stream[e] = NL \/ e = Len(stream))
      BY DEF Ends
    <3>2. ~(f < e /\ e < u)
      <4>1. SUFFICES ASSUME f < e, e < u PROVE FALSE
        OBVIOUS
      <4>2. e \in f + 1 .. u /\ e # Len(stream)
        BY <1>2, <1>4, <3>1, <4>1, SMT
      <4>. QED
        BY <1>4, <3>1, <4>2 DEF Clear
    <3>. QED
      BY <1>4, <3>1, <3>2, SMT
  <2>. QED
    BY <2>1
<1>11. Origin(u)'
  <2>1. u \in {Prev} \cup cuts' /\ Prev <= u
    <3>1. Prev \in Nat
      BY <1>2, PrevType
    <3>. QED
      BY <1>1, <1>4, <3>1, SMT
  <2>2. \A c \in cuts' : c <= u
    BY <1>4, <1>6, SMT
  <2>3. Clear(u, used)'
    BY <1>1, <1>4, SMT DEF Clear
  <2>4. Len(handled) = Cardinality({e \in Ends : e <= u /\ e \notin cuts \cup {u}})
    BY <1>3, <1>10 DEF Origin
  <2>5. Len(handled') = Cardinality({e \in Ends' : e <= u /\ e \notin cuts'})
    BY <1>1, <1>8, <2>4
  <2>. QED
    BY <1>1, <1>9, <2>1, <2>2, <2>3, <2>5 DEF Origin
<1>12. ASSUME NEW i \in 1..Len(handled) PROVE Handled(i)'
  <2>1. Handled(i)
    BY DEF LineInv
  <2>2. handled[i].to \in Nat /\ Prev \in Nat
    <3>1. handled[i] \in [from : Nat, to : Nat, tooLong : BOOLEAN]
      BY <1>2, ElementOf DEF ReaderTypes
    <3>. QED
      BY <1>2, <3>1, PrevType
  <2>3. ~(u < EndOf(i))
    BY <1>4, <2>1, <2>2, SMT DEF Handled
  <2>4. {c \in cuts' : c < EndOf(i)} = {c \in cuts : c < EndOf(i)}
    BY <1>1, <2>3
  <2>5. From(i)' = From(i)
    BY <1>8, <2>4 DEF From
  <2>. QED
    BY <1>1, <1>8, <1>9, <2>1, <2>5 DEF Handled
<1>13. used' <= start' + Limit'
  BY <1>1, <1>4, ReaderAssumption, SMT DEF Limit
<1>14. \E g \in 0..start' : Origin(g)'
  <2>1. u \in 0..start'
    BY <1>1, <1>4, SMT
  <2>. QED
    BY <1>11, <2>1
<1>15. Len(handled') <= Cardinality(Ends')
  BY <1>1, <1>8 DEF LineInv
<1>16. \A i \in 1..Len(handled') : Handled(i)'
  BY <1>1, <1>12
<1>. QED
  BY <1>7, <1>13, <1>14, <1>15, <1>16 DEF LineInv

(* Before the JOIN, the read timeout ends the task.                        *)
LEMMA ExpireKeeps ==
  ASSUME LineInv, Expire
  PROVE  LineInv'
<1>1. UNCHANGED <<peer, cuts, handled>> /\ mode' = "end"
      /\ start' = start /\ used' = used
  BY DEF Expire
<1>2. start \in Nat /\ used \in Nat /\ start <= used /\ used <= here
  BY DEF LineInv, ReaderTypes
<1>3. start' \in Nat /\ used' \in Nat /\ start <= start' /\ start' <= used' /\ used' <= here
  BY <1>1, <1>2, SMT
<1>. QED
  BY <1>1, <1>3, EndKeeps

(* Nothing happens.                                                        *)
LEMMA StillKeeps ==
  ASSUME LineInv, UNCHANGED vars
  PROVE  LineInv'
<1>1. stream' = stream /\ joined' = joined /\ here' = here /\ eof' = eof /\ mode' = mode
      /\ start' = start /\ used' = used /\ cuts' = cuts /\ handled' = handled
  BY DEF vars, peer
<1>2. ReaderTypes'
  BY <1>1 DEF LineInv, ReaderTypes
<1>3. Limit' = Limit
  BY <1>1 DEF Limit
<1>4. ASSUME mode' # "end" PROVE used' <= start' + Limit' /\ \E g \in 0..start' : Origin(g)'
  <2>1. PICK f \in 0..start : Origin(f)
    BY <1>1, <1>4 DEF LineInv
  <2>2. Clear(f, used') /\ IF mode' = "read" THEN f = start' ELSE f + BufSize < start'
    BY <1>1, <2>1 DEF Origin
  <2>3. Origin(f)'
    BY <1>1, <2>1, <2>2, SameOrigin
  <2>4. f \in 0..start'
    BY <1>1
  <2>5. used' <= start' + Limit'
    BY <1>1, <1>3, <1>4 DEF LineInv
  <2>. QED
    BY <2>3, <2>4, <2>5
<1>. QED
  BY <1>1, <1>2, <1>4, GoesOn

(* Nothing has been read at first.                                         *)
LEMMA LineInit ==
  ASSUME Init
  PROVE  LineInv
<1>1. stream \in Seq(Range(stream)) /\ stream \in Streams
  BY ReaderAssumption DEF Init
<1>2. here = 0 /\ eof = FALSE /\ mode = "read" /\ start = 0 /\ used = 0 /\ cuts = {}
      /\ handled = <<>> /\ joined \in BOOLEAN /\ Len(handled) = 0
  BY DEF Init
<1>3. Len(stream) \in Nat
  BY <1>1, SMT
<1>4. ReaderTypes
  <2>1. handled \in Seq([from : Nat, to : Nat, tooLong : BOOLEAN])
    BY <1>2, SMT
  <2>2. \A c \in cuts : c \in 1..start /\ stream[c] # NL
    BY <1>2
  <2>3. here \in Nat /\ used \in Nat /\ start \in Nat
        /\ start <= used /\ used <= here /\ here <= Len(stream)
    BY <1>2, <1>3, SMT
  <2>4. (eof => here = Len(stream)) /\ eof \in BOOLEAN /\ joined \in BOOLEAN
        /\ mode \in {"read", "skip", "end"}
    BY <1>2
  <2>. QED
    BY <1>1, <2>1, <2>2, <2>3, <2>4 DEF ReaderTypes
<1>5. Cardinality(Ends) \in Nat
  BY <1>4, EndsFinite, FS_CardinalityType
<1>6. {e \in Ends : e <= 0 /\ e \notin cuts} = {}
  BY <1>3, SMT DEF Ends
<1>7. Origin(0)
  <2>1. Prev = 0
    BY <1>2 DEF Prev
  <2>2. Clear(0, used)
    BY <1>2, SMT DEF Clear
  <2>3. Len(handled) = Cardinality({e \in Ends : e <= 0 /\ e \notin cuts})
    BY <1>2, <1>6, FS_EmptySet
  <2>. QED
    BY <1>2, <2>1, <2>2, <2>3, SMT DEF Origin
<1>8. used <= start + Limit /\ 0 \in 0..start
  BY <1>2, ReaderAssumption, SMT DEF Limit
<1>9. Len(handled) <= Cardinality(Ends) /\ \A i \in 1..Len(handled) : Handled(i)
  BY <1>2, <1>5, SMT
<1>. QED
  BY <1>4, <1>7, <1>8, <1>9 DEF LineInv

(* What the invariant says of the lines is what ReadsLines does.           *)
LEMMA LineMeans ==
  ASSUME LineInv
  PROVE  ReadsLines
<1>1. ASSUME mode = "read"
      PROVE  Len(handled) = Cardinality({e \in Ends : e <= start /\ e \notin cuts})
  <2>1. PICK f \in 0..start : Origin(f)
    BY <1>1 DEF LineInv
  <2>. QED
    BY <1>1, <2>1 DEF Origin
<1>2. ASSUME NEW i \in 1..Len(handled)
      PROVE  LET h == handled[i]
                 from == Max({BeginOf(i)} \cup {c \in cuts : c < EndOf(i)})
             IN /\ h.to = EndOf(i)
                /\ h.tooLong <=> h.to - from > BufSize
                /\ ~h.tooLong => h.from = from
  BY DEF LineInv, Handled, From
<1>. QED
  BY <1>1, <1>2 DEF LineInv, ReadsLines
-----------------------------------------------------------------------------
(* A set of numbers up to n has a greatest element.                        *)
LEMMA Largest ==
  ASSUME NEW n \in Nat, NEW S, S \subseteq 1..n, S # {}
  PROVE  Max(S) \in S /\ \A y \in S : y <= Max(S)
<1> DEFINE D == {k \in 0..n : n - k \in S}
<1>1. D \subseteq Nat /\ D # {}
  <2>1. PICK x \in S : x \in 1..n
    OBVIOUS
  <2>2. n - x \in 0..n /\ n - (n - x) = x
    BY <2>1, SMT
  <2>3. n - x \in D
    BY <2>1, <2>2
  <2>4. D \subseteq Nat
    BY SMT
  <2>. QED
    BY <2>3, <2>4
<1>2. Min(D) \in D /\ \A y \in D : Min(D) <= y
  BY <1>1, Least
<1>3. PICK k \in 0..n : n - k \in S /\ \A y \in D : k <= y
  BY <1>2
<1>4. ASSUME NEW y \in S
      PROVE  y <= n - k
  <2>1. y \in 1..n /\ n - y \in 0..n /\ n - (n - y) = y
    BY SMT
  <2>2. n - y \in D
    BY <2>1
  <2>3. k <= n - y
    BY <1>3, <2>2
  <2>. QED
    BY <2>1, <2>3, SMT
<1>5. S \subseteq Nat
  BY SMT
<1>6. Max(S) = n - k
  BY <1>3, <1>4, <1>5, Greatest
<1>. QED
  BY <1>3, <1>4, <1>6

(* The least element of a set, if there is one.                            *)
LEMMA Smallest ==
  ASSUME NEW S, S \subseteq Nat, NEW f \in S, \A y \in S : f <= y
  PROVE  Min(S) = f
<1>1. Min(S) \in S /\ \A y \in S : Min(S) <= y
  BY Least
<1>2. Min(S) <= f /\ f <= Min(S) /\ Min(S) \in Nat /\ f \in Nat
  BY <1>1
<1>. QED
  BY <1>2, SMT

(* Sequences with the same elements are equal.                             *)
LEMMA SameElements ==
  ASSUME NEW T, NEW s \in Seq(T), NEW t \in Seq(T), Len(s) = Len(t),
         \A i \in 1..Len(s) : s[i] = t[i]
  PROVE  s = t
BY SMT

(* What is left of a text by trimming.                                     *)
LEMMA Trimmed ==
  ASSUME NEW T, NEW s \in Seq(T), Trim(s) # <<>>
  PROVE  \E a, b \in 1..Len(s) :
           /\ a <= b /\ Trim(s) = SubSeq(s, a, b)
           /\ s[a] \notin Blanks /\ s[b] \notin Blanks
           /\ \A i \in 1..Len(s) : s[i] \notin Blanks => a <= i /\ i <= b
<1> DEFINE ink == {i \in DOMAIN s : s[i] \notin Blanks}
<1>1. DOMAIN s = 1..Len(s) /\ Len(s) \in Nat
  BY SMT
<1>2. ink \subseteq 1..Len(s) /\ ink \subseteq Nat
  BY <1>1, SMT
<1>3. ink # {} /\ Trim(s) = SubSeq(s, Min(ink), Max(ink))
  BY DEF Trim
<1>4. Min(ink) \in ink /\ \A y \in ink : Min(ink) <= y
  BY <1>2, <1>3, Least
<1>5. Max(ink) \in ink /\ \A y \in ink : y <= Max(ink)
  BY <1>1, <1>2, <1>3, Largest
<1>6. Min(ink) <= Max(ink)
  BY <1>4, <1>5
<1>. QED
  BY <1>1, <1>2, <1>3, <1>4, <1>5, <1>6

(* A text followed by blanks is trimmed to the text.                       *)
LEMMA TrimEnd ==
  ASSUME NEW T, NEW s \in Seq(T), s # <<>>,
         s[1] \notin Blanks, s[Len(s)] \notin Blanks,
         NEW l \in Seq(T), Len(s) <= Len(l),
         \A i \in 1..Len(s) : l[i] = s[i],
         \A i \in Len(s) + 1 .. Len(l) : l[i] \in Blanks
  PROVE  Trim(l) = s
<1> DEFINE ink == {i \in DOMAIN l : l[i] \notin Blanks}
<1>1. /\ Len(s) \in Nat /\ Len(s) >= 1 /\ Len(l) \in Nat /\ Len(s) <= Len(l)
      /\ DOMAIN l = 1..Len(l)
  BY SMT
<1>3. ink \subseteq 1..Len(s) /\ 1 \in ink /\ Len(s) \in ink
  <2>1. 1 \in 1..Len(s) /\ Len(s) \in 1..Len(s) /\ 1 \in DOMAIN l
        /\ Len(s) \in DOMAIN l
    BY <1>1, SMT
  <2>2. 1 \in ink /\ Len(s) \in ink
    BY <1>1, <2>1
  <2>3. ASSUME NEW i \in ink PROVE i \in 1..Len(s)
    <3>1. i \in 1..Len(l) /\ i \notin Len(s) + 1 .. Len(l)
      BY <1>1
    <3>. QED
      BY <1>1, <3>1, SMT
  <2>. QED
    BY <2>2, <2>3
<1>4. Min(ink) = 1 /\ Max(ink) = Len(s)
  <2>1. ink \subseteq Nat /\ \A y \in ink : 1 <= y /\ y <= Len(s)
    BY <1>1, <1>3, SMT
  <2>. HIDE DEF ink
  <2>. QED
    BY <1>1, <1>3, <2>1, Smallest, Greatest
<1>5. Trim(l) = SubSeq(l, 1, Len(s))
  BY <1>3, <1>4 DEF Trim
<1>. HIDE DEF ink
<1>6. SubSeq(l, 1, Len(s)) = s
  <2>1. /\ SubSeq(l, 1, Len(s)) \in Seq(T) /\ Len(SubSeq(l, 1, Len(s))) = Len(s)
        /\ \A i \in 1..Len(s) : SubSeq(l, 1, Len(s))[i] = l[i]
    BY <1>1, SMT
  <2>2. \A i \in 1..Len(s) : SubSeq(l, 1, Len(s))[i] = s[i]
    BY <2>1
  <2>. QED
    BY <2>1, <2>2, SameElements
<1>. QED
  BY <1>5, <1>6

(* A line is trimmed to the text before its newline.                       *)
LEMMA TrimLine ==
  ASSUME NEW T, NL \in T, NEW s \in Seq(T), s # <<>>,
         s[1] \notin Blanks, s[Len(s)] \notin Blanks
  PROVE  Trim(Append(s, NL)) = s
<1> DEFINE l == Append(s, NL)
<1>1. /\ l \in Seq(T) /\ Len(s) <= Len(l) /\ \A i \in 1..Len(s) : l[i] = s[i]
      /\ \A i \in Len(s) + 1 .. Len(l) : l[i] = NL
  BY SMT
<1>2. NL \in Blanks
  BY DEF Blanks
<1>. HIDE DEF l
<1>3. Trim(l) = s
  BY <1>1, <1>2, TrimEnd
<1>. QED
  BY <1>3 DEF l

(* The blank, whose literal is kept from the provers.                      *)
Space == " "

(* A blank at the end of a text is trimmed away.                           *)
LEMMA TrimBlank ==
  ASSUME NEW T, Space \in T, NEW s \in Seq(T), Trim(s) # <<>>
  PROVE  Trim(Append(s, Space)) = Trim(s)
<1> DEFINE l == Append(s, Space)
           ink == {i \in DOMAIN s : s[i] \notin Blanks}
           inked == {i \in DOMAIN l : l[i] \notin Blanks}
<1>1. /\ Len(s) \in Nat /\ DOMAIN s = 1..Len(s) /\ DOMAIN l = 1..Len(s) + 1
      /\ l \in Seq(T) /\ Len(l) = Len(s) + 1 /\ l[Len(s) + 1] = Space
      /\ \A i \in 1..Len(s) : l[i] = s[i]
      /\ \A i \in 1..Len(s) + 1 : i \in 1..Len(s) \/ i = Len(s) + 1
      /\ 1..Len(s) \subseteq 1..Len(s) + 1
  BY SMT
<1>2. Space \in Blanks
  BY DEF Blanks, Space
<1>. HIDE DEF l
<1>3. inked = ink
  <2>1. ASSUME NEW i \in ink PROVE i \in inked
    BY <1>1
  <2>2. ASSUME NEW i \in inked PROVE i \in ink
    <3>1. i \in 1..Len(s) \/ i = Len(s) + 1
      BY <1>1
    <3>. QED
      BY <1>1, <1>2, <3>1
  <2>. HIDE DEF ink, inked
  <2>. QED
    BY <2>1, <2>2
<1>4. ink # {} /\ Trim(s) = SubSeq(s, Min(ink), Max(ink))
  BY DEF Trim
<1>5. Trim(l) = SubSeq(l, Min(ink), Max(ink))
  BY <1>3, <1>4 DEF Trim
<1>6. ink \subseteq 1..Len(s) /\ ink \subseteq Nat
  BY <1>1, SMT
<1>7. Min(ink) \in 1..Len(s) /\ Max(ink) \in 1..Len(s)
  BY <1>1, <1>4, <1>6, Least, Largest
<1>. HIDE DEF ink
<1>8. ASSUME NEW a \in 1..Len(s), NEW b \in 1..Len(s)
      PROVE  SubSeq(l, a, b) = SubSeq(s, a, b)
  <2> DEFINE x == SubSeq(l, a, b)
             y == SubSeq(s, a, b)
  <2>1. /\ x \in Seq(T) /\ y \in Seq(T) /\ Len(x) = Len(y)
        /\ \A i \in 1..Len(x) : x[i] = l[a + i - 1] /\ y[i] = s[a + i - 1]
                                /\ a + i - 1 \in 1..Len(s)
    BY <1>1, SMT
  <2>. HIDE DEF x, y
  <2>2. \A i \in 1..Len(x) : x[i] = y[i]
    BY <1>1, <2>1
  <2>3. x = y
    BY <2>1, <2>2, SameElements
  <2>. QED
    BY <2>3 DEF x, y
<1>. QED
  BY <1>4, <1>5, <1>7, <1>8 DEF l


(* The text is split at its first separator ...                            *)
LEMMA SplitAt ==
  ASSUME NEW T, NEW s \in Seq(T), NEW k \in 1..Len(s), s[k] = Sep,
         \A i \in 1..k - 1 : s[i] # Sep
  PROVE  Fields(s) = <<SubSeq(s, 1, k - 1), SubSeq(s, k + 1, Len(s))>>
<1> DEFINE I == {i \in DOMAIN s : s[i] = Sep}
<1>1. Len(s) \in Nat /\ k \in Nat /\ DOMAIN s = 1..Len(s)
  BY SMT
<1>2. I \subseteq Nat /\ k \in I
  BY <1>1, SMT
<1>3. ASSUME NEW y \in I PROVE k <= y
  BY <1>1, <1>3, SMT
<1>4. Min(I) = k /\ I # {}
  BY <1>2, <1>3, Smallest
<1>. QED
  BY <1>4 DEF Fields

(* ... if it has one.                                                      *)
LEMMA Split ==
  ASSUME NEW T, NEW s \in Seq(T)
  PROVE  \/ Fields(s) = <<s>>
         \/ \E k \in 1..Len(s) :
              Fields(s) = <<SubSeq(s, 1, k - 1), SubSeq(s, k + 1, Len(s))>>
<1> DEFINE I == {i \in DOMAIN s : s[i] = Sep}
           n == Min(I)
<1>1. I \subseteq 1..Len(s) /\ I \subseteq Nat
  BY SMT
<1>2. I = {} \/ n \in 1..Len(s)
  BY <1>1, Least
<1>3. Fields(s) = IF I = {} THEN <<s>>
                  ELSE <<SubSeq(s, 1, n - 1), SubSeq(s, n + 1, Len(s))>>
  BY DEF Fields
<1>. QED
  BY <1>2, <1>3

(* A text that ends as it is when trimmed, and can be decoded.             *)
Text(T, a) ==
  /\ a \in Seq(T) /\ a # <<>> /\ a[Len(a)] \notin Blanks
  /\ \A i \in 1..Len(a) : a[i] # NotUtf8

(* What follows the first k tokens of a text.                              *)
Rest(t, k) == SubSeq(t, k + 1, Len(t))

(* Its elements are the last of the text.                                  *)
LEMMA EndOfText ==
  ASSUME NEW T, NEW t \in Seq(T), NEW k \in Nat, k <= Len(t)
  PROVE  /\ Rest(t, k) \in Seq(T) /\ Len(Rest(t, k)) \in Nat
         /\ k + Len(Rest(t, k)) = Len(t)
         /\ \A i \in 1..Len(Rest(t, k)) :
              Rest(t, k)[i] = t[k + i] /\ k + i \in 1..Len(t)
<1> DEFINE c == SubSeq(t, k + 1, Len(t))
<1>1. Len(t) \in Nat
  BY SMT
<1>2. c \in Seq(T) /\ Len(c) = Len(t) - k /\ \A i \in 1..Len(c) : c[i] = t[k + i]
  BY <1>1, SMT
<1>. HIDE DEF c
<1>3. Len(c) \in Nat /\ k + Len(c) = Len(t) /\ \A i \in 1..Len(c) : k + i \in 1..Len(t)
  BY <1>1, <1>2, SMT
<1>. QED
  BY <1>2, <1>3 DEF c, Rest

(* The name or the text in a line.                                         *)
LEMMA SaidText ==
  ASSUME NEW T, NEW s \in Seq(T), NEW m, m = ClientDecode(s),
         m.kind \in {"JOIN", "SEND"}
  PROVE  m = Msg(m.kind, m.a, <<>>) /\ Text(T, m.a)
<1> DEFINE f == Fields(Trim(s))
           w == Word(f[1])
<1>1. /\ NotUtf8 \notin Range(s) /\ Trim(s) # <<>> /\ Len(f) # 1
      /\ f[2] # <<>> /\ m = Msg(w, f[2], <<>>)
  <2>1. /\ NotUtf8 \notin Range(s) /\ Trim(s) # <<>>
        /\ m = CASE w \in {"JOIN", "SEND"} -> IF Len(f) = 1 \/ f[2] = <<>>
                                        THEN Bare("missingField")
                                        ELSE Msg(w, f[2], <<>>)
                 [] w = "LEAVE" -> Bare("LEAVE")
                 [] OTHER -> Bare("unknown")
    BY DEF ClientDecode, Bare, Msg
  <2>. HIDE DEF f, w
  <2>. QED
    BY <2>1, SMT DEF Bare, Msg
<1>2. PICK a, b \in 1..Len(s) : /\ a <= b /\ Trim(s) = SubSeq(s, a, b)
                                /\ s[b] \notin Blanks
  BY <1>1, Trimmed
<1> DEFINE t == Trim(s)
<1>3. /\ t \in Seq(T) /\ Len(t) = b - a + 1 /\ Len(t) \in Nat
      /\ \A i \in 1..Len(t) : t[i] = s[a + i - 1] /\ a + i - 1 \in 1..Len(s)
  BY <1>2, SMT
<1>4. t[Len(t)] \notin Blanks
  <2>1. Len(t) \in 1..Len(t) /\ a + Len(t) - 1 = b
    BY <1>2, <1>3, SMT
  <2>. QED
    BY <1>2, <1>3, <2>1
<1>5. \A i \in 1..Len(t) : t[i] # NotUtf8
  <2>1. \A i \in 1..Len(s) : s[i] \in Range(s)
    BY SMT DEF Range
  <2>. QED
    BY <1>1, <1>3, <2>1, SMT
<1>6. PICK k \in 1..Len(t) : f = <<SubSeq(t, 1, k - 1), SubSeq(t, k + 1, Len(t))>>
  <2>1. f # <<t>>
    BY <1>1, SMT
  <2>. QED
    BY <1>3, <2>1, Split
<1>7. f[2] = SubSeq(t, k + 1, Len(t)) /\ k \in Nat /\ k <= Len(t)
  BY <1>6, SMT
<1> DEFINE c == Rest(t, k)
<1>8. c # <<>> /\ m = Msg(w, c, <<>>)
  BY <1>1, <1>7 DEF Rest
<1>. HIDE DEF t
<1>9. /\ c \in Seq(T) /\ Len(c) \in Nat /\ k + Len(c) = Len(t)
      /\ \A i \in 1..Len(c) : c[i] = t[k + i] /\ k + i \in 1..Len(t)
  BY <1>3, <1>7, EndOfText
<1>. HIDE DEF c
<1>10. c[Len(c)] \notin Blanks /\ \A i \in 1..Len(c) : c[i] # NotUtf8
  <2>1. Len(c) \in 1..Len(c)
    BY <1>8, <1>9, SMT
  <2>. QED
    BY <1>4, <1>5, <1>9, <2>1
<1>11. Text(T, c)
  BY <1>8, <1>9, <1>10 DEF Text
<1>. HIDE DEF w
<1>12. m.kind = w /\ m.a = c
  BY <1>8, SMT DEF Msg
<1>. QED
  BY <1>8, <1>11, <1>12

(* A name as it is kept.                                                   *)
Name(T, n) ==
  /\ n \in Seq(T) /\ n # <<>>
  /\ \A i \in 1..Len(n) : n[i] \notin Blanks \cup {Sep, NotUtf8}

(* A text that follows a keyword and a separator, on a line of its own.    *)
LEMMA OneField ==
  ASSUME NEW T, NL \in T, Sep \in T, NEW w \in T, w \notin Blanks \cup {Sep, NotUtf8},
         NEW a, Text(T, a), NEW s, s = <<w, Sep>> \o a
  PROVE  /\ Trim(Append(s, NL)) = s /\ s # <<>>
         /\ NotUtf8 \notin Range(Append(s, NL))
         /\ Fields(s) = <<<<w>>, a>>
<1>1. /\ a \in Seq(T) /\ Len(a) \in Nat /\ Len(a) >= 1
      /\ a[Len(a)] \notin Blanks /\ \A i \in 1..Len(a) : a[i] # NotUtf8
  BY SMT DEF Text
<1>2. /\ s \in Seq(T) /\ Len(s) = Len(a) + 2 /\ s[1] = w /\ s[2] = Sep
      /\ \A i \in 1..Len(a) : s[i + 2] = a[i]
  BY <1>1, SMT
<1>3. s[Len(s)] \notin Blanks /\ s # <<>>
  <2>1. Len(a) \in 1..Len(a) /\ Len(s) = Len(a) + 2 /\ Len(s) # 0
    BY <1>1, <1>2, SMT
  <2>. QED
    BY <1>1, <1>2, <2>1
<1>4. Trim(Append(s, NL)) = s
  BY <1>2, <1>3, TrimLine
<1>5. \A i \in 1..Len(s) : s[i] # NotUtf8
  <2> SUFFICES ASSUME NEW i \in 1..Len(s) PROVE s[i] # NotUtf8
    OBVIOUS
  <2>1. Sep # NotUtf8
    BY DEF Sep, NotUtf8
  <2>2. i = 1 \/ i = 2 \/ (i - 2 \in 1..Len(a) /\ (i - 2) + 2 = i)
    BY <1>1, <1>2, SMT
  <2>. QED
    BY <1>1, <1>2, <2>1, <2>2, SMT
<1>6. NotUtf8 \notin Range(Append(s, NL))
  <2>1. NL # NotUtf8
    BY DEF NL, NotUtf8
  <2>2. ASSUME NEW i \in DOMAIN Append(s, NL) PROVE Append(s, NL)[i] # NotUtf8
    BY <1>2, <1>5, <2>1, SMT
  <2>. QED
    BY <2>2 DEF Range
<1>7. Fields(s) = <<SubSeq(s, 1, 1), SubSeq(s, 3, Len(s))>>
  <2>1. 2 \in 1..Len(s) /\ 2 - 1 = 1 /\ 2 + 1 = 3 /\ \A i \in 1..1 : s[i] # Sep
    BY <1>1, <1>2, SMT
  <2>2. Fields(s) = <<SubSeq(s, 1, 2 - 1), SubSeq(s, 2 + 1, Len(s))>>
    BY <1>2, <2>1, SplitAt
  <2>. QED
    BY <2>1, <2>2
<1>8. SubSeq(s, 1, 1) = <<w>> /\ SubSeq(s, 3, Len(s)) = a
  <2>1. SubSeq(s, 1, 1) = <<w>>
    <3> DEFINE x == SubSeq(s, 1, 1)
               y == <<w>>
    <3>1. x \in Seq(T) /\ Len(x) = 1 /\ x[1] = w
      BY <1>1, <1>2, SMT
    <3>2. y \in Seq(T) /\ Len(y) = 1 /\ y[1] = w
      BY SMT
    <3>. HIDE DEF x, y
    <3>3. \A i \in 1..Len(x) : x[i] = y[i]
      BY <3>1, <3>2, SMT
    <3>4. x = y
      BY <3>1, <3>2, <3>3, SameElements
    <3>. QED
      BY <3>4 DEF x, y
  <2>2. /\ SubSeq(s, 3, Len(s)) \in Seq(T) /\ Len(SubSeq(s, 3, Len(s))) = Len(a)
        /\ \A i \in 1..Len(a) : SubSeq(s, 3, Len(s))[i] = a[i]
    BY <1>1, <1>2, SMT
  <2>. QED
    BY <1>1, <2>1, <2>2, SameElements
<1>. QED
  BY <1>3, <1>4, <1>6, <1>7, <1>8

(* What the server reads of a line is what the client has said ...         *)
LEMMA SaidIsRead ==
  ASSUME NEW T, {NL, Sep, "SEND"} \subseteq T, NEW a, Text(T, a),
         NEW m, m = Msg("SEND", a, <<>>)
  PROVE  ClientDecode(Append(ClientEncode(m), NL)) = m
<1> DEFINE s == <<"SEND", Sep>> \o a
<1>1. ClientEncode(m) = s
  BY DEF ClientEncode, Msg
<1>2. "SEND" \notin Blanks \cup {Sep, NotUtf8}
  BY DEF Blanks, NL, Sep, NotUtf8
<1>3. /\ Trim(Append(s, NL)) = s /\ s # <<>>
      /\ NotUtf8 \notin Range(Append(s, NL))
      /\ Fields(s) = <<<<"SEND">>, a>>
  BY <1>2, OneField
<1>. HIDE DEF s
<1>4. Word(<<"SEND">>) = "SEND"
  BY DEF Word, Uppercase
<1>5. a # <<>>
  BY DEF Text
<1> DEFINE f == Fields(Trim(Append(s, NL)))
<1>6. f[1] = <<"SEND">> /\ f[2] = a /\ Len(f) = 2
  BY <1>3, SMT
<1>. HIDE DEF f
<1>7. ClientDecode(Append(s, NL)) = Msg("SEND", a, <<>>)
  BY <1>3, <1>4, <1>5, <1>6, SMT DEF ClientDecode, f
<1>. QED
  BY <1>1, <1>7

(* ... and so is a name, but for a blank at its end ...                    *)
LEMMA NameIsRead ==
  ASSUME NEW T, {NL, Sep, Space, "JOIN"} \subseteq T, NEW a, Text(T, a),
         NEW r \in {a, Append(a, Space)}
  PROVE  ClientDecode(Append(ClientEncode(Msg("JOIN", r, <<>>)), NL))
           = Msg("JOIN", a, <<>>)
<1> DEFINE s == <<"JOIN", Sep>> \o a
           l == Append(<<"JOIN", Sep>> \o r, NL)
<1>1. ClientEncode(Msg("JOIN", r, <<>>)) = <<"JOIN", Sep>> \o r
  BY DEF ClientEncode, Msg
<1>2. "JOIN" \notin Blanks \cup {Sep, NotUtf8} /\ {NL, Space} \subseteq Blanks
      /\ NotUtf8 \notin {NL, Space}
  BY DEF Blanks, NL, Sep, NotUtf8, Space
<1>3. /\ Trim(Append(s, NL)) = s /\ s # <<>>
      /\ NotUtf8 \notin Range(Append(s, NL))
      /\ Fields(s) = <<<<"JOIN">>, a>>
  <2>1. "JOIN" \in T /\ NL \in T /\ Sep \in T
    OBVIOUS
  <2>2. "JOIN" \notin Blanks \cup {Sep, NotUtf8}
    BY <1>2
  <2>. QED
    BY <2>1, <2>2, OneField
<1>4. Trim(l) = s /\ NotUtf8 \notin Range(l)
  <2>1. CASE r = a
    BY <1>3, <2>1
  <2>2. CASE r = Append(a, Space)
    <3>1. a \in Seq(T) /\ a # <<>> /\ a[Len(a)] \notin Blanks
          /\ \A i \in 1..Len(a) : a[i] # NotUtf8
      BY DEF Text
    <3>2. r \in Seq(T) /\ Len(r) = Len(a) + 1 /\ r[Len(a) + 1] = Space
          /\ Len(a) \in Nat /\ Len(a) >= 1 /\ \A i \in 1..Len(a) : r[i] = a[i]
      BY <2>2, <3>1, SMT
    <3> DEFINE w == <<"JOIN", Sep>> \o r
    <3>3. w \in Seq(T) /\ Len(w) = Len(a) + 3 /\ w[1] = "JOIN" /\ w[2] = Sep
          /\ \A i \in 1..Len(a) + 1 : w[i + 2] = r[i]
      BY <3>2, SMT
    <3>4. s \in Seq(T) /\ Len(s) = Len(a) + 2 /\ s[1] = "JOIN" /\ s[2] = Sep
          /\ \A i \in 1..Len(a) : s[i + 2] = a[i]
      BY <3>1, <3>2, SMT
    <3>. HIDE DEF w
    <3>5. l \in Seq(T) /\ Len(l) = Len(a) + 4 /\ l[Len(a) + 4] = NL
          /\ \A i \in 1..Len(a) + 3 : l[i] = w[i]
      <4>1. l = Append(w, NL)
        BY DEF w
      <4>. HIDE DEF l
      <4>. QED
        BY <3>2, <3>3, <4>1, SMT
    <3>. HIDE DEF s, l
    <3>6. \A i \in 1..Len(s) : l[i] = s[i]
      <4> SUFFICES ASSUME NEW i \in 1..Len(s) PROVE l[i] = s[i]
        OBVIOUS
      <4>1. i = 1 \/ i = 2 \/ (i - 2 \in 1..Len(a) /\ (i - 2) + 2 = i)
        BY <3>2, <3>4, SMT
      <4>2. i \in 1..Len(a) + 3
        BY <3>2, <3>4, SMT
      <4>3. \A j \in 1..Len(a) : j \in 1..Len(a) + 1
        BY <3>2, SMT
      <4>4. w[i] = s[i]
        BY <3>2, <3>3, <3>4, <4>1, <4>3
      <4>. QED
        BY <3>5, <4>2, <4>4
    <3>7. l[Len(a) + 3] = Space /\ l[Len(a) + 4] = NL
      <4>1. Len(a) + 1 \in 1..Len(a) + 1 /\ (Len(a) + 1) + 2 = Len(a) + 3
            /\ Len(a) + 3 \in 1..Len(a) + 3
        BY <3>2, SMT
      <4>. QED
        BY <3>2, <3>3, <3>5, <4>1
    <3>8. \A i \in 1..Len(l) : i \in 1..Len(s) \/ i = Len(a) + 3 \/ i = Len(a) + 4
      BY <3>2, <3>4, <3>5, SMT
    <3>9. \A i \in 1..Len(s) : s[i] # NotUtf8
      <4> SUFFICES ASSUME NEW i \in 1..Len(s) PROVE s[i] # NotUtf8
        OBVIOUS
      <4>1. i = 1 \/ i = 2 \/ (i - 2 \in 1..Len(a) /\ (i - 2) + 2 = i)
        BY <3>2, <3>4, SMT
      <4>2. "JOIN" # NotUtf8 /\ Sep # NotUtf8
        BY DEF Sep, NotUtf8
      <4>. QED
        BY <3>1, <3>4, <4>1, <4>2
    <3>10. NotUtf8 \notin Range(l)
      <4>1. DOMAIN l = 1..Len(l)
        BY <3>5, SMT
      <4>. QED
        BY <1>2, <3>6, <3>7, <3>8, <3>9, <4>1 DEF Range
    <3>11. Trim(l) = s
      <4>1. s[1] \notin Blanks /\ s[Len(s)] \notin Blanks
        <5>1. Len(a) \in 1..Len(a) /\ Len(s) = Len(a) + 2
          BY <3>2, <3>4, SMT
        <5>. QED
          BY <1>2, <3>1, <3>4, <5>1
      <4>2. Len(s) <= Len(l) /\ \A i \in Len(s) + 1 .. Len(l) :
                                  i = Len(a) + 3 \/ i = Len(a) + 4
        BY <3>2, <3>4, <3>5, SMT
      <4>3. \A i \in Len(s) + 1 .. Len(l) : l[i] \in Blanks
        BY <1>2, <3>7, <4>2
      <4>. QED
        BY <1>3, <3>4, <3>5, <3>6, <4>1, <4>2, <4>3, TrimEnd
    <3>. QED
      BY <3>10, <3>11
  <2>. QED
    BY <2>1, <2>2
<1>. HIDE DEF s, l
<1>5. Word(<<"JOIN">>) = "JOIN"
  BY DEF Word, Uppercase
<1>6. a # <<>>
  BY DEF Text
<1> DEFINE f == Fields(Trim(l))
<1>7. f[1] = <<"JOIN">> /\ f[2] = a /\ Len(f) = 2
  BY <1>3, <1>4, SMT
<1>. HIDE DEF f
<1>8. ClientDecode(l) = Msg("JOIN", a, <<>>)
  BY <1>3, <1>4, <1>5, <1>6, <1>7, SMT DEF ClientDecode, f
<1>. QED
  BY <1>1, <1>8 DEF l

(* Concatenation is associative.                                           *)
LEMMA Associative ==
  ASSUME NEW T, NEW x \in Seq(T), NEW y \in Seq(T), NEW z \in Seq(T)
  PROVE  (x \o y) \o z = x \o (y \o z)
<1> DEFINE l == (x \o y) \o z
           r == x \o (y \o z)
<1>1. Len(x) \in Nat /\ Len(y) \in Nat /\ Len(z) \in Nat
  BY SMT
<1>2. l \in Seq(T) /\ r \in Seq(T) /\ Len(l) = Len(r)
  BY <1>1, SMT
<1>3. \A i \in 1..Len(l) : l[i] = r[i]
  BY <1>1, SMT
<1>. HIDE DEF l, r
<1>4. l = r
  BY <1>2, <1>3, SameElements
<1>. QED
  BY <1>4 DEF l, r

(* ... and what the clients read of the broadcast.                         *)
LEMMA ToldIsRead ==
  ASSUME NEW T, {NL, Sep, "BROADCAST"} \subseteq T, NEW n, Name(T, n),
         NEW a, Text(T, a), NEW m, m = Msg("BROADCAST", n, a)
  PROVE  ServerDecode(Append(ServerEncode(m), NL)) = m
<1> DEFINE r == n \o <<Sep>> \o a
           s == <<"BROADCAST", Sep>> \o r
<1>1. /\ n \in Seq(T) /\ Len(n) \in Nat /\ Len(n) >= 1
      /\ \A i \in 1..Len(n) : n[i] # Sep /\ n[i] # NotUtf8
  BY SMT DEF Name
<1>2. /\ a \in Seq(T) /\ Len(a) \in Nat /\ Len(a) >= 1
      /\ a[Len(a)] \notin Blanks /\ \A i \in 1..Len(a) : a[i] # NotUtf8
  BY SMT DEF Text
<1>3. /\ r \in Seq(T) /\ Len(r) = Len(n) + 1 + Len(a)
      /\ \A i \in 1..Len(n) : r[i] = n[i]
      /\ r[Len(n) + 1] = Sep
      /\ \A i \in 1..Len(a) : r[Len(n) + 1 + i] = a[i]
  BY <1>1, <1>2, SMT
<1>4. ServerEncode(m) = s
  <2>1. m.kind = "BROADCAST" /\ m.a = n /\ m.b = a
    BY DEF Msg
  <2> DEFINE b == <<"BROADCAST", Sep>>
             d == n \o <<Sep>>
  <2>2. ServerEncode(m) = ((b \o n) \o <<Sep>>) \o a
    BY <2>1 DEF ServerEncode
  <2>3. b \in Seq(T) /\ <<Sep>> \in Seq(T) /\ n \in Seq(T) /\ a \in Seq(T)
    BY <1>1, <1>2, SMT
  <2>4. d \in Seq(T)
    BY <1>1, <2>3, SMT
  <2>5. r = d \o a /\ s = b \o r
    OBVIOUS
  <2>. HIDE DEF b, r, s
  <2>6. (b \o n) \o <<Sep>> = b \o d
    <3> DEFINE e == <<Sep>>
    <3>1. e \in Seq(T) /\ d = n \o e
      BY <2>3
    <3>. HIDE DEF d, e
    <3>2. b \in Seq(T) /\ n \in Seq(T) /\ e \in Seq(T)
      BY <2>3, <3>1
    <3>3. (b \o n) \o e = b \o (n \o e)
      BY <3>2, Associative, SMT
    <3>. QED
      BY <3>1, <3>3 DEF e
  <2>. HIDE DEF d
  <2>7. (b \o d) \o a = b \o (d \o a)
    BY <2>3, <2>4, Associative, SMT
  <2>. QED
    BY <2>2, <2>5, <2>6, <2>7
<1>. HIDE DEF r
<1>5. Text(T, r)
  <2>1. r # <<>> /\ r[Len(r)] \notin Blanks
    <3>1. Len(a) \in 1..Len(a) /\ Len(r) = Len(n) + 1 + Len(a) /\ Len(r) # 0
      BY <1>1, <1>2, <1>3, SMT
    <3>. QED
      BY <1>2, <1>3, <3>1, SMT
  <2>2. ASSUME NEW i \in 1..Len(r) PROVE r[i] # NotUtf8
    <3>1. Sep # NotUtf8
      BY DEF Sep, NotUtf8
    <3>2. \/ i \in 1..Len(n) \/ i = Len(n) + 1
          \/ \E j \in 1..Len(a) : i = Len(n) + 1 + j
      <4>1. i \in Nat /\ i >= 1 /\ i <= Len(n) + 1 + Len(a)
        BY <1>1, <1>2, <1>3, SMT
      <4>2. CASE i > Len(n) + 1
        <5>1. i - (Len(n) + 1) \in 1..Len(a) /\ i = Len(n) + 1 + (i - (Len(n) + 1))
          BY <1>1, <1>2, <4>1, <4>2, SMT
        <5>. QED
          BY <5>1
      <4>. QED
        BY <1>1, <4>1, <4>2, SMT
    <3>. QED
      BY <1>1, <1>2, <1>3, <3>1, <3>2, SMT
  <2>. QED
    BY <1>3, <2>1, <2>2 DEF Text
<1>6. "BROADCAST" \notin Blanks \cup {Sep, NotUtf8}
  BY DEF Blanks, NL, Sep, NotUtf8
<1>7. /\ Trim(Append(s, NL)) = s /\ s # <<>>
      /\ NotUtf8 \notin Range(Append(s, NL))
      /\ Fields(s) = <<<<"BROADCAST">>, r>>
  BY <1>5, <1>6, OneField
<1>8. Fields(r) = <<n, a>>
  <2> DEFINE k == Len(n) + 1
             p == SubSeq(r, 1, k - 1)
             q == Rest(r, k)
  <2>1. k \in 1..Len(r) /\ r[k] = Sep /\ \A i \in 1..k - 1 : r[i] # Sep
    BY <1>1, <1>2, <1>3, SMT
  <2>2. Fields(r) = <<p, q>>
    BY <1>3, <2>1, SplitAt DEF Rest
  <2>3. p \in Seq(T) /\ Len(p) = Len(n) /\ \A i \in 1..Len(p) : p[i] = n[i]
    BY <1>1, <1>2, <1>3, SMT
  <2>4. q \in Seq(T) /\ Len(q) = Len(a) /\ \A i \in 1..Len(q) : q[i] = a[i]
    <3>1. k \in Nat /\ k <= Len(r) /\ r \in Seq(T)
      BY <1>1, <1>2, <1>3, SMT
    <3>4. k = Len(n) + 1
      OBVIOUS
    <3>. HIDE DEF k
    <3>2. /\ q \in Seq(T) /\ Len(q) \in Nat /\ k + Len(q) = Len(r)
          /\ \A i \in 1..Len(q) : q[i] = r[k + i]
      BY <3>1, EndOfText
    <3>3. Len(q) = Len(a)
      BY <1>1, <1>2, <1>3, <3>2, <3>4, SMT
    <3>. QED
      BY <1>3, <3>2, <3>3, <3>4
  <2>. HIDE DEF p, q
  <2>5. p = n /\ q = a
    BY <1>1, <1>2, <2>3, <2>4, SameElements
  <2>. QED
    BY <2>2, <2>5
<1>. HIDE DEF s
<1>9. Word(<<"BROADCAST">>) = "BROADCAST"
  BY DEF Word, Uppercase
<1> DEFINE f == Fields(Trim(Append(s, NL)))
<1>10. f[1] = <<"BROADCAST">> /\ f[2] = r /\ Len(f) = 2
  BY <1>7, SMT
<1> DEFINE g == Fields(f[2])
<1>11. g[1] = n /\ g[2] = a /\ Len(g) = 2
  BY <1>8, <1>10, SMT
<1>. HIDE DEF f, g
<1>12. ServerDecode(Append(s, NL)) = Msg("BROADCAST", n, a)
  BY <1>7, <1>9, <1>10, <1>11, SMT DEF ServerDecode, f, g
<1>. QED
  BY <1>4, <1>12

(* The sender's own client does not show it, the others' do.               *)
LEMMA ToldIsShown ==
  ASSUME NEW u, NEW n, NEW a, NEW line,
         ServerDecode(line) = Msg("BROADCAST", n, a)
  PROVE  Shows(u, line) =
           IF u = n THEN <<>> ELSE <<Msg("BROADCAST", n, a)>>
<1> DEFINE m == ServerDecode(line)
<1>1. m.kind = "BROADCAST" /\ m.a = n
  BY SMT DEF Msg
<1>2. m = Msg("BROADCAST", n, a)
  OBVIOUS
<1>. HIDE DEF m
<1>3. Shows(u, line) = IF m.a = u THEN <<>> ELSE <<m>>
  BY <1>1 DEF Shows, m
<1>. QED
  BY <1>1, <1>2, <1>3


(* A name that is accepted is kept without its blanks.                     *)
LEMMA KeptName ==
  ASSUME NEW T, NEW a \in Seq(T), ValidateUsername(a) = "Valid"
  PROVE  Name(T, Trim(a))
<1>1. Trim(a) # <<>> /\ IsValidUsernameStr(Trim(a))
  BY DEF ValidateUsername
<1>2. PICK p, q \in 1..Len(a) : Trim(a) = SubSeq(a, p, q)
  BY <1>1, Trimmed
<1>3. Trim(a) \in Seq(T)
  BY <1>2, SMT
<1> DEFINE n == Trim(a)
<1>. HIDE DEF n
<1>4. \A i \in 1..Len(n) : n[i] \in Range(n)
  BY <1>3, SMT DEF Range, n
<1>. QED
  BY <1>1, <1>3, <1>4 DEF Name, IsValidUsernameStr, n

(* What is left of it is what lies between the surrounding blanks.         *)
LEMMA TheLetters ==
  ASSUME NEW T, NEW a \in Seq(T), ValidateUsername(a) = "Valid"
  PROVE  /\ \E i, j \in DOMAIN a : Surrounded(a, i, j)
         /\ \A i, j \in DOMAIN a : Surrounded(a, i, j) => Trim(a) = SubSeq(a, i, j)
<1> DEFINE n == Trim(a)
<1>1. /\ n \in Seq(T) /\ n # <<>>
      /\ \A i \in 1..Len(n) : n[i] \notin Blanks
  BY KeptName DEF Name
<1>2. PICK p, q \in 1..Len(a) :
        /\ p <= q /\ n = SubSeq(a, p, q)
        /\ a[p] \notin Blanks /\ a[q] \notin Blanks
        /\ \A i \in 1..Len(a) : a[i] \notin Blanks => p <= i /\ i <= q
  BY <1>1, Trimmed
<1>3. DOMAIN a = 1..Len(a) /\ Len(a) \in Nat /\ p \in Nat /\ q \in Nat
  BY SMT
<1>4. Len(n) = q - p + 1 /\ \A i \in 1..Len(n) : n[i] = a[p + i - 1]
  BY <1>2, <1>3, SMT
<1>. HIDE DEF n
<1>5. ASSUME NEW k \in 1..Len(a)
      PROVE  a[k] \in Blanks <=> k \notin p..q
  <2>1. ASSUME k \in p..q PROVE a[k] \notin Blanks
    <3>1. k - p + 1 \in 1..Len(n) /\ p + (k - p + 1) - 1 = k
      BY <1>3, <1>4, <2>1, SMT
    <3>. QED
      BY <1>1, <1>4, <3>1
  <2>2. ASSUME a[k] \notin Blanks PROVE k \in p..q
    BY <1>2, <1>3, <2>2, SMT
  <2>. QED
    BY <2>1, <2>2
<1>6. Surrounded(a, p, q)
  BY <1>3, <1>5 DEF Surrounded
<1>7. ASSUME NEW i \in DOMAIN a, NEW j \in DOMAIN a, Surrounded(a, i, j)
      PROVE  i = p /\ j = q
  <2>1. i \in Nat /\ j \in Nat /\ i \in 1..Len(a) /\ j \in 1..Len(a)
    BY <1>3, SMT
  <2>2. p \in i..j /\ q \in i..j
    BY <1>2, <1>3, <1>7 DEF Surrounded
  <2>3. i \in i..j /\ j \in i..j
    BY <2>1, <2>2, SMT
  <2>4. a[i] \notin Blanks /\ a[j] \notin Blanks
    BY <1>7, <2>3 DEF Surrounded
  <2>5. p <= i /\ j <= q
    BY <1>2, <2>1, <2>4
  <2>. QED
    BY <1>3, <2>1, <2>2, <2>5, SMT
<1>. QED
  BY <1>2, <1>3, <1>6, <1>7 DEF n
-----------------------------------------------------------------------------
(* The recursive function by which texts are put together.                 *)
LEMMA PutTogether ==
  ASSUME NEW q, Len(q) \in Nat
  PROVE  \E f : /\ f = [i \in 0..Len(q) |-> IF i = 0 THEN <<>> ELSE f[i - 1] \o q[i]]
                /\ Concat(q) = f[Len(q)]
<1> DEFINE Joint(f, n) == f = [i \in 0..n |-> IF i = 0 THEN <<>> ELSE f[i - 1] \o q[i]]
           bad == {n \in Nat : ~\E f : Joint(f, n)}
<1>1. \E f : Joint(f, 0)
  <2> DEFINE f == [i \in 0..0 |-> <<>>]
             h == [i \in 0..0 |-> IF i = 0 THEN <<>> ELSE f[i - 1] \o q[i]]
  <2>1. \A i \in 0..0 : i = 0
    BY SMT
  <2>2. f = h
    BY <2>1
  <2>3. Joint(f, 0)
    BY <2>2
  <2>. QED
    BY <2>3
<1>2. ASSUME NEW n \in Nat, NEW f, Joint(f, n)
      PROVE  \E g : Joint(g, n + 1)
  <2> DEFINE g == [i \in 0..n + 1 |-> IF i = n + 1 THEN f[n] \o q[i] ELSE f[i]]
             h == [i \in 0..n + 1 |-> IF i = 0 THEN <<>> ELSE g[i - 1] \o q[i]]
             e == [j \in 0..n |-> IF j = 0 THEN <<>> ELSE f[j - 1] \o q[j]]
  <2>1. ASSUME NEW i \in 0..n + 1 PROVE g[i] = h[i]
    <3>1. CASE i = n + 1
      <4>1. n \in 0..n + 1 /\ n # n + 1 /\ n + 1 # 0 /\ i - 1 = n
        BY <3>1, SMT
      <4>2. g[i] = f[n] \o q[i] /\ g[n] = f[n]
        BY <3>1, <4>1
      <4>3. h[i] = g[n] \o q[i]
        BY <3>1, <4>1
      <4>. QED
        BY <4>2, <4>3
    <3>2. CASE i # n + 1
      <4>1. i \in 0..n /\ (i # 0 => i - 1 \in 0..n + 1 /\ i - 1 # n + 1)
        BY <3>2, SMT
      <4>2. g[i] = f[i] /\ (i # 0 => g[i - 1] = f[i - 1])
        BY <3>2, <4>1
      <4>3. f[i] = IF i = 0 THEN <<>> ELSE f[i - 1] \o q[i]
        <5>1. f = e
          BY <1>2
        <5>2. e[i] = IF i = 0 THEN <<>> ELSE f[i - 1] \o q[i]
          BY <4>1
        <5>. HIDE DEF e
        <5>3. f[i] = e[i]
          BY <5>1
        <5>. QED
          BY <5>2, <5>3
      <4>4. h[i] = IF i = 0 THEN <<>> ELSE g[i - 1] \o q[i]
        OBVIOUS
      <4>. QED
        BY <4>2, <4>3, <4>4
    <3>. QED
      BY <3>1, <3>2
  <2>2. g = h
    BY <2>1
  <2>3. Joint(g, n + 1)
    BY <2>2
  <2>. QED
    BY <2>3
<1>. HIDE DEF Joint
<1>3. bad = {}
  <2> SUFFICES ASSUME bad # {} PROVE FALSE
    OBVIOUS
  <2>1. Min(bad) \in bad /\ \A y \in bad : Min(bad) <= y
    BY Least
  <2>2. PICK m \in Nat : ~(\E f : Joint(f, m)) /\ \A y \in bad : m <= y
    BY <2>1
  <2>3. m # 0
    BY <1>1, <2>2
  <2>4. m - 1 \in Nat /\ (m - 1) + 1 = m /\ ~(m <= m - 1)
    BY <2>3, SMT
  <2>5. m - 1 \notin bad
    BY <2>2, <2>4
  <2>6. \E f : Joint(f, m - 1)
    BY <2>4, <2>5
  <2>7. \E g : Joint(g, (m - 1) + 1)
    BY <1>2, <2>4, <2>6
  <2>. QED
    BY <2>2, <2>4, <2>7
<1> DEFINE F == CHOOSE f : Joint(f, Len(q))
<1>5. Joint(F, Len(q))
  <2>1. \E f : Joint(f, Len(q))
    BY <1>3
  <2>. QED
    BY <2>1
<1>6. Concat(q) = F[Len(q)]
  BY DEF Concat, Joint
<1>. HIDE DEF F
<1>. QED
  BY <1>5, <1>6 DEF Joint

(* A folded letter and its capital.                                        *)
Upper(t) == CASE t = "a" -> "A" [] t = "b" -> "B" [] t = "s" -> "S"
              [] t = "join" -> "JOIN" [] t = "send" -> "SEND" [] OTHER -> t
Unfolded == {"A", "B", "S", "ss", "JOIN", "SEND"}
Letters(T) == T \cup {"a", "b", "s", "join", "send"} \cup Unfolded

(* A folded text and the same in capitals.                                 *)
Capitals(S, f, g) ==
  /\ f \in Seq(S) /\ g \in Seq(S) /\ Len(f) = Len(g)
  /\ \A k \in 1..Len(f) : f[k] \notin Unfolded /\ g[k] = Upper(f[k])

(* Two folded letters that have one capital are the same.                  *)
LEMMA UpperInjective ==
  ASSUME NEW x, NEW y, x \notin Unfolded, y \notin Unfolded, Upper(x) = Upper(y)
  PROVE  x = y
BY SMT DEF Upper, Unfolded

(* So are two folded texts.                                                *)
LEMMA CapitalsAgree ==
  ASSUME NEW S, NEW f, NEW g, Capitals(S, f, g), NEW h, NEW k, Capitals(S, h, k)
  PROVE  f = h <=> g = k
<1>1. /\ f \in Seq(S) /\ g \in Seq(S) /\ Len(f) = Len(g)
      /\ h \in Seq(S) /\ k \in Seq(S) /\ Len(h) = Len(k)
  BY DEF Capitals
<1>2. ASSUME f = h PROVE g = k
  <2>1. Len(g) = Len(k) /\ \A i \in 1..Len(g) : g[i] = k[i]
    BY <1>1, <1>2 DEF Capitals
  <2>. QED
    BY <1>1, <2>1, SameElements
<1>3. ASSUME g = k PROVE f = h
  <2>1. Len(f) = Len(h)
    BY <1>1, <1>3
  <2>2. ASSUME NEW i \in 1..Len(f) PROVE f[i] = h[i]
    <3>1. /\ f[i] \notin Unfolded /\ g[i] = Upper(f[i])
          /\ h[i] \notin Unfolded /\ k[i] = Upper(h[i])
      BY <2>1 DEF Capitals
    <3>. QED
      BY <1>3, <3>1, UpperInjective
  <2>. QED
    BY <1>1, <2>1, <2>2, SameElements
<1>. QED
  BY <1>2, <1>3

(* What folding and capitals make of a token.                              *)
LEMMA OneLetter ==
  ASSUME NEW T, NEW t \in T
  PROVE  Capitals(Letters(T), Folded(t), Capital(t)) /\ Len(Folded(t)) <= 2
<1>1. CASE t = "ss"
  <2>1. Folded(t) = <<"s", "s">> /\ Capital(t) = <<"S", "S">>
    BY <1>1 DEF Folded, Capital
  <2>2. "s" \notin Unfolded /\ Upper("s") = "S" /\ {"s", "S"} \subseteq Letters(T)
    BY DEF Unfolded, Upper, Letters
  <2>. HIDE DEF Unfolded, Upper, Letters
  <2>. QED
    BY <2>1, <2>2, SMT DEF Capitals
<1>2. CASE t # "ss"
  <2>1. Folded(t) = <<Lowercase(t)>>
    BY <1>2 DEF Folded
  <2>2. Capital(t) = <<Upper(Lowercase(t))>>
    BY <1>2, SMT DEF Capital, Upper, Lowercase
  <2>3. Lowercase(t) \notin Unfolded
    BY <1>2, SMT DEF Lowercase, Unfolded
  <2>4. Lowercase(t) \in Letters(T) /\ Upper(Lowercase(t)) \in Letters(T)
    BY <1>2, SMT DEF Lowercase, Upper, Letters, Unfolded
  <2>. QED
    BY <2>1, <2>2, <2>3, <2>4, SMT DEF Capitals
<1>. QED
  BY <1>1, <1>2

(* ... and of one more after a text.                                       *)
LEMMA OneMoreLetter ==
  ASSUME NEW S, NEW f, NEW g, Capitals(S, f, g), NEW h, NEW k, Capitals(S, h, k)
  PROVE  Capitals(S, f \o h, g \o k) /\ Len(f \o h) = Len(f) + Len(h)
<1>1. /\ f \in Seq(S) /\ g \in Seq(S) /\ Len(f) = Len(g) /\ Len(f) \in Nat
      /\ h \in Seq(S) /\ k \in Seq(S) /\ Len(h) = Len(k) /\ Len(h) \in Nat
  BY SMT DEF Capitals
<1> DEFINE x == f \o h
           y == g \o k
<1>2. /\ x \in Seq(S) /\ Len(x) = Len(f) + Len(h)
      /\ \A i \in 1..Len(f) : x[i] = f[i]
      /\ \A i \in 1..Len(h) : x[i + Len(f)] = h[i]
  BY <1>1, SMT
<1>3. /\ y \in Seq(S) /\ Len(y) = Len(f) + Len(h)
      /\ \A i \in 1..Len(f) : y[i] = g[i]
      /\ \A i \in 1..Len(h) : y[i + Len(f)] = k[i]
  BY <1>1, SMT
<1>. HIDE DEF x, y
<1>4. ASSUME NEW i \in 1..Len(x)
      PROVE  x[i] \notin Unfolded /\ y[i] = Upper(x[i])
  <2>1. i \in 1..Len(f) \/ (i - Len(f) \in 1..Len(h) /\ (i - Len(f)) + Len(f) = i)
    BY <1>1, <1>2, SMT
  <2>2. CASE i \in 1..Len(f)
    BY <1>2, <1>3, <2>2 DEF Capitals
  <2>3. CASE i - Len(f) \in 1..Len(h) /\ (i - Len(f)) + Len(f) = i
    <3>1. x[i] = h[i - Len(f)] /\ y[i] = k[i - Len(f)]
      BY <1>2, <1>3, <2>3
    <3>. QED
      BY <2>3, <3>1 DEF Capitals
  <2>. QED
    BY <2>1, <2>2, <2>3
<1>5. Capitals(S, x, y)
  BY <1>2, <1>3, <1>4 DEF Capitals
<1>. QED
  BY <1>2, <1>5 DEF x, y

(* A folded text and the text in capitals, letter by letter.               *)
LEMMA FoldedText ==
  ASSUME NEW T, NEW x \in Seq(T)
  PROVE  /\ Capitals(Letters(T), CaseFold(x), InCapitals(x))
         /\ Len(CaseFold(x)) <= 2 * Len(x)
<1> DEFINE S == Letters(T)
           n == Len(x)
           p == [i \in DOMAIN x |-> Folded(x[i])]
           q == [i \in DOMAIN x |-> Capital(x[i])]
<1>1. n \in Nat /\ DOMAIN x = 1..n /\ \A i \in 1..n : x[i] \in T
  BY SMT
<1>2. ASSUME NEW i \in 1..n
      PROVE  Capitals(S, p[i], q[i]) /\ Len(p[i]) <= 2
  <2>1. p[i] = Folded(x[i]) /\ q[i] = Capital(x[i])
    BY <1>1
  <2>. QED
    BY <1>1, <2>1, OneLetter
<1>3. Len(p) = n
  <2>1. p \in [1..n -> Seq(S)]
    BY <1>1, <1>2 DEF Capitals
  <2>. HIDE DEF p
  <2>. QED
    BY <1>1, <2>1, SMT
<1>4. Len(q) = n
  <2>1. q \in [1..n -> Seq(S)]
    BY <1>1, <1>2 DEF Capitals
  <2>. HIDE DEF q
  <2>. QED
    BY <1>1, <2>1, SMT
<1>. HIDE DEF p, q, S
<1>5. PICK f : /\ f = [i \in 0..n |-> IF i = 0 THEN <<>> ELSE f[i - 1] \o p[i]]
               /\ Concat(p) = f[n]
  BY <1>1, <1>3, PutTogether
<1>6. PICK g : /\ g = [i \in 0..n |-> IF i = 0 THEN <<>> ELSE g[i - 1] \o q[i]]
               /\ Concat(q) = g[n]
  BY <1>1, <1>4, PutTogether
<1>7. \A i \in 0..n : f[i] = IF i = 0 THEN <<>> ELSE f[i - 1] \o p[i]
  <2> DEFINE e == [j \in 0..n |-> IF j = 0 THEN <<>> ELSE f[j - 1] \o p[j]]
  <2>1. \A i \in 0..n : e[i] = IF i = 0 THEN <<>> ELSE f[i - 1] \o p[i]
    OBVIOUS
  <2>2. f = e
    BY <1>5
  <2>. HIDE DEF e
  <2>3. \A i \in 0..n : f[i] = e[i]
    BY <2>2
  <2>. QED
    BY <2>1, <2>3
<1>8. \A i \in 0..n : g[i] = IF i = 0 THEN <<>> ELSE g[i - 1] \o q[i]
  <2> DEFINE e == [j \in 0..n |-> IF j = 0 THEN <<>> ELSE g[j - 1] \o q[j]]
  <2>1. \A i \in 0..n : e[i] = IF i = 0 THEN <<>> ELSE g[i - 1] \o q[i]
    OBVIOUS
  <2>2. g = e
    BY <1>6
  <2>. HIDE DEF e
  <2>3. \A i \in 0..n : g[i] = e[i]
    BY <2>2
  <2>. QED
    BY <2>1, <2>3
<1> DEFINE Good(i) == Capitals(S, f[i], g[i]) /\ Len(f[i]) <= 2 * i
           bad == {i \in 0..n : ~Good(i)}
<1>9. ASSUME NEW i \in 0..n, i # 0 => Good(i - 1)
      PROVE  Good(i)
  <2>1. CASE i = 0
    <3>1. f[i] = <<>> /\ g[i] = <<>>
      BY <1>7, <1>8, <2>1
    <3>2. Capitals(S, <<>>, <<>>) /\ Len(<<>>) <= 2 * 0
      BY SMT DEF Capitals
    <3>. QED
      BY <2>1, <3>1, <3>2
  <2>2. CASE i # 0
    <3>. i \in 1..n
      BY <1>1, <2>2, SMT
    <3>1. f[i] = f[i - 1] \o p[i] /\ g[i] = g[i - 1] \o q[i]
      BY <1>7, <1>8, <2>2
    <3>2. Capitals(S, f[i - 1], g[i - 1]) /\ Len(f[i - 1]) <= 2 * (i - 1)
      BY <1>9, <2>2
    <3>3. Capitals(S, f[i], g[i]) /\ Len(f[i]) = Len(f[i - 1]) + Len(p[i])
      <4>1. Capitals(S, p[i], q[i]) /\ Capitals(S, f[i - 1], g[i - 1])
        BY <1>2, <3>2
      <4>2. /\ Capitals(S, f[i - 1] \o p[i], g[i - 1] \o q[i])
            /\ Len(f[i - 1] \o p[i]) = Len(f[i - 1]) + Len(p[i])
        BY <4>1, OneMoreLetter
      <4>. QED
        BY <3>1, <4>2
    <3>4. Len(f[i - 1]) \in Nat /\ Len(p[i]) \in Nat /\ Len(p[i]) <= 2
      BY <1>2, <3>2, SMT DEF Capitals
    <3>5. Len(f[i]) <= 2 * i
      <4> DEFINE u == Len(f[i - 1])
                 v == Len(p[i])
                 w == Len(f[i])
      <4>1. u \in Nat /\ v \in Nat /\ v <= 2 /\ u <= 2 * (i - 1) /\ w = u + v
        BY <3>2, <3>3, <3>4
      <4>2. i \in Nat
        BY SMT
      <4>. HIDE DEF u, v, w
      <4>3. w <= 2 * i
        BY <4>1, <4>2, SMT
      <4>. QED
        BY <4>3 DEF w
    <3>. QED
      BY <3>3, <3>5
  <2>. QED
    BY <2>1, <2>2
<1>. HIDE DEF Good
<1>10. bad = {}
  <2> SUFFICES ASSUME bad # {} PROVE FALSE
    OBVIOUS
  <2>1. bad \subseteq Nat
    BY SMT
  <2>2. Min(bad) \in bad /\ \A y \in bad : Min(bad) <= y
    BY <2>1, Least
  <2>3. PICK m \in 0..n : ~Good(m) /\ \A y \in bad : m <= y
    BY <2>2
  <2>4. m # 0 => m - 1 \in 0..n /\ ~(m <= m - 1)
    BY <1>1, SMT
  <2>5. m # 0 => Good(m - 1)
    BY <2>3, <2>4
  <2>. QED
    BY <1>9, <2>3, <2>5
<1>11. n \in 0..n
  BY <1>1, SMT
<1>12. Good(n)
  BY <1>10, <1>11
<1>13. CaseFold(x) = f[n] /\ InCapitals(x) = g[n]
  BY <1>5, <1>6 DEF CaseFold, InCapitals, p, q
<1>. QED
  BY <1>12, <1>13 DEF Good, S

(* A name is folded within the buffer.                                     *)
LEMMA FoldedName ==
  ASSUME NEW T, NEW a \in Seq(T), ValidateUsername(a) = "Valid"
  PROVE  /\ KeyOf(a) = CaseFold(Trim(a))
         /\ Capitals(Letters(T), CaseFold(Trim(a)), InCapitals(Trim(a)))
<1> DEFINE n == Trim(a)
<1>1. n \in Seq(T) /\ n # <<>>
  BY KeptName DEF Name
<1>2. ~(Len(n) > MaxName)
  BY DEF ValidateUsername
<1>. HIDE DEF n
<1>3. Capitals(Letters(T), CaseFold(n), InCapitals(n)) /\ Len(CaseFold(n)) <= 2 * Len(n)
  BY <1>1, FoldedText
<1>4. Len(n) \in Nat /\ MaxName \in Nat /\ Len(CaseFold(n)) \in Nat
  BY <1>1, <1>3, WireAssumption, SMT DEF Capitals
<1>5. Len(CaseFold(n)) <= MaxName * 3
  BY <1>2, <1>3, <1>4, SMT
<1>6. KeyOf(a) = CaseFold(n)
  BY <1>5 DEF KeyOf, ToLowercase, FoldBuffer, n
<1>. QED
  BY <1>3, <1>6 DEF n
-----------------------------------------------------------------------------
(* What is handled lies within the stream.                                 *)
Within == \A i \in 1..Len(handled) : handled[i].to <= Len(stream)

(* A line ends where the reader has got to.                                *)
LEMMA WithinStep ==
  ASSUME LineInv, LineInv', Within,
         [Reader \/ Cancel \/ Expire \/ Arrive \/ Close \/ Done]_vars
  PROVE  Within'
<1>1. stream' = stream
  BY DEF Reader, Read, Skip, Wait, Cancel, Expire, Arrive, Close, Done, vars, peer
<1>2. \/ handled' = handled
      \/ \E l \in BOOLEAN :
           handled' = Append(handled, [from |-> start, to |-> used', tooLong |-> l])
  BY DEF Reader, Read, Skip, Wait, Cancel, Expire, Arrive, Close, Done, vars,
         Handle
<1>3. CASE handled' = handled
  BY <1>1, <1>3 DEF Within
<1>4. ASSUME NEW l \in BOOLEAN,
             handled' = Append(handled, [from |-> start, to |-> used', tooLong |-> l])
      PROVE  Within'
  <2> DEFINE e == [from |-> start, to |-> used', tooLong |-> l]
             S == [from : Nat, to : Nat, tooLong : BOOLEAN]
  <2>1. /\ start \in Nat /\ used' \in Nat /\ here' \in Nat /\ handled \in Seq(S)
        /\ used' <= here' /\ here' <= Len(stream)
    BY <1>1 DEF LineInv, ReaderTypes
  <2>2. used' <= Len(stream)
    <3>1. Len(stream) \in Nat
      BY StreamType DEF LineInv
    <3>. QED
      BY <2>1, <3>1, SMT
  <2>3. e \in S /\ e.to = used'
    BY <2>1
  <2>. HIDE DEF e, S
  <2>6. handled' = Append(handled, e)
    BY <1>4 DEF e
  <2> DEFINE t == handled'
  <2>4. /\ Len(handled) \in Nat /\ Len(t) = Len(handled) + 1 /\ t[Len(handled) + 1] = e
        /\ \A i \in 1..Len(handled) : t[i] = handled[i]
    <3>1. handled \in Seq(S) /\ e \in S /\ t = Append(handled, e)
      BY <2>1, <2>3, <2>6
    <3>. HIDE DEF t
    <3>. QED
      BY <3>1, OneMore, SMT
  <2>5. ASSUME NEW i \in 1..Len(t) PROVE t[i].to <= Len(stream)
    <3>1. i \in 1..Len(handled) \/ i = Len(handled) + 1
      BY <2>4, SMT
    <3>. QED
      BY <2>2, <2>3, <2>4, <3>1 DEF Within
  <2>. QED
    BY <1>1, <2>5 DEF Within
<1>. QED
  BY <1>2, <1>3, <1>4

(* The tokens that are read or written.                                    *)
Tokens == Range(stream) \cup {NL, Sep, Space, "JOIN", "SEND", "BROADCAST"}

(* The text of a message.                                                  *)
LEMMA MessageText ==
  ASSUME ReaderTypes, Within, NEW m \in Messages, m.kind \in {"JOIN", "SEND"}
  PROVE  m = Msg(m.kind, m.a, <<>>) /\ Text(Tokens, m.a)
<1>1. PICK h \in Range(handled) : m = Decoded(h)
  BY DEF Messages
<1>2. handled \in Seq([from : Nat, to : Nat, tooLong : BOOLEAN])
  BY DEF ReaderTypes
<1>3. PICK i \in 1..Len(handled) : h = handled[i]
  BY <1>2, SMT DEF Range
<1>4. h.from \in Nat /\ h.to \in Nat /\ h.to <= Len(stream)
  <2>1. h \in [from : Nat, to : Nat, tooLong : BOOLEAN]
    BY <1>2, <1>3, ElementOf
  <2>2. h.to <= Len(stream)
    BY <1>3 DEF Within
  <2>. QED
    BY <2>1, <2>2
<1>5. stream \in Seq(Range(stream))
  BY ReaderAssumption DEF ReaderTypes
<1>6. stream \in Seq(Tokens)
  <2> DEFINE R == Range(stream)
             N == {NL, Sep, Space, "JOIN", "SEND", "BROADCAST"}
  <2>. HIDE DEF R, N
  <2>1. stream \in Seq(R \cup N)
    BY <1>5, SMT DEF R
  <2>. QED
    BY <2>1 DEF R, N, Tokens
<1> DEFINE s == SubSeq(stream, h.from + 1, h.to)
<1>7. s \in Seq(Tokens)
  BY <1>4, <1>6, SMT
<1>8. m = ClientDecode(s)
  BY <1>1 DEF Decoded
<1>. HIDE DEF s
<1>. QED
  BY <1>7, <1>8, SaidText

(* The names that are accepted.                                            *)
LEMMA AcceptedName ==
  ASSUME ReaderTypes, Within, NEW a \in Accepted
  PROVE  Text(Tokens, a) /\ a \in Seq(Tokens) /\ ValidateUsername(a) = "Valid"
<1>1. PICK m \in Messages : m.kind = "JOIN" /\ ValidateUsername(m.a) = "Valid" /\ a = m.a
  BY DEF Accepted
<1>. QED
  BY <1>1, MessageText DEF Text

(* A text that is read is passed on as it is.                              *)
LEMMA PassedOn ==
  ASSUME ReaderTypes, Within
  PROVE  Relayed
<1>1. ASSUME NEW r \in Usernames
      PROVE  /\ Name(Tokens, Trim(r))
             /\ Trim(ClientDecode(Append(ClientEncode(Msg("JOIN", r, <<>>)), NL)).a)
                  = Trim(r)
  <2>1. PICK a \in Accepted : r \in {a, Append(a, Space)}
    BY DEF Usernames, Space
  <2>2. Text(Tokens, a) /\ a \in Seq(Tokens) /\ Name(Tokens, Trim(a))
    BY AcceptedName, KeptName
  <2>3. Trim(a) # <<>> /\ {NL, Sep, Space, "JOIN"} \subseteq Tokens
    BY <2>2 DEF Name, Tokens
  <2>4. Trim(r) = Trim(a)
    BY <2>1, <2>2, <2>3, TrimBlank
  <2>5. ClientDecode(Append(ClientEncode(Msg("JOIN", r, <<>>)), NL))
          = Msg("JOIN", a, <<>>)
    BY <2>1, <2>2, <2>3, NameIsRead
  <2>6. Msg("JOIN", a, <<>>).a = a
    BY DEF Msg
  <2>. QED
    BY <2>2, <2>4, <2>5, <2>6
<1>2. ASSUME NEW m \in Said
      PROVE  m = Msg("SEND", m.a, <<>>) /\ Text(Tokens, m.a)
  <2>1. m \in Messages /\ m.kind = "SEND"
    BY DEF Said
  <2>2. m.kind \in {"JOIN", "SEND"}
    BY <2>1
  <2>3. m = Msg(m.kind, m.a, <<>>) /\ Text(Tokens, m.a)
    BY <2>1, <2>2, MessageText
  <2>. QED
    BY <2>1, <2>3
<1>3. {NL, Sep, "SEND"} \subseteq Tokens /\ {NL, Sep, "BROADCAST"} \subseteq Tokens
  BY DEF Tokens
<1>4. ASSUME NEW n, Name(Tokens, n), NEW u, NEW m \in Said
      PROVE  LET told == Msg("BROADCAST", n, m.a)
                 line == Append(ServerEncode(told), NL)
             IN /\ Shows(u, line) = IF u = n THEN <<>> ELSE <<told>>
                /\ ClientDecode(Append(ClientEncode(m), NL)) = m
  <2> DEFINE told == Msg("BROADCAST", n, m.a)
             line == Append(ServerEncode(told), NL)
  <2>1. ClientDecode(Append(ClientEncode(m), NL)) = m
    BY <1>2, <1>3, SaidIsRead
  <2>2. ServerDecode(line) = Msg("BROADCAST", n, m.a)
    BY <1>2, <1>3, <1>4, ToldIsRead
  <2>. HIDE DEF line
  <2>3. Shows(u, line) = IF u = n THEN <<>> ELSE <<Msg("BROADCAST", n, m.a)>>
    BY <2>2, ToldIsShown, SMT
  <2>. QED
    BY <2>1, <2>3 DEF line
<1>. QED
  BY <1>1, <1>4 DEF Relayed

(* A key stands for the letters of a name.                                 *)
LEMMA KeyOfLetters ==
  ASSUME ReaderTypes, Within
  PROVE  KeysIgnoreCase
<1> SUFFICES ASSUME NEW a \in Accepted, NEW b \in Accepted
             PROVE  KeyOf(a) = KeyOf(b) <=> SameLetters(a, b)
  BY DEF KeysIgnoreCase
<1>1. /\ \E i, j \in DOMAIN a : Surrounded(a, i, j)
      /\ \A i, j \in DOMAIN a : Surrounded(a, i, j) => Trim(a) = SubSeq(a, i, j)
  BY AcceptedName, TheLetters
<1>2. /\ \E i, j \in DOMAIN b : Surrounded(b, i, j)
      /\ \A i, j \in DOMAIN b : Surrounded(b, i, j) => Trim(b) = SubSeq(b, i, j)
  BY AcceptedName, TheLetters
<1>3. ASSUME NEW i \in DOMAIN a, NEW j \in DOMAIN a, Surrounded(a, i, j),
             NEW k \in DOMAIN b, NEW l \in DOMAIN b, Surrounded(b, k, l)
      PROVE  KeyOf(a) = KeyOf(b) <=>
               InCapitals(SubSeq(a, i, j)) = InCapitals(SubSeq(b, k, l))
  <2>1. Trim(a) = SubSeq(a, i, j) /\ Trim(b) = SubSeq(b, k, l)
    BY <1>1, <1>2, <1>3
  <2>2. KeyOf(a) = CaseFold(Trim(a)) /\ KeyOf(b) = CaseFold(Trim(b))
    BY AcceptedName, FoldedName
  <2>3. CaseFold(Trim(a)) = CaseFold(Trim(b)) <=>
          InCapitals(Trim(a)) = InCapitals(Trim(b))
    <3> DEFINE S == Letters(Tokens)
               f == CaseFold(Trim(a))
               g == InCapitals(Trim(a))
               x == CaseFold(Trim(b))
               y == InCapitals(Trim(b))
    <3>1. Capitals(S, f, g) /\ Capitals(S, x, y)
      BY AcceptedName, FoldedName
    <3>. HIDE DEF S, f, g, x, y
    <3>2. f = x <=> g = y
      BY <3>1, CapitalsAgree
    <3>. QED
      BY <3>2 DEF f, g, x, y
  <2>. QED
    BY <2>1, <2>2, <2>3
<1>4. ASSUME SameLetters(a, b) PROVE KeyOf(a) = KeyOf(b)
  BY <1>3, <1>4 DEF SameLetters
<1>5. ASSUME KeyOf(a) = KeyOf(b) PROVE SameLetters(a, b)
  <2>1. PICK i, j \in DOMAIN a : Surrounded(a, i, j)
    BY <1>1
  <2>2. PICK k, l \in DOMAIN b : Surrounded(b, k, l)
    BY <1>2
  <2>3. InCapitals(SubSeq(a, i, j)) = InCapitals(SubSeq(b, k, l))
    BY <1>3, <1>5, <2>1, <2>2
  <2>. QED
    BY <2>1, <2>2, <2>3 DEF SameLetters
<1>. QED
  BY <1>4, <1>5
-----------------------------------------------------------------------------
(* Every step keeps the invariant.                                         *)
LEMMA ReaderInvariant == Spec => [](LineInv /\ Within)
<1>1. Init => LineInv /\ Within
  <2>1. Init => Len(handled) = 0
    BY DEF Init
  <2>2. Len(handled) = 0 => Within
    BY SMT DEF Within
  <2>. QED
    BY <2>1, <2>2, LineInit
<1>2. LineInv /\ [Reader \/ Cancel \/ Expire \/ Arrive \/ Close \/ Done]_vars => LineInv'
  <2>1. ASSUME LineInv, Reader PROVE LineInv'
    BY <2>1, ReadKeeps, SkipKeeps, WaitKeeps DEF Reader
  <2>2. ASSUME LineInv, Done PROVE LineInv'
    BY <2>2, StillKeeps DEF Done
  <2>. QED
    BY <2>1, <2>2, CancelKeeps, ExpireKeeps, PeerKeeps, StillKeeps
<1>3. LineInv /\ Within /\ [Reader \/ Cancel \/ Expire \/ Arrive \/ Close \/ Done]_vars
        => LineInv' /\ Within'
  BY <1>2, WithinStep
<1>. QED
  BY <1>1, <1>3, PTL DEF Spec

(* However the bytes of a client arrive, and whichever reads are cancelled *)
(* by a broadcast or a timeout, wait_for_input and the loop that reads an  *)
(* over-long line away cut the stream at its newlines, handle every line   *)
(* once and in its turn, and refuse exactly what is over the limit: for    *)
(* every stream, both sizes of read and any number of cancelled reads.     *)
THEOREM LinesAreReadInTurn == Spec => []ReadsLines
BY LineMeans, ReaderInvariant, PTL

(* What a user says, in a line of any stream and length, comes through the *)
(* codec of both sides unchanged, separators and inner blanks included:    *)
(* the clients of the others decode it as it was said and show it under    *)
(* the user's --username without the blanks around it.  Of the clients,    *)
(* all of which are sent it, those with that name to the letter do not     *)
(* show it.                                                                *)
THEOREM SaidIsShown == Spec => []Relayed
<1>1. LineInv /\ Within => Relayed
  BY PassedOn DEF LineInv
<1>. QED
  BY <1>1, ReaderInvariant, PTL

(* Two accepted names of any stream and length share a NormalizedKey       *)
(* exactly if they are the same in capitals and up to surrounding blanks:  *)
(* every name that is accepted is folded within the buffer, whatever       *)
(* MAX_USERNAME_LEN is, so what to_lowercase falls back to is never used.  *)
THEOREM NamesShareKeys == Spec => []KeysIgnoreCase
<1>1. LineInv /\ Within => KeysIgnoreCase
  BY KeyOfLetters DEF LineInv
<1>. QED
  BY <1>1, ReaderInvariant, PTL
=============================================================================
