--------------------------- MODULE ChatRoomProofs ---------------------------
(***************************************************************************)
(* The abstract room keeps its two promises, for any set of users and any  *)
(* messages.  Neither is inductive: that the next message of the history   *)
(* fits what a user has already been given needs the history to be ordered *)
(* and everything given to come from the part that has gone past the user; *)
(* and that a run begins no later than the user's own news needs nobody to *)
(* be spoken of before they are in.                                        *)
(***************************************************************************)
EXTENDS ChatRoom, SequenceTheorems, TLAPS

RoomTypeOK ==
  /\ said \in Seq(Msg)
  /\ seat \in [Users -> {"new", "in", "out"}]
  /\ given \in [Users -> Seq(Msg)]
  /\ pos \in [Users -> Nat]
  /\ \A u \in Users : pos[u] <= Len(said)

(* The history is ordered, and nobody speaks before they are in.           *)
Ordered ==
  /\ \A j \in 1..Len(said) : said[j].from \in Users => seat[said[j].from] # "new"
  /\ \A i, j \in 1..Len(said) :
       i < j => Follows(said[i], said[j])

(* What a user has been given: it comes from what has gone past, it is     *)
(* ordered, and it fits what is still to come.                             *)
Given(u) ==
  /\ seat[u] = "new" => given[u] = <<>>
  /\ \A i \in 1..Len(given[u]) : \E j \in 1..pos[u] : given[u][i] = said[j]
  /\ \A i, j \in 1..Len(given[u]) :
       i < j => Follows(given[u][i], given[u][j])
  /\ \A i \in 1..Len(given[u]) : \A k \in 1..Len(said) :
       k > pos[u] => Follows(given[u][i], said[k])

(* GapFree, element by element.                                            *)
RunFrom(u, i) ==
  /\ Len(given[u]) = pos[u] + 1 - i
  /\ \A k \in 1..Len(given[u]) : given[u][k] = said[i + k - 1]
  /\ \A j \in 1..pos[u] :
       said[j].kind = "joined" /\ said[j].from = u => i <= j

Run(u) ==
  seat[u] = "in" /\ u \notin missed => \E i \in 1..pos[u] + 1 : RunFrom(u, i)

RoomInv ==
  /\ RoomTypeOK
  /\ Ordered
  /\ \A u \in Users : Given(u)
  /\ \A u \in Users : Run(u)
-----------------------------------------------------------------------------
(* Nobody is in and nothing is said at the start.                          *)
LEMMA RoomInit == Init => RoomInv
  <1> SUFFICES ASSUME Init PROVE RoomInv
    OBVIOUS
  <1>1. /\ said = <<>> /\ Len(said) = 0 /\ said \in Seq(Msg)
        /\ pos = [u \in Users |-> 0] /\ seat = [u \in Users |-> "new"]
    BY DEF Init
  <1>2. \A u \in Users : given[u] = <<>> /\ Len(given[u]) = 0
    BY DEF Init
  <1>3. given \in [Users -> Seq(Msg)]
    <2>1. <<>> \in Seq(Msg)
      OBVIOUS
    <2> QED  BY <2>1, Zenon DEF Init
  <1>4. RoomTypeOK
    BY <1>1, <1>3 DEF RoomTypeOK
  <1>5. Ordered
    BY <1>1 DEF Ordered
  <1>6. ASSUME NEW u \in Users PROVE Given(u)
    <2>1. 1..Len(given[u]) = {}
      BY <1>2
    <2> QED  BY <1>2, <2>1, Zenon DEF Given
  <1>7. \A u \in Users : Run(u)
    BY <1>1 DEF Run
  <1> QED  BY <1>4, <1>5, <1>6, <1>7 DEF RoomInv

(* Entering: the run of the new user is empty and begins where they are.   *)
LEMMA EnterInv ==
  ASSUME RoomInv, NEW u \in Users, Enter(u)
  PROVE  RoomInv'
  <1>0. /\ seat' = [seat EXCEPT ![u] = "in"] /\ seat[u] = "new"
        /\ UNCHANGED <<said, given, pos, missed>>
    BY DEF Enter
  <1>1. RoomTypeOK'
    BY <1>0 DEF RoomInv, RoomTypeOK
  <1>2. Ordered'
    BY <1>0 DEF RoomInv, RoomTypeOK, Ordered
  <1>3. ASSUME NEW v \in Users PROVE Given(v)'
    BY <1>0, <1>3 DEF RoomInv, RoomTypeOK, Given
  <1>4. ASSUME NEW v \in Users PROVE Run(v)'
    <2>1. CASE v = u
      <3>1. given[u] = <<>> /\ Len(given[u]) = 0 /\ pos[u] \in Nat
            /\ pos[u] <= Len(said)
        BY <1>0 DEF RoomInv, RoomTypeOK, Given
      <3>2. \A j \in 1..Len(said) : said[j].from # u
        BY <1>0 DEF RoomInv, Ordered
      <3>3. Len(said) \in Nat
        BY DEF RoomInv, RoomTypeOK
      <3>4. /\ pos[u] + 1 \in 1..pos[u] + 1
            /\ 0 = pos[u] + 1 - (pos[u] + 1)
        BY <3>1
      <3>5. RunFrom(u, pos[u] + 1)'
        BY <1>0, <3>1, <3>2, <3>3, <3>4 DEF RunFrom
      <3> QED  BY <1>0, <2>1, <3>4, <3>5 DEF Run
    <2>2. CASE v # u
      <3>1. seat'[v] = seat[v] /\ Run(v)
        BY <1>0, <1>4, <2>2 DEF RoomInv, RoomTypeOK
      <3> QED  BY <1>0, <3>1 DEF Run, RunFrom
    <2> QED  BY <2>1, <2>2
  <1> QED  BY <1>1, <1>2, <1>3, <1>4 DEF RoomInv

(* Saying: the new message fits everything said, so everything given.      *)
LEMMA SayInv ==
  ASSUME RoomInv, NEW m \in Msg, Say(m)
  PROVE  RoomInv'
  <1>0. /\ said \in Seq(Msg) /\ Len(said) \in Nat /\ said' = Append(said, m)
        /\ UNCHANGED <<seat, given, pos, missed>>
        /\ seat[m.from] # "new"
    BY DEF Say, RoomInv, RoomTypeOK
  <1>1. /\ said' \in Seq(Msg) /\ Len(said') = Len(said) + 1
        /\ \A i \in 1..Len(said) : said'[i] = said[i]
        /\ said'[Len(said) + 1] = m
    BY <1>0
  <1>2. \A j \in 1..Len(said) : Follows(said[j], m)
    BY DEF Say
  <1>3. RoomTypeOK'
    BY <1>0, <1>1 DEF RoomInv, RoomTypeOK
  <1>4. Ordered'
    <2>1. \A j \in 1..Len(said') :
            said'[j].from \in Users => seat[said'[j].from] # "new"
      BY <1>0, <1>1 DEF RoomInv, Ordered
    <2>2. \A i, j \in 1..Len(said') :
            i < j => Follows(said'[i], said'[j])
      BY <1>0, <1>1, <1>2 DEF RoomInv, Ordered
    <2> QED  BY <1>0, <2>1, <2>2 DEF Ordered
  <1>5. ASSUME NEW u \in Users PROVE Given(u)' /\ Run(u)'
    <2>1. /\ pos[u] \in Nat /\ pos[u] <= Len(said) /\ Given(u) /\ Run(u)
          /\ Len(given[u]) \in Nat
      BY DEF RoomInv, RoomTypeOK
    <2>2. \A i \in 1..Len(given[u]) : \E j \in 1..pos[u] : given[u][i] = said[j]
      BY <2>1 DEF Given
    <2>3. \A i \in 1..Len(given[u]) : \E j \in 1..pos[u] : given[u][i] = said'[j]
      BY <1>0, <1>1, <2>1, <2>2
    <2>4. ASSUME NEW i \in 1..Len(given[u])
          PROVE  Follows(given[u][i], m)
      <3>1. PICK j \in 1..pos[u] : given[u][i] = said[j]
        BY <2>2
      <3>2. j \in 1..Len(said)
        BY <1>0, <2>1
      <3> QED  BY <1>2, <2>4, <3>1, <3>2
    <2>5. ASSUME NEW i \in 1..Len(given[u]), NEW k \in 1..Len(said'), k > pos[u]
          PROVE  Follows(given[u][i], said'[k])
      <3>1. CASE k = Len(said) + 1
        BY <1>1, <2>4, <2>5, <3>1
      <3>2. CASE k # Len(said) + 1
        <4>1. k \in 1..Len(said) /\ said'[k] = said[k]
          BY <1>0, <1>1, <3>2
        <4> QED  BY <2>1, <2>5, <4>1 DEF Given
      <3> QED  BY <3>1, <3>2
    <2>6. Given(u)'
      BY <1>0, <2>1, <2>3, <2>5 DEF Given
    <2>7. Run(u)'
      <3> SUFFICES ASSUME seat[u] = "in", u \notin missed PROVE Run(u)'
        BY <1>0 DEF Run
      <3>1. PICK i \in 1..pos[u] + 1 : RunFrom(u, i)
        BY <2>1 DEF Run
      <3>2. ASSUME NEW k \in 1..Len(given[u])
            PROVE  given[u][k] = said'[i + k - 1]
        <4>1. i + k - 1 \in 1..Len(said)
          BY <1>0, <2>1, <3>1 DEF RunFrom
        <4> QED  BY <1>1, <3>1, <4>1 DEF RunFrom
      <3>3. \A j \in 1..pos[u] : said'[j] = said[j]
        BY <1>0, <1>1, <2>1
      <3>4. RunFrom(u, i)'
        BY <1>0, <3>1, <3>2, <3>3 DEF RunFrom
      <3> QED  BY <1>0, <3>4 DEF Run
    <2> QED  BY <2>6, <2>7
  <1> QED  BY <1>3, <1>4, <1>5 DEF RoomInv

(* Hearing: the next message of the history goes to the end of the run.    *)
LEMMA HearInv ==
  ASSUME RoomInv, NEW u \in Users, Hear(u)
  PROVE  RoomInv'
  <1> DEFINE p == pos[u]
             g == given[u]
             n == said[pos[u] + 1]
  <1>0. /\ said \in Seq(Msg) /\ Len(said) \in Nat
        /\ p \in Nat /\ p < Len(said) /\ seat[u] = "in"
        /\ g \in Seq(Msg) /\ Len(g) \in Nat
        /\ given' = [given EXCEPT ![u] = Append(g, n)]
        /\ pos' = [pos EXCEPT ![u] = p + 1]
        /\ UNCHANGED <<said, seat, missed>>
        /\ given \in [Users -> Seq(Msg)] /\ pos \in [Users -> Nat]
    BY DEF Hear, RoomInv, RoomTypeOK
  <1>1. p + 1 \in 1..Len(said) /\ n \in Msg
    BY <1>0, ElementOfSeq
  <1>2. /\ Append(g, n) \in Seq(Msg) /\ Len(Append(g, n)) = Len(g) + 1
        /\ \A i \in 1..Len(g) : Append(g, n)[i] = g[i]
        /\ Append(g, n)[Len(g) + 1] = n
    BY <1>0, <1>1
  <1>3. given'[u] = Append(g, n) /\ pos'[u] = p + 1
    BY <1>0
  <1>4. RoomTypeOK'
    BY <1>0, <1>2, <1>3 DEF RoomInv, RoomTypeOK
  <1>5. Ordered'
    BY <1>0 DEF RoomInv, Ordered
  <1>6. ASSUME NEW v \in Users, v # u PROVE Given(v)' /\ Run(v)'
    <2>1. /\ given'[v] = given[v] /\ pos'[v] = pos[v]
          /\ said' = said /\ seat' = seat /\ missed' = missed
      BY <1>0, <1>6
    <2>2. Given(v) /\ Run(v)
      BY DEF RoomInv
    <2>3. Given(v)'
      BY <2>1, <2>2 DEF Given
    <2>4. Run(v)'
      BY <2>1, <2>2 DEF Run, RunFrom
    <2> QED  BY <2>3, <2>4
  <1> HIDE DEF p, g, n
  <1>7. Given(u)'
    <2>1. Given(u) /\ Ordered /\ p = pos[u] /\ g = given[u] /\ n = said[p + 1]
      BY DEF RoomInv, p, g, n
    <2>2. ASSUME NEW i \in 1..Len(g) + 1
          PROVE  \E j \in 1..p + 1 : Append(g, n)[i] = said[j]
      <3>1. CASE i = Len(g) + 1
        <4>1. p + 1 \in 1..p + 1
          BY <1>0
        <4> QED  BY <1>2, <2>1, <3>1, <4>1
      <3>2. CASE i \in 1..Len(g)
        <4>1. PICK j \in 1..p : g[i] = said[j]
          BY <2>1, <3>2 DEF Given
        <4>2. j \in 1..p + 1
          BY <1>0
        <4> QED  BY <1>2, <3>2, <4>1, <4>2
      <3> QED  BY <1>0, <3>1, <3>2
    <2>3. ASSUME NEW i \in 1..Len(g) + 1, NEW j \in 1..Len(g) + 1, i < j
          PROVE  Follows(Append(g, n)[i], Append(g, n)[j])
      <3>1. i \in 1..Len(g) /\ Append(g, n)[i] = g[i]
        BY <1>0, <1>2, <2>3
      <3>2. CASE j = Len(g) + 1
        BY <1>0, <1>1, <1>2, <2>1, <2>3, <3>1, <3>2 DEF Given
      <3>3. CASE j \in 1..Len(g)
        BY <1>0, <1>2, <2>1, <2>3, <3>1, <3>3 DEF Given
      <3> QED  BY <1>0, <3>2, <3>3
    <2>4. ASSUME NEW i \in 1..Len(g) + 1, NEW k \in 1..Len(said), k > p + 1
          PROVE  Follows(Append(g, n)[i], said[k])
      <3>1. CASE i = Len(g) + 1
        <4>1. Append(g, n)[i] = said[p + 1] /\ p + 1 \in 1..Len(said) /\ p + 1 < k
          BY <1>0, <1>1, <1>2, <2>1, <2>4, <3>1
        <4>2. \A j, l \in 1..Len(said) : j < l => Follows(said[j], said[l])
          BY <2>1, Zenon DEF Ordered
        <4> QED  BY <4>1, <4>2
      <3>2. CASE i \in 1..Len(g)
        <4>1. Append(g, n)[i] = g[i] /\ k > p
          BY <1>0, <1>2, <2>4, <3>2
        <4>2. Follows(g[i], said[k])
          BY <2>1, <3>2, <4>1, Zenon DEF Given
        <4> QED  BY <4>1, <4>2
      <3> QED  BY <1>0, <3>1, <3>2
    <2> QED  BY <1>0, <1>2, <1>3, <2>2, <2>3, <2>4 DEF Given
  <1>8. Run(u)'
    <2> SUFFICES ASSUME u \notin missed PROVE Run(u)'
      BY <1>0 DEF Run
    <2>1. PICK i \in 1..p + 1 : RunFrom(u, i)
      BY <1>0 DEF RoomInv, Run, p
    <2>2. /\ Len(g) = p + 1 - i
          /\ \A k \in 1..Len(g) : g[k] = said[i + k - 1]
          /\ \A j \in 1..p : said[j].kind = "joined" /\ said[j].from = u => i <= j
      BY <2>1 DEF RunFrom, p, g
    <2>3. Len(g) + 1 = p + 2 - i /\ i \in 1..p + 2
      BY <1>0, <2>1, <2>2
    <2>4. ASSUME NEW k \in 1..Len(g) + 1
          PROVE  Append(g, n)[k] = said[i + k - 1]
      <3>1. CASE k = Len(g) + 1
        <4>1. i + k - 1 = p + 1
          BY <1>0, <2>1, <2>2, <3>1
        <4> QED  BY <1>2, <3>1, <4>1 DEF n, p
      <3>2. CASE k \in 1..Len(g)
        BY <1>2, <2>2, <3>2
      <3> QED  BY <1>0, <3>1, <3>2
    <2>5. \A j \in 1..p + 1 :
            said[j].kind = "joined" /\ said[j].from = u => i <= j
      BY <1>0, <2>1, <2>2
    <2>6. RunFrom(u, i)'
      BY <1>0, <1>2, <1>3, <2>3, <2>4, <2>5 DEF RunFrom
    <2> QED  BY <1>0, <1>3, <2>3, <2>6 DEF Run
  <1> QED  BY <1>4, <1>5, <1>6, <1>7, <1>8 DEF RoomInv

(* Passing: who is in and is passed over is in missed from now on.         *)
LEMMA PassInv ==
  ASSUME RoomInv, NEW S \in SUBSET Users, Pass(S)
  PROVE  RoomInv'
  <1>0. /\ UNCHANGED <<said, seat, given>>
        /\ said \in Seq(Msg) /\ Len(said) \in Nat
        /\ pos \in [Users -> Nat]
        /\ \A u \in S : pos[u] < Len(said)
        /\ pos' = [u \in Users |-> IF u \in S THEN pos[u] + 1 ELSE pos[u]]
    BY DEF Pass, RoomInv, RoomTypeOK
  <1>1. RoomTypeOK'
    BY <1>0 DEF RoomInv, RoomTypeOK
  <1>2. Ordered'
    BY <1>0 DEF RoomInv, Ordered
  <1>3. ASSUME NEW u \in Users PROVE Given(u)'
    <2>1. pos'[u] \in Nat /\ pos[u] \in Nat /\ pos[u] <= pos'[u]
      BY <1>0
    <2>2. Given(u)
      BY DEF RoomInv
    <2>3. \A j \in 1..pos[u] : j \in 1..pos'[u]
      BY <2>1
    <2>4. \A k \in 1..Len(said) : k > pos'[u] => k > pos[u]
      BY <1>0, <2>1
    <2> QED  BY <1>0, <2>2, <2>3, <2>4 DEF Given
  <1>4. ASSUME NEW u \in Users PROVE Run(u)'
    <2>1. missed \subseteq missed' /\ \A v \in S : seat[v] = "in" => v \in missed'
      BY DEF Pass
    <2>2. CASE u \in S
      BY <1>0, <2>1, <2>2 DEF Run
    <2>3. CASE u \notin S
      <3>1. pos'[u] = pos[u] /\ Run(u)
        BY <1>0, <2>3 DEF RoomInv
      <3> QED  BY <1>0, <2>1, <3>1 DEF Run, RunFrom
    <2> QED  BY <2>2, <2>3
  <1> QED  BY <1>1, <1>2, <1>3, <1>4 DEF RoomInv

(* Leaving: a part of what was ordered is ordered.                         *)
LEMMA LeaveInv ==
  ASSUME RoomInv, NEW u \in Users, Leave(u)
  PROVE  RoomInv'
  <1>0. /\ given[u] \in Seq(Msg) /\ Len(given[u]) \in Nat
        /\ given \in [Users -> Seq(Msg)]
        /\ seat \in [Users -> {"new", "in", "out"}]
        /\ seat' = [seat EXCEPT ![u] = "out"]
        /\ UNCHANGED <<said, pos, missed>>
    BY DEF Leave, RoomInv, RoomTypeOK
  <1>1. PICK k \in 0..Len(given[u]) :
          given' = [given EXCEPT ![u] = SubSeq(given[u], 1, k)]
    BY DEF Leave
  <1> DEFINE h == SubSeq(given[u], 1, k)
  <1>2. h \in Seq(Msg) /\ Len(h) = k /\ \A i \in 1..k : h[i] = given[u][i]
    <2>1. \A i \in 1..k : given[u][i] \in Msg
      BY <1>0, <1>1, ElementOfSeq
    <2> QED  BY <1>0, <1>1, <2>1, SubSeqProperties
  <1> HIDE DEF h
  <1>3. given'[u] = h /\ \A v \in Users : v # u => given'[v] = given[v]
    BY <1>0, <1>1 DEF h
  <1>4. RoomTypeOK'
    <2>1. given' \in [Users -> Seq(Msg)]
      BY <1>0, <1>1, <1>2 DEF h
    <2> QED  BY <1>0, <2>1 DEF RoomInv, RoomTypeOK
  <1>5. Ordered'
    BY <1>0 DEF RoomInv, Ordered
  <1>6. ASSUME NEW v \in Users, v # u PROVE Given(v)' /\ Run(v)'
    <2>1. given'[v] = given[v] /\ seat'[v] = seat[v] /\ Given(v) /\ Run(v)
      BY <1>0, <1>3, <1>6 DEF RoomInv
    <2>2. Given(v)'
      BY <1>0, <2>1, ZenonT(60) DEF Given
    <2>3. Run(v)'
      <3>1. ASSUME NEW i, RunFrom(v, i) PROVE RunFrom(v, i)'
        <4>1. pos'[v] = pos[v] /\ said' = said /\ given'[v] = given[v]
          BY <1>0, <2>1
        <4> QED  BY <3>1, <4>1, Zenon DEF RunFrom
      <3>2. ASSUME seat[v] = "in", v \notin missed PROVE Run(v)'
        <4>1. PICK i \in 1..pos[v] + 1 : RunFrom(v, i)
          BY <2>1, <3>2, Zenon DEF Run
        <4>2. RunFrom(v, i)' /\ pos'[v] = pos[v]
          BY <1>0, <3>1, <4>1
        <4> QED  BY <4>1, <4>2, Zenon DEF Run
      <3> QED  BY <1>0, <2>1, <3>2, Zenon DEF Run
    <2> QED  BY <2>2, <2>3
  <1>7. Given(u)'
    <2>1. Given(u) /\ \A i \in 1..k : i \in 1..Len(given[u])
      BY <1>0, <1>1 DEF RoomInv
    <2> QED  BY <1>0, <1>2, <1>3, <2>1, ZenonT(60) DEF Given
  <1>8. Run(u)'
    BY <1>0 DEF Run
  <1> QED  BY <1>4, <1>5, <1>6, <1>7, <1>8 DEF RoomInv

(* Every step preserves the invariant.                                     *)
LEMMA RoomStep ==
  RoomInv /\ [Next]_vars => RoomInv'
  <1> SUFFICES ASSUME RoomInv, [Next]_vars PROVE RoomInv'
    OBVIOUS
  <1>1. CASE UNCHANGED vars
    BY <1>1 DEF vars, RoomInv, RoomTypeOK, Ordered, Given, Run, RunFrom
  <1> QED
    BY <1>1, EnterInv, HearInv, LeaveInv, SayInv, PassInv DEF Next
-----------------------------------------------------------------------------
(* What a user who has missed nothing was given has no gap.                *)
THEOREM RunsHaveNoGap == Spec => []GapFree
  <1>1. RoomInv => GapFree
    <2> SUFFICES ASSUME RoomInv, NEW u \in Users, seat[u] = "in", u \notin missed,
                        NEW i \in 1..pos[u] + 1, RunFrom(u, i)
                 PROVE  given[u] = SubSeq(said, i, pos[u])
      BY DEF RoomInv, Run, RunFrom, GapFree
    <2>1. /\ said \in Seq(Msg) /\ given[u] \in Seq(Msg) /\ pos[u] \in Nat
          /\ pos[u] <= Len(said) /\ Len(said) \in Nat
      BY DEF RoomInv, RoomTypeOK
    <2>2. \A j \in i..pos[u] : said[j] \in Msg
      BY <2>1, ElementOfSeq
    <2> DEFINE run == SubSeq(said, i, pos[u])
    <2>3. /\ i \in 1..Len(said) + 1 /\ pos[u] \in i - 1..Len(said)
          /\ i \in Int /\ i - 1 <= pos[u]
      BY <2>1
    <2>4. /\ run \in Seq(Msg)
          /\ Len(run) = pos[u] - i + 1
          /\ \A k \in 1..pos[u] - i + 1 : run[k] = said[i + k - 1]
      BY <2>1, <2>3, SubSeqProperties, SMTT(30)
    <2> HIDE DEF run
    <2>5. Len(run) = Len(given[u]) /\ \A k \in 1..Len(run) : run[k] = given[u][k]
      BY <2>1, <2>3, <2>4 DEF RunFrom
    <2>6. run = given[u]
      BY <2>1, <2>4, <2>5, SeqEqual
    <2> QED  BY <2>6 DEF run
  <1> QED  BY <1>1, RoomInit, RoomStep, PTL DEF Spec

(* What a user was given keeps every sender's order.                       *)
THEOREM SendersKeepOrder == Spec => []SenderFifo
  <1>1. RoomInv => SenderFifo
    BY DEF RoomInv, Given, SenderFifo
  <1> QED  BY <1>1, RoomInit, RoomStep, PTL DEF Spec
=============================================================================
