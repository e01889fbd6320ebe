--------------------------- MODULE PostingProofs ----------------------------
(***************************************************************************)
(* The rate limiter's promise, for every rate and every burst.             *)
(***************************************************************************)
EXTENDS Posting, TLAPS

(* RateBound says nothing of how much of the burst is left.  What is kept  *)
(* step by step is that the messages of the last j intervals are covered   *)
(* by the debt that remains and the j messages made up for since.          *)
Covered ==
  /\ quota \in [rate : Nat \ {0}, burst : Nat \ {0}]
  /\ debt \in [Users -> 0..quota.burst]
  /\ passed \in [Users -> [Second -> Nat]]
  /\ \A u \in Users : \A j \in Second : passed[u][j] <= debt[u] + j

(* The counts that meet in the bound are natural numbers.                  *)
LEMMA CoveredTypes ==
  ASSUME Covered, NEW u \in Users, NEW j \in Second
  PROVE  /\ quota.burst \in Nat /\ quota.rate \in Nat /\ j \in Nat
         /\ debt[u] \in Nat /\ debt[u] <= quota.burst
         /\ passed[u][j] \in Nat
         /\ passed[u][j] <= debt[u] + j
<1>1. quota.burst \in Nat /\ quota.rate \in Nat
  BY DEF Covered
<1>2. debt[u] \in 0..quota.burst
  BY DEF Covered
<1>3. passed[u] \in [Second -> Nat]
  BY DEF Covered
<1>4. passed[u][j] <= debt[u] + j
  BY DEF Covered
<1> QED
  BY <1>1, <1>2, <1>3, <1>4 DEF Second

(* A limiter is made with a positive rate and burst, and owes nothing.     *)
LEMMA CoveredInit == Init => Covered
<1> SUFFICES ASSUME Init PROVE Covered
  OBVIOUS
<1>1. PICK c \in Configs : quota = WithConfig(c)
  BY DEF Init
<1>2. quota \in [rate : Nat \ {0}, burst : Nat \ {0}]
  BY <1>1, PostingAssumption DEF WithConfig, Raised
<1>3. 0 \in 0..quota.burst
  BY <1>2
<1> QED
  BY <1>2, <1>3 DEF Init, Covered, Second

(* Letting a message through raises the debt with every count; waiting     *)
(* lowers the debt by one and moves every count one interval back.         *)
LEMMA CoveredNext == Covered /\ [Next]_vars => Covered'
<1> SUFFICES ASSUME Covered, [Next]_vars PROVE Covered'
  OBVIOUS
<1>1. ASSUME NEW u \in Users, Acquire(u) PROVE Covered'
  <2>1. quota' = quota /\ Second' = Second
    BY <1>1 DEF Acquire, Second
  <2>2. debt[u] + 1 \in 0..quota.burst
    BY <1>1 DEF Acquire, Ready, Covered
  <2>3. debt' \in [Users -> 0..quota.burst]
    BY <1>1, <2>2 DEF Acquire, Covered
  <2>4. passed' \in [Users -> [Second -> Nat]]
    BY <1>1 DEF Acquire, Covered
  <2>5. ASSUME NEW v \in Users, NEW j \in Second
        PROVE passed'[v][j] <= debt'[v] + j
    <3>1. CASE v = u
      <4>1. debt'[v] = debt[v] + 1
        BY <1>1, <3>1 DEF Acquire, Covered
      <4>2. passed'[v][j] = passed[v][j] + 1
        BY <1>1, <3>1 DEF Acquire, Covered
      <4> QED
        BY <4>1, <4>2, CoveredTypes
    <3>2. CASE v # u
      BY <1>1, <2>5, <3>2 DEF Acquire, Covered, Second
    <3> QED
      BY <3>1, <3>2
  <2> QED
    BY <2>1, <2>3, <2>4, <2>5 DEF Covered
<1>2. CASE Interval
  <2>1. quota' = quota /\ Second' = Second
    BY <1>2 DEF Interval, Second
  <2>2. debt' \in [Users -> 0..quota.burst]
    <3> SUFFICES ASSUME NEW v \in Users
                 PROVE (IF debt[v] = 0 THEN 0 ELSE debt[v] - 1) \in 0..quota.burst
      BY <1>2 DEF Interval
    <3>1. debt[v] \in 0..quota.burst /\ quota.burst \in Nat
      BY DEF Covered
    <3> QED
      BY <3>1
  <2>3. \A j \in Second : j # 0 => j - 1 \in Second
    BY DEF Second, Covered
  <2>4. passed' \in [Users -> [Second -> Nat]]
    BY <1>2, <2>3 DEF Interval, Covered
  <2>5. ASSUME NEW v \in Users, NEW j \in Second
        PROVE passed'[v][j] <= debt'[v] + j
    <3>1. CASE j = 0
      BY <1>2, <2>2, <2>5, <3>1 DEF Interval, Covered, Second
    <3>2. CASE j # 0
      <4>1. passed'[v][j] = passed[v][j - 1] /\ j - 1 \in Second
        BY <1>2, <2>3, <2>5, <3>2 DEF Interval, Covered
      <4>2. passed[v][j - 1] <= debt[v] + (j - 1)
        BY <4>1 DEF Covered
      <4>3. debt'[v] = IF debt[v] = 0 THEN 0 ELSE debt[v] - 1
        BY <1>2 DEF Interval
      <4>4. debt[v] \in Nat /\ j \in Nat /\ passed[v][j - 1] \in Nat
        BY <4>1 DEF Covered, Second
      <4> QED
        BY <4>1, <4>2, <4>3, <4>4
    <3> QED
      BY <3>1, <3>2
  <2> QED
    BY <2>1, <2>2, <2>4, <2>5 DEF Covered
<1>3. ASSUME UNCHANGED <<quota, debt, passed>> PROVE Covered'
  BY <1>3 DEF Covered, Second
<1>4. ASSUME Next, ~ Interval, \A u \in Users : ~ Acquire(u)
      PROVE UNCHANGED <<quota, debt, passed>>
  BY <1>4 DEF Next, Connection, ReadSend, Announce, Unblock, SendTimesOut,
              CheckFlag, Receive, ReceiveTimeout, Broadcast
<1> QED
  BY <1>1, <1>2, <1>3, <1>4 DEF vars

(* RateLimiter: however a user times its messages, no more than the burst  *)
(* and one message per interval get past acquire().                        *)
THEOREM RateIsBounded == Spec => []RateBound
<1>1. Covered => RateBound
  <2> SUFFICES ASSUME Covered, NEW u \in Users, NEW j \in Second
               PROVE passed[u][j] <= quota.burst + j
    BY DEF RateBound
  <2> QED
    BY CoveredTypes
<1> QED
  BY CoveredInit, CoveredNext, <1>1, PTL DEF Spec
=============================================================================
