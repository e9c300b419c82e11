--------------------------- MODULE ChannelOpsProofs --------------------------
(***************************************************************************)
(* Lemmas about the helpers of ChannelOps, used by the proofs about the    *)
(* kernels that call them.                                                 *)
(***************************************************************************)
EXTENDS ChannelOps, FiniteSetTheorems, WellFoundedInduction, TLAPS

(* Every non-empty set of naturals has a least element: what the reverse scan
   of send_head relies on to name "the next token sent". *)
LEMMA LeastElement ==
  ASSUME NEW S \in SUBSET Nat, S # {}
  PROVE  \E m \in S : \A n \in S : m <= n
<1> DEFINE R == {ss \in Nat \X Nat : ss[1] < ss[2]}
<1>1. IsWellFoundedOn(R, Nat)
  BY NatLessThanWellFounded DEF OpToRel
<1>2. PICK m \in S : \A n \in S : <<n, m>> \notin R
  <2> HIDE DEF R
  <2> QED BY <1>1, WFMin
<1>3. ASSUME NEW n \in S PROVE m <= n
  <2>1. m \in Nat /\ n \in Nat
    OBVIOUS
  <2>2. ~(n < m)
    BY <1>2, <2>1
  <2> QED BY <2>1, <2>2
<1> QED BY <1>3

(* Two ring positions less than R apart use different slots. *)
LEMMA ModDistinct ==
  ASSUME NEW R \in Nat \ {0}, NEW p \in Nat, NEW q \in Nat, p < q, q - p < R
  PROVE  p % R # q % R
<1> DEFINE a == p \div R
           b == q \div R
<1>1. /\ p = R * a + (p % R) /\ q = R * b + (q % R)
      /\ p % R \in 0 .. R - 1 /\ q % R \in 0 .. R - 1
      /\ a \in Int /\ b \in Int
  OBVIOUS
<1>2. SUFFICES ASSUME p % R = q % R PROVE FALSE
  OBVIOUS
<1>3. q - p = R * (b - a)
  BY <1>1, <1>2
<1>4. b - a \in Int
  BY <1>1
<1> HIDE DEF a, b
<1>5. CASE b - a <= 0
  <2>1. R * (b - a) <= 0
    BY <1>4, <1>5
  <2> QED BY <2>1, <1>3
<1>6. CASE b - a >= 1
  <2>1. R * (b - a) >= R
    BY <1>4, <1>6
  <2> QED BY <2>1, <1>3
<1> QED BY <1>4, <1>5, <1>6

-----------------------------------------------------------------------------
LEMMA ModShift ==
  ASSUME NEW R \in Nat \ {0}, NEW p \in Nat
  PROVE  (p + R) % R = p % R
<1> DEFINE a == p \div R
           b == (p + R) \div R
<1>1. /\ p = R * a + (p % R) /\ p % R \in 0 .. R - 1 /\ a \in Int
      /\ p + R = R * b + ((p + R) % R) /\ (p + R) % R \in 0 .. R - 1 /\ b \in Int
  OBVIOUS
<1> HIDE DEF a, b
<1>2. R * (a + 1) = R * a + R /\ R * (b - (a + 1)) = R * b - R * (a + 1)
  BY <1>1
<1>3. b = a + 1
  <2>1. b > a + 1 => R * (b - (a + 1)) >= R
    BY <1>1
  <2>2. b < a + 1 => R * (b - (a + 1)) <= -R
    BY <1>1
  <2> QED BY <1>1, <1>2, <2>1, <2>2
<1> QED BY <1>1, <1>2, <1>3

(* Counting selected tokens. *)
LEMMA SelectedType ==
  ASSUME NEW mask \in SUBSET Nat, NEW lo \in Nat, NEW hi \in Nat
  PROVE  /\ IsFiniteSet({t \in mask : lo <= t /\ t < hi})
         /\ SelectedIn(mask, lo, hi) \in Nat
         /\ hi <= lo => SelectedIn(mask, lo, hi) = 0
         /\ mask = {} => SelectedIn(mask, lo, hi) = 0
<1> DEFINE S == {t \in mask : lo <= t /\ t < hi}
<1>1. IsFiniteSet(lo .. hi)
  BY FS_Interval
<1> S \in SUBSET (lo .. hi)
  <2>1. ASSUME NEW u \in mask, lo <= u, u < hi PROVE u \in lo .. hi
    <3>1. u \in Nat
      OBVIOUS
    <3> QED BY <2>1, <3>1
  <2> QED BY <2>1
<1>2. IsFiniteSet(S) /\ Cardinality(S) \in Nat
  BY <1>1, FS_Subset, FS_CardinalityType
<1>3. hi <= lo \/ mask = {} => S = {}
  OBVIOUS
<1> QED BY <1>2, <1>3, FS_EmptySet DEF SelectedIn

LEMMA SelectedStep ==
  ASSUME NEW mask \in SUBSET Nat, NEW lo \in Nat, NEW t \in Nat, lo <= t
  PROVE  SelectedIn(mask, lo, t + 1)
           = SelectedIn(mask, lo, t) + (IF t \in mask THEN 1 ELSE 0)
<1> DEFINE S(h) == {u \in mask : lo <= u /\ u < h}
<1>0. \A u \in mask : /\ u \in Nat
                      /\ u < t + 1 <=> (u < t \/ u = t)
  <2> SUFFICES ASSUME NEW u \in mask
               PROVE  u \in Nat /\ (u < t + 1 <=> (u < t \/ u = t))
    OBVIOUS
  <2>1. u \in Nat
    OBVIOUS
  <2> QED BY <2>1
<1>1. IsFiniteSet(S(t)) /\ t \notin S(t)
  BY SelectedType
<1>2. Cardinality(S(t)) \in Nat
  BY <1>1, FS_CardinalityType
<1>3. CASE t \in mask
  <2>1. S(t + 1) = S(t) \cup {t}
    BY <1>0, <1>3
  <2> HIDE DEF S
  <2>2. Cardinality(S(t + 1)) = Cardinality(S(t)) + 1
    BY <1>1, <2>1, FS_AddElement
  <2> QED BY <1>3, <2>2 DEF SelectedIn, S
<1>4. CASE t \notin mask
  <2>1. S(t + 1) = S(t)
    BY <1>0, <1>4
  <2> QED BY <1>2, <1>4, <2>1 DEF SelectedIn
<1> QED BY <1>3, <1>4

LEMMA SelectedSplit ==
  ASSUME NEW mask \in SUBSET Nat, NEW lo \in Nat, NEW mid \in Nat, NEW hi \in Nat,
         lo <= mid, mid <= hi
  PROVE  SelectedIn(mask, lo, hi) = SelectedIn(mask, lo, mid) + SelectedIn(mask, mid, hi)
<1> DEFINE S(l, h) == {u \in mask : l <= u /\ u < h}
<1>0. \A u \in mask : (lo <= u /\ u < hi)
                       <=> (lo <= u /\ u < mid) \/ (mid <= u /\ u < hi)
  <2> SUFFICES ASSUME NEW u \in mask
               PROVE  (lo <= u /\ u < hi)
                        <=> (lo <= u /\ u < mid) \/ (mid <= u /\ u < hi)
    OBVIOUS
  <2>1. u \in Nat
    OBVIOUS
  <2> QED BY <2>1
<1>1. IsFiniteSet(S(lo, mid)) /\ IsFiniteSet(S(mid, hi))
  BY SelectedType
<1>2. S(lo, hi) = S(lo, mid) \cup S(mid, hi) /\ S(lo, mid) \cap S(mid, hi) = {}
  <2>1. \A u \in mask : ~((lo <= u /\ u < mid) /\ (mid <= u /\ u < hi))
    <3> SUFFICES ASSUME NEW u \in mask PROVE ~(u < mid /\ mid <= u)
      OBVIOUS
    <3>1. u \in Nat
      OBVIOUS
    <3> QED BY <3>1
  <2> QED BY <1>0, <2>1
<1> HIDE DEF S
<1>3. Cardinality(S(lo, hi)) = Cardinality(S(lo, mid)) + Cardinality(S(mid, hi))
  <2>1. Cardinality(S(lo, hi)) = Cardinality(S(lo, mid)) + Cardinality(S(mid, hi))
                                   - Cardinality(S(lo, mid) \cap S(mid, hi))
    BY <1>1, <1>2, FS_Union
  <2>2. Cardinality(S(lo, mid)) \in Nat /\ Cardinality(S(mid, hi)) \in Nat
    BY <1>1, FS_CardinalityType
  <2> QED BY <1>2, <2>1, <2>2, FS_EmptySet
<1> QED BY <1>3 DEF SelectedIn, S

(* Counting further finds no less, and more once it passes a selected token. *)
LEMMA SelectedMonotone ==
  ASSUME NEW mask \in SUBSET Nat, NEW lo \in Nat, NEW t \in Nat, NEW u \in Nat,
         lo <= t, t <= u
  PROVE  /\ SelectedIn(mask, lo, t) <= SelectedIn(mask, lo, u)
         /\ SelectedIn(mask, lo, u) - SelectedIn(mask, lo, t) <= u - t
         /\ t \in mask /\ t < u => SelectedIn(mask, lo, t) < SelectedIn(mask, lo, u)
<1>1. SelectedIn(mask, lo, u) = SelectedIn(mask, lo, t) + SelectedIn(mask, t, u)
  BY SelectedSplit
<1>2. /\ SelectedIn(mask, lo, t) \in Nat /\ SelectedIn(mask, lo, u) \in Nat
      /\ SelectedIn(mask, t, u) \in Nat
  BY SelectedType
<1>3. SelectedIn(mask, t, u) <= u - t
  <2>1. /\ IsFiniteSet(t .. u - 1)
        /\ Cardinality(t .. u - 1) = IF t > u - 1 THEN 0 ELSE (u - 1) - t + 1
    BY FS_Interval
  <2> DEFINE S == {v \in mask : t <= v /\ v < u}
  <2>2. S \in SUBSET (t .. u - 1)
    <3>1. ASSUME NEW v \in mask, t <= v, v < u PROVE v \in t .. u - 1
      <4>1. v \in Nat
        OBVIOUS
      <4> QED BY <3>1, <4>1
    <3> QED BY <3>1
  <2> HIDE DEF S
  <2>3. Cardinality(S) <= Cardinality(t .. u - 1)
    BY <2>1, <2>2, FS_Subset
  <2> QED BY <2>1, <2>3 DEF SelectedIn, S
<1>4. ASSUME t \in mask, t < u PROVE SelectedIn(mask, t, u) > 0
  <2> DEFINE S == {v \in mask : t <= v /\ v < u}
  <2>1. IsFiniteSet(S) /\ t \in S
    BY <1>4, SelectedType
  <2> HIDE DEF S
  <2>2. Cardinality(S) # 0 /\ Cardinality(S) \in Nat
    BY <2>1, FS_EmptySet, FS_CardinalityType
  <2> QED BY <2>2 DEF SelectedIn, S
<1> QED BY <1>1, <1>2, <1>3, <1>4

(* The tokens of a peer are its rows 0, 1, ... in token order: two of them do
   not share a row, and every row below the count belongs to one. *)
LEMMA SelectedInjective ==
  ASSUME NEW mask \in SUBSET Nat, NEW lo \in Nat, NEW t \in mask, NEW u \in mask,
         lo <= t, lo <= u
  PROVE  /\ SelectedIn(mask, lo, t) = SelectedIn(mask, lo, u) => t = u
         /\ SelectedIn(mask, lo, t) < SelectedIn(mask, lo, u) => t < u
<1>1. /\ t \in Nat /\ u \in Nat
      /\ SelectedIn(mask, lo, t) \in Nat /\ SelectedIn(mask, lo, u) \in Nat
  BY SelectedType
<1>2. t < u => SelectedIn(mask, lo, t) < SelectedIn(mask, lo, u)
  BY <1>1, SelectedMonotone
<1>3. u < t => SelectedIn(mask, lo, u) < SelectedIn(mask, lo, t)
  BY <1>1, SelectedMonotone
<1> QED BY <1>1, <1>2, <1>3

LEMMA SelectedAt ==
  ASSUME NEW mask \in SUBSET Nat, NEW lo \in Nat, NEW hi \in Nat, NEW n \in Nat,
         lo <= hi, n < SelectedIn(mask, lo, hi)
  PROVE  \E t \in mask : lo <= t /\ t < hi /\ SelectedIn(mask, lo, t) = n
<1> DEFINE P == {h \in Nat : lo <= h /\ n < SelectedIn(mask, lo, h)}
<1>1. PICK h \in P : \A k \in P : h <= k
  <2>1. P \in SUBSET Nat /\ hi \in P
    OBVIOUS
  <2> HIDE DEF P
  <2> QED BY <2>1, LeastElement
<1>2. h \in Nat /\ lo <= h /\ n < SelectedIn(mask, lo, h) /\ h <= hi
  BY <1>1
<1>3. h # lo
  <2>1. lo <= lo => SelectedIn(mask, lo, lo) = 0
    BY SelectedType
  <2> QED BY <1>2, <2>1
<1> DEFINE t == h - 1
<1>4. t \in Nat /\ lo <= t /\ t < hi /\ t + 1 = h
  BY <1>2, <1>3
<1>5. t \notin P
  BY <1>1, <1>2, <1>4
<1>6. SelectedIn(mask, lo, t) \in Nat /\ SelectedIn(mask, lo, h) \in Nat
  BY <1>2, <1>4, SelectedType
<1>7. SelectedIn(mask, lo, t) <= n
  BY <1>4, <1>5, <1>6
<1>8. SelectedIn(mask, lo, h) = SelectedIn(mask, lo, t) + (IF t \in mask THEN 1 ELSE 0)
  BY <1>4, SelectedStep
<1> HIDE DEF t
<1>9. t \in mask /\ SelectedIn(mask, lo, t) = n
  BY <1>2, <1>6, <1>7, <1>8
<1> QED BY <1>4, <1>9

-----------------------------------------------------------------------------
(* A channel is an interval of the rank's tokens. *)
LEMMA ChannelRange ==
  ASSUME NEW n \in Nat, NEW C \in Nat \ {0}, NEW c \in 0 .. C - 1
  PROVE  /\ ChannelStart(n, C, c) \in 0 .. n
         /\ ChannelEnd(n, C, c) \in ChannelStart(n, C, c) .. n
<1> DEFINE d == CeilDiv(n, C)
<1>1. d \in Nat
  BY DEF CeilDiv
<1> HIDE DEF d
<1>2. d * c \in Nat
  BY <1>1
<1>3. ChannelStart(n, C, c) \in 0 .. n
  BY <1>2 DEF ChannelStart, Smaller, d
<1> QED BY <1>1, <1>3 DEF ChannelEnd, Smaller, d

(* Neighbouring channels meet, and the last ends with the last token. *)
LEMMA ChannelNext ==
  ASSUME NEW n \in Nat, NEW C \in Nat \ {0}, NEW c \in 0 .. C - 1
  PROVE  ChannelEnd(n, C, c) = IF c = C - 1 THEN n ELSE ChannelStart(n, C, c + 1)
<1> DEFINE d == CeilDiv(n, C)
           q == (n + C - 1) \div C
<1>1. q \in Nat /\ n + C - 1 = C * q + ((n + C - 1) % C) /\ (n + C - 1) % C \in 0 .. C - 1
  OBVIOUS
<1>2. d \in Nat /\ d = q
  BY <1>1 DEF CeilDiv
<1> HIDE DEF d, q
<1>3. /\ d * c \in Nat /\ d * (c + 1) = d * c + d /\ C * d = d * C
      /\ d * ((C - 1) + 1) = d * (C - 1) + d
  BY <1>2
<1>4. d * C >= n
  BY <1>1, <1>2, <1>3
<1>5. ChannelEnd(n, C, c) = Smaller(d * (c + 1), n)
  BY <1>2, <1>3 DEF ChannelEnd, ChannelStart, Smaller, d
<1>6. CASE c = C - 1
  <2>1. d * (c + 1) >= n
    BY <1>4, <1>6
  <2> QED BY <1>2, <1>3, <1>5, <1>6, <2>1 DEF Smaller
<1>7. CASE c # C - 1
  BY <1>5, <1>7 DEF ChannelStart, d
<1> QED BY <1>6, <1>7

(* The reverse scan yields an integer for every token. *)
LEMMA EncodeHeadsType ==
  ASSUME NEW T, NEW heads \in [T -> Int], NEW lo \in Nat, NEW hi \in Nat,
         lo .. hi - 1 \subseteq T
  PROVE  EncodeHeads(heads, lo, hi) \in [T -> Int]
<1> DEFINE later(t) == {u \in lo .. hi - 1 : u > t /\ heads[u] >= 0}
           nearest(t) == CHOOSE u \in later(t) : \A v \in later(t) : u <= v
           nextHead(t) == IF later(t) = {} THEN kReverseScanSentinel
                          ELSE heads[nearest(t)]
<1>1. ASSUME NEW t \in T PROVE nextHead(t) \in Int
  <2>1. CASE later(t) = {}
    BY <2>1 DEF kReverseScanSentinel
  <2>2. CASE later(t) # {}
    <3>1. later(t) \in SUBSET Nat
      OBVIOUS
    <3>2. \E u \in later(t) : \A v \in later(t) : u <= v
      <4> HIDE DEF later
      <4> QED BY <2>2, <3>1, LeastElement
    <3>3. nearest(t) \in later(t)
      <4> HIDE DEF later
      <4> QED BY <3>2
    <3>4. nearest(t) \in T
      <4> HIDE DEF nearest
      <4> QED BY <3>3
    <3> HIDE DEF nearest
    <3> QED BY <2>2, <3>4
  <2> QED BY <2>1, <2>2
<1>2. EncodeHeads(heads, lo, hi)
        = [t \in T |-> IF t \in lo .. hi - 1 /\ heads[t] < 0
                         THEN -nextHead(t) - 1 ELSE heads[t]]
  BY DEF EncodeHeads
<1> HIDE DEF nextHead
<1> QED BY <1>1, <1>2

(* What the reverse scan leaves: a token that was sent keeps its head; one that
   was not gets the code of the head of the nearest later token that was, or
   of the sentinel. *)
LEMMA EncodeHeadsValue ==
  ASSUME NEW T, NEW heads \in [T -> Int], NEW lo \in Nat, NEW hi \in Nat,
         lo .. hi - 1 \subseteq T, NEW t \in lo .. hi - 1
  PROVE  LET code == EncodeHeads(heads, lo, hi)[t]
         IN  /\ heads[t] >= 0 => code = heads[t]
             /\ heads[t] < 0 =>
                  \/ /\ code = -kReverseScanSentinel - 1
                     /\ \A u \in lo .. hi - 1 : u > t => heads[u] < 0
                  \/ \E v \in lo .. hi - 1 :
                       /\ v > t /\ heads[v] >= 0 /\ code = -heads[v] - 1
                       /\ \A u \in lo .. hi - 1 : u > t /\ u < v => heads[u] < 0
<1> DEFINE later == {u \in lo .. hi - 1 : u > t /\ heads[u] >= 0}
           nearest == CHOOSE u \in later : \A v \in later : u <= v
           nextHead == IF later = {} THEN kReverseScanSentinel ELSE heads[nearest]
<1>1. EncodeHeads(heads, lo, hi)[t] = IF heads[t] < 0 THEN -nextHead - 1 ELSE heads[t]
  BY DEF EncodeHeads
<1>2. heads[t] \in Int /\ \A u \in lo .. hi - 1 : u \in Int /\ heads[u] \in Int
  OBVIOUS
<1>3. CASE heads[t] >= 0
  BY <1>1, <1>2, <1>3
<1>4. CASE heads[t] < 0 /\ later = {}
  <2>1. EncodeHeads(heads, lo, hi)[t] = -kReverseScanSentinel - 1
    BY <1>1, <1>4
  <2>2. \A u \in lo .. hi - 1 : u > t => heads[u] < 0
    BY <1>2, <1>4
  <2> QED BY <1>2, <1>4, <2>1, <2>2
<1>5. CASE heads[t] < 0 /\ later # {}
  <2>1. nearest \in later /\ \A v \in later : nearest <= v
    <3>1. later \in SUBSET Nat
      OBVIOUS
    <3>2. \E u \in later : \A v \in later : u <= v
      <4> HIDE DEF later
      <4> QED BY <1>5, <3>1, LeastElement
    <3> HIDE DEF later
    <3> QED BY <3>2
  <2>2. EncodeHeads(heads, lo, hi)[t] = -heads[nearest] - 1
    BY <1>1, <1>5
  <2> HIDE DEF nearest
  <2>3. nearest \in lo .. hi - 1 /\ nearest > t /\ heads[nearest] >= 0
    BY <2>1
  <2>4. \A u \in lo .. hi - 1 : u > t /\ u < nearest => heads[u] < 0
    BY <1>2, <2>1, <2>3
  <2> QED BY <1>2, <1>5, <2>2, <2>3, <2>4
<1> QED BY <1>2, <1>3, <1>4, <1>5

-----------------------------------------------------------------------------
(* Whole tiles: multiplying keeps the order, and the tiles that hold n rows
   are the fewest, exactly n when the tile divides it. *)
LEMMA Products ==
  ASSUME NEW a \in Nat, NEW b \in Nat, NEW m \in Nat
  PROVE  /\ a * m \in Nat /\ a <= b => a * m <= b * m
         /\ (a + b) * m = a * m + b * m
OBVIOUS

LEMMA CeilBounds ==
  ASSUME NEW n \in Nat, NEW c \in Nat \ {0}
  PROVE  /\ CeilDiv(n, c) \in Nat /\ CeilDiv(n, c) * c \in Nat
         /\ n <= CeilDiv(n, c) * c /\ CeilDiv(n, c) * c < n + c
         /\ n % c = 0 => CeilDiv(n, c) * c = n
<1>1. PICK a \in Nat : a = n + c - 1
  OBVIOUS
<1>2. PICK p \in Nat, r \in 0 .. c - 1 : a = p * c + r /\ p = CeilDiv(n, c)
  <2>1. a \div c \in Nat /\ a % c \in 0 .. c - 1 /\ a = (a \div c) * c + (a % c)
    BY <1>1
  <2> QED BY <1>1, <2>1 DEF CeilDiv
<1>3. p * c \in Nat
  BY <1>2
<1>4. n <= p * c /\ p * c < n + c
  BY <1>1, <1>2, <1>3
<1>5. ASSUME n % c = 0 PROVE p * c = n
  <2>1. PICK q \in Nat : n = q * c
    <3>1. n \div c \in Nat /\ n % c \in 0 .. c - 1 /\ n = (n \div c) * c + (n % c)
      OBVIOUS
    <3>2. PICK q \in Nat, m \in Nat : q = n \div c /\ m = n % c /\ n = q * c + m
      BY <3>1
    <3>3. q * c \in Nat /\ m = 0
      BY <1>5, <3>2
    <3>4. n = q * c
      BY <3>2, <3>3
    <3> QED BY <3>4
  <2>2. ~(q + 1 <= p)
    <3>1. c \in Nat /\ q + 1 \in Nat
      OBVIOUS
    <3>2. q + 1 <= p => (q + 1) * c <= p * c
      BY <3>1, Products
    <3>3. (q + 1) * c = q * c + c
      OBVIOUS
    <3>4. q * c \in Nat
      BY <2>1
    <3> QED BY <1>1, <1>2, <1>3, <2>1, <3>2, <3>3, <3>4
  <2>3. p <= q => p * c <= q * c
    <3>1. c \in Nat
      OBVIOUS
    <3> QED BY <3>1, Products
  <2> QED BY <1>3, <1>4, <2>1, <2>2, <2>3
<1> QED BY <1>2, <1>3, <1>4, <1>5

(* Every number below a whole number of shares lies in one of the shares. *)
LEMMA InShare ==
  ASSUME NEW n \in Nat, NEW s \in Nat \ {0}, NEW v \in Nat, v < n * s
  PROVE  \E k \in 0 .. n - 1 : v \in k * s .. (k + 1) * s - 1
<1>1. PICK k \in Nat, r \in 0 .. s - 1 : v = k * s + r
  <2>1. v \div s \in Nat /\ v % s \in 0 .. s - 1 /\ v = (v \div s) * s + (v % s)
    OBVIOUS
  <2> QED BY <2>1
<1>2. k * s \in Nat /\ n * s \in Nat /\ (k + 1) * s = k * s + s  BY Products
<1>3. v \in k * s .. (k + 1) * s - 1  BY <1>1, <1>2
<1>4. k < n
  <2>1. n <= k => n * s <= k * s  BY Products
  <2> QED BY <1>1, <1>2, <2>1
<1> QED BY <1>3, <1>4

(* Share k of n shares of s lies among the first n * s. *)
LEMMA ShareWithin ==
  ASSUME NEW n \in Nat, NEW s \in Nat \ {0}, NEW k \in 0 .. n - 1
  PROVE  k * s .. (k + 1) * s - 1 \subseteq 0 .. n * s - 1
<1>1. PICK a \in Nat, b \in Nat, c \in Nat : a = k * s /\ b = (k + 1) * s /\ c = n * s
  <2>1. k \in Nat /\ k + 1 \in Nat /\ s \in Nat  OBVIOUS
  <2> QED BY <2>1, Products
<1>2. b <= c
  <2>1. k + 1 \in Nat /\ k + 1 <= n /\ s \in Nat  OBVIOUS
  <2> QED BY <1>1, <2>1, Products
<1>3. a .. b - 1 \subseteq 0 .. c - 1  BY <1>2
<1> QED BY <1>1, <1>3

(* A number lies in one share only. *)
LEMMA ShareIsOne ==
  ASSUME NEW s \in Nat \ {0}, NEW j \in Nat, NEW k \in Nat, NEW v,
         v \in j * s .. (j + 1) * s - 1, v \in k * s .. (k + 1) * s - 1
  PROVE  j = k
<1>1. /\ j * s \in Nat /\ k * s \in Nat
      /\ (j + 1) * s = j * s + s /\ (k + 1) * s = k * s + s
  BY Products
<1>2. j + 1 <= k => (j + 1) * s <= k * s
  <2>1. j + 1 \in Nat  OBVIOUS
  <2> QED BY <2>1, Products
<1>3. k + 1 <= j => (k + 1) * s <= j * s
  <2>1. k + 1 \in Nat  OBVIOUS
  <2> QED BY <2>1, Products
<1>4. v \in Int /\ v >= j * s /\ v < j * s + s /\ v >= k * s /\ v < k * s + s
  BY <1>1
<1>5. ~(j + 1 <= k) /\ ~(k + 1 <= j)  BY <1>1, <1>2, <1>3, <1>4
<1> QED BY <1>5

-----------------------------------------------------------------------------
(***************************************************************************)
(* Sums.  A sum of naturals is counted as a set of pairs, which turns      *)
(* statements about sums into statements about cardinalities.              *)
(***************************************************************************)
(* The pairs <<x, j>> with j below f[x], for x in s. *)
PairsIn(f, s) == {p \in s \X Nat : p[2] < f[p[1]]}

LEMMA PairsOfOne ==
  ASSUME NEW f, NEW x, f[x] \in Nat
  PROVE  IsFiniteSet(PairsIn(f, {x})) /\ Cardinality(PairsIn(f, {x})) = f[x]
<1> DEFINE S == 0 .. f[x] - 1
           T == PairsIn(f, {x})
           g == [j \in S |-> <<x, j>>]
<1>1. IsFiniteSet(S) /\ Cardinality(S) = f[x]
  <2>1. PICK n \in Nat : n = f[x]
    OBVIOUS
  <2>2. 0 \in Int /\ n - 1 \in Int
    OBVIOUS
  <2>3. IsFiniteSet(0 .. n - 1) /\ Cardinality(0 .. n - 1) = IF 0 > n - 1 THEN 0 ELSE n - 1 - 0 + 1
    BY <2>2, FS_Interval
  <2>4. Cardinality(0 .. n - 1) = n
    BY <2>3
  <2> QED BY <2>1, <2>3, <2>4
<1>2. g \in Surjection(S, T)
  <2>1. \A j \in S : <<x, j>> \in T
    BY DEF PairsIn
  <2>2. \A p \in T : \E j \in S : p = <<x, j>>
    BY DEF PairsIn
  <2> HIDE DEF S, T
  <2>3. g \in [S -> T]
    BY <2>1
  <2> QED BY <2>2, <2>3 DEF Surjection
<1>3. g \in Injection(S, T)
  <2>1. g \in [S -> T]
    BY <1>2 DEF Surjection
  <2> HIDE DEF S, T
  <2> QED BY <2>1 DEF Injection, IsInjective
<1> HIDE DEF S, T, g
<1>4. IsFiniteSet(T) /\ Cardinality(T) = Cardinality(S)
  BY <1>1, <1>2, <1>3, FS_Surjection
<1> QED BY <1>1, <1>4 DEF T

LEMMA PairsFinite ==
  ASSUME NEW s, IsFiniteSet(s), NEW f, \A x \in s : f[x] \in Nat
  PROVE  IsFiniteSet(PairsIn(f, s)) /\ Cardinality(PairsIn(f, s)) \in Nat
<1> DEFINE parts == {PairsIn(f, {x}) : x \in s}
           g == [x \in s |-> PairsIn(f, {x})]
<1>1. g \in Surjection(s, parts)
  BY DEF Surjection
<1>2. IsFiniteSet(parts)
  <2> HIDE DEF parts, g
  <2> QED BY <1>1, FS_Surjection
<1>3. \A P \in parts : IsFiniteSet(P)
  BY PairsOfOne
<1>4. PairsIn(f, s) = UNION parts
  <2>1. \A p : p \in PairsIn(f, s) <=> \E x \in s : p \in PairsIn(f, {x})
    BY DEF PairsIn
  <2> QED BY <2>1
<1>5. IsFiniteSet(UNION parts)
  <2> HIDE DEF parts
  <2> QED BY <1>2, <1>3, FS_UNION
<1> QED BY <1>4, <1>5, FS_CardinalityType

LEMMA PairsAdd ==
  ASSUME NEW A, NEW B, IsFiniteSet(A), IsFiniteSet(B), A \cap B = {},
         NEW f, \A x \in A \cup B : f[x] \in Nat
  PROVE  Cardinality(PairsIn(f, A \cup B)) = Cardinality(PairsIn(f, A)) + Cardinality(PairsIn(f, B))
<1>1. PICK P, Q, R : P = PairsIn(f, A) /\ Q = PairsIn(f, B) /\ R = PairsIn(f, A \cup B)
  OBVIOUS
<1>2. R = P \cup Q /\ P \cap Q = {}
  BY <1>1 DEF PairsIn
<1>3. /\ IsFiniteSet(P) /\ Cardinality(P) \in Nat
      /\ IsFiniteSet(Q) /\ Cardinality(Q) \in Nat
  BY <1>1, PairsFinite
<1>4. Cardinality(P \cup Q) = Cardinality(P) + Cardinality(Q) - Cardinality(P \cap Q)
  BY <1>3, FS_Union
<1>5. Cardinality(P \cap Q) = 0
  BY <1>2, FS_EmptySet
<1>6. Cardinality(P \cup Q) = Cardinality(P) + Cardinality(Q)
  BY <1>3, <1>4, <1>5
<1> QED BY <1>1, <1>2, <1>6

(* What holds of the empty set and, element by element as a fold takes them
   out, of the larger ones holds of a finite set. *)
LEMMA SubsetsAgree ==
  ASSUME NEW S, IsFiniteSet(S), NEW h, NEW g, h[{}] = g[{}],
         \A s \in SUBSET S :
           s # {} /\ h[s \ {CHOOSE x \in s : TRUE}] = g[s \ {CHOOSE x \in s : TRUE}]
             => h[s] = g[s]
  PROVE  h[S] = g[S]
<1>1. \A s \in SUBSET S : IsFiniteSet(s) /\ Cardinality(s) \in Nat
  BY FS_Subset, FS_CardinalityType
<1> SUFFICES ASSUME h[S] # g[S] PROVE FALSE
  OBVIOUS
<1> DEFINE Differ == {s \in SUBSET S : h[s] # g[s]}
           sizes == {Cardinality(s) : s \in Differ}
<1>2. sizes \in SUBSET Nat /\ sizes # {}
  BY <1>1
<1>3. PICK n \in sizes : \A m \in sizes : n <= m
  <2> HIDE DEF sizes
  <2> QED BY <1>2, LeastElement
<1>4. PICK s \in Differ : n = Cardinality(s)
  BY <1>3
<1>5. s # {}
  BY <1>4
<1>6. PICK y : y = (CHOOSE x \in s : TRUE) /\ y \in s
  BY <1>5
<1>7. PICK u : u = s \ {y} /\ u \in SUBSET S
  BY <1>4
<1>8. Cardinality(u) = n - 1 /\ Cardinality(u) \in Nat /\ n \in Nat
  BY <1>1, <1>4, <1>6, <1>7, FS_RemoveElement
<1>9. u \notin Differ
  BY <1>3, <1>8
<1> QED BY <1>4, <1>5, <1>6, <1>7, <1>9

(* The value the fold of SumFunction computes, subset by subset. *)
Folded(f, S, h) ==
  h = [s \in SUBSET S |->
         IF s = {} THEN 0
         ELSE f[CHOOSE x \in s : TRUE] + h[s \ {CHOOSE x \in s : TRUE}]]

LEMMA FoldOfSum ==
  ASSUME NEW f
  PROVE  SumFunction(f) = (CHOOSE h : Folded(f, DOMAIN f, h))[DOMAIN f]
BY Zenon DEF SumFunction, SumFunctionOnSet, FoldFunctionOnSet, MapThenFoldSet, Folded

LEMMA SumIsCount ==
  ASSUME NEW f, IsFiniteSet(DOMAIN f), \A x \in DOMAIN f : f[x] \in Nat
  PROVE  SumFunction(f) = Cardinality(PairsIn(f, DOMAIN f))
<1> DEFINE S == DOMAIN f
           count == [s \in SUBSET S |-> Cardinality(PairsIn(f, s))]
           first(s) == CHOOSE x \in s : TRUE
<1>1. \A s \in SUBSET S : IsFiniteSet(s) /\ Cardinality(s) \in Nat
  BY FS_Subset, FS_CardinalityType
<1>2. ASSUME NEW s \in SUBSET S, s # {}
      PROVE  /\ first(s) \in s
             /\ count[s] = f[first(s)] + count[s \ {first(s)}]
  <2>1. PICK x : x = first(s) /\ x \in s
    BY <1>2
  <2>2. /\ IsFiniteSet({x}) /\ IsFiniteSet(s \ {x}) /\ s \ {x} \in SUBSET S
        /\ s = {x} \cup (s \ {x}) /\ {x} \cap (s \ {x}) = {}
    BY <1>1, <2>1, FS_Singleton
  <2>3. Cardinality(PairsIn(f, s)) = Cardinality(PairsIn(f, {x})) + Cardinality(PairsIn(f, s \ {x}))
    <3>1. \A y \in {x} \cup (s \ {x}) : f[y] \in Nat
      BY <2>1
    <3>2. Cardinality(PairsIn(f, {x} \cup (s \ {x})))
            = Cardinality(PairsIn(f, {x})) + Cardinality(PairsIn(f, s \ {x}))
      BY <2>2, <3>1, PairsAdd
    <3> QED BY <2>2, <3>2
  <2>4. Cardinality(PairsIn(f, {x})) = f[x]
    BY <2>1, PairsOfOne
  <2> QED BY <2>1, <2>2, <2>3, <2>4
<1>3. count[{}] = 0
  <2>1. PairsIn(f, {}) = {}
    BY DEF PairsIn
  <2> QED BY <2>1, FS_EmptySet
<1>4. Folded(f, S, count)
  <2>1. \A s \in SUBSET S :
          count[s] = IF s = {} THEN 0 ELSE f[first(s)] + count[s \ {first(s)}]
    BY <1>2, <1>3
  <2>2. count = [s \in SUBSET S |-> count[s]]
    OBVIOUS
  <2> HIDE DEF count
  <2> QED BY <2>1, <2>2 DEF Folded
<1>5. PICK h : h = CHOOSE g : Folded(f, S, g)
  OBVIOUS
<1>6. Folded(f, S, h)
  BY <1>4, <1>5
<1>7. /\ h[{}] = 0
      /\ \A s \in SUBSET S : s # {} => h[s] = f[first(s)] + h[s \ {first(s)}]
  <2> QED BY <1>6 DEF Folded
<1>8. ASSUME NEW s \in SUBSET S, s # {}, h[s \ {first(s)}] = count[s \ {first(s)}]
      PROVE  h[s] = count[s]
  <2> HIDE DEF count, first
  <2> QED BY <1>2, <1>7, <1>8
<1>9. h[S] = count[S]
  <2> HIDE DEF count
  <2> QED BY <1>3, <1>7, <1>8, SubsetsAgree
<1> QED BY <1>5, <1>9, FoldOfSum

LEMMA SumOf ==
  ASSUME NEW S, IsFiniteSet(S), NEW f, \A x \in S : f[x] \in Nat,
         NEW g, g = [x \in S |-> f[x]]
  PROVE  SumFunction(g) = Cardinality(PairsIn(f, S)) /\ SumFunction(g) \in Nat
<1>1. DOMAIN g = S /\ \A x \in S : g[x] = f[x]
  OBVIOUS
<1>2. PairsIn(g, S) = PairsIn(f, S)
  BY <1>1 DEF PairsIn
<1>3. SumFunction(g) = Cardinality(PairsIn(g, S))
  BY <1>1, SumIsCount
<1>4. Cardinality(PairsIn(f, S)) \in Nat
  BY PairsFinite
<1> QED BY <1>2, <1>3, <1>4

(* Prefix sums of F over 0 .. N - 1: they start at 0, grow by F[n], and every
   number below the last one lies in the share of one n. *)
Prefix(F, n) == SumFunction([d \in 0 .. n - 1 |-> F[d]])

LEMMA PrefixSums ==
  ASSUME NEW N \in Nat, NEW F, \A d \in 0 .. N - 1 : F[d] \in Nat
  PROVE  /\ Prefix(F, 0) = 0
         /\ \A n \in 0 .. N : Prefix(F, n) \in Nat
         /\ \A n \in 0 .. N - 1 : Prefix(F, n + 1) = Prefix(F, n) + F[n]
         /\ \A a, b \in 0 .. N : a <= b => Prefix(F, a) <= Prefix(F, b)
         /\ \A x \in Nat : x < Prefix(F, N) =>
              \E n \in 0 .. N - 1 : Prefix(F, n) <= x /\ x < Prefix(F, n + 1)
<1>1. ASSUME NEW n \in 0 .. N
      PROVE  /\ Prefix(F, n) = Cardinality(PairsIn(F, 0 .. n - 1)) /\ Prefix(F, n) \in Nat
             /\ IsFiniteSet(0 .. n - 1) /\ IsFiniteSet(PairsIn(F, 0 .. n - 1))
  <2>1. IsFiniteSet(0 .. n - 1) /\ \A d \in 0 .. n - 1 : F[d] \in Nat
    BY FS_Interval
  <2> QED BY <2>1, SumOf, PairsFinite DEF Prefix
<1>2. Prefix(F, 0) = 0
  <2>1. PairsIn(F, 0 .. 0 - 1) = {}
    BY DEF PairsIn
  <2> QED BY <1>1, <2>1, FS_EmptySet
<1>3. ASSUME NEW n \in 0 .. N - 1 PROVE Prefix(F, n + 1) = Prefix(F, n) + F[n]
  <2>1. PICK m : m = n + 1 /\ m \in 0 .. N /\ n \in 0 .. N
    OBVIOUS
  <2>2. PICK A, B : A = 0 .. n - 1 /\ B = {n}
    OBVIOUS
  <2>3. A \cup B = 0 .. m - 1 /\ A \cap B = {} /\ IsFiniteSet(A) /\ IsFiniteSet(B)
    <3>1. A \cup B = 0 .. m - 1 /\ A \cap B = {}
      BY <2>1, <2>2
    <3>2. IsFiniteSet(A)
      BY <1>1, <2>1, <2>2
    <3>3. IsFiniteSet(B)
      BY <2>2, FS_Singleton
    <3> QED BY <3>1, <3>2, <3>3
  <2>4. \A d \in A \cup B : F[d] \in Nat
    BY <2>1, <2>3
  <2>5. Cardinality(PairsIn(F, A \cup B)) = Cardinality(PairsIn(F, A)) + Cardinality(PairsIn(F, B))
    BY <2>3, <2>4, PairsAdd
  <2>6. Cardinality(PairsIn(F, B)) = F[n]
    BY <2>2, PairsOfOne
  <2> QED BY <1>1, <2>1, <2>2, <2>3, <2>5, <2>6
<1>4. ASSUME NEW a \in 0 .. N, NEW b \in 0 .. N, a <= b PROVE Prefix(F, a) <= Prefix(F, b)
  <2>1. PairsIn(F, 0 .. a - 1) \in SUBSET PairsIn(F, 0 .. b - 1)
    BY <1>4 DEF PairsIn
  <2>2. Cardinality(PairsIn(F, 0 .. a - 1)) <= Cardinality(PairsIn(F, 0 .. b - 1))
    BY <1>1, <2>1, FS_Subset
  <2> QED BY <1>1, <2>2
<1>5. ASSUME NEW x \in Nat, x < Prefix(F, N)
      PROVE  \E n \in 0 .. N - 1 : Prefix(F, n) <= x /\ x < Prefix(F, n + 1)
  <2> DEFINE Past == {n \in 0 .. N : x < Prefix(F, n)}
  <2>1. Past \in SUBSET Nat /\ Past # {}
    BY <1>5
  <2>2. PICK m \in Past : \A n \in Past : m <= n
    <3> HIDE DEF Past
    <3> QED BY <2>1, LeastElement
  <2>3. m # 0
    BY <1>2, <2>2
  <2>4. PICK n \in 0 .. N - 1 : m = n + 1
    BY <2>2, <2>3
  <2>5. n \notin Past
    BY <2>2, <2>4
  <2>6. Prefix(F, n) <= x
    BY <1>1, <2>4, <2>5
  <2> QED BY <2>2, <2>4, <2>6
<1> QED BY <1>1, <1>2, <1>3, <1>4, <1>5

(* A bijection between the indices of equal terms keeps what they count. *)
LEMMA CountsAgree ==
  ASSUME NEW A, NEW B, IsFiniteSet(A), NEW b \in [A -> B],
         \A y \in B : \E x \in A : b[x] = y,
         \A x, z \in A : b[x] = b[z] => x = z,
         NEW f, NEW g, \A x \in A : f[x] = g[b[x]] /\ f[x] \in Nat
  PROVE  Cardinality(PairsIn(f, A)) = Cardinality(PairsIn(g, B))
<1>1. PICK P, Q : P = PairsIn(f, A) /\ Q = PairsIn(g, B)
  OBVIOUS
<1>2. IsFiniteSet(P)
  BY <1>1, PairsFinite
<1>3. PICK c : c = [p \in P |-> <<b[p[1]], p[2]>>]
  OBVIOUS
<1>4. ASSUME NEW p \in P
      PROVE  /\ p[1] \in A /\ p[2] \in Nat /\ p[2] < f[p[1]] /\ p = <<p[1], p[2]>>
  BY <1>1 DEF PairsIn
<1>5. ASSUME NEW x \in A, NEW j \in Nat, j < f[x] PROVE <<x, j>> \in P
  BY <1>1, <1>5 DEF PairsIn
<1>6. ASSUME NEW p \in P PROVE c[p] \in Q /\ c[p] = <<b[p[1]], p[2]>>
  <2>1. p[1] \in A /\ p[2] \in Nat /\ p[2] < f[p[1]]
    BY <1>4
  <2>2. b[p[1]] \in B /\ p[2] < g[b[p[1]]]
    BY <2>1
  <2>3. <<b[p[1]], p[2]>> \in Q
    BY <1>1, <2>1, <2>2 DEF PairsIn
  <2> QED BY <1>3, <2>3
<1>7. ASSUME NEW q \in Q PROVE \E p \in P : c[p] = q
  <2>1. q[1] \in B /\ q[2] \in Nat /\ q[2] < g[q[1]] /\ q = <<q[1], q[2]>>
    BY <1>1 DEF PairsIn
  <2>2. PICK x \in A : b[x] = q[1]
    BY <2>1
  <2>3. <<x, q[2]>> \in P
    BY <1>5, <2>1, <2>2
  <2>4. c[<<x, q[2]>>] = q
    BY <1>3, <2>1, <2>2, <2>3
  <2> QED BY <2>3, <2>4
<1>8. ASSUME NEW p \in P, NEW r \in P, c[p] = c[r] PROVE p = r
  <2>1. b[p[1]] = b[r[1]] /\ p[2] = r[2]
    BY <1>6, <1>8
  <2>2. p[1] = r[1]
    BY <1>4, <2>1
  <2> QED BY <1>4, <2>1, <2>2
<1>9. c \in Surjection(P, Q)
  <2>1. c \in [P -> Q]
    BY <1>3, <1>6
  <2> QED BY <1>7, <2>1 DEF Surjection
<1>10. c \in Injection(P, Q)
  <2>1. c \in [P -> Q]
    BY <1>3, <1>6
  <2>2. IsInjective(c)
    BY <1>8, <2>1 DEF IsInjective
  <2> QED BY <2>1, <2>2 DEF Injection
<1>11. Cardinality(Q) = Cardinality(P)
  BY <1>2, <1>9, <1>10, FS_Surjection
<1> QED BY <1>1, <1>11

-----------------------------------------------------------------------------
(* A sum of integers: what its positive terms add less what the others take. *)
Gain(f) == [x \in DOMAIN f |-> IF f[x] > 0 THEN f[x] ELSE 0]
Loss(f) == [x \in DOMAIN f |-> IF f[x] < 0 THEN -f[x] ELSE 0]
Net(f, s) == Cardinality(PairsIn(Gain(f), s)) - Cardinality(PairsIn(Loss(f), s))
Summable(f) == IsFiniteSet(DOMAIN f) /\ \A x \in DOMAIN f : f[x] \in Int

(* A term is what it gains less what it loses. *)
LEMMA GainLoss ==
  ASSUME NEW f, Summable(f), NEW x \in DOMAIN f
  PROVE  Gain(f)[x] \in Nat /\ Loss(f)[x] \in Nat /\ Gain(f)[x] - Loss(f)[x] = f[x]
<1>1. PICK v \in Int : v = f[x]
  BY DEF Summable
<1>2. Gain(f)[x] = (IF v > 0 THEN v ELSE 0) /\ Loss(f)[x] = (IF v < 0 THEN -v ELSE 0)
  BY <1>1 DEF Gain, Loss
<1> QED BY <1>1, <1>2

(* Sums over disjoint sets add. *)
LEMMA NetAdds ==
  ASSUME NEW f, Summable(f), NEW A \in SUBSET DOMAIN f, NEW B \in SUBSET DOMAIN f, A \cap B = {}
  PROVE  /\ Net(f, A) \in Int /\ Net(f, B) \in Int
         /\ Net(f, A \cup B) = Net(f, A) + Net(f, B)
<1>1. IsFiniteSet(A) /\ IsFiniteSet(B) /\ IsFiniteSet(A \cup B)
  BY FS_Subset DEF Summable
<1>2. PICK G, L : G = Gain(f) /\ L = Loss(f)
  OBVIOUS
<1>3. \A x \in A \cup B : G[x] \in Nat /\ L[x] \in Nat
  BY <1>2, GainLoss
<1>4. /\ Cardinality(PairsIn(G, A)) \in Nat /\ Cardinality(PairsIn(G, B)) \in Nat
      /\ Cardinality(PairsIn(L, A)) \in Nat /\ Cardinality(PairsIn(L, B)) \in Nat
  BY <1>1, <1>3, PairsFinite
<1>5. Cardinality(PairsIn(G, A \cup B)) = Cardinality(PairsIn(G, A)) + Cardinality(PairsIn(G, B))
  BY <1>1, <1>3, PairsAdd
<1>6. Cardinality(PairsIn(L, A \cup B)) = Cardinality(PairsIn(L, A)) + Cardinality(PairsIn(L, B))
  BY <1>1, <1>3, PairsAdd
<1> QED BY <1>2, <1>4, <1>5, <1>6 DEF Net

(* The sum over one element is its term. *)
LEMMA NetOfOne ==
  ASSUME NEW f, Summable(f), NEW x \in DOMAIN f
  PROVE  Net(f, {x}) = f[x]
<1>1. PICK G, L : G = Gain(f) /\ L = Loss(f)
  OBVIOUS
<1>2. G[x] \in Nat /\ L[x] \in Nat /\ G[x] - L[x] = f[x]
  BY <1>1, GainLoss
<1>3. Cardinality(PairsIn(G, {x})) = G[x] /\ Cardinality(PairsIn(L, {x})) = L[x]
  BY <1>2, PairsOfOne
<1> QED BY <1>1, <1>2, <1>3 DEF Net

(* The sum over nothing is 0. *)
LEMMA NetOfNone ==
  ASSUME NEW f
  PROVE  Net(f, {}) = 0
<1>1. PairsIn(Gain(f), {}) = {} /\ PairsIn(Loss(f), {}) = {}
  BY DEF PairsIn
<1>2. Cardinality(PairsIn(Gain(f), {})) = 0 /\ Cardinality(PairsIn(Loss(f), {})) = 0
  BY <1>1, FS_EmptySet
<1> QED BY <1>2 DEF Net
=============================================================================
