--------------------------- MODULE PoolLayoutProofs --------------------------
(***************************************************************************)
(* For every routing: the metadata kernel lays the pool out without gaps   *)
(* or overlaps.  The runs of the substreams tile the slots of an expert's  *)
(* tokens, and the arrival target of a tile is how many of its slots a run *)
(* covers.                                                                 *)
(***************************************************************************)
EXTENDS PoolLayout, ChannelOpsProofs

(***************************************************************************)
(* The layout.                                                             *)
(***************************************************************************)
SeenType(seen) == \A cs \in Substreams, e \in Experts : seen[cs][e] \in Nat

LEMMA CeilTiles ==
  ASSUME NEW n \in Nat
  PROVE  /\ CeilDiv(n, tile_m) \in Nat
         /\ n <= CeilDiv(n, tile_m) * tile_m
         /\ CeilDiv(n, tile_m) * tile_m < n + tile_m
BY LayoutAssumption, CeilBounds

Frequencies(seen) == [e \in Experts |-> CeilDiv(ExpertFrequency(seen, e), tile_m)]
SeenOf(seen, e) == [cs \in Substreams |-> seen[cs][e]]

LEMMA FrequencyIsPrefix ==
  ASSUME NEW seen, SeenType(seen), NEW e \in Experts
  PROVE  /\ ExpertFrequency(seen, e) = Prefix(SeenOf(seen, e), NumSubstreams)
         /\ \A cs \in 0 .. NumSubstreams :
              BasePool(seen, cs, e) = BlockOffset(seen, e) * tile_m + Prefix(SeenOf(seen, e), cs)
         /\ \A cs \in Substreams : SeenOf(seen, e)[cs] \in Nat /\ SeenOf(seen, e)[cs] = seen[cs][e]
<1>1. NumSubstreams \in Nat
  BY LayoutAssumption
<1>2. ASSUME NEW cs \in 0 .. NumSubstreams
      PROVE  [d \in 0 .. cs - 1 |-> SeenOf(seen, e)[d]] = [d \in 0 .. cs - 1 |-> seen[d][e]]
  BY <1>1 DEF SeenOf, Substreams
<1>3. [d \in 0 .. NumSubstreams - 1 |-> SeenOf(seen, e)[d]] = [cs \in Substreams |-> seen[cs][e]]
  BY <1>1 DEF SeenOf, Substreams
<1> QED BY <1>2, <1>3 DEF ExpertFrequency, BasePool, Prefix, SeenOf, SeenType

LEMMA Frequency ==
  ASSUME NEW seen, SeenType(seen), NEW e \in Experts
  PROVE  ExpertFrequency(seen, e) \in Nat
<1>1. \A d \in 0 .. NumSubstreams - 1 : SeenOf(seen, e)[d] \in Nat
  BY FrequencyIsPrefix DEF Substreams
<1>2. NumSubstreams \in Nat /\ NumSubstreams \in 0 .. NumSubstreams
  BY LayoutAssumption
<1> QED BY <1>1, <1>2, FrequencyIsPrefix, PrefixSums

(* Experts own consecutive blocks, and the blocks are the tiles. *)
LEMMA Offsets ==
  ASSUME NEW seen, SeenType(seen)
  PROVE  /\ BlockOffset(seen, 0) = 0
         /\ \A e \in 0 .. NumExperts : BlockOffset(seen, e) \in Nat
         /\ \A e \in Experts :
              BlockOffset(seen, e + 1)
                = BlockOffset(seen, e) + CeilDiv(ExpertFrequency(seen, e), tile_m)
         /\ \A d, e \in 0 .. NumExperts : d <= e => BlockOffset(seen, d) <= BlockOffset(seen, e)
         /\ \A t \in 0 .. TotalTiles(seen) - 1 : \E e \in Experts :
              BlockOffset(seen, e) <= t /\ t < BlockOffset(seen, e + 1)
<1> DEFINE F == Frequencies(seen)
<1>1. NumExperts \in Nat /\ 0 \in 0 .. NumExperts /\ NumExperts \in 0 .. NumExperts
  BY LayoutAssumption
<1>2. \A d \in 0 .. NumExperts - 1 : F[d] \in Nat /\ F[d] = CeilDiv(ExpertFrequency(seen, d), tile_m)
  BY Frequency, CeilTiles DEF Frequencies, Experts
<1>3. ASSUME NEW e \in 0 .. NumExperts PROVE BlockOffset(seen, e) = Prefix(F, e)
  <2>1. [d \in 0 .. e - 1 |-> F[d]]
          = [d \in 0 .. e - 1 |-> CeilDiv(ExpertFrequency(seen, d), tile_m)]
    BY <1>1, <1>2
  <2> QED BY <2>1 DEF BlockOffset, Prefix
<1> HIDE DEF F
<1>4. /\ Prefix(F, 0) = 0
      /\ \A n \in 0 .. NumExperts : Prefix(F, n) \in Nat
      /\ \A n \in 0 .. NumExperts - 1 : Prefix(F, n + 1) = Prefix(F, n) + F[n]
      /\ \A a, b \in 0 .. NumExperts : a <= b => Prefix(F, a) <= Prefix(F, b)
      /\ \A x \in Nat : x < Prefix(F, NumExperts) =>
           \E n \in 0 .. NumExperts - 1 : Prefix(F, n) <= x /\ x < Prefix(F, n + 1)
  BY <1>1, <1>2, PrefixSums
<1>5. \A e \in Experts : e \in 0 .. NumExperts - 1 /\ e \in 0 .. NumExperts /\ e + 1 \in 0 .. NumExperts
  BY <1>1 DEF Experts
<1>6. \A e \in 0 .. NumExperts - 1 : e \in Experts
  BY DEF Experts
<1>7. ASSUME NEW t \in 0 .. TotalTiles(seen) - 1
      PROVE  \E e \in Experts : BlockOffset(seen, e) <= t /\ t < BlockOffset(seen, e + 1)
  <2>1. t \in Nat /\ t < Prefix(F, NumExperts)
    BY <1>1, <1>3, <1>4, <1>7 DEF TotalTiles
  <2> QED BY <1>3, <1>4, <1>5, <1>6, <2>1
<1> QED BY <1>1, <1>2, <1>3, <1>4, <1>5, <1>6, <1>7

(* The slots of substream cs for expert e, and the slots of all tokens of e. *)
Run(seen, cs, e) == BasePool(seen, cs, e) .. BasePool(seen, cs, e) + seen[cs][e] - 1
TokenSlots(seen, e) ==
  BlockOffset(seen, e) * tile_m .. BlockOffset(seen, e) * tile_m + ExpertFrequency(seen, e) - 1

(* The runs of an expert follow each other from its first slot on, and its
   tiles hold them all. *)
LEMMA RunBounds ==
  ASSUME NEW seen, SeenType(seen), NEW e \in Experts
  PROVE  /\ \A cs \in 0 .. NumSubstreams : BasePool(seen, cs, e) \in Nat
         /\ BasePool(seen, 0, e) = BlockOffset(seen, e) * tile_m
         /\ \A cs \in Substreams : BasePool(seen, cs + 1, e) = BasePool(seen, cs, e) + seen[cs][e]
         /\ \A c, d \in 0 .. NumSubstreams :
              c <= d => BasePool(seen, c, e) <= BasePool(seen, d, e)
         /\ BasePool(seen, NumSubstreams, e)
              = BlockOffset(seen, e) * tile_m + ExpertFrequency(seen, e)
         /\ \A x \in Nat : BasePool(seen, 0, e) <= x /\ x < BasePool(seen, NumSubstreams, e) =>
              \E cs \in Substreams : BasePool(seen, cs, e) <= x /\ x < BasePool(seen, cs + 1, e)
<1>1. PICK N \in Nat : N = NumSubstreams
  BY LayoutAssumption
<1>2. PICK F : F = SeenOf(seen, e)
  OBVIOUS
<1>3. PICK o \in Nat : o = BlockOffset(seen, e) * tile_m
  <2>1. BlockOffset(seen, e) \in Nat /\ tile_m \in Nat
    <3>1. e \in 0 .. NumExperts
      BY LayoutAssumption DEF Experts
    <3> QED BY <3>1, Offsets, LayoutAssumption
  <2> QED BY <2>1, Products
<1>4. \A d \in 0 .. N - 1 : F[d] \in Nat /\ F[d] = seen[d][e]
  BY <1>1, <1>2, FrequencyIsPrefix DEF Substreams
<1>5. /\ Prefix(F, 0) = 0
      /\ \A n \in 0 .. N : Prefix(F, n) \in Nat
      /\ \A n \in 0 .. N - 1 : Prefix(F, n + 1) = Prefix(F, n) + F[n]
      /\ \A a, b \in 0 .. N : a <= b => Prefix(F, a) <= Prefix(F, b)
      /\ \A x \in Nat : x < Prefix(F, N) =>
           \E n \in 0 .. N - 1 : Prefix(F, n) <= x /\ x < Prefix(F, n + 1)
  BY <1>4, PrefixSums
<1>6. /\ ExpertFrequency(seen, e) = Prefix(F, N)
      /\ \A cs \in 0 .. N : BasePool(seen, cs, e) = o + Prefix(F, cs)
  BY <1>1, <1>2, <1>3, FrequencyIsPrefix
<1>7. 0 \in 0 .. N /\ N \in 0 .. N /\ \A cs \in 0 .. N - 1 : cs \in 0 .. N /\ cs + 1 \in 0 .. N
  OBVIOUS
<1>8. ASSUME NEW x \in Nat, BasePool(seen, 0, e) <= x, x < BasePool(seen, N, e)
      PROVE  \E cs \in 0 .. N - 1 : BasePool(seen, cs, e) <= x /\ x < BasePool(seen, cs + 1, e)
  <2>1. x - o \in Nat /\ x - o < Prefix(F, N)
    BY <1>5, <1>6, <1>7, <1>8
  <2>2. PICK n \in 0 .. N - 1 : Prefix(F, n) <= x - o /\ x - o < Prefix(F, n + 1)
    BY <1>5, <2>1
  <2> QED BY <1>5, <1>6, <1>7, <2>2
<1>9. \A cs \in 0 .. N : BasePool(seen, cs, e) \in Nat
  BY <1>5, <1>6
<1>10. \A cs \in 0 .. N - 1 : BasePool(seen, cs + 1, e) = BasePool(seen, cs, e) + seen[cs][e]
  BY <1>4, <1>5, <1>6, <1>7
<1>11. \A c, d \in 0 .. N : c <= d => BasePool(seen, c, e) <= BasePool(seen, d, e)
  BY <1>5, <1>6
<1>12. BasePool(seen, 0, e) = o /\ BasePool(seen, N, e) = o + ExpertFrequency(seen, e)
  BY <1>5, <1>6, <1>7
<1> QED BY <1>1, <1>3, <1>8, <1>9, <1>10, <1>11, <1>12 DEF Substreams

(* The tiles of an expert hold the slots of its tokens and nobody else's. *)
LEMMA ExpertTiles ==
  ASSUME NEW seen, SeenType(seen), NEW e \in Experts
  PROVE  /\ TokenSlots(seen, e) \subseteq
              BlockOffset(seen, e) * tile_m .. BlockOffset(seen, e + 1) * tile_m - 1
         /\ BlockOffset(seen, e) * tile_m \in Nat /\ BlockOffset(seen, e + 1) * tile_m \in Nat
         /\ BlockOffset(seen, e + 1) * tile_m <= TotalTiles(seen) * tile_m
         /\ BlockOffset(seen, e + 1) * tile_m
              < BlockOffset(seen, e) * tile_m + ExpertFrequency(seen, e) + tile_m
         /\ \A d \in Experts : d < e =>
              BlockOffset(seen, d + 1) * tile_m <= BlockOffset(seen, e) * tile_m
<1>1. PICK m \in Nat : m = tile_m
  BY LayoutAssumption
<1>2. /\ NumExperts \in Nat /\ e \in 0 .. NumExperts /\ e + 1 \in 0 .. NumExperts
      /\ NumExperts \in 0 .. NumExperts
      /\ \A d \in Experts : d + 1 \in 0 .. NumExperts /\ (d < e => d + 1 <= e)
  BY LayoutAssumption DEF Experts
<1>3. PICK a \in Nat : a = BlockOffset(seen, e)
  BY <1>2, Offsets
<1>4. PICK b \in Nat : b = BlockOffset(seen, e + 1)
  BY <1>2, Offsets
<1>5. PICK n \in Nat : n = ExpertFrequency(seen, e)
  BY Frequency
<1>6. PICK c \in Nat : c = CeilDiv(n, m)
  BY <1>1, <1>5, CeilTiles
<1>7. n <= c * m /\ c * m < n + m
  BY <1>1, <1>5, <1>6, CeilTiles
<1>8. b = a + c
  BY <1>1, <1>3, <1>4, <1>5, <1>6, Offsets
<1>9. b * m = a * m + c * m /\ a * m \in Nat /\ b * m \in Nat /\ c * m \in Nat
  BY <1>8
<1>10. b * m <= TotalTiles(seen) * m
  <2>1. b <= TotalTiles(seen) /\ TotalTiles(seen) \in Nat
    BY <1>2, <1>4, Offsets DEF TotalTiles
  <2> QED BY <2>1, Products
<1>11. ASSUME NEW d \in Experts, d < e PROVE BlockOffset(seen, d + 1) * m <= a * m
  <2>1. BlockOffset(seen, d + 1) \in Nat /\ BlockOffset(seen, d + 1) <= a
    BY <1>2, <1>3, <1>11, Offsets
  <2> QED BY <2>1, Products
<1>12. TokenSlots(seen, e) = a * m .. a * m + n - 1
  BY <1>1, <1>3, <1>5 DEF TokenSlots
<1>13. (a * m .. a * m + n - 1) \subseteq (a * m .. b * m - 1)
  BY <1>7, <1>9
<1>14. b * m < a * m + n + m
  BY <1>7, <1>9
<1> HIDE DEF TokenSlots
<1> QED BY <1>1, <1>3, <1>4, <1>5, <1>9, <1>10, <1>11, <1>12, <1>13, <1>14

LEMMA RunInTokens ==
  ASSUME NEW seen, SeenType(seen), NEW e \in Experts, NEW cs \in Substreams
  PROVE  Run(seen, cs, e) \subseteq TokenSlots(seen, e)
<1>1. PICK N \in Nat : N = NumSubstreams
  BY LayoutAssumption
<1>2. cs \in 0 .. N /\ cs + 1 \in 0 .. N /\ 0 \in 0 .. N /\ N \in 0 .. N /\ 0 <= cs /\ cs + 1 <= N
  BY <1>1 DEF Substreams
<1>3. PICK o \in Nat : o = BlockOffset(seen, e) * tile_m
  BY ExpertTiles
<1>4. PICK a \in Nat, b \in Nat, n \in Nat :
        /\ a = BasePool(seen, cs, e) /\ b = BasePool(seen, cs + 1, e)
        /\ n = seen[cs][e]
  BY <1>1, <1>2, RunBounds DEF SeenType
<1>5. o <= a /\ b = a + n /\ b <= o + ExpertFrequency(seen, e) /\ ExpertFrequency(seen, e) \in Nat
  <2>1. BasePool(seen, 0, e) <= a /\ b <= BasePool(seen, N, e)
    BY <1>1, <1>2, <1>4, RunBounds
  <2>2. b = a + n
    BY <1>4, RunBounds
  <2>3. BasePool(seen, 0, e) = o /\ BasePool(seen, N, e) = o + ExpertFrequency(seen, e)
    BY <1>1, <1>3, RunBounds
  <2> QED BY <2>1, <2>2, <2>3, Frequency
<1>6. Run(seen, cs, e) = a .. a + n - 1
      /\ TokenSlots(seen, e) = o .. o + ExpertFrequency(seen, e) - 1
  BY <1>3, <1>4 DEF Run, TokenSlots
<1> QED BY <1>5, <1>6

(* No slot belongs to two substreams or to two experts. *)
LEMMA RunsDisjoint ==
  ASSUME NEW seen, SeenType(seen),
         NEW c \in Substreams, NEW d \in Substreams, NEW e \in Experts, NEW f \in Experts,
         NEW x, x \in Run(seen, c, e), x \in Run(seen, d, f)
  PROVE  c = d /\ e = f
<1>1. x \in TokenSlots(seen, e) /\ x \in TokenSlots(seen, f)
  BY RunInTokens
<1>2. ~(e < f) /\ ~(f < e)
  <2>1. PICK e0, e1, f0, f1 \in Nat :
          /\ e0 = BlockOffset(seen, e) * tile_m /\ e1 = BlockOffset(seen, e + 1) * tile_m
          /\ f0 = BlockOffset(seen, f) * tile_m /\ f1 = BlockOffset(seen, f + 1) * tile_m
    BY ExpertTiles
  <2>2. x \in e0 .. e1 - 1 /\ x \in f0 .. f1 - 1
    BY <1>1, <2>1, ExpertTiles
  <2>3. (e < f => e1 <= f0) /\ (f < e => f1 <= e0)
    BY <2>1, ExpertTiles
  <2> QED BY <2>2, <2>3
<1>3. e = f
  BY <1>2 DEF Experts
<1>4. ~(c < d) /\ ~(d < c)
  <2>1. PICK c0, c1, d0, d1 \in Nat :
          /\ c0 = BasePool(seen, c, e) /\ c1 = BasePool(seen, c + 1, e)
          /\ d0 = BasePool(seen, d, e) /\ d1 = BasePool(seen, d + 1, e)
    <3>1. \A z \in Substreams : z \in 0 .. NumSubstreams /\ z + 1 \in 0 .. NumSubstreams
      BY LayoutAssumption DEF Substreams
    <3> QED BY <3>1, RunBounds
  <2>2. c1 = c0 + seen[c][e] /\ d1 = d0 + seen[d][e] /\ seen[c][e] \in Nat /\ seen[d][e] \in Nat
    BY <2>1, RunBounds DEF SeenType
  <2>3. x \in c0 .. c1 - 1 /\ x \in d0 .. d1 - 1
    BY <1>3, <2>1, <2>2 DEF Run
  <2>4. (c < d => c1 <= d0) /\ (d < c => d1 <= c0)
    <3>1. /\ c \in 0 .. NumSubstreams /\ c + 1 \in 0 .. NumSubstreams
          /\ d \in 0 .. NumSubstreams /\ d + 1 \in 0 .. NumSubstreams
          /\ (c < d => c + 1 <= d) /\ (d < c => d + 1 <= c)
      BY LayoutAssumption DEF Substreams
    <3> QED BY <2>1, <3>1, RunBounds
  <2> QED BY <2>3, <2>4
<1>5. c = d
  BY <1>4 DEF Substreams
<1> QED BY <1>3, <1>5

(* Every slot of an expert's tokens belongs to a substream. *)
LEMMA RunsCover ==
  ASSUME NEW seen, SeenType(seen), NEW e \in Experts, NEW x \in TokenSlots(seen, e)
  PROVE  \E cs \in Substreams : x \in Run(seen, cs, e)
<1>1. NumSubstreams \in 0 .. NumSubstreams /\ NumSubstreams \in Nat
  BY LayoutAssumption
<1>2. PICK o \in Nat : o = BlockOffset(seen, e) * tile_m
  BY ExpertTiles
<1>3. /\ x \in Nat /\ BasePool(seen, 0, e) <= x /\ x < BasePool(seen, NumSubstreams, e)
  <2>1. /\ BasePool(seen, 0, e) = o /\ ExpertFrequency(seen, e) \in Nat
        /\ BasePool(seen, NumSubstreams, e) = o + ExpertFrequency(seen, e)
    BY <1>2, RunBounds, Frequency
  <2>2. x \in o .. o + ExpertFrequency(seen, e) - 1
    BY <1>2 DEF TokenSlots
  <2> QED BY <2>1, <2>2
<1>4. PICK cs \in Substreams : BasePool(seen, cs, e) <= x /\ x < BasePool(seen, cs + 1, e)
  BY <1>3, RunBounds
<1>5. PICK a, b, n \in Nat :
        a = BasePool(seen, cs, e) /\ b = BasePool(seen, cs + 1, e) /\ n = seen[cs][e] /\ b = a + n
  <2>1. cs \in 0 .. NumSubstreams /\ cs + 1 \in 0 .. NumSubstreams
    BY LayoutAssumption DEF Substreams
  <2> QED BY <2>1, RunBounds DEF SeenType
<1>6. x \in Run(seen, cs, e)
  BY <1>3, <1>4, <1>5 DEF Run
<1> QED BY <1>6

(* The blocks find the expert of a tile. *)
LEMMA ExpertOfTile ==
  ASSUME NEW seen, SeenType(seen), NEW t \in 0 .. TotalTiles(seen) - 1
  PROVE  /\ TileExpert(seen, t) \in Experts
         /\ BlockOffset(seen, TileExpert(seen, t)) <= t
         /\ t < BlockOffset(seen, TileExpert(seen, t) + 1)
<1>1. PICK e \in Experts : BlockOffset(seen, e) <= t /\ t < BlockOffset(seen, e + 1)
  BY Offsets
<1> DEFINE Past == {d \in Experts : t < BlockOffset(seen, d + 1)}
<1>2. PICK g : g = TileExpert(seen, t)
  OBVIOUS
<1>3. g = CHOOSE d \in Past : \A z \in Past : d <= z
  BY <1>2 DEF TileExpert, Min
<1>4. e \in Past /\ \A d \in Past : e <= d
  <2>1. ASSUME NEW d \in Past PROVE e <= d
    <3>1. ~(d < e)
      <4>1. SUFFICES ASSUME d < e PROVE FALSE
        OBVIOUS
      <4>2. d + 1 \in 0 .. NumExperts /\ e \in 0 .. NumExperts /\ d + 1 <= e
        BY <4>1, LayoutAssumption DEF Experts
      <4>3. PICK p, q \in Nat : p = BlockOffset(seen, d + 1) /\ q = BlockOffset(seen, e)
        BY <4>2, Offsets
      <4>4. p <= q
        BY <4>2, <4>3, Offsets
      <4>5. t < p /\ q <= t /\ t \in Int
        BY <1>1, <4>3
      <4> QED BY <4>4, <4>5
    <3> QED BY <3>1 DEF Experts
  <2> QED BY <1>1, <2>1
<1>5. g \in Past /\ \A d \in Past : g <= d
  BY <1>3, <1>4
<1>6. g = e
  BY <1>4, <1>5 DEF Experts
<1> QED BY <1>1, <1>2, <1>6

(* The slots of tile t that the layout gives to tokens. *)
Covered(seen, t) ==
  {x \in t * tile_m .. (t + 1) * tile_m - 1 : \E cs \in Substreams, e \in Experts :
     x \in Run(seen, cs, e)}

LEMMA TileSlots ==
  ASSUME NEW t \in Nat, NEW u \in Nat
  PROVE  /\ t * tile_m \in Nat /\ (t + 1) * tile_m = t * tile_m + tile_m
         /\ t <= u => t * tile_m <= u * tile_m
         /\ t < u => (t + 1) * tile_m <= u * tile_m
<1>1. PICK m \in Nat : m = tile_m
  BY LayoutAssumption
<1>2. t * m \in Nat /\ (t + 1) * m = t * m + m /\ (t <= u => t * m <= u * m)
  OBVIOUS
<1>3. t < u => (t + 1) * m <= u * m
  OBVIOUS
<1> QED BY <1>1, <1>2, <1>3

(* The arrival target of a tile is the number of its slots that the runs of
   the substreams cover: what the announcements of the receivers add up to. *)
THEOREM TargetIsCovered ==
  ASSUME NEW seen, SeenType(seen), NEW t \in 0 .. TotalTiles(seen) - 1
  PROVE  /\ IsFiniteSet(Covered(seen, t))
         /\ Cardinality(Covered(seen, t)) = ArrivalTarget(seen, t)
         /\ ArrivalTarget(seen, t) \in 1 .. tile_m
<1>1. PICK m \in Nat \ {0} : m = tile_m
  BY LayoutAssumption
<1>2. PICK e \in Experts : e = TileExpert(seen, t)
  BY ExpertOfTile
<1>3. PICK a, b \in Nat : a = BlockOffset(seen, e) /\ b = BlockOffset(seen, e + 1)
  <2>1. e \in 0 .. NumExperts /\ e + 1 \in 0 .. NumExperts
    BY LayoutAssumption DEF Experts
  <2> QED BY <2>1, Offsets
<1>4. a <= t /\ t < b /\ t \in Nat
  BY <1>2, <1>3, ExpertOfTile
<1>5. PICK n \in Nat : n = ExpertFrequency(seen, e)
  BY Frequency
<1>6. PICK am, bm, tm \in Nat : am = a * m /\ bm = b * m /\ tm = t * m
  BY <1>4
<1>7. am + n <= bm /\ bm < am + n + m
  <2>1. TokenSlots(seen, e) = am .. am + n - 1
    BY <1>1, <1>3, <1>5, <1>6 DEF TokenSlots
  <2>2. bm < am + n + m /\ (am .. am + n - 1) \subseteq (am .. bm - 1)
    BY <1>1, <1>3, <1>5, <1>6, <2>1, ExpertTiles
  <2>3. am <= bm
    BY <1>3, <1>4, <1>6, Products
  <2>4. n # 0 => am + n - 1 \in am .. am + n - 1
    OBVIOUS
  <2>5. n # 0 => am + n - 1 \in am .. bm - 1
    BY <2>2, <2>4
  <2> QED BY <2>2, <2>3, <2>5
<1>8. (t + 1) * m = tm + m
  BY <1>4, <1>6
<1>9. am <= tm /\ tm + m <= bm /\ (t # b - 1 => tm + m + m <= bm) /\ (t = b - 1 => bm = tm + m)
  <2>1. am <= tm /\ tm + m <= bm
    BY <1>1, <1>3, <1>4, <1>6, <1>8, TileSlots
  <2>2. t = b - 1 => bm = tm + m
    <3>1. t = b - 1 => b = t + 1
      BY <1>3, <1>4
    <3> QED BY <1>6, <1>8, <3>1
  <2>3. t # b - 1 => tm + m + m <= bm
    <3>1. t # b - 1 => t + 1 < b
      BY <1>3, <1>4
    <3>2. PICK u \in Nat : u = t + 1
      BY <1>4
    <3>3. u < b => (u + 1) * tile_m <= b * tile_m
      BY TileSlots
    <3>4. (u + 1) * m = u * m + m
      OBVIOUS
    <3> QED BY <1>1, <1>6, <1>8, <3>1, <3>2, <3>3, <3>4
  <2> QED BY <2>1, <2>2, <2>3
<1>10. (t - a) * m = tm - am
  <2>1. t - a \in Nat /\ t = (t - a) + a
    BY <1>4
  <2>2. ((t - a) + a) * m = (t - a) * m + a * m /\ (t - a) * m \in Nat
    BY <2>1, Products
  <2> QED BY <1>6, <2>1, <2>2
<1>11. PICK target : target = ArrivalTarget(seen, t)
  OBVIOUS
<1>12. target = IF t = b - 1 THEN n - (tm - am) ELSE m
  BY <1>1, <1>2, <1>3, <1>5, <1>10, <1>11 DEF ArrivalTarget
<1>13. target \in 1 .. m
  BY <1>7, <1>9, <1>12
<1>14. Covered(seen, t) = tm .. tm + target - 1
  <2>1. ASSUME NEW x \in tm .. tm + m - 1
        PROVE  (\E cs \in Substreams, f \in Experts : x \in Run(seen, cs, f)) <=> x < am + n
    <3>1. ASSUME x < am + n PROVE \E cs \in Substreams : x \in Run(seen, cs, e)
      <4>1. x \in am .. am + n - 1
        BY <1>9, <2>1, <3>1
      <4>2. x \in TokenSlots(seen, e)
        BY <1>1, <1>3, <1>5, <1>6, <4>1 DEF TokenSlots
      <4> QED BY <4>2, RunsCover
    <3>2. ASSUME NEW cs \in Substreams, NEW f \in Experts, x \in Run(seen, cs, f)
          PROVE  x < am + n
      <4>1. x \in TokenSlots(seen, f)
        BY <3>2, RunInTokens
      <4>2. f = e
        <5>1. PICK f0, f1 \in Nat :
                f0 = BlockOffset(seen, f) * tile_m /\ f1 = BlockOffset(seen, f + 1) * tile_m
          BY ExpertTiles
        <5>2. x \in f0 .. f1 - 1
          BY <4>1, <5>1, ExpertTiles
        <5>3. (e < f => bm <= f0) /\ (f < e => f1 <= am)
          BY <1>1, <1>3, <1>6, <5>1, ExpertTiles
        <5>4. ~(e < f) /\ ~(f < e)
          BY <1>9, <2>1, <5>2, <5>3
        <5> QED BY <5>4 DEF Experts
      <4>3. x \in am .. am + n - 1
        BY <1>1, <1>3, <1>5, <1>6, <4>1, <4>2 DEF TokenSlots
      <4> QED BY <4>3
    <3> QED BY <3>1, <3>2
  <2>2. Covered(seen, t) = {x \in tm .. tm + m - 1 : x < am + n}
    BY <1>1, <1>6, <1>8, <2>1 DEF Covered
  <2>3. \A x \in tm .. tm + m - 1 : x < am + n <=> x < tm + target
    BY <1>7, <1>9, <1>12
  <2>4. target \in Int /\ target <= m
    BY <1>13
  <2> QED BY <2>2, <2>3, <2>4
<1>15. IsFiniteSet(tm .. tm + target - 1) /\ Cardinality(tm .. tm + target - 1) = target
  <2>1. tm + target - 1 \in Int /\ tm \in Int /\ target \in Int /\ tm <= tm + target - 1
    BY <1>13
  <2>2. PICK z \in Int : z = tm + target - 1
    BY <2>1
  <2>3. IsFiniteSet(tm .. z) /\ Cardinality(tm .. z) = z - tm + 1
    BY <2>1, <2>2, FS_Interval
  <2> QED BY <2>1, <2>2, <2>3
<1> QED BY <1>1, <1>11, <1>13, <1>14, <1>15

(* The tiles of the experts are all there is. *)
LEMMA RunInTiles ==
  ASSUME NEW seen, SeenType(seen), NEW e \in Experts, NEW cs \in Substreams
  PROVE  Run(seen, cs, e) \subseteq 0 .. TotalTiles(seen) * tile_m - 1
<1>1. PICK e0, e1, z \in Nat :
        /\ e0 = BlockOffset(seen, e) * tile_m /\ e1 = BlockOffset(seen, e + 1) * tile_m
        /\ z = TotalTiles(seen) * tile_m
  <2>1. TotalTiles(seen) \in Nat /\ tile_m \in Nat
    BY LayoutAssumption, Offsets DEF TotalTiles
  <2> QED BY <2>1, Products, ExpertTiles
<1>2. e1 <= z /\ TokenSlots(seen, e) \subseteq e0 .. e1 - 1
  BY <1>1, ExpertTiles
<1>3. (e0 .. e1 - 1) \subseteq (0 .. z - 1)
  BY <1>2
<1> QED BY <1>1, <1>2, <1>3, RunInTokens
=============================================================================
