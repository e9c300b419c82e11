--------------------------- MODULE PoolStreamProofs --------------------------
(***************************************************************************)
(* For every routing, tile size, number of substreams, CTAs and stripes,   *)
(* and for every interleaving of receivers and compute: slots are the      *)
(* arrival ranks of the (token, k) pairs whatever the batches, an arrival  *)
(* count never passes its target, and a tile whose count has met it is     *)
(* filled; the tickets of a tile are its finished stripes and the CTAs at  *)
(* work, one of which counts its rows down; a row's count is the number of *)
(* its slots still to be counted down.  If no stripe lies past the edge,   *)
(* the whole implements ExpertStage.                                       *)
(***************************************************************************)
EXTENDS PoolStream, PoolLayoutProofs

(***************************************************************************)
(* What a routing determines: the row of a token, the slot of a pair.      *)
(***************************************************************************)
Lengths(a) == [cs \in Substreams |-> Len(a[cs])]
NumRows(a) == SumFunction(Lengths(a))
Row(a, cs, i) == FirstRow(a, cs) + i - 1

(* The tokens of substream cs for expert e. *)
For(a, cs, e) == {i \in 1 .. Len(a[cs]) : \E k \in K : a[cs][i][k] = e}

SlotOf(a, cs, i, k) ==
  IF a[cs][i][k] = -1 THEN -1
  ELSE BasePool(SeenIn(a), cs, a[cs][i][k]) + SelectedIn(For(a, cs, a[cs][i][k]), 1, i)
SlotsOfRow(a, cs, i) == [k \in K |-> SlotOf(a, cs, i, k)]

LEMMA Routing ==
  ASSUME NEW a \in Arrivals
  PROVE  /\ \A cs \in Substreams : Len(a[cs]) \in Nat
         /\ \A cs \in Substreams : \A i \in 1 .. Len(a[cs]) : a[cs][i] \in Token
         /\ \A cs \in Substreams : \A i \in 1 .. Len(a[cs]), k \in K :
              a[cs][i][k] \in Experts \cup {-1}
         /\ \A cs \in Substreams : \A i \in 1 .. Len(a[cs]), j, k \in K :
              a[cs][i][j] # -1 /\ a[cs][i][j] = a[cs][i][k] => j = k
         /\ -1 \notin Experts /\ \A e \in Experts : e # -1
<1>1. a \in [Substreams -> Seq(Token)]
  BY StreamAssumption
<1>2. \A cs \in Substreams : a[cs] \in Seq(Token)
  BY <1>1
<1>3. ASSUME NEW cs \in Substreams
      PROVE  Len(a[cs]) \in Nat /\ \A i \in 1 .. Len(a[cs]) : a[cs][i] \in Token
  BY <1>2
<1>4. ASSUME NEW cs \in Substreams, NEW i \in 1 .. Len(a[cs]), NEW k \in K
      PROVE  a[cs][i][k] \in Experts \cup {-1}
  BY <1>3 DEF Token
<1>5. ASSUME NEW cs \in Substreams, NEW i \in 1 .. Len(a[cs]), NEW j \in K, NEW k \in K,
             a[cs][i][j] # -1, a[cs][i][j] = a[cs][i][k]
      PROVE  j = k
  BY <1>5, StreamAssumption
<1>6. -1 \notin Experts
  BY DEF Experts
<1> QED BY <1>3, <1>4, <1>5, <1>6

LEMMA ForType ==
  ASSUME NEW a \in Arrivals, NEW cs \in Substreams, NEW e
  PROVE  /\ For(a, cs, e) \in SUBSET Nat /\ For(a, cs, e) \in SUBSET (1 .. Len(a[cs]))
         /\ IsFiniteSet(For(a, cs, e))
<1>1. Len(a[cs]) \in Nat
  BY Routing
<1>2. For(a, cs, e) \in SUBSET (1 .. Len(a[cs]))
  BY DEF For
<1>3. IsFiniteSet(1 .. Len(a[cs]))
  BY <1>1, FS_Interval
<1>4. IsFiniteSet(For(a, cs, e))
  BY <1>2, <1>3, FS_Subset
<1>5. For(a, cs, e) \in SUBSET Nat
  BY <1>1, <1>2
<1> QED BY <1>2, <1>4, <1>5

(* A substream's count for an expert is that of its tokens. *)
LEMMA SeenCounts ==
  ASSUME NEW a \in Arrivals
  PROVE  /\ SeenType(SeenIn(a))
         /\ \A cs \in Substreams, e \in Experts :
              SeenIn(a)[cs][e] = SelectedIn(For(a, cs, e), 1, Len(a[cs]) + 1)
<1>1. ASSUME NEW cs \in Substreams, NEW e \in Experts
      PROVE  /\ SeenIn(a)[cs][e] = SelectedIn(For(a, cs, e), 1, Len(a[cs]) + 1)
             /\ SeenIn(a)[cs][e] \in Nat
  <2>1. Len(a[cs]) \in Nat
    BY Routing
  <2>2. {t \in For(a, cs, e) : 1 <= t /\ t < Len(a[cs]) + 1} = For(a, cs, e)
    BY <2>1, ForType
  <2>3. SeenIn(a)[cs][e] = Cardinality(For(a, cs, e))
    BY DEF SeenIn, For
  <2>4. Cardinality(For(a, cs, e)) \in Nat
    BY ForType, FS_CardinalityType
  <2> QED BY <2>2, <2>3, <2>4 DEF SelectedIn
<1> QED BY <1>1 DEF SeenType

(* Every pair gets a slot of the run of its substream and expert, *)
LEMMA SlotInRun ==
  ASSUME NEW a \in Arrivals, NEW cs \in Substreams, NEW i \in 1 .. Len(a[cs]), NEW k \in K,
         a[cs][i][k] # -1
  PROVE  /\ a[cs][i][k] \in Experts
         /\ SlotOf(a, cs, i, k) \in Run(SeenIn(a), cs, a[cs][i][k])
         /\ SlotOf(a, cs, i, k) \in Nat /\ SlotOf(a, cs, i, k) # -1
         /\ SlotOf(a, cs, i, k) \in 0 .. TotalTiles(SeenIn(a)) * tile_m - 1
         /\ i \in For(a, cs, a[cs][i][k])
<1>1. PICK e \in Experts : e = a[cs][i][k]
  BY Routing
<1>2. PICK M \in SUBSET Nat : M = For(a, cs, e)
  BY ForType
<1>3. PICK n \in Nat : n = Len(a[cs])
  BY Routing
<1>4. i \in M
  BY <1>1, <1>2 DEF For
<1>5. PICK p \in Nat : p = SelectedIn(M, 1, i)
  <2>1. 1 \in Nat /\ i \in Nat
    OBVIOUS
  <2>2. SelectedIn(M, 1, i) \in Nat
    BY <2>1, SelectedType
  <2> QED BY <2>2
<1>6. PICK q \in Nat : q = SelectedIn(M, 1, n + 1)
  <2>1. 1 \in Nat /\ n + 1 \in Nat
    BY <1>3
  <2>2. SelectedIn(M, 1, n + 1) \in Nat
    BY <2>1, SelectedType
  <2> QED BY <2>2
<1>7. p < q
  <2>1. 1 \in Nat /\ i \in Nat /\ n + 1 \in Nat /\ 1 <= i /\ i < n + 1 /\ i <= n + 1
    BY <1>3
  <2> QED BY <1>4, <1>5, <1>6, <2>1, SelectedMonotone
<1>8. SeenType(SeenIn(a)) /\ SeenIn(a)[cs][e] = q
  BY <1>2, <1>3, <1>6, SeenCounts
<1>9. PICK b \in Nat : b = BasePool(SeenIn(a), cs, e)
  <2>1. cs \in 0 .. NumSubstreams
    BY LayoutAssumption DEF Substreams
  <2> QED BY <1>8, <2>1, RunBounds
<1>10. SlotOf(a, cs, i, k) = b + p
  <2>1. e # -1
    BY Routing
  <2> QED BY <1>1, <1>2, <1>5, <1>9, <2>1 DEF SlotOf
<1>11. Run(SeenIn(a), cs, e) = b .. b + q - 1
  BY <1>8, <1>9 DEF Run
<1>12. b + p \in Run(SeenIn(a), cs, e) /\ b + p \in Nat
  BY <1>7, <1>11
<1>13. b + p \in 0 .. TotalTiles(SeenIn(a)) * tile_m - 1
  BY <1>8, <1>12, RunInTiles
<1>14. b + p # -1
  BY <1>12
<1> QED BY <1>1, <1>2, <1>4, <1>10, <1>12, <1>13, <1>14

(* no two pairs the same one, *)
LEMMA SlotsDiffer ==
  ASSUME NEW a \in Arrivals,
         NEW c \in Substreams, NEW i \in 1 .. Len(a[c]), NEW j \in K,
         NEW d \in Substreams, NEW l \in 1 .. Len(a[d]), NEW k \in K,
         a[c][i][j] # -1, a[d][l][k] # -1, SlotOf(a, c, i, j) = SlotOf(a, d, l, k)
  PROVE  c = d /\ i = l /\ j = k
<1>1. c = d /\ a[c][i][j] = a[d][l][k]
  BY SlotInRun, SeenCounts, RunsDisjoint
<1>2. PICK e \in Experts : e = a[c][i][j] /\ e = a[c][l][k]
  BY <1>1, SlotInRun
<1>3. PICK M \in SUBSET Nat : M = For(a, c, e)
  BY ForType
<1>4. i \in M /\ l \in M /\ i \in Nat /\ l \in Nat /\ 1 <= i /\ 1 <= l
  <2>1. Len(a[c]) \in Nat
    BY Routing
  <2> QED BY <1>1, <1>2, <1>3, <2>1, SlotInRun
<1>5. PICK p \in Nat, q \in Nat : p = SelectedIn(M, 1, i) /\ q = SelectedIn(M, 1, l)
  BY <1>4, SelectedType
<1>6. PICK b \in Nat : b = BasePool(SeenIn(a), c, e)
  <2>1. c \in 0 .. NumSubstreams
    BY LayoutAssumption DEF Substreams
  <2> QED BY <2>1, SeenCounts, RunBounds
<1>7. SlotOf(a, c, i, j) = b + p /\ SlotOf(a, c, l, k) = b + q
  <2>1. e # -1
    BY Routing
  <2> QED BY <1>2, <1>3, <1>5, <1>6, <2>1 DEF SlotOf
<1>8. p = q
  BY <1>1, <1>7
<1>9. i = l
  BY <1>4, <1>5, <1>8, SelectedInjective
<1>10. j = k
  BY <1>1, <1>9, Routing
<1> QED BY <1>1, <1>9, <1>10

(* and no slot of a run is left over. *)
LEMMA RunIsSlots ==
  ASSUME NEW a \in Arrivals, NEW cs \in Substreams, NEW e \in Experts,
         NEW x \in Run(SeenIn(a), cs, e)
  PROVE  \E i \in 1 .. Len(a[cs]), k \in K : a[cs][i][k] = e /\ SlotOf(a, cs, i, k) = x
<1>1. PICK M \in SUBSET Nat : M = For(a, cs, e)
  BY ForType
<1>2. PICK n \in Nat : n = Len(a[cs])
  BY Routing
<1>3. PICK b \in Nat : b = BasePool(SeenIn(a), cs, e)
  <2>1. cs \in 0 .. NumSubstreams
    BY LayoutAssumption DEF Substreams
  <2> QED BY <2>1, SeenCounts, RunBounds
<1>4. PICK q \in Nat : q = SelectedIn(M, 1, n + 1)
  <2>1. 1 \in Nat /\ n + 1 \in Nat
    OBVIOUS
  <2>2. SelectedIn(M, 1, n + 1) \in Nat
    BY <2>1, SelectedType
  <2> QED BY <2>2
<1>5. SeenIn(a)[cs][e] = q
  BY <1>1, <1>2, <1>4, SeenCounts
<1>6. x \in b .. b + q - 1
  BY <1>3, <1>5 DEF Run
<1>7. PICK p \in Nat : p = x - b /\ p < q /\ x = b + p
  BY <1>6
<1>8. PICK i \in M : SelectedIn(M, 1, i) = p
  <2>1. 1 \in Nat /\ n + 1 \in Nat /\ 1 <= n + 1
    OBVIOUS
  <2> QED BY <1>4, <1>7, <2>1, SelectedAt
<1>9. i \in 1 .. Len(a[cs])
  BY <1>1, ForType
<1>10. PICK k \in K : a[cs][i][k] = e
  BY <1>1 DEF For
<1>11. SlotOf(a, cs, i, k) = x
  <2>1. e # -1
    BY Routing
  <2> QED BY <1>1, <1>3, <1>7, <1>8, <1>10, <2>1 DEF SlotOf
<1> QED BY <1>9, <1>10, <1>11

(* The substreams whose rows come before those of cs. *)
Preceding(cs) == {c \in Substreams : \/ c % NumRanks < cs % NumRanks
                                     \/ c % NumRanks = cs % NumRanks /\ c < cs}

LEMMA PairsMonotone ==
  ASSUME NEW A, NEW B, A \subseteq B, IsFiniteSet(B), NEW f, \A x \in B : f[x] \in Nat
  PROVE  Cardinality(PairsIn(f, A)) <= Cardinality(PairsIn(f, B))
<1>1. PairsIn(f, A) \subseteq PairsIn(f, B)
  BY DEF PairsIn
<1>2. IsFiniteSet(PairsIn(f, B))
  BY PairsFinite
<1> QED BY <1>1, <1>2, FS_Subset

(* The rows of different substreams do not overlap. *)
LEMMA RowBlocks ==
  ASSUME NEW a \in Arrivals
  PROVE  /\ NumRows(a) \in Nat
         /\ \A cs \in Substreams : FirstRow(a, cs) \in Nat
         /\ \A cs \in Substreams : FirstRow(a, cs) + Len(a[cs]) <= NumRows(a)
         /\ \A c, d \in Substreams : c \in Preceding(d) =>
              FirstRow(a, c) + Len(a[c]) <= FirstRow(a, d)
<1> DEFINE f == Lengths(a)
<1>1. \A c \in Substreams : f[c] \in Nat /\ f[c] = Len(a[c])
  BY Routing DEF Lengths
<1>2. IsFiniteSet(Substreams)
  BY LayoutAssumption, FS_Interval DEF Substreams
<1>3. \A c \in Substreams : Preceding(c) \subseteq Substreams /\ IsFiniteSet(Preceding(c))
  <2>1. \A c \in Substreams : Preceding(c) \subseteq Substreams
    BY DEF Preceding
  <2> QED BY <1>2, <2>1, FS_Subset
<1>4. ASSUME NEW c \in Substreams
      PROVE  FirstRow(a, c) = Cardinality(PairsIn(f, Preceding(c))) /\ FirstRow(a, c) \in Nat
  <2>1. PICK g : g = [d \in Preceding(c) |-> f[d]]
    OBVIOUS
  <2>2. g = [d \in Preceding(c) |-> Len(a[d])]
    BY <1>1, <1>3, <2>1
  <2>3. FirstRow(a, c) = SumFunction(g)
    BY <2>2 DEF FirstRow, Preceding
  <2>4. \A d \in Preceding(c) : f[d] \in Nat
    BY <1>1, <1>3
  <2> HIDE DEF f
  <2> QED BY <1>3, <2>1, <2>3, <2>4, SumOf
<1>5. NumRows(a) = Cardinality(PairsIn(f, Substreams)) /\ NumRows(a) \in Nat
  <2>1. f = [c \in Substreams |-> f[c]]
    BY DEF Lengths
  <2>2. NumRows(a) = SumFunction(f)
    BY DEF NumRows
  <2> HIDE DEF f
  <2> QED BY <1>1, <1>2, <2>1, <2>2, SumOf
<1> HIDE DEF f
<1>6. ASSUME NEW c \in Substreams
      PROVE  FirstRow(a, c) + Len(a[c]) = Cardinality(PairsIn(f, Preceding(c) \cup {c}))
  <2>1. Preceding(c) \cap {c} = {}
    <3>1. c \notin Preceding(c)
      <4>1. c \in Int /\ c % NumRanks \in Int
        BY StreamAssumption DEF Substreams
      <4> QED BY <4>1 DEF Preceding
    <3> QED BY <3>1
  <2>2. IsFiniteSet({c})
    BY FS_Singleton
  <2>3. \A x \in Preceding(c) \cup {c} : f[x] \in Nat
    BY <1>1, <1>3
  <2>4. Cardinality(PairsIn(f, Preceding(c) \cup {c}))
          = Cardinality(PairsIn(f, Preceding(c))) + Cardinality(PairsIn(f, {c}))
    BY <1>3, <2>1, <2>2, <2>3, PairsAdd
  <2>5. Cardinality(PairsIn(f, {c})) = Len(a[c])
    BY <1>1, PairsOfOne
  <2> QED BY <1>4, <2>4, <2>5
<1>7. ASSUME NEW c \in Substreams PROVE FirstRow(a, c) + Len(a[c]) <= NumRows(a)
  <2>1. Preceding(c) \cup {c} \subseteq Substreams
    BY <1>3
  <2>2. Cardinality(PairsIn(f, Preceding(c) \cup {c})) <= Cardinality(PairsIn(f, Substreams))
    BY <1>1, <1>2, <2>1, PairsMonotone
  <2> QED BY <1>5, <1>6, <2>2
<1>8. ASSUME NEW c \in Substreams, NEW d \in Substreams, c \in Preceding(d)
      PROVE  FirstRow(a, c) + Len(a[c]) <= FirstRow(a, d)
  <2>1. Preceding(c) \cup {c} \subseteq Preceding(d)
    <3>1. \A z \in Substreams : z \in Int /\ z % NumRanks \in Int
      BY StreamAssumption DEF Substreams
    <3> QED BY <1>8, <3>1 DEF Preceding
  <2>2. \A x \in Preceding(d) : f[x] \in Nat
    BY <1>1, <1>3
  <2>3. Cardinality(PairsIn(f, Preceding(c) \cup {c})) <= Cardinality(PairsIn(f, Preceding(d)))
    BY <1>3, <2>1, <2>2, PairsMonotone
  <2> QED BY <1>4, <1>6, <2>3
<1> QED BY <1>4, <1>5, <1>7, <1>8

LEMMA RowsDiffer ==
  ASSUME NEW a \in Arrivals
  PROVE  /\ \A cs \in Substreams : \A i \in 1 .. Len(a[cs]) : Row(a, cs, i) \in 0 .. NumRows(a) - 1
         /\ \A c, d \in Substreams : \A i \in 1 .. Len(a[c]), l \in 1 .. Len(a[d]) :
              Row(a, c, i) = Row(a, d, l) => c = d /\ i = l
<1>1. ASSUME NEW cs \in Substreams, NEW i \in 1 .. Len(a[cs])
      PROVE  Row(a, cs, i) \in 0 .. NumRows(a) - 1
  <2>1. /\ Len(a[cs]) \in Nat /\ FirstRow(a, cs) \in Nat /\ NumRows(a) \in Nat
        /\ FirstRow(a, cs) + Len(a[cs]) <= NumRows(a)
    BY Routing, RowBlocks
  <2> QED BY <2>1 DEF Row
<1>2. ASSUME NEW c \in Substreams, NEW d \in Substreams,
             NEW i \in 1 .. Len(a[c]), NEW l \in 1 .. Len(a[d]), Row(a, c, i) = Row(a, d, l)
      PROVE  c = d /\ i = l
  <2>1. /\ Len(a[c]) \in Nat /\ FirstRow(a, c) \in Nat
        /\ Len(a[d]) \in Nat /\ FirstRow(a, d) \in Nat
    BY Routing, RowBlocks
  <2>2. ~(c \in Preceding(d)) /\ ~(d \in Preceding(c))
    <3>1. c \in Preceding(d) => FirstRow(a, c) + Len(a[c]) <= FirstRow(a, d)
      BY RowBlocks
    <3>2. d \in Preceding(c) => FirstRow(a, d) + Len(a[d]) <= FirstRow(a, c)
      BY RowBlocks
    <3> QED BY <1>2, <2>1, <3>1, <3>2 DEF Row
  <2>3. c = d
    <3>1. \A z \in Substreams : z \in Int /\ z % NumRanks \in Int
      BY StreamAssumption DEF Substreams
    <3> QED BY <2>2, <3>1 DEF Preceding
  <2>4. i = l
    BY <1>2, <2>1, <2>3 DEF Row
  <2> QED BY <2>3, <2>4
<1> QED BY <1>1, <1>2

-----------------------------------------------------------------------------
(***************************************************************************)
(* The inductive invariant.                                                *)
(***************************************************************************)

(* The metadata of the layer stays what it was computed to be. *)
LayerInv ==
  /\ pass \in Passes /\ arriving \in Arrivals
  /\ first_row = [cs \in Substreams |-> FirstRow(arriving, cs)]
  /\ seen_per_substream = SeenIn(arriving)
  /\ expert_pool_block_offset =
       [e \in 0 .. NumExperts |-> BlockOffset(seen_per_substream, e)]
  /\ base_pool = [cs \in Substreams |-> [e \in Experts |->
                    BasePool(seen_per_substream, cs, e)]]
  /\ pool_arrival_target = [t \in Tiles |-> ArrivalTarget(seen_per_substream, t)]
  /\ Rows = 0 .. NumRows(arriving) - 1

(* A receiver has given the tokens so far their slots, and holds the copies
   until its fence; backward it goes by the slots of the forward pass. *)
ReceiverInv ==
  /\ rpc \in [Substreams -> {"recv", "fire", "done"}]
  /\ head \in [Substreams -> Nat]
  /\ smem_seen \in [Substreams -> [Experts -> Nat]]
  /\ unfenced = [cs \in Substreams |-> IF rpc[cs] # "recv" THEN {} ELSE
       {[row |-> Row(arriving, cs, i), slots |-> SlotsOfRow(arriving, cs, i)] :
          i \in 1 .. head[cs]}]
  /\ \A cs \in Substreams :
       /\ head[cs] <= Len(arriving[cs])
       /\ rpc[cs] # "recv" => head[cs] = Len(arriving[cs])
       /\ \A e \in Experts :
            smem_seen[cs][e] = IF pass = "fwd"
              THEN SelectedIn(For(arriving, cs, e), 1, head[cs] + 1)
              ELSE seen_per_substream[cs][e]

(* What a substream's fence has published, of the rows and of the pool. *)
Fenced(cs) == pass = "bwd" \/ rpc[cs] # "recv"
Stored(p, cs) == IF pass = p THEN rpc[cs] # "recv" ELSE p = "fwd"

Contents == {Garbage} \cup {<<r>> : r \in Rows}

MemoryInv ==
  /\ pool \in [Passes -> [Slots -> Contents]]
  /\ pool_recv_token \in [Slots -> Rows \cup {-1}]
  /\ recv_token_to_slots \in [Rows -> [K -> Slots \cup {-1}]]
  /\ k_local_total \in [Rows -> 0 .. num_topk]
  /\ \A cs \in Substreams : \A i \in 1 .. Len(arriving[cs]), k \in K :
       arriving[cs][i][k] # -1 =>
         /\ pool_recv_token[SlotOf(arriving, cs, i, k)]
              = IF Fenced(cs) THEN Row(arriving, cs, i) ELSE -1
         /\ \A p \in Passes : Stored(p, cs) =>
              pool[p][SlotOf(arriving, cs, i, k)] = <<Row(arriving, cs, i)>>
  /\ \A x \in Slots :
       (\A cs \in Substreams, e \in Experts : x \notin Run(seen_per_substream, cs, e))
         => pool_recv_token[x] = -1
  /\ \A cs \in Substreams : \A i \in 1 .. Len(arriving[cs]) : Fenced(cs) =>
       /\ recv_token_to_slots[Row(arriving, cs, i)] = SlotsOfRow(arriving, cs, i)
       /\ k_local_total[Row(arriving, cs, i)] = LocalK(SlotsOfRow(arriving, cs, i))

(* The slots of a tile that its count stands for. *)
Announced(t) ==
  {x \in SlotsOf(t) : \E cs \in Substreams, e \in Experts :
     t \in fired[cs] /\ x \in Run(seen_per_substream, cs, e)}

CountInv ==
  /\ fired \in [Substreams -> SUBSET Tiles]
  /\ \A cs \in Substreams : fired[cs] # {} => rpc[cs] # "recv"
  /\ pool_arrival_count \in [Tiles -> Nat]
  /\ \A t \in Tiles : pool_arrival_count[t] = Cardinality(Announced(t))

CoreInv == LayerInv /\ ReceiverInv /\ MemoryInv /\ CountInv

(* Tickets: a tile's stripes that are finished or in work are those drawn. *)
DrawnOf(h, S, t) == IF h <= t * S THEN 0 ELSE IF h >= (t + 1) * S THEN S ELSE h - t * S
Drawn(t) == DrawnOf(consumer_head, Stripes(kernel), t)
Holding(t) == {c \in CTAs : cpc[c] \in {"spin", "compute", "stripe"} /\ work[c][1] = t}
Finished(t) == IF kernel = 1 THEN Len(computed[t]) ELSE tile_n_stripes_done[t]

(* Every token of the tile has been announced. *)
Filled(t) == Covered(seen_per_substream, t) \subseteq Announced(t)

PipeType ==
  /\ kernel \in 1 .. 3 /\ consumer_head \in Nat
  /\ cpc \in [CTAs -> {"claim", "spin", "compute", "stripe", "release", "exit"}]
  /\ work \in [CTAs -> Nat \X Nat]
  /\ todo \in [CTAs -> SUBSET (0 .. tile_m - 1)]
  /\ computed \in [Tiles -> Seq([0 .. tile_m - 1 -> Contents])]
  /\ tile_n_stripes_done \in [Tiles -> Nat]

(* A CTA past its spin works on a filled tile; one CTA at most counts the
   rows of a tile down, and only after its stripes. *)
CTAInv(c) ==
  /\ kernel = 3 => cpc[c] = "claim"
  /\ cpc[c] \in {"stripe", "release"} => kernel = 2
  /\ cpc[c] \notin {"claim", "exit"} =>
       work[c][1] \in Tiles /\ work[c][2] \in 0 .. Stripes(kernel) - 1
  /\ cpc[c] \in {"compute", "stripe", "release"} => Filled(work[c][1])
  /\ cpc[c] = "release" => /\ todo[c] \subseteq RealRows(work[c][1])
                           /\ tile_n_stripes_done[work[c][1]] >= NumPidN[pass][2]
  /\ cpc[c] # "release" => todo[c] = {}

OneReleases ==
  \A c, d \in CTAs : cpc[c] = "release" /\ cpc[d] = "release" /\ work[c][1] = work[d][1]
                       => c = d

WorkInv == (\A c \in CTAs : CTAInv(c)) /\ OneReleases

TicketInv ==
  \A t \in Tiles :
    /\ kernel # 3 => Finished(t) + Cardinality(Holding(t)) = Drawn(t)
    /\ kernel = 1 => tile_n_stripes_done[t] = 0
    /\ Len(computed[t]) <= NumPidN[pass][1]
    /\ tile_n_stripes_done[t] <= Stripes(2)
    /\ tile_n_stripes_done[t] > 0 => Filled(t)

PipeInv == PipeType /\ WorkInv /\ TicketInv

(* The slots that are not counted down yet. *)
Waiting(x) ==
  \E t \in Tiles : /\ x \in SlotsOf(t)
                   /\ \/ tile_n_stripes_done[t] < NumPidN[pass][2]
                      \/ \E c \in CTAs : /\ cpc[c] = "release" /\ work[c][1] = t
                                         /\ x - t * tile_m \in todo[c]
Unserved(cs, i) ==
  {k \in K : arriving[cs][i][k] # -1 /\ Waiting(SlotOf(arriving, cs, i, k))}

RowInv ==
  /\ k_local_remaining \in [Rows -> 0 .. num_topk]
  /\ o = [r \in Rows |-> o[r]] /\ \A r \in Rows : IsABag(o[r])
  /\ y_done \subseteq Rows
  /\ \A cs \in Substreams : \A i \in 1 .. Len(arriving[cs]) :
       k_local_remaining[Row(arriving, cs, i)] =
         IF Fenced(cs) THEN Cardinality(Unserved(cs, i)) ELSE 0

IInv == CoreInv /\ PipeInv /\ RowInv

-----------------------------------------------------------------------------
(***************************************************************************)
(* What the metadata of the layer amounts to.                              *)
(***************************************************************************)
LEMMA Layout ==
  ASSUME LayerInv
  PROVE  /\ SeenType(seen_per_substream)
         /\ NumTiles = TotalTiles(seen_per_substream) /\ NumTiles \in Nat
         /\ Tiles = 0 .. TotalTiles(seen_per_substream) - 1
         /\ Slots = 0 .. TotalTiles(seen_per_substream) * tile_m - 1
         /\ \A cs \in Substreams, e \in Experts :
              /\ base_pool[cs][e] = BasePool(seen_per_substream, cs, e)
              /\ base_pool[cs][e] \in Nat /\ seen_per_substream[cs][e] \in Nat
         /\ \A t \in Tiles : pool_arrival_target[t] = ArrivalTarget(seen_per_substream, t)
<1>1. SeenType(seen_per_substream)
  BY SeenCounts DEF LayerInv
<1>2. NumTiles = TotalTiles(seen_per_substream)
  BY LayoutAssumption DEF LayerInv, NumTiles, TotalTiles
<1>3. NumTiles \in Nat
  BY <1>1, <1>2, LayoutAssumption, Offsets DEF TotalTiles
<1>4. ASSUME NEW cs \in Substreams, NEW e \in Experts
      PROVE  /\ base_pool[cs][e] = BasePool(seen_per_substream, cs, e)
             /\ base_pool[cs][e] \in Nat /\ seen_per_substream[cs][e] \in Nat
  <2>1. cs \in 0 .. NumSubstreams
    BY LayoutAssumption DEF Substreams
  <2>2. base_pool[cs][e] = BasePool(seen_per_substream, cs, e)
    BY DEF LayerInv
  <2>3. BasePool(seen_per_substream, cs, e) \in Nat
    BY <1>1, <2>1, RunBounds
  <2> QED BY <1>1, <2>2, <2>3 DEF SeenType
<1> QED BY <1>1, <1>2, <1>3, <1>4 DEF LayerInv, Tiles, Slots

LEMMA RowsOfTokens ==
  ASSUME LayerInv
  PROVE  /\ \A cs \in Substreams : \A i \in 1 .. Len(arriving[cs]) :
              RowOf(cs, i) = Row(arriving, cs, i) /\ Row(arriving, cs, i) \in Rows
         /\ \A cs \in Substreams : \A i \in 1 .. Len(arriving[cs]), k \in K :
              arriving[cs][i][k] # -1 => SlotOf(arriving, cs, i, k) \in Slots
         /\ \A r \in Rows : r \in Nat /\ r # -1
<1>1. ASSUME NEW cs \in Substreams, NEW i \in 1 .. Len(arriving[cs])
      PROVE  RowOf(cs, i) = Row(arriving, cs, i) /\ Row(arriving, cs, i) \in Rows
  BY RowsDiffer DEF LayerInv, RowOf, Row
<1>2. ASSUME NEW cs \in Substreams, NEW i \in 1 .. Len(arriving[cs]), NEW k \in K,
             arriving[cs][i][k] # -1
      PROVE  SlotOf(arriving, cs, i, k) \in Slots
  BY <1>2, SlotInRun, Layout DEF LayerInv
<1>3. NumRows(arriving) \in Nat
  BY RowBlocks DEF LayerInv
<1>4. Rows = 0 .. NumRows(arriving) - 1
  BY DEF LayerInv
<1>5. \A r \in Rows : r \in Nat /\ r # -1
  BY <1>3, <1>4
<1> QED BY <1>1, <1>2, <1>5

LEMMA SlotsAndTiles ==
  ASSUME LayerInv
  PROVE  /\ \A t \in Tiles : SlotsOf(t) \subseteq Slots /\ t \in Nat /\ t * tile_m \in Nat
         /\ \A t \in Tiles : SlotsOf(t) = t * tile_m .. t * tile_m + tile_m - 1
         /\ \A t, u \in Tiles, x \in Slots : x \in SlotsOf(t) /\ x \in SlotsOf(u) => t = u
         /\ \A x \in Slots : \E t \in Tiles : x \in SlotsOf(t)
<1>1. PICK m \in Nat \ {0} : m = tile_m
  BY LayoutAssumption
<1>2. PICK T \in Nat : T = NumTiles
  BY Layout
<1>3. Tiles = 0 .. T - 1 /\ Slots = 0 .. T * m - 1
  BY <1>1, <1>2 DEF Tiles, Slots
<1>4. ASSUME NEW t \in Tiles
      PROVE  /\ t \in Nat /\ t * m \in Nat /\ (t + 1) * m = t * m + m
             /\ SlotsOf(t) = t * m .. t * m + m - 1 /\ t * m + m <= T * m /\ T * m \in Nat
  <2>1. t \in Nat /\ t < T
    BY <1>3
  <2>2. t * m \in Nat /\ (t + 1) * m = t * m + m /\ (t + 1) * m <= T * m /\ T * m \in Nat
    BY <1>1, <1>2, <2>1, TileSlots, Products
  <2> QED BY <1>1, <2>1, <2>2 DEF SlotsOf
<1>5. ASSUME NEW t \in Tiles PROVE SlotsOf(t) \subseteq Slots
  BY <1>3, <1>4
<1>6. ASSUME NEW t \in Tiles, NEW u \in Tiles, NEW x, x \in SlotsOf(t), x \in SlotsOf(u)
      PROVE  t = u
  <2>1. ~(t < u) /\ ~(u < t)
    <3>0. PICK p, q \in Nat : p = t * m /\ q = u * m
      BY <1>4
    <3>a. t \in Nat /\ u \in Nat
      BY <1>4
    <3>b. (t < u => (t + 1) * tile_m <= u * tile_m) /\ (u < t => (u + 1) * tile_m <= t * tile_m)
      BY <3>a, TileSlots
    <3>c. (t + 1) * tile_m = p + m /\ (u + 1) * tile_m = q + m /\ p = t * tile_m /\ q = u * tile_m
      BY <1>1, <1>4, <3>0
    <3>1. t < u => p + m <= q
      BY <3>b, <3>c
    <3>2. u < t => q + m <= p
      BY <3>b, <3>c
    <3>3. x \in p .. p + m - 1 /\ x \in q .. q + m - 1
      BY <1>4, <1>6, <3>0
    <3> QED BY <3>1, <3>2, <3>3
  <2> QED BY <1>4, <2>1
<1>7. ASSUME NEW x \in Slots PROVE \E t \in Tiles : x \in SlotsOf(t)
  <2>1. x \in Nat /\ x < T * m
    BY <1>3
  <2>2. PICK q \in Nat, r \in 0 .. m - 1 : x = q * m + r
    <3>1. x \div m \in Nat /\ x % m \in 0 .. m - 1 /\ x = (x \div m) * m + (x % m)
      BY <1>1, <2>1
    <3> QED BY <3>1
  <2>3. q < T
    <3>1. T <= q => T * m <= q * m /\ q * m \in Nat /\ T * m \in Nat
      BY <1>1, <1>2, <2>2, Products
    <3>2. q * m \in Nat /\ T * m \in Nat
      BY <1>1, <1>2, <2>2, Products
    <3> QED BY <2>1, <2>2, <3>1, <3>2
  <2>4. q \in Tiles
    BY <1>3, <2>3
  <2>5. x \in SlotsOf(q)
    <3>1. q * m \in Nat
      BY <1>4, <2>4
    <3> QED BY <1>4, <2>2, <2>4, <3>1
  <2> QED BY <2>4, <2>5
<1> QED BY <1>1, <1>4, <1>5, <1>6, <1>7

LEMMA SlotsType ==
  ASSUME LayerInv, NEW cs \in Substreams, NEW i \in 1 .. Len(arriving[cs])
  PROVE  /\ SlotsOfRow(arriving, cs, i) \in [K -> Slots \cup {-1}]
         /\ \A k \in K : (SlotsOfRow(arriving, cs, i)[k] = -1) <=> (arriving[cs][i][k] = -1)
         /\ \A k \in K : SlotsOfRow(arriving, cs, i)[k] = SlotOf(arriving, cs, i, k)
<1>1. \A k \in K : arriving[cs][i][k] # -1 =>
         SlotOf(arriving, cs, i, k) \in Slots /\ SlotOf(arriving, cs, i, k) # -1
  BY RowsOfTokens, SlotInRun DEF LayerInv
<1>2. \A k \in K : arriving[cs][i][k] = -1 => SlotOf(arriving, cs, i, k) = -1
  BY DEF SlotOf
<1> QED BY <1>1, <1>2 DEF SlotsOfRow

-----------------------------------------------------------------------------
(***************************************************************************)
(* The receivers: layout, slots, memory and arrival counts.                *)
(***************************************************************************)
LEMMA InitCore ==
  ASSUME Init PROVE CoreInv
<1>1. LayerInv
  <2>1. pass \in Passes /\ arriving \in Arrivals
    BY DEF Init, Passes
  <2>2. Rows = 0 .. NumRows(arriving) - 1
    BY DEF Init, Rows, NumRows, Lengths
  <2> QED BY <2>1, <2>2 DEF Init, LayerInv
<1>2. ReceiverInv
  <2>1. \A cs \in Substreams : Len(arriving[cs]) \in Nat
    BY <1>1, Routing DEF LayerInv
  <2>2. unfenced = [cs \in Substreams |-> IF rpc[cs] # "recv" THEN {} ELSE
          {[row |-> Row(arriving, cs, i), slots |-> SlotsOfRow(arriving, cs, i)] :
             i \in 1 .. head[cs]}]
    BY DEF Init
  <2>3. ASSUME NEW cs \in Substreams, NEW e \in Experts
        PROVE  smem_seen[cs][e] = SelectedIn(For(arriving, cs, e), 1, head[cs] + 1)
    <3>1. For(arriving, cs, e) \in SUBSET Nat
      BY <1>1, ForType DEF LayerInv
    <3>a. 1 \in Nat /\ 1 <= 1
      OBVIOUS
    <3>2. SelectedIn(For(arriving, cs, e), 1, 1) = 0
      BY <3>1, <3>a, SelectedType
    <3> QED BY <3>2 DEF Init
  <2>4. /\ rpc \in [Substreams -> {"recv", "fire", "done"}]
        /\ head \in [Substreams -> Nat]
        /\ smem_seen \in [Substreams -> [Experts -> Nat]]
    BY DEF Init
  <2>5. \A cs \in Substreams : head[cs] <= Len(arriving[cs]) /\ rpc[cs] = "recv"
    BY <2>1 DEF Init
  <2>6. pass = "fwd"
    BY DEF Init
  <2> QED BY <2>2, <2>3, <2>4, <2>5, <2>6 DEF ReceiverInv
<1>3. MemoryInv
  <2>1. \A cs \in Substreams : ~Fenced(cs) /\ \A p \in Passes : ~Stored(p, cs)
    BY DEF Init, Fenced, Stored, Passes
  <2>2. /\ pool \in [Passes -> [Slots -> Contents]]
        /\ pool_recv_token \in [Slots -> Rows \cup {-1}]
        /\ recv_token_to_slots \in [Rows -> [K -> Slots \cup {-1}]]
        /\ \A x \in Slots : pool_recv_token[x] = -1
    BY DEF Init, Contents
  <2>3. k_local_total \in [Rows -> 0 .. num_topk]
    <3>1. k_local_total = [r \in Rows |-> 0]
      BY DEF Init, Rows
    <3> QED BY <3>1, StreamAssumption
  <2>4. \A cs \in Substreams : \A i \in 1 .. Len(arriving[cs]), k \in K :
          arriving[cs][i][k] # -1 => SlotOf(arriving, cs, i, k) \in Slots
    BY <1>1, RowsOfTokens
  <2> QED BY <2>1, <2>2, <2>3, <2>4 DEF MemoryInv
<1>4. CountInv
  <2>1. \A t \in Tiles : Announced(t) = {}
    BY DEF Init, Announced
  <2>2. Cardinality({}) = 0
    BY FS_EmptySet
  <2> QED BY <2>1, <2>2 DEF Init, CountInv
<1> QED BY <1>1, <1>2, <1>3, <1>4 DEF CoreInv

coreVars == <<pass, layerVars, receiverVars, poolVars, pool_arrival_count>>

LEMMA CoreStutters ==
  ASSUME CoreInv, UNCHANGED coreVars
  PROVE  CoreInv' /\ UNCHANGED <<Tiles, Slots, Rows>>
<1> USE DEF coreVars, layerVars, receiverVars, poolVars
<1>0. UNCHANGED <<Tiles, Slots, Rows>>
  BY DEF Tiles, Slots, Rows, NumTiles
<1>1. LayerInv'
  BY <1>0 DEF CoreInv, LayerInv
<1>2. ReceiverInv'
  BY DEF CoreInv, ReceiverInv
<1>3. MemoryInv'
  <2>1. MemoryInv
    BY DEF CoreInv
  <2> QED BY <1>0, <2>1 DEF MemoryInv, Fenced, Stored, Contents
<1>4. CountInv'
  <2>1. CountInv
    BY DEF CoreInv
  <2>2. \A t \in Tiles : Announced(t)' = Announced(t)
    BY DEF Announced
  <2> QED BY <1>0, <2>1, <2>2 DEF CountInv
<1> QED BY <1>0, <1>1, <1>2, <1>3, <1>4 DEF CoreInv

(* Only the fence changes the domain of the rows' counts, to itself. *)
LEMMA LayerStays ==
  ASSUME LayerInv, UNCHANGED layerVars, DOMAIN k_local_total' = DOMAIN k_local_total,
         pass' \in Passes
  PROVE  LayerInv' /\ UNCHANGED <<Tiles, Slots, Rows>>
<1>1. UNCHANGED <<Tiles, Slots, Rows>>
  BY DEF Tiles, Slots, Rows, NumTiles, layerVars
<1> QED BY <1>1 DEF LayerInv, layerVars

LEMMA PairsCount ==
  ASSUME LayerInv, NEW cs \in Substreams, NEW e, NEW lo \in Nat \ {0}, NEW hi \in Nat,
         hi <= Len(arriving[cs]) + 1
  PROVE  PairsFor(cs, e, lo .. hi - 1) = SelectedIn(For(arriving, cs, e), lo, hi)
<1>1. Len(arriving[cs]) \in Nat
  BY Routing DEF LayerInv
<1>2. {i \in lo .. hi - 1 : \E k \in K : arriving[cs][i][k] = e}
        = {t \in For(arriving, cs, e) : lo <= t /\ t < hi}
  BY <1>1 DEF For
<1> QED BY <1>2 DEF PairsFor, SelectedIn

(* However the tokens are cut into batches, each pair gets its own slot. *)
LEMMA SlotsGiven ==
  ASSUME CoreInv, NEW cs \in Substreams, rpc[cs] = "recv",
         NEW i \in 1 .. Len(arriving[cs]), head[cs] < i
  PROVE  SlotsOfToken(cs, i) = SlotsOfRow(arriving, cs, i)
<1> USE DEF CoreInv
<1>1. CASE pass = "bwd"
  <2>1. Fenced(cs)
    BY <1>1 DEF Fenced
  <2>2. recv_token_to_slots[Row(arriving, cs, i)] = SlotsOfRow(arriving, cs, i)
    BY <2>1 DEF MemoryInv
  <2> QED BY <1>1, <2>2, RowsOfTokens DEF SlotsOfToken
<1>2. CASE pass = "fwd"
  <2>1. ASSUME NEW k \in K, arriving[cs][i][k] # -1
        PROVE  base_pool[cs][arriving[cs][i][k]] + smem_seen[cs][arriving[cs][i][k]]
                 + PairsFor(cs, arriving[cs][i][k], head[cs] + 1 .. i - 1)
                 = SlotOf(arriving, cs, i, k)
    <3>1. PICK e \in Experts : e = arriving[cs][i][k]
      BY <2>1, Routing DEF LayerInv
    <3>2. PICK h \in Nat : h = head[cs] /\ h < i
      BY DEF ReceiverInv
    <3>3. PICK M \in SUBSET Nat : M = For(arriving, cs, e)
      BY ForType DEF LayerInv
    <3>4. Len(arriving[cs]) \in Nat
      BY Routing DEF LayerInv
    <3>5. /\ i \in Nat /\ i <= Len(arriving[cs]) + 1 /\ 1 <= h + 1 /\ h + 1 <= i
          /\ h + 1 \in Nat /\ h + 1 \in Nat \ {0} /\ 1 \in Nat
      BY <3>2, <3>4
    <3>6. PairsFor(cs, e, h + 1 .. i - 1) = SelectedIn(M, h + 1, i)
      BY <3>3, <3>5, PairsCount
    <3>7. smem_seen[cs][e] = SelectedIn(M, 1, h + 1)
      BY <1>2, <3>2, <3>3 DEF ReceiverInv
    <3>8. SelectedIn(M, 1, i) = SelectedIn(M, 1, h + 1) + SelectedIn(M, h + 1, i)
      BY <3>5, SelectedSplit
    <3>9. SelectedIn(M, 1, h + 1) \in Nat /\ SelectedIn(M, h + 1, i) \in Nat
      BY <3>5, SelectedType
    <3>10. PICK b \in Nat : b = base_pool[cs][e]
      BY Layout
    <3>11. SlotOf(arriving, cs, i, k) = b + SelectedIn(M, 1, i)
      <4>1. b = BasePool(SeenIn(arriving), cs, e)
        BY <3>10, Layout DEF LayerInv
      <4> QED BY <2>1, <3>1, <3>3, <4>1 DEF SlotOf
    <3> QED BY <3>1, <3>2, <3>6, <3>7, <3>8, <3>9, <3>10, <3>11
  <2>2. \A k \in K : arriving[cs][i][k] = -1 => SlotOf(arriving, cs, i, k) = -1
    BY DEF SlotOf
  <2>3. SlotsOfToken(cs, i)
          = [k \in K |-> IF arriving[cs][i][k] = -1 THEN -1
               ELSE base_pool[cs][arriving[cs][i][k]] + smem_seen[cs][arriving[cs][i][k]]
                      + PairsFor(cs, arriving[cs][i][k], head[cs] + 1 .. i - 1)]
    BY <1>2 DEF SlotsOfToken
  <2> QED BY <2>1, <2>2, <2>3 DEF SlotsOfRow
<1> QED BY <1>1, <1>2 DEF LayerInv, Passes

LEMMA MemoryStays ==
  ASSUME CoreInv, UNCHANGED <<pass, layerVars, poolVars>>,
         \A cs \in Substreams : rpc'[cs] # "recv" <=> rpc[cs] # "recv"
  PROVE  MemoryInv' /\ LayerInv' /\ UNCHANGED <<Tiles, Slots, Rows>>
<1>1. LayerInv' /\ UNCHANGED <<Tiles, Slots, Rows>>
  BY LayerStays DEF CoreInv, LayerInv, poolVars
<1>2. MemoryInv
  BY DEF CoreInv
<1>3. \A cs \in Substreams : (Fenced(cs)' <=> Fenced(cs))
                             /\ \A p \in Passes : Stored(p, cs)' <=> Stored(p, cs)
  BY DEF Fenced, Stored
<1>4. Contents' = Contents
  BY <1>1 DEF Contents
<1>5. /\ arriving' = arriving /\ seen_per_substream' = seen_per_substream /\ pool' = pool
      /\ pool_recv_token' = pool_recv_token /\ recv_token_to_slots' = recv_token_to_slots
      /\ k_local_total' = k_local_total
  BY DEF layerVars, poolVars
<1> QED BY <1>1, <1>2, <1>3, <1>4, <1>5 DEF MemoryInv

LEMMA ReceiveBatchCore ==
  ASSUME CoreInv, NEW cs \in Substreams, ReceiveBatch(cs)
  PROVE  CoreInv' /\ UNCHANGED <<Tiles, Slots, Rows>>
<1>1. LayerInv /\ ReceiverInv /\ MemoryInv /\ CountInv
  BY DEF CoreInv
<1>2. /\ rpc[cs] = "recv" /\ head[cs] < Len(arriving[cs])
      /\ UNCHANGED <<pass, layerVars, rpc, fired, poolVars, pool_arrival_count>>
  BY DEF ReceiveBatch
<1>3. MemoryInv' /\ LayerInv' /\ UNCHANGED <<Tiles, Slots, Rows>>
  BY <1>2, MemoryStays
<1>4. CountInv'
  <2>1. \A t \in Tiles : Announced(t)' = Announced(t)
    BY <1>2 DEF Announced, layerVars
  <2> QED BY <1>1, <1>2, <1>3, <2>1 DEF CountInv
<1>5. PICK n \in 1 .. Len(arriving[cs]) - head[cs] :
       /\ unfenced' = [unfenced EXCEPT ![cs] = @ \cup
            {[row |-> RowOf(cs, i), slots |-> SlotsOfToken(cs, i)] : i \in NextTokens(cs, n)}]
       /\ smem_seen' = IF pass = "bwd" THEN smem_seen
            ELSE [smem_seen EXCEPT ![cs] =
                   [e \in Experts |-> @[e] + PairsFor(cs, e, NextTokens(cs, n))]]
       /\ head' = [head EXCEPT ![cs] = @ + n]
  BY DEF ReceiveBatch
<1>6. PICK h \in Nat, L \in Nat : h = head[cs] /\ L = Len(arriving[cs]) /\ h + n <= L /\ n \in Nat
  <2>1. head[cs] \in Nat /\ Len(arriving[cs]) \in Nat
    BY <1>1, Routing DEF ReceiverInv, LayerInv
  <2> QED BY <2>1
<1>7. NextTokens(cs, n) = h + 1 .. h + n
  BY <1>6 DEF NextTokens
<1>8. arriving' = arriving /\ seen_per_substream' = seen_per_substream /\ pass' = pass /\ rpc' = rpc
  BY <1>2 DEF layerVars
<1>9. ReceiverInv'
  <2> DEFINE Copy(c, i) == [row |-> Row(arriving, c, i), slots |-> SlotsOfRow(arriving, c, i)]
  <2>1. head' = [head EXCEPT ![cs] = h + n] /\ head' \in [Substreams -> Nat]
    BY <1>1, <1>5, <1>6 DEF ReceiverInv
  <2>2. \A i \in h + 1 .. h + n :
          [row |-> RowOf(cs, i), slots |-> SlotsOfToken(cs, i)] = Copy(cs, i)
    <3>1. \A i \in h + 1 .. h + n : i \in 1 .. Len(arriving[cs]) /\ head[cs] < i
      BY <1>6
    <3>2. \A i \in h + 1 .. h + n : SlotsOfToken(cs, i) = SlotsOfRow(arriving, cs, i)
      BY <1>2, <3>1, SlotsGiven
    <3>3. \A i \in h + 1 .. h + n : RowOf(cs, i) = Row(arriving, cs, i)
      BY <1>1, <3>1, RowsOfTokens
    <3> QED BY <3>2, <3>3
  <2>3. unfenced[cs] = {Copy(cs, i) : i \in 1 .. h}
    BY <1>1, <1>2, <1>6 DEF ReceiverInv
  <2>4. {[row |-> RowOf(cs, i), slots |-> SlotsOfToken(cs, i)] : i \in NextTokens(cs, n)}
          = {Copy(cs, i) : i \in h + 1 .. h + n}
    BY <1>7, <2>2
  <2>5. unfenced[cs] \cup {Copy(cs, i) : i \in h + 1 .. h + n} = {Copy(cs, i) : i \in 1 .. h + n}
    <3>1. \A i : i \in 1 .. h + n <=> i \in 1 .. h \/ i \in h + 1 .. h + n
      BY <1>6
    <3> HIDE DEF Copy
    <3> QED BY <2>3, <3>1
  <2>6. unfenced' = [c \in Substreams |-> IF rpc[c] # "recv" THEN {} ELSE
          {Copy(c, i) : i \in 1 .. head'[c]}]
    <3>1. unfenced = [c \in Substreams |-> IF rpc[c] # "recv" THEN {} ELSE
            {Copy(c, i) : i \in 1 .. head[c]}]
      BY <1>1 DEF ReceiverInv
    <3>2. head'[cs] = h + n /\ \A c \in Substreams \ {cs} : head'[c] = head[c]
      BY <1>1, <2>1 DEF ReceiverInv
    <3>3. unfenced' = [unfenced EXCEPT ![cs] = {Copy(cs, i) : i \in 1 .. h + n}]
      BY <1>5, <2>4, <2>5
    <3> HIDE DEF Copy
    <3> QED BY <1>2, <3>1, <3>2, <3>3
  <2>7. smem_seen' \in [Substreams -> [Experts -> Nat]]
        /\ \A c \in Substreams, e \in Experts :
             smem_seen'[c][e] = IF pass = "fwd"
               THEN SelectedIn(For(arriving, c, e), 1, head'[c] + 1)
               ELSE seen_per_substream[c][e]
    <3>1. CASE pass = "bwd"
      BY <1>1, <1>5, <3>1 DEF ReceiverInv
    <3>2. CASE pass = "fwd"
      <4>1. PICK counts : counts = [e \in Experts |-> smem_seen[cs][e]
                                      + PairsFor(cs, e, NextTokens(cs, n))]
        OBVIOUS
      <4>2. smem_seen' = [smem_seen EXCEPT ![cs] = counts]
        BY <1>5, <3>2, <4>1
      <4>3. ASSUME NEW e \in Experts
            PROVE  counts[e] \in Nat /\ counts[e] = SelectedIn(For(arriving, cs, e), 1, h + n + 1)
        <5>1. PICK M \in SUBSET Nat : M = For(arriving, cs, e)
          BY <1>1, ForType DEF LayerInv
        <5>2. PICK lo, hi \in Nat : lo = h + 1 /\ hi = h + n + 1 /\ 1 <= lo /\ lo <= hi
                                    /\ lo # 0 /\ hi <= L + 1 /\ hi - 1 = h + n
          BY <1>6
        <5>3. PairsFor(cs, e, lo .. hi - 1) = SelectedIn(M, lo, hi)
          BY <1>1, <1>6, <5>1, <5>2, PairsCount
        <5>4. smem_seen[cs][e] = SelectedIn(M, 1, lo)
          BY <1>1, <1>6, <3>2, <5>1, <5>2 DEF ReceiverInv
        <5>5. 1 \in Nat
          OBVIOUS
        <5>6. SelectedIn(M, 1, hi) = SelectedIn(M, 1, lo) + SelectedIn(M, lo, hi)
          BY <5>2, <5>5, SelectedSplit
        <5>7. SelectedIn(M, 1, hi) \in Nat
          BY <5>5, SelectedType
        <5>8. counts[e] = smem_seen[cs][e] + PairsFor(cs, e, lo .. hi - 1)
          BY <1>7, <4>1, <5>2
        <5> QED BY <5>1, <5>2, <5>3, <5>4, <5>6, <5>7, <5>8
      <4>4. counts \in [Experts -> Nat]
        BY <4>1, <4>3
      <4>5. head'[cs] = h + n /\ \A c \in Substreams \ {cs} : head'[c] = head[c]
        BY <1>1, <2>1 DEF ReceiverInv
      <4>6. smem_seen \in [Substreams -> [Experts -> Nat]]
            /\ \A c \in Substreams, e \in Experts :
                 smem_seen[c][e] = SelectedIn(For(arriving, c, e), 1, head[c] + 1)
        BY <1>1, <3>2 DEF ReceiverInv
      <4>7. smem_seen' \in [Substreams -> [Experts -> Nat]]
        BY <4>2, <4>4, <4>6
      <4>8. smem_seen'[cs] = counts /\ \A c \in Substreams \ {cs} : smem_seen'[c] = smem_seen[c]
        BY <4>2, <4>6
      <4>9. ASSUME NEW c \in Substreams, NEW e \in Experts
            PROVE  smem_seen'[c][e] = SelectedIn(For(arriving, c, e), 1, head'[c] + 1)
        <5>1. CASE c = cs
          BY <4>3, <4>5, <4>8, <5>1
        <5>2. CASE c # cs
          BY <4>5, <4>6, <4>8, <5>2
        <5> QED BY <5>1, <5>2
      <4> QED BY <3>2, <4>7, <4>9
    <3> QED BY <1>1, <3>1, <3>2 DEF LayerInv, Passes
  <2>8. \A c \in Substreams :
          /\ head'[c] <= Len(arriving[c])
          /\ rpc[c] # "recv" => head'[c] = Len(arriving[c])
    <3>1. head'[cs] = h + n /\ \A c \in Substreams \ {cs} : head'[c] = head[c]
      BY <1>1, <2>1 DEF ReceiverInv
    <3> QED BY <1>1, <1>2, <1>6, <3>1 DEF ReceiverInv
  <2>9. rpc \in [Substreams -> {"recv", "fire", "done"}]
    BY <1>1 DEF ReceiverInv
  <2>10. unfenced' = [c \in Substreams |-> IF rpc'[c] # "recv" THEN {} ELSE
           {[row |-> Row(arriving', c, i), slots |-> SlotsOfRow(arriving', c, i)] :
              i \in 1 .. head'[c]}]
    BY <1>8, <2>6
  <2>11. \A c \in Substreams, e \in Experts :
           smem_seen'[c][e] = IF pass' = "fwd"
             THEN SelectedIn(For(arriving', c, e), 1, head'[c] + 1)
             ELSE seen_per_substream'[c][e]
    BY <1>8, <2>7
  <2>12. \A c \in Substreams :
           /\ head'[c] <= Len(arriving'[c])
           /\ rpc'[c] # "recv" => head'[c] = Len(arriving'[c])
    BY <1>8, <2>8
  <2>13. /\ rpc' \in [Substreams -> {"recv", "fire", "done"}] /\ head' \in [Substreams -> Nat]
         /\ smem_seen' \in [Substreams -> [Experts -> Nat]]
    BY <1>8, <2>1, <2>7, <2>9
  <2> QED BY <2>10, <2>11, <2>12, <2>13 DEF ReceiverInv
<1> QED BY <1>3, <1>4, <1>9 DEF CoreInv

(* The fence of a substream fills exactly the slots of its own pairs. *)
LEMMA FenceReaches ==
  ASSUME CoreInv, NEW cs \in Substreams, Fence(cs)
  PROVE  /\ \A i \in 1 .. Len(arriving[cs]), k \in K : arriving[cs][i][k] # -1 =>
              LET x == SlotOf(arriving, cs, i, k)
              IN  Reaches(cs, x) # {}
                  /\ (CHOOSE w \in Reaches(cs, x) : TRUE).row = Row(arriving, cs, i)
         /\ \A x \in Slots : Reaches(cs, x) # {} =>
              /\ (CHOOSE w \in Reaches(cs, x) : TRUE).row \in Rows
              /\ \E i \in 1 .. Len(arriving[cs]), k \in K :
                   arriving[cs][i][k] # -1 /\ x = SlotOf(arriving, cs, i, k)
         /\ \A d \in Substreams : \A i \in 1 .. Len(arriving[d]), k \in K :
              d # cs /\ arriving[d][i][k] # -1 => Reaches(cs, SlotOf(arriving, d, i, k)) = {}
<1> DEFINE Copy(i) == [row |-> Row(arriving, cs, i), slots |-> SlotsOfRow(arriving, cs, i)]
           Tokens == 1 .. Len(arriving[cs])
<1>1. LayerInv /\ ReceiverInv /\ arriving \in Arrivals
  BY DEF CoreInv, LayerInv
<1>2. unfenced[cs] = {Copy(i) : i \in Tokens}
  BY <1>1 DEF ReceiverInv, Fence
<1>3. \A i \in Tokens : /\ Copy(i).row = Row(arriving, cs, i) /\ Row(arriving, cs, i) \in Rows
                        /\ \A k \in K : Copy(i).slots[k] = SlotOf(arriving, cs, i, k)
  BY <1>1, SlotsType, RowsOfTokens
<1>4. \A i \in Tokens, k \in K : arriving[cs][i][k] = -1 => SlotOf(arriving, cs, i, k) = -1
  BY DEF SlotOf
<1>5. \A x \in Slots : x # -1
  BY <1>1, Layout DEF Slots
<1> HIDE DEF Copy
<1>6. ASSUME NEW x \in Slots, NEW w \in Reaches(cs, x)
      PROVE  \E i \in Tokens, k \in K :
               w = Copy(i) /\ arriving[cs][i][k] # -1 /\ x = SlotOf(arriving, cs, i, k)
  <2>1. w \in unfenced[cs] /\ \E k \in K : w.slots[k] = x
    BY DEF Reaches
  <2>2. PICK i \in Tokens : w = Copy(i)
    BY <1>2, <2>1
  <2>3. PICK k \in K : w.slots[k] = x
    BY <2>1
  <2>4. SlotOf(arriving, cs, i, k) = x
    BY <1>3, <2>2, <2>3
  <2> QED BY <1>4, <1>5, <2>2, <2>4
<1>7. ASSUME NEW i \in Tokens, NEW k \in K, arriving[cs][i][k] # -1
      PROVE  LET x == SlotOf(arriving, cs, i, k)
             IN  Reaches(cs, x) # {}
                 /\ (CHOOSE w \in Reaches(cs, x) : TRUE).row = Row(arriving, cs, i)
  <2>1. PICK x \in Slots : x = SlotOf(arriving, cs, i, k)
    BY <1>1, <1>7, RowsOfTokens
  <2>2. Copy(i) \in Reaches(cs, x)
    BY <1>2, <1>3, <2>1 DEF Reaches
  <2>3. PICK w \in Reaches(cs, x) : w = CHOOSE v \in Reaches(cs, x) : TRUE
    BY <2>2
  <2>4. PICK l \in Tokens, j \in K :
          w = Copy(l) /\ arriving[cs][l][j] # -1 /\ x = SlotOf(arriving, cs, l, j)
    BY <1>6, <2>1
  <2>5. l = i
    <3>1. SlotOf(arriving, cs, l, j) = SlotOf(arriving, cs, i, k)
      BY <2>1, <2>4
    <3> QED BY <1>1, <1>7, <2>4, <3>1, SlotsDiffer
  <2> QED BY <1>3, <2>1, <2>2, <2>3, <2>4, <2>5
<1>8. ASSUME NEW x \in Slots, Reaches(cs, x) # {}
      PROVE  /\ (CHOOSE w \in Reaches(cs, x) : TRUE).row \in Rows
             /\ \E i \in Tokens, k \in K :
                  arriving[cs][i][k] # -1 /\ x = SlotOf(arriving, cs, i, k)
  <2>1. PICK w \in Reaches(cs, x) : w = CHOOSE v \in Reaches(cs, x) : TRUE
    BY <1>8
  <2> QED BY <1>3, <1>6, <2>1
<1>9. ASSUME NEW d \in Substreams, NEW i \in 1 .. Len(arriving[d]), NEW k \in K,
             d # cs, arriving[d][i][k] # -1
      PROVE  Reaches(cs, SlotOf(arriving, d, i, k)) = {}
  <2>1. PICK x \in Slots : x = SlotOf(arriving, d, i, k)
    BY <1>1, <1>9, RowsOfTokens
  <2>2. SUFFICES ASSUME Reaches(cs, x) # {} PROVE FALSE
    BY <2>1
  <2>3. PICK l \in Tokens, j \in K : arriving[cs][l][j] # -1 /\ x = SlotOf(arriving, cs, l, j)
    BY <1>8, <2>2
  <2>4. SlotOf(arriving, cs, l, j) = SlotOf(arriving, d, i, k)
    BY <2>1, <2>3
  <2>5. cs = d
    BY <1>1, <1>9, <2>3, <2>4, SlotsDiffer
  <2> QED BY <1>9, <2>5
<1> QED BY <1>7, <1>8, <1>9

LEMMA LocalKType ==
  ASSUME NEW slots \in [K -> Int]
  PROVE  LocalK(slots) \in 0 .. num_topk
<1>1. IsFiniteSet(K) /\ Cardinality(K) = num_topk
  BY StreamAssumption, FS_Interval DEF K
<1>2. {k \in K : slots[k] # -1} \subseteq K
  OBVIOUS
<1>3. Cardinality({k \in K : slots[k] # -1}) <= num_topk
      /\ IsFiniteSet({k \in K : slots[k] # -1})
  BY <1>1, <1>2, FS_Subset
<1>4. Cardinality({k \in K : slots[k] # -1}) \in Nat
  BY <1>3, FS_CardinalityType
<1> QED BY <1>3, <1>4, StreamAssumption DEF LocalK

(* The rows that the fence of a forward pass writes are those of its tokens. *)
RowsWritten(cs) == {w.row : w \in unfenced[cs]}
SlotsWritten(cs, r) == (CHOOSE w \in unfenced[cs] : w.row = r).slots

LEMMA FenceRows ==
  ASSUME CoreInv, NEW cs \in Substreams, Fence(cs), NEW r \in Rows
  PROVE  /\ \A i \in 1 .. Len(arriving[cs]) : r = Row(arriving, cs, i) =>
              r \in RowsWritten(cs) /\ SlotsWritten(cs, r) = SlotsOfRow(arriving, cs, i)
         /\ r \in RowsWritten(cs) => \E i \in 1 .. Len(arriving[cs]) : r = Row(arriving, cs, i)
         /\ r \in RowsWritten(cs) => /\ SlotsWritten(cs, r) \in [K -> Slots \cup {-1}]
                                     /\ LocalK(SlotsWritten(cs, r)) \in 0 .. num_topk
<1> DEFINE Copy(i) == [row |-> Row(arriving, cs, i), slots |-> SlotsOfRow(arriving, cs, i)]
           Tokens == 1 .. Len(arriving[cs])
<1>1. LayerInv /\ ReceiverInv /\ arriving \in Arrivals
  BY DEF CoreInv, LayerInv
<1>2. unfenced[cs] = {Copy(i) : i \in Tokens}
  BY <1>1 DEF ReceiverInv, Fence
<1>3. \A i \in Tokens :
        Copy(i).row = Row(arriving, cs, i) /\ Copy(i).slots = SlotsOfRow(arriving, cs, i)
  OBVIOUS
<1> HIDE DEF Copy
<1>4. ASSUME NEW i \in Tokens, r = Row(arriving, cs, i)
      PROVE  r \in RowsWritten(cs) /\ SlotsWritten(cs, r) = SlotsOfRow(arriving, cs, i)
  <2>1. Copy(i) \in unfenced[cs] /\ Copy(i).row = r
    BY <1>2, <1>3, <1>4
  <2>2. PICK w \in unfenced[cs] : SlotsWritten(cs, r) = w.slots /\ w.row = r
    BY <2>1 DEF SlotsWritten
  <2>3. PICK l \in Tokens : w = Copy(l)
    BY <1>2, <2>2
  <2>4. Row(arriving, cs, l) = Row(arriving, cs, i)
    BY <1>3, <1>4, <2>2, <2>3
  <2>5. l = i
    BY <1>1, <2>4, RowsDiffer
  <2> QED BY <1>3, <2>1, <2>2, <2>3, <2>5 DEF RowsWritten
<1>5. ASSUME r \in RowsWritten(cs) PROVE \E i \in Tokens : r = Row(arriving, cs, i)
  BY <1>2, <1>3, <1>5 DEF RowsWritten
<1>6. ASSUME NEW i \in Tokens
      PROVE  SlotsOfRow(arriving, cs, i) \in [K -> Slots \cup {-1}]
             /\ LocalK(SlotsOfRow(arriving, cs, i)) \in 0 .. num_topk
  <2>1. SlotsOfRow(arriving, cs, i) \in [K -> Slots \cup {-1}]
    BY <1>1, SlotsType
  <2>2. \A x \in Slots : x \in Int
    BY <1>1, Layout DEF Slots
  <2>3. SlotsOfRow(arriving, cs, i) \in [K -> Int]
    BY <2>1, <2>2
  <2> QED BY <2>1, <2>3, LocalKType
<1> QED BY <1>4, <1>5, <1>6

LEMMA FenceCore ==
  ASSUME CoreInv, NEW cs \in Substreams, Fence(cs)
  PROVE  CoreInv' /\ UNCHANGED <<Tiles, Slots, Rows>>
<1>1. LayerInv /\ ReceiverInv /\ MemoryInv /\ CountInv /\ arriving \in Arrivals /\ pass \in Passes
  BY DEF CoreInv, LayerInv
<1>2. /\ rpc[cs] = "recv" /\ head[cs] = Len(arriving[cs])
      /\ rpc' = [rpc EXCEPT ![cs] = "fire"]
      /\ unfenced' = [unfenced EXCEPT ![cs] = {}]
      /\ UNCHANGED <<pass, layerVars, head, smem_seen, fired, pool_arrival_count>>
  BY DEF Fence
<1>3. PICK new : new = [x \in Slots |-> IF Reaches(cs, x) = {} THEN pool[pass][x]
                          ELSE <<(CHOOSE w \in Reaches(cs, x) : TRUE).row>>]
  OBVIOUS
<1>4. pool' = [pool EXCEPT ![pass] = new]
  BY <1>3 DEF Fence
<1>6. pass = "fwd" =>
        /\ pool_recv_token' = [x \in Slots |->
             IF Reaches(cs, x) = {} THEN pool_recv_token[x]
             ELSE (CHOOSE w \in Reaches(cs, x) : TRUE).row]
        /\ recv_token_to_slots' = [r \in Rows |->
             IF r \in RowsWritten(cs) THEN SlotsWritten(cs, r) ELSE recv_token_to_slots[r]]
        /\ k_local_total' = [r \in Rows |->
             IF r \in RowsWritten(cs) THEN LocalK(SlotsWritten(cs, r)) ELSE k_local_total[r]]
  BY DEF Fence, RowsWritten, SlotsWritten
<1>7. pass # "fwd" => UNCHANGED <<pool_recv_token, recv_token_to_slots, k_local_total>>
  BY DEF Fence
<1>8. LayerInv' /\ UNCHANGED <<Tiles, Slots, Rows>>
  <2>1. DOMAIN k_local_total' = DOMAIN k_local_total
    BY <1>6, <1>7 DEF Rows
  <2> QED BY <1>1, <1>2, <2>1, LayerStays
<1>9. /\ arriving' = arriving /\ seen_per_substream' = seen_per_substream /\ pass' = pass
      /\ head' = head /\ smem_seen' = smem_seen
      /\ rpc'[cs] = "fire" /\ \A d \in Substreams \ {cs} : rpc'[d] = rpc[d]
      /\ rpc' \in [Substreams -> {"recv", "fire", "done"}]
  BY <1>1, <1>2 DEF ReceiverInv, layerVars
<1>10. ReceiverInv'
  <2>1. unfenced' = [c \in Substreams |-> IF rpc'[c] # "recv" THEN {} ELSE
           {[row |-> Row(arriving', c, i), slots |-> SlotsOfRow(arriving', c, i)] :
              i \in 1 .. head'[c]}]
    <3> DEFINE Copies(c) ==
                 {[row |-> Row(arriving, c, i), slots |-> SlotsOfRow(arriving, c, i)] :
                    i \in 1 .. head[c]}
    <3>1. unfenced = [c \in Substreams |-> IF rpc[c] # "recv" THEN {} ELSE Copies(c)]
      BY <1>1 DEF ReceiverInv
    <3>2. unfenced' = [c \in Substreams |-> IF rpc'[c] # "recv" THEN {} ELSE Copies(c)]
      <4> HIDE DEF Copies
      <4> QED BY <1>2, <1>9, <3>1
    <3> QED BY <1>9, <3>2
  <2>2. \A c \in Substreams, e \in Experts :
           smem_seen'[c][e] = IF pass' = "fwd"
             THEN SelectedIn(For(arriving', c, e), 1, head'[c] + 1)
             ELSE seen_per_substream'[c][e]
    BY <1>1, <1>9 DEF ReceiverInv
  <2>3. \A c \in Substreams :
           /\ head'[c] <= Len(arriving'[c])
           /\ rpc'[c] # "recv" => head'[c] = Len(arriving'[c])
    BY <1>1, <1>2, <1>9 DEF ReceiverInv
  <2>4. /\ head' \in [Substreams -> Nat] /\ smem_seen' \in [Substreams -> [Experts -> Nat]]
    BY <1>1, <1>9 DEF ReceiverInv
  <2> QED BY <1>9, <2>1, <2>2, <2>3, <2>4 DEF ReceiverInv
<1>11. CountInv'
  <2>1. \A t \in Tiles : Announced(t)' = Announced(t)
    BY <1>2, <1>9 DEF Announced
  <2> QED BY <1>1, <1>2, <1>8, <1>9, <2>1 DEF CountInv
<1>12. /\ Fenced(cs)' /\ \A d \in Substreams \ {cs} : Fenced(d)' = Fenced(d)
       /\ \A d \in Substreams \ {cs}, p \in Passes : Stored(p, d)' = Stored(p, d)
       /\ \A p \in Passes : p # pass => Stored(p, cs)' = Stored(p, cs)
  BY <1>9 DEF Fenced, Stored
<1>13. /\ \A i \in 1 .. Len(arriving[cs]), k \in K : arriving[cs][i][k] # -1 =>
             /\ Reaches(cs, SlotOf(arriving, cs, i, k)) # {}
             /\ (CHOOSE w \in Reaches(cs, SlotOf(arriving, cs, i, k)) : TRUE).row
                  = Row(arriving, cs, i)
       /\ \A x \in Slots : Reaches(cs, x) # {} =>
             /\ (CHOOSE w \in Reaches(cs, x) : TRUE).row \in Rows
             /\ \E i \in 1 .. Len(arriving[cs]), k \in K :
                  arriving[cs][i][k] # -1 /\ x = SlotOf(arriving, cs, i, k)
       /\ \A d \in Substreams : \A i \in 1 .. Len(arriving[d]), k \in K :
             d # cs /\ arriving[d][i][k] # -1 => Reaches(cs, SlotOf(arriving, d, i, k)) = {}
  BY FenceReaches
<1>14. \A d \in Substreams : \A i \in 1 .. Len(arriving[d]), k \in K :
         arriving[d][i][k] # -1 => SlotOf(arriving, d, i, k) \in Slots
  BY <1>1, RowsOfTokens
<1>15. /\ pool' \in [Passes -> [Slots -> Contents]]
       /\ \A d \in Substreams : \A i \in 1 .. Len(arriving[d]), k \in K, p \in Passes :
            arriving[d][i][k] # -1 /\ Stored(p, d)' =>
              pool'[p][SlotOf(arriving, d, i, k)] = <<Row(arriving, d, i)>>
  <2>1. pool \in [Passes -> [Slots -> Contents]]
    BY <1>1 DEF MemoryInv
  <2>2. new \in [Slots -> Contents]
    <3>1. \A x \in Slots : pool[pass][x] \in Contents
      BY <1>1, <2>1
    <3>2. \A x \in Slots : Reaches(cs, x) # {} =>
            <<(CHOOSE w \in Reaches(cs, x) : TRUE).row>> \in Contents
      BY <1>13 DEF Contents
    <3> QED BY <1>3, <3>1, <3>2
  <2>3. pool'[pass] = new /\ \A p \in Passes : p # pass => pool'[p] = pool[p]
    BY <1>1, <1>4, <2>1
  <2>4. ASSUME NEW d \in Substreams, NEW i \in 1 .. Len(arriving[d]), NEW k \in K,
               NEW p \in Passes, arriving[d][i][k] # -1, Stored(p, d)'
        PROVE  pool'[p][SlotOf(arriving, d, i, k)] = <<Row(arriving, d, i)>>
    <3>1. PICK x \in Slots : x = SlotOf(arriving, d, i, k)
      BY <1>14, <2>4
    <3>2. Stored(p, d) => pool[p][x] = <<Row(arriving, d, i)>>
      BY <1>1, <2>4, <3>1 DEF MemoryInv
    <3>3. CASE d = cs /\ p = pass
      <4>1. Reaches(cs, x) # {} /\ (CHOOSE w \in Reaches(cs, x) : TRUE).row = Row(arriving, d, i)
        BY <1>13, <2>4, <3>1, <3>3
      <4> QED BY <1>3, <2>3, <3>1, <3>3, <4>1
    <3>4. CASE p # pass
      <4>1. Stored(p, d)
        BY <1>12, <2>4, <3>4
      <4> QED BY <2>3, <3>1, <3>2, <3>4, <4>1
    <3>5. CASE d # cs /\ p = pass
      <4>1. Stored(p, d)
        BY <1>12, <2>4, <3>5
      <4>2. Reaches(cs, x) = {}
        BY <1>13, <2>4, <3>1, <3>5
      <4> QED BY <1>3, <2>3, <3>1, <3>2, <3>5, <4>1, <4>2
    <3> QED BY <3>3, <3>4, <3>5
  <2>5. pool' \in [Passes -> [Slots -> Contents]]
    BY <1>1, <1>4, <2>1, <2>2
  <2> QED BY <2>4, <2>5
<1>16. /\ pool_recv_token' \in [Slots -> Rows \cup {-1}]
       /\ \A d \in Substreams : \A i \in 1 .. Len(arriving[d]), k \in K :
            arriving[d][i][k] # -1 =>
              pool_recv_token'[SlotOf(arriving, d, i, k)]
                = IF Fenced(d)' THEN Row(arriving, d, i) ELSE -1
       /\ \A x \in Slots :
            (\A d \in Substreams, e \in Experts : x \notin Run(seen_per_substream, d, e))
              => pool_recv_token'[x] = -1
  <2>1. pool_recv_token \in [Slots -> Rows \cup {-1}]
    BY <1>1 DEF MemoryInv
  <2>2. ASSUME NEW d \in Substreams, NEW i \in 1 .. Len(arriving[d]), NEW k \in K,
               arriving[d][i][k] # -1
        PROVE  pool_recv_token'[SlotOf(arriving, d, i, k)]
                 = IF Fenced(d)' THEN Row(arriving, d, i) ELSE -1
    <3>1. PICK x \in Slots : x = SlotOf(arriving, d, i, k)
      BY <1>14, <2>2
    <3>2. pool_recv_token[x] = IF Fenced(d) THEN Row(arriving, d, i) ELSE -1
      BY <1>1, <2>2, <3>1 DEF MemoryInv
    <3>3. CASE pass # "fwd"
      <4>1. Fenced(d) /\ Fenced(d)'
        BY <1>1, <1>9, <3>3 DEF Fenced, Passes
      <4> QED BY <1>7, <3>1, <3>2, <3>3, <4>1
    <3>4. CASE pass = "fwd" /\ d = cs
      <4>1. Reaches(cs, x) # {} /\ (CHOOSE w \in Reaches(cs, x) : TRUE).row = Row(arriving, d, i)
        BY <1>13, <2>2, <3>1, <3>4
      <4> QED BY <1>6, <1>12, <3>1, <3>4, <4>1
    <3>5. CASE pass = "fwd" /\ d # cs
      <4>1. Reaches(cs, x) = {}
        BY <1>13, <2>2, <3>1, <3>5
      <4>2. Fenced(d)' = Fenced(d)
        BY <1>12, <3>5
      <4> QED BY <1>6, <3>1, <3>2, <3>5, <4>1, <4>2
    <3> QED BY <3>3, <3>4, <3>5
  <2>3. ASSUME NEW x \in Slots,
               \A d \in Substreams, e \in Experts : x \notin Run(seen_per_substream, d, e)
        PROVE  pool_recv_token'[x] = -1
    <3>1. pool_recv_token[x] = -1
      BY <1>1, <2>3 DEF MemoryInv
    <3>2. Reaches(cs, x) = {}
      <4>1. SUFFICES ASSUME NEW i \in 1 .. Len(arriving[cs]), NEW k \in K,
                            arriving[cs][i][k] # -1, x = SlotOf(arriving, cs, i, k)
                     PROVE  FALSE
        BY <1>13
      <4>2. arriving[cs][i][k] \in Experts /\ x \in Run(SeenIn(arriving), cs, arriving[cs][i][k])
        BY <1>1, <4>1, SlotInRun
      <4> QED BY <1>1, <2>3, <4>2 DEF LayerInv
    <3> QED BY <1>6, <1>7, <3>1, <3>2
  <2>4. pool_recv_token' \in [Slots -> Rows \cup {-1}]
    <3>1. \A x \in Slots : Reaches(cs, x) # {} => (CHOOSE w \in Reaches(cs, x) : TRUE).row \in Rows
      BY <1>13
    <3>2. \A x \in Slots : pool_recv_token[x] \in Rows \cup {-1}
      BY <2>1
    <3>3. CASE pass = "fwd"
      <4>1. PICK f : f = [x \in Slots |-> IF Reaches(cs, x) = {} THEN pool_recv_token[x]
                            ELSE (CHOOSE w \in Reaches(cs, x) : TRUE).row]
        OBVIOUS
      <4>2. f \in [Slots -> Rows \cup {-1}]
        BY <3>1, <3>2, <4>1
      <4> QED BY <1>6, <3>3, <4>1, <4>2
    <3> QED BY <1>7, <2>1, <3>3
  <2> QED BY <2>2, <2>3, <2>4
<1>17. /\ recv_token_to_slots' \in [Rows -> [K -> Slots \cup {-1}]]
       /\ k_local_total' \in [Rows -> 0 .. num_topk]
       /\ \A d \in Substreams : \A i \in 1 .. Len(arriving[d]) : Fenced(d)' =>
            /\ recv_token_to_slots'[Row(arriving, d, i)] = SlotsOfRow(arriving, d, i)
            /\ k_local_total'[Row(arriving, d, i)] = LocalK(SlotsOfRow(arriving, d, i))
  <2>1. /\ recv_token_to_slots \in [Rows -> [K -> Slots \cup {-1}]]
        /\ k_local_total \in [Rows -> 0 .. num_topk]
        /\ \A d \in Substreams : \A i \in 1 .. Len(arriving[d]) : Fenced(d) =>
             /\ recv_token_to_slots[Row(arriving, d, i)] = SlotsOfRow(arriving, d, i)
             /\ k_local_total[Row(arriving, d, i)] = LocalK(SlotsOfRow(arriving, d, i))
    BY <1>1 DEF MemoryInv
  <2>2. CASE pass # "fwd"
    <3>1. \A d \in Substreams : Fenced(d)
      BY <1>1, <2>2 DEF Fenced, Passes
    <3> QED BY <1>7, <2>1, <2>2, <3>1
  <2>3. CASE pass = "fwd"
    <3>1. \A r \in Rows :
            /\ \A i \in 1 .. Len(arriving[cs]) : r = Row(arriving, cs, i) =>
                 r \in RowsWritten(cs) /\ SlotsWritten(cs, r) = SlotsOfRow(arriving, cs, i)
            /\ r \in RowsWritten(cs) => \E i \in 1 .. Len(arriving[cs]) : r = Row(arriving, cs, i)
            /\ r \in RowsWritten(cs) =>
                 SlotsWritten(cs, r) \in [K -> Slots \cup {-1}] /\ LocalK(SlotsWritten(cs, r)) \in 0 .. num_topk
      BY FenceRows
    <3>2. /\ recv_token_to_slots' = [r \in Rows |->
               IF r \in RowsWritten(cs) THEN SlotsWritten(cs, r) ELSE recv_token_to_slots[r]]
          /\ k_local_total' = [r \in Rows |->
               IF r \in RowsWritten(cs) THEN LocalK(SlotsWritten(cs, r)) ELSE k_local_total[r]]
      BY <1>6, <2>3
    <3>3. recv_token_to_slots' \in [Rows -> [K -> Slots \cup {-1}]]
      BY <2>1, <3>1, <3>2
    <3>4. k_local_total' \in [Rows -> 0 .. num_topk]
      BY <2>1, <3>1, <3>2
    <3>5. ASSUME NEW d \in Substreams, NEW i \in 1 .. Len(arriving[d]), Fenced(d)'
          PROVE  /\ recv_token_to_slots'[Row(arriving, d, i)] = SlotsOfRow(arriving, d, i)
                 /\ k_local_total'[Row(arriving, d, i)] = LocalK(SlotsOfRow(arriving, d, i))
      <4>1. PICK r \in Rows : r = Row(arriving, d, i)
        BY <1>1, RowsOfTokens
      <4>2. CASE d = cs
        <5>1. r \in RowsWritten(cs) /\ SlotsWritten(cs, r) = SlotsOfRow(arriving, d, i)
          BY <3>1, <4>1, <4>2
        <5> QED BY <3>2, <4>1, <5>1
      <4>3. CASE d # cs
        <5>1. r \notin RowsWritten(cs)
          <6>1. SUFFICES ASSUME NEW l \in 1 .. Len(arriving[cs]), r = Row(arriving, cs, l)
                         PROVE  FALSE
            BY <3>1
          <6>2. Row(arriving, cs, l) = Row(arriving, d, i)
            BY <4>1, <6>1
          <6>3. cs = d
            BY <1>1, <6>2, RowsDiffer
          <6> QED BY <4>3, <6>3
        <5>2. Fenced(d)
          BY <1>12, <3>5, <4>3
        <5> QED BY <2>1, <3>2, <4>1, <5>1, <5>2
      <4> QED BY <4>2, <4>3
    <3> QED BY <3>3, <3>4, <3>5
  <2> QED BY <2>2, <2>3
<1>18. MemoryInv'
  <2>1. Contents' = Contents
    BY <1>8 DEF Contents
  <2> QED BY <1>8, <1>9, <1>15, <1>16, <1>17, <2>1 DEF MemoryInv
<1> QED BY <1>8, <1>10, <1>11, <1>18 DEF CoreInv

LEMMA AnnouncedFinite ==
  ASSUME LayerInv, NEW t \in Tiles
  PROVE  /\ IsFiniteSet(SlotsOf(t)) /\ IsFiniteSet(Announced(t))
         /\ Announced(t) \subseteq Covered(seen_per_substream, t)
         /\ Covered(seen_per_substream, t) \subseteq SlotsOf(t)
<1>1. /\ t * tile_m \in Nat /\ tile_m \in Nat
      /\ SlotsOf(t) = t * tile_m .. t * tile_m + tile_m - 1
  BY SlotsAndTiles, LayoutAssumption
<1>2. IsFiniteSet(SlotsOf(t))
  <2>1. PICK a, b \in Int : a = t * tile_m /\ b = t * tile_m + tile_m - 1
    BY <1>1
  <2> QED BY <1>1, <2>1, FS_Interval
<1>3. Announced(t) \subseteq Covered(seen_per_substream, t)
      /\ Covered(seen_per_substream, t) \subseteq SlotsOf(t)
  BY DEF Announced, Covered, SlotsOf
<1> QED BY <1>2, <1>3, FS_Subset

(* Pass 2 walks over exactly the slots of the substream's runs. *)
LEMMA AnnouncesRuns ==
  ASSUME CoreInv, NEW cs \in Substreams, rpc[cs] # "recv", NEW t \in Tiles
  PROVE  Announces(cs, t)
           = Cardinality({x \in SlotsOf(t) : \E e \in Experts : x \in Run(seen_per_substream, cs, e)})
<1>1. LayerInv /\ ReceiverInv /\ arriving \in Arrivals
  BY DEF CoreInv, LayerInv
<1>2. ASSUME NEW e \in Experts, NEW x \in SlotsOf(t)
      PROVE  InRun(cs, e, x) <=> x \in Run(seen_per_substream, cs, e)
  <2>1. Writes(cs, e) = seen_per_substream[cs][e]
    <3>1. smem_seen[cs][e] = IF pass = "fwd"
            THEN SelectedIn(For(arriving, cs, e), 1, Len(arriving[cs]) + 1)
            ELSE seen_per_substream[cs][e]
      BY <1>1 DEF ReceiverInv
    <3>2. seen_per_substream[cs][e] = SelectedIn(For(arriving, cs, e), 1, Len(arriving[cs]) + 1)
      BY <1>1, SeenCounts DEF LayerInv
    <3> QED BY <3>1, <3>2 DEF Writes
  <2>2. PICK b, n \in Nat : b = base_pool[cs][e] /\ b = BasePool(seen_per_substream, cs, e)
                            /\ n = seen_per_substream[cs][e]
    BY <1>1, Layout
  <2>3. x \in Int
    BY <1>1, SlotsAndTiles, Layout DEF Slots
  <2> QED BY <2>1, <2>2, <2>3 DEF InRun, Run
<1>3. {x \in SlotsOf(t) : \E e \in Experts : InRun(cs, e, x)}
        = {x \in SlotsOf(t) : \E e \in Experts : x \in Run(seen_per_substream, cs, e)}
  BY <1>2
<1> QED BY <1>3 DEF Announces

LEMMA FireBlockCore ==
  ASSUME CoreInv, NEW cs \in Substreams, FireBlock(cs)
  PROVE  CoreInv' /\ UNCHANGED <<Tiles, Slots, Rows>>
<1>1. LayerInv /\ ReceiverInv /\ MemoryInv /\ CountInv
  BY DEF CoreInv
<1>2. /\ rpc[cs] = "fire" /\ rpc' \in [Substreams -> {"recv", "fire", "done"}]
      /\ \A d \in Substreams : rpc'[d] # "recv" <=> rpc[d] # "recv"
  BY <1>1 DEF FireBlock, ReceiverInv
<1>3. UNCHANGED <<pass, layerVars, head, unfenced, smem_seen, poolVars>>
  BY DEF FireBlock
<1>4. MemoryInv' /\ LayerInv' /\ UNCHANGED <<Tiles, Slots, Rows>>
  BY <1>2, <1>3, MemoryStays
<1>5. arriving' = arriving /\ seen_per_substream' = seen_per_substream
  BY <1>3 DEF layerVars
<1>6. ReceiverInv'
  <2> DEFINE Copies(c) ==
               {[row |-> Row(arriving, c, i), slots |-> SlotsOfRow(arriving, c, i)] :
                  i \in 1 .. head[c]}
  <2>1. unfenced = [c \in Substreams |-> IF rpc[c] # "recv" THEN {} ELSE Copies(c)]
    BY <1>1 DEF ReceiverInv
  <2>2. unfenced' = [c \in Substreams |-> IF rpc'[c] # "recv" THEN {} ELSE Copies(c)]
    <3> HIDE DEF Copies
    <3> QED BY <1>2, <1>3, <2>1
  <2>3. unfenced' = [c \in Substreams |-> IF rpc'[c] # "recv" THEN {} ELSE
          {[row |-> Row(arriving', c, i), slots |-> SlotsOfRow(arriving', c, i)] :
             i \in 1 .. head'[c]}]
    BY <1>3, <1>5, <2>2
  <2>4. \A c \in Substreams, e \in Experts :
           smem_seen'[c][e] = IF pass' = "fwd"
             THEN SelectedIn(For(arriving', c, e), 1, head'[c] + 1)
             ELSE seen_per_substream'[c][e]
    BY <1>1, <1>3, <1>5 DEF ReceiverInv
  <2>5. \A c \in Substreams :
           /\ head'[c] <= Len(arriving'[c])
           /\ rpc'[c] # "recv" => head'[c] = Len(arriving'[c])
    BY <1>1, <1>2, <1>3, <1>5 DEF ReceiverInv
  <2>6. /\ head' \in [Substreams -> Nat] /\ smem_seen' \in [Substreams -> [Experts -> Nat]]
    BY <1>1, <1>3 DEF ReceiverInv
  <2> QED BY <1>2, <2>3, <2>4, <2>5, <2>6 DEF ReceiverInv
<1>7. CASE Unfired(cs) = {}
  <2>1. UNCHANGED <<fired, pool_arrival_count>>
    BY <1>7 DEF FireBlock
  <2>2. \A t \in Tiles : Announced(t)' = Announced(t)
    BY <1>5, <2>1 DEF Announced
  <2>3. CountInv'
    BY <1>1, <1>2, <1>4, <2>1, <2>2 DEF CountInv
  <2> QED BY <1>4, <1>6, <2>3 DEF CoreInv
<1>8. CASE Unfired(cs) # {}
  <2>1. PICK t : t = Min(Unfired(cs))
    OBVIOUS
  <2>2. t \in Unfired(cs)
    <3>1. Unfired(cs) \in SUBSET Nat
      BY <1>1, SlotsAndTiles DEF Unfired
    <3>2. PICK m \in Unfired(cs) : \A n \in Unfired(cs) : m <= n
      BY <1>8, <3>1, LeastElement
    <3> QED BY <2>1, <3>2 DEF Min
  <2>3. t \in Tiles /\ t \notin fired[cs]
    BY <2>2 DEF Unfired
  <2>4. /\ pool_arrival_count' = [pool_arrival_count EXCEPT ![t] = @ + Announces(cs, t)]
        /\ fired' = [fired EXCEPT ![cs] = @ \cup {t}]
    BY <1>8, <2>1 DEF FireBlock
  <2>5. /\ fired \in [Substreams -> SUBSET Tiles] /\ pool_arrival_count \in [Tiles -> Nat]
        /\ \A u \in Tiles : pool_arrival_count[u] = Cardinality(Announced(u))
        /\ \A d \in Substreams : fired[d] # {} => rpc[d] # "recv"
    BY <1>1 DEF CountInv
  <2>6. /\ fired' \in [Substreams -> SUBSET Tiles]
        /\ fired'[cs] = fired[cs] \cup {t} /\ \A d \in Substreams \ {cs} : fired'[d] = fired[d]
    BY <2>3, <2>4, <2>5
  <2>7. PICK New : New = {x \in SlotsOf(t) : \E e \in Experts : x \in Run(seen_per_substream, cs, e)}
    OBVIOUS
  <2>8. Announces(cs, t) = Cardinality(New)
    BY <1>2, <2>3, <2>7, AnnouncesRuns
  <2>9. Announced(t)' = Announced(t) \cup New
    <3>1. Announced(t)' = {x \in SlotsOf(t) : \E d \in Substreams, e \in Experts :
                             t \in fired'[d] /\ x \in Run(seen_per_substream, d, e)}
      BY <1>5 DEF Announced, SlotsOf
    <3>2. \A d \in Substreams : t \in fired'[d] <=> t \in fired[d] \/ d = cs
      BY <2>6
    <3> QED BY <2>7, <3>1, <3>2 DEF Announced
  <2>10. Announced(t) \cap New = {}
    <3>1. SUFFICES ASSUME NEW x \in Announced(t), x \in New PROVE FALSE
      OBVIOUS
    <3>2. PICK d \in Substreams, e \in Experts : t \in fired[d] /\ x \in Run(seen_per_substream, d, e)
      BY DEF Announced
    <3>3. PICK f \in Experts : x \in Run(seen_per_substream, cs, f)
      BY <2>7, <3>1
    <3>4. d = cs
      BY <1>1, <3>2, <3>3, Layout, RunsDisjoint
    <3> QED BY <2>3, <3>2, <3>4
  <2>11. /\ Cardinality(Announced(t) \cup New) = Cardinality(Announced(t)) + Cardinality(New)
         /\ Cardinality(New) \in Nat
    <3>1. IsFiniteSet(Announced(t)) /\ IsFiniteSet(New)
      <4>1. IsFiniteSet(SlotsOf(t)) /\ IsFiniteSet(Announced(t))
        BY <1>1, <2>3, AnnouncedFinite
      <4>2. New \subseteq SlotsOf(t)
        BY <2>7
      <4> QED BY <4>1, <4>2, FS_Subset
    <3>2. Cardinality(Announced(t)) \in Nat /\ Cardinality(New) \in Nat
      BY <3>1, FS_CardinalityType
    <3>3. Cardinality(Announced(t) \cap New) = 0
      BY <2>10, FS_EmptySet
    <3>4. Cardinality(Announced(t) \cup New)
            = Cardinality(Announced(t)) + Cardinality(New) - Cardinality(Announced(t) \cap New)
      BY <3>1, FS_Union
    <3> QED BY <3>2, <3>3, <3>4
  <2>12. pool_arrival_count' \in [Tiles -> Nat]
         /\ \A u \in Tiles : pool_arrival_count'[u] = Cardinality(Announced(u)')
    <3>1. pool_arrival_count'[t] = Cardinality(Announced(t)')
      BY <2>3, <2>4, <2>5, <2>8, <2>9, <2>11
    <3>2. ASSUME NEW u \in Tiles, u # t
          PROVE  pool_arrival_count'[u] = Cardinality(Announced(u)')
      <4>1. \A d \in Substreams : u \in fired'[d] <=> u \in fired[d]
        BY <2>6, <3>2
      <4>2. Announced(u)' = {x \in SlotsOf(u) : \E d \in Substreams, e \in Experts :
                               u \in fired'[d] /\ x \in Run(seen_per_substream, d, e)}
        BY <1>5 DEF Announced, SlotsOf
      <4>3. Announced(u)' = Announced(u)
        BY <4>1, <4>2 DEF Announced
      <4> QED BY <2>4, <2>5, <3>2, <4>3
    <3>3. pool_arrival_count' \in [Tiles -> Nat]
      BY <2>3, <2>4, <2>5, <2>8, <2>11
    <3> QED BY <3>1, <3>2, <3>3
  <2>13. \A d \in Substreams : fired'[d] # {} => rpc'[d] # "recv"
    BY <1>2, <2>5, <2>6
  <2>14. CountInv'
    BY <1>4, <2>6, <2>12, <2>13 DEF CountInv
  <2> QED BY <1>4, <1>6, <2>14 DEF CoreInv
<1> QED BY <1>7, <1>8

LEMMA LaunchBackwardCore ==
  ASSUME CoreInv, LaunchBackward
  PROVE  CoreInv' /\ UNCHANGED <<Tiles, Slots, Rows>>
<1>1. LayerInv /\ ReceiverInv /\ MemoryInv /\ CountInv
  BY DEF CoreInv
<1>2. /\ pass = "fwd" /\ pass' = "bwd"
      /\ \A cs \in Substreams : rpc[cs] = "done"
      /\ rpc' = [cs \in Substreams |-> "recv"] /\ head' = [cs \in Substreams |-> 0]
      /\ fired' = [cs \in Substreams |-> {}]
      /\ pool_arrival_count' = [t \in Tiles |-> 0]
      /\ UNCHANGED <<layerVars, unfenced, smem_seen, poolVars>>
  BY DEF LaunchBackward, PassOver
<1>3. /\ arriving' = arriving /\ seen_per_substream' = seen_per_substream
      /\ pool' = pool /\ pool_recv_token' = pool_recv_token
      /\ recv_token_to_slots' = recv_token_to_slots /\ k_local_total' = k_local_total
  BY <1>2 DEF layerVars, poolVars
<1>4. LayerInv' /\ UNCHANGED <<Tiles, Slots, Rows>>
  BY <1>1, <1>2, <1>3, LayerStays DEF Passes
<1>5. \A cs \in Substreams : Len(arriving[cs]) \in Nat /\ head[cs] = Len(arriving[cs])
  BY <1>1, <1>2, Routing DEF LayerInv, ReceiverInv
<1>6. ReceiverInv'
  <2>1. unfenced = [c \in Substreams |-> {}]
    BY <1>1, <1>2 DEF ReceiverInv
  <2>2. unfenced' = [c \in Substreams |-> IF rpc'[c] # "recv" THEN {} ELSE
          {[row |-> Row(arriving', c, i), slots |-> SlotsOfRow(arriving', c, i)] :
             i \in 1 .. head'[c]}]
    BY <1>2, <2>1
  <2>3. \A c \in Substreams, e \in Experts : smem_seen'[c][e] = seen_per_substream'[c][e]
    <3>1. \A c \in Substreams, e \in Experts :
            smem_seen[c][e] = SelectedIn(For(arriving, c, e), 1, Len(arriving[c]) + 1)
      BY <1>1, <1>2, <1>5 DEF ReceiverInv
    <3>2. \A c \in Substreams, e \in Experts : seen_per_substream[c][e]
            = SelectedIn(For(arriving, c, e), 1, Len(arriving[c]) + 1)
      BY <1>1, SeenCounts DEF LayerInv
    <3> QED BY <1>2, <1>3, <3>1, <3>2
  <2>4. /\ rpc' \in [Substreams -> {"recv", "fire", "done"}] /\ head' \in [Substreams -> Nat]
        /\ smem_seen' \in [Substreams -> [Experts -> Nat]]
    BY <1>1, <1>2 DEF ReceiverInv
  <2>5. \A c \in Substreams : head'[c] <= Len(arriving'[c]) /\ rpc'[c] = "recv"
    BY <1>2, <1>3, <1>5
  <2> QED BY <1>2, <2>2, <2>3, <2>4, <2>5 DEF ReceiverInv
<1>7. MemoryInv'
  <2>1. \A cs \in Substreams : Fenced(cs) /\ Fenced(cs)'
    BY <1>2 DEF Fenced
  <2>2. \A cs \in Substreams, p \in Passes : Stored(p, cs)' => Stored(p, cs)
    BY <1>2 DEF Stored, Passes
  <2>3. Contents' = Contents
    BY <1>4 DEF Contents
  <2> QED BY <1>1, <1>3, <1>4, <2>1, <2>2, <2>3 DEF MemoryInv
<1>8. CountInv'
  <2>1. \A t \in Tiles : Announced(t)' = {}
    BY <1>2 DEF Announced
  <2>2. Cardinality({}) = 0
    BY FS_EmptySet
  <2> QED BY <1>2, <1>4, <2>1, <2>2 DEF CountInv
<1> QED BY <1>4, <1>6, <1>7, <1>8 DEF CoreInv

LEMMA CoreNext ==
  ASSUME CoreInv, [Next]_vars
  PROVE  CoreInv' /\ UNCHANGED <<Tiles, Slots, Rows>>
<1>1. ASSUME NEW c \in CTAs, CTAStep(c) PROVE UNCHANGED coreVars
  BY <1>1 DEF CTAStep, Claim, AwaitTile, ComputeStripe, ScatterStripe, FinishStripe, CountDownRow,
              coreVars, layerVars, receiverVars, poolVars
<1>2. ASSUME NextKernel PROVE UNCHANGED coreVars
  BY <1>2 DEF NextKernel, coreVars
<1>3. ASSUME UNCHANGED vars PROVE UNCHANGED coreVars
  BY <1>3 DEF vars, coreVars
<1>4. ASSUME NEW cs \in Substreams, ReceiverStep(cs)
      PROVE  CoreInv' /\ UNCHANGED <<Tiles, Slots, Rows>>
  BY <1>4, ReceiveBatchCore, FenceCore, FireBlockCore DEF ReceiverStep
<1>5. ASSUME LaunchBackward PROVE CoreInv' /\ UNCHANGED <<Tiles, Slots, Rows>>
  BY <1>5, LaunchBackwardCore
<1>6. \/ NextKernel \/ LaunchBackward \/ UNCHANGED vars
      \/ \E cs \in Substreams : ReceiverStep(cs)
      \/ \E c \in CTAs : CTAStep(c)
  BY DEF Next, Terminated
<1> QED BY <1>1, <1>2, <1>3, <1>4, <1>5, <1>6, CoreStutters

(* In every reachable state, whatever the routing and the interleaving: the
   metadata is the layout of the routing, every receiver has dealt its slots
   in order, what is fenced is where the layout says, and the arrival counts
   are the slots that have been announced. *)
THEOREM CoreInvariant == Spec => []CoreInv
<1>1. Init => CoreInv
  BY InitCore
<1>2. CoreInv /\ [Next]_vars => CoreInv'
  BY CoreNext
<1> QED BY <1>1, <1>2, PTL DEF Spec

-----------------------------------------------------------------------------
(***************************************************************************)
(* Arrival counts and ready tiles.                                         *)
(***************************************************************************)
LEMMA CountMeetsTarget ==
  ASSUME CoreInv, NEW t \in Tiles
  PROVE  /\ pool_arrival_count[t] <= pool_arrival_target[t]
         /\ pool_arrival_count[t] \in Nat /\ pool_arrival_target[t] \in 1 .. tile_m
         /\ pool_arrival_target[t] = Cardinality(Covered(seen_per_substream, t))
         /\ pool_arrival_count[t] = pool_arrival_target[t]
              <=> Announced(t) = Covered(seen_per_substream, t)
<1>1. LayerInv /\ CountInv
  BY DEF CoreInv
<1>2. PICK C : C = Covered(seen_per_substream, t)
  OBVIOUS
<1>3. PICK A : A = Announced(t) /\ A \subseteq C
  BY <1>1, <1>2, AnnouncedFinite
<1>4. /\ IsFiniteSet(C) /\ Cardinality(C) = pool_arrival_target[t]
      /\ pool_arrival_target[t] \in 1 .. tile_m
  <2>1. SeenType(seen_per_substream) /\ t \in 0 .. TotalTiles(seen_per_substream) - 1
        /\ pool_arrival_target[t] = ArrivalTarget(seen_per_substream, t)
    BY <1>1, Layout
  <2> QED BY <1>2, <2>1, TargetIsCovered
<1>5. pool_arrival_count[t] = Cardinality(A)
  BY <1>1, <1>3 DEF CountInv
<1>6. /\ IsFiniteSet(A) /\ Cardinality(A) <= Cardinality(C)
      /\ Cardinality(A) = Cardinality(C) => A = C
  BY <1>3, <1>4, FS_Subset
<1>7. Cardinality(A) \in Nat
  BY <1>6, FS_CardinalityType
<1> QED BY <1>2, <1>3, <1>4, <1>5, <1>6, <1>7

(* The spin of the compute kernels ends on equality; no receiver ever adds
   past the target. *)
THEOREM NeverOvershoots == Spec => []ArrivalNeverOvershoots
<1>1. CoreInv => ArrivalNeverOvershoots
  BY CountMeetsTarget DEF ArrivalNeverOvershoots
<1> QED BY <1>1, CoreInvariant, PTL

(* A slot that names a row belongs to a pair of that row. *)
LEMMA Holder ==
  ASSUME CoreInv, NEW x \in Slots, pool_recv_token[x] # -1
  PROVE  \E cs \in Substreams : \E i \in 1 .. Len(arriving[cs]), k \in K :
           /\ arriving[cs][i][k] # -1 /\ x = SlotOf(arriving, cs, i, k)
           /\ arriving[cs][i][k] \in Experts
           /\ x \in Run(seen_per_substream, cs, arriving[cs][i][k])
           /\ Fenced(cs) /\ pool_recv_token[x] = Row(arriving, cs, i)
<1>1. LayerInv /\ MemoryInv /\ arriving \in Arrivals
  BY DEF CoreInv, LayerInv
<1>2. PICK cs \in Substreams, e \in Experts : x \in Run(seen_per_substream, cs, e)
  BY <1>1 DEF MemoryInv
<1>3. PICK i \in 1 .. Len(arriving[cs]), k \in K :
        arriving[cs][i][k] = e /\ SlotOf(arriving, cs, i, k) = x
  BY <1>1, <1>2, RunIsSlots DEF LayerInv
<1>4. arriving[cs][i][k] # -1
  BY <1>1, <1>3, Routing
<1>5. pool_recv_token[x] = IF Fenced(cs) THEN Row(arriving, cs, i) ELSE -1
  BY <1>1, <1>3, <1>4 DEF MemoryInv
<1> QED BY <1>2, <1>3, <1>4, <1>5

LEMMA RealRowsCount ==
  ASSUME CoreInv, NEW t \in Tiles
  PROVE  /\ IsFiniteSet(RealRows(t))
         /\ Cardinality(RealRows(t)) = Cardinality({x \in SlotsOf(t) : pool_recv_token[x] >= 0})
<1> DEFINE R == {x \in SlotsOf(t) : pool_recv_token[x] >= 0}
           g == [i \in RealRows(t) |-> t * tile_m + i]
<1>1. LayerInv
  BY DEF CoreInv
<1>2. PICK b, m \in Nat : b = t * tile_m /\ m = tile_m /\ SlotsOf(t) = b .. b + m - 1
  BY <1>1, SlotsAndTiles, LayoutAssumption
<1>3. RealRows(t) = {i \in 0 .. m - 1 : pool_recv_token[b + i] >= 0}
  BY <1>2 DEF RealRows
<1>4. IsFiniteSet(RealRows(t))
  <2>1. IsFiniteSet(0 .. m - 1)
    BY <1>2, FS_Interval
  <2>2. RealRows(t) \subseteq 0 .. m - 1
    BY <1>3
  <2> QED BY <2>1, <2>2, FS_Subset
<1>5. \A i \in RealRows(t) : b + i \in R
  BY <1>2, <1>3
<1>6. \A x \in R : x - b \in RealRows(t) /\ x = b + (x - b)
  <2>1. ASSUME NEW x \in R PROVE x - b \in RealRows(t) /\ x = b + (x - b)
    <3>1. x \in b .. b + m - 1 /\ pool_recv_token[x] >= 0
      BY <1>2
    <3>2. x - b \in 0 .. m - 1 /\ b + (x - b) = x
      BY <3>1
    <3> QED BY <1>3, <3>1, <3>2
  <2> QED BY <2>1
<1>7. \A i \in RealRows(t) : i \in Int
  BY <1>3
<1>8. g = [i \in RealRows(t) |-> b + i]
  BY <1>2
<1> HIDE DEF R, g
<1>9. g \in Surjection(RealRows(t), R)
  <2>1. g \in [RealRows(t) -> R]
    BY <1>5, <1>8
  <2>2. \A x \in R : \E i \in RealRows(t) : g[i] = x
    BY <1>6, <1>8
  <2> QED BY <2>1, <2>2 DEF Surjection
<1>10. g \in Injection(RealRows(t), R)
  <2>1. g \in [RealRows(t) -> R]
    BY <1>5, <1>8
  <2>2. ASSUME NEW i \in RealRows(t), NEW j \in RealRows(t), g[i] = g[j] PROVE i = j
    <3>1. b + i = b + j /\ i \in Int /\ j \in Int
      BY <1>7, <1>8, <2>2
    <3> QED BY <3>1
  <2> QED BY <2>1, <2>2 DEF Injection, IsInjective
<1>11. Cardinality(R) = Cardinality(RealRows(t))
  BY <1>4, <1>9, <1>10, FS_Surjection
<1> QED BY <1>4, <1>11 DEF R

LEMMA ReadyFilled ==
  ASSUME CoreInv, NEW t \in Tiles, Announced(t) = Covered(seen_per_substream, t)
  PROVE  /\ {x \in SlotsOf(t) : pool_recv_token[x] >= 0} = Covered(seen_per_substream, t)
         /\ \A x \in SlotsOf(t) : pool_recv_token[x] >= 0 =>
              /\ pool[pass][x] = <<pool_recv_token[x]>>
              /\ \E k \in K : recv_token_to_slots[pool_recv_token[x]][k] = x
              /\ k_local_total[pool_recv_token[x]]
                   = LocalK(recv_token_to_slots[pool_recv_token[x]])
<1>1. LayerInv /\ MemoryInv /\ CountInv /\ arriving \in Arrivals /\ pass \in Passes
  BY DEF CoreInv, LayerInv
<1>2. \A x \in SlotsOf(t) : x \in Slots
  BY <1>1, SlotsAndTiles
<1>3. \A r \in Rows : r \in Nat /\ r # -1
  BY <1>1, RowsOfTokens
<1>4. pool_recv_token \in [Slots -> Rows \cup {-1}]
  BY <1>1 DEF MemoryInv
<1>5. \A x \in Slots : pool_recv_token[x] >= 0 <=> pool_recv_token[x] # -1
  BY <1>3, <1>4
<1>6. ASSUME NEW x \in Covered(seen_per_substream, t) PROVE x \in SlotsOf(t) /\ pool_recv_token[x] >= 0
  <2>1. x \in SlotsOf(t) /\ x \in Announced(t)
    BY <1>6 DEF Announced
  <2>2. PICK cs \in Substreams, e \in Experts :
          t \in fired[cs] /\ x \in Run(seen_per_substream, cs, e)
    BY <2>1 DEF Announced
  <2>3. Fenced(cs)
    BY <1>1, <2>2 DEF CountInv, Fenced
  <2>4. PICK i \in 1 .. Len(arriving[cs]), k \in K :
          arriving[cs][i][k] = e /\ SlotOf(arriving, cs, i, k) = x
    BY <1>1, <2>2, RunIsSlots DEF LayerInv
  <2>5. arriving[cs][i][k] # -1
    BY <1>1, <2>4, Routing
  <2>6. pool_recv_token[x] = Row(arriving, cs, i)
    BY <1>1, <2>3, <2>4, <2>5 DEF MemoryInv
  <2>7. Row(arriving, cs, i) \in Rows
    BY <1>1, RowsOfTokens
  <2> QED BY <1>3, <2>1, <2>6, <2>7
<1>7. ASSUME NEW x \in SlotsOf(t), pool_recv_token[x] >= 0
      PROVE  /\ x \in Covered(seen_per_substream, t)
             /\ pool[pass][x] = <<pool_recv_token[x]>>
             /\ \E k \in K : recv_token_to_slots[pool_recv_token[x]][k] = x
             /\ k_local_total[pool_recv_token[x]]
                  = LocalK(recv_token_to_slots[pool_recv_token[x]])
  <2>1. pool_recv_token[x] # -1 /\ x \in Slots
    BY <1>2, <1>5, <1>7
  <2>2. PICK cs \in Substreams : \E i \in 1 .. Len(arriving[cs]), k \in K :
           /\ arriving[cs][i][k] # -1 /\ x = SlotOf(arriving, cs, i, k)
           /\ arriving[cs][i][k] \in Experts
           /\ x \in Run(seen_per_substream, cs, arriving[cs][i][k])
           /\ Fenced(cs) /\ pool_recv_token[x] = Row(arriving, cs, i)
    BY <2>1, Holder
  <2>a. PICK i \in 1 .. Len(arriving[cs]), k \in K :
           /\ arriving[cs][i][k] # -1 /\ x = SlotOf(arriving, cs, i, k)
           /\ arriving[cs][i][k] \in Experts
           /\ x \in Run(seen_per_substream, cs, arriving[cs][i][k])
           /\ Fenced(cs) /\ pool_recv_token[x] = Row(arriving, cs, i)
    BY <2>2
  <2>3. x \in Covered(seen_per_substream, t)
    BY <2>a DEF Covered, SlotsOf
  <2>4. PICK d \in Substreams, f \in Experts :
          t \in fired[d] /\ x \in Run(seen_per_substream, d, f)
    BY <2>3 DEF Announced
  <2>5. d = cs
    BY <1>1, <2>a, <2>4, Layout, RunsDisjoint
  <2>6. Stored(pass, cs)
    BY <1>1, <2>4, <2>5 DEF CountInv, Stored
  <2>7. pool[pass][x] = <<Row(arriving, cs, i)>>
    BY <1>1, <2>a, <2>6 DEF MemoryInv
  <2>8. /\ recv_token_to_slots[Row(arriving, cs, i)] = SlotsOfRow(arriving, cs, i)
        /\ k_local_total[Row(arriving, cs, i)] = LocalK(SlotsOfRow(arriving, cs, i))
    BY <1>1, <2>a DEF MemoryInv
  <2>9. SlotsOfRow(arriving, cs, i)[k] = x
    BY <2>a DEF SlotsOfRow
  <2> QED BY <2>a, <2>3, <2>7, <2>8, <2>9
<1> QED BY <1>6, <1>7

(* A tile whose count has met its target is complete: each slot that belongs
   to a token names the token's row and holds its data, fenced, and the row
   knows the slot and how many experts it waits for. *)
THEOREM ReadyMeansFilled == Spec => []ReadyTileIsFilled
<1>1. ASSUME CoreInv PROVE ReadyTileIsFilled
  <2>1. SUFFICES ASSUME NEW t \in Tiles, pool_arrival_count[t] = pool_arrival_target[t]
                 PROVE  /\ Cardinality(RealRows(t)) = pool_arrival_target[t]
                        /\ \A x \in SlotsOf(t) : pool_recv_token[x] >= 0 =>
                             /\ pool[pass][x] = <<pool_recv_token[x]>>
                             /\ \E k \in K : recv_token_to_slots[pool_recv_token[x]][k] = x
                             /\ k_local_total[pool_recv_token[x]]
                                  = LocalK(recv_token_to_slots[pool_recv_token[x]])
    BY DEF ReadyTileIsFilled
  <2>2. Announced(t) = Covered(seen_per_substream, t)
        /\ pool_arrival_target[t] = Cardinality(Covered(seen_per_substream, t))
    BY <1>1, <2>1, CountMeetsTarget
  <2>3. Cardinality(RealRows(t)) = pool_arrival_target[t]
    BY <1>1, <2>2, ReadyFilled, RealRowsCount
  <2> QED BY <1>1, <2>2, <2>3, ReadyFilled
<1> QED BY <1>1, CoreInvariant, PTL

-----------------------------------------------------------------------------
(***************************************************************************)
(* Slots are arrival ranks.                                                *)
(***************************************************************************)
(* A function that grows like the prefix sums is the prefix sums. *)
LEMMA PrefixUnique ==
  ASSUME NEW N \in Nat, NEW F, \A d \in 0 .. N - 1 : F[d] \in Nat,
         NEW G, G[0] = 0, \A n \in 0 .. N - 1 : G[n + 1] = G[n] + F[n]
  PROVE  \A n \in 0 .. N : G[n] = Prefix(F, n)
<1>1. SUFFICES ASSUME NEW b \in 0 .. N, G[b] # Prefix(F, b) PROVE FALSE
  OBVIOUS
<1> DEFINE Differ == {n \in 0 .. N : G[n] # Prefix(F, n)}
<1>2. Differ \in SUBSET Nat /\ Differ # {}
  BY <1>1
<1>3. PICK m \in Differ : \A n \in Differ : m <= n
  <2> HIDE DEF Differ
  <2> QED BY <1>2, LeastElement
<1>4. Prefix(F, 0) = 0 /\ \A n \in 0 .. N - 1 : Prefix(F, n + 1) = Prefix(F, n) + F[n]
  BY PrefixSums
<1>5. m # 0
  BY <1>3, <1>4
<1>6. PICK n \in 0 .. N - 1 : m = n + 1
  BY <1>3, <1>5
<1>7. n \notin Differ
  BY <1>3, <1>6
<1>8. G[n] = Prefix(F, n)
  BY <1>7
<1> QED BY <1>3, <1>4, <1>6, <1>8

(* The tokens of the substreams below n for expert e. *)
ForBelow(a, e, n) == {p \in (0 .. n - 1) \X Nat : p[2] \in For(a, p[1], e)}
Tagged(a, cs, e, S) == {p \in {cs} \X Nat : p[2] \in S}

LEMMA TaggedCount ==
  ASSUME NEW a, NEW cs, NEW e, NEW S \in SUBSET Nat, IsFiniteSet(S)
  PROVE  IsFiniteSet(Tagged(a, cs, e, S)) /\ Cardinality(Tagged(a, cs, e, S)) = Cardinality(S)
<1> DEFINE T == Tagged(a, cs, e, S)
           g == [i \in S |-> <<cs, i>>]
<1>1. \A i \in S : <<cs, i>> \in T
  BY DEF Tagged
<1>2. \A p \in T : p[2] \in S /\ p = <<cs, p[2]>>
  BY DEF Tagged
<1> HIDE DEF T
<1>3. g \in Surjection(S, T) /\ g \in Injection(S, T)
  <2>1. g \in [S -> T]
    BY <1>1
  <2>2. \A p \in T : \E i \in S : g[i] = p
    BY <1>2
  <2>3. \A i, j \in S : g[i] = g[j] => i = j
    OBVIOUS
  <2> HIDE DEF g
  <2> QED BY <2>1, <2>2, <2>3 DEF Surjection, Injection, IsInjective
<1> HIDE DEF g
<1>4. IsFiniteSet(T) /\ Cardinality(T) = Cardinality(S)
  BY <1>3, FS_Surjection
<1> QED BY <1>4 DEF T

LEMMA ForBelowCount ==
  ASSUME NEW a \in Arrivals, NEW e \in Experts
  PROVE  \A n \in 0 .. NumSubstreams :
           /\ IsFiniteSet(ForBelow(a, e, n))
           /\ Cardinality(ForBelow(a, e, n)) = Prefix(SeenOf(SeenIn(a), e), n)
<1>1. PICK N \in Nat : N = NumSubstreams
  BY LayoutAssumption
<1>2. PICK F : F = SeenOf(SeenIn(a), e)
  OBVIOUS
<1>3. \A d \in 0 .. N - 1 : d \in Substreams
  BY <1>1 DEF Substreams
<1>4. \A d \in 0 .. N - 1 : F[d] \in Nat /\ F[d] = Cardinality(For(a, d, e))
  <2>1. ASSUME NEW d \in 0 .. N - 1 PROVE F[d] = Cardinality(For(a, d, e))
    BY <1>2, <1>3 DEF SeenOf, SeenIn, For
  <2>2. ASSUME NEW d \in 0 .. N - 1 PROVE Cardinality(For(a, d, e)) \in Nat
    BY <1>3, ForType, FS_CardinalityType
  <2> QED BY <2>1, <2>2
<1>5. ForBelow(a, e, 0) = {}
  BY DEF ForBelow
<1>6. ASSUME NEW n \in 0 .. N - 1
      PROVE  /\ ForBelow(a, e, n + 1) = ForBelow(a, e, n) \cup Tagged(a, n, e, For(a, n, e))
             /\ ForBelow(a, e, n) \cap Tagged(a, n, e, For(a, n, e)) = {}
  <2>1. \A d : d \in 0 .. (n + 1) - 1 <=> d \in 0 .. n - 1 \/ d = n
    OBVIOUS
  <2>2. n \notin 0 .. n - 1
    OBVIOUS
  <2> QED BY <2>1, <2>2 DEF ForBelow, Tagged
<1>7. \A n \in 0 .. N : IsFiniteSet(ForBelow(a, e, n))
  <2>1. SUFFICES ASSUME NEW b \in 0 .. N, ~IsFiniteSet(ForBelow(a, e, b)) PROVE FALSE
    OBVIOUS
  <2> DEFINE Bad == {n \in 0 .. N : ~IsFiniteSet(ForBelow(a, e, n))}
  <2>2. Bad \in SUBSET Nat /\ Bad # {}
    BY <2>1
  <2>3. PICK m \in Bad : \A n \in Bad : m <= n
    <3> HIDE DEF Bad
    <3> QED BY <2>2, LeastElement
  <2>4. m # 0
    BY <1>5, <2>3, FS_EmptySet
  <2>5. PICK n \in 0 .. N - 1 : m = n + 1
    BY <2>3, <2>4
  <2>6. n \in 0 .. N /\ IsFiniteSet(ForBelow(a, e, n))
    BY <2>3, <2>5
  <2>7. IsFiniteSet(Tagged(a, n, e, For(a, n, e)))
    BY <1>3, ForType, TaggedCount
  <2>8. IsFiniteSet(ForBelow(a, e, n) \cup Tagged(a, n, e, For(a, n, e)))
    BY <2>6, <2>7, FS_Union
  <2> QED BY <1>6, <2>3, <2>5, <2>8
<1>8. ASSUME NEW n \in 0 .. N - 1
      PROVE  Cardinality(ForBelow(a, e, n + 1)) = Cardinality(ForBelow(a, e, n)) + F[n]
  <2>1. PICK P, Q : P = ForBelow(a, e, n) /\ Q = Tagged(a, n, e, For(a, n, e))
    OBVIOUS
  <2>2. IsFiniteSet(P) /\ IsFiniteSet(Q) /\ Cardinality(Q) = F[n]
    <3>1. n \in 0 .. N /\ n \in Substreams
      BY <1>3
    <3>2. For(a, n, e) \in SUBSET Nat /\ IsFiniteSet(For(a, n, e))
      BY <3>1, ForType
    <3> QED BY <1>4, <1>7, <2>1, <3>1, <3>2, TaggedCount
  <2>3. Cardinality(P \cap Q) = 0
    BY <1>6, <2>1, FS_EmptySet
  <2>4. Cardinality(P \cup Q) = Cardinality(P) + Cardinality(Q) - Cardinality(P \cap Q)
    BY <2>2, FS_Union
  <2>5. Cardinality(P) \in Nat /\ Cardinality(Q) \in Nat
    BY <2>2, FS_CardinalityType
  <2>6. Cardinality(P \cup Q) = Cardinality(P) + F[n]
    BY <2>2, <2>3, <2>4, <2>5
  <2> QED BY <1>6, <2>1, <2>6
<1>9. PICK G : G = [n \in 0 .. N |-> Cardinality(ForBelow(a, e, n))]
  OBVIOUS
<1>10. G[0] = 0 /\ \A n \in 0 .. N - 1 : G[n + 1] = G[n] + F[n]
  <2>1. G[0] = 0
    BY <1>5, <1>9, FS_EmptySet
  <2>2. \A n \in 0 .. N - 1 : n \in 0 .. N /\ n + 1 \in 0 .. N
    OBVIOUS
  <2> QED BY <1>8, <1>9, <2>1, <2>2
<1>11. \A n \in 0 .. N : G[n] = Prefix(F, n)
  BY <1>4, <1>10, PrefixUnique
<1> QED BY <1>1, <1>2, <1>7, <1>9, <1>11

(* The pairs that are routed to an expert before token i of substream cs. *)
EarlierPairs(cs, i, e) ==
  {p \in Substreams \X (1 .. Cardinality(Rows)) :
     /\ p[2] <= Len(arriving[p[1]]) /\ (p[1] < cs \/ (p[1] = cs /\ p[2] < i))
     /\ \E k \in K : arriving[p[1]][p[2]][k] = e}

LEMMA SlotIsRank ==
  ASSUME LayerInv, NEW cs \in Substreams, NEW i \in 1 .. Len(arriving[cs]), NEW k \in K,
         arriving[cs][i][k] # -1
  PROVE  SlotOf(arriving, cs, i, k)
           = expert_pool_block_offset[arriving[cs][i][k]] * tile_m
               + Cardinality(EarlierPairs(cs, i, arriving[cs][i][k]))
<1>1. arriving \in Arrivals /\ Rows = 0 .. NumRows(arriving) - 1
  BY DEF LayerInv
<1>2. PICK e \in Experts : e = arriving[cs][i][k]
  BY <1>1, Routing
<1>3. PICK M \in SUBSET Nat : M = For(arriving, cs, e) /\ M \subseteq 1 .. Len(arriving[cs])
                              /\ IsFiniteSet(M)
  BY <1>1, ForType
<1>4. PICK S : S = {t \in M : 1 <= t /\ t < i}
  OBVIOUS
<1>5. PICK P : P = ForBelow(arriving, e, cs)
  OBVIOUS
<1>6. PICK Q : Q = Tagged(arriving, cs, e, S)
  OBVIOUS
<1>7. cs \in 0 .. NumSubstreams /\ cs \in Nat /\ Len(arriving[cs]) \in Nat /\ i \in Nat
  BY <1>1, LayoutAssumption, Routing DEF Substreams
<1>8. PICK n \in Nat : n = Cardinality(Rows) /\ \A d \in Substreams : Len(arriving[d]) <= n
  <2>1. NumRows(arriving) \in Nat /\ \A d \in Substreams : FirstRow(arriving, d) \in Nat
        /\ Len(arriving[d]) \in Nat /\ FirstRow(arriving, d) + Len(arriving[d]) <= NumRows(arriving)
    BY <1>1, RowBlocks, Routing
  <2>2. PICK z \in Int : z = NumRows(arriving) - 1
    BY <2>1
  <2>3. Cardinality(0 .. z) = IF 0 > z THEN 0 ELSE z - 0 + 1
    <3>1. 0 \in Int
      OBVIOUS
    <3> QED BY <2>2, <3>1, FS_Interval
  <2>4. Cardinality(Rows) = NumRows(arriving)
    BY <1>1, <2>1, <2>2, <2>3
  <2>5. \A d \in Substreams : Len(arriving[d]) <= NumRows(arriving)
    BY <2>1
  <2> QED BY <2>1, <2>4, <2>5
<1>9. EarlierPairs(cs, i, e) = P \cup Q
  <2>1. \A d \in 0 .. cs - 1 : d \in Substreams /\ d < cs
    BY <1>7, LayoutAssumption DEF Substreams
  <2>2. \A d \in Substreams : d \in Int /\ (d < cs => d \in 0 .. cs - 1)
    BY LayoutAssumption DEF Substreams
  <2>3. \A d \in Substreams : \A l \in For(arriving, d, e) :
          l \in 1 .. n /\ l \in Nat /\ l <= Len(arriving[d])
    <3>1. \A d \in Substreams : Len(arriving[d]) \in Nat
      BY <1>1, Routing
    <3> QED BY <1>1, <1>8, <3>1 DEF For
  <2>4. \A d \in Substreams : \A l \in 1 .. n :
          l \in For(arriving, d, e) <=> l <= Len(arriving[d])
                                         /\ \E j \in K : arriving[d][l][j] = e
    <3>1. \A d \in Substreams : Len(arriving[d]) \in Nat
      BY <1>1, Routing
    <3> QED BY <3>1 DEF For
  <2>5. ASSUME NEW p \in EarlierPairs(cs, i, e) PROVE p \in P \cup Q
    <3>1. PICK d \in Substreams, l \in 1 .. n : p = <<d, l>>
      BY <1>8 DEF EarlierPairs
    <3>2. l \in For(arriving, d, e) /\ l \in Nat /\ (d < cs \/ (d = cs /\ l < i))
      BY <1>8, <2>4, <3>1 DEF EarlierPairs
    <3>3. CASE d < cs
      BY <1>5, <2>2, <3>1, <3>2, <3>3 DEF ForBelow
    <3>4. CASE d = cs /\ l < i
      BY <1>3, <1>4, <1>6, <3>1, <3>2, <3>4 DEF Tagged
    <3> QED BY <3>2, <3>3, <3>4
  <2>6. ASSUME NEW p \in P PROVE p \in EarlierPairs(cs, i, e)
    <3>1. PICK d \in 0 .. cs - 1, l \in Nat : p = <<d, l>> /\ l \in For(arriving, d, e)
      BY <1>5 DEF ForBelow
    <3>2. l \in 1 .. n /\ d \in Substreams /\ d < cs /\ l <= Len(arriving[d])
          /\ \E j \in K : arriving[d][l][j] = e
      BY <2>1, <2>3, <2>4, <3>1
    <3> QED BY <1>8, <3>1, <3>2 DEF EarlierPairs
  <2>7. ASSUME NEW p \in Q PROVE p \in EarlierPairs(cs, i, e)
    <3>1. PICK l \in Nat : p = <<cs, l>> /\ l \in S
      BY <1>6 DEF Tagged
    <3>2. l \in For(arriving, cs, e) /\ l < i
      BY <1>3, <1>4, <3>1
    <3>3. l \in 1 .. n /\ l <= Len(arriving[cs]) /\ \E j \in K : arriving[cs][l][j] = e
      BY <2>3, <2>4, <3>2
    <3> QED BY <1>8, <3>1, <3>2, <3>3 DEF EarlierPairs
  <2> QED BY <2>5, <2>6, <2>7
<1>10. P \cap Q = {}
  <2>1. cs \notin 0 .. cs - 1
    BY <1>7
  <2> QED BY <1>5, <1>6, <2>1 DEF ForBelow, Tagged
<1>11. IsFiniteSet(P) /\ Cardinality(P) = Prefix(SeenOf(SeenIn(arriving), e), cs)
  BY <1>1, <1>5, <1>7, ForBelowCount
<1>12. S \in SUBSET Nat /\ IsFiniteSet(S) /\ Cardinality(S) = SelectedIn(M, 1, i)
  BY <1>3, <1>4, FS_Subset DEF SelectedIn
<1>13. IsFiniteSet(Q) /\ Cardinality(Q) = SelectedIn(M, 1, i)
  BY <1>6, <1>12, TaggedCount
<1>14. Cardinality(P \cup Q) = Cardinality(P) + Cardinality(Q)
       /\ Cardinality(P) \in Nat /\ Cardinality(Q) \in Nat
  <2>1. Cardinality(P \cap Q) = 0
    BY <1>10, FS_EmptySet
  <2>2. Cardinality(P \cup Q) = Cardinality(P) + Cardinality(Q) - Cardinality(P \cap Q)
    BY <1>11, <1>13, FS_Union
  <2>3. Cardinality(P) \in Nat /\ Cardinality(Q) \in Nat
    BY <1>11, <1>13, FS_CardinalityType
  <2> QED BY <2>1, <2>2, <2>3
<1>15. BasePool(SeenIn(arriving), cs, e)
         = BlockOffset(SeenIn(arriving), e) * tile_m + Prefix(SeenOf(SeenIn(arriving), e), cs)
  BY <1>1, <1>7, SeenCounts, FrequencyIsPrefix
<1>16. expert_pool_block_offset[e] = BlockOffset(SeenIn(arriving), e)
  <2>1. e \in 0 .. NumExperts
    BY LayoutAssumption DEF Experts
  <2> QED BY <2>1 DEF LayerInv
<1>17. PICK b \in Nat : b = BlockOffset(SeenIn(arriving), e) * tile_m
  BY <1>1, SeenCounts, ExpertTiles
<1>18. SlotOf(arriving, cs, i, k) = b + Cardinality(P) + Cardinality(Q)
  BY <1>2, <1>3, <1>11, <1>13, <1>15, <1>17, Routing, <1>1 DEF SlotOf
<1> QED BY <1>2, <1>9, <1>14, <1>16, <1>17, <1>18

(* Whatever batches the rings deliver and whichever substream is ahead, the
   slot of a pair is the number of the pairs before it, in the order of the
   substreams and of their tokens, from the expert's first slot on. *)
THEOREM SlotsAreRanks == Spec => []SlotIsArrivalRank
<1>1. ASSUME CoreInv PROVE SlotIsArrivalRank
  <2> DEFINE expected(cs, i) ==
               [k \in K |-> IF arriving[cs][i][k] = -1 THEN -1
                            ELSE expert_pool_block_offset[arriving[cs][i][k]] * tile_m
                                   + Cardinality(EarlierPairs(cs, i, arriving[cs][i][k]))]
  <2>1. LayerInv /\ ReceiverInv /\ MemoryInv /\ arriving \in Arrivals
    BY <1>1 DEF CoreInv, LayerInv
  <2>2. ASSUME NEW cs \in Substreams, NEW i \in 1 .. Len(arriving[cs])
        PROVE  SlotsOfRow(arriving, cs, i) = expected(cs, i)
    <3>1. \A k \in K : arriving[cs][i][k] = -1 => SlotOf(arriving, cs, i, k) = -1
      BY DEF SlotOf
    <3>2. \A k \in K : arriving[cs][i][k] # -1 => SlotOf(arriving, cs, i, k)
             = expert_pool_block_offset[arriving[cs][i][k]] * tile_m
                 + Cardinality(EarlierPairs(cs, i, arriving[cs][i][k]))
      BY <2>1, SlotIsRank
    <3> QED BY <3>1, <3>2 DEF SlotsOfRow
  <2> HIDE DEF expected
  <2>3. ASSUME NEW cs \in Substreams, NEW i \in 1 .. Len(arriving[cs])
        PROVE  /\ \A w \in unfenced[cs] : w.row = RowOf(cs, i) => w.slots = expected(cs, i)
               /\ (pass = "bwd" \/ rpc[cs] # "recv") =>
                    recv_token_to_slots[RowOf(cs, i)] = expected(cs, i)
    <3>1. RowOf(cs, i) = Row(arriving, cs, i)
      BY <2>1, RowsOfTokens
    <3>2. ASSUME NEW w \in unfenced[cs], w.row = RowOf(cs, i) PROVE w.slots = expected(cs, i)
      <4>1. rpc[cs] = "recv" /\ head[cs] \in Nat /\ head[cs] <= Len(arriving[cs])
            /\ w \in {[row |-> Row(arriving, cs, l), slots |-> SlotsOfRow(arriving, cs, l)] :
                        l \in 1 .. head[cs]}
        BY <2>1 DEF ReceiverInv
      <4>2. PICK l \in 1 .. head[cs] :
              w = [row |-> Row(arriving, cs, l), slots |-> SlotsOfRow(arriving, cs, l)]
        BY <4>1
      <4>3. l \in 1 .. Len(arriving[cs]) /\ Row(arriving, cs, l) = Row(arriving, cs, i)
        <5>1. Len(arriving[cs]) \in Nat
          BY <2>1, Routing
        <5> QED BY <3>1, <3>2, <4>1, <4>2, <5>1
      <4>4. l = i
        BY <2>1, <4>3, RowsDiffer
      <4> QED BY <2>2, <4>2, <4>4
    <3>3. ASSUME pass = "bwd" \/ rpc[cs] # "recv"
          PROVE  recv_token_to_slots[RowOf(cs, i)] = expected(cs, i)
      <4>1. Fenced(cs)
        BY <3>3 DEF Fenced
      <4> QED BY <2>1, <2>2, <3>1, <4>1 DEF MemoryInv
    <3> QED BY <3>2, <3>3
  <2> QED BY <2>3 DEF SlotIsArrivalRank, EarlierPairs, expected
<1> QED BY <1>1, CoreInvariant, PTL

-----------------------------------------------------------------------------
(***************************************************************************)
(* The compute stream: tickets, tiles in work, rows counted down.          *)
(***************************************************************************)
LEMMA StripesType ==
  ASSUME pass \in Passes, NEW k \in 1 .. 2
  PROVE  /\ Stripes(k) \in Nat \ {0} /\ NumPidN[pass][k] \in Nat \ {0}
         /\ NumPidN[pass][k] <= Stripes(k)
         /\ Stripes(1) = NumPidN[pass][1]
<1>1. NumPidN[pass][1] \in Nat \ {0} /\ NumPidN[pass][k] \in Nat \ {0}
  BY StreamAssumption
<1>2. PICK n : n = IF pass = "fwd" THEN cluster_n ELSE 1
  OBVIOUS
<1>3. n \in Nat \ {0} /\ NumPidN[pass][1] % n = 0
  <2>1. CASE pass = "fwd"
    BY <1>2, <2>1, StreamAssumption
  <2>2. CASE pass # "fwd"
    <3>1. n = 1 /\ NumPidN[pass][1] % 1 = 0
      BY <1>1, <1>2, <2>2
    <3> QED BY <3>1
  <2> QED BY <2>1, <2>2
<1>4. Stripes(k) = CeilDiv(NumPidN[pass][k], n) * n
      /\ Stripes(1) = CeilDiv(NumPidN[pass][1], n) * n
  BY <1>2 DEF Stripes
<1>5. NumPidN[pass][k] \in Nat /\ NumPidN[pass][1] \in Nat
  BY <1>1
<1>6. /\ CeilDiv(NumPidN[pass][k], n) * n \in Nat
      /\ NumPidN[pass][k] <= CeilDiv(NumPidN[pass][k], n) * n
  BY <1>3, <1>5, CeilBounds
<1>7. CeilDiv(NumPidN[pass][1], n) * n = NumPidN[pass][1]
  BY <1>3, <1>5, CeilBounds
<1> QED BY <1>1, <1>4, <1>6, <1>7

(* A ticket is a stripe of one tile; taking it raises that tile's draw. *)
LEMMA Ticket ==
  ASSUME NEW T \in Nat, NEW S \in Nat \ {0}, NEW h \in Nat, h < T * S
  PROVE  /\ h \div S \in 0 .. T - 1 /\ h % S \in 0 .. S - 1
         /\ \A t \in Nat : DrawnOf(h + 1, S, t) = DrawnOf(h, S, t) + (IF t = h \div S THEN 1 ELSE 0)
<1>1. PICK q \in Nat, r \in 0 .. S - 1 : h = q * S + r /\ q = h \div S /\ r = h % S
  <2>1. h \div S \in Nat /\ h % S \in 0 .. S - 1 /\ h = (h \div S) * S + (h % S)
    OBVIOUS
  <2> QED BY <2>1
<1>2. S \in Nat
  OBVIOUS
<1>3. q * S \in Nat /\ (q + 1) * S = q * S + S
  BY <1>1
<1>4. q < T
  <2>1. T <= q => T * S <= q * S
    BY <1>2, Products
  <2>2. T * S \in Nat
    BY <1>2, Products
  <2> QED BY <1>1, <1>3, <2>1, <2>2
<1>5. ASSUME NEW t \in Nat
      PROVE  DrawnOf(h + 1, S, t) = DrawnOf(h, S, t) + (IF t = q THEN 1 ELSE 0)
  <2>1. PICK tS, qS \in Nat : tS = t * S /\ qS = q * S
    BY <1>2, Products
  <2>2. (t + 1) * S = tS + S
    BY <1>2, <2>1
  <2>3. t < q => tS + S <= qS
    <3>1. t + 1 \in Nat
      OBVIOUS
    <3>2. t + 1 <= q => (t + 1) * S <= q * S
      BY <1>2, <3>1, Products
    <3> QED BY <2>1, <2>2, <3>2
  <2>4. q < t => qS + S <= tS
    <3>1. q + 1 \in Nat
      OBVIOUS
    <3>2. q + 1 <= t => (q + 1) * S <= t * S
      BY <1>2, <3>1, Products
    <3> QED BY <1>3, <2>1, <3>2
  <2>5. h = qS + r
    BY <1>1, <2>1
  <2>6. DrawnOf(h, S, t) = IF h <= tS THEN 0 ELSE IF h >= tS + S THEN S ELSE h - tS
    BY <2>1, <2>2 DEF DrawnOf
  <2>7. DrawnOf(h + 1, S, t) = IF h + 1 <= tS THEN 0 ELSE IF h + 1 >= tS + S THEN S ELSE h + 1 - tS
    BY <2>1, <2>2 DEF DrawnOf
  <2>8. CASE t < q
    BY <2>3, <2>5, <2>6, <2>7, <2>8
  <2>9. CASE q < t
    BY <2>4, <2>5, <2>6, <2>7, <2>9
  <2>10. CASE t = q
    <3>1. tS = qS
      BY <2>1, <2>10
    <3> QED BY <2>5, <2>6, <2>7, <2>10, <3>1
  <2> QED BY <2>8, <2>9, <2>10
<1> QED BY <1>1, <1>4, <1>5

LEMMA DrawnBounds ==
  ASSUME NEW S \in Nat \ {0}, NEW h \in Nat, NEW t \in Nat
  PROVE  /\ DrawnOf(h, S, t) \in 0 .. S /\ DrawnOf(0, S, t) = 0
         /\ \A T \in Nat : t < T /\ h >= T * S => DrawnOf(h, S, t) = S
         /\ DrawnOf(h, S, t) = S => h >= (t + 1) * S
<1>1. PICK tS \in Nat : tS = t * S /\ (t + 1) * S = tS + S
  OBVIOUS
<1>2. DrawnOf(h, S, t) = IF h <= tS THEN 0 ELSE IF h >= tS + S THEN S ELSE h - tS
  BY <1>1 DEF DrawnOf
<1>3. DrawnOf(0, S, t) = 0
  BY <1>1 DEF DrawnOf
<1>4. ASSUME NEW T \in Nat, t < T, h >= T * S PROVE DrawnOf(h, S, t) = S
  <2>1. t + 1 \in Nat /\ S \in Nat /\ t + 1 <= T
    BY <1>4
  <2>2. (t + 1) * S <= T * S /\ T * S \in Nat
    BY <2>1, Products
  <2> QED BY <1>1, <1>2, <1>4, <2>2
<1> QED BY <1>1, <1>2, <1>3, <1>4

(* What is announced stays announced until the backward pass starts over, *)
LEMMA FilledStays ==
  ASSUME UNCHANGED layerVars, \A cs \in Substreams : fired[cs] \subseteq fired'[cs],
         NEW t, Filled(t)
  PROVE  Filled(t)'
BY DEF Filled, Announced, layerVars

(* and a slot keeps its row. *)
LEMMA RealStays ==
  ASSUME CoreInv, CoreInv', UNCHANGED <<pass, arriving, seen_per_substream>>,
         \A cs \in Substreams : rpc[cs] # "recv" => rpc'[cs] # "recv",
         NEW x \in Slots, pool_recv_token[x] # -1
  PROVE  pool_recv_token'[x] = pool_recv_token[x]
<1>1. PICK cs \in Substreams :
        \E i \in 1 .. Len(arriving[cs]), k \in K :
          /\ arriving[cs][i][k] # -1 /\ x = SlotOf(arriving, cs, i, k)
          /\ Fenced(cs) /\ pool_recv_token[x] = Row(arriving, cs, i)
  BY Holder
<1>2. PICK i \in 1 .. Len(arriving[cs]), k \in K :
          /\ arriving[cs][i][k] # -1 /\ x = SlotOf(arriving, cs, i, k)
          /\ Fenced(cs) /\ pool_recv_token[x] = Row(arriving, cs, i)
  BY <1>1
<1>3. Fenced(cs)'
  BY <1>2 DEF Fenced
<1>4. MemoryInv'
  BY DEF CoreInv
<1>5. pool_recv_token'[SlotOf(arriving, cs, i, k)] = Row(arriving, cs, i)
  BY <1>2, <1>3, <1>4 DEF MemoryInv
<1> QED BY <1>2, <1>5

(* The receivers leave the compute stream alone; what it relies on stays. *)
LEMMA PipeStays ==
  ASSUME CoreInv, CoreInv', PipeInv, UNCHANGED <<pass, layerVars, kernelVars>>,
         UNCHANGED <<Tiles, Slots, Rows>>,
         \A cs \in Substreams : fired[cs] \subseteq fired'[cs],
         \A cs \in Substreams : rpc[cs] # "recv" => rpc'[cs] # "recv"
  PROVE  PipeInv'
<1>1. /\ kernel' = kernel /\ consumer_head' = consumer_head /\ cpc' = cpc /\ work' = work
      /\ todo' = todo /\ computed' = computed /\ tile_n_stripes_done' = tile_n_stripes_done
      /\ pass' = pass /\ arriving' = arriving /\ seen_per_substream' = seen_per_substream
      /\ Tiles' = Tiles /\ Slots' = Slots /\ Rows' = Rows
  BY DEF kernelVars, layerVars
<1>2. \A k : Stripes(k)' = Stripes(k)
  BY <1>1 DEF Stripes
<1>3. Stripes(kernel)' = Stripes(kernel)
  BY <1>1 DEF Stripes
<1>4. \A t : Filled(t) => Filled(t)'
  BY FilledStays
<1>5. \A t \in Tiles : RealRows(t) \subseteq RealRows(t)'
  <2>1. ASSUME NEW t \in Tiles, NEW i \in RealRows(t) PROVE i \in RealRows(t)'
    <3>1. i \in 0 .. tile_m - 1 /\ pool_recv_token[t * tile_m + i] >= 0
      BY <2>1 DEF RealRows
    <3>2. t * tile_m + i \in Slots
      <4>1. SlotsOf(t) \subseteq Slots /\ t * tile_m \in Nat
            /\ SlotsOf(t) = t * tile_m .. t * tile_m + tile_m - 1
        BY SlotsAndTiles DEF CoreInv
      <4> QED BY <3>1, <4>1, LayoutAssumption
    <3>3. pool_recv_token[t * tile_m + i] # -1
      BY <3>1
    <3>4. pool_recv_token'[t * tile_m + i] = pool_recv_token[t * tile_m + i]
      BY <1>1, <3>2, <3>3, RealStays
    <3> QED BY <3>1, <3>4 DEF RealRows
  <2> QED BY <2>1
<1>6. PipeType'
  <2>1. Contents' = Contents
    BY <1>1 DEF Contents
  <2> QED BY <1>1, <2>1 DEF PipeInv, PipeType
<1>7. WorkInv'
  <2>1. ASSUME NEW c \in CTAs PROVE CTAInv(c)'
    <3>0. CTAInv(c)
      BY DEF PipeInv, WorkInv
    <3>1. PICK w : w = work[c][1] /\ work'[c][1] = w
      BY <1>1
    <3>2. cpc[c] \in {"compute", "stripe", "release"} => Filled(w)'
      BY <1>4, <3>0, <3>1 DEF CTAInv
    <3>3. cpc[c] = "release" => w \in Tiles /\ todo[c] \subseteq RealRows(w)'
      BY <1>5, <3>0, <3>1 DEF CTAInv
    <3>4. (Filled(work[c][1]))' <=> Filled(w)'
      BY <3>1 DEF Filled, Announced
    <3>5. (RealRows(work[c][1]))' = RealRows(w)'
      BY <3>1 DEF RealRows
    <3> QED BY <1>1, <1>3, <3>0, <3>1, <3>2, <3>3, <3>4, <3>5 DEF CTAInv
  <2> QED BY <1>1, <2>1 DEF PipeInv, WorkInv, OneReleases
<1>8. TicketInv'
  <2>1. \A t \in Tiles : /\ Finished(t)' = Finished(t) /\ Holding(t)' = Holding(t)
                         /\ Drawn(t)' = Drawn(t)
    BY <1>1, <1>3 DEF Finished, Holding, Drawn
  <2> QED BY <1>1, <1>2, <1>4, <2>1 DEF PipeInv, TicketInv
<1> QED BY <1>6, <1>7, <1>8 DEF PipeInv

(* A row waits for the same slots while the compute stream stands still. *)
LEMMA WaitingStays ==
  ASSUME UNCHANGED <<pass, arriving, seen_per_substream, kernelVars, Tiles>>,
         NEW cs \in Substreams, NEW i
  PROVE  Unserved(cs, i)' = Unserved(cs, i)
<1>1. \A x : Waiting(x)' <=> Waiting(x)
  BY DEF Waiting, kernelVars
<1>2. \A k \in K : SlotOf(arriving, cs, i, k)' = SlotOf(arriving, cs, i, k)
  OBVIOUS
<1>3. arriving' = arriving
  OBVIOUS
<1>4. \A k \in K : Waiting(SlotOf(arriving, cs, i, k))' <=> Waiting(SlotOf(arriving, cs, i, k))
  BY <1>1, <1>3 DEF Waiting, kernelVars
<1> QED BY <1>3, <1>4 DEF Unserved

LEMMA RowsStay ==
  ASSUME RowInv, UNCHANGED <<pass, layerVars, kernelVars, rowVars>>, UNCHANGED <<Tiles, Rows>>,
         \A cs \in Substreams : Fenced(cs)' <=> Fenced(cs)
  PROVE  RowInv'
<1>1. /\ k_local_remaining' = k_local_remaining /\ o' = o /\ y_done' = y_done /\ Rows' = Rows
      /\ arriving' = arriving /\ seen_per_substream' = seen_per_substream
  BY DEF rowVars, layerVars
<1>2. \A cs \in Substreams : \A i \in 1 .. Len(arriving[cs]) : Unserved(cs, i)' = Unserved(cs, i)
  BY <1>1, WaitingStays
<1> QED BY <1>1, <1>2 DEF RowInv

(* Before its fence no tile with a token of the substream has been finished. *)
LEMMA UnfencedWaits ==
  ASSUME CoreInv, PipeInv, NEW cs \in Substreams, rpc[cs] = "recv",
         NEW i \in 1 .. Len(arriving[cs]), NEW k \in K, arriving[cs][i][k] # -1
  PROVE  Waiting(SlotOf(arriving, cs, i, k))
<1>1. LayerInv /\ CountInv
  BY DEF CoreInv
<1>2. PICK x \in Slots : x = SlotOf(arriving, cs, i, k)
  BY <1>1, RowsOfTokens
<1>3. PICK t \in Tiles : x \in SlotsOf(t)
  BY <1>1, SlotsAndTiles
<1>4. arriving[cs][i][k] \in Experts /\ x \in Run(seen_per_substream, cs, arriving[cs][i][k])
  BY <1>1, <1>2, SlotInRun DEF LayerInv
<1>5. x \in Covered(seen_per_substream, t)
  BY <1>3, <1>4 DEF Covered, SlotsOf
<1>6. ~Filled(t)
  <2>1. SUFFICES ASSUME Filled(t) PROVE FALSE
    OBVIOUS
  <2>2. PICK d \in Substreams, f \in Experts :
          t \in fired[d] /\ x \in Run(seen_per_substream, d, f)
    BY <1>5, <2>1 DEF Filled, Announced
  <2>3. SeenType(seen_per_substream)
    BY <1>1, Layout
  <2>4. d = cs
    BY <1>4, <2>2, <2>3, RunsDisjoint
  <2> QED BY <1>1, <2>2, <2>4 DEF CountInv
<1>7. tile_n_stripes_done[t] < NumPidN[pass][2]
  <2>1. tile_n_stripes_done[t] = 0
    BY <1>6 DEF PipeInv, PipeType, TicketInv
  <2>2. NumPidN[pass][2] \in Nat \ {0}
    BY <1>1, StripesType DEF LayerInv
  <2> QED BY <2>1, <2>2
<1> QED BY <1>2, <1>3, <1>7 DEF Waiting

(* A whole row waits. *)
LEMMA AllUnserved ==
  ASSUME LayerInv, NEW cs \in Substreams, NEW i \in 1 .. Len(arriving[cs]),
         \A k \in K : arriving[cs][i][k] # -1 => Waiting(SlotOf(arriving, cs, i, k))
  PROVE  Cardinality(Unserved(cs, i)) = LocalK(SlotsOfRow(arriving, cs, i))
<1>1. Unserved(cs, i) = {k \in K : SlotsOfRow(arriving, cs, i)[k] # -1}
  BY SlotsType DEF Unserved
<1> QED BY <1>1 DEF LocalK

(* The fence of the forward pass sets the counts of its rows. *)
LEMMA FenceRowInv ==
  ASSUME CoreInv, PipeInv, RowInv, NEW cs \in Substreams, Fence(cs), pass = "fwd"
  PROVE  RowInv'
<1>1. CoreInv' /\ Tiles' = Tiles /\ Slots' = Slots /\ Rows' = Rows
  BY FenceCore
<1>2. LayerInv
  BY DEF CoreInv
<1>3. /\ pass' = pass /\ arriving' = arriving /\ seen_per_substream' = seen_per_substream
      /\ UNCHANGED kernelVars /\ o' = o /\ y_done' = y_done
  BY DEF Fence, layerVars
<1>4. k_local_remaining' = [r \in Rows |->
         IF r \in RowsWritten(cs) THEN LocalK(SlotsWritten(cs, r)) ELSE k_local_remaining[r]]
  BY DEF Fence, RowsWritten, SlotsWritten
<1>5. k_local_remaining' \in [Rows -> 0 .. num_topk]
  BY <1>4, FenceRows DEF RowInv
<1>6. rpc[cs] = "recv" /\ rpc' = [rpc EXCEPT ![cs] = "fire"] /\ rpc \in [Substreams -> {"recv", "fire", "done"}]
  BY DEF Fence, CoreInv, ReceiverInv
<1>7. ASSUME NEW d \in Substreams, NEW i \in 1 .. Len(arriving[d])
      PROVE  k_local_remaining'[Row(arriving, d, i)] =
               IF Fenced(d)' THEN Cardinality(Unserved(d, i)) ELSE 0
  <2>1. PICK r \in Rows : r = Row(arriving, d, i)
    BY <1>2, RowsOfTokens
  <2>2. CASE d = cs
    <3>1. r \in RowsWritten(cs) /\ SlotsWritten(cs, r) = SlotsOfRow(arriving, cs, i)
      BY <2>1, <2>2, FenceRows
    <3>2. Cardinality(Unserved(cs, i)) = LocalK(SlotsOfRow(arriving, cs, i))
      BY <1>2, <1>6, <2>2, AllUnserved, UnfencedWaits
    <3>3. Fenced(d)'
      BY <1>6, <2>2 DEF Fenced
    <3> QED BY <1>4, <2>1, <2>2, <3>1, <3>2, <3>3
  <2>3. CASE d # cs
    <3>1. r \notin RowsWritten(cs)
      BY <1>2, <2>1, <2>3, FenceRows, RowsDiffer DEF LayerInv
    <3>2. Fenced(d)' <=> Fenced(d)
      BY <1>3, <1>6, <2>3 DEF Fenced
    <3> QED BY <1>4, <2>1, <3>1, <3>2 DEF RowInv
  <2> QED BY <2>2, <2>3
<1>8. \A d \in Substreams : \A i \in 1 .. Len(arriving[d]) : Unserved(d, i)' = Unserved(d, i)
  BY <1>1, <1>3, WaitingStays
<1> QED BY <1>1, <1>3, <1>5, <1>7, <1>8 DEF RowInv

LEMMA ReceiverPipe ==
  ASSUME IInv, NEW cs \in Substreams, ReceiverStep(cs)
  PROVE  PipeInv' /\ RowInv'
<1>1. CoreInv /\ PipeInv /\ RowInv
  BY DEF IInv
<1>2. CoreInv' /\ UNCHANGED <<Tiles, Slots, Rows>>
  BY <1>1, ReceiveBatchCore, FenceCore, FireBlockCore DEF ReceiverStep
<1>3. UNCHANGED <<pass, layerVars, kernelVars>>
  BY DEF ReceiverStep, ReceiveBatch, Fence, FireBlock
<1>4. rpc \in [Substreams -> {"recv", "fire", "done"}] /\ fired \in [Substreams -> SUBSET Tiles]
  BY <1>1 DEF CoreInv, ReceiverInv, CountInv
<1>5. \A d \in Substreams : fired[d] \subseteq fired'[d]
  BY <1>4 DEF ReceiverStep, ReceiveBatch, Fence, FireBlock
<1>6. \A d \in Substreams : rpc[d] # "recv" => rpc'[d] # "recv"
  BY <1>4 DEF ReceiverStep, ReceiveBatch, Fence, FireBlock
<1>7. PipeInv'
  BY <1>1, <1>2, <1>3, <1>5, <1>6, PipeStays
<1>8. ASSUME UNCHANGED rowVars, \A d \in Substreams : Fenced(d)' <=> Fenced(d)
      PROVE  RowInv'
  BY <1>1, <1>2, <1>3, <1>8, RowsStay
<1>9. CASE ReceiveBatch(cs)
  <2>1. UNCHANGED rowVars /\ rpc' = rpc /\ pass' = pass
    BY <1>9 DEF ReceiveBatch
  <2>2. \A d \in Substreams : Fenced(d)' <=> Fenced(d)
    BY <2>1 DEF Fenced
  <2> QED BY <1>7, <1>8, <2>1, <2>2
<1>10. CASE FireBlock(cs)
  <2>1. UNCHANGED rowVars /\ pass' = pass /\ rpc[cs] = "fire"
        /\ (rpc' = rpc \/ rpc' = [rpc EXCEPT ![cs] = "done"])
    BY <1>10 DEF FireBlock
  <2>2. \A d \in Substreams : Fenced(d)' <=> Fenced(d)
    BY <1>4, <2>1 DEF Fenced
  <2> QED BY <1>7, <1>8, <2>1, <2>2
<1>11. CASE Fence(cs) /\ pass = "fwd"
  BY <1>1, <1>7, <1>11, FenceRowInv
<1>12. CASE Fence(cs) /\ pass # "fwd"
  <2>1. UNCHANGED rowVars /\ pass' = pass
    BY <1>12 DEF Fence, rowVars
  <2>2. pass = "bwd"
    BY <1>1, <1>12 DEF CoreInv, LayerInv, Passes
  <2>3. \A d \in Substreams : Fenced(d)' <=> Fenced(d)
    BY <2>1, <2>2 DEF Fenced
  <2> QED BY <1>7, <1>8, <2>1, <2>3
<1> QED BY <1>7, <1>9, <1>10, <1>11, <1>12 DEF ReceiverStep

(***************************************************************************)
(* The steps of a CTA.                                                     *)
(***************************************************************************)
LEMMA CoreSame ==
  ASSUME UNCHANGED coreVars
  PROVE  /\ pass' = pass /\ arriving' = arriving /\ seen_per_substream' = seen_per_substream
         /\ pool_recv_token' = pool_recv_token
         /\ Tiles' = Tiles /\ Slots' = Slots /\ Rows' = Rows /\ Contents' = Contents
         /\ \A k : Stripes(k)' = Stripes(k)
         /\ \A t : (Filled(t)' <=> Filled(t)) /\ RealRows(t)' = RealRows(t)
         /\ \A cs \in Substreams : Fenced(cs)' <=> Fenced(cs)
<1> USE DEF coreVars, layerVars, receiverVars, poolVars
<1>1. UNCHANGED <<pass, arriving, seen_per_substream, pool_recv_token,
                  expert_pool_block_offset, k_local_total, fired, rpc>>
  OBVIOUS
<1>2. Tiles' = Tiles /\ Slots' = Slots /\ Rows' = Rows
  BY <1>1 DEF Tiles, Slots, NumTiles, Rows
<1>3. Contents' = Contents
  BY <1>2 DEF Contents
<1>4. \A k : Stripes(k)' = Stripes(k)
  BY <1>1 DEF Stripes
<1>5. \A t : (Filled(t)' <=> Filled(t)) /\ RealRows(t)' = RealRows(t)
  BY <1>1 DEF Filled, Announced, RealRows
<1>6. \A cs \in Substreams : Fenced(cs)' <=> Fenced(cs)
  BY <1>1 DEF Fenced
<1> QED BY <1>1, <1>2, <1>3, <1>4, <1>5, <1>6

(* What a step of CTA c leaves alone. *)
LEMMA CTAFrame ==
  ASSUME PipeInv, NEW c \in CTAs, CTAStep(c)
  PROVE  /\ UNCHANGED coreVars /\ kernel' = kernel /\ kernel \in 1 .. 2
         /\ \A d \in CTAs : d # c =>
              cpc'[d] = cpc[d] /\ work'[d] = work[d] /\ todo'[d] = todo[d]
         /\ tile_n_stripes_done' \in [Tiles -> Nat]
         /\ \A t \in Tiles : tile_n_stripes_done[t] <= tile_n_stripes_done'[t]
         /\ ~FinishStripe(c) => tile_n_stripes_done' = tile_n_stripes_done
         /\ ~Claim(c) => consumer_head' = consumer_head /\ work' = work
         /\ ~ComputeStripe(c) => computed' = computed
<1>1. PipeType /\ CTAInv(c)
  BY DEF PipeInv, WorkInv
<1>2. UNCHANGED coreVars /\ kernel' = kernel /\ kernel \in 1 .. 2
  BY DEF CTAStep, Claim, AwaitTile, ComputeStripe, ScatterStripe, FinishStripe, CountDownRow,
         coreVars
<1>3. \A d \in CTAs : d # c =>
        cpc'[d] = cpc[d] /\ work'[d] = work[d] /\ todo'[d] = todo[d]
  BY <1>1 DEF PipeType, CTAStep, Claim, AwaitTile, ComputeStripe, ScatterStripe, FinishStripe,
              CountDownRow
<1>4. CASE FinishStripe(c)
  <2>1. tile_n_stripes_done' = [tile_n_stripes_done EXCEPT ![work[c][1]] = @ + 1]
        /\ work[c][1] \in Tiles
    BY <1>1, <1>4 DEF FinishStripe, CTAInv
  <2>2. consumer_head' = consumer_head /\ work' = work /\ computed' = computed
    BY <1>4 DEF FinishStripe
  <2> QED BY <1>1, <1>2, <1>3, <1>4, <2>1, <2>2 DEF PipeType
<1>5. CASE ~FinishStripe(c)
  <2>1. tile_n_stripes_done' = tile_n_stripes_done
    BY <1>5 DEF CTAStep, Claim, AwaitTile, ComputeStripe, ScatterStripe, CountDownRow
  <2>2. ~Claim(c) => consumer_head' = consumer_head /\ work' = work
    BY <1>5 DEF CTAStep, AwaitTile, ComputeStripe, ScatterStripe, CountDownRow
  <2>3. ~ComputeStripe(c) => computed' = computed
    BY <1>5 DEF CTAStep, Claim, AwaitTile, ScatterStripe, CountDownRow
  <2> QED BY <1>1, <1>2, <1>3, <2>1, <2>2, <2>3 DEF PipeType
<1> QED BY <1>4, <1>5

(* The tickets a CTA takes and gives back. *)
LEMMA HoldingStep ==
  ASSUME NEW c \in CTAs, \A d \in CTAs : d # c => cpc'[d] = cpc[d] /\ work'[d] = work[d], NEW t
  PROVE  /\ Cardinality(Holding(t)) \in Nat /\ Cardinality(Holding(t)') \in Nat
         /\ Cardinality(Holding(t)') + (IF c \in Holding(t) THEN 1 ELSE 0)
              = Cardinality(Holding(t)) + (IF c \in Holding(t)' THEN 1 ELSE 0)
<1>1. IsFiniteSet(CTAs)
  <2>1. 1 \in Int /\ NumCTAs \in Int
    BY StreamAssumption
  <2> QED BY <2>1, FS_Interval DEF CTAs
<1>2. PICK A, B : A = Holding(t) /\ B = Holding(t)'
  OBVIOUS
<1>3. PICK D : D = A \ {c}
  OBVIOUS
<1>4. A \subseteq CTAs /\ B \subseteq CTAs /\ D = B \ {c}
  BY <1>2, <1>3 DEF Holding
<1>5. IsFiniteSet(D) /\ c \notin D
  BY <1>1, <1>3, <1>4, FS_Subset
<1>6. PICK n \in Nat : n = Cardinality(D) /\ n + 1 = Cardinality(D \cup {c})
  BY <1>5, FS_CardinalityType, FS_AddElement
<1>7. Cardinality(A) = n + (IF c \in A THEN 1 ELSE 0)
  <2>1. A = IF c \in A THEN D \cup {c} ELSE D
    BY <1>3
  <2> QED BY <1>6, <2>1
<1>8. Cardinality(B) = n + (IF c \in B THEN 1 ELSE 0)
  <2>1. B = IF c \in B THEN D \cup {c} ELSE D
    BY <1>4
  <2> QED BY <1>6, <2>1
<1> QED BY <1>2, <1>7, <1>8

LEMMA OperandType ==
  ASSUME CoreInv, NEW t \in Tiles, NEW i \in 0 .. tile_m - 1
  PROVE  t * tile_m + i \in Slots /\ t * tile_m + i \in SlotsOf(t)
         /\ Operand(t * tile_m + i) \in Contents
<1>1. SlotsOf(t) \subseteq Slots /\ t * tile_m \in Nat
      /\ SlotsOf(t) = t * tile_m .. t * tile_m + tile_m - 1
  BY SlotsAndTiles DEF CoreInv
<1>2. PICK x : x = t * tile_m + i
  OBVIOUS
<1>3. x \in SlotsOf(t) /\ x \in Slots
  BY <1>1, <1>2, LayoutAssumption
<1>4. pass \in Passes /\ pool \in [Passes -> [Slots -> Contents]] /\ Garbage \in Contents
  BY DEF CoreInv, LayerInv, MemoryInv, Contents
<1>5. Operand(x) \in Contents
  BY <1>3, <1>4 DEF Operand
<1> QED BY <1>2, <1>3, <1>5

(* The ticket a CTA draws. *)
LEMMA ClaimTicket ==
  ASSUME CoreInv, PipeInv, NEW c \in CTAs, Claim(c)
  PROVE  /\ consumer_head' = consumer_head + 1 /\ consumer_head' \in Nat
         /\ Stripes(kernel) \in Nat \ {0}
         /\ consumer_head < NumTiles * Stripes(kernel) =>
              /\ \E q \in Tiles, n \in 0 .. Stripes(kernel) - 1 : /\ q \in Nat /\ n \in Nat
                   /\ work' = [work EXCEPT ![c] = <<q, n>>]
                   /\ cpc' = [cpc EXCEPT ![c] = "spin"]
                   /\ \A t \in Nat : DrawnOf(consumer_head + 1, Stripes(kernel), t)
                        = DrawnOf(consumer_head, Stripes(kernel), t) + (IF t = q THEN 1 ELSE 0)
         /\ ~(consumer_head < NumTiles * Stripes(kernel)) =>
              /\ work' = work /\ cpc' = [cpc EXCEPT ![c] = "exit"]
              /\ \A t \in Tiles : DrawnOf(consumer_head + 1, Stripes(kernel), t)
                                    = DrawnOf(consumer_head, Stripes(kernel), t)
<1>1. kernel \in 1 .. 2 /\ consumer_head \in Nat /\ consumer_head' = consumer_head + 1
  BY DEF Claim, PipeInv, PipeType
<1>2. PICK S \in Nat \ {0} : S = Stripes(kernel)
  BY <1>1, StripesType DEF CoreInv, LayerInv
<1>3. PICK T \in Nat : T = NumTiles /\ Tiles = 0 .. T - 1
  BY Layout DEF CoreInv, Tiles
<1>4. PICK h \in Nat : h = consumer_head
  BY <1>1
<1>5. ASSUME h < T * S
      PROVE  \E q \in Tiles, n \in 0 .. S - 1 : /\ q \in Nat /\ n \in Nat
                   /\ work' = [work EXCEPT ![c] = <<q, n>>]
                   /\ cpc' = [cpc EXCEPT ![c] = "spin"]
                   /\ \A t \in Nat : DrawnOf(h + 1, S, t)
                        = DrawnOf(h, S, t) + (IF t = q THEN 1 ELSE 0)
  <2>1. /\ h \div S \in 0 .. T - 1 /\ h % S \in 0 .. S - 1
        /\ \A t \in Nat : DrawnOf(h + 1, S, t)
             = DrawnOf(h, S, t) + (IF t = h \div S THEN 1 ELSE 0)
    BY <1>5, Ticket
  <2>2. PICK q, n : q = h \div S /\ n = h % S
    OBVIOUS
  <2>3. q \in Tiles /\ q \in Nat /\ n \in 0 .. S - 1 /\ n \in Nat
    BY <1>3, <2>1, <2>2
  <2>4. work' = [work EXCEPT ![c] = <<q, n>>] /\ cpc' = [cpc EXCEPT ![c] = "spin"]
    BY <1>2, <1>3, <1>4, <1>5, <2>2 DEF Claim
  <2>5. \A t \in Nat : DrawnOf(h + 1, S, t) = DrawnOf(h, S, t) + (IF t = q THEN 1 ELSE 0)
    BY <2>1, <2>2
  <2> QED BY <2>3, <2>4, <2>5
<1>6. ASSUME ~(h < T * S)
      PROVE  /\ work' = work /\ cpc' = [cpc EXCEPT ![c] = "exit"]
             /\ \A t \in Tiles : DrawnOf(h + 1, S, t) = DrawnOf(h, S, t)
  <2>1. T * S \in Nat
    OBVIOUS
  <2>2. ASSUME NEW t \in Tiles PROVE DrawnOf(h + 1, S, t) = DrawnOf(h, S, t)
    <3>1. t \in Nat /\ t < T /\ h >= T * S /\ h + 1 >= T * S /\ h + 1 \in Nat
      BY <1>3, <1>6, <2>1
    <3>2. DrawnOf(h, S, t) = S
      BY <3>1, DrawnBounds
    <3>3. DrawnOf(h + 1, S, t) = S
      BY <3>1, DrawnBounds
    <3> QED BY <3>2, <3>3
  <2>3. work' = work /\ cpc' = [cpc EXCEPT ![c] = "exit"]
    BY <1>2, <1>3, <1>4, <1>6 DEF Claim
  <2> QED BY <2>2, <2>3
<1> QED BY <1>1, <1>2, <1>3, <1>4, <1>5, <1>6

LEMMA CTATypes ==
  ASSUME CoreInv, PipeInv, NEW c \in CTAs, CTAStep(c)
  PROVE  PipeType'
<1>1. PipeType /\ CTAInv(c)
  BY DEF PipeInv, WorkInv
<1>2. /\ UNCHANGED coreVars /\ kernel' = kernel /\ Tiles' = Tiles /\ Contents' = Contents
      /\ tile_n_stripes_done' \in [Tiles -> Nat]
      /\ ~Claim(c) => consumer_head' = consumer_head /\ work' = work
      /\ ~ComputeStripe(c) => computed' = computed
  BY CTAFrame, CoreSame
<1>3. consumer_head' \in Nat /\ work' \in [CTAs -> Nat \X Nat]
  <2>1. CASE Claim(c)
    <3>1. consumer_head' \in Nat
      BY <2>1, ClaimTicket
    <3>2. work' = work \/ \E q \in Nat, n \in Nat : work' = [work EXCEPT ![c] = <<q, n>>]
      BY <2>1, ClaimTicket
    <3>3. ASSUME NEW q \in Nat, NEW n \in Nat, work' = [work EXCEPT ![c] = <<q, n>>]
          PROVE  work' \in [CTAs -> Nat \X Nat]
      <4>1. <<q, n>> \in Nat \X Nat /\ work \in [CTAs -> Nat \X Nat]
        BY <1>1 DEF PipeType
      <4> QED BY <3>3, <4>1
    <3>4. work \in [CTAs -> Nat \X Nat]
      BY <1>1 DEF PipeType
    <3> QED BY <3>1, <3>2, <3>3, <3>4
  <2> QED BY <1>1, <1>2, <2>1 DEF PipeType
<1>4. cpc' \in [CTAs -> {"claim", "spin", "compute", "stripe", "release", "exit"}]
  BY <1>1 DEF PipeType, CTAStep, Claim, AwaitTile, ComputeStripe, ScatterStripe, FinishStripe,
              CountDownRow
<1>5. todo' \in [CTAs -> SUBSET (0 .. tile_m - 1)]
  <2>1. \A t : RealRows(t) \subseteq 0 .. tile_m - 1
    BY DEF RealRows
  <2> QED BY <1>1, <2>1 DEF PipeType, CTAStep, Claim, AwaitTile, ComputeStripe, ScatterStripe,
                             FinishStripe, CountDownRow
<1>6. computed' \in [Tiles -> Seq([0 .. tile_m - 1 -> Contents])]
  <2>1. CASE ComputeStripe(c)
    <3>1. PICK t \in Tiles : t = work[c][1]
      BY <1>1, <2>1 DEF ComputeStripe, CTAInv
    <3>2. PICK s : s = [i \in 0 .. tile_m - 1 |-> Operand(t * tile_m + i)]
      OBVIOUS
    <3>3. s \in [0 .. tile_m - 1 -> Contents]
      BY <3>2, OperandType
    <3>4. computed' = [computed EXCEPT ![t] = Append(@, s)]
      BY <2>1, <3>1, <3>2 DEF ComputeStripe
    <3> QED BY <1>1, <3>3, <3>4 DEF PipeType
  <2> QED BY <1>1, <1>2, <2>1 DEF PipeType
<1> QED BY <1>1, <1>2, <1>3, <1>4, <1>5, <1>6 DEF PipeType

(* A CTA's own part of the invariant, over the steps of the others, *)
LEMMA CTAOthers ==
  ASSUME CoreInv, PipeInv, NEW c \in CTAs, CTAStep(c), NEW d \in CTAs, d # c
  PROVE  CTAInv(d)'
<1>1. CTAInv(d) /\ PipeType
  BY DEF PipeInv, WorkInv
<1>2. /\ UNCHANGED coreVars /\ kernel' = kernel
      /\ cpc'[d] = cpc[d] /\ work'[d] = work[d] /\ todo'[d] = todo[d]
      /\ tile_n_stripes_done' \in [Tiles -> Nat]
      /\ \A t \in Tiles : tile_n_stripes_done[t] <= tile_n_stripes_done'[t]
  BY CTAFrame
<1>3. /\ pass' = pass /\ Tiles' = Tiles
      /\ \A t : (Filled(t)' <=> Filled(t)) /\ RealRows(t)' = RealRows(t)
  BY <1>2, CoreSame
<1>4. Stripes(kernel)' = Stripes(kernel)
  BY <1>2, <1>3 DEF Stripes
<1>5. PICK t : t = work[d][1] /\ t = work'[d][1]
  BY <1>2
<1>6. (Filled(work[d][1]))' <=> Filled(t)
  BY <1>3, <1>5 DEF Filled, Announced
<1>7. (RealRows(work[d][1]))' = RealRows(t)
  BY <1>3, <1>5 DEF RealRows
<1>8. cpc[d] = "release" => tile_n_stripes_done'[t] >= NumPidN[pass][2]
  <2>1. SUFFICES ASSUME cpc[d] = "release" PROVE tile_n_stripes_done'[t] >= NumPidN[pass][2]
    OBVIOUS
  <2>2. t \in Tiles /\ tile_n_stripes_done[t] >= NumPidN[pass][2]
    BY <1>1, <1>5, <2>1 DEF CTAInv
  <2>3. NumPidN[pass][2] \in Nat
    BY StripesType DEF CoreInv, LayerInv
  <2> QED BY <1>1, <1>2, <2>2, <2>3 DEF PipeType
<1> QED BY <1>1, <1>2, <1>3, <1>4, <1>5, <1>6, <1>7, <1>8 DEF CTAInv

(* and over its own. *)
LEMMA CTAOwn ==
  ASSUME CoreInv, PipeInv, NEW c \in CTAs, CTAStep(c)
  PROVE  CTAInv(c)'
<1>1. CTAInv(c) /\ PipeType /\ TicketInv
  BY DEF PipeInv, WorkInv
<1>2. UNCHANGED coreVars /\ kernel' = kernel /\ kernel \in 1 .. 2
  BY CTAFrame
<1>3. /\ pass' = pass /\ Tiles' = Tiles
      /\ \A t : (Filled(t)' <=> Filled(t)) /\ RealRows(t)' = RealRows(t)
  BY <1>2, CoreSame
<1>4. Stripes(kernel)' = Stripes(kernel)
  BY <1>2, <1>3 DEF Stripes
<1>5. PICK t : t = work'[c][1]
  OBVIOUS
<1>6. (Filled(work[c][1]))' <=> Filled(t)
  BY <1>3, <1>5 DEF Filled, Announced
<1>7. (RealRows(work[c][1]))' = RealRows(t)
  BY <1>3, <1>5 DEF RealRows
<1>8. SUFFICES /\ cpc'[c] \in {"stripe", "release"} => kernel = 2
               /\ cpc'[c] \notin {"claim", "exit"} =>
                    t \in Tiles /\ work'[c][2] \in 0 .. Stripes(kernel) - 1
               /\ cpc'[c] \in {"compute", "stripe", "release"} => Filled(t)
               /\ cpc'[c] = "release" => /\ todo'[c] \subseteq RealRows(t)
                                         /\ tile_n_stripes_done'[t] >= NumPidN[pass][2]
               /\ cpc'[c] # "release" => todo'[c] = {}
  BY <1>2, <1>3, <1>4, <1>5, <1>6, <1>7 DEF CTAInv
<1>9. CASE Claim(c)
  <2>1. cpc[c] = "claim" /\ todo' = todo
    BY <1>9 DEF Claim
  <2>2. \/ cpc'[c] = "exit"
        \/ cpc'[c] = "spin" /\ \E q \in Tiles, n \in 0 .. Stripes(kernel) - 1 : work'[c] = <<q, n>>
    <3>1. cpc \in [CTAs -> {"claim", "spin", "compute", "stripe", "release", "exit"}]
          /\ work \in [CTAs -> Nat \X Nat]
      BY <1>1 DEF PipeType
    <3>2. CASE consumer_head < NumTiles * Stripes(kernel)
      <4>1. PICK q \in Tiles, n \in 0 .. Stripes(kernel) - 1 :
              work' = [work EXCEPT ![c] = <<q, n>>] /\ cpc' = [cpc EXCEPT ![c] = "spin"]
        BY <1>9, <3>2, ClaimTicket
      <4> QED BY <3>1, <4>1
    <3>3. CASE ~(consumer_head < NumTiles * Stripes(kernel))
      BY <1>9, <3>1, <3>3, ClaimTicket
    <3> QED BY <3>2, <3>3
  <2> QED BY <1>1, <1>5, <2>1, <2>2 DEF CTAInv
<1>10. CASE AwaitTile(c)
  <2>1. cpc[c] = "spin" /\ todo' = todo /\ work' = work /\ t \in Tiles
    BY <1>1, <1>5, <1>10 DEF AwaitTile, CTAInv
  <2>2. \/ cpc'[c] = "spin"
        \/ cpc'[c] = "compute" /\ pool_arrival_count[t] = pool_arrival_target[t]
    BY <1>1, <1>5, <1>10, <2>1 DEF AwaitTile, PipeType
  <2>3. pool_arrival_count[t] = pool_arrival_target[t] => Filled(t)
    BY <2>1, CountMeetsTarget DEF Filled
  <2> QED BY <1>1, <1>5, <2>1, <2>2, <2>3 DEF CTAInv
<1>11. CASE ComputeStripe(c)
  <2>1. cpc[c] = "compute" /\ cpc'[c] = "claim" /\ todo' = todo
    BY <1>1, <1>11 DEF ComputeStripe, PipeType
  <2> QED BY <1>1, <2>1 DEF CTAInv
<1>12. CASE ScatterStripe(c)
  <2>1. cpc[c] = "compute" /\ cpc'[c] = "stripe" /\ todo' = todo /\ work' = work /\ kernel = 2
    BY <1>1, <1>12 DEF ScatterStripe, PipeType
  <2> QED BY <1>1, <1>5, <2>1 DEF CTAInv
<1>13. CASE FinishStripe(c)
  <2>1. PICK rows : rows = IF tile_n_stripes_done[t] = NumPidN[pass][2] - 1 THEN RealRows(t) ELSE {}
    OBVIOUS
  <2>2. cpc[c] = "stripe" /\ work' = work /\ kernel = 2 /\ t \in Tiles /\ t = work[c][1]
    BY <1>1, <1>5, <1>13 DEF FinishStripe, CTAInv
  <2>3. /\ todo'[c] = rows /\ cpc'[c] = IF rows = {} THEN "claim" ELSE "release"
        /\ tile_n_stripes_done'[t] = tile_n_stripes_done[t] + 1
    BY <1>1, <1>13, <2>1, <2>2 DEF FinishStripe, PipeType
  <2>4. NumPidN[pass][2] \in Nat /\ tile_n_stripes_done[t] \in Nat
    BY <1>1, <2>2, StripesType DEF CoreInv, LayerInv, PipeType
  <2>5. rows # {} => tile_n_stripes_done'[t] >= NumPidN[pass][2]
    BY <2>1, <2>3, <2>4
  <2>6. rows \subseteq RealRows(t)
    BY <2>1
  <2> QED BY <1>1, <2>2, <2>3, <2>5, <2>6 DEF CTAInv
<1>14. CASE \E i \in 0 .. tile_m - 1 : CountDownRow(c, i)
  <2>1. PICK i : CountDownRow(c, i)
    BY <1>14
  <2>2. /\ cpc[c] = "release" /\ work' = work /\ kernel = 2
        /\ tile_n_stripes_done' = tile_n_stripes_done
        /\ todo'[c] \subseteq todo[c]
        /\ cpc'[c] = IF todo'[c] = {} THEN "claim" ELSE "release"
    BY <1>1, <2>1 DEF CountDownRow, PipeType
  <2> QED BY <1>1, <1>5, <2>2 DEF CTAInv
<1> QED BY <1>9, <1>10, <1>11, <1>12, <1>13, <1>14 DEF CTAStep

LEMMA CTAReleases ==
  ASSUME CoreInv, PipeInv, NEW c \in CTAs, CTAStep(c)
  PROVE  OneReleases'
<1>1. PipeType /\ OneReleases /\ \A d \in CTAs : CTAInv(d)
  BY DEF PipeInv, WorkInv
<1>2. \A d \in CTAs : d # c => cpc'[d] = cpc[d] /\ work'[d] = work[d]
  BY CTAFrame
<1>3. CASE FinishStripe(c)
  <2>1. PICK t : t = work[c][1]
    OBVIOUS
  <2>2. t \in Tiles /\ work'[c][1] = t
    BY <1>1, <1>3, <2>1 DEF FinishStripe, CTAInv
  <2>3. cpc'[c] = "release" => tile_n_stripes_done[t] = NumPidN[pass][2] - 1
    BY <1>1, <1>3, <2>1 DEF FinishStripe, PipeType
  <2>4. \A d \in CTAs : cpc[d] = "release" /\ work[d][1] = t
          => tile_n_stripes_done[t] >= NumPidN[pass][2]
    BY <1>1 DEF CTAInv
  <2>5. NumPidN[pass][2] \in Nat
    BY StripesType DEF CoreInv, LayerInv
  <2>6. \A d \in CTAs : cpc'[c] = "release" => ~(cpc[d] = "release" /\ work[d][1] = t)
    BY <2>3, <2>4, <2>5
  <2> QED BY <1>1, <1>2, <2>2, <2>6 DEF OneReleases
<1>4. CASE ~FinishStripe(c)
  <2>1. cpc'[c] = "release" => cpc[c] = "release"
    BY <1>1, <1>4 DEF PipeType, CTAStep, Claim, AwaitTile, ComputeStripe, ScatterStripe,
                      CountDownRow
  <2>2. cpc'[c] = "release" => work'[c] = work[c]
    BY <1>1, <1>4, <2>1 DEF CTAStep, Claim, AwaitTile, ComputeStripe, ScatterStripe, CountDownRow
  <2> QED BY <1>1, <1>2, <2>1, <2>2 DEF OneReleases
<1> QED BY <1>3, <1>4

(* Tickets balance. *)
LEMMA CTATickets ==
  ASSUME CoreInv, PipeInv, NEW c \in CTAs, CTAStep(c)
  PROVE  TicketInv'
<1>1. CTAInv(c) /\ PipeType /\ TicketInv
  BY DEF PipeInv, WorkInv
<1>2. /\ UNCHANGED coreVars /\ kernel' = kernel /\ kernel \in 1 .. 2
      /\ ~FinishStripe(c) => tile_n_stripes_done' = tile_n_stripes_done
      /\ ~Claim(c) => consumer_head' = consumer_head /\ work' = work
      /\ ~ComputeStripe(c) => computed' = computed
      /\ \A d \in CTAs : d # c => cpc'[d] = cpc[d] /\ work'[d] = work[d]
  BY CTAFrame
<1>3. /\ pass' = pass /\ Tiles' = Tiles
      /\ \A t : (Filled(t)' <=> Filled(t)) /\ RealRows(t)' = RealRows(t)
      /\ \A k : Stripes(k)' = Stripes(k)
  BY <1>2, CoreSame
<1>4. Stripes(kernel)' = Stripes(kernel) /\ Stripes(2)' = Stripes(2)
  BY <1>2, <1>3 DEF Stripes
<1>5. /\ Stripes(kernel) \in Nat \ {0} /\ Stripes(2) \in Nat \ {0} /\ Stripes(1) = NumPidN[pass][1]
  BY <1>2, StripesType DEF CoreInv, LayerInv
<1>6. SUFFICES ASSUME NEW t \in Tiles
               PROVE  /\ Finished(t)' + Cardinality(Holding(t)') = Drawn(t)'
                      /\ kernel = 1 => tile_n_stripes_done'[t] = 0
                      /\ Len(computed'[t]) <= NumPidN[pass][1]
                      /\ tile_n_stripes_done'[t] <= Stripes(2)
                      /\ tile_n_stripes_done'[t] > 0 => Filled(t)
  BY <1>2, <1>3, <1>4 DEF TicketInv
<1>7. /\ Finished(t) + Cardinality(Holding(t)) = Drawn(t)
      /\ kernel = 1 => tile_n_stripes_done[t] = 0
      /\ Len(computed[t]) <= NumPidN[pass][1]
      /\ tile_n_stripes_done[t] <= Stripes(2)
      /\ tile_n_stripes_done[t] > 0 => Filled(t)
  BY <1>1, <1>2 DEF TicketInv
<1>8. /\ Cardinality(Holding(t)) \in Nat /\ Cardinality(Holding(t)') \in Nat
      /\ Cardinality(Holding(t)') + (IF c \in Holding(t) THEN 1 ELSE 0)
           = Cardinality(Holding(t)) + (IF c \in Holding(t)' THEN 1 ELSE 0)
  BY <1>2, HoldingStep
<1>9. /\ c \in Holding(t) <=> cpc[c] \in {"spin", "compute", "stripe"} /\ work[c][1] = t
      /\ c \in Holding(t)' <=> cpc'[c] \in {"spin", "compute", "stripe"} /\ work'[c][1] = t
  BY DEF Holding
<1>10. computed \in [Tiles -> Seq([0 .. tile_m - 1 -> Contents])]
       /\ tile_n_stripes_done \in [Tiles -> Nat] /\ t \in Nat /\ consumer_head \in Nat
       /\ Len(computed[t]) \in Nat
  <2>1. computed \in [Tiles -> Seq([0 .. tile_m - 1 -> Contents])]
    BY <1>1 DEF PipeType
  <2>2. Len(computed[t]) \in Nat
    BY <2>1
  <2> QED BY <1>1, <2>1, <2>2, SlotsAndTiles DEF CoreInv, PipeType
<1>11. Finished(t) \in Nat
  BY <1>10 DEF Finished
<1>12. Drawn(t) \in 0 .. Stripes(kernel) /\ (consumer_head' = consumer_head => Drawn(t)' = Drawn(t))
  <2>1. DrawnOf(consumer_head, Stripes(kernel), t) \in 0 .. Stripes(kernel)
    BY <1>5, <1>10, DrawnBounds
  <2>2. Drawn(t)' = DrawnOf(consumer_head', Stripes(kernel), t)
    BY <1>4 DEF Drawn
  <2> QED BY <2>1, <2>2 DEF Drawn
<1>13. UNCHANGED <<computed, tile_n_stripes_done>> => Finished(t)' = Finished(t)
  BY <1>2 DEF Finished
<1>14. CASE Claim(c)
  <2>1. cpc[c] = "claim" /\ UNCHANGED <<computed, tile_n_stripes_done>>
    BY <1>14 DEF Claim
  <2>2. Drawn(t)' = DrawnOf(consumer_head + 1, Stripes(kernel), t)
        /\ Drawn(t) = DrawnOf(consumer_head, Stripes(kernel), t)
    <3>1. consumer_head' = consumer_head + 1
      BY <1>14 DEF Claim
    <3> QED BY <1>4, <3>1 DEF Drawn
  <2>3. Drawn(t)' = Drawn(t) + (IF c \in Holding(t)' THEN 1 ELSE 0)
    <3>1. CASE consumer_head < NumTiles * Stripes(kernel)
      <4>1. PICK q \in Tiles, n \in 0 .. Stripes(kernel) - 1 : /\ q \in Nat
              /\ work' = [work EXCEPT ![c] = <<q, n>>] /\ cpc' = [cpc EXCEPT ![c] = "spin"]
              /\ \A u \in Nat : DrawnOf(consumer_head + 1, Stripes(kernel), u)
                   = DrawnOf(consumer_head, Stripes(kernel), u) + (IF u = q THEN 1 ELSE 0)
        BY <1>14, <3>1, ClaimTicket
      <4>2. Drawn(t)' = Drawn(t) + (IF t = q THEN 1 ELSE 0)
        BY <1>10, <2>2, <4>1
      <4>3. cpc'[c] = "spin" /\ work'[c][1] = q
        BY <1>1, <4>1 DEF PipeType
      <4> QED BY <1>9, <4>2, <4>3
    <3>2. CASE ~(consumer_head < NumTiles * Stripes(kernel))
      <4>1. cpc' = [cpc EXCEPT ![c] = "exit"]
            /\ DrawnOf(consumer_head + 1, Stripes(kernel), t)
                 = DrawnOf(consumer_head, Stripes(kernel), t)
        BY <1>14, <3>2, ClaimTicket
      <4>2. cpc'[c] = "exit"
        BY <1>1, <4>1 DEF PipeType
      <4> QED BY <1>9, <1>12, <2>2, <4>1, <4>2
    <3> QED BY <3>1, <3>2
  <2>4. c \notin Holding(t)
    BY <1>9, <2>1
  <2> QED BY <1>7, <1>8, <1>11, <1>12, <1>13, <2>1, <2>3, <2>4
<1>15. CASE AwaitTile(c) \/ ScatterStripe(c) \/ \E i \in 0 .. tile_m - 1 : CountDownRow(c, i)
  <2>1. UNCHANGED <<computed, tile_n_stripes_done, consumer_head, work>>
    BY <1>15 DEF AwaitTile, ScatterStripe, CountDownRow
  <2>2. (c \in Holding(t)') <=> (c \in Holding(t))
    BY <1>1, <1>9, <1>15, <2>1 DEF PipeType, AwaitTile, ScatterStripe, CountDownRow
  <2> QED BY <1>7, <1>8, <1>11, <1>12, <1>13, <2>1, <2>2
<1>16. CASE ComputeStripe(c)
  <2>1. /\ kernel = 1 /\ cpc[c] = "compute" /\ cpc'[c] = "claim"
        /\ UNCHANGED <<tile_n_stripes_done, consumer_head, work>>
    BY <1>1, <1>16 DEF ComputeStripe, PipeType
  <2>2. PICK u \in Tiles : u = work[c][1]
    BY <1>1, <2>1 DEF CTAInv
  <2>3. PICK s : computed' = [computed EXCEPT ![u] = Append(@, s)]
    BY <1>16, <2>2 DEF ComputeStripe
  <2>4. Len(computed'[t]) = Len(computed[t]) + (IF u = t THEN 1 ELSE 0)
    <3>1. \A q \in Seq([0 .. tile_m - 1 -> Contents]) : Len(Append(q, s)) = Len(q) + 1
      OBVIOUS
    <3> QED BY <1>10, <2>2, <2>3, <3>1
  <2>5. Finished(t)' = Finished(t) + (IF c \in Holding(t) THEN 1 ELSE 0)
    BY <1>2, <1>9, <2>1, <2>2, <2>4 DEF Finished
  <2>6. c \notin Holding(t)'
    BY <1>9, <2>1
  <2>7. Finished(t)' + Cardinality(Holding(t)') = Drawn(t)'
    BY <1>7, <1>8, <1>11, <1>12, <2>1, <2>5, <2>6
  <2>8. Len(computed'[t]) = Finished(t)'
    BY <1>2, <2>1 DEF Finished
  <2>9. Len(computed'[t]) <= NumPidN[pass][1]
    BY <1>5, <1>8, <1>10, <1>12, <2>1, <2>4, <2>7, <2>8
  <2> QED BY <1>7, <2>1, <2>7, <2>9
<1>17. CASE FinishStripe(c)
  <2>1. /\ kernel = 2 /\ cpc[c] = "stripe" /\ cpc'[c] \in {"claim", "release"}
        /\ UNCHANGED <<computed, consumer_head, work>>
    BY <1>1, <1>17 DEF FinishStripe, PipeType
  <2>2. PICK u \in Tiles : u = work[c][1] /\ Filled(u)
    BY <1>1, <2>1 DEF CTAInv
  <2>3. tile_n_stripes_done' = [tile_n_stripes_done EXCEPT ![u] = @ + 1]
    BY <1>17, <2>2 DEF FinishStripe
  <2>4. tile_n_stripes_done'[t] = tile_n_stripes_done[t] + (IF u = t THEN 1 ELSE 0)
    BY <1>10, <2>2, <2>3
  <2>5. Finished(t)' = Finished(t) + (IF c \in Holding(t) THEN 1 ELSE 0)
    BY <1>2, <1>9, <2>1, <2>2, <2>4 DEF Finished
  <2>6. c \notin Holding(t)'
    BY <1>9, <2>1
  <2>7. Finished(t)' + Cardinality(Holding(t)') = Drawn(t)'
    BY <1>7, <1>8, <1>11, <1>12, <2>1, <2>5, <2>6
  <2>8. tile_n_stripes_done'[t] = Finished(t)'
    BY <1>2, <2>1 DEF Finished
  <2>9. tile_n_stripes_done'[t] <= Stripes(2)
    BY <1>5, <1>8, <1>10, <1>12, <2>1, <2>4, <2>7, <2>8
  <2>10. tile_n_stripes_done'[t] > 0 => Filled(t)
    BY <1>7, <1>10, <2>2, <2>4
  <2> QED BY <1>7, <2>1, <2>7, <2>9, <2>10
<1> QED BY <1>14, <1>15, <1>16, <1>17 DEF CTAStep

LEMMA CTAPipe ==
  ASSUME CoreInv, PipeInv, NEW c \in CTAs, CTAStep(c)
  PROVE  PipeInv'
BY CTATypes, CTAOthers, CTAOwn, CTAReleases, CTATickets DEF PipeInv, WorkInv

(* A fenced token is one of the real rows of its tile. *)
LEMMA SlotIsReal ==
  ASSUME CoreInv, NEW cs \in Substreams, Fenced(cs), NEW i \in 1 .. Len(arriving[cs]),
         NEW k \in K, arriving[cs][i][k] # -1, NEW t \in Tiles,
         SlotOf(arriving, cs, i, k) \in SlotsOf(t)
  PROVE  /\ SlotOf(arriving, cs, i, k) - t * tile_m \in RealRows(t)
         /\ SlotOf(arriving, cs, i, k) \in Slots
         /\ pool_recv_token[SlotOf(arriving, cs, i, k)] = Row(arriving, cs, i)
<1>1. LayerInv /\ MemoryInv
  BY DEF CoreInv
<1>2. PICK x \in Slots : x = SlotOf(arriving, cs, i, k)
  BY <1>1, RowsOfTokens
<1>3. pool_recv_token[x] = Row(arriving, cs, i) /\ Row(arriving, cs, i) \in Nat
  BY <1>1, <1>2, RowsOfTokens DEF MemoryInv
<1>4. t * tile_m \in Nat /\ SlotsOf(t) = t * tile_m .. t * tile_m + tile_m - 1
  BY <1>1, SlotsAndTiles
<1>5. PICK b \in Nat : b = t * tile_m
  BY <1>4
<1>6. x - b \in 0 .. tile_m - 1 /\ b + (x - b) = x
  BY <1>2, <1>4, <1>5, LayoutAssumption
<1>7. x - b \in RealRows(t)
  BY <1>3, <1>5, <1>6 DEF RealRows
<1> QED BY <1>2, <1>3, <1>5, <1>7

(* Which slots still wait changes only when a row is counted down. *)
LEMMA FinishWaits ==
  ASSUME CoreInv, PipeInv, NEW c \in CTAs, FinishStripe(c),
         NEW cs \in Substreams, Fenced(cs), NEW i \in 1 .. Len(arriving[cs]),
         NEW k \in K, arriving[cs][i][k] # -1
  PROVE  Waiting(SlotOf(arriving, cs, i, k))' <=> Waiting(SlotOf(arriving, cs, i, k))
<1>1. CTAInv(c) /\ PipeType
  BY DEF PipeInv, WorkInv
<1>2. UNCHANGED coreVars /\ kernel' = kernel
  BY CTAFrame DEF CTAStep
<1>3. pass' = pass /\ Tiles' = Tiles /\ arriving' = arriving
      /\ seen_per_substream' = seen_per_substream
  BY <1>2, CoreSame
<1>4. PICK u \in Tiles : u = work[c][1]
  BY <1>1 DEF FinishStripe, CTAInv
<1>5. PICK rows : rows = IF tile_n_stripes_done[u] = NumPidN[pass][2] - 1 THEN RealRows(u) ELSE {}
  OBVIOUS
<1>6. /\ cpc[c] = "stripe" /\ cpc' = [cpc EXCEPT ![c] = IF rows = {} THEN "claim" ELSE "release"]
      /\ todo' = [todo EXCEPT ![c] = rows] /\ work' = work
      /\ tile_n_stripes_done' = [tile_n_stripes_done EXCEPT ![u] = @ + 1]
  BY <1>4, <1>5 DEF FinishStripe
<1>7. NumPidN[pass][2] \in Nat \ {0} /\ tile_n_stripes_done[u] \in Nat
  BY <1>1, <1>4, StripesType DEF CoreInv, LayerInv, PipeType
<1>8. PICK x : x = SlotOf(arriving, cs, i, k)
  OBVIOUS
<1> DEFINE Held(t) == \E d \in CTAs : /\ cpc[d] = "release" /\ work[d][1] = t
                                      /\ x - t * tile_m \in todo[d]
           HeldNext(t) == \E d \in CTAs : /\ cpc'[d] = "release" /\ work'[d][1] = t
                                          /\ x - t * tile_m \in todo'[d]
<1>9. ASSUME NEW t \in Tiles, x \in SlotsOf(t)
      PROVE  (tile_n_stripes_done'[t] < NumPidN[pass][2] \/ HeldNext(t))
               <=> (tile_n_stripes_done[t] < NumPidN[pass][2] \/ Held(t))
  <2>1. CASE t # u
    <3>1. tile_n_stripes_done'[t] = tile_n_stripes_done[t]
      BY <1>1, <1>6, <2>1 DEF PipeType
    <3>2. \A d \in CTAs : work[d][1] = t =>
            d # c /\ cpc'[d] = cpc[d] /\ work'[d] = work[d] /\ todo'[d] = todo[d]
      BY <1>1, <1>4, <1>6, <2>1 DEF PipeType
    <3> QED BY <1>6, <3>1, <3>2
  <2>2. CASE t = u /\ tile_n_stripes_done[u] # NumPidN[pass][2] - 1
    <3>1. rows = {} /\ tile_n_stripes_done'[u] = tile_n_stripes_done[u] + 1
      BY <1>1, <1>4, <1>5, <1>6, <2>2 DEF PipeType
    <3>2. tile_n_stripes_done'[t] < NumPidN[pass][2] <=> tile_n_stripes_done[t] < NumPidN[pass][2]
      BY <1>7, <2>2, <3>1
    <3>3. \A d \in CTAs : cpc'[d] = "release" => d # c
      BY <1>1, <1>6, <3>1 DEF PipeType
    <3>4. \A d \in CTAs : cpc[d] = "release" => d # c
      BY <1>6
    <3>5. \A d \in CTAs : d # c =>
            cpc'[d] = cpc[d] /\ work'[d] = work[d] /\ todo'[d] = todo[d]
      BY <1>1, <1>6 DEF PipeType
    <3>6. HeldNext(t) <=> Held(t)
      BY <3>3, <3>4, <3>5
    <3> QED BY <3>2, <3>6
  <2>3. CASE t = u /\ tile_n_stripes_done[u] = NumPidN[pass][2] - 1
    <3>1. tile_n_stripes_done[t] < NumPidN[pass][2]
      BY <1>7, <2>3
    <3>2. x - t * tile_m \in RealRows(u)
      BY <1>4, <1>8, <1>9, <2>3, SlotIsReal
    <3>3. x - t * tile_m \in rows
      BY <1>5, <2>3, <3>2
    <3>4. cpc'[c] = "release" /\ work'[c][1] = t /\ todo'[c] = rows
      BY <1>1, <1>4, <1>6, <2>3, <3>3 DEF PipeType
    <3>5. HeldNext(t)
      BY <3>3, <3>4
    <3> QED BY <3>1, <3>5
  <2> QED BY <2>1, <2>2, <2>3
<1>10. Waiting(x) <=> \E t \in Tiles :
         x \in SlotsOf(t) /\ (tile_n_stripes_done[t] < NumPidN[pass][2] \/ Held(t))
  BY DEF Waiting
<1>11. Waiting(x)' <=> \E t \in Tiles :
         x \in SlotsOf(t) /\ (tile_n_stripes_done'[t] < NumPidN[pass][2] \/ HeldNext(t))
  BY <1>3 DEF Waiting
<1>12. SlotOf(arriving, cs, i, k)' = SlotOf(arriving, cs, i, k)
  BY <1>3
<1>13. Waiting(SlotOf(arriving, cs, i, k))' <=> Waiting(x)'
  BY <1>3, <1>8, <1>12 DEF Waiting
<1> QED BY <1>8, <1>9, <1>10, <1>11, <1>13

(* The row of slot x is counted down: x, and no other slot, stops waiting. *)
LEMMA CountDownWaits ==
  ASSUME CoreInv, PipeInv, NEW c \in CTAs, NEW j, CountDownRow(c, j)
  PROVE  \E x \in Slots : /\ x = work[c][1] * tile_m + j
                          /\ pool_recv_token[x] \in Rows /\ Waiting(x)
                          /\ \A y \in Slots : Waiting(y)' <=> Waiting(y) /\ y # x
<1>1. CTAInv(c) /\ PipeType /\ OneReleases /\ \A d \in CTAs : CTAInv(d)
  BY DEF PipeInv, WorkInv
<1>2. UNCHANGED coreVars
  BY DEF CountDownRow, coreVars
<1>3. pass' = pass /\ Tiles' = Tiles
  BY <1>2, CoreSame
<1>4. PICK u \in Tiles : u = work[c][1]
  BY <1>1 DEF CountDownRow, CTAInv
<1>5. /\ cpc[c] = "release" /\ j \in todo[c]
      /\ todo' = [todo EXCEPT ![c] = @ \ {j}]
      /\ cpc' = [cpc EXCEPT ![c] = IF todo'[c] = {} THEN "claim" ELSE "release"]
      /\ work' = work /\ tile_n_stripes_done' = tile_n_stripes_done
  BY DEF CountDownRow
<1>6. j \in RealRows(u) /\ tile_n_stripes_done[u] >= NumPidN[pass][2]
  BY <1>1, <1>4, <1>5 DEF CTAInv
<1>7. j \in 0 .. tile_m - 1 /\ pool_recv_token[u * tile_m + j] >= 0
  BY <1>6 DEF RealRows
<1>8. PICK x \in Slots : x = u * tile_m + j /\ x \in SlotsOf(u)
  BY <1>7, OperandType
<1>9. PICK b \in Nat : b = u * tile_m
  BY SlotsAndTiles DEF CoreInv
<1>10. pool_recv_token[x] \in Rows
  BY <1>7, <1>8 DEF CoreInv, MemoryInv
<1>11. x - u * tile_m = j
  BY <1>7, <1>8, <1>9
<1>12. Waiting(x)
  BY <1>4, <1>5, <1>8, <1>11 DEF Waiting
<1>13. ASSUME NEW y \in Slots, NEW t \in Tiles, y \in SlotsOf(t)
       PROVE  (\E d \in CTAs : cpc'[d] = "release" /\ work'[d][1] = t
                                 /\ y - t * tile_m \in todo'[d])
                <=> (\E d \in CTAs : cpc[d] = "release" /\ work[d][1] = t
                                       /\ y - t * tile_m \in todo[d]) /\ y # x
  <2>1. PICK n : n = y - t * tile_m
    OBVIOUS
  <2>2. \A d \in CTAs : d # c =>
          cpc'[d] = cpc[d] /\ work'[d] = work[d] /\ todo'[d] = todo[d]
    BY <1>1, <1>5 DEF PipeType
  <2>3. CASE t # u
    <3>1. y # x
      BY <1>8, <1>13, <2>3, SlotsAndTiles DEF CoreInv
    <3>2. \A d \in CTAs : work[d][1] = t => d # c
      BY <1>4, <2>3
    <3> QED BY <1>5, <2>2, <3>1, <3>2
  <2>4. CASE t = u
    <3>1. y = x <=> n = j
      <4>1. n = y - b /\ y \in Nat /\ x = b + j
        <5>1. y \in Nat
          BY <1>13, Layout DEF CoreInv
        <5> QED BY <1>8, <1>9, <2>1, <2>4, <5>1
      <4> QED BY <1>7, <4>1
    <3>2. \A d \in CTAs : cpc[d] = "release" /\ work[d][1] = t => d = c
      BY <1>1, <1>4, <1>5, <2>4 DEF OneReleases
    <3>3. todo'[c] = todo[c] \ {j} /\ cpc'[c] = IF todo'[c] = {} THEN "claim" ELSE "release"
      BY <1>1, <1>5 DEF PipeType
    <3>4. \A d \in CTAs : cpc'[d] = "release" /\ work'[d][1] = t => d = c
      BY <1>5, <2>2, <3>2
    <3>5. (\E d \in CTAs : cpc[d] = "release" /\ work[d][1] = t /\ n \in todo[d])
            <=> n \in todo[c]
      BY <1>4, <1>5, <2>4, <3>2
    <3>6. (\E d \in CTAs : cpc'[d] = "release" /\ work'[d][1] = t /\ n \in todo'[d])
            <=> n \in todo'[c]
      BY <1>4, <1>5, <2>4, <3>3, <3>4
    <3> QED BY <2>1, <3>1, <3>3, <3>5, <3>6
  <2> QED BY <2>3, <2>4
<1>14. NumPidN[pass][2] \in Nat /\ tile_n_stripes_done[u] \in Nat
  BY <1>1, <1>4, StripesType DEF CoreInv, LayerInv, PipeType
<1>15. ASSUME NEW y \in Slots PROVE Waiting(y)' <=> Waiting(y) /\ y # x
  <2>1. PICK t \in Tiles : y \in SlotsOf(t)
    BY SlotsAndTiles DEF CoreInv
  <2>2. \A v \in Tiles : y \in SlotsOf(v) => v = t
    BY <2>1, SlotsAndTiles DEF CoreInv
  <2>3. y = x => t = u
    BY <1>8, <2>2
  <2>4. y = x => ~(tile_n_stripes_done[t] < NumPidN[pass][2])
    BY <1>6, <1>14, <2>3
  <2>5. PICK doing, next :
          /\ doing = (\E d \in CTAs : cpc[d] = "release" /\ work[d][1] = t
                                        /\ y - t * tile_m \in todo[d])
          /\ next = (\E d \in CTAs : cpc'[d] = "release" /\ work'[d][1] = t
                                       /\ y - t * tile_m \in todo'[d])
    OBVIOUS
  <2>6. next <=> doing /\ y # x
    BY <1>13, <2>1, <2>5
  <2>7. Waiting(y) <=> tile_n_stripes_done[t] < NumPidN[pass][2] \/ doing
    BY <2>1, <2>2, <2>5 DEF Waiting
  <2>8. Waiting(y)' <=> tile_n_stripes_done[t] < NumPidN[pass][2] \/ next
    BY <1>3, <1>5, <2>1, <2>2, <2>5 DEF Waiting
  <2> QED BY <2>4, <2>6, <2>7, <2>8
<1> QED BY <1>4, <1>8, <1>10, <1>12, <1>15

LEMMA UnservedFinite ==
  ASSUME NEW cs, NEW i
  PROVE  IsFiniteSet(Unserved(cs, i)) /\ Cardinality(Unserved(cs, i)) \in Nat
<1>1. IsFiniteSet(K)
  <2>1. 0 \in Int /\ num_topk - 1 \in Int
    BY StreamAssumption
  <2> QED BY <2>1, FS_Interval DEF K
<1>2. Unserved(cs, i) \subseteq K
  BY DEF Unserved
<1> QED BY <1>1, <1>2, FS_Subset, FS_CardinalityType

(* The row of the slot that stops waiting, and only that row, owes one less. *)
LEMMA CountDownRows ==
  ASSUME CoreInv, PipeInv, RowInv, NEW c \in CTAs, NEW j, CountDownRow(c, j)
  PROVE  RowInv'
<1>1. LayerInv /\ arriving \in Arrivals
  BY DEF CoreInv, LayerInv
<1>2. UNCHANGED coreVars
  BY DEF CountDownRow, coreVars
<1>3. pass' = pass /\ Rows' = Rows /\ arriving' = arriving
      /\ seen_per_substream' = seen_per_substream
      /\ \A cs \in Substreams : Fenced(cs)' <=> Fenced(cs)
  BY <1>2, CoreSame
<1>4. PICK x \in Slots : /\ x = work[c][1] * tile_m + j
                         /\ pool_recv_token[x] \in Rows /\ Waiting(x)
                         /\ \A y \in Slots : Waiting(y)' <=> Waiting(y) /\ y # x
  BY CountDownWaits
<1>5. PICK r \in Rows : r = pool_recv_token[x] /\ r # -1
  BY <1>1, <1>4, RowsOfTokens
<1>6. /\ k_local_remaining' = [k_local_remaining EXCEPT ![r] = @ - 1] /\ o' = o
      /\ y_done' = IF k_local_remaining[r] = 1 THEN y_done \cup {r} ELSE y_done
  BY <1>4, <1>5 DEF CountDownRow
<1>7. PICK c0 \in Substreams :
        \E i \in 1 .. Len(arriving[c0]), k \in K :
          /\ arriving[c0][i][k] # -1 /\ x = SlotOf(arriving, c0, i, k)
          /\ Fenced(c0) /\ r = Row(arriving, c0, i)
  BY <1>5, Holder
<1>8. PICK i0 \in 1 .. Len(arriving[c0]), k0 \in K :
        /\ arriving[c0][i0][k0] # -1 /\ x = SlotOf(arriving, c0, i0, k0)
        /\ Fenced(c0) /\ r = Row(arriving, c0, i0)
  BY <1>7
<1>9. k0 \in Unserved(c0, i0) /\ k_local_remaining[r] = Cardinality(Unserved(c0, i0))
  BY <1>4, <1>8 DEF Unserved, RowInv
<1>10. PICK n \in Nat : n = Cardinality(Unserved(c0, i0) \ {k0})
                        /\ n + 1 = Cardinality(Unserved(c0, i0))
  <2>1. PICK U : U = Unserved(c0, i0)
    OBVIOUS
  <2>2. IsFiniteSet(U) /\ IsFiniteSet(U \ {k0})
    BY <2>1, UnservedFinite, FS_Subset
  <2>3. PICK D : D = U \ {k0}
    OBVIOUS
  <2>4. IsFiniteSet(D) /\ k0 \notin D /\ U = D \cup {k0}
    BY <1>9, <2>1, <2>2, <2>3
  <2>5. Cardinality(D) \in Nat /\ Cardinality(D \cup {k0}) = Cardinality(D) + 1
    BY <2>4, FS_CardinalityType, FS_AddElement
  <2> QED BY <2>1, <2>3, <2>4, <2>5
<1>11. ASSUME NEW cs \in Substreams, NEW i \in 1 .. Len(arriving[cs])
       PROVE  Unserved(cs, i)' = Unserved(cs, i) \ {k \in K : arriving[cs][i][k] # -1
                                                     /\ SlotOf(arriving, cs, i, k) = x}
  <2>1. ASSUME NEW k \in K, arriving[cs][i][k] # -1
        PROVE  Waiting(SlotOf(arriving, cs, i, k))'
                 <=> Waiting(SlotOf(arriving, cs, i, k)) /\ SlotOf(arriving, cs, i, k) # x
    <3>1. PICK y \in Slots : y = SlotOf(arriving, cs, i, k)
      BY <1>1, <2>1, RowsOfTokens
    <3>2. SlotOf(arriving, cs, i, k)' = y
      BY <1>3, <3>1
    <3>3. Waiting(SlotOf(arriving, cs, i, k))' <=> Waiting(y)'
      BY <3>2 DEF Waiting
    <3> QED BY <1>4, <3>1, <3>3
  <2> QED BY <1>3, <2>1 DEF Unserved
<1>12. k_local_remaining' \in [Rows -> 0 .. num_topk]
  <2>1. k_local_remaining \in [Rows -> 0 .. num_topk] /\ k_local_remaining[r] - 1 \in 0 .. num_topk
    <3>1. k_local_remaining \in [Rows -> 0 .. num_topk] /\ num_topk \in Nat
      BY StreamAssumption DEF RowInv
    <3>2. k_local_remaining[r] = n + 1 /\ k_local_remaining[r] \in 0 .. num_topk
      BY <1>9, <1>10, <3>1
    <3> QED BY <3>1, <3>2
  <2> QED BY <1>6, <2>1
<1>13. ASSUME NEW cs \in Substreams, NEW i \in 1 .. Len(arriving[cs])
       PROVE  k_local_remaining'[Row(arriving, cs, i)] =
                IF Fenced(cs) THEN Cardinality(Unserved(cs, i)') ELSE 0
  <2>1. k_local_remaining[Row(arriving, cs, i)] =
          IF Fenced(cs) THEN Cardinality(Unserved(cs, i)) ELSE 0
    BY DEF RowInv
  <2>2. PICK q \in Rows : q = Row(arriving, cs, i)
    BY <1>1, RowsOfTokens
  <2>3. CASE cs = c0 /\ i = i0
    <3>1. Unserved(cs, i)' = Unserved(c0, i0) \ {k0}
      <4>1. \A k \in K : arriving[c0][i0][k] # -1 /\ SlotOf(arriving, c0, i0, k) = x => k = k0
        BY <1>1, <1>8, SlotsDiffer
      <4>2. {k \in K : arriving[c0][i0][k] # -1 /\ SlotOf(arriving, c0, i0, k) = x} = {k0}
        BY <1>8, <4>1
      <4> QED BY <1>11, <2>3, <4>2
    <3>2. k_local_remaining'[r] = k_local_remaining[r] - 1
      BY <1>6 DEF RowInv
    <3>3. k_local_remaining'[r] = n
      BY <1>9, <1>10, <3>2
    <3> QED BY <1>8, <1>10, <2>3, <3>1, <3>3
  <2>4. CASE ~(cs = c0 /\ i = i0)
    <3>1. q # r
      BY <1>1, <1>8, <2>2, <2>4, RowsDiffer
    <3>2. \A k \in K : ~(arriving[cs][i][k] # -1 /\ SlotOf(arriving, cs, i, k) = x)
      BY <1>1, <1>8, <2>4, SlotsDiffer
    <3>3. Unserved(cs, i)' = Unserved(cs, i)
      BY <1>11, <3>2
    <3>4. k_local_remaining'[q] = k_local_remaining[q]
      BY <1>6, <2>2, <3>1 DEF RowInv
    <3> QED BY <2>1, <2>2, <3>3, <3>4
  <2> QED BY <2>3, <2>4
<1>14. y_done' \subseteq Rows
  BY <1>5, <1>6 DEF RowInv
<1> QED BY <1>3, <1>6, <1>12, <1>13, <1>14 DEF RowInv

(* A row stays as it is when its slots go on waiting. *)
LEMMA RowsKept ==
  ASSUME CoreInv, RowInv, UNCHANGED coreVars, UNCHANGED <<k_local_remaining, y_done>>,
         o' = [r \in Rows |-> o'[r]], \A r \in Rows : IsABag(o'[r]),
         \A cs \in Substreams : Fenced(cs) =>
           \A i \in 1 .. Len(arriving[cs]), k \in K : arriving[cs][i][k] # -1 =>
             (Waiting(SlotOf(arriving, cs, i, k))' <=> Waiting(SlotOf(arriving, cs, i, k)))
  PROVE  RowInv'
<1>1. pass' = pass /\ Rows' = Rows /\ arriving' = arriving
      /\ seen_per_substream' = seen_per_substream
      /\ \A cs \in Substreams : Fenced(cs)' <=> Fenced(cs)
  BY CoreSame
<1>2. ASSUME NEW cs \in Substreams, Fenced(cs), NEW i \in 1 .. Len(arriving[cs])
      PROVE  Unserved(cs, i)' = Unserved(cs, i)
  BY <1>1, <1>2 DEF Unserved
<1> QED BY <1>1, <1>2 DEF RowInv

(* Bags stay bags. *)
LEMMA BagAdd ==
  ASSUME NEW B, IsABag(B), NEW S
  PROVE  IsABag(B (+) SetToBag(S)) /\ IsABag(EmptyBag)
<1>1. PICK C : C = B (+) SetToBag(S)
  OBVIOUS
<1>2. DOMAIN C = DOMAIN B \cup S
  BY <1>1 DEF (+), SetToBag
<1>3. C = [e \in DOMAIN C |-> (IF e \in DOMAIN B THEN B[e] ELSE 0) + (IF e \in S THEN 1 ELSE 0)]
  BY <1>1, <1>2 DEF (+), SetToBag
<1>4. ASSUME NEW e \in DOMAIN C PROVE C[e] \in {n \in Nat : n > 0}
  <2>1. e \in DOMAIN B => B[e] \in Nat /\ B[e] > 0
    BY DEF IsABag
  <2>2. C[e] = (IF e \in DOMAIN B THEN B[e] ELSE 0) + (IF e \in S THEN 1 ELSE 0)
    BY <1>3
  <2> QED BY <1>2, <2>1, <2>2
<1>5. IsABag(C)
  BY <1>3, <1>4 DEF IsABag
<1>6. IsABag(EmptyBag)
  BY DEF IsABag, EmptyBag, SetToBag
<1> QED BY <1>1, <1>5, <1>6

(* Slots go on waiting in a step that counts no stripe and no row. *)
LEMMA WaitsOn ==
  ASSUME UNCHANGED coreVars, UNCHANGED tile_n_stripes_done,
         \A d \in CTAs : cpc'[d] = "release" <=> cpc[d] = "release",
         \A d \in CTAs : cpc[d] = "release" => work'[d] = work[d] /\ todo'[d] = todo[d]
  PROVE  \A cs \in Substreams : Fenced(cs) =>
           \A i \in 1 .. Len(arriving[cs]), k \in K : arriving[cs][i][k] # -1 =>
             (Waiting(SlotOf(arriving, cs, i, k))' <=> Waiting(SlotOf(arriving, cs, i, k)))
<1>1. /\ pass' = pass /\ Tiles' = Tiles /\ arriving' = arriving
      /\ seen_per_substream' = seen_per_substream
  BY CoreSame
<1>2. ASSUME NEW x PROVE Waiting(x)' <=> Waiting(x)
  BY <1>1 DEF Waiting
<1>3. ASSUME NEW cs \in Substreams, NEW i, NEW k
      PROVE  Waiting(SlotOf(arriving, cs, i, k))' <=> Waiting(SlotOf(arriving, cs, i, k))
  <2>1. PICK x : x = SlotOf(arriving, cs, i, k)
    OBVIOUS
  <2>2. SlotOf(arriving, cs, i, k)' = x
    BY <1>1, <2>1
  <2>3. Waiting(SlotOf(arriving, cs, i, k))' <=> Waiting(x)'
    BY <1>1, <2>2 DEF Waiting
  <2> QED BY <1>2, <2>1, <2>3
<1> QED BY <1>3

LEMMA CTARows ==
  ASSUME IInv, NEW c \in CTAs, CTAStep(c)
  PROVE  RowInv'
<1>1. CoreInv /\ PipeInv /\ RowInv /\ PipeType
  BY DEF IInv, PipeInv
<1>2. UNCHANGED coreVars
  BY <1>1, CTAFrame
<1>3. CASE Claim(c) \/ AwaitTile(c) \/ ComputeStripe(c)
  <2>1. UNCHANGED <<k_local_remaining, o, y_done, tile_n_stripes_done>> /\ todo' = todo
    BY <1>3 DEF Claim, AwaitTile, ComputeStripe, rowVars
  <2>2. \A d \in CTAs : cpc'[d] = "release" <=> cpc[d] = "release"
    BY <1>1, <1>3 DEF PipeType, Claim, AwaitTile, ComputeStripe
  <2>3. \A d \in CTAs : cpc[d] = "release" => work'[d] = work[d]
    BY <1>1, <1>3 DEF PipeType, Claim, AwaitTile, ComputeStripe
  <2>4. o' = [r \in Rows |-> o'[r]] /\ \A r \in Rows : IsABag(o'[r])
    BY <1>1, <2>1 DEF RowInv
  <2> QED BY <1>1, <1>2, <2>1, <2>2, <2>3, <2>4, WaitsOn, RowsKept
<1>4. CASE ScatterStripe(c)
  <2>1. UNCHANGED <<k_local_remaining, y_done, tile_n_stripes_done>> /\ todo' = todo /\ work' = work
    BY <1>4 DEF ScatterStripe
  <2>2. \A d \in CTAs : cpc'[d] = "release" <=> cpc[d] = "release"
    BY <1>1, <1>4 DEF PipeType, ScatterStripe
  <2>3. \E S : o' = [r \in Rows |-> o[r] (+) SetToBag(S[r])]
    <3>1. PICK S : S = [r \in Rows |->
            IF work[c][2] >= NumPidN[pass][2] THEN {}
            ELSE {Share(BallotExpert(expert_pool_block_offset, work[c][1]), work[c][2],
                        Intermediate(work[c][1], i)) :
                    i \in {i \in RealRows(work[c][1]) :
                             pool_recv_token[work[c][1] * tile_m + i] = r}}]
      OBVIOUS
    <3>2. o' = [r \in Rows |-> o[r] (+) SetToBag(S[r])]
      BY <1>4, <3>1 DEF ScatterStripe
    <3> QED BY <3>2
  <2>4. o' = [r \in Rows |-> o'[r]] /\ \A r \in Rows : IsABag(o'[r])
    <3>1. PICK S : o' = [r \in Rows |-> o[r] (+) SetToBag(S[r])]
      BY <2>3
    <3>2. \A r \in Rows : IsABag(o[r])
      BY <1>1 DEF RowInv
    <3>3. ASSUME NEW r \in Rows PROVE IsABag(o'[r])
      <4>1. o'[r] = o[r] (+) SetToBag(S[r])
        BY <3>1
      <4> QED BY <3>2, <4>1, BagAdd
    <3> QED BY <3>1, <3>3
  <2> QED BY <1>1, <1>2, <2>1, <2>2, <2>4, WaitsOn, RowsKept
<1>5. CASE FinishStripe(c)
  <2>1. UNCHANGED <<k_local_remaining, o, y_done>>
    BY <1>5 DEF FinishStripe, rowVars
  <2>2. o' = [r \in Rows |-> o'[r]] /\ \A r \in Rows : IsABag(o'[r])
    BY <1>1, <2>1 DEF RowInv
  <2>3. \A cs \in Substreams : Fenced(cs) =>
          \A i \in 1 .. Len(arriving[cs]), k \in K : arriving[cs][i][k] # -1 =>
            (Waiting(SlotOf(arriving, cs, i, k))' <=> Waiting(SlotOf(arriving, cs, i, k)))
    BY <1>1, <1>5, FinishWaits
  <2> QED BY <1>1, <1>2, <2>1, <2>2, <2>3, RowsKept
<1>6. CASE \E i \in 0 .. tile_m - 1 : CountDownRow(c, i)
  BY <1>1, <1>6, CountDownRows
<1> QED BY <1>3, <1>4, <1>5, <1>6 DEF CTAStep

(* The next kernel starts when no CTA holds a tile any more. *)
LEMMA NextKernelPipe ==
  ASSUME IInv, NextKernel
  PROVE  PipeInv' /\ RowInv'
<1>1. CoreInv /\ PipeInv /\ RowInv /\ PipeType /\ WorkInv /\ TicketInv
  BY DEF IInv, PipeInv
<1>2. UNCHANGED coreVars
  BY DEF NextKernel, coreVars
<1>3. /\ kernel \in 1 .. 2 /\ kernel' = kernel + 1 /\ consumer_head' = 0
      /\ \A c \in CTAs : cpc[c] = "exit"
      /\ cpc' = [c \in CTAs |-> "claim"] /\ work' = [c \in CTAs |-> <<0, 0>>]
      /\ UNCHANGED <<todo, computed, tile_n_stripes_done, k_local_remaining, o, y_done>>
  BY DEF NextKernel, rowVars
<1>4. /\ pass' = pass /\ Tiles' = Tiles /\ Contents' = Contents
      /\ \A k : Stripes(k)' = Stripes(k)
      /\ \A t : Filled(t)' <=> Filled(t)
  BY <1>2, CoreSame
<1>5. PipeType'
  BY <1>1, <1>3, <1>4 DEF PipeType
<1>6. WorkInv'
  <2>1. \A c \in CTAs : todo[c] = {}
    BY <1>1, <1>3 DEF WorkInv, CTAInv
  <2>2. \A c \in CTAs : cpc'[c] = "claim" /\ todo'[c] = {}
    BY <1>3, <2>1
  <2> QED BY <2>2 DEF WorkInv, CTAInv, OneReleases
<1>7. TicketInv'
  <2>1. SUFFICES ASSUME NEW t \in Tiles
                 PROVE  /\ kernel' # 3 => Finished(t)' + Cardinality(Holding(t)') = Drawn(t)'
                        /\ kernel' = 1 => tile_n_stripes_done'[t] = 0
                        /\ Len(computed'[t]) <= NumPidN[pass][1]
                        /\ tile_n_stripes_done'[t] <= Stripes(2)
                        /\ tile_n_stripes_done'[t] > 0 => Filled(t)
    <3>1. Stripes(2)' = Stripes(2)
      BY <1>4 DEF Stripes
    <3> QED BY <1>3, <1>4, <3>1 DEF TicketInv
  <2>2. ASSUME kernel' # 3
        PROVE  Finished(t)' + Cardinality(Holding(t)') = Drawn(t)'
    <3>1. kernel = 1 /\ kernel' = 2
      BY <1>3, <2>2
    <3>2. Finished(t)' = 0
      BY <1>1, <1>3, <3>1 DEF Finished, TicketInv
    <3>3. Cardinality(Holding(t)') = 0
      <4>1. Holding(t)' = {}
        BY <1>3 DEF Holding
      <4> QED BY <4>1, FS_EmptySet
    <3>4. Drawn(t)' = 0
      <4>1. Stripes(2) \in Nat \ {0} /\ t \in Nat /\ 0 \in Nat
        BY <1>1, StripesType, SlotsAndTiles DEF CoreInv, LayerInv
      <4>2. DrawnOf(0, Stripes(2), t) = 0
        BY <4>1, DrawnBounds
      <4>3. Stripes(kernel)' = Stripes(2)
        BY <1>4, <3>1 DEF Stripes
      <4> QED BY <1>3, <4>2, <4>3 DEF Drawn
    <3> QED BY <3>2, <3>3, <3>4
  <2>3. kernel' # 1
    BY <1>3
  <2> QED BY <1>1, <1>3, <2>2, <2>3 DEF TicketInv
<1>8. RowInv'
  <2>1. o' = [r \in Rows |-> o'[r]] /\ \A r \in Rows : IsABag(o'[r])
    BY <1>1, <1>3 DEF RowInv
  <2>2. \A c \in CTAs : cpc'[c] # "release" /\ cpc[c] # "release"
    BY <1>3
  <2> QED BY <1>1, <1>2, <1>3, <2>1, <2>2, WaitsOn, RowsKept
<1> QED BY <1>5, <1>6, <1>7, <1>8 DEF PipeInv

(* Where the compute stream starts from, in either pass. *)
LEMMA FreshPipe ==
  ASSUME LayerInv, kernel = (IF NumTiles > 0 THEN 1 ELSE 3), consumer_head = 0,
         \A c \in CTAs : cpc[c] = "claim" /\ todo[c] = {},
         cpc \in [CTAs -> {"claim"}], work \in [CTAs -> Nat \X Nat], todo \in [CTAs -> {{}}],
         computed = [t \in Tiles |-> << >>], tile_n_stripes_done = [t \in Tiles |-> 0]
  PROVE  PipeInv /\ \A x \in Slots : Waiting(x)
<1>1. PipeType
  <2>1. << >> \in Seq([0 .. tile_m - 1 -> Contents])
    OBVIOUS
  <2> QED BY <2>1 DEF PipeType
<1>2. WorkInv
  BY DEF WorkInv, CTAInv, OneReleases
<1>3. TicketInv
  <2>1. SUFFICES ASSUME NEW t \in Tiles
                 PROVE  /\ kernel # 3 => Finished(t) + Cardinality(Holding(t)) = Drawn(t)
                        /\ kernel = 1 => tile_n_stripes_done[t] = 0
                        /\ Len(computed[t]) <= NumPidN[pass][1]
                        /\ tile_n_stripes_done[t] <= Stripes(2)
                        /\ tile_n_stripes_done[t] > 0 => Filled(t)
    BY DEF TicketInv
  <2>2. /\ Stripes(2) \in Nat \ {0} /\ Stripes(1) \in Nat \ {0} /\ NumPidN[pass][1] \in Nat \ {0}
        /\ t \in Nat /\ 0 \in Nat
    BY StripesType, SlotsAndTiles DEF LayerInv
  <2>3. Cardinality(Holding(t)) = 0
    <3>1. Holding(t) = {}
      BY DEF Holding
    <3> QED BY <3>1, FS_EmptySet
  <2>4. Finished(t) = 0 /\ Len(computed[t]) = 0 /\ tile_n_stripes_done[t] = 0
    BY DEF Finished
  <2>5. kernel # 3 => Drawn(t) = 0
    <3>1. DrawnOf(0, Stripes(1), t) = 0
      BY <2>2, DrawnBounds
    <3> QED BY <3>1 DEF Drawn
  <2> QED BY <2>2, <2>3, <2>4, <2>5
<1>4. ASSUME NEW x \in Slots PROVE Waiting(x)
  <2>1. PICK t \in Tiles : x \in SlotsOf(t)
    BY SlotsAndTiles
  <2>2. NumPidN[pass][2] \in Nat \ {0}
    BY StripesType DEF LayerInv
  <2>3. tile_n_stripes_done[t] < NumPidN[pass][2]
    BY <2>2
  <2> QED BY <2>1, <2>3 DEF Waiting
<1> QED BY <1>1, <1>2, <1>3, <1>4 DEF PipeInv

LEMMA InitPipe ==
  ASSUME Init
  PROVE  IInv
<1>1. CoreInv /\ LayerInv
  BY InitCore DEF CoreInv
<1>2. PipeInv
  <2>1. <<0, 0>> \in Nat \X Nat
    OBVIOUS
  <2> QED BY <1>1, <2>1, FreshPipe DEF Init
<1>3. RowInv
  <2>1. k_local_remaining = [r \in Rows |-> 0] /\ y_done = {} /\ o = [r \in Rows |-> EmptyBag]
    BY DEF Init
  <2>2. IsABag(EmptyBag)
    BY DEF IsABag, EmptyBag, SetToBag
  <2>3. \A cs \in Substreams : ~Fenced(cs)
    BY DEF Init, Fenced
  <2>4. num_topk \in Nat
    BY StreamAssumption
  <2>5. \A cs \in Substreams : \A i \in 1 .. Len(arriving[cs]) : Row(arriving, cs, i) \in Rows
    BY <1>1, RowsOfTokens
  <2> QED BY <2>1, <2>2, <2>3, <2>4, <2>5 DEF RowInv
<1> QED BY <1>1, <1>2, <1>3 DEF IInv

(* The backward pass starts with every slot of every row to wait for. *)
LEMMA LaunchBackwardPipe ==
  ASSUME IInv, LaunchBackward
  PROVE  PipeInv' /\ RowInv'
<1>1. CoreInv /\ PipeInv /\ RowInv /\ PipeType /\ WorkInv /\ MemoryInv /\ LayerInv
  BY DEF IInv, PipeInv, CoreInv
<1>2. CoreInv' /\ Tiles' = Tiles /\ Slots' = Slots /\ Rows' = Rows /\ LayerInv'
  BY <1>1, LaunchBackwardCore DEF CoreInv
<1>3. /\ pass = "fwd" /\ kernel = 3 /\ \A cs \in Substreams : rpc[cs] = "done"
      /\ pass' = "bwd" /\ kernel' = (IF NumTiles > 0 THEN 1 ELSE 3) /\ consumer_head' = 0
      /\ computed' = [t \in Tiles |-> << >>] /\ tile_n_stripes_done' = [t \in Tiles |-> 0]
      /\ k_local_remaining' = k_local_total /\ k_local_total' = k_local_total
      /\ o' = [r \in Rows |-> EmptyBag] /\ y_done' = {}
      /\ cpc' = cpc /\ work' = work /\ todo' = todo /\ arriving' = arriving
      /\ seen_per_substream' = seen_per_substream
      /\ expert_pool_block_offset' = expert_pool_block_offset
  BY DEF LaunchBackward, PassOver, layerVars, poolVars
<1>4. /\ \A c \in CTAs : cpc[c] = "claim" /\ todo[c] = {}
      /\ cpc \in [CTAs -> {"claim"}] /\ work \in [CTAs -> Nat \X Nat] /\ todo \in [CTAs -> {{}}]
  BY <1>1, <1>3 DEF WorkInv, CTAInv, PipeType
<1>5. PipeInv' /\ \A x \in Slots : Waiting(x)'
  <2>1. LayerInv'
    BY <1>2
  <2>2. NumTiles' = NumTiles
    BY <1>3 DEF NumTiles
  <2>3. /\ kernel' = (IF NumTiles' > 0 THEN 1 ELSE 3) /\ consumer_head' = 0
        /\ \A c \in CTAs : cpc'[c] = "claim" /\ todo'[c] = {}
        /\ cpc' \in [CTAs -> {"claim"}] /\ work' \in [CTAs -> Nat \X Nat]
        /\ todo' \in [CTAs -> {{}}]
        /\ computed' = [t \in Tiles' |-> << >>] /\ tile_n_stripes_done' = [t \in Tiles' |-> 0]
    BY <1>2, <1>3, <1>4, <2>2
  <2>4. (LayerInv /\ kernel = (IF NumTiles > 0 THEN 1 ELSE 3) /\ consumer_head = 0
         /\ (\A c \in CTAs : cpc[c] = "claim" /\ todo[c] = {})
         /\ cpc \in [CTAs -> {"claim"}] /\ work \in [CTAs -> Nat \X Nat]
         /\ todo \in [CTAs -> {{}}]
         /\ computed = [t \in Tiles |-> << >>] /\ tile_n_stripes_done = [t \in Tiles |-> 0]
         => PipeInv /\ \A x \in Slots : Waiting(x))'
    BY FreshPipe, PTL
  <2> QED BY <1>2, <2>1, <2>3, <2>4
<1>6. RowInv'
  <2>1. IsABag(EmptyBag)
    BY DEF IsABag, EmptyBag, SetToBag
  <2>2. \A cs \in Substreams : Fenced(cs) /\ Fenced(cs)'
    BY <1>3 DEF Fenced
  <2>3. ASSUME NEW cs \in Substreams, NEW i \in 1 .. Len(arriving[cs])
        PROVE  k_local_total[Row(arriving, cs, i)] = Cardinality(Unserved(cs, i)')
    <3>1. k_local_total[Row(arriving, cs, i)] = LocalK(SlotsOfRow(arriving, cs, i))
      BY <1>1, <2>2 DEF MemoryInv
    <3>2. ASSUME NEW k \in K, arriving[cs][i][k] # -1
          PROVE  Waiting(SlotOf(arriving, cs, i, k))'
      <4>1. PICK x \in Slots : x = SlotOf(arriving, cs, i, k)
        BY <1>1, <3>2, RowsOfTokens
      <4>2. SlotOf(arriving, cs, i, k)' = x
        BY <1>3, <4>1
      <4>3. Waiting(SlotOf(arriving, cs, i, k))' <=> Waiting(x)'
        BY <4>2 DEF Waiting
      <4> QED BY <1>5, <4>3
    <3>3. Unserved(cs, i)' = {k \in K : SlotsOfRow(arriving, cs, i)[k] # -1}
      BY <1>1, <1>3, <3>2, SlotsType DEF Unserved
    <3> QED BY <3>1, <3>3 DEF LocalK
  <2>4. k_local_total \in [Rows -> 0 .. num_topk]
    BY <1>1 DEF MemoryInv
  <2> QED BY <1>2, <1>3, <2>1, <2>2, <2>3, <2>4 DEF RowInv
<1> QED BY <1>5, <1>6

LEMMA IInvNext ==
  ASSUME IInv, [Next]_vars
  PROVE  IInv'
<1>1. CoreInv /\ PipeInv /\ RowInv
  BY DEF IInv
<1>2. CoreInv'
  BY <1>1, CoreNext
<1>3. ASSUME UNCHANGED vars PROVE IInv'
  <2>1. UNCHANGED coreVars /\ UNCHANGED <<pass, layerVars, kernelVars, rowVars>>
    BY <1>3 DEF vars, coreVars
  <2>2. UNCHANGED <<Tiles, Slots, Rows>> /\ \A cs \in Substreams : Fenced(cs)' <=> Fenced(cs)
    BY <2>1, CoreSame
  <2>3. \A cs \in Substreams : fired[cs] \subseteq fired'[cs] /\ (rpc[cs] # "recv" => rpc'[cs] # "recv")
    BY <2>1 DEF coreVars, receiverVars
  <2>4. PipeInv'
    BY <1>1, <1>2, <2>1, <2>2, <2>3, PipeStays
  <2>5. RowInv'
    BY <1>1, <2>1, <2>2, RowsStay
  <2> QED BY <1>2, <2>4, <2>5 DEF IInv
<1>4. ASSUME NEW c \in CTAs, CTAStep(c) PROVE IInv'
  BY <1>1, <1>2, <1>4, CTAPipe, CTARows DEF IInv
<1>5. ASSUME NEW cs \in Substreams, ReceiverStep(cs) PROVE IInv'
  BY <1>2, <1>5, ReceiverPipe DEF IInv
<1>6. ASSUME NextKernel PROVE IInv'
  BY <1>2, <1>6, NextKernelPipe DEF IInv
<1>7. ASSUME LaunchBackward PROVE IInv'
  BY <1>2, <1>7, LaunchBackwardPipe DEF IInv
<1>8. \/ NextKernel \/ LaunchBackward \/ UNCHANGED vars
      \/ \E cs \in Substreams : ReceiverStep(cs)
      \/ \E c \in CTAs : CTAStep(c)
  BY DEF Next, Terminated
<1> QED BY <1>3, <1>4, <1>5, <1>6, <1>7, <1>8

(* In every reachable state the tickets of a tile are accounted for by the
   stripes that are finished and the CTAs at work, one CTA at most counts its
   rows down, and the count of a row is the number of its slots that have not
   been counted down: it never goes below zero, and finds one exactly once. *)
THEOREM InductiveInvariant == Spec => []IInv
<1>1. Init => IInv
  BY InitPipe
<1>2. IInv /\ [Next]_vars => IInv'
  BY IInvNext
<1> QED BY <1>1, <1>2, PTL DEF Spec

(* Every variable keeps its type, and every counter its range: no receiver
   counts past what the metadata kernel counted, no arrival count passes a
   tile's slots, no tile is worked on by more stripes than it has, and no row
   count leaves 0 .. num_topk. *)
THEOREM TypeCorrect == Spec => []TypeOK
<1>1. ASSUME IInv PROVE TypeOK
  <2>1. /\ LayerInv /\ ReceiverInv /\ MemoryInv /\ CountInv /\ CoreInv
        /\ PipeType /\ WorkInv /\ TicketInv /\ RowInv /\ arriving \in Arrivals
    BY <1>1 DEF IInv, CoreInv, PipeInv, LayerInv
  <2>2. ASSUME NEW cs \in Substreams
        PROVE  /\ head[cs] \in 0 .. Len(arriving[cs])
               /\ \A w \in unfenced[cs] : w.row \in Rows /\ w.slots \in [K -> Slots \cup {-1}]
               /\ \A e \in Experts : smem_seen[cs][e] <= seen_per_substream[cs][e]
               /\ fired[cs] \subseteq Tiles
    <3>1. Len(arriving[cs]) \in Nat /\ head[cs] \in Nat /\ head[cs] <= Len(arriving[cs])
      BY <2>1, Routing DEF ReceiverInv
    <3>2. ASSUME NEW w \in unfenced[cs]
          PROVE  w.row \in Rows /\ w.slots \in [K -> Slots \cup {-1}]
      <4>1. PICK i \in 1 .. head[cs] :
              w = [row |-> Row(arriving, cs, i), slots |-> SlotsOfRow(arriving, cs, i)]
        BY <2>1, <3>2 DEF ReceiverInv
      <4>2. i \in 1 .. Len(arriving[cs])
        BY <3>1
      <4> QED BY <2>1, <4>1, <4>2, RowsOfTokens, SlotsType
    <3>3. ASSUME NEW e \in Experts PROVE smem_seen[cs][e] <= seen_per_substream[cs][e]
      <4>1. seen_per_substream[cs][e] \in Nat
        BY <2>1, Layout
      <4>2. CASE pass = "fwd"
        <5>1. PICK M \in SUBSET Nat : M = For(arriving, cs, e)
          BY <2>1, ForType
        <5>2. PICK n, m \in Nat : n = head[cs] + 1 /\ m = Len(arriving[cs]) + 1
          BY <3>1
        <5>3. n <= m /\ 1 <= n /\ 1 \in Nat
          BY <3>1, <5>2
        <5>4. smem_seen[cs][e] = SelectedIn(M, 1, n)
          BY <2>1, <4>2, <5>1, <5>2 DEF ReceiverInv
        <5>5. seen_per_substream[cs][e] = SelectedIn(M, 1, m)
          BY <2>1, <5>1, <5>2, SeenCounts DEF LayerInv
        <5>6. SelectedIn(M, 1, m) = SelectedIn(M, 1, n) + SelectedIn(M, n, m)
          BY <5>3, SelectedSplit
        <5>7. SelectedIn(M, 1, n) \in Nat /\ SelectedIn(M, n, m) \in Nat
          BY <5>3, SelectedType
        <5> QED BY <5>4, <5>5, <5>6, <5>7
      <4>3. CASE pass # "fwd"
        BY <2>1, <4>1, <4>3 DEF ReceiverInv
      <4> QED BY <4>2, <4>3
    <3>4. fired[cs] \subseteq Tiles
      BY <2>1 DEF CountInv
    <3> QED BY <3>1, <3>2, <3>3, <3>4
  <2>3. pool_arrival_count \in [Tiles -> 0 .. tile_m]
    <3>1. pool_arrival_count \in [Tiles -> Nat]
      BY <2>1 DEF CountInv
    <3>2. \A t \in Tiles : pool_arrival_count[t] \in 0 .. tile_m
      BY <2>1, CountMeetsTarget, LayoutAssumption
    <3> QED BY <3>1, <3>2
  <2>4. pool \in [Passes -> [Slots -> {Garbage} \cup {<<r>> : r \in Rows}]]
    BY <2>1 DEF MemoryInv, Contents
  <2>5. tile_n_stripes_done \in [Tiles -> 0 .. Stripes(2)]
    <3>1. Stripes(2) \in Nat
      BY <2>1, StripesType DEF LayerInv
    <3>2. \A t \in Tiles : tile_n_stripes_done[t] \in 0 .. Stripes(2)
      BY <2>1, <3>1 DEF PipeType, TicketInv
    <3> QED BY <2>1, <3>2 DEF PipeType
  <2>6. \A c \in CTAs : cpc[c] \notin {"claim", "exit"} =>
          work[c][1] \in Tiles /\ work[c][2] \in 0 .. Stripes(kernel) - 1
    BY <2>1 DEF WorkInv, CTAInv
  <2>7. \A t \in Tiles : Len(computed[t]) <= NumPidN[pass][1]
    BY <2>1 DEF TicketInv
  <2>8. \A cs \in Substreams :
          /\ head[cs] \in 0 .. Len(arriving[cs])
          /\ \A w \in unfenced[cs] : w.row \in Rows /\ w.slots \in [K -> Slots \cup {-1}]
          /\ \A e \in Experts : smem_seen[cs][e] <= seen_per_substream[cs][e]
          /\ fired[cs] \subseteq Tiles
    BY <2>2
  <2>9. /\ pass \in Passes /\ arriving \in Arrivals
        /\ rpc \in [Substreams -> {"recv", "fire", "done"}]
        /\ pool_recv_token \in [Slots -> Rows \cup {-1}]
        /\ recv_token_to_slots \in [Rows -> [K -> Slots \cup {-1}]]
        /\ k_local_total \in [Rows -> 0 .. num_topk]
    BY <2>1 DEF LayerInv, ReceiverInv, MemoryInv
  <2>10. /\ kernel \in 1 .. 3 /\ consumer_head \in Nat
         /\ cpc \in [CTAs -> {"claim", "spin", "compute", "stripe", "release", "exit"}]
         /\ todo \in [CTAs -> SUBSET (0 .. tile_m - 1)]
         /\ k_local_remaining \in [Rows -> 0 .. num_topk]
         /\ (\A r \in Rows : IsABag(o[r])) /\ y_done \subseteq Rows
    BY <2>1 DEF PipeType, RowInv
  <2> QED BY <2>3, <2>4, <2>5, <2>6, <2>7, <2>8, <2>9, <2>10 DEF TypeOK
<1> QED BY <1>1, InductiveInvariant, PTL

-----------------------------------------------------------------------------
(***************************************************************************)
(* The stage implements ExpertStage.                                       *)
(***************************************************************************)

(* Stripe n of tile t has been added to the rows: its ticket is drawn, and no
   CTA is on its way to it. *)
Scattered(t, n) ==
  \/ kernel = 3
  \/ /\ kernel = 2 /\ t * Stripes(2) + n < consumer_head
     /\ \A c \in CTAs : ~(cpc[c] \in {"spin", "compute"} /\ work[c] = <<t, n>>)

Columns == 0 .. NumPidN[pass][2] - 1

(* What the k-th expert of a token owes its row in stripe n, and what the row
   has received of it. *)
ShareFor(cs, i, k, n) == Share(arriving[cs][i][k], n, <<Row(arriving, cs, i)>>)
Received(cs, i, k, n) ==
  /\ arriving[cs][i][k] # -1
  /\ \E t \in Tiles : SlotOf(arriving, cs, i, k) \in SlotsOf(t) /\ Scattered(t, n)
Owed(cs, i) ==
  {Share(e, n, <<Row(arriving, cs, i)>>) : e \in {arriving[cs][i][k] : k \in K} \ {-1},
                                           n \in Columns}
Given(cs, i) ==
  {s \in Owed(cs, i) : \E k \in K, n \in Columns :
     s = ShareFor(cs, i, k, n) /\ Received(cs, i, k, n)}

(* No two CTAs are on their way to the same stripe; a CTA exits, and a kernel
   retires, when all tickets are gone. *)
OneTicketEach ==
  /\ \A c \in CTAs :
       /\ cpc[c] \in {"spin", "compute"} =>
            work[c][1] * Stripes(kernel) + work[c][2] < consumer_head
       /\ cpc[c] = "exit" => consumer_head >= NumTiles * Stripes(kernel)
  /\ \A c, d \in CTAs :
       (cpc[c] \in {"spin", "compute"} /\ cpc[d] \in {"spin", "compute"} /\ work[c] = work[d])
         => c = d
  /\ \A t \in Tiles : /\ kernel # 1 => Len(computed[t]) = NumPidN[pass][1]
                      /\ kernel = 3 => tile_n_stripes_done[t] = Stripes(2)

(* The first kernel has read the token in every stripe, *)
ReadInv ==
  \A cs \in Substreams : \A i \in 1 .. Len(arriving[cs]), k \in K, t \in Tiles :
    arriving[cs][i][k] # -1 /\ SlotOf(arriving, cs, i, k) \in SlotsOf(t) =>
      \A m \in 1 .. Len(computed[t]) :
        computed[t][m][SlotOf(arriving, cs, i, k) - t * tile_m] = <<Row(arriving, cs, i)>>

(* the second has added each share of a row once, *)
ShareInv ==
  \A cs \in Substreams : \A i \in 1 .. Len(arriving[cs]) :
    o[Row(arriving, cs, i)] = SetToBag(Given(cs, i))

(* and a row is released when its count has come down to zero. *)
ReleasedInv ==
  \A cs \in Substreams : \A i \in 1 .. Len(arriving[cs]) :
    Row(arriving, cs, i) \in y_done
      <=> Fenced(cs) /\ k_local_remaining[Row(arriving, cs, i)] = 0

StageInv == OneTicketEach /\ ReadInv /\ ShareInv /\ ReleasedInv

(* Every row is some token's, *)
LEMMA RowsOnto ==
  ASSUME NEW a \in Arrivals, NEW r \in 0 .. NumRows(a) - 1
  PROVE  \E cs \in Substreams : \E i \in 1 .. Len(a[cs]) : r = Row(a, cs, i)
<1>1. PICK f : f = Lengths(a)
  OBVIOUS
<1>2. f = [c \in Substreams |-> f[c]] /\ \A c \in Substreams : f[c] \in Nat /\ f[c] = Len(a[c])
  BY <1>1, Routing DEF Lengths
<1>3. IsFiniteSet(Substreams)
  BY LayoutAssumption, FS_Interval DEF Substreams
<1>4. NumRows(a) = SumFunction(f)
  BY <1>1 DEF NumRows
<1>5. NumRows(a) = Cardinality(PairsIn(f, Substreams)) /\ NumRows(a) \in Nat
  BY <1>2, <1>3, <1>4, SumOf
<1>6. PICK n \in Nat : n = NumRows(a)
  BY <1>5
<1>7. PICK P : P = PairsIn(f, Substreams) /\ IsFiniteSet(P) /\ Cardinality(P) = n
  BY <1>2, <1>3, <1>5, <1>6, PairsFinite
<1>8. IsFiniteSet(0 .. n - 1) /\ Cardinality(0 .. n - 1) = n
  <2>1. 0 \in Int /\ n - 1 \in Int
    BY <1>6
  <2> QED BY <1>6, <2>1, FS_Interval
<1>9. PICK g : g = [p \in P |-> Row(a, p[1], p[2] + 1)]
  OBVIOUS
<1>10. ASSUME NEW p \in P
       PROVE  p[1] \in Substreams /\ p[2] \in Nat /\ p[2] + 1 \in 1 .. Len(a[p[1]]) /\ p = <<p[1], p[2]>>
  BY <1>2, <1>7, Routing DEF PairsIn
<1>11. g \in [P -> 0 .. n - 1]
  BY <1>6, <1>9, <1>10, RowsDiffer
<1>12. ASSUME NEW p \in P, NEW q \in P, g[p] = g[q] PROVE p = q
  <2>1. Row(a, p[1], p[2] + 1) = Row(a, q[1], q[2] + 1)
    BY <1>9, <1>12
  <2>2. p[1] = q[1] /\ p[2] + 1 = q[2] + 1
    BY <1>10, <2>1, RowsDiffer
  <2>3. p[2] = q[2]
    BY <1>10, <2>2
  <2> QED BY <1>10, <2>2, <2>3
<1>13. g \in Injection(P, 0 .. n - 1)
  BY <1>11, <1>12 DEF Injection, IsInjective
<1>14. g \in Surjection(P, 0 .. n - 1)
  BY <1>7, <1>8, <1>13, FS_Injection
<1>15. PICK p \in P : g[p] = r
  BY <1>6, <1>14 DEF Surjection
<1> QED BY <1>9, <1>10, <1>15

(* and only that token's. *)
LEMMA TokenOfItsRow ==
  ASSUME LayerInv, NEW cs \in Substreams, NEW i \in 1 .. Len(arriving[cs])
  PROVE  TokenOfRow(Row(arriving, cs, i)) = arriving[cs][i]
<1>1. PICK r : r = Row(arriving, cs, i)
  OBVIOUS
<1>2. arriving \in Arrivals /\ \A d \in Substreams : first_row[d] = FirstRow(arriving, d)
                                 /\ first_row[d] \in Nat /\ Len(arriving[d]) \in Nat
  BY RowBlocks, Routing DEF LayerInv
<1>3. r = first_row[cs] + i - 1 /\ r \in Nat
  BY <1>1, <1>2 DEF Row
<1>4. first_row[cs] <= r /\ r < first_row[cs] + Len(arriving[cs])
  BY <1>2, <1>3
<1>5. ASSUME NEW d \in Substreams, first_row[d] <= r, r < first_row[d] + Len(arriving[d])
      PROVE  d = cs
  <2>1. PICK l \in 1 .. Len(arriving[d]) : r = first_row[d] + l - 1
    <3>1. r - first_row[d] + 1 \in 1 .. Len(arriving[d])
      BY <1>2, <1>3, <1>5
    <3>2. r = first_row[d] + (r - first_row[d] + 1) - 1
      BY <1>2, <1>3
    <3> QED BY <3>1, <3>2
  <2>2. Row(arriving, d, l) = Row(arriving, cs, i)
    BY <1>1, <1>2, <2>1 DEF Row
  <2> QED BY <1>2, <2>2, RowsDiffer
<1>6. (CHOOSE d \in Substreams : first_row[d] <= r /\ r < first_row[d] + Len(arriving[d])) = cs
  BY <1>4, <1>5
<1>7. r - first_row[cs] + 1 = i
  BY <1>2, <1>3
<1> QED BY <1>1, <1>6, <1>7 DEF TokenOfRow

(* The scheduler's ballot finds the expert whose token is in the tile. *)
LEMMA BallotIsExpert ==
  ASSUME LayerInv, NEW cs \in Substreams, NEW i \in 1 .. Len(arriving[cs]), NEW k \in K,
         arriving[cs][i][k] # -1, NEW t \in Tiles, SlotOf(arriving, cs, i, k) \in SlotsOf(t)
  PROVE  BallotExpert(expert_pool_block_offset, t) = arriving[cs][i][k]
<1>1. arriving \in Arrivals /\ seen_per_substream = SeenIn(arriving)
  BY DEF LayerInv
<1>2. PICK e \in Experts : e = arriving[cs][i][k]
  BY <1>1, SlotInRun
<1>3. PICK x \in Nat : x = SlotOf(arriving, cs, i, k)
                       /\ x \in Run(seen_per_substream, cs, e) /\ x \in SlotsOf(t)
  BY <1>1, <1>2, SlotInRun
<1>4. PICK s : s = seen_per_substream
  OBVIOUS
<1>5. SeenType(s)
  BY <1>4, Layout
<1>6. x \in TokenSlots(s, e)
  BY <1>3, <1>4, <1>5, RunInTokens
<1>7. NumExperts \in Nat /\ e \in Nat /\ e + 1 \in Nat /\ e + 1 <= NumExperts
      /\ e \in 0 .. NumExperts /\ e + 1 \in 0 .. NumExperts
  BY LayoutAssumption DEF Experts
<1>8. PICK b, d \in Nat : b = BlockOffset(s, e) /\ d = BlockOffset(s, e + 1)
  BY <1>5, <1>7, Offsets
<1>9. b * tile_m <= x /\ x < d * tile_m
  <2>1. x \in b * tile_m .. d * tile_m - 1
    BY <1>5, <1>6, <1>8, ExpertTiles
  <2>2. b * tile_m \in Nat /\ d * tile_m \in Nat
    BY <1>8, TileSlots
  <2> QED BY <2>1, <2>2
<1>10. t \in Nat /\ t * tile_m \in Nat /\ t * tile_m <= x /\ x < t * tile_m + tile_m
  <2>1. t \in Nat /\ t * tile_m \in Nat /\ SlotsOf(t) = t * tile_m .. t * tile_m + tile_m - 1
    BY SlotsAndTiles
  <2> QED BY <1>3, <2>1, LayoutAssumption
<1>11. b <= t
  <2>1. t < b => (t + 1) * tile_m <= b * tile_m /\ (t + 1) * tile_m = t * tile_m + tile_m
    BY <1>8, <1>10, TileSlots
  <2>2. b * tile_m \in Nat /\ tile_m \in Nat
    BY <1>8, TileSlots, LayoutAssumption
  <2> QED BY <1>8, <1>9, <1>10, <2>1, <2>2
<1>12. t < d
  <2>1. d <= t => d * tile_m <= t * tile_m
    BY <1>8, <1>10, TileSlots
  <2>2. d * tile_m \in Nat
    BY <1>8, TileSlots
  <2> QED BY <1>8, <1>9, <1>10, <2>1, <2>2
<1>13. \A f \in 0 .. NumExperts : expert_pool_block_offset[f] = BlockOffset(s, f)
                                  /\ BlockOffset(s, f) \in Nat
  BY <1>4, <1>5, Offsets DEF LayerInv
<1>14. {f \in 0 .. NumExperts : expert_pool_block_offset[f] <= t} = 0 .. e
  <2>1. ASSUME NEW f \in 0 .. NumExperts, f <= e PROVE expert_pool_block_offset[f] <= t
    <3>1. BlockOffset(s, f) <= BlockOffset(s, e)
      BY <1>5, <1>7, <2>1, Offsets
    <3> QED BY <1>8, <1>10, <1>11, <1>13, <3>1
  <2>2. ASSUME NEW f \in 0 .. NumExperts, ~(f <= e) PROVE ~(expert_pool_block_offset[f] <= t)
    <3>1. e + 1 <= f
      BY <1>7, <2>2
    <3>2. BlockOffset(s, e + 1) <= BlockOffset(s, f)
      BY <1>5, <1>7, <3>1, Offsets
    <3> QED BY <1>8, <1>10, <1>12, <1>13, <3>2
  <2>3. \A f : f \in 0 .. e <=> f \in 0 .. NumExperts /\ f <= e
    BY <1>7
  <2> QED BY <2>1, <2>2, <2>3
<1>15. Cardinality(0 .. e) = e + 1
  <2>1. 0 \in Int /\ e \in Int
    BY <1>7
  <2> QED BY <1>7, <2>1, FS_Interval
<1>16. BallotExpert(expert_pool_block_offset, t) = Cardinality(0 .. e) - 1
  BY <1>14 DEF BallotExpert
<1> QED BY <1>2, <1>7, <1>15, <1>16

(* While neither tickets nor CTAs move between stripes, what has been added
   stays what it was. *)
LEMMA SharesKept ==
  ASSUME ShareInv, UNCHANGED <<pass, arriving, seen_per_substream, Tiles, o>>,
         \A t \in Tiles, n \in Columns : Scattered(t, n)' <=> Scattered(t, n)
  PROVE  ShareInv'
<1>1. Columns' = Columns
  BY DEF Columns
<1>2. ASSUME NEW cs \in Substreams, NEW i \in 1 .. Len(arriving[cs])
      PROVE  Given(cs, i)' = Given(cs, i)
  <2>1. Owed(cs, i)' = Owed(cs, i)
    BY <1>1 DEF Owed, Share
  <2>2. ASSUME NEW k \in K, NEW n \in Columns
        PROVE  /\ ShareFor(cs, i, k, n)' = ShareFor(cs, i, k, n)
               /\ Received(cs, i, k, n)' <=> Received(cs, i, k, n)
    <3>1. \A t \in Tiles : Scattered(t, n)' <=> Scattered(t, n)
      OBVIOUS
    <3> QED BY <3>1 DEF ShareFor, Share, Received
  <2> QED BY <1>1, <2>1, <2>2 DEF Given
<1> QED BY <1>2 DEF ShareInv

(* Two tickets differ in their tile or their stripe. *)
LEMMA TicketOf ==
  ASSUME NEW S \in Nat \ {0}, NEW t \in Nat, NEW n \in 0 .. S - 1,
         NEW u \in Nat, NEW m \in 0 .. S - 1, t * S + n = u * S + m
  PROVE  t = u /\ n = m
<1>1. PICK a, b \in Nat : a = t * S /\ b = u * S
  OBVIOUS
<1>2. S \in Nat /\ t + 1 \in Nat /\ u + 1 \in Nat
  OBVIOUS
<1>3. ~(t < u)
  <2>1. t + 1 <= u => (t + 1) * S <= u * S
    BY <1>2, Products
  <2>2. (t + 1) * S = a + S
    BY <1>1
  <2> QED BY <1>1, <2>1, <2>2
<1>4. ~(u < t)
  <2>1. u + 1 <= t => (u + 1) * S <= t * S
    BY <1>2, Products
  <2>2. (u + 1) * S = b + S
    BY <1>1
  <2> QED BY <1>1, <2>1, <2>2
<1>5. t = u
  BY <1>3, <1>4
<1> QED BY <1>1, <1>5

LEMMA TicketBelow ==
  ASSUME NEW S \in Nat \ {0}, NEW T \in Nat, NEW t \in 0 .. T - 1, NEW n \in 0 .. S - 1
  PROVE  t * S + n \in Nat /\ t * S + n < T * S /\ t * S + n < (t + 1) * S
<1>1. PICK a \in Nat : a = t * S /\ (t + 1) * S = a + S
  OBVIOUS
<1>2. S \in Nat /\ t + 1 \in Nat /\ t + 1 <= T
  OBVIOUS
<1>3. (t + 1) * S <= T * S /\ T * S \in Nat
  BY <1>2, Products
<1> QED BY <1>1, <1>3

(* The ticket a CTA draws is not on another's desk, and leads to a stripe. *)
LEMMA ClaimsNew ==
  ASSUME CoreInv, PipeInv, OneTicketEach, NEW c \in CTAs, Claim(c)
  PROVE  /\ kernel' = kernel /\ Stripes(kernel)' = Stripes(kernel)
         /\ \/ /\ cpc' = [cpc EXCEPT ![c] = "exit"] /\ work' = work
               /\ consumer_head >= NumTiles * Stripes(kernel)
            \/ \E q \in Tiles, n \in 0 .. Stripes(kernel) - 1 :
                 /\ work' = [work EXCEPT ![c] = <<q, n>>] /\ cpc' = [cpc EXCEPT ![c] = "spin"]
                 /\ consumer_head = q * Stripes(kernel) + n
<1>1. kernel \in 1 .. 2 /\ consumer_head \in Nat /\ kernel' = kernel /\ pass' = pass
  BY DEF Claim, PipeInv, PipeType
<1>2. Stripes(kernel)' = Stripes(kernel)
  BY <1>1 DEF Stripes
<1>3. PICK S \in Nat \ {0} : S = Stripes(kernel)
  BY <1>1, StripesType DEF CoreInv, LayerInv
<1>4. PICK T \in Nat : T = NumTiles /\ Tiles = 0 .. T - 1
  BY Layout DEF CoreInv, Tiles
<1>5. PICK h \in Nat : h = consumer_head
  BY <1>1
<1>6. CASE h < T * S
  <2>1. h \div S \in 0 .. T - 1 /\ h % S \in 0 .. S - 1
    BY <1>6, Ticket
  <2>2. h = (h \div S) * S + (h % S)
    OBVIOUS
  <2>3. PICK q, n : q = h \div S /\ n = h % S
    OBVIOUS
  <2>4. q \in Tiles /\ n \in 0 .. S - 1 /\ h = q * S + n
    BY <1>4, <2>1, <2>2, <2>3
  <2>5. work' = [work EXCEPT ![c] = <<q, n>>] /\ cpc' = [cpc EXCEPT ![c] = "spin"]
    BY <1>3, <1>4, <1>5, <1>6, <2>3 DEF Claim
  <2> QED BY <1>1, <1>2, <1>3, <1>5, <2>4, <2>5
<1>7. CASE ~(h < T * S)
  <2>1. T * S \in Nat
    OBVIOUS
  <2>2. work' = work /\ cpc' = [cpc EXCEPT ![c] = "exit"]
    BY <1>3, <1>4, <1>5, <1>7 DEF Claim
  <2> QED BY <1>1, <1>2, <1>3, <1>4, <1>5, <1>7, <2>1, <2>2
<1> QED BY <1>6, <1>7

LEMMA OneTicketCTA ==
  ASSUME CoreInv, PipeInv, OneTicketEach, NEW c \in CTAs, CTAStep(c)
  PROVE  OneTicketEach'
<1>1. PipeType /\ \A d \in CTAs : CTAInv(d)
  BY DEF PipeInv, WorkInv
<1>2. /\ UNCHANGED coreVars /\ kernel' = kernel /\ kernel \in 1 .. 2
      /\ ~Claim(c) => consumer_head' = consumer_head /\ work' = work
      /\ ~ComputeStripe(c) => computed' = computed
      /\ \A d \in CTAs : d # c => cpc'[d] = cpc[d] /\ work'[d] = work[d]
  BY CTAFrame
<1>3. pass' = pass /\ Tiles' = Tiles /\ \A k : Stripes(k)' = Stripes(k)
  BY <1>2, CoreSame
<1>4. Stripes(kernel)' = Stripes(kernel)
  BY <1>2, <1>3 DEF Stripes
<1>5. NumTiles' = NumTiles
  BY <1>2 DEF NumTiles, coreVars, layerVars
<1>6. PICK S \in Nat \ {0} : S = Stripes(kernel)
  BY <1>2, StripesType DEF CoreInv, LayerInv
<1>7. PICK h \in Nat : h = consumer_head
  BY <1>1 DEF PipeType
<1>8. PICK M \in Nat : M = NumTiles * S
  BY <1>6, Layout DEF CoreInv
<1>9. ASSUME NEW d \in CTAs, cpc[d] \in {"spin", "compute"}
      PROVE  work[d][1] * S + work[d][2] \in Nat /\ work[d][1] * S + work[d][2] < h
             /\ work[d] = <<work[d][1], work[d][2]>>
  <2>1. work[d] \in Nat \X Nat
    BY <1>1 DEF PipeType
  <2>2. PICK p, q \in Nat : p = work[d][1] /\ q = work[d][2] /\ work[d] = <<p, q>>
    BY <2>1
  <2>3. p * S + q \in Nat
    OBVIOUS
  <2> QED BY <1>6, <1>7, <1>9, <2>2, <2>3 DEF OneTicketEach
<1>10. \A t \in Tiles : (kernel # 1 => Len(computed'[t]) = NumPidN[pass][1]) /\ kernel # 3
  BY <1>2 DEF OneTicketEach, ComputeStripe
<1>11. SUFFICES
         /\ \A d \in CTAs :
              /\ cpc'[d] \in {"spin", "compute"} => work'[d][1] * S + work'[d][2] < consumer_head'
              /\ cpc'[d] = "exit" => consumer_head' >= M
         /\ \A d, e \in CTAs :
              (cpc'[d] \in {"spin", "compute"} /\ cpc'[e] \in {"spin", "compute"}
               /\ work'[d] = work'[e]) => d = e
  BY <1>2, <1>3, <1>4, <1>5, <1>6, <1>8, <1>10 DEF OneTicketEach
<1>12. CASE Claim(c)
  <2>1. consumer_head' = h + 1
    BY <1>7, <1>12 DEF Claim
  <2>2. CASE /\ cpc' = [cpc EXCEPT ![c] = "exit"] /\ work' = work
             /\ consumer_head >= NumTiles * Stripes(kernel)
    <3>1. h >= M
      BY <1>6, <1>7, <1>8, <2>2
    <3>2. cpc'[c] = "exit"
      BY <1>1, <2>2 DEF PipeType
    <3>3. \A d \in CTAs : cpc'[d] \in {"spin", "compute"} =>
            d # c /\ cpc[d] \in {"spin", "compute"} /\ work'[d] = work[d]
      BY <1>2, <3>2
    <3>4. ASSUME NEW d \in CTAs, cpc'[d] \in {"spin", "compute"}
          PROVE  work'[d][1] * S + work'[d][2] < consumer_head'
      <4>1. work[d][1] * S + work[d][2] \in Nat /\ work[d][1] * S + work[d][2] < h
        BY <1>9, <3>3, <3>4
      <4> QED BY <2>1, <3>3, <3>4, <4>1
    <3>5. consumer_head' >= M
      BY <2>1, <3>1
    <3> QED BY <3>3, <3>4, <3>5 DEF OneTicketEach
  <2>3. ASSUME NEW q \in Tiles, NEW n \in 0 .. Stripes(kernel) - 1,
               work' = [work EXCEPT ![c] = <<q, n>>], cpc' = [cpc EXCEPT ![c] = "spin"],
               consumer_head = q * Stripes(kernel) + n
        PROVE  /\ \A d \in CTAs :
                    /\ cpc'[d] \in {"spin", "compute"} =>
                         work'[d][1] * S + work'[d][2] < consumer_head'
                    /\ cpc'[d] = "exit" => consumer_head' >= M
               /\ \A d, e \in CTAs :
                    (cpc'[d] \in {"spin", "compute"} /\ cpc'[e] \in {"spin", "compute"}
                     /\ work'[d] = work'[e]) => d = e
    <3>1. cpc'[c] = "spin" /\ work'[c] = <<q, n>>
      BY <1>1, <2>3 DEF PipeType
    <3>2. q * S + n = h
      BY <1>6, <1>7, <2>3
    <3>3. ASSUME NEW d \in CTAs, d # c, cpc'[d] \in {"spin", "compute"}
          PROVE  /\ work'[d][1] * S + work'[d][2] < h /\ work'[d][1] * S + work'[d][2] \in Nat
                 /\ work'[d] # work'[c] /\ work'[d] = work[d] /\ cpc[d] \in {"spin", "compute"}
      <4>1. cpc[d] \in {"spin", "compute"} /\ work'[d] = work[d]
        BY <1>2, <3>3
      <4>2. work[d][1] * S + work[d][2] \in Nat /\ work[d][1] * S + work[d][2] < h
        BY <1>9, <4>1
      <4>3. work[d] # <<q, n>>
        BY <3>2, <4>2
      <4> QED BY <3>1, <4>1, <4>2, <4>3
    <3>4. ASSUME NEW d \in CTAs, cpc'[d] = "exit" PROVE consumer_head' >= M
      <4>1. d # c /\ cpc[d] = "exit"
        BY <1>2, <3>1, <3>4
      <4>2. h >= M
        BY <1>6, <1>7, <1>8, <4>1 DEF OneTicketEach
      <4> QED BY <2>1, <4>2
    <3>5. ASSUME NEW d \in CTAs, cpc'[d] \in {"spin", "compute"}
          PROVE  work'[d][1] * S + work'[d][2] < consumer_head'
      <4>1. CASE d = c
        <5>1. work'[d][1] * S + work'[d][2] = h
          BY <3>1, <3>2, <4>1
        <5> QED BY <2>1, <5>1
      <4>2. CASE d # c
        <5>1. PICK w \in Nat : w = work'[d][1] * S + work'[d][2] /\ w < h
          BY <3>3, <3>5, <4>2
        <5> QED BY <2>1, <5>1
      <4> QED BY <4>1, <4>2
    <3> QED BY <3>3, <3>4, <3>5 DEF OneTicketEach
  <2> QED BY <1>12, <2>2, <2>3, ClaimsNew
<1>13. CASE ~Claim(c)
  <2>1. consumer_head' = h /\ work' = work
    BY <1>2, <1>7, <1>13
  <2>2. \A d \in CTAs : /\ cpc'[d] \in {"spin", "compute"} => cpc[d] \in {"spin", "compute"}
                        /\ cpc'[d] = "exit" => cpc[d] = "exit"
    BY <1>1, <1>13 DEF PipeType, CTAStep, AwaitTile, ComputeStripe, ScatterStripe, FinishStripe,
                       CountDownRow
  <2>3. \A d \in CTAs : cpc[d] = "exit" => h >= M
    BY <1>6, <1>7, <1>8 DEF OneTicketEach
  <2> QED BY <1>9, <2>1, <2>2, <2>3 DEF OneTicketEach
<1> QED BY <1>12, <1>13

(* Only the scatter of a stripe adds it. *)
LEMMA ScatteredStays ==
  ASSUME CoreInv, PipeInv, OneTicketEach, NEW c \in CTAs, CTAStep(c), ~ScatterStripe(c)
  PROVE  \A t \in Tiles, n \in Columns : Scattered(t, n)' <=> Scattered(t, n)
<1>1. PipeType /\ \A d \in CTAs : CTAInv(d)
  BY DEF PipeInv, WorkInv
<1>2. /\ UNCHANGED coreVars /\ kernel' = kernel /\ kernel \in 1 .. 2
      /\ ~Claim(c) => consumer_head' = consumer_head /\ work' = work
      /\ \A d \in CTAs : d # c => cpc'[d] = cpc[d] /\ work'[d] = work[d]
  BY CTAFrame
<1>3. Stripes(2)' = Stripes(2)
  BY <1>2, CoreSame DEF Stripes
<1>4. PICK S \in Nat \ {0} : S = Stripes(2) /\ NumPidN[pass][2] \in Nat /\ NumPidN[pass][2] <= S
  BY <1>2, StripesType DEF CoreInv, LayerInv
<1>5. CASE kernel = 1
  BY <1>2, <1>5 DEF Scattered
<1>6. CASE kernel = 2 /\ ~Claim(c)
  <2>1. consumer_head' = consumer_head /\ work' = work
    BY <1>2, <1>6
  <2>2. \A d \in CTAs : cpc'[d] \in {"spin", "compute"} <=> cpc[d] \in {"spin", "compute"}
    BY <1>1, <1>6 DEF PipeType, CTAStep, AwaitTile, ComputeStripe, FinishStripe, CountDownRow
  <2> QED BY <1>2, <1>3, <1>6, <2>1, <2>2 DEF Scattered
<1>7. CASE kernel = 2 /\ Claim(c)
  <2>1. PICK h \in Nat : h = consumer_head /\ consumer_head' = h + 1
    BY <1>1, <1>7 DEF PipeType, Claim
  <2>2. SUFFICES ASSUME NEW t \in Tiles, NEW n \in Columns
                 PROVE  (t * S + n < h + 1
                           /\ \A d \in CTAs : ~(cpc'[d] \in {"spin", "compute"} /\ work'[d] = <<t, n>>))
                        <=> (t * S + n < h
                           /\ \A d \in CTAs : ~(cpc[d] \in {"spin", "compute"} /\ work[d] = <<t, n>>))
    BY <1>2, <1>3, <1>4, <1>7, <2>1 DEF Scattered
  <2>3. PICK T \in Nat : T = NumTiles /\ t \in 0 .. T - 1 /\ t \in Nat
    BY Layout DEF CoreInv, Tiles
  <2>4. n \in 0 .. S - 1 /\ n \in Nat
    BY <1>4 DEF Columns
  <2>5. PICK z \in Nat : z = t * S + n /\ z < T * S
    BY <2>3, <2>4, TicketBelow
  <2>6. T * S \in Nat
    OBVIOUS
  <2>7. CASE /\ cpc' = [cpc EXCEPT ![c] = "exit"] /\ work' = work
             /\ consumer_head >= NumTiles * Stripes(kernel)
    <3>1. h >= T * S
      BY <1>4, <1>7, <2>1, <2>3, <2>7
    <3>2. cpc'[c] = "exit" /\ cpc[c] = "claim"
      BY <1>1, <1>7, <2>7 DEF PipeType, Claim
    <3>3. \A d \in CTAs : cpc'[d] \in {"spin", "compute"} <=> cpc[d] \in {"spin", "compute"}
      BY <1>2, <3>2
    <3>4. z < h + 1 /\ z < h
      BY <2>5, <2>6, <3>1
    <3> QED BY <2>5, <2>7, <3>3, <3>4
  <2>8. ASSUME NEW q \in Tiles, NEW m \in 0 .. Stripes(kernel) - 1,
               work' = [work EXCEPT ![c] = <<q, m>>], cpc' = [cpc EXCEPT ![c] = "spin"],
               consumer_head = q * Stripes(kernel) + m
        PROVE  (t * S + n < h + 1
                  /\ \A d \in CTAs : ~(cpc'[d] \in {"spin", "compute"} /\ work'[d] = <<t, n>>))
               <=> (t * S + n < h
                  /\ \A d \in CTAs : ~(cpc[d] \in {"spin", "compute"} /\ work[d] = <<t, n>>))
    <3>1. cpc'[c] = "spin" /\ work'[c] = <<q, m>> /\ cpc[c] = "claim"
      BY <1>1, <1>7, <2>8 DEF PipeType, Claim
    <3>2. q * S + m = h /\ q \in Nat /\ m \in 0 .. S - 1
      BY <1>4, <1>7, <2>1, <2>8, SlotsAndTiles DEF CoreInv
    <3>3. CASE z = h
      <4>1. t = q /\ n = m
        BY <2>3, <2>4, <2>5, <3>2, <3>3, TicketOf
      <4>2. ~(z < h)
        BY <3>3
      <4> QED BY <2>5, <3>1, <4>1, <4>2
    <3>4. CASE z # h
      <4>1. <<t, n>> # <<q, m>>
        BY <2>5, <3>2, <3>4
      <4>2. (z < h + 1) <=> (z < h)
        BY <3>4
      <4>3. \A d \in CTAs : (cpc'[d] \in {"spin", "compute"} /\ work'[d] = <<t, n>>)
                              <=> (cpc[d] \in {"spin", "compute"} /\ work[d] = <<t, n>>)
        BY <1>2, <3>1, <4>1
      <4> QED BY <2>5, <4>2, <4>3
    <3> QED BY <3>3, <3>4
  <2> QED BY <1>7, <2>7, <2>8, ClaimsNew
<1> QED BY <1>2, <1>5, <1>6, <1>7

LEMMA ScatterAdds ==
  ASSUME CoreInv, PipeInv, OneTicketEach, NEW c \in CTAs, ScatterStripe(c)
  PROVE  \E t \in Tiles, n \in Nat :
           /\ work[c] = <<t, n>> /\ n < Stripes(2)
           /\ ~Scattered(t, n)
           /\ \A u \in Tiles, m \in Columns :
                Scattered(u, m)' <=> Scattered(u, m) \/ (u = t /\ m = n)
<1>1. PipeType /\ \A d \in CTAs : CTAInv(d)
  BY DEF PipeInv, WorkInv
<1>2. /\ UNCHANGED coreVars /\ kernel' = 2 /\ kernel = 2
      /\ cpc[c] = "compute" /\ cpc' = [cpc EXCEPT ![c] = "stripe"]
      /\ work' = work /\ consumer_head' = consumer_head
  BY DEF ScatterStripe, coreVars
<1>3. Stripes(2)' = Stripes(2)
  BY <1>2, CoreSame DEF Stripes
<1>4. PICK t \in Tiles, n \in Nat : work[c] = <<t, n>> /\ n < Stripes(2)
  <2>1. work[c] \in Nat \X Nat
    BY <1>1 DEF PipeType
  <2>2. work[c][1] \in Tiles /\ work[c][2] \in 0 .. Stripes(2) - 1
    BY <1>1, <1>2 DEF CTAInv
  <2>3. Stripes(2) \in Nat
    BY StripesType DEF CoreInv, LayerInv
  <2> QED BY <2>1, <2>2, <2>3
<1>5. ~Scattered(t, n)
  BY <1>2, <1>4 DEF Scattered
<1>6. t * Stripes(2) + n < consumer_head
  BY <1>2, <1>4 DEF OneTicketEach
<1>7. ASSUME NEW d \in CTAs, cpc'[d] \in {"spin", "compute"}
      PROVE  d # c /\ cpc[d] \in {"spin", "compute"} /\ work[d] # <<t, n>>
  <2>1. d # c /\ cpc[d] \in {"spin", "compute"}
    BY <1>1, <1>2, <1>7 DEF PipeType
  <2> QED BY <1>2, <1>4, <2>1 DEF OneTicketEach
<1>8. \A d \in CTAs : d # c => cpc'[d] = cpc[d]
  BY <1>1, <1>2 DEF PipeType
<1>9. ASSUME NEW u \in Tiles, NEW m \in Columns
      PROVE  Scattered(u, m)' <=> Scattered(u, m) \/ (u = t /\ m = n)
  <2>1. CASE u = t /\ m = n
    BY <1>2, <1>3, <1>6, <1>7, <2>1 DEF Scattered
  <2>2. CASE ~(u = t /\ m = n)
    <3>1. work[c] # <<u, m>>
      BY <1>4, <2>2
    <3>2. \A d \in CTAs : (cpc'[d] \in {"spin", "compute"} /\ work[d] = <<u, m>>)
                            <=> (cpc[d] \in {"spin", "compute"} /\ work[d] = <<u, m>>)
      BY <1>7, <1>8, <3>1
    <3> QED BY <1>2, <1>3, <2>2, <3>2 DEF Scattered
  <2> QED BY <2>1, <2>2
<1> QED BY <1>4, <1>5, <1>9

(* A token of a filled tile has been announced, hence stored. *)
LEMMA FilledStored ==
  ASSUME CoreInv, NEW cs \in Substreams, NEW i \in 1 .. Len(arriving[cs]), NEW k \in K,
         arriving[cs][i][k] # -1, NEW t \in Tiles, SlotOf(arriving, cs, i, k) \in SlotsOf(t),
         Filled(t)
  PROVE  /\ rpc[cs] # "recv" /\ Fenced(cs)
         /\ Operand(SlotOf(arriving, cs, i, k)) = <<Row(arriving, cs, i)>>
<1>1. LayerInv /\ CountInv /\ MemoryInv /\ pass \in Passes
  BY DEF CoreInv, LayerInv
<1>2. PICK x : x = SlotOf(arriving, cs, i, k)
  OBVIOUS
<1>3. arriving[cs][i][k] \in Experts /\ x \in Run(seen_per_substream, cs, arriving[cs][i][k])
  BY <1>1, <1>2, SlotInRun DEF LayerInv
<1>4. x \in Covered(seen_per_substream, t)
  BY <1>2, <1>3 DEF Covered, SlotsOf
<1>5. PICK d \in Substreams, f \in Experts :
        t \in fired[d] /\ x \in Run(seen_per_substream, d, f)
  BY <1>4 DEF Filled, Announced
<1>6. SeenType(seen_per_substream)
  BY <1>1, Layout
<1>7. d = cs
  BY <1>3, <1>5, <1>6, RunsDisjoint
<1>8. rpc[cs] # "recv" /\ Fenced(cs) /\ Stored(pass, cs) /\ (pass = "bwd" => Stored("fwd", cs))
  BY <1>1, <1>5, <1>7 DEF CountInv, Fenced, Stored
<1>9. /\ pool[pass][x] = <<Row(arriving, cs, i)>>
      /\ pass = "bwd" => pool["fwd"][x] = <<Row(arriving, cs, i)>>
  BY <1>1, <1>2, <1>8 DEF MemoryInv, Passes
<1>10. Operand(x) = <<Row(arriving, cs, i)>>
  BY <1>9 DEF Operand
<1> QED BY <1>2, <1>8, <1>10

LEMMA ReadKept ==
  ASSUME ReadInv, UNCHANGED <<arriving, seen_per_substream, Tiles, computed>>
  PROVE  ReadInv'
BY DEF ReadInv

LEMMA ComputeReads ==
  ASSUME CoreInv, PipeInv, ReadInv, NEW c \in CTAs, ComputeStripe(c)
  PROVE  ReadInv'
<1>1. PipeType /\ CTAInv(c)
  BY DEF PipeInv, WorkInv
<1>2. UNCHANGED coreVars
  BY DEF ComputeStripe, coreVars
<1>3. arriving' = arriving /\ seen_per_substream' = seen_per_substream /\ Tiles' = Tiles
  BY <1>2, CoreSame
<1>4. PICK u \in Tiles : u = work[c][1] /\ Filled(u)
  BY <1>1 DEF ComputeStripe, CTAInv
<1>5. PICK s : s = [j \in 0 .. tile_m - 1 |-> Operand(u * tile_m + j)]
  OBVIOUS
<1>6. s \in [0 .. tile_m - 1 -> Contents]
  BY <1>5, OperandType
<1>7. computed' = [computed EXCEPT ![u] = Append(@, s)]
  BY <1>4, <1>5 DEF ComputeStripe
<1>8. computed \in [Tiles -> Seq([0 .. tile_m - 1 -> Contents])]
  BY <1>1 DEF PipeType
<1>9. SUFFICES ASSUME NEW cs \in Substreams, NEW i \in 1 .. Len(arriving[cs]), NEW k \in K,
                      NEW t \in Tiles, arriving[cs][i][k] # -1,
                      SlotOf(arriving, cs, i, k) \in SlotsOf(t),
                      NEW m \in 1 .. Len(computed'[t])
               PROVE  computed'[t][m][SlotOf(arriving, cs, i, k) - t * tile_m]
                        = <<Row(arriving, cs, i)>>
  BY <1>3 DEF ReadInv
<1>10. PICK x : x = SlotOf(arriving, cs, i, k)
  OBVIOUS
<1>11. CASE t # u
  <2>1. computed'[t] = computed[t]
    BY <1>7, <1>8, <1>11
  <2>2. m \in 1 .. Len(computed[t])
    BY <1>9, <2>1
  <2>3. computed[t][m][SlotOf(arriving, cs, i, k) - t * tile_m] = <<Row(arriving, cs, i)>>
    BY <1>9, <2>2 DEF ReadInv
  <2> QED BY <2>1, <2>3
<1>12. CASE t = u
  <2>1. PICK q \in Seq([0 .. tile_m - 1 -> Contents]) : q = computed[u]
    BY <1>8
  <2>2. computed'[u] = Append(q, s)
    BY <1>7, <1>8, <2>1
  <2>3. m \in 1 .. Len(q) + 1 /\ Len(q) \in Nat
    BY <1>6, <1>12, <2>1, <2>2
  <2>4. CASE m = Len(q) + 1
    <3>1. computed'[u][m] = s
      BY <1>6, <2>1, <2>2, <2>4
    <3>2. x - u * tile_m \in 0 .. tile_m - 1 /\ u * tile_m + (x - u * tile_m) = x
      <4>1. u * tile_m \in Nat /\ SlotsOf(u) = u * tile_m .. u * tile_m + tile_m - 1
        BY SlotsAndTiles DEF CoreInv
      <4>2. PICK b \in Nat : b = u * tile_m
        BY <4>1
      <4> QED BY <1>9, <1>10, <1>12, <4>1, <4>2, LayoutAssumption
    <3>3. s[x - u * tile_m] = Operand(x)
      BY <1>5, <3>2
    <3>4. Operand(x) = <<Row(arriving, cs, i)>>
      BY <1>4, <1>9, <1>10, <1>12, FilledStored
    <3> QED BY <1>10, <1>12, <3>1, <3>3, <3>4
  <2>5. CASE m # Len(q) + 1
    <3>1. m \in 1 .. Len(q)
      BY <2>3, <2>5
    <3>2. computed'[u][m] = q[m]
      BY <1>6, <2>1, <2>2, <3>1
    <3> QED BY <1>9, <1>12, <2>1, <3>1, <3>2 DEF ReadInv
  <2> QED BY <2>4, <2>5
<1> QED BY <1>11, <1>12

(* So the second kernel finds the token's result there. *)
LEMMA IntermediateIs ==
  ASSUME CoreInv, PipeInv, OneTicketEach, ReadInv, kernel = 2,
         NEW cs \in Substreams, NEW i \in 1 .. Len(arriving[cs]), NEW k \in K,
         arriving[cs][i][k] # -1, NEW t \in Tiles, SlotOf(arriving, cs, i, k) \in SlotsOf(t)
  PROVE  Intermediate(t, SlotOf(arriving, cs, i, k) - t * tile_m) = <<Row(arriving, cs, i)>>
<1>1. PICK j, v : j = SlotOf(arriving, cs, i, k) - t * tile_m /\ v = <<Row(arriving, cs, i)>>
  OBVIOUS
<1>2. Len(computed[t]) = NumPidN[pass][1] /\ Len(computed[t]) \in Nat \ {0}
  BY StripesType DEF CoreInv, LayerInv, OneTicketEach
<1>3. \A n \in 1 .. Len(computed[t]) : computed[t][n][j] = v
  BY <1>1 DEF ReadInv
<1>4. PICK read : read = {computed[t][n][j] : n \in 1 .. Len(computed[t])}
  OBVIOUS
<1>5. read = {v}
  <2>1. 1 \in 1 .. Len(computed[t])
    BY <1>2
  <2> QED BY <1>3, <1>4, <2>1
<1>6. Cardinality(read) = 1 /\ (CHOOSE w \in read : TRUE) = v
  BY <1>5, FS_Singleton
<1>7. Intermediate(t, j) = IF Len(computed[t]) = NumPidN[pass][1] /\ Cardinality(read) = 1
                             THEN CHOOSE w \in read : TRUE ELSE Garbage
  BY <1>4 DEF Intermediate
<1> QED BY <1>1, <1>2, <1>6, <1>7

(* What the scatter of stripe n of tile t adds to row r, *)
ScatteredShares(t, n, r) ==
  IF n >= NumPidN[pass][2] THEN {}
  ELSE {Share(BallotExpert(expert_pool_block_offset, t), n, Intermediate(t, j)) :
          j \in {l \in RealRows(t) : pool_recv_token[t * tile_m + l] = r}}

(* and what a token is owed by it. *)
NewShares(cs, i, t, n) ==
  {s \in Owed(cs, i) : \E k \in K :
     /\ arriving[cs][i][k] # -1 /\ SlotOf(arriving, cs, i, k) \in SlotsOf(t)
     /\ n \in Columns /\ s = ShareFor(cs, i, k, n)}

LEMMA ShareOwed ==
  ASSUME NEW cs, NEW i, NEW k \in K, arriving[cs][i][k] # -1, NEW n \in Columns
  PROVE  ShareFor(cs, i, k, n) \in Owed(cs, i)
BY DEF ShareFor, Owed

LEMMA ScatterIsShares ==
  ASSUME CoreInv, PipeInv, OneTicketEach, ReadInv, kernel = 2,
         NEW t \in Tiles, NEW n \in Nat, Filled(t),
         NEW cs \in Substreams, NEW i \in 1 .. Len(arriving[cs])
  PROVE  ScatteredShares(t, n, Row(arriving, cs, i)) = NewShares(cs, i, t, n)
<1>1. LayerInv /\ MemoryInv /\ arriving \in Arrivals
  BY DEF CoreInv, LayerInv
<1>2. PICK r : r = Row(arriving, cs, i)
  OBVIOUS
<1>3. NumPidN[pass][2] \in Nat /\ (n \in Columns <=> ~(n >= NumPidN[pass][2]))
  BY StripesType, <1>1 DEF Columns, LayerInv
<1>4. PICK b \in Nat : b = t * tile_m /\ SlotsOf(t) = b .. b + tile_m - 1
  BY <1>1, SlotsAndTiles
<1>5. ASSUME NEW s \in ScatteredShares(t, n, r) PROVE s \in NewShares(cs, i, t, n)
  <2>1. n \in Columns
    BY <1>3, <1>5 DEF ScatteredShares
  <2>2. PICK j \in RealRows(t) :
          /\ pool_recv_token[t * tile_m + j] = r
          /\ s = Share(BallotExpert(expert_pool_block_offset, t), n, Intermediate(t, j))
    BY <1>3, <1>5, <2>1 DEF ScatteredShares
  <2>3. j \in 0 .. tile_m - 1 /\ pool_recv_token[t * tile_m + j] >= 0
    BY <2>2 DEF RealRows
  <2>4. PICK x \in Nat : x = b + j /\ x \in b .. b + tile_m - 1 /\ x - b = j
    <3>1. j \in Nat /\ j <= tile_m - 1
      BY <2>3, LayoutAssumption
    <3> QED BY <3>1, LayoutAssumption
  <2>5. x \in SlotsOf(t) /\ x \in Slots /\ x - b = j
    <3>1. x \in SlotsOf(t)
      BY <1>4, <2>4
    <3> QED BY <1>1, <2>4, <3>1, SlotsAndTiles
  <2>6. pool_recv_token[x] = r /\ pool_recv_token[x] # -1
    <3>1. t * tile_m + j = x
      BY <1>4, <2>4
    <3> QED BY <2>2, <2>3, <3>1
  <2>7. PICK d \in Substreams : \E l \in 1 .. Len(arriving[d]), k \in K :
          /\ arriving[d][l][k] # -1 /\ x = SlotOf(arriving, d, l, k)
          /\ pool_recv_token[x] = Row(arriving, d, l)
    BY <2>5, <2>6, Holder
  <2>8. PICK l \in 1 .. Len(arriving[d]), k \in K :
          /\ arriving[d][l][k] # -1 /\ x = SlotOf(arriving, d, l, k)
          /\ pool_recv_token[x] = Row(arriving, d, l)
    BY <2>7
  <2>9. d = cs /\ l = i
    BY <1>1, <1>2, <2>6, <2>8, RowsDiffer
  <2>10. arriving[cs][i][k] # -1 /\ SlotOf(arriving, cs, i, k) \in SlotsOf(t)
    BY <2>5, <2>8, <2>9
  <2>11. Intermediate(t, j) = <<Row(arriving, cs, i)>>
    <3>1. SlotOf(arriving, cs, i, k) - t * tile_m = j
      BY <1>4, <2>5, <2>8, <2>9
    <3> QED BY <2>10, <3>1, IntermediateIs
  <2>12. BallotExpert(expert_pool_block_offset, t) = arriving[cs][i][k]
    BY <1>1, <2>10, BallotIsExpert
  <2>13. s = ShareFor(cs, i, k, n)
    BY <2>2, <2>11, <2>12 DEF ShareFor
  <2> QED BY <2>1, <2>10, <2>13, ShareOwed DEF NewShares
<1>6. ASSUME NEW s \in NewShares(cs, i, t, n) PROVE s \in ScatteredShares(t, n, r)
  <2>1. PICK k \in K :
          /\ arriving[cs][i][k] # -1 /\ SlotOf(arriving, cs, i, k) \in SlotsOf(t)
          /\ n \in Columns /\ s = ShareFor(cs, i, k, n)
    BY <1>6 DEF NewShares
  <2>2. Fenced(cs)
    BY <2>1, FilledStored
  <2>3. PICK x : x = SlotOf(arriving, cs, i, k)
    OBVIOUS
  <2>4. x - t * tile_m \in RealRows(t) /\ pool_recv_token[x] = r
    BY <1>2, <2>1, <2>2, <2>3, SlotIsReal
  <2>5. t * tile_m + (x - t * tile_m) = x
    BY <1>4, <2>1, <2>3
  <2>6. Intermediate(t, x - t * tile_m) = <<Row(arriving, cs, i)>>
    BY <2>1, <2>3, IntermediateIs
  <2>7. BallotExpert(expert_pool_block_offset, t) = arriving[cs][i][k]
    BY <1>1, <2>1, BallotIsExpert
  <2>8. s = Share(BallotExpert(expert_pool_block_offset, t), n, Intermediate(t, x - t * tile_m))
    BY <2>1, <2>6, <2>7 DEF ShareFor
  <2> QED BY <1>3, <2>1, <2>4, <2>5, <2>8 DEF ScatteredShares
<1> QED BY <1>2, <1>5, <1>6

(* A stripe not scattered yet is new to the row, *)
LEMMA SharesAreNew ==
  ASSUME LayerInv, NEW cs \in Substreams, NEW i \in 1 .. Len(arriving[cs]),
         NEW t \in Tiles, NEW n, ~Scattered(t, n)
  PROVE  Given(cs, i) \cap NewShares(cs, i, t, n) = {}
<1> SUFFICES ASSUME NEW s \in Given(cs, i), s \in NewShares(cs, i, t, n) PROVE FALSE
  OBVIOUS
<1>1. PICK j \in K, m \in Columns : s = ShareFor(cs, i, j, m) /\ Received(cs, i, j, m)
  BY DEF Given
<1>2. PICK k \in K : /\ arriving[cs][i][k] # -1 /\ SlotOf(arriving, cs, i, k) \in SlotsOf(t)
                     /\ s = ShareFor(cs, i, k, n)
  BY DEF NewShares
<1>3. arriving[cs][i][j] = arriving[cs][i][k] /\ m = n
  BY <1>1, <1>2 DEF ShareFor, Share
<1>4. arriving \in Arrivals
  BY DEF LayerInv
<1>5. j = k
  BY <1>2, <1>3, <1>4, Routing
<1>6. PICK u \in Tiles : SlotOf(arriving, cs, i, k) \in SlotsOf(u) /\ Scattered(u, n)
  BY <1>1, <1>3, <1>5 DEF Received
<1>7. SlotOf(arriving, cs, i, k) \in Slots
  BY <1>6, SlotsAndTiles
<1>8. u = t
  BY <1>2, <1>6, <1>7, SlotsAndTiles
<1> QED BY <1>6, <1>8

(* and adding it to the bag adds it to the set. *)
LEMMA BagJoins ==
  ASSUME NEW A, NEW B, A \cap B = {}
  PROVE  SetToBag(A) (+) SetToBag(B) = SetToBag(A \cup B)
<1>1. PICK C : C = SetToBag(A) (+) SetToBag(B)
  OBVIOUS
<1>2. /\ DOMAIN C = A \cup B
      /\ C = [e \in A \cup B |-> (IF e \in A THEN 1 ELSE 0) + (IF e \in B THEN 1 ELSE 0)]
  BY <1>1 DEF (+), SetToBag
<1>3. \A e \in A \cup B : C[e] = 1
  BY <1>2
<1>4. C = [e \in A \cup B |-> 1]
  BY <1>2, <1>3
<1> QED BY <1>1, <1>4 DEF SetToBag

LEMMA BagPart ==
  ASSUME NEW A, NEW B, A \subseteq B
  PROVE  SetToBag(A) \sqsubseteq SetToBag(B)
BY DEF \sqsubseteq, SetToBag

LEMMA ScatterShares ==
  ASSUME CoreInv, PipeInv, RowInv, OneTicketEach, ReadInv, ShareInv,
         NEW c \in CTAs, ScatterStripe(c)
  PROVE  /\ ShareInv'
         /\ \A cs \in Substreams : \A i \in 1 .. Len(arriving[cs]) :
              Given(cs, i) \subseteq Given(cs, i)' /\ Owed(cs, i)' = Owed(cs, i)
<1>1. LayerInv /\ kernel = 2 /\ cpc[c] = "compute" /\ CTAInv(c)
  BY DEF ScatterStripe, CoreInv, PipeInv, WorkInv
<1>2. UNCHANGED coreVars
  BY DEF ScatterStripe, coreVars
<1>3. /\ pass' = pass /\ arriving' = arriving /\ Tiles' = Tiles /\ Columns' = Columns
      /\ seen_per_substream' = seen_per_substream
  BY <1>2, CoreSame DEF Columns
<1>4. PICK t \in Tiles, n \in Nat :
        /\ work[c] = <<t, n>> /\ n < Stripes(2)
        /\ ~Scattered(t, n)
        /\ \A u \in Tiles, m \in Columns :
             Scattered(u, m)' <=> Scattered(u, m) \/ (u = t /\ m = n)
  BY ScatterAdds
<1>5. Filled(t)
  BY <1>1, <1>4 DEF CTAInv
<1>6. o' = [r \in Rows |-> o[r] (+) SetToBag(ScatteredShares(t, n, r))]
  BY <1>4 DEF ScatterStripe, ScatteredShares
<1>7. ASSUME NEW cs \in Substreams, NEW i \in 1 .. Len(arriving[cs])
      PROVE  /\ Owed(cs, i)' = Owed(cs, i)
             /\ Given(cs, i)' = Given(cs, i) \cup NewShares(cs, i, t, n)
             /\ o'[Row(arriving, cs, i)] = SetToBag(Given(cs, i)')
  <2>1. Owed(cs, i)' = Owed(cs, i)
    BY <1>3 DEF Owed, Share
  <2>2. ASSUME NEW k \in K, NEW m \in Columns
        PROVE  /\ ShareFor(cs, i, k, m)' = ShareFor(cs, i, k, m)
               /\ Received(cs, i, k, m)' <=>
                    \/ Received(cs, i, k, m)
                    \/ /\ arriving[cs][i][k] # -1 /\ SlotOf(arriving, cs, i, k) \in SlotsOf(t)
                       /\ m = n
    <3>1. ShareFor(cs, i, k, m)' = ShareFor(cs, i, k, m)
      BY <1>3 DEF ShareFor, Share
    <3>2. \A u \in Tiles : Scattered(u, m)' <=> Scattered(u, m) \/ (u = t /\ m = n)
      BY <1>4
    <3>3. Received(cs, i, k, m)' <=>
            /\ arriving[cs][i][k] # -1
            /\ \E u \in Tiles : SlotOf(arriving, cs, i, k) \in SlotsOf(u) /\ Scattered(u, m)'
      BY <1>3 DEF Received
    <3> QED BY <3>1, <3>2, <3>3 DEF Received
  <2>3. Given(cs, i)' = {s \in Owed(cs, i) : \E k \in K, m \in Columns :
                           s = ShareFor(cs, i, k, m) /\ Received(cs, i, k, m)'}
    BY <1>3, <2>1, <2>2 DEF Given
  <2>4. Given(cs, i)' = Given(cs, i) \cup NewShares(cs, i, t, n)
    BY <2>2, <2>3 DEF Given, NewShares
  <2>5. Given(cs, i) \cap NewShares(cs, i, t, n) = {}
    BY <1>1, <1>4, SharesAreNew
  <2>6. ScatteredShares(t, n, Row(arriving, cs, i)) = NewShares(cs, i, t, n)
    BY <1>1, <1>5, ScatterIsShares
  <2>7. Row(arriving, cs, i) \in Rows
    BY <1>1, RowsDiffer DEF LayerInv
  <2>8. o'[Row(arriving, cs, i)] = SetToBag(Given(cs, i)) (+) SetToBag(NewShares(cs, i, t, n))
    BY <1>6, <2>6, <2>7 DEF ShareInv
  <2> QED BY <2>1, <2>4, <2>5, <2>8, BagJoins
<1>8. ShareInv'
  <2>1. \A cs \in Substreams : \A i \in 1 .. Len(arriving[cs]) :
          o'[Row(arriving, cs, i)] = SetToBag(Given(cs, i)')
    BY <1>7
  <2> QED BY <1>3, <2>1 DEF ShareInv
<1> QED BY <1>7, <1>8

(* When a kernel retires, every stripe of every tile has been worked on. *)
LEMMA AllDrawn ==
  ASSUME CoreInv, PipeInv, OneTicketEach, kernel \in 1 .. 2, \A c \in CTAs : cpc[c] = "exit",
         NEW t \in Tiles
  PROVE  /\ Finished(t) = Stripes(kernel)
         /\ kernel = 2 => \A n \in Columns : Scattered(t, n)
<1>1. PICK T \in Nat : T = NumTiles /\ Tiles = 0 .. T - 1 /\ t \in Nat /\ t < T /\ t \in 0 .. T - 1
  BY Layout DEF CoreInv, Tiles
<1>2. PICK S \in Nat \ {0} : S = Stripes(kernel)
  BY StripesType DEF CoreInv, LayerInv
<1>3. PICK h \in Nat : h = consumer_head
  BY DEF PipeInv, PipeType
<1>4. 1 \in CTAs
  BY StreamAssumption DEF CTAs
<1>5. h >= T * S
  BY <1>1, <1>2, <1>3, <1>4 DEF OneTicketEach
<1>6. DrawnOf(h, S, t) = S
  BY <1>1, <1>5, DrawnBounds
<1>7. Cardinality(Holding(t)) = 0
  <2>1. Holding(t) = {}
    BY DEF Holding
  <2> QED BY <2>1, FS_EmptySet
<1>8. Finished(t) + Cardinality(Holding(t)) = S
  BY <1>2, <1>3, <1>6 DEF PipeInv, TicketInv, Drawn
<1>9. Finished(t) \in Nat
  BY DEF Finished, PipeInv, PipeType
<1>10. ASSUME kernel = 2, NEW n \in Columns PROVE Scattered(t, n)
  <2>1. NumPidN[pass][2] \in Nat /\ NumPidN[pass][2] <= S
    BY <1>2, <1>10, StripesType DEF CoreInv, LayerInv
  <2>2. n \in 0 .. S - 1
    BY <2>1 DEF Columns
  <2>3. PICK z \in Nat : z = t * S + n /\ z < T * S
    BY <1>1, <2>2, TicketBelow
  <2>4. T * S \in Nat
    BY <1>1, <1>2
  <2>5. z < h
    BY <1>5, <2>3, <2>4
  <2> QED BY <1>2, <1>3, <1>10, <2>3, <2>5 DEF Scattered
<1> QED BY <1>2, <1>7, <1>8, <1>9, <1>10

LEMMA ReleasedKept ==
  ASSUME ReleasedInv, UNCHANGED <<arriving, k_local_remaining, y_done>>,
         \A cs \in Substreams : Fenced(cs)' <=> Fenced(cs)
  PROVE  ReleasedInv'
BY DEF ReleasedInv

LEMMA NextKernelStage ==
  ASSUME IInv, StageInv, NextKernel
  PROVE  StageInv'
<1>1. /\ CoreInv /\ PipeInv /\ LayerInv /\ OneTicketEach /\ ReadInv /\ ShareInv /\ ReleasedInv
      /\ pass \in Passes
  BY DEF IInv, CoreInv, LayerInv, StageInv
<1>2. UNCHANGED coreVars
  BY DEF NextKernel, coreVars
<1>3. /\ kernel \in 1 .. 2 /\ kernel' = kernel + 1 /\ consumer_head' = 0
      /\ \A c \in CTAs : cpc[c] = "exit"
      /\ cpc' = [c \in CTAs |-> "claim"]
      /\ UNCHANGED <<computed, tile_n_stripes_done, k_local_remaining, o, y_done>>
  BY DEF NextKernel, rowVars
<1>4. /\ pass' = pass /\ Tiles' = Tiles /\ arriving' = arriving
      /\ seen_per_substream' = seen_per_substream
      /\ \A k : Stripes(k)' = Stripes(k)
      /\ \A cs \in Substreams : Fenced(cs)' <=> Fenced(cs)
  BY <1>2, CoreSame
<1>5. \A t \in Tiles : Finished(t) = Stripes(kernel)
  BY <1>1, <1>3, AllDrawn
<1>6. Stripes(2)' = Stripes(2) /\ Stripes(1) = NumPidN[pass][1]
  BY <1>1, <1>4, StripesType DEF Stripes
<1>7. OneTicketEach'
  <2>1. ASSUME NEW t \in Tiles
        PROVE  /\ Len(computed[t]) = NumPidN[pass][1]
               /\ kernel' = 3 => tile_n_stripes_done[t] = Stripes(2)
    BY <1>1, <1>3, <1>5, <1>6 DEF Finished, OneTicketEach
  <2>2. \A c \in CTAs : cpc'[c] = "claim"
    BY <1>3
  <2> QED BY <1>3, <1>4, <1>6, <2>1, <2>2 DEF OneTicketEach
<1>8. ASSUME NEW t \in Tiles, NEW n \in Columns PROVE Scattered(t, n)' <=> Scattered(t, n)
  <2>1. CASE kernel = 1
    <3>1. ~Scattered(t, n)
      BY <2>1 DEF Scattered
    <3>2. t \in Nat /\ Stripes(2) \in Nat /\ n \in Nat
      BY <1>1, StripesType, SlotsAndTiles DEF Columns
    <3>3. ~(t * Stripes(2) + n < 0)
      BY <3>2
    <3>4. ~Scattered(t, n)'
      BY <1>3, <1>6, <2>1, <3>3 DEF Scattered
    <3> QED BY <3>1, <3>4
  <2>2. CASE kernel = 2
    <3>1. Scattered(t, n)
      BY <1>1, <1>3, <2>2, AllDrawn
    <3>2. Scattered(t, n)'
      BY <1>3, <2>2 DEF Scattered
    <3> QED BY <3>1, <3>2
  <2> QED BY <1>3, <2>1, <2>2
<1>9. ShareInv'
  BY <1>1, <1>3, <1>4, <1>8, SharesKept
<1>10. ReadInv' /\ ReleasedInv'
  BY <1>1, <1>3, <1>4, ReadKept, ReleasedKept
<1> QED BY <1>7, <1>9, <1>10 DEF StageInv

(* Every token is routed here for an expert, so a row waits for some slot. *)
LEMMA RowHasSlot ==
  ASSUME LayerInv, NEW cs \in Substreams, NEW i \in 1 .. Len(arriving[cs])
  PROVE  LocalK(SlotsOfRow(arriving, cs, i)) # 0
<1>1. PICK k \in K : arriving[cs][i][k] # -1
  BY StreamAssumption DEF LayerInv
<1>2. PICK L : L = {j \in K : SlotsOfRow(arriving, cs, i)[j] # -1}
  OBVIOUS
<1>3. k \in L
  BY <1>1, <1>2, SlotsType
<1>4. IsFiniteSet(L)
  <2>1. 0 \in Int /\ num_topk - 1 \in Int
    BY StreamAssumption
  <2>2. IsFiniteSet(K)
    BY <2>1, FS_Interval DEF K
  <2> QED BY <1>2, <2>2, FS_Subset
<1> QED BY <1>2, <1>3, <1>4, FS_EmptySet DEF LocalK

(* The receivers leave the compute kernels and the sums alone. *)
LEMMA StageStays ==
  ASSUME OneTicketEach, ReadInv, ShareInv, UNCHANGED <<pass, layerVars, kernelVars, o>>
  PROVE  OneTicketEach' /\ ReadInv' /\ ShareInv'
<1>1. /\ UNCHANGED <<pass, arriving, seen_per_substream, Tiles, NumTiles, o>>
      /\ UNCHANGED <<kernel, consumer_head, cpc, work, computed, tile_n_stripes_done>>
  BY DEF layerVars, kernelVars, Tiles, NumTiles
<1>2. \A k : Stripes(k)' = Stripes(k)
  BY <1>1 DEF Stripes
<1>3. Stripes(2)' = Stripes(2) /\ Stripes(kernel)' = Stripes(kernel)
  BY <1>1 DEF Stripes
<1>4. OneTicketEach'
  BY <1>1, <1>3 DEF OneTicketEach
<1>5. \A t \in Tiles, n \in Columns : Scattered(t, n)' <=> Scattered(t, n)
  BY <1>1, <1>3 DEF Scattered
<1> QED BY <1>1, <1>4, <1>5, ReadKept, SharesKept

LEMMA ReceiverStage ==
  ASSUME IInv, StageInv, NEW cs \in Substreams, ReceiverStep(cs)
  PROVE  StageInv' /\ o' = o /\ y_done' = y_done /\ pass' = pass /\ arriving' = arriving
<1>1. /\ CoreInv /\ LayerInv /\ OneTicketEach /\ ReadInv /\ ShareInv /\ ReleasedInv
      /\ rpc \in [Substreams -> {"recv", "fire", "done"}]
  BY DEF IInv, CoreInv, ReceiverInv, StageInv
<1>2. UNCHANGED <<pass, layerVars, kernelVars, o, y_done>>
  BY DEF ReceiverStep, ReceiveBatch, Fence, FireBlock, rowVars
<1>3. OneTicketEach' /\ ReadInv' /\ ShareInv'
  BY <1>1, <1>2, StageStays
<1>4. pass' = pass /\ arriving' = arriving /\ o' = o /\ y_done' = y_done
  BY <1>2 DEF layerVars
<1>5. CASE ~(Fence(cs) /\ pass = "fwd")
  <2>1. k_local_remaining' = k_local_remaining
    BY <1>5 DEF ReceiverStep, ReceiveBatch, Fence, FireBlock, rowVars
  <2>2. ASSUME NEW d \in Substreams PROVE Fenced(d)' <=> Fenced(d)
    <3>1. CASE pass = "bwd"
      BY <1>4, <3>1 DEF Fenced
    <3>2. CASE pass # "bwd"
      <4>1. pass = "fwd" /\ ~Fence(cs)
        BY <1>1, <1>5, <3>2 DEF LayerInv, Passes
      <4>2. rpc'[d] # "recv" <=> rpc[d] # "recv"
        BY <1>1, <4>1 DEF ReceiverStep, ReceiveBatch, FireBlock
      <4> QED BY <1>4, <4>2 DEF Fenced
    <3> QED BY <3>1, <3>2
  <2> QED BY <1>1, <1>3, <1>4, <2>1, <2>2, ReleasedKept DEF StageInv
<1>6. CASE Fence(cs) /\ pass = "fwd"
  <2>1. rpc[cs] = "recv" /\ rpc' = [rpc EXCEPT ![cs] = "fire"]
    BY <1>6 DEF Fence
  <2>2. k_local_remaining' = [r \in Rows |->
         IF r \in RowsWritten(cs) THEN LocalK(SlotsWritten(cs, r)) ELSE k_local_remaining[r]]
    BY <1>6 DEF Fence, RowsWritten, SlotsWritten
  <2>3. ASSUME NEW d \in Substreams, NEW i \in 1 .. Len(arriving[d])
        PROVE  Row(arriving, d, i) \in y_done
                 <=> Fenced(d)' /\ k_local_remaining'[Row(arriving, d, i)] = 0
    <3>1. PICK r \in Rows : r = Row(arriving, d, i)
      BY <1>1, RowsOfTokens
    <3>2. r \in y_done <=> Fenced(d) /\ k_local_remaining[r] = 0
      BY <1>1, <3>1 DEF ReleasedInv
    <3>3. CASE d = cs
      <4>1. r \in RowsWritten(cs) /\ SlotsWritten(cs, r) = SlotsOfRow(arriving, cs, i)
        BY <1>1, <1>6, <3>1, <3>3, FenceRows
      <4>2. k_local_remaining'[r] # 0
        BY <1>1, <2>2, <3>3, <4>1, RowHasSlot
      <4>3. ~Fenced(d)
        BY <1>6, <2>1, <3>3 DEF Fenced
      <4> QED BY <3>1, <3>2, <4>2, <4>3
    <3>4. CASE d # cs
      <4>1. r \notin RowsWritten(cs)
        BY <1>1, <1>6, <3>1, <3>4, FenceRows, RowsDiffer DEF LayerInv
      <4>2. Fenced(d)' <=> Fenced(d)
        BY <1>1, <1>4, <2>1, <3>4 DEF Fenced
      <4> QED BY <2>2, <3>1, <3>2, <4>1, <4>2
    <3> QED BY <3>3, <3>4
  <2>4. ReleasedInv'
    BY <1>4, <2>3 DEF ReleasedInv
  <2> QED BY <1>3, <1>4, <2>4 DEF StageInv
<1> QED BY <1>5, <1>6

(* A pass starts with nothing added and nothing released. *)
LEMMA FreshStage ==
  ASSUME LayerInv, kernel = (IF NumTiles > 0 THEN 1 ELSE 3), consumer_head = 0,
         \A c \in CTAs : cpc[c] = "claim",
         computed = [t \in Tiles |-> << >>], o = [r \in Rows |-> EmptyBag]
  PROVE  OneTicketEach /\ ReadInv /\ ShareInv
<1>1. \A t \in Tiles : kernel = 1 /\ Len(computed[t]) = 0
  BY Layout DEF Tiles
<1>2. OneTicketEach
  BY <1>1 DEF OneTicketEach
<1>3. ReadInv
  BY <1>1 DEF ReadInv
<1>4. ASSUME NEW cs \in Substreams, NEW i \in 1 .. Len(arriving[cs])
      PROVE  o[Row(arriving, cs, i)] = SetToBag(Given(cs, i))
  <2>1. \A k \in K, n \in Columns : ~Received(cs, i, k, n)
    BY <1>1 DEF Received, Scattered
  <2>2. Given(cs, i) = {}
    BY <2>1 DEF Given
  <2>3. Row(arriving, cs, i) \in Rows
    BY RowsOfTokens
  <2> QED BY <2>2, <2>3 DEF EmptyBag
<1> QED BY <1>2, <1>3, <1>4 DEF ShareInv

LEMMA InitStage ==
  ASSUME Init, IInv
  PROVE  StageInv
<1>1. OneTicketEach /\ ReadInv /\ ShareInv
  BY FreshStage DEF Init, IInv, CoreInv
<1>2. ReleasedInv
  BY DEF Init, ReleasedInv, Fenced
<1> QED BY <1>1, <1>2 DEF StageInv

LEMMA LaunchBackwardStage ==
  ASSUME IInv, LaunchBackward
  PROVE  StageInv'
<1>1. CoreInv /\ PipeInv /\ PipeType /\ WorkInv /\ MemoryInv /\ LayerInv
  BY DEF IInv, PipeInv, CoreInv
<1>2. LayerInv' /\ Tiles' = Tiles /\ Rows' = Rows
  BY <1>1, LaunchBackwardCore DEF CoreInv
<1>3. /\ pass = "fwd" /\ kernel = 3 /\ \A cs \in Substreams : rpc[cs] = "done"
      /\ pass' = "bwd" /\ kernel' = (IF NumTiles > 0 THEN 1 ELSE 3) /\ consumer_head' = 0
      /\ computed' = [t \in Tiles |-> << >>]
      /\ k_local_remaining' = k_local_total
      /\ o' = [r \in Rows |-> EmptyBag] /\ y_done' = {}
      /\ cpc' = cpc /\ arriving' = arriving
      /\ NumTiles' = NumTiles
  BY DEF LaunchBackward, PassOver, layerVars, poolVars, NumTiles
<1>4. \A c \in CTAs : cpc[c] = "claim"
  BY <1>1, <1>3 DEF WorkInv, CTAInv
<1>5. OneTicketEach' /\ ReadInv' /\ ShareInv'
  <2>1. (LayerInv /\ kernel = (IF NumTiles > 0 THEN 1 ELSE 3) /\ consumer_head = 0
         /\ (\A c \in CTAs : cpc[c] = "claim")
         /\ computed = [t \in Tiles |-> << >>] /\ o = [r \in Rows |-> EmptyBag]
         => OneTicketEach /\ ReadInv /\ ShareInv)'
    BY FreshStage, PTL
  <2>2. /\ kernel' = (IF NumTiles' > 0 THEN 1 ELSE 3) /\ consumer_head' = 0
        /\ \A c \in CTAs : cpc'[c] = "claim"
        /\ computed' = [t \in Tiles' |-> << >>] /\ o' = [r \in Rows' |-> EmptyBag]
    BY <1>2, <1>3, <1>4
  <2> QED BY <1>2, <2>1, <2>2
<1>6. ReleasedInv'
  <2>1. ASSUME NEW cs \in Substreams, NEW i \in 1 .. Len(arriving[cs])
        PROVE  k_local_total[Row(arriving, cs, i)] # 0
    <3>1. Fenced(cs)
      BY <1>3 DEF Fenced
    <3> QED BY <1>1, <3>1, RowHasSlot DEF MemoryInv
  <2> QED BY <1>3, <2>1 DEF ReleasedInv
<1> QED BY <1>5, <1>6 DEF StageInv

(* A row counted down was waiting for the slot, so it is not released yet. *)
LEMMA CountedRow ==
  ASSUME CoreInv, PipeInv, RowInv, NEW c \in CTAs, NEW j, CountDownRow(c, j)
  PROVE  \E cs \in Substreams : \E i \in 1 .. Len(arriving[cs]) : \E r \in Rows :
           /\ r = Row(arriving, cs, i) /\ Fenced(cs)
           /\ k_local_remaining[r] \in Nat \ {0}
           /\ k_local_remaining' = [k_local_remaining EXCEPT ![r] = @ - 1]
           /\ y_done' = IF k_local_remaining[r] = 1 THEN y_done \cup {r} ELSE y_done
<1>1. LayerInv
  BY DEF CoreInv
<1>2. PICK x \in Slots : /\ x = work[c][1] * tile_m + j
                         /\ pool_recv_token[x] \in Rows /\ Waiting(x)
  BY CountDownWaits
<1>3. PICK r \in Rows : r = pool_recv_token[x] /\ r # -1
  BY <1>1, <1>2, RowsOfTokens
<1>4. /\ k_local_remaining' = [k_local_remaining EXCEPT ![r] = @ - 1]
      /\ y_done' = IF k_local_remaining[r] = 1 THEN y_done \cup {r} ELSE y_done
  BY <1>2, <1>3 DEF CountDownRow
<1>5. PICK cs \in Substreams : \E i \in 1 .. Len(arriving[cs]), k \in K :
        /\ arriving[cs][i][k] # -1 /\ x = SlotOf(arriving, cs, i, k)
        /\ Fenced(cs) /\ r = Row(arriving, cs, i)
  BY <1>3, Holder
<1>6. PICK i \in 1 .. Len(arriving[cs]), k \in K :
        /\ arriving[cs][i][k] # -1 /\ x = SlotOf(arriving, cs, i, k)
        /\ Fenced(cs) /\ r = Row(arriving, cs, i)
  BY <1>5
<1>7. k \in Unserved(cs, i) /\ k_local_remaining[r] = Cardinality(Unserved(cs, i))
  BY <1>2, <1>6 DEF Unserved, RowInv
<1>8. Cardinality(Unserved(cs, i)) \in Nat \ {0}
  BY <1>7, UnservedFinite, FS_EmptySet
<1> QED BY <1>4, <1>6, <1>7, <1>8

LEMMA CountDownReleases ==
  ASSUME CoreInv, PipeInv, RowInv, ReleasedInv, NEW c \in CTAs, NEW j, CountDownRow(c, j)
  PROVE  ReleasedInv'
<1>1. arriving' = arriving /\ \A cs \in Substreams : Fenced(cs)' <=> Fenced(cs)
  <2>1. UNCHANGED coreVars
    BY DEF CountDownRow, coreVars
  <2> QED BY <2>1, CoreSame
<1>2. PICK cs \in Substreams : \E i \in 1 .. Len(arriving[cs]) : \E r \in Rows :
           /\ r = Row(arriving, cs, i) /\ Fenced(cs)
           /\ k_local_remaining[r] \in Nat \ {0}
           /\ k_local_remaining' = [k_local_remaining EXCEPT ![r] = @ - 1]
           /\ y_done' = IF k_local_remaining[r] = 1 THEN y_done \cup {r} ELSE y_done
  BY CountedRow
<1>3. PICK i \in 1 .. Len(arriving[cs]), r \in Rows :
           /\ r = Row(arriving, cs, i) /\ Fenced(cs)
           /\ k_local_remaining[r] \in Nat \ {0}
           /\ k_local_remaining' = [k_local_remaining EXCEPT ![r] = @ - 1]
           /\ y_done' = IF k_local_remaining[r] = 1 THEN y_done \cup {r} ELSE y_done
  BY <1>2
<1>4. k_local_remaining \in [Rows -> 0 .. num_topk]
  BY DEF RowInv
<1>5. ASSUME NEW d \in Substreams, NEW l \in 1 .. Len(arriving[d])
      PROVE  Row(arriving, d, l) \in y_done'
               <=> Fenced(d) /\ k_local_remaining'[Row(arriving, d, l)] = 0
  <2>1. PICK q \in Rows : q = Row(arriving, d, l)
    BY RowsOfTokens DEF CoreInv
  <2>2. q \in y_done <=> Fenced(d) /\ k_local_remaining[q] = 0
    BY <2>1 DEF ReleasedInv
  <2>3. CASE q # r
    BY <1>3, <1>4, <2>1, <2>2, <2>3
  <2>4. CASE q = r
    <3>1. d = cs
      <4>1. arriving \in Arrivals /\ Row(arriving, d, l) = Row(arriving, cs, i)
        BY <1>3, <2>1, <2>4 DEF CoreInv, LayerInv
      <4> QED BY <4>1, RowsDiffer
    <3>2. k_local_remaining'[r] = k_local_remaining[r] - 1
      BY <1>3, <1>4
    <3>3. q \notin y_done
      BY <1>3, <2>2, <2>4
    <3> QED BY <1>3, <2>1, <2>4, <3>1, <3>2, <3>3
  <2> QED BY <2>3, <2>4
<1> QED BY <1>1, <1>5 DEF ReleasedInv

LEMMA CTAStage ==
  ASSUME IInv, StageInv, NEW c \in CTAs, CTAStep(c)
  PROVE  StageInv'
<1>1. /\ CoreInv /\ PipeInv /\ RowInv
      /\ OneTicketEach /\ ReadInv /\ ShareInv /\ ReleasedInv
  BY DEF IInv, StageInv
<1>2. UNCHANGED coreVars /\ (~ComputeStripe(c) => computed' = computed)
  BY <1>1, CTAFrame
<1>3. /\ UNCHANGED <<pass, arriving, seen_per_substream, Tiles>>
      /\ \A cs \in Substreams : Fenced(cs)' <=> Fenced(cs)
  BY <1>2, CoreSame
<1>4. OneTicketEach'
  BY <1>1, OneTicketCTA
<1>5. ReadInv'
  <2>1. CASE ComputeStripe(c)
    BY <1>1, <2>1, ComputeReads
  <2>2. CASE ~ComputeStripe(c)
    BY <1>1, <1>2, <1>3, <2>2, ReadKept
  <2> QED BY <2>1, <2>2
<1>6. ShareInv'
  <2>1. CASE ScatterStripe(c)
    BY <1>1, <2>1, ScatterShares
  <2>2. CASE ~ScatterStripe(c)
    <3>1. o' = o
      BY <2>2 DEF CTAStep, Claim, AwaitTile, ComputeStripe, FinishStripe, CountDownRow, rowVars
    <3>2. \A t \in Tiles, n \in Columns : Scattered(t, n)' <=> Scattered(t, n)
      BY <1>1, <2>2, ScatteredStays
    <3> QED BY <1>1, <1>3, <3>1, <3>2, SharesKept
  <2> QED BY <2>1, <2>2
<1>7. ReleasedInv'
  <2>1. ASSUME NEW j, CountDownRow(c, j) PROVE ReleasedInv'
    BY <1>1, <2>1, CountDownReleases
  <2>2. CASE ~\E j \in 0 .. tile_m - 1 : CountDownRow(c, j)
    <3>1. UNCHANGED <<k_local_remaining, y_done>>
      BY <2>2 DEF CTAStep, Claim, AwaitTile, ComputeStripe, ScatterStripe, FinishStripe, rowVars
    <3> QED BY <1>1, <1>3, <3>1, ReleasedKept
  <2> QED BY <2>1, <2>2
<1> QED BY <1>4, <1>5, <1>6, <1>7 DEF StageInv

LEMMA StageInvNext ==
  ASSUME IInv, StageInv, [Next]_vars
  PROVE  StageInv'
<1>1. ASSUME UNCHANGED vars PROVE StageInv'
  <2>1. UNCHANGED <<pass, layerVars, kernelVars, o, rpc, k_local_remaining, y_done>>
    BY <1>1 DEF vars, receiverVars, rowVars
  <2>2. \A cs \in Substreams : Fenced(cs)' <=> Fenced(cs)
    BY <2>1 DEF Fenced
  <2>3. OneTicketEach' /\ ReadInv' /\ ShareInv'
    BY <2>1, StageStays DEF StageInv
  <2>4. ReleasedInv'
    BY <2>1, <2>2, ReleasedKept DEF StageInv, layerVars
  <2> QED BY <2>3, <2>4 DEF StageInv
<1>2. \/ NextKernel \/ LaunchBackward \/ UNCHANGED vars
      \/ \E cs \in Substreams : ReceiverStep(cs)
      \/ \E c \in CTAs : CTAStep(c)
  BY DEF Next, Terminated
<1> QED BY <1>1, <1>2, NextKernelStage, LaunchBackwardStage, ReceiverStage, CTAStage

(* Every share is in a row's bag exactly when the stripe that brings it has
   been scattered, once; a row is among the released exactly when its count has
   come down to zero; no two CTAs are at the same stripe. *)
THEOREM StageInvariant == Spec => []StageInv
<1>1. Init /\ IInv => StageInv
  BY InitStage
<1>2. IInv /\ StageInv /\ [Next]_vars => StageInv'
  BY StageInvNext
<1> QED BY <1>1, <1>2, InductiveInvariant, PTL DEF Spec

(* The stripes of a tile of the second forward kernel fill whole clusters. *)
WholeClusters == NumPidN["fwd"][2] % cluster_n = 0

(* With as many stripes as columns, a tile whose stripes are all finished has
   been added to its rows. *)
LEMMA TileDone ==
  ASSUME WholeClusters, CoreInv, PipeInv, kernel = 2,
         NEW t \in Tiles, tile_n_stripes_done[t] >= NumPidN[pass][2], NEW n \in Columns
  PROVE  Scattered(t, n)
<1>1. LayerInv /\ PipeType /\ TicketInv /\ pass \in Passes
  BY DEF CoreInv, LayerInv, PipeInv
<1>2. PICK S \in Nat \ {0} : S = Stripes(2) /\ NumPidN[pass][2] \in Nat
  BY <1>1, StripesType
<1>3. NumPidN[pass][2] = S
  <2>1. cluster_n \in Nat \ {0} /\ 1 \in Nat \ {0} /\ NumPidN[pass][2] % 1 = 0
    BY <1>2, StreamAssumption
  <2>2. CASE pass = "fwd"
    <3>1. CeilDiv(NumPidN[pass][2], cluster_n) * cluster_n = NumPidN[pass][2]
      BY <1>2, <2>1, <2>2, CeilBounds DEF WholeClusters
    <3> QED BY <1>2, <2>2, <3>1 DEF Stripes
  <2>3. CASE pass # "fwd"
    <3>1. CeilDiv(NumPidN[pass][2], 1) * 1 = NumPidN[pass][2]
      BY <1>2, <2>1, CeilBounds
    <3> QED BY <1>2, <2>3, <3>1 DEF Stripes
  <2> QED BY <2>2, <2>3
<1>4. PICK h \in Nat : h = consumer_head
  BY <1>1 DEF PipeType
<1>5. t \in Nat
  BY <1>1, SlotsAndTiles
<1>6. PICK d \in 0 .. S : d = DrawnOf(h, S, t) /\ (d = S => h >= (t + 1) * S)
  BY <1>5, DrawnBounds
<1>7. IsFiniteSet(Holding(t)) /\ Cardinality(Holding(t)) \in Nat
  <2>1. IsFiniteSet(CTAs)
    <3>1. 1 \in Int /\ NumCTAs \in Int
      BY StreamAssumption
    <3> QED BY <3>1, FS_Interval DEF CTAs
  <2>2. Holding(t) \subseteq CTAs
    BY DEF Holding
  <2> QED BY <2>1, <2>2, FS_Subset, FS_CardinalityType
<1>8. tile_n_stripes_done[t] + Cardinality(Holding(t)) = d
  BY <1>1, <1>2, <1>4, <1>6 DEF TicketInv, Finished, Drawn
<1>9. d = S /\ Cardinality(Holding(t)) = 0
  <2>1. tile_n_stripes_done[t] \in Nat /\ tile_n_stripes_done[t] >= S
    BY <1>1, <1>3 DEF PipeType
  <2> QED BY <1>6, <1>7, <1>8, <2>1
<1>10. Holding(t) = {}
  BY <1>7, <1>9, FS_EmptySet
<1>11. n \in 0 .. S - 1
  BY <1>3 DEF Columns
<1>12. PICK z \in Nat : z = t * S + n /\ z < (t + 1) * S
  <2>1. t \in 0 .. (t + 1) - 1 /\ t + 1 \in Nat
    BY <1>5
  <2> QED BY <1>5, <1>11, <2>1, TicketBelow
<1>13. (t + 1) * S \in Nat /\ h >= (t + 1) * S
  <2>1. t + 1 \in Nat
    BY <1>5
  <2> QED BY <1>6, <1>9, <2>1
<1>14. z < h
  BY <1>12, <1>13
<1>15. \A c \in CTAs : ~(cpc[c] \in {"spin", "compute"} /\ work[c] = <<t, n>>)
  BY <1>10 DEF Holding
<1> QED BY <1>2, <1>4, <1>12, <1>14, <1>15 DEF Scattered

(* Its tokens have received what the tile's stripes owe them. *)
LEMMA SharesOfTile ==
  ASSUME WholeClusters, IInv, StageInv, kernel = 2,
         NEW cs \in Substreams, NEW i \in 1 .. Len(arriving[cs]), NEW k \in K,
         arriving[cs][i][k] # -1, NEW t \in Tiles, SlotOf(arriving, cs, i, k) \in SlotsOf(t),
         tile_n_stripes_done[t] >= NumPidN[pass][2], NEW n \in Columns
  PROVE  ShareFor(cs, i, k, n) \in Given(cs, i)
<1>1. Scattered(t, n)
  BY TileDone DEF IInv
<1>2. Received(cs, i, k, n)
  BY <1>1 DEF Received
<1> QED BY <1>2, ShareOwed DEF Given

(* The CTA whose increment completes a tile (kernel Y's tile_n_stripes_done, and
   A_bwd's) counts its rows down after every stripe of the tile has been added
   to them, provided that no stripe lies past the edge of the output. *)
THEOREM LastStripeSees == ASSUME WholeClusters PROVE Spec => []LastStripeSeesAll
<1>1. ASSUME IInv, StageInv PROVE LastStripeSeesAll
  <2>1. CoreInv /\ LayerInv /\ WorkInv /\ PipeType /\ ShareInv /\ arriving \in Arrivals
    BY <1>1 DEF IInv, CoreInv, LayerInv, PipeInv, StageInv
  <2>2. SUFFICES ASSUME NEW c \in CTAs, cpc[c] = "release", NEW t, t = work[c][1],
                        NEW j \in RealRows(t), NEW n \in Columns, NEW r,
                        r = pool_recv_token[t * tile_m + j]
                 PROVE  Share(BallotExpert(expert_pool_block_offset, t), n, <<r>>) \in DOMAIN o[r]
    BY DEF LastStripeSeesAll, Columns
  <2>3. t \in Tiles /\ kernel = 2 /\ tile_n_stripes_done[t] >= NumPidN[pass][2]
    BY <2>1, <2>2 DEF WorkInv, CTAInv
  <2>4. PICK b \in Nat : b = t * tile_m /\ SlotsOf(t) = b .. b + tile_m - 1
    BY <2>1, <2>3, SlotsAndTiles
  <2>5. j \in 0 .. tile_m - 1 /\ r >= 0
    BY <2>2 DEF RealRows
  <2>6. PICK x : x = t * tile_m + j
    OBVIOUS
  <2>7. x \in SlotsOf(t)
    <3>1. j \in Nat /\ j <= tile_m - 1
      BY <2>5, LayoutAssumption
    <3> QED BY <2>4, <2>6, <3>1, LayoutAssumption
  <2>8. x \in Slots /\ pool_recv_token[x] = r /\ r # -1
    BY <2>1, <2>2, <2>3, <2>5, <2>6, <2>7, SlotsAndTiles
  <2>9. PICK cs \in Substreams : \E i \in 1 .. Len(arriving[cs]), k \in K :
          /\ arriving[cs][i][k] # -1 /\ x = SlotOf(arriving, cs, i, k)
          /\ pool_recv_token[x] = Row(arriving, cs, i)
    BY <2>1, <2>8, Holder
  <2>10. PICK i \in 1 .. Len(arriving[cs]), k \in K :
          /\ arriving[cs][i][k] # -1 /\ x = SlotOf(arriving, cs, i, k)
          /\ pool_recv_token[x] = Row(arriving, cs, i)
    BY <2>9
  <2>11. ShareFor(cs, i, k, n) \in Given(cs, i)
    BY <1>1, <2>3, <2>7, <2>10, <2>2, SharesOfTile
  <2>12. BallotExpert(expert_pool_block_offset, t) = arriving[cs][i][k]
    BY <2>1, <2>3, <2>7, <2>10, BallotIsExpert
  <2>13. DOMAIN o[r] = Given(cs, i)
    <3>1. r = Row(arriving, cs, i)
      BY <2>8, <2>10
    <3>2. o[r] = SetToBag(Given(cs, i))
      BY <2>1, <3>1 DEF ShareInv
    <3>3. PICK G : G = Given(cs, i)
      OBVIOUS
    <3> QED BY <3>2, <3>3 DEF SetToBag
  <2> QED BY <2>8, <2>10, <2>11, <2>12, <2>13 DEF ShareFor
<1> QED BY <1>1, InductiveInvariant, StageInvariant, PTL

(* ExpertStage's bags are those of the stage. *)
LEMMA StageBags ==
  /\ \A S : Stage!SetToBag(S) = SetToBag(S)
  /\ Stage!EmptyBag = EmptyBag
BY DEF Stage!SetToBag, SetToBag, Stage!EmptyBag, EmptyBag

LEMMA StagePart == \A A, B : Stage!\sqsubseteq(A, B) <=> A \sqsubseteq B
BY DEF Stage!\sqsubseteq, \sqsubseteq

(* What ExpertStage knows as owed. *)
OwedShares == [r \in Rows |->
  {Share(e, n, <<r>>) : e \in {TokenOfRow(r)[k] : k \in K} \ {-1},
                        n \in 0 .. NumPidN[pass][2] - 1}]

LEMMA OwedIs ==
  ASSUME LayerInv, NEW r \in Rows
  PROVE  \E cs \in Substreams : \E i \in 1 .. Len(arriving[cs]) :
           r = Row(arriving, cs, i) /\ OwedShares[r] = Owed(cs, i)
<1>1. PICK cs \in Substreams : \E i \in 1 .. Len(arriving[cs]) : r = Row(arriving, cs, i)
  BY RowsOnto DEF LayerInv
<1>2. PICK i \in 1 .. Len(arriving[cs]) : r = Row(arriving, cs, i)
  BY <1>1
<1>3. TokenOfRow(r) = arriving[cs][i]
  BY <1>2, TokenOfItsRow
<1>4. OwedShares[r] = {Share(e, n, <<r>>) : e \in {TokenOfRow(r)[k] : k \in K} \ {-1},
                                            n \in 0 .. NumPidN[pass][2] - 1}
  BY DEF OwedShares
<1>5. OwedShares[r] = Owed(cs, i)
  BY <1>2, <1>3, <1>4 DEF Owed, Columns
<1> QED BY <1>2, <1>5

LEMMA OwedKept ==
  ASSUME UNCHANGED <<pass, layerVars, Rows>>
  PROVE  UNCHANGED OwedShares
<1>1. /\ pass' = pass /\ arriving' = arriving /\ first_row' = first_row /\ Rows' = Rows
  BY DEF layerVars
<1>2. ASSUME NEW r PROVE TokenOfRow(r)' = TokenOfRow(r)
  BY <1>1 DEF TokenOfRow
<1> QED BY <1>1, <1>2 DEF OwedShares, Share

LEMMA StageStutters ==
  ASSUME UNCHANGED <<OwedShares, o, y_done>>
  PROVE  UNCHANGED Stage!vars
BY DEF Stage!vars, OwedShares

LEMMA StageAdds ==
  ASSUME UNCHANGED <<OwedShares, y_done>>, DOMAIN o' = Rows,
         \A r \in Rows : o[r] \sqsubseteq o'[r] /\ o'[r] \sqsubseteq SetToBag(OwedShares[r])
  PROVE  Stage!Add
<1>1. \A r \in Rows : Stage!\sqsubseteq(o[r], o'[r])
  BY StagePart
<1>2. ASSUME NEW r \in Rows
      PROVE  Stage!\sqsubseteq(o'[r], Stage!SetToBag(OwedShares[r]))
  <2>1. Stage!SetToBag(OwedShares[r]) = SetToBag(OwedShares[r])
    BY StageBags
  <2> QED BY <2>1, StagePart
<1>3. \A r \in Rows : Stage!\sqsubseteq(o'[r], Stage!SetToBag(OwedShares[r]))
  BY <1>2
<1>4. Stage!Rows = Rows
  BY DEF Stage!Rows
<1> QED BY <1>1, <1>3, <1>4 DEF Stage!Add, OwedShares

LEMMA StageReleases ==
  ASSUME UNCHANGED <<OwedShares, o>>, NEW r, r \notin y_done, y_done' = y_done \cup {r},
         o[r] = SetToBag(OwedShares[r])
  PROVE  Stage!Release(r)
BY StageBags DEF Stage!Release, OwedShares

LEMMA ScatterIsAdd ==
  ASSUME IInv, StageInv, NEW c \in CTAs, ScatterStripe(c)
  PROVE  Stage!Add
<1>1. CoreInv /\ PipeInv /\ RowInv /\ LayerInv /\ OneTicketEach /\ ReadInv /\ ShareInv
  BY DEF IInv, StageInv, CoreInv
<1>2. UNCHANGED coreVars /\ y_done' = y_done /\ DOMAIN o' = Rows
  BY DEF ScatterStripe, coreVars
<1>3. arriving' = arriving /\ UNCHANGED OwedShares
  BY <1>2, CoreSame, OwedKept DEF coreVars
<1>4. ASSUME NEW r \in Rows
      PROVE  o[r] \sqsubseteq o'[r] /\ o'[r] \sqsubseteq SetToBag(OwedShares[r])
  <2>1. PICK cs \in Substreams : \E i \in 1 .. Len(arriving[cs]) :
          r = Row(arriving, cs, i) /\ OwedShares[r] = Owed(cs, i)
    BY <1>1, OwedIs
  <2>2. PICK i \in 1 .. Len(arriving[cs]) : r = Row(arriving, cs, i) /\ OwedShares[r] = Owed(cs, i)
    BY <2>1
  <2>3. ShareInv' /\ Given(cs, i) \subseteq Given(cs, i)' /\ Owed(cs, i)' = Owed(cs, i)
    BY <1>1, ScatterShares
  <2>4. o[r] = SetToBag(Given(cs, i)) /\ o'[r] = SetToBag(Given(cs, i)')
    BY <1>1, <1>3, <2>2, <2>3 DEF ShareInv
  <2>5. Given(cs, i)' \subseteq Owed(cs, i)
    BY <2>3 DEF Given
  <2> QED BY <2>2, <2>3, <2>4, <2>5, BagPart
<1> QED BY <1>2, <1>3, <1>4, StageAdds

LEMMA CountDownIsRelease ==
  ASSUME WholeClusters, IInv, IInv', StageInv, NEW c \in CTAs, NEW j, CountDownRow(c, j)
  PROVE  (\E r \in Rows : Stage!Release(r)) \/ UNCHANGED Stage!vars
<1>1. CoreInv /\ PipeInv /\ RowInv /\ RowInv' /\ LayerInv /\ ShareInv /\ ReleasedInv
  BY DEF IInv, StageInv, CoreInv
<1>2. UNCHANGED coreVars /\ o' = o /\ tile_n_stripes_done' = tile_n_stripes_done /\ kernel = 2
  BY DEF CountDownRow, coreVars
<1>3. /\ arriving' = arriving /\ pass' = pass /\ Rows' = Rows /\ seen_per_substream' = seen_per_substream
      /\ Tiles' = Tiles
      /\ (\A d \in Substreams : Fenced(d)' <=> Fenced(d)) /\ UNCHANGED OwedShares
  BY <1>2, CoreSame, OwedKept DEF coreVars
<1>4. PICK cs \in Substreams : \E i \in 1 .. Len(arriving[cs]) : \E r \in Rows :
           /\ r = Row(arriving, cs, i) /\ Fenced(cs)
           /\ k_local_remaining[r] \in Nat \ {0}
           /\ k_local_remaining' = [k_local_remaining EXCEPT ![r] = @ - 1]
           /\ y_done' = IF k_local_remaining[r] = 1 THEN y_done \cup {r} ELSE y_done
  BY <1>1, CountedRow
<1>5. PICK i \in 1 .. Len(arriving[cs]), r \in Rows :
           /\ r = Row(arriving, cs, i) /\ Fenced(cs)
           /\ k_local_remaining[r] \in Nat \ {0}
           /\ k_local_remaining' = [k_local_remaining EXCEPT ![r] = @ - 1]
           /\ y_done' = IF k_local_remaining[r] = 1 THEN y_done \cup {r} ELSE y_done
  BY <1>4
<1>6. CASE k_local_remaining[r] # 1
  <2>1. o' = o /\ y_done' = y_done
    BY <1>2, <1>5, <1>6
  <2> QED BY <1>3, <2>1, StageStutters
<1>7. CASE k_local_remaining[r] = 1
  <2>1. r \notin y_done /\ y_done' = y_done \cup {r}
    BY <1>1, <1>5, <1>7 DEF ReleasedInv
  <2>2. k_local_remaining'[r] = 0
    BY <1>1, <1>5, <1>7 DEF RowInv
  <2>3. Cardinality(Unserved(cs, i)') = 0
    BY <1>1, <1>3, <1>5, <2>2 DEF RowInv
  <2>4. Unserved(cs, i)' = {}
    <3>1. (IsFiniteSet(Unserved(cs, i)))'
      BY UnservedFinite, PTL
    <3> QED BY <2>3, <3>1, FS_EmptySet
  <2>5. ASSUME NEW k \in K, arriving[cs][i][k] # -1, NEW n \in Columns
        PROVE  ShareFor(cs, i, k, n) \in Given(cs, i)
    <3>1. PICK x \in Slots : x = SlotOf(arriving, cs, i, k)
      BY <1>1, <2>5, RowsOfTokens
    <3>2. PICK t \in Tiles : x \in SlotsOf(t)
      BY <1>1, SlotsAndTiles
    <3>3. ~Waiting(SlotOf(arriving, cs, i, k))'
      BY <1>3, <2>4, <2>5 DEF Unserved
    <3>4. ~(tile_n_stripes_done[t] < NumPidN[pass][2])
      BY <1>2, <1>3, <3>1, <3>2, <3>3 DEF Waiting
    <3>5. tile_n_stripes_done[t] \in Nat /\ NumPidN[pass][2] \in Nat
      BY <1>1, StripesType DEF PipeInv, PipeType, LayerInv
    <3>6. tile_n_stripes_done[t] >= NumPidN[pass][2]
      BY <3>4, <3>5
    <3> QED BY <1>2, <2>5, <3>1, <3>2, <3>6, SharesOfTile
  <2>6. Given(cs, i) = Owed(cs, i)
    <3>1. ASSUME NEW s \in Owed(cs, i) PROVE s \in Given(cs, i)
      <4>1. PICK k \in K, n \in Columns : arriving[cs][i][k] # -1 /\ s = ShareFor(cs, i, k, n)
        BY <3>1 DEF Owed, ShareFor
      <4> QED BY <2>5, <4>1
    <3> QED BY <3>1 DEF Given
  <2>7. OwedShares[r] = Owed(cs, i)
    <3>1. PICK d \in Substreams : \E l \in 1 .. Len(arriving[d]) :
            r = Row(arriving, d, l) /\ OwedShares[r] = Owed(d, l)
      BY <1>1, OwedIs
    <3>2. PICK l \in 1 .. Len(arriving[d]) : r = Row(arriving, d, l) /\ OwedShares[r] = Owed(d, l)
      BY <3>1
    <3>3. d = cs /\ l = i
      <4>1. arriving \in Arrivals /\ Row(arriving, d, l) = Row(arriving, cs, i)
        BY <1>1, <1>5, <3>2 DEF LayerInv
      <4> QED BY <4>1, RowsDiffer
    <3> QED BY <3>2, <3>3
  <2>8. o[r] = SetToBag(OwedShares[r])
    BY <1>1, <1>5, <2>6, <2>7 DEF ShareInv
  <2>9. Stage!Release(r)
    BY <1>2, <1>3, <2>1, <2>8, StageReleases
  <2> QED BY <2>9
<1> QED BY <1>6, <1>7

LEMMA LaunchIsNextPass ==
  ASSUME IInv, StageInv, LaunchBackward
  PROVE  Stage!NextPass
<1>1. /\ CoreInv /\ PipeInv /\ PipeType /\ WorkInv /\ RowInv /\ LayerInv /\ OneTicketEach
      /\ ReleasedInv
  BY DEF IInv, StageInv, CoreInv, PipeInv
<1>2. Rows' = Rows
  BY <1>1, LaunchBackwardCore
<1>3. /\ kernel = 3 /\ \A cs \in Substreams : rpc[cs] = "done"
      /\ o' = [r \in Rows |-> EmptyBag] /\ y_done' = {}
  BY DEF LaunchBackward, PassOver
<1>4. ASSUME NEW x PROVE ~Waiting(x)
  <2>1. \A c \in CTAs : cpc[c] # "release"
    BY <1>1, <1>3 DEF WorkInv, CTAInv
  <2>2. ASSUME NEW t \in Tiles PROVE ~(tile_n_stripes_done[t] < NumPidN[pass][2])
    <3>1. tile_n_stripes_done[t] = Stripes(2)
      BY <1>1, <1>3 DEF OneTicketEach
    <3>2. Stripes(2) \in Nat /\ NumPidN[pass][2] \in Nat /\ NumPidN[pass][2] <= Stripes(2)
      BY <1>1, StripesType DEF LayerInv
    <3> QED BY <3>1, <3>2
  <2> QED BY <2>1, <2>2 DEF Waiting
<1>5. ASSUME NEW r \in Rows PROVE r \in y_done
  <2>1. PICK cs \in Substreams : \E i \in 1 .. Len(arriving[cs]) : r = Row(arriving, cs, i)
    BY <1>1, RowsOnto DEF LayerInv
  <2>2. PICK i \in 1 .. Len(arriving[cs]) : r = Row(arriving, cs, i)
    BY <2>1
  <2>3. Fenced(cs)
    BY <1>3 DEF Fenced
  <2>4. Unserved(cs, i) = {}
    BY <1>4 DEF Unserved
  <2>5. k_local_remaining[r] = 0
    <3>1. Cardinality(Unserved(cs, i)) = 0
      BY <2>4, FS_EmptySet
    <3> QED BY <1>1, <2>2, <2>3, <3>1 DEF RowInv
  <2> QED BY <1>1, <2>2, <2>3, <2>5 DEF ReleasedInv
<1>6. y_done = Rows
  BY <1>1, <1>5 DEF RowInv
<1> QED BY <1>2, <1>3, <1>6, StageBags DEF Stage!NextPass, Stage!Rows

(* Under the same proviso the pipeline keeps the promise of ExpertStage in both
   passes: every share a row is owed is added to it exactly once, the row is
   released once, after the last of them, and the backward pass starts when
   every row has been released. *)
THEOREM ImplementsStage == ASSUME WholeClusters PROVE Spec => ImplementsExpertStage
<1>1. ASSUME Init PROVE Stage!Init
  BY <1>1, StageBags DEF Init, Stage!Init, Stage!Rows
<1>2. ASSUME IInv, IInv', StageInv, [Next]_vars PROVE [Stage!Next]_(Stage!vars)
  <2>1. ASSUME UNCHANGED <<pass, layerVars, Rows, o, y_done>> PROVE UNCHANGED Stage!vars
    BY <2>1, OwedKept DEF Stage!vars, OwedShares
  <2>2. CASE UNCHANGED vars
    BY <2>1, <2>2 DEF vars, rowVars, poolVars, Rows
  <2>3. CASE NextKernel
    BY <2>1, <2>3 DEF NextKernel, rowVars, poolVars, Rows
  <2>4. CASE LaunchBackward
    BY <1>2, <2>4, LaunchIsNextPass DEF Stage!Next
  <2>5. ASSUME NEW cs \in Substreams, ReceiverStep(cs) PROVE UNCHANGED Stage!vars
    <3>1. UNCHANGED <<pass, layerVars, o, y_done>>
      BY <2>5 DEF ReceiverStep, ReceiveBatch, Fence, FireBlock, rowVars
    <3>2. Rows' = Rows
      BY <1>2, <2>5, ReceiveBatchCore, FenceCore, FireBlockCore DEF ReceiverStep, IInv
    <3> QED BY <2>1, <3>1, <3>2
  <2>6. ASSUME NEW c \in CTAs, CTAStep(c) PROVE [Stage!Next]_(Stage!vars)
    <3>1. CASE ScatterStripe(c)
      BY <1>2, <3>1, ScatterIsAdd DEF Stage!Next
    <3>2. ASSUME NEW j, CountDownRow(c, j) PROVE [Stage!Next]_(Stage!vars)
      BY <1>2, <3>2, CountDownIsRelease DEF Stage!Next, Stage!Rows
    <3>3. CASE Claim(c) \/ AwaitTile(c) \/ ComputeStripe(c) \/ FinishStripe(c)
      BY <2>1, <3>3 DEF Claim, AwaitTile, ComputeStripe, FinishStripe, rowVars, poolVars, Rows
    <3> QED BY <2>6, <3>1, <3>2, <3>3 DEF CTAStep
  <2>7. \/ NextKernel \/ LaunchBackward \/ UNCHANGED vars
        \/ \E cs \in Substreams : ReceiverStep(cs)
        \/ \E c \in CTAs : CTAStep(c)
    BY <1>2 DEF Next, Terminated
  <2> QED BY <2>2, <2>3, <2>4, <2>5, <2>6, <2>7
<1>3. Spec => Stage!Spec
  BY <1>1, <1>2, InductiveInvariant, StageInvariant, PTL DEF Spec, Stage!Spec
<1> QED BY <1>3 DEF ImplementsExpertStage
=============================================================================
