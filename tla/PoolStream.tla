----------------------------- MODULE PoolStream ------------------------------
(***************************************************************************)
(* One rank between its dispatch receivers and combine, forward and then   *)
(* backward through one layer.  The receiver thread group of substream cs  *)
(* gives every arriving (token, k) pair a slot of the expert pool, copies  *)
(* the token there, fences, and adds its counts to the arrival counters of *)
(* the tiles.  Two compute kernels (A and Y; backward Y_bwd and A_bwd) run *)
(* one after the other on the compute stream; their CTAs draw tile stripes *)
(* from a ticket counter and spin until the tile has arrived.  The second  *)
(* kernel adds its results to the rows of the tokens, and the last stripe  *)
(* of a tile counts the tile's rows down; a row at zero is released.       *)
(*                                                                         *)
(* The rings that bring the tokens are DispatchRing's: a substream's       *)
(* tokens come in order, in batches cut at any place.  A CTA of the model  *)
(* is a tile in work; a real CTA, whose scheduler warp claims the next     *)
(* tile while the others compute, is two of them.                          *)
(***************************************************************************)
EXTENDS PoolLayout, Sequences, Bags

CONSTANTS
  NumRanks,                \* substream cs is of source cs % NumRanks
  Arrivals,                \* [Substreams -> Seq(Token)]: what may be routed here
  num_topk,
  kReceiverChunkSize,      \* tokens per sub-batch of the forward receiver
  NumCTAs,
  NumPidN,                 \* NumPidN[p][k]: output stripes per tile of kernel k in pass p
  cluster_n                \* CTAs per cluster of the forward kernels

K == 0 .. num_topk - 1
Token == [K -> Experts \cup {-1}]      \* topk_idx, local experts, -1 elsewhere
CTAs == 1 .. NumCTAs
Passes == {"fwd", "bwd"}

ASSUME StreamAssumption ==
  /\ NumRanks \in Nat \ {0} /\ NumSubstreams % NumRanks = 0
  /\ num_topk \in Nat \ {0} /\ kReceiverChunkSize \in Nat \ {0}
  /\ NumCTAs \in Nat \ {0} /\ cluster_n \in Nat \ {0}
  /\ NumPidN \in [Passes -> [1 .. 2 -> Nat \ {0}]]
  /\ NumPidN["fwd"][1] % cluster_n = 0     \* 2I wide, and tile_n_a divides I
  /\ \A a \in Arrivals :
       /\ a \in [Substreams -> Seq(Token)]
       /\ \A cs \in Substreams : \A i \in 1 .. Len(a[cs]) :
            /\ \E k \in K : a[cs][i][k] # -1       \* routed here for an expert,
            /\ \A j, k \in K :                     \* and once for each
                 j # k /\ a[cs][i][j] # -1 => a[cs][i][j] # a[cs][i][k]

VARIABLES
  pass, arriving,
  \* metadata of the layer, computed before dispatch starts
  first_row, seen_per_substream, expert_pool_block_offset, base_pool, pool_arrival_target,
  \* receivers: tokens done, copies not yet fenced, counts per expert, tiles
  \* announced
  rpc, head, unfenced, smem_seen, fired,
  \* the rank's memory
  pool, pool_recv_token, recv_token_to_slots, k_local_total, k_local_remaining,
  pool_arrival_count,
  \* the compute stream: the kernel running (3: none left), its tickets, its CTAs
  kernel, consumer_head, cpc, work, todo, computed, tile_n_stripes_done,
  \* what has been added to the rows, and the rows released
  o, y_done

layerVars == <<arriving, first_row, seen_per_substream, expert_pool_block_offset, base_pool,
               pool_arrival_target>>
receiverVars == <<rpc, head, unfenced, smem_seen, fired>>
poolVars == <<pool, pool_recv_token, recv_token_to_slots, k_local_total>>
kernelVars == <<kernel, consumer_head, cpc, work, todo, computed, tile_n_stripes_done>>
rowVars == <<k_local_remaining, o, y_done>>
vars == <<pass, layerVars, receiverVars, poolVars, pool_arrival_count, kernelVars, rowVars>>

Garbage == <<>>            \* the content of memory not written in this pass

NumTiles == expert_pool_block_offset[NumExperts]
Tiles == 0 .. NumTiles - 1
Slots == 0 .. NumTiles * tile_m - 1
SlotsOf(t) == t * tile_m .. (t + 1) * tile_m - 1

RowOf(cs, i) == first_row[cs] + i - 1
Rows == DOMAIN k_local_total

(* Rows are dealt out by source, and within a source by channel. *)
FirstRow(a, cs) ==
  LET before(d) == \/ d % NumRanks < cs % NumRanks
                   \/ d % NumRanks = cs % NumRanks /\ d < cs
  IN  SumFunction([d \in {c \in Substreams : before(c)} |-> Len(a[d])])

SeenIn(a) == [cs \in Substreams |-> [e \in Experts |->
                Cardinality({i \in 1 .. Len(a[cs]) : \E k \in K : a[cs][i][k] = e})]]

Init ==
  /\ pass = "fwd"
  /\ arriving \in Arrivals
  /\ first_row = [cs \in Substreams |-> FirstRow(arriving, cs)]
  /\ seen_per_substream = SeenIn(arriving)
  /\ expert_pool_block_offset =
       [e \in 0 .. NumExperts |-> BlockOffset(seen_per_substream, e)]
  /\ base_pool = [cs \in Substreams |-> [e \in Experts |->
                    BasePool(seen_per_substream, cs, e)]]
  /\ pool_arrival_target = [t \in Tiles |-> ArrivalTarget(seen_per_substream, t)]
  /\ rpc = [cs \in Substreams |-> "recv"] /\ head = [cs \in Substreams |-> 0]
  /\ unfenced = [cs \in Substreams |-> {}]
  /\ smem_seen = [cs \in Substreams |-> [e \in Experts |-> 0]]
  /\ fired = [cs \in Substreams |-> {}]
  /\ pool = [p \in Passes |-> [x \in Slots |-> Garbage]]
  /\ pool_recv_token = [x \in Slots |-> -1]
  /\ LET n == SumFunction([cs \in Substreams |-> Len(arriving[cs])])
     IN  k_local_total = [r \in 0 .. n - 1 |-> 0]
  /\ recv_token_to_slots = [r \in Rows |-> [k \in K |-> -1]]
  /\ k_local_remaining = [r \in Rows |-> 0]
  /\ pool_arrival_count = [t \in Tiles |-> 0]
  /\ kernel = IF NumTiles > 0 THEN 1 ELSE 3
  /\ consumer_head = 0
  /\ cpc = [c \in CTAs |-> "claim"] /\ work = [c \in CTAs |-> <<0, 0>>]
  /\ todo = [c \in CTAs |-> {}]
  /\ computed = [t \in Tiles |-> << >>]
  /\ tile_n_stripes_done = [t \in Tiles |-> 0]
  /\ o = [r \in Rows |-> EmptyBag] /\ y_done = {}

-----------------------------------------------------------------------------
(* The receiver of substream cs.  Its copies reach other blocks only at the
   fence, the latest that the memory model allows, so a batch is one step that
   nobody else sees. *)

NextTokens(cs, n) == head[cs] + 1 .. head[cs] + n
PairsFor(cs, e, I) == Cardinality({i \in I : \E k \in K : arriving[cs][i][k] = e})

(* Faulty variant: the counts start over with every sub-batch. *)
SlotsOfTokenFresh(cs, i) ==
  [k \in K |->
     LET e == arriving[cs][i][k]
     IN  IF e = -1 THEN -1 ELSE base_pool[cs][e] + PairsFor(cs, e, head[cs] + 1 .. i - 1)]

(* Pass A: token i gets, for each local expert, the slot after those of the
   substream's earlier tokens for that expert; the backward kernel looks the
   slots up by row. *)
SlotsOfToken(cs, i) ==
  IF pass = "bwd" THEN recv_token_to_slots[RowOf(cs, i)]
  ELSE [k \in K |->
          LET e == arriving[cs][i][k]
          IN  IF e = -1 THEN -1
              ELSE base_pool[cs][e] + smem_seen[cs][e] + PairsFor(cs, e, head[cs] + 1 .. i - 1)]

(* Pass A and Pass B on a sub-batch: allocate the slots, copy the tokens. *)
ReceiveBatch(cs) ==
  /\ rpc[cs] = "recv" /\ head[cs] < Len(arriving[cs])
  /\ \E n \in 1 .. Len(arriving[cs]) - head[cs] :
       /\ pass = "fwd" => n <= kReceiverChunkSize
       /\ unfenced' = [unfenced EXCEPT ![cs] = @ \cup
            {[row |-> RowOf(cs, i), slots |-> SlotsOfToken(cs, i)] : i \in NextTokens(cs, n)}]
       /\ smem_seen' = IF pass = "bwd" THEN smem_seen
            ELSE [smem_seen EXCEPT ![cs] =
                   [e \in Experts |-> @[e] + PairsFor(cs, e, NextTokens(cs, n))]]
       /\ head' = [head EXCEPT ![cs] = @ + n]
  /\ UNCHANGED <<pass, layerVars, rpc, fired, poolVars, pool_arrival_count, kernelVars,
                 rowVars>>

(* The copies that reach slot x at the fence. *)
Reaches(cs, x) == {w \in unfenced[cs] : \E k \in K : w.slots[k] = x}
LocalK(slots) == Cardinality({k \in K : slots[k] # -1})

(* Faulty variant: the announcement is not preceded by the fence. *)
FenceNothing(cs) ==
  /\ rpc[cs] = "recv" /\ head[cs] = Len(arriving[cs])
  /\ rpc' = [rpc EXCEPT ![cs] = "fire"]
  /\ UNCHANGED <<pass, layerVars, head, unfenced, smem_seen,
                 fired, poolVars, pool_arrival_count, kernelVars, rowVars>>

(* All tokens of the substream are copied: wait for the stores, fence. *)
Fence(cs) ==
  /\ rpc[cs] = "recv" /\ head[cs] = Len(arriving[cs])
  /\ pool' = [pool EXCEPT ![pass] = [x \in Slots |->
       IF Reaches(cs, x) = {} THEN @[x] ELSE <<(CHOOSE w \in Reaches(cs, x) : TRUE).row>>]]
  /\ IF pass = "fwd"
       THEN LET rows == {w.row : w \in unfenced[cs]}
                writeOf(r) == CHOOSE w \in unfenced[cs] : w.row = r
            IN  /\ pool_recv_token' = [x \in Slots |->
                     IF Reaches(cs, x) = {} THEN pool_recv_token[x]
                     ELSE (CHOOSE w \in Reaches(cs, x) : TRUE).row]
                /\ recv_token_to_slots' = [r \in Rows |->
                     IF r \in rows THEN writeOf(r).slots ELSE recv_token_to_slots[r]]
                /\ k_local_total' = [r \in Rows |->
                     IF r \in rows THEN LocalK(writeOf(r).slots) ELSE k_local_total[r]]
                /\ k_local_remaining' = [r \in Rows |->
                     IF r \in rows THEN LocalK(writeOf(r).slots) ELSE k_local_remaining[r]]
       ELSE UNCHANGED <<pool_recv_token, recv_token_to_slots, k_local_total,
                        k_local_remaining>>
  /\ unfenced' = [unfenced EXCEPT ![cs] = {}]
  /\ rpc' = [rpc EXCEPT ![cs] = "fire"]
  /\ UNCHANGED <<pass, layerVars, head, smem_seen, fired,
                 pool_arrival_count, kernelVars, o, y_done>>

(* How many pairs of the substream an expert has: counted by Pass A, but the
   backward kernel goes by the counts of the metadata kernel. *)
Writes(cs, e) == IF pass = "fwd" THEN smem_seen[cs][e] ELSE seen_per_substream[cs][e]
InRun(cs, e, x) == base_pool[cs][e] <= x /\ x < base_pool[cs][e] + Writes(cs, e)

(* Faulty variant: the first block of a run counts as if the run began there. *)
AnnouncesAligned(cs, t) ==
  Cardinality({p \in Experts \X SlotsOf(t) :
    LET first == base_pool[cs][p[1]]
    IN  InRun(cs, p[1], first + p[2] - t * tile_m) /\ t = first \div tile_m})

(* Pass 2: what the substream adds to the count of a block. *)
Announces(cs, t) == Cardinality({x \in SlotsOf(t) : \E e \in Experts : InRun(cs, e, x)})

Unfired(cs) == {t \in Tiles : Announces(cs, t) > 0} \ fired[cs]

(* The walk is upwards over experts and their blocks, hence over the tiles. *)
FireBlock(cs) ==
  /\ rpc[cs] = "fire"
  /\ IF Unfired(cs) = {}
       THEN /\ rpc' = [rpc EXCEPT ![cs] = "done"]
            /\ UNCHANGED <<fired, pool_arrival_count>>
       ELSE LET t == Min(Unfired(cs))
            IN  /\ pool_arrival_count' = [pool_arrival_count EXCEPT ![t] =
                                            @ + Announces(cs, t)]
                /\ fired' = [fired EXCEPT ![cs] = @ \cup {t}]
                /\ UNCHANGED rpc
  /\ UNCHANGED <<pass, layerVars, head, unfenced, smem_seen,
                 poolVars, kernelVars, rowVars>>

-----------------------------------------------------------------------------
(* The compute stream *)

(* The stripes of a tile that are worked on: those of whole clusters, so the
   last may lie past the edge of the output.  The CTAs of a cluster share a
   ticket for adjacent stripes and go on independently; here each draws one. *)
Stripes(k) ==
  LET n == IF pass = "fwd" THEN cluster_n ELSE 1
  IN  CeilDiv(NumPidN[pass][k], n) * n

(* The scheduler: take a ticket; none left, the CTA exits. *)
Claim(c) ==
  /\ kernel \in 1 .. 2 /\ cpc[c] = "claim"
  /\ consumer_head' = consumer_head + 1
  /\ IF consumer_head < NumTiles * Stripes(kernel)
       THEN /\ work' = [work EXCEPT ![c] = <<consumer_head \div Stripes(kernel),
                                             consumer_head % Stripes(kernel)>>]
            /\ cpc' = [cpc EXCEPT ![c] = "spin"]
       ELSE /\ cpc' = [cpc EXCEPT ![c] = "exit"]
            /\ UNCHANGED work
  /\ UNCHANGED <<pass, layerVars, receiverVars, poolVars, pool_arrival_count, kernel, todo,
                 computed, tile_n_stripes_done, rowVars>>

(* The ready spin polls the count of the tile. *)
AwaitTile(c) ==
  /\ kernel \in 1 .. 2 /\ cpc[c] = "spin"
  /\ cpc' = IF pool_arrival_count[work[c][1]] = pool_arrival_target[work[c][1]]
              THEN [cpc EXCEPT ![c] = "compute"] ELSE cpc
  /\ UNCHANGED <<pass, layerVars, receiverVars, poolVars, pool_arrival_count, kernel,
                 consumer_head, work, todo, computed, tile_n_stripes_done, rowVars>>

(* What the first kernel reads in a slot: the token, or, backward, the
   gradient beside the saved activation of the same slot. *)
Operand(x) == IF pass = "bwd" /\ pool["bwd"][x] # pool["fwd"][x] THEN Garbage
              ELSE pool[pass][x]

(* Kernel A or Y_bwd: one stripe of the tile, row by row. *)
ComputeStripe(c) ==
  /\ kernel = 1 /\ cpc[c] = "compute"
  /\ LET t == work[c][1]
     IN  computed' = [computed EXCEPT ![t] =
           Append(@, [i \in 0 .. tile_m - 1 |-> Operand(t * tile_m + i)])]
  /\ cpc' = [cpc EXCEPT ![c] = "claim"]
  /\ UNCHANGED <<pass, layerVars, receiverVars, poolVars, pool_arrival_count, kernel,
                 consumer_head, work, todo, tile_n_stripes_done, rowVars>>

(* What the first kernel left in row i of the tile, over all its stripes. *)
Intermediate(t, i) ==
  LET read == {computed[t][n][i] : n \in 1 .. Len(computed[t])}
  IN  IF Len(computed[t]) = NumPidN[pass][1] /\ Cardinality(read) = 1
        THEN CHOOSE v \in read : TRUE ELSE Garbage

RealRows(t) == {i \in 0 .. tile_m - 1 : pool_recv_token[t * tile_m + i] >= 0}

Share(e, n, v) == [pass |-> pass, expert |-> e, stripe |-> n, data |-> v]

(* Kernel Y or A_bwd: the stripe is added to the rows its slots belong to; one
   past the edge multiplies columns of zeros. *)
ScatterStripe(c) ==
  /\ kernel = 2 /\ cpc[c] = "compute"
  /\ LET t == work[c][1]
         e == BallotExpert(expert_pool_block_offset, t)
         rowsOf(r) == {i \in RealRows(t) : pool_recv_token[t * tile_m + i] = r}
         shareOf(r) == IF work[c][2] >= NumPidN[pass][2] THEN {}
                       ELSE {Share(e, work[c][2], Intermediate(t, i)) : i \in rowsOf(r)}
     IN  o' = [r \in Rows |-> o[r] (+) SetToBag(shareOf(r))]
  /\ cpc' = [cpc EXCEPT ![c] = "stripe"]
  /\ UNCHANGED <<pass, layerVars, receiverVars, poolVars, pool_arrival_count, kernel,
                 consumer_head, work, todo, computed, tile_n_stripes_done,
                 k_local_remaining, y_done>>

(* Faulty variant: every stripe of a tile does the bookkeeping. *)
FinishEveryStripe(c) ==
  /\ kernel = 2 /\ cpc[c] = "stripe"
  /\ LET t == work[c][1]
     IN  /\ tile_n_stripes_done' = [tile_n_stripes_done EXCEPT ![t] = @ + 1]
         /\ todo' = [todo EXCEPT ![c] = RealRows(t)]
         /\ cpc' = [cpc EXCEPT ![c] = "release"]
  /\ UNCHANGED <<pass, layerVars, receiverVars, poolVars, pool_arrival_count, kernel,
                 consumer_head, work, computed, rowVars>>

(* The CTA that completes the last stripe of a tile counts its rows down. *)
FinishStripe(c) ==
  /\ kernel = 2 /\ cpc[c] = "stripe"
  /\ LET t == work[c][1]
         rows == IF tile_n_stripes_done[t] = NumPidN[pass][2] - 1 THEN RealRows(t) ELSE {}
     IN  /\ tile_n_stripes_done' = [tile_n_stripes_done EXCEPT ![t] = @ + 1]
         /\ todo' = [todo EXCEPT ![c] = rows]
         /\ cpc' = [cpc EXCEPT ![c] = IF rows = {} THEN "claim" ELSE "release"]
  /\ UNCHANGED <<pass, layerVars, receiverVars, poolVars, pool_arrival_count, kernel,
                 consumer_head, work, computed, rowVars>>

(* One thread per row: the decrement that finds one releases the row. *)
CountDownRow(c, i) ==
  /\ kernel = 2 /\ cpc[c] = "release" /\ i \in todo[c]
  /\ LET r == pool_recv_token[work[c][1] * tile_m + i]
     IN  /\ k_local_remaining' = [k_local_remaining EXCEPT ![r] = @ - 1]
         /\ y_done' = IF k_local_remaining[r] = 1 THEN y_done \cup {r} ELSE y_done
  /\ todo' = [todo EXCEPT ![c] = @ \ {i}]
  /\ cpc' = [cpc EXCEPT ![c] = IF todo'[c] = {} THEN "claim" ELSE "release"]
  /\ UNCHANGED <<pass, layerVars, receiverVars, poolVars, pool_arrival_count, kernel,
                 consumer_head, work, computed, tile_n_stripes_done, o>>

(* The stream starts the second kernel when the first has retired. *)
NextKernel ==
  /\ kernel \in 1 .. 2 /\ \A c \in CTAs : cpc[c] = "exit"
  /\ kernel' = kernel + 1
  /\ consumer_head' = 0
  /\ cpc' = [c \in CTAs |-> "claim"] /\ work' = [c \in CTAs |-> <<0, 0>>]
  /\ UNCHANGED <<pass, layerVars, receiverVars, poolVars, pool_arrival_count, todo,
                 computed, tile_n_stripes_done, rowVars>>

PassOver == kernel = 3 /\ \A cs \in Substreams : rpc[cs] = "done"

(* The backward of the layer, on the handle of the forward: fresh arrival
   counts and stripe counts, row counts copied from k_local_total, a zeroed
   accumulator and gate array, and a receiver that starts over. *)
LaunchBackward ==
  /\ pass = "fwd" /\ PassOver
  /\ pass' = "bwd"
  /\ rpc' = [cs \in Substreams |-> "recv"] /\ head' = [cs \in Substreams |-> 0]
  /\ fired' = [cs \in Substreams |-> {}]
  /\ pool_arrival_count' = [t \in Tiles |-> 0]
  /\ kernel' = IF NumTiles > 0 THEN 1 ELSE 3
  /\ consumer_head' = 0
  /\ computed' = [t \in Tiles |-> << >>]
  /\ tile_n_stripes_done' = [t \in Tiles |-> 0]
  /\ k_local_remaining' = k_local_total
  /\ o' = [r \in Rows |-> EmptyBag] /\ y_done' = {}
  /\ UNCHANGED <<layerVars, unfenced, smem_seen, poolVars, cpc,
                 work, todo>>

-----------------------------------------------------------------------------
ReceiverStep(cs) ==
  ReceiveBatch(cs) \/ Fence(cs) \/ FireBlock(cs)
CTAStep(c) ==
  \/ Claim(c) \/ AwaitTile(c) \/ ComputeStripe(c) \/ ScatterStripe(c) \/ FinishStripe(c)
  \/ \E i \in 0 .. tile_m - 1 : CountDownRow(c, i)

Terminated == pass = "bwd" /\ PassOver /\ UNCHANGED vars

Next ==
  \/ NextKernel \/ LaunchBackward \/ Terminated
  \/ \E cs \in Substreams : ReceiverStep(cs)
  \/ \E c \in CTAs : CTAStep(c)

Spec == Init /\ [][Next]_vars

(* The blocks of dispatch are resident before the compute kernels start, and
   all warps of resident blocks advance.  Nothing but the spins repeats, so it
   is enough that the rank takes some step while it can. *)
FairSpec == Spec /\ WF_vars(Next)
-----------------------------------------------------------------------------
(* Types, with the ranges the counters keep. *)
TypeOK ==
  /\ pass \in Passes /\ arriving \in Arrivals
  /\ rpc \in [Substreams -> {"recv", "fire", "done"}]
  /\ \A cs \in Substreams :
       /\ head[cs] \in 0 .. Len(arriving[cs])
       /\ \A w \in unfenced[cs] : w.row \in Rows /\ w.slots \in [K -> Slots \cup {-1}]
       /\ \A e \in Experts : smem_seen[cs][e] <= seen_per_substream[cs][e]
       /\ fired[cs] \subseteq Tiles
  /\ pool \in [Passes -> [Slots -> {Garbage} \cup {<<r>> : r \in Rows}]]
  /\ pool_recv_token \in [Slots -> Rows \cup {-1}]
  /\ recv_token_to_slots \in [Rows -> [K -> Slots \cup {-1}]]
  /\ k_local_total \in [Rows -> 0 .. num_topk]
  /\ k_local_remaining \in [Rows -> 0 .. num_topk]
  /\ pool_arrival_count \in [Tiles -> 0 .. tile_m]
  /\ kernel \in 1 .. 3 /\ consumer_head \in Nat
  /\ cpc \in [CTAs -> {"claim", "spin", "compute", "stripe", "release", "exit"}]
  /\ \A c \in CTAs : cpc[c] \notin {"claim", "exit"} =>
       work[c][1] \in Tiles /\ work[c][2] \in 0 .. Stripes(kernel) - 1
  /\ todo \in [CTAs -> SUBSET (0 .. tile_m - 1)]
  /\ \A t \in Tiles : Len(computed[t]) <= NumPidN[pass][1]
  /\ tile_n_stripes_done \in [Tiles -> 0 .. Stripes(2)]
  /\ \A r \in Rows : IsABag(o[r])
  /\ y_done \subseteq Rows

(* Slots do not depend on how the rings cut the batches, or on which
   substream is faster: the slot of a (token, k) pair is the number of pairs
   for the same expert of earlier substreams, and of earlier tokens of its
   own, past the expert's first slot.  The backward pass relies on it when it
   scatters gradients by row. *)
SlotIsArrivalRank ==
  LET earlier(cs, i, e) ==
        {p \in Substreams \X (1 .. Cardinality(Rows)) :
           /\ p[2] <= Len(arriving[p[1]]) /\ (p[1] < cs \/ (p[1] = cs /\ p[2] < i))
           /\ \E k \in K : arriving[p[1]][p[2]][k] = e}
      expected(cs, i) ==
        [k \in K |-> LET e == arriving[cs][i][k]
                     IN  IF e = -1 THEN -1
                         ELSE expert_pool_block_offset[e] * tile_m
                                + Cardinality(earlier(cs, i, e))]
  IN  \A cs \in Substreams : \A i \in 1 .. Len(arriving[cs]) :
        /\ \A w \in unfenced[cs] : w.row = RowOf(cs, i) => w.slots = expected(cs, i)
        /\ (pass = "bwd" \/ rpc[cs] # "recv") =>
             recv_token_to_slots[RowOf(cs, i)] = expected(cs, i)

(* When the count of a tile meets its target, every slot of the tile that
   belongs to a token holds that token, visibly to the whole device, and its
   row knows how many experts it waits for. *)
ReadyTileIsFilled ==
  \A t \in Tiles : pool_arrival_count[t] = pool_arrival_target[t] =>
    /\ Cardinality(RealRows(t)) = pool_arrival_target[t]
    /\ \A x \in SlotsOf(t) :
         LET r == pool_recv_token[x]
         IN  r >= 0 => /\ pool[pass][x] = <<r>>
                       /\ \E k \in K : recv_token_to_slots[r][k] = x
                       /\ k_local_total[r] = LocalK(recv_token_to_slots[r])

(* The ready spin ends on equality, so a count must never pass its target. *)
ArrivalNeverOvershoots ==
  \A t \in Tiles : pool_arrival_count[t] <= pool_arrival_target[t]

(* The CTA that counts a tile's rows down has seen every stripe of the tile
   added to them. *)
LastStripeSeesAll ==
  \A c \in CTAs : cpc[c] = "release" =>
    LET t == work[c][1]
    IN  \A i \in RealRows(t), n \in 0 .. NumPidN[pass][2] - 1 :
          LET r == pool_recv_token[t * tile_m + i]
          IN  Share(BallotExpert(expert_pool_block_offset, t), n, <<r>>) \in DOMAIN o[r]

(* The pipeline keeps the promise of ExpertStage. *)
TokenOfRow(r) ==
  LET cs == CHOOSE d \in Substreams : first_row[d] <= r /\ r < first_row[d] + Len(arriving[d])
  IN  arriving[cs][r - first_row[cs] + 1]

Stage == INSTANCE ExpertStage WITH
  owed <- [r \in Rows |->
             {Share(e, n, <<r>>) : e \in {TokenOfRow(r)[k] : k \in K} \ {-1},
                                   n \in 0 .. NumPidN[pass][2] - 1}],
  added <- o,
  released <- y_done

ImplementsExpertStage == Stage!Spec

(* Every row is released in both passes: no tile is waited for in vain. *)
RowsReleased ==
  \A p \in Passes : (pass = p) ~> (pass = p /\ PassOver /\ y_done = Rows)
=============================================================================
