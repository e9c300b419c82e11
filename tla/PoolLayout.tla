----------------------------- MODULE PoolLayout ------------------------------
(***************************************************************************)
(* The layout of a rank's expert pool, as phase B of the metadata kernel   *)
(* and fill_tile_metadata_kernel compute it from the exchanged counts.     *)
(* Every expert owns whole tiles of tile_m slots, in expert order; within  *)
(* an expert the slots are dealt out in the order of the substreams        *)
(* cs = channel * num_ranks + source.                                      *)
(***************************************************************************)
EXTENDS ChannelOps, FiniteSetsExt

CONSTANTS
  NumSubstreams,           \* num_channels * num_ranks
  NumExperts,              \* local experts
  tile_m                   \* slots per tile

ASSUME LayoutAssumption ==
  /\ NumSubstreams \in Nat /\ NumExperts \in Nat \ {0} /\ tile_m \in Nat \ {0}

Substreams == 0 .. NumSubstreams - 1
Experts == 0 .. NumExperts - 1

(* seen[cs][e]: the (token, k) pairs of substream cs for expert e *)
ExpertFrequency(seen, e) == SumFunction([cs \in Substreams |-> seen[cs][e]])

(* expert_pool_block_offset[e], e in 0 .. NumExperts *)
BlockOffset(seen, e) ==
  SumFunction([d \in 0 .. e - 1 |-> CeilDiv(ExpertFrequency(seen, d), tile_m)])

TotalTiles(seen) == BlockOffset(seen, NumExperts)

BasePool(seen, cs, e) ==
  BlockOffset(seen, e) * tile_m + SumFunction([d \in 0 .. cs - 1 |-> seen[d][e]])

(* tile_id_to_expert: the first expert whose tiles end past the tile *)
TileExpert(seen, t) == Min({e \in Experts : t < BlockOffset(seen, e + 1)})

(* Faulty variant: padding counted as tokens to come. *)
ArrivalTargetPadded(seen, t) == tile_m

(* pool_arrival_target: a full tile, but for the expert's last one *)
ArrivalTarget(seen, t) ==
  LET e == TileExpert(seen, t)
      i == t - BlockOffset(seen, e)
  IN  IF t = BlockOffset(seen, e + 1) - 1 THEN ExpertFrequency(seen, e) - i * tile_m
                                          ELSE tile_m

(* The scheduler's warp ballot over the block offsets. *)
BallotExpert(offset, t) == Cardinality({e \in 0 .. NumExperts : offset[e] <= t}) - 1
=============================================================================
