----------------------------- MODULE BufferLayout ----------------------------
(***************************************************************************)
(* How the regions of a Buffer are sized and placed: the Config of the     *)
(* rings, the recommended configs, the bytes each ring region takes in a   *)
(* launch, the hints the allocation is made from, and the checks the host  *)
(* runs before a launch.  Sizes are bytes; h4 is a token's width in        *)
(* 16-byte units.                                                          *)
(***************************************************************************)
EXTENDS Integers

NvlPeers == 8                      \* NUM_MAX_NVL_PEERS
MaxTopKHint == 128                 \* kNumMaxTopK of the hints
MaxTopK == 32                      \* what the kernels accept
MaxLocalExperts == 64              \* NUM_MAX_LOCAL_EXPERTS
TopkIdxBytes == 8                  \* sizeof(topk_idx_t), TOPK_IDX_BITS = 64

CeilTo(a, b) == ((a + b - 1) \div b) * b
RdmaRanks(ranks) == IF ranks \div NvlPeers > 1 THEN ranks \div NvlPeers ELSE 1
Internode(ranks) == RdmaRanks(ranks) > 1

------------------------------------------------------------------------------
Config(sms, nvlSend, nvlRecv, rdmaSend, rdmaRecv) ==
  [num_sms |-> sms, nvl_send |-> nvlSend, nvl_recv |-> nvlRecv,
   rdma_send |-> rdmaSend, rdma_recv |-> CeilTo(rdmaRecv, rdmaSend)]

(* What the constructor of Config accepts. *)
ConfigLegal(c) == /\ c.num_sms >= 0
                  /\ 0 < c.nvl_send /\ c.nvl_send < c.nvl_recv
                  /\ 0 < c.rdma_send /\ 2 * c.rdma_send <= c.rdma_recv
Channels(c) == c.num_sms \div 2

AutoPick(ranks) == IF (ranks + 7) \div 8 <= 2 THEN 80 ELSE 64

(* The tuned chunk sizes, per number of ranks. *)
DispatchConfig(ranks, sms) ==
  LET chunk == CASE ranks = 2 -> <<24, 256, 6, 128>>
                 [] ranks \in {4, 8} -> <<6, 256, 6, 128>>
                 [] ranks = 16 -> <<36, 288, 20, 256>>
                 [] ranks \in {24, 48, 64} -> <<32, 288, 8, 128>>
                 [] ranks = 32 -> <<32, 288, 8, 256>>
                 [] ranks = 96 -> <<20, 480, 12, 128>>
                 [] ranks = 128 -> <<20, 560, 12, 128>>
                 [] ranks = 144 -> <<32, 720, 12, 128>>
                 [] ranks = 160 -> <<28, 720, 12, 128>>
  IN Config(sms, chunk[1], chunk[2], chunk[3], chunk[4])

CombineConfigRetuned(ranks, sms) ==      \* mutant: combine's NVL slots tuned on their own
  [DispatchConfig(ranks, sms) EXCEPT !.nvl_recv = @ \div 2]
CombineConfig(ranks, sms) ==
  LET chunk == CASE ranks = 2 -> <<10, 256, 6, 128>>
                 [] ranks = 4 -> <<9, 256, 6, 128>>
                 [] ranks = 8 -> <<4, 256, 6, 128>>
                 [] ranks = 16 -> <<1, 288, 12, 256>>
                 [] ranks \in {24, 48, 64} -> <<1, 288, 8, 128>>
                 [] ranks = 32 -> <<1, 288, 8, 256>>
                 [] ranks = 96 -> <<1, 480, 8, 128>>
                 [] ranks = 128 -> <<1, 560, 8, 128>>
                 [] ranks \in {144, 160} -> <<2, 720, 8, 128>>
  IN Config(sms, chunk[1], chunk[2], chunk[3], chunk[4])

------------------------------------------------------------------------------
(* One region each: ring slots with their per-slot payload, and cursors. *)
BytesPerToken(h4, idx, weights) == CeilTo(16 * h4 + 8 + 4 * idx + 4 * weights, 16)

IntranodeDispatchBytes(c, ranks, h4, topk) ==
  LET rings == Channels(c) * ranks
  IN CeilTo(ranks * ranks * 4 + 4 * rings * 8
              + rings * c.nvl_recv * (16 * h4 + 4 + topk * (TopkIdxBytes + 4)), 128)
IntranodeCombineBytes(c, ranks, h4, topk) ==
  LET rings == Channels(c) * ranks
  IN CeilTo(2 * rings * 8 + rings * c.nvl_recv * (16 * h4 + 4 + topk * 4), 128)

DispatchNvlBytes(c, ranks, h4, topk) ==
  NvlPeers * Channels(c)
    * (c.nvl_recv * BytesPerToken(h4, topk, topk) + 2 * RdmaRanks(ranks) * 8 + 2 * 8)
CombineNvlBytes(c, ranks, h4, topk) ==
  NvlPeers * Channels(c)
    * (c.nvl_recv * BytesPerToken(h4, 0, topk) + 2 * RdmaRanks(ranks) * 8)
MetadataNvlBytes(c, ranks, experts) ==
  4 * NvlPeers * (2 * experts + RdmaRanks(ranks) + RdmaRanks(ranks) * Channels(c) * experts)

DispatchRdmaBytes(c, ranks, h4, topk) ==
  2 * RdmaRanks(ranks) * Channels(c) * (c.rdma_recv * BytesPerToken(h4, topk, topk) + 8)
CombineRdmaBytes(c, ranks, h4, topk) ==
  2 * RdmaRanks(ranks) * Channels(c) * (c.rdma_recv * BytesPerToken(h4, 0, topk) + 8)
MetadataRdmaBytes(c, ranks, experts) ==
  2 * RdmaRanks(ranks) * 4
    * ((NvlPeers + experts * NvlPeers + 1) + Channels(c) * NvlPeers * experts)

(* Where the NVL ring regions of one launch lie: dispatch at 0, combine past
   the dispatch region of the config the combine launch itself was given. *)
DispatchEnd(c, ranks, h4, topk) ==
  IF Internode(ranks) THEN DispatchNvlBytes(c, ranks, h4, topk)
                      ELSE IntranodeDispatchBytes(c, ranks, h4, topk)
CombineStart(c, ranks, h4, topk) == DispatchEnd(c, ranks, h4, topk)
CombineEnd(c, ranks, h4, topk) ==
  CombineStart(c, ranks, h4, topk)
    + IF Internode(ranks) THEN CombineNvlBytes(c, ranks, h4, topk)
                          ELSE IntranodeCombineBytes(c, ranks, h4, topk)

------------------------------------------------------------------------------
(* The sizes a Buffer is allocated with, for any top-k and expert count. *)
NvlHint(c, ranks, h4) ==
  CeilTo(DispatchNvlBytes(c, ranks, h4, MaxTopKHint) + CombineNvlBytes(c, ranks, h4, MaxTopKHint)
           + IF ranks > NvlPeers THEN MetadataNvlBytes(c, ranks, MaxLocalExperts) ELSE 0, 128)
RdmaHint(c, ranks, h4) ==
  IF ranks <= NvlPeers THEN 0
  ELSE CeilTo(DispatchRdmaBytes(c, ranks, h4, MaxTopKHint)
                + CombineRdmaBytes(c, ranks, h4, MaxTopKHint), 128)

(* What the host asserts of the allocation before a launch.  Gradients are
   dispatched without a check of their own internode. *)
DispatchFits(c, ranks, h4, topk, experts, nvl, rdma) ==
  IF Internode(ranks)
  THEN /\ DispatchRdmaBytes(c, ranks, h4, topk) + CombineRdmaBytes(c, ranks, h4, topk)
            + MetadataRdmaBytes(c, ranks, experts) <= rdma
       /\ DispatchNvlBytes(c, ranks, h4, topk) + CombineNvlBytes(c, ranks, h4, topk)
            + MetadataNvlBytes(c, ranks, experts) <= nvl
  ELSE LET rings == Channels(c) * ranks
       IN /\ ranks * ranks * 4 + 4 * rings * 8 <= nvl
          /\ ranks * ranks * 4 + 4 * rings * 4
               + rings * c.nvl_recv * (16 * h4 + 4 + topk * (TopkIdxBytes + 4)) <= nvl
DispatchGradsFits(c, ranks, nvl) ==
  Internode(ranks) \/ ranks * ranks * 4 + 4 * Channels(c) * ranks * 8 <= nvl
CombineFits(c, ranks, h4, topk, nvl) ==
  Internode(ranks) \/ CombineEnd(c, ranks, h4, topk) <= nvl

==============================================================================
