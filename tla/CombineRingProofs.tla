-------------------------- MODULE CombineRingProofs --------------------------
(***************************************************************************)
(* Theorems about CombineRing for every schedule, routing, number of peers *)
(* and workers, ring and round size: its types, that a shipped row stays   *)
(* in its slot until it is reduced, and that the block that reduces        *)
(* implements CombineReduce.                                               *)
(***************************************************************************)
EXTENDS CombineRing, ChannelOpsProofs

(***************************************************************************)
(* The inductive invariant, in parts.  Tokens are counted per peer: Pos is *)
(* a token's position in the ring of peer s, Row its row on the peer.      *)
(***************************************************************************)
Pos(s, t) == SelectedIn(Mask(s), First, t)
Row(s, t) == SelectedIn(Mask(s), 0, t)
Held(s) == Mask(s) \cap ChannelTokens
Total(s) == SelectedIn(Mask(s), First, Last)
Shipped(s) == {t \in Held(s) : Row(s, t) < token_idx[s] \/ Row(s, t) - token_idx[s] \in filled[s]}

OfWorker(w, t) == (t - First) % NumWorkers = w - 1

(* Worker w is through with its tokens among the first h packets of peer s. *)
Passed(w, s, h) ==
  \A t \in Held(s) : OfWorker(w, t) /\ Pos(s, t) < h => t < wtoken[w]

NothingBeforeFirst == launch = 0 => Idle

(* Words of a launch that has begun; those of this launch show the cursors. *)
WordsTruthful ==
  \A s \in Peers :
    /\ \A g \in Launches : channel_head_idx[s].seq = NvlSeq(g) => g <= launch
    /\ \A g \in Launches : channel_tail_idx[s].seq = NvlSeq(g) => g <= launch
    /\ launch > 0 => /\ NvlCursor(channel_head_idx[s], launch) = last_head[s]
                     /\ NvlCursor(channel_tail_idx[s], launch) <= current_tail[s]
                     /\ smem_tail[s] <= current_tail[s]

(* The heads a layer's launches go by are those of its routing. *)
HeadsOfRouting ==
  \A g \in 1 .. launch : \A s \in Peers :
    send_head[Schedule[g].layer][s] = EncodedHeads(is_token_in_rank[Schedule[g].layer][s])

(* The sender of a peer stands in its own rows, within the ring past the head
   it may read, and has shipped none that was not released. *)
SenderPosition ==
  launch > 0 => \A s \in Peers :
    /\ token_idx[s] = ChannelOffset(s) + current_tail[s]
    /\ current_tail[s] + round[s] <= Total(s)
    /\ current_tail[s] + round[s] - last_head[s] <= num_recv_buffer_tokens
    /\ spc[s] = "wait" => current_tail[s] < Total(s)
    /\ spc[s] # "fill" => round[s] = 0 /\ filled[s] = {}
    /\ \A t \in Shipped(s) : Row(s, t) \in y_done[s]

(* A worker has passed every packet below the head it shows. *)
WorkerPosition ==
  launch > 0 => \A w \in Workers :
    /\ wtoken[w] >= First /\ OfWorker(w, wtoken[w])
    /\ wpc[w] \in {"wait", "head"} <=> wtoken[w] < Last
    /\ warp_retired[w] => wtoken[w] >= Last
    /\ \A s \in Peers : Passed(w, s, warp_head[w][s])

(* The minimum is one below which every worker scanned so far has passed,
   and the head of the ring one below which all have. *)
ScanProgress ==
  launch > 0 =>
    /\ upc # "scan" => scan = 1
    /\ \A s \in Peers :
         /\ upc = "tail" => min_head[s] = IntMax
         /\ upc = "scan" => \A w \in 1 .. scan - 1 : Passed(w, s, min_head[s])
         /\ upc = "head" => \A w \in Workers : Passed(w, s, min_head[s])
         /\ \A w \in Workers : Passed(w, s, last_head[s])

(* Written are the tokens the workers have left behind or just reduced. *)
WrittenSoFar ==
  /\ \A g \in Launches : g > launch => written[g] = {}
  /\ launch > 0 => \A t \in ChannelTokens :
       t \in written[launch] <=>
         \E w \in Workers : OfWorker(w, t) /\ (\/ t < wtoken[w]
                                               \/ t = wtoken[w] /\ wpc[w] = "head")

IInv == /\ TypeOK /\ NothingBeforeFirst /\ WordsTruthful /\ HeadsOfRouting /\ SenderPosition
        /\ WorkerPosition /\ ScanProgress /\ WrittenSoFar /\ PendingPacketsIntact
-----------------------------------------------------------------------------
(* What the assumptions say of the channel and the ring. *)
LEMMA ConstantFacts ==
  /\ First \in Nat /\ Last \in Nat /\ First <= Last /\ Last <= NumTokens /\ NumTokens \in Nat
  /\ Tokens \subseteq Nat /\ ChannelTokens \subseteq Tokens
  /\ \A t \in ChannelTokens : t \in Nat /\ First <= t /\ t < Last
  /\ num_recv_buffer_tokens \in Nat \ {0} /\ num_max_send_tokens \in Nat \ {0}
  /\ num_max_send_tokens <= num_recv_buffer_tokens
  /\ NumWorkers \in Nat \ {0} /\ Workers \subseteq Nat \ {0}
  /\ NumLaunches \in Nat /\ IntMax \in Nat
  /\ Last = IF Channel = NumChannels - 1 THEN NumTokens
             ELSE ChannelStart(NumTokens, NumChannels, Channel + 1)
<1>1. /\ NumTokens \in Nat /\ First \in 0 .. NumTokens /\ Last \in First .. NumTokens
  BY TokenAssumption, ChannelRange DEF First, Last
<1>2. Last = IF Channel = NumChannels - 1 THEN NumTokens
             ELSE ChannelStart(NumTokens, NumChannels, Channel + 1)
  BY TokenAssumption, ChannelNext DEF Last
<1>3. IntMax \in Nat
  <2>1. 2^30 = 1073741824
    OBVIOUS
  <2> QED BY <2>1 DEF IntMax
<1> QED BY <1>1, <1>2, <1>3, TokenAssumption, CapacityAssumption, ScheduleAssumption
        DEF Tokens, ChannelTokens, Workers

LEMMA StampFacts ==
  /\ \A g \in Launches : NvlSeq(g) \in Nat \ {0} /\ Schedule[g].layer \in Layers
  /\ \A g, h \in Launches : NvlSeq(g) = NvlSeq(h) => g = h
<1>1. ASSUME NEW g \in Launches
      PROVE  /\ Schedule[g].layer \in Layers /\ Schedule[g].layer \in Nat \ {0}
             /\ Schedule[g].phase \in {0, 1}
  <2>1. Schedule[g].layer \in Layers /\ Schedule[g].phase \in {0, 1}
    BY ScheduleAssumption
  <2> QED BY <2>1, ScheduleAssumption
<1>2. ASSUME NEW g \in Launches, NEW h \in Launches, NvlSeq(g) = NvlSeq(h)
      PROVE  g = h
  <2>1. Schedule[g].layer = Schedule[h].layer /\ Schedule[g].phase = Schedule[h].phase
    BY <1>1, <1>2 DEF NvlSeq
  <2>2. Schedule[g] = Schedule[h]
    <3>1. /\ Schedule[g] \in [layer : Layers, phase : {0, 1}]
          /\ Schedule[h] \in [layer : Layers, phase : {0, 1}]
      BY ScheduleAssumption
    <3> QED BY <2>1, <3>1
  <2> QED BY <2>2, ScheduleAssumption
<1> QED BY <1>1, <1>2 DEF NvlSeq

(* The rows of one peer: its channel's rows begin at ChannelOffset and are
   Total in number. *)
RoutingTyped == launch \in Launches /\ is_token_in_rank \in [Layers -> [Peers -> SUBSET Tokens]]

LEMMA RoutingFacts ==
  RoutingTyped =>
    \A s \in Peers :
      /\ Mask(s) \in SUBSET Tokens /\ Mask(s) \in SUBSET Nat
      /\ ChannelOffset(s) \in Nat /\ Total(s) \in Nat
      /\ RowsEnd(s) = ChannelOffset(s) + Total(s)
      /\ RowsEnd(s) <= NumTokens
<1> SUFFICES ASSUME RoutingTyped, NEW s \in Peers
             PROVE  /\ Mask(s) \in SUBSET Tokens /\ Mask(s) \in SUBSET Nat
                    /\ ChannelOffset(s) \in Nat /\ Total(s) \in Nat
                    /\ RowsEnd(s) = ChannelOffset(s) + Total(s)
                    /\ RowsEnd(s) <= NumTokens
  OBVIOUS
<1>2. Mask(s) \in SUBSET Tokens /\ Mask(s) \in SUBSET Nat
  <2>1. Schedule[launch].layer \in Layers
    BY StampFacts DEF RoutingTyped
  <2>2. is_token_in_rank[Schedule[launch].layer] \in [Peers -> SUBSET Tokens]
    BY <2>1 DEF RoutingTyped
  <2> QED BY <2>2, ConstantFacts DEF Mask
<1> DEFINE mask == Mask(s)
<1> HIDE DEF mask
<1>3. mask \in SUBSET Nat /\ mask \in SUBSET Tokens
  BY <1>2 DEF mask
<1>4. 0 <= First /\ 0 <= 0
  BY ConstantFacts
<1>5. /\ SelectedIn(mask, 0, First) \in Nat /\ SelectedIn(mask, First, Last) \in Nat
      /\ SelectedIn(mask, 0, 0) = 0
  BY <1>3, <1>4, ConstantFacts, SelectedType
<1>6. SelectedIn(mask, 0, Last) = SelectedIn(mask, 0, First) + SelectedIn(mask, First, Last)
  BY <1>3, <1>4, ConstantFacts, SelectedSplit
<1>7. SelectedIn(mask, 0, Last) <= Last
  <2>1. SelectedIn(mask, 0, Last) - SelectedIn(mask, 0, 0) <= Last - 0
    BY <1>3, <1>4, ConstantFacts, SelectedMonotone
  <2> QED BY <1>5, <1>6, <2>1, ConstantFacts
<1>8. RowsEnd(s) = SelectedIn(mask, 0, Last)
  <2>1. CASE Channel = NumChannels - 1
    <3>1. {t \in mask : 0 <= t /\ t < NumTokens} = mask
      <4>1. \A t \in mask : 0 <= t /\ t < NumTokens
        BY <1>3, ConstantFacts DEF Tokens
      <4> QED BY <4>1
    <3> QED BY <2>1, <3>1, ConstantFacts DEF RowsEnd, SelectedIn, mask
  <2>2. CASE Channel # NumChannels - 1
    BY <2>2, ConstantFacts DEF RowsEnd, mask
  <2> QED BY <2>1, <2>2
<1> QED BY <1>2, <1>5, <1>6, <1>7, <1>8, ConstantFacts DEF ChannelOffset, Total, mask

LEMMA MaskFacts ==
  ASSUME TypeOK, launch > 0, NEW s \in Peers
  PROVE  /\ launch \in Launches /\ launch \in Nat
         /\ Mask(s) \in SUBSET Tokens /\ Mask(s) \in SUBSET Nat
         /\ ChannelOffset(s) \in Nat /\ Total(s) \in Nat
         /\ RowsEnd(s) = ChannelOffset(s) + Total(s)
         /\ RowsEnd(s) <= NumTokens
<1>1. launch \in Launches /\ launch \in Nat
  BY ConstantFacts DEF TypeOK, Launches
<1>2. RoutingTyped
  BY <1>1 DEF RoutingTyped, TypeOK
<1> QED BY <1>1, <1>2, RoutingFacts

(* A token of the channel on peer s: its row follows its ring position. *)
LEMMA HeldFacts ==
  ASSUME TypeOK, launch > 0, NEW s \in Peers, NEW t \in Held(s)
  PROVE  /\ t \in Nat /\ t \in ChannelTokens /\ t \in Mask(s) /\ First <= t /\ t < Last
         /\ Pos(s, t) \in Nat /\ Pos(s, t) < Total(s)
         /\ Row(s, t) = ChannelOffset(s) + Pos(s, t)
<1> DEFINE mask == Mask(s)
<1>1. mask \in SUBSET Nat
  BY MaskFacts
<1>2. t \in Nat /\ t \in ChannelTokens /\ t \in mask /\ First <= t /\ t < Last
  BY ConstantFacts DEF Held
<1> HIDE DEF mask
<1>3. /\ SelectedIn(mask, First, t) \in Nat
      /\ SelectedIn(mask, First, t) < SelectedIn(mask, First, Last)
  <2>1. First \in Nat /\ Last \in Nat /\ First <= t /\ t <= Last /\ t < Last
    BY <1>2, ConstantFacts
  <2>2. SelectedIn(mask, First, t) \in Nat
    BY <1>1, <1>2, <2>1, SelectedType
  <2>3. SelectedIn(mask, First, t) < SelectedIn(mask, First, Last)
    BY <1>1, <1>2, <2>1, SelectedMonotone
  <2> QED BY <2>2, <2>3
<1>4. SelectedIn(mask, 0, t) = SelectedIn(mask, 0, First) + SelectedIn(mask, First, t)
  BY <1>1, <1>2, ConstantFacts, SelectedSplit
<1> QED BY <1>2, <1>3, <1>4 DEF mask, Pos, Row, Total, ChannelOffset

(* Ring positions follow the order of the tokens. *)
LEMMA PosOrder ==
  ASSUME TypeOK, launch > 0, NEW s \in Peers, NEW t \in Held(s), NEW u \in Held(s)
  PROVE  /\ Pos(s, t) = Pos(s, u) => t = u
         /\ Pos(s, t) < Pos(s, u) => t < u
<1> DEFINE mask == Mask(s)
<1>1. mask \in SUBSET Nat /\ t \in mask /\ u \in mask /\ First <= t /\ First <= u
  BY MaskFacts, HeldFacts
<1> HIDE DEF mask
<1>2. /\ SelectedIn(mask, First, t) = SelectedIn(mask, First, u) => t = u
      /\ SelectedIn(mask, First, t) < SelectedIn(mask, First, u) => t < u
  BY <1>1, ConstantFacts, SelectedInjective
<1> QED BY <1>2 DEF Pos, mask

(* Every row of the channel belongs to one token, which RowToken names. *)
LEMMA RowTokenFacts ==
  ASSUME TypeOK, launch > 0, NEW s \in Peers, NEW p \in Nat, p < Total(s)
  PROVE  /\ RowToken(s, ChannelOffset(s) + p) \in Held(s)
         /\ Pos(s, RowToken(s, ChannelOffset(s) + p)) = p
<1> DEFINE mask == Mask(s)
           row == ChannelOffset(s) + p
<1>1. mask \in SUBSET Nat
  BY MaskFacts
<1>2. PICK t \in mask : First <= t /\ t < Last /\ SelectedIn(mask, First, t) = p
  <2> HIDE DEF mask
  <2>1. p < SelectedIn(mask, First, Last)
    BY DEF Total, mask
  <2> QED BY <1>1, <2>1, ConstantFacts, SelectedAt
<1>3. t \in Held(s) /\ Pos(s, t) = p /\ t \in Nat
  BY <1>1, <1>2, ConstantFacts DEF Held, Pos, ChannelTokens
<1>4. SelectedIn(Mask(s), 0, t) = row
  BY <1>3, HeldFacts DEF Row
<1>5. \A u \in Mask(s) : SelectedIn(Mask(s), 0, u) = row => u = t
  <2> SUFFICES ASSUME NEW u \in Mask(s), SelectedIn(Mask(s), 0, u) = row PROVE u = t
    OBVIOUS
  <2>1. u \in mask /\ t \in mask /\ 0 <= u /\ 0 <= t
    BY <1>1, <1>2
  <2> HIDE DEF mask
  <2>2. SelectedIn(mask, 0, u) = SelectedIn(mask, 0, t) => u = t
    BY <1>1, <2>1, SelectedInjective
  <2> QED BY <1>4, <2>2 DEF mask
<1>6. RowToken(s, row) = t
  <2> HIDE DEF row
  <2> QED BY <1>2, <1>4, <1>5 DEF RowToken, mask
<1> QED BY <1>3, <1>6

-----------------------------------------------------------------------------
(* Steps that leave a part of the invariant's state alone. *)
LEMMA FrameWords ==
  WordsTruthful
    /\ UNCHANGED <<channel_head_idx, channel_tail_idx, launch, last_head, current_tail,
                   smem_tail>>
    => WordsTruthful'
  BY DEF WordsTruthful

LEMMA FrameSender ==
  SenderPosition
    /\ UNCHANGED <<launch, is_token_in_rank, senderVars, last_head, y_done>>
    => SenderPosition'
  BY DEF SenderPosition, senderVars, ChannelOffset, Total, Shipped, Held, Row, Mask

LEMMA FrameWorker ==
  WorkerPosition
    /\ UNCHANGED <<launch, is_token_in_rank, workerVars, warp_retired, warp_head>>
    => WorkerPosition'
  BY DEF WorkerPosition, workerVars, Passed, Held, Pos, Mask

LEMMA FrameScan ==
  ScanProgress /\ UNCHANGED <<launch, is_token_in_rank, updaterVars, wtoken>> => ScanProgress'
  BY DEF ScanProgress, updaterVars, Passed, Held, Pos, Mask

LEMMA FrameWritten ==
  WrittenSoFar /\ UNCHANGED <<launch, written, workerVars>> => WrittenSoFar'
  BY DEF WrittenSoFar, workerVars

LEMMA FramePending ==
  PendingPacketsIntact
    /\ UNCHANGED <<launch, is_token_in_rank, slots, token_idx, filled, wtoken>>
    => PendingPacketsIntact'
  BY DEF PendingPacketsIntact, Consumed, Mask

(* What PendingPacketsIntact says of one shipped token. *)
InPlace(s, t) ==
  slots[s][Pos(s, t) % num_recv_buffer_tokens]
    = [launch |-> launch, rank |-> s, token |-> t, finished |-> TRUE]

LEMMA PendingShape ==
  PendingPacketsIntact <=>
    (launch > 0 => \A s \in Peers : \A t \in Shipped(s) : Consumed(t) \/ InPlace(s, t))
  BY DEF PendingPacketsIntact, Shipped, Held, Row, Pos, InPlace

LEMMA PendingShapeNext ==
  PendingPacketsIntact' <=>
    (launch' > 0 => \A s \in Peers : \A t \in Shipped(s)' : Consumed(t)' \/ InPlace(s, t)')
  BY DEF PendingPacketsIntact, Shipped, Held, Row, Pos, InPlace

(* Somebody works only in a launch. *)
LEMMA ActiveFacts ==
  ASSUME IInv,
         \/ \E s \in Peers : spc[s] # "idle"
         \/ upc # "idle"
         \/ \E w \in Workers : wpc[w] # "idle"
  PROVE  launch > 0 /\ launch \in Launches /\ launch \in Nat
<1>1. launch \in Nat /\ launch <= NumLaunches
  BY ConstantFacts DEF IInv, TypeOK
<1>2. launch # 0
  BY DEF IInv, NothingBeforeFirst, Idle
<1> QED BY <1>1, <1>2 DEF Launches

(* Where the sender of one peer stands, with the types that go with it. *)
LEMMA SenderFacts ==
  ASSUME IInv, launch > 0, NEW s \in Peers
  PROVE  /\ Total(s) \in Nat /\ ChannelOffset(s) \in Nat
         /\ current_tail[s] \in Nat /\ round[s] \in Nat /\ last_head[s] \in Nat
         /\ RowsEnd(s) = ChannelOffset(s) + Total(s) /\ RowsEnd(s) <= NumTokens
         /\ token_idx[s] = ChannelOffset(s) + current_tail[s]
         /\ current_tail[s] + round[s] <= Total(s)
         /\ current_tail[s] + round[s] - last_head[s] <= num_recv_buffer_tokens
         /\ spc[s] = "wait" => current_tail[s] < Total(s)
         /\ spc[s] # "fill" => round[s] = 0 /\ filled[s] = {}
<1>1. TypeOK
  BY DEF IInv
<1>2. /\ Total(s) \in Nat /\ ChannelOffset(s) \in Nat /\ RowsEnd(s) <= NumTokens
      /\ RowsEnd(s) = ChannelOffset(s) + Total(s)
  BY <1>1, MaskFacts
<1>3. current_tail[s] \in Nat /\ round[s] \in Nat /\ last_head[s] \in Nat
  <2>1. current_tail[s] \in 0 .. NumTokens /\ round[s] \in 0 .. num_max_send_tokens
    BY <1>1 DEF TypeOK
  <2> QED BY <1>1, <2>1, ConstantFacts DEF TypeOK
<1> QED BY <1>2, <1>3 DEF IInv, SenderPosition

-----------------------------------------------------------------------------
(* One lemma per action: it preserves the inductive invariant. *)
LEMMA KernelReleasePreserves ==
  ASSUME IInv, NEW s \in Peers, NEW row, KernelRelease(s, row)
  PROVE  IInv'
<1> USE DEF KernelRelease
<1>0. TypeOK /\ launch > 0
  BY DEF IInv
<1>1. row \in Tokens
  <2>1. row \in ChannelOffset(s) .. RowsEnd(s) - 1 /\ ChannelOffset(s) \in Nat
        /\ RowsEnd(s) = ChannelOffset(s) + Total(s) /\ Total(s) \in Nat
        /\ RowsEnd(s) <= NumTokens
    BY <1>0, MaskFacts
  <2> QED BY <2>1, ConstantFacts DEF Tokens
<1>2. TypeOK'
  <2>1. y_done' \in [Peers -> SUBSET Tokens]
    BY <1>0, <1>1 DEF TypeOK
  <2> QED BY <1>0, <2>1 DEF TypeOK, slab, routingVars, senderVars, smem, updaterVars,
                            workerVars, history
<1>3. NothingBeforeFirst'
  BY DEF IInv, NothingBeforeFirst, Idle, routingVars, senderVars, updaterVars, workerVars
<1>4. WordsTruthful'
  BY FrameWords DEF IInv, slab, routingVars, senderVars, smem, updaterVars
<1>5. HeadsOfRouting'
  BY DEF IInv, HeadsOfRouting, routingVars
<1>6. SenderPosition'
  <2>1. \A q \in Peers : y_done[q] \subseteq y_done'[q]
    BY <1>0 DEF TypeOK
  <2>2. \A q \in Peers : /\ Shipped(q)' = Shipped(q) /\ Total(q)' = Total(q)
                         /\ ChannelOffset(q)' = ChannelOffset(q)
                         /\ \A t : Row(q, t)' = Row(q, t)
    BY DEF Shipped, Total, ChannelOffset, Held, Row, Mask, routingVars, senderVars
  <2> QED BY <2>1, <2>2 DEF IInv, SenderPosition, senderVars, updaterVars, routingVars
<1>7. WorkerPosition'
  BY FrameWorker DEF IInv, routingVars, smem
<1>8. ScanProgress'
  BY FrameScan DEF IInv, routingVars, workerVars
<1>9. WrittenSoFar'
  BY FrameWritten DEF IInv, routingVars, history
<1>10. PendingPacketsIntact'
  BY FramePending DEF IInv, routingVars, slab, senderVars, workerVars
<1> QED BY <1>2, <1>3, <1>4, <1>5, <1>6, <1>7, <1>8, <1>9, <1>10 DEF IInv

(* The space test leaves room for the whole round past the head it reads. *)
LEMMA WaitForQueueSpacePreserves ==
  ASSUME IInv, NEW s \in Peers, WaitForQueueSpace(s)
  PROVE  IInv'
<1> USE DEF WaitForQueueSpace
<1> DEFINE n == Smaller(num_max_send_tokens, RowsEnd(s) - token_idx[s])
<1>0. TypeOK /\ launch > 0 /\ launch \in Launches
  BY ActiveFacts DEF IInv
<1>1. /\ Total(s) \in Nat /\ ChannelOffset(s) \in Nat /\ current_tail[s] \in Nat
      /\ RowsEnd(s) = ChannelOffset(s) + Total(s)
      /\ token_idx[s] = ChannelOffset(s) + current_tail[s]
      /\ current_tail[s] < Total(s)
      /\ round[s] = 0 /\ filled[s] = {}
  BY <1>0, SenderFacts
<1>2. n \in 0 .. num_max_send_tokens /\ current_tail[s] + n <= Total(s)
  BY <1>1, ConstantFacts DEF Smaller
<1>3. current_tail[s] + n - last_head[s] <= num_recv_buffer_tokens
  <2>1. NvlCursor(channel_head_idx[s], launch) = last_head[s]
    BY <1>0 DEF IInv, WordsTruthful
  <2>2. num_recv_buffer_tokens - (current_tail[s] - last_head[s]) >= n
    BY <2>1
  <2>3. last_head[s] \in Nat
    BY <1>0 DEF TypeOK
  <2> HIDE DEF n
  <2> QED BY <1>1, <1>2, <2>2, <2>3, ConstantFacts
<1>4. /\ round' = [round EXCEPT ![s] = n] /\ filled' = [filled EXCEPT ![s] = {}]
      /\ spc' = [spc EXCEPT ![s] = "fill"]
  OBVIOUS
<1> HIDE DEF n
<1>5. TypeOK'
  <2>1. round' \in [Peers -> 0 .. num_max_send_tokens]
        /\ spc' \in [Peers -> {"idle", "wait", "fill"}]
        /\ filled' \in [Peers -> SUBSET (0 .. num_max_send_tokens - 1)]
    BY <1>0, <1>2, <1>4 DEF TypeOK
  <2>2. \A q \in Peers : filled'[q] \subseteq 0 .. round'[q] - 1
    <3> SUFFICES ASSUME NEW q \in Peers PROVE filled'[q] \subseteq 0 .. round'[q] - 1
      OBVIOUS
    <3>1. CASE q = s
      BY <1>1, <1>4, <3>1
    <3>2. CASE q # s
      <4>1. filled'[q] = filled[q] /\ round'[q] = round[q]
        BY <1>0, <1>4, <3>2 DEF TypeOK
      <4> QED BY <1>0, <4>1 DEF TypeOK
    <3> QED BY <3>1, <3>2
  <2> QED BY <1>0, <2>1, <2>2 DEF TypeOK, slab, routingVars, smem, updaterVars, workerVars,
                                  history
<1>6. NothingBeforeFirst'
  BY <1>0 DEF NothingBeforeFirst, TypeOK, routingVars
<1>7. filled' = filled
  BY <1>0, <1>1, <1>4 DEF TypeOK
<1>8. WordsTruthful'
  BY FrameWords DEF IInv, slab, routingVars, smem, updaterVars
<1>9. HeadsOfRouting'
  BY DEF IInv, HeadsOfRouting, routingVars
<1>10. SenderPosition'
  <2>1. \A q \in Peers : /\ Shipped(q)' = Shipped(q) /\ Total(q)' = Total(q)
                         /\ ChannelOffset(q)' = ChannelOffset(q)
                         /\ \A t : Row(q, t)' = Row(q, t)
    BY <1>7 DEF Shipped, Total, ChannelOffset, Held, Row, Mask, routingVars
  <2>2. round'[s] = n /\ spc'[s] = "fill"
        /\ \A q \in Peers : q # s => round'[q] = round[q] /\ spc'[q] = spc[q]
    BY <1>0, <1>4 DEF TypeOK
  <2> QED BY <1>0, <1>1, <1>2, <1>3, <1>7, <2>1, <2>2 DEF IInv, SenderPosition, updaterVars, routingVars
<1>11. WorkerPosition'
  BY FrameWorker DEF IInv, routingVars, smem
<1>12. ScanProgress'
  BY FrameScan DEF IInv, routingVars, workerVars
<1>13. WrittenSoFar'
  BY FrameWritten DEF IInv, routingVars, history
<1>14. PendingPacketsIntact'
  BY <1>7, FramePending DEF IInv, routingVars, slab, workerVars
<1> QED BY <1>5, <1>6, <1>8, <1>9, <1>10, <1>11, <1>12, <1>13, <1>14 DEF IInv

(* The slot that is filled held no row that still waits to be reduced. *)
LEMMA FillSlotPreserves ==
  ASSUME IInv, NEW s \in Peers, NEW i, FillSlot(s, i)
  PROVE  IInv'
<1> USE DEF FillSlot
<1> DEFINE row == token_idx[s] + i
           new == RowToken(s, row)
           at == (current_tail[s] + i) % num_recv_buffer_tokens
           packet == [launch |-> launch, rank |-> s, token |-> new, finished |-> TRUE]
<1>0. TypeOK /\ launch > 0 /\ launch \in Launches
  BY ActiveFacts DEF IInv
<1>1. /\ Total(s) \in Nat /\ ChannelOffset(s) \in Nat /\ round[s] \in Nat
      /\ current_tail[s] \in Nat /\ last_head[s] \in Nat
      /\ token_idx[s] = ChannelOffset(s) + current_tail[s]
      /\ current_tail[s] + round[s] <= Total(s)
      /\ current_tail[s] + round[s] - last_head[s] <= num_recv_buffer_tokens
  BY <1>0, SenderFacts
<1>2. i \in Nat /\ i < round[s]
  BY <1>1
<1>3. /\ new \in Held(s) /\ Pos(s, new) = current_tail[s] + i
  <2>1. current_tail[s] + i \in Nat /\ current_tail[s] + i < Total(s)
        /\ row = ChannelOffset(s) + (current_tail[s] + i)
    BY <1>1, <1>2
  <2> QED BY <1>0, <2>1, RowTokenFacts
<1>4. Row(s, new) = row /\ new \in Tokens
  <2>1. Row(s, new) = ChannelOffset(s) + Pos(s, new) /\ new \in ChannelTokens
    BY <1>0, <1>3, HeldFacts
  <2> QED BY <1>1, <1>2, <1>3, <2>1, ConstantFacts
<1>5. row \in y_done[s] /\ slots' = [slots EXCEPT ![s][at] = packet]
      /\ filled' = [filled EXCEPT ![s] = @ \cup {i}]
  OBVIOUS
<1>6. at \in 0 .. num_recv_buffer_tokens - 1
  BY <1>1, <1>2, ConstantFacts
<1> HIDE DEF new, at, row
<1>7. TypeOK'
  <2>1. packet \in Packet
    BY <1>0, <1>4 DEF Packet
  <2> HIDE DEF packet
  <2>2. slots' \in [Peers -> [0 .. num_recv_buffer_tokens - 1 -> Packet \cup {Empty}]]
    <3> DEFINE ring == [slots[s] EXCEPT ![at] = packet]
    <3>1. ring \in [0 .. num_recv_buffer_tokens - 1 -> Packet \cup {Empty}]
      BY <1>0, <2>1 DEF TypeOK
    <3>2. slots' = [slots EXCEPT ![s] = ring]
      BY <1>5
    <3> HIDE DEF ring
    <3> QED BY <1>0, <3>1, <3>2 DEF TypeOK
  <2>3. filled' \in [Peers -> SUBSET (0 .. num_max_send_tokens - 1)]
        /\ \A q \in Peers : filled'[q] \subseteq 0 .. round'[q] - 1
    <3>1. round[s] <= num_max_send_tokens
      <4>1. round[s] \in 0 .. num_max_send_tokens
        BY <1>0 DEF TypeOK
      <4> QED BY <4>1, ConstantFacts
    <3>2. i \in 0 .. num_max_send_tokens - 1
      BY <1>1, <1>2, <3>1, ConstantFacts
    <3>3. filled' \in [Peers -> SUBSET (0 .. num_max_send_tokens - 1)]
      BY <1>0, <1>5, <3>2 DEF TypeOK
    <3>4. ASSUME NEW q \in Peers PROVE filled'[q] \subseteq 0 .. round[q] - 1
      <4>1. filled[q] \subseteq 0 .. round[q] - 1
        BY <1>0 DEF TypeOK
      <4>2. filled'[q] = IF q = s THEN filled[q] \cup {i} ELSE filled[q]
        BY <1>0, <1>5 DEF TypeOK
      <4> QED BY <1>1, <1>2, <4>1, <4>2
    <3> QED BY <3>3, <3>4
  <2> QED BY <1>0, <2>2, <2>3 DEF TypeOK, routingVars, smem, updaterVars, workerVars, history
<1>8. NothingBeforeFirst'
  BY <1>0 DEF NothingBeforeFirst, TypeOK, routingVars
<1>9. WordsTruthful'
  BY FrameWords DEF IInv, routingVars, smem, updaterVars
<1>10. HeadsOfRouting'
  BY DEF IInv, HeadsOfRouting, routingVars
<1>11. ASSUME NEW q \in Peers
       PROVE  /\ Total(q)' = Total(q) /\ ChannelOffset(q)' = ChannelOffset(q)
              /\ \A t : Row(q, t)' = Row(q, t) /\ Pos(q, t)' = Pos(q, t)
              /\ Held(q)' = Held(q)
              /\ Shipped(q)' = IF q = s THEN Shipped(q) \cup {new} ELSE Shipped(q)
  <2>1. /\ Total(q)' = Total(q) /\ ChannelOffset(q)' = ChannelOffset(q)
        /\ \A t : Row(q, t)' = Row(q, t) /\ Pos(q, t)' = Pos(q, t)
        /\ Held(q)' = Held(q)
    BY DEF Total, ChannelOffset, Held, Row, Pos, Mask, routingVars
  <2>2. CASE q # s
    <3>1. filled'[q] = filled[q] /\ token_idx'[q] = token_idx[q]
      BY <1>0, <1>5, <2>2 DEF TypeOK
    <3> QED BY <2>1, <2>2, <3>1 DEF Shipped
  <2>3. CASE q = s
    <3>1. filled'[s] = filled[s] \cup {i} /\ token_idx'[s] = token_idx[s]
      BY <1>0, <1>5 DEF TypeOK
    <3>2. \A t \in Held(s) : Row(s, t) - token_idx[s] = i <=> t = new
      <4> SUFFICES ASSUME NEW t \in Held(s) PROVE Row(s, t) - token_idx[s] = i <=> t = new
        OBVIOUS
      <4>1. Row(s, t) = ChannelOffset(s) + Pos(s, t) /\ Pos(s, t) \in Nat
            /\ (Pos(s, t) = Pos(s, new) => t = new)
        BY <1>0, <1>3, HeldFacts, PosOrder
      <4> QED BY <1>1, <1>2, <1>3, <4>1
    <3>3. Shipped(s)' = {t \in Held(s) : \/ Row(s, t) < token_idx[s]
                                        \/ Row(s, t) - token_idx[s] \in filled[s] \cup {i}}
      BY <2>1, <2>3, <3>1 DEF Shipped
    <3> QED BY <1>3, <2>1, <2>3, <3>2, <3>3 DEF Shipped
  <2> QED BY <2>1, <2>2, <2>3
<1>12. SenderPosition'
  <2>1. ASSUME NEW q \in Peers, NEW t \in Shipped(q)' PROVE Row(q, t)' \in y_done'[q]
    <3>1. CASE t \in Shipped(q)
      BY <1>0, <1>11, <3>1 DEF IInv, SenderPosition
    <3>2. CASE t \notin Shipped(q)
      BY <1>4, <1>5, <1>11, <2>1, <3>2
    <3> QED BY <3>1, <3>2
  <2>2. \A q \in Peers : spc[q] # "fill" => filled'[q] = filled[q]
    BY <1>0, <1>5 DEF TypeOK
  <2> QED BY <1>0, <1>11, <2>1, <2>2 DEF IInv, SenderPosition, updaterVars, routingVars
<1>13. WorkerPosition'
  BY FrameWorker DEF IInv, routingVars, smem
<1>14. ScanProgress'
  BY FrameScan DEF IInv, routingVars, workerVars
<1>15. WrittenSoFar'
  BY FrameWritten DEF IInv, routingVars, history
<1>16. PendingPacketsIntact'
  <2> SUFFICES ASSUME NEW q \in Peers, NEW t \in Shipped(q)', ~Consumed(t)'
               PROVE  InPlace(q, t)'
    BY PendingShapeNext
  <2>1. Consumed(t)' = Consumed(t)
    BY DEF Consumed, workerVars
  <2>2. CASE q # s
    <3>1. slots'[q] = slots[q]
      BY <1>0, <1>5, <2>2 DEF TypeOK
    <3>2. InPlace(q, t)
      BY <1>0, <1>11, <2>1, <2>2, PendingShape DEF IInv
    <3> QED BY <1>11, <3>1, <3>2 DEF InPlace, routingVars
  <2>3. CASE q = s /\ t = new
    <3>1. slots'[s][at] = packet
      <4>1. /\ slots \in [Peers -> [0 .. num_recv_buffer_tokens - 1 -> Packet \cup {Empty}]]
            /\ slots[s] \in [0 .. num_recv_buffer_tokens - 1 -> Packet \cup {Empty}]
        BY <1>0 DEF TypeOK
      <4> HIDE DEF packet
      <4> QED BY <1>5, <1>6, <4>1
    <3> QED BY <1>3, <1>11, <2>3, <3>1 DEF InPlace, routingVars, at
  <2>4. CASE q = s /\ t # new
    <3>1. t \in Shipped(s) /\ t \in Held(s)
      BY <1>11, <2>4 DEF Shipped
    <3>2. InPlace(s, t)
      BY <1>0, <2>1, <2>4, <3>1, PendingShape DEF IInv
    <3>3. /\ Pos(s, t) \in Nat /\ Pos(s, t) # Pos(s, new) /\ Pos(s, t) < current_tail[s] + round[s]
      <4>1. /\ Pos(s, t) \in Nat /\ (Pos(s, t) = Pos(s, new) => t = new)
            /\ Row(s, t) = ChannelOffset(s) + Pos(s, t)
        BY <1>0, <1>3, <3>1, HeldFacts, PosOrder
      <4>2. \A j \in filled[s] : j \in Nat /\ j < round[s]
        <5>1. filled[s] \subseteq 0 .. round[s] - 1
          BY <1>0 DEF TypeOK
        <5> QED BY <1>1, <5>1
      <4>3. Row(s, t) < token_idx[s] \/ Row(s, t) - token_idx[s] \in filled[s]
        BY <3>1 DEF Shipped
      <4> QED BY <1>1, <2>4, <4>1, <4>2, <4>3
    <3>4. Pos(s, t) >= last_head[s]
      <4>1. PICK w \in Workers : OfWorker(w, t)
        <5>1. t - First \in Nat
          BY <1>0, <3>1, HeldFacts, ConstantFacts
        <5>2. (t - First) % NumWorkers \in 0 .. NumWorkers - 1
          BY <5>1, ConstantFacts
        <5> DEFINE w == ((t - First) % NumWorkers) + 1
        <5>3. w \in Workers /\ OfWorker(w, t)
          BY <5>2, ConstantFacts DEF Workers, OfWorker
        <5> QED BY <5>3
      <4>2. ~(t < wtoken[w])
        <5>1. t \in Nat /\ wtoken[w] \in Nat
          <6>1. t \in Nat
            BY <1>0, <3>1, HeldFacts
          <6>2. wtoken \in [Workers -> Nat]
            BY <1>0 DEF TypeOK
          <6> QED BY <6>1, <6>2
        <5> QED BY <2>1, <4>1, <5>1 DEF Consumed, OfWorker
      <4>3. Passed(w, s, last_head[s])
        BY <1>0 DEF IInv, ScanProgress
      <4> QED BY <1>1, <3>1, <3>3, <4>1, <4>2, <4>3 DEF Passed
    <3>5. Pos(s, t) % num_recv_buffer_tokens # at
      <4> DEFINE p == Pos(s, t)
                 n == current_tail[s] + i
      <4>1. p \in Nat /\ n \in Nat /\ p # n /\ p - n < num_recv_buffer_tokens
            /\ n - p < num_recv_buffer_tokens
        <5>1. round[s] <= num_recv_buffer_tokens
          <6>1. round[s] \in 0 .. num_max_send_tokens
            BY <1>0 DEF TypeOK
          <6> QED BY <6>1, ConstantFacts
        <5> QED BY <1>1, <1>2, <1>3, <3>3, <3>4, <5>1, ConstantFacts
      <4> HIDE DEF p, n
      <4>2. p % num_recv_buffer_tokens # n % num_recv_buffer_tokens
        <5>1. CASE p < n
          BY <4>1, <5>1, ModDistinct, ConstantFacts
        <5>2. CASE n < p
          BY <4>1, <5>2, ModDistinct, ConstantFacts
        <5> QED BY <4>1, <5>1, <5>2
      <4> QED BY <4>2 DEF p, n, at
    <3>6. slots'[s][Pos(s, t) % num_recv_buffer_tokens]
            = slots[s][Pos(s, t) % num_recv_buffer_tokens]
      <4>1. Pos(s, t) % num_recv_buffer_tokens \in 0 .. num_recv_buffer_tokens - 1
        BY <3>3, ConstantFacts
      <4> QED BY <1>0, <1>5, <1>6, <3>5, <4>1 DEF TypeOK
    <3> QED BY <1>11, <2>4, <3>2, <3>6 DEF InPlace, routingVars
  <2> QED BY <2>2, <2>3, <2>4
<1> QED BY <1>7, <1>8, <1>9, <1>10, <1>12, <1>13, <1>14, <1>15, <1>16 DEF IInv

LEMMA PublishTailPreserves ==
  ASSUME IInv, NEW s \in Peers, PublishTail(s)
  PROVE  IInv'
<1> USE DEF PublishTail
<1> DEFINE tail == current_tail[s] + round[s]
<1>0. TypeOK /\ launch > 0 /\ launch \in Launches /\ spc[s] = "fill"
  BY ActiveFacts DEF IInv
<1>1. /\ Total(s) \in Nat /\ ChannelOffset(s) \in Nat /\ round[s] \in Nat
      /\ current_tail[s] \in Nat /\ last_head[s] \in Nat
      /\ RowsEnd(s) = ChannelOffset(s) + Total(s) /\ RowsEnd(s) <= NumTokens
      /\ token_idx[s] = ChannelOffset(s) + current_tail[s]
      /\ tail <= Total(s)
      /\ tail - last_head[s] <= num_recv_buffer_tokens
  BY <1>0, SenderFacts
<1>2. /\ token_idx' = [token_idx EXCEPT ![s] = ChannelOffset(s) + tail]
      /\ current_tail' = [current_tail EXCEPT ![s] = tail]
      /\ round' = [round EXCEPT ![s] = 0] /\ filled' = [filled EXCEPT ![s] = {}]
  <2>1. token_idx[s] + round[s] = ChannelOffset(s) + tail
    BY <1>1
  <2> QED BY <2>1
<1>3. channel_tail_idx' = [channel_tail_idx EXCEPT ![s] = NvlPack(launch, tail)]
  <2>1. current_tail'[s] = tail
    BY <1>0, <1>2 DEF TypeOK
  <2> QED BY <2>1
<1>4. spc' = [spc EXCEPT ![s] = IF tail < Total(s) THEN "wait" ELSE "idle"]
  <2>1. token_idx'[s] = ChannelOffset(s) + tail
    BY <1>0, <1>2 DEF TypeOK
  <2>2. token_idx'[s] < RowsEnd(s) <=> tail < Total(s)
    BY <1>1, <2>1
  <2> QED BY <2>2
<1>5. tail \in Nat
  BY <1>1
<1> HIDE DEF tail
<1>6. TypeOK'
  <2>1. tail \in 0 .. NumTokens /\ ChannelOffset(s) + tail \in 0 .. NumTokens
    <3>1. NumTokens \in Nat
      BY ConstantFacts
    <3> QED BY <1>1, <1>5, <3>1
  <2>2. /\ token_idx' \in [Peers -> 0 .. NumTokens]
        /\ current_tail' \in [Peers -> 0 .. NumTokens]
    <3>1. token_idx \in [Peers -> 0 .. NumTokens] /\ current_tail \in [Peers -> 0 .. NumTokens]
      BY <1>0 DEF TypeOK
    <3> QED BY <1>2, <2>1, <3>1
  <2>3. /\ round' \in [Peers -> 0 .. num_max_send_tokens]
        /\ filled' \in [Peers -> SUBSET (0 .. num_max_send_tokens - 1)]
        /\ spc' \in [Peers -> {"idle", "wait", "fill"}]
    <3>1. /\ round \in [Peers -> 0 .. num_max_send_tokens]
          /\ filled \in [Peers -> SUBSET (0 .. num_max_send_tokens - 1)]
          /\ spc \in [Peers -> {"idle", "wait", "fill"}]
      BY <1>0 DEF TypeOK
    <3>2. round' \in [Peers -> 0 .. num_max_send_tokens]
      <4>1. 0 \in 0 .. num_max_send_tokens
        BY ConstantFacts
      <4> QED BY <1>2, <3>1, <4>1
    <3>3. filled' \in [Peers -> SUBSET (0 .. num_max_send_tokens - 1)]
      BY <1>2, <3>1
    <3>4. spc' \in [Peers -> {"idle", "wait", "fill"}]
      BY <1>4, <3>1
    <3> QED BY <3>2, <3>3, <3>4
  <2>4. ASSUME NEW q \in Peers PROVE filled'[q] \subseteq 0 .. round'[q] - 1
    <3>1. CASE q = s
      BY <1>0, <1>2, <3>1 DEF TypeOK
    <3>2. CASE q # s
      <4>1. filled'[q] = filled[q] /\ round'[q] = round[q]
        BY <1>0, <1>2, <3>2 DEF TypeOK
      <4> QED BY <1>0, <4>1 DEF TypeOK
    <3> QED BY <3>1, <3>2
  <2>5. channel_tail_idx' \in [Peers -> [seq : Nat, value : Nat]]
    <3>1. NvlPack(launch, tail) \in [seq : Nat, value : Nat]
      BY <1>0, <1>5, StampFacts DEF NvlPack
    <3> QED BY <1>0, <1>3, <3>1 DEF TypeOK
  <2> QED BY <1>0, <2>2, <2>3, <2>4, <2>5 DEF TypeOK, routingVars, smem, updaterVars,
                                             workerVars, history
<1>7. NothingBeforeFirst'
  BY <1>0 DEF NothingBeforeFirst, TypeOK, routingVars
<1>8. WordsTruthful'
  <2>1. ASSUME NEW q \in Peers, q # s
        PROVE  channel_tail_idx'[q] = channel_tail_idx[q] /\ current_tail'[q] = current_tail[q]
    BY <1>0, <1>2, <1>3, <2>1 DEF TypeOK
  <2>2. /\ channel_tail_idx'[s] = NvlPack(launch, tail) /\ current_tail'[s] = tail
        /\ current_tail[s] <= tail
    BY <1>0, <1>1, <1>2, <1>3 DEF TypeOK, tail
  <2>3. NvlPack(launch, tail).seq = NvlSeq(launch) /\ NvlPack(launch, tail).value = tail
    BY DEF NvlPack
  <2>4. smem_tail[s] <= tail
    <3>1. smem_tail[s] \in 0 .. NumTokens
      BY <1>0 DEF TypeOK
    <3>2. smem_tail[s] <= current_tail[s]
      BY <1>0 DEF IInv, WordsTruthful
    <3> QED BY <1>1, <1>5, <2>2, <3>1, <3>2, ConstantFacts
  <2>5. \A g \in Launches : channel_tail_idx'[s].seq = NvlSeq(g) => g <= launch
    BY <1>0, <2>2, <2>3, StampFacts, ConstantFacts DEF Launches
  <2>6. NvlCursor(channel_tail_idx'[s], launch) <= current_tail'[s]
    BY <1>5, <2>2, <2>3 DEF NvlCursor
  <2>7. UNCHANGED <<launch, channel_head_idx, last_head, smem_tail>>
    BY DEF routingVars, smem, updaterVars
  <2> QED BY <1>0, <2>1, <2>2, <2>4, <2>5, <2>6, <2>7 DEF IInv, WordsTruthful, NvlCursor
<1>9. HeadsOfRouting'
  BY DEF IInv, HeadsOfRouting, routingVars
<1>10. ASSUME NEW q \in Peers
       PROVE  /\ Total(q)' = Total(q) /\ ChannelOffset(q)' = ChannelOffset(q)
              /\ \A t : Row(q, t)' = Row(q, t) /\ Pos(q, t)' = Pos(q, t)
              /\ Held(q)' = Held(q)
              /\ Shipped(q)' = Shipped(q)
  <2>1. /\ Total(q)' = Total(q) /\ ChannelOffset(q)' = ChannelOffset(q)
        /\ \A t : Row(q, t)' = Row(q, t) /\ Pos(q, t)' = Pos(q, t)
        /\ Held(q)' = Held(q)
    BY DEF Total, ChannelOffset, Held, Row, Pos, Mask, routingVars
  <2>2. CASE q # s
    <3>1. filled'[q] = filled[q] /\ token_idx'[q] = token_idx[q]
      BY <1>0, <1>2, <2>2 DEF TypeOK
    <3> QED BY <2>1, <3>1 DEF Shipped
  <2>3. CASE q = s
    <3>1. filled'[s] = {} /\ token_idx'[s] = ChannelOffset(s) + tail
          /\ filled[s] = 0 .. round[s] - 1
      BY <1>0, <1>2 DEF TypeOK
    <3>2. ASSUME NEW t \in Held(s)
          PROVE  Row(s, t) < ChannelOffset(s) + tail
                   <=> Row(s, t) < token_idx[s] \/ Row(s, t) - token_idx[s] \in 0 .. round[s] - 1
      <4>1. Row(s, t) = ChannelOffset(s) + Pos(s, t) /\ Pos(s, t) \in Nat
        BY <1>0, HeldFacts
      <4>2. /\ ChannelOffset(s) \in Nat /\ current_tail[s] \in Nat /\ round[s] \in Nat
            /\ token_idx[s] = ChannelOffset(s) + current_tail[s]
            /\ tail = current_tail[s] + round[s]
        BY <1>1 DEF tail
      <4>3. ASSUME NEW o \in Nat, NEW c \in Nat, NEW n \in Nat, NEW r \in Nat
            PROVE  o + r < o + (c + n) <=> o + r < o + c \/ (o + r) - (o + c) \in 0 .. n - 1
        OBVIOUS
      <4> HIDE DEF PublishTail
      <4>4. /\ ChannelOffset(s) + Pos(s, t) < ChannelOffset(s) + tail
                 <=> \/ ChannelOffset(s) + Pos(s, t) < token_idx[s]
                     \/ (ChannelOffset(s) + Pos(s, t)) - token_idx[s] \in 0 .. round[s] - 1
        BY <4>1, <4>2, <4>3
      <4> QED BY <4>1, <4>4
    <3> QED BY <2>1, <2>3, <3>1, <3>2 DEF Shipped
  <2> QED BY <2>1, <2>2, <2>3
<1>11. SenderPosition'
  <2>1. ASSUME NEW q \in Peers, q # s
        PROVE  /\ token_idx'[q] = token_idx[q] /\ current_tail'[q] = current_tail[q]
               /\ round'[q] = round[q] /\ filled'[q] = filled[q] /\ spc'[q] = spc[q]
    BY <1>0, <1>2, <1>4, <2>1 DEF TypeOK
  <2>2. /\ token_idx'[s] = ChannelOffset(s) + tail /\ current_tail'[s] = tail
        /\ round'[s] = 0 /\ filled'[s] = {}
        /\ spc'[s] = IF tail < Total(s) THEN "wait" ELSE "idle"
    BY <1>0, <1>2, <1>4 DEF TypeOK
  <2>3. UNCHANGED <<launch, last_head, y_done>>
    BY DEF routingVars, updaterVars
  <2>4. tail + 0 <= Total(s) /\ tail + 0 - last_head[s] <= num_recv_buffer_tokens
    BY <1>1, <1>5
  <2>5. \A q \in Peers : \A t \in Shipped(q)' : Row(q, t)' \in y_done'[q]
    BY <1>0, <1>10, <2>3 DEF IInv, SenderPosition
  <2>6. ASSUME NEW q \in Peers
        PROVE  /\ token_idx'[q] = ChannelOffset(q)' + current_tail'[q]
               /\ current_tail'[q] + round'[q] <= Total(q)'
               /\ current_tail'[q] + round'[q] - last_head'[q] <= num_recv_buffer_tokens
               /\ (spc'[q] = "wait" => current_tail'[q] < Total(q)')
               /\ (spc'[q] # "fill" => round'[q] = 0 /\ filled'[q] = {})
    <3>1. CASE q = s
      BY <1>10, <2>2, <2>3, <2>4, <3>1
    <3>2. CASE q # s
      BY <1>0, <1>10, <2>1, <2>3, <3>2 DEF IInv, SenderPosition
    <3> QED BY <3>1, <3>2
  <2> QED BY <2>5, <2>6 DEF SenderPosition
<1>12. WorkerPosition'
  BY FrameWorker DEF IInv, routingVars, smem
<1>13. ScanProgress'
  BY FrameScan DEF IInv, routingVars, workerVars
<1>14. WrittenSoFar'
  BY FrameWritten DEF IInv, routingVars, history
<1>15. PendingPacketsIntact'
  <2> SUFFICES ASSUME NEW q \in Peers, NEW t \in Shipped(q)'
               PROVE  Consumed(t)' \/ InPlace(q, t)'
    BY PendingShapeNext
  <2>1. Consumed(t) \/ InPlace(q, t)
    BY <1>0, <1>10, PendingShape DEF IInv
  <2> QED BY <1>10, <2>1 DEF InPlace, Consumed, workerVars, routingVars
<1> QED BY <1>6, <1>7, <1>8, <1>9, <1>11, <1>12, <1>13, <1>14, <1>15 DEF IInv

(* How a worker's passing of packets carries over: to a smaller head, to a
   later step of the launch, and to every head once it has no token left. *)
LEMMA PassedLess ==
  ASSUME IInv, launch > 0, NEW w \in Workers, NEW s \in Peers,
         NEW h \in Nat, NEW k \in Nat, k <= h, Passed(w, s, h)
  PROVE  Passed(w, s, k)
<1>1. \A t \in Held(s) : Pos(s, t) \in Nat
  BY HeldFacts DEF IInv
<1> QED BY <1>1 DEF Passed

LEMMA PassedAll ==
  ASSUME IInv, launch > 0, NEW w \in Workers, NEW s \in Peers, NEW h \in Nat,
         wtoken[w] >= Last
  PROVE  Passed(w, s, h)
<1>1. \A t \in Held(s) : t \in Nat /\ t < Last
  BY HeldFacts DEF IInv
<1>2. wtoken[w] \in Nat
  BY DEF IInv, TypeOK
<1> QED BY <1>1, <1>2, ConstantFacts DEF Passed

LEMMA PassedStays ==
  ASSUME IInv, launch > 0, NEW w \in Workers, NEW s \in Peers, NEW h \in Nat, Passed(w, s, h),
         UNCHANGED <<launch, is_token_in_rank>>, wtoken'[w] \in Nat, wtoken[w] <= wtoken'[w]
  PROVE  Passed(w, s, h)'
<1>1. \A t \in Held(s) : t \in Nat
  BY HeldFacts DEF IInv
<1>2. wtoken[w] \in Nat
  BY DEF IInv, TypeOK
<1>3. Held(s)' = Held(s) /\ \A t : Pos(s, t)' = Pos(s, t)
  BY DEF Held, Pos, Mask
<1>4. ASSUME NEW t \in Held(s), OfWorker(w, t), Pos(s, t) < h PROVE t < wtoken'[w]
  <2>1. t < wtoken[w]
    BY <1>4 DEF Passed
  <2> QED BY <1>1, <1>2, <2>1
<1> QED BY <1>3, <1>4 DEF Passed

LEMMA UpdateTailPreserves == IInv /\ UpdateTail => IInv'
<1> SUFFICES ASSUME IInv, UpdateTail PROVE IInv'
  OBVIOUS
<1>0. TypeOK /\ launch > 0 /\ launch \in Launches
  BY ActiveFacts DEF IInv, UpdateTail
<1>1. /\ UNCHANGED <<slab, routingVars, y_done, senderVars, warp_head, warp_retired, scan,
                     min_head, last_head, workerVars, history>>
      /\ upc = "tail" /\ upc' \in {"idle", "scan"}
      /\ \/ smem_tail' = smem_tail
         \/ smem_tail' = [s \in Peers |-> NvlCursor(channel_tail_idx[s], launch)]
  BY DEF UpdateTail
<1>2. ASSUME NEW s \in Peers
      PROVE  smem_tail'[s] \in 0 .. NumTokens /\ smem_tail'[s] <= current_tail[s]
  <2>1. CASE smem_tail' = smem_tail
    BY <1>0, <2>1 DEF IInv, TypeOK, WordsTruthful
  <2>2. CASE smem_tail' = [q \in Peers |-> NvlCursor(channel_tail_idx[q], launch)]
    <3>1. smem_tail'[s] = NvlCursor(channel_tail_idx[s], launch)
      BY <2>2
    <3>2. NvlCursor(channel_tail_idx[s], launch) <= current_tail[s]
      BY <1>0 DEF IInv, WordsTruthful
    <3>3. NvlCursor(channel_tail_idx[s], launch) \in Nat
      BY <1>0 DEF TypeOK, NvlCursor
    <3>4. current_tail[s] \in 0 .. NumTokens
      BY <1>0 DEF TypeOK
    <3> QED BY <3>1, <3>2, <3>3, <3>4, ConstantFacts
  <2> QED BY <1>1, <2>1, <2>2
<1>3. TypeOK'
  <2>1. smem_tail' \in [Peers -> 0 .. NumTokens]
    <3>1. smem_tail' = [s \in Peers |-> smem_tail'[s]]
      BY <1>0, <1>1 DEF TypeOK
    <3> QED BY <1>2, <3>1
  <2> QED BY <1>0, <1>1, <2>1 DEF TypeOK, slab, routingVars, senderVars, workerVars, history
<1>4. NothingBeforeFirst'
  BY <1>0, <1>1 DEF NothingBeforeFirst, TypeOK, routingVars
<1>5. WordsTruthful'
  BY <1>0, <1>1, <1>2 DEF IInv, WordsTruthful, slab, routingVars, senderVars
<1>6. HeadsOfRouting'
  BY <1>1 DEF IInv, HeadsOfRouting, routingVars
<1>7. SenderPosition'
  BY <1>1, FrameSender DEF IInv, routingVars
<1>8. WorkerPosition'
  BY <1>1, FrameWorker DEF IInv, routingVars
<1>9. ScanProgress'
  <2>1. scan = 1 /\ scan' = 1
    BY <1>0, <1>1 DEF IInv, ScanProgress
  <2>2. \A w : w \notin 1 .. scan' - 1
    BY <2>1
  <2> QED BY <1>0, <1>1, <2>1, <2>2
        DEF IInv, ScanProgress, Passed, Held, Pos, Mask, routingVars, workerVars
<1>10. WrittenSoFar'
  BY <1>1, FrameWritten DEF IInv, routingVars, history
<1>11. PendingPacketsIntact'
  BY <1>1, FramePending DEF IInv, routingVars, slab, senderVars, workerVars
<1> QED BY <1>3, <1>4, <1>5, <1>6, <1>7, <1>8, <1>9, <1>10, <1>11 DEF IInv

(* The worker just scanned has passed what lies below the new minimum. *)
LEMMA ScanHeadPreserves == IInv /\ ScanHead => IInv'
<1> SUFFICES ASSUME IInv, ScanHead PROVE IInv'
  OBVIOUS
<1>0. TypeOK /\ launch > 0 /\ launch \in Launches
  BY ActiveFacts DEF IInv, ScanHead
<1>1. /\ UNCHANGED <<slab, routingVars, y_done, senderVars, smem, last_head, workerVars, history>>
      /\ upc = "scan" /\ ScanOne(scan)
      /\ \/ scan = NumWorkers /\ upc' = "head" /\ scan' = 1
         \/ scan # NumWorkers /\ upc' = "scan" /\ scan' = scan + 1
  BY DEF ScanHead
<1>2. scan \in Workers /\ scan' \in Workers
  <2>1. scan \in 1 .. NumWorkers
    BY <1>0 DEF TypeOK, Workers
  <2> QED BY <1>1, <2>1, ConstantFacts DEF Workers
<1>3. min_head' \in [Peers -> Nat]
  <2>1. \A s \in Peers : min_head[s] \in Nat /\ warp_head[scan][s] \in Nat
    BY <1>0, <1>2 DEF TypeOK
  <2>2. min_head' = min_head \/ min_head' = [s \in Peers |-> Smaller(min_head[s], warp_head[scan][s])]
    BY <1>1 DEF ScanOne
  <2> QED BY <1>0, <2>1, <2>2 DEF TypeOK, Smaller
<1>4. ASSUME NEW s \in Peers, NEW w \in 1 .. scan
      PROVE  Passed(w, s, min_head'[s])
  <2>1. min_head[s] \in Nat /\ min_head'[s] \in Nat /\ warp_head[scan][s] \in Nat
    BY <1>0, <1>2, <1>3 DEF TypeOK
  <2>2. w \in Workers /\ scan \in Nat
    BY <1>2, ConstantFacts DEF Workers
  <2>3. CASE w # scan
    <3>1. w \in 1 .. scan - 1
      BY <2>2, <2>3
    <3>2. Passed(w, s, min_head[s])
      BY <1>0, <1>1, <3>1 DEF IInv, ScanProgress
    <3>3. min_head'[s] <= min_head[s]
      BY <1>1, <2>1 DEF ScanOne, Smaller
    <3> QED BY <1>0, <2>1, <2>2, <3>2, <3>3, PassedLess
  <2>4. CASE w = scan /\ warp_retired[scan]
    <3>1. wtoken[scan] >= Last
      BY <1>0, <1>2, <2>4 DEF IInv, WorkerPosition
    <3> QED BY <1>0, <1>2, <2>1, <2>4, <3>1, PassedAll
  <2>5. CASE w = scan /\ ~warp_retired[scan]
    <3>1. Passed(scan, s, warp_head[scan][s])
      BY <1>0, <1>2 DEF IInv, WorkerPosition
    <3>2. min_head'[s] <= warp_head[scan][s]
      BY <1>1, <2>1, <2>5 DEF ScanOne, Smaller
    <3> QED BY <1>0, <1>2, <2>1, <2>5, <3>1, <3>2, PassedLess
  <2> QED BY <2>3, <2>4, <2>5
<1>5. TypeOK'
  BY <1>0, <1>1, <1>2, <1>3 DEF TypeOK, slab, routingVars, senderVars, smem, workerVars, history
<1>6. NothingBeforeFirst'
  BY <1>0, <1>1 DEF NothingBeforeFirst, TypeOK, routingVars
<1>7. WordsTruthful'
  BY <1>1, FrameWords DEF IInv, slab, routingVars, senderVars, smem
<1>8. HeadsOfRouting'
  BY <1>1 DEF IInv, HeadsOfRouting, routingVars
<1>9. SenderPosition'
  BY <1>1, FrameSender DEF IInv, routingVars
<1>10. WorkerPosition'
  BY <1>1, FrameWorker DEF IInv, routingVars, smem
<1>11. ScanProgress'
  <2>2. upc' = "scan" => scan' - 1 = scan
    BY <1>1, <1>2, ConstantFacts
  <2>3. upc' = "head" => Workers = 1 .. scan
    BY <1>1 DEF Workers
  <2>4. ASSUME NEW s \in Peers
        PROVE  /\ upc' = "scan" => \A w \in 1 .. scan' - 1 : Passed(w, s, min_head'[s])
               /\ upc' = "head" => \A w \in Workers : Passed(w, s, min_head'[s])
               /\ \A w \in Workers : Passed(w, s, last_head'[s])
    BY <1>0, <1>1, <1>4, <2>2, <2>3 DEF IInv, ScanProgress
  <2> QED BY <1>1, <2>4 DEF ScanProgress, Passed, Held, Pos, Mask, routingVars, workerVars
<1>12. WrittenSoFar'
  BY <1>1, FrameWritten DEF IInv, routingVars, history
<1>13. PendingPacketsIntact'
  BY <1>1, FramePending DEF IInv, routingVars, slab, senderVars, workerVars
<1> QED BY <1>5, <1>6, <1>7, <1>8, <1>9, <1>10, <1>11, <1>12, <1>13 DEF IInv

(* All workers have passed what lies below a head that is published. *)
LEMMA PublishHeadPreserves == IInv /\ PublishHead => IInv'
<1> SUFFICES ASSUME IInv, PublishHead PROVE IInv'
  OBVIOUS
<1> DEFINE moved == {s \in Peers : min_head[s] # IntMax /\ min_head[s] > last_head[s]}
<1>0. TypeOK /\ launch > 0 /\ launch \in Launches
  BY ActiveFacts DEF IInv, PublishHead
<1>1. /\ UNCHANGED <<channel_tail_idx, slots, routingVars, y_done, senderVars, smem, scan,
                     workerVars, history>>
      /\ upc = "head" /\ upc' = "tail" /\ min_head' = [s \in Peers |-> IntMax]
      /\ last_head' = [s \in Peers |-> IF s \in moved THEN min_head[s] ELSE last_head[s]]
      /\ channel_head_idx' = [s \in Peers |->
           IF s \in moved THEN NvlPack(launch, min_head[s]) ELSE channel_head_idx[s]]
  BY DEF PublishHead
<1>2. ASSUME NEW s \in Peers
      PROVE  /\ min_head[s] \in Nat /\ last_head[s] \in Nat /\ last_head'[s] \in Nat
             /\ last_head'[s] \in {min_head[s], last_head[s]} /\ last_head[s] <= last_head'[s]
  BY <1>0, <1>1 DEF TypeOK
<1>3. TypeOK'
  <2>1. \A s \in Peers : NvlPack(launch, min_head[s]) \in [seq : Nat, value : Nat]
    BY <1>0, <1>2, StampFacts DEF NvlPack
  <2>2. channel_head_idx' \in [Peers -> [seq : Nat, value : Nat]]
    BY <1>0, <1>1, <2>1 DEF TypeOK
  <2>3. last_head' \in [Peers -> Nat] /\ min_head' \in [Peers -> Nat]
    BY <1>1, <1>2, ConstantFacts
  <2> QED BY <1>0, <1>1, <2>2, <2>3 DEF TypeOK, routingVars, senderVars, smem, workerVars, history
<1>4. NothingBeforeFirst'
  BY <1>0, <1>1 DEF NothingBeforeFirst, TypeOK, routingVars
<1>5. WordsTruthful'
  <2>1. ASSUME NEW s \in Peers
        PROVE  /\ \A g \in Launches : channel_head_idx'[s].seq = NvlSeq(g) => g <= launch
               /\ NvlCursor(channel_head_idx'[s], launch) = last_head'[s]
    <3>1. CASE s \in moved
      <4>1. channel_head_idx'[s] = NvlPack(launch, min_head[s]) /\ last_head'[s] = min_head[s]
        BY <1>1, <3>1
      <4>2. channel_head_idx'[s].seq = NvlSeq(launch) /\ channel_head_idx'[s].value = min_head[s]
        BY <4>1 DEF NvlPack
      <4>3. \A g \in Launches : NvlSeq(launch) = NvlSeq(g) => g <= launch
        BY <1>0, StampFacts, ConstantFacts DEF Launches
      <4> QED BY <4>1, <4>2, <4>3 DEF NvlCursor
    <3>2. CASE s \notin moved
      <4>1. channel_head_idx'[s] = channel_head_idx[s] /\ last_head'[s] = last_head[s]
        BY <1>1, <3>2
      <4> QED BY <1>0, <4>1 DEF IInv, WordsTruthful
    <3> QED BY <3>1, <3>2
  <2>2. UNCHANGED <<launch, channel_tail_idx, current_tail, smem_tail>>
    BY <1>1 DEF routingVars, senderVars, smem
  <2> QED BY <2>1, <2>2 DEF IInv, WordsTruthful, NvlCursor
<1>6. HeadsOfRouting'
  BY <1>1 DEF IInv, HeadsOfRouting, routingVars
<1>7. SenderPosition'
  <2>1. UNCHANGED <<launch, token_idx, current_tail, round, filled, spc, y_done>>
    BY <1>1 DEF routingVars, senderVars
  <2>2. ASSUME NEW s \in Peers
        PROVE  /\ Total(s)' = Total(s) /\ ChannelOffset(s)' = ChannelOffset(s)
               /\ Shipped(s)' = Shipped(s) /\ \A t : Row(s, t)' = Row(s, t)
    BY <1>1 DEF Total, ChannelOffset, Shipped, Held, Row, Mask, routingVars, senderVars
  <2>3. ASSUME NEW s \in Peers
        PROVE  current_tail[s] + round[s] - last_head'[s] <= num_recv_buffer_tokens
    <3>1. /\ current_tail[s] \in Nat /\ round[s] \in Nat
          /\ current_tail[s] + round[s] - last_head[s] <= num_recv_buffer_tokens
      BY <1>0, SenderFacts
    <3> QED BY <1>2, <3>1, ConstantFacts
  <2> QED BY <1>0, <2>1, <2>2, <2>3 DEF IInv, SenderPosition
<1>8. WorkerPosition'
  BY <1>1, FrameWorker DEF IInv, routingVars, smem
<1>9. ScanProgress'
  <2>1. ASSUME NEW s \in Peers, NEW w \in Workers PROVE Passed(w, s, last_head'[s])
    <3>1. Passed(w, s, min_head[s]) /\ Passed(w, s, last_head[s])
      BY <1>0, <1>1 DEF IInv, ScanProgress
    <3> QED BY <1>2, <3>1
  <2>2. scan = 1 /\ scan' = 1
    BY <1>0, <1>1 DEF IInv, ScanProgress
  <2>3. \A s \in Peers : min_head'[s] = IntMax
    BY <1>1
  <2> QED BY <1>1, <2>1, <2>2, <2>3
        DEF ScanProgress, Passed, Held, Pos, Mask, routingVars, workerVars
<1>10. WrittenSoFar'
  BY <1>1, FrameWritten DEF IInv, routingVars, history
<1>11. PendingPacketsIntact'
  BY <1>1, FramePending DEF IInv, routingVars, senderVars, workerVars
<1> QED BY <1>3, <1>4, <1>5, <1>6, <1>7, <1>8, <1>9, <1>10, <1>11 DEF IInv

LEMMA RetirePreserves ==
  ASSUME IInv, NEW w \in Workers, Retire(w)
  PROVE  IInv'
<1> USE DEF Retire
<1>0. TypeOK /\ launch > 0 /\ launch \in Launches
  BY ActiveFacts DEF IInv
<1>1. wtoken[w] \in Nat /\ wtoken[w] >= Last
  <2>1. wtoken \in [Workers -> Nat]
    BY <1>0 DEF TypeOK
  <2>2. wpc[w] \in {"wait", "head"} <=> wtoken[w] < Last
    BY <1>0 DEF IInv, WorkerPosition
  <2>3. ~(wtoken[w] < Last) /\ wtoken[w] \in Nat
    BY <2>1, <2>2
  <2> QED BY <2>3, ConstantFacts
<1>2. TypeOK'
  <2>1. /\ warp_retired' \in [Workers -> BOOLEAN]
        /\ wpc' \in [Workers -> {"idle", "wait", "head", "retire"}]
    BY <1>0 DEF TypeOK
  <2> QED BY <1>0, <2>1 DEF TypeOK, slab, routingVars, senderVars, updaterVars, history
<1>3. NothingBeforeFirst'
  BY <1>0 DEF NothingBeforeFirst, TypeOK, routingVars
<1>4. WordsTruthful'
  BY FrameWords DEF IInv, slab, routingVars, senderVars, updaterVars
<1>5. HeadsOfRouting'
  BY DEF IInv, HeadsOfRouting, routingVars
<1>6. SenderPosition'
  BY FrameSender DEF IInv, routingVars, updaterVars
<1>7. WorkerPosition'
  <2>1. ASSUME NEW v \in Workers
        PROVE  /\ warp_retired'[v] => warp_retired[v] \/ v = w
               /\ wpc'[v] = IF v = w THEN "idle" ELSE wpc[v]
    BY <1>0 DEF TypeOK
  <2>2. wpc[w] \notin {"wait", "head"} /\ wpc'[w] \notin {"wait", "head"}
    BY <2>1
  <2>3. UNCHANGED <<launch, is_token_in_rank, wtoken, warp_head>>
    BY DEF routingVars
  <2>4. ASSUME NEW v \in Workers
        PROVE  /\ wpc'[v] \in {"wait", "head"} <=> wtoken[v] < Last
               /\ warp_retired'[v] => wtoken[v] >= Last
    <3>1. /\ wpc[v] \in {"wait", "head"} <=> wtoken[v] < Last
          /\ warp_retired[v] => wtoken[v] >= Last
      BY <1>0 DEF IInv, WorkerPosition
    <3> QED BY <1>1, <2>1, <2>2, <3>1
  <2> QED BY <1>0, <2>3, <2>4 DEF IInv, WorkerPosition, Passed, Held, Pos, Mask
<1>8. ScanProgress'
  BY FrameScan DEF IInv, routingVars
<1>9. WrittenSoFar'
  <2>1. \A v \in Workers : wpc'[v] = "head" <=> wpc[v] = "head"
    BY <1>0 DEF TypeOK
  <2> QED BY <2>1 DEF IInv, WrittenSoFar, routingVars, history
<1>10. PendingPacketsIntact'
  BY FramePending DEF IInv, routingVars, slab, senderVars
<1> QED BY <1>2, <1>3, <1>4, <1>5, <1>6, <1>7, <1>8, <1>9, <1>10 DEF IInv

-----------------------------------------------------------------------------
(* What a worker finds in send_head: the ring position of a token the peer
   holds; else a negative code of a position below which only earlier tokens
   lie. *)
LEMMA HeadCode ==
  ASSUME IInv, launch > 0, NEW s \in Peers, NEW t \in ChannelTokens
  PROVE  /\ Heads(s)[t] \in Int
         /\ t \in Mask(s) => Heads(s)[t] = Pos(s, t) /\ Heads(s)[t] >= 0
         /\ t \notin Mask(s) => /\ Heads(s)[t] < 0
                               /\ \A u \in Held(s) : Pos(s, u) < -Heads(s)[t] - 1 => u < t
<1> DEFINE mask == Mask(s)
           heads == [u \in Tokens |-> IF u \in mask THEN SelectedIn(mask, First, u) ELSE -1]
           code == EncodeHeads(heads, First, Last)[t]
<1>0. TypeOK /\ launch \in Nat
  BY MaskFacts DEF IInv
<1>1. Heads(s)[t] = code
  <2>1. send_head[Schedule[launch].layer][s]
          = EncodedHeads(is_token_in_rank[Schedule[launch].layer][s])
    BY <1>0 DEF IInv, HeadsOfRouting
  <2> QED BY <2>1 DEF Heads, EncodedHeads, Mask
<1>2. mask \in SUBSET Nat
  BY <1>0, MaskFacts
<1> HIDE DEF mask
<1>3. heads \in [Tokens -> Int]
  <2>1. ASSUME NEW u \in Tokens PROVE SelectedIn(mask, First, u) \in Nat
    <3>1. u \in Nat /\ First \in Nat
      BY ConstantFacts
    <3> QED BY <1>2, <3>1, SelectedType
  <2> QED BY <2>1
<1>4. t \in First .. Last - 1 /\ First .. Last - 1 \subseteq Tokens /\ t \in Nat
  BY ConstantFacts DEF ChannelTokens
<1>5. \A u \in First .. Last - 1 :
        /\ heads[u] = IF u \in mask THEN SelectedIn(mask, First, u) ELSE -1
        /\ u \in mask => u \in Held(s) /\ heads[u] = Pos(s, u) /\ heads[u] >= 0
        /\ heads[u] >= 0 => u \in mask
        /\ u \in Nat
  <2> SUFFICES ASSUME NEW u \in First .. Last - 1
               PROVE  /\ heads[u] = IF u \in mask THEN SelectedIn(mask, First, u) ELSE -1
                      /\ u \in mask => u \in Held(s) /\ heads[u] = Pos(s, u) /\ heads[u] >= 0
                      /\ heads[u] >= 0 => u \in mask
                      /\ u \in Nat
    OBVIOUS
  <2>1. u \in Tokens /\ u \in Nat
    BY <1>4, ConstantFacts
  <2>2. SelectedIn(mask, First, u) \in Nat
    BY <1>2, <2>1, SelectedType, ConstantFacts
  <2> QED BY <2>1, <2>2 DEF mask, Held, Pos, ChannelTokens
<1> HIDE DEF heads
<1>6. /\ heads[t] >= 0 => code = heads[t]
      /\ heads[t] < 0 =>
           \/ /\ code = -kReverseScanSentinel - 1
              /\ \A u \in First .. Last - 1 : u > t => heads[u] < 0
           \/ \E v \in First .. Last - 1 :
                /\ v > t /\ heads[v] >= 0 /\ code = -heads[v] - 1
                /\ \A u \in First .. Last - 1 : u > t /\ u < v => heads[u] < 0
  <2>1. First \in Nat /\ Last \in Nat
    BY ConstantFacts
  <2> QED BY <1>3, <1>4, <2>1, EncodeHeadsValue
<1>7. CASE t \in mask
  BY <1>1, <1>4, <1>5, <1>6, <1>7, <1>3 DEF mask
<1>8. CASE t \notin mask
  <2>1. heads[t] < 0
    BY <1>4, <1>5, <1>8
  <2>2. ASSUME NEW u \in Held(s)
        PROVE  u \in First .. Last - 1 /\ u \in mask /\ u # t /\ ~(heads[u] < 0)
    <3>1. u \in First .. Last - 1 /\ u \in mask
      BY DEF Held, mask, ChannelTokens
    <3>2. heads[u] \in Int /\ heads[u] >= 0
      BY <1>3, <1>4, <1>5, <3>1
    <3> QED BY <1>8, <3>1, <3>2
  <2>3. CASE /\ code = -kReverseScanSentinel - 1
             /\ \A u \in First .. Last - 1 : u > t => heads[u] < 0
    <3>1. ASSUME NEW u \in Held(s) PROVE u < t
      <4>1. u \in First .. Last - 1 /\ ~(heads[u] < 0) /\ u # t /\ u \in Nat
        BY <1>5, <2>2
      <4> QED BY <1>4, <2>3, <4>1
    <3>2. code < 0 /\ code \in Int
      BY <2>3 DEF kReverseScanSentinel
    <3> QED BY <1>1, <1>8, <3>1, <3>2 DEF mask
  <2>4. CASE \E v \in First .. Last - 1 :
                /\ v > t /\ heads[v] >= 0 /\ code = -heads[v] - 1
                /\ \A u \in First .. Last - 1 : u > t /\ u < v => heads[u] < 0
    <3>1. PICK v \in First .. Last - 1 :
                /\ v > t /\ heads[v] >= 0 /\ code = -heads[v] - 1
                /\ \A u \in First .. Last - 1 : u > t /\ u < v => heads[u] < 0
      BY <2>4
    <3>2. v \in Held(s) /\ heads[v] = Pos(s, v) /\ Pos(s, v) \in Nat
      <4>1. v \in Held(s) /\ heads[v] = Pos(s, v)
        BY <1>5, <3>1
      <4> QED BY <1>0, <4>1, HeldFacts
    <3>3. code < 0 /\ code \in Int /\ -code - 1 = Pos(s, v)
      BY <3>1, <3>2
    <3>4. ASSUME NEW u \in Held(s), Pos(s, u) < Pos(s, v) PROVE u < t
      <4>1. u < v
        BY <1>0, <3>2, <3>4, PosOrder
      <4> QED BY <1>4, <1>5, <2>2, <3>1, <4>1
    <3> QED BY <1>1, <1>8, <3>3, <3>4 DEF mask
  <2> QED BY <1>6, <2>1, <2>3, <2>4
<1> QED BY <1>7, <1>8 DEF mask

(* The token a worker stands on. *)
LEMMA WorkerFacts ==
  ASSUME IInv, launch > 0, NEW w \in Workers
  PROVE  /\ wtoken[w] \in Nat /\ First <= wtoken[w] /\ OfWorker(w, wtoken[w])
         /\ wpc[w] \in {"wait", "head"} => wtoken[w] \in ChannelTokens
<1>1. wtoken \in [Workers -> Nat]
  BY DEF IInv, TypeOK
<1>2. wtoken[w] >= First /\ OfWorker(w, wtoken[w])
  BY DEF IInv, WorkerPosition
<1>3. wpc[w] \in {"wait", "head"} => wtoken[w] < Last
  BY DEF IInv, WorkerPosition
<1> QED BY <1>1, <1>2, <1>3, ConstantFacts DEF ChannelTokens

(* Two tokens of a worker less than NumWorkers apart are one token. *)
LEMMA OfWorkerApart ==
  ASSUME NEW w \in Workers, NEW t \in Nat, NEW u \in Nat, First <= t, First <= u,
         OfWorker(w, t), OfWorker(w, u), u < t + NumWorkers, t <= u
  PROVE  u = t
<1> DEFINE p == t - First
           q == u - First
<1>1. p \in Nat /\ q \in Nat /\ q - p < NumWorkers /\ p <= q /\ NumWorkers \in Nat \ {0}
  BY ConstantFacts
<1>2. p % NumWorkers = q % NumWorkers
  BY DEF OfWorker
<1> HIDE DEF p, q
<1>3. p = q
  <2>1. CASE p < q
    BY <1>1, <1>2, <2>1, ModDistinct
  <2>2. CASE p = q
    BY <2>2
  <2> QED BY <1>1, <2>1, <2>2
<1>4. u = t
  BY <1>3, ConstantFacts DEF p, q
<1> QED BY <1>4

LEMMA OfWorkerNext ==
  ASSUME NEW w \in Workers, NEW t \in Nat, First <= t, OfWorker(w, t)
  PROVE  OfWorker(w, t + NumWorkers)
<1> DEFINE p == t - First
           q == (t + NumWorkers) - First
<1>1. p \in Nat /\ q = p + NumWorkers /\ NumWorkers \in Nat \ {0}
  BY ConstantFacts
<1>2. p % NumWorkers = w - 1
  BY DEF OfWorker
<1> HIDE DEF p, q
<1>3. (p + NumWorkers) % NumWorkers = p % NumWorkers
  BY <1>1, ModShift
<1>4. q % NumWorkers = w - 1
  BY <1>1, <1>2, <1>3, Zenon
<1> QED BY <1>4 DEF OfWorker, q

(* The head a worker shows after token t lies above no packet of a later
   token of its own. *)
LEMMA UpdateHeadPreserves ==
  ASSUME IInv, NEW w \in Workers, UpdateHead(w)
  PROVE  IInv'
<1> DEFINE t == wtoken[w]
           head(s) == IF Heads(s)[t] < 0 THEN -Heads(s)[t] - 1 ELSE Heads(s)[t] + 1
<1>0. TypeOK /\ launch > 0 /\ launch \in Launches /\ wpc[w] = "head"
  BY ActiveFacts DEF IInv, UpdateHead
<1>1. /\ UNCHANGED <<slab, routingVars, y_done, senderVars, smem_tail, warp_retired,
                     updaterVars, history>>
      /\ warp_head' = [warp_head EXCEPT ![w] = [s \in Peers |-> head(s)]]
      /\ wtoken' = [wtoken EXCEPT ![w] = t + NumWorkers]
  BY DEF UpdateHead
<1>2. wtoken'[w] = t + NumWorkers /\ \A v \in Workers : v # w => wtoken'[v] = wtoken[v]
  BY <1>0, <1>1 DEF TypeOK
<1>3. wpc' = [wpc EXCEPT ![w] = IF t + NumWorkers < Last THEN "wait" ELSE "retire"]
  BY <1>2 DEF UpdateHead
<1>4. t \in Nat /\ t \in ChannelTokens /\ First <= t /\ t < Last /\ OfWorker(w, t)
      /\ NumWorkers \in Nat \ {0} /\ Last \in Nat /\ First \in Nat
  BY <1>0, WorkerFacts, ConstantFacts
<1>5. ASSUME NEW s \in Peers
      PROVE  /\ head(s) \in Nat
             /\ \A u \in Held(s) : Pos(s, u) < head(s) => u <= t
  <2>1. CASE t \in Mask(s)
    <3>1. Heads(s)[t] = Pos(s, t) /\ t \in Held(s)
      BY <1>0, <1>4, <2>1, HeadCode DEF Held
    <3>2. Pos(s, t) \in Nat
      BY <1>0, <3>1, HeldFacts
    <3>3. head(s) = Pos(s, t) + 1
      BY <3>1, <3>2
    <3>4. ASSUME NEW u \in Held(s), Pos(s, u) < Pos(s, t) + 1 PROVE u <= t
      <4>1. Pos(s, u) \in Nat /\ u \in Nat
        BY <1>0, HeldFacts
      <4>2. Pos(s, u) = Pos(s, t) \/ Pos(s, u) < Pos(s, t)
        BY <3>2, <3>4, <4>1
      <4>3. u = t \/ u < t
        BY <1>0, <3>1, <4>2, PosOrder
      <4> QED BY <1>4, <4>1, <4>3
    <3> QED BY <3>2, <3>3, <3>4
  <2>2. CASE t \notin Mask(s)
    <3>1. /\ Heads(s)[t] \in Int /\ Heads(s)[t] < 0
          /\ \A u \in Held(s) : Pos(s, u) < -Heads(s)[t] - 1 => u < t
      BY <1>0, <1>4, <2>2, HeadCode
    <3>2. head(s) = -Heads(s)[t] - 1 /\ head(s) \in Nat
      BY <3>1
    <3>3. \A u \in Held(s) : u \in Nat
      BY <1>0, HeldFacts
    <3> QED BY <1>4, <3>1, <3>2, <3>3
  <2> QED BY <2>1, <2>2
<1> HIDE DEF head, t
<1>6. \A v \in Workers : wtoken[v] \in Nat /\ wtoken'[v] \in Nat /\ wtoken[v] <= wtoken'[v]
  BY <1>0, <1>1, <1>2, <1>4 DEF TypeOK, t
<1>7. TypeOK'
  <2>1. wtoken' \in [Workers -> Nat]
    BY <1>0, <1>1, <1>4 DEF TypeOK
  <2>2. wpc' \in [Workers -> {"idle", "wait", "head", "retire"}]
    BY <1>0, <1>3 DEF TypeOK
  <2>3. warp_head' \in [Workers -> [Peers -> Nat]]
    <3>1. [s \in Peers |-> head(s)] \in [Peers -> Nat]
      BY <1>5
    <3> QED BY <1>0, <1>1, <3>1 DEF TypeOK
  <2> QED BY <1>0, <1>1, <2>1, <2>2, <2>3 DEF TypeOK, slab, routingVars, senderVars,
                                             updaterVars, history
<1>8. NothingBeforeFirst'
  BY <1>0, <1>1 DEF NothingBeforeFirst, TypeOK, routingVars
<1>9. WordsTruthful'
  BY <1>1, FrameWords DEF IInv, slab, routingVars, senderVars, updaterVars
<1>10. HeadsOfRouting'
  BY <1>1 DEF IInv, HeadsOfRouting, routingVars
<1>11. SenderPosition'
  BY <1>1, FrameSender DEF IInv, routingVars, updaterVars
<1>12. UNCHANGED <<launch, is_token_in_rank>>
  BY <1>1 DEF routingVars
<1>13. WorkerPosition'
  <2>1. ASSUME NEW v \in Workers
        PROVE  /\ wtoken'[v] >= First /\ OfWorker(v, wtoken'[v])
               /\ wpc'[v] \in {"wait", "head"} <=> wtoken'[v] < Last
               /\ warp_retired'[v] => wtoken'[v] >= Last
    <3>1. CASE v = w
      <4>1. OfWorker(w, t + NumWorkers)
        BY <1>4, OfWorkerNext
      <4>2. ~warp_retired[w]
        BY <1>0, <1>4 DEF IInv, WorkerPosition, t
      <4>3. wpc'[w] = IF t + NumWorkers < Last THEN "wait" ELSE "retire"
        BY <1>0, <1>3 DEF TypeOK
      <4> QED BY <1>1, <1>2, <1>4, <3>1, <4>1, <4>2, <4>3
    <3>2. CASE v # w
      <4>1. wpc'[v] = wpc[v]
        BY <1>0, <1>3, <3>2 DEF TypeOK
      <4> QED BY <1>0, <1>1, <1>2, <3>2, <4>1 DEF IInv, WorkerPosition
    <3> QED BY <3>1, <3>2
  <2>2. ASSUME NEW v \in Workers, NEW s \in Peers PROVE Passed(v, s, warp_head[v][s])'
    <3>1. Held(s)' = Held(s) /\ \A u : Pos(s, u)' = Pos(s, u)
      BY <1>12 DEF Held, Pos, Mask
    <3>2. CASE v = w
      <4>1. warp_head'[w][s] = head(s)
        BY <1>0, <1>1 DEF TypeOK
      <4>2. ASSUME NEW u \in Held(s), Pos(s, u) < head(s) PROVE u < t + NumWorkers
        <5>1. u <= t /\ u \in Nat
          BY <1>0, <1>5, <4>2, HeldFacts
        <5> QED BY <1>4, <5>1
      <4> QED BY <1>2, <3>1, <3>2, <4>1, <4>2 DEF Passed
    <3>3. CASE v # w
      <4>1. warp_head'[v] = warp_head[v] /\ wtoken'[v] = wtoken[v]
        BY <1>0, <1>1, <1>2, <3>3 DEF TypeOK
      <4>2. Passed(v, s, warp_head[v][s])
        BY <1>0 DEF IInv, WorkerPosition
      <4> QED BY <3>1, <4>1, <4>2 DEF Passed
    <3> QED BY <3>2, <3>3
  <2> QED BY <2>1, <2>2 DEF WorkerPosition, Passed
<1>14. ScanProgress'
  <2>1. UNCHANGED <<upc, scan, min_head, last_head>>
    BY <1>1 DEF updaterVars
  <2>3. /\ \A s \in Peers : min_head[s] \in Nat /\ last_head[s] \in Nat
        /\ 1 .. scan - 1 \subseteq Workers
    <3>1. scan \in 1 .. NumWorkers
      BY <1>0 DEF TypeOK, Workers
    <3> QED BY <1>0, <3>1, ConstantFacts DEF TypeOK, Workers
  <2>4. ASSUME NEW s \in Peers
        PROVE  /\ (upc = "scan" => \A v \in 1 .. scan - 1 : Passed(v, s, min_head[s])')
               /\ (upc = "head" => \A v \in Workers : Passed(v, s, min_head[s])')
               /\ \A v \in Workers : Passed(v, s, last_head[s])'
    <3>1. /\ (upc = "scan" => \A v \in 1 .. scan - 1 : Passed(v, s, min_head[s]))
          /\ (upc = "head" => \A v \in Workers : Passed(v, s, min_head[s]))
          /\ \A v \in Workers : Passed(v, s, last_head[s])
      BY <1>0 DEF IInv, ScanProgress
    <3>2. ASSUME NEW v \in Workers
          PROVE  /\ Passed(v, s, min_head[s]) => Passed(v, s, min_head[s])'
                 /\ Passed(v, s, last_head[s]) => Passed(v, s, last_head[s])'
      <4>1. ASSUME Passed(v, s, min_head[s]) PROVE Passed(v, s, min_head[s])'
        <5>1. min_head[s] \in Nat
          BY <2>3
        <5> QED BY <1>0, <1>6, <1>12, <2>1, <4>1, <5>1, PassedStays
      <4>2. ASSUME Passed(v, s, last_head[s]) PROVE Passed(v, s, last_head[s])'
        <5>1. last_head[s] \in Nat
          BY <2>3
        <5> QED BY <1>0, <1>6, <1>12, <2>1, <4>2, <5>1, PassedStays
      <4> QED BY <4>1, <4>2
    <3> QED BY <2>3, <3>1, <3>2
  <2> QED BY <1>0, <1>12, <2>1, <2>4 DEF IInv, ScanProgress
<1>15. WrittenSoFar'
  <2>1. ASSUME NEW u \in ChannelTokens, NEW v \in Workers, OfWorker(v, u)
        PROVE  (u < wtoken'[v] \/ (u = wtoken'[v] /\ wpc'[v] = "head"))
                 <=> (u < wtoken[v] \/ (u = wtoken[v] /\ wpc[v] = "head"))
    <3>1. CASE v # w
      BY <1>0, <1>2, <1>3, <3>1 DEF TypeOK
    <3>2. CASE v = w
      <4>1. u \in Nat /\ First <= u
        BY ConstantFacts
      <4>2. u < t + NumWorkers => u <= t
        <5>1. t <= u /\ u < t + NumWorkers => u = t
          BY <1>4, <2>1, <3>2, <4>1, OfWorkerApart
        <5> QED BY <1>4, <4>1, <5>1
      <4>3. wpc'[w] # "head"
        BY <1>0, <1>3 DEF TypeOK
      <4> QED BY <1>0, <1>2, <1>4, <3>2, <4>1, <4>2, <4>3 DEF t
    <3> QED BY <3>1, <3>2
  <2> QED BY <1>0, <1>1, <1>12, <2>1 DEF IInv, WrittenSoFar, history
<1>16. PendingPacketsIntact'
  <2> SUFFICES ASSUME NEW s \in Peers, NEW u \in Shipped(s)'
               PROVE  Consumed(u)' \/ InPlace(s, u)'
    BY PendingShapeNext
  <2>1. u \in Shipped(s)
    BY <1>1 DEF Shipped, Held, Row, Mask, routingVars, senderVars
  <2>2. Consumed(u) \/ InPlace(s, u)
    BY <1>0, <2>1, PendingShape DEF IInv
  <2>3. CASE Consumed(u)
    <3>1. u \in Nat
      BY <1>0, <2>1, HeldFacts DEF Shipped
    <3>2. PICK v \in Workers : (u - First) % NumWorkers = v - 1 /\ wtoken[v] > u
      BY <2>3 DEF Consumed
    <3>3. wtoken'[v] > u
      BY <1>6, <3>1, <3>2
    <3> QED BY <3>2, <3>3 DEF Consumed
  <2>4. CASE InPlace(s, u)
    BY <1>1, <2>4 DEF InPlace, Pos, Mask, routingVars, slab
  <2> QED BY <2>2, <2>3, <2>4
<1> QED BY <1>7, <1>8, <1>9, <1>10, <1>11, <1>13, <1>14, <1>15, <1>16 DEF IInv

(* What the reduction of a token finds: the row of every peer that holds it
   has been released, and its packet stands where send_head says. *)
Contributed(s, t) == [launch |-> launch, rank |-> s, token |-> t, finished |-> TRUE]

LEMMA OfOneWorker ==
  ASSUME NEW v \in Workers, NEW w \in Workers, NEW t, OfWorker(v, t), OfWorker(w, t)
  PROVE  v = w
  BY ConstantFacts DEF OfWorker

LEMMA ReduceSums ==
  ASSUME IInv, NEW w \in Workers, Reduce(w)
  PROVE  /\ launch > 0 /\ launch \in Launches
         /\ wtoken[w] \in ChannelTokens /\ wtoken[w] \notin written[launch]
         /\ \A s \in Peers : wtoken[w] \in Mask(s) =>
              Row(s, wtoken[w]) \in y_done[s]
         /\ written' = [written EXCEPT ![launch] = @ \cup {wtoken[w]}]
         /\ output' = [output EXCEPT ![launch][wtoken[w]] =
              {Contributed(s, wtoken[w]) : s \in {q \in Peers : wtoken[w] \in Mask(q)}}]
<1> DEFINE t == wtoken[w]
           holders == {s \in Peers : Heads(s)[t] >= 0}
<1>0. TypeOK /\ launch > 0 /\ launch \in Launches /\ wpc[w] = "wait"
  BY ActiveFacts DEF IInv, Reduce
<1>1. /\ \A s \in holders : smem_tail[s] > Heads(s)[t]
      /\ output' = [output EXCEPT ![launch][t] =
                      {slots[s][Heads(s)[t] % num_recv_buffer_tokens] : s \in holders}]
      /\ written' = [written EXCEPT ![launch] = @ \cup {t}]
  BY DEF Reduce
<1>2. t \in Nat /\ t \in ChannelTokens /\ OfWorker(w, t)
  BY <1>0, WorkerFacts
<1>3. \A v \in Workers : OfWorker(v, t) => v = w
  BY <1>2, OfOneWorker
<1>4. t \notin written[launch]
  <2>1. t \in written[launch] <=>
          \E v \in Workers : OfWorker(v, t) /\ (\/ t < wtoken[v]
                                                \/ t = wtoken[v] /\ wpc[v] = "head")
    BY <1>0, <1>2 DEF IInv, WrittenSoFar
  <2>2. ~(t < wtoken[w]) /\ wpc[w] # "head"
    BY <1>0, <1>2
  <2> QED BY <1>3, <2>1, <2>2
<1>5. ~Consumed(t)
  <2>1. ~(wtoken[w] > t)
    BY <1>2
  <2> QED BY <1>3, <2>1 DEF Consumed, OfWorker
<1> HIDE DEF t
<1>6. ASSUME NEW s \in Peers
      PROVE  s \in holders <=> t \in Mask(s)
  BY <1>0, <1>2, HeadCode
<1>7. ASSUME NEW s \in Peers, t \in Mask(s)
      PROVE  /\ Row(s, t) \in y_done[s]
             /\ slots[s][Heads(s)[t] % num_recv_buffer_tokens] = Contributed(s, t)
  <2>1. Heads(s)[t] = Pos(s, t) /\ t \in Held(s)
    BY <1>0, <1>2, <1>7, HeadCode DEF Held
  <2>2. Pos(s, t) \in Nat /\ Row(s, t) = ChannelOffset(s) + Pos(s, t)
    BY <1>0, <2>1, HeldFacts
  <2>3. /\ current_tail[s] \in Nat /\ ChannelOffset(s) \in Nat
        /\ token_idx[s] = ChannelOffset(s) + current_tail[s]
    BY <1>0, SenderFacts
  <2>4. smem_tail[s] > Pos(s, t)
    BY <1>1, <1>6, <1>7, <2>1
  <2>5. smem_tail[s] \in Nat /\ smem_tail[s] <= current_tail[s]
    <3>1. smem_tail[s] \in 0 .. NumTokens
      BY <1>0 DEF TypeOK
    <3>2. smem_tail[s] <= current_tail[s]
      BY <1>0 DEF IInv, WordsTruthful
    <3> QED BY <3>1, <3>2, ConstantFacts
  <2>6. Row(s, t) < token_idx[s]
    BY <2>2, <2>3, <2>4, <2>5
  <2>7. t \in Shipped(s)
    BY <2>1, <2>6 DEF Shipped
  <2>8. Row(s, t) \in y_done[s]
    BY <1>0, <2>7 DEF IInv, SenderPosition
  <2>9. InPlace(s, t)
    BY <1>0, <1>5, <2>7, PendingShape DEF IInv
  <2> QED BY <2>1, <2>8, <2>9 DEF InPlace, Contributed
<1>8. {slots[s][Heads(s)[t] % num_recv_buffer_tokens] : s \in holders}
        = {Contributed(s, t) : s \in {q \in Peers : t \in Mask(q)}}
  <2>1. holders = {q \in Peers : t \in Mask(q)}
    BY <1>6
  <2> HIDE DEF holders
  <2> QED BY <1>7, <2>1
<1> QED BY <1>0, <1>1, <1>2, <1>4, <1>7, <1>8 DEF t

LEMMA ReducePreserves ==
  ASSUME IInv, NEW w \in Workers, Reduce(w)
  PROVE  IInv'
<1> DEFINE t == wtoken[w]
           sum == {Contributed(s, t) : s \in {q \in Peers : t \in Mask(q)}}
<1>0. TypeOK /\ launch > 0 /\ launch \in Launches /\ wpc[w] = "wait"
  BY ActiveFacts DEF IInv, Reduce
<1>1. /\ UNCHANGED <<slab, routingVars, y_done, senderVars, smem, updaterVars, wtoken>>
      /\ wpc' = [wpc EXCEPT ![w] = "head"]
  BY DEF Reduce
<1>2. /\ t \in ChannelTokens
      /\ written' = [written EXCEPT ![launch] = @ \cup {t}]
      /\ output' = [output EXCEPT ![launch][t] = sum]
  BY ReduceSums
<1>3. OfWorker(w, t)
  BY <1>0, WorkerFacts
<1>4. sum \subseteq Packet
  <2>1. t \in Tokens
    BY <1>2, ConstantFacts
  <2> HIDE DEF t
  <2>2. \A s \in Peers : Contributed(s, t) \in Packet
    BY <1>0, <2>1 DEF Contributed, Packet
  <2> QED BY <2>2
<1> HIDE DEF t, sum
<1>5. /\ wpc'[w] = "head" /\ \A v \in Workers : v # w => wpc'[v] = wpc[v]
      /\ wpc' \in [Workers -> {"idle", "wait", "head", "retire"}]
  BY <1>0, <1>1 DEF TypeOK
<1>6. TypeOK'
  <2>1. written' \in [Launches -> SUBSET ChannelTokens]
    BY <1>0, <1>2 DEF TypeOK
  <2>2. output' \in [Launches -> [ChannelTokens -> SUBSET (Packet \cup {Empty})]]
    <3> DEFINE sums == [output[launch] EXCEPT ![t] = sum]
    <3>1. sums \in [ChannelTokens -> SUBSET (Packet \cup {Empty})]
      <4>1. sum \in SUBSET (Packet \cup {Empty})
        BY <1>4
      <4>2. output[launch] \in [ChannelTokens -> SUBSET (Packet \cup {Empty})]
        BY <1>0 DEF TypeOK
      <4> QED BY <4>1, <4>2
    <3>2. output' = [output EXCEPT ![launch] = sums]
      BY <1>2
    <3> HIDE DEF sums
    <3> QED BY <1>0, <3>1, <3>2 DEF TypeOK
  <2> QED BY <1>0, <1>1, <1>5, <2>1, <2>2 DEF TypeOK, slab, routingVars, senderVars, smem,
                                             updaterVars
<1>7. NothingBeforeFirst'
  BY <1>0, <1>1 DEF NothingBeforeFirst, TypeOK, routingVars
<1>8. WordsTruthful'
  BY <1>1, FrameWords DEF IInv, slab, routingVars, senderVars, smem, updaterVars
<1>9. HeadsOfRouting'
  BY <1>1 DEF IInv, HeadsOfRouting, routingVars
<1>10. SenderPosition'
  BY <1>1, FrameSender DEF IInv, routingVars, updaterVars
<1>11. WorkerPosition'
  <2>1. UNCHANGED <<launch, is_token_in_rank, wtoken, warp_head, warp_retired>>
    BY <1>1 DEF routingVars, smem
  <2>2. \A v \in Workers : wpc'[v] \in {"wait", "head"} <=> wpc[v] \in {"wait", "head"}
    BY <1>0, <1>5
  <2> QED BY <1>0, <2>1, <2>2 DEF IInv, WorkerPosition, Passed, Held, Pos, Mask
<1>12. ScanProgress'
  BY <1>1, FrameScan DEF IInv, routingVars
<1>13. WrittenSoFar'
  <2>1. UNCHANGED <<launch, wtoken>>
    BY <1>1 DEF routingVars
  <2>2. ASSUME NEW g \in Launches, g > launch PROVE written'[g] = {}
    <3>1. g # launch
      BY <1>0, <2>2, ConstantFacts DEF Launches
    <3> QED BY <1>0, <1>2, <2>2, <3>1 DEF IInv, WrittenSoFar, TypeOK
  <2>3. written'[launch] = written[launch] \cup {t}
    BY <1>0, <1>2 DEF TypeOK
  <2>4. ASSUME NEW u \in ChannelTokens
        PROVE  u \in written'[launch] <=>
                 \E v \in Workers : OfWorker(v, u) /\ (\/ u < wtoken[v]
                                                       \/ u = wtoken[v] /\ wpc'[v] = "head")
    <3>1. u \in written[launch] <=>
            \E v \in Workers : OfWorker(v, u) /\ (\/ u < wtoken[v]
                                                  \/ u = wtoken[v] /\ wpc[v] = "head")
      BY <1>0 DEF IInv, WrittenSoFar
    <3>2. \A v \in Workers : wpc[v] = "head" => wpc'[v] = "head"
      BY <1>0, <1>5
    <3>3. \A v \in Workers : wpc'[v] = "head" /\ v # w => wpc[v] = "head"
      BY <1>5
    <3>4. CASE u = t
      BY <1>3, <1>5, <2>3, <3>4 DEF t
    <3>5. CASE u # t
      BY <1>5, <2>3, <3>1, <3>2, <3>3, <3>5 DEF t
    <3> QED BY <3>4, <3>5
  <2> QED BY <1>0, <2>1, <2>2, <2>4 DEF WrittenSoFar, OfWorker
<1>14. PendingPacketsIntact'
  BY <1>1, FramePending DEF IInv, routingVars, slab, senderVars
<1> QED BY <1>6, <1>7, <1>8, <1>9, <1>10, <1>11, <1>12, <1>13, <1>14 DEF IInv

(* The same facts after a step, for the one that changes the routing. *)
LEMMA RoutingFactsNext ==
  (RoutingTyped =>
    \A s \in Peers :
      /\ Mask(s) \in SUBSET Tokens /\ Mask(s) \in SUBSET Nat
      /\ ChannelOffset(s) \in Nat /\ Total(s) \in Nat
      /\ RowsEnd(s) = ChannelOffset(s) + Total(s)
      /\ RowsEnd(s) <= NumTokens)'
  BY RoutingFacts, PTL

LEMMA HeldFactsAll ==
  TypeOK /\ launch > 0 =>
    \A s \in Peers : \A t \in Held(s) :
      Pos(s, t) \in Nat /\ Row(s, t) = ChannelOffset(s) + Pos(s, t)
  BY HeldFacts

LEMMA HeldFactsNext ==
  (TypeOK /\ launch > 0 =>
    \A s \in Peers : \A t \in Held(s) :
      Pos(s, t) \in Nat /\ Row(s, t) = ChannelOffset(s) + Pos(s, t))'
  BY HeldFactsAll, PTL

LEMMA EncodedType ==
  ASSUME NEW mask \in SUBSET Tokens
  PROVE  EncodedHeads(mask) \in [Tokens -> Int]
<1> DEFINE heads == [t \in Tokens |-> IF t \in mask THEN SelectedIn(mask, First, t) ELSE -1]
<1>1. mask \in SUBSET Nat /\ First \in Nat /\ Last \in Nat /\ First .. Last - 1 \subseteq Tokens
  BY ConstantFacts DEF ChannelTokens
<1>2. heads \in [Tokens -> Int]
  <2>1. ASSUME NEW t \in Tokens PROVE SelectedIn(mask, First, t) \in Nat
    <3>1. t \in Nat
      BY ConstantFacts
    <3> QED BY <1>1, <3>1, SelectedType
  <2> QED BY <2>1
<1> HIDE DEF heads
<1>3. EncodeHeads(heads, First, Last) \in [Tokens -> Int]
  BY <1>1, <1>2, EncodeHeadsType
<1> QED BY <1>3 DEF EncodedHeads, heads

(* The routing of a launch, and that of every launch before it, is in
   send_head: a backward launch takes over what its forward left. *)
LEMMA LaunchRouting ==
  ASSUME IInv, Launch
  PROVE  /\ launch' = launch + 1 /\ launch' \in Launches /\ launch' \in Nat /\ launch \in Nat
         /\ is_token_in_rank' \in [Layers -> [Peers -> SUBSET Tokens]]
         /\ send_head' \in [Layers -> [Peers -> [Tokens -> Int]]]
         /\ HeadsOfRouting'
<1> DEFINE l == Schedule[launch + 1].layer
<1>0. TypeOK
  BY DEF IInv
<1>1. /\ launch' = launch + 1 /\ launch' \in Launches /\ launch' \in Nat /\ launch \in Nat
      /\ launch' \in 1 .. launch + 1 /\ 1 .. launch' = (1 .. launch) \cup {launch + 1}
  <2>1. launch \in 0 .. NumLaunches /\ launch < NumLaunches /\ launch' = launch + 1
    BY <1>0 DEF Launch, TypeOK
  <2> QED BY <2>1, ConstantFacts DEF Launches
<1>2. l \in Layers /\ \A g \in 1 .. launch' : g \in Launches /\ Schedule[g].layer \in Layers
  <2>1. \A g \in 1 .. launch' : g \in Launches
    BY <1>1, ConstantFacts DEF Launches
  <2> QED BY <1>1, <2>1, StampFacts
<1>3. CASE IsForward(launch + 1)
  <2>1. PICK r \in Routings :
          /\ is_token_in_rank' = [is_token_in_rank EXCEPT ![l] = r]
          /\ send_head' = [send_head EXCEPT ![l] = [s \in Peers |-> EncodedHeads(r[s])]]
    BY <1>3 DEF Launch
  <2> HIDE DEF l
  <2>2. r \in [Peers -> SUBSET Tokens]
    BY TokenAssumption
  <2>3. [s \in Peers |-> EncodedHeads(r[s])] \in [Peers -> [Tokens -> Int]]
    <3>1. \A s \in Peers : EncodedHeads(r[s]) \in [Tokens -> Int]
      BY <2>2, EncodedType
    <3> QED BY <3>1
  <2>4. /\ is_token_in_rank' \in [Layers -> [Peers -> SUBSET Tokens]]
        /\ is_token_in_rank'[l] = r
        /\ \A k \in Layers : k # l => is_token_in_rank'[k] = is_token_in_rank[k]
    BY <1>0, <1>2, <2>1, <2>2 DEF TypeOK
  <2>5. /\ send_head' \in [Layers -> [Peers -> [Tokens -> Int]]]
        /\ send_head'[l] = [s \in Peers |-> EncodedHeads(r[s])]
        /\ \A k \in Layers : k # l => send_head'[k] = send_head[k]
    BY <1>0, <1>2, <2>1, <2>3 DEF TypeOK
  <2>6. ASSUME NEW g \in 1 .. launch', NEW s \in Peers
        PROVE  send_head'[Schedule[g].layer][s]
                 = EncodedHeads(is_token_in_rank'[Schedule[g].layer][s])
    <3>1. CASE Schedule[g].layer = l
      <4>1. is_token_in_rank'[Schedule[g].layer][s] = r[s]
            /\ send_head'[Schedule[g].layer][s] = EncodedHeads(r[s])
        BY <2>4, <2>5, <3>1
      <4> QED BY <4>1
    <3>2. CASE Schedule[g].layer # l
      <4>1. g \in 1 .. launch /\ Schedule[g].layer \in Layers
        BY <1>1, <1>2, <3>2 DEF l
      <4>2. send_head[Schedule[g].layer][s] = EncodedHeads(is_token_in_rank[Schedule[g].layer][s])
        BY <4>1 DEF IInv, HeadsOfRouting
      <4> QED BY <2>4, <2>5, <3>2, <4>1, <4>2
    <3> QED BY <3>1, <3>2
  <2>7. HeadsOfRouting'
    BY <2>6 DEF HeadsOfRouting, EncodedHeads
  <2> QED BY <1>1, <2>4, <2>5, <2>7
<1>4. CASE ~IsForward(launch + 1)
  <2>1. is_token_in_rank' = is_token_in_rank /\ send_head' = send_head
    BY <1>4 DEF Launch
  <2>2. PICK h \in 1 .. (launch + 1) - 1 : Schedule[h] = [layer |-> l, phase |-> 0]
    BY <1>1, <1>4, ScheduleAssumption
  <2>3. h \in 1 .. launch /\ Schedule[h].layer = l
    BY <1>1, <2>2
  <2>4. ASSUME NEW g \in 1 .. launch', NEW s \in Peers
        PROVE  send_head[Schedule[g].layer][s]
                 = EncodedHeads(is_token_in_rank[Schedule[g].layer][s])
    <3>1. CASE g \in 1 .. launch
      BY <3>1 DEF IInv, HeadsOfRouting
    <3>2. CASE g = launch + 1
      BY <2>3, <3>2 DEF IInv, HeadsOfRouting
    <3> QED BY <1>1, <3>1, <3>2
  <2>5. HeadsOfRouting'
    BY <2>1, <2>4 DEF HeadsOfRouting, EncodedHeads
  <2> QED BY <1>0, <1>1, <2>1, <2>5 DEF TypeOK
<1> QED BY <1>3, <1>4

(* A launch begins with no row shipped, no token reduced and cursors of
   zero, whatever words an earlier launch has left in the slab. *)
LEMMA LaunchPreserves == IInv /\ Launch => IInv'
<1> SUFFICES ASSUME IInv, Launch PROVE IInv'
  OBVIOUS
<1>0. TypeOK
  BY DEF IInv
<1>1. /\ launch' = launch + 1 /\ launch' \in Launches /\ launch' \in Nat /\ launch \in Nat
      /\ is_token_in_rank' \in [Layers -> [Peers -> SUBSET Tokens]]
      /\ send_head' \in [Layers -> [Peers -> [Tokens -> Int]]]
      /\ HeadsOfRouting'
  BY LaunchRouting
<1>2. /\ UNCHANGED <<slab, history>>
      /\ y_done' = [s \in Peers |-> {}]
      /\ token_idx' = [s \in Peers |-> ChannelOffset(s)']
      /\ spc' = [s \in Peers |-> IF ChannelOffset(s)' < RowsEnd(s)' THEN "wait" ELSE "idle"]
      /\ current_tail' = [s \in Peers |-> 0]
      /\ round' = [s \in Peers |-> 0] /\ filled' = [s \in Peers |-> {}]
      /\ smem_tail' = [s \in Peers |-> 0]
      /\ warp_head' = [w \in Workers |-> [s \in Peers |-> 0]]
      /\ warp_retired' = [w \in Workers |-> FALSE]
      /\ upc' = "tail" /\ scan' = 1
      /\ min_head' = [s \in Peers |-> IntMax] /\ last_head' = [s \in Peers |-> 0]
      /\ wtoken' = [w \in Workers |-> First + w - 1]
      /\ wpc' = [w \in Workers |-> IF First + w - 1 < Last THEN "wait" ELSE "retire"]
  BY DEF Launch
<1>3. ASSUME NEW s \in Peers
      PROVE  /\ ChannelOffset(s)' \in Nat /\ Total(s)' \in Nat
             /\ RowsEnd(s)' = ChannelOffset(s)' + Total(s)' /\ RowsEnd(s)' <= NumTokens
             /\ token_idx'[s] = ChannelOffset(s)' /\ current_tail'[s] = 0
             /\ round'[s] = 0 /\ filled'[s] = {} /\ last_head'[s] = 0 /\ smem_tail'[s] = 0
             /\ spc'[s] = IF ChannelOffset(s)' < RowsEnd(s)' THEN "wait" ELSE "idle"
  <2>1. RoutingTyped'
    BY <1>1 DEF RoutingTyped
  <2>2. /\ ChannelOffset(s)' \in Nat /\ Total(s)' \in Nat
        /\ RowsEnd(s)' = ChannelOffset(s)' + Total(s)' /\ RowsEnd(s)' <= NumTokens
    BY <2>1, RoutingFactsNext
  <2> QED BY <1>2, <2>2
<1>4. ASSUME NEW w \in Workers
      PROVE  /\ wtoken'[w] = First + w - 1 /\ wtoken'[w] \in Nat /\ wtoken'[w] >= First
             /\ OfWorker(w, wtoken'[w])
             /\ wpc'[w] = IF wtoken'[w] < Last THEN "wait" ELSE "retire"
             /\ warp_retired'[w] = FALSE
  <2>1. w \in 1 .. NumWorkers /\ First \in Nat /\ NumWorkers \in Nat \ {0}
    BY ConstantFacts DEF Workers
  <2>2. wtoken'[w] = First + w - 1
    BY <1>2
  <2>3. (First + w - 1) - First = w - 1 /\ w - 1 \in 0 .. NumWorkers - 1 /\ w - 1 \in Nat
    BY <2>1
  <2>4. (w - 1) % NumWorkers = w - 1
    BY <2>1, <2>3
  <2>5. OfWorker(w, wtoken'[w])
    BY <2>2, <2>3, <2>4 DEF OfWorker
  <2> QED BY <1>2, <2>1, <2>2, <2>5
<1>5. TypeOK'
  <2>1. /\ channel_head_idx' \in [Peers -> [seq : Nat, value : Nat]]
        /\ channel_tail_idx' \in [Peers -> [seq : Nat, value : Nat]]
        /\ slots' \in [Peers -> [0 .. num_recv_buffer_tokens - 1 -> Packet \cup {Empty}]]
        /\ written' \in [Launches -> SUBSET ChannelTokens]
        /\ output' \in [Launches -> [ChannelTokens -> SUBSET (Packet \cup {Empty})]]
    BY <1>0, <1>2 DEF TypeOK, slab, history
  <2>2. launch' \in 0 .. NumLaunches
    BY <1>1, ConstantFacts DEF Launches
  <2>3. /\ token_idx' \in [Peers -> 0 .. NumTokens]
        /\ current_tail' \in [Peers -> 0 .. NumTokens]
        /\ smem_tail' \in [Peers -> 0 .. NumTokens]
    <3>1. NumTokens \in Nat
      BY ConstantFacts
    <3>2. \A s \in Peers : ChannelOffset(s)' \in 0 .. NumTokens
      BY <1>3, <3>1
    <3>3. token_idx' = [s \in Peers |-> token_idx'[s]] /\ \A s \in Peers : token_idx'[s] \in 0 .. NumTokens
      BY <1>2, <1>3, <3>2
    <3>4. token_idx' \in [Peers -> 0 .. NumTokens]
      BY <3>3
    <3> QED BY <1>2, <3>1, <3>4
  <2>4. /\ y_done' \in [Peers -> SUBSET Tokens]
        /\ round' \in [Peers -> 0 .. num_max_send_tokens]
        /\ filled' \in [Peers -> SUBSET (0 .. num_max_send_tokens - 1)]
        /\ \A s \in Peers : filled'[s] \subseteq 0 .. round'[s] - 1
        /\ warp_head' \in [Workers -> [Peers -> Nat]]
        /\ warp_retired' \in [Workers -> BOOLEAN]
    <3>1. /\ y_done' \in [Peers -> SUBSET Tokens]
          /\ filled' \in [Peers -> SUBSET (0 .. num_max_send_tokens - 1)]
          /\ \A s \in Peers : filled'[s] \subseteq 0 .. round'[s] - 1
          /\ warp_retired' \in [Workers -> BOOLEAN]
          /\ warp_head' \in [Workers -> [Peers -> Nat]]
      BY <1>2
    <3>2. round' \in [Peers -> 0 .. num_max_send_tokens]
      BY <1>2, ConstantFacts
    <3> QED BY <3>1, <3>2
  <2>5. spc' \in [Peers -> {"idle", "wait", "fill"}]
    <3>1. spc' = [s \in Peers |-> spc'[s]] /\ \A s \in Peers : spc'[s] \in {"idle", "wait", "fill"}
      BY <1>2, <1>3
    <3> QED BY <3>1
  <2>6. /\ scan' \in Workers
        /\ min_head' \in [Peers -> Nat] /\ last_head' \in [Peers -> Nat]
        /\ upc' \in {"idle", "tail", "scan", "head"}
    <3>1. 1 \in Workers
      BY ConstantFacts DEF Workers
    <3> QED BY <1>2, <3>1, ConstantFacts
  <2>7. /\ wpc' \in [Workers -> {"idle", "wait", "head", "retire"}]
        /\ wtoken' \in [Workers -> Nat]
    <3>1. \A w \in Workers : First + w - 1 \in Nat
      BY <1>4
    <3> QED BY <1>2, <3>1
  <2> QED BY <1>1, <2>1, <2>2, <2>3, <2>4, <2>5, <2>6, <2>7 DEF TypeOK
<1>6. launch' > 0 /\ launch' # 0
  BY <1>1
<1>7. NothingBeforeFirst'
  BY <1>6 DEF NothingBeforeFirst
<1>8. WordsTruthful'
  <2>1. ASSUME NEW s \in Peers, NEW word \in {channel_head_idx[s], channel_tail_idx[s]}
        PROVE  /\ \A g \in Launches : word.seq = NvlSeq(g) => g <= launch'
               /\ NvlCursor(word, launch') = 0
    <3>1. \A g \in Launches : word.seq = NvlSeq(g) => g <= launch
      BY <2>1 DEF IInv, WordsTruthful
    <3>2. word.seq # NvlSeq(launch')
      BY <1>1, <3>1
    <3>3. \A g \in Launches : g \in Nat
      BY ConstantFacts DEF Launches
    <3> QED BY <1>1, <3>1, <3>2, <3>3 DEF NvlCursor
  <2>2. channel_head_idx' = channel_head_idx /\ channel_tail_idx' = channel_tail_idx
    BY <1>2 DEF slab
  <2>3. ASSUME NEW s \in Peers
        PROVE  /\ \A g \in Launches : channel_head_idx'[s].seq = NvlSeq(g) => g <= launch'
               /\ \A g \in Launches : channel_tail_idx'[s].seq = NvlSeq(g) => g <= launch'
               /\ NvlCursor(channel_head_idx'[s], launch') = last_head'[s]
               /\ NvlCursor(channel_tail_idx'[s], launch') <= current_tail'[s]
               /\ smem_tail'[s] <= current_tail'[s]
    BY <1>3, <2>1, <2>2
  <2> QED BY <2>3 DEF WordsTruthful, NvlCursor
<1>9. ASSUME NEW s \in Peers PROVE Shipped(s)' = {}
  <2>1. \A t \in Held(s)' : Pos(s, t)' \in Nat /\ Row(s, t)' = ChannelOffset(s)' + Pos(s, t)'
    BY <1>5, <1>6, HeldFactsNext
  <2>2. \A t \in Held(s)' : ~(Row(s, t)' < ChannelOffset(s)')
    BY <1>3, <2>1
  <2> QED BY <1>3, <2>2 DEF Shipped
<1>10. SenderPosition'
  <2>1. ASSUME NEW s \in Peers
        PROVE  /\ token_idx'[s] = ChannelOffset(s)' + current_tail'[s]
               /\ current_tail'[s] + round'[s] <= Total(s)'
               /\ current_tail'[s] + round'[s] - last_head'[s] <= num_recv_buffer_tokens
               /\ (spc'[s] = "wait" => current_tail'[s] < Total(s)')
               /\ (spc'[s] # "fill" => round'[s] = 0 /\ filled'[s] = {})
    BY <1>3, ConstantFacts
  <2> QED BY <1>9, <2>1 DEF SenderPosition
<1>11. ASSUME NEW w \in Workers, NEW s \in Peers PROVE Passed(w, s, 0)'
  <2>1. \A t \in Held(s)' : Pos(s, t)' \in Nat
    BY <1>5, <1>6, HeldFactsNext
  <2> QED BY <2>1 DEF Passed
<1>12. WorkerPosition'
  <2>1. ASSUME NEW w \in Workers
        PROVE  /\ wtoken'[w] >= First /\ OfWorker(w, wtoken'[w])
               /\ (wpc'[w] \in {"wait", "head"} <=> wtoken'[w] < Last)
               /\ (warp_retired'[w] => wtoken'[w] >= Last)
    BY <1>4
  <2>2. ASSUME NEW w \in Workers, NEW s \in Peers PROVE Passed(w, s, warp_head[w][s])'
    <3>1. warp_head'[w][s] = 0
      BY <1>2
    <3> QED BY <1>11, <3>1 DEF Passed
  <2> QED BY <2>1, <2>2 DEF WorkerPosition, OfWorker
<1>13. ScanProgress'
  <2>1. \A s \in Peers : min_head'[s] = IntMax
    BY <1>2
  <2>2. ASSUME NEW w \in Workers, NEW s \in Peers PROVE Passed(w, s, last_head[s])'
    BY <1>3, <1>11 DEF Passed
  <2> QED BY <1>2, <2>1, <2>2 DEF ScanProgress
<1>14. WrittenSoFar'
  <2>1. written' = written
    BY <1>2 DEF history
  <2>2. ASSUME NEW g \in Launches, g > launch' PROVE written[g] = {}
    <3>1. g > launch
      BY <1>1, <2>2, ConstantFacts DEF Launches
    <3> QED BY <3>1 DEF IInv, WrittenSoFar
  <2>3. written[launch'] = {}
    BY <1>1 DEF IInv, WrittenSoFar
  <2>4. ASSUME NEW t \in ChannelTokens, NEW w \in Workers, OfWorker(w, t)
        PROVE  ~(t < wtoken'[w]) /\ wpc'[w] # "head"
    <3>1. t \in Nat /\ First <= t /\ First \in Nat /\ NumWorkers \in Nat \ {0} /\ w \in 1 .. NumWorkers
      BY ConstantFacts DEF Workers
    <3>2. ASSUME t < First + w - 1 PROVE FALSE
      <4> DEFINE p == t - First
      <4>1. p \in 0 .. NumWorkers - 1 /\ p < w - 1 /\ p \in Nat
        BY <3>1, <3>2
      <4>2. p % NumWorkers = w - 1
        BY <2>4 DEF OfWorker
      <4> HIDE DEF p
      <4>3. p % NumWorkers = p
        BY <3>1, <4>1
      <4> QED BY <3>1, <4>1, <4>2, <4>3
    <3> QED BY <1>4, <3>2
  <2> QED BY <2>1, <2>2, <2>3, <2>4 DEF WrittenSoFar, OfWorker
<1>15. PendingPacketsIntact'
  BY <1>9, PendingShapeNext
<1> QED BY <1>1, <1>5, <1>7, <1>8, <1>10, <1>12, <1>13, <1>14, <1>15 DEF IInv

-----------------------------------------------------------------------------
LEMMA InitIInv == Init => IInv
<1> SUFFICES ASSUME Init PROVE IInv
  OBVIOUS
<1> USE DEF Init
<1>1. TypeOK
  <2>1. /\ 0 \in 0 .. NumLaunches /\ 0 \in 0 .. NumTokens /\ 0 \in 0 .. num_max_send_tokens
        /\ 1 \in Workers
    BY ConstantFacts DEF Workers
  <2>2. /\ channel_head_idx \in [Peers -> [seq : Nat, value : Nat]]
        /\ channel_tail_idx \in [Peers -> [seq : Nat, value : Nat]]
        /\ slots \in [Peers -> [0 .. num_recv_buffer_tokens - 1 -> Packet \cup {Empty}]]
        /\ is_token_in_rank \in [Layers -> [Peers -> SUBSET Tokens]]
        /\ send_head \in [Layers -> [Peers -> [Tokens -> Int]]]
        /\ written \in [Launches -> SUBSET ChannelTokens]
        /\ output \in [Launches -> [ChannelTokens -> SUBSET (Packet \cup {Empty})]]
    OBVIOUS
  <2>3. /\ y_done \in [Peers -> SUBSET Tokens] /\ spc \in [Peers -> {"idle", "wait", "fill"}]
        /\ filled \in [Peers -> SUBSET (0 .. num_max_send_tokens - 1)]
        /\ \A s \in Peers : filled[s] \subseteq 0 .. round[s] - 1
        /\ warp_head \in [Workers -> [Peers -> Nat]]
        /\ warp_retired \in [Workers -> BOOLEAN]
        /\ upc \in {"idle", "tail", "scan", "head"}
        /\ wpc \in [Workers -> {"idle", "wait", "head", "retire"}]
        /\ wtoken \in [Workers -> Nat]
    OBVIOUS
  <2>4. /\ token_idx \in [Peers -> 0 .. NumTokens] /\ current_tail \in [Peers -> 0 .. NumTokens]
        /\ round \in [Peers -> 0 .. num_max_send_tokens]
        /\ smem_tail \in [Peers -> 0 .. NumTokens]
        /\ scan \in Workers /\ min_head \in [Peers -> Nat] /\ last_head \in [Peers -> Nat]
        /\ launch \in 0 .. NumLaunches
    BY <2>1, ConstantFacts
  <2> QED BY <2>2, <2>3, <2>4 DEF TypeOK
<1>2. launch = 0 /\ ~(launch > 0)
  OBVIOUS
<1>3. NothingBeforeFirst
  BY DEF NothingBeforeFirst, Idle
<1>4. WordsTruthful
  BY <1>2, StampFacts DEF WordsTruthful
<1>5. HeadsOfRouting
  BY <1>2 DEF HeadsOfRouting
<1>6. WrittenSoFar
  BY <1>2 DEF WrittenSoFar
<1>7. SenderPosition /\ WorkerPosition /\ ScanProgress /\ PendingPacketsIntact
  BY <1>2 DEF SenderPosition, WorkerPosition, ScanProgress, PendingPacketsIntact
<1> QED BY <1>1, <1>3, <1>4, <1>5, <1>6, <1>7 DEF IInv

LEMMA StutterPreserves == IInv /\ UNCHANGED vars => IInv'
<1> SUFFICES ASSUME IInv, UNCHANGED vars PROVE IInv'
  OBVIOUS
<1> USE DEF vars
<1>1. TypeOK'
  BY DEF IInv, TypeOK, slab, routingVars, senderVars, smem, updaterVars, workerVars, history
<1>2. NothingBeforeFirst'
  BY DEF IInv, NothingBeforeFirst, Idle, routingVars, senderVars, updaterVars, workerVars
<1>3. WordsTruthful'
  BY FrameWords DEF IInv, slab, routingVars, senderVars, smem, updaterVars
<1>4. HeadsOfRouting'
  BY DEF IInv, HeadsOfRouting, routingVars
<1>5. SenderPosition'
  BY FrameSender DEF IInv, routingVars, updaterVars
<1>6. WorkerPosition'
  BY FrameWorker DEF IInv, routingVars, smem
<1>7. ScanProgress'
  BY FrameScan DEF IInv, routingVars, workerVars
<1>8. WrittenSoFar'
  BY FrameWritten DEF IInv, routingVars, history
<1>9. PendingPacketsIntact'
  BY FramePending DEF IInv, routingVars, slab, senderVars, workerVars
<1> QED BY <1>1, <1>2, <1>3, <1>4, <1>5, <1>6, <1>7, <1>8, <1>9 DEF IInv

(* The invariant is inductive: every reachable state of a rank's combine
   satisfies it, for every schedule, routing, ring and round size. *)
THEOREM InductiveInvariant == Spec => []IInv
<1>1. IInv /\ [Next]_vars => IInv'
  <2> SUFFICES ASSUME IInv, [Next]_vars PROVE IInv'
    OBVIOUS
  <2>1. CASE Launch
    BY <2>1, LaunchPreserves
  <2>2. CASE KernelStep
    BY <2>2, KernelReleasePreserves DEF KernelStep
  <2>3. CASE UpdaterStep
    BY <2>3, UpdateTailPreserves, ScanHeadPreserves, PublishHeadPreserves DEF UpdaterStep
  <2>4. CASE \E s \in Peers : SenderStep(s)
    BY <2>4, WaitForQueueSpacePreserves, FillSlotPreserves, PublishTailPreserves DEF SenderStep
  <2>5. CASE \E w \in Workers : WorkerStep(w)
    BY <2>5, ReducePreserves, UpdateHeadPreserves, RetirePreserves DEF WorkerStep
  <2>6. CASE Terminated \/ UNCHANGED vars
    BY <2>6, StutterPreserves DEF Terminated
  <2> QED BY <2>1, <2>2, <2>3, <2>4, <2>5, <2>6 DEF Next
<1> QED BY <1>1, InitIInv, PTL DEF Spec

(* Every cursor, word, shared-memory head and position keeps its range. *)
THEOREM TypeCorrect == Spec => []TypeOK
<1>1. IInv => TypeOK
  BY DEF IInv
<1> QED BY <1>1, InductiveInvariant, PTL

(* A sender never reuses the slot of a row that is still to be reduced,
   although the head it goes by was gathered from the workers one by one. *)
THEOREM PendingIntact == Spec => []PendingPacketsIntact
<1>1. IInv => PendingPacketsIntact
  BY DEF IInv
<1> QED BY <1>1, InductiveInvariant, PTL

-----------------------------------------------------------------------------
(* The refinement, step by step.  What CombineReduce calls routed and
   finished: *)
Routed == [s \in Peers |-> IF launch = 0 THEN {} ELSE Mask(s) \cap ChannelTokens]
Finished == [s \in Peers |-> IF launch = 0 THEN {}
               ELSE {t \in Mask(s) \cap ChannelTokens :
                       SelectedIn(Mask(s), 0, t) \in y_done[s]}]

LEMMA RoutedShape ==
  ASSUME launch # 0, NEW s \in Peers
  PROVE  /\ Routed[s] = Held(s)
         /\ Finished[s] = {t \in Held(s) : Row(s, t) \in y_done[s]}
  BY DEF Routed, Finished, Held, Row

(* When all threads of a launch have left, every token has been written. *)
LEMMA IdleIsWritten ==
  ASSUME IInv, launch > 0, Idle
  PROVE  written[launch] = ChannelTokens
<1>1. launch \in Launches /\ TypeOK
  <2>1. launch \in 0 .. NumLaunches
    BY DEF IInv, TypeOK
  <2> QED BY <2>1, ConstantFacts DEF Launches, IInv
<1>2. ASSUME NEW t \in ChannelTokens PROVE t \in written[launch]
  <2>1. t \in Nat /\ First <= t /\ t < Last /\ First \in Nat /\ Last \in Nat
        /\ NumWorkers \in Nat \ {0}
    BY ConstantFacts
  <2> DEFINE p == t - First
             w == (p % NumWorkers) + 1
  <2>2. p \in Nat
    BY <2>1
  <2> HIDE DEF p
  <2>3. p % NumWorkers \in 0 .. NumWorkers - 1
    BY <2>1, <2>2
  <2>4. w \in Workers /\ OfWorker(w, t)
    BY <2>1, <2>3 DEF Workers, OfWorker, p
  <2> HIDE DEF w
  <2>5. wtoken[w] \in Nat /\ ~(wtoken[w] < Last)
    <3>1. wpc[w] \notin {"wait", "head"}
      BY <2>4 DEF Idle
    <3>2. wpc[w] \in {"wait", "head"} <=> wtoken[w] < Last
      BY <2>4 DEF IInv, WorkerPosition
    <3> QED BY <2>4, <3>1, <3>2, WorkerFacts
  <2>6. t < wtoken[w]
    BY <2>1, <2>5
  <2> QED BY <2>4, <2>6 DEF IInv, WrittenSoFar
<1> QED BY <1>1, <1>2 DEF TypeOK

LEMMA LaunchIsStart == IInv /\ Launch => Reduction!Start
<1> SUFFICES ASSUME IInv, Launch PROVE Reduction!Start
  OBVIOUS
<1>1. /\ launch' = launch + 1 /\ launch' \in Launches /\ launch' \in Nat /\ launch \in Nat
      /\ is_token_in_rank' \in [Layers -> [Peers -> SUBSET Tokens]]
  BY LaunchRouting
<1>2. launch > 0 => written[launch] = ChannelTokens
  BY IdleIsWritten DEF Launch
<1>3. Routed' \in [Peers -> SUBSET ChannelTokens]
  BY DEF Routed
<1>4. Finished' = [s \in Peers |-> {}]
  <2>1. \A s \in Peers : y_done'[s] = {}
    BY DEF Launch
  <2> QED BY <2>1 DEF Finished
<1>5. UNCHANGED <<written, output>>
  BY DEF Launch, history
<1> QED BY <1>1, <1>2, <1>3, <1>4, <1>5 DEF Reduction!Start, Routed, Finished

LEMMA ReleaseIsFinish ==
  ASSUME IInv, NEW s \in Peers, NEW row, KernelRelease(s, row)
  PROVE  \E t \in ChannelTokens : Reduction!Finish(s, t)
<1> DEFINE t == RowToken(s, row)
<1>0. TypeOK /\ launch > 0 /\ launch # 0 /\ row \notin y_done[s]
      /\ UNCHANGED <<slab, routingVars, history>>
      /\ y_done' = [y_done EXCEPT ![s] = @ \cup {row}]
  BY DEF IInv, KernelRelease
<1>1. t \in Held(s) /\ Row(s, t) = row
  <2>1. row \in ChannelOffset(s) .. RowsEnd(s) - 1
    BY DEF KernelRelease
  <2>2. ChannelOffset(s) \in Nat /\ Total(s) \in Nat /\ RowsEnd(s) = ChannelOffset(s) + Total(s)
    BY <1>0, MaskFacts
  <2> DEFINE p == row - ChannelOffset(s)
  <2>3. p \in Nat /\ p < Total(s) /\ row = ChannelOffset(s) + p
    BY <2>1, <2>2
  <2> HIDE DEF p
  <2>4. t \in Held(s) /\ Pos(s, t) = p
    BY <1>0, <2>3, RowTokenFacts
  <2>5. Row(s, t) = ChannelOffset(s) + Pos(s, t)
    BY <1>0, <2>4, HeldFacts
  <2> QED BY <2>3, <2>4, <2>5
<1> HIDE DEF t
<1>2. \A u \in Held(s) : Row(s, u) = row => u = t
  <2> SUFFICES ASSUME NEW u \in Held(s), Row(s, u) = row PROVE u = t
    OBVIOUS
  <2>1. /\ Row(s, u) = ChannelOffset(s) + Pos(s, u) /\ Pos(s, u) \in Nat
        /\ Row(s, t) = ChannelOffset(s) + Pos(s, t) /\ Pos(s, t) \in Nat
        /\ ChannelOffset(s) \in Nat
    BY <1>0, <1>1, HeldFacts, MaskFacts
  <2>2. Pos(s, u) = Pos(s, t)
    BY <1>1, <2>1
  <2> QED BY <1>0, <1>1, <2>2, PosOrder
<1>3. Routed' = Routed
  BY <1>0 DEF Routed, Mask, routingVars
<1>4. Finished' = [Finished EXCEPT ![s] = @ \cup {t}]
  <2>1. ASSUME NEW q \in Peers
        PROVE  Finished'[q] = IF q = s THEN Finished[q] \cup {t} ELSE Finished[q]
    <3>1. Finished[q] = {u \in Held(q) : Row(q, u) \in y_done[q]}
      BY <1>0, RoutedShape
    <3>2. Finished'[q] = {u \in Held(q) : Row(q, u) \in y_done'[q]}
      BY <1>0 DEF Finished, Held, Row, Mask, routingVars
    <3>3. y_done'[q] = IF q = s THEN y_done[q] \cup {row} ELSE y_done[q]
      BY <1>0 DEF TypeOK
    <3>4. CASE q = s
      BY <1>1, <1>2, <3>1, <3>2, <3>3, <3>4
    <3>5. CASE q # s
      BY <3>1, <3>2, <3>3, <3>5
    <3> QED BY <3>4, <3>5
  <2>2. /\ Finished = [q \in Peers |-> Finished[q]] /\ Finished' = [q \in Peers |-> Finished'[q]]
    BY DEF Finished
  <2> HIDE DEF Finished
  <2> QED BY <2>1, <2>2
<1>5. t \in Routed[s] \ Finished[s] /\ t \in ChannelTokens
  BY <1>0, <1>1, RoutedShape DEF Held
<1>6. UNCHANGED <<launch, written, output>>
  BY <1>0 DEF routingVars, history
<1> QED BY <1>3, <1>4, <1>5, <1>6 DEF Reduction!Finish, Routed, Finished

LEMMA ReduceIsCombine ==
  ASSUME IInv, NEW w \in Workers, Reduce(w)
  PROVE  \E t \in ChannelTokens : Reduction!Combine(t)
<1> DEFINE t == wtoken[w]
<1>1. /\ launch > 0 /\ launch \in Launches /\ t \in ChannelTokens /\ t \notin written[launch]
      /\ \A s \in Peers : t \in Mask(s) => Row(s, t) \in y_done[s]
      /\ written' = [written EXCEPT ![launch] = @ \cup {t}]
      /\ output' = [output EXCEPT ![launch][t] =
           {Contributed(s, t) : s \in {q \in Peers : t \in Mask(q)}}]
  BY ReduceSums
<1>2. UNCHANGED <<routingVars, y_done>>
  BY DEF Reduce
<1> HIDE DEF t
<1>3. launch # 0
  BY <1>1
<1>4. ASSUME NEW s \in Peers
      PROVE  (t \in Routed[s] <=> t \in Mask(s)) /\ (t \in Routed[s] => t \in Finished[s])
  BY <1>1, <1>3, RoutedShape DEF Held
<1>5. {Contributed(s, t) : s \in {q \in Peers : t \in Mask(q)}}
        = {Reduction!Contribution(launch, r, t) : r \in {q \in Peers : t \in Routed[q]}}
  <2>1. {q \in Peers : t \in Mask(q)} = {q \in Peers : t \in Routed[q]}
    BY <1>4
  <2>2. \A r : Contributed(r, t) = Reduction!Contribution(launch, r, t)
    BY DEF Contributed, Reduction!Contribution
  <2> QED BY <2>1, <2>2
<1>6. UNCHANGED <<launch, Routed, Finished>>
  BY <1>2 DEF Routed, Finished, Mask, routingVars
<1>7. output' = [output EXCEPT ![launch][t] =
        {Reduction!Contribution(launch, r, t) : r \in {q \in Peers : t \in Routed[q]}}]
  BY <1>1, <1>5
<1> QED BY <1>1, <1>4, <1>6, <1>7 DEF Reduction!Combine, Routed, Finished

(* The block that reduces implements CombineReduce: a launch is a Start, the
   release of a row a Finish, the sum of a token a Combine, and every other
   step of senders, updater and workers leaves the abstract state alone. *)
THEOREM ImplementsReduce == Spec => ImplementsCombineReduce
<1>1. Init => Reduction!Init
  BY DEF Init, Reduction!Init
<1>2. IInv /\ [Next]_vars => [Reduction!Next]_Reduction!vars
  <2> SUFFICES ASSUME IInv, [Next]_vars PROVE [Reduction!Next]_Reduction!vars
    OBVIOUS
  <2>1. CASE Launch
    BY <2>1, LaunchIsStart DEF Reduction!Next
  <2>2. CASE KernelStep
    BY <2>2, ReleaseIsFinish DEF KernelStep, Reduction!Next
  <2>3. CASE \E w \in Workers : Reduce(w)
    BY <2>3, ReduceIsCombine DEF Reduction!Next
  <2>4. CASE UNCHANGED <<routingVars, y_done, history>>
    BY <2>4 DEF Reduction!vars, Mask, routingVars, history
  <2>5. [Next]_vars /\ ~Launch /\ ~KernelStep /\ (\A w \in Workers : ~Reduce(w))
          => UNCHANGED <<routingVars, y_done, history>>
    BY DEF Next, Terminated, vars, UpdaterStep, UpdateTail, ScanHead, PublishHead,
       SenderStep, WaitForQueueSpace, FillSlot, PublishTail, WorkerStep, UpdateHead, Retire
  <2> QED BY <2>1, <2>2, <2>3, <2>4, <2>5
<1> QED BY <1>1, <1>2, InductiveInvariant, PTL DEF Spec, ImplementsCombineReduce, Reduction!Spec
=============================================================================
