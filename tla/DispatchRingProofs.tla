-------------------------- MODULE DispatchRingProofs -------------------------
(***************************************************************************)
(* Theorems about DispatchRing for every schedule, routing, ring capacity  *)
(* and chunk size: its types, that unread packets stay intact, that a      *)
(* completed launch is whole, that rows and send_head name the right       *)
(* packets, that a rejected word is an old one, and that the ring          *)
(* implements SubstreamFifo.                                               *)
(***************************************************************************)
EXTENDS DispatchRing, ChannelOpsProofs, SequenceTheorems, TLAPS

(***************************************************************************)
(* The inductive invariant, in parts.  NumSent and NumRead are the cursors *)
(* as the history shows them.                                              *)
(***************************************************************************)
NumSent(g) == Len(sent[g])
NumRead(g) == Len(received[g])

(* A control word is from the zeroed slab or from a launch its writer has
   entered, and says no more than that launch has done. *)
WordsTruthful ==
  /\ \A g \in Launches : channel_start_offset.seq = NvlSeq(g) =>
       /\ g <= sg
       /\ channel_start_offset.value = -SelectedIn(Mask(g), 0, First) - 1
  /\ \A g \in Launches : channel_end_offset.seq = NvlSeq(g) =>
       /\ g <= sg
       /\ channel_end_offset.value = -SelectedIn(Mask(g), 0, Last) - 1
  /\ \A g \in Launches : channel_tail_idx.seq = NvlSeq(g) =>
       g <= sg /\ channel_tail_idx.value <= NumSent(g)
  /\ \A g \in Launches : channel_head_idx.seq = NvlSeq(g) =>
       g <= rg /\ channel_head_idx.value <= NumRead(g)

(* Where the sender stands: it has sent the selected tokens before token_idx,
   and holds room for the rest of its chunk. *)
SenderPosition ==
  /\ \A g \in Launches : g > sg => sent[g] = << >>
  /\ \A g \in Launches : g <= sg => NumSent(g) <= SelectedIn(Mask(g), First, Last)
  /\ sg > 0 => NumSent(sg) = sent_tail
  /\ spc # "idle" =>
       /\ sg > 0
       /\ First <= token_idx /\ token_idx <= Last
       /\ sent_tail = SelectedIn(Mask(sg), First, token_idx)
  /\ spc \in {"start", "end"} => token_idx = First
  /\ spc = "wait" => token_idx < Last
  /\ spc = "fill" => sent_tail + (num_max_send_tokens - chunk_token_idx) - NumRead(sg)
                       <= num_recv_buffer_tokens
  /\ sg > 0 => NumSent(sg) - NumRead(sg) <= num_recv_buffer_tokens

(* Where the receiver stands.  While it takes packets, sender and receiver are
   in the same launch, and the tail it took its batch from is still there. *)
ReceiverPosition ==
  /\ \A g \in Launches : g > rg => received[g] = << >>
  /\ \A g \in Launches : g <= ReceiversDone =>
       g <= sg /\ NumRead(g) = SelectedIn(Mask(g), First, Last)
  /\ rpc # "idle" => rg > 0
  /\ rpc \in {"start", "end"} => read_head = 0 /\ NumRead(rg) = 0
  /\ rpc = "end" => rg <= sg /\ total_offset = SelectedIn(Mask(rg), 0, First)
  /\ rpc \in {"poll", "read", "publish"} =>
       /\ rg = sg
       /\ num_tokens_to_recv > 0
       /\ num_tokens_to_recv + read_head = SelectedIn(Mask(rg), First, Last)
  /\ rpc = "poll" => /\ NumRead(rg) = read_head
                     /\ read_head > 0 => /\ channel_tail_idx.seq = NvlSeq(rg)
                                         /\ read_head <= channel_tail_idx.value
  /\ rpc \in {"read", "publish"} => /\ NumRead(rg) = batch_pos
                                    /\ read_head < batch_tail
                                    /\ read_head <= batch_pos
                                    /\ channel_tail_idx.seq = NvlSeq(rg)
                                    /\ batch_tail <= channel_tail_idx.value
  /\ rpc = "read" => batch_pos < batch_tail
  /\ rpc = "publish" => batch_pos = batch_tail

(* A launch that the sender has left is drained or had nothing to send, and
   what was read is what was sent. *)
Transport ==
  /\ \A g \in Launches : g < sg => g <= ReceiversDone \/ Mask(g) = {}
  /\ \A g \in Launches : NumRead(g) <= NumSent(g)
  /\ \A g \in Launches : \A i \in 1 .. NumRead(g) : received[g][i] = sent[g][i]
  /\ UnreadPacketsIntact

(* The i-th packet of a launch is its i-th selected token of the channel; the
   receiver's row counter runs ahead of the channel's first row by the packets
   it has published as read. *)
RowCount ==
  /\ \A g \in Launches : \A i \in 1 .. NumSent(g) :
       /\ sent[g][i].token \in First .. Last - 1
       /\ SelectedIn(Mask(g), First, sent[g][i].token) = i - 1
  /\ rpc \in {"poll", "read", "publish"} =>
       total_offset = SelectedIn(Mask(rg), 0, First) + read_head
  /\ \A g \in Launches :
       /\ Len(rows[g]) = NumRead(g)
       /\ \A i \in 1 .. NumRead(g) :
            rows[g][i] = SelectedIn(Mask(g), 0, First) + (i - 1)

IInv == /\ TypeOK /\ WordsTruthful /\ SenderPosition /\ ReceiverPosition
        /\ Transport /\ RowCount
-----------------------------------------------------------------------------
(* What the assumptions say of the channel, the ring and the stamps. *)
LEMMA ConstantFacts ==
  /\ First \in Nat /\ Last \in Nat /\ First <= Last
  /\ Tokens \subseteq Nat /\ First .. Last - 1 \subseteq Tokens
  /\ num_recv_buffer_tokens \in Nat \ {0} /\ num_max_send_tokens \in Nat \ {0}
  /\ NumLaunches \in Nat
<1>1. /\ NumTokens \in Nat /\ First \in 0 .. NumTokens /\ Last \in First .. NumTokens
  BY TokenAssumption, ChannelRange DEF First, Last
<1> QED BY <1>1, CapacityAssumption, ScheduleAssumption DEF Tokens

LEMMA StampFacts ==
  /\ \A g \in Launches : NvlSeq(g) \in Nat \ {0} /\ Schedule[g].layer \in Layers
  /\ \A g, h \in Launches : NvlSeq(g) = NvlSeq(h) => g = h
<1>1. ASSUME NEW g \in Launches
      PROVE  Schedule[g].layer \in Layers /\ Schedule[g].phase \in {0, 1}
  BY ScheduleAssumption
<1>2. ASSUME NEW g \in Launches
      PROVE  /\ Schedule[g].layer \in Layers /\ Schedule[g].layer \in Nat \ {0}
             /\ Schedule[g].phase \in {0, 1}
             /\ NvlSeq(g) \in Nat \ {0}
  <2>1. Schedule[g].layer \in Nat \ {0}
    BY <1>1, ScheduleAssumption
  <2> QED BY <1>1, <2>1 DEF NvlSeq
<1>3. ASSUME NEW g \in Launches, NEW h \in Launches, NvlSeq(g) = NvlSeq(h)
      PROVE  g = h
  <2>1. Schedule[g].layer = Schedule[h].layer /\ Schedule[g].phase = Schedule[h].phase
    BY <1>2, <1>3 DEF NvlSeq
  <2>2. Schedule[g] = Schedule[h]
    <3>1. /\ Schedule[g] \in [layer : Layers, phase : {0, 1}]
          /\ Schedule[h] \in [layer : Layers, phase : {0, 1}]
      BY ScheduleAssumption
    <3> QED BY <2>1, <3>1
  <2> QED BY <2>2, ScheduleAssumption
<1> QED BY <1>2, <1>3

(* What the types say of one launch. *)
LEMMA LaunchFacts ==
  ASSUME TypeOK, NEW g \in Launches
  PROVE  /\ g \in Nat /\ g > 0
         /\ NumSent(g) \in Nat /\ NumRead(g) \in Nat
         /\ Mask(g) \in SUBSET Tokens /\ Mask(g) \in SUBSET Nat
         /\ SelectedIn(Mask(g), 0, First) \in Nat
         /\ SelectedIn(Mask(g), First, Last) \in Nat
         /\ SelectedIn(Mask(g), 0, Last)
              = SelectedIn(Mask(g), 0, First) + SelectedIn(Mask(g), First, Last)
         /\ Mask(g) = {} => SelectedIn(Mask(g), First, Last) = 0
<1>1. g \in Nat /\ g > 0 /\ NumSent(g) \in Nat /\ NumRead(g) \in Nat
  BY ConstantFacts, LenProperties DEF TypeOK, Launches, NumSent, NumRead
<1>2. Mask(g) \in SUBSET Tokens /\ Mask(g) \in SUBSET Nat
  BY ConstantFacts, StampFacts DEF TypeOK, Mask
<1> DEFINE mask == Mask(g)
<1> HIDE DEF mask
<1>3. /\ SelectedIn(mask, 0, First) \in Nat
      /\ SelectedIn(mask, First, Last) \in Nat
      /\ mask = {} => SelectedIn(mask, First, Last) = 0
  BY <1>2, ConstantFacts, SelectedType DEF mask
<1>4. SelectedIn(mask, 0, Last) = SelectedIn(mask, 0, First) + SelectedIn(mask, First, Last)
  <2>1. 0 <= First
    BY ConstantFacts
  <2> QED BY <1>2, <2>1, ConstantFacts, SelectedSplit DEF mask
<1> QED BY <1>1, <1>2, <1>3, <1>4 DEF mask

-----------------------------------------------------------------------------
LEMMA InitImpliesIInv == Init => IInv
<1> SUFFICES ASSUME Init PROVE IInv
  OBVIOUS
<1>1. TypeOK
  BY ConstantFacts DEF Init, TypeOK
<1>2. \A g \in Launches : NumSent(g) = 0 /\ NumRead(g) = 0 /\ Len(rows[g]) = 0
  BY DEF Init, NumSent, NumRead
<1>3. WordsTruthful
  BY StampFacts DEF Init, WordsTruthful
<1>4. SenderPosition
  BY <1>1, <1>2, LaunchFacts DEF Init, SenderPosition
<1>5. ReceiverPosition
  BY <1>1, <1>2, LaunchFacts DEF Init, ReceiverPosition, ReceiversDone
<1>6. Transport
  BY <1>1, <1>2, LaunchFacts DEF Init, Transport, UnreadPacketsIntact, NumSent, NumRead
<1>7. RowCount
  BY <1>2 DEF Init, RowCount
<1> QED BY <1>1, <1>3, <1>4, <1>5, <1>6, <1>7 DEF IInv
-----------------------------------------------------------------------------
(* Steps that leave a part of the invariant's state alone. *)
positionVars == <<sg, spc, token_idx, chunk_token_idx, sent_tail, is_token_in_rank>>

LEMMA FrameSender ==
  SenderPosition /\ UNCHANGED <<positionVars, sent, received>> => SenderPosition'
  BY DEF SenderPosition, positionVars, NumSent, NumRead, Mask

LEMMA FrameReceiver ==
  ReceiverPosition
    /\ UNCHANGED <<receiverVars, sg, is_token_in_rank, received, channel_tail_idx>>
    => ReceiverPosition'
  BY DEF ReceiverPosition, receiverVars, NumRead, Mask, ReceiversDone

LEMMA FrameTransport ==
  Transport /\ UNCHANGED <<sg, is_token_in_rank, ReceiversDone, slots, sent, received>>
    => Transport'
  BY DEF Transport, UnreadPacketsIntact, NumSent, NumRead, Mask

LEMMA FrameRows ==
  RowCount /\ UNCHANGED <<rg, rpc, total_offset, read_head, is_token_in_rank, history>>
    => RowCount'
  BY DEF RowCount, history, NumSent, NumRead, Mask

(* The sender is in a launch that exists. *)
LEMMA SenderFacts ==
  ASSUME IInv, spc # "idle"
  PROVE  sg \in Launches /\ sg \in Nat /\ sg > 0 /\ NumSent(sg) = sent_tail
  BY ConstantFacts DEF IInv, TypeOK, SenderPosition, Launches

LEMMA ReceiverFacts ==
  ASSUME IInv, rpc # "idle"
  PROVE  rg \in Launches /\ rg \in Nat /\ rg > 0 /\ ReceiversDone = rg - 1
  BY ConstantFacts DEF IInv, TypeOK, ReceiverPosition, Launches, ReceiversDone

-----------------------------------------------------------------------------
(* One lemma per action: it preserves the inductive invariant. *)
LEMMA PublishStartPreserves == IInv /\ PublishStart => IInv'
<1> SUFFICES ASSUME IInv, PublishStart PROVE IInv'
  OBVIOUS
<1> USE DEF PublishStart
<1>0. /\ sg \in Launches /\ TypeOK /\ NvlSeq(sg) \in Nat
      /\ SelectedIn(Mask(sg), 0, First) \in Nat
  <2>1. sg \in Launches /\ TypeOK /\ NvlSeq(sg) \in Nat
    BY SenderFacts, StampFacts DEF IInv
  <2> QED BY <2>1, LaunchFacts
<1>1. TypeOK'
  <2>1. channel_start_offset' \in [seq : Nat, value : Int]
    BY <1>0 DEF NvlPack
  <2> QED BY <1>0, <2>1 DEF TypeOK, receiverVars, history
<1>2. WordsTruthful'
  <2>1. ASSUME NEW g \in Launches, channel_start_offset'.seq = NvlSeq(g)
        PROVE  /\ g <= sg
               /\ channel_start_offset'.value = -SelectedIn(Mask(g), 0, First) - 1
    <3>1. g = sg
      BY <1>0, <2>1, StampFacts DEF NvlPack
    <3> QED BY <1>0, <3>1 DEF NvlPack, TypeOK
  <2> QED BY <2>1 DEF IInv, WordsTruthful, Mask, NumSent, NumRead, receiverVars, history
<1>3. SenderPosition'
  BY DEF IInv, SenderPosition, NumSent, NumRead, Mask, history
<1>4. ReceiverPosition'
  BY FrameReceiver DEF IInv, receiverVars, history
<1>5. Transport'
  BY FrameTransport DEF IInv, history, receiverVars, ReceiversDone
<1>6. RowCount'
  BY FrameRows DEF IInv, history, receiverVars
<1> QED BY <1>1, <1>2, <1>3, <1>4, <1>5, <1>6 DEF IInv

LEMMA PublishEndPreserves == IInv /\ PublishEnd => IInv'
<1> SUFFICES ASSUME IInv, PublishEnd PROVE IInv'
  OBVIOUS
<1> USE DEF PublishEnd
<1>0. /\ sg \in Launches /\ TypeOK /\ NvlSeq(sg) \in Nat
      /\ SelectedIn(Mask(sg), 0, Last) \in Nat
  <2>1. sg \in Launches /\ TypeOK /\ NvlSeq(sg) \in Nat
    BY SenderFacts, StampFacts DEF IInv
  <2> QED BY <2>1, LaunchFacts
<1>1. TypeOK'
  <2>1. channel_end_offset' \in [seq : Nat, value : Int]
    BY <1>0 DEF NvlPack
  <2> QED BY <1>0, <2>1 DEF TypeOK, receiverVars, history
<1>2. WordsTruthful'
  <2>1. ASSUME NEW g \in Launches, channel_end_offset'.seq = NvlSeq(g)
        PROVE  /\ g <= sg
               /\ channel_end_offset'.value = -SelectedIn(Mask(g), 0, Last) - 1
    <3>1. g = sg
      BY <1>0, <2>1, StampFacts DEF NvlPack
    <3> QED BY <1>0, <3>1 DEF NvlPack, TypeOK
  <2> QED BY <2>1 DEF IInv, WordsTruthful, Mask, NumSent, NumRead, receiverVars, history
<1>3. SenderPosition'
  BY DEF IInv, SenderPosition, NumSent, NumRead, Mask, history
<1>4. ReceiverPosition'
  BY FrameReceiver DEF IInv, receiverVars, history
<1>5. Transport'
  BY FrameTransport DEF IInv, history, receiverVars, ReceiversDone
<1>6. RowCount'
  BY FrameRows DEF IInv, history, receiverVars
<1> QED BY <1>1, <1>2, <1>3, <1>4, <1>5, <1>6 DEF IInv

(* The head the sender reads is at most what has been taken out. *)
LEMMA WaitForQueueSpacePreserves == IInv /\ WaitForQueueSpace => IInv'
<1> SUFFICES ASSUME IInv, WaitForQueueSpace PROVE IInv'
  OBVIOUS
<1> USE DEF WaitForQueueSpace
<1>0. sg \in Launches /\ TypeOK
  BY SenderFacts DEF IInv
<1>1. TypeOK'
  BY ConstantFacts DEF IInv, TypeOK, slab, receiverVars, history
<1>2. WordsTruthful'
  BY DEF IInv, WordsTruthful, Mask, NumSent, NumRead, slab, receiverVars, history
<1>3. SenderPosition'
  <2>1. NvlCursor(channel_head_idx, sg) \in Nat
        /\ NvlCursor(channel_head_idx, sg) <= NumRead(sg)
    <3>1. NumRead(sg) \in Nat /\ channel_head_idx.value \in Nat
      BY <1>0, LaunchFacts DEF TypeOK
    <3> QED BY <1>0, <3>1 DEF IInv, WordsTruthful, NvlCursor, NvlMatch
  <2>2. /\ sent_tail \in Nat /\ NumRead(sg) \in Nat
        /\ num_recv_buffer_tokens \in Nat /\ num_max_send_tokens \in Nat
    BY <1>0, LaunchFacts, ConstantFacts DEF TypeOK
  <2>3. sent_tail + (num_max_send_tokens - 0) - NumRead(sg) <= num_recv_buffer_tokens
    BY <2>1, <2>2
  <2> QED BY <2>3 DEF IInv, SenderPosition, NumSent, NumRead, Mask, history
<1>4. ReceiverPosition'
  BY FrameReceiver DEF IInv, slab, history
<1>5. Transport'
  BY FrameTransport DEF IInv, slab, history, receiverVars, ReceiversDone
<1>6. RowCount'
  BY FrameRows DEF IInv, receiverVars
<1> QED BY <1>1, <1>2, <1>3, <1>4, <1>5, <1>6 DEF IInv

LEMMA NoteHeadType ==
  ASSUME TypeOK, NEW h \in Int, NoteHead(h)
  PROVE  send_head' \in [Layers -> [Tokens -> Int]]
<1> DEFINE l == Schedule[sg].layer
           noted == [send_head[l] EXCEPT ![token_idx] = h]
<1>1. send_head' = IF IsForward(sg) THEN [send_head EXCEPT ![l] = noted] ELSE send_head
  BY DEF NoteHead
<1>2. l \in Layers => noted \in [Tokens -> Int]
  BY DEF TypeOK
<1> HIDE DEF l, noted
<1> QED BY <1>1, <1>2 DEF TypeOK

LEMMA SkipTokenPreserves == IInv /\ SkipToken => IInv'
<1> SUFFICES ASSUME IInv, SkipToken PROVE IInv'
  OBVIOUS
<1> USE DEF SkipToken
<1>0. sg \in Launches /\ TypeOK
  BY SenderFacts DEF IInv
<1>1. TypeOK'
  <2>1. send_head' \in [Layers -> [Tokens -> Int]]
    BY NoteHeadType DEF IInv
  <2> QED BY <2>1 DEF IInv, TypeOK, slab, receiverVars, history
<1>2. WordsTruthful'
  BY DEF IInv, WordsTruthful, Mask, NumSent, NumRead, slab, receiverVars, history
<1>3. SenderPosition'
  <2>1. token_idx \in Nat /\ First <= token_idx /\ token_idx < Last /\ Last \in Nat
    BY ConstantFacts DEF IInv, TypeOK, SenderPosition, ChunkOpen
  <2>2. SelectedIn(Mask(sg), First, token_idx + 1) = SelectedIn(Mask(sg), First, token_idx)
    <3>1. Mask(sg) \in SUBSET Nat
      BY <1>0, LaunchFacts
    <3>2. SelectedIn(Mask(sg), First, token_idx) \in Nat
      BY <2>1, <3>1, ConstantFacts, SelectedType
    <3> QED BY <2>1, <3>1, <3>2, ConstantFacts, SelectedStep
  <2>3. First <= token_idx' /\ token_idx' <= Last
    BY <2>1, ConstantFacts
  <2> QED BY <2>2, <2>3 DEF IInv, SenderPosition, NumSent, NumRead, Mask, history
<1>4. ReceiverPosition'
  BY FrameReceiver DEF IInv, slab, history
<1>5. Transport'
  BY FrameTransport DEF IInv, slab, history, receiverVars, ReceiversDone
<1>6. RowCount'
  BY FrameRows DEF IInv, receiverVars
<1> QED BY <1>1, <1>2, <1>3, <1>4, <1>5, <1>6 DEF IInv

LEMMA PublishTailPreserves == IInv /\ PublishTail => IInv'
<1> SUFFICES ASSUME IInv, PublishTail PROVE IInv'
  OBVIOUS
<1> USE DEF PublishTail
<1>0. sg \in Launches /\ TypeOK /\ NvlSeq(sg) \in Nat /\ NumSent(sg) = sent_tail
  BY SenderFacts, StampFacts DEF IInv
<1>1. TypeOK'
  <2>1. channel_tail_idx' \in [seq : Nat, value : Nat]
    BY <1>0 DEF NvlPack, TypeOK
  <2> QED BY <1>0, <2>1 DEF TypeOK, receiverVars, history
<1>2. WordsTruthful'
  <2>1. ASSUME NEW g \in Launches, channel_tail_idx'.seq = NvlSeq(g)
        PROVE  g <= sg /\ channel_tail_idx'.value <= NumSent(g)
    <3>1. g = sg
      BY <1>0, <2>1, StampFacts DEF NvlPack
    <3> QED BY <1>0, <3>1 DEF NvlPack, TypeOK
  <2> QED BY <2>1 DEF IInv, WordsTruthful, Mask, NumSent, NumRead, receiverVars, history
<1>3. SenderPosition'
  BY DEF IInv, SenderPosition, NumSent, NumRead, Mask, history
<1>4. ReceiverPosition'
  <2>1. rpc \in {"poll", "read", "publish"} =>
          /\ channel_tail_idx'.seq = NvlSeq(rg)
          /\ channel_tail_idx'.value = NumSent(rg)
    BY <1>0 DEF IInv, TypeOK, ReceiverPosition, NvlPack
  <2>2. rpc # "idle" => /\ rg \in Launches /\ NumRead(rg) <= NumSent(rg)
                        /\ NumRead(rg) \in Nat /\ NumSent(rg) \in Nat
    BY <1>0, LaunchFacts, ReceiverFacts DEF IInv, Transport
  <2>3. rpc \in {"read", "publish"} => batch_tail <= NumSent(rg)
    <3>1. rpc \in {"read", "publish"} => /\ batch_tail <= channel_tail_idx.value
                                         /\ channel_tail_idx.seq = NvlSeq(rg)
      BY DEF IInv, ReceiverPosition
    <3>2. rg \in Launches /\ channel_tail_idx.seq = NvlSeq(rg)
            => channel_tail_idx.value <= NumSent(rg)
      BY DEF IInv, WordsTruthful
    <3>3. batch_tail \in Nat /\ channel_tail_idx.value \in Nat
      BY DEF IInv, TypeOK
    <3> QED BY <2>2, <3>1, <3>2, <3>3
  <2>4. rpc = "poll" => read_head <= channel_tail_idx'.value
    BY <1>0, <2>1, <2>2 DEF TypeOK, IInv, ReceiverPosition, NvlPack
  <2>5. rpc \in {"read", "publish"} => batch_tail <= channel_tail_idx'.value
    BY <2>1, <2>3
  <2> QED BY <2>1, <2>4, <2>5
      DEF IInv, ReceiverPosition, receiverVars, history, NumRead, Mask, ReceiversDone
<1>5. Transport'
  BY FrameTransport DEF IInv, history, receiverVars, ReceiversDone
<1>6. RowCount'
  BY FrameRows DEF IInv, receiverVars
<1> QED BY <1>1, <1>2, <1>3, <1>4, <1>5, <1>6 DEF IInv

LEMMA FinishSendPreserves == IInv /\ FinishSend => IInv'
<1> SUFFICES ASSUME IInv, FinishSend PROVE IInv'
  OBVIOUS
<1> USE DEF FinishSend
<1>1. TypeOK'
  <2>1. ASSUME NEW l \in Layers
        PROVE  EncodeHeads(send_head[l], First, Last) \in [Tokens -> Int]
    BY ConstantFacts, EncodeHeadsType DEF IInv, TypeOK
  <2>2. send_head' \in [Layers -> [Tokens -> Int]]
    <3> DEFINE l == Schedule[sg].layer
               scanned == EncodeHeads(send_head[l], First, Last)
    <3>1. l \in Layers
      BY SenderFacts, StampFacts
    <3>2. scanned \in [Tokens -> Int]
      BY <2>1, <3>1
    <3>3. send_head' = IF IsForward(sg) THEN [send_head EXCEPT ![l] = scanned]
                                        ELSE send_head
      BY DEF IInv, TypeOK
    <3> HIDE DEF l, scanned
    <3> QED BY <3>2, <3>3 DEF IInv, TypeOK
  <2> QED BY <2>2 DEF IInv, TypeOK, slab, receiverVars, history
<1>2. WordsTruthful'
  BY DEF IInv, WordsTruthful, Mask, NumSent, NumRead, slab, receiverVars, history
<1>3. SenderPosition'
  BY DEF IInv, SenderPosition, NumSent, NumRead, Mask, history
<1>4. ReceiverPosition'
  BY FrameReceiver DEF IInv, slab, history
<1>5. Transport'
  BY FrameTransport DEF IInv, slab, history, receiverVars, ReceiversDone
<1>6. RowCount'
  BY FrameRows DEF IInv, receiverVars
<1> QED BY <1>1, <1>2, <1>3, <1>4, <1>5, <1>6 DEF IInv

(* What the history looks like after FillSlot. *)
LEMMA FillSlotEffect ==
  ASSUME IInv, FillSlot
  PROVE  /\ sg \in Launches /\ token_idx \in First .. Last - 1
         /\ sent' \in [Launches -> Seq(Packet)]
         /\ Len(sent'[sg]) = sent_tail + 1
         /\ sent'[sg][sent_tail + 1] = [launch |-> sg, token |-> token_idx]
         /\ \A i \in 1 .. sent_tail : sent'[sg][i] = sent[sg][i]
         /\ \A g \in Launches : g # sg => sent'[g] = sent[g]
<1> DEFINE packet == [launch |-> sg, token |-> token_idx]
<1>1. sg \in Launches /\ TypeOK /\ Len(sent[sg]) = sent_tail
  BY SenderFacts DEF IInv, FillSlot, NumSent
<1>2. token_idx \in First .. Last - 1
  BY <1>1, ConstantFacts DEF FillSlot, IInv, TypeOK, SenderPosition, ChunkOpen
<1>3. packet \in Packet
  BY <1>1, <1>2, ConstantFacts DEF Packet
<1>4. sent' = [sent EXCEPT ![sg] = Append(sent[sg], packet)]
  BY <1>1 DEF FillSlot, TypeOK
<1>5. sent[sg] \in Seq(Packet)
  BY <1>1 DEF TypeOK
<1> HIDE DEF packet
<1>6. /\ Append(sent[sg], packet) \in Seq(Packet)
      /\ Len(Append(sent[sg], packet)) = sent_tail + 1
      /\ Append(sent[sg], packet)[sent_tail + 1] = packet
      /\ \A i \in 1 .. sent_tail : Append(sent[sg], packet)[i] = sent[sg][i]
  BY <1>1, <1>3, <1>5, AppendProperties
<1>7. sent'[sg] = Append(sent[sg], packet)
  BY <1>1, <1>4 DEF TypeOK
<1>8. \A g \in Launches : g # sg => sent'[g] = sent[g]
  BY <1>1, <1>4 DEF TypeOK
<1>9. sent' \in [Launches -> Seq(Packet)]
  BY <1>1, <1>4, <1>6 DEF TypeOK
<1> QED BY <1>1, <1>2, <1>6, <1>7, <1>8, <1>9 DEF packet

LEMMA FillSlotPreserves == IInv /\ FillSlot => IInv'
<1> SUFFICES ASSUME IInv, FillSlot PROVE IInv'
  OBVIOUS
<1> DEFINE packet == [launch |-> sg, token |-> token_idx]
           R == num_recv_buffer_tokens
<1>0. /\ sg \in Launches /\ TypeOK /\ sg \in Nat /\ NumSent(sg) = sent_tail
      /\ sent_tail \in Nat /\ NumRead(sg) \in Nat /\ token_idx \in Nat
      /\ chunk_token_idx \in Nat /\ token_idx \in First .. Last - 1
      /\ R \in Nat \ {0} /\ Len(sent'[sg]) = sent_tail + 1 /\ packet \in Packet
  <2>1. sg \in Launches /\ TypeOK /\ sg \in Nat /\ NumSent(sg) = sent_tail
    BY SenderFacts DEF IInv, FillSlot
  <2>2. NumRead(sg) \in Nat
    BY <2>1, LaunchFacts
  <2>3. token_idx \in First .. Last - 1 /\ Len(sent'[sg]) = sent_tail + 1
    BY FillSlotEffect
  <2>4. R \in Nat \ {0} /\ token_idx \in Tokens
    BY <2>3, ConstantFacts
  <2>5. packet \in Packet
    BY <2>1, <2>4 DEF Packet
  <2>6. sent_tail \in Nat /\ token_idx \in Nat /\ chunk_token_idx \in Nat
    BY <2>1, ConstantFacts DEF TypeOK
  <2> HIDE DEF packet, R
  <2> QED BY <2>1, <2>2, <2>3, <2>4, <2>5, <2>6
<1>e. /\ sent'[sg][sent_tail + 1] = packet
      /\ \A i \in 1 .. sent_tail : sent'[sg][i] = sent[sg][i]
      /\ \A g \in Launches : g # sg => sent'[g] = sent[g]
  BY FillSlotEffect
<1>v. UNCHANGED <<channel_start_offset, channel_end_offset, channel_head_idx,
                  channel_tail_idx, sg, rg, is_token_in_rank, received>>
  BY DEF FillSlot, receiverVars
<1>r. NumRead(sg) <= sent_tail
  BY <1>0 DEF IInv, Transport
<1>s. \A g \in Launches : NumSent(g)' = IF g = sg THEN NumSent(g) + 1 ELSE NumSent(g)
  BY <1>0, FillSlotEffect DEF NumSent
<1>t. \A g \in Launches :
        /\ NumSent(g) \in Nat /\ NumRead(g) \in Nat
        /\ SelectedIn(Mask(g), First, Last) \in Nat
        /\ Mask(g) = {} => SelectedIn(Mask(g), First, Last) = 0
  BY <1>0, LaunchFacts
<1>u. \A g \in Launches : NumRead(g)' = NumRead(g) /\ Mask(g)' = Mask(g)
  BY DEF FillSlot, NumRead, Mask
<1>k. sent_tail + 1 - NumRead(sg) <= R
      /\ sent_tail + 1 + (num_max_send_tokens - (chunk_token_idx + 1)) - NumRead(sg) <= R
      /\ chunk_token_idx + 1 <= num_max_send_tokens
  BY <1>0, ConstantFacts DEF IInv, SenderPosition, FillSlot, ChunkOpen
<1>m. /\ SelectedIn(Mask(sg), First, token_idx + 1) = sent_tail + 1
      /\ SelectedIn(Mask(sg), First, token_idx + 1) <= SelectedIn(Mask(sg), First, Last)
      /\ SelectedIn(Mask(sg), First, token_idx) = sent_tail
  <2>1. Mask(sg) \in SUBSET Nat /\ token_idx \in Mask(sg) /\ First <= token_idx
        /\ token_idx + 1 \in Nat /\ token_idx + 1 <= Last /\ First <= token_idx + 1
    BY <1>0, LaunchFacts, ConstantFacts DEF FillSlot
  <2>2. SelectedIn(Mask(sg), First, token_idx) = sent_tail
    BY DEF FillSlot, IInv, SenderPosition
  <2>3. SelectedIn(Mask(sg), First, token_idx + 1) = sent_tail + 1
    BY <1>0, <2>1, <2>2, SelectedStep, ConstantFacts
  <2>4. SelectedIn(Mask(sg), token_idx + 1, Last) \in Nat
        /\ SelectedIn(Mask(sg), First, Last)
             = SelectedIn(Mask(sg), First, token_idx + 1)
               + SelectedIn(Mask(sg), token_idx + 1, Last)
    <3> DEFINE next == token_idx + 1
    <3>1. First \in Nat /\ Last \in Nat /\ next \in Nat /\ First <= next /\ next <= Last
      BY <2>1, ConstantFacts
    <3> HIDE DEF next
    <3>2. SelectedIn(Mask(sg), next, Last) \in Nat
      BY <2>1, <3>1, SelectedType
    <3>3. SelectedIn(Mask(sg), First, Last)
            = SelectedIn(Mask(sg), First, next) + SelectedIn(Mask(sg), next, Last)
      BY <2>1, <3>1, SelectedSplit
    <3> QED BY <3>2, <3>3 DEF next
  <2>5. SelectedIn(Mask(sg), First, token_idx + 1) \in Nat
    BY <1>0, <2>3
  <2> QED BY <2>2, <2>3, <2>4, <2>5
<1> HIDE DEF packet, R
<1>1. TypeOK'
  <2>1. send_head' \in [Layers -> [Tokens -> Int]]
    BY <1>0, NoteHeadType DEF FillSlot
  <2>2. slots' \in [0 .. num_recv_buffer_tokens - 1 -> Packet \cup {Empty}]
    BY <1>0 DEF TypeOK, FillSlot, packet
  <2>3. sent' \in [Launches -> Seq(Packet)]
    BY FillSlotEffect
  <2>4. chunk_token_idx' \in 0 .. num_max_send_tokens
        /\ sent_tail' \in Nat /\ token_idx' \in Nat
    BY <1>0, <1>k, ConstantFacts DEF FillSlot
  <2> QED BY <2>1, <2>2, <2>3, <2>4 DEF IInv, TypeOK, FillSlot, receiverVars
<1>2. WordsTruthful'
  <2>1. \A g \in Launches : channel_tail_idx.seq = NvlSeq(g) =>
          g <= sg /\ channel_tail_idx.value <= NumSent(g)'
    <3>1. channel_tail_idx.value \in Nat
      BY <1>0 DEF TypeOK
    <3>2. \A g \in Launches : channel_tail_idx.seq = NvlSeq(g) =>
            g <= sg /\ channel_tail_idx.value <= NumSent(g)
      BY DEF IInv, WordsTruthful
    <3>3. \A g \in Launches : NumSent(g) <= NumSent(g)' /\ NumSent(g)' \in Nat
      BY <1>s, <1>t
    <3> QED BY <1>t, <3>1, <3>2, <3>3
  <2>2. ASSUME NEW g \in Launches
        PROVE  /\ channel_start_offset'.seq = NvlSeq(g) =>
                    /\ g <= sg'
                    /\ channel_start_offset'.value = -SelectedIn(Mask(g)', 0, First) - 1
               /\ channel_end_offset'.seq = NvlSeq(g) =>
                    /\ g <= sg'
                    /\ channel_end_offset'.value = -SelectedIn(Mask(g)', 0, Last) - 1
               /\ channel_tail_idx'.seq = NvlSeq(g) =>
                    g <= sg' /\ channel_tail_idx'.value <= NumSent(g)'
               /\ channel_head_idx'.seq = NvlSeq(g) =>
                    g <= rg' /\ channel_head_idx'.value <= NumRead(g)'
    <3>1. WordsTruthful
      BY DEF IInv
    <3> QED BY <1>u, <1>v, <2>1, <3>1 DEF WordsTruthful
  <2> QED BY <2>2 DEF WordsTruthful
<1>3. SenderPosition'
  <2>1. \A g \in Launches : g > sg => sent'[g] = << >>
    BY <1>0, <1>e DEF IInv, SenderPosition
  <2>2. \A g \in Launches : g <= sg => NumSent(g)' <= SelectedIn(Mask(g), First, Last)
    BY <1>0, <1>s, <1>t, <1>m DEF IInv, SenderPosition
  <2>3. Len(sent'[sg]) = sent_tail + 1 /\ Len(sent'[sg]) - NumRead(sg) <= R
    BY <1>0, <1>k DEF R
  <2>4. /\ sg > 0 /\ First <= token_idx + 1 /\ token_idx + 1 <= Last
        /\ sent_tail + 1 = SelectedIn(Mask(sg), First, token_idx + 1)
    BY <1>0, <1>m, ConstantFacts DEF Launches
  <2> QED BY <2>1, <2>2, <2>3, <2>4, <1>k, <1>u
      DEF SenderPosition, FillSlot, NumSent, NumRead, Mask, R
<1>4. ReceiverPosition'
  BY FrameReceiver DEF IInv, FillSlot
<1>5. Transport'
  <2>1. \A g \in Launches : NumRead(g)' <= NumSent(g)'
    BY <1>0, <1>s, <1>t, <1>u, LaunchFacts DEF IInv, Transport
  <2>2. \A g \in Launches : \A i \in 1 .. NumRead(g) : received'[g][i] = sent'[g][i]
    BY <1>0, <1>e, <1>r DEF IInv, Transport, FillSlot
  <2>3. UnreadPacketsIntact'
    <3> SUFFICES ASSUME NEW g \in Launches, NEW i \in NumRead(g) + 1 .. NumSent(g)'
                 PROVE  slots'[(i - 1) % R] = sent'[g][i]
      BY <1>u DEF UnreadPacketsIntact, NumSent, NumRead, R, FillSlot
    <3>1. slots' = [slots EXCEPT ![sent_tail % R] = packet]
          /\ slots \in [0 .. R - 1 -> Packet \cup {Empty}]
      BY <1>0 DEF FillSlot, packet, R, TypeOK
    <3>2. NumRead(g) \in Nat
      BY <1>0, LaunchFacts
    <3>3. CASE g # sg
      <4>1. NumSent(g)' = NumSent(g) /\ sent'[g] = sent[g]
        BY <1>e, <1>s, <3>3
      <4>2. g < sg => NumSent(g) <= NumRead(g)
        <5>1. SUFFICES ASSUME g < sg PROVE NumSent(g) <= NumRead(g)
          OBVIOUS
        <5>2. NumSent(g) <= SelectedIn(Mask(g), First, Last)
          BY <1>0, <5>1 DEF IInv, SenderPosition, Launches
        <5>3. CASE g <= ReceiversDone
          BY <1>t, <5>2, <5>3 DEF IInv, ReceiverPosition
        <5>4. CASE Mask(g) = {}
          BY <5>2, <5>4, <1>t
        <5> QED BY <5>1, <5>3, <5>4 DEF IInv, Transport
      <4>3. g > sg => NumSent(g) = 0
        BY DEF IInv, SenderPosition, NumSent
      <4> QED BY <1>0, <1>t, <3>2, <3>3, <4>1, <4>2, <4>3 DEF Launches
    <3>4. CASE g = sg /\ i = sent_tail + 1
      BY <1>0, <1>e, <3>1, <3>4
    <3>5. CASE g = sg /\ i # sent_tail + 1
      <4>1. i \in NumRead(g) + 1 .. NumSent(g) /\ i \in 1 .. sent_tail /\ i - 1 \in Nat
            /\ i - 1 < sent_tail /\ sent_tail - (i - 1) < R
        BY <1>0, <1>s, <1>k, <3>2, <3>5
      <4>2. slots[(i - 1) % R] = sent[g][i]
        BY <4>1 DEF IInv, Transport, UnreadPacketsIntact, NumRead, NumSent, R
      <4>3. (i - 1) % R # sent_tail % R /\ (i - 1) % R \in 0 .. R - 1
        <5>1. R \in Nat \ {0} /\ i - 1 \in Nat /\ sent_tail \in Nat
              /\ i - 1 < sent_tail /\ sent_tail - (i - 1) < R
          BY <1>0, <4>1
        <5>2. (i - 1) % R \in 0 .. R - 1
          BY <5>1
        <5> QED BY <5>1, <5>2, ModDistinct
      <4> QED BY <1>e, <3>1, <3>5, <4>1, <4>2, <4>3
    <3> QED BY <3>3, <3>4, <3>5
  <2> QED BY <1>u, <2>1, <2>2, <2>3
      DEF IInv, Transport, FillSlot, receiverVars, NumRead, Mask, ReceiversDone
<1>6. RowCount'
  <2>1. ASSUME NEW g \in Launches, NEW i \in 1 .. NumSent(g)'
        PROVE  /\ sent'[g][i].token \in First .. Last - 1
               /\ SelectedIn(Mask(g), First, sent'[g][i].token) = i - 1
    <3>1. CASE g = sg /\ i = sent_tail + 1
      BY <1>0, <1>e, <1>m, <3>1 DEF packet
    <3>2. CASE ~(g = sg /\ i = sent_tail + 1)
      <4>1. i \in 1 .. NumSent(g) /\ sent'[g][i] = sent[g][i]
        BY <1>0, <1>e, <1>s, <1>t, <2>1, <3>2 DEF NumSent
      <4> QED BY <4>1 DEF IInv, RowCount
    <3> QED BY <3>1, <3>2
  <2> QED BY <2>1, <1>u DEF IInv, RowCount, FillSlot, receiverVars, NumSent, NumRead, Mask
<1> QED BY <1>1, <1>2, <1>3, <1>4, <1>5, <1>6 DEF IInv

(* A new forward launch chooses the routing of its own layer only, and no
   earlier launch is of that layer. *)
LEMMA MaskStable ==
  ASSUME IInv, LaunchSend, NEW g \in Launches, g <= sg
  PROVE  Mask(g)' = Mask(g)
<1>1. sg + 1 \in Launches /\ sg \in Nat /\ g \in Nat /\ NumLaunches \in Nat
  BY ConstantFacts DEF IInv, TypeOK, LaunchSend, Launches
<1>2. CASE ~IsForward(sg + 1)
  BY <1>2 DEF LaunchSend, Mask
<1>3. CASE IsForward(sg + 1)
  <2>1. Schedule[g].layer # Schedule[sg + 1].layer
    <3> SUFFICES ASSUME Schedule[g].layer = Schedule[sg + 1].layer PROVE FALSE
      OBVIOUS
    <3> DEFINE forward == [layer |-> Schedule[g].layer, phase |-> 0]
    <3>1. Schedule[sg + 1] = forward
      BY <1>1, <1>3, ScheduleAssumption DEF IsForward
    <3>2. CASE IsForward(g)
      <4>1. Schedule[g] = forward
        BY <3>2, ScheduleAssumption DEF IsForward
      <4>2. g = sg + 1
        BY <1>1, <3>1, <4>1, ScheduleAssumption
      <4> QED BY <1>1, <4>2
    <3>3. CASE ~IsForward(g)
      <4>1. PICK h \in 1 .. g - 1 : Schedule[h] = forward
        BY <3>3, ScheduleAssumption
      <4>2. h \in Launches /\ h < sg + 1
        BY <1>1, <4>1 DEF Launches
      <4>3. h = sg + 1
        BY <1>1, <3>1, <4>1, <4>2, ScheduleAssumption
      <4> QED BY <1>1, <4>2, <4>3
    <3> QED BY <3>2, <3>3
  <2>2. PICK m : is_token_in_rank'
                   = [is_token_in_rank EXCEPT ![Schedule[sg + 1].layer] = m]
    BY <1>3 DEF LaunchSend
  <2>3. Schedule[g].layer \in Layers
    BY StampFacts
  <2> QED BY <2>1, <2>2, <2>3 DEF Mask, IInv, TypeOK
<1> QED BY <1>2, <1>3

LEMMA LaunchSendPreserves == IInv /\ LaunchSend => IInv'
<1> SUFFICES ASSUME IInv, LaunchSend PROVE IInv'
  OBVIOUS
<1>0. /\ TypeOK /\ sg \in Nat /\ sg + 1 \in Launches /\ NumLaunches \in Nat
      /\ sg' = sg + 1 /\ spc' = "start" /\ spc = "idle"
      /\ token_idx' = First /\ chunk_token_idx' = 0 /\ sent_tail' = 0
      /\ \A g \in Launches : g \in Nat /\ g > 0
  <2>1. TypeOK /\ sg \in Nat /\ NumLaunches \in Nat /\ sg < NumLaunches
    BY ConstantFacts DEF IInv, TypeOK, LaunchSend
  <2>2. sg + 1 \in Launches /\ \A g \in Launches : g \in Nat /\ g > 0
    BY <2>1 DEF Launches
  <2> QED BY <2>1, <2>2 DEF LaunchSend
<1>n. PICK n \in Launches : n = sg + 1
  BY <1>0
<1>v. /\ UNCHANGED <<slab, send_head, receiverVars, history>>
      /\ UNCHANGED <<rg, rpc, received, channel_tail_idx>>
      /\ \A g \in Launches : NumSent(g)' = NumSent(g) /\ NumRead(g)' = NumRead(g)
  BY DEF LaunchSend, slab, receiverVars, history, NumSent, NumRead
<1>s. \A g \in Launches : g <= sg => Mask(g)' = Mask(g)
  BY MaskStable
<1>t. \A g \in Launches :
        /\ NumSent(g) \in Nat /\ NumRead(g) \in Nat
        /\ SelectedIn(Mask(g), First, Last) \in Nat
        /\ Mask(g) = {} => SelectedIn(Mask(g), First, Last) = 0
  BY <1>0, LaunchFacts
<1>1. TypeOK'
  <2>1. is_token_in_rank' \in [Layers -> SUBSET Tokens]
    <3>1. Schedule[sg + 1].layer \in Layers
      BY <1>0, StampFacts
    <3>2. CASE IsForward(sg + 1)
      <4>1. PICK m \in Masks[Schedule[sg + 1].layer] :
              is_token_in_rank' = [is_token_in_rank EXCEPT ![Schedule[sg + 1].layer] = m]
        BY <3>2 DEF LaunchSend
      <4>2. m \in SUBSET Tokens
        BY <3>1, TokenAssumption
      <4> QED BY <3>1, <4>1, <4>2 DEF IInv, TypeOK
    <3>3. CASE ~IsForward(sg + 1)
      BY <3>3 DEF LaunchSend, IInv, TypeOK
    <3> QED BY <3>2, <3>3
  <2>2. sg' \in 0 .. NumLaunches /\ token_idx' \in Nat /\ sent_tail' \in Nat
        /\ chunk_token_idx' \in 0 .. num_max_send_tokens
    BY <1>0, ConstantFacts DEF Launches
  <2> QED BY <1>0, <1>v, <2>1, <2>2 DEF TypeOK, slab, receiverVars, history
<1>2. WordsTruthful'
  <2>1. WordsTruthful
    BY DEF IInv
  <2>2. \A g \in Launches : g <= sg => g <= sg'
    BY <1>0
  <2> QED BY <1>v, <1>s, <2>1, <2>2 DEF WordsTruthful, slab, receiverVars
<1>3. SenderPosition'
  <2>1. \A g \in Launches : g > sg' => sent'[g] = << >>
    BY <1>0, <1>v DEF IInv, SenderPosition, history
  <2>2. Mask(n)' \in SUBSET Nat /\ SelectedIn(Mask(n)', First, First) = 0
        /\ SelectedIn(Mask(n)', First, Last) \in Nat
    <3>1. Mask(n)' \in SUBSET Nat
      <4>1. Schedule[n].layer \in Layers
        BY StampFacts
      <4>2. is_token_in_rank' \in [Layers -> SUBSET Tokens]
        BY <1>1 DEF TypeOK
      <4> QED BY <4>1, <4>2, ConstantFacts DEF Mask
    <3>2. First \in Nat /\ Last \in Nat /\ First <= First
      BY ConstantFacts
    <3> DEFINE mask == Mask(n)'
    <3> HIDE DEF mask
    <3>3. mask \in SUBSET Nat => /\ SelectedIn(mask, First, First) = 0
                                 /\ SelectedIn(mask, First, Last) \in Nat
      BY <3>2, SelectedType
    <3> QED BY <3>1, <3>3 DEF mask
  <2>3. NumSent(n) = 0
    <3>1. n > sg
      BY <1>0, <1>n
    <3> QED BY <1>0, <3>1 DEF IInv, SenderPosition, NumSent
  <2>4. ASSUME NEW g \in Launches, g <= sg'
        PROVE  NumSent(g)' <= SelectedIn(Mask(g)', First, Last)
    <3>1. CASE g = n
      BY <1>v, <2>2, <2>3, <3>1
    <3>2. CASE g <= sg
      BY <1>v, <1>s, <3>2 DEF IInv, SenderPosition
    <3> QED BY <1>0, <1>n, <2>4, <3>1, <3>2
  <2>5. Len(sent'[n]) = 0 /\ Len(sent'[n]) - Len(received'[n]) <= num_recv_buffer_tokens
    BY <1>v, <1>t, <2>3, ConstantFacts DEF NumSent, NumRead
  <2>6. sg' > 0 /\ sg' = n /\ Mask(sg)' = Mask(n)'
    BY <1>0, <1>n DEF Mask
  <2> QED BY <1>0, <2>1, <2>2, <2>4, <2>5, <2>6, ConstantFacts
      DEF SenderPosition, NumSent, NumRead
<1>4. ReceiverPosition'
  <2>1. ReceiversDone' = ReceiversDone
    BY <1>v DEF ReceiversDone
  <2>2. ASSUME NEW g \in Launches, g <= ReceiversDone
        PROVE  g <= sg' /\ NumRead(g)' = SelectedIn(Mask(g)', First, Last)
    <3>1. g <= sg /\ NumRead(g) = SelectedIn(Mask(g), First, Last)
      BY <2>2 DEF IInv, ReceiverPosition
    <3> QED BY <1>0, <1>v, <1>s, <3>1
  <2>3. rpc = "end" => rg \in Launches /\ rg <= sg /\ rg <= sg' /\ Mask(rg)' = Mask(rg)
    <3>1. SUFFICES ASSUME rpc = "end"
                   PROVE  rg \in Launches /\ rg <= sg /\ rg <= sg' /\ Mask(rg)' = Mask(rg)
      OBVIOUS
    <3>2. rg \in Launches /\ rg <= sg
      BY <3>1, ReceiverFacts DEF IInv, ReceiverPosition
    <3>3. Mask(rg)' = Mask(rg)
      BY <1>v, <1>s, <3>2 DEF Mask
    <3> QED BY <1>0, <3>2, <3>3
  <2>4. rpc \notin {"poll", "read", "publish"}
    <3>1. SUFFICES ASSUME rpc \in {"poll", "read", "publish"} PROVE FALSE
      OBVIOUS
    <3>2. /\ rg = sg /\ sg \in Launches /\ ReceiversDone = sg - 1 /\ read_head \in Nat
          /\ num_tokens_to_recv > 0 /\ num_tokens_to_recv \in Nat
          /\ num_tokens_to_recv + read_head = SelectedIn(Mask(sg), First, Last)
      BY <1>0, <3>1, ReceiverFacts DEF IInv, ReceiverPosition, TypeOK
    <3>3. Mask(sg) # {}
      <4>1. SelectedIn(Mask(sg), First, Last) # 0
        BY <3>2
      <4> QED BY <1>t, <3>2, <4>1
    <3>4. ReceiversDone >= sg
      BY <1>0, <3>2, <3>3 DEF LaunchSend, CombineReturned
    <3> QED BY <1>0, <3>2, <3>4
  <2>5. \A g \in Launches : g > rg => received'[g] = << >>
    BY <1>v DEF IInv, ReceiverPosition
  <2> QED BY <1>v, <2>1, <2>2, <2>3, <2>4, <2>5
      DEF IInv, ReceiverPosition, receiverVars, NumRead
<1>5. Transport'
  <2>1. ASSUME NEW g \in Launches, g < sg'
        PROVE  g <= ReceiversDone' \/ Mask(g)' = {}
    <3>1. ReceiversDone' = ReceiversDone /\ ReceiversDone \in Int
      BY <1>v DEF ReceiversDone, IInv, TypeOK
    <3>2. g <= sg /\ Mask(g)' = Mask(g)
      BY <1>0, <1>s, <2>1
    <3>3. CASE g = sg
      BY <1>0, <3>1, <3>2, <3>3 DEF LaunchSend, CombineReturned
    <3>4. CASE g < sg
      BY <3>1, <3>2, <3>4 DEF IInv, Transport
    <3> QED BY <1>0, <3>2, <3>3, <3>4
  <2> QED BY <1>v, <2>1 DEF IInv, Transport, UnreadPacketsIntact, slab, history
<1>6. RowCount'
  <2>1. ASSUME NEW g \in Launches, NumSent(g) # 0 \/ NumRead(g) # 0
        PROVE  Mask(g)' = Mask(g)
    <3>1. NumSent(g) # 0
      <4>1. NumRead(g) <= NumSent(g)
        BY DEF IInv, Transport
      <4> QED BY <1>t, <2>1, <4>1
    <3>2. g <= sg
      BY <1>0, <3>1 DEF IInv, SenderPosition, NumSent
    <3> QED BY <1>s, <3>2
  <2>2. ASSUME NEW g \in Launches, NEW i \in 1 .. NumSent(g)
        PROVE  SelectedIn(Mask(g)', First, sent[g][i].token) = i - 1
               /\ sent[g][i].token \in First .. Last - 1
    BY <1>t, <2>1 DEF IInv, RowCount
  <2>3. ASSUME NEW g \in Launches, NEW i \in 1 .. NumRead(g)
        PROVE  rows[g][i] = SelectedIn(Mask(g)', 0, First) + (i - 1)
    <3>1. Mask(g)' = Mask(g)
      BY <1>t, <2>1
    <3> QED BY <3>1 DEF IInv, RowCount
  <2>4. rpc \notin {"poll", "read", "publish"}
    <3>1. SUFFICES ASSUME rpc \in {"poll", "read", "publish"} PROVE FALSE
      OBVIOUS
    <3>2. rg = sg' /\ rg = sg
      BY <1>v, <1>4, <3>1 DEF IInv, ReceiverPosition
    <3> QED BY <1>0, <3>2
  <2> QED BY <1>v, <2>2, <2>3, <2>4 DEF IInv, RowCount, history, receiverVars
<1> QED BY <1>1, <1>2, <1>3, <1>4, <1>5, <1>6 DEF IInv

-----------------------------------------------------------------------------
LEMMA LaunchRecvPreserves == IInv /\ LaunchRecv => IInv'
<1> SUFFICES ASSUME IInv, LaunchRecv PROVE IInv'
  OBVIOUS
<1>0. /\ TypeOK /\ rg \in Nat /\ rg + 1 \in Launches /\ rg' = rg + 1 /\ rg' \in 0 .. NumLaunches
      /\ rpc = "idle" /\ rpc' = "start" /\ ReceiversDone' = ReceiversDone
      /\ \A g \in Launches : g \in Nat
  <2>1. TypeOK /\ rg \in Nat /\ NumLaunches \in Nat /\ rg < NumLaunches
    BY ConstantFacts DEF IInv, TypeOK, LaunchRecv
  <2> QED BY <2>1 DEF LaunchRecv, Launches, ReceiversDone
<1>n. PICK n \in Launches : n = rg + 1
  BY <1>0
<1>v. /\ UNCHANGED <<slab, senderVars, history, total_offset, num_tokens_to_recv>>
      /\ read_head' = 0 /\ batch_tail' = 0 /\ batch_pos' = 0
  BY DEF LaunchRecv
<1>1. TypeOK'
  BY <1>0, <1>v DEF TypeOK, slab, senderVars, history
<1>2. WordsTruthful'
  <2>1. \A g \in Launches : g <= rg => g <= rg'
    BY <1>0
  <2> QED BY <1>v, <2>1
      DEF IInv, WordsTruthful, slab, senderVars, history, Mask, NumSent, NumRead
<1>3. SenderPosition'
  BY <1>v, FrameSender DEF IInv, senderVars, history, positionVars
<1>4. ReceiverPosition'
  <2>1. received[n] = << >>
    BY <1>0, <1>n DEF IInv, ReceiverPosition
  <2>2. \A g \in Launches : g > rg' => received[g] = << >>
    BY <1>0 DEF IInv, ReceiverPosition
  <2>3. rg' = n /\ n > 0 /\ Len(received[n]) = 0
    BY <1>0, <1>n, <2>1
  <2> QED BY <1>0, <1>v, <2>2, <2>3
      DEF IInv, ReceiverPosition, history, senderVars, NumRead, Mask
<1>5. Transport'
  BY <1>0, <1>v, FrameTransport DEF IInv, slab, senderVars, history
<1>6. RowCount'
  BY <1>0, <1>v DEF IInv, RowCount, history, senderVars, NumSent, NumRead, Mask
<1> QED BY <1>1, <1>2, <1>3, <1>4, <1>5, <1>6 DEF IInv

(* A start offset that carries the receiver's stamp was written in its launch. *)
LEMMA ReadStartPreserves == IInv /\ ReadStart => IInv'
<1> SUFFICES ASSUME IInv, ReadStart PROVE IInv'
  OBVIOUS
<1>0. /\ TypeOK /\ rg \in Launches /\ rpc = "start" /\ rpc' = "end"
      /\ ReceiversDone' = ReceiversDone
      /\ UNCHANGED <<slab, senderVars, rg, num_tokens_to_recv, read_head, batch_tail,
                     batch_pos, history>>
  BY ReceiverFacts DEF IInv, ReadStart, ReceiversDone
<1>w. /\ rg <= sg
      /\ total_offset' = SelectedIn(Mask(rg), 0, First)
      /\ SelectedIn(Mask(rg), 0, First) \in Nat
  <2>1. rg <= sg /\ channel_start_offset.value = -SelectedIn(Mask(rg), 0, First) - 1
    BY <1>0 DEF ReadStart, NvlMatch, IInv, WordsTruthful
  <2>2. SelectedIn(Mask(rg), 0, First) \in Nat
    BY <1>0, LaunchFacts
  <2> QED BY <2>1, <2>2 DEF ReadStart
<1>1. TypeOK'
  BY <1>0, <1>w DEF TypeOK, slab, senderVars, history
<1>2. WordsTruthful'
  BY <1>0 DEF IInv, WordsTruthful, slab, senderVars, history, Mask, NumSent, NumRead
<1>3. SenderPosition'
  BY <1>0, FrameSender DEF IInv, senderVars, history, positionVars
<1>4. ReceiverPosition'
  BY <1>0, <1>w DEF IInv, ReceiverPosition, history, senderVars, NumRead, Mask
<1>5. Transport'
  BY <1>0, FrameTransport DEF IInv, slab, senderVars, history
<1>6. RowCount'
  BY <1>0 DEF IInv, RowCount, history, senderVars, NumSent, NumRead, Mask
<1> QED BY <1>1, <1>2, <1>3, <1>4, <1>5, <1>6 DEF IInv

(* Likewise the end offset; if it promises tokens, the sender is still in the
   same launch. *)
LEMMA ReadEndPreserves == IInv /\ ReadEnd => IInv'
<1> SUFFICES ASSUME IInv, ReadEnd PROVE IInv'
  OBVIOUS
<1>0. /\ TypeOK /\ rg \in Launches /\ rg \in Nat /\ sg \in Nat /\ rpc = "end"
      /\ rpc' = IF num_tokens_to_recv' > 0 THEN "poll" ELSE "idle"
      /\ ReceiversDone = rg - 1
      /\ UNCHANGED <<slab, senderVars, rg, total_offset, read_head, batch_tail,
                     batch_pos, history>>
  <2>1. rg \in Launches /\ rg \in Nat /\ ReceiversDone = rg - 1
    BY ReceiverFacts DEF ReadEnd
  <2>2. TypeOK /\ sg \in Nat
    BY ConstantFacts DEF IInv, TypeOK
  <2> QED BY <2>1, <2>2 DEF ReadEnd
<1>w. /\ rg <= sg /\ read_head = 0 /\ NumRead(rg) = 0
      /\ total_offset = SelectedIn(Mask(rg), 0, First)
      /\ num_tokens_to_recv' = SelectedIn(Mask(rg), First, Last)
      /\ num_tokens_to_recv' \in Nat
  <2>1. channel_end_offset.value = -SelectedIn(Mask(rg), 0, Last) - 1
    BY <1>0 DEF ReadEnd, NvlMatch, IInv, WordsTruthful
  <2>2. /\ SelectedIn(Mask(rg), First, Last) \in Nat
        /\ SelectedIn(Mask(rg), 0, First) \in Nat
        /\ SelectedIn(Mask(rg), 0, Last)
             = SelectedIn(Mask(rg), 0, First) + SelectedIn(Mask(rg), First, Last)
    BY <1>0, LaunchFacts
  <2>3. /\ rg <= sg /\ read_head = 0 /\ NumRead(rg) = 0
        /\ total_offset = SelectedIn(Mask(rg), 0, First)
    BY <1>0 DEF IInv, ReceiverPosition
  <2> QED BY <2>1, <2>2, <2>3 DEF ReadEnd
<1>p. rpc' = "poll" => rg = sg
  <2> SUFFICES ASSUME rpc' = "poll", rg < sg PROVE FALSE
    BY <1>0, <1>w
  <2>1. Mask(rg) = {}
    BY <1>0 DEF IInv, Transport
  <2>2. SelectedIn(Mask(rg), First, Last) = 0
    BY <1>0, <2>1, LaunchFacts
  <2> QED BY <1>0, <1>w, <2>2
<1>1. TypeOK'
  BY <1>0, <1>w DEF TypeOK, slab, senderVars, history
<1>2. WordsTruthful'
  BY <1>0 DEF IInv, WordsTruthful, slab, senderVars, history, Mask, NumSent, NumRead
<1>3. SenderPosition'
  BY <1>0, FrameSender DEF IInv, senderVars, history, positionVars
<1>4. ReceiverPosition'
  <2>1. ASSUME NEW g \in Launches, g <= ReceiversDone'
        PROVE  g <= sg /\ NumRead(g) = SelectedIn(Mask(g), First, Last)
    <3>1. CASE g <= ReceiversDone
      BY <3>1 DEF IInv, ReceiverPosition
    <3>2. CASE ~(g <= ReceiversDone)
      <4>1. g \in Nat /\ g = rg /\ rpc' = "idle"
        BY <1>0, <2>1, <3>2 DEF ReceiversDone, Launches
      <4>2. num_tokens_to_recv' = 0
        BY <1>0, <1>w, <4>1
      <4> QED BY <1>w, <4>1, <4>2
    <3> QED BY <3>1, <3>2
  <2> QED BY <1>0, <1>w, <1>p, <2>1
      DEF IInv, ReceiverPosition, history, senderVars, NumRead, Mask
<1>5. Transport'
  <2>1. ReceiversDone \in Int /\ ReceiversDone' \in Int /\ ReceiversDone <= ReceiversDone'
    BY <1>0 DEF ReceiversDone
  <2>2. \A g \in Launches : g <= ReceiversDone => g <= ReceiversDone'
    BY <2>1 DEF Launches
  <2> QED BY <1>0, <2>2 DEF IInv, Transport, UnreadPacketsIntact, slab, senderVars,
      history, NumSent, NumRead, Mask
<1>6. RowCount'
  <2>1. total_offset \in Nat
    BY <1>0 DEF TypeOK
  <2>2. total_offset = SelectedIn(Mask(rg), 0, First) + read_head
    BY <1>w, <2>1
  <2> QED BY <1>0, <2>2 DEF IInv, RowCount, history, senderVars, NumSent, NumRead, Mask
<1> QED BY <1>1, <1>2, <1>3, <1>4, <1>5, <1>6 DEF IInv

(* A tail that differs from the read position is ahead of it. *)
LEMMA PollTailPreserves == IInv /\ PollTail => IInv'
<1> SUFFICES ASSUME IInv, PollTail PROVE IInv'
  OBVIOUS
<1>0. /\ TypeOK /\ rg \in Launches /\ rpc = "poll" /\ rpc' = "read"
      /\ batch_tail' = NvlCursor(channel_tail_idx, rg) /\ batch_pos' = read_head
      /\ read_head \in Nat /\ channel_tail_idx.value \in Nat
      /\ ReceiversDone' = ReceiversDone
      /\ UNCHANGED <<slab, senderVars, rg, total_offset, num_tokens_to_recv, read_head,
                     history>>
  <2>1. rg \in Launches
    BY ReceiverFacts DEF PollTail
  <2>2. TypeOK
    BY DEF IInv
  <2> QED BY <2>1, <2>2 DEF TypeOK, PollTail, ReceiversDone
<1>w. /\ NumRead(rg) = read_head
      /\ channel_tail_idx.seq = NvlSeq(rg)
      /\ batch_tail' = channel_tail_idx.value
      /\ read_head < batch_tail'
  <2>1. /\ NumRead(rg) = read_head
        /\ read_head > 0 => /\ channel_tail_idx.seq = NvlSeq(rg)
                            /\ read_head <= channel_tail_idx.value
    BY <1>0 DEF IInv, ReceiverPosition
  <2>2. NvlCursor(channel_tail_idx, rg) # read_head
    BY DEF PollTail
  <2> QED BY <1>0, <2>1, <2>2 DEF NvlCursor, NvlMatch
<1>1. TypeOK'
  BY <1>0, <1>w DEF TypeOK, slab, senderVars, history
<1>2. WordsTruthful'
  BY <1>0 DEF IInv, WordsTruthful, slab, senderVars, history, Mask, NumSent, NumRead
<1>3. SenderPosition'
  BY <1>0, FrameSender DEF IInv, senderVars, history, positionVars
<1>4. ReceiverPosition'
  <2>1. read_head <= read_head /\ channel_tail_idx.value <= channel_tail_idx.value
    BY <1>0
  <2> QED BY <1>0, <1>w, <2>1
      DEF IInv, ReceiverPosition, history, slab, senderVars, NumRead, Mask
<1>5. Transport'
  BY <1>0, FrameTransport DEF IInv, slab, senderVars, history
<1>6. RowCount'
  BY <1>0 DEF IInv, RowCount, history, senderVars, NumSent, NumRead, Mask
<1> QED BY <1>1, <1>2, <1>3, <1>4, <1>5, <1>6 DEF IInv

(* The packet in the slot is the oldest one not yet taken out. *)
LEMMA ReadSlotEffect ==
  ASSUME IInv, ReadSlot
  PROVE  /\ rg \in Launches /\ NumRead(rg) = batch_pos /\ batch_pos < NumSent(rg)
         /\ received' = [received EXCEPT ![rg] = Append(@, sent[rg][batch_pos + 1])]
         /\ sent[rg][batch_pos + 1] \in Packet
         /\ total_offset + (batch_pos - read_head)
              = SelectedIn(Mask(rg), 0, First) + batch_pos
<1>1. /\ TypeOK /\ rg \in Launches /\ NumRead(rg) \in Nat /\ NumSent(rg) \in Nat
  <2>1. TypeOK /\ rg \in Launches
    BY ReceiverFacts DEF IInv, ReadSlot
  <2> QED BY <2>1, LaunchFacts
<1>2. /\ NumRead(rg) = batch_pos /\ batch_pos < batch_tail
      /\ channel_tail_idx.seq = NvlSeq(rg) /\ batch_tail <= channel_tail_idx.value
  BY DEF IInv, ReceiverPosition, ReadSlot
<1>3. channel_tail_idx.value <= NumSent(rg)
  BY <1>1, <1>2 DEF IInv, WordsTruthful
<1>4. batch_pos \in Nat /\ batch_tail \in Nat /\ read_head \in Nat
      /\ channel_tail_idx.value \in Nat /\ total_offset \in Nat
  BY <1>1 DEF TypeOK
<1>5. batch_pos < NumSent(rg)
  BY <1>1, <1>2, <1>3, <1>4
<1>6. batch_pos + 1 \in NumRead(rg) + 1 .. NumSent(rg) /\ (batch_pos + 1) - 1 = batch_pos
      /\ batch_pos + 1 \in 1 .. NumSent(rg)
  BY <1>1, <1>2, <1>4, <1>5
<1>7. slots[batch_pos % num_recv_buffer_tokens] = sent[rg][batch_pos + 1]
  BY <1>1, <1>6 DEF IInv, Transport, UnreadPacketsIntact, NumRead, NumSent
<1>8. sent[rg][batch_pos + 1] \in Packet
  BY <1>1, <1>6, ElementOfSeq DEF TypeOK, NumSent
<1>9. total_offset = SelectedIn(Mask(rg), 0, First) + read_head
  BY DEF IInv, RowCount, ReadSlot
<1>10. SelectedIn(Mask(rg), 0, First) \in Nat
  BY <1>1, LaunchFacts
<1>11. total_offset + (batch_pos - read_head) = SelectedIn(Mask(rg), 0, First) + batch_pos
  BY <1>4, <1>9, <1>10
<1> QED BY <1>1, <1>2, <1>5, <1>7, <1>8, <1>11 DEF ReadSlot

LEMMA ReadSlotPreserves == IInv /\ ReadSlot => IInv'
<1> SUFFICES ASSUME IInv, ReadSlot PROVE IInv'
  OBVIOUS
<1> DEFINE packet == sent[rg][batch_pos + 1]
           row == total_offset + (batch_pos - read_head)
<1>0. /\ TypeOK /\ rg \in Launches /\ batch_pos \in Nat /\ batch_tail \in Nat
      /\ read_head \in Nat /\ total_offset \in Nat /\ NumRead(rg) = batch_pos
      /\ read_head <= batch_pos /\ batch_pos < batch_tail /\ batch_pos < NumSent(rg)
      /\ packet \in Packet /\ row = SelectedIn(Mask(rg), 0, First) + batch_pos
      /\ row \in Nat /\ rpc = "read"
  <2>1. /\ rg \in Launches /\ NumRead(rg) = batch_pos /\ batch_pos < NumSent(rg)
        /\ packet \in Packet /\ row = SelectedIn(Mask(rg), 0, First) + batch_pos
    BY ReadSlotEffect
  <2>2. TypeOK /\ rpc = "read" /\ read_head <= batch_pos /\ batch_pos < batch_tail
    BY DEF IInv, ReceiverPosition, ReadSlot
  <2>3. batch_pos \in Nat /\ batch_tail \in Nat /\ read_head \in Nat /\ total_offset \in Nat
    BY <2>2 DEF TypeOK
  <2> QED BY <2>1, <2>2, <2>3
<1> HIDE DEF packet, row
<1>a. /\ Append(received[rg], packet) \in Seq(Packet \cup {Empty})
      /\ Len(Append(received[rg], packet)) = batch_pos + 1
      /\ Append(received[rg], packet)[batch_pos + 1] = packet
      /\ \A i \in 1 .. batch_pos : Append(received[rg], packet)[i] = received[rg][i]
  <2>1. received[rg] \in Seq(Packet \cup {Empty}) /\ Len(received[rg]) = batch_pos
        /\ packet \in Packet \cup {Empty}
    BY <1>0 DEF TypeOK, NumRead
  <2> QED BY <2>1, AppendProperties
<1>b. /\ Append(rows[rg], row) \in Seq(Nat)
      /\ Len(Append(rows[rg], row)) = batch_pos + 1
      /\ Append(rows[rg], row)[batch_pos + 1] = row
      /\ \A i \in 1 .. batch_pos : Append(rows[rg], row)[i] = rows[rg][i]
  <2>1. rows[rg] \in Seq(Nat) /\ Len(rows[rg]) = batch_pos
    BY <1>0 DEF TypeOK, IInv, RowCount
  <2> QED BY <1>0, <2>1, AppendProperties
<1>c. received' = [received EXCEPT ![rg] = Append(received[rg], packet)]
      /\ rows' = [rows EXCEPT ![rg] = Append(rows[rg], row)]
  <2>1. received' = [received EXCEPT ![rg] = Append(@, packet)]
    BY ReadSlotEffect DEF packet
  <2> QED BY <1>0, <2>1 DEF ReadSlot, TypeOK, row
<1>d. /\ received'[rg] = Append(received[rg], packet) /\ rows'[rg] = Append(rows[rg], row)
      /\ \A g \in Launches : g # rg => received'[g] = received[g] /\ rows'[g] = rows[g]
  BY <1>0, <1>c DEF TypeOK
<1>v. /\ batch_pos' = batch_pos + 1
      /\ rpc' = IF batch_pos' < batch_tail THEN "read" ELSE "publish"
      /\ ReceiversDone' = ReceiversDone /\ ReceiversDone = rg - 1
      /\ UNCHANGED <<slab, senderVars, rg, total_offset, num_tokens_to_recv, read_head,
                     batch_tail, sent>>
      /\ \A g \in Launches : NumSent(g)' = NumSent(g) /\ Mask(g)' = Mask(g)
  <2>1. UNCHANGED <<slab, senderVars, rg, sent>>
    BY DEF ReadSlot
  <2>2. \A g \in Launches : NumSent(g)' = NumSent(g) /\ Mask(g)' = Mask(g)
    BY <2>1 DEF NumSent, Mask, senderVars
  <2> QED BY <1>0, <2>2 DEF ReadSlot, ReceiversDone
<1>r. \A g \in Launches : /\ NumRead(g)' = IF g = rg THEN NumRead(g) + 1 ELSE NumRead(g)
                          /\ NumRead(g) \in Nat /\ NumSent(g) \in Nat
  <2>1. \A g \in Launches : NumRead(g) \in Nat /\ NumSent(g) \in Nat
    BY <1>0, LaunchFacts
  <2> QED BY <1>0, <1>a, <1>d, <2>1 DEF NumRead
<1>l. \A g \in Launches : /\ Len(received'[g]) \in Nat
                          /\ NumRead(g) <= Len(received'[g])
  <2>1. \A g \in Launches : Len(received'[g]) = IF g = rg THEN NumRead(g) + 1 ELSE NumRead(g)
    BY <1>0, <1>a, <1>d DEF NumRead
  <2> QED BY <1>r, <2>1
<1>1. TypeOK'
  <2>1. received' \in [Launches -> Seq(Packet \cup {Empty})]
    BY <1>0, <1>a, <1>c DEF TypeOK
  <2>2. rows' \in [Launches -> Seq(Nat)]
    BY <1>0, <1>b, <1>c DEF TypeOK
  <2>3. batch_pos' \in Nat /\ rpc' \in {"read", "publish"}
    BY <1>0, <1>v
  <2> QED BY <1>0, <1>v, <2>1, <2>2, <2>3 DEF TypeOK, slab, senderVars
<1>2. WordsTruthful'
  <2>1. \A g \in Launches : channel_head_idx.seq = NvlSeq(g) =>
          g <= rg /\ channel_head_idx.value <= NumRead(g)'
    <3>1. channel_head_idx.value \in Nat
      BY <1>0 DEF TypeOK
    <3>2. \A g \in Launches : channel_head_idx.seq = NvlSeq(g) =>
            g <= rg /\ channel_head_idx.value <= NumRead(g)
      BY DEF IInv, WordsTruthful
    <3>3. \A g \in Launches : NumRead(g) <= NumRead(g)' /\ NumRead(g)' \in Nat
      BY <1>r
    <3> QED BY <1>r, <3>1, <3>2, <3>3
  <2>2. WordsTruthful
    BY DEF IInv
  <2> QED BY <1>v, <2>1, <2>2 DEF WordsTruthful, slab, senderVars
<1>3. SenderPosition'
  <2>1. spc = "fill" => sent_tail + (num_max_send_tokens - chunk_token_idx)
                          - Len(received'[sg]) <= num_recv_buffer_tokens
    <3>1. SUFFICES ASSUME spc = "fill"
                   PROVE  sent_tail + (num_max_send_tokens - chunk_token_idx)
                            - Len(received'[sg]) <= num_recv_buffer_tokens
      OBVIOUS
    <3>2. sg \in Launches
      BY <3>1, SenderFacts
    <3>3. NumRead(sg) <= Len(received'[sg]) /\ Len(received'[sg]) \in Nat
      BY <1>l, <3>2
    <3>4. /\ sent_tail \in Nat /\ num_max_send_tokens \in Nat /\ chunk_token_idx \in Nat
          /\ num_recv_buffer_tokens \in Nat /\ NumRead(sg) \in Nat
      BY <1>0, <1>r, <3>2, ConstantFacts DEF TypeOK
    <3>5. sent_tail + (num_max_send_tokens - chunk_token_idx) - NumRead(sg)
            <= num_recv_buffer_tokens
      BY <3>1 DEF IInv, SenderPosition
    <3> QED BY <3>3, <3>4, <3>5
  <2>2. sg > 0 => NumSent(sg) - Len(received'[sg]) <= num_recv_buffer_tokens
    <3>1. SUFFICES ASSUME sg > 0
                   PROVE  NumSent(sg) - Len(received'[sg]) <= num_recv_buffer_tokens
      OBVIOUS
    <3>2. sg \in Launches
      BY <1>0, <3>1, ConstantFacts DEF TypeOK, Launches
    <3>3. NumRead(sg) <= Len(received'[sg]) /\ Len(received'[sg]) \in Nat
      BY <1>l, <3>2
    <3>4. num_recv_buffer_tokens \in Nat /\ NumRead(sg) \in Nat /\ NumSent(sg) \in Nat
      BY <1>r, <3>2, ConstantFacts
    <3>5. NumSent(sg) - NumRead(sg) <= num_recv_buffer_tokens
      BY <3>1 DEF IInv, SenderPosition
    <3> QED BY <3>3, <3>4, <3>5
  <2> QED BY <1>v, <2>1, <2>2 DEF IInv, SenderPosition, senderVars, NumSent, NumRead, Mask
<1>4. ReceiverPosition'
  <2>1. \A g \in Launches : g > rg => received'[g] = << >>
    BY <1>0, <1>d DEF IInv, ReceiverPosition, Launches
  <2>2. ASSUME NEW g \in Launches, g <= ReceiversDone
        PROVE  g <= sg /\ NumRead(g)' = SelectedIn(Mask(g), First, Last)
    <3>1. g # rg
      BY <1>0, <1>v, <2>2 DEF Launches
    <3> QED BY <1>r, <2>2, <3>1 DEF IInv, ReceiverPosition
  <2>3. Len(received'[rg]) = batch_pos + 1
    BY <1>a, <1>d
  <2>4. /\ rpc' = "read" => batch_pos + 1 < batch_tail
        /\ rpc' = "publish" => batch_pos + 1 = batch_tail
        /\ rpc' \in {"read", "publish"} /\ read_head <= batch_pos + 1
    BY <1>0, <1>v
  <2>5. /\ rg > 0 /\ rg = sg /\ num_tokens_to_recv > 0 /\ read_head < batch_tail
        /\ num_tokens_to_recv + read_head = SelectedIn(Mask(rg), First, Last)
        /\ channel_tail_idx.seq = NvlSeq(rg) /\ batch_tail <= channel_tail_idx.value
    BY <1>0 DEF IInv, ReceiverPosition
  <2> QED BY <1>v, <2>1, <2>2, <2>3, <2>4, <2>5
      DEF ReceiverPosition, slab, senderVars, NumRead, Mask
<1>5. Transport'
  <2>1. \A g \in Launches : NumRead(g)' <= NumSent(g)
    <3>1. \A g \in Launches : NumRead(g) <= NumSent(g)
      BY DEF IInv, Transport
    <3> QED BY <1>0, <1>r, <3>1
  <2>2. ASSUME NEW g \in Launches, NEW i \in 1 .. NumRead(g)'
        PROVE  received'[g][i] = sent[g][i]
    <3>1. CASE g = rg /\ i = batch_pos + 1
      BY <1>a, <1>d, <3>1 DEF packet
    <3>2. CASE ~(g = rg /\ i = batch_pos + 1)
      <4>1. i \in 1 .. NumRead(g) /\ received'[g][i] = received[g][i]
        <5>1. CASE g = rg
          <6>1. i \in 1 .. batch_pos
            BY <1>0, <1>r, <2>2, <3>2, <5>1
          <6> QED BY <1>0, <1>a, <1>d, <5>1, <6>1
        <5>2. CASE g # rg
          BY <1>d, <1>r, <5>2
        <5> QED BY <5>1, <5>2
      <4> QED BY <4>1 DEF IInv, Transport
    <3> QED BY <3>1, <3>2
  <2>3. UnreadPacketsIntact'
    <3> SUFFICES ASSUME NEW g \in Launches, NEW i \in NumRead(g)' + 1 .. NumSent(g)
                 PROVE  slots[(i - 1) % num_recv_buffer_tokens] = sent[g][i]
      BY <1>v DEF UnreadPacketsIntact, NumSent, NumRead, slab
    <3>1. i \in NumRead(g) + 1 .. NumSent(g)
      BY <1>r
    <3> QED BY <3>1 DEF IInv, Transport, UnreadPacketsIntact, NumRead, NumSent
  <2> QED BY <1>v, <2>1, <2>2, <2>3 DEF IInv, Transport, senderVars
<1>6. RowCount'
  <2>1. ASSUME NEW g \in Launches
        PROVE  /\ Len(rows'[g]) = NumRead(g)'
               /\ \A i \in 1 .. NumRead(g)' :
                    rows'[g][i] = SelectedIn(Mask(g), 0, First) + (i - 1)
    <3>1. CASE g = rg
      <4>1. NumRead(g)' = batch_pos + 1 /\ Len(rows'[g]) = batch_pos + 1
        BY <1>0, <1>b, <1>d, <1>r, <3>1
      <4>2. ASSUME NEW i \in 1 .. batch_pos + 1
            PROVE  rows'[g][i] = SelectedIn(Mask(g), 0, First) + (i - 1)
        <5>1. CASE i = batch_pos + 1
          BY <1>0, <1>b, <1>d, <3>1, <5>1
        <5>2. CASE i # batch_pos + 1
          <6>1. i \in 1 .. batch_pos
            BY <1>0, <5>2
          <6>2. rows[g][i] = SelectedIn(Mask(g), 0, First) + (i - 1)
            BY <1>0, <3>1, <6>1 DEF IInv, RowCount
          <6> QED BY <1>b, <1>d, <3>1, <6>1, <6>2
        <5> QED BY <5>1, <5>2
      <4> QED BY <4>1, <4>2
    <3>2. CASE g # rg
      BY <1>d, <1>r, <3>2 DEF IInv, RowCount
    <3> QED BY <3>1, <3>2
  <2>2. total_offset = SelectedIn(Mask(rg), 0, First) + read_head
    BY <1>0 DEF IInv, RowCount
  <2>3. Mask(rg)' = Mask(rg)
    BY <1>v DEF Mask, senderVars
  <2> QED BY <1>v, <2>1, <2>2, <2>3 DEF IInv, RowCount
<1> QED BY <1>1, <1>2, <1>3, <1>4, <1>5, <1>6 DEF IInv

LEMMA PublishHeadPreserves == IInv /\ PublishHead => IInv'
<1> SUFFICES ASSUME IInv, PublishHead PROVE IInv'
  OBVIOUS
<1> DEFINE quota == SelectedIn(Mask(rg), First, Last)
<1>0. /\ TypeOK /\ rg \in Launches /\ rg \in Nat /\ rpc = "publish"
      /\ ReceiversDone = rg - 1 /\ NvlSeq(rg) \in Nat
      /\ NumRead(rg) \in Nat /\ NumSent(rg) \in Nat /\ quota \in Nat
      /\ batch_tail \in Nat /\ read_head \in Nat /\ total_offset \in Nat
      /\ num_tokens_to_recv \in Nat
  <2>1. TypeOK /\ rg \in Launches /\ rg \in Nat /\ rpc = "publish" /\ ReceiversDone = rg - 1
    BY ReceiverFacts DEF IInv, PublishHead
  <2> HIDE DEF quota
  <2>2. NumRead(rg) \in Nat /\ NumSent(rg) \in Nat /\ quota \in Nat /\ NvlSeq(rg) \in Nat
    BY <2>1, LaunchFacts, StampFacts DEF quota
  <2> QED BY <2>1, <2>2 DEF TypeOK
<1>w. /\ NumRead(rg) = batch_tail /\ rg = sg /\ read_head < batch_tail
      /\ num_tokens_to_recv + read_head = quota /\ batch_tail <= quota
      /\ channel_tail_idx.seq = NvlSeq(rg) /\ batch_tail <= channel_tail_idx.value
  <2>1. /\ NumRead(rg) = batch_tail /\ rg = sg /\ read_head < batch_tail
        /\ num_tokens_to_recv + read_head = quota
        /\ channel_tail_idx.seq = NvlSeq(rg) /\ batch_tail <= channel_tail_idx.value
    BY <1>0 DEF IInv, ReceiverPosition
  <2>2. NumRead(rg) <= NumSent(rg) /\ NumSent(rg) <= quota
    BY <1>0, <2>1, LaunchFacts DEF IInv, Transport, SenderPosition
  <2> HIDE DEF quota
  <2> QED BY <1>0, <2>1, <2>2
<1>v. /\ channel_head_idx' = [seq |-> NvlSeq(rg), value |-> batch_tail]
      /\ read_head' = batch_tail
      /\ total_offset' = total_offset + (batch_tail - read_head)
      /\ num_tokens_to_recv' = num_tokens_to_recv - (batch_tail - read_head)
      /\ rpc' = IF num_tokens_to_recv' > 0 THEN "poll" ELSE "idle"
      /\ UNCHANGED <<channel_start_offset, channel_end_offset, channel_tail_idx, slots,
                     senderVars, rg, batch_tail, batch_pos, history>>
      /\ \A g \in Launches : NumSent(g)' = NumSent(g) /\ NumRead(g)' = NumRead(g)
                             /\ Mask(g)' = Mask(g)
  BY DEF PublishHead, NvlPack, NumSent, NumRead, Mask, senderVars, history
<1>n. /\ num_tokens_to_recv' + batch_tail = quota
      /\ num_tokens_to_recv' \in Nat /\ total_offset' \in Nat
      /\ \/ rpc' = "poll" /\ num_tokens_to_recv' > 0
         \/ rpc' = "idle" /\ batch_tail = quota
  <2> HIDE DEF quota
  <2> QED BY <1>0, <1>w, <1>v
<1>1. TypeOK'
  <2>1. channel_head_idx' \in [seq : Nat, value : Nat]
    BY <1>0, <1>v
  <2>2. rpc' \in {"poll", "idle"}
    BY <1>n
  <2>3. total_offset' \in Nat /\ num_tokens_to_recv' \in Nat /\ read_head' \in Nat
    <3>1. batch_tail \in Nat
      BY <1>0
    <3>2. read_head' = batch_tail
      BY <1>v
    <3> QED BY <1>n, <3>1, <3>2
  <2> HIDE DEF quota
  <2>4. UNCHANGED <<channel_start_offset, channel_end_offset, channel_tail_idx, slots,
                    senderVars, rg, batch_tail, batch_pos, history>>
    BY <1>v
  <2> QED BY <1>0, <2>1, <2>2, <2>3, <2>4 DEF TypeOK, senderVars, history
<1>2. WordsTruthful'
  <2>1. ASSUME NEW g \in Launches, channel_head_idx'.seq = NvlSeq(g)
        PROVE  g <= rg /\ channel_head_idx'.value <= NumRead(g)
    <3>1. g = rg
      BY <1>0, <1>v, <2>1, StampFacts
    <3> QED BY <1>0, <1>w, <1>v, <3>1
  <2>2. WordsTruthful
    BY DEF IInv
  <2> QED BY <1>v, <2>1, <2>2 DEF WordsTruthful, senderVars
<1>3. SenderPosition'
  BY <1>v, FrameSender DEF IInv, senderVars, history, positionVars
<1>4. ReceiverPosition'
  <2>1. ASSUME NEW g \in Launches, g <= ReceiversDone'
        PROVE  g <= sg /\ NumRead(g) = SelectedIn(Mask(g), First, Last)
    <3>1. CASE g <= ReceiversDone
      BY <3>1 DEF IInv, ReceiverPosition
    <3>2. CASE ~(g <= ReceiversDone)
      <4>1. g = rg /\ rpc' = "idle"
        BY <1>0, <1>v, <2>1, <3>2 DEF ReceiversDone, Launches
      <4> QED BY <1>0, <1>w, <1>n, <4>1
    <3> QED BY <3>1, <3>2
  <2>2. \A g \in Launches : g > rg => received[g] = << >>
    BY DEF IInv, ReceiverPosition
  <2>3. rg > 0 /\ Mask(rg)' = Mask(rg) /\ Len(received[rg]) = batch_tail
    BY <1>0, <1>w, <1>v DEF NumRead, Launches
  <2>4. \A g \in Launches : Len(received'[g]) = NumRead(g) /\ received'[g] = received[g]
    BY <1>v DEF NumRead, history
  <2> QED BY <1>0, <1>w, <1>v, <1>n, <2>1, <2>2, <2>3, <2>4
      DEF ReceiverPosition, senderVars, NumRead
<1>5. Transport'
  <2>1. ReceiversDone \in Int /\ ReceiversDone' \in Int /\ ReceiversDone <= ReceiversDone'
    BY <1>0, <1>v DEF ReceiversDone
  <2>2. \A g \in Launches : g <= ReceiversDone => g <= ReceiversDone'
    BY <2>1 DEF Launches
  <2>3. UnreadPacketsIntact'
    BY <1>v DEF IInv, Transport, UnreadPacketsIntact, history
  <2> QED BY <1>v, <2>2, <2>3 DEF IInv, Transport, senderVars, history
<1>6. RowCount'
  <2>1. total_offset = SelectedIn(Mask(rg), 0, First) + read_head
        /\ SelectedIn(Mask(rg), 0, First) \in Nat
    BY <1>0, LaunchFacts DEF IInv, RowCount
  <2>2. total_offset' = SelectedIn(Mask(rg), 0, First) + batch_tail
    BY <1>0, <1>v, <2>1
  <2>3. Mask(rg)' = Mask(rg)
    BY <1>v DEF Mask, senderVars
  <2> QED BY <1>v, <1>n, <2>2, <2>3 DEF IInv, RowCount, history
<1> QED BY <1>1, <1>2, <1>3, <1>4, <1>5, <1>6 DEF IInv

LEMMA StutterPreserves == IInv /\ UNCHANGED vars => IInv'
<1> SUFFICES ASSUME IInv, UNCHANGED vars PROVE IInv'
  OBVIOUS
<1> USE DEF vars, slab, senderVars, receiverVars, history
<1>1. TypeOK'
  BY DEF IInv, TypeOK
<1>2. WordsTruthful'
  BY DEF IInv, WordsTruthful, NumSent, NumRead, Mask
<1>3. SenderPosition' /\ ReceiverPosition' /\ Transport' /\ RowCount'
  BY FrameSender, FrameReceiver, FrameTransport, FrameRows
     DEF IInv, positionVars, ReceiversDone
<1> QED BY <1>1, <1>2, <1>3 DEF IInv

-----------------------------------------------------------------------------
(* The invariant is inductive. *)
THEOREM InductiveInvariant == Spec => []IInv
<1>1. IInv /\ [Next]_vars => IInv'
  BY LaunchSendPreserves, PublishStartPreserves, PublishEndPreserves,
     WaitForQueueSpacePreserves, SkipTokenPreserves, FillSlotPreserves,
     PublishTailPreserves, FinishSendPreserves, LaunchRecvPreserves,
     ReadStartPreserves, ReadEndPreserves, PollTailPreserves, ReadSlotPreserves,
     PublishHeadPreserves, StutterPreserves
     DEF Next, SenderStep, ReceiverStep, Terminated
<1> QED BY InitImpliesIInv, <1>1, PTL DEF Spec

(* Every variable keeps its type: no cursor, count or row ever goes negative. *)
THEOREM TypeCorrect == Spec => []TypeOK
<1>1. IInv => TypeOK
  BY DEF IInv
<1> QED BY InductiveInvariant, <1>1, PTL

(* A slot is reused only after its packet was taken out, for every ring and
   chunk size that Config admits, whatever head word earlier launches left. *)
THEOREM UnreadIntact == Spec => []UnreadPacketsIntact
<1>1. IInv => UnreadPacketsIntact
  BY DEF IInv, Transport
<1> QED BY InductiveInvariant, <1>1, PTL

(* A receiver that leaves its loop has taken exactly the tokens routed to it. *)
THEOREM LaunchWhole == Spec => []CompletedLaunchIsWhole
<1>1. IInv => CompletedLaunchIsWhole
  BY DEF IInv, ReceiverPosition, CompletedLaunchIsWhole, NumRead
<1> QED BY InductiveInvariant, <1>1, PTL

(* The row of a packet is the number of tokens routed to the same peer before
   it, so forward and backward agree on it. *)
THEOREM RowsAgree == Spec => []RowIsRoutingRank
<1>1. IInv => RowIsRoutingRank
  <2> SUFFICES ASSUME IInv, NEW g \in Launches, NEW i \in 1 .. Len(received[g])
               PROVE  rows[g][i] = SelectedIn(Mask(g), 0, received[g][i].token)
    BY DEF RowIsRoutingRank
  <2> DEFINE t == received[g][i].token
             mask == Mask(g)
  <2>1. /\ TypeOK /\ mask \in SUBSET Nat /\ SelectedIn(mask, 0, First) \in Nat
        /\ NumRead(g) \in Nat /\ NumSent(g) \in Nat
    BY LaunchFacts DEF IInv
  <2>2. received[g][i] = sent[g][i] /\ i \in 1 .. NumRead(g) /\ NumRead(g) <= NumSent(g)
    BY DEF IInv, Transport, NumRead
  <2>3. i \in 1 .. NumSent(g)
    BY <2>1, <2>2
  <2>4. t \in First .. Last - 1 /\ SelectedIn(mask, First, t) = i - 1
    BY <2>2, <2>3 DEF IInv, RowCount
  <2>5. rows[g][i] = SelectedIn(mask, 0, First) + (i - 1)
    BY <2>2 DEF IInv, RowCount
  <2>6. t \in Nat /\ First \in Nat /\ 0 <= First /\ First <= t
    BY <2>4, ConstantFacts
  <2> HIDE DEF t, mask
  <2>7. SelectedIn(mask, 0, t) = SelectedIn(mask, 0, First) + SelectedIn(mask, First, t)
    BY <2>1, <2>6, SelectedSplit
  <2>8. rows[g][i] = SelectedIn(mask, 0, t)
    BY <2>4, <2>5, <2>7
  <2> QED BY <2>8 DEF t, mask
<1> QED BY InductiveInvariant, <1>1, PTL

(* The ring implements the bounded queue per launch: a fill is a send, taking a
   slot is a receive, and every other step leaves both histories alone. *)
THEOREM ImplementsFifo == Spec => RingIsFifo
<1>1. Init => Fifo!Init
  BY DEF Init, Fifo!Init
<1>2. IInv /\ [Next]_vars => [Fifo!Next]_<<sent, received>>
  <2> SUFFICES ASSUME IInv, [Next]_vars PROVE [Fifo!Next]_<<sent, received>>
    OBVIOUS
  <2>1. CASE FillSlot
    <3> DEFINE packet == [launch |-> sg, token |-> token_idx]
    <3>1. sg \in Launches /\ token_idx \in First .. Last - 1
      BY <2>1, FillSlotEffect
    <3>2. packet \in Packet
      BY <3>1, ConstantFacts DEF Packet
    <3>3. sent' = [sent EXCEPT ![sg] = Append(@, packet)] /\ received' = received
      BY <2>1 DEF FillSlot
    <3>4. Len(sent[sg]) - Len(received[sg]) < num_recv_buffer_tokens
      <4>1. TypeOK /\ Len(sent[sg]) = sent_tail
        BY <2>1, SenderFacts DEF FillSlot, IInv, NumSent
      <4>2. sent_tail \in Nat /\ Len(received[sg]) \in Nat /\ chunk_token_idx \in Nat
            /\ num_recv_buffer_tokens \in Nat /\ num_max_send_tokens \in Nat
        BY <3>1, <4>1, LaunchFacts, ConstantFacts DEF TypeOK, NumRead
      <4>3. sent_tail + (num_max_send_tokens - chunk_token_idx) - Len(received[sg])
              <= num_recv_buffer_tokens /\ chunk_token_idx < num_max_send_tokens
        BY <2>1 DEF FillSlot, ChunkOpen, IInv, SenderPosition, NumRead
      <4> QED BY <4>1, <4>2, <4>3
    <3> QED BY <3>1, <3>2, <3>3, <3>4 DEF Fifo!Next, Fifo!Send
  <2>2. CASE ReadSlot
    <3>1. /\ rg \in Launches /\ Len(received[rg]) = batch_pos
          /\ batch_pos < Len(sent[rg])
          /\ received' = [received EXCEPT ![rg] = Append(@, sent[rg][batch_pos + 1])]
      BY <2>2, ReadSlotEffect DEF NumRead, NumSent
    <3>2. received' = [received EXCEPT ![rg] = Append(@, sent[rg][Len(@) + 1])]
      BY <3>1
    <3>3. sent' = sent
      BY <2>2 DEF ReadSlot
    <3> QED BY <3>1, <3>2, <3>3 DEF Fifo!Next, Fifo!Receive
  <2>3. CASE UNCHANGED <<sent, received>>
    BY <2>3
  <2>4. [Next]_vars /\ ~FillSlot /\ ~ReadSlot => UNCHANGED <<sent, received>>
    BY DEF Next, SenderStep, ReceiverStep, Terminated, LaunchSend, PublishStart,
       PublishEnd, WaitForQueueSpace, SkipToken, PublishTail, FinishSend, LaunchRecv,
       ReadStart, ReadEnd, PollTail, PublishHead, vars, history
  <2> QED BY <2>1, <2>2, <2>3, <2>4
<1> QED BY <1>1, <1>2, InductiveInvariant, PTL DEF Spec, RingIsFifo, Fifo!Spec, Fifo!vars

-----------------------------------------------------------------------------
(***************************************************************************)
(* What the sender writes into send_head.  Code says what the entry of a   *)
(* token becomes; it is never touched again, since no later launch is a    *)
(* forward launch of the same layer.                                       *)
(***************************************************************************)
Noted(mask, t) == IF t \in mask THEN SelectedIn(mask, First, t) ELSE -1

Code(mask, t, h) ==
  IF t \in mask THEN h = SelectedIn(mask, First, t)
  ELSE \/ /\ h = -kReverseScanSentinel - 1
          /\ \A u \in First .. Last - 1 : u > t => u \notin mask
       \/ \E v \in First .. Last - 1 :
            /\ v > t /\ v \in mask /\ h = -SelectedIn(mask, First, v) - 1
            /\ \A u \in First .. Last - 1 : u > t /\ u < v => u \notin mask

ScanAtEnd == spc = "scan" => token_idx = Last

AllSent == \A g \in Launches : g <= SendersDone =>
             NumSent(g) = SelectedIn(Mask(g), First, Last)

SentSelected == \A g \in Launches : \A i \in 1 .. NumSent(g) : sent[g][i].token \in Mask(g)

HeadsNoted ==
  spc # "idle" /\ IsForward(sg) =>
    \A t \in First .. token_idx - 1 : send_head[Schedule[sg].layer][t] = Noted(Mask(sg), t)

HeadsEncoded ==
  \A g \in Launches : IsForward(g) /\ g <= SendersDone =>
    \A t \in First .. Last - 1 : Code(Mask(g), t, send_head[Schedule[g].layer][t])

HInv == ScanAtEnd /\ AllSent /\ SentSelected /\ HeadsNoted /\ HeadsEncoded

(* A launch and the forward launch of its layer are the only ones whose
   routing and send_head they share. *)
LEMMA ForwardLayer ==
  ASSUME NEW g \in Launches, NEW h \in Launches, IsForward(g), IsForward(h),
         Schedule[g].layer = Schedule[h].layer
  PROVE  g = h
<1>1. /\ Schedule[g] \in [layer : Layers, phase : {0, 1}]
      /\ Schedule[h] \in [layer : Layers, phase : {0, 1}]
  BY ScheduleAssumption
<1>2. Schedule[g] = Schedule[h]
  BY <1>1 DEF IsForward
<1> QED BY <1>2, ScheduleAssumption

LEMMA FrameHeads ==
  ASSUME HInv, UNCHANGED <<sg, token_idx, is_token_in_rank, send_head, sent>>,
         spc = "idle" <=> spc' = "idle", spc' = "scan" => token_idx = Last
  PROVE  HInv'
<1>1. SendersDone' = SendersDone
  BY DEF SendersDone
<1>2. \A g \in Launches : Mask(g)' = Mask(g) /\ NumSent(g)' = NumSent(g)
  BY DEF Mask, NumSent
<1>3. ScanAtEnd'
  BY DEF HInv, ScanAtEnd
<1>4. AllSent'
  BY <1>1, <1>2 DEF HInv, AllSent
<1>5. SentSelected'
  BY <1>2 DEF HInv, SentSelected
<1>6. HeadsNoted'
  BY DEF HInv, HeadsNoted, Noted, Mask
<1>7. HeadsEncoded'
  BY <1>1, <1>2 DEF HInv, HeadsEncoded, Code
<1> QED BY <1>3, <1>4, <1>5, <1>6, <1>7 DEF HInv

(* Where the sender stands in its channel. *)
LEMMA TokenFacts ==
  ASSUME IInv, spc # "idle"
  PROVE  /\ sg \in Launches /\ sg \in Nat /\ token_idx \in Nat
         /\ First <= token_idx /\ token_idx <= Last
         /\ sent_tail = SelectedIn(Mask(sg), First, token_idx)
         /\ NumSent(sg) = sent_tail
         /\ SendersDone = sg - 1
         /\ Mask(sg) \in SUBSET Nat /\ Schedule[sg].layer \in Layers
<1>1. sg \in Launches /\ sg \in Nat /\ NumSent(sg) = sent_tail /\ TypeOK
  BY SenderFacts DEF IInv
<1>2. token_idx \in Nat
  BY <1>1 DEF TypeOK
<1>3. First <= token_idx /\ token_idx <= Last
      /\ sent_tail = SelectedIn(Mask(sg), First, token_idx)
  BY DEF IInv, SenderPosition
<1> QED BY <1>1, <1>2, <1>3, LaunchFacts, StampFacts DEF SendersDone

(* A chunk step writes the entry of its own token and no other. *)
LEMMA NoteHeads ==
  ASSUME IInv, HInv, spc = "fill", spc' = "fill", token_idx < Last,
         token_idx' = token_idx + 1, UNCHANGED <<sg, is_token_in_rank>>,
         NoteHead(Noted(Mask(sg), token_idx))
  PROVE  HeadsNoted' /\ HeadsEncoded'
<1> DEFINE l == Schedule[sg].layer
           noted == [send_head[l] EXCEPT ![token_idx] = Noted(Mask(sg), token_idx)]
<1>1. /\ sg \in Launches /\ sg \in Nat /\ token_idx \in Nat /\ l \in Layers
      /\ First <= token_idx /\ SendersDone = sg - 1
  BY TokenFacts
<1>2. TypeOK /\ token_idx \in Tokens /\ First \in Nat /\ Last \in Nat
  <2>1. token_idx \in First .. Last - 1
    BY <1>1, ConstantFacts
  <2> QED BY <2>1, ConstantFacts DEF IInv
<1>3. send_head' = IF IsForward(sg) THEN [send_head EXCEPT ![l] = noted] ELSE send_head
  BY DEF NoteHead
<1>4. send_head[l] \in [Tokens -> Int]
  BY <1>1, <1>2 DEF TypeOK
<1>5. \A k \in Layers : k # l => send_head'[k] = send_head[k]
  BY <1>2, <1>3 DEF TypeOK
<1>6. IsForward(sg) => send_head'[l] = noted
  BY <1>1, <1>2, <1>3 DEF TypeOK
<1>7. HeadsNoted'
  <2> SUFFICES ASSUME IsForward(sg), NEW t \in First .. token_idx' - 1
               PROVE  send_head'[l][t] = Noted(Mask(sg), t)
    BY DEF HeadsNoted, Noted, Mask
  <2>1. CASE t = token_idx
    BY <1>2, <1>4, <1>6, <2>1
  <2>2. CASE t # token_idx
    <3>1. t \in First .. token_idx - 1
      BY <1>1, <1>2, <2>2
    <3>2. send_head[l][t] = Noted(Mask(sg), t)
      BY <3>1 DEF HInv, HeadsNoted
    <3>3. noted[t] = send_head[l][t]
      BY <1>4, <2>2
    <3> QED BY <1>6, <3>2, <3>3
  <2> QED BY <2>1, <2>2
<1>8. HeadsEncoded'
  <2> SUFFICES ASSUME NEW g \in Launches, IsForward(g), g <= SendersDone',
                      NEW t \in First .. Last - 1
               PROVE  Code(Mask(g), t, send_head'[Schedule[g].layer][t])
    BY DEF HeadsEncoded, Code, Mask
  <2>1. SendersDone' = sg - 1 /\ g # sg
    BY <1>1 DEF SendersDone
  <2>2. Schedule[g].layer = l => ~IsForward(sg)
    BY <1>1, <2>1, ForwardLayer
  <2>3. send_head'[Schedule[g].layer] = send_head[Schedule[g].layer]
    BY <1>3, <1>5, <2>2, StampFacts
  <2> QED BY <1>1, <2>1, <2>3 DEF HInv, HeadsEncoded
<1> QED BY <1>7, <1>8

LEMMA SkipTokenHeads == IInv /\ HInv /\ SkipToken => HInv'
<1> SUFFICES ASSUME IInv, HInv, SkipToken PROVE HInv'
  OBVIOUS
<1>1. /\ spc = "fill" /\ spc' = "fill" /\ token_idx < Last /\ token_idx' = token_idx + 1
      /\ UNCHANGED <<sg, is_token_in_rank, sent>>
      /\ NoteHead(Noted(Mask(sg), token_idx))
  BY DEF SkipToken, ChunkOpen, history, Noted
<1>2. HeadsNoted' /\ HeadsEncoded'
  BY <1>1, NoteHeads
<1>3. SendersDone' = SendersDone
  BY <1>1 DEF SendersDone
<1>4. \A g \in Launches : Mask(g)' = Mask(g) /\ NumSent(g)' = NumSent(g)
  BY <1>1 DEF Mask, NumSent
<1>5. ScanAtEnd' /\ AllSent' /\ SentSelected'
  BY <1>1, <1>3, <1>4 DEF HInv, ScanAtEnd, AllSent, SentSelected
<1> QED BY <1>2, <1>5 DEF HInv

LEMMA FillSlotHeads == IInv /\ HInv /\ FillSlot => HInv'
<1> SUFFICES ASSUME IInv, HInv, FillSlot PROVE HInv'
  OBVIOUS
<1>1. /\ spc = "fill" /\ spc' = "fill" /\ token_idx < Last /\ token_idx' = token_idx + 1
      /\ UNCHANGED <<sg, is_token_in_rank>> /\ token_idx \in Mask(sg)
      /\ NoteHead(sent_tail)
  BY DEF FillSlot, ChunkOpen
<1>2. Noted(Mask(sg), token_idx) = sent_tail
  BY <1>1, TokenFacts DEF Noted
<1>3. HeadsNoted' /\ HeadsEncoded'
  BY <1>1, <1>2, NoteHeads
<1>4. /\ Len(sent'[sg]) = sent_tail + 1
      /\ sent'[sg][sent_tail + 1].token = token_idx
      /\ \A i \in 1 .. sent_tail : sent'[sg][i] = sent[sg][i]
      /\ \A g \in Launches : g # sg => sent'[g] = sent[g]
  BY FillSlotEffect
<1>5. /\ sg \in Launches /\ sg \in Nat /\ SendersDone = sg - 1 /\ SendersDone' = sg - 1
      /\ NumSent(sg) = sent_tail
  BY <1>1, TokenFacts DEF SendersDone
<1>6. sent_tail \in Nat
  BY DEF IInv, TypeOK
<1>7. AllSent'
  <2> SUFFICES ASSUME NEW g \in Launches, g <= SendersDone'
               PROVE  NumSent(g)' = SelectedIn(Mask(g)', First, Last)
    BY DEF AllSent
  <2>1. g # sg
    BY <1>5
  <2> QED BY <1>1, <1>4, <1>5, <2>1 DEF HInv, AllSent, NumSent, Mask
<1>8. SentSelected'
  <2> SUFFICES ASSUME NEW g \in Launches, NEW i \in 1 .. NumSent(g)'
               PROVE  sent'[g][i].token \in Mask(g)
    BY <1>1 DEF SentSelected, Mask, NumSent
  <2>1. CASE g # sg
    BY <1>4, <2>1 DEF HInv, SentSelected, NumSent
  <2>2. CASE g = sg /\ i = sent_tail + 1
    BY <1>1, <1>4, <2>2
  <2>3. CASE g = sg /\ i # sent_tail + 1
    <3>1. i \in 1 .. sent_tail
      BY <1>4, <1>6, <2>3 DEF NumSent
    <3> QED BY <1>4, <1>5, <2>3, <3>1 DEF HInv, SentSelected
  <2> QED BY <2>1, <2>2, <2>3
<1>9. ScanAtEnd'
  BY <1>1 DEF ScanAtEnd
<1> QED BY <1>3, <1>7, <1>8, <1>9 DEF HInv

(* The reverse scan turns the notes of the whole channel into codes. *)
LEMMA FinishSendHeads == IInv /\ HInv /\ FinishSend => HInv'
<1> SUFFICES ASSUME IInv, HInv, FinishSend PROVE HInv'
  OBVIOUS
<1> DEFINE l == Schedule[sg].layer
<1>1. /\ spc = "scan" /\ spc' = "idle" /\ UNCHANGED <<sg, token_idx, is_token_in_rank, sent>>
      /\ send_head' = IF IsForward(sg)
                        THEN [send_head EXCEPT ![l] = EncodeHeads(send_head[l], First, Last)]
                        ELSE send_head
  BY DEF FinishSend, history
<1>2. /\ sg \in Launches /\ sg \in Nat /\ l \in Layers /\ Mask(sg) \in SUBSET Nat
      /\ NumSent(sg) = SelectedIn(Mask(sg), First, Last)
      /\ token_idx = Last /\ SendersDone = sg - 1 /\ SendersDone' = sg
  BY <1>1, TokenFacts DEF HInv, ScanAtEnd, SendersDone
<1>3. /\ send_head[l] \in [Tokens -> Int] /\ First \in Nat /\ Last \in Nat
      /\ First .. Last - 1 \subseteq Tokens
  BY <1>2, ConstantFacts DEF IInv, TypeOK
<1>4. \A g \in Launches : g <= SendersDone' => g <= SendersDone \/ g = sg
  BY <1>2, ConstantFacts DEF Launches
<1>5. \A g \in Launches : Mask(g)' = Mask(g) /\ NumSent(g)' = NumSent(g)
  BY <1>1 DEF Mask, NumSent
<1>6. AllSent'
  BY <1>2, <1>4, <1>5 DEF HInv, AllSent
<1>7. SentSelected' /\ ScanAtEnd' /\ HeadsNoted'
  BY <1>1, <1>5 DEF HInv, SentSelected, ScanAtEnd, HeadsNoted
<1>8. HeadsEncoded'
  <2> SUFFICES ASSUME NEW g \in Launches, IsForward(g), g <= SendersDone',
                      NEW t \in First .. Last - 1
               PROVE  Code(Mask(g), t, send_head'[Schedule[g].layer][t])
    BY <1>5 DEF HeadsEncoded, Code
  <2>1. CASE g # sg
    <3>1. Schedule[g].layer = l => ~IsForward(sg)
      BY <1>2, <2>1, ForwardLayer
    <3>2. Schedule[g].layer \in Layers /\ send_head \in [Layers -> [Tokens -> Int]]
      BY StampFacts DEF IInv, TypeOK
    <3>3. send_head'[Schedule[g].layer] = send_head[Schedule[g].layer]
      BY <1>1, <3>1, <3>2
    <3> QED BY <1>4, <2>1, <3>3 DEF HInv, HeadsEncoded
  <2>2. CASE g = sg
    <3> DEFINE heads == send_head[l]
               code == EncodeHeads(heads, First, Last)[t]
    <3>1. send_head'[Schedule[g].layer][t] = code
      <4>1. send_head \in [Layers -> [Tokens -> Int]]
        BY DEF IInv, TypeOK
      <4>2. send_head'[l] = EncodeHeads(send_head[l], First, Last)
        BY <1>1, <1>2, <2>2, <4>1
      <4> QED BY <2>2, <4>2
    <3> SUFFICES Code(Mask(sg), t, code)
      BY <2>2, <3>1
    <3>2. \A u \in First .. Last - 1 : heads[u] = Noted(Mask(sg), u)
      BY <1>1, <1>2, <2>2 DEF HInv, HeadsNoted
    <3>3. \A u \in First .. Last - 1 :
            /\ heads[u] \in Int
            /\ u \in Mask(sg) => heads[u] = SelectedIn(Mask(sg), First, u) /\ heads[u] >= 0
            /\ u \notin Mask(sg) => heads[u] < 0
      <4> SUFFICES ASSUME NEW u \in First .. Last - 1
                   PROVE  /\ heads[u] \in Int
                          /\ u \in Mask(sg) => heads[u] = SelectedIn(Mask(sg), First, u) /\ heads[u] >= 0
                          /\ u \notin Mask(sg) => heads[u] < 0
        OBVIOUS
      <4>1. u \in Nat /\ SelectedIn(Mask(sg), First, u) \in Nat
        <5>1. u \in Nat
          BY <1>3
        <5> QED BY <1>2, <1>3, <5>1, SelectedType
      <4> QED BY <3>2, <4>1 DEF Noted
    <3> HIDE DEF heads
    <3>4. heads \in [Tokens -> Int]
      BY <1>3 DEF heads
    <3>5. /\ heads[t] >= 0 => code = heads[t]
          /\ heads[t] < 0 =>
               \/ /\ code = -kReverseScanSentinel - 1
                  /\ \A u \in First .. Last - 1 : u > t => heads[u] < 0
               \/ \E v \in First .. Last - 1 :
                    /\ v > t /\ heads[v] >= 0 /\ code = -heads[v] - 1
                    /\ \A u \in First .. Last - 1 : u > t /\ u < v => heads[u] < 0
      BY <1>3, <3>4, EncodeHeadsValue
    <3> HIDE DEF code
    <3>6. \A u \in First .. Last - 1 : heads[u] < 0 <=> u \notin Mask(sg)
      BY <3>3
    <3>7. CASE t \in Mask(sg)
      BY <3>3, <3>5, <3>7 DEF Code
    <3>8. CASE /\ t \notin Mask(sg) /\ code = -kReverseScanSentinel - 1
               /\ \A u \in First .. Last - 1 : u > t => heads[u] < 0
      BY <3>6, <3>8 DEF Code
    <3>9. CASE /\ t \notin Mask(sg)
               /\ \E v \in First .. Last - 1 :
                    /\ v > t /\ heads[v] >= 0 /\ code = -heads[v] - 1
                    /\ \A u \in First .. Last - 1 : u > t /\ u < v => heads[u] < 0
      <4>1. PICK v \in First .. Last - 1 :
              /\ v > t /\ heads[v] >= 0 /\ code = -heads[v] - 1
              /\ \A u \in First .. Last - 1 : u > t /\ u < v => heads[u] < 0
        BY <3>9
      <4>2. v \in Mask(sg) /\ heads[v] = SelectedIn(Mask(sg), First, v)
        BY <3>3, <4>1
      <4> QED BY <3>6, <3>9, <4>1, <4>2 DEF Code
    <3> QED BY <3>3, <3>5, <3>7, <3>8, <3>9
  <2> QED BY <2>1, <2>2
<1> QED BY <1>6, <1>7, <1>8 DEF HInv

LEMMA LaunchSendHeads == IInv /\ HInv /\ LaunchSend => HInv'
<1> SUFFICES ASSUME IInv, HInv, LaunchSend PROVE HInv'
  OBVIOUS
<1>1. /\ spc = "idle" /\ spc' = "start" /\ sg' = sg + 1 /\ token_idx' = First
      /\ send_head' = send_head /\ sent' = sent /\ sg \in Nat /\ NumLaunches \in Nat
  BY ConstantFacts DEF LaunchSend, history, IInv, TypeOK
<1>2. SendersDone = sg /\ SendersDone' = sg
  BY <1>1 DEF SendersDone
<1>3. \A g \in Launches : g <= sg => Mask(g)' = Mask(g)
  BY MaskStable
<1>4. \A g \in Launches : NumSent(g)' = NumSent(g)
  BY <1>1 DEF NumSent
<1>5. ScanAtEnd'
  BY <1>1 DEF ScanAtEnd
<1>6. AllSent'
  BY <1>2, <1>3, <1>4 DEF HInv, AllSent
<1>7. SentSelected'
  <2> SUFFICES ASSUME NEW g \in Launches, NEW i \in 1 .. NumSent(g)
               PROVE  sent[g][i].token \in Mask(g)'
    BY <1>1, <1>4 DEF SentSelected
  <2>1. CASE g <= sg
    BY <1>3, <2>1 DEF HInv, SentSelected
  <2>2. CASE ~(g <= sg)
    <3>1. g > sg
      BY <1>1, <2>2 DEF Launches
    <3>2. NumSent(g) = 0
      BY <3>1 DEF IInv, SenderPosition, NumSent
    <3> QED BY <3>2
  <2> QED BY <2>1, <2>2
<1>8. HeadsNoted'
  <2>1. First .. First - 1 = {}
    BY ConstantFacts
  <2> QED BY <1>1, <2>1 DEF HeadsNoted
<1>9. HeadsEncoded'
  <2> SUFFICES ASSUME NEW g \in Launches, IsForward(g), g <= sg, NEW t \in First .. Last - 1
               PROVE  Code(Mask(g)', t, send_head[Schedule[g].layer][t])
    BY <1>1, <1>2 DEF HeadsEncoded, Code
  <2> QED BY <1>2, <1>3 DEF HInv, HeadsEncoded
<1> QED BY <1>5, <1>6, <1>7, <1>8, <1>9 DEF HInv

LEMMA PublishEndHeads == IInv /\ HInv /\ PublishEnd => HInv'
<1> SUFFICES ASSUME IInv, HInv, PublishEnd PROVE HInv'
  OBVIOUS
<1>1. /\ spc = "end" /\ spc' = IF First < Last THEN "wait" ELSE "scan"
      /\ UNCHANGED <<sg, token_idx, is_token_in_rank, send_head, sent>>
  BY DEF PublishEnd, history
<1>2. spc' = "scan" => token_idx = Last
  BY <1>1, ConstantFacts DEF IInv, SenderPosition
<1> QED BY <1>1, <1>2, FrameHeads

LEMMA PublishTailHeads == IInv /\ HInv /\ PublishTail => HInv'
<1> SUFFICES ASSUME IInv, HInv, PublishTail PROVE HInv'
  OBVIOUS
<1>1. /\ spc = "fill" /\ spc' = IF token_idx < Last THEN "wait" ELSE "scan"
      /\ UNCHANGED <<sg, token_idx, is_token_in_rank, send_head, sent>>
  BY DEF PublishTail, history
<1>2. spc' = "scan" => token_idx = Last
  BY <1>1, TokenFacts, ConstantFacts
<1> QED BY <1>1, <1>2, FrameHeads

LEMMA HeadsInductive == Spec => []HInv
<1>1. Init => HInv
  <2> SUFFICES ASSUME Init PROVE HInv
    OBVIOUS
  <2>1. SendersDone = 0 /\ \A g \in Launches : ~(g <= 0) /\ NumSent(g) = 0
    BY ConstantFacts DEF Init, SendersDone, NumSent, Launches
  <2> QED BY <2>1 DEF Init, HInv, ScanAtEnd, AllSent, SentSelected, HeadsNoted, HeadsEncoded
<1>2. IInv /\ HInv /\ [Next]_vars => HInv'
  <2> SUFFICES ASSUME IInv, HInv, [Next]_vars PROVE HInv'
    OBVIOUS
  <2>1. CASE /\ UNCHANGED <<sg, token_idx, is_token_in_rank, send_head, sent>>
             /\ spc = "idle" <=> spc' = "idle"
             /\ spc' = "scan" => token_idx = Last
    BY <2>1, FrameHeads
  <2>2. ASSUME PublishStart \/ WaitForQueueSpace
        PROVE  HInv'
    <3>1. /\ UNCHANGED <<sg, token_idx, is_token_in_rank, send_head, sent>>
          /\ spc # "idle" /\ spc' # "idle" /\ spc' # "scan"
      BY <2>2 DEF PublishStart, WaitForQueueSpace, history
    <3> QED BY <3>1, FrameHeads
  <2>3. ASSUME UNCHANGED <<senderVars, sent>> PROVE HInv'
    <3>1. /\ UNCHANGED <<sg, token_idx, is_token_in_rank, send_head, sent, spc>>
          /\ spc = "scan" => token_idx = Last
      BY <2>3 DEF senderVars, HInv, ScanAtEnd
    <3> QED BY <3>1, FrameHeads
  <2>4. ReceiverStep \/ Terminated \/ UNCHANGED vars => UNCHANGED <<senderVars, sent>>
    BY DEF ReceiverStep, Terminated, vars, history, LaunchRecv, ReadStart, ReadEnd, PollTail,
           ReadSlot, PublishHead
  <2> QED BY <2>2, <2>3, <2>4, LaunchSendHeads, PublishEndHeads, SkipTokenHeads,
             FillSlotHeads, PublishTailHeads, FinishSendHeads DEF Next, SenderStep
<1> QED BY <1>1, <1>2, InductiveInvariant, PTL DEF Spec

(* Among the packets of a whole channel, those of tokens before t are as many
   as the routing selects before t. *)
LEMMA SentBefore ==
  ASSUME IInv, HInv, NEW g \in Launches, g <= SendersDone, NEW t \in First .. Last - 1
  PROVE  /\ SelectedIn(Mask(g), First, t) \in Nat
         /\ SelectedIn(Mask(g), First, t) <= NumSent(g)
         /\ Cardinality({i \in 1 .. NumSent(g) : sent[g][i].token < t})
              = SelectedIn(Mask(g), First, t)
<1> DEFINE mask == Mask(g)
           n == SelectedIn(mask, First, t)
           before == {i \in 1 .. NumSent(g) : sent[g][i].token < t}
<1>1. mask \in SUBSET Nat /\ NumSent(g) \in Nat
  BY LaunchFacts DEF IInv
<1>2. First \in Nat /\ Last \in Nat /\ t \in Nat /\ First <= t /\ t <= Last
  BY ConstantFacts
<1>3. NumSent(g) = SelectedIn(mask, First, Last)
  BY DEF HInv, AllSent
<1>4. ASSUME NEW i \in 1 .. NumSent(g)
      PROVE  /\ sent[g][i].token \in mask /\ sent[g][i].token \in Nat
             /\ First <= sent[g][i].token
             /\ SelectedIn(mask, First, sent[g][i].token) = i - 1
  <2>1. sent[g][i].token \in mask
    BY DEF HInv, SentSelected
  <2>2. sent[g][i].token \in First .. Last - 1 /\ SelectedIn(mask, First, sent[g][i].token) = i - 1
    BY DEF IInv, RowCount
  <2> QED BY <1>1, <1>2, <2>1, <2>2
<1> HIDE DEF mask
<1>5. n \in Nat /\ n <= NumSent(g)
  <2>1. n \in Nat
    BY <1>1, <1>2, SelectedType
  <2>2. n <= SelectedIn(mask, First, Last)
    BY <1>1, <1>2, SelectedMonotone
  <2> QED BY <1>3, <2>1, <2>2
<1>6. before = 1 .. n
  <2>1. ASSUME NEW i \in 1 .. NumSent(g) PROVE sent[g][i].token < t <=> i <= n
    <3> DEFINE u == sent[g][i].token
    <3>1. u \in mask /\ u \in Nat /\ First <= u /\ SelectedIn(mask, First, u) = i - 1
      BY <1>4
    <3> HIDE DEF u
    <3>2. u < t => SelectedIn(mask, First, u) < n
      BY <1>1, <1>2, <3>1, SelectedMonotone
    <3>3. t <= u => n <= SelectedIn(mask, First, u)
      BY <1>1, <1>2, <3>1, SelectedMonotone
    <3> HIDE DEF n
    <3>4. u < t <=> i <= n
      BY <1>2, <1>5, <3>1, <3>2, <3>3
    <3> QED BY <3>4 DEF u
  <2> HIDE DEF n
  <2> QED BY <1>1, <1>5, <2>1
<1>7. Cardinality(1 .. n) = n
  <2> HIDE DEF n
  <2>1. Cardinality(1 .. n) = IF 1 > n THEN 0 ELSE n - 1 + 1
    BY <1>5, FS_Interval
  <2> QED BY <1>5, <2>1
<1> QED BY <1>5, <1>6, <1>7 DEF mask

LEMMA SentinelType == kReverseScanSentinel \in Nat
  BY SMT DEF kReverseScanSentinel

(* What combine finds in send_head once a forward dispatch has ended agrees
   with the packets that were really put into the ring. *)
THEOREM SendHeadCorrect == Spec => []SendHeadIsRingPosition
<1>1. IInv /\ HInv => SendHeadIsRingPosition
  <2> SUFFICES ASSUME IInv, HInv, NEW g \in Launches, IsForward(g), g <= SendersDone,
                      NEW t \in First .. Last - 1
               PROVE  LET h == send_head[Schedule[g].layer][t]
                          before == Cardinality({i \in 1 .. Len(sent[g]) : sent[g][i].token < t})
                      IN  IF h >= 0 THEN sent[g][h + 1].token = t
                          ELSE /\ \A i \in 1 .. Len(sent[g]) : sent[g][i].token # t
                               /\ IF before = Len(sent[g]) THEN -h - 1 = kReverseScanSentinel
                                  ELSE -h - 1 = before
    BY Zenon DEF SendHeadIsRingPosition
  <2> DEFINE h == send_head[Schedule[g].layer][t]
             mask == Mask(g)
             N == NumSent(g)
             n == SelectedIn(mask, First, t)
             before == Cardinality({i \in 1 .. N : sent[g][i].token < t})
  <2> SUFFICES /\ h >= 0 => sent[g][h + 1].token = t
               /\ ~(h >= 0) => /\ \A i \in 1 .. N : sent[g][i].token # t
                               /\ before = N => -h - 1 = kReverseScanSentinel
                               /\ before # N => -h - 1 = before
    BY Zenon DEF NumSent
  <2>1. mask \in SUBSET Nat /\ N \in Nat /\ N = SelectedIn(mask, First, Last)
    BY LaunchFacts DEF IInv, HInv, AllSent
  <2>2. First \in Nat /\ Last \in Nat /\ t \in Nat /\ First <= t /\ t < Last
    BY ConstantFacts
  <2>3. Code(mask, t, h)
    BY DEF HInv, HeadsEncoded
  <2>4. ASSUME NEW i \in 1 .. N
        PROVE  /\ sent[g][i].token \in mask /\ First <= sent[g][i].token
               /\ SelectedIn(mask, First, sent[g][i].token) = i - 1
    <3>1. sent[g][i].token \in mask
      BY DEF HInv, SentSelected
    <3>2. sent[g][i].token \in First .. Last - 1
          /\ SelectedIn(mask, First, sent[g][i].token) = i - 1
      BY DEF IInv, RowCount
    <3> QED BY <2>2, <3>1, <3>2
  <2>5. n \in Nat /\ n <= N /\ before = n
    BY SentBefore
  <2> HIDE DEF h, mask, N, n, before
  <2>6. CASE t \in mask
    <3>1. h = n /\ h >= 0
      BY <2>3, <2>5, <2>6 DEF Code, n
    <3>2. n < N
      BY <2>1, <2>2, <2>6, SelectedMonotone DEF n
    <3>3. n + 1 \in 1 .. N
      BY <2>1, <2>5, <3>2
    <3> DEFINE u == sent[g][n + 1].token
    <3>4. u \in mask /\ First <= u /\ SelectedIn(mask, First, u) = n
      BY <2>4, <2>5, <3>3
    <3> HIDE DEF u
    <3>5. u = t
      BY <2>1, <2>2, <2>6, <3>4, SelectedInjective DEF n
    <3> QED BY <3>1, <3>5 DEF u
  <2>7. CASE t \notin mask
    <3>1. \A i \in 1 .. N : sent[g][i].token # t
      BY <2>4, <2>7
    <3>2. ASSUME NEW v \in Nat, t < v, v <= Last,
                 \A u \in First .. Last - 1 : u > t /\ u < v => u \notin mask
          PROVE  SelectedIn(mask, First, v) = n
      <4> DEFINE gap == {u \in mask : t <= u /\ u < v}
      <4>1. gap = {}
        <5>1. ASSUME NEW u \in mask, t <= u, u < v PROVE FALSE
          <6>1. u \in Nat /\ u # t
            BY <2>1, <2>7
          <6>2. u \in First .. Last - 1 /\ u > t
            BY <2>2, <3>2, <5>1, <6>1
          <6> QED BY <3>2, <5>1, <6>2
        <5> QED BY <5>1
      <4> HIDE DEF gap
      <4>2. SelectedIn(mask, t, v) = 0
        BY <4>1, FS_EmptySet DEF SelectedIn, gap
      <4>3. SelectedIn(mask, First, v) = SelectedIn(mask, First, t) + SelectedIn(mask, t, v)
        BY <2>1, <2>2, <3>2, SelectedSplit
      <4> QED BY <2>5, <4>2, <4>3 DEF n
    <3>3. CASE /\ h = -kReverseScanSentinel - 1
               /\ \A u \in First .. Last - 1 : u > t => u \notin mask
      <4>1. N = n
        BY <2>1, <2>2, <3>2, <3>3
      <4>2. ~(h >= 0) /\ -h - 1 = kReverseScanSentinel
        BY <3>3, SentinelType
      <4> QED BY <2>5, <3>1, <4>1, <4>2
    <3>4. CASE \E v \in First .. Last - 1 :
                 /\ v > t /\ v \in mask /\ h = -SelectedIn(mask, First, v) - 1
                 /\ \A u \in First .. Last - 1 : u > t /\ u < v => u \notin mask
      <4>1. PICK v \in First .. Last - 1 :
                 /\ v > t /\ v \in mask /\ h = -SelectedIn(mask, First, v) - 1
                 /\ \A u \in First .. Last - 1 : u > t /\ u < v => u \notin mask
        BY <3>4
      <4>2. v \in Nat /\ First <= v /\ v < Last /\ t < v /\ v <= Last
        BY <2>2, <4>1
      <4>3. SelectedIn(mask, First, v) = n
        BY <3>2, <4>1, <4>2
      <4>4. SelectedIn(mask, First, v) < N
        BY <2>1, <2>2, <4>1, <4>2, SelectedMonotone
      <4>5. ~(h >= 0) /\ -h - 1 = n /\ n # N
        BY <2>1, <2>5, <4>1, <4>3, <4>4
      <4> QED BY <2>5, <3>1, <4>5
    <3> QED BY <2>3, <2>7, <3>3, <3>4 DEF Code
  <2> QED BY <2>6, <2>7
<1> QED BY <1>1, InductiveInvariant, HeadsInductive, PTL

-----------------------------------------------------------------------------
(***************************************************************************)
(* Stale words.  A stamp a reader rejects could be of a later launch only  *)
(* if the sender ran a launch ahead of the receiver.  The barrier before a *)
(* forward launch rules that out; before a backward launch nothing does    *)
(* but A's combine, which waits for B only where A sent B something.       *)
(***************************************************************************)
AlwaysRouted ==
  \A g \in Launches :
    g + 1 \in Launches /\ ~IsForward(g + 1) => {} \notin Masks[Schedule[g].layer]

RoutedByMasks == \A g \in Launches : g <= sg => Mask(g) \in Masks[Schedule[g].layer]

HeadsBehindSender == \A g \in Launches : channel_head_idx.seq = NvlSeq(g) => g <= sg

LaunchInv ==
  /\ sg <= ReceiversDone + 1
  /\ RoutedByMasks
  /\ HeadsBehindSender

LEMMA LaunchSendInOrder == AlwaysRouted /\ IInv /\ LaunchInv /\ LaunchSend => LaunchInv'
<1> SUFFICES ASSUME AlwaysRouted, IInv, LaunchInv, LaunchSend PROVE LaunchInv'
  OBVIOUS
<1>1. /\ sg \in Nat /\ sg' = sg + 1 /\ sg + 1 \in Launches /\ rg \in Nat
      /\ ReceiversDone' = ReceiversDone /\ channel_head_idx' = channel_head_idx
      /\ \A g \in Launches : g \in Nat /\ g > 0
  BY ConstantFacts DEF IInv, TypeOK, LaunchSend, Launches, slab, receiverVars, ReceiversDone
<1>2. ReceiversDone \in Int /\ ReceiversDone >= 0
  <2>1. rpc # "idle" => rg > 0
    BY DEF IInv, ReceiverPosition
  <2> QED BY <1>1, <2>1 DEF ReceiversDone
<1>3. ReceiversDone >= sg
  <2>1. CASE IsForward(sg + 1)
    BY <2>1 DEF LaunchSend
  <2>2. CASE ~IsForward(sg + 1) /\ sg > 0
    <3>1. sg \in Launches
      BY <1>1, <2>2, ConstantFacts DEF Launches
    <3>2. Mask(sg) \in Masks[Schedule[sg].layer]
      BY <1>1, <3>1 DEF LaunchInv, RoutedByMasks
    <3>3. {} \notin Masks[Schedule[sg].layer]
      BY <1>1, <2>2, <3>1 DEF AlwaysRouted
    <3>4. Mask(sg) # {}
      BY <3>2, <3>3
    <3> QED BY <2>2, <3>4 DEF LaunchSend, CombineReturned
  <2>3. CASE sg = 0
    BY <1>2, <2>3
  <2> QED BY <1>1, <2>1, <2>2, <2>3
<1>4. (sg <= ReceiversDone + 1)'
  BY <1>1, <1>2, <1>3
<1>5. RoutedByMasks'
  <2> SUFFICES ASSUME NEW g \in Launches, g <= sg + 1
               PROVE  Mask(g)' \in Masks[Schedule[g].layer]
    BY <1>1 DEF RoutedByMasks
  <2>1. CASE g <= sg
    BY <2>1, MaskStable DEF LaunchInv, RoutedByMasks
  <2>2. CASE g = sg + 1 /\ IsForward(g)
    <3>1. PICK m \in Masks[Schedule[g].layer] :
            is_token_in_rank' = [is_token_in_rank EXCEPT ![Schedule[g].layer] = m]
      BY <2>2 DEF LaunchSend
    <3>2. is_token_in_rank \in [Layers -> SUBSET Tokens] /\ Schedule[g].layer \in Layers
      BY StampFacts DEF IInv, TypeOK
    <3>3. Mask(g)' = m
      BY <3>1, <3>2 DEF Mask
    <3> QED BY <3>3
  <2>3. CASE g = sg + 1 /\ ~IsForward(g)
    <3>1. PICK h \in 1 .. g - 1 : Schedule[h] = [layer |-> Schedule[g].layer, phase |-> 0]
      BY <2>3, ScheduleAssumption
    <3>2. h \in Launches /\ h <= sg /\ Schedule[h].layer = Schedule[g].layer
      BY <1>1, <2>3, <3>1, ConstantFacts DEF Launches
    <3>3. Mask(h)' \in Masks[Schedule[h].layer]
      BY <3>2, MaskStable DEF LaunchInv, RoutedByMasks
    <3> QED BY <3>2, <3>3 DEF Mask
  <2> QED BY <1>1, <2>1, <2>2, <2>3
<1>6. HeadsBehindSender'
  BY <1>1 DEF LaunchInv, HeadsBehindSender
<1> QED BY <1>4, <1>5, <1>6 DEF LaunchInv

(* The head is published in a launch that the sender is in too. *)
LEMMA PublishHeadInOrder == IInv /\ LaunchInv /\ PublishHead => LaunchInv'
<1> SUFFICES ASSUME IInv, LaunchInv, PublishHead PROVE LaunchInv'
  OBVIOUS
<1>1. /\ rpc = "publish" /\ rg = sg /\ rg \in Launches /\ rg \in Nat /\ sg \in Nat
      /\ sg' = sg /\ rg' = rg /\ is_token_in_rank' = is_token_in_rank
      /\ channel_head_idx'.seq = NvlSeq(rg)
  <2>1. rpc = "publish" /\ sg' = sg /\ rg' = rg /\ is_token_in_rank' = is_token_in_rank
    BY DEF PublishHead, senderVars
  <2>2. rg = sg
    BY <2>1 DEF IInv, ReceiverPosition
  <2>3. channel_head_idx'.seq = NvlSeq(rg)
    BY DEF PublishHead, NvlPack
  <2> QED BY <2>1, <2>2, <2>3, ReceiverFacts DEF IInv, TypeOK
<1>2. (sg <= ReceiversDone + 1)'
  BY <1>1 DEF ReceiversDone
<1>3. RoutedByMasks'
  BY <1>1 DEF LaunchInv, RoutedByMasks, Mask
<1>4. HeadsBehindSender'
  <2> SUFFICES ASSUME NEW g \in Launches, channel_head_idx'.seq = NvlSeq(g)
               PROVE  g <= sg'
    BY DEF HeadsBehindSender
  <2>1. g = rg
    BY <1>1, StampFacts
  <2> QED BY <1>1, <2>1
<1> QED BY <1>2, <1>3, <1>4 DEF LaunchInv

LEMMA FrameLaunches ==
  ASSUME LaunchInv, UNCHANGED <<sg, is_token_in_rank, channel_head_idx>>,
         sg \in Nat, ReceiversDone \in Int, ReceiversDone' \in Int,
         ReceiversDone <= ReceiversDone'
  PROVE  LaunchInv'
<1>1. (sg <= ReceiversDone + 1)'
  <2>1. PICK before, after \in Int : before = ReceiversDone /\ after = ReceiversDone'
    OBVIOUS
  <2>2. sg <= before + 1 /\ before <= after /\ sg' = sg
    BY <2>1 DEF LaunchInv
  <2>3. sg' <= after + 1
    BY <2>2
  <2> QED BY <2>1, <2>3
<1>2. RoutedByMasks'
  BY DEF LaunchInv, RoutedByMasks, Mask
<1>3. HeadsBehindSender'
  BY DEF LaunchInv, HeadsBehindSender
<1> QED BY <1>1, <1>2, <1>3 DEF LaunchInv

LEMMA LaunchesInductive == ASSUME AlwaysRouted PROVE Spec => []LaunchInv
<1>1. Init => LaunchInv
  <2> SUFFICES ASSUME Init PROVE LaunchInv
    OBVIOUS
  <2>1. \A g \in Launches : g \in Nat /\ ~(g <= 0) /\ NvlSeq(g) # 0
    BY ConstantFacts, StampFacts DEF Launches
  <2> QED BY <2>1 DEF Init, LaunchInv, RoutedByMasks, HeadsBehindSender, ReceiversDone
<1>2. IInv /\ LaunchInv /\ [Next]_vars => LaunchInv'
  <2> SUFFICES ASSUME IInv, LaunchInv, [Next]_vars PROVE LaunchInv'
    OBVIOUS
  <2>1. sg \in Nat /\ rg \in Nat /\ ReceiversDone \in Int
    BY DEF IInv, TypeOK, ReceiversDone
  <2>2. ASSUME UNCHANGED <<sg, is_token_in_rank, channel_head_idx>>,
               \/ UNCHANGED <<rg, rpc>>
               \/ rpc = "idle" /\ rpc' # "idle" /\ rg' = rg + 1
               \/ rpc # "idle" /\ rg' = rg
        PROVE  LaunchInv'
    <3>1. ReceiversDone' \in Int /\ ReceiversDone <= ReceiversDone'
      BY <2>1, <2>2 DEF ReceiversDone
    <3> QED BY <2>1, <2>2, <3>1, FrameLaunches
  <2>3. CASE \/ PublishStart \/ PublishEnd \/ WaitForQueueSpace \/ SkipToken \/ FillSlot
             \/ PublishTail \/ FinishSend \/ Terminated \/ UNCHANGED vars
    <3>1. UNCHANGED <<sg, is_token_in_rank, channel_head_idx, rg, rpc>>
      BY <2>3 DEF PublishStart, PublishEnd, WaitForQueueSpace, SkipToken, FillSlot,
                  PublishTail, FinishSend, Terminated, vars, slab, senderVars, receiverVars
    <3> QED BY <2>2, <3>1
  <2>4. CASE LaunchRecv \/ ReadStart \/ ReadEnd \/ PollTail \/ ReadSlot
    <3>1. /\ UNCHANGED <<sg, is_token_in_rank, channel_head_idx>>
          /\ \/ rpc = "idle" /\ rpc' # "idle" /\ rg' = rg + 1
             \/ rpc # "idle" /\ rg' = rg
      BY <2>4 DEF LaunchRecv, ReadStart, ReadEnd, PollTail, ReadSlot, slab, senderVars
    <3> QED BY <2>2, <3>1
  <2> QED BY <2>3, <2>4, LaunchSendInOrder, PublishHeadInOrder
          DEF Next, SenderStep, ReceiverStep
<1> QED BY <1>1, <1>2, InductiveInvariant, PTL DEF Spec

(* A word whose stamp a reader rejects is a residue of an earlier launch,
   provided that a launch the next backward launch queues behind routes a
   token to the peer: the offset spins, which have no timeout, then never
   wait for a word that a later launch has overwritten.  The hypothesis is
   needed; without it the property fails (MCDispatchRingEmpty). *)
THEOREM MismatchResidue == ASSUME AlwaysRouted PROVE Spec => []MismatchIsResidue
<1>1. IInv /\ LaunchInv => MismatchIsResidue
  <2> SUFFICES ASSUME IInv, LaunchInv PROVE MismatchIsResidue
    OBVIOUS
  <2>1. sg \in Nat /\ rg \in Nat /\ \A g \in Launches : g \in Nat
    BY ConstantFacts DEF IInv, TypeOK, Launches
  <2>2. rpc # "idle" => sg <= rg
    BY <2>1 DEF LaunchInv, ReceiversDone
  <2>3. ASSUME NEW g \in Launches, rpc # "idle",
               \/ channel_start_offset.seq = NvlSeq(g)
               \/ channel_end_offset.seq = NvlSeq(g)
               \/ channel_tail_idx.seq = NvlSeq(g)
        PROVE  g <= rg
    <3>1. g <= sg
      BY <2>3 DEF IInv, WordsTruthful
    <3> QED BY <2>1, <2>2, <2>3, <3>1
  <2>4. ASSUME NEW g \in Launches, channel_head_idx.seq = NvlSeq(g)
        PROVE  g <= sg
    BY <2>4 DEF LaunchInv, HeadsBehindSender
  <2> QED BY <2>3, <2>4 DEF MismatchIsResidue
<1> QED BY <1>1, InductiveInvariant, LaunchesInductive, PTL
=============================================================================
