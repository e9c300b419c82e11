----------------------------- MODULE DispatchRing ----------------------------
(***************************************************************************)
(* One substream of the intranode dispatch: the thread group of a sender   *)
(* block on rank A and the thread group of a receiver block on rank B that *)
(* serve one (channel, A, B).  They share a ring of num_recv_buffer_tokens *)
(* slots and four 64-bit control words in B's IPC slab: channel_start_     *)
(* offset, channel_end_offset and channel_tail_idx, written by A, and      *)
(* channel_head_idx, written by B.  The slab is zeroed once, by the Buffer *)
(* constructor, and then reused by every launch of dispatch_main_kernel    *)
(* (forward) and dispatch_grads_main_kernel (backward).  A control word    *)
(* carries the launch's stamp, nvl_seq, and a reader ignores a word whose  *)
(* stamp is not its own launch's.                                          *)
(*                                                                         *)
(* Launches happen in the order of each rank's communicate stream.  What   *)
(* keeps A's next launch away from B's previous one is not the ring but    *)
(* what runs between the two: the barrier of the metadata kernel before a  *)
(* forward launch, and A's combine, which returns only once B has combined *)
(* the tokens A sent it.  LaunchSend and LaunchRecv state both.            *)
(***************************************************************************)
EXTENDS ChannelOps, Sequences

CONSTANTS
  NumLaunches,             \* kernel launches considered (bounds the model)
  Schedule,                \* 1 .. NumLaunches -> [layer, phase], in stream order
  Layers,                  \* the values of dispatch_seq
  Masks,                   \* Masks[l]: the routing masks layer l may have
  NumTokens,               \* num_tokens of rank A
  NumChannels, Channel,    \* the channels, and the one modelled
  num_recv_buffer_tokens,  \* ring capacity
  num_max_send_tokens      \* tokens per send chunk

Launches == 1 .. NumLaunches
Tokens == 0 .. NumTokens - 1
First == ChannelStart(NumTokens, NumChannels, Channel)
Last == ChannelEnd(NumTokens, NumChannels, Channel)

IsForward(g) == Schedule[g].phase = 0

(* dispatch_seq << 1 for a forward launch, (dispatch_seq << 1) | 1 backward *)
NvlSeq(g) == 2 * Schedule[g].layer + Schedule[g].phase

ASSUME ScheduleAssumption ==
  /\ NumLaunches \in Nat
  /\ Layers \subseteq Nat \ {0}
  /\ \A l \in Layers : l \div 2 < 2^30    \* nvl_pack keeps 32 bits of the stamp
  /\ Schedule \in [Launches -> [layer : Layers, phase : {0, 1}]]
  /\ \A g, h \in Launches : Schedule[g] = Schedule[h] => g = h
  /\ \A g \in Launches : ~IsForward(g) =>       \* the handle comes from a forward
       \E h \in 1 .. g - 1 : Schedule[h] = [layer |-> Schedule[g].layer, phase |-> 0]
ASSUME TokenAssumption ==
  /\ NumTokens \in Nat
  /\ NumChannels \in Nat \ {0}
  /\ Channel \in 0 .. NumChannels - 1
  /\ Masks \in [Layers -> SUBSET SUBSET Tokens]
ASSUME CapacityAssumption ==   \* the assertions of Config's constructor
  /\ num_max_send_tokens \in Nat \ {0}
  /\ num_recv_buffer_tokens \in Nat
  /\ num_max_send_tokens < num_recv_buffer_tokens

VARIABLES
  \* B's IPC slab
  channel_start_offset, channel_end_offset, channel_head_idx, channel_tail_idx,
  slots,
  \* rank A: the launch its sender is in (or finished), where it stands in it
  sg, spc, token_idx, chunk_token_idx, sent_tail,
  is_token_in_rank, send_head,
  \* rank B: likewise for its receiver
  rg, rpc, total_offset, num_tokens_to_recv, read_head, batch_tail, batch_pos,
  \* history: the packets each launch put into the ring and took out of it,
  \* and the row each of the latter was given
  sent, received, rows

slab == <<channel_start_offset, channel_end_offset, channel_head_idx,
          channel_tail_idx, slots>>
senderVars == <<sg, spc, token_idx, chunk_token_idx, sent_tail,
                is_token_in_rank, send_head>>
receiverVars == <<rg, rpc, total_offset, num_tokens_to_recv, read_head,
                  batch_tail, batch_pos>>
history == <<sent, received, rows>>
vars == <<slab, senderVars, receiverVars, history>>

Packet == [launch : Launches, token : Tokens]
Empty == [launch |-> 0, token |-> 0]      \* a slot never written

(* Faulty variants: readers that do not look at the stamp. *)
MatchAnyStamp(word, g) == TRUE
CursorAnyStamp(word, g) == word.value

(* nvl_pack, and the value a reader in launch g takes from a head or tail *)
NvlPack(g, v) == [seq |-> NvlSeq(g), value |-> v]
NvlMatch(word, g) == word.seq = NvlSeq(g)
NvlCursor(word, g) == IF NvlMatch(word, g) THEN word.value ELSE 0

Mask(g) == is_token_in_rank[Schedule[g].layer]

(* launches whose kernel has completed on each rank *)
SendersDone == IF spc = "idle" THEN sg ELSE sg - 1
ReceiversDone == IF rpc = "idle" THEN rg ELSE rg - 1

(***************************************************************************)
(* A's kernels of launch g, dispatch and then combine, are over.  A's      *)
(* dispatch kernel ends only when its own receivers have read the offsets  *)
(* that B's kernel of launch g wrote, so B has entered that kernel.  A's   *)
(* combine waits for the packet of every token A sent to B in any channel, *)
(* and B combines only after its dispatch kernel of launch g, on the same  *)
(* stream, has completed.                                                  *)
(***************************************************************************)
CombineReturned(g) ==
  /\ SendersDone >= g /\ rg >= g
  /\ (g > 0 /\ Mask(g) # {}) => ReceiversDone >= g

Init ==
  /\ channel_start_offset = [seq |-> 0, value |-> 0]
  /\ channel_end_offset   = [seq |-> 0, value |-> 0]
  /\ channel_head_idx     = [seq |-> 0, value |-> 0]
  /\ channel_tail_idx     = [seq |-> 0, value |-> 0]
  /\ slots = [i \in 0 .. num_recv_buffer_tokens - 1 |-> Empty]
  /\ sg = 0 /\ spc = "idle" /\ token_idx = 0 /\ chunk_token_idx = 0 /\ sent_tail = 0
  /\ is_token_in_rank = [l \in Layers |-> {}]
  /\ send_head = [l \in Layers |-> [t \in Tokens |-> -1]]
  /\ rg = 0 /\ rpc = "idle" /\ total_offset = 0 /\ num_tokens_to_recv = 0
  /\ read_head = 0 /\ batch_tail = 0 /\ batch_pos = 0
  /\ sent = [g \in Launches |-> << >>]
  /\ received = [g \in Launches |-> << >>]
  /\ rows = [g \in Launches |-> << >>]

-----------------------------------------------------------------------------
(* Rank A: the sender *)

(* Faulty variant: the next kernel does not queue behind A's own combine. *)
LaunchSendEarly ==
  /\ spc = "idle" /\ sg < NumLaunches
  /\ rg >= sg
  /\ sg' = sg + 1
  /\ IF IsForward(sg + 1)
       THEN \E m \in Masks[Schedule[sg + 1].layer] :
              is_token_in_rank' = [is_token_in_rank EXCEPT ![Schedule[sg + 1].layer] = m]
       ELSE UNCHANGED is_token_in_rank
  /\ spc' = "start"
  /\ token_idx' = First /\ chunk_token_idx' = 0 /\ sent_tail' = 0
  /\ UNCHANGED <<slab, send_head, receiverVars, history>>

(* The next kernel of A's communicate stream.  A forward launch is preceded
   by the metadata kernel, whose barrier B also enters only after its
   previous launches; a backward launch reuses the forward routing and is
   preceded by nothing but A's own previous kernels. *)
LaunchSend ==
  /\ spc = "idle" /\ sg < NumLaunches
  /\ CombineReturned(sg)
  /\ IsForward(sg + 1) => ReceiversDone >= sg
  /\ sg' = sg + 1
  /\ IF IsForward(sg + 1)
       THEN \E m \in Masks[Schedule[sg + 1].layer] :
              is_token_in_rank' = [is_token_in_rank EXCEPT ![Schedule[sg + 1].layer] = m]
       ELSE UNCHANGED is_token_in_rank
  /\ spc' = "start"
  /\ token_idx' = First /\ chunk_token_idx' = 0 /\ sent_tail' = 0
  /\ UNCHANGED <<slab, send_head, receiverVars, history>>

(* The number of tokens for B before this channel, and through it, biased
   so that zero is written as -1. *)
PublishStart ==
  /\ spc = "start"
  /\ channel_start_offset' = NvlPack(sg, -SelectedIn(Mask(sg), 0, First) - 1)
  /\ spc' = "end"
  /\ UNCHANGED <<channel_end_offset, channel_head_idx, channel_tail_idx, slots, sg,
                 token_idx, chunk_token_idx, sent_tail, is_token_in_rank, send_head,
                 receiverVars, history>>

PublishEnd ==
  /\ spc = "end"
  /\ channel_end_offset' = NvlPack(sg, -SelectedIn(Mask(sg), 0, Last) - 1)
  /\ spc' = IF First < Last THEN "wait" ELSE "scan"
  /\ UNCHANGED <<channel_start_offset, channel_head_idx, channel_tail_idx, slots, sg,
                 token_idx, chunk_token_idx, sent_tail, is_token_in_rank, send_head,
                 receiverVars, history>>

(* sender_wait_for_queue_space: room for a whole chunk; the head of another
   launch counts as zero *)
WaitForQueueSpace ==
  /\ spc = "wait"
  /\ num_recv_buffer_tokens - (sent_tail - NvlCursor(channel_head_idx, sg))
       >= num_max_send_tokens
  /\ spc' = "fill" /\ chunk_token_idx' = 0
  /\ UNCHANGED <<slab, sg, token_idx, sent_tail, is_token_in_rank, send_head,
                 receiverVars, history>>

(* Faulty variant: an off-by-one that never takes the channel's last token. *)
ChunkOpenShort == chunk_token_idx < num_max_send_tokens /\ token_idx < Last - 1

ChunkOpen == chunk_token_idx < num_max_send_tokens /\ token_idx < Last

(* One token of the chunk loop.  The forward kernel also notes the ring
   position of the token, for combine. *)
NoteHead(h) ==
  send_head' = IF IsForward(sg)
                 THEN [send_head EXCEPT ![Schedule[sg].layer][token_idx] = h]
                 ELSE send_head

SkipToken ==
  /\ spc = "fill" /\ ChunkOpen
  /\ token_idx \notin Mask(sg)
  /\ NoteHead(-1)
  /\ token_idx' = token_idx + 1
  /\ UNCHANGED <<slab, sg, spc, chunk_token_idx, sent_tail, is_token_in_rank,
                 receiverVars, history>>

FillSlot ==
  /\ spc = "fill" /\ ChunkOpen
  /\ token_idx \in Mask(sg)
  /\ NoteHead(sent_tail)
  /\ LET packet == [launch |-> sg, token |-> token_idx]
     IN  /\ slots' = [slots EXCEPT ![sent_tail % num_recv_buffer_tokens] = packet]
         /\ sent' = [sent EXCEPT ![sg] = Append(@, packet)]
  /\ sent_tail' = sent_tail + 1
  /\ chunk_token_idx' = chunk_token_idx + 1
  /\ token_idx' = token_idx + 1
  /\ UNCHANGED <<channel_start_offset, channel_end_offset, channel_head_idx,
                 channel_tail_idx, sg, spc, is_token_in_rank, receiverVars,
                 received, rows>>

(* All warps of the group have met at the bar.sync: publish the tail. *)
PublishTail ==
  /\ spc = "fill" /\ ~ChunkOpen
  /\ channel_tail_idx' = NvlPack(sg, sent_tail)
  /\ spc' = IF token_idx < Last THEN "wait" ELSE "scan"
  /\ UNCHANGED <<channel_start_offset, channel_end_offset, channel_head_idx, slots, sg,
                 token_idx, chunk_token_idx, sent_tail, is_token_in_rank, send_head,
                 receiverVars, history>>

(* The reverse scan over the channel's send_head (forward only), and exit. *)
FinishSend ==
  /\ spc = "scan"
  /\ send_head' = IF IsForward(sg)
                    THEN [send_head EXCEPT ![Schedule[sg].layer] =
                            EncodeHeads(@, First, Last)]
                    ELSE send_head
  /\ spc' = "idle"
  /\ UNCHANGED <<slab, sg, token_idx, chunk_token_idx, sent_tail, is_token_in_rank,
                 receiverVars, history>>

-----------------------------------------------------------------------------
(* Rank B: the receiver *)

(* B's side of the same stream order: a forward launch follows the metadata
   barrier, which A enters only after its previous launch and combine. *)
LaunchRecv ==
  /\ rpc = "idle" /\ rg < NumLaunches
  /\ IsForward(rg + 1) => sg > rg \/ (sg = rg /\ CombineReturned(rg))
  /\ rg' = rg + 1
  /\ rpc' = "start"
  /\ read_head' = 0 /\ batch_tail' = 0 /\ batch_pos' = 0
  /\ UNCHANGED <<slab, senderVars, total_offset, num_tokens_to_recv, history>>

(* The two spins on the offsets end only on a word of this very launch. *)
ReadStart ==
  /\ rpc = "start"
  /\ NvlMatch(channel_start_offset, rg)
  /\ total_offset' = -channel_start_offset.value - 1
  /\ rpc' = "end"
  /\ UNCHANGED <<slab, senderVars, rg, num_tokens_to_recv, read_head, batch_tail,
                 batch_pos, history>>

ReadEnd ==
  /\ rpc = "end"
  /\ NvlMatch(channel_end_offset, rg)
  /\ num_tokens_to_recv' = -channel_end_offset.value - 1 - total_offset
  /\ rpc' = IF num_tokens_to_recv' > 0 THEN "poll" ELSE "idle"
  /\ UNCHANGED <<slab, senderVars, rg, total_offset, read_head, batch_tail,
                 batch_pos, history>>

PollTail ==
  /\ rpc = "poll"
  /\ NvlCursor(channel_tail_idx, rg) # read_head
  /\ batch_tail' = NvlCursor(channel_tail_idx, rg)
  /\ batch_pos' = read_head
  /\ rpc' = "read"
  /\ UNCHANGED <<slab, senderVars, rg, total_offset, num_tokens_to_recv, read_head,
                 history>>

(* Pass A and Pass B on one slot of the batch: the packet lands in the row
   that follows the rows of the earlier packets. *)
ReadSlot ==
  /\ rpc = "read"
  /\ received' = [received EXCEPT ![rg] =
                    Append(@, slots[batch_pos % num_recv_buffer_tokens])]
  /\ rows' = [rows EXCEPT ![rg] = Append(@, total_offset + (batch_pos - read_head))]
  /\ batch_pos' = batch_pos + 1
  /\ rpc' = IF batch_pos' < batch_tail THEN "read" ELSE "publish"
  /\ UNCHANGED <<slab, senderVars, rg, total_offset, num_tokens_to_recv, read_head,
                 batch_tail, sent>>

(* Faulty variant: the row counter stays at the channel's first row. *)
PublishHeadSameRow ==
  /\ rpc = "publish"
  /\ channel_head_idx' = NvlPack(rg, batch_tail)
  /\ read_head' = batch_tail
  /\ num_tokens_to_recv' = num_tokens_to_recv - (batch_tail - read_head)
  /\ rpc' = IF num_tokens_to_recv' > 0 THEN "poll" ELSE "idle"
  /\ UNCHANGED <<channel_start_offset, channel_end_offset, channel_tail_idx, slots,
                 senderVars, rg, total_offset, batch_tail, batch_pos, history>>

PublishHead ==
  /\ rpc = "publish"
  /\ channel_head_idx' = NvlPack(rg, batch_tail)
  /\ read_head' = batch_tail
  /\ total_offset' = total_offset + (batch_tail - read_head)
  /\ num_tokens_to_recv' = num_tokens_to_recv - (batch_tail - read_head)
  /\ rpc' = IF num_tokens_to_recv' > 0 THEN "poll" ELSE "idle"
  /\ UNCHANGED <<channel_start_offset, channel_end_offset, channel_tail_idx, slots,
                 senderVars, rg, batch_tail, batch_pos, history>>

(* Both ranks are through the schedule. *)
AllDone == SendersDone = NumLaunches /\ ReceiversDone = NumLaunches

Terminated == AllDone /\ UNCHANGED vars

-----------------------------------------------------------------------------
SenderStep ==
  \/ LaunchSend \/ PublishStart \/ PublishEnd \/ WaitForQueueSpace
  \/ SkipToken \/ FillSlot \/ PublishTail \/ FinishSend

ReceiverStep ==
  \/ LaunchRecv \/ ReadStart \/ ReadEnd \/ PollTail \/ ReadSlot \/ PublishHead

Next == SenderStep \/ ReceiverStep \/ Terminated

Spec == Init /\ [][Next]_vars

(* Blocks of a launched kernel are resident and run; a stream starts its
   next kernel once what it waits for is over. *)
FairSpec == Spec /\ WF_vars(SenderStep) /\ WF_vars(ReceiverStep)
-----------------------------------------------------------------------------
(* Types, with the ranges the cursors keep. *)
TypeOK ==
  /\ channel_start_offset \in [seq : Nat, value : Int]
  /\ channel_end_offset   \in [seq : Nat, value : Int]
  /\ channel_head_idx     \in [seq : Nat, value : Nat]
  /\ channel_tail_idx     \in [seq : Nat, value : Nat]
  /\ slots \in [0 .. num_recv_buffer_tokens - 1 -> Packet \cup {Empty}]
  /\ sg \in 0 .. NumLaunches
  /\ spc \in {"idle", "start", "end", "wait", "fill", "scan"}
  /\ token_idx \in Nat /\ chunk_token_idx \in 0 .. num_max_send_tokens
  /\ sent_tail \in Nat
  /\ is_token_in_rank \in [Layers -> SUBSET Tokens]
  /\ send_head \in [Layers -> [Tokens -> Int]]
  /\ rg \in 0 .. NumLaunches
  /\ rpc \in {"idle", "start", "end", "poll", "read", "publish"}
  /\ total_offset \in Nat /\ num_tokens_to_recv \in Nat
  /\ read_head \in Nat /\ batch_tail \in Nat /\ batch_pos \in Nat
  /\ sent \in [Launches -> Seq(Packet)]
  /\ received \in [Launches -> Seq(Packet \cup {Empty})]
  /\ rows \in [Launches -> Seq(Nat)]

(* The sender reuses a slot only after the receiver has taken the packet out
   of it: every packet put in and not yet taken out is still in its slot,
   although the sender judges the free space by a head word that may date
   from another launch (intranode.cu, sender_wait_for_queue_space). *)
UnreadPacketsIntact ==
  \A g \in Launches :
    \A i \in Len(received[g]) + 1 .. Len(sent[g]) :
      slots[(i - 1) % num_recv_buffer_tokens] = sent[g][i]

(* A receiver that leaves its loop has taken exactly the tokens routed to it
   in this channel: neither a stale offset nor a stale tail of an earlier
   launch made it stop early or run over. *)
CompletedLaunchIsWhole ==
  \A g \in Launches :
    g <= ReceiversDone => Len(received[g]) = SelectedIn(Mask(g), First, Last)

(* Forward and backward land a token in the same row: the number of tokens
   before it, in any channel, that the same rank routed to the same peer.
   dispatch_grads finds a token's pool slots by that row. *)
RowIsRoutingRank ==
  \A g \in Launches : \A i \in 1 .. Len(received[g]) :
    rows[g][i] = SelectedIn(Mask(g), 0, received[g][i].token)

(* After the reverse scan, send_head tells combine what it may free: for a
   token sent, its own ring position; for a token not sent, the position of
   the next one that was (or the sentinel past them all).  Stated against
   the packets really put into the ring. *)
SendHeadIsRingPosition ==
  \A g \in Launches : (IsForward(g) /\ g <= SendersDone) =>
    \A t \in First .. Last - 1 :
      LET h == send_head[Schedule[g].layer][t]
          before == Cardinality({i \in 1 .. Len(sent[g]) : sent[g][i].token < t})
      IN  IF h >= 0 THEN sent[g][h + 1].token = t
          ELSE /\ \A i \in 1 .. Len(sent[g]) : sent[g][i].token # t
               /\ IF before = Len(sent[g]) THEN -h - 1 = kReverseScanSentinel
                  ELSE -h - 1 = before

(* A control word whose stamp a reader rejects dates from an earlier launch,
   as utils.cuh says of nvl_pack and as the endless spins on the offsets rely
   on: were it of a later one, the word waited for would be lost.  The ring
   alone does not give this; the order of the launches must. *)
MismatchIsResidue ==
  \A g \in Launches :
    /\ rpc = "start" /\ channel_start_offset.seq = NvlSeq(g) => g <= rg
    /\ rpc \in {"start", "end"} /\ channel_end_offset.seq = NvlSeq(g) => g <= rg
    /\ rpc # "idle" /\ channel_tail_idx.seq = NvlSeq(g) => g <= rg
    /\ spc # "idle" /\ channel_head_idx.seq = NvlSeq(g) => g <= sg

(* The ring is a bounded queue of its own for every launch. *)
Fifo == INSTANCE SubstreamFifo WITH
  Packets <- Packet, Capacity <- num_recv_buffer_tokens

RingIsFifo == Fifo!Spec

(* Every launch a receiver enters drains: the spins on the offsets, on the
   tail and on the free space all end (the offset spins have no timeout). *)
LaunchesDrain ==
  \A g \in Launches : (rg = g /\ rpc # "idle") ~> (ReceiversDone >= g)
=============================================================================
