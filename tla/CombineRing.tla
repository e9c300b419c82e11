----------------------------- MODULE CombineRing -----------------------------
(***************************************************************************)
(* One channel of combine_main_kernel as one rank sees it that takes its   *)
(* tokens back: on each peer the thread group that ships the peer's rows   *)
(* into a ring, and here a block whose warp 0 has a lane per peer moving   *)
(* the queue heads, and whose other warps reduce tokens, worker w the      *)
(* tokens w - 1, w - 1 + W, ... of the channel.                            *)
(*                                                                         *)
(* The rings and their stamped head and tail words outlive the launch; a   *)
(* forward launch and the backward launch of the same layer use the same   *)
(* send_head.  The launches of one rank cannot overlap those of another:   *)
(* between two combines every rank runs a dispatch, which ends only after  *)
(* it has read offsets that every rank wrote in that dispatch.             *)
(***************************************************************************)
EXTENDS ChannelOps

CONSTANTS
  NumLaunches,             \* combine launches considered (bounds the model)
  Schedule,                \* 1 .. NumLaunches -> [layer, phase], in stream order
  Layers,                  \* the values of combine_seq
  Peers,                   \* the ranks that may hold a token's experts
  Routings,                \* [Peers -> SUBSET Tokens]: what a layer may route
  NumTokens,               \* tokens of the reducing rank
  NumChannels, Channel,    \* the channels, and the one modelled
  NumWorkers,              \* reducing warps
  num_recv_buffer_tokens,  \* ring capacity
  num_max_send_tokens      \* rows per round

Launches == 1 .. NumLaunches
Tokens == 0 .. NumTokens - 1
Workers == 1 .. NumWorkers
First == ChannelStart(NumTokens, NumChannels, Channel)
Last == ChannelEnd(NumTokens, NumChannels, Channel)
ChannelTokens == First .. Last - 1

IsForward(g) == Schedule[g].phase = 0

ASSUME ScheduleAssumption ==
  /\ NumLaunches \in Nat
  /\ Layers \subseteq Nat \ {0}
  /\ \A l \in Layers : l \div 2 < 2^30    \* nvl_pack keeps 32 bits of the stamp
  /\ Schedule \in [Launches -> [layer : Layers, phase : {0, 1}]]
  /\ \A g, h \in Launches : Schedule[g] = Schedule[h] => g = h
  /\ \A g \in Launches : ~IsForward(g) =>       \* the handle comes from a forward
       \E h \in 1 .. g - 1 : Schedule[h] = [layer |-> Schedule[g].layer, phase |-> 0]
ASSUME TokenAssumption ==
  /\ NumTokens \in Nat
  /\ NumChannels \in Nat \ {0}
  /\ Channel \in 0 .. NumChannels - 1
  /\ Routings \subseteq [Peers -> SUBSET Tokens]
  /\ NumWorkers \in Nat \ {0}
(* Config asserts only num_max_send_tokens < num_recv_buffer_tokens.  That a
   launch drains needs more: a worker's head may lie NumWorkers - 1 tokens
   behind the tail it waits for.  Every configuration of buffer.py has room. *)
ASSUME CapacityAssumption ==
  /\ num_max_send_tokens \in Nat \ {0}
  /\ num_recv_buffer_tokens \in Nat
  /\ num_max_send_tokens + NumWorkers - 1 <= num_recv_buffer_tokens

VARIABLES
  \* IPC slab of the reducing rank: a head and a tail word and a ring per peer
  channel_head_idx, channel_tail_idx, slots,
  \* the launch, and the routing each layer had
  launch, is_token_in_rank, send_head,
  \* per peer: rows kernel Y (or A_bwd) has released, then the sender's cursors
  y_done, spc, token_idx, current_tail, round, filled,
  \* shared memory of the reducing block
  smem_tail, warp_head, warp_retired,
  \* warp 0, a lane per peer
  upc, scan, min_head, last_head,
  \* worker warps
  wpc, wtoken,
  \* history: what each launch summed into each token
  written, output

slab == <<channel_head_idx, channel_tail_idx, slots>>
routingVars == <<launch, is_token_in_rank, send_head>>
senderVars == <<spc, token_idx, current_tail, round, filled>>
smem == <<smem_tail, warp_head, warp_retired>>
updaterVars == <<upc, scan, min_head, last_head>>
workerVars == <<wpc, wtoken>>
history == <<written, output>>
vars == <<slab, routingVars, y_done, senderVars, smem, updaterVars, workerVars, history>>

Packet == [launch : Launches, rank : Peers, token : Tokens, finished : BOOLEAN]
Empty == [launch |-> 0]                   \* a slot never written

(* Faulty variants: no phase bit; a reader that does not look at the stamp. *)
NvlSeqNoPhase(g) == 2 * Schedule[g].layer
CursorAnyStamp(word, g) == word.value

(* (combine_seq << 1) | combine_phase, and the genstamped words *)
NvlSeq(g) == 2 * Schedule[g].layer + Schedule[g].phase
NvlPack(g, v) == [seq |-> NvlSeq(g), value |-> v]
NvlCursor(word, g) == IF word.seq = NvlSeq(g) THEN word.value ELSE 0

Mask(s) == is_token_in_rank[Schedule[launch].layer][s]
Heads(s) == send_head[Schedule[launch].layer][s]

(* Peer s holds the tokens routed to it as consecutive rows, in token order;
   the channel's rows start at recv_channel_prefix_matrix and end where the
   next channel's start. *)
RowToken(s, row) == CHOOSE t \in Mask(s) : SelectedIn(Mask(s), 0, t) = row
ChannelOffset(s) == SelectedIn(Mask(s), 0, First)
RowsEnd(s) == IF Channel = NumChannels - 1
                THEN Cardinality(Mask(s))
                ELSE SelectedIn(Mask(s), 0, ChannelStart(NumTokens, NumChannels, Channel + 1))

(* send_head as the dispatch sender leaves it: ring positions, then the
   reverse scan. *)
EncodedHeads(mask) ==
  EncodeHeads([t \in Tokens |-> IF t \in mask THEN SelectedIn(mask, First, t) ELSE -1],
              First, Last)

IntMax == 2 * (2^30 - 1) + 1     \* the largest int

Init ==
  /\ channel_head_idx = [s \in Peers |-> [seq |-> 0, value |-> 0]]
  /\ channel_tail_idx = [s \in Peers |-> [seq |-> 0, value |-> 0]]
  /\ slots = [s \in Peers |-> [i \in 0 .. num_recv_buffer_tokens - 1 |-> Empty]]
  /\ launch = 0
  /\ is_token_in_rank = [l \in Layers |-> [s \in Peers |-> {}]]
  /\ send_head = [l \in Layers |-> [s \in Peers |-> [t \in Tokens |-> -1]]]
  /\ y_done = [s \in Peers |-> {}]
  /\ spc = [s \in Peers |-> "idle"] /\ token_idx = [s \in Peers |-> 0]
  /\ current_tail = [s \in Peers |-> 0]
  /\ round = [s \in Peers |-> 0] /\ filled = [s \in Peers |-> {}]
  /\ smem_tail = [s \in Peers |-> 0]
  /\ warp_head = [w \in Workers |-> [s \in Peers |-> 0]]
  /\ warp_retired = [w \in Workers |-> FALSE]
  /\ upc = "idle" /\ scan = 1
  /\ min_head = [s \in Peers |-> IntMax] /\ last_head = [s \in Peers |-> 0]
  /\ wpc = [w \in Workers |-> "idle"] /\ wtoken = [w \in Workers |-> 0]
  /\ written = [g \in Launches |-> {}]
  /\ output = [g \in Launches |-> [t \in ChannelTokens |-> {}]]

Idle == /\ \A s \in Peers : spc[s] = "idle"
        /\ upc = "idle" /\ \A w \in Workers : wpc[w] = "idle"

-----------------------------------------------------------------------------
(* The next combine of every rank.  y_done_per_token is a buffer of its own,
   zeroed, for every layer and direction.  A worker whose first token is past
   the channel goes straight to its retirement. *)
Launch ==
  /\ Idle /\ launch < NumLaunches
  /\ launch' = launch + 1
  /\ LET l == Schedule[launch + 1].layer
     IN  IF IsForward(launch + 1)
           THEN \E r \in Routings :
                  /\ is_token_in_rank' = [is_token_in_rank EXCEPT ![l] = r]
                  /\ send_head' = [send_head EXCEPT ![l] =
                                     [s \in Peers |-> EncodedHeads(r[s])]]
           ELSE UNCHANGED <<is_token_in_rank, send_head>>
  /\ y_done' = [s \in Peers |-> {}]
  /\ token_idx' = [s \in Peers |-> ChannelOffset(s)']
  /\ spc' = [s \in Peers |-> IF ChannelOffset(s)' < RowsEnd(s)' THEN "wait" ELSE "idle"]
  /\ current_tail' = [s \in Peers |-> 0]
  /\ round' = [s \in Peers |-> 0] /\ filled' = [s \in Peers |-> {}]
  /\ smem_tail' = [s \in Peers |-> 0]
  /\ warp_head' = [w \in Workers |-> [s \in Peers |-> 0]]
  /\ warp_retired' = [w \in Workers |-> FALSE]
  /\ upc' = "tail" /\ scan' = 1
  /\ min_head' = [s \in Peers |-> IntMax] /\ last_head' = [s \in Peers |-> 0]
  /\ wtoken' = [w \in Workers |-> First + w - 1]
  /\ wpc' = [w \in Workers |-> IF First + w - 1 < Last THEN "wait" ELSE "retire"]
  /\ UNCHANGED <<slab, history>>

(* Kernel Y (A_bwd in the backward direction) has accumulated the last local
   expert's share of a row and stamps y_done_per_token; in any order. *)
KernelRelease(s, row) ==
  /\ launch > 0 /\ row \in ChannelOffset(s) .. RowsEnd(s) - 1
  /\ row \notin y_done[s]
  /\ y_done' = [y_done EXCEPT ![s] = @ \cup {row}]
  /\ UNCHANGED <<slab, routingVars, senderVars, smem, updaterVars, workerVars, history>>

-----------------------------------------------------------------------------
(* Peer s: the sender of the channel *)

WaitForQueueSpace(s) ==
  /\ spc[s] = "wait"
  /\ LET n == Smaller(num_max_send_tokens, RowsEnd(s) - token_idx[s])
     IN  /\ num_recv_buffer_tokens
              - (current_tail[s] - NvlCursor(channel_head_idx[s], launch)) >= n
         /\ round' = [round EXCEPT ![s] = n]
  /\ filled' = [filled EXCEPT ![s] = {}]
  /\ spc' = [spc EXCEPT ![s] = "fill"]
  /\ UNCHANGED <<slab, routingVars, y_done, token_idx, current_tail, smem, updaterVars,
                 workerVars, history>>

(* Faulty variant: a row is shipped without waiting for its release. *)
FillSlotNoGate(s, i) ==
  /\ spc[s] = "fill" /\ i \in 0 .. round[s] - 1 /\ i \notin filled[s]
  /\ LET row == token_idx[s] + i
         packet == [launch |-> launch, rank |-> s, token |-> RowToken(s, row),
                    finished |-> row \in y_done[s]]
     IN  slots' = [slots EXCEPT ![s][(current_tail[s] + i) % num_recv_buffer_tokens] = packet]
  /\ filled' = [filled EXCEPT ![s] = @ \cup {i}]
  /\ UNCHANGED <<channel_head_idx, channel_tail_idx, routingVars, y_done, spc, token_idx,
                 current_tail, round, smem, updaterVars, workerVars, history>>

(* The warps of the group share the round; each waits for the release of its
   row before it copies it. *)
FillSlot(s, i) ==
  /\ spc[s] = "fill" /\ i \in 0 .. round[s] - 1 /\ i \notin filled[s]
  /\ LET row == token_idx[s] + i
         packet == [launch |-> launch, rank |-> s, token |-> RowToken(s, row),
                    finished |-> row \in y_done[s]]
     IN  /\ row \in y_done[s]
         /\ slots' = [slots EXCEPT ![s][(current_tail[s] + i) % num_recv_buffer_tokens] = packet]
  /\ filled' = [filled EXCEPT ![s] = @ \cup {i}]
  /\ UNCHANGED <<channel_head_idx, channel_tail_idx, routingVars, y_done, spc, token_idx,
                 current_tail, round, smem, updaterVars, workerVars, history>>

(* The bar.sync of the group, then the tail. *)
PublishTail(s) ==
  /\ spc[s] = "fill" /\ filled[s] = 0 .. round[s] - 1
  /\ token_idx' = [token_idx EXCEPT ![s] = @ + round[s]]
  /\ current_tail' = [current_tail EXCEPT ![s] = @ + round[s]]
  /\ channel_tail_idx' = [channel_tail_idx EXCEPT ![s] = NvlPack(launch, current_tail'[s])]
  /\ spc' = [spc EXCEPT ![s] = IF token_idx'[s] < RowsEnd(s) THEN "wait" ELSE "idle"]
  /\ round' = [round EXCEPT ![s] = 0] /\ filled' = [filled EXCEPT ![s] = {}]
  /\ UNCHANGED <<channel_head_idx, slots, routingVars, y_done, smem, updaterVars,
                 workerVars, history>>

-----------------------------------------------------------------------------
(* The reducing rank: warp 0, whose lanes each serve a peer and run in step *)

AllRetired == \A w \in Workers : warp_retired[w]

(* Leave once every worker has retired; else copy the tails to shared memory,
   zero for a word of another launch, and begin the scan of the heads. *)
UpdateTail ==
  /\ upc = "tail"
  /\ IF AllRetired
       THEN upc' = "idle" /\ UNCHANGED smem_tail
       ELSE /\ smem_tail' = [s \in Peers |-> NvlCursor(channel_tail_idx[s], launch)]
            /\ upc' = "scan"
  /\ UNCHANGED <<slab, routingVars, y_done, senderVars, warp_head, warp_retired, scan,
                 min_head, last_head, workerVars, history>>

ScanOne(w) == min_head' = IF warp_retired[w] THEN min_head
                          ELSE [s \in Peers |-> Smaller(min_head[s], warp_head[w][s])]

(* Faulty variant: the scan leaves out the last worker. *)
ScanHeadShort ==
  /\ upc = "scan"
  /\ ScanOne(scan)
  /\ IF scan >= NumWorkers - 1 THEN upc' = "head" /\ scan' = 1
                               ELSE scan' = scan + 1 /\ UNCHANGED upc
  /\ UNCHANGED <<slab, routingVars, y_done, senderVars, smem, last_head, workerVars, history>>

(* One worker of the minimum; the workers move on meanwhile. *)
ScanHead ==
  /\ upc = "scan"
  /\ ScanOne(scan)
  /\ IF scan = NumWorkers THEN upc' = "head" /\ scan' = 1
                          ELSE scan' = scan + 1 /\ UNCHANGED upc
  /\ UNCHANGED <<slab, routingVars, y_done, senderVars, smem, last_head, workerVars, history>>

PublishHead ==
  /\ upc = "head"
  /\ LET moved == {s \in Peers : min_head[s] # IntMax /\ min_head[s] > last_head[s]}
     IN  /\ last_head' = [s \in Peers |-> IF s \in moved THEN min_head[s] ELSE last_head[s]]
         /\ channel_head_idx' = [s \in Peers |->
              IF s \in moved THEN NvlPack(launch, min_head[s]) ELSE channel_head_idx[s]]
  /\ upc' = "tail"
  /\ min_head' = [s \in Peers |-> IntMax]
  /\ UNCHANGED <<channel_tail_idx, slots, routingVars, y_done, senderVars, smem, scan,
                 workerVars, history>>

-----------------------------------------------------------------------------
(* The reducing rank: worker w *)

(* Once no lane finds its tail at or below the head it expects, sum the slots
   of the peers that hold the token. *)
Reduce(w) ==
  /\ wpc[w] = "wait"
  /\ LET t == wtoken[w]
         holders == {s \in Peers : Heads(s)[t] >= 0}
     IN  /\ \A s \in holders : smem_tail[s] > Heads(s)[t]
         /\ output' = [output EXCEPT ![launch][t] =
                         {slots[s][Heads(s)[t] % num_recv_buffer_tokens] : s \in holders}]
         /\ written' = [written EXCEPT ![launch] = @ \cup {t}]
  /\ wpc' = [wpc EXCEPT ![w] = "head"]
  /\ UNCHANGED <<slab, routingVars, y_done, senderVars, smem, updaterVars, wtoken>>

(* Faulty variants: the reverse scan's code taken as it stands; a head that
   stays on the packet just consumed. *)
UpdateHeadNoDecode(w) ==
  /\ wpc[w] = "head"
  /\ warp_head' = [warp_head EXCEPT ![w] = [s \in Peers |-> Heads(s)[wtoken[w]] + 1]]
  /\ wtoken' = [wtoken EXCEPT ![w] = @ + NumWorkers]
  /\ wpc' = [wpc EXCEPT ![w] = IF wtoken'[w] < Last THEN "wait" ELSE "retire"]
  /\ UNCHANGED <<slab, routingVars, y_done, senderVars, smem_tail, warp_retired, updaterVars,
                 history>>
UpdateHeadNotPast(w) ==
  /\ wpc[w] = "head"
  /\ warp_head' = [warp_head EXCEPT ![w] =
       [s \in Peers |-> LET e == Heads(s)[wtoken[w]]
                        IN  IF e < 0 THEN -e - 1 ELSE e]]
  /\ wtoken' = [wtoken EXCEPT ![w] = @ + NumWorkers]
  /\ wpc' = [wpc EXCEPT ![w] = IF wtoken'[w] < Last THEN "wait" ELSE "retire"]
  /\ UNCHANGED <<slab, routingVars, y_done, senderVars, smem_tail, warp_retired, updaterVars,
                 history>>

(* Past the packet, or, for a peer that did not hold the token, up to the
   next packet of the channel. *)
UpdateHead(w) ==
  /\ wpc[w] = "head"
  /\ warp_head' = [warp_head EXCEPT ![w] =
       [s \in Peers |-> LET e == Heads(s)[wtoken[w]]
                        IN  IF e < 0 THEN -e - 1 ELSE e + 1]]
  /\ wtoken' = [wtoken EXCEPT ![w] = @ + NumWorkers]
  /\ wpc' = [wpc EXCEPT ![w] = IF wtoken'[w] < Last THEN "wait" ELSE "retire"]
  /\ UNCHANGED <<slab, routingVars, y_done, senderVars, smem_tail, warp_retired, updaterVars,
                 history>>

Retire(w) ==
  /\ wpc[w] = "retire"
  /\ warp_retired' = [warp_retired EXCEPT ![w] = TRUE]
  /\ wpc' = [wpc EXCEPT ![w] = "idle"]
  /\ UNCHANGED <<slab, routingVars, y_done, senderVars, smem_tail, warp_head, updaterVars,
                 wtoken, history>>

-----------------------------------------------------------------------------
SenderStep(s) ==
  \/ WaitForQueueSpace(s)
  \/ \E i \in 0 .. num_max_send_tokens - 1 : FillSlot(s, i)
  \/ PublishTail(s)
UpdaterStep == UpdateTail \/ ScanHead \/ PublishHead
WorkerStep(w) == Reduce(w) \/ UpdateHead(w) \/ Retire(w)
KernelStep == \E s \in Peers, row \in 0 .. NumTokens - 1 : KernelRelease(s, row)

AllDone == launch = NumLaunches /\ Idle
Terminated == AllDone /\ UNCHANGED vars

Next ==
  \/ Launch \/ KernelStep \/ UpdaterStep \/ Terminated
  \/ \E s \in Peers : SenderStep(s)
  \/ \E w \in Workers : WorkerStep(w)

Spec == Init /\ [][Next]_vars

(* The blocks of a launched kernel are resident, their warps all advance, the
   expert kernel releases every row, the streams start the next launch. *)
FairSpec ==
  /\ Spec /\ WF_vars(Launch) /\ WF_vars(KernelStep) /\ WF_vars(UpdaterStep)
  /\ \A s \in Peers : WF_vars(SenderStep(s))
  /\ \A w \in Workers : WF_vars(WorkerStep(w))
-----------------------------------------------------------------------------
(* Types, with the ranges the cursors keep. *)
TypeOK ==
  /\ channel_head_idx \in [Peers -> [seq : Nat, value : Nat]]
  /\ channel_tail_idx \in [Peers -> [seq : Nat, value : Nat]]
  /\ slots \in [Peers -> [0 .. num_recv_buffer_tokens - 1 -> Packet \cup {Empty}]]
  /\ launch \in 0 .. NumLaunches
  /\ is_token_in_rank \in [Layers -> [Peers -> SUBSET Tokens]]
  /\ send_head \in [Layers -> [Peers -> [Tokens -> Int]]]
  /\ y_done \in [Peers -> SUBSET Tokens]
  /\ spc \in [Peers -> {"idle", "wait", "fill"}]
  /\ token_idx \in [Peers -> 0 .. NumTokens]
  /\ current_tail \in [Peers -> 0 .. NumTokens]
  /\ round \in [Peers -> 0 .. num_max_send_tokens]
  /\ filled \in [Peers -> SUBSET (0 .. num_max_send_tokens - 1)]
  /\ \A s \in Peers : filled[s] \subseteq 0 .. round[s] - 1
  /\ smem_tail \in [Peers -> 0 .. NumTokens]
  /\ warp_head \in [Workers -> [Peers -> Nat]]
  /\ warp_retired \in [Workers -> BOOLEAN]
  /\ upc \in {"idle", "tail", "scan", "head"}
  /\ scan \in Workers /\ min_head \in [Peers -> Nat] /\ last_head \in [Peers -> Nat]
  /\ wpc \in [Workers -> {"idle", "wait", "head", "retire"}]
  /\ wtoken \in [Workers -> Nat]
  /\ written \in [Launches -> SUBSET ChannelTokens]
  /\ output \in [Launches -> [ChannelTokens -> SUBSET (Packet \cup {Empty})]]

(* The worker of a channel token, and whether it has moved its head past it. *)
Consumed(t) == \E w \in Workers : (t - First) % NumWorkers = w - 1 /\ wtoken[w] > t

(* A ring slot is reused only after the token it was for has been reduced:
   every packet shipped and not yet consumed by its worker is still in place,
   although the sender goes by a head that the updater lane gathered from the
   workers one by one while they moved. *)
PendingPacketsIntact ==
  launch > 0 => \A s \in Peers :
    LET shipped == {t \in Mask(s) \cap ChannelTokens :
                      \/ SelectedIn(Mask(s), 0, t) < token_idx[s]
                      \/ SelectedIn(Mask(s), 0, t) - token_idx[s] \in filled[s]}
    IN  \A t \in shipped : Consumed(t) \/
          slots[s][SelectedIn(Mask(s), First, t) % num_recv_buffer_tokens]
            = [launch |-> launch, rank |-> s, token |-> t, finished |-> TRUE]

(* The block that reduces is a CombineReduce: whatever ring position, stamp
   or release it went by, what it sums into a token is the finished
   contributions of this launch for this very token. *)
Reduction == INSTANCE CombineReduce WITH
  Ranks <- Peers, Tokens <- ChannelTokens,
  routed <- [s \in Peers |-> IF launch = 0 THEN {} ELSE Mask(s) \cap ChannelTokens],
  finished <- [s \in Peers |-> IF launch = 0 THEN {}
                 ELSE {t \in Mask(s) \cap ChannelTokens :
                         SelectedIn(Mask(s), 0, t) \in y_done[s]}]

ImplementsCombineReduce == Reduction!Spec

(* A launch ends: the gates, the waits for ring space and the waits for the
   tails never hold each other up for ever. *)
CombineDrains == \A g \in Launches : (launch = g) ~> (launch = g /\ Idle)
=============================================================================
