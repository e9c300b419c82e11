# StreamEP in TLA+

StreamEP is an expert-parallel dispatch/compute/combine pipeline for mixture-of-experts
layers on NVLink and RDMA GPUs.  Its kernels overlap: tokens travel through rings in peers'
memory, compute kernels spin on per-tile arrival counts while tokens still arrive, and
combine ships a row the moment its last expert has finished.  No ring is zeroed between
launches, three streams compete for the SMs of a device, memory is recycled across streams,
and the backward pass rebuilds what the forward pass did not keep.  This directory specifies
that machinery in TLA+, checks small instances with TLC and proves the core for every
instance with TLAPS.

Paths below are relative to `src/`.

## 1. Inventory

| component | source | state it keeps | operations | what makes it correct |
|---|---|---|---|---|
| channel arithmetic | `csrc/kernels/utils.cuh`, `csrc/config.hpp` | none | token ranges of channels, prefix counts, reverse scan of `send_head` | ranges partition the tokens; the code of a token not sent names the next one sent |
| intranode dispatch ring | `csrc/kernels/intranode.cu` (`dispatch_main_kernel`, `dispatch_grads_main_kernel`) | per (channel, sender, receiver): a ring, four stamped 64-bit control words, cursors in registers | publish offsets, wait for space, fill slots, publish tail; read offsets, poll tail, take a batch, publish head | a bounded FIFO per launch although nothing is zeroed between launches |
| receiver slot allocation and tile signalling | same kernels, Pass A, B and 2 | per-substream counters `seen`, pool arrays, `pool_arrival_count` | allocate slots, write them, fence, announce tiles | no slot used twice, a tile is complete when its count meets its target |
| intranode combine ring | `intranode.cu` (`combine_main_kernel`) | per (channel, holder, owner): ring, head and tail words; heads of the reducing warps in shared memory | gate on a row's release, ship, gather the minimum head, reduce | each output is the sum of the finished shares of exactly the ranks that hold the token |
| intranode metadata | `intranode.cu` (`dispatch_metadata_*`, `fill_tile_metadata`) | peers' inboxes, prefix matrices, pool layout | count, exchange, barrier, lay out | sender and receiver agree on counts; the inbox is not overwritten while read |
| cross-rank barrier | `utils.cuh` (`barrier_block`) | signed counters | add to self, subtract from peers, poll | nobody leaves before everybody entered, also back to back |
| host Buffer | `csrc/stream_ep.cpp` | IPC pointers, pinned counters, streams, started/issued flags | `sync`, `intranode_dispatch`, `intranode_dispatch_grads`, `intranode_combine`, waits | order of launches; the poll sees this layer's counts |
| Python Buffer | `stream_ep/buffer.py` | the class-level `num_sms`, per Buffer `_next_seq` and layout pins, handles | `set_num_sms`, `sized_for`, constructor, dispatch, dispatch_grads, combine, combine_grads | stamps increase; one geometry per Buffer; sized regions are enough; Buffers do not disturb each other |
| tile scheduler | `stream_ep/stream_moe/tile_scheduler.py` | `consumer_head`, `arrival_count` | claim a ticket, spin for the tile, decode expert and row block | each tile is processed once, after it is complete |
| compute kernels | `kernel_a.py`, `kernel_y.py`, `kernel_a_bwd.py`, `kernel_y_bwd.py`, `epi_ops.py` | `tile_n_stripes_done`, `k_local_remaining`, `y_done_per_token`, activations and gradients | matrix multiply, activation, atomic scatter, release rows | a row is released once, after all its contributions; output and gradients are those of the layer |
| orchestration | `stream_ep/stream_moe/stream_moe.py` | three streams, events, saved tensors, tile config | forward, backward, `resolve_tile_config` | launch order and gates keep spinning kernels from starving the ones they wait for; no recycled memory is still in use; accepted tile configs run |
| compression, dropout | `recv_pool_compress.py`, `expert_dropout.py` | none | pool to rows and back; mask by hash | backward sees the rows and the mask of the forward |
| internode | `csrc/kernels/internode.cu`, `ibgda_device.cuh` | RDMA rings with cumulative cursors, NVL rings with slot tags | dispatch, forward, dispatch_grads, combine | no slot overwritten before drained, none accepted twice |
| buffer layout | `csrc/config.hpp`, `csrc/kernels/api.cuh`, `buffer.cuh` | none | size and carve regions | regions are disjoint and fit the allocation |

Interaction.  One forward layer on a rank is: metadata kernel (phase A, barrier, phase B),
host poll of the counts, `dispatch_main_kernel` on the communicate stream, kernels A and Y on
the compute stream spinning on what dispatch announces, `combine_main_kernel` on the
communicate stream spinning on what kernel Y releases.  Backward is `dispatch_grads_main_kernel`,
kernels Y_bwd and A_bwd, and combine again; it reuses the handle of the forward call, its
sequence number included, with the phase bit set.  Ranks meet only in the peers' slabs.

The hard behaviours are listed with their lines in `PROJECT.json` under `hazards`.  The ones
every module turns on: control words that survive launches and are told apart by a stamp;
ranks up to several launches apart; spins without a timeout; warps of one block that move
while another gathers what they have done.

## 2. Plan

Order of the modules, the most important behaviour first.

| step | module | composes / abstracts | status |
|---|---|---|---|
| 1 | `ChannelOps` | operators shared by the rings | done, lemmas in `ChannelOpsProofs` |
| 2 | `DispatchRing` | implements `SubstreamFifo` | done, proved in `DispatchRingProofs` |
| 3 | `CombineRing` | implements `CombineReduce` | done, proved in `CombineRingProofs` |
| 4 | `PoolStream` | slot allocation, tile announcement, scheduler, kernels A and Y, row release, over `PoolLayout`; implements `ExpertStage` | done, proved in `PoolLayoutProofs` and `PoolStreamProofs` |
| 5 | `LayerStreams` | composes host, streams, allocator and SMs of several ranks over the statements of `StreamProgram` | done, proved in `LayerStreamsProofs` |
| 6 | `BufferHost` | the Buffers of a process over the region arithmetic of `BufferLayout` | done, proved in `BufferHostProofs` |
| 7 | `LayerGrads` | the numbers of a layer over the tile rules of `TileConfig` | done, tile rules, types, padding and forward proved in `LayerGradsProofs` |
| 8 | count exchange and `barrier_block` | inboxes under the reused barrier | not done |
| 9 | internode rings, NVL forwarder, internode combine | rings with cumulative cursors and tags | not done |

What a proof could still add: the three gradients of `LayerGrads`, which need derivatives of nested
sums (see the end of section 6).

## 3. The models and the code

`DispatchRing` is one (channel, A, B).  The four control words and `slots` are B's IPC slab;
`spc` and `rpc` are the program counters of the two thread groups.  One action is the code
between two accesses to shared state:

| action | code |
|---|---|
| `LaunchSend`, `LaunchRecv` | stream order on each rank: A's next dispatch runs after A's combine; a forward one also after the metadata barrier |
| `PublishStart`, `PublishEnd` | the two relaxed stores of the biased, stamped offsets |
| `WaitForQueueSpace` | `sender_wait_for_queue_space`; a head of another launch counts as 0 |
| `SkipToken`, `FillSlot` | one token of the chunk loop, with its `send_head` |
| `PublishTail` | the `bar.sync` and the release of the tail |
| `FinishSend` | the reverse scan over `send_head` |
| `ReadStart`, `ReadEnd`, `PollTail` | the spins of the receiver |
| `ReadSlot`, `PublishHead` | one packet of a batch, then the head after the batch |

The stores of the offsets are relaxed and carry nothing but themselves; the tail is a
release/acquire pair at system scope, the head is published after the `bar.sync` that ends
the batch.  So one interleaving step per store and per load is what the memory model gives.
The sender's other warps may already copy into the next chunk's slots only after the same
space check, hence one program counter per thread group.  `CombineReturned` is the whole
effect of A's combine on the ring: it waits for the packets of the tokens A sent, in any
channel, and its predecessor kernel has read offsets that B's kernel of the launch wrote.

`SubstreamFifo` is what the ring promises: per launch a queue of at most
`num_recv_buffer_tokens` packets, taken in the order put.

`CombineRing` is one channel of one token-owning rank with a sender thread group on every
peer.  Warp 0 copies tails to shared memory and gathers the minimum head one worker at a time
(`ScanHead`) while the workers reduce (`Reduce`), move their head (`UpdateHead`) and retire.
The lanes of warp 0 run in lockstep, one per peer.  Its environment is `KernelRelease`: rows
are released in any order.  Launches of different ranks do not overlap here because a
dispatch on every rank, which reads offsets of every rank, lies between two combines.
`CombineReduce` is the promise: an output is the set of finished contributions, of this
launch, of exactly the ranks the token was routed to.

`PoolStream` is one rank between its dispatch receivers and combine, forward and then backward
of one layer, over the layout of `PoolLayout`.  `Arrivals` gives, for every substream
cs = channel * ranks + source, the routing of its tokens in order; the rings that bring them
are `DispatchRing`'s, so the model only cuts the sequence into batches.

| action | code |
|---|---|
| `ReceiveBatch` | Pass A and Pass B on a sub-batch (`intranode.cu:978-1105`); backward, the look-up of the slots by row (1382-1450) |
| `Fence` | the wait for the bulk stores, `bar.sync` and `__threadfence` at the end of a substream |
| `FireBlock` | one block of `fire_pool_blocks` (`utils.cuh:201`), experts and blocks upwards |
| `Claim`, `AwaitTile` | ticket and ready spin of `_fetch_next_work_idx` |
| `ComputeStripe` | kernel A, or Y_bwd: a stripe of a tile, for every slot what was read |
| `ScatterStripe` | the accumulation into the rows by kernel Y or A_bwd (`_scatter_store`) |
| `FinishStripe`, `CountDownRow` | `AtomicScatterStore.end`: stripe counter, row counter, release |
| `NextKernel`, `LaunchBackward` | order on the compute stream; what the backward call resets |

A receiver's copies reach other blocks only at its fence, the latest that the memory model
allows; consumers read nothing of a tile before its count is at its target.  A `CTA` of the
model is a tile in work: a real one, whose scheduler warp claims the next tile while the
others still compute, is two.  The CTAs of a cluster share a ticket for adjacent stripes in
the code and draw one each here, which only adds interleavings.

`ExpertStage` is the promise, the other end of what `CombineRing` assumes: to every row each
stripe of each of its experts is added exactly once, and the row is released once, after the
last.  The refinement maps `added` to the bag `o` of shares, so a share added twice, of
unwritten memory, or of another token breaks it.

`StreamProgram` is what the host of one rank issues for a forward and a backward pass at each
checkpoint level: one operator per paragraph of `StreamMoEFunc.forward` and `.backward`, with
the calls into `Buffer.dispatch` and the rest expanded to what they allocate, zero, record,
bump, poll and launch.  A statement names its stream, what it waits for and which tensors it
reads and writes.  Tensors that the same statements create, fill and read are one: `pre` is
the slab allocated before the poll; of the slab after it, `post` has rows per source token
and `slots` rows per received token or pool slot.

`LayerStreams` runs that program.  A host thread issues it, each stream runs its statements in
order, and a kernel takes SMs when it has come to the head of its stream.

| action | code |
|---|---|
| `Issue` | the host up to its next poll; a statement that is issued but not reached differs in nothing from one not issued, so one step is enough |
| `HostPoll` | `host_poll_recv_counts`: the metadata kernel is over; the rank has tiles of this layer or none |
| `PassWait` | `wait_stream`, `wait_event`, and the front-end wait of `wait_*_started`, whose target is the issued count at the time of the call |
| `Launch`, `Place` | kernels get SMs in launch order, the communicate stream first under `prioritize_communicate`; blocks of a grid may be placed in parts |
| `Begin` | the first block: block 0 of a dispatch, or the CTA that claims ticket 0, bumps the started flag |
| `Publish` | a dispatch has delivered this rank's tiles; every rank's blocks of it must be resident |
| `End` | the last block exits: kernel A and Y_bwd after their dispatch has published, combine after the kernel that releases the rows, on every rank |

dispatch and combine need all their blocks (their senders and receivers wait for each other),
compute kernels go on with one.  The caching allocator is not run step by step: a freed block
may become any tensor allocated later from the same pool, and `Clashes` lists every pair of
statements on different streams that could then touch the same memory.  `record_stream` takes
a pair off that list.

`BufferLayout` holds the region sizes, the config tables and the hints, `BufferHost` the
process that uses them.

| action | code |
|---|---|
| `SetNumSms` | `Buffer.set_num_sms` |
| `SizedFor`, `Drop` | `sized_for` and the constructor with the automatic pick, the hints and the connection count; the last reference going away |
| `Dispatch`, `CombineForward`, `DispatchGrads`, `CombineGrads` | the recommended config (which re-runs the pick), `_check_layout`, the sequence number, the host's assertions, the launch |

A call that `_check_layout` rejects ends "raised", one that a C++ assertion rejects "refused";
pins and number stay in the second case, as in the code.  A handle goes through combine,
dispatch_grads and combine_grads and is let go.  Widths are in 16-byte units.

`LayerGrads` computes with integers what one rank's kernels compute, from the rows that dispatch
delivers to the rows combine sends, forward and backward, at each checkpoint level.  A tile and
column stripe is one action (`KernelA`, `KernelY`, `KernelYBwd`, `KernelABwd`), in any order;
`Compress` lets any slot of a token win the race for its row; memory from `torch.empty` reads
as NaN, a constant that is no integer, until it is written, so a padding row or an unwritten
scratch that enters a sum shows.
`silu` is a square, for which the reference gradient is exact: `Slope` differentiates the
reference loss, a polynomial of degree at most four, by a five-point stencil.  The dropout hash
is a parity of seed, row and column.  `TileConfig` is `default_tile_config`, the overlay,
`TileConfig.validate` and the divisibility assertions of the four launch functions.

## 4. The runs

| run | question | bounds |
|---|---|---|
| `dispatch_ring` | is the ring a FIFO per launch, are rows and heads right, does every launch drain | five launches (forward 1, 2, backward 2, 1, forward 3), ring 3, chunk 2, 4 tokens in the channel and 4 before it, six masks per layer |
| `dispatch_ring_empty` | is a rejected control word always of an earlier launch | the same, with the empty routing allowed in every layer; violated |
| `combine_ring` | are slots freed only after their reduction, is every sum right, does a launch drain | forward and backward of one layer, two peers, two workers, ring 3, chunk 2, 6 tokens in the channel, two routings |
| `pool_stream` | are slots independent of batching, are ready tiles whole, has the CTA that counts a tile's rows down all its stripes behind it, is every row served and released once, in both passes | 4 substreams (2 channels, 2 sources), 2 experts, tiles of 2 slots, top-2, 2 CTAs, two stripes per tile but one for Y_bwd, clusters of 2, three routings |
| `pool_stream_odd` | has the CTA that counts a tile's rows down seen all its stripes | the same with one output stripe per tile; violated |
| `layer_streams` | do the gates and edges order every access to shared memory and the race for SMs | one rank, forward 1, 2, backward 2, 1, forward 3, levels 0 to 2, tiles or none in every layer, both priorities, 3 SMs of which dispatch and combine need 2 |
| `layer_streams_live` | does every pass complete | one rank, forward 1, 2, backward 2, levels 0 to 2, tiles or none |
| `layer_streams_ranks` | the same across ranks | two ranks, one forward, level 0 |
| `layer_streams_retired` | has the dispatch retired when its reader runs, as two comments say | 1 rank, 1 forward without checkpointing, 3 SMs of which 2 for communication; violated |
| `buffer_host` | one geometry per Buffer, disjoint regions, sizes that suffice, numbers that increase | two Buffers (symmetric), groups of 8, 16, 24, sized for 4 KiB, called with 4 or 8 KiB, top-32, 64 experts, `set_num_sms(96)`, two configs, two dispatches per Buffer |
| `buffer_host_regions` | are regions disjoint under a combine config of the caller's own | the same with a config of half the NVL slots; violated |
| `layer_grads` | are output and gradients right, is padding clean, do accepted tile configs run | I = H = 2, two experts, the 40 routings of up to three rows, levels 0 to 2, dropout or not, tiles of 2 or 3 rows, ten overrides of which six are refused |

Why these bounds.  Ring 3 with chunk 2 is the smallest where a chunk fits, the ring wraps
within a launch, and the tail of one launch can be mistaken for that of another.  Five launches hold a forward
after a forward, a backward after a forward, a backward after a backward and a forward after
a backward, which are all the successions the training loop produces.  The masks leave the
ring untouched, fill it once, wrap it, and use only the other channel.  In `combine_ring` the
two workers are at different tokens while the five rows of one peer wrap the ring, and the
other peer's first rows are of tokens that the first worker skips.  In `pool_stream` one
routing makes a part-filled and a full tile, tiles shared by substreams and an expert's run
that spans two tiles, with tokens of one and of two experts; one leaves the first expert
without a tile and one leaves the rank without a token.

Five passes of two layers give `layer_streams` every succession of passes on the same streams,
memory recycled from forward to forward, from forward to backward and into the next iteration.
Dispatch takes two of three SMs so that one block of a persistent kernel leaves it short, and
dispatch and combine together never fit beside it.  The liveness runs are shorter; more ranks
multiply only the interleaving of waits that one forward already closes.  The groups of
`buffer_host` are the single node, two nodes with 80 SMs, and three with 64, so that the shared
SM count changes under a live Buffer; top-k and experts are at their limits, where the
regions are largest; two dispatches suffice for a pin to be met again.  `layer_grads` has
partial tiles, an expert with two tiles, one without any, a rank without any, and stripes
narrower than the output; every value of the inputs is small, but the equalities are between
polynomials, and a missing or a repeated term shows at most points.

### What `dispatch_ring_empty` shows

`utils.cuh:34-35` says a stamp mismatch means residue of an earlier launch.  For the offsets
of a backward launch that is so only because A's combine waits for something of B.  When A
routes no token of a layer to B it waits for nothing: B's receiver block may not have read its
offsets of backward 2 (it need only be late: the other blocks of B's kernel, A's senders
included, are through) when A's next dispatch_grads stamps `channel_start_offset` again.  B
then waits for a word that no longer exists; the spin at `intranode.cu:1354` has no timeout.
In the passing run, `RoutedMasks` lets every layer but the one followed by a backward route
nothing.

### What `pool_stream_odd` shows

`kernel_y.py:335` takes the CTA whose stripe is the `num_pid_n`-th to finish for the last of its
tile.  The forward launches kernel Y in clusters of two (`stream_moe.py:614`), and the scheduler
gives out ceil(num_pid_n / 2) clusters per tile (`tile_scheduler.py:195`), both CTAs of which
work.  With an odd number of stripes the CTA past the edge multiplies zeros but runs `end` as
well, and if it is done before a real one, the rows are counted down, and may be released to
combine, before they are complete.  `TileConfig.validate` asks only that `tile_n_y` divides H;
H = 768 with the default 256 gives three stripes.  `pool_stream` has an even number and checks
the same property, which `LastStripeSees` proves for every number of stripes that fills the
clusters.  The conclusion rests on the base scheduler (an external package) adding the peers'
offsets without a bound check of its own, as `tile_scheduler.py:319-322` describes it.

### What `layer_streams_retired` shows

`stream_moe.py:508` and `:980` say that dispatch has retired, "wait_stream above", when kernel A
or kernel_y_bwd runs.  No such edge exists; the gates wait for an event recorded before the
dispatch kernel and for its first block.  The run has kernel A beside a dispatch in flight,
which is the purpose of streaming.  `AccessesOrdered` shows that nothing relies on the stale
comment: what kernel A reads is ordered by the event or handed over tile by tile.  A comment at
`:1125` is stale in the same way (the weight gradients are allocated on the caller's stream).

### What `buffer_host_regions` shows

combine finds the start of its region by evaluating dispatch's size with combine's own config
(`stream_ep.cpp:1506-1509`, `internode.cu:3622`).  `_check_layout` pins each config to itself
and never compares the two, and the C++ assertion checks the total only.  With an explicit
combine config of fewer NVL slots, combine's rings start inside dispatch's.  The recommended
configs agree in these fields for every group size, which is what `RegionsDisjoint` checks in
`buffer_host`, so the layer's own calls are not affected.

## 5. Fairness

Weak fairness of each thread group: the blocks of a launched kernel are resident (the launch
is cooperative or gated by the started flags) and an SM schedules all its warps; streams start
the next kernel once its predecessor is over; compute kernels finish what has been announced.
No fairness is asked of a choice between actions of one thread group, since at most one of
them is enabled.  `PoolStream` asks only that the rank takes some step while it can: nothing but the polls
repeats there.  That the blocks of dispatch are resident while compute kernels spin is an
assumption there; `LayerStreams` examines it.  The gate in front of kernel A
(`stream_moe.py:505`) waits for the first block of dispatch only, and the rest of its grid is
placed before kernel A's because it was launched first (`SpinnerBehindDispatch`).

`LayerStreams` has weak fairness of the next-state relation alone: nothing in it loops, so this
says that the host thread, the front end and the SMs do something while something can be done.
The code's timeouts (`NUM_TIMEOUT_CYCLES`, then `trap`) are not modelled: a
run without a hang never meets them.

## 6. What is proved

Every theorem holds for all values of the constants that the named assumptions of its module
admit; a hypothesis beyond those stands in the theorem's `ASSUME` and is discussed below.  The
instances TLC checks satisfy them, and the runs that expect a violation are those that do not.

### Operators (`ChannelOpsProofs`, `PoolLayoutProofs`)

`ChannelOpsProofs` is the arithmetic both rings rest on.  `ChannelRange` and `ChannelNext`: the
channels' token ranges are contiguous.  `SelectedType`, `SelectedStep`, `SelectedSplit`,
`SelectedMonotone`, `SelectedInjective`, `SelectedAt`: how counts of selected tokens grow, add up
and tell tokens apart.  `ModDistinct` and `ModShift`: two positions less than a ring apart use
different slots.  `EncodeHeadsType` and `EncodeHeadsValue`: what the reverse scan writes.
`LeastElement` (a non-empty set of naturals has a least element) stands in for induction: a
failing case has a least one.  Sums of naturals are counted as cardinalities of sets of pairs
(`SumIsCount`, `PrefixSums`), for which the library has facts; sums of integers as the difference
of two such counts (`Net`: `NetAdds` over disjoint sets), and they do not depend on what indexes
their terms (`CountsAgree`).

`PoolLayoutProofs` is about the layout of the expert pool.  From those sums: an expert's tiles hold its tokens (`ExpertTiles`), the runs of the substreams do not
overlap (`RunsDisjoint`) and fill the expert's slots without a gap (`RunsCover`).  The result is
`TargetIsCovered`: the arrival target that `fill_tile_metadata_kernel` computes for a tile is the
number of the tile's slots that the runs cover, at least one and at most `tile_m`.

### The dispatch ring (`DispatchRingProofs`)

The assumptions: chunk positive and smaller than the ring as `Config` asserts, a backward launch
preceded by its forward, stamps below 2^31 as 32-bit truncation needs.

* `TypeCorrect`: `TypeOK`.
* `UnreadIntact`: no packet is overwritten before it is taken.
* `LaunchWhole`: a receiver that leaves a launch took exactly what was routed to it.
* `RowsAgree`: the row of a packet is the routing rank of its token, forward and backward.
* `ImplementsFifo`: the ring implements `SubstreamFifo`.
* `SendHeadCorrect`: `SendHeadIsRingPosition`.
* `MismatchResidue`: `MismatchIsResidue`, under `AlwaysRouted`.

The first five follow from one inductive invariant, `IInv`, proved in `InductiveInvariant` action
by action; the empty routing is allowed.  The safety properties are not inductive by themselves:
a step of the sender relies on what the head word may hold, a step of the receiver on what the
tail and offsets may hold, and both on where the other rank can be.  `IInv` adds to `TypeOK`: the
sender's and receiver's cursors in terms of `sent` and `received`; for every control word, that a
stamp of the current launch comes with the value the owner published and any other stamp is of
another launch; that packets sent in a launch are its mask's tokens in order; and that the ranks
are at most one launch apart in the way the launch guards allow.

`SendHeadCorrect` needs `HInv` on top: the entries so far are the positions of the tokens sent
and -1 elsewhere, and after the scan an entry of a token not sent encodes the next one that was.
An entry stays what it is, since the layer has no later forward launch.

`MismatchResidue` needs `LaunchInv`: the sender is at most one launch ahead of the launches the
receiver has finished.  That holds because a forward launch waits for the barrier, and a backward
one for A's combine, which waits for B only if A sent B something.  Hence the hypothesis
`AlwaysRouted`, that whatever precedes a backward launch routes a token; without it the property is
false, which is the finding of `dispatch_ring_empty`.

### The combine ring (`CombineRingProofs`)

* `TypeCorrect`: `TypeOK`.
* `PendingIntact`: no row is overwritten before its reduction.
* `ImplementsReduce`: senders, updater and workers implement `CombineReduce`.

The difficulty is the head: it is gathered one worker at a time while workers move and retire, so
no single state justifies it.  The invariant `IInv` speaks of `Passed(w, s, h)`: worker w has
nothing left to do among the first h packets of peer s, which stays true once it is.
`WorkerPosition` says so of the head a worker shows, `ScanProgress` of the minimum gathered so far
for every worker scanned, and of the published head for all workers.  `WordsTruthful` ties the
stamped words to the cursors, `SenderPosition` keeps a sender within a ring of the head it may
read and says that nothing unreleased was shipped, `HeadsOfRouting` says that `send_head` is the
encoding of the routing, and `WrittenSoFar` that the outputs written are those the workers have
left behind.  A slot is then reused only for a packet a whole ring later (`ModDistinct`).

### The expert pool (`PoolStreamProofs`)

Four invariants, each on top of the one before, for every routing, tile size, number of
substreams and CTAs, stripes and clusters, in both passes.

* `CoreInvariant`: the metadata is the layout of the routing; a receiver has dealt the slots of
  its tokens in order; what a fence has published is where the layout says; a tile's arrival count
  is the number of its slots announced.  From it `SlotsAreRanks`, `NeverOvershoots` (with
  `TargetIsCovered`) and `ReadyMeansFilled`: the count is at its target only if every covered slot
  is announced, and announced is fenced.
* `InductiveInvariant` adds tickets and rows: the stripes of a tile finished and in work are the
  tickets drawn of it, one CTA at most counts a tile's rows down, and the count of a row is the
  number of its slots not counted down yet.  From it `TypeCorrect`, that no count goes below
  zero included.
* `StageInvariant` adds shares: a stripe is on its way on one CTA at most, what kernel A has read
  of a slot is its token, a row's bag `o` holds each share of a stripe scattered once and no other,
  and a row is released if and only if its count has come down to zero.
* `LastStripeSees` and `ImplementsStage` (the refinement of `ExpertStage`) under `WholeClusters`:
  the stripes of a tile of kernel Y fill whole clusters.  Without it the CTA past the edge is
  counted and both are false, which is the finding of `pool_stream_odd`; everything above does
  not need it.

### The streams of a layer (`LayerStreamsProofs`)

For every schedule of passes in which a backward has its forward before it (a layer counts anew in
each iteration, so that no pass occurs twice), every checkpoint level, every number of ranks and of
SMs:

* `LayerInvariant`: the inductive invariant `LInv`.
* `LayerTypes`: `TypeOK`; no SM is given out twice.
* `SpinnersGated`: `SpinnerBehindDispatch`, and `ComputeFirst`: `ComputeWinsSms`.
* `PassesApart`: `LayerIsBarrier`.
* `AccessesInOrder`: `AccessesOrdered`, the recycled blocks of the caching allocator included.

`LInv` has four parts besides the types.  `HeadsOK`: a busy stream has a kernel at its head, which
holds no more SMs than it asks for.  `WaitsHold`: what a stream has waited for stays true once the
stream is past the wait, so the code's `wait_stream`, event and started-flag waits can be used long
after.  `StartedCounts`: a started flag is the number of kernels of its name that have begun;
with the bumps in front of the launches this makes a passed `wait_*_started` mean that the kernel
of the same layer has begun (`GateOver`), though flag and count are shared by all layers and both
are skipped on a rank without tiles.  `GatesHold`: of two kernels with a gate between them the
first was launched before the second, and once the second has an SM the first has all it asked for
(but for `prioritize_communicate`, where it has at least begun).  The SM properties follow from
the last three at once.

The other two are about the program as a text.  A pass has 31 to 35 statements and the schedule is
arbitrary, so the proof first lays the passes end to end (`ProgramLaid`, `Located`), and tabulates
each pass at each level (`ForwardRows`, `BackwardRows`).  `Fenced(P, i, j)` says that a chain of
`wait_stream` and event waits leads from statement i to a later one on another stream; `FenceHolds`
that i is then complete when j is at its head.  `PassesFenced`: kernels of different passes on
different streams are always fenced, because every pass begins with waits of the side streams for
the caller and ends with waits of the caller for them.  Within a pass, `ForwardFences` and
`BackwardFences` list the pairs that nothing fences (six in a forward pass, twenty in a backward
one), and `ForwardShared` and `BackwardShared` that such a pair shares only what is handed over.
Memory that is freed and allocated again adds no pair (`ForwardClash`, `BackwardClash`): a pass
frees only at its end, when the caller has waited for both side streams, except for the model's own
temporaries before it.  That argument uses neither the separate pools nor `record_stream`.  Some
hand-overs need more than an edge: the compression of the pool runs after kernel A, which ends
when every tile is published; dW2 reads `dL_do_pool` behind kernel_y_bwd, for the same reason; and
combine_grads reads sums written by kernels it does not wait for, all of them earlier on the
compute stream than the kernel_a_bwd whose start it waits for.  On a rank without tiles these
companions are not launched, and the memory in question has no rows.

### The host (`BufferHostProofs`)

For any set of Buffers, group sizes, widths, configs and counts of calls:

* `HostInvHolds`: the inductive invariant `HostInv`.  Every launch of a live Buffer is at the
  Buffer's pinned geometry and config and tagged no higher than `next_seq`; every handle's
  Buffer is alive and its number no higher than `next_seq`.
* `OneGeometry`: `OneGeometryPerBuffer`, because two launches at the same pins agree.
* `SeqAlwaysIncreases`: the action property `SeqIncreases`, because a dispatch takes
  `next_seq + 1`.  The property needs `HostInv` about launches of finished and failed calls.
* `LaunchesFindConnections`: `LaunchWithinRcs`, if `set_num_sms` is never called while a Buffer
  exists (`~LateSetNumSms`).  Its invariant says that an internode Buffer's connection count and
  the SM count of all its launches are what the pick resolves for its group.  Without the
  assumption the property is false: a later, larger `set_num_sms` reaches an older Buffer.
* `TypeCorrect`: `TypeOK`; every pinned config is one that the constructor of `Config` accepts.
* `RaisedForOwnPins`: `RaisedOnlyForItsOwnPins`, and `RegionsStayDisjoint`: `RegionsDisjoint`,
  under `~LateSetNumSms` and `NoNarrow`.
* `SizedFits`: `SizedForFits`, under `~LateSetNumSms` and `0 \notin PinnedSms`.

The last three speak of sizes.  `TableFacts` takes the rows of the two config tables to what the
arithmetic needs (NVL slots, RDMA slots of at least 128).  `SizeInv` says that a live Buffer is as
large as the hints of both tables at its SM count and that its pins are configs at that count, which
is what `~LateSetNumSms` is for: the shared count changes with the groups of other Buffers, the
count of a group does not.  `FitInv` adds that each combine region launched ends within the
allocation.  `InternodeNvl`, `InternodeRdma` and `IntranodeNvl` then compare region by region: a
call no wider than the sizing, with no more slots, top-k up to 32 and 64 experts needs no more
than the hint.  `NoNarrow` leaves out a caller's own config with fewer NVL slots: with it the
regions overlap, the finding of `buffer_host_regions`.  `0 \notin PinnedSms` leaves out
`set_num_sms(0)`: with no SM the hints are zero and the metadata regions are not.

### The numbers of a layer (`LayerGradsProofs`)

The tile rules, for every shape (I, H), every routing and every overrides:

* `DefaultIsValid`, `DefaultYBwdFits`: what `default_tile_config` picks passes `validate`, and
  keeps `tile_n_y_bwd` at or below 192.
* `AcceptedRunsEveryKernel`, `AcceptedAvoidsNSplit`: a config that passes `validate` passes the
  divisibility assertions of the kernels and, unless a weight-gradient `tile_m` is overridden,
  gives no backward GEMM a tile split over two MMA atoms.
* `NeverAsserts`: hence `NoKernelAsserts` in every reachable state.  Its invariant `IInv` says that
  past resolution `cfg` is a resolved config that `validate` accepted.

The computation, for every routing of every number of tokens, every seed, level, accepted config
and order of the CTAs, and for every integer input and weight:

* `LayerGradsTypes`: `TypeOK`.  Every routed pair has a pool row of its own in a tile of its
  expert, and no CTA reaches past the pool or past the width of its output.
* `PaddingIsZero`: `PadsAreZero`, whatever the padding rows held before `kernel_y_bwd`.
* `ForwardIsExact`: `ForwardExact`.  What kernel Y has added up when it is over is the weighted
  sum over the token's experts that the reference writes down.

The assumptions: positive I and H, overrides that are tables of the knobs, routings that are
sequences of sets of local experts (`RoutingsAssumption`), integer data (`ValuesAssumption`) and a
NaN that is no integer (`NaNAssumption`).

None of the three is inductive by itself.  To `IInv` they add `Work` (the CTAs left are of the
running kernel's grid) and `PInv`: the handle is the layout of the call's routing, the tensors have
their shapes, the padding of `dL_dweight` stays zero, and a padding element of the other two
outputs is clean unless a CTA that covers it is still to come.  That every element is covered when
the kernel starts is `CtasCover`; that a CTA writes zeros there, whatever it read, `YBwdWrites`,
since `UnlessPad` selects and does not multiply.

`ForwardIsExact` adds `FInv`.  While kernel A runs, a routed element of `postact` is the reference's
unit unless its CTA is still to come (`PreactIs`, `PostIs`: no NaN enters, as the row of a routed
pair was delivered).  From kernel Y on, an element of `o` is the sum of the shares of the experts
that have `Landed`.  A CTA adds the shares of the token's rows in its tile (`ScatterAdds`, by the
bijection between a token's experts and its rows), none of which had landed, as no other CTA
covers them (`CtaIsOne`, `LandedGrows`); so the sum grows by exactly those.  A sum with an
accumulator that may be NaN is a sum of integers once no term is NaN (`SumIsNet`); the fold it is
written with is unfolded by its first failing subset (`SubsetsAgree`).  Without tiles no kernel
runs, no pair is routed and the zeroed `o` is already the answer.

### Only model-checked

Liveness (`LaunchesDrain`, `CombineDrains`, `RowsReleased`, `EveryPassCompletes`): with fairness it
is outside the prover's reach.  The exactness of the gradients in `LayerGrads` (`InputGradExact`,
`RoutingGradExact`, `WeightGradsExact`): they compare a kernel's sums with a difference quotient of
the reference loss, so a proof would have to differentiate nested sums of products of products,
nonlinear arithmetic and an integer division that the provers do not find.

## 7. What is not modelled, and assumptions worth knowing

* Stamps keep 32 bits; after 2^31 layers an old word matches again.  Assumed away, as in the
  comment at `utils.cuh:36-38`.
* Combine's reverse scan over `send_head` (`intranode.cu:849-864`, 32 lanes that carry a value from
  one group of tokens to the next) is one operator that says what the scan leaves behind.
* A chunk as large as the ring is not examined: `config.hpp:42` asserts it is smaller.
* `CombineRing` needs a ring of at least chunk + workers - 1 rows to drain: a worker's head lies
  up to workers - 1 tokens behind the tail it waits for.  `Config` asserts only chunk < ring.
  Every configuration in `buffer.py` (rings of 256 and more against 23 reducing warps) has room.
* `is_token_in_rank` is taken to agree with `topk_idx`; keeping them consistent is the caller's
  duty.  A token routed to a rank on which it has no expert would never be released.
* `stream_ep.cpp:772` calls a group of arrays "zeroed AFTER event"; the code zeroes them before
  it (line 878), and the comment there says why.  The models follow the code.
* The internode kernels and `ibgda_device.cuh`: rings with cumulative cursors, a forwarder and
  7-bit tags over two transports, a protocol of its own.  `BufferHost` has what the host
  guarantees to them: one geometry, one config per ring chain, enough connections.
* The exchange of counts in the metadata kernel, the counters of `barrier_block`, and the pinned
  words of the host poll.
* The carving of a region into arrays (`buffer.cuh`), the `INT_MAX` assertions of the C++
  constructor, NVSHMEM and IPC set-up, the timeouts.  The connection count is taken per
  Buffer, as the environment variable is set per construction.
* In the kernels: bf16 rounding, shared-memory staging (`_compute_stages`), cluster shapes,
  ping-pong and swizzle, the external GEMM mainloop and scheduler base.  In
  `recv_pool_compress.py`, the int32 range assertion.
* Calls the code leaves to the caller: an explicit `dispatch_seq`, and a second backward through
  one handle, both of which repeat a stamp.
* The intranode dispatch assertion admits tokens wider than the Buffer was sized for as long as
  dispatch's region fits; the combine that follows then refuses.  `SizedForFits` speaks of
  tokens no wider than the sizing.
* `TileConfig(tile_m=192)` alone is always refused, since the baseline `tile_n_dW1` is 256;
  the weight-gradient `tile_m` overrides are not validated, hence the assumption in
  `AcceptedAvoidsNSplit`.
* `TileConfig` writes a knob that is left out as 0; an override of 0 given by the caller is not
  an input of the model.  In `BufferHost`, the explicit configs given to a call have the SM count
  of the recommended ones.
