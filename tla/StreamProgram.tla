---------------------------- MODULE StreamProgram ----------------------------
(***************************************************************************)
(* What the host of one rank issues for a streaming-MoE layer: the         *)
(* forward and the backward of StreamMoEFunc, with the calls into Buffer   *)
(* that allocate and launch, as sequences of statements.                   *)
(*                                                                         *)
(* A statement is either run by the host itself (alloc, free, bump, poll)  *)
(* or queued on one of three streams: "caller" (the model's own stream),   *)
(* "communicate" and "compute".  Tensors that the same statements create,  *)
(* fill and read are one tensor here.  Data, shapes and the checkpoint     *)
(* arithmetic are left out; which statement touches which tensor is kept.  *)
(***************************************************************************)
EXTENDS Integers, Sequences, SequencesExt

CONSTANTS
  NumSms,      \* SMs of the device
  CommSms      \* SMs a dispatch or combine grid needs, all of them at once

ASSUME SmAssumption == /\ NumSms \in Nat \ {0}
                       /\ CommSms \in 1 .. NumSms

Levels == 0 .. 2             \* activation_checkpoint_level
Streams == {"caller", "communicate", "compute"}
Flags == {"dispatch_main", "kernel_y", "dispatch_grads", "kernel_a_bwd"}

(* One shape for every statement.  when: the tile counts it is run for.
   on: the stream, event or flag a wait is about, or the flag bumped. *)
Stmt(kind, l) == [kind |-> kind, layer |-> l, stream |-> "host", name |-> "", on |-> "",
                  when |-> BOOLEAN, need |-> 0, reads |-> {}, writes |-> {}]

T(names, l) == {<<n, l>> : n \in names}
Kernel(s, l, name, need, reads, writes) ==
  [Stmt("kernel", l) EXCEPT !.stream = s, !.name = name, !.need = need,
                            !.reads = T(reads, l), !.writes = T(writes, l)]
WaitStream(s, l, t) == [Stmt("wait_stream", l) EXCEPT !.stream = s, !.on = t]
WaitEvent(s, l, e) == [Stmt("wait_event", l) EXCEPT !.stream = s, !.on = e]
RecordEvent(s, l, e) == [Stmt("record_event", l) EXCEPT !.stream = s, !.on = e]
WaitStarted(s, l, flag) == [Stmt("wait_started", l) EXCEPT !.stream = s, !.on = flag]
Bump(l, flag) == [Stmt("bump", l) EXCEPT !.on = flag]
Poll(l) == Stmt("poll", l)
Alloc(l, names) == [Stmt("alloc", l) EXCEPT !.writes = T(names, l)]
Free(l, names) == [Stmt("free", l) EXCEPT !.writes = T(names, l)]
WithTiles(st) == [st EXCEPT !.when = {TRUE}]
WithoutTiles(st) == [st EXCEPT !.when = {FALSE}]
AtLevels(lv, levels, stmts) == IF lv \in levels THEN stmts ELSE << >>

(* Which allocations the caching allocator keeps apart: Buffer's own slab and
   arrival counters come from the communicate stream's pool and are recorded
   on the compute stream, what backward creates inside its compute block comes
   from compute's pool, all else from the caller's, unrecorded. *)
PoolOf(name) == CASE name \in {"pre", "arrival"} -> "communicate"
                  [] name \in {"preact2", "cu_seqlens"} -> "compute"
                  [] OTHER -> "caller"
RecordedOn(name) == IF name \in {"pre", "arrival"} THEN {"compute"} ELSE {}

(* What has a row per received token or per pool slot: nothing without tiles. *)
SizedByTiles == {"pool", "slots", "o", "postact", "preact", "x_recv", "sums", "scratch",
                 "dL_do_pool", "arrival", "pool2", "preact2"}

------------------------------------------------------------------------------
(* The model around the layer, on its own stream. *)

ModelBefore(l) == << Alloc(l, {"x", "tmp"}),
                     Kernel("caller", l, "model", NumSms, {}, {"x", "tmp"}),
                     Free(l, {"tmp"}) >>
ModelAfter(l) == << Free(l, {"x"}),
                    Kernel("caller", l, "model_out", 1, {"out"}, {}),
                    Free(l, {"out"}) >>
GradBefore(l) == << Alloc(l, {"dL_dy", "tmp2"}),
                    Kernel("caller", l, "model_bwd", NumSms, {}, {"dL_dy", "tmp2"}),
                    Free(l, {"tmp2"}) >>
GradAfter(l) == << Free(l, {"dL_dy"}),
                   Kernel("caller", l, "model_dx", 1, {"dL_dx", "dW"}, {}),
                   Free(l, {"dL_dx", "dW"}) >>

------------------------------------------------------------------------------
(* Forward. *)

LayerStart(l) == << WaitStream("communicate", l, "caller"),
                    WaitStream("compute", l, "caller") >>

(* Buffer.dispatch: the metadata kernel, the host's poll of its counters, the
   allocations and memsets sized by them, the event, the main kernel. *)
AllocatePrePoll(l) == << Alloc(l, {"pre"}),
                         Kernel("communicate", l, "memset_pre", 1, {}, {"pre"}) >>
AllocatePostPoll(l) ==
  << Alloc(l, {"pool", "post", "slots", "o"}),
     Kernel("communicate", l, "memset_post", 1, {"pre"}, {"post", "slots", "o"}),
     RecordEvent("communicate", l, "metadata_done") >>
Dispatch(l) ==
  AllocatePrePoll(l)
  \o << Kernel("communicate", l, "metadata", 1, {}, {"pre"}), Poll(l) >>
  \o AllocatePostPoll(l)
  \o << Bump(l, "dispatch_main"),
        Kernel("communicate", l, "dispatch_main", CommSms, {"x", "pre"}, {"pool", "post", "slots"}) >>

KernelAUngated(l) == << WaitEvent("compute", l, "metadata_done") >>
GateKernelA(l) == << WaitEvent("compute", l, "metadata_done"),
                     WaitStarted("compute", l, "dispatch_main") >>

BumpBeforeGuard(l, lv) == << Alloc(l, {"postact", "preact"}), Bump(l, "kernel_y"),
                             WaitStream("compute", l, "caller") >>
Activations(lv) == {"postact"} \cup IF lv = 0 THEN {"preact"} ELSE {}
AllocateActivations(l, lv) == << Alloc(l, Activations(lv)), WaitStream("compute", l, "caller") >>

KernelA(l, lv) ==
  << WithTiles(Kernel("compute", l, "kernel_a", NumSms, {"pool", "pre", "slots"}, Activations(lv))) >>
KernelY(l) ==
  << WithTiles(Bump(l, "kernel_y")),
     WithTiles(Kernel("compute", l, "kernel_y", NumSms, {"postact", "pre", "slots"}, {"o", "slots"})) >>

CombineUngated(l) == << >>
GateCombine(l) == << WithTiles(WaitStarted("communicate", l, "kernel_y")) >>
Combine(l) == << Alloc(l, {"out"}),
                 Kernel("communicate", l, "combine", CommSms, {"o", "pre", "post", "slots"}, {"out"}) >>

CompressWithoutJoin(l) == << Alloc(l, {"x_recv"}),
                             Kernel("caller", l, "compress", 1, {"pool", "slots"}, {"x_recv"}),
                             Free(l, {"pool"}) >>
(* Level 2 keeps the received rows instead of the padded pool. *)
CompressPool(l) == << WaitStream("caller", l, "compute"),
                      Alloc(l, {"x_recv"}),
                      Kernel("caller", l, "compress", 1, {"pool", "slots"}, {"x_recv"}),
                      Free(l, {"pool"}) >>

ComputeNotJoined(l) == << WaitStream("caller", l, "communicate") >>
LayerEnd(l) == << WaitStream("caller", l, "communicate"),
                  WaitStream("caller", l, "compute") >>
ReleaseO(l) == << Free(l, {"o"}) >>
ForwardReturn(l) == << Free(l, {"postact"}) >>

Forward(l, lv) ==
  ModelBefore(l) \o LayerStart(l) \o Dispatch(l) \o GateKernelA(l) \o AllocateActivations(l, lv)
  \o KernelA(l, lv) \o KernelY(l) \o GateCombine(l) \o Combine(l)
  \o AtLevels(lv, {2}, CompressPool(l))
  \o LayerEnd(l) \o ReleaseO(l) \o ForwardReturn(l) \o ModelAfter(l)

------------------------------------------------------------------------------
(* Backward.  "sums": dL_dx_per_r, bwd_a_done_per_token, bwd_k_local_remaining
   and dL_dweight; "scratch": dL_dswiglu_in and postact_a_for_dW2. *)

AllocateScratch(l) == << Alloc(l, {"sums", "scratch", "dW"}) >>

FanOut(l) == << WaitStream("communicate", l, "caller"),
                WaitStream("compute", l, "caller") >>

ZeroSums(l) == << Kernel("compute", l, "zero_sums", 1, {}, {"sums"}) >>
IndexTensors(l) == << Alloc(l, {"cu_seqlens"}),
                      Kernel("compute", l, "index", 1, {"pre", "slots"}, {"sums", "cu_seqlens"}) >>

DispatchGrads(l) ==
  << Alloc(l, {"dL_do_pool", "arrival"}),
     Kernel("communicate", l, "zero_arrival", 1, {}, {"arrival"}),
     Bump(l, "dispatch_grads"),
     RecordEvent("communicate", l, "grads_started"),
     Kernel("communicate", l, "dispatch_grads", CommSms, {"dL_dy", "pre", "post", "slots"},
            {"dL_do_pool", "arrival"}) >>
GateKernelYBwd(l) == << WaitEvent("compute", l, "grads_started"),
                        WaitStarted("compute", l, "dispatch_grads") >>

ReexpandPool(l) ==
  << WithTiles(Alloc(l, {"pool2"})),
     WithTiles(Kernel("compute", l, "reexpand", 1, {"x_recv", "slots"}, {"pool2"})) >>

PoolTensor(lv) == IF lv = 2 THEN "pool2" ELSE "pool"
PreactTensor(lv) == IF lv = 0 THEN "preact" ELSE "preact2"

RecomputePreact(l, lv) ==
  << WithTiles(Alloc(l, {"preact2"})),
     WithTiles(Kernel("compute", l, "recompute", NumSms, {PoolTensor(lv), "cu_seqlens"},
                       {"preact2"})) >>

KernelYBwd(l, lv) ==
  << WithTiles(Kernel("compute", l, "kernel_y_bwd", NumSms,
                       {"dL_do_pool", "arrival", "pre", "slots", PreactTensor(lv)},
                       {"scratch", "sums"})) >>
KernelABwd(l) ==
  << WithTiles(Bump(l, "kernel_a_bwd")),
     WithTiles(Kernel("compute", l, "kernel_a_bwd", NumSms, {"scratch", "arrival", "pre", "slots"},
                       {"sums"})) >>

GateCombineGrads(l) == << WithTiles(WaitStarted("communicate", l, "kernel_a_bwd")) >>
CombineGrads(l) ==
  << Alloc(l, {"dL_dx"}),
     Kernel("communicate", l, "combine_grads", CommSms, {"sums", "pre", "post", "slots"}, {"dL_dx"}) >>

(* Without tiles there is nothing to multiply and the gradients are zeroed. *)
WeightGrads(l, lv) ==
  << WithTiles(Kernel("compute", l, "dW2", NumSms, {"dL_do_pool", "scratch", "cu_seqlens"}, {"dW"})),
     WithTiles(Kernel("compute", l, "dW1", NumSms, {"scratch", PoolTensor(lv), "cu_seqlens"}, {"dW"})) >>
ZeroWeightGrads(l) == << WithoutTiles(Kernel("compute", l, "zero_dW", 1, {}, {"dW"})) >>

Released(lv) == {"pre", "post", "slots", "arrival", "sums", "scratch", "cu_seqlens", "dL_do_pool",
                 PoolTensor(lv), PreactTensor(lv)} \cup IF lv = 2 THEN {"x_recv"} ELSE {}
BackwardReturn(l, lv) == << Free(l, Released(lv)) >>

Backward(l, lv) ==
  GradBefore(l) \o AllocateScratch(l) \o FanOut(l) \o ZeroSums(l) \o IndexTensors(l)
  \o DispatchGrads(l) \o GateKernelYBwd(l)
  \o AtLevels(lv, {2}, ReexpandPool(l)) \o AtLevels(lv, {1, 2}, RecomputePreact(l, lv))
  \o KernelYBwd(l, lv) \o KernelABwd(l) \o GateCombineGrads(l)
  \o CombineGrads(l) \o WeightGrads(l, lv) \o ZeroWeightGrads(l)
  \o LayerEnd(l) \o BackwardReturn(l, lv) \o GradAfter(l)
=============================================================================
