---------------------------- MODULE LayerStreams -----------------------------
(***************************************************************************)
(* The device side of the streaming-MoE layers of every rank: the host     *)
(* issues the statements of StreamProgram pass after pass, each stream     *)
(* runs its own in order, and the kernels of the three streams compete for *)
(* the SMs.                                                                *)
(*                                                                         *)
(* A kernel is launched when it is at the head of its stream, then gets    *)
(* SMs; kernels are served in launch order, the communicate stream first   *)
(* where make_streams gave it the higher priority.  What a kernel waits    *)
(* for inside (a tile arriving, a peer's ring) is a condition on its end.  *)
(***************************************************************************)
EXTENDS StreamProgram, FiniteSets, FiniteSetsExt, TLC

CONSTANTS
  Ranks,
  Checkpointing,   \* the activation_checkpoint_levels checked
  Schedule         \* the passes, in order: a sequence of [dir, layer]

Layers == {Schedule[k].layer : k \in DOMAIN Schedule}

ASSUME ScheduleAssumption ==
  /\ Checkpointing \subseteq Levels
  /\ Schedule \in Seq([dir : {"forward", "backward"}, layer : Nat])
  /\ \A k \in DOMAIN Schedule : Schedule[k].dir = "backward" =>
       \E j \in 1 .. k - 1 : Schedule[j] = [dir |-> "forward", layer |-> Schedule[k].layer]
  /\ \A j, k \in DOMAIN Schedule : Schedule[j] = Schedule[k] => j = k

Pass(k, lv) == IF Schedule[k].dir = "forward" THEN Forward(Schedule[k].layer, lv)
                                              ELSE Backward(Schedule[k].layer, lv)
(* What depends on the level and the stream alone, as a tuple and a record:
   TLC computes those once and keeps them. *)
PerLevel(Of(_)) == << Of(0), Of(1), Of(2) >>
PerStream(Of(_)) == [caller |-> Of("caller"), communicate |-> Of("communicate"),
                     compute |-> Of("compute")]
Programs == PerLevel(LAMBDA lv : FlattenSeq([k \in DOMAIN Schedule |-> Pass(k, lv)]))
Passes == PerLevel(LAMBDA lv :
            FlattenSeq([k \in DOMAIN Schedule |-> [i \in DOMAIN Pass(k, lv) |-> k]]))
Program(lv) == Programs[lv + 1]
PassOf(lv, i) == Passes[lv + 1][i]     \* the number of the pass of a statement

VARIABLES
  level,        \* activation_checkpoint_level
  prioritize,   \* make_streams' prioritize_communicate
  tiles,        \* [Ranks -> [Layers -> BOOLEAN]]: has the rank tiles of the layer
  pc,           \* [Ranks -> Nat]: the statement the host runs next
  next,         \* [Ranks -> [Streams -> Nat]]: statements before it are complete
  phase,        \* [Ranks -> [Streams -> ...]]: of the statement at the stream's head
  held,         \* [Ranks -> [Streams -> Nat]]: SMs its kernel occupies
  ahead,        \* [Ranks -> [Streams -> SUBSET Streams]]: whose kernels were launched
                \* before the stream's own and have not ended
  started       \* [Ranks -> [Flags -> Nat]]: the started flags on the device
vars == <<level, prioritize, tiles, pc, next, phase, held, ahead, started>>

Phases == {"queued", "launched", "started", "published"}
Prog == Program(level)
Runs(r, i) == tiles[r][Prog[i].layer] \in Prog[i].when

(* A statement is complete once its stream has passed it; at the head of a
   stream is the first one that is issued, not passed, and run at all. *)
StreamStmts == PerLevel(LAMBDA lv : PerStream(LAMBDA s :
                 {i \in DOMAIN Program(lv) : Program(lv)[i].stream = s}))
StmtsOn(s) == StreamStmts[level + 1][s]
OfKind == PerLevel(LAMBDA lv : [
            poll |-> {i \in DOMAIN Program(lv) : Program(lv)[i].kind = "poll"},
            kernel |-> {i \in DOMAIN Program(lv) : Program(lv)[i].kind = "kernel"}])
Polls == OfKind[level + 1].poll
Kernels == OfKind[level + 1].kernel
Pending(r, s) == {i \in StmtsOn(s) : next[r][s] <= i /\ i < pc[r] /\ Runs(r, i)}
Head1(r, s) == IF Pending(r, s) = {} THEN 0 ELSE Min(Pending(r, s))
Complete(r, i) == ~Runs(r, i) \/ i < next[r][Prog[i].stream]
Busy(r, s) == phase[r][s] # "queued"

(* The launches of a kernel for a layer, and what is said of them. *)
The(name, l) == {i \in Kernels : Prog[i].name = name /\ Prog[i].layer = l}
Current(r, i) == LET s == Prog[i].stream IN Busy(r, s) /\ Head1(r, s) = i
FullyPlaced(r, i) == Current(r, i) /\ held[r][Prog[i].stream] = Prog[i].need
Published(r, i) == Complete(r, i) \/ (Current(r, i) /\ phase[r][Prog[i].stream] = "published")
Delivered(q, name, l) == {i \in The(name, l) : ~Published(q, i)} = {}
Resident(q, name, l) == {i \in The(name, l) : ~Complete(q, i) /\ ~FullyPlaced(q, i)} = {}
Done(q, name, l) == {i \in The(name, l) : ~Complete(q, i)} = {}

Init ==
  /\ level \in Checkpointing
  /\ prioritize \in BOOLEAN
  /\ tiles = [r \in Ranks |-> [l \in Layers |-> TRUE]]
  /\ pc = [r \in Ranks |-> 1]
  /\ next = [r \in Ranks |-> [s \in Streams |-> 1]]
  /\ phase = [r \in Ranks |-> [s \in Streams |-> "queued"]]
  /\ held = [r \in Ranks |-> [s \in Streams |-> 0]]
  /\ ahead = [r \in Ranks |-> [s \in Streams |-> {}]]
  /\ started = [r \in Ranks |-> [f \in Flags |-> 0]]

------------------------------------------------------------------------------
(* The host. *)

(* Alloc, free, bump and every statement it only queues, up to the next poll:
   a statement that is not issued yet differs in nothing from an issued one
   that its stream has not come to. *)
PollsFrom(i) == {k \in Polls : i <= k}
Issue(r) ==
  /\ pc[r] \in DOMAIN Prog
  /\ pc[r] \notin Polls
  /\ pc' = [pc EXCEPT ![r] = Min(PollsFrom(@) \cup {Len(Prog) + 1})]
  /\ UNCHANGED <<level, prioritize, tiles, next, phase, held, ahead, started>>

(* host_poll_recv_counts: waits for the metadata kernel's counters, which tell
   how many tiles the rank has. *)
HostPoll(r) ==
  /\ pc[r] \in Polls
  /\ LET l == Prog[pc[r]].layer IN
       /\ Done(r, "metadata", l)
       /\ \E t \in BOOLEAN : tiles' = [tiles EXCEPT ![r][l] = t]
  /\ pc' = [pc EXCEPT ![r] = @ + 1]
  /\ UNCHANGED <<level, prioritize, next, phase, held, ahead, started>>

------------------------------------------------------------------------------
(* The waits at the head of a stream. *)

(* wait_value_geq_on_stream compares with the count at the time of the call. *)
IssuedBefore(r, i, flag) ==
  Cardinality({b \in 1 .. i - 1 : Prog[b].kind = "bump" /\ Prog[b].on = flag /\ Runs(r, b)})

WaitOver(r, i) ==
  CASE Prog[i].kind = "wait_stream" ->
         {k \in StmtsOn(Prog[i].on) : k < i /\ ~Complete(r, k)} = {}
    [] Prog[i].kind = "wait_event" ->
         {k \in DOMAIN Prog : /\ Prog[k].kind = "record_event"
                              /\ Prog[k].on = Prog[i].on
                              /\ Prog[k].layer = Prog[i].layer
                              /\ ~Complete(r, k)} = {}
    [] Prog[i].kind = "wait_started" ->
         started[r][Prog[i].on] >= IssuedBefore(r, i, Prog[i].on)
    [] Prog[i].kind = "record_event" -> TRUE
    [] OTHER -> FALSE

PassWait(r, s) ==
  LET i == Head1(r, s) IN
  /\ i # 0
  /\ WaitOver(r, i)
  /\ next' = [next EXCEPT ![r][s] = i + 1]
  /\ UNCHANGED <<level, prioritize, tiles, pc, phase, held, ahead, started>>

------------------------------------------------------------------------------
(* Kernels. *)

Launch(r, s) ==
  LET i == Head1(r, s) IN
  /\ i # 0
  /\ Prog[i].kind = "kernel"
  /\ phase[r][s] = "queued"
  /\ phase' = [phase EXCEPT ![r][s] = "launched"]
  /\ ahead' = [ahead EXCEPT ![r][s] = {t \in Streams : Busy(r, t)}]
  /\ UNCHANGED <<level, prioritize, tiles, pc, next, held, started>>

FreeSms(r) == NumSms - SumFunction(held[r])
Wanting(r) == {s \in Streams : Busy(r, s) /\ held[r][s] < Prog[Head1(r, s)].need}
Served(r, s) ==
  /\ s \in Wanting(r)
  /\ IF prioritize /\ "communicate" \in Wanting(r) THEN s = "communicate"
                                                   ELSE ahead[r][s] \cap Wanting(r) = {}

PlaceBeyondDevice(r, s) ==
  /\ Served(r, s)
  /\ held' = [held EXCEPT ![r][s] = Prog[Head1(r, s)].need]
  /\ UNCHANGED <<level, prioritize, tiles, pc, next, phase, ahead, started>>

Place(r, s) ==
  /\ Served(r, s)
  /\ FreeSms(r) > 0
  /\ held' = [held EXCEPT ![r][s] = Min({Prog[Head1(r, s)].need, @ + FreeSms(r)})]
  /\ UNCHANGED <<level, prioritize, tiles, pc, next, phase, ahead, started>>

(* The first block runs: block 0 of a dispatch, or the CTA that claims tile 0. *)
Begin(r, s) ==
  /\ phase[r][s] = "launched"
  /\ held[r][s] > 0
  /\ phase' = [phase EXCEPT ![r][s] = "started"]
  /\ LET name == Prog[Head1(r, s)].name IN
       started' = IF name \in Flags THEN [started EXCEPT ![r][name] = @ + 1] ELSE started
  /\ UNCHANGED <<level, prioritize, tiles, pc, next, held, ahead>>

(* A dispatch has delivered every tile of this rank: its senders and receivers
   and those of every peer must be on their devices for that. *)
Publish(r, s) ==
  LET i == Head1(r, s) IN
  /\ phase[r][s] = "started"
  /\ Prog[i].name \in {"dispatch_main", "dispatch_grads"}
  /\ \A q \in Ranks : Resident(q, Prog[i].name, Prog[i].layer)
  /\ phase' = [phase EXCEPT ![r][s] = "published"]
  /\ UNCHANGED <<level, prioritize, tiles, pc, next, held, ahead, started>>

(* What the blocks of a kernel spin on before the last of them can exit. *)
MayEnd(r, i) ==
  LET l == Prog[i].layer  name == Prog[i].name IN
  CASE name \in {"dispatch_main", "dispatch_grads"} -> phase[r][Prog[i].stream] = "published"
    [] name = "metadata" -> \A q \in Ranks : Resident(q, name, l)
    [] name = "kernel_a" -> Delivered(r, "dispatch_main", l)
    [] name = "kernel_y_bwd" -> Delivered(r, "dispatch_grads", l)
    [] name = "combine" ->
         \A q \in Ranks : Resident(q, name, l) /\ Done(q, "kernel_y", l)
    [] name = "combine_grads" ->
         \A q \in Ranks : Resident(q, name, l) /\ Done(q, "kernel_a_bwd", l)
    [] OTHER -> TRUE

End(r, s) ==
  LET i == Head1(r, s) IN
  /\ phase[r][s] \in {"started", "published"}
  /\ MayEnd(r, i)
  /\ next' = [next EXCEPT ![r][s] = i + 1]
  /\ phase' = [phase EXCEPT ![r][s] = "queued"]
  /\ held' = [held EXCEPT ![r][s] = 0]
  /\ ahead' = [ahead EXCEPT ![r] = [t \in Streams |-> IF t = s THEN {} ELSE @[t] \ {s}]]
  /\ UNCHANGED <<level, prioritize, tiles, pc, started>>

RankStep(r) ==
  \/ Issue(r)
  \/ HostPoll(r)
  \/ \E s \in Streams : \/ PassWait(r, s) \/ Launch(r, s) \/ Place(r, s)
                         \/ Begin(r, s) \/ Publish(r, s) \/ End(r, s)

Next == \E r \in Ranks : RankStep(r)
Spec == Init /\ [][Next]_vars

(* Nothing here loops, so it is enough that some step is taken while one can:
   the host, the front end and the SMs of every device are live. *)
FairSpec == Spec /\ WF_vars(Next)

------------------------------------------------------------------------------
TypeOK ==
  /\ level \in Levels
  /\ prioritize \in BOOLEAN
  /\ tiles \in [Ranks -> [Layers -> BOOLEAN]]
  /\ pc \in [Ranks -> 1 .. Len(Prog) + 1]
  /\ next \in [Ranks -> [Streams -> 1 .. Len(Prog) + 1]]
  /\ phase \in [Ranks -> [Streams -> Phases]]
  /\ held \in [Ranks -> [Streams -> 0 .. NumSms]]
  /\ ahead \in [Ranks -> [Streams -> SUBSET Streams]]
  /\ started \in [Ranks -> [Flags -> 0 .. Len(Schedule)]]
  /\ \A r \in Ranks : FreeSms(r) >= 0

------------------------------------------------------------------------------
(* Which statements touch the same memory.  A freed tensor's block may be any
   tensor allocated later from the same pool, so every such pair may share. *)

At(lv, kind, t) == {i \in DOMAIN Program(lv) : Program(lv)[i].kind = kind /\ t \in Program(lv)[i].writes}
Tensors(lv) == UNION {Program(lv)[i].writes : i \in DOMAIN Program(lv)}
MayShare == PerLevel(LAMBDA lv :
  {p \in Tensors(lv) \X Tensors(lv) :
     /\ PoolOf(p[1][1]) = PoolOf(p[2][1])
     /\ \E f \in At(lv, "free", p[1]), a \in At(lv, "alloc", p[2]) : f < a})

Touched(st) == st.reads \cup st.writes
ClashesOf(lv, j) ==
  LET P == Program(lv)  b == P[j] IN
  {c \in UNION {{i} \X Touched(P[i]) \X Touched(b) :
                 i \in {k \in 1 .. j - 1 : P[k].kind = "kernel" /\ P[k].stream # b.stream}} :
     \/ c[2] = c[3] /\ (c[2] \in P[c[1]].writes \/ c[3] \in b.writes)
     \/ <<c[2], c[3]>> \in MayShare[lv + 1] /\ P[c[1]].stream \notin RecordedOn(c[2][1])}
Clashes == PerLevel(LAMBDA lv : [j \in DOMAIN Program(lv) |-> ClashesOf(lv, j)] \o << >>)

(* Handed over row by row while both run: an arrival count, a done stamp. *)
Streamed(i, j, name) ==
  LET from == Prog[i].name  to == Prog[j].name IN
  \/ from = "dispatch_main" /\ to \in {"kernel_a", "kernel_y"} /\ name \in {"pool", "slots"}
  \/ from = "kernel_y" /\ to = "combine" /\ name \in {"o", "slots"}
  \/ from = "dispatch_grads" /\ to \in {"kernel_y_bwd", "kernel_a_bwd"} /\ name \in {"dL_do_pool", "arrival"}
  \/ from = "kernel_a_bwd" /\ to = "combine_grads" /\ name = "sums"
FilledByDispatch == {"pool", "slots", "dL_do_pool", "arrival"}

HasRows(r, t) == t[1] \in SizedByTiles => tiles[r][t[2]]
HandedOver(r, i, j, u, t) ==
  u = t /\ (Streamed(i, j, u[1]) \/ (u[1] \in FilledByDispatch /\ Published(r, i)))

Running(r, s) == phase[r][s] \in {"started", "published"}

(* A kernel runs only when every statement issued before it on another stream
   that touches its memory, under the same tensor or as an earlier owner of a
   recycled block, is complete, or hands the data over row by row: the layer's
   wait_stream edges, events and started gates, without record_stream, are
   enough for that (stream_moe.py, the comments at every allocation). *)
AccessesOrdered ==
  \A r \in Ranks, s \in Streams : Running(r, s) =>
    LET j == Head1(r, s) IN
    \A c \in Clashes[level + 1][j] :
      \/ Complete(r, c[1])
      \/ ~HasRows(r, c[2]) \/ ~HasRows(r, c[3])
      \/ HandedOver(r, c[1], j, c[2], c[3])

(* A kernel that spins on a dispatch never occupies an SM before the dispatch
   has all of its own: what wait_dispatch_main_started and
   wait_dispatch_grads_started are for (stream_moe.py:498-505, 911-915). *)
SpinnerBehindDispatch ==
  \A r \in Ranks, s \in Streams : Busy(r, s) /\ held[r][s] > 0 =>
    LET st == Prog[Head1(r, s)] IN
    /\ st.name = "kernel_a" => Resident(r, "dispatch_main", st.layer)
    /\ st.name = "kernel_y_bwd" => Resident(r, "dispatch_grads", st.layer)

(* A combine gets SMs only when the compute kernel it drains has a block on
   them, and all it asked for where the streams have one priority: the SM race
   the started gates decide (stream_moe.py:619-626, 1037-1042). *)
Seated(q, name, l) == \A i \in The(name, l) :
  Complete(q, i) \/ (Current(q, i) /\ held[q][Prog[i].stream] > 0)
ComputeWinsSms ==
  \A r \in Ranks, c \in {<<"combine", "kernel_y">>, <<"combine_grads", "kernel_a_bwd">>} :
    LET st == Prog[Head1(r, "communicate")] IN
    Busy(r, "communicate") /\ held[r]["communicate"] > 0 /\ st.name = c[1] =>
      /\ Seated(r, c[2], st.layer)
      /\ ~prioritize => Resident(r, c[2], st.layer)

(* No kernel of a layer runs on the side streams beside one of the pass before
   it, so a persistent kernel cannot starve the next layer's dispatch. *)
SideKernels == {k \in Kernels : Prog[k].stream # "caller"}
LayerIsBarrier ==
  \A r \in Ranks : \A s \in Streams \ {"caller"} : Running(r, s) =>
    LET pass == PassOf(level, Head1(r, s)) IN
    {k \in SideKernels : PassOf(level, k) < pass /\ ~Complete(r, k)} = {}

(* Whatever tiles the ranks find and however the kernels are placed, every rank
   gets through every pass: no gate waits for a launch that is skipped, and no
   spinning kernel keeps out the one it waits for. *)
AllComplete(r) == pc[r] = Len(Prog) + 1 /\ \A s \in Streams : Pending(r, s) = {}
EveryPassCompletes == <>(\A r \in Ranks : AllComplete(r))

(* stream_moe.py:508 and 980 say that dispatch_main and dispatch_grads have
   retired when the kernel that reads their tiles runs. *)
ConsumerAfterDispatchRetired ==
  \A r \in Ranks : Running(r, "compute") =>
    LET st == Prog[Head1(r, "compute")] IN
    /\ st.name = "kernel_a" => Done(r, "dispatch_main", st.layer)
    /\ st.name = "kernel_y_bwd" => Done(r, "dispatch_grads", st.layer)
=============================================================================
