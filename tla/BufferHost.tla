------------------------------ MODULE BufferHost -----------------------------
(***************************************************************************)
(* The Buffers of one process as their Python callers see them: sizing,    *)
(* the SM count that all Buffers share, the geometry and configs pinned by *)
(* the first call, the sequence numbers, and the host's checks, for        *)
(* dispatch, combine and their gradients.                                  *)
(*                                                                         *)
(* A call ends "launched", "raised" (_check_layout, nothing touched) or    *)
(* "refused" (an assertion of the C++ host: the pins of the call stay).    *)
(***************************************************************************)
EXTENDS BufferLayout, FiniteSets

CONSTANTS
  BufferIds,
  Groups,          \* sizes a Buffer's group may have
  Widths,          \* token widths of the calls, in 16-byte units
  SizedWidths,     \* the widths Buffers are sized for
  TopKs,
  Experts,         \* local experts per rank of a dispatch
  PinnedSms,       \* the values callers hand to set_num_sms
  DispatchGiven, CombineGiven,
                   \* explicit configs: names, of which Explicit is the meaning
  LateSetNumSms,   \* may set_num_sms be called while a Buffer exists
  MaxSeq           \* bound: dispatches of one Buffer

ASSUME BufferAssumption ==
  /\ Groups \subseteq {2, 4, 8, 16, 24, 32, 48, 64, 96, 128, 144, 160}
  /\ Widths \subseteq Nat \ {0} /\ SizedWidths \subseteq Nat \ {0}
  /\ TopKs \subseteq 1 .. MaxTopK
  /\ Experts \subseteq 1 .. MaxLocalExperts
  /\ \A n \in PinnedSms : n \in Nat /\ n % 2 = 0
  /\ DispatchGiven \cup CombineGiven \subseteq {"None", "chunked", "narrow"}
  /\ LateSetNumSms \in BOOLEAN
  /\ MaxSeq \in Nat \ {0}

VARIABLES
  num_sms, explicit,   \* Buffer.num_sms, Buffer._num_sms_explicit
  buffers,             \* [BufferIds -> a Buffer or NoBuffer]
  handles,             \* the StreamingHandles alive
  last                 \* the last call and how it ended
vars == <<num_sms, explicit, buffers, handles, last>>

NoBuffer == [alive |-> FALSE]
NoCall == [op |-> "none", outcome |-> "none"]
Unset == <<>>            \* a key _layouts does not have yet
Live == {b \in BufferIds : buffers[b].alive}

(* The configs a caller may pass: None, or one of its own.  "chunked" sends in
   smaller pieces, "narrow" gives the NVL rings half the slots. *)
Explicit(name, c) == CASE name = "None" -> c
                       [] name = "chunked" -> [c EXCEPT !.nvl_send = (@ + 1) \div 2]
                       [] name = "narrow" -> [c EXCEPT !.nvl_recv = @ \div 2]

Init == /\ num_sms = 64 /\ explicit = FALSE
        /\ buffers = [b \in BufferIds |-> NoBuffer]
        /\ handles = {} /\ last = NoCall

------------------------------------------------------------------------------
SetNumSms(n) ==
  /\ LateSetNumSms \/ Live = {}
  /\ num_sms' = n /\ explicit' = TRUE
  /\ last' = NoCall
  /\ UNCHANGED <<buffers, handles>>

(* autopick_num_sms, which every constructor and recommended config runs. *)
Resolved(ranks) == IF explicit THEN num_sms ELSE AutoPick(ranks)

(* sized_for and the constructor it calls; env: NVSHMEM_IBGDA_NUM_RC_PER_PE. *)
NewBuffer(ranks, h4, sms, env) ==
  LET d == DispatchConfig(ranks, sms)
      c == CombineConfig(ranks, sms)
      larger(x, y) == IF x > y THEN x ELSE y
  IN [alive |-> TRUE, ranks |-> ranks, sized |-> h4,
      nvl |-> larger(NvlHint(d, ranks, h4), NvlHint(c, ranks, h4)),
      rdma |-> larger(RdmaHint(d, ranks, h4), RdmaHint(c, ranks, h4)),
      rcs |-> IF Internode(ranks) THEN env ELSE 0,
      geometry |-> Unset, dispatch |-> Unset, combine |-> Unset,
      next_seq |-> 0, launched |-> {}]

(* Mutants: the sizes, or the environment, taken before the automatic pick. *)
SizedForStale(b, ranks, h4) ==
  /\ ~buffers[b].alive
  /\ num_sms' = Resolved(ranks)
  /\ buffers' = [buffers EXCEPT ![b] = NewBuffer(ranks, h4, num_sms, Resolved(ranks))]
  /\ last' = NoCall
  /\ UNCHANGED <<explicit, handles>>
SizedForEarlyEnv(b, ranks, h4) ==
  /\ ~buffers[b].alive
  /\ num_sms' = Resolved(ranks)
  /\ buffers' = [buffers EXCEPT ![b] = NewBuffer(ranks, h4, Resolved(ranks), num_sms)]
  /\ last' = NoCall
  /\ UNCHANGED <<explicit, handles>>

SizedFor(b, ranks, h4) ==
  /\ ~buffers[b].alive
  /\ num_sms' = Resolved(ranks)
  /\ buffers' = [buffers EXCEPT ![b] = NewBuffer(ranks, h4, Resolved(ranks), Resolved(ranks))]
  /\ last' = NoCall
  /\ UNCHANGED <<explicit, handles>>

(* The last reference to the Buffer goes, and with it its handles'. *)
Drop(b) ==
  /\ buffers[b].alive
  /\ buffers' = [buffers EXCEPT ![b] = NoBuffer]
  /\ handles' = {h \in handles : h.buffer # b}
  /\ last' = NoCall
  /\ UNCHANGED <<num_sms, explicit>>

------------------------------------------------------------------------------
(* _check_layout: the geometry first, then the config of these rings. *)
PinsOverwritten(B, rings, geometry, c) ==      \* mutant: assigns, not setdefault
  [B EXCEPT !.geometry = geometry, ![rings] = c]
Pins(B, rings, geometry, c) ==
  LET first == IF B.geometry = Unset THEN geometry ELSE B.geometry
      config == IF B[rings] = Unset THEN c ELSE B[rings]
  IN IF first # geometry THEN B
     ELSE [B EXCEPT !.geometry = first, ![rings] = config]
Accepts(B, rings, geometry, c) ==
  /\ Pins(B, rings, geometry, c).geometry = geometry
  /\ Pins(B, rings, geometry, c)[rings] = c

(* The sequence number of a dispatch without an explicit dispatch_seq. *)
SeqBeforeIncrement(B) == B.next_seq                                \* mutant
SeqOfLiveHandles(B) == 1 + Cardinality({h \in handles : buffers[h.buffer] = B})  \* mutant
AllocateSeq(B) == B.next_seq + 1

Launched == [op |-> "any", outcome |-> "launched"]
Failed(op, b, given, geometry, outcome) ==
  [op |-> op, buffer |-> b, given |-> given, geometry |-> geometry, outcome |-> outcome]

(* The rings of a launch and its tag: both directions share the number. *)
Launch(rings, forward, seq, geometry, c) ==
  [rings |-> rings, forward |-> forward, seq |-> seq, geometry |-> geometry, config |-> c]

(* A call on the rings of Buffer b: check, then the host's asserts, then the
   launch.  B is the Buffer as the call leaves it when it gets past the check. *)
Call(op, b, rings, forward, given, geometry, c, fits, B, seq) ==
  LET raised == ~Accepts(buffers[b], rings, geometry, c)
      outcome == IF raised THEN "raised" ELSE IF fits THEN "launched" ELSE "refused"
  IN /\ last' = IF outcome = "launched" THEN Launched
                ELSE Failed(op, b, given, geometry, outcome)
     /\ buffers' = [buffers EXCEPT ![b] =
          IF raised THEN Pins(@, rings, geometry, c)
          ELSE IF fits THEN [B EXCEPT !.launched = @ \cup {Launch(rings, forward, seq, geometry, c)}]
          ELSE B]

(* An explicit config leaves the shared SM count alone. *)
RecommendedFor(b, given) == num_sms' = IF given = "None" THEN Resolved(buffers[b].ranks) ELSE num_sms

RecommendedStale(B, rings) ==           \* mutant: no automatic pick in get_combine_config
  IF rings = "dispatch" THEN DispatchConfig(B.ranks, Resolved(B.ranks))
                        ELSE CombineConfig(B.ranks, num_sms)
Recommended(B, rings) == IF rings = "dispatch" THEN DispatchConfig(B.ranks, Resolved(B.ranks))
                                               ELSE CombineConfig(B.ranks, Resolved(B.ranks))

Dispatch(b, h4, topk, experts, given) ==
  LET B == buffers[b]
      c == Explicit(given, Recommended(B, "dispatch"))
      geometry == <<h4, topk>>
      fits == DispatchFits(c, B.ranks, h4, topk, experts, B.nvl, B.rdma)
      seq == AllocateSeq(B)
  IN /\ B.alive /\ B.next_seq < MaxSeq
     /\ RecommendedFor(b, given)
     /\ Call("dispatch", b, "dispatch", TRUE, given, geometry, c, fits,
             [Pins(B, "dispatch", geometry, c) EXCEPT !.next_seq = seq], seq)
     /\ handles' = IF last'.outcome # "launched" THEN handles
                   ELSE handles \cup {[buffer |-> b, seq |-> seq, geometry |-> geometry,
                                       channels |-> Channels(c), stage |-> "dispatched"]}
     /\ UNCHANGED explicit

(* What a handle goes through: combine, and once its loss is known, the
   gradients of both, after which autograd lets go of it.  x has a width of
   its own; the top-k is the handle's. *)
Advance(h, to) == handles' = IF last'.outcome # "launched" THEN handles
                             ELSE (handles \ {h}) \cup
                                  {[h EXCEPT !.stage = s] : s \in to \ {"done"}}

Combine(h, h4, given, op, from, to) ==
  LET B == buffers[h.buffer]
      c == Explicit(given, Recommended(B, "combine"))
      geometry == <<h4, h.geometry[2]>>
      fits == /\ CombineFits(c, B.ranks, h4, geometry[2], B.nvl)
              /\ Internode(B.ranks) \/ Channels(c) = h.channels
  IN /\ h.stage = from
     /\ RecommendedFor(h.buffer, given)
     /\ Call(op, h.buffer, "combine", op = "combine", given, geometry, c, fits,
             Pins(B, "combine", geometry, c), h.seq)
     /\ Advance(h, to)
     /\ UNCHANGED explicit

CombineForward(h, h4, given) == Combine(h, h4, given, "combine", "dispatched", {"combined"})
CombineGrads(h, h4, given) == Combine(h, h4, given, "combine_grads", "grads", {"done"})

DispatchGrads(h, h4, given) ==
  LET B == buffers[h.buffer]
      c == Explicit(given, Recommended(B, "dispatch"))
      geometry == <<h4, h.geometry[2]>>
      fits == /\ DispatchGradsFits(c, B.ranks, B.nvl)
              /\ Internode(B.ranks) \/ Channels(c) = h.channels
  IN /\ h.stage = "combined"
     /\ RecommendedFor(h.buffer, given)
     /\ Call("dispatch_grads", h.buffer, "dispatch", FALSE, given, geometry, c, fits,
             Pins(B, "dispatch", geometry, c), h.seq)
     /\ Advance(h, {"grads"})
     /\ UNCHANGED explicit

Next ==
  \/ \E n \in PinnedSms : SetNumSms(n)
  \/ \E b \in BufferIds :
       \/ \E ranks \in Groups, h4 \in SizedWidths : SizedFor(b, ranks, h4)
       \/ Drop(b)
       \/ \E h4 \in Widths, topk \in TopKs, experts \in Experts, given \in DispatchGiven :
            Dispatch(b, h4, topk, experts, given)
  \/ \E h \in handles, h4 \in Widths :
       \/ \E given \in CombineGiven : CombineForward(h, h4, given)
       \/ \E given \in CombineGiven : CombineGrads(h, h4, given)
       \/ \E given \in DispatchGiven : DispatchGrads(h, h4, given)

Spec == Init /\ [][Next]_vars

------------------------------------------------------------------------------
(* Every variable keeps its type: in particular a sequence number is never 0,
   the value the zeroed rings carry, and a ring's config is a legal Config. *)
TypeOK ==
  /\ num_sms \in Nat /\ explicit \in BOOLEAN
  /\ \A b \in Live : LET B == buffers[b] IN
       /\ B.ranks \in Groups /\ B.sized \in SizedWidths /\ B.next_seq \in 0 .. MaxSeq
       /\ B.geometry \in {Unset} \cup (Widths \X TopKs)
       /\ \A rings \in {"dispatch", "combine"} : B[rings] # Unset => ConfigLegal(B[rings])
       /\ \A L \in B.launched : L.seq \in 1 .. MaxSeq
  /\ \A h \in handles : /\ h.buffer \in Live /\ h.seq \in 1 .. MaxSeq
                         /\ h.stage \in {"dispatched", "combined", "grads"}

(* _check_layout's promise, over everything a Buffer ever launched: the cursors
   the internode rings keep across calls are always read back at the offsets
   they were written at, whichever of the four calls comes. *)
OneGeometryPerBuffer ==
  \A b \in Live : \A K, L \in buffers[b].launched :
    K.geometry = L.geometry /\ (K.rings = L.rings => K.config = L.config)

(* config.hpp's "disjointness is load-bearing": no combine launched on a Buffer
   starts inside a region its dispatches use, and none runs past the NVL
   allocation, although each launch computes its offsets from its own config. *)
RegionsDisjoint ==
  \A b \in Live : \A d, c \in buffers[b].launched :
    d.rings = "dispatch" /\ c.rings = "combine" =>
      LET ranks == buffers[b].ranks IN
      /\ DispatchEnd(d.config, ranks, d.geometry[1], d.geometry[2])
           <= CombineStart(c.config, ranks, c.geometry[1], c.geometry[2])
      /\ CombineEnd(c.config, ranks, c.geometry[1], c.geometry[2]) <= buffers[b].nvl

(* A Buffer from sized_for serves what it was sized for: no host assertion
   refuses a call whose tokens are no wider, for any top-k, any expert count
   and whatever other Buffers did to the shared SM count in between. *)
SizedForFits ==
  last.outcome = "refused" =>
    last.geometry[1] > buffers[last.buffer].sized

(* Other Buffers never make a Buffer raise: a call at the Buffer's geometry
   with the recommended config is rejected only when the Buffer's own earlier
   call of these rings came with an explicit config. *)
RaisedOnlyForItsOwnPins ==
  last.outcome = "raised" /\ last.given = "None" =>
    LET B == buffers[last.buffer]
        dispatching == last.op \in {"dispatch", "dispatch_grads"}
    IN \/ B.geometry # last.geometry
       \/ dispatching /\ B.dispatch.nvl_send # DispatchConfig(B.ranks, 64).nvl_send
       \/ ~dispatching /\ B.combine.nvl_send # CombineConfig(B.ranks, 64).nvl_send

(* An internode launch finds a reliable connection for every channel it uses:
   the count is fixed when the Buffer is made, the SM count read at each call. *)
LaunchWithinRcs ==
  \A b \in Live : Internode(buffers[b].ranks) =>
    \A L \in buffers[b].launched : L.config.num_sms <= buffers[b].rcs

(* Ring data of an earlier layer is told apart by its sequence number: a new
   dispatch's number is above every number its Buffer's rings ever carried,
   failed calls and finished layers included. *)
SeqIncreases ==
  [][\A h \in handles' : h.stage = "dispatched" /\ h \notin handles =>
       \A L \in buffers[h.buffer].launched : L.seq < h.seq]_vars

------------------------------------------------------------------------------
==============================================================================
