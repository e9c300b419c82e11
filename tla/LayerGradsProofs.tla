-------------------------- MODULE LayerGradsProofs ---------------------------
(***************************************************************************)
(* For every shape and every set of overrides: the baseline tile config is *)
(* valid, a config that validate accepts trips none of the kernels'        *)
(* assertions, and its tiles keep the backward GEMMs off the N split.      *)
(*                                                                         *)
(* For every routing, input, expert dropout seed and checkpoint level too: *)
(* CTAs stay inside their outputs and routed pairs have rows of their own; *)
(* kernel_y_bwd leaves clean zeros in the padding; and what the forward    *)
(* kernels add up to is the layer's function, in whatever order the CTAs   *)
(* finish.                                                                 *)
(***************************************************************************)
EXTENDS LayerGrads, ChannelOpsProofs

(* The halving loop ends with a divisor: 1 divides everything. *)
LEMMA Pow2DivisorDivides ==
  ASSUME NEW n \in Nat \ {0}, NEW cap \in {128, 256}
  PROVE  /\ LargestPow2Divisor(n, cap) \in Nat \ {0}
         /\ LargestPow2Divisor(n, cap) <= cap
         /\ n % LargestPow2Divisor(n, cap) = 0
<1> DEFINE Good(t) == t \in Halvings(cap) /\ n % t = 0
           Best(t) == Good(t) /\ \A u \in Halvings(cap) : n % u = 0 => u <= t
<1>1. Good(1)
  BY DEF Halvings
<1>2. \E t \in Halvings(cap) : Best(t)
  <2>1. CASE Good(256)  BY <2>1 DEF Halvings
  <2>2. CASE ~Good(256) /\ Good(128)  BY <2>2 DEF Halvings
  <2>3. CASE ~Good(256) /\ ~Good(128) /\ Good(64)  BY <2>3 DEF Halvings
  <2>4. CASE ~Good(256) /\ ~Good(128) /\ ~Good(64) /\ Good(32)  BY <2>4 DEF Halvings
  <2>5. CASE ~Good(256) /\ ~Good(128) /\ ~Good(64) /\ ~Good(32)
    <3>1. CASE Good(16)  BY <2>5, <3>1 DEF Halvings
    <3>2. CASE ~Good(16) /\ Good(8)  BY <2>5, <3>2 DEF Halvings
    <3>3. CASE ~Good(16) /\ ~Good(8) /\ Good(4)  BY <2>5, <3>3 DEF Halvings
    <3>4. CASE ~Good(16) /\ ~Good(8) /\ ~Good(4) /\ Good(2)  BY <2>5, <3>4 DEF Halvings
    <3>5. CASE ~Good(16) /\ ~Good(8) /\ ~Good(4) /\ ~Good(2)
      BY <1>1, <2>5, <3>5 DEF Halvings
    <3> QED BY <3>1, <3>2, <3>3, <3>4, <3>5
  <2> QED BY <2>1, <2>2, <2>3, <2>4, <2>5
<1>3. Best(LargestPow2Divisor(n, cap))
  BY <1>2 DEF LargestPow2Divisor
<1> QED BY <1>3 DEF Halvings

(* pick keeps the tuned default where it divides, else the largest power of
   two up to the cap: either way a divisor. *)
LEMMA PickDivides ==
  ASSUME NEW n \in Nat \ {0}, NEW cap \in {128, 256}, NEW default \in Nat \ {0}
  PROVE  /\ Pick(default, n, cap) \in Nat \ {0}
         /\ n % Pick(default, n, cap) = 0
         /\ Pick(default, n, cap) = default \/ Pick(default, n, cap) <= cap
<1>1. CASE n % default = 0
  <2>1. Pick(default, n, cap) = default  BY <1>1 DEF Pick
  <2> QED BY <1>1, <2>1
<1>2. CASE n % default # 0
  <2>1. Pick(default, n, cap) = LargestPow2Divisor(n, cap)  BY <1>2 DEF Pick
  <2>2. /\ LargestPow2Divisor(n, cap) \in Nat \ {0}
        /\ LargestPow2Divisor(n, cap) <= cap
        /\ n % LargestPow2Divisor(n, cap) = 0
    BY Pow2DivisorDivides
  <2>3. n % Pick(default, n, cap) = 0  BY <2>1, <2>2, Zenon
  <2>4. Pick(default, n, cap) \in Nat \ {0} /\ Pick(default, n, cap) <= cap
    BY <2>1, <2>2, Zenon
  <2> QED BY <2>3, <2>4
<1> QED BY <1>1, <1>2

(* kernel A's tile divides both of its widths: 2I by pick, I by the fallback. *)
LEMMA DefaultTileNADivides ==
  ASSUME NEW n \in Nat \ {0}
  PROVE  /\ DefaultTileNA(n) \in Nat \ {0}
         /\ (2 * n) % DefaultTileNA(n) = 0
         /\ n % DefaultTileNA(n) = 0
<1> DEFINE t == Pick(192, 2 * n, 256)
<1>1. t \in Nat \ {0} /\ (2 * n) % t = 0
  <2>1. PICK m \in Nat \ {0} : m = 2 * n  OBVIOUS
  <2>2. 192 \in Nat \ {0}  OBVIOUS
  <2>3. 256 \in {128, 256}  OBVIOUS
  <2>4. Pick(192, m, 256) \in Nat \ {0} /\ m % Pick(192, m, 256) = 0
    BY PickDivides
  <2> QED BY <2>1, <2>4, Zenon
<1>2. CASE n % t = 0
  <2>1. DefaultTileNA(n) = t  BY <1>2 DEF DefaultTileNA
  <2> QED BY <1>1, <1>2, <2>1
<1>3. CASE n % t # 0
  <2>1. DefaultTileNA(n) = LargestPow2Divisor(n, 256)  BY <1>3 DEF DefaultTileNA
  <2>2. PICK u \in Nat \ {0} : u = LargestPow2Divisor(n, 256) /\ n % u = 0
    BY Pow2DivisorDivides
  <2>3. (2 * n) % u = 0
    <3>1. PICK q \in Nat : n = q * u
      <4> DEFINE d == n \div u
      <4>1. d \in Nat /\ n = d * u + (n % u)  BY <2>2
      <4> QED BY <2>2, <4>1
    <3>2. 2 * n = (2 * q) * u  BY <3>1
    <3>3. \A k \in Nat : (k * u) % u = 0  OBVIOUS
    <3> QED BY <3>1, <3>2, <3>3
  <2> QED BY <2>1, <2>2, <2>3
<1> QED BY <1>2, <1>3

(* The knobs of the baseline, one by one. *)
LEMMA DefaultKnobs ==
  ASSUME NEW m \in Nat, NEW n \in Nat
  PROVE  LET d == DefaultTileConfig(m, n)
         IN  /\ d["tile_m"] = 128
             /\ d["tile_n_a"] = DefaultTileNA(m)
             /\ d["tile_n_y"] = Pick(256, n, 256)
             /\ d["tile_n_y_bwd"] = Pick(192, m, 128)
             /\ d["tile_n_a_bwd"] = Pick(256, n, 256)
             /\ d["tile_n_dW1"] = 256
             /\ d["tile_n_dW2"] = 0
             /\ d["tile_m_dW1"] = 0 /\ d["tile_m_dW2"] = 0
BY DEF DefaultTileConfig, NoOverride, Knobs, TileNs, None

(* default_tile_config never picks a config that validate refuses, whatever
   the weight shape: a caller without overrides never sees the ValueError. *)
THEOREM DefaultIsValid ==
  ASSUME NEW m \in Nat \ {0}, NEW n \in Nat \ {0}
  PROVE  Valid(DefaultTileConfig(m, n), m, n)
<1> DEFINE d == DefaultTileConfig(m, n)
<1>1. d["tile_m"] = 128  BY DefaultKnobs
<1>2. (2 * m) % d["tile_n_a"] = 0 /\ m % d["tile_n_a"] = 0
  <2>1. (2 * m) % DefaultTileNA(m) = 0 /\ m % DefaultTileNA(m) = 0
    BY DefaultTileNADivides
  <2> QED BY <2>1, DefaultKnobs
<1>3. n % d["tile_n_y"] = 0 /\ n % d["tile_n_a_bwd"] = 0
  <2>1. n % Pick(256, n, 256) = 0  BY PickDivides
  <2> QED BY <2>1, DefaultKnobs
<1>4. m % d["tile_n_y_bwd"] = 0
  <2>1. m % Pick(192, m, 128) = 0  BY PickDivides
  <2> QED BY <2>1, DefaultKnobs
<1> HIDE DEF d
<1>5. Valid(d, m, n)  BY <1>1, <1>2, <1>3, <1>4 DEF Valid, Divides
<1> QED BY <1>5 DEF d

(* kernel_y_bwd's baseline tile leaves room for its four pipeline stages:
   never above the 192 columns that fit, which a plain pick would exceed. *)
THEOREM DefaultYBwdFits ==
  ASSUME NEW m \in Nat \ {0}, NEW n \in Nat \ {0}
  PROVE  DefaultTileConfig(m, n)["tile_n_y_bwd"] \in 1 .. 192
<1>1. /\ Pick(192, m, 128) \in Nat \ {0}
      /\ Pick(192, m, 128) = 192 \/ Pick(192, m, 128) <= 128
  BY PickDivides
<1>2. DefaultTileConfig(m, n)["tile_n_y_bwd"] = Pick(192, m, 128)  BY DefaultKnobs
<1> QED BY <1>1, <1>2

(* The four output tiles of a resolved config are real widths: an override is
   not None where it counts, and the baseline picks a positive one. *)
LEMMA ResolvedTilesPositive ==
  ASSUME NEW over \in Configs, NEW m \in Nat \ {0}, NEW n \in Nat \ {0},
         NEW k \in {"tile_n_a", "tile_n_y", "tile_n_y_bwd", "tile_n_a_bwd"}
  PROVE  Resolve(over, m, n)[k] \in Nat \ {0}
<1> DEFINE d == DefaultTileConfig(m, n)
<1>1. d["tile_n_a"] \in Nat \ {0}
  <2>1. DefaultTileNA(m) \in Nat \ {0}  BY DefaultTileNADivides
  <2> QED BY <2>1, DefaultKnobs
<1>2. d["tile_n_y"] \in Nat \ {0} /\ d["tile_n_a_bwd"] \in Nat \ {0}
  <2>1. Pick(256, n, 256) \in Nat \ {0}  BY PickDivides
  <2> QED BY <2>1, DefaultKnobs
<1>3. d["tile_n_y_bwd"] \in Nat \ {0}
  <2>1. Pick(192, m, 128) \in Nat \ {0}  BY PickDivides
  <2> QED BY <2>1, DefaultKnobs
<1>4. d[k] \in Nat \ {0}  BY <1>1, <1>2, <1>3
<1>5. over[k] \in Nat /\ k \in Knobs  BY DEF Configs, Knobs, TileNs
<1> HIDE DEF d
<1>6. Overlay(d, over)[k] \in Nat \ {0}  BY <1>4, <1>5 DEF Overlay, None
<1> QED BY <1>6 DEF Resolve, d

(* Every knob of the baseline is a number, and the row tile a positive one, so
   that a resolved config is one with rows in its tiles. *)
LEMMA ResolvedConfig ==
  ASSUME NEW over \in Configs, NEW m \in Nat \ {0}, NEW n \in Nat \ {0}
  PROVE  Resolve(over, m, n) \in Configs /\ Resolve(over, m, n)["tile_m"] \in Nat \ {0}
<1>1. PICK d : d = DefaultTileConfig(m, n)  OBVIOUS
<1>2. /\ DefaultTileNA(m) \in Nat
      /\ Pick(256, n, 256) \in Nat
      /\ Pick(192, m, 128) \in Nat
  BY DefaultTileNADivides, PickDivides
<1>3. \A k \in Knobs : d[k] \in Nat
  BY <1>1, <1>2, DefaultKnobs DEF Knobs, TileNs
<1>4. d["tile_m"] = 128  BY <1>1, DefaultKnobs
<1>5. \A k \in Knobs : over[k] \in Nat  BY DEF Configs
<1>6. Overlay(d, over) \in [Knobs -> Nat]  BY <1>3, <1>5 DEF Overlay
<1>7. Overlay(d, over)["tile_m"] \in Nat \ {0}
  BY <1>4, <1>5 DEF Overlay, None, Knobs
<1> QED BY <1>1, <1>6, <1>7 DEF Resolve, Configs

(* A config that resolved and passed validate satisfies what the launch
   functions of all four kernels assert about their tile widths. *)
THEOREM AcceptedRunsEveryKernel ==
  ASSUME NEW over \in Configs, NEW m \in Nat \ {0}, NEW n \in Nat \ {0},
         Valid(Resolve(over, m, n), m, n)
  PROVE  LET c == Resolve(over, m, n)
         IN  AAccepts(c, m) /\ YAccepts(c, n) /\ YBwdAccepts(c, m) /\ ABwdAccepts(c, n)
<1> DEFINE c == Resolve(over, m, n)
<1>1. /\ c["tile_n_a"] # None /\ c["tile_n_y"] # None
      /\ c["tile_n_y_bwd"] # None /\ c["tile_n_a_bwd"] # None
  BY ResolvedTilesPositive DEF None
<1>2. Valid(c, m, n)  OBVIOUS
<1> HIDE DEF c
<1>3. AAccepts(c, m) /\ YAccepts(c, n) /\ YBwdAccepts(c, m) /\ ABwdAccepts(c, n)
  BY <1>1, <1>2 DEF Valid, Divides, AAccepts, YAccepts, YBwdAccepts, ABwdAccepts
<1> QED BY <1>3 DEF c

(* validate keeps the backward GEMMs off the tiles that split N over two MMA
   atoms, as long as the caller leaves tile_m of the dW GEMMs alone: those it
   does not look at. *)
THEOREM AcceptedAvoidsNSplit ==
  ASSUME NEW over \in Configs, NEW m \in Nat \ {0}, NEW n \in Nat \ {0},
         Valid(Resolve(over, m, n), m, n),
         over["tile_m_dW1"] = None, over["tile_m_dW2"] = None
  PROVE  \A t \in BackwardTiles(Resolve(over, m, n)) : ~NSplit(t[1], t[2])
<1> DEFINE c == Resolve(over, m, n)
<1>1. c["tile_m_dW1"] = None /\ c["tile_m_dW2"] = None
  BY DefaultKnobs DEF Resolve, Overlay, Knobs, TileNs, None
<1>2. \A k \in TileNs : c[k] \in Nat
  <2> SUFFICES ASSUME NEW k \in TileNs PROVE c[k] \in Nat  OBVIOUS
  <2>1. CASE k \in {"tile_n_a", "tile_n_y", "tile_n_y_bwd", "tile_n_a_bwd"}
    BY <2>1, ResolvedTilesPositive
  <2>2. CASE k \in {"tile_n_dW1", "tile_n_dW2"}
    <3>1. over[k] \in Nat /\ k \in Knobs  BY DEF Configs, Knobs
    <3>2. DefaultTileConfig(m, n)[k] \in Nat  BY <2>2, DefaultKnobs
    <3> QED BY <3>1, <3>2 DEF Resolve, Overlay
  <2> QED BY <2>1, <2>2 DEF TileNs
<1>3. Valid(c, m, n)  OBVIOUS
<1> HIDE DEF c
<1>4. DWTileM(c, "tile_m_dW1") = c["tile_m"] /\ DWTileM(c, "tile_m_dW2") = c["tile_m"]
  BY <1>1 DEF DWTileM
<1>5. \A knob \in {"tile_n_dW1", "tile_n_dW2"} :
        \E k \in TileNs : DWTileN(c, knob) = c[k]
  BY DEF DWTileN, TileNs
<1>6. ASSUME NEW t \in BackwardTiles(c)
      PROVE  t[1] = c["tile_m"] /\ \E k \in TileNs : t[2] = c[k]
  BY <1>4, <1>5 DEF BackwardTiles, TileNs
<1>7. \A t \in BackwardTiles(c) : ~NSplit(t[1], t[2])
  BY <1>2, <1>3, <1>6 DEF Valid, NSplit
<1> QED BY <1>7 DEF c

(***************************************************************************)
(* The layer never trips an assertion of a kernel.                         *)
(***************************************************************************)
Runnable == /\ AAccepts(cfg, I) /\ YAccepts(cfg, H)
            /\ YBwdAccepts(cfg, I) /\ ABwdAccepts(cfg, H)
IInv == /\ call \in Calls
        /\ phase # "asserted"
        /\ phase \in {"call", "raised"} \/ Runnable

(* The operation after the k-th is the first later one that runs. *)
LEMMA AfterIsNext ==
  ASSUME NEW k \in 2 .. 11, NEW tiles
  PROVE  \E q \in k + 1 .. 12 :
           /\ After(Phases[k], tiles) = Phases[q] /\ Runs(Phases[q], tiles)
           /\ \A j \in k + 1 .. 12 : Runs(Phases[j], tiles) => q <= j
<1> DEFINE later == {j \in DOMAIN Phases : j > Position(Phases[k]) /\ Runs(Phases[j], tiles)}
<1>1. DOMAIN Phases = 1 .. 12  BY DEF Phases
<1>2. Position(Phases[k]) = k
  <2>1. \A j \in DOMAIN Phases : Phases[j] = Phases[k] => j = k  BY <1>1 DEF Phases
  <2> QED BY <1>1, <2>1 DEF Position
<1>3. later = {j \in k + 1 .. 12 : Runs(Phases[j], tiles)}  BY <1>1, <1>2
<1>4. 12 \in later
  <2>1. Runs(Phases[12], tiles)  BY DEF Runs, Phases, Kernels
  <2> QED BY <1>3, <2>1
<1>5. later \in SUBSET Nat  BY <1>1
<1>6. After(Phases[k], tiles) = Phases[CHOOSE j \in later : \A i \in later : j <= i]
  BY DEF After
<1> HIDE DEF later
<1>7. PICK q : q = CHOOSE j \in later : \A i \in later : j <= i  OBVIOUS
<1>8. q \in later /\ \A i \in later : q <= i  BY <1>4, <1>5, <1>7, LeastElement
<1> QED BY <1>3, <1>6, <1>7, <1>8

(* There is a next operation until the last one, and it is one of Phases. *)
Issuing == {Phases[k] : k \in 2 .. 11}
LEMMA AfterIsPhase ==
  ASSUME NEW p \in Issuing, NEW tiles
  PROVE  After(p, tiles) \in {Phases[k] : k \in 1 .. 12}
<1>1. PICK k \in 2 .. 11 : p = Phases[k]  BY DEF Issuing
<1>2. PICK q \in k + 1 .. 12 : After(p, tiles) = Phases[q]  BY <1>1, AfterIsNext
<1> QED BY <1>2

(* Whatever comes after an operation, its launch finds the config acceptable. *)
LEMMA ProceedKeeps ==
  ASSUME IInv, Runnable, UNCHANGED <<call, cfg>>,
         NEW p \in Issuing, NEW tiles, Proceed(p, tiles)
  PROVE  IInv'
<1> DEFINE q == After(p, tiles)
<1>1. Accepts(q)  BY DEF Runnable, Accepts
<1>2. q # "asserted"
  <2>1. q \in {Phases[k] : k \in 1 .. 12}  BY AfterIsPhase
  <2>2. \A k \in 1 .. 12 : Phases[k] # "asserted"  BY DEF Phases
  <2> QED BY <2>1, <2>2
<1> HIDE DEF q
<1>3. phase' = q  BY <1>1 DEF Proceed, q
<1>4. Runnable'  BY DEF Runnable, AAccepts, YAccepts, YBwdAccepts, ABwdAccepts
<1> QED BY <1>2, <1>3, <1>4 DEF IInv

LEMMA FinishKeeps ==
  ASSUME IInv, Runnable, UNCHANGED <<call, cfg>>,
         NEW p \in Issuing, NEW cta, Finish(p, cta)
  PROVE  IInv'
<1>1. CASE todo = {cta}  BY <1>1, ProceedKeeps DEF Finish
<1>2. CASE todo # {cta}
  <2>1. UNCHANGED phase  BY <1>2 DEF Finish
  <2>2. Runnable'  BY DEF Runnable, AAccepts, YAccepts, YBwdAccepts, ABwdAccepts
  <2> QED BY <2>1, <2>2 DEF IInv
<1> QED BY <1>1, <1>2

LEMMA InitIInv == Init => IInv
BY DEF Init, IInv

(* Resolving decides: a refused config raises, an accepted one runs. *)
LEMMA ResolveKeeps == IInv /\ ResolveTiles => IInv'
<1> SUFFICES ASSUME IInv, ResolveTiles PROVE IInv'  OBVIOUS
<1> DEFINE c == Resolve(call.over, I, H)
<1>1. call' = call /\ call \in Calls /\ call.over \in Configs
  BY OverridesAssumption DEF IInv, ResolveTiles, Calls
<1>2. CASE Valid(c, I, H)
  <2>1. cfg' = c /\ phase' = "dispatch"  BY <1>2 DEF ResolveTiles
  <2>2. AAccepts(c, I) /\ YAccepts(c, H) /\ YBwdAccepts(c, I) /\ ABwdAccepts(c, H)
    BY <1>1, <1>2, AcceptedRunsEveryKernel, ShapeAssumption
  <2> HIDE DEF c
  <2>3. Runnable'  BY <2>1, <2>2 DEF Runnable, AAccepts, YAccepts, YBwdAccepts, ABwdAccepts
  <2> QED BY <1>1, <2>1, <2>3 DEF IInv
<1>3. CASE ~Valid(c, I, H)
  BY <1>1, <1>3 DEF ResolveTiles, IInv
<1> QED BY <1>2, <1>3

LEMMA StepKeeps == IInv /\ [Next]_vars => IInv'
<1> SUFFICES ASSUME IInv, [Next]_vars PROVE IInv'  OBVIOUS
<1>1. CASE ResolveTiles  BY <1>1, ResolveKeeps
<1>2. CASE \/ Dispatch \/ Compress \/ DispatchGrads \/ Reexpand \/ Recompute \/ WeightGrads
  <2>1. Runnable /\ UNCHANGED <<call, cfg>>
    BY <1>2 DEF IInv, Dispatch, Compress, DispatchGrads, Reexpand, Recompute, WeightGrads
  <2>2. \E p \in Issuing, tiles \in {handle.total_tiles, handle'.total_tiles} : Proceed(p, tiles)
    <3>1. {"dispatch", "compress", "dispatch_grads", "reexpand", "recompute", "dW"} \subseteq Issuing
      BY DEF Issuing, Phases
    <3> QED BY <1>2, <3>1
          DEF Dispatch, Compress, DispatchGrads, Reexpand, Recompute, WeightGrads
  <2> QED BY <2>1, <2>2, ProceedKeeps
<1>3. CASE \E cta \in todo : KernelA(cta) \/ KernelY(cta) \/ KernelYBwd(cta) \/ KernelABwd(cta)
  <2>1. PICK cta \in todo : KernelA(cta) \/ KernelY(cta) \/ KernelYBwd(cta) \/ KernelABwd(cta)
    BY <1>3
  <2>2. Runnable /\ UNCHANGED <<call, cfg>>
    BY <2>1 DEF IInv, KernelA, KernelY, KernelYBwd, KernelABwd
  <2>3. \E p \in Issuing : Finish(p, cta)
    <3>1. Kernels \subseteq Issuing  BY DEF Issuing, Phases, Kernels
    <3> QED BY <2>1, <3>1 DEF KernelA, KernelY, KernelYBwd, KernelABwd, Kernels
  <2> QED BY <2>2, <2>3, FinishKeeps
<1>4. CASE UNCHANGED vars
  BY <1>4 DEF vars, IInv, Runnable, AAccepts, YAccepts, YBwdAccepts, ABwdAccepts
<1> QED BY <1>1, <1>2, <1>3, <1>4 DEF Next

(* No call that validate lets through ends in an assertion of a kernel's
   launch, for any shape, overrides, routing and checkpoint level. *)
THEOREM NeverAsserts == Spec => []NoKernelAsserts
<1>1. IInv => NoKernelAsserts  BY DEF IInv, NoKernelAsserts
<1> QED BY InitIInv, StepKeeps, <1>1, PTL DEF Spec

-----------------------------------------------------------------------------
(***************************************************************************)
(* The pool: every routed pair has a row of its own, in a tile of its expert.*)
(***************************************************************************)
LEMMA FrequencyType ==
  ASSUME NEW routing \in Seq(SUBSET Experts), NEW e
  PROVE  /\ IsFiniteSet({t \in Tokens(routing) : e \in routing[t]})
         /\ Frequency(routing, e) \in Nat
         /\ Tokens(routing) = 1 .. Len(routing) /\ Len(routing) \in Nat
<1>1. Tokens(routing) = 1 .. Len(routing) /\ Len(routing) \in Nat  BY DEF Tokens
<1>2. IsFiniteSet(Tokens(routing))  BY <1>1, FS_Interval
<1>3. {t \in Tokens(routing) : e \in routing[t]} \in SUBSET Tokens(routing)  OBVIOUS
<1>4. IsFiniteSet({t \in Tokens(routing) : e \in routing[t]})  BY <1>2, <1>3, FS_Subset
<1> QED BY <1>1, <1>4, FS_CardinalityType DEF Frequency

(* Experts own consecutive blocks of whole tiles, which hold their tokens. *)
LEMMA Blocks ==
  ASSUME NEW routing \in Seq(SUBSET Experts), NEW m \in Nat \ {0}
  PROVE  /\ BlockOffset(routing, 0, m) = 0
         /\ \A e \in 0 .. NumExperts : BlockOffset(routing, e, m) \in Nat
         /\ \A e \in Experts :
              /\ BlockOffset(routing, e + 1, m) = BlockOffset(routing, e, m) + TilesOf(routing, e, m)
              /\ TilesOf(routing, e, m) \in Nat
              /\ Frequency(routing, e) <= TilesOf(routing, e, m) * m
         /\ \A d, e \in 0 .. NumExperts :
              d <= e => BlockOffset(routing, d, m) <= BlockOffset(routing, e, m)
<1>1. PICK F : F = [e \in Experts |-> TilesOf(routing, e, m)]  OBVIOUS
<1>2. ASSUME NEW e PROVE /\ TilesOf(routing, e, m) \in Nat
                         /\ Frequency(routing, e) <= TilesOf(routing, e, m) * m
  BY FrequencyType, CeilBounds DEF TilesOf
<1>3. NumExperts \in Nat  BY RoutingsAssumption
<1>4. \A d \in 0 .. NumExperts - 1 : F[d] \in Nat /\ F[d] = TilesOf(routing, d, m)
  BY <1>1, <1>2 DEF Experts
<1>5. ASSUME NEW e \in 0 .. NumExperts PROVE BlockOffset(routing, e, m) = Prefix(F, e)
  <2>1. [d \in 0 .. e - 1 |-> F[d]] = [d \in 0 .. e - 1 |-> TilesOf(routing, d, m)]
    BY <1>3, <1>4
  <2> QED BY <2>1 DEF BlockOffset, Prefix
<1>6. /\ Prefix(F, 0) = 0
      /\ \A n \in 0 .. NumExperts : Prefix(F, n) \in Nat
      /\ \A n \in 0 .. NumExperts - 1 : Prefix(F, n + 1) = Prefix(F, n) + F[n]
      /\ \A a, b \in 0 .. NumExperts : a <= b => Prefix(F, a) <= Prefix(F, b)
  BY <1>3, <1>4, PrefixSums
<1>7. \A e \in Experts : e \in 0 .. NumExperts - 1 /\ e \in 0 .. NumExperts /\ e + 1 \in 0 .. NumExperts
  BY <1>3 DEF Experts
<1>8. ASSUME NEW e \in Experts
      PROVE  BlockOffset(routing, e + 1, m) = BlockOffset(routing, e, m) + TilesOf(routing, e, m)
  BY <1>4, <1>5, <1>6, <1>7
<1>9. 0 \in 0 .. NumExperts  BY <1>3
<1>10. \A e \in 0 .. NumExperts : BlockOffset(routing, e, m) = Prefix(F, e)  BY <1>5
<1>11. BlockOffset(routing, 0, m) = 0  BY <1>6, <1>9, <1>10
<1>12. \A e \in 0 .. NumExperts : BlockOffset(routing, e, m) \in Nat  BY <1>6, <1>10
<1>13. \A d, e \in 0 .. NumExperts :
         d <= e => BlockOffset(routing, d, m) <= BlockOffset(routing, e, m)
  BY <1>6, <1>10
<1> QED BY <1>2, <1>8, <1>11, <1>12, <1>13

(* What the rest of the proof uses of a layout: rows in whole tiles, and a row
   without a token of weight zero. *)
LEMMA LayoutRows ==
  ASSUME NEW routing \in Seq(SUBSET Experts), NEW m \in Nat \ {0}
  PROVE  LET h == Layout(routing, m)
         IN  /\ h.total_tiles \in Nat /\ h.total_tiles * m \in Nat
             /\ DOMAIN h.pool_recv_token = 0 .. h.total_tiles * m - 1
             /\ \A row \in DOMAIN h.pool_recv_token :
                  /\ h.pool_recv_token[row] \in Tokens(routing) \cup {-1}
                  /\ h.pool_recv_token[row] < 0 => h.pool_topk_weight[row] = 0
<1>1. PICK h : h = Layout(routing, m)  OBVIOUS
<1>2. h.total_tiles = BlockOffset(routing, NumExperts, m)  BY <1>1 DEF Layout
<1>3. h.total_tiles \in Nat
  <2>1. NumExperts \in 0 .. NumExperts  BY RoutingsAssumption
  <2> QED BY <1>2, <2>1, Blocks
<1>4. h.total_tiles * m \in Nat  BY <1>3, Products
<1>5. DOMAIN h.pool_recv_token = 0 .. h.total_tiles * m - 1  BY <1>1 DEF Layout
<1>6. ASSUME NEW row \in DOMAIN h.pool_recv_token
      PROVE  /\ h.pool_recv_token[row] \in Tokens(routing) \cup {-1}
             /\ h.pool_recv_token[row] < 0 => h.pool_topk_weight[row] = 0
  <2>1. PICK P : P = {te \in Tokens(routing) \X Experts : te[2] \in routing[te[1]]}  OBVIOUS
  <2>2. PICK slots : slots = [te \in P |-> Slot(routing, te[1], te[2], m)]  OBVIOUS
  <2>3. PICK owner : owner = CHOOSE te \in P : slots[te] = row  OBVIOUS
  <2>4. /\ h.pool_recv_token[row] = IF \E te \in P : slots[te] = row THEN owner[1] ELSE -1
        /\ h.pool_topk_weight[row] = IF \E te \in P : slots[te] = row
                                     THEN topk_weight[owner[1]][owner[2]] ELSE 0
    <3>1. DOMAIN slots = P  BY <2>2
    <3> QED BY <1>1, <1>6, <2>1, <2>2, <2>3, <3>1 DEF Layout
  <2>5. CASE \E te \in P : slots[te] = row
    <3>0. PICK n \in Nat : Tokens(routing) = 1 .. n  BY FrequencyType
    <3>1. owner \in P  BY <2>3, <2>5
    <3>2. owner[1] \in Tokens(routing)  BY <2>1, <3>1
    <3>3. owner[1] \in Nat /\ owner[1] >= 1  BY <3>0, <3>2
    <3>4. h.pool_recv_token[row] = owner[1]  BY <2>4, <2>5
    <3>5. ~(owner[1] < 0)  BY <3>3
    <3> QED BY <3>2, <3>4, <3>5
  <2>6. CASE ~\E te \in P : slots[te] = row
    BY <2>4, <2>6
  <2> QED BY <2>5, <2>6
<1> QED BY <1>1, <1>3, <1>4, <1>5, <1>6

(* The CTAs of a kernel cover its output: every row is in a tile, every column
   in a stripe. *)
LEMMA CtasCover ==
  ASSUME NEW p \in Kernels, NEW tiles \in Nat, TileN(p) \in Nat \ {0}, Width(p) \in Nat,
         cfg["tile_m"] \in Nat \ {0},
         NEW row \in 0 .. tiles * cfg["tile_m"] - 1, NEW col \in 0 .. Width(p) - 1
  PROVE  \E cta \in Ctas(p, tiles) : row \in TileRows(cta[1]) /\ col \in Stripe(p, cta[2])
<1>1. PICK m \in Nat \ {0} : m = cfg["tile_m"]  OBVIOUS
<1>2. PICK n \in Nat \ {0} : n = TileN(p)  OBVIOUS
<1>3. PICK w \in Nat : w = Width(p)  OBVIOUS
<1>4. PICK k \in 0 .. tiles - 1 : row \in k * m .. (k + 1) * m - 1
  <2>1. row \in Nat /\ row < tiles * m  BY <1>1, Products
  <2> QED BY <2>1, InShare
<1>5. PICK c \in Nat : c = CeilDiv(w, n) /\ w <= c * n /\ c * n \in Nat  BY CeilBounds
<1>6. PICK j \in 0 .. c - 1 : col \in j * n .. (j + 1) * n - 1
  <2>1. col \in Nat /\ col < c * n  BY <1>3, <1>5
  <2> QED BY <2>1, InShare
<1>7. <<k, j>> \in Ctas(p, tiles)  BY <1>2, <1>3, <1>4, <1>5, <1>6 DEF Ctas
<1>8. row \in TileRows(k) /\ col \in Stripe(p, j)
  BY <1>1, <1>2, <1>4, <1>6 DEF TileRows, Stripe
<1> QED BY <1>7, <1>8

(* The routed pairs, and how many tokens of the expert arrive before one. *)
Pairs(routing) == {te \in Tokens(routing) \X Experts : te[2] \in routing[te[1]]}
Earlier(routing, t, e) == {u \in Tokens(routing) : u < t /\ e \in routing[u]}
Rank(routing, t, e) == Cardinality(Earlier(routing, t, e))

(* The rank of a token among those of an expert. *)
LEMMA Ranks ==
  ASSUME NEW routing \in Seq(SUBSET Experts), NEW e, NEW t \in Tokens(routing), e \in routing[t]
  PROVE  /\ Rank(routing, t, e) \in Nat
         /\ Rank(routing, t, e) < Frequency(routing, e)
         /\ \A v \in Tokens(routing) : t < v => Rank(routing, t, e) < Rank(routing, v, e)
<1>1. PICK n \in Nat : Tokens(routing) = 1 .. n  BY FrequencyType
<1>2. PICK All : All = {u \in Tokens(routing) : e \in routing[u]} /\ IsFiniteSet(All)
  BY FrequencyType
<1>3. ASSUME NEW v PROVE Earlier(routing, v, e) \in SUBSET All
  BY <1>2 DEF Earlier
<1>4. ASSUME NEW v PROVE IsFiniteSet(Earlier(routing, v, e)) /\ Rank(routing, v, e) \in Nat
  BY <1>2, <1>3, FS_Subset, FS_CardinalityType DEF Rank
<1>5. t \notin Earlier(routing, t, e) /\ t \in All  BY <1>1, <1>2 DEF Earlier
<1>6. Frequency(routing, e) = Cardinality(All)  BY <1>2 DEF Frequency
<1>7. Rank(routing, t, e) < Frequency(routing, e)
  <2>1. Earlier(routing, t, e) # All  BY <1>5
  <2>2. PICK A, B : A = Earlier(routing, t, e) /\ B = All  OBVIOUS
  <2>3. A \in SUBSET B /\ A # B  BY <1>3, <2>1, <2>2
  <2>4. IsFiniteSet(B)  BY <1>2, <2>2
  <2>5. Cardinality(A) < Cardinality(B)  BY <2>3, <2>4, FS_Subset, FS_CardinalityType
  <2> QED BY <1>6, <2>2, <2>5 DEF Rank
<1>8. ASSUME NEW v \in Tokens(routing), t < v PROVE Rank(routing, t, e) < Rank(routing, v, e)
  <2>1. PICK A, B : A = Earlier(routing, t, e) /\ B = Earlier(routing, v, e)  OBVIOUS
  <2>2. A \in SUBSET B /\ t \in B /\ t \notin A
    BY <1>1, <1>5, <1>8, <2>1 DEF Earlier
  <2>3. IsFiniteSet(B)  BY <1>4, <2>1
  <2>4. A # B  BY <2>2
  <2>5. Cardinality(A) < Cardinality(B)  BY <2>2, <2>3, <2>4, FS_Subset, FS_CardinalityType
  <2> QED BY <2>1, <2>5 DEF Rank
<1> QED BY <1>4, <1>7, <1>8

(* The rows of an expert's block. *)
Block(routing, e, m) ==
  BlockOffset(routing, e, m) * m .. BlockOffset(routing, e + 1, m) * m - 1

(* The blocks of two experts share no row, and lie in the pool. *)
LEMMA BlocksApart ==
  ASSUME NEW routing \in Seq(SUBSET Experts), NEW m \in Nat \ {0},
         NEW d \in Experts, NEW e \in Experts, NEW row \in Block(routing, d, m)
  PROVE  /\ row \in Block(routing, e, m) => d = e
         /\ row \in 0 .. BlockOffset(routing, NumExperts, m) * m - 1
<1>1. NumExperts \in Nat  BY RoutingsAssumption
<1>2. ASSUME NEW a \in 0 .. NumExperts, NEW b \in 0 .. NumExperts, a <= b
      PROVE  /\ BlockOffset(routing, a, m) * m \in Nat
             /\ BlockOffset(routing, a, m) * m <= BlockOffset(routing, b, m) * m
  <2>1. PICK p, q : p = BlockOffset(routing, a, m) /\ q = BlockOffset(routing, b, m)  OBVIOUS
  <2>2. p \in Nat /\ q \in Nat /\ p <= q  BY <1>2, <2>1, Blocks
  <2>3. p * m \in Nat /\ p * m <= q * m  BY <2>2, Products
  <2> QED BY <2>1, <2>3
<1>3. /\ d \in 0 .. NumExperts /\ d + 1 \in 0 .. NumExperts /\ e \in 0 .. NumExperts
      /\ e + 1 \in 0 .. NumExperts /\ NumExperts \in 0 .. NumExperts
  BY <1>1 DEF Experts
<1>4. /\ BlockOffset(routing, d, m) * m \in Nat /\ BlockOffset(routing, d + 1, m) * m \in Nat
      /\ BlockOffset(routing, e, m) * m \in Nat /\ BlockOffset(routing, e + 1, m) * m \in Nat
      /\ BlockOffset(routing, NumExperts, m) * m \in Nat
  <2>1. ASSUME NEW a \in 0 .. NumExperts PROVE BlockOffset(routing, a, m) * m \in Nat
    <3>1. a <= a  OBVIOUS
    <3> QED BY <1>2, <3>1
  <2> QED BY <1>3, <2>1
<1>5. row \in Nat /\ BlockOffset(routing, d, m) * m <= row
      /\ row < BlockOffset(routing, d + 1, m) * m
  BY <1>4 DEF Block
<1>6. row < BlockOffset(routing, NumExperts, m) * m
  <2>1. d + 1 <= NumExperts  BY <1>1 DEF Experts
  <2>2. BlockOffset(routing, d + 1, m) * m <= BlockOffset(routing, NumExperts, m) * m
    BY <1>2, <1>3, <2>1
  <2> QED BY <1>4, <1>5, <2>2
<1>7. ASSUME row \in Block(routing, e, m) PROVE d = e
  <2>1. BlockOffset(routing, e, m) * m <= row /\ row < BlockOffset(routing, e + 1, m) * m
    BY <1>4, <1>7 DEF Block
  <2>2. CASE d < e
    <3>1. d + 1 <= e  BY <1>1, <1>3, <2>2
    <3>2. BlockOffset(routing, d + 1, m) * m <= BlockOffset(routing, e, m) * m
      BY <1>2, <1>3, <3>1
    <3> QED BY <1>4, <1>5, <2>1, <3>2
  <2>3. CASE e < d
    <3>1. e + 1 <= d  BY <1>1, <1>3, <2>3
    <3>2. BlockOffset(routing, e + 1, m) * m <= BlockOffset(routing, d, m) * m
      BY <1>2, <1>3, <3>1
    <3> QED BY <1>4, <1>5, <2>1, <3>2
  <2> QED BY <1>1, <1>3, <2>2, <2>3
<1> QED BY <1>4, <1>5, <1>6, <1>7

(* The slot of a routed pair lies in the block of its expert, and no two pairs
   share one. *)
LEMMA Slots ==
  ASSUME NEW routing \in Seq(SUBSET Experts), NEW m \in Nat \ {0}
  PROVE  /\ \A te \in Pairs(routing) : Slot(routing, te[1], te[2], m) \in Block(routing, te[2], m)
         /\ \A te, ue \in Pairs(routing) :
              Slot(routing, te[1], te[2], m) = Slot(routing, ue[1], ue[2], m) => te = ue
<1>1. PICK n \in Nat : Tokens(routing) = 1 .. n  BY FrequencyType
<1>2. ASSUME NEW te \in Pairs(routing)
      PROVE  /\ te[1] \in Tokens(routing) /\ te[2] \in Experts /\ te[2] \in routing[te[1]]
             /\ te = <<te[1], te[2]>>
  BY DEF Pairs
<1>3. ASSUME NEW e \in Experts PROVE BlockOffset(routing, e, m) * m \in Nat
  <2>1. e \in 0 .. NumExperts  BY RoutingsAssumption DEF Experts
  <2>2. PICK p \in Nat : p = BlockOffset(routing, e, m)  BY <2>1, Blocks
  <2> QED BY <2>2, Products
<1>4. ASSUME NEW t, NEW e
      PROVE  Slot(routing, t, e, m) = BlockOffset(routing, e, m) * m + Rank(routing, t, e)
  BY DEF Slot, Rank, Earlier
<1>5. ASSUME NEW te \in Pairs(routing)
      PROVE  Slot(routing, te[1], te[2], m) \in Block(routing, te[2], m)
  <2>1. PICK t \in Tokens(routing), e \in Experts : te[1] = t /\ te[2] = e /\ e \in routing[t]
    BY <1>2
  <2>2. PICK p \in Nat, q \in Nat, k \in Nat :
          /\ p = BlockOffset(routing, e, m) /\ k = TilesOf(routing, e, m)
          /\ q = BlockOffset(routing, e + 1, m) /\ q = p + k
          /\ Frequency(routing, e) <= k * m
    <3>1. e \in 0 .. NumExperts  BY RoutingsAssumption DEF Experts
    <3>2. e + 1 \in 0 .. NumExperts  BY RoutingsAssumption DEF Experts
    <3>3. BlockOffset(routing, e, m) \in Nat /\ BlockOffset(routing, e + 1, m) \in Nat
      BY <3>1, <3>2, Blocks
    <3>4. /\ BlockOffset(routing, e + 1, m) = BlockOffset(routing, e, m) + TilesOf(routing, e, m)
          /\ TilesOf(routing, e, m) \in Nat
          /\ Frequency(routing, e) <= TilesOf(routing, e, m) * m
      BY Blocks
    <3> QED BY <3>3, <3>4
  <2>3. PICK r \in Nat, f \in Nat : r = Rank(routing, t, e) /\ f = Frequency(routing, e) /\ r < f
    BY <2>1, Ranks, FrequencyType
  <2>4. PICK pm \in Nat, qm \in Nat, km \in Nat :
          pm = p * m /\ qm = q * m /\ km = k * m /\ qm = pm + km
    <3>1. p * m \in Nat /\ q * m \in Nat /\ k * m \in Nat  BY Products
    <3>2. (p + k) * m = p * m + k * m  BY Products
    <3> QED BY <2>2, <3>1, <3>2
  <2>5. p * m + r \in p * m .. q * m - 1
    <3>1. r < km  BY <2>2, <2>3, <2>4
    <3>2. pm + r \in pm .. qm - 1  BY <2>4, <3>1
    <3> QED BY <2>4, <3>2
  <2>6. Slot(routing, t, e, m) = p * m + r  BY <1>4, <2>2, <2>3
  <2> QED BY <2>1, <2>2, <2>5, <2>6 DEF Block
<1>6. ASSUME NEW te \in Pairs(routing), NEW ue \in Pairs(routing),
             Slot(routing, te[1], te[2], m) = Slot(routing, ue[1], ue[2], m)
      PROVE  te = ue
  <2>1. PICK t \in Tokens(routing), e \in Experts : te = <<t, e>> /\ e \in routing[t]
    BY <1>2
  <2>2. PICK u \in Tokens(routing), d \in Experts : ue = <<u, d>> /\ d \in routing[u]
    BY <1>2
  <2>3. e = d
    <3>1. Slot(routing, t, e, m) \in Block(routing, e, m)  BY <1>5, <2>1
    <3>2. Slot(routing, u, d, m) \in Block(routing, d, m)  BY <1>5, <2>2
    <3>3. Slot(routing, t, e, m) = Slot(routing, u, d, m)  BY <1>6, <2>1, <2>2
    <3> QED BY <3>1, <3>2, <3>3, BlocksApart
  <2>4. Rank(routing, t, e) = Rank(routing, u, e)
    <3>1. PICK b \in Nat : b = BlockOffset(routing, e, m) * m  BY <1>3
    <3>2. PICK r \in Nat, s \in Nat : r = Rank(routing, t, e) /\ s = Rank(routing, u, e)
      BY <2>1, <2>2, <2>3, Ranks
    <3>3. Slot(routing, t, e, m) = b + r /\ Slot(routing, u, e, m) = b + s
      BY <1>4, <3>1, <3>2
    <3>4. Slot(routing, t, e, m) = Slot(routing, u, e, m)  BY <1>6, <2>1, <2>2, <2>3
    <3> QED BY <3>2, <3>3, <3>4
  <2>5. /\ Rank(routing, t, e) \in Nat
        /\ t < u => Rank(routing, t, e) < Rank(routing, u, e)
        /\ u < t => Rank(routing, u, e) < Rank(routing, t, e)
    BY <2>1, <2>2, <2>3, Ranks
  <2>6. t = u  BY <1>1, <2>4, <2>5
  <2> QED BY <2>1, <2>2, <2>3, <2>6
<1> QED BY <1>5, <1>6

(* What every routed pair finds in the handle: a row of its own in a tile of
   its expert, which holds its token and its weight; the other rows are
   padding. *)
LEMMA LayoutSlots ==
  ASSUME NEW routing \in Seq(SUBSET Experts), NEW m \in Nat \ {0},
         NEW h, h = Layout(routing, m)
  PROVE  /\ h.recv_token_to_slots = [te \in Pairs(routing) |-> Slot(routing, te[1], te[2], m)]
         /\ \A te \in Pairs(routing) :
              LET row == h.recv_token_to_slots[te]
              IN  /\ row \in DOMAIN h.pool_recv_token
                  /\ h.pool_recv_token[row] = te[1]
                  /\ h.pool_topk_weight[row] = topk_weight[te[1]][te[2]]
                  /\ \A e \in Experts :
                       row \in h.block_offset[e] * m .. h.block_offset[e + 1] * m - 1 <=> e = te[2]
<1>1. h.recv_token_to_slots = [te \in Pairs(routing) |-> Slot(routing, te[1], te[2], m)]
  BY DEF Layout, Pairs
<1>2. PICK P : P = Pairs(routing)  OBVIOUS
<1>3. PICK slots : slots = h.recv_token_to_slots  OBVIOUS
<1>4. DOMAIN slots = P /\ \A te \in P : slots[te] = Slot(routing, te[1], te[2], m)
  BY <1>1, <1>2, <1>3
<1>5. /\ DOMAIN h.pool_recv_token = 0 .. BlockOffset(routing, NumExperts, m) * m - 1
      /\ \A row \in DOMAIN h.pool_recv_token :
           /\ h.pool_recv_token[row] =
                IF \E te \in P : slots[te] = row THEN (CHOOSE te \in P : slots[te] = row)[1] ELSE -1
           /\ h.pool_topk_weight[row] =
                IF \E te \in P : slots[te] = row
                THEN topk_weight[(CHOOSE te \in P : slots[te] = row)[1]]
                                [(CHOOSE te \in P : slots[te] = row)[2]] ELSE 0
  <2>1. slots = [te \in {te \in Tokens(routing) \X Experts : te[2] \in routing[te[1]]} |->
                   Slot(routing, te[1], te[2], m)]
    BY <1>1, <1>3 DEF Pairs
  <2>2. P = {te \in Tokens(routing) \X Experts : te[2] \in routing[te[1]]}
    BY <1>2 DEF Pairs
  <2> QED BY <1>4, <2>1, <2>2 DEF Layout
<1>6. \A e \in 0 .. NumExperts : h.block_offset[e] = BlockOffset(routing, e, m)
  BY DEF Layout
<1>7. ASSUME NEW te \in P
      PROVE  /\ slots[te] \in DOMAIN h.pool_recv_token
             /\ h.pool_recv_token[slots[te]] = te[1]
             /\ h.pool_topk_weight[slots[te]] = topk_weight[te[1]][te[2]]
             /\ \A e \in Experts :
                  slots[te] \in h.block_offset[e] * m .. h.block_offset[e + 1] * m - 1 <=> e = te[2]
  <2>1. PICK row : row = slots[te]  OBVIOUS
  <2>2. te[2] \in Experts  BY <1>2 DEF Pairs
  <2>3. row \in Block(routing, te[2], m)  BY <1>2, <1>4, <2>1, Slots
  <2>4. row \in DOMAIN h.pool_recv_token  BY <1>5, <2>2, <2>3, BlocksApart
  <2>5. (CHOOSE ue \in P : slots[ue] = row) = te
    <3>1. \A ue \in P : slots[ue] = row => ue = te  BY <1>2, <1>4, <2>1, Slots
    <3> QED BY <2>1, <3>1
  <2>6. h.pool_recv_token[row] = te[1] /\ h.pool_topk_weight[row] = topk_weight[te[1]][te[2]]
    BY <1>5, <2>1, <2>4, <2>5
  <2>7. ASSUME NEW e \in Experts
        PROVE  row \in h.block_offset[e] * m .. h.block_offset[e + 1] * m - 1 <=> e = te[2]
    <3>1. e \in 0 .. NumExperts /\ e + 1 \in 0 .. NumExperts
      BY RoutingsAssumption DEF Experts
    <3>2. Block(routing, e, m) = h.block_offset[e] * m .. h.block_offset[e + 1] * m - 1
      BY <1>6, <3>1 DEF Block
    <3> QED BY <2>2, <2>3, <3>2, BlocksApart
  <2> QED BY <2>1, <2>4, <2>6, <2>7
<1> QED BY <1>1, <1>2, <1>3, <1>7

(* Every routed pair has a slot. *)
LEMMA SlotsDomain ==
  ASSUME NEW routing \in Seq(SUBSET Experts), NEW m \in Nat \ {0},
         NEW h, h = Layout(routing, m)
  PROVE  DOMAIN h.recv_token_to_slots = Pairs(routing)
<1>1. PICK P : P = Pairs(routing)  OBVIOUS
<1>2. PICK slots : slots = [te \in P |-> Slot(routing, te[1], te[2], m)]  OBVIOUS
<1>3. DOMAIN slots = P /\ h.recv_token_to_slots = slots  BY <1>1, <1>2 DEF Layout, Pairs
<1> QED BY <1>1, <1>3

(* A row is padding, marked -1, or the slot of a routed pair. *)
Owned(h, row) ==
  \E te \in DOMAIN h.recv_token_to_slots : h.recv_token_to_slots[te] = row
(* No row of the layout is anything else. *)
LEMMA RowIsOwned ==
  ASSUME NEW routing \in Seq(SUBSET Experts), NEW m \in Nat \ {0},
         NEW h, h = Layout(routing, m), NEW row \in DOMAIN h.pool_recv_token
  PROVE  h.pool_recv_token[row] = -1 \/ Owned(h, row)
<1>1. PICK P : P = Pairs(routing)  OBVIOUS
<1>2. PICK slots : slots = [te \in P |-> Slot(routing, te[1], te[2], m)]  OBVIOUS
<1>3. DOMAIN slots = P /\ h.recv_token_to_slots = slots  BY <1>1, <1>2 DEF Layout, Pairs
<1>4. P = {te \in Tokens(routing) \X Experts : te[2] \in routing[te[1]]}  BY <1>1 DEF Pairs
<1>5. h.pool_recv_token[row] =
        IF \E te \in P : slots[te] = row THEN (CHOOSE te \in P : slots[te] = row)[1] ELSE -1
  BY <1>2, <1>3, <1>4 DEF Layout
<1> QED BY <1>1, <1>3, <1>5 DEF Owned

-----------------------------------------------------------------------------
(***************************************************************************)
(* The sums of the kernels: sums of integers once no term is NaN.          *)
(***************************************************************************)
(* The value the fold of SumOver computes, subset by subset. *)
FoldedOver(f, S, h) ==
  h = [s \in SUBSET S |->
         IF s = {} THEN 0
         ELSE Plus(f[CHOOSE d \in s : TRUE], h[s \ {CHOOSE d \in s : TRUE}])]

(* The sum of an accumulator is that fold. *)
LEMMA FoldOfSumOver ==
  ASSUME NEW f
  PROVE  SumOver(f) = (CHOOSE h : FoldedOver(f, DOMAIN f, h))[DOMAIN f]
BY Zenon DEF SumOver, FoldFunction, FoldFunctionOnSet, MapThenFoldSet, FoldedOver

(* Integers add and multiply as such: no NaN comes of them. *)
LEMMA PlusOfInts ==
  ASSUME NEW a \in Int, NEW b \in Int
  PROVE  Plus(a, b) = a + b /\ Times(a, b) = a * b /\ Plus(a, b) \in Int /\ Times(a, b) \in Int
BY NaNAssumption DEF Plus, Times

(* The sum of a kernel's accumulator is that sum of integers once none of its
   terms is NaN. *)
LEMMA SumIsNet ==
  ASSUME NEW f, Summable(f)
  PROVE  SumOver(f) = Net(f, DOMAIN f) /\ SumOver(f) \in Int
<1>1. PICK S : S = DOMAIN f
  OBVIOUS
<1>2. PICK g : g = [s \in SUBSET S |-> Net(f, s)]
  OBVIOUS
<1>3. g[{}] = 0
  BY <1>2, NetOfNone
<1>4. ASSUME NEW s \in SUBSET S, NEW y \in s
      PROVE  /\ f[y] \in Int /\ g[s \ {y}] \in Int
             /\ g[s] = f[y] + g[s \ {y}]
  <2>1. s = {y} \cup (s \ {y}) /\ {y} \cap (s \ {y}) = {} /\ y \in S
    OBVIOUS
  <2>2. {y} \in SUBSET DOMAIN f /\ s \ {y} \in SUBSET DOMAIN f
    BY <1>1, <2>1
  <2>3. /\ Net(f, s \ {y}) \in Int
        /\ Net(f, {y} \cup (s \ {y})) = Net(f, {y}) + Net(f, s \ {y})
    BY <2>1, <2>2, NetAdds
  <2>4. Net(f, {y}) = f[y]
    BY <1>1, <2>1, NetOfOne
  <2>5. f[y] \in Int
    BY <1>1, <2>1 DEF Summable
  <2>6. g[s] = Net(f, s) /\ g[s \ {y}] = Net(f, s \ {y})
    BY <1>1, <1>2, <2>2
  <2>7. Net(f, s) = Net(f, {y}) + Net(f, s \ {y})
    BY <2>1, <2>3
  <2> QED BY <2>3, <2>4, <2>5, <2>6, <2>7
<1>5. FoldedOver(f, S, g)
  <2>1. ASSUME NEW s \in SUBSET S
        PROVE  g[s] = IF s = {} THEN 0
                      ELSE Plus(f[CHOOSE d \in s : TRUE], g[s \ {CHOOSE d \in s : TRUE}])
    <3>1. CASE s = {}
      BY <1>3, <3>1
    <3>2. CASE s # {}
      <4>1. PICK y : y = (CHOOSE d \in s : TRUE) /\ y \in s
        BY <3>2
      <4>2. g[s] = Plus(f[y], g[s \ {y}])
        BY <1>4, <4>1, PlusOfInts
      <4> QED BY <3>2, <4>1, <4>2
    <3> QED BY <3>1, <3>2
  <2>2. g = [s \in SUBSET S |-> g[s]]
    BY <1>2
  <2> QED BY <2>1, <2>2 DEF FoldedOver
<1>6. PICK h : h = CHOOSE k : FoldedOver(f, S, k)
  OBVIOUS
<1>7. FoldedOver(f, S, h)
  BY <1>5, <1>6
<1>8. /\ h[{}] = 0
      /\ \A s \in SUBSET S : s # {} =>
           h[s] = Plus(f[CHOOSE d \in s : TRUE], h[s \ {CHOOSE d \in s : TRUE}])
  BY <1>7 DEF FoldedOver
<1>9. ASSUME NEW s \in SUBSET S, s # {},
             h[s \ {CHOOSE d \in s : TRUE}] = g[s \ {CHOOSE d \in s : TRUE}]
      PROVE  h[s] = g[s]
  <2>1. PICK y : y = (CHOOSE d \in s : TRUE) /\ y \in s
    BY <1>9
  <2>2. f[y] \in Int /\ g[s \ {y}] \in Int /\ g[s] = f[y] + g[s \ {y}]
    BY <1>4, <2>1
  <2>3. h[s] = Plus(f[y], h[s \ {y}]) /\ h[s \ {y}] = g[s \ {y}]
    BY <1>8, <1>9, <2>1
  <2> QED BY <2>2, <2>3, PlusOfInts
<1>10. h[S] = g[S]
  <2>1. IsFiniteSet(S)
    BY <1>1 DEF Summable
  <2> QED BY <1>3, <1>8, <1>9, <2>1, SubsetsAgree
<1>11. SumOver(f) = Net(f, S)
  BY <1>1, <1>2, <1>6, <1>10, FoldOfSumOver
<1>12. Net(f, S) \in Int
  <2>1. S \in SUBSET DOMAIN f /\ {} \in SUBSET DOMAIN f /\ S \cap {} = {}
    BY <1>1
  <2> QED BY <2>1, NetAdds
<1> QED BY <1>1, <1>11, <1>12

(* A sum of zeros is a zero. *)
LEMMA SumOfZeros ==
  ASSUME NEW f, IsFiniteSet(DOMAIN f), \A d \in DOMAIN f : f[d] = 0
  PROVE  SumOver(f) = 0
<1>1. Summable(f)
  BY DEF Summable
<1>2. \A d \in DOMAIN f : Gain(f)[d] = 0 /\ Loss(f)[d] = 0
  BY DEF Gain, Loss
<1>3. PairsIn(Gain(f), DOMAIN f) = {} /\ PairsIn(Loss(f), DOMAIN f) = {}
  BY <1>2 DEF PairsIn
<1>4. Net(f, DOMAIN f) = 0
  BY <1>3, FS_EmptySet DEF Net
<1> QED BY <1>1, <1>4, SumIsNet

(* A sum does not depend on what its terms are indexed by. *)
LEMMA Reindexed ==
  ASSUME NEW f, Summable(f), NEW A \in SUBSET DOMAIN f,
         NEW g, NEW b \in [A -> DOMAIN g],
         \A y \in DOMAIN g : \E d \in A : b[d] = y,
         \A d, z \in A : b[d] = b[z] => d = z,
         \A d \in A : f[d] = g[b[d]]
  PROVE  SumOver(g) = Net(f, A)
<1>1. PICK B : B = DOMAIN g
  OBVIOUS
<1>2. IsFiniteSet(A)
  BY FS_Subset DEF Summable
<1>3. IsFiniteSet(B)
  <2>1. b \in Surjection(A, B)
    BY <1>1 DEF Surjection
  <2> QED BY <1>2, <2>1, FS_Surjection
<1>4. Summable(g)
  <2>1. ASSUME NEW y \in B PROVE g[y] \in Int
    <3>1. PICK d \in A : b[d] = y
      BY <1>1
    <3> QED BY <3>1 DEF Summable
  <2> QED BY <1>1, <1>3, <2>1 DEF Summable
<1>5. \A d \in A : /\ Gain(f)[d] = Gain(g)[b[d]] /\ Gain(f)[d] \in Nat
                   /\ Loss(f)[d] = Loss(g)[b[d]] /\ Loss(f)[d] \in Nat
  <2> SUFFICES ASSUME NEW d \in A
               PROVE  /\ Gain(f)[d] = Gain(g)[b[d]] /\ Gain(f)[d] \in Nat
                      /\ Loss(f)[d] = Loss(g)[b[d]] /\ Loss(f)[d] \in Nat
    OBVIOUS
  <2>1. d \in DOMAIN f /\ b[d] \in DOMAIN g /\ f[d] = g[b[d]]
    OBVIOUS
  <2> QED BY <2>1, GainLoss DEF Gain, Loss
<1>6. Cardinality(PairsIn(Gain(f), A)) = Cardinality(PairsIn(Gain(g), B))
  <2>1. PICK F, G : F = Gain(f) /\ G = Gain(g)
    OBVIOUS
  <2>2. \A d \in A : F[d] = G[b[d]] /\ F[d] \in Nat
    BY <1>5, <2>1
  <2> QED BY <1>1, <1>2, <2>1, <2>2, CountsAgree
<1>7. Cardinality(PairsIn(Loss(f), A)) = Cardinality(PairsIn(Loss(g), B))
  <2>1. PICK F, G : F = Loss(f) /\ G = Loss(g)
    OBVIOUS
  <2>2. \A d \in A : F[d] = G[b[d]] /\ F[d] \in Nat
    BY <1>5, <2>1
  <2> QED BY <1>1, <1>2, <2>1, <2>2, CountsAgree
<1>8. Net(g, B) = Net(f, A)
  BY <1>6, <1>7 DEF Net
<1> QED BY <1>1, <1>4, <1>8, SumIsNet

-----------------------------------------------------------------------------
(***************************************************************************)
(* The padding rows, and the types.                                        *)
(***************************************************************************)
(* The operations of the forward and of the backward. *)
Forward == {"kernel_a", "kernel_y", "compress", "dispatch_grads"}
Backward == {"reexpand", "recompute", "kernel_y_bwd", "kernel_a_bwd", "dW", "done"}
(* The operations once kernel_y_bwd has started. *)
PastYBwd == {"kernel_y_bwd", "kernel_a_bwd", "dW", "done"}

(* The forward goes on to dispatch_grads, and no backward with tiles in it
   goes past kernel_y_bwd without running it. *)
LEMMA AfterWhat ==
  ASSUME NEW tiles \in Nat
  PROVE  /\ \A p \in {"dispatch", "kernel_a", "kernel_y", "compress"} : After(p, tiles) \in Forward
         /\ \A p \in {"dispatch_grads", "reexpand", "recompute"} :
              /\ After(p, tiles) \in Backward
              /\ tiles > 0 => After(p, tiles) \in {"reexpand", "recompute", "kernel_y_bwd"}
         /\ \A p \in {"kernel_y_bwd", "kernel_a_bwd", "dW"} :
              After(p, tiles) \in {"kernel_a_bwd", "dW", "done"}
<1>1. /\ Phases[2] = "dispatch" /\ Phases[3] = "kernel_a" /\ Phases[4] = "kernel_y"
      /\ Phases[5] = "compress" /\ Phases[6] = "dispatch_grads" /\ Phases[7] = "reexpand"
      /\ Phases[8] = "recompute" /\ Phases[9] = "kernel_y_bwd" /\ Phases[10] = "kernel_a_bwd"
      /\ Phases[11] = "dW" /\ Phases[12] = "done"
  BY DEF Phases
<1>2. Runs(Phases[6], tiles) /\ (tiles > 0 => Runs(Phases[9], tiles))
  BY <1>1 DEF Runs, Kernels
<1>3. ASSUME NEW k \in 2 .. 5 PROVE After(Phases[k], tiles) \in Forward
  <2>1. PICK q \in k + 1 .. 12 : After(Phases[k], tiles) = Phases[q]
                                /\ \A j \in k + 1 .. 12 : Runs(Phases[j], tiles) => q <= j
    BY AfterIsNext
  <2>2. q <= 6  BY <1>2, <2>1
  <2>3. q \in {3, 4, 5, 6}  BY <2>1, <2>2
  <2> QED BY <1>1, <2>1, <2>3 DEF Forward
<1>4. ASSUME NEW k \in 6 .. 8
      PROVE  /\ After(Phases[k], tiles) \in Backward
             /\ tiles > 0 => After(Phases[k], tiles) \in {"reexpand", "recompute", "kernel_y_bwd"}
  <2>1. PICK q \in k + 1 .. 12 : After(Phases[k], tiles) = Phases[q]
                                /\ \A j \in k + 1 .. 12 : Runs(Phases[j], tiles) => q <= j
    BY AfterIsNext
  <2>2. tiles > 0 => q <= 9  BY <1>2, <2>1
  <2>3. q \in {7, 8, 9, 10, 11, 12} /\ (tiles > 0 => q \in {7, 8, 9})  BY <2>1, <2>2
  <2> QED BY <1>1, <2>1, <2>3 DEF Backward
<1>5. ASSUME NEW k \in 9 .. 11 PROVE After(Phases[k], tiles) \in {"kernel_a_bwd", "dW", "done"}
  <2>1. PICK q \in k + 1 .. 12 : After(Phases[k], tiles) = Phases[q]
    BY AfterIsNext
  <2>2. q \in {10, 11, 12}  BY <2>1
  <2> QED BY <1>1, <2>1, <2>2
<1>6. \A k \in 2 .. 5 : After(Phases[k], tiles) \in Forward  BY <1>3
<1>7. \A k \in 6 .. 8 :
        /\ After(Phases[k], tiles) \in Backward
        /\ tiles > 0 => After(Phases[k], tiles) \in {"reexpand", "recompute", "kernel_y_bwd"}
  BY <1>4
<1>8. \A k \in 9 .. 11 : After(Phases[k], tiles) \in {"kernel_a_bwd", "dW", "done"}  BY <1>5
<1>9. 2 \in 2 .. 5 /\ 3 \in 2 .. 5 /\ 4 \in 2 .. 5 /\ 5 \in 2 .. 5
  OBVIOUS
<1>10. 6 \in 6 .. 8 /\ 7 \in 6 .. 8 /\ 8 \in 6 .. 8
  OBVIOUS
<1>11. 9 \in 9 .. 11 /\ 10 \in 9 .. 11 /\ 11 \in 9 .. 11
  OBVIOUS
<1>12. \A p \in {"dispatch", "kernel_a", "kernel_y", "compress"} : After(p, tiles) \in Forward
  BY <1>1, <1>6, <1>9
<1>13. \A p \in {"dispatch_grads", "reexpand", "recompute"} :
         /\ After(p, tiles) \in Backward
         /\ tiles > 0 => After(p, tiles) \in {"reexpand", "recompute", "kernel_y_bwd"}
  BY <1>1, <1>7, <1>10
<1>14. \A p \in {"kernel_y_bwd", "kernel_a_bwd", "dW"} :
         After(p, tiles) \in {"kernel_a_bwd", "dW", "done"}
  BY <1>1, <1>8, <1>11
<1> QED BY <1>12, <1>13, <1>14

OutFields == {"pool", "preact", "postact", "o", "x_recv"}
GradFields == {"dL_do_pool", "dL_dswiglu_in", "postact_a_for_dW2", "dL_dx_per_r",
               "dL_dweight", "dW1", "dW2"}

(* The outputs of kernel_y_bwd in column i of a row are clean zeros. *)
Clean(row, i) ==
  /\ mem.dL_dswiglu_in[<<row, 2 * i>>] = 0 /\ mem.dL_dswiglu_in[<<row, 2 * i + 1>>] = 0
  /\ mem.postact_a_for_dW2[<<row, i>>] = 0
(* A CTA of kernel_y_bwd that covers the column of the row has not run yet. *)
Pending(row, i) ==
  /\ phase = "kernel_y_bwd"
  /\ \E cta \in todo : row \in TileRows(cta[1]) /\ i \in Stripe("kernel_y_bwd", cta[2])
PadRows == {r \in Rows : IsPad(r)}

Configured ==
  /\ cfg \in Configs
  /\ phase \notin {"call", "raised"} =>
       \A k \in {"tile_m", "tile_n_a", "tile_n_y", "tile_n_y_bwd", "tile_n_a_bwd"} : cfg[k] # 0
LaidOut ==
  handle = IF phase \in Forward \cup Backward THEN Layout(call.routing, cfg["tile_m"])
                                              ELSE Layout(<< >>, 1)
Allocated ==
  /\ phase \in Forward => DOMAIN mem = OutFields
  /\ phase \in Backward =>
       /\ DOMAIN mem = OutFields \cup GradFields
       /\ DOMAIN mem.dL_dswiglu_in = Rows \X PreCols
       /\ DOMAIN mem.postact_a_for_dW2 = Rows \X Cols
       /\ DOMAIN mem.dL_dweight = Rows \X {0}
PadsClean ==
  /\ phase \in Backward => \A row \in PadRows : mem.dL_dweight[<<row, 0>>] = 0
  /\ phase \in PastYBwd => \A row \in PadRows, i \in Cols : Pending(row, i) \/ Clean(row, i)
PInv == /\ phase \in {"call", "dispatch", "raised"} \cup Forward \cup Backward
        /\ Configured /\ LaidOut /\ Allocated /\ PadsClean

(* The invariant says what PadsAreZero says. *)
LEMMA PadsFromInv == PInv => PadsAreZero
<1> SUFFICES ASSUME PInv, phase \in {"kernel_a_bwd", "dW", "done"}, NEW row \in PadRows
             PROVE  /\ \A c \in PreCols : mem.dL_dswiglu_in[<<row, c>>] = 0
                    /\ \A i \in Cols : mem.postact_a_for_dW2[<<row, i>>] = 0
                    /\ mem.dL_dweight[<<row, 0>>] = 0
  BY DEF PadsAreZero, PadRows
<1>1. phase \in Backward /\ phase \in PastYBwd /\ phase # "kernel_y_bwd"
  BY DEF Backward, PastYBwd
<1>2. ASSUME NEW i \in Cols PROVE Clean(row, i)
  BY <1>1 DEF PInv, PadsClean, Pending
<1>3. ASSUME NEW c \in PreCols PROVE mem.dL_dswiglu_in[<<row, c>>] = 0
  <2>1. PICK i \in Cols : c = 2 * i \/ c = 2 * i + 1
    <3>1. PICK q \in Int, r \in 0 .. 1 : c = 2 * q + r
      <4>1. c \in Int  BY DEF PreCols
      <4>2. c \div 2 \in Int /\ c % 2 \in 0 .. 1 /\ c = 2 * (c \div 2) + (c % 2)  BY <4>1
      <4> QED BY <4>2
    <3>2. q \in Cols  BY <3>1, ShapeAssumption DEF PreCols, Cols
    <3> QED BY <3>1, <3>2
  <2> QED BY <1>2, <2>1 DEF Clean
<1> QED BY <1>1, <1>2, <1>3 DEF Clean, PInv, PadsClean

(* What a handle in force offers the steps below. *)
LEMMA HandleFacts ==
  ASSUME IInv, PInv, phase \in Forward \cup Backward
  PROVE  /\ handle.total_tiles \in Nat /\ cfg["tile_m"] \in Nat \ {0}
         /\ Rows = 0 .. handle.total_tiles * cfg["tile_m"] - 1
         /\ \A row \in PadRows : row \in Rows /\ handle.pool_topk_weight[row] = 0
<1>1. cfg["tile_m"] \in Nat \ {0} /\ handle = Layout(call.routing, cfg["tile_m"])
  BY DEF PInv, Configured, LaidOut, Configs, Knobs, Forward, Backward
<1>2. call.routing \in Seq(SUBSET Experts)
  BY RoutingsAssumption DEF IInv, Calls
<1> QED BY <1>1, <1>2, LayoutRows DEF Rows, PadRows, IsPad

(* The columns a stripe number runs over, for kernel_y_bwd. *)
LEMMA YBwdCover ==
  ASSUME IInv, PInv, phase \in Forward \cup Backward, NEW row \in Rows, NEW i \in Cols
  PROVE  \E cta \in Ctas("kernel_y_bwd", handle.total_tiles) :
           row \in TileRows(cta[1]) /\ i \in Stripe("kernel_y_bwd", cta[2])
<1>1. TileN("kernel_y_bwd") = cfg["tile_n_y_bwd"] /\ Width("kernel_y_bwd") = I
  BY DEF TileN, Width
<1>2. TileN("kernel_y_bwd") \in Nat \ {0}
  BY <1>1 DEF PInv, Configured, Configs, Knobs, TileNs, Forward, Backward
<1>3. "kernel_y_bwd" \in Kernels  BY DEF Kernels
<1>4. i \in 0 .. Width("kernel_y_bwd") - 1 /\ Width("kernel_y_bwd") \in Nat
  BY <1>1, ShapeAssumption DEF Cols
<1> QED BY <1>2, <1>3, <1>4, HandleFacts, CtasCover

(* Nothing is allocated before the call. *)
LEMMA InitPInv == Init => PInv
BY DEF Init, PInv, Configured, LaidOut, Allocated, PadsClean, Forward, Backward, PastYBwd,
       Configs, NoOverride, None

(* An accepted config has tiles of a positive size. *)
LEMMA ResolvePads == IInv /\ PInv /\ ResolveTiles => PInv'
<1> SUFFICES ASSUME IInv, PInv, ResolveTiles PROVE PInv'  OBVIOUS
<1>1. PICK c : c = Resolve(call.over, I, H)  OBVIOUS
<1>2. call.over \in Configs  BY OverridesAssumption DEF IInv, Calls
<1>3. c \in Configs /\ c["tile_m"] # 0
  BY <1>1, <1>2, ShapeAssumption, ResolvedConfig
<1>4. \A k \in {"tile_n_a", "tile_n_y", "tile_n_y_bwd", "tile_n_a_bwd"} : c[k] # 0
  BY <1>1, <1>2, ShapeAssumption, ResolvedTilesPositive
<1>5. phase' = "raised" \/ (phase' = "dispatch" /\ cfg' = c)
  BY <1>1 DEF ResolveTiles
<1>6. Configured'
  <2>1. cfg' = cfg \/ cfg' = c  BY <1>1 DEF ResolveTiles
  <2>2. cfg' \in Configs  BY <1>3, <2>1 DEF PInv, Configured
  <2> QED BY <1>3, <1>4, <1>5, <2>2 DEF Configured
<1>7. phase' \notin Forward \cup Backward /\ phase' \notin PastYBwd
  BY <1>5 DEF Forward, Backward, PastYBwd
<1>8. LaidOut'
  <2>1. phase \notin Forward \cup Backward /\ UNCHANGED handle
    BY DEF ResolveTiles, Forward, Backward
  <2> QED BY <1>7, <2>1 DEF PInv, LaidOut
<1> QED BY <1>5, <1>6, <1>7, <1>8 DEF PInv, Allocated, PadsClean

(* A launch that asserts is not a next operation. *)
LEMMA ProceedTo ==
  ASSUME IInv, phase \notin {"call", "raised"}, NEW p, NEW tiles, Proceed(p, tiles)
  PROVE  phase' = After(p, tiles) /\ todo' = Ctas(After(p, tiles), tiles)
<1>1. Runnable  BY DEF IInv
<1>2. Accepts(After(p, tiles))  BY <1>1 DEF Runnable, Accepts
<1> QED BY <1>2 DEF Proceed

(* Dispatch lays the pool out for the forward. *)
LEMMA DispatchPads == IInv /\ PInv /\ Dispatch => PInv'
<1> SUFFICES ASSUME IInv, PInv, Dispatch PROVE PInv'  OBVIOUS
<1>1. /\ phase = "dispatch" /\ UNCHANGED <<call, cfg>>
      /\ handle' = Layout(call.routing, cfg["tile_m"])
      /\ Proceed("dispatch", handle'.total_tiles)
      /\ DOMAIN mem' = OutFields
  BY DEF Dispatch, OutFields
<1>2. cfg["tile_m"] \in Nat \ {0}
  BY <1>1 DEF PInv, Configured, Configs, Knobs
<1>3. call.routing \in Seq(SUBSET Experts)  BY RoutingsAssumption DEF IInv, Calls
<1>4. PICK n \in Nat : n = handle'.total_tiles  BY <1>1, <1>2, <1>3, LayoutRows
<1>5. phase' \in Forward  BY <1>1, <1>4, ProceedTo, AfterWhat
<1>6. phase' \notin Backward /\ phase' \notin PastYBwd /\ phase' \notin {"call", "raised"}
  BY <1>5 DEF Forward, Backward, PastYBwd
<1>7. Configured'  BY <1>1 DEF PInv, Configured
<1>8. LaidOut'  BY <1>1, <1>5 DEF LaidOut
<1>9. Allocated' /\ PadsClean'  BY <1>1, <1>6 DEF Allocated, PadsClean
<1> QED BY <1>5, <1>7, <1>8, <1>9 DEF PInv

(* A step of the forward only has to leave the fields in place. *)
LEMMA ForwardPads ==
  ASSUME IInv, PInv, phase \in {"kernel_a", "kernel_y", "compress"},
         UNCHANGED <<call, cfg, handle>>, DOMAIN mem' = DOMAIN mem,
         phase' = phase \/ phase' = After(phase, handle.total_tiles)
  PROVE  PInv'
<1>1. phase \in Forward  BY DEF Forward
<1>2. PICK n \in Nat : n = handle.total_tiles  BY <1>1, HandleFacts
<1>3. phase' \in Forward  BY <1>1, <1>2, AfterWhat
<1>4. phase' \notin Backward /\ phase' \notin PastYBwd /\ phase' \notin {"call", "raised"}
  BY <1>3 DEF Forward, Backward, PastYBwd
<1>5. Configured'  BY <1>1 DEF PInv, Configured, Forward
<1>6. LaidOut'  BY <1>1, <1>3 DEF PInv, LaidOut
<1>7. Allocated'  BY <1>1, <1>4 DEF PInv, Allocated
<1>8. PadsClean'  BY <1>4 DEF PadsClean
<1> QED BY <1>3, <1>5, <1>6, <1>7, <1>8 DEF PInv

(* A CTA is the last of its kernel, or the others remain. *)
LEMMA FinishTo ==
  ASSUME IInv, phase \notin {"call", "raised"}, NEW cta, NEW p, Finish(p, cta)
  PROVE  \/ todo = {cta} /\ phase' = After(p, handle.total_tiles)
         \/ todo # {cta} /\ phase' = phase /\ todo' = todo \ {cta}
BY ProceedTo DEF Finish

(* Kernels A and Y leave the tensors in place. *)
LEMMA ForwardKernelsPad ==
  ASSUME IInv, PInv, NEW cta, KernelA(cta) \/ KernelY(cta)
  PROVE  PInv'
<1>1. PICK p \in {"kernel_a", "kernel_y"} :
        phase = p /\ Finish(p, cta) /\ UNCHANGED <<call, cfg, handle>>
  BY DEF KernelA, KernelY
<1>2. DOMAIN mem' = DOMAIN mem  BY DEF KernelA, KernelY
<1>3. phase \notin {"call", "raised"}  BY <1>1
<1>4. phase' = phase \/ phase' = After(phase, handle.total_tiles)  BY <1>1, <1>3, FinishTo
<1> QED BY <1>1, <1>2, <1>4, ForwardPads

(* Compress too. *)
LEMMA CompressPads == IInv /\ PInv /\ Compress => PInv'
<1> SUFFICES ASSUME IInv, PInv, Compress PROVE PInv'  OBVIOUS
<1>1. /\ phase = "compress" /\ UNCHANGED <<call, cfg, handle>>
      /\ Proceed("compress", handle.total_tiles)
  BY DEF Compress
<1>2. DOMAIN mem' = DOMAIN mem  BY DEF Compress
<1>3. phase' = After("compress", handle.total_tiles)  BY <1>1, ProceedTo
<1> QED BY <1>1, <1>2, <1>3, ForwardPads

(* Where kernel_y_bwd starts, all of its work is pending; without tiles there
   are no rows. *)
LEMMA EnterPads ==
  ASSUME IInv, PInv, phase \in {"dispatch_grads", "reexpand", "recompute"},
         UNCHANGED <<call, cfg, handle>>, Proceed(phase, handle.total_tiles),
         Allocated',
         \A row \in PadRows : mem'.dL_dweight[<<row, 0>>] = 0
  PROVE  PInv'
<1>1. phase \in Forward \cup Backward /\ phase \notin {"call", "raised"}
  BY DEF Forward, Backward
<1>2. PICK n \in Nat : n = handle.total_tiles  BY <1>1, HandleFacts
<1>3. phase' = After(phase, n) /\ todo' = Ctas(phase', n)  BY <1>1, <1>2, ProceedTo
<1>4. phase' \in Backward /\ (n > 0 => phase' \in {"reexpand", "recompute", "kernel_y_bwd"})
  BY <1>2, <1>3, AfterWhat
<1>5. phase' \notin {"call", "raised"} /\ phase' \notin Forward
  BY <1>4 DEF Forward, Backward
<1>6. Configured'  BY <1>1 DEF PInv, Configured
<1>7. LaidOut'  BY <1>1, <1>4 DEF PInv, LaidOut
<1>8. PadRows' = PadRows /\ Rows' = Rows  BY DEF PadRows, Rows, IsPad
<1>9. ASSUME NEW row \in PadRows, NEW i \in Cols, phase' \in PastYBwd
      PROVE  Pending(row, i)'
  <2>1. row \in Rows /\ n > 0
    <3>1. row \in Rows /\ Rows = 0 .. n * cfg["tile_m"] - 1 /\ cfg["tile_m"] \in Nat
      BY <1>1, <1>2, HandleFacts
    <3>2. n # 0  BY <3>1
    <3> QED BY <1>2, <3>1, <3>2
  <2>2. phase' = "kernel_y_bwd"  BY <1>4, <1>9, <2>1 DEF PastYBwd
  <2>3. PICK cta \in Ctas("kernel_y_bwd", n) :
          row \in TileRows(cta[1]) /\ i \in Stripe("kernel_y_bwd", cta[2])
    BY <1>1, <1>2, <2>1, YBwdCover
  <2>4. cta \in todo'  BY <1>3, <2>2, <2>3
  <2>5. row \in TileRows(cta[1])' /\ i \in Stripe("kernel_y_bwd", cta[2])'
    BY <2>3 DEF TileRows, Stripe, TileN
  <2> QED BY <2>2, <2>4, <2>5 DEF Pending
<1>10. PadsClean'  BY <1>8, <1>9 DEF PadsClean
<1> QED BY <1>4, <1>6, <1>7, <1>10 DEF PInv

(* The scratch of the backward, with dL_dweight zeroed. *)
LEMMA DispatchGradsPads == IInv /\ PInv /\ DispatchGrads => PInv'
<1> SUFFICES ASSUME IInv, PInv, DispatchGrads PROVE PInv'  OBVIOUS
<1>1. /\ phase = "dispatch_grads" /\ UNCHANGED <<call, cfg, handle>>
      /\ Proceed("dispatch_grads", handle.total_tiles)
      /\ DOMAIN mem' = OutFields \cup GradFields
      /\ mem'.dL_dswiglu_in = Fresh(Rows, PreCols)
      /\ mem'.postact_a_for_dW2 = Fresh(Rows, Cols)
      /\ mem'.dL_dweight = Zeros(Rows, {0})
  BY DEF DispatchGrads, OutFields, GradFields
<1>2. phase \in Forward /\ phase \notin {"call", "raised"}  BY <1>1 DEF Forward
<1>3. PICK n \in Nat : n = handle.total_tiles  BY <1>2, HandleFacts
<1>4. phase' \in Backward  BY <1>1, <1>2, <1>3, ProceedTo, AfterWhat
<1>5. phase' \notin Forward  BY <1>4 DEF Forward, Backward
<1>6. Rows' = Rows  BY <1>1 DEF Rows
<1>7. Allocated'  BY <1>1, <1>5, <1>6 DEF Allocated, Fresh, Zeros
<1>8. \A row \in PadRows : mem'.dL_dweight[<<row, 0>>] = 0
  BY <1>1 DEF PadRows, Zeros
<1> QED BY <1>1, <1>7, <1>8, EnterPads

(* The tensors of kernel_y_bwd and the fields that stay where they are. *)
Kept == /\ DOMAIN mem' = DOMAIN mem
        /\ mem'.dL_dswiglu_in = mem.dL_dswiglu_in
        /\ mem'.postact_a_for_dW2 = mem.postact_a_for_dW2
        /\ mem'.dL_dweight = mem.dL_dweight

(* Tensors that keep their shape stay allocated. *)
LEMMA KeptAllocated ==
  ASSUME PInv, phase \in Backward, phase' \in Backward, UNCHANGED handle, Kept
  PROVE  Allocated'
<1>1. phase' \notin Forward  BY DEF Forward, Backward
<1>2. Rows' = Rows  BY DEF Rows
<1> QED BY <1>1, <1>2 DEF PInv, Allocated, Kept

(* Re-expansion and recomputation write no output of kernel_y_bwd. *)
LEMMA ScratchPads == IInv /\ PInv /\ (Reexpand \/ Recompute) => PInv'
<1> SUFFICES ASSUME IInv, PInv, Reexpand \/ Recompute PROVE PInv'  OBVIOUS
<1>1. /\ phase \in {"reexpand", "recompute"} /\ UNCHANGED <<call, cfg, handle>>
      /\ Proceed(phase, handle.total_tiles)
  BY DEF Reexpand, Recompute
<1>2. phase \in Backward /\ phase \notin {"call", "raised"}  BY <1>1 DEF Backward
<1>3. PICK n \in Nat : n = handle.total_tiles  BY <1>2, HandleFacts
<1>4. phase' \in Backward  BY <1>1, <1>2, <1>3, ProceedTo, AfterWhat
<1>5. Kept
  BY <1>2 DEF PInv, Allocated, OutFields, GradFields, Kept, Reexpand, Recompute
<1>6. Allocated'  BY <1>1, <1>2, <1>4, <1>5, KeptAllocated
<1>7. \A row \in PadRows : mem'.dL_dweight[<<row, 0>>] = 0
  BY <1>2, <1>5 DEF PInv, PadsClean, Kept
<1> QED BY <1>1, <1>6, <1>7, EnterPads

(* Nothing after kernel_y_bwd writes its outputs. *)
LEMMA GradKernelsPad ==
  ASSUME IInv, PInv, WeightGrads \/ \E cta \in todo : KernelABwd(cta)
  PROVE  PInv'
<1>1. phase \in {"kernel_a_bwd", "dW"} /\ UNCHANGED <<call, cfg, handle>>
  BY DEF WeightGrads, KernelABwd
<1>2. phase \in Backward /\ phase \in PastYBwd /\ phase # "kernel_y_bwd"
      /\ phase \notin {"call", "raised"}
  BY <1>1 DEF Backward, PastYBwd
<1>3. PICK n \in Nat : n = handle.total_tiles  BY <1>2, HandleFacts
<1>4. phase' \in {"kernel_a_bwd", "dW", "done"}
  <2>1. phase' = phase \/ phase' = After(phase, n)
    <3>1. CASE WeightGrads
      BY <1>2, <1>3, <3>1, ProceedTo DEF WeightGrads
    <3>2. CASE \E cta \in todo : KernelABwd(cta)
      BY <1>2, <1>3, <3>2, FinishTo DEF KernelABwd
    <3> QED BY <3>1, <3>2
  <2> QED BY <1>1, <1>3, <2>1, AfterWhat
<1>5. Kept
  BY <1>2 DEF PInv, Allocated, OutFields, GradFields, Kept, WeightGrads, KernelABwd
<1>6. phase' \in Backward /\ phase' \notin {"call", "raised"}  BY <1>4 DEF Backward
<1>7. Allocated'  BY <1>1, <1>2, <1>5, <1>6, KeptAllocated
<1>8. Configured'  BY <1>1, <1>2 DEF PInv, Configured
<1>9. LaidOut'  BY <1>1, <1>2, <1>6 DEF PInv, LaidOut
<1>10. PadsClean'
  <2>1. PadRows' = PadRows  BY <1>1 DEF PadRows, Rows, IsPad
  <2>2. \A row \in PadRows : mem.dL_dweight[<<row, 0>>] = 0  BY <1>2 DEF PInv, PadsClean
  <2>3. \A row \in PadRows, i \in Cols : Clean(row, i)  BY <1>2 DEF PInv, PadsClean, Pending
  <2>4. \A row \in PadRows, i \in Cols : Clean(row, i)'  BY <1>5, <2>3 DEF Clean, Kept
  <2> QED BY <1>5, <2>1, <2>2, <2>4 DEF PadsClean, Kept
<1> QED BY <1>6, <1>7, <1>8, <1>9, <1>10 DEF PInv

(* Zeros stay zero in the arithmetic with NaN. *)
LEMMA ZeroTimes == Times(0, 0) = 0 /\ Plus(0, 0) = 0
<1>1. 0 \in Int  OBVIOUS
<1>2. Times(0, 0) = 0 * 0 /\ Plus(0, 0) = 0 + 0  BY <1>1, PlusOfInts
<1> QED BY <1>2

(* Only CTAs of the running kernel are left to finish. *)
Work == todo \subseteq Ctas(phase, handle.total_tiles)

(* A launch issues the CTAs of its grid, a CTA finishes once. *)
LEMMA WorkKeeps == IInv /\ Work /\ [Next]_vars => Work'
<1> SUFFICES ASSUME IInv, Work, [Next]_vars PROVE Work'  OBVIOUS
<1>1. CASE ResolveTiles
  <2>1. phase = "call" /\ UNCHANGED todo  BY <1>1 DEF ResolveTiles
  <2> QED BY <2>1 DEF Work, Ctas, Kernels
<1>2. ASSUME NEW p, NEW tiles, Proceed(p, tiles), phase \notin {"call", "raised"},
             UNCHANGED cfg, handle'.total_tiles = tiles
      PROVE  Work'
  <2>1. PICK q, k : q = After(p, tiles) /\ k = tiles  OBVIOUS
  <2>2. phase' = q /\ todo' = Ctas(q, k)  BY <1>2, <2>1, ProceedTo
  <2>3. Ctas(q, k)' = Ctas(q, k)  BY <1>2 DEF Ctas, TileN, Width
  <2> QED BY <1>2, <2>1, <2>2, <2>3 DEF Work
<1>3. CASE Dispatch
  BY <1>2, <1>3 DEF Dispatch
<1>4. CASE Compress \/ DispatchGrads \/ Reexpand \/ Recompute \/ WeightGrads
  BY <1>2, <1>4 DEF Compress, DispatchGrads, Reexpand, Recompute, WeightGrads
<1>5. CASE \E cta \in todo : KernelA(cta) \/ KernelY(cta) \/ KernelYBwd(cta) \/ KernelABwd(cta)
  <2>1. PICK cta \in todo, p \in Kernels :
          phase = p /\ Finish(p, cta) /\ UNCHANGED <<call, cfg, handle>>
    BY <1>5 DEF KernelA, KernelY, KernelYBwd, KernelABwd, Kernels
  <2>2. phase \notin {"call", "raised"}  BY <2>1 DEF Kernels
  <2>3. CASE todo = {cta}  BY <1>2, <2>1, <2>2, <2>3 DEF Finish
  <2>4. CASE todo # {cta}
    <3>1. todo' = todo \ {cta} /\ UNCHANGED phase  BY <2>1, <2>4 DEF Finish
    <3>2. Ctas(phase, handle.total_tiles)' = Ctas(phase, handle.total_tiles)
      BY <2>1, <3>1 DEF Ctas, TileN, Width
    <3> QED BY <3>1, <3>2 DEF Work
  <2> QED BY <2>3, <2>4
<1>6. CASE UNCHANGED vars
  BY <1>6 DEF vars, Work, Ctas, TileN, Width
<1> QED BY <1>1, <1>3, <1>4, <1>5, <1>6 DEF Next

(* A CTA of kernel_y_bwd writes zeros to the padding rows of its tile, and
   leaves every other tile and stripe as it was. *)
LEMMA YBwdWrites ==
  ASSUME IInv, PInv, Work, NEW cta \in todo, KernelYBwd(cta)
  PROVE  /\ DOMAIN mem' = DOMAIN mem
         /\ DOMAIN mem'.dL_dswiglu_in = DOMAIN mem.dL_dswiglu_in
         /\ DOMAIN mem'.postact_a_for_dW2 = DOMAIN mem.postact_a_for_dW2
         /\ DOMAIN mem'.dL_dweight = DOMAIN mem.dL_dweight
         /\ \A row \in PadRows :
              /\ mem'.dL_dweight[<<row, 0>>] = 0
              /\ \A c \in PreCols :
                   mem'.dL_dswiglu_in[<<row, c>>]
                     = IF row \in TileRows(cta[1]) /\ c \div 2 \in Stripe("kernel_y_bwd", cta[2])
                       THEN 0 ELSE mem.dL_dswiglu_in[<<row, c>>]
              /\ \A i \in Cols :
                   mem'.postact_a_for_dW2[<<row, i>>]
                     = IF row \in TileRows(cta[1]) /\ i \in Stripe("kernel_y_bwd", cta[2])
                       THEN 0 ELSE mem.postact_a_for_dW2[<<row, i>>]
<1>1. phase = "kernel_y_bwd" /\ phase \in Forward \cup Backward /\ phase \in Backward
  BY DEF KernelYBwd, Forward, Backward
<1>2. /\ DOMAIN mem = OutFields \cup GradFields
      /\ DOMAIN mem.dL_dswiglu_in = Rows \X PreCols
      /\ DOMAIN mem.postact_a_for_dW2 = Rows \X Cols
      /\ DOMAIN mem.dL_dweight = Rows \X {0}
      /\ \A row \in PadRows : mem.dL_dweight[<<row, 0>>] = 0
  BY <1>1 DEF PInv, Allocated, PadsClean
<1>3. \A row \in PadRows : row \in Rows /\ handle.pool_topk_weight[row] = 0 /\ IsPad(row)
  BY <1>1, HandleFacts DEF PadRows
<1> DEFINE rows == TileRows(cta[1])
           cols == Stripe("kernel_y_bwd", cta[2])
           w(row) == handle.pool_topk_weight[row]
           g == [ri \in rows \X cols |->
                   Dot(Hidden, LAMBDA h : mem.dL_do_pool[<<ri[1], h>>],
                               LAMBDA h : w2[ExpertOf(ri[1])][h][ri[2]])]
           grads == [ri \in rows \X cols |->
                       LET d == KeepScale(ri[1], ri[2])
                           v == dswiglu(mem.preact[<<ri[1], 2 * ri[2]>>],
                                        mem.preact[<<ri[1], 2 * ri[2] + 1>>], Times(g[ri], d))
                       IN  <<v[1], v[2], Times(v[3], d)>>]
           out(row, i, k) == UnlessPad(row, grads[<<row, i>>][k])
           A(row, c) == Times(out(row, c \div 2, 1 + (c % 2)), w(row))
           B(row, i) == Times(out(row, i, 3), w(row))
           C(row, z) == Plus(mem.dL_dweight[<<row, z>>],
             SumOver([i \in cols |-> WeightGradTerm(row, UnlessPad(row, g[<<row, i>>]),
                                                    out(row, i, 3))]))
           SA == rows \X {c \in PreCols : c \div 2 \in cols}
           SB == rows \X cols
           SC == rows \X {0}
<1>4. mem' = [mem EXCEPT !.dL_dswiglu_in = Store(@, SA, A),
                         !.postact_a_for_dW2 = Store(@, SB, B),
                         !.dL_dweight = Store(@, SC, C)]
  BY DEF KernelYBwd
<1>5. ASSUME NEW row \in PadRows
      PROVE  /\ \A c : A(row, c) = 0
             /\ \A i : B(row, i) = 0
             /\ \A i : WeightGradTerm(row, UnlessPad(row, g[<<row, i>>]), out(row, i, 3)) = 0
  <2>1. IsPad(row) /\ w(row) = 0  BY <1>3
  <2> HIDE DEF g, grads
  <2>2. \A v : UnlessPad(row, v) = 0  BY <2>1 DEF UnlessPad
  <2> QED BY <2>1, <2>2, ZeroTimes DEF WeightGradTerm
<1>6. ASSUME NEW row \in PadRows PROVE C(row, 0) = 0
  <2> DEFINE term(i) == WeightGradTerm(row, UnlessPad(row, g[<<row, i>>]), out(row, i, 3))
  <2>0. \A i : term(i) = 0  BY <1>5
  <2>1. PICK f : f = [i \in cols |-> term(i)]
    OBVIOUS
  <2>2. DOMAIN f = cols  BY <2>1
  <2>3. \A i \in DOMAIN f : f[i] = 0
    <3> HIDE DEF term
    <3> QED BY <2>0, <2>1, <2>2
  <2>4. IsFiniteSet(cols)
    <3>1. cta[2] \in Int /\ TileN("kernel_y_bwd") \in Int
      BY <1>1 DEF Work, Ctas, TileN, PInv, Configured, Configs, Knobs, TileNs
    <3>2. PICK a, b \in Int : cols = a .. b  BY <3>1 DEF Stripe
    <3> QED BY <3>2, FS_Interval
  <2>5. SumOver(f) = 0  BY <2>2, <2>3, <2>4, SumOfZeros
  <2> HIDE DEF g, grads
  <2>6. mem.dL_dweight[<<row, 0>>] = 0  BY <1>2
  <2>7. Plus(mem.dL_dweight[<<row, 0>>], SumOver(f)) = 0  BY <2>5, <2>6, ZeroTimes
  <2> QED BY <2>1, <2>7
<1>7. /\ DOMAIN mem' = DOMAIN mem
      /\ mem'.dL_dswiglu_in = Store(mem.dL_dswiglu_in, SA, A)
      /\ mem'.postact_a_for_dW2 = Store(mem.postact_a_for_dW2, SB, B)
      /\ mem'.dL_dweight = Store(mem.dL_dweight, SC, C)
  <2> HIDE DEF A, B, C, SA, SB, SC
  <2> QED BY <1>2, <1>4 DEF OutFields, GradFields
<1> HIDE DEF A, B, C, g, grads
<1>8. /\ DOMAIN Store(mem.dL_dswiglu_in, SA, A) = DOMAIN mem.dL_dswiglu_in
      /\ \A rc \in DOMAIN mem.dL_dswiglu_in :
           Store(mem.dL_dswiglu_in, SA, A)[rc]
             = IF rc \in SA THEN A(rc[1], rc[2]) ELSE mem.dL_dswiglu_in[rc]
  <2> HIDE DEF SA
  <2> QED BY DEF Store
<1>9. /\ DOMAIN Store(mem.postact_a_for_dW2, SB, B) = DOMAIN mem.postact_a_for_dW2
      /\ \A rc \in DOMAIN mem.postact_a_for_dW2 :
           Store(mem.postact_a_for_dW2, SB, B)[rc]
             = IF rc \in SB THEN B(rc[1], rc[2]) ELSE mem.postact_a_for_dW2[rc]
  <2> HIDE DEF SB
  <2> QED BY DEF Store
<1>10. /\ DOMAIN Store(mem.dL_dweight, SC, C) = DOMAIN mem.dL_dweight
       /\ \A rc \in DOMAIN mem.dL_dweight :
            Store(mem.dL_dweight, SC, C)[rc]
              = IF rc \in SC THEN C(rc[1], rc[2]) ELSE mem.dL_dweight[rc]
  <2> HIDE DEF SC
  <2> QED BY DEF Store
<1> HIDE DEF rows, cols
<1>11. ASSUME NEW row \in PadRows
       PROVE  mem'.dL_dweight[<<row, 0>>] = 0
  <2>1. <<row, 0>> \in DOMAIN mem.dL_dweight  BY <1>2, <1>3
  <2> HIDE DEF SC
  <2> QED BY <1>2, <1>6, <1>7, <1>10, <2>1
<1>12. ASSUME NEW row \in PadRows, NEW c \in PreCols
       PROVE  mem'.dL_dswiglu_in[<<row, c>>]
                = IF row \in rows /\ c \div 2 \in cols THEN 0 ELSE mem.dL_dswiglu_in[<<row, c>>]
  <2>1. <<row, c>> \in DOMAIN mem.dL_dswiglu_in  BY <1>2, <1>3
  <2>2. <<row, c>> \in SA <=> row \in rows /\ c \div 2 \in cols  OBVIOUS
  <2>3. A(row, c) = 0  BY <1>5
  <2> HIDE DEF SA
  <2> QED BY <1>7, <1>8, <2>1, <2>2, <2>3
<1>13. ASSUME NEW row \in PadRows, NEW i \in Cols
       PROVE  mem'.postact_a_for_dW2[<<row, i>>]
                = IF row \in rows /\ i \in cols THEN 0 ELSE mem.postact_a_for_dW2[<<row, i>>]
  <2>1. <<row, i>> \in DOMAIN mem.postact_a_for_dW2  BY <1>2, <1>3
  <2>2. <<row, i>> \in SB <=> row \in rows /\ i \in cols  OBVIOUS
  <2>3. B(row, i) = 0  BY <1>5
  <2> HIDE DEF SB
  <2> QED BY <1>7, <1>9, <2>1, <2>2, <2>3
<1> HIDE DEF SA, SB, SC
<1> QED BY <1>7, <1>8, <1>9, <1>10, <1>11, <1>12, <1>13 DEF rows, cols

(* A CTA of kernel_y_bwd cleans the padding of its tile and stripe. *)
LEMMA YBwdPads ==
  ASSUME IInv, PInv, Work, NEW cta \in todo, KernelYBwd(cta)
  PROVE  PInv'
<1>1. /\ phase = "kernel_y_bwd" /\ UNCHANGED <<call, cfg, handle>> /\ Finish("kernel_y_bwd", cta)
      /\ phase \in Backward /\ phase \in PastYBwd /\ phase \notin {"call", "raised"}
  BY DEF KernelYBwd, Backward, PastYBwd
<1>2. PICK n \in Nat : n = handle.total_tiles  BY <1>1, HandleFacts
<1>3. \/ todo = {cta} /\ phase' = After("kernel_y_bwd", n)
      \/ phase' = phase /\ todo' = todo \ {cta}
  BY <1>1, <1>2, FinishTo
<1>4. phase' \in {"kernel_y_bwd", "kernel_a_bwd", "dW", "done"}
  BY <1>1, <1>2, <1>3, AfterWhat
<1>5. phase' \in Backward /\ phase' \notin Forward /\ phase' \notin {"call", "raised"}
  BY <1>4 DEF Backward, Forward
<1>6. Configured'  BY <1>1 DEF PInv, Configured
<1>7. LaidOut'  BY <1>1, <1>5 DEF PInv, LaidOut
<1>8. Allocated'
  <2>1. Rows' = Rows  BY <1>1 DEF Rows
  <2> QED BY <1>1, <1>5, <2>1, YBwdWrites DEF PInv, Allocated
<1>9. PadRows' = PadRows  BY <1>1 DEF PadRows, Rows, IsPad
<1>10. \A row \in PadRows : mem'.dL_dweight[<<row, 0>>] = 0  BY YBwdWrites
<1>11. ASSUME NEW row \in PadRows, NEW i \in Cols PROVE Pending(row, i)' \/ Clean(row, i)'
  <2>1. 2 * i \in PreCols /\ 2 * i + 1 \in PreCols
        /\ (2 * i) \div 2 = i /\ (2 * i + 1) \div 2 = i
    <3>1. I \in Nat /\ i \in 0 .. I - 1  BY ShapeAssumption DEF Cols
    <3> QED BY <3>1 DEF PreCols
  <2>2. CASE row \in TileRows(cta[1]) /\ i \in Stripe("kernel_y_bwd", cta[2])
    BY <2>1, <2>2, YBwdWrites DEF Clean
  <2>3. CASE ~(row \in TileRows(cta[1]) /\ i \in Stripe("kernel_y_bwd", cta[2]))
    <3>1. CASE Clean(row, i)
      BY <2>1, <2>3, <3>1, YBwdWrites DEF Clean
    <3>2. CASE ~Clean(row, i)
      <4>1. PICK c \in todo : row \in TileRows(c[1]) /\ i \in Stripe("kernel_y_bwd", c[2])
        BY <1>1, <3>2 DEF PInv, PadsClean, Pending
      <4>2. c # cta  BY <2>3, <4>1
      <4>3. phase' = phase /\ c \in todo'  BY <1>3, <4>1, <4>2
      <4>4. row \in TileRows(c[1])' /\ i \in Stripe("kernel_y_bwd", c[2])'
        BY <1>1, <4>1 DEF TileRows, Stripe, TileN
      <4> QED BY <1>1, <4>3, <4>4 DEF Pending
    <3> QED BY <3>1, <3>2
  <2> QED BY <2>2, <2>3
<1>12. PadsClean'  BY <1>9, <1>10, <1>11 DEF PadsClean
<1> QED BY <1>5, <1>6, <1>7, <1>8, <1>12 DEF PInv

(* Every step keeps the padding invariant. *)
LEMMA StepPads == IInv /\ Work /\ PInv /\ [Next]_vars => PInv'
<1> SUFFICES ASSUME IInv, Work, PInv, [Next]_vars PROVE PInv'  OBVIOUS
<1>1. CASE ResolveTiles  BY <1>1, ResolvePads
<1>2. CASE Dispatch  BY <1>2, DispatchPads
<1>3. CASE Compress  BY <1>3, CompressPads
<1>4. CASE DispatchGrads  BY <1>4, DispatchGradsPads
<1>5. CASE Reexpand \/ Recompute  BY <1>5, ScratchPads
<1>6. CASE WeightGrads \/ \E cta \in todo : KernelABwd(cta)  BY <1>6, GradKernelsPad
<1>7. CASE \E cta \in todo : KernelA(cta) \/ KernelY(cta)  BY <1>7, ForwardKernelsPad
<1>8. CASE \E cta \in todo : KernelYBwd(cta)  BY <1>8, YBwdPads
<1>9. CASE UNCHANGED vars
  BY <1>9 DEF vars, PInv, Configured, LaidOut, Allocated, PadsClean, Rows, PadRows, IsPad,
              Pending, Clean, TileRows, Stripe, TileN
<1> QED BY <1>1, <1>2, <1>3, <1>4, <1>5, <1>6, <1>7, <1>8, <1>9 DEF Next

(* No CTA is left before the call. *)
LEMMA InitWork == Init => Work
BY DEF Init, Work

(* Whatever torch.empty left in dL_do_pool and the saved activations, and
   however the CTAs interleave: once kernel_y_bwd is over, the padding rows of
   its three outputs hold clean zeros. *)
THEOREM PaddingIsZero == Spec => []PadsAreZero
<1>1. Init => IInv /\ Work /\ PInv  BY InitIInv, InitWork, InitPInv
<1>2. IInv /\ Work /\ PInv /\ [Next]_vars => (IInv /\ Work /\ PInv)'
  BY StepKeeps, WorkKeeps, StepPads
<1>3. IInv /\ Work /\ PInv => PadsAreZero  BY PadsFromInv
<1> QED BY <1>1, <1>2, <1>3, PTL DEF Spec

(* A tile that divides the width leaves no column over. *)
LEMMA TilesDivide ==
  ASSUME IInv, PInv, phase \in Kernels
  PROVE  /\ TileN(phase) \in Nat \ {0} /\ Width(phase) \in Nat
         /\ Width(phase) % TileN(phase) = 0
<1>1. phase \notin {"call", "raised"}  BY DEF Kernels
<1>2. Runnable  BY <1>1 DEF IInv
<1>3. /\ cfg["tile_n_a"] \in Nat \ {0} /\ cfg["tile_n_y"] \in Nat \ {0}
      /\ cfg["tile_n_y_bwd"] \in Nat \ {0} /\ cfg["tile_n_a_bwd"] \in Nat \ {0}
  BY <1>1 DEF PInv, Configured, Configs, Knobs, TileNs
<1>4. I \in Nat /\ H \in Nat /\ 2 * I \in Nat  BY ShapeAssumption
<1>5. CASE phase = "kernel_a"
  <2>1. TileN(phase) = cfg["tile_n_a"] /\ Width(phase) = 2 * I  BY <1>5 DEF TileN, Width
  <2> QED BY <1>2, <1>3, <1>4, <2>1 DEF Runnable, AAccepts
<1>6. CASE phase = "kernel_y"
  <2>1. TileN(phase) = cfg["tile_n_y"] /\ Width(phase) = H  BY <1>6 DEF TileN, Width
  <2> QED BY <1>2, <1>3, <1>4, <2>1 DEF Runnable, YAccepts
<1>7. CASE phase = "kernel_y_bwd"
  <2>1. TileN(phase) = cfg["tile_n_y_bwd"] /\ Width(phase) = I  BY <1>7 DEF TileN, Width
  <2> QED BY <1>2, <1>3, <1>4, <2>1 DEF Runnable, YBwdAccepts
<1>8. CASE phase = "kernel_a_bwd"
  <2>1. TileN(phase) = cfg["tile_n_a_bwd"] /\ Width(phase) = H  BY <1>8 DEF TileN, Width
  <2> QED BY <1>2, <1>3, <1>4, <2>1 DEF Runnable, ABwdAccepts
<1> QED BY <1>5, <1>6, <1>7, <1>8 DEF Kernels

(* The CTAs left to finish stay inside the pool and the width of their output. *)
LEMMA CtasInside ==
  ASSUME IInv, PInv, Work, NEW cta \in todo
  PROVE  /\ TileRows(cta[1]) \subseteq Rows
         /\ Stripe(phase, cta[2]) \subseteq 0 .. Width(phase) - 1
<1>1. phase \in Kernels /\ cta \in Ctas(phase, handle.total_tiles)  BY DEF Work, Ctas
<1>2. phase \in Forward \cup Backward  BY <1>1 DEF Kernels, Forward, Backward
<1>3. PICK n \in Nat, m \in Nat \ {0} :
        n = handle.total_tiles /\ m = cfg["tile_m"] /\ Rows = 0 .. n * m - 1
  BY <1>2, HandleFacts
<1>4. PICK s \in Nat \ {0}, w \in Nat : s = TileN(phase) /\ w = Width(phase) /\ w % s = 0
  BY <1>1, TilesDivide
<1>5. PICK c \in Nat : c = CeilDiv(w, s) /\ c * s = w  BY <1>4, CeilBounds
<1>6. cta[1] \in 0 .. n - 1 /\ cta[2] \in 0 .. c - 1
  BY <1>1, <1>3, <1>4, <1>5 DEF Ctas
<1>7. cta[1] * m .. (cta[1] + 1) * m - 1 \subseteq 0 .. n * m - 1  BY <1>6, ShareWithin
<1>8. cta[2] * s .. (cta[2] + 1) * s - 1 \subseteq 0 .. c * s - 1  BY <1>6, ShareWithin
<1>9. TileRows(cta[1]) \subseteq Rows  BY <1>3, <1>7 DEF TileRows
<1>10. Stripe(phase, cta[2]) \subseteq 0 .. Width(phase) - 1
  BY <1>4, <1>5, <1>8 DEF Stripe
<1> QED BY <1>9, <1>10

(* The phases of the invariant are operations or the end of a refused call. *)
LEMMA PhaseNames ==
  {"call", "dispatch", "raised"} \cup Forward \cup Backward
    \subseteq {Phases[k] : k \in DOMAIN Phases} \cup {"raised", "asserted"}
<1>1. DOMAIN Phases = 1 .. 12  BY DEF Phases
<1>2. /\ Phases[1] = "call" /\ Phases[2] = "dispatch" /\ Phases[3] = "kernel_a"
      /\ Phases[4] = "kernel_y" /\ Phases[5] = "compress" /\ Phases[6] = "dispatch_grads"
      /\ Phases[7] = "reexpand" /\ Phases[8] = "recompute" /\ Phases[9] = "kernel_y_bwd"
      /\ Phases[10] = "kernel_a_bwd" /\ Phases[11] = "dW" /\ Phases[12] = "done"
  BY DEF Phases
<1>3. ASSUME NEW k \in 1 .. 12 PROVE Phases[k] \in {Phases[j] : j \in DOMAIN Phases}
  BY <1>1
<1>4. \A k \in 1 .. 12 : Phases[k] \in {Phases[j] : j \in DOMAIN Phases}  BY <1>3
<1>5. {"call", "dispatch"} \cup Forward \cup Backward \subseteq {Phases[j] : j \in DOMAIN Phases}
  BY <1>2, <1>4 DEF Forward, Backward
<1> QED BY <1>5

(* The invariant says what TypeOK says. *)
LEMMA TypesFromInv == IInv /\ Work /\ PInv => TypeOK
<1> SUFFICES ASSUME IInv, Work, PInv PROVE TypeOK  OBVIOUS
<1>1. call \in Calls /\ cfg \in Configs  BY DEF IInv, PInv, Configured
<1>2. phase \in {Phases[k] : k \in DOMAIN Phases} \cup {"raised", "asserted"}
  BY PhaseNames DEF PInv
<1>3. PICK routing \in Seq(SUBSET Experts), m \in Nat \ {0} :
        /\ handle = Layout(routing, m)
        /\ phase \in Forward \cup Backward => routing = call.routing /\ m = cfg["tile_m"]
        /\ phase \notin Forward \cup Backward => routing = << >>
  <2>1. CASE phase \in Forward \cup Backward
    <3>1. call.routing \in Seq(SUBSET Experts)  BY RoutingsAssumption DEF IInv, Calls
    <3>2. cfg["tile_m"] \in Nat \ {0}  BY <2>1, HandleFacts
    <3> QED BY <2>1, <3>1, <3>2 DEF PInv, LaidOut
  <2>2. CASE phase \notin Forward \cup Backward
    <3>1. << >> \in Seq(SUBSET Experts) /\ 1 \in Nat \ {0}  OBVIOUS
    <3> QED BY <2>2, <3>1 DEF PInv, LaidOut
  <2> QED BY <2>1, <2>2
<1>4. PICK h : h = handle  OBVIOUS
<1>5. handle.pool_recv_token \in [Rows -> RecvTokens \cup {-1}]
  <2>1. handle.pool_recv_token = [row \in Rows |-> handle.pool_recv_token[row]]
    BY <1>3 DEF Layout, Rows
  <2>2. ASSUME NEW row \in Rows PROVE handle.pool_recv_token[row] \in RecvTokens \cup {-1}
    <3>1. handle.pool_recv_token[row] \in Tokens(routing) \cup {-1}
      BY <1>3, LayoutRows DEF Rows
    <3>2. Tokens(routing) \subseteq RecvTokens
      BY <1>3 DEF RecvTokens, Tokens
    <3> QED BY <3>1, <3>2
  <2> QED BY <2>1, <2>2
<1>6. ASSUME NEW te \in DOMAIN handle.recv_token_to_slots
      PROVE  LET row == handle.recv_token_to_slots[te]
             IN  row \in Rows /\ handle.pool_recv_token[row] = te[1] /\ ExpertOf(row) = te[2]
  <2>1. /\ handle.recv_token_to_slots = [ue \in Pairs(routing) |-> Slot(routing, ue[1], ue[2], m)]
        /\ \A ue \in Pairs(routing) :
             LET row == handle.recv_token_to_slots[ue]
             IN  /\ row \in DOMAIN handle.pool_recv_token
                 /\ handle.pool_recv_token[row] = ue[1]
                 /\ \A e \in Experts :
                      row \in handle.block_offset[e] * m .. handle.block_offset[e + 1] * m - 1
                        <=> e = ue[2]
    BY <1>3, LayoutSlots
  <2>2. te \in Pairs(routing)  BY <2>1
  <2>3. te[1] \in Tokens(routing) /\ te[2] \in Experts  BY <2>2 DEF Pairs
  <2>4. phase \in Forward \cup Backward
    <3>1. Tokens(<< >>) = {}  BY DEF Tokens
    <3> QED BY <1>3, <2>3, <3>1
  <2>5. m = cfg["tile_m"]  BY <1>3, <2>4
  <2>6. PICK row : row = handle.recv_token_to_slots[te]  OBVIOUS
  <2>7. /\ row \in Rows /\ handle.pool_recv_token[row] = te[1]
        /\ \A e \in Experts :
             row \in handle.block_offset[e] * cfg["tile_m"] .. handle.block_offset[e + 1] * cfg["tile_m"] - 1
               <=> e = te[2]
    BY <2>1, <2>2, <2>5, <2>6 DEF Rows
  <2>8. ExpertOf(row) = te[2]  BY <2>3, <2>7 DEF ExpertOf
  <2> QED BY <2>6, <2>7, <2>8
<1>7. \A cta \in todo : TileRows(cta[1]) \subseteq Rows
                        /\ Stripe(phase, cta[2]) \subseteq 0 .. Width(phase) - 1
  BY CtasInside
<1> QED BY <1>1, <1>2, <1>5, <1>6, <1>7 DEF TypeOK

(* What the theorems below rest on. *)
LEMMA InvHolds == Spec => [](IInv /\ Work /\ PInv)
<1>1. Init => IInv /\ Work /\ PInv  BY InitIInv, InitWork, InitPInv
<1>2. IInv /\ Work /\ PInv /\ [Next]_vars => (IInv /\ Work /\ PInv)'
  BY StepKeeps, WorkKeeps, StepPads
<1> QED BY <1>1, <1>2, PTL DEF Spec

(* Every routed pair has a row of its own in a tile of its expert, and no CTA
   reaches past the pool or its output, for every shape, routing and accepted
   tile config. *)
THEOREM LayerGradsTypes == Spec => []TypeOK
BY InvHolds, TypesFromInv, PTL

-----------------------------------------------------------------------------
(***************************************************************************)
(* The forward is exact: the terms of the reference, pair by pair.         *)
(***************************************************************************)
Routed == Pairs(call.routing)
Row(te) == handle.recv_token_to_slots[te]
Proj(te, c) == SumOver([k \in Hidden |-> w1[te[2]][c][k] * x[te[1]][k]])
Unit(te, i) == RefMask(te[1], te[2], i) * silu(Proj(te, 2 * i)) * Proj(te, 2 * i + 1)
Share(te, h) ==
  topk_weight[te[1]][te[2]] * SumOver([i \in Cols |-> w2[te[2]][h][i] * Unit(te, i)])
Shares(t, h) == [e \in call.routing[t] |-> Share(<<t, e>>, h)]

(* RefRow is the sum of the shares. *)
LEMMA RefIsShares ==
  ASSUME NEW t, NEW h
  PROVE  RefRow(x, topk_weight, w1, w2, t, h) = SumOver(Shares(t, h))
BY DEF RefRow, Shares, Share, Unit, Proj

(* The index sets are finite. *)
LEMMA HiddenFinite == IsFiniteSet(Hidden) /\ IsFiniteSet(Cols) /\ IsFiniteSet(PreCols)
  /\ IsFiniteSet(Experts)
BY ShapeAssumption, RoutingsAssumption, FS_Interval DEF Hidden, Cols, PreCols, Experts

(* Gate and up of a postact column lie side by side in the preact. *)
LEMMA ColumnPair ==
  ASSUME NEW i \in Cols
  PROVE  /\ 2 * i \in PreCols /\ 2 * i + 1 \in PreCols
         /\ (2 * i) \div 2 = i /\ (2 * i + 1) \div 2 = i
<1>1. I \in Nat /\ i \in 0 .. I - 1  BY ShapeAssumption DEF Cols
<1> QED BY <1>1 DEF PreCols

(* What a routed pair stands for. *)
LEMMA PairIs ==
  ASSUME IInv, NEW te \in Routed
  PROVE  /\ te[1] \in RecvTokens /\ te[2] \in Experts /\ te[2] \in call.routing[te[1]]
         /\ te = <<te[1], te[2]>>
         /\ \A h \in Hidden : x[te[1]][h] \in Int
         /\ topk_weight[te[1]][te[2]] \in Int
<1>1. /\ te[1] \in RecvTokens /\ te[2] \in Experts /\ te[2] \in call.routing[te[1]]
      /\ te = <<te[1], te[2]>>
  BY DEF Routed, Pairs, RecvTokens
<1>2. call.routing \in Routings /\ te[1] \in DOMAIN call.routing
  BY <1>1 DEF IInv, Calls, RecvTokens, Tokens
<1> QED BY <1>1, <1>2, ValuesAssumption

(* A projection is an integer, *)
LEMMA ProjType ==
  ASSUME IInv, NEW te \in Routed, NEW c \in PreCols
  PROVE  Proj(te, c) \in Int
<1>1. PICK f : f = [k \in Hidden |-> w1[te[2]][c][k] * x[te[1]][k]]  OBVIOUS
<1>2. ASSUME NEW k \in Hidden PROVE f[k] \in Int
  <2>1. w1[te[2]][c][k] \in Int /\ x[te[1]][k] \in Int  BY PairIs, ValuesAssumption
  <2> QED BY <1>1, <2>1
<1>3. Summable(f)  BY <1>1, <1>2, HiddenFinite DEF Summable
<1> QED BY <1>1, <1>3, SumIsNet DEF Proj

(* The row of a routed pair, as the handle records it. *)
LEMMA RowIsInt ==
  ASSUME IInv, PInv, phase \in Forward \cup Backward, NEW te \in Routed
  PROVE  /\ Row(te) \in Rows /\ Row(te) \in Nat
         /\ handle.pool_recv_token[Row(te)] = te[1]
         /\ handle.pool_topk_weight[Row(te)] = topk_weight[te[1]][te[2]]
         /\ ExpertOf(Row(te)) = te[2]
         /\ Row(te) = Slot(call.routing, te[1], te[2], cfg["tile_m"])
<1>1. /\ call.routing \in Seq(SUBSET Experts)
      /\ cfg["tile_m"] \in Nat \ {0} /\ handle = Layout(call.routing, cfg["tile_m"])
  BY HandleFacts, RoutingsAssumption DEF IInv, Calls, PInv, LaidOut
<1>0. PICK h : h = handle  OBVIOUS
<1>2. PICK m \in Nat \ {0}, routing \in Seq(SUBSET Experts) :
        m = cfg["tile_m"] /\ routing = call.routing /\ h = handle
  BY <1>0, <1>1
<1>3. te \in Pairs(routing)  BY <1>2 DEF Routed
<1>4. /\ h.recv_token_to_slots = [ue \in Pairs(routing) |-> Slot(routing, ue[1], ue[2], m)]
      /\ \A ue \in Pairs(routing) :
           LET row == h.recv_token_to_slots[ue]
           IN  /\ row \in DOMAIN h.pool_recv_token
               /\ h.pool_recv_token[row] = ue[1]
               /\ h.pool_topk_weight[row] = topk_weight[ue[1]][ue[2]]
               /\ \A e \in Experts :
                    row \in h.block_offset[e] * m .. h.block_offset[e + 1] * m - 1 <=> e = ue[2]
  BY <1>1, <1>2, LayoutSlots
<1>5. PICK row : row = Row(te)  OBVIOUS
<1>6. /\ row \in Rows
      /\ handle.pool_recv_token[row] = te[1]
      /\ handle.pool_topk_weight[row] = topk_weight[te[1]][te[2]]
      /\ row = Slot(call.routing, te[1], te[2], cfg["tile_m"])
      /\ \A e \in Experts :
           row \in handle.block_offset[e] * cfg["tile_m"] .. handle.block_offset[e + 1] * cfg["tile_m"] - 1
             <=> e = te[2]
  BY <1>2, <1>3, <1>4, <1>5 DEF Rows, Row
<1>7. te[2] \in Experts  BY PairIs
<1>8. ExpertOf(row) = te[2]  BY <1>6, <1>7 DEF ExpertOf
<1>9. row \in Nat  BY <1>6, HandleFacts
<1> QED BY <1>5, <1>6, <1>8, <1>9

(* The mask of kernel A is the reference's, by the row of the pool. *)
LEMMA MaskType ==
  ASSUME IInv, PInv, phase \in Forward \cup Backward, NEW te \in Routed, NEW i \in Int
  PROVE  /\ KeepScale(Row(te), i) = RefMask(te[1], te[2], i)
         /\ RefMask(te[1], te[2], i) \in Int
<1>1. te = <<te[1], te[2]>>  BY PairIs
<1>2. KeepScale(Row(te), i) = RefMask(te[1], te[2], i)
  BY <1>1 DEF KeepScale, RefMask, Row
<1>3. KeepScale(Row(te), i) \in Int  BY DEF KeepScale
<1> QED BY <1>2, <1>3

(* ... a masked unit is one, *)
LEMMA UnitType ==
  ASSUME IInv, PInv, phase \in Forward \cup Backward, NEW te \in Routed, NEW i \in Cols
  PROVE  Unit(te, i) \in Int
<1>1. PICK a \in Int, b \in Int, r \in Int :
        a = Proj(te, 2 * i) /\ b = Proj(te, 2 * i + 1) /\ r = RefMask(te[1], te[2], i)
  BY ColumnPair, ProjType, MaskType DEF Cols
<1>2. silu(a) = a * a  BY PlusOfInts DEF silu
<1>3. Unit(te, i) = r * (a * a) * b  BY <1>1, <1>2 DEF Unit
<1> QED BY <1>1, <1>3

(* ... a share is one, *)
LEMMA ShareType ==
  ASSUME IInv, PInv, phase \in Forward \cup Backward, NEW te \in Routed, NEW h \in Hidden
  PROVE  /\ Share(te, h) \in Int
         /\ SumOver([i \in Cols |-> w2[te[2]][h][i] * Unit(te, i)]) \in Int
<1>1. PICK f : f = [i \in Cols |-> w2[te[2]][h][i] * Unit(te, i)]  OBVIOUS
<1>2. ASSUME NEW i \in Cols PROVE f[i] \in Int
  <2>1. w2[te[2]][h][i] \in Int /\ Unit(te, i) \in Int  BY PairIs, UnitType, ValuesAssumption
  <2> QED BY <1>1, <2>1
<1>3. Summable(f)  BY <1>1, <1>2, HiddenFinite DEF Summable
<1>4. SumOver(f) \in Int  BY <1>3, SumIsNet
<1>5. topk_weight[te[1]][te[2]] \in Int  BY PairIs
<1> QED BY <1>1, <1>4, <1>5 DEF Share

(* ... and so the shares of a token can be summed. *)
LEMMA SharesType ==
  ASSUME IInv, PInv, phase \in Forward \cup Backward, NEW t \in RecvTokens, NEW h \in Hidden
  PROVE  /\ Summable(Shares(t, h)) /\ DOMAIN Shares(t, h) = call.routing[t]
         /\ \A e \in call.routing[t] : <<t, e>> \in Routed /\ Shares(t, h)[e] = Share(<<t, e>>, h)
<1>1. call.routing \in Seq(SUBSET Experts) /\ t \in DOMAIN call.routing
  BY RoutingsAssumption DEF IInv, Calls, RecvTokens, Tokens
<1>2. call.routing[t] \in SUBSET Experts  BY <1>1
<1>3. IsFiniteSet(call.routing[t])  BY <1>2, HiddenFinite, FS_Subset
<1>4. ASSUME NEW e \in call.routing[t] PROVE <<t, e>> \in Routed
  BY <1>1, <1>2 DEF Routed, Pairs, Tokens
<1>5. ASSUME NEW e \in call.routing[t] PROVE Shares(t, h)[e] \in Int
  BY <1>4, ShareType DEF Shares
<1> QED BY <1>3, <1>4, <1>5 DEF Shares, Summable

PoolFilled == mem.pool = Delivered(handle, x)

(* The accumulator of kernel A in a routed row is the reference's projection. *)
LEMMA PreactIs ==
  ASSUME IInv, PInv, phase \in Forward \cup Backward, PoolFilled,
         NEW te \in Routed, NEW c \in PreCols
  PROVE  Preact(Row(te), c) = Proj(te, c)
<1>1. PICK row, t, e : row = Row(te) /\ t = te[1] /\ e = te[2]  OBVIOUS
<1>2. row \in Rows /\ handle.pool_recv_token[row] = t /\ ExpertOf(row) = e
  BY <1>1, RowIsInt
<1>3. PICK f : f = [k \in Hidden |-> Times(mem.pool[<<row, k>>], w1[ExpertOf(row)][c][k])]
  OBVIOUS
<1>4. PICK g : g = [k \in Hidden |-> w1[e][c][k] * x[t][k]]  OBVIOUS
<1>5. ASSUME NEW k \in Hidden PROVE f[k] = g[k]
  <2>1. mem.pool[<<row, k>>] = x[t][k]
    <3>1. <<row, k>> \in (DOMAIN handle.pool_recv_token) \X Hidden  BY <1>2 DEF Rows
    <3>2. ~(t < 0)
      <4>1. t \in RecvTokens  BY <1>1, PairIs
      <4>2. t \in Nat
        <5>1. call.routing \in Seq(SUBSET Experts)  BY RoutingsAssumption DEF IInv, Calls
        <5> QED BY <4>1, <5>1 DEF RecvTokens, Tokens
      <4> QED BY <4>2
    <3> QED BY <1>2, <3>1, <3>2 DEF PoolFilled, Delivered
  <2>2. w1[e][c][k] \in Int /\ x[t][k] \in Int  BY <1>1, PairIs, ValuesAssumption
  <2>3. f[k] = x[t][k] * w1[e][c][k]
    BY <1>2, <1>3, <2>1, <2>2, PlusOfInts
  <2> QED BY <1>4, <2>2, <2>3
<1>6. f = g  BY <1>3, <1>4, <1>5
<1>7. Preact(row, c) = SumOver(f)  BY <1>3 DEF Preact, Dot
<1>8. Proj(te, c) = SumOver(g)  BY <1>1, <1>4 DEF Proj
<1> QED BY <1>1, <1>6, <1>7, <1>8

(* What kernel A stores of a routed row is the reference's masked unit. *)
LEMMA PostIs ==
  ASSUME IInv, PInv, phase \in Forward \cup Backward, PoolFilled,
         NEW te \in Routed, NEW i \in Cols
  PROVE  Masked(Row(te), i, Times(silu(Preact(Row(te), 2 * i)), Preact(Row(te), 2 * i + 1)))
           = Unit(te, i)
<1>1. PICK a \in Int, b \in Int, r \in Int :
        a = Proj(te, 2 * i) /\ b = Proj(te, 2 * i + 1) /\ r = RefMask(te[1], te[2], i)
  BY ColumnPair, ProjType, MaskType DEF Cols
<1>2. Preact(Row(te), 2 * i) = a /\ Preact(Row(te), 2 * i + 1) = b
  BY <1>1, ColumnPair, PreactIs
<1>3. KeepScale(Row(te), MaskColumn(2 * i)) = r
  <2>1. MaskColumn(2 * i) = i  BY ColumnPair DEF MaskColumn
  <2>2. i \in Int  BY DEF Cols
  <2> QED BY <1>1, <2>1, <2>2, MaskType
<1>4. silu(a) = a * a /\ a * a \in Int  BY PlusOfInts DEF silu
<1>5. Times(silu(a), b) = (a * a) * b /\ (a * a) * b \in Int  BY <1>4, PlusOfInts
<1>6. Times(Times(silu(a), b), r) = ((a * a) * b) * r  BY <1>5, PlusOfInts
<1>7. Unit(te, i) = r * (a * a) * b  BY <1>1, <1>4 DEF Unit
<1>8. ((a * a) * b) * r = r * (a * a) * b
  <2>1. PICK s \in Int : s = a * a  BY <1>4
  <2>2. (s * b) * r = r * s * b  OBVIOUS
  <2> QED BY <2>1, <2>2
<1>9. Masked(Row(te), i, Times(silu(a), b)) = Times(Times(silu(a), b), r)
  BY <1>3 DEF Masked
<1> QED BY <1>2, <1>6, <1>7, <1>8, <1>9

(* What kernel Y adds for a routed row is the reference's share. *)
LEMMA ExpertIs ==
  ASSUME IInv, PInv, phase \in Forward \cup Backward, NEW te \in Routed, NEW h \in Hidden,
         \A i \in Cols : mem.postact[<<Row(te), i>>] = Unit(te, i)
  PROVE  Times(handle.pool_topk_weight[Row(te)], Expert(Row(te), h)) = Share(te, h)
<1>1. PICK row, t, e : row = Row(te) /\ t = te[1] /\ e = te[2]  OBVIOUS
<1>2. handle.pool_topk_weight[row] = topk_weight[t][e] /\ ExpertOf(row) = e
  BY <1>1, RowIsInt
<1>3. PICK f : f = [i \in Cols |-> Times(mem.postact[<<row, i>>], w2[ExpertOf(row)][h][i])]
  OBVIOUS
<1>4. PICK g : g = [i \in Cols |-> w2[e][h][i] * Unit(te, i)]  OBVIOUS
<1>5. ASSUME NEW i \in Cols PROVE f[i] = g[i]
  <2>1. mem.postact[<<row, i>>] = Unit(te, i)  BY <1>1
  <2>2. w2[e][h][i] \in Int /\ Unit(te, i) \in Int  BY <1>1, PairIs, UnitType, ValuesAssumption
  <2>3. f[i] = Unit(te, i) * w2[e][h][i]  BY <1>2, <1>3, <2>1, <2>2, PlusOfInts
  <2> QED BY <1>4, <2>2, <2>3
<1>6. f = g  BY <1>3, <1>4, <1>5
<1>7. Expert(row, h) = SumOver(f)  BY <1>3 DEF Expert, Dot
<1>8. SumOver(g) \in Int  BY <1>1, <1>4, ShareType
<1>9. topk_weight[t][e] \in Int  BY <1>1, PairIs
<1>10. Share(te, h) = topk_weight[t][e] * SumOver(g)  BY <1>1, <1>4 DEF Share
<1>11. Times(topk_weight[t][e], SumOver(g)) = topk_weight[t][e] * SumOver(g)
  BY <1>8, <1>9, PlusOfInts
<1> QED BY <1>1, <1>2, <1>6, <1>7, <1>10, <1>11

(* The rows of a token are the rows of its pairs, one each. *)
LEMMA RowsOfToken ==
  ASSUME IInv, PInv, phase \in Forward \cup Backward, NEW t \in RecvTokens
  PROVE  /\ \A e \in call.routing[t] : <<t, e>> \in Routed /\ Row(<<t, e>>) \in SlotsOf(t)
         /\ \A row \in SlotsOf(t) : \E e \in call.routing[t] : row = Row(<<t, e>>)
         /\ \A d, e \in call.routing[t] : Row(<<t, d>>) = Row(<<t, e>>) => d = e
<1>1. /\ call.routing \in Seq(SUBSET Experts)
      /\ cfg["tile_m"] \in Nat \ {0} /\ handle = Layout(call.routing, cfg["tile_m"])
  BY HandleFacts, RoutingsAssumption DEF IInv, Calls, PInv, LaidOut
<1>2. t \in Nat /\ t # -1
  <2>1. t \in Nat  BY <1>1 DEF RecvTokens, Tokens
  <2> QED BY <2>1
<1>3. ASSUME NEW e \in call.routing[t] PROVE <<t, e>> \in Routed
  <2>1. t \in DOMAIN call.routing  BY DEF RecvTokens, Tokens
  <2>2. e \in Experts  BY <1>1, <2>1
  <2> QED BY <2>1, <2>2 DEF Routed, Pairs, Tokens
<1>4. ASSUME NEW e \in call.routing[t] PROVE Row(<<t, e>>) \in SlotsOf(t)
  BY <1>3, RowIsInt DEF SlotsOf
<1>5. ASSUME NEW row \in SlotsOf(t) PROVE \E e \in call.routing[t] : row = Row(<<t, e>>)
  <2>1. row \in Rows /\ handle.pool_recv_token[row] = t  BY DEF SlotsOf
  <2>2. PICK te \in Pairs(call.routing) : handle.recv_token_to_slots[te] = row
    <3>0. PICK h : h = handle  OBVIOUS
    <3>1. PICK m \in Nat \ {0}, routing \in Seq(SUBSET Experts) :
            m = cfg["tile_m"] /\ routing = call.routing /\ h = handle /\ h = Layout(routing, m)
      BY <3>0, <1>1
    <3>2. row \in DOMAIN h.pool_recv_token  BY <2>1, <3>1 DEF Rows
    <3>3. h.pool_recv_token[row] = -1 \/ Owned(h, row)  BY <3>1, <3>2, RowIsOwned
    <3>4. h.pool_recv_token[row] # -1  BY <1>2, <2>1, <3>1
    <3>5. DOMAIN h.recv_token_to_slots = Pairs(routing)  BY <3>1, SlotsDomain
    <3> QED BY <3>1, <3>3, <3>4, <3>5 DEF Owned
  <2>3. te \in Routed /\ Row(te) = row  BY <2>2 DEF Routed, Row
  <2>4. te[1] = t  BY <2>1, <2>3, RowIsInt
  <2>5. te[2] \in call.routing[te[1]] /\ te = <<te[1], te[2]>>  BY <2>3, PairIs
  <2> QED BY <2>3, <2>4, <2>5
<1>6. ASSUME NEW d \in call.routing[t], NEW e \in call.routing[t], Row(<<t, d>>) = Row(<<t, e>>)
      PROVE  d = e
  <2>1. <<t, d>> \in Pairs(call.routing) /\ <<t, e>> \in Pairs(call.routing)
    BY <1>3 DEF Routed
  <2>2. /\ Row(<<t, d>>) = Slot(call.routing, t, d, cfg["tile_m"])
        /\ Row(<<t, e>>) = Slot(call.routing, t, e, cfg["tile_m"])
    BY <1>3, RowIsInt
  <2>3. PICK p, q : p = <<t, d>> /\ q = <<t, e>>  OBVIOUS
  <2>4. /\ p \in Pairs(call.routing) /\ q \in Pairs(call.routing)
        /\ Slot(call.routing, p[1], p[2], cfg["tile_m"]) = Slot(call.routing, q[1], q[2], cfg["tile_m"])
    BY <1>6, <2>1, <2>2, <2>3
  <2>5. p = q  BY <1>1, <2>4, Slots
  <2> QED BY <2>3, <2>5
<1> QED BY <1>3, <1>4, <1>5, <1>6

(* The sum a CTA of kernel Y adds to a token's output is the sum of the shares
   of the token's rows in the tile. *)
LEMMA ScatterAdds ==
  ASSUME IInv, PInv, phase \in Forward \cup Backward, NEW t \in RecvTokens, NEW h \in Hidden,
         NEW rows, \A te \in Routed, i \in Cols : mem.postact[<<Row(te), i>>] = Unit(te, i)
  PROVE  SumOver([row \in rows \cap SlotsOf(t) |->
                    Times(handle.pool_topk_weight[row], Expert(row, h))])
           = Net(Shares(t, h), {e \in call.routing[t] : Row(<<t, e>>) \in rows})
<1>1. PICK A : A = {e \in call.routing[t] : Row(<<t, e>>) \in rows}  OBVIOUS
<1>2. PICK f : f = Shares(t, h)  OBVIOUS
<1>3. PICK g : g = [row \in rows \cap SlotsOf(t) |->
                      Times(handle.pool_topk_weight[row], Expert(row, h))]
  OBVIOUS
<1>4. PICK b : b = [e \in A |-> Row(<<t, e>>)]  OBVIOUS
<1>5. Summable(f) /\ A \in SUBSET DOMAIN f  BY <1>1, <1>2, SharesType
<1>6. DOMAIN g = rows \cap SlotsOf(t)  BY <1>3
<1>7. ASSUME NEW e \in A PROVE b[e] = Row(<<t, e>>) /\ b[e] \in DOMAIN g
  BY <1>1, <1>4, <1>6, RowsOfToken
<1>8. b \in [A -> DOMAIN g]  BY <1>4, <1>7
<1>9. ASSUME NEW y \in DOMAIN g PROVE \E e \in A : b[e] = y
  <2>1. PICK e \in call.routing[t] : y = Row(<<t, e>>)  BY <1>6, RowsOfToken
  <2>2. e \in A  BY <1>1, <1>6, <2>1
  <2> QED BY <1>7, <2>1, <2>2
<1>10. ASSUME NEW d \in A, NEW e \in A, b[d] = b[e] PROVE d = e
  <2>1. Row(<<t, d>>) = Row(<<t, e>>)  BY <1>7, <1>10
  <2> QED BY <1>1, <2>1, RowsOfToken
<1>11. ASSUME NEW e \in A PROVE f[e] = g[b[e]]
  <2>1. e \in call.routing[t]  BY <1>1
  <2>2. PICK te : te = <<t, e>> /\ te \in Routed  BY <2>1, RowsOfToken
  <2>3. f[e] = Share(te, h)  BY <1>2, <2>1, <2>2, SharesType
  <2>4. Times(handle.pool_topk_weight[Row(te)], Expert(Row(te), h)) = Share(te, h)
    BY <2>2, ExpertIs
  <2>5. g[b[e]] = Times(handle.pool_topk_weight[Row(te)], Expert(Row(te), h))
    BY <1>3, <1>6, <1>7, <2>2
  <2> QED BY <2>3, <2>4, <2>5
<1>12. SumOver(g) = Net(f, A)
  BY <1>5, <1>8, <1>9, <1>10, <1>11, Reindexed
<1> QED BY <1>1, <1>2, <1>3, <1>12

(* An element of a kernel's output belongs to one CTA. *)
LEMMA CtaIsOne ==
  ASSUME NEW p \in Kernels, NEW tiles \in Nat, TileN(p) \in Nat \ {0},
         cfg["tile_m"] \in Nat \ {0}, NEW a \in Ctas(p, tiles), NEW b \in Ctas(p, tiles),
         NEW row, row \in TileRows(a[1]), row \in TileRows(b[1]),
         NEW col, col \in Stripe(p, a[2]), col \in Stripe(p, b[2])
  PROVE  a = b
<1>1. PICK A, B : A = 0 .. tiles - 1 /\ B = 0 .. CeilDiv(Width(p), TileN(p)) - 1  OBVIOUS
<1>2. a \in A \X B /\ b \in A \X B  BY <1>1 DEF Ctas
<1>3. a = <<a[1], a[2]>> /\ b = <<b[1], b[2]>>  BY <1>2
<1>4. a[1] \in A /\ b[1] \in A /\ a[2] \in B /\ b[2] \in B  BY <1>2
<1>5. a[1] \in Nat /\ b[1] \in Nat /\ a[2] \in Nat /\ b[2] \in Nat  BY <1>1, <1>4
<1>6. a[1] = b[1]  BY <1>5, ShareIsOne DEF TileRows
<1>7. a[2] = b[2]  BY <1>5, ShareIsOne DEF Stripe
<1> QED BY <1>3, <1>6, <1>7

(* The forward's operations in their order; without tiles there is no kernel. *)
LEMMA AfterForward ==
  ASSUME NEW tiles \in Nat
  PROVE  /\ tiles > 0 => After("dispatch", tiles) = "kernel_a" /\ After("kernel_a", tiles) = "kernel_y"
         /\ tiles = 0 => After("dispatch", tiles) \in {"compress", "dispatch_grads"}
         /\ After("kernel_y", tiles) \in {"compress", "dispatch_grads"}
         /\ After("compress", tiles) = "dispatch_grads"
<1>1. /\ Phases[2] = "dispatch" /\ Phases[3] = "kernel_a" /\ Phases[4] = "kernel_y"
      /\ Phases[5] = "compress" /\ Phases[6] = "dispatch_grads"
  BY DEF Phases
<1>2. /\ Runs(Phases[6], tiles)
      /\ tiles > 0 => Runs(Phases[3], tiles) /\ Runs(Phases[4], tiles)
      /\ tiles = 0 => ~Runs(Phases[3], tiles) /\ ~Runs(Phases[4], tiles)
  BY <1>1 DEF Runs, Kernels
<1>3. ASSUME NEW k \in 2 .. 5
      PROVE  \E q \in k + 1 .. 6 :
               /\ After(Phases[k], tiles) = Phases[q] /\ Runs(Phases[q], tiles)
               /\ \A j \in k + 1 .. 12 : Runs(Phases[j], tiles) => q <= j
  <2>1. PICK q \in k + 1 .. 12 :
          /\ After(Phases[k], tiles) = Phases[q] /\ Runs(Phases[q], tiles)
          /\ \A j \in k + 1 .. 12 : Runs(Phases[j], tiles) => q <= j
    BY AfterIsNext
  <2>2. q <= 6  BY <1>2, <2>1
  <2>3. q \in k + 1 .. 6  BY <2>1, <2>2
  <2> QED BY <2>1, <2>3
<1>4. PICK a \in 3 .. 6 : /\ After(Phases[2], tiles) = Phases[a] /\ Runs(Phases[a], tiles)
                          /\ \A j \in 3 .. 12 : Runs(Phases[j], tiles) => a <= j
  <2>1. 2 \in 2 .. 5 /\ 2 + 1 = 3  OBVIOUS
  <2> QED BY <1>3, <2>1
<1>5. PICK b \in 4 .. 6 : /\ After(Phases[3], tiles) = Phases[b] /\ Runs(Phases[b], tiles)
                          /\ \A j \in 4 .. 12 : Runs(Phases[j], tiles) => b <= j
  <2>1. 3 \in 2 .. 5 /\ 3 + 1 = 4  OBVIOUS
  <2> QED BY <1>3, <2>1
<1>6. PICK c \in 5 .. 6 : After(Phases[4], tiles) = Phases[c]
  <2>1. 4 \in 2 .. 5 /\ 4 + 1 = 5  OBVIOUS
  <2> QED BY <1>3, <2>1
<1>7. PICK d \in 6 .. 6 : After(Phases[5], tiles) = Phases[d]
  <2>1. 5 \in 2 .. 5 /\ 5 + 1 = 6  OBVIOUS
  <2> QED BY <1>3, <2>1
<1>8. tiles > 0 => a = 3 /\ b = 4  BY <1>2, <1>4, <1>5
<1>9. tiles = 0 => a \in {5, 6}
  <2>1. a \in {3, 4, 5, 6}  BY <1>4
  <2> QED BY <1>2, <1>4, <2>1
<1>10. tiles > 0 => After("dispatch", tiles) = "kernel_a" /\ After("kernel_a", tiles) = "kernel_y"
  BY <1>1, <1>4, <1>5, <1>8
<1>11. tiles = 0 => After("dispatch", tiles) \in {"compress", "dispatch_grads"}
  BY <1>1, <1>4, <1>9
<1>12. After("kernel_y", tiles) \in {"compress", "dispatch_grads"}
  <2>1. c \in {5, 6}  BY <1>6
  <2> QED BY <1>1, <1>6, <2>1
<1>13. After("compress", tiles) = "dispatch_grads"
  <2>1. d = 6  BY <1>7
  <2> QED BY <1>1, <1>7, <2>1
<1> QED BY <1>10, <1>11, <1>12, <1>13

-----------------------------------------------------------------------------
(* A CTA left to finish covers the element of kernel p's output. *)
Left(p, row, col) == \E cta \in todo : row \in TileRows(cta[1]) /\ col \in Stripe(p, cta[2])

(* The postact of a routed row is the reference's once its CTA has finished. *)
PostReady ==
  phase \in {"kernel_a", "kernel_y"} =>
    /\ phase = "kernel_a" => PoolFilled
    /\ DOMAIN mem.postact = Rows \X Cols
    /\ \A te \in Routed, i \in Cols :
         \/ phase = "kernel_a" /\ Left("kernel_a", Row(te), 2 * i)
         \/ mem.postact[<<Row(te), i>>] = Unit(te, i)

(* The output of a token holds the shares of the experts whose CTA has run. *)
Landed(t, h) ==
  {e \in call.routing[t] : /\ phase # "kernel_a"
                           /\ phase = "kernel_y" => ~Left("kernel_y", Row(<<t, e>>), h)}
OutReady ==
  phase \in Forward =>
    /\ DOMAIN mem.o = RecvTokens \X Hidden
    /\ \A t \in RecvTokens, h \in Hidden : mem.o[<<t, h>>] = Net(Shares(t, h), Landed(t, h))
FInv == PostReady /\ OutReady

(* The invariant says what ForwardExact says. *)
LEMMA ForwardFromInv == IInv /\ PInv /\ FInv => ForwardExact
<1> SUFFICES ASSUME IInv, PInv, FInv, phase \in {"compress", "dispatch_grads"},
                    NEW t \in RecvTokens, NEW h \in Hidden
             PROVE  mem.o[<<t, h>>] = RefRow(x, topk_weight, w1, w2, t, h)
  BY DEF ForwardExact
<1>1. phase \in Forward  BY DEF Forward
<1>2. PICK f : f = Shares(t, h)  OBVIOUS
<1>3. Summable(f) /\ DOMAIN f = call.routing[t]  BY <1>1, <1>2, SharesType
<1>4. Landed(t, h) = DOMAIN f  BY <1>3 DEF Landed
<1>5. mem.o[<<t, h>>] = Net(f, DOMAIN f)  BY <1>1, <1>2, <1>4 DEF FInv, OutReady
<1>6. SumOver(f) = Net(f, DOMAIN f)  BY <1>3, SumIsNet
<1> QED BY <1>2, <1>5, <1>6, RefIsShares

(* Nothing is claimed of the output before dispatch and once it is combined. *)
LEMMA OutsideForward == phase' \notin Forward => FInv'
BY DEF FInv, PostReady, OutReady, Forward

(* Kernels A and Y cover a routed row in all of their columns. *)
LEMMA RoutedCovered ==
  ASSUME IInv, Configured, phase \notin {"call", "raised"},
         NEW routing \in Seq(SUBSET Experts), NEW h, h = Layout(routing, cfg["tile_m"]),
         NEW te \in Pairs(routing), NEW p \in {"kernel_a", "kernel_y"},
         NEW col \in 0 .. Width(p) - 1
  PROVE  /\ h.total_tiles \in Nat /\ h.total_tiles > 0
         /\ \E cta \in Ctas(p, h.total_tiles) :
              h.recv_token_to_slots[te] \in TileRows(cta[1]) /\ col \in Stripe(p, cta[2])
<1>1. PICK m \in Nat \ {0} : m = cfg["tile_m"]
  BY DEF Configured, Configs, Knobs
<1>2. h = Layout(routing, m)  BY <1>1
<1>3. PICK n \in Nat : n = h.total_tiles /\ DOMAIN h.pool_recv_token = 0 .. n * m - 1
  BY <1>2, LayoutRows
<1>4. PICK row : row = h.recv_token_to_slots[te]  OBVIOUS
<1>5. row \in 0 .. n * m - 1  BY <1>2, <1>3, <1>4, LayoutSlots
<1>6. n # 0  BY <1>1, <1>5
<1>7. TileN(p) \in Nat \ {0} /\ Width(p) \in Nat
  BY ShapeAssumption DEF Configured, Configs, Knobs, TileNs, TileN, Width
<1>8. p \in Kernels  BY DEF Kernels
<1>9. \E cta \in Ctas(p, n) : row \in TileRows(cta[1]) /\ col \in Stripe(p, cta[2])
  BY <1>1, <1>5, <1>7, <1>8, CtasCover
<1> QED BY <1>3, <1>4, <1>6, <1>9

(* Dispatch fills the pool and zeroes the output, with every CTA to come. *)
LEMMA DispatchExact == IInv /\ PInv /\ Dispatch => FInv'
<1> SUFFICES ASSUME IInv, PInv, Dispatch PROVE FInv'  OBVIOUS
<1>1. /\ phase = "dispatch" /\ UNCHANGED <<call, cfg>>
      /\ handle' = Layout(call.routing, cfg["tile_m"])
      /\ Proceed("dispatch", handle'.total_tiles)
      /\ mem' = [pool |-> Delivered(handle', x),
                 preact |-> Fresh(Rows', PreCols), postact |-> Fresh(Rows', Cols),
                 o |-> Zeros(RecvTokens, Hidden), x_recv |-> Fresh(RecvTokens, Hidden)]
  BY DEF Dispatch
<1>2. Configured /\ phase \notin {"call", "raised"} /\ cfg["tile_m"] \in Nat \ {0}
  BY <1>1 DEF PInv, Configured, Configs, Knobs
<1>3. call.routing \in Seq(SUBSET Experts)  BY RoutingsAssumption DEF IInv, Calls
<1>4. PICK h : h = handle'  OBVIOUS
<1>5. h = Layout(call.routing, cfg["tile_m"])  BY <1>1, <1>4
<1>6. PICK n \in Nat : n = h.total_tiles  BY <1>2, <1>3, <1>5, LayoutRows
<1>7. phase' = After("dispatch", n) /\ todo' = Ctas(After("dispatch", n), n)
  BY <1>1, <1>2, <1>4, <1>6, ProceedTo
<1>8. phase' # "kernel_y" /\ (n > 0 => phase' = "kernel_a") /\ (n = 0 => phase' # "kernel_a")
  BY <1>6, <1>7, AfterForward
<1>9. Routed' = Pairs(call.routing) /\ RecvTokens' = RecvTokens
  BY <1>1 DEF Routed, RecvTokens
<1>10. PostReady'
  <2> SUFFICES ASSUME phase' = "kernel_a" PROVE PostReady'
    BY <1>8 DEF PostReady
  <2>1. mem'.pool = Delivered(handle', x) /\ mem'.postact = Fresh(Rows', Cols)
    BY <1>1
  <2>2. PoolFilled'  BY <2>1 DEF PoolFilled
  <2>3. DOMAIN mem'.postact = Rows' \X Cols  BY <2>1 DEF Fresh
  <2>4. ASSUME NEW te \in Pairs(call.routing), NEW i \in Cols
        PROVE  Left("kernel_a", Row(te), 2 * i)'
    <3>1. Width("kernel_a") = 2 * I  BY DEF Width
    <3>2. 2 * i \in 0 .. Width("kernel_a") - 1
      BY <3>1, ColumnPair DEF PreCols
    <3>3. PICK cta \in Ctas("kernel_a", n) :
            h.recv_token_to_slots[te] \in TileRows(cta[1]) /\ 2 * i \in Stripe("kernel_a", cta[2])
      BY <1>2, <1>3, <1>5, <1>6, <3>2, RoutedCovered
    <3>4. n > 0  BY <1>8, <1>6
    <3>5. cta \in todo'  BY <1>7, <1>6, <3>4, <3>3, AfterForward
    <3>6. TileRows(cta[1])' = TileRows(cta[1])
          /\ Stripe("kernel_a", cta[2])' = Stripe("kernel_a", cta[2])
      BY <1>1 DEF TileRows, Stripe, TileN
    <3>7. Row(te)' = h.recv_token_to_slots[te]  BY <1>4 DEF Row
    <3> QED BY <3>3, <3>5, <3>6, <3>7 DEF Left
  <2> QED BY <1>9, <2>2, <2>3, <2>4 DEF PostReady
<1>11. OutReady'
  <2>1. mem'.o = Zeros(RecvTokens, Hidden)  BY <1>1
  <2>2. DOMAIN mem'.o = RecvTokens \X Hidden  BY <2>1 DEF Zeros
  <2>3. ASSUME NEW t \in RecvTokens, NEW c \in Hidden
        PROVE  mem'.o[<<t, c>>] = Net(Shares(t, c), Landed(t, c))'
    <3>1. mem'.o[<<t, c>>] = 0  BY <2>1 DEF Zeros
    <3>2. Landed(t, c)' = {}
      <4>1. CASE n > 0
        BY <1>8, <4>1 DEF Landed
      <4>2. CASE n = 0
        <5>1. ASSUME NEW e \in call.routing[t] PROVE FALSE
          <6>1. t \in DOMAIN call.routing  BY DEF RecvTokens, Tokens
          <6>2. call.routing[t] \in SUBSET Experts  BY <1>3, <6>1
          <6>3. <<t, e>> \in Pairs(call.routing)  BY <6>1, <6>2 DEF Pairs, Tokens
          <6>4. 0 \in 0 .. Width("kernel_y") - 1
            <7>1. Width("kernel_y") = H  BY DEF Width
            <7> QED BY <7>1, ShapeAssumption
          <6>5. h.total_tiles > 0  BY <1>2, <1>3, <1>5, <6>3, <6>4, RoutedCovered
          <6> QED BY <1>6, <4>2, <6>5
        <5>2. Landed(t, c)' \in SUBSET call.routing[t]  BY <1>1 DEF Landed
        <5> QED BY <5>1, <5>2
      <4> QED BY <1>6, <4>1, <4>2
    <3>3. PICK f : f = Shares(t, c)'  OBVIOUS
    <3>4. Net(f, {}) = 0  BY NetOfNone
    <3>5. PICK L : L = Landed(t, c)'  OBVIOUS
    <3>6. Net(f, L) = 0  BY <3>2, <3>4, <3>5
    <3>7. Net(Shares(t, c), Landed(t, c))' = Net(f, L)
      BY <3>3, <3>5 DEF Net, Gain, Loss, PairsIn
    <3> QED BY <3>1, <3>6, <3>7
  <2> QED BY <1>9, <2>2, <2>3 DEF OutReady
<1> QED BY <1>10, <1>11 DEF FInv

(* What a step that leaves call, cfg and handle alone leaves alone. *)
LEMMA SameTerms ==
  ASSUME UNCHANGED <<call, cfg, handle>>
  PROVE  /\ Routed' = Routed /\ RecvTokens' = RecvTokens /\ Rows' = Rows
         /\ \A te : Row(te)' = Row(te)
         /\ \A te, i : Unit(te, i)' = Unit(te, i)
         /\ \A t, h : Shares(t, h)' = Shares(t, h)
         /\ \A k : TileRows(k)' = TileRows(k)
         /\ \A p, k : Stripe(p, k)' = Stripe(p, k)
<1>1. Routed' = Routed /\ RecvTokens' = RecvTokens /\ Rows' = Rows
  BY DEF Routed, RecvTokens, Rows
<1>2. ASSUME NEW te PROVE Row(te)' = Row(te)  BY DEF Row
<1>3. ASSUME NEW te, NEW i PROVE Unit(te, i)' = Unit(te, i)
  BY DEF Unit, Proj, RefMask
<1>4. ASSUME NEW t, NEW h PROVE Shares(t, h)' = Shares(t, h)
  BY <1>3 DEF Shares, Share
<1>5. ASSUME NEW k PROVE TileRows(k)' = TileRows(k)  BY DEF TileRows
<1>6. ASSUME NEW p, NEW k PROVE Stripe(p, k)' = Stripe(p, k)  BY DEF Stripe, TileN
<1> QED BY <1>1, <1>2, <1>3, <1>4, <1>5, <1>6

(* A CTA of kernel A stores the reference's units in the routed rows of its
   tile, and changes no other routed element. *)
LEMMA KernelAWrites ==
  ASSUME IInv, PInv, PostReady, NEW cta, KernelA(cta)
  PROVE  /\ mem'.pool = mem.pool /\ mem'.o = mem.o
         /\ DOMAIN mem'.postact = DOMAIN mem.postact
         /\ \A te \in Routed, i \in Cols :
              LET new == mem'.postact[<<Row(te), i>>]
              IN  /\ new = Unit(te, i) \/ new = mem.postact[<<Row(te), i>>]
                  /\ Row(te) \in TileRows(cta[1]) /\ 2 * i \in Stripe("kernel_a", cta[2])
                       => new = Unit(te, i)
<1>1. phase = "kernel_a" /\ phase \in Forward /\ phase \in Forward \cup Backward
  BY DEF KernelA, Forward
<1>2. PoolFilled /\ DOMAIN mem.postact = Rows \X Cols /\ DOMAIN mem = OutFields
  BY <1>1 DEF PostReady, PInv, Allocated
<1> DEFINE rows == TileRows(cta[1])
           cols == Stripe("kernel_a", cta[2])
           pairs == {c \div 2 : c \in cols}
           V(row, i) == Masked(row, i, Times(silu(Preact(row, 2 * i)), Preact(row, 2 * i + 1)))
           S == rows \X pairs
           A == IF call.level = 0 THEN Store(mem.preact, rows \X cols, SavedPreact) ELSE mem.preact
<1>3. mem' = [mem EXCEPT !.preact = A, !.postact = Store(@, S, V)]
  BY DEF KernelA
<1>4. mem'.pool = mem.pool /\ mem'.o = mem.o /\ mem'.postact = Store(mem.postact, S, V)
  <2> HIDE DEF A, S, V
  <2> QED BY <1>2, <1>3 DEF OutFields
<1>5. ASSUME NEW te \in Routed, NEW i \in Cols PROVE V(Row(te), i) = Unit(te, i)
  BY <1>1, <1>2, PostIs
<1> HIDE DEF V
<1>6. /\ DOMAIN Store(mem.postact, S, V) = DOMAIN mem.postact
      /\ \A rc \in DOMAIN mem.postact :
           Store(mem.postact, S, V)[rc] = IF rc \in S THEN V(rc[1], rc[2]) ELSE mem.postact[rc]
  <2> HIDE DEF S
  <2> QED BY DEF Store
<1>7. ASSUME NEW te \in Routed, NEW i \in Cols
      PROVE  /\ \/ mem'.postact[<<Row(te), i>>] = Unit(te, i)
                \/ mem'.postact[<<Row(te), i>>] = mem.postact[<<Row(te), i>>]
             /\ Row(te) \in rows /\ 2 * i \in cols
                  => mem'.postact[<<Row(te), i>>] = Unit(te, i)
  <2>1. PICK rc : rc = <<Row(te), i>>  OBVIOUS
  <2>2. rc \in DOMAIN mem.postact  BY <1>1, <1>2, <2>1, RowIsInt
  <2>3. V(rc[1], rc[2]) = Unit(te, i)  BY <1>5, <2>1
  <2>4. mem'.postact[rc] = IF rc \in S THEN Unit(te, i) ELSE mem.postact[rc]
    <3> HIDE DEF S
    <3> QED BY <1>4, <1>6, <2>2, <2>3
  <2>5. Row(te) \in rows /\ 2 * i \in cols => rc \in S
    <3>1. (2 * i) \div 2 = i  BY ColumnPair
    <3>2. 2 * i \in cols => i \in pairs
      <4> HIDE DEF cols
      <4> QED BY <3>1
    <3> HIDE DEF pairs, rows, cols
    <3> QED BY <2>1, <3>2
  <2> HIDE DEF S
  <2> QED BY <2>1, <2>4, <2>5
<1> QED BY <1>4, <1>6, <1>7

(* A CTA of kernel A; the last one starts kernel Y, with every share to come. *)
LEMMA KernelAExact ==
  ASSUME IInv, PInv, Work, FInv, NEW cta \in todo, KernelA(cta)
  PROVE  FInv'
<1>1. /\ phase = "kernel_a" /\ UNCHANGED <<call, cfg, handle>> /\ Finish("kernel_a", cta)
      /\ phase \in Forward /\ phase \in Forward \cup Backward /\ phase \notin {"call", "raised"}
  BY DEF KernelA, Forward
<1>2. PICK n \in Nat : n = handle.total_tiles  BY <1>1, HandleFacts
<1>3. n > 0
  <2>1. cta \in Ctas("kernel_a", n)  BY <1>1, <1>2 DEF Work
  <2>2. 0 .. n - 1 # {}  BY <2>1 DEF Ctas
  <2> QED BY <2>2
<1>4. \/ todo = {cta} /\ phase' = "kernel_y" /\ todo' = Ctas("kernel_y", n)
      \/ phase' = "kernel_a" /\ todo' = todo \ {cta}
  <2>1. CASE todo = {cta}
    <3>1. Proceed("kernel_a", n)  BY <1>1, <1>2, <2>1 DEF Finish
    <3>2. phase' = After("kernel_a", n) /\ todo' = Ctas(After("kernel_a", n), n)
      BY <1>1, <3>1, ProceedTo
    <3> QED BY <1>2, <1>3, <2>1, <3>2, AfterForward
  <2>2. CASE todo # {cta}
    BY <1>1, <2>2, FinishTo
  <2> QED BY <2>1, <2>2
<1>5. PostReady /\ OutReady  BY DEF FInv
<1>6. /\ Routed' = Routed /\ RecvTokens' = RecvTokens /\ Rows' = Rows
      /\ \A te : Row(te)' = Row(te)
      /\ \A te, i : Unit(te, i)' = Unit(te, i)
      /\ \A t, h : Shares(t, h)' = Shares(t, h)
      /\ \A k : TileRows(k)' = TileRows(k)
      /\ \A p, k : Stripe(p, k)' = Stripe(p, k)
  BY <1>1, SameTerms
<1>7. PostReady'
  <2>1. PoolFilled'
    <3>1. mem.pool = Delivered(handle, x)  BY <1>1, <1>5 DEF PostReady, PoolFilled
    <3> QED BY <1>1, <1>5, <3>1, KernelAWrites DEF PoolFilled
  <2>2. DOMAIN mem'.postact = Rows' \X Cols
    BY <1>1, <1>5, <1>6, KernelAWrites DEF PostReady
  <2>3. ASSUME NEW te \in Routed, NEW i \in Cols
        PROVE  \/ phase' = "kernel_a" /\ Left("kernel_a", Row(te), 2 * i)'
               \/ mem'.postact[<<Row(te), i>>] = Unit(te, i)
    <3>1. CASE Row(te) \in TileRows(cta[1]) /\ 2 * i \in Stripe("kernel_a", cta[2])
      BY <1>5, <3>1, KernelAWrites
    <3>2. CASE mem.postact[<<Row(te), i>>] = Unit(te, i)
      BY <1>5, <3>2, KernelAWrites
    <3>3. CASE /\ ~(Row(te) \in TileRows(cta[1]) /\ 2 * i \in Stripe("kernel_a", cta[2]))
               /\ mem.postact[<<Row(te), i>>] # Unit(te, i)
      <4>1. PICK c \in todo : Row(te) \in TileRows(c[1]) /\ 2 * i \in Stripe("kernel_a", c[2])
        BY <1>1, <1>5, <3>3 DEF PostReady, Left
      <4>2. c # cta  BY <3>3, <4>1
      <4>3. phase' = "kernel_a" /\ c \in todo'  BY <1>4, <4>1, <4>2
      <4>4. /\ Row(te)' \in TileRows(c[1])' /\ 2 * i \in Stripe("kernel_a", c[2])'
        BY <1>6, <4>1
      <4> QED BY <4>3, <4>4 DEF Left
    <3> QED BY <3>1, <3>2, <3>3
  <2>4. \A te \in Routed', i \in Cols :
           \/ phase' = "kernel_a" /\ Left("kernel_a", Row(te), 2 * i)'
           \/ mem'.postact[<<Row(te)', i>>] = Unit(te, i)'
    BY <1>6, <2>3
  <2> QED BY <2>1, <2>2, <2>4 DEF PostReady
<1>8. OutReady'
  <2>1. DOMAIN mem'.o = RecvTokens' \X Hidden
    BY <1>1, <1>5, <1>6, KernelAWrites DEF OutReady
  <2>2. ASSUME NEW t \in RecvTokens, NEW h \in Hidden
        PROVE  mem'.o[<<t, h>>] = Net(Shares(t, h), Landed(t, h))'
    <3>1. PICK f : f = Shares(t, h)  OBVIOUS
    <3>2. Landed(t, h) = {}  BY <1>1 DEF Landed
    <3>3. mem'.o[<<t, h>>] = Net(f, {})
      BY <1>1, <1>5, <3>1, <3>2, KernelAWrites DEF OutReady
    <3>4. Landed(t, h)' = {}
      <4>1. CASE phase' = "kernel_a"  BY <4>1 DEF Landed
      <4>2. CASE phase' = "kernel_y" /\ todo' = Ctas("kernel_y", n)
        <5>1. ASSUME NEW e \in call.routing[t] PROVE Left("kernel_y", Row(<<t, e>>), h)'
          <6>1. PICK te \in Routed : te = <<t, e>>  BY <1>1, SharesType
          <6>2. call.routing \in Seq(SUBSET Experts)
            BY RoutingsAssumption DEF IInv, Calls
          <6>3. Configured /\ handle = Layout(call.routing, cfg["tile_m"])
            BY <1>1 DEF PInv, LaidOut
          <6>4. te \in Pairs(call.routing)  BY <6>1 DEF Routed
          <6>5. h \in 0 .. Width("kernel_y") - 1
            <7>1. Width("kernel_y") = H  BY DEF Width
            <7> QED BY <7>1 DEF Hidden
          <6>6. PICK c \in Ctas("kernel_y", n) :
                  handle.recv_token_to_slots[te] \in TileRows(c[1])
                  /\ h \in Stripe("kernel_y", c[2])
            BY <1>1, <1>2, <6>2, <6>3, <6>4, <6>5, RoutedCovered
          <6>7. Row(te)' \in TileRows(c[1])' /\ h \in Stripe("kernel_y", c[2])'
            BY <1>6, <6>6 DEF Row
          <6>8. Left("kernel_y", Row(te), h)'  BY <4>2, <6>7 DEF Left
          <6> QED BY <6>1, <6>8
        <5> QED BY <1>1, <4>2, <5>1 DEF Landed
      <4> QED BY <1>4, <4>1, <4>2
    <3>5. Shares(t, h)' = f  BY <1>6, <3>1
    <3>6. Net(Shares(t, h), Landed(t, h))' = Net(f, {})
      BY <3>4, <3>5 DEF Net, Gain, Loss, PairsIn
    <3> QED BY <3>3, <3>6
  <2> QED BY <1>6, <2>1, <2>2 DEF OutReady
<1> QED BY <1>7, <1>8 DEF FInv

(* A CTA of kernel Y adds to a token's output, in the columns of its stripe,
   the shares of the token's rows in its tile. *)
LEMMA KernelYWrites ==
  ASSUME IInv, PInv, FInv, NEW cta, KernelY(cta)
  PROVE  /\ mem'.postact = mem.postact
         /\ DOMAIN mem'.o = DOMAIN mem.o
         /\ \A t \in RecvTokens, h \in Hidden :
              mem'.o[<<t, h>>] =
                IF h \notin Stripe("kernel_y", cta[2]) THEN mem.o[<<t, h>>]
                ELSE Plus(mem.o[<<t, h>>],
                          Net(Shares(t, h),
                                {e \in call.routing[t] : Row(<<t, e>>) \in TileRows(cta[1])}))
<1>1. phase = "kernel_y" /\ phase \in Forward /\ phase \in Forward \cup Backward
  BY DEF KernelY, Forward
<1>2. /\ DOMAIN mem = OutFields /\ DOMAIN mem.o = RecvTokens \X Hidden
      /\ \A te \in Routed, i \in Cols : mem.postact[<<Row(te), i>>] = Unit(te, i)
  BY <1>1 DEF FInv, PostReady, OutReady, PInv, Allocated
<1> DEFINE rows == TileRows(cta[1])
           cols == Stripe("kernel_y", cta[2])
           V(row, h) == Times(handle.pool_topk_weight[row], Expert(row, h))
           O == Scatter(mem.o, rows, cols, V)
<1>3. mem' = [mem EXCEPT !.o = O]
  BY DEF KernelY
<1>4. mem'.postact = mem.postact /\ mem'.o = O
  <2> HIDE DEF O
  <2> QED BY <1>2, <1>3 DEF OutFields
<1>5. /\ DOMAIN O = DOMAIN mem.o
      /\ \A rc \in DOMAIN mem.o :
           O[rc] = IF rc[2] \notin cols THEN mem.o[rc]
                   ELSE Plus(mem.o[rc], SumOver([row \in rows \cap SlotsOf(rc[1]) |-> V(row, rc[2])]))
  <2> HIDE DEF V, rows, cols
  <2> QED BY DEF Scatter
<1>6. ASSUME NEW t \in RecvTokens, NEW h \in Hidden
      PROVE  mem'.o[<<t, h>>] =
               IF h \notin cols THEN mem.o[<<t, h>>]
               ELSE Plus(mem.o[<<t, h>>],
                         Net(Shares(t, h), {e \in call.routing[t] : Row(<<t, e>>) \in rows}))
  <2>1. PICK rc : rc = <<t, h>>  OBVIOUS
  <2>2. rc \in DOMAIN mem.o /\ rc[1] = t /\ rc[2] = h  BY <1>2, <2>1
  <2>3. PICK s : s = SumOver([row \in rows \cap SlotsOf(t) |-> V(row, h)])  OBVIOUS
  <2>4. s = Net(Shares(t, h), {e \in call.routing[t] : Row(<<t, e>>) \in rows})
    <3> HIDE DEF rows
    <3> QED BY <1>1, <1>2, <2>3, ScatterAdds
  <2>5. O[rc] = IF h \notin cols THEN mem.o[rc] ELSE Plus(mem.o[rc], s)
    <3> HIDE DEF V, O, rows, cols
    <3> QED BY <1>5, <2>2, <2>3
  <2> HIDE DEF V, O, rows, cols
  <2> QED BY <1>4, <2>1, <2>4, <2>5
<1> HIDE DEF O
<1> QED BY <1>4, <1>5, <1>6

(* The experts whose share of an output element has arrived once a CTA of
   kernel Y finishes: those before, and those with their row in its tile. *)
LEMMA LandedGrows ==
  ASSUME IInv, PInv, Work, NEW cta \in todo, KernelY(cta),
         NEW t \in RecvTokens, NEW h \in Hidden
  PROVE  LET New == {e \in call.routing[t] : Row(<<t, e>>) \in TileRows(cta[1])}
         IN  IF h \in Stripe("kernel_y", cta[2])
             THEN Landed(t, h)' = Landed(t, h) \cup New /\ Landed(t, h) \cap New = {}
             ELSE Landed(t, h)' = Landed(t, h)
<1>1. /\ phase = "kernel_y" /\ UNCHANGED <<call, cfg, handle>> /\ Finish("kernel_y", cta)
      /\ phase \in Forward \cup Backward /\ phase \notin {"call", "raised"}
  BY DEF KernelY, Forward
<1>2. PICK n \in Nat : n = handle.total_tiles  BY <1>1, HandleFacts
<1>3. \/ todo = {cta} /\ phase' \in {"compress", "dispatch_grads"}
      \/ phase' = "kernel_y" /\ todo' = todo \ {cta}
  BY <1>1, <1>2, FinishTo, AfterForward
<1>4. /\ \A e : Row(<<t, e>>)' = Row(<<t, e>>)
      /\ \A k : TileRows(k)' = TileRows(k)
      /\ \A k : Stripe("kernel_y", k)' = Stripe("kernel_y", k)
  BY <1>1, SameTerms
<1> DEFINE Over(c, e) == Row(<<t, e>>) \in TileRows(c[1]) /\ h \in Stripe("kernel_y", c[2])
<1>5. ASSUME NEW e \in call.routing[t]
      PROVE  e \in Landed(t, h) <=> ~\E c \in todo : Over(c, e)
  BY <1>1 DEF Landed, Left
<1>6. ASSUME NEW e \in call.routing[t]
      PROVE  e \in Landed(t, h)' <=> ~\E c \in todo \ {cta} : Over(c, e)
  <2>1. CASE phase' = "kernel_y" /\ todo' = todo \ {cta}
    <3>1. Left("kernel_y", Row(<<t, e>>), h)' <=> \E c \in todo \ {cta} : Over(c, e)
      BY <1>4, <2>1 DEF Left
    <3> QED BY <1>1, <2>1, <3>1 DEF Landed
  <2>2. CASE todo = {cta} /\ phase' \in {"compress", "dispatch_grads"}
    <3>1. e \in Landed(t, h)'  BY <1>1, <2>2 DEF Landed
    <3>2. todo \ {cta} = {}  BY <2>2
    <3> QED BY <3>1, <3>2
  <2> QED BY <1>3, <2>1, <2>2
<1>7. Landed(t, h) \in SUBSET call.routing[t] /\ Landed(t, h)' \in SUBSET call.routing[t]
  BY <1>1 DEF Landed
<1>8. ASSUME NEW e, NEW c \in todo, Over(c, e), Over(cta, e) PROVE c = cta
  <2>1. /\ "kernel_y" \in Kernels /\ c \in Ctas("kernel_y", n) /\ cta \in Ctas("kernel_y", n)
    BY <1>1, <1>2 DEF Work, Kernels
  <2>2. TileN("kernel_y") \in Nat \ {0} /\ cfg["tile_m"] \in Nat \ {0}
    BY <1>1 DEF PInv, Configured, Configs, Knobs, TileNs, TileN
  <2> QED BY <1>8, <2>1, <2>2, CtaIsOne
<1>9. CASE h \notin Stripe("kernel_y", cta[2])
  <2>1. \A e : ~Over(cta, e)  BY <1>9
  <2> HIDE DEF Over
  <2>2. \A e \in call.routing[t] : e \in Landed(t, h)' <=> e \in Landed(t, h)
    BY <1>5, <1>6, <2>1
  <2>3. Landed(t, h)' = Landed(t, h)  BY <1>7, <2>2
  <2> QED BY <1>9, <2>3
<1>10. CASE h \in Stripe("kernel_y", cta[2])
  <2>1. PICK New : New = {e \in call.routing[t] : Row(<<t, e>>) \in TileRows(cta[1])}  OBVIOUS
  <2>2. \A e \in call.routing[t] : e \in New <=> Over(cta, e)  BY <1>10, <2>1
  <2>3. New \in SUBSET call.routing[t]  BY <2>1
  <2> HIDE DEF Over
  <2>4. ASSUME NEW e \in call.routing[t]
        PROVE  /\ e \in Landed(t, h)' <=> e \in Landed(t, h) \/ e \in New
               /\ ~(e \in Landed(t, h) /\ e \in New)
    BY <1>5, <1>6, <1>8, <2>2
  <2> QED BY <1>7, <1>10, <2>1, <2>3, <2>4
<1> QED BY <1>9, <1>10

(* A CTA of kernel Y adds shares that had not landed, each once. *)
LEMMA KernelYExact ==
  ASSUME IInv, PInv, Work, FInv, NEW cta \in todo, KernelY(cta)
  PROVE  FInv'
<1>1. /\ phase = "kernel_y" /\ UNCHANGED <<call, cfg, handle>> /\ Finish("kernel_y", cta)
      /\ phase \in Forward /\ phase \in Forward \cup Backward /\ phase \notin {"call", "raised"}
  BY DEF KernelY, Forward
<1>2. PICK n \in Nat : n = handle.total_tiles  BY <1>1, HandleFacts
<1>3. phase' \in {"compress", "dispatch_grads", "kernel_y"}
  BY <1>1, <1>2, FinishTo, AfterForward
<1>4. PostReady /\ OutReady  BY DEF FInv
<1>5. /\ Routed' = Routed /\ RecvTokens' = RecvTokens /\ Rows' = Rows
      /\ \A te : Row(te)' = Row(te)
      /\ \A te, i : Unit(te, i)' = Unit(te, i)
      /\ \A t, h : Shares(t, h)' = Shares(t, h)
  BY <1>1, SameTerms
<1>6. PostReady'
  <2>1. DOMAIN mem'.postact = Rows' \X Cols
    BY <1>1, <1>4, <1>5, KernelYWrites DEF PostReady
  <2>2. \A te \in Routed, i \in Cols : mem.postact[<<Row(te), i>>] = Unit(te, i)
    BY <1>1, <1>4 DEF PostReady
  <2>3. \A te \in Routed', i \in Cols : mem'.postact[<<Row(te)', i>>] = Unit(te, i)'
    BY <1>5, <2>2, KernelYWrites
  <2> QED BY <1>3, <2>1, <2>3 DEF PostReady
<1>7. OutReady'
  <2>1. DOMAIN mem'.o = RecvTokens' \X Hidden
    BY <1>1, <1>4, <1>5, KernelYWrites DEF OutReady
  <2>2. ASSUME NEW t \in RecvTokens, NEW h \in Hidden
        PROVE  mem'.o[<<t, h>>] = Net(Shares(t, h), Landed(t, h))'
    <3>1. PICK f, L, M, New :
            /\ f = Shares(t, h) /\ L = Landed(t, h) /\ M = Landed(t, h)'
            /\ New = {e \in call.routing[t] : Row(<<t, e>>) \in TileRows(cta[1])}
      OBVIOUS
    <3>2. Shares(t, h)' = f  BY <1>5, <3>1
    <3>3. Net(Shares(t, h), Landed(t, h))' = Net(f, M)
      BY <3>1, <3>2 DEF Net, Gain, Loss, PairsIn
    <3>4. mem.o[<<t, h>>] = Net(f, L)  BY <1>1, <1>4, <3>1 DEF OutReady
    <3>5. CASE h \notin Stripe("kernel_y", cta[2])
      <4>1. M = L  BY <3>1, <3>5, LandedGrows
      <4>2. mem'.o[<<t, h>>] = mem.o[<<t, h>>]  BY <3>5, KernelYWrites
      <4> QED BY <3>3, <3>4, <4>1, <4>2
    <3>6. CASE h \in Stripe("kernel_y", cta[2])
      <4>1. M = L \cup New /\ L \cap New = {}  BY <3>1, <3>6, LandedGrows
      <4>2. mem'.o[<<t, h>>] = Plus(Net(f, L), Net(f, New))
        BY <3>1, <3>4, <3>6, KernelYWrites
      <4>3. Summable(f) /\ L \in SUBSET DOMAIN f /\ New \in SUBSET DOMAIN f
        BY <1>1, <3>1, SharesType DEF Landed
      <4>4. /\ Net(f, L) \in Int /\ Net(f, New) \in Int
            /\ Net(f, L \cup New) = Net(f, L) + Net(f, New)
        BY <4>1, <4>3, NetAdds
      <4>5. mem'.o[<<t, h>>] = Net(f, L) + Net(f, New)  BY <4>2, <4>4, PlusOfInts
      <4> QED BY <3>3, <4>1, <4>4, <4>5
    <3> QED BY <3>5, <3>6
  <2> QED BY <1>5, <2>1, <2>2 DEF OutReady
<1> QED BY <1>6, <1>7 DEF FInv

(* Compress leaves the output alone. *)
LEMMA CompressExact == IInv /\ PInv /\ FInv /\ Compress => FInv'
<1> SUFFICES ASSUME IInv, PInv, FInv, Compress PROVE FInv'  OBVIOUS
<1>1. /\ phase = "compress" /\ UNCHANGED <<call, cfg, handle>>
      /\ Proceed("compress", handle.total_tiles)
      /\ phase \in Forward /\ phase \in Forward \cup Backward /\ phase \notin {"call", "raised"}
  BY DEF Compress, Forward
<1>2. PICK n \in Nat : n = handle.total_tiles  BY <1>1, HandleFacts
<1>3. phase' = "dispatch_grads"  BY <1>1, <1>2, ProceedTo, AfterForward
<1>4. mem'.o = mem.o
  <2>1. DOMAIN mem = OutFields  BY <1>1 DEF PInv, Allocated
  <2> QED BY <2>1 DEF Compress, OutFields
<1>5. RecvTokens' = RecvTokens /\ \A t, h : Shares(t, h)' = Shares(t, h)
  BY <1>1, SameTerms
<1>6. ASSUME NEW t \in RecvTokens, NEW h \in Hidden
      PROVE  mem'.o[<<t, h>>] = Net(Shares(t, h), Landed(t, h))'
  <2>1. PICK f, L : f = Shares(t, h) /\ L = Landed(t, h)  OBVIOUS
  <2>2. Shares(t, h)' = f  BY <1>5, <2>1
  <2>3. Landed(t, h)' = L  BY <1>1, <1>3, <2>1 DEF Landed
  <2>4. Net(Shares(t, h), Landed(t, h))' = Net(f, L)
    BY <2>2, <2>3 DEF Net, Gain, Loss, PairsIn
  <2>5. mem.o[<<t, h>>] = Net(f, L)  BY <1>1, <2>1 DEF FInv, OutReady
  <2> QED BY <1>4, <2>4, <2>5
<1>7. DOMAIN mem'.o = RecvTokens' \X Hidden  BY <1>1, <1>4, <1>5 DEF FInv, OutReady
<1> QED BY <1>3, <1>5, <1>6, <1>7 DEF FInv, PostReady, OutReady

(* Every step keeps the forward invariant. *)
LEMMA StepExact == IInv /\ Work /\ PInv /\ FInv /\ [Next]_vars => FInv'
<1> SUFFICES ASSUME IInv, Work, PInv, FInv, [Next]_vars PROVE FInv'  OBVIOUS
<1>1. CASE ResolveTiles
  <2>1. phase' \in {"call", "dispatch", "raised"}  BY <1>1 DEF ResolveTiles
  <2> QED BY <2>1, OutsideForward DEF Forward
<1>2. CASE Dispatch  BY <1>2, DispatchExact
<1>3. CASE Compress  BY <1>3, CompressExact
<1>4. CASE DispatchGrads \/ Reexpand \/ Recompute \/ WeightGrads
           \/ \E cta \in todo : KernelYBwd(cta) \/ KernelABwd(cta)
  <2>1. PICK p \in {"dispatch_grads", "reexpand", "recompute", "kernel_y_bwd", "kernel_a_bwd", "dW"} :
          /\ phase = p
          /\ Proceed(p, handle.total_tiles) \/ (p \in Kernels /\ \E cta : Finish(p, cta))
    BY <1>4 DEF DispatchGrads, Reexpand, Recompute, WeightGrads, KernelYBwd, KernelABwd, Kernels
  <2>2. phase \in Forward \cup Backward /\ phase \notin {"call", "raised"}
    BY <2>1 DEF Forward, Backward
  <2>3. PICK n \in Nat : n = handle.total_tiles  BY <2>2, HandleFacts
  <2>4. phase' = After(p, n) \/ (phase' = p /\ p \in Kernels)
    <3>1. CASE Proceed(p, handle.total_tiles)  BY <2>2, <2>3, <3>1, ProceedTo
    <3>2. ASSUME NEW cta, Finish(p, cta), p \in Kernels
          PROVE  phase' = After(p, n) \/ (phase' = p /\ p \in Kernels)
      <4>1. phase' = After(p, handle.total_tiles) \/ phase' = phase
        BY <2>2, <3>2, FinishTo
      <4> QED BY <2>1, <2>3, <3>2, <4>1
    <3> QED BY <2>1, <3>1, <3>2
  <2>5. phase' \notin Forward
    BY <2>1, <2>3, <2>4, AfterWhat DEF Forward, Backward, Kernels
  <2> QED BY <2>5, OutsideForward
<1>5. CASE \E cta \in todo : KernelA(cta)  BY <1>5, KernelAExact
<1>6. CASE \E cta \in todo : KernelY(cta)  BY <1>6, KernelYExact
<1>7. CASE UNCHANGED vars
  <2>1. UNCHANGED <<call, cfg, handle>> /\ phase' = phase /\ todo' = todo /\ mem' = mem
    BY <1>7 DEF vars
  <2>2. /\ Routed' = Routed /\ RecvTokens' = RecvTokens /\ Rows' = Rows
        /\ \A te : Row(te)' = Row(te)
        /\ \A te, i : Unit(te, i)' = Unit(te, i)
        /\ \A t, h : Shares(t, h)' = Shares(t, h)
        /\ \A k : TileRows(k)' = TileRows(k)
        /\ \A p, k : Stripe(p, k)' = Stripe(p, k)
    BY <2>1, SameTerms
  <2>3. \A p, row, col : Left(p, row, col)' = Left(p, row, col)
    BY <2>1, <2>2 DEF Left
  <2>4. PoolFilled' = PoolFilled  BY <2>1 DEF PoolFilled
  <2>5. PostReady'
    BY <2>1, <2>2, <2>3, <2>4 DEF FInv, PostReady
  <2>6. ASSUME NEW t, NEW h PROVE Net(Shares(t, h), Landed(t, h))' = Net(Shares(t, h), Landed(t, h))
    <3>1. PICK f, L : f = Shares(t, h) /\ L = Landed(t, h)  OBVIOUS
    <3>2. Landed(t, h)' = L  BY <2>1, <2>2, <2>3, <3>1 DEF Landed
    <3>3. Shares(t, h)' = f  BY <2>2, <3>1
    <3>4. Net(Shares(t, h), Landed(t, h))' = Net(f, L)
      BY <3>2, <3>3 DEF Net, Gain, Loss, PairsIn
    <3> QED BY <3>1, <3>4
  <2>7. OutReady'  BY <2>1, <2>2, <2>6 DEF FInv, OutReady
  <2> QED BY <2>5, <2>7 DEF FInv
<1> QED BY <1>1, <1>2, <1>3, <1>4, <1>5, <1>6, <1>7 DEF Next

(* What combine sends back is the layer's function of the delivered rows:
   kernels A and Y compute it for every shape, routing, expert dropout seed,
   checkpoint level, accepted tile config and order of the CTAs. *)
THEOREM ForwardIsExact == Spec => []ForwardExact
<1>1. Init => FInv
  BY OutsideForward DEF Init, FInv, PostReady, OutReady, Forward
<1>2. Init => IInv /\ Work /\ PInv /\ FInv  BY <1>1, InitIInv, InitWork, InitPInv
<1>3. IInv /\ Work /\ PInv /\ FInv /\ [Next]_vars => (IInv /\ Work /\ PInv /\ FInv)'
  BY StepKeeps, WorkKeeps, StepPads, StepExact
<1>4. IInv /\ Work /\ PInv /\ FInv => ForwardExact  BY ForwardFromInv
<1> QED BY <1>2, <1>3, <1>4, PTL DEF Spec
=============================================================================
