----------------------------- MODULE TileConfig ------------------------------
(***************************************************************************)
(* The tile knobs of the streaming-MoE kernels: the baseline picked from   *)
(* the weight shape (I, H), the overlay of a caller's overrides, what      *)
(* validate refuses, and what the four kernels assert of a resolved        *)
(* config.  A knob that is None is 0 here.  Knobs that only tune (SM       *)
(* counts, clusters, ping-pong, swizzle) are left out.                     *)
(***************************************************************************)
EXTENDS Integers

None == 0
TileNs == {"tile_n_a", "tile_n_y", "tile_n_y_bwd", "tile_n_a_bwd",
           "tile_n_dW1", "tile_n_dW2"}
Knobs == TileNs \cup {"tile_m", "tile_m_dW1", "tile_m_dW2"}
Configs == [Knobs -> Nat]
NoOverride == [k \in Knobs |-> None]

(* _largest_pow2_divisor: the first of cap, cap \div 2, ... that divides x *)
Halvings(cap) == {t \in {256, 128, 64, 32, 16, 8, 4, 2, 1} : t <= cap}
LargestPow2Divisor(x, cap) ==
  CHOOSE t \in Halvings(cap) : /\ x % t = 0
                               /\ \A u \in Halvings(cap) : x % u = 0 => u <= t

(* default_tile_config.pick *)
Pick(default, constraint, cap) ==
  IF constraint % default = 0 THEN default ELSE LargestPow2Divisor(constraint, cap)

(* kernel A writes 2I columns and I columns: its tile must divide both. *)
DefaultTileNA(I) ==
  LET t == Pick(192, 2 * I, 256)
  IN  IF I % t = 0 THEN t ELSE LargestPow2Divisor(I, 256)

DefaultTileConfig(I, H) ==
  [NoOverride EXCEPT !["tile_m"] = 128,
                     !["tile_n_a"] = DefaultTileNA(I),
                     !["tile_n_y"] = Pick(256, H, 256),
                     !["tile_n_y_bwd"] = Pick(192, I, 128),
                     !["tile_n_a_bwd"] = Pick(256, H, 256),
                     !["tile_n_dW1"] = 256]

Overlay(base, over) == [k \in Knobs |-> IF over[k] = None THEN base[k] ELSE over[k]]
Divides(t, n) == t = None \/ n % t = 0

(* Faulty variant: only the width of the first output is checked. *)
ValidForPreactOnly(cfg, I, H) ==
  /\ cfg["tile_m"] # 320
  /\ cfg["tile_m"] = 192 => \A k \in TileNs : cfg[k] <= 128
  /\ Divides(cfg["tile_n_a"], 2 * I)
  /\ Divides(cfg["tile_n_y"], H)
  /\ Divides(cfg["tile_n_y_bwd"], I)
  /\ Divides(cfg["tile_n_a_bwd"], H)

(* TileConfig.validate: the conditions under which it raises nothing *)
Valid(cfg, I, H) ==
  /\ cfg["tile_m"] # 320
  /\ cfg["tile_m"] = 192 => \A k \in TileNs : cfg[k] <= 128
  /\ Divides(cfg["tile_n_a"], 2 * I) /\ Divides(cfg["tile_n_a"], I)
  /\ Divides(cfg["tile_n_y"], H)
  /\ Divides(cfg["tile_n_y_bwd"], I)
  /\ Divides(cfg["tile_n_a_bwd"], H)

Resolve(over, I, H) == Overlay(DefaultTileConfig(I, H), over)

(* The assertions of the kernels' launch functions. *)
AAccepts(cfg, I) == (2 * I) % cfg["tile_n_a"] = 0 /\ I % cfg["tile_n_a"] = 0
YAccepts(cfg, H) == H % cfg["tile_n_y"] = 0
YBwdAccepts(cfg, I) == I % cfg["tile_n_y_bwd"] = 0
ABwdAccepts(cfg, H) == H % cfg["tile_n_a_bwd"] = 0

(* The tiles of the two weight-gradient GEMMs, as backward derives them *)
DWTileM(cfg, knob) == IF cfg[knob] = None THEN cfg["tile_m"] ELSE cfg[knob]
DWTileN(cfg, knob) == IF cfg[knob] = None THEN cfg["tile_n_a"] ELSE cfg[knob]

(* A CTA tile for which GemmSm90 splits N over two MMA atoms, which the
   streaming backward GEMMs cannot generate code for. *)
NSplit(tile_m, tile_n) == tile_m = 320 \/ (tile_m = 192 /\ tile_n > 128)
BackwardTiles(cfg) ==
  {<<cfg["tile_m"], cfg[k]>> : k \in {"tile_n_a", "tile_n_y_bwd", "tile_n_a_bwd"}}
    \cup {<<DWTileM(cfg, "tile_m_dW1"), DWTileN(cfg, "tile_n_dW1")>>,
          <<DWTileM(cfg, "tile_m_dW2"), DWTileN(cfg, "tile_n_dW2")>>}
=============================================================================
