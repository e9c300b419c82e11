----------------------------- MODULE LayerGrads ------------------------------
(***************************************************************************)
(* What one rank's expert kernels compute in a forward and a backward of   *)
(* the layer, with numbers: from the rows that dispatch delivered (x, and  *)
(* dL_dy in the backward) to the rows combine sends back.  The kernels of  *)
(* the compute stream run one after the other; the CTAs of one kernel, a   *)
(* tile and a column stripe each, finish in any order.                     *)
(*                                                                         *)
(* Memory that torch.empty returned and nothing has written reads as NaN.  *)
(* bf16 rounding is left out, silu is a polynomial, and the mask hash of   *)
(* expert dropout is a checkerboard; the derivatives are exact.            *)
(***************************************************************************)
EXTENDS TileConfig, ChannelOps, Functions, Sequences

CONSTANTS
  I, H,            \* moe_intermediate_size and hidden_size
  NumExperts,      \* local experts
  Routings,        \* [1 .. T_recv -> non-empty sets of experts] to try
  Overrides,       \* the caller's TileConfigs to try (functions as NoOverride)
  Seeds,           \* dropout seeds to try; 0 is expert_dropout = 0
  NaN,             \* the value of memory that nothing has written
  x, dL_dy,        \* [token][h]
  topk_weight,     \* [token][expert]
  w1, w2           \* [expert][2i or 2i + 1][h] and [expert][h][i]

ASSUME ShapeAssumption == I \in Nat \ {0} /\ H \in Nat \ {0}
ASSUME OverridesAssumption == \A over \in Overrides : over \in Configs
ASSUME NaNAssumption == NaN \notin Int

Plus(a, b) == IF a = NaN \/ b = NaN THEN NaN ELSE a + b
Times(a, b) == IF a = NaN \/ b = NaN THEN NaN ELSE a * b
SumOver(f) == FoldFunction(Plus, 0, f)
Dot(S, P(_), Q(_)) == SumOver([k \in S |-> Times(P(k), Q(k))])

Cols == 0 .. I - 1
PreCols == 0 .. 2 * I - 1
Hidden == 0 .. H - 1
Experts == 0 .. NumExperts - 1

ASSUME RoutingsAssumption ==
  NumExperts \in Nat /\ \A routing \in Routings : routing \in Seq(SUBSET Experts)
ASSUME ValuesAssumption ==
  /\ \A routing \in Routings : \A t \in DOMAIN routing :
       /\ \A h \in Hidden : x[t][h] \in Int /\ dL_dy[t][h] \in Int
       /\ \A e \in Experts : topk_weight[t][e] \in Int
  /\ \A e \in Experts, h \in Hidden : /\ \A c \in PreCols : w1[e][c][h] \in Int
                                     /\ \A i \in Cols : w2[e][h][i] \in Int
  /\ Seeds \subseteq Int

silu(g) == Times(g, g)
silu_grad(g) == Times(2, g)
(* quack's dswiglu: <<dgate, dup, postact>> *)
dswiglu(gate, up, dout) == <<Times(Times(silu_grad(gate), up), dout),
                             Times(silu(gate), dout), Times(silu(gate), up)>>

VARIABLES
  call,      \* [routing, level, seed, over]: the arguments
  cfg,       \* the resolved TileConfig
  handle,    \* the pool's layout, as dispatch's metadata leaves it
  phase,     \* the operation that runs, or how the call ended
  todo,      \* the CTAs <<tile, stripe>> of the running kernel not finished
  mem        \* the tensors, functions of <<row, column>>
vars == <<call, cfg, handle, phase, todo, mem>>

Calls == [routing : Routings, level : 0 .. 2, seed : Seeds, over : Overrides]
Phases == <<"call", "dispatch", "kernel_a", "kernel_y", "compress", "dispatch_grads",
            "reexpand", "recompute", "kernel_y_bwd", "kernel_a_bwd", "dW", "done">>
Position(p) == CHOOSE k \in DOMAIN Phases : Phases[k] = p
Kernels == {"kernel_a", "kernel_y", "kernel_y_bwd", "kernel_a_bwd"}

(***************************************************************************)
(* The pool: whole tiles per expert, in it the tokens in order of arrival. *)
(***************************************************************************)
Tokens(routing) == DOMAIN routing
Frequency(routing, e) == Cardinality({t \in Tokens(routing) : e \in routing[t]})

(* Faulty variant: an expert's last, partial tile is not counted. *)
TilesOfFullOnly(routing, e, tile_m) == Frequency(routing, e) \div tile_m

TilesOf(routing, e, tile_m) == CeilDiv(Frequency(routing, e), tile_m)
BlockOffset(routing, e, tile_m) ==
  SumFunction([d \in 0 .. e - 1 |-> TilesOf(routing, d, tile_m)])
Slot(routing, t, e, tile_m) ==
  BlockOffset(routing, e, tile_m) * tile_m
    + Cardinality({u \in Tokens(routing) : u < t /\ e \in routing[u]})

Layout(routing, tile_m) ==
  LET total_tiles == BlockOffset(routing, NumExperts, tile_m)
      slots == [te \in {te \in Tokens(routing) \X Experts : te[2] \in routing[te[1]]} |->
                  Slot(routing, te[1], te[2], tile_m)]
      owner(row) == CHOOSE te \in DOMAIN slots : slots[te] = row
      real(row) == \E te \in DOMAIN slots : slots[te] = row
      rows == 0 .. total_tiles * tile_m - 1
  IN  [total_tiles |-> total_tiles,
       block_offset |-> [e \in 0 .. NumExperts |-> BlockOffset(routing, e, tile_m)],
       expert_frequency |-> [e \in Experts |-> Frequency(routing, e)],
       recv_token_to_slots |-> slots,
       pool_recv_token |-> [row \in rows |-> IF real(row) THEN owner(row)[1] ELSE -1],
       pool_topk_weight |-> [row \in rows |->
         IF real(row) THEN topk_weight[owner(row)[1]][owner(row)[2]] ELSE 0]]

Rows == DOMAIN handle.pool_recv_token
RecvTokens == Tokens(call.routing)
IsPad(row) == handle.pool_recv_token[row] < 0
TileRows(tile) == tile * cfg["tile_m"] .. (tile + 1) * cfg["tile_m"] - 1
ExpertOf(row) == CHOOSE e \in Experts :
  row \in handle.block_offset[e] * cfg["tile_m"] .. handle.block_offset[e + 1] * cfg["tile_m"] - 1
SlotsOf(t) == {row \in Rows : handle.pool_recv_token[row] = t}

Fresh(rows, cols) == [rc \in rows \X cols |-> NaN]                \* torch.empty
Zeros(rows, cols) == [rc \in rows \X cols |-> 0]                  \* ... and zero_()
Store(tensor, S, Value(_, _)) ==
  [rc \in DOMAIN tensor |-> IF rc \in S THEN Value(rc[1], rc[2]) ELSE tensor[rc]]
(* red.global.add of the shares of the rows of a tile, padding masked off *)
Scatter(tensor, rows, cols, Share(_, _)) ==
  [rc \in DOMAIN tensor |->
     IF rc[2] \notin cols THEN tensor[rc]
     ELSE Plus(tensor[rc], SumOver([row \in rows \cap SlotsOf(rc[1]) |-> Share(row, rc[2])]))]

(***************************************************************************)
(* From one operation to the next.                                         *)
(***************************************************************************)
Runs(p, tiles) ==
  /\ p = "compress" => call.level = 2
  /\ p = "reexpand" => call.level = 2 /\ tiles > 0
  /\ p = "recompute" => call.level >= 1 /\ tiles > 0
  /\ p \in Kernels => tiles > 0
After(p, tiles) ==
  LET later == {k \in DOMAIN Phases : k > Position(p) /\ Runs(Phases[k], tiles)}
  IN  Phases[CHOOSE k \in later : \A j \in later : k <= j]

Width(p) == CASE p = "kernel_a" -> 2 * I [] p = "kernel_y_bwd" -> I [] OTHER -> H
TileN(p) == CASE p = "kernel_a" -> cfg["tile_n_a"] [] p = "kernel_y" -> cfg["tile_n_y"]
              [] p = "kernel_y_bwd" -> cfg["tile_n_y_bwd"]
              [] p = "kernel_a_bwd" -> cfg["tile_n_a_bwd"]
Stripe(p, n) == n * TileN(p) .. (n + 1) * TileN(p) - 1
Ctas(p, tiles) == IF p \in Kernels
                  THEN (0 .. tiles - 1) \X (0 .. CeilDiv(Width(p), TileN(p)) - 1) ELSE {}
Accepts(p) == /\ p = "kernel_a" => AAccepts(cfg, I)
              /\ p = "kernel_y" => YAccepts(cfg, H)
              /\ p = "kernel_y_bwd" => YBwdAccepts(cfg, I)
              /\ p = "kernel_a_bwd" => ABwdAccepts(cfg, H)

Proceed(p, tiles) ==
  LET q == After(p, tiles)
  IN  IF Accepts(q) THEN phase' = q /\ todo' = Ctas(q, tiles)
                    ELSE phase' = "asserted" /\ todo' = {}
Finish(p, cta) ==
  IF todo = {cta} THEN Proceed(p, handle.total_tiles)
                  ELSE todo' = todo \ {cta} /\ UNCHANGED phase

ResolveTiles ==
  /\ phase = "call"
  /\ LET resolved == Resolve(call.over, I, H)
     IN  IF Valid(resolved, I, H)
         THEN cfg' = resolved /\ phase' = "dispatch"
         ELSE phase' = "raised" /\ UNCHANGED cfg
  /\ UNCHANGED <<call, handle, todo, mem>>

(***************************************************************************)
(* Forward.                                                                *)
(***************************************************************************)
(* The rows a dispatch writes to the pool; no row is sent to a padding slot. *)
Delivered(h, value) ==
  [rc \in (DOMAIN h.pool_recv_token) \X Hidden |->
     IF h.pool_recv_token[rc[1]] < 0 THEN NaN ELSE value[h.pool_recv_token[rc[1]]][rc[2]]]

Dispatch ==
  /\ phase = "dispatch"
  /\ handle' = Layout(call.routing, cfg["tile_m"])
  /\ mem' = [pool |-> Delivered(handle', x),
             preact |-> Fresh(Rows', PreCols), postact |-> Fresh(Rows', Cols),
             o |-> Zeros(RecvTokens, Hidden), x_recv |-> Fresh(RecvTokens, Hidden)]
  /\ Proceed("dispatch", handle'.total_tiles)
  /\ UNCHANGED <<call, cfg>>

(* keep_scale: 1 / (1 - p) or 0 by a hash of the seed, the pool row and the
   postact column; here p = 1/2 and the hash is a parity. *)
KeepScale(row, col) ==
  IF call.seed = 0 THEN 1 ELSE IF (row + col + call.seed) % 2 = 0 THEN 2 ELSE 0

(* Faulty variant: the column of the gate-up pair itself. *)
MaskColumnUnhalved(c) == c
MaskColumn(c) == c \div 2     \* (col0 + crd[1]) >> 1 in kernel A's 2I columns

Preact(row, c) == Dot(Hidden, LAMBDA h : mem.pool[<<row, h>>],
                              LAMBDA h : w1[ExpertOf(row)][c][h])
Masked(row, i, v) == Times(v, KeepScale(row, MaskColumn(2 * i)))

(* Faulty variant: the mask is applied before the accumulator is saved. *)
SavedPreactMasked(row, c) == Times(Preact(row, c), KeepScale(row, MaskColumn(c)))
SavedPreact(row, c) == Preact(row, c)

KernelA(cta) ==
  /\ phase = "kernel_a" /\ cta \in todo
  /\ LET rows == TileRows(cta[1])
         cols == Stripe("kernel_a", cta[2])
         pairs == {c \div 2 : c \in cols}
     IN  mem' = [mem EXCEPT
           !.preact = IF call.level = 0 THEN Store(@, rows \X cols, SavedPreact) ELSE @,
           !.postact = Store(@, rows \X pairs, LAMBDA row, i : Masked(row, i,
             Times(silu(Preact(row, 2 * i)), Preact(row, 2 * i + 1))))]
  /\ Finish("kernel_a", cta)
  /\ UNCHANGED <<call, cfg, handle>>

Expert(row, h) == Dot(Cols, LAMBDA i : mem.postact[<<row, i>>],
                            LAMBDA i : w2[ExpertOf(row)][h][i])
KernelY(cta) ==
  /\ phase = "kernel_y" /\ cta \in todo
  /\ mem' = [mem EXCEPT !.o = Scatter(@, TileRows(cta[1]), Stripe("kernel_y", cta[2]),
       LAMBDA row, h : Times(handle.pool_topk_weight[row], Expert(row, h)))]
  /\ Finish("kernel_y", cta)
  /\ UNCHANGED <<call, cfg, handle>>

(* The slots of a token race to store their copies of its row: any wins. *)
Compress ==
  /\ phase = "compress"
  /\ \E last \in {f \in [RecvTokens -> Rows] : \A t \in RecvTokens : f[t] \in SlotsOf(t)} :
       mem' = [mem EXCEPT !.x_recv = [rc \in DOMAIN @ |-> mem.pool[<<last[rc[1]], rc[2]>>]],
                          !.pool = Fresh(Rows, Hidden)]
  /\ Proceed("compress", handle.total_tiles)
  /\ UNCHANGED <<call, cfg, handle>>

(***************************************************************************)
(* Backward.                                                               *)
(***************************************************************************)
(* The scratch and its memsets, then dispatch_grads fills dL_do_pool. *)
DispatchGrads ==
  /\ phase = "dispatch_grads"
  /\ mem' =
       [pool |-> mem.pool, preact |-> mem.preact, postact |-> Fresh(Rows, Cols),
        o |-> mem.o, x_recv |-> mem.x_recv, dL_do_pool |-> Delivered(handle, dL_dy),
        dL_dswiglu_in |-> Fresh(Rows, PreCols), postact_a_for_dW2 |-> Fresh(Rows, Cols),
        dL_dx_per_r |-> Zeros(RecvTokens, Hidden), dL_dweight |-> Zeros(Rows, {0}),
        dW1 |-> Fresh(Experts \X PreCols, Hidden), dW2 |-> Fresh(Experts \X Hidden, Cols)]
  /\ Proceed("dispatch_grads", handle.total_tiles)
  /\ UNCHANGED <<call, cfg, handle>>

Reexpand ==
  /\ phase = "reexpand"
  /\ mem' = [mem EXCEPT !.pool = [rc \in DOMAIN @ |->
       IF IsPad(rc[1]) THEN 0 ELSE mem.x_recv[<<handle.pool_recv_token[rc[1]], rc[2]>>]]]
  /\ Proceed("reexpand", handle.total_tiles)
  /\ UNCHANGED <<call, cfg, handle>>

(* A plain grouped GEMM over the padded rows, cu_seqlens_m = block offsets. *)
Recompute ==
  /\ phase = "recompute"
  /\ mem' = [mem EXCEPT !.preact = Store(@, DOMAIN @, Preact)]
  /\ Proceed("recompute", handle.total_tiles)
  /\ UNCHANGED <<call, cfg, handle>>

(* Faulty variant: padding multiplied away, not overwritten. *)
UnlessPadByMultiply(row, v) == Times(v, IF IsPad(row) THEN 0 ELSE 1)
UnlessPad(row, v) == IF IsPad(row) THEN 0 ELSE v

(* Faulty variant: the gradient of the weight sees the weighted g. *)
WeightGradTermWeighted(row, g, post) == Times(Times(handle.pool_topk_weight[row], g), post)
WeightGradTerm(row, g, post) == Times(g, post)

KernelYBwd(cta) ==
  /\ phase = "kernel_y_bwd" /\ cta \in todo
  /\ LET rows == TileRows(cta[1])
         cols == Stripe("kernel_y_bwd", cta[2])
         w(row) == handle.pool_topk_weight[row]
         g == [ri \in rows \X cols |->
                 Dot(Hidden, LAMBDA h : mem.dL_do_pool[<<ri[1], h>>],
                             LAMBDA h : w2[ExpertOf(ri[1])][h][ri[2]])]
         \* <<dgate, dup, postact>> under the mask d; dswiglu sees d * g
         grads == [ri \in rows \X cols |->
                     LET d == KeepScale(ri[1], ri[2])
                         v == dswiglu(mem.preact[<<ri[1], 2 * ri[2]>>],
                                      mem.preact[<<ri[1], 2 * ri[2] + 1>>], Times(g[ri], d))
                     IN  <<v[1], v[2], Times(v[3], d)>>]
         out(row, i, k) == UnlessPad(row, grads[<<row, i>>][k])
     IN  mem' = [mem EXCEPT
           !.dL_dswiglu_in = Store(@, rows \X {c \in PreCols : c \div 2 \in cols},
             LAMBDA row, c : Times(out(row, c \div 2, 1 + (c % 2)), w(row))),
           !.postact_a_for_dW2 = Store(@, rows \X cols,
             LAMBDA row, i : Times(out(row, i, 3), w(row))),
           !.dL_dweight = Store(@, rows \X {0}, LAMBDA row, z : Plus(@[<<row, z>>],
             SumOver([i \in cols |-> WeightGradTerm(row, UnlessPad(row, g[<<row, i>>]),
                                                    out(row, i, 3))])))]
  /\ Finish("kernel_y_bwd", cta)
  /\ UNCHANGED <<call, cfg, handle>>

(* The weight is already in dL_dswiglu_in: the scatter is a plain sum. *)
KernelABwd(cta) ==
  /\ phase = "kernel_a_bwd" /\ cta \in todo
  /\ mem' = [mem EXCEPT !.dL_dx_per_r =
       Scatter(@, TileRows(cta[1]), Stripe("kernel_a_bwd", cta[2]),
         LAMBDA row, h : Dot(PreCols, LAMBDA c : mem.dL_dswiglu_in[<<row, c>>],
                                      LAMBDA c : w1[ExpertOf(row)][c][h]))]
  /\ Finish("kernel_a_bwd", cta)
  /\ UNCHANGED <<call, cfg, handle>>

(* Faulty variant: the K range of an expert without seqused_k. *)
KRowsPadded(e) ==
  handle.block_offset[e] * cfg["tile_m"] .. handle.block_offset[e + 1] * cfg["tile_m"] - 1

(* The rows the grouped GEMM of expert e sums: from cu_seqlens_k[e],
   seqused_k[e] of them. *)
KRows(e) ==
  LET first == handle.block_offset[e] * cfg["tile_m"]
  IN  first .. first + handle.expert_frequency[e] - 1

WeightGrads ==
  /\ phase = "dW"
  /\ mem' = IF handle.total_tiles = 0
            THEN [mem EXCEPT !.dW1 = Zeros(Experts \X PreCols, Hidden),
                             !.dW2 = Zeros(Experts \X Hidden, Cols)]
            ELSE [mem EXCEPT
              !.dW2 = Store(@, DOMAIN @, LAMBDA eh, i : Dot(KRows(eh[1]),
                LAMBDA row : mem.dL_do_pool[<<row, eh[2]>>],
                LAMBDA row : mem.postact_a_for_dW2[<<row, i>>])),
              !.dW1 = Store(@, DOMAIN @, LAMBDA ec, h : Dot(KRows(ec[1]),
                LAMBDA row : mem.dL_dswiglu_in[<<row, ec[2]>>],
                LAMBDA row : mem.pool[<<row, h>>]))]
  /\ Proceed("dW", handle.total_tiles)
  /\ UNCHANGED <<call, cfg, handle>>

Init ==
  /\ call \in Calls
  /\ cfg = NoOverride
  /\ handle = Layout(<< >>, 1)
  /\ phase = "call"
  /\ todo = {}
  /\ mem = << >>

Next ==
  \/ ResolveTiles \/ Dispatch \/ Compress
  \/ DispatchGrads \/ Reexpand \/ Recompute \/ WeightGrads
  \/ \E cta \in todo : KernelA(cta) \/ KernelY(cta) \/ KernelYBwd(cta) \/ KernelABwd(cta)

Spec == Init /\ [][Next]_vars

-----------------------------------------------------------------------------
(* Every call resolves, runs the kernels of its level over CTAs inside the
   output and keeps every routed pair in a row of its own. *)
TypeOK ==
  /\ call \in Calls
  /\ cfg \in Configs
  /\ phase \in {Phases[k] : k \in DOMAIN Phases} \cup {"raised", "asserted"}
  /\ handle.pool_recv_token \in [Rows -> RecvTokens \cup {-1}]
  /\ \A te \in DOMAIN handle.recv_token_to_slots :
       LET row == handle.recv_token_to_slots[te]
       IN  row \in Rows /\ handle.pool_recv_token[row] = te[1] /\ ExpertOf(row) = te[2]
  /\ \A cta \in todo : TileRows(cta[1]) \subseteq Rows
                       /\ Stripe(phase, cta[2]) \subseteq 0 .. Width(phase) - 1

(* The layer as a function of its inputs, written down directly: the row of a
   token is the weighted sum over its experts of W2 (mask (silu(gate) up)). *)
RefMask(t, e, i) ==
  LET row == handle.recv_token_to_slots[<<t, e>>]
  IN  IF call.seed = 0 THEN 1 ELSE IF (row + i + call.seed) % 2 = 0 THEN 2 ELSE 0
RefRow(X, Wt, W1, W2, t, h) ==
  LET proj(e, c) == SumOver([k \in Hidden |-> W1[e][c][k] * X[t][k]])
      unit(e, i) == RefMask(t, e, i) * silu(proj(e, 2 * i)) * proj(e, 2 * i + 1)
  IN  SumOver([e \in call.routing[t] |->
        Wt[t][e] * SumOver([i \in Cols |-> W2[e][h][i] * unit(e, i)])])
RefLoss(X, Wt, W1, W2) ==
  SumOver([th \in RecvTokens \X Hidden |->
             dL_dy[th[1]][th[2]] * RefRow(X, Wt, W1, W2, th[1], th[2])])
(* The derivative at 0 of a polynomial of degree at most 4. *)
Slope(F(_)) == (F(-2) - 8 * F(-1) + 8 * F(1) - F(2)) \div 12

(* What combine sends back is the layer's function of the delivered rows, for
   every level, mask, tiling and order of the CTAs (kernels A and Y). *)
ForwardExact ==
  phase \in {"compress", "dispatch_grads"} =>
    \A t \in RecvTokens, h \in Hidden :
      mem.o[<<t, h>>] = RefRow(x, topk_weight, w1, w2, t, h)

(* dL_dx_per_r is the gradient of that function: the backward kernels use the
   rows, the preact and the mask the forward used, at every checkpoint level. *)
InputGradExact ==
  phase = "done" => \A t \in RecvTokens, h \in Hidden :
    mem.dL_dx_per_r[<<t, h>>] =
      Slope(LAMBDA d : RefLoss([x EXCEPT ![t][h] = @ + d], topk_weight, w1, w2))

(* What combine_grads gathers through recv_token_to_slots is the gradient of
   the routing weights, of weight-zero pairs too: the stripes of kernel_y_bwd
   add up to it, and they add the gradient before it is weighted. *)
RoutingGradExact ==
  phase = "done" => \A te \in DOMAIN handle.recv_token_to_slots :
    mem.dL_dweight[<<handle.recv_token_to_slots[te], 0>>] =
      Slope(LAMBDA d : RefLoss(x, [topk_weight EXCEPT ![te[1]][te[2]] = @ + d], w1, w2))

(* dW1 and dW2 are the gradients of the weights, of experts without tokens and
   on a rank without tiles too: no padding row, which holds what the memory
   held, and no scratch that nothing wrote enters the sums. *)
WeightGradsExact ==
  phase = "done" => \A e \in Experts, h \in Hidden :
    /\ \A c \in PreCols : mem.dW1[<<<<e, c>>, h>>] =
         Slope(LAMBDA d : RefLoss(x, topk_weight, [w1 EXCEPT ![e][c][h] = @ + d], w2))
    /\ \A i \in Cols : mem.dW2[<<<<e, h>>, i>>] =
         Slope(LAMBDA d : RefLoss(x, topk_weight, w1, [w2 EXCEPT ![e][h][i] = @ + d]))

(* Once kernel_y_bwd is over its three outputs hold clean zeros in the padding
   rows, whatever dL_do_pool and preact_a held there: the claim of its header. *)
PadsAreZero ==
  phase \in {"kernel_a_bwd", "dW", "done"} => \A row \in {r \in Rows : IsPad(r)} :
    /\ \A c \in PreCols : mem.dL_dswiglu_in[<<row, c>>] = 0
    /\ \A i \in Cols : mem.postact_a_for_dW2[<<row, i>>] = 0
    /\ mem.dL_dweight[<<row, 0>>] = 0

(* A config that validate let through never trips an assertion of a kernel's
   launch: the promise of TileConfig.validate. *)
NoKernelAsserts == phase # "asserted"
=============================================================================
