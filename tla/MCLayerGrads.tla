---------------------------- MODULE MCLayerGrads -----------------------------
(***************************************************************************)
(* A rank with two experts, rows of two numbers, two hidden units and      *)
(* tiles of two or three rows (where GemmSm90 starts at 64 x 16), and      *)
(* every routing of up to three delivered rows: partial tiles, an expert   *)
(* with two tiles, one without any, and a rank without.                    *)
(***************************************************************************)
EXTENDS LayerGrads

MCRoutings == UNION {[1 .. n -> {{0}, {1}, {0, 1}}] : n \in 0 .. 3}

Over(k, v) == [NoOverride EXCEPT !["tile_m"] = 2, ![k] = v]
MCOverrides ==
  {Over("tile_m", 2), Over("tile_m", 3), Over("tile_n_y_bwd", 1),
   [Over("tile_n_a_bwd", 1) EXCEPT !["tile_n_y"] = 1],
   \* refused; 4 divides 2I but not I
   Over("tile_n_a", 4), Over("tile_n_y", 3), Over("tile_n_y_bwd", 4),
   Over("tile_n_a_bwd", 4), Over("tile_m", 320), Over("tile_m", 192)}

MCx == [t \in 1 .. 3 |-> [h \in 0 .. 1 |-> <<<<1, 2>>, <<-1, 1>>, <<2, -1>>>>[t][h + 1]]]
MCdy == [t \in 1 .. 3 |-> [h \in 0 .. 1 |-> <<<<1, -1>>, <<2, 1>>, <<-1, 3>>>>[t][h + 1]]]
MCweight == [t \in 1 .. 3 |-> [e \in 0 .. 1 |-> <<<<2, 3>>, <<1, 0>>, <<3, 1>>>>[t][e + 1]]]
MCw1 == [e \in 0 .. 1 |-> [c \in 0 .. 3 |-> [h \in 0 .. 1 |-> ((e + 2 * c + h) % 3) - 1 + (c % 2)]]]
MCw2 == [e \in 0 .. 1 |-> [h \in 0 .. 1 |-> [i \in 0 .. 1 |-> 1 + ((e + h + 2 * i) % 3)]]]
=============================================================================
