--------------------------- MODULE MCLayerStreams ---------------------------
(* Two layers forward and backward, then the next iteration's first forward;
   and one forward pass, for two ranks. *)
EXTENDS LayerStreams

F(l) == [dir |-> "forward", layer |-> l]
B(l) == [dir |-> "backward", layer |-> l]
MCSchedule == <<F(1), F(2), B(2), B(1), F(3)>>
MCTwoLayers == <<F(1), F(2), B(2)>>
MCOneForward == <<F(1)>>
=============================================================================
