--------------------------- MODULE MCDispatchRing ----------------------------
(* Two layers of a training step and the first layer of the next one:
   forward 1, forward 2, backward 2, backward 1, forward 3.  The channel
   modelled is the second of two, so that tokens of the first one shift its
   offsets. *)
EXTENDS DispatchRing

MCSchedule == << [layer |-> 1, phase |-> 0], [layer |-> 2, phase |-> 0],
                 [layer |-> 2, phase |-> 1], [layer |-> 1, phase |-> 1],
                 [layer |-> 3, phase |-> 0] >>

MCLayers == {1, 2, 3}

(* The channel owns tokens 4 .. 7; token 3 belongs to the first channel.  The
   masks leave the ring untouched, fill it once, wrap it, and send only
   through the other channel. *)
FewMasks == { {}, {3}, {5}, {4, 7}, {5, 6, 7}, {3, 4, 5, 6, 7} }

(* Layer 2 is followed by backward launches with no barrier between: each
   sends the peer at least one token.  Layer 1 may send none. *)
RoutedMasks == [l \in MCLayers |-> IF l = 2 THEN FewMasks \ {{}} ELSE FewMasks]

AllMasks == [l \in MCLayers |-> FewMasks]
=============================================================================
