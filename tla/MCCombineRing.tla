---------------------------- MODULE MCCombineRing ----------------------------
(* Forward and backward combine of one layer.
   Two peers, two workers, a ring of three slots that two peers' rows wrap.
   The channel modelled is the first of two. *)
EXTENDS CombineRing

CONSTANTS p, q     \* the peers

MCSchedule == << [layer |-> 1, phase |-> 0], [layer |-> 1, phase |-> 1] >>
MCLayers == {1}
MCPeers == {p, q}

Routing(a, b) == [s \in MCPeers |-> IF s = p THEN a ELSE b]

(* The channel owns tokens 0 .. 5 of eleven.  Five tokens to p, so that its
   ring wraps while the workers are at different tokens, and one to q; two
   leading tokens for nobody, then four for q, and one of the next channel. *)
MCRoutings == { Routing({0, 1, 2, 3, 4}, {2}), Routing({6}, {2, 3, 4, 5}) }
=============================================================================
