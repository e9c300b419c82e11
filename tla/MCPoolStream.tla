---------------------------- MODULE MCPoolStream -----------------------------
(* Two sources in two channels, two local experts, two-slot tiles. *)
EXTENDS PoolStream, TLC

Pair(a, b) == (0 :> a) @@ (1 :> b)

Stream(s0, s1, s2, s3) == (0 :> s0) @@ (1 :> s1) @@ (2 :> s2) @@ (3 :> s3)

MCArrivals == {
  \* the first expert ends in a part-filled tile, the second in a full one;
  \* substreams share tiles, one spans two tiles of an expert, one is empty
  Stream(<< Pair(0, 1) >>, << Pair(0, -1), Pair(1, 0) >>, << Pair(-1, 1) >>, << >>),
  \* the first expert gets nothing
  Stream(<< >>, << Pair(1, -1) >>, << Pair(-1, 1) >>, << >>),
  \* nothing is routed to the rank
  Stream(<< >>, << >>, << >>, << >>) }

MCNumPidN == ("fwd" :> <<2, 2>>) @@ ("bwd" :> <<1, 2>>)

\* one output stripe in forward kernel Y, fewer than the CTAs of a cluster
MCNumPidNOdd == ("fwd" :> <<2, 1>>) @@ ("bwd" :> <<1, 1>>)
=============================================================================
