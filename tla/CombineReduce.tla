---------------------------- MODULE CombineReduce ----------------------------
(***************************************************************************)
(* What combine promises the model above it: the output of a token is      *)
(* written once in a launch, and it is the sum of the finished             *)
(* contributions of exactly the ranks the token was routed to -- never one *)
(* of another launch, never one the expert kernels still work on.          *)
(***************************************************************************)
EXTENDS Naturals

CONSTANTS
  Launches,   \* the combine launches, 1 .. n
  Ranks,      \* the ranks that may contribute
  Tokens      \* the tokens of the rank that reduces

VARIABLES
  launch,     \* the current launch
  routed,     \* routed[r]: the tokens that went to rank r
  finished,   \* finished[r]: those whose contribution is complete
  written,    \* written[g]: the tokens whose output launch g has written
  output      \* output[g][t]: the contributions summed in it

vars == <<launch, routed, finished, written, output>>

Contribution(g, r, t) == [launch |-> g, rank |-> r, token |-> t, finished |-> TRUE]

Init ==
  /\ launch = 0
  /\ routed = [r \in Ranks |-> {}]
  /\ finished = [r \in Ranks |-> {}]
  /\ written = [g \in Launches |-> {}]
  /\ output = [g \in Launches |-> [t \in Tokens |-> {}]]

Start ==
  /\ launch + 1 \in Launches /\ launch' = launch + 1
  /\ launch > 0 => written[launch] = Tokens
  /\ routed' \in [Ranks -> SUBSET Tokens]
  /\ finished' = [r \in Ranks |-> {}]
  /\ UNCHANGED <<written, output>>

Finish(r, t) ==
  /\ t \in routed[r] \ finished[r]
  /\ finished' = [finished EXCEPT ![r] = @ \cup {t}]
  /\ UNCHANGED <<launch, routed, written, output>>

Combine(t) ==
  /\ launch > 0 /\ t \notin written[launch]
  /\ \A r \in Ranks : t \in routed[r] => t \in finished[r]
  /\ written' = [written EXCEPT ![launch] = @ \cup {t}]
  /\ output' = [output EXCEPT ![launch][t] =
                  {Contribution(launch, r, t) : r \in {q \in Ranks : t \in routed[q]}}]
  /\ UNCHANGED <<launch, routed, finished>>

Next == Start \/ \E t \in Tokens : Combine(t) \/ \E r \in Ranks : Finish(r, t)

Spec == Init /\ [][Next]_vars
=============================================================================
