---------------------------- MODULE SubstreamFifo ----------------------------
(***************************************************************************)
(* What one intranode dispatch substream promises the layers above it: for *)
(* every kernel launch a bounded first-in first-out channel of its own.    *)
(* Whatever the ring underneath remembers of earlier launches, the packets *)
(* a launch takes out are the packets that launch put in, in that order,   *)
(* each at most once, and never more than Capacity are in flight.          *)
(***************************************************************************)
EXTENDS Naturals, Sequences

CONSTANTS
  Launches,   \* the kernel launches that share the channel
  Packets,    \* what a packet can carry
  Capacity    \* packets in flight, at most

VARIABLES
  sent,       \* sent[g]: the packets launch g has put in, in order
  received    \* received[g]: the packets launch g has taken out, in order

vars == <<sent, received>>

Init ==
  /\ sent     = [g \in Launches |-> << >>]
  /\ received = [g \in Launches |-> << >>]

Send(g) ==
  /\ Len(sent[g]) - Len(received[g]) < Capacity
  /\ \E p \in Packets : sent' = [sent EXCEPT ![g] = Append(@, p)]
  /\ UNCHANGED received

Receive(g) ==
  /\ Len(received[g]) < Len(sent[g])
  /\ received' = [received EXCEPT ![g] = Append(@, sent[g][Len(@) + 1])]
  /\ UNCHANGED sent

Next == \E g \in Launches : Send(g) \/ Receive(g)

Spec == Init /\ [][Next]_vars
=============================================================================
