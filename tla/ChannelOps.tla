------------------------------ MODULE ChannelOps -----------------------------
(***************************************************************************)
(* The pure helpers that the intranode kernels share: how a rank's tokens  *)
(* are cut into channels, and how many of them go to one peer.             *)
(***************************************************************************)
EXTENDS Integers, FiniteSets

Smaller(a, b) == IF a <= b THEN a ELSE b

CeilDiv(a, b) == (a + b - 1) \div b

(***************************************************************************)
(* get_channel_task_range: channel c of num_channels owns the tokens       *)
(* ChannelStart .. ChannelEnd - 1 of num_tokens.                           *)
(***************************************************************************)
ChannelStart(num_tokens, num_channels, c) ==
  Smaller(CeilDiv(num_tokens, num_channels) * c, num_tokens)

ChannelEnd(num_tokens, num_channels, c) ==
  Smaller(ChannelStart(num_tokens, num_channels, c)
            + CeilDiv(num_tokens, num_channels), num_tokens)

(***************************************************************************)
(* A routing mask is one column of is_token_in_rank: the tokens that go to *)
(* one peer.  SelectedIn counts them in lo .. hi - 1.                      *)
(***************************************************************************)
SelectedIn(mask, lo, hi) == Cardinality({t \in mask : lo <= t /\ t < hi})

(***************************************************************************)
(* The value `last_head` starts from in the reverse scan of send_head: the *)
(* channel has no later token for this peer.                               *)
(***************************************************************************)
kReverseScanSentinel == 33554432

(* Faulty variant: an unsent token takes the position of an earlier one. *)
EncodeHeadsForward(heads, lo, hi) ==
  LET earlier(t) == {u \in lo .. hi - 1 : u < t /\ heads[u] >= 0}
      lastHead(t) == IF earlier(t) = {} THEN kReverseScanSentinel
                     ELSE heads[CHOOSE u \in earlier(t) : \A v \in earlier(t) : u >= v]
  IN  [t \in DOMAIN heads |->
         IF t \in lo .. hi - 1 /\ heads[t] < 0 THEN -lastHead(t) - 1 ELSE heads[t]]

(***************************************************************************)
(* The reverse scan at the end of the dispatch sender.  heads[t] holds the *)
(* ring position of token t, or a negative value if t does not go to this  *)
(* peer; such an entry becomes -h - 1 with h the position of the next      *)
(* token that does, so that combine can advance past it.                   *)
(***************************************************************************)
EncodeHeads(heads, lo, hi) ==
  LET later(t) == {u \in lo .. hi - 1 : u > t /\ heads[u] >= 0}
      nextHead(t) == IF later(t) = {} THEN kReverseScanSentinel
                     ELSE heads[CHOOSE u \in later(t) : \A v \in later(t) : u <= v]
  IN  [t \in DOMAIN heads |->
         IF t \in lo .. hi - 1 /\ heads[t] < 0 THEN -nextHead(t) - 1 ELSE heads[t]]
=============================================================================
