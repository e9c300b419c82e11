--------------------------- MODULE BufferHostProofs --------------------------
(***************************************************************************)
(* For any number of Buffers, groups, widths and configs.                  *)
(*                                                                         *)
(* What the pins and the sequence counter of a Buffer guarantee about      *)
(* everything it launches, and that no launch outgrows the connections it  *)
(* was made with.                                                          *)
(*                                                                         *)
(* What the sizing of a Buffer guarantees about the calls it serves: the   *)
(* regions of what it launched are disjoint and within its allocation, a   *)
(* call that is no wider than the Buffer was sized for is never refused,   *)
(* and a call with the recommended config is never rejected because of     *)
(* what other Buffers did.                                                 *)
(***************************************************************************)
EXTENDS BufferHost, TLAPS

Rings == {"dispatch", "combine"}
Names == {"None", "chunked", "narrow"}

LEMMA ConfigIsSet ==
  ASSUME NEW sms, NEW a, NEW p, NEW q, NEW r
  PROVE  /\ DOMAIN Config(sms, a, p, q, r) =
              {"num_sms", "nvl_send", "nvl_recv", "rdma_send", "rdma_recv"}
         /\ Config(sms, a, p, q, r).num_sms = sms
BY DEF Config

LEMMA ExplicitIsSet ==
  ASSUME NEW name \in Names, NEW B, NEW rings \in Rings
  PROVE  /\ Explicit(name, Recommended(B, rings)) # Unset
         /\ Explicit(name, Recommended(B, rings)).num_sms = Resolved(B.ranks)
<1> DEFINE r == Recommended(B, rings)
<1>1. /\ DOMAIN r = {"num_sms", "nvl_send", "nvl_recv", "rdma_send", "rdma_recv"}
      /\ r.num_sms = Resolved(B.ranks)
  <2>1. CASE rings = "dispatch"
    BY <2>1, ConfigIsSet DEF Recommended, DispatchConfig
  <2>2. CASE rings = "combine"
    BY <2>2, ConfigIsSet DEF Recommended, CombineConfig
  <2> QED BY <2>1, <2>2 DEF Rings
<1> HIDE DEF r
<1>2. DOMAIN Unset = {}  BY DEF Unset
<1>3. /\ DOMAIN Explicit(name, r) = DOMAIN r
      /\ Explicit(name, r).num_sms = r.num_sms
  <2>1. CASE name = "None"  BY <2>1 DEF Explicit
  <2>2. CASE name = "chunked"  BY <1>1, <2>2 DEF Explicit
  <2>3. CASE name = "narrow"  BY <1>1, <2>3 DEF Explicit
  <2> QED BY <2>1, <2>2, <2>3 DEF Names
<1>4. "num_sms" \in DOMAIN Explicit(name, r)  BY <1>1, <1>3
<1>5. Explicit(name, r) # Unset  BY <1>2, <1>4
<1> QED BY <1>1, <1>3, <1>5 DEF r

(***************************************************************************)
(* The inductive invariant: whatever a Buffer launched is at its pins and  *)
(* tagged no higher than its counter.                                      *)
(***************************************************************************)
BufferFields == {"alive", "ranks", "sized", "nvl", "rdma", "rcs",
                 "geometry", "dispatch", "combine", "next_seq", "launched"}
HandleFields == {"buffer", "seq", "geometry", "channels", "stage"}

AtPins(B, L) ==
  /\ L.rings \in Rings
  /\ L.geometry # Unset /\ L.geometry = B.geometry
  /\ L.config # Unset /\ L.config = B[L.rings]
Tagged(B, L) == L.seq \in Nat /\ L.seq <= B.next_seq
BufferInv(B) ==
  /\ DOMAIN B = BufferFields
  /\ B.alive = TRUE
  /\ B.next_seq \in Nat
  /\ \A L \in B.launched : AtPins(B, L) /\ Tagged(B, L)
HandleInv(h) ==
  /\ DOMAIN h = HandleFields
  /\ h.buffer \in BufferIds /\ buffers[h.buffer].alive
  /\ h.seq \in Nat /\ h.seq <= buffers[h.buffer].next_seq
HostInv ==
  /\ buffers = [b \in BufferIds |-> buffers[b]]
  /\ \A b \in BufferIds : buffers[b].alive => BufferInv(buffers[b])
  /\ \A h \in handles : HandleInv(h)

(* setdefault: pins that are set stay, and what was launched stays at them. *)
LEMMA PinsKeep ==
  ASSUME NEW B, BufferInv(B), NEW rings \in Rings, NEW geometry, NEW c
  PROVE  LET P == Pins(B, rings, geometry, c)
         IN  /\ BufferInv(P)
             /\ P.next_seq = B.next_seq /\ P.launched = B.launched
             /\ P.ranks = B.ranks /\ P.rcs = B.rcs
<1> DEFINE first == IF B.geometry = Unset THEN geometry ELSE B.geometry
           config == IF B[rings] = Unset THEN c ELSE B[rings]
           P == Pins(B, rings, geometry, c)
<1>1. CASE first # geometry
  <2>1. P = B  BY <1>1 DEF Pins
  <2> QED BY <2>1
<1>2. CASE first = geometry
  <2>1. P = [B EXCEPT !.geometry = first, ![rings] = config]  BY <1>2 DEF Pins
  <2>2. rings \in DOMAIN B /\ "geometry" \in DOMAIN B
    BY DEF BufferInv, BufferFields, Rings
  <2>3. /\ DOMAIN P = DOMAIN B
        /\ P["geometry"] = first /\ P[rings] = config
        /\ \A f \in DOMAIN B : f # "geometry" /\ f # rings => P[f] = B[f]
    BY <2>1, <2>2 DEF Rings
  <2> HIDE DEF P, first, config
  <2>4. /\ P.next_seq = B.next_seq /\ P.launched = B.launched
        /\ P.alive = B.alive /\ P.ranks = B.ranks /\ P.rcs = B.rcs
    BY <2>3 DEF BufferInv, BufferFields, Rings
  <2>5. ASSUME NEW L \in B.launched PROVE AtPins(P, L) /\ Tagged(P, L)
    <3>1. AtPins(B, L) /\ Tagged(B, L)  BY DEF BufferInv
    <3>2. L.geometry = P["geometry"]  BY <2>3, <3>1 DEF AtPins, first
    <3>3. L.config = P[L.rings]
      <4>1. CASE L.rings = rings  BY <2>3, <3>1, <4>1 DEF AtPins, config
      <4>2. CASE L.rings # rings
        BY <2>3, <3>1, <4>2 DEF AtPins, BufferInv, BufferFields, Rings
      <4> QED BY <4>1, <4>2
    <3> QED BY <2>4, <3>1, <3>2, <3>3 DEF AtPins, Tagged
  <2>6. BufferInv(P)  BY <2>3, <2>4, <2>5 DEF BufferInv
  <2> QED BY <2>4, <2>6 DEF P
<1> QED BY <1>1, <1>2

(* What a call leaves in its Buffer. *)
Left(B0, rings, forward, geometry, c, fits, B, seq) ==
  IF ~Accepts(B0, rings, geometry, c) THEN Pins(B0, rings, geometry, c)
  ELSE IF fits THEN [B EXCEPT !.launched = @ \cup {Launch(rings, forward, seq, geometry, c)}]
  ELSE B

LEMMA LeftAtPins ==
  ASSUME NEW B0, NEW rings \in Rings, NEW forward, NEW geometry, NEW c,
         NEW fits, NEW B, NEW seq \in Nat,
         geometry # Unset, c # Unset, BufferInv(B0),
         BufferInv(B), seq <= B.next_seq, B0.next_seq <= B.next_seq,
         B.geometry = Pins(B0, rings, geometry, c).geometry,
         B[rings] = Pins(B0, rings, geometry, c)[rings]
  PROVE  LET N == Left(B0, rings, forward, geometry, c, fits, B, seq)
         IN  BufferInv(N) /\ B0.next_seq <= N.next_seq
<1> DEFINE P == Pins(B0, rings, geometry, c)
           L == Launch(rings, forward, seq, geometry, c)
           launchedB == [B EXCEPT !.launched = @ \cup {L}]
           N == Left(B0, rings, forward, geometry, c, fits, B, seq)
<1>1. B0.next_seq \in Nat  BY DEF BufferInv
<1>2. BufferInv(P) /\ P.next_seq = B0.next_seq  BY PinsKeep
<1> HIDE DEF P
<1>3. ASSUME Accepts(B0, rings, geometry, c)
      PROVE  BufferInv(launchedB) /\ launchedB.next_seq = B.next_seq
  <2>1. /\ DOMAIN B = BufferFields
        /\ B.geometry = geometry /\ B[rings] = c
    BY <1>3 DEF Accepts, BufferInv
  <2>2. /\ L.rings = rings /\ L.geometry = geometry /\ L.config = c /\ L.seq = seq
    BY DEF Launch
  <2>3. /\ DOMAIN launchedB = BufferFields
        /\ launchedB.launched = B.launched \cup {L}
        /\ launchedB.geometry = B.geometry /\ launchedB.next_seq = B.next_seq
        /\ launchedB.alive = B.alive
        /\ launchedB["dispatch"] = B["dispatch"] /\ launchedB["combine"] = B["combine"]
    BY <2>1 DEF BufferFields
  <2> HIDE DEF L, launchedB
  <2>4. ASSUME NEW K \in launchedB.launched
        PROVE  AtPins(launchedB, K) /\ Tagged(launchedB, K)
    <3>1. CASE K \in B.launched
      <4>1. AtPins(B, K) /\ Tagged(B, K)  BY <3>1 DEF BufferInv
      <4> QED BY <2>3, <4>1 DEF AtPins, Tagged, Rings
    <3>2. CASE K = L
      BY <2>1, <2>2, <2>3, <3>2 DEF AtPins, Tagged, Rings
    <3> QED BY <2>3, <2>4, <3>1, <3>2
  <2>5. B.alive = TRUE /\ B.next_seq \in Nat  BY DEF BufferInv
  <2> QED BY <2>3, <2>4, <2>5 DEF BufferInv
<1>4. CASE ~Accepts(B0, rings, geometry, c)
  <2>1. N = P  BY <1>4 DEF Left, P
  <2> QED BY <1>1, <1>2, <1>4, <2>1
<1>5. CASE Accepts(B0, rings, geometry, c) /\ fits
  <2>1. N = launchedB  BY <1>5 DEF Left
  <2> QED BY <1>3, <1>5, <2>1
<1>6. CASE Accepts(B0, rings, geometry, c) /\ ~fits
  <2>1. N = B  BY <1>6 DEF Left
  <2> QED BY <2>1
<1> QED BY <1>4, <1>5, <1>6

(* The step SeqIncreases speaks of. *)
SeqStep == \A h \in handles' : h.stage = "dispatched" /\ h \notin handles =>
             \A L \in buffers[h.buffer].launched : L.seq < h.seq

(* After a call on one Buffer, the handles that stay or are new are in order. *)
LEMMA CallKeepsHost ==
  ASSUME HostInv, NEW b \in BufferIds, buffers[b].alive,
         buffers' = [d \in BufferIds |-> buffers'[d]],
         \A d \in BufferIds \ {b} : buffers'[d] = buffers[d],
         BufferInv(buffers'[b]),
         buffers[b].next_seq <= buffers'[b].next_seq,
         \A h \in handles' : \/ h \in handles
                             \/ /\ DOMAIN h = HandleFields /\ h.buffer = b
                                /\ h.seq \in Nat /\ h.seq <= buffers'[b].next_seq
  PROVE  HostInv'
<1>1. ASSUME NEW d \in BufferIds, buffers'[d].alive PROVE BufferInv(buffers'[d])
  BY <1>1 DEF HostInv
<1>2. ASSUME NEW h \in handles' PROVE HandleInv(h)'
  <2>1. CASE h \in handles
    <3>1. HandleInv(h)  BY <2>1 DEF HostInv
    <3>2. CASE h.buffer = b
      <4>1. BufferInv(buffers[b])  BY DEF HostInv
      <4> QED BY <3>1, <3>2, <4>1 DEF HandleInv, BufferInv
    <3>3. CASE h.buffer # b  BY <3>1, <3>3 DEF HandleInv
    <3> QED BY <3>2, <3>3
  <2>2. CASE h \notin handles  BY <2>2 DEF HandleInv, BufferInv
  <2> QED BY <2>1, <2>2
<1>3. HostInv' = (/\ buffers' = [d \in BufferIds |-> buffers'[d]]
                  /\ \A d \in BufferIds : buffers'[d].alive => BufferInv(buffers'[d])
                  /\ \A h \in handles' : HandleInv(h)')
  BY DEF HostInv, BufferInv, AtPins, Tagged
<1> QED BY <1>1, <1>2, <1>3

LEMMA DispatchKeeps ==
  ASSUME HostInv, NEW b \in BufferIds, NEW h4, NEW topk, NEW experts,
         NEW given \in Names, Dispatch(b, h4, topk, experts, given)
  PROVE  HostInv' /\ SeqStep
<1> DEFINE B0 == buffers[b]
           c == Explicit(given, Recommended(B0, "dispatch"))
           geometry == <<h4, topk>>
           fits == DispatchFits(c, B0.ranks, h4, topk, experts, B0.nvl, B0.rdma)
           seq == B0.next_seq + 1
           P == Pins(B0, "dispatch", geometry, c)
           B == [P EXCEPT !.next_seq = seq]
           new == [buffer |-> b, seq |-> seq, geometry |-> geometry,
                   channels |-> Channels(c), stage |-> "dispatched"]
<1>1. /\ B0.alive
      /\ Call("dispatch", b, "dispatch", TRUE, given, geometry, c, fits, B, seq)
      /\ handles' = IF last'.outcome # "launched" THEN handles ELSE handles \cup {new}
  BY DEF Dispatch, AllocateSeq
<1>2. BufferInv(B0)  BY <1>1 DEF HostInv
<1>3. geometry # Unset  BY DEF Unset
<1>4. "dispatch" \in Rings  BY DEF Rings
<1>5. c # Unset
  BY <1>4, ExplicitIsSet
<1>6. /\ BufferInv(P)
      /\ P.next_seq = B0.next_seq /\ P.launched = B0.launched
  BY <1>2, <1>4, PinsKeep
<1>7. /\ BufferInv(B) /\ seq \in Nat /\ seq = B.next_seq /\ B0.next_seq < seq
      /\ B.geometry = P.geometry /\ B["dispatch"] = P["dispatch"]
  <2> HIDE DEF P, c, geometry
  <2>1. DOMAIN P = BufferFields /\ B0.next_seq \in Nat  BY <1>2, <1>6 DEF BufferInv
  <2>2. /\ DOMAIN B = BufferFields /\ B.next_seq = seq /\ B.launched = P.launched
        /\ B.alive = P.alive /\ B.geometry = P.geometry
        /\ B["dispatch"] = P["dispatch"] /\ B["combine"] = P["combine"]
    BY <2>1 DEF BufferFields
  <2>3. seq \in Nat /\ B0.next_seq < seq  BY <2>1
  <2> HIDE DEF B, seq
  <2>4. ASSUME NEW L \in B.launched PROVE AtPins(B, L) /\ Tagged(B, L)
    <3>1. AtPins(P, L) /\ Tagged(P, L)  BY <1>6, <2>2 DEF BufferInv
    <3> QED BY <1>6, <2>1, <2>2, <2>3, <3>1 DEF AtPins, Tagged, Rings
  <2> QED BY <1>1, <1>6, <2>2, <2>3, <2>4 DEF BufferInv
<1> HIDE DEF P, c, geometry, fits, B
<1>8. PICK N : /\ buffers' = [buffers EXCEPT ![b] = N]
               /\ BufferInv(N) /\ B0.next_seq <= N.next_seq
               /\ last'.outcome = "launched" => N.next_seq = seq
  <2>1. PICK g, x, f, X, Y, n :
             g = geometry /\ x = c /\ f = fits /\ X = B0 /\ Y = B /\ n = seq
    OBVIOUS
  <2> DEFINE N == Left(X, "dispatch", TRUE, g, x, f, Y, n)
  <2>2. seq <= B.next_seq /\ B0.next_seq <= B.next_seq
    BY <1>2, <1>7 DEF BufferInv
  <2>3. P = Pins(X, "dispatch", g, x)  BY <2>1 DEF P
  <2>4. /\ Accepts(X, "dispatch", g, x) /\ f <=> last'.outcome = "launched"
        /\ buffers' = [buffers EXCEPT ![b] = N]
    <3> HIDE DEF seq
    <3>1. Call("dispatch", b, "dispatch", TRUE, given, g, x, f, Y, n)
      BY <1>1, <2>1
    <3> QED BY <2>1, <3>1 DEF Call, Left, Launched, Failed
  <2> HIDE DEF seq, B0
  <2>5. /\ BufferInv(X) /\ BufferInv(Y) /\ n \in Nat /\ n = Y.next_seq
        /\ n <= Y.next_seq /\ X.next_seq <= Y.next_seq /\ g # Unset /\ x # Unset
        /\ Y.geometry = Pins(X, "dispatch", g, x).geometry
        /\ Y["dispatch"] = Pins(X, "dispatch", g, x)["dispatch"]
    BY <1>1, <1>2, <1>3, <1>5, <1>7, <2>1, <2>2, <2>3
  <2>6. /\ BufferInv(N) /\ X.next_seq <= N.next_seq
        /\ Accepts(X, "dispatch", g, x) /\ f => N.next_seq = Y.next_seq
    <3>1. PICK rings : rings = "dispatch"  OBVIOUS
    <3>2. rings \in Rings  BY <1>4, <3>1
    <3> DEFINE M == Left(X, rings, TRUE, g, x, f, Y, n)
    <3>3. BufferInv(M)  BY <2>5, <3>1, <3>2, LeftAtPins
    <3>4. X.next_seq <= M.next_seq  BY <2>5, <3>1, <3>2, LeftAtPins
    <3>5. ASSUME Accepts(X, rings, g, x), f PROVE M.next_seq = Y.next_seq
      <4>1. DOMAIN Y = BufferFields  BY <2>5 DEF BufferInv
      <4>2. M = [Y EXCEPT !.launched = @ \cup {Launch(rings, TRUE, n, g, x)}]
        BY <3>5 DEF Left
      <4> QED BY <4>1, <4>2 DEF BufferFields
    <3>6. M = N  BY <3>1
    <3> HIDE DEF M, N
    <3> QED BY <3>1, <3>3, <3>4, <3>5, <3>6
  <2> HIDE DEF N
  <2> QED BY <2>1, <2>4, <2>5, <2>6
<1>9. new.buffer = b /\ new.seq = seq /\ DOMAIN new = HandleFields  BY DEF HandleFields
<1>10. HostInv'
  <2>1. \A h \in handles' : \/ h \in handles
                            \/ /\ DOMAIN h = HandleFields /\ h.buffer = b
                               /\ h.seq \in Nat /\ h.seq <= buffers'[b].next_seq
    <3> HIDE DEF new, seq
    <3>1. ASSUME NEW h \in handles', h \notin handles
          PROVE  h = new /\ last'.outcome = "launched"
      BY <1>1, <3>1
    <3>2. buffers'[b].next_seq = seq \/ last'.outcome # "launched"
      BY <1>8 DEF HostInv
    <3>3. seq <= buffers'[b].next_seq \/ last'.outcome # "launched"
      BY <1>7, <3>2
    <3>4. seq \in Nat  BY <1>7
    <3>5. ASSUME NEW h \in handles', h \notin handles
          PROVE  /\ DOMAIN h = HandleFields /\ h.buffer = b
                 /\ h.seq \in Nat /\ h.seq <= buffers'[b].next_seq
      <4>1. h = new /\ last'.outcome = "launched"  BY <3>1, <3>5
      <4>2. DOMAIN h = HandleFields /\ h.buffer = b /\ h.seq = seq  BY <1>9, <4>1
      <4> QED BY <3>3, <3>4, <4>1, <4>2
    <3> QED BY <3>5
  <2>2. /\ buffers' = [d \in BufferIds |-> buffers'[d]]
        /\ \A d \in BufferIds \ {b} : buffers'[d] = buffers[d]
        /\ buffers'[b] = N
    BY <1>8 DEF HostInv
  <2> QED BY <1>1, <1>8, <2>1, <2>2, CallKeepsHost
<1>11. SeqStep
  <2> SUFFICES ASSUME NEW h \in handles', h \notin handles,
                      NEW L \in buffers[h.buffer].launched
               PROVE  L.seq < h.seq
    BY DEF SeqStep
  <2>1. h = new  BY <1>1
  <2>2. h.buffer = b /\ h.seq = seq  BY <1>9, <2>1
  <2>3. L.seq \in Nat /\ L.seq <= B0.next_seq  BY <1>2, <2>2 DEF BufferInv, Tagged
  <2> QED BY <1>2, <2>2, <2>3 DEF BufferInv
<1> QED BY <1>10, <1>11

(* A call on an existing handle: combine, and the gradients of both. *)
LEMMA HandleCallKeeps ==
  ASSUME HostInv, NEW h \in handles,
         NEW op, NEW rings \in Rings, NEW forward, NEW given, NEW g, NEW x, NEW f, NEW to,
         g # Unset, x # Unset, "dispatched" \notin to,
         Call(op, h.buffer, rings, forward, given, g, x, f,
              Pins(buffers[h.buffer], rings, g, x), h.seq),
         Advance(h, to)
  PROVE  HostInv' /\ SeqStep
<1> DEFINE b == h.buffer
<1>1. PICK X, n : X = buffers[b] /\ n = h.seq  OBVIOUS
<1> DEFINE P == Pins(X, rings, g, x)
           N == Left(X, rings, forward, g, x, f, P, n)
<1>2. /\ b \in BufferIds /\ buffers[b].alive /\ DOMAIN h = HandleFields
      /\ n \in Nat /\ n <= X.next_seq
  BY <1>1 DEF HostInv, HandleInv
<1>3. BufferInv(X)  BY <1>1, <1>2 DEF HostInv
<1>4. BufferInv(P)  BY <1>3, PinsKeep
<1>5. P.next_seq = X.next_seq  BY <1>3, PinsKeep
<1>6. buffers' = [buffers EXCEPT ![b] = N]  BY <1>1 DEF Call, Left
<1>7. X.next_seq <= P.next_seq /\ n <= P.next_seq
  BY <1>2, <1>3, <1>5 DEF BufferInv
<1>8. BufferInv(N) /\ X.next_seq <= N.next_seq
  <2> HIDE DEF N, P
  <2>1. PICK Y : Y = P  OBVIOUS
  <2>2. /\ Y.geometry = Pins(X, rings, g, x).geometry
        /\ Y[rings] = Pins(X, rings, g, x)[rings]
    BY <2>1 DEF P
  <2>3. BufferInv(Y) /\ n <= Y.next_seq /\ X.next_seq <= Y.next_seq
    BY <1>4, <1>7, <2>1
  <2>4. BufferInv(Left(X, rings, forward, g, x, f, Y, n))
    BY <1>2, <1>3, <2>2, <2>3, LeftAtPins
  <2>5. X.next_seq <= Left(X, rings, forward, g, x, f, Y, n).next_seq
    BY <1>2, <1>3, <2>2, <2>3, LeftAtPins
  <2> QED BY <2>1, <2>4, <2>5 DEF N
<1> HIDE DEF N, P
<1>9. ASSUME NEW k \in handles', k \notin handles
      PROVE  /\ DOMAIN k = HandleFields /\ k.buffer = b /\ k.seq = n
             /\ k.stage # "dispatched"
  <2>1. PICK s \in to : k = [h EXCEPT !.stage = s]  BY <1>9 DEF Advance
  <2> QED BY <1>1, <1>2, <2>1 DEF HandleFields
<1>10. HostInv'
  <2>1. /\ buffers' = [d \in BufferIds |-> buffers'[d]]
        /\ \A d \in BufferIds \ {b} : buffers'[d] = buffers[d]
        /\ buffers'[b] = N
    BY <1>2, <1>6 DEF HostInv
  <2>2. X.next_seq \in Nat /\ N.next_seq \in Nat  BY <1>3, <1>8 DEF BufferInv
  <2>3. n <= buffers'[b].next_seq  BY <1>2, <1>8, <2>1, <2>2
  <2>4. \A k \in handles' : \/ k \in handles
                            \/ /\ DOMAIN k = HandleFields /\ k.buffer = b
                               /\ k.seq \in Nat /\ k.seq <= buffers'[b].next_seq
    BY <1>2, <1>9, <2>3
  <2>5. PICK d : d = b  OBVIOUS
  <2> HIDE DEF b
  <2> QED BY <1>1, <1>2, <1>8, <2>1, <2>4, <2>5, CallKeepsHost
<1>11. SeqStep  BY <1>9 DEF SeqStep
<1> QED BY <1>10, <1>11

LEMMA CombineKeeps ==
  ASSUME HostInv, NEW h \in handles, NEW h4, NEW given \in Names,
         NEW op, NEW from, NEW to, "dispatched" \notin to,
         Combine(h, h4, given, op, from, to)
  PROVE  HostInv' /\ SeqStep
<1> DEFINE B == buffers[h.buffer]
           c == Explicit(given, Recommended(B, "combine"))
           geometry == <<h4, h.geometry[2]>>
           fits == /\ CombineFits(c, B.ranks, h4, geometry[2], B.nvl)
                   /\ Internode(B.ranks) \/ Channels(c) = h.channels
<1>1. PICK rings : rings = "combine"  OBVIOUS
<1>2. PICK g, x, f, forward, X :
        g = geometry /\ x = c /\ f = fits /\ forward = (op = "combine") /\ X = B
  OBVIOUS
<1>3. rings \in Rings  BY <1>1 DEF Rings
<1>4. g # Unset  BY <1>2 DEF Unset
<1>5. x # Unset
  <2>1. Explicit(given, Recommended(X, rings)) # Unset  BY <1>3, ExplicitIsSet
  <2> QED BY <1>1, <1>2, <2>1
<1> HIDE DEF c, geometry, fits
<1>6. /\ Call(op, h.buffer, rings, forward, given, g, x, f,
              Pins(buffers[h.buffer], rings, g, x), h.seq)
      /\ Advance(h, to)
  BY <1>1, <1>2 DEF Combine, c, geometry, fits
<1> QED BY <1>3, <1>4, <1>5, <1>6, HandleCallKeeps

LEMMA DispatchGradsKeeps ==
  ASSUME HostInv, NEW h \in handles, NEW h4, NEW given \in Names,
         DispatchGrads(h, h4, given)
  PROVE  HostInv' /\ SeqStep
<1> DEFINE B == buffers[h.buffer]
           c == Explicit(given, Recommended(B, "dispatch"))
           geometry == <<h4, h.geometry[2]>>
           fits == /\ DispatchGradsFits(c, B.ranks, B.nvl)
                   /\ Internode(B.ranks) \/ Channels(c) = h.channels
<1>1. PICK rings : rings = "dispatch"  OBVIOUS
<1>2. PICK g, x, f, op, forward, to, X :
        /\ g = geometry /\ x = c /\ f = fits /\ X = B
        /\ op = "dispatch_grads" /\ forward = FALSE /\ to = {"grads"}
  OBVIOUS
<1>3. rings \in Rings  BY <1>1 DEF Rings
<1>4. g # Unset /\ "dispatched" \notin to  BY <1>2 DEF Unset
<1>5. x # Unset
  <2>1. Explicit(given, Recommended(X, rings)) # Unset  BY <1>3, ExplicitIsSet
  <2> QED BY <1>1, <1>2, <2>1
<1> HIDE DEF c, geometry, fits
<1>6. /\ Call(op, h.buffer, rings, forward, given, g, x, f,
              Pins(buffers[h.buffer], rings, g, x), h.seq)
      /\ Advance(h, to)
  BY <1>1, <1>2 DEF DispatchGrads, c, geometry, fits
<1> QED BY <1>3, <1>4, <1>5, <1>6, HandleCallKeeps

LEMMA NewBufferAtPins ==
  ASSUME NEW ranks, NEW h4, NEW sms, NEW env
  PROVE  BufferInv(NewBuffer(ranks, h4, sms, env))
<1> DEFINE B == NewBuffer(ranks, h4, sms, env)
<1>1. /\ DOMAIN B = BufferFields /\ B.alive = TRUE
      /\ B.next_seq = 0 /\ B.launched = {}
  BY DEF NewBuffer, BufferFields
<1> HIDE DEF B
<1>2. BufferInv(B)  BY <1>1 DEF BufferInv
<1> QED BY <1>2 DEF B

(* A Buffer that comes or goes takes no other Buffer's handle with it. *)
LEMMA SizedForKeeps ==
  ASSUME HostInv, NEW b \in BufferIds, NEW ranks, NEW h4, SizedFor(b, ranks, h4)
  PROVE  HostInv' /\ SeqStep
<1>1. PICK N : /\ buffers' = [buffers EXCEPT ![b] = N] /\ BufferInv(N)
  BY NewBufferAtPins DEF SizedFor
<1>2. handles' = handles /\ ~buffers[b].alive  BY DEF SizedFor
<1>3. ASSUME NEW h \in handles PROVE HandleInv(h)'
  <2>1. HandleInv(h)  BY DEF HostInv
  <2>2. buffers'[h.buffer] = buffers[h.buffer]  BY <1>1, <1>2, <2>1 DEF HandleInv, HostInv
  <2> QED BY <2>1, <2>2 DEF HandleInv
<1>4. /\ buffers' = [d \in BufferIds |-> buffers'[d]]
      /\ \A d \in BufferIds : buffers'[d].alive => BufferInv(buffers'[d])
  BY <1>1 DEF HostInv
<1>5. HostInv' = (/\ buffers' = [d \in BufferIds |-> buffers'[d]]
                  /\ \A d \in BufferIds : buffers'[d].alive => BufferInv(buffers'[d])
                  /\ \A h \in handles' : HandleInv(h)')
  BY DEF HostInv, BufferInv, AtPins, Tagged
<1> QED BY <1>2, <1>3, <1>4, <1>5 DEF SeqStep

LEMMA DropKeeps ==
  ASSUME HostInv, NEW b \in BufferIds, Drop(b)
  PROVE  HostInv' /\ SeqStep
<1>1. /\ buffers' = [buffers EXCEPT ![b] = NoBuffer]
      /\ handles' = {h \in handles : h.buffer # b}
  BY DEF Drop
<1>2. NoBuffer.alive = FALSE  BY DEF NoBuffer
<1>3. ASSUME NEW h \in handles' PROVE HandleInv(h)'
  <2>1. h \in handles /\ h.buffer # b /\ HandleInv(h)  BY <1>1 DEF HostInv
  <2>2. buffers'[h.buffer] = buffers[h.buffer]  BY <1>1, <2>1 DEF HandleInv, HostInv
  <2> QED BY <2>1, <2>2 DEF HandleInv
<1>4. /\ buffers' = [d \in BufferIds |-> buffers'[d]]
      /\ \A d \in BufferIds : buffers'[d].alive => BufferInv(buffers'[d])
  BY <1>1, <1>2 DEF HostInv
<1>5. HostInv' = (/\ buffers' = [d \in BufferIds |-> buffers'[d]]
                  /\ \A d \in BufferIds : buffers'[d].alive => BufferInv(buffers'[d])
                  /\ \A h \in handles' : HandleInv(h)')
  BY DEF HostInv, BufferInv, AtPins, Tagged
<1> QED BY <1>1, <1>3, <1>4, <1>5 DEF SeqStep

LEMMA NextKeeps ==
  ASSUME HostInv, [Next]_vars
  PROVE  HostInv' /\ SeqStep
<1> USE BufferAssumption DEF Names
<1>1. CASE \E n \in PinnedSms : SetNumSms(n)
  <2>1. UNCHANGED <<buffers, handles>>  BY <1>1 DEF SetNumSms
  <2> QED BY <2>1 DEF HostInv, HandleInv, BufferInv, AtPins, Tagged, SeqStep
<1>2. CASE \E b \in BufferIds, ranks \in Groups, h4 \in SizedWidths : SizedFor(b, ranks, h4)
  BY <1>2, SizedForKeeps
<1>3. CASE \E b \in BufferIds : Drop(b)
  BY <1>3, DropKeeps
<1>4. CASE \E b \in BufferIds, h4 \in Widths, topk \in TopKs, experts \in Experts,
              given \in DispatchGiven : Dispatch(b, h4, topk, experts, given)
  BY <1>4, DispatchKeeps
<1>5. CASE \E h \in handles, h4 \in Widths, given \in CombineGiven : CombineForward(h, h4, given)
  <2>1. PICK h \in handles, h4 \in Widths, given \in CombineGiven :
          Combine(h, h4, given, "combine", "dispatched", {"combined"})
    BY <1>5 DEF CombineForward
  <2>2. given \in Names  OBVIOUS
  <2>3. PICK to : to = {"combined"}  OBVIOUS
  <2>4. "dispatched" \notin to  BY <2>3
  <2> QED BY <2>1, <2>2, <2>3, <2>4, CombineKeeps
<1>6. CASE \E h \in handles, h4 \in Widths, given \in CombineGiven : CombineGrads(h, h4, given)
  <2>1. PICK h \in handles, h4 \in Widths, given \in CombineGiven :
          Combine(h, h4, given, "combine_grads", "grads", {"done"})
    BY <1>6 DEF CombineGrads
  <2>2. given \in Names  OBVIOUS
  <2>3. PICK to : to = {"done"}  OBVIOUS
  <2>4. "dispatched" \notin to  BY <2>3
  <2> QED BY <2>1, <2>2, <2>3, <2>4, CombineKeeps
<1>7. CASE \E h \in handles, h4 \in Widths, given \in DispatchGiven : DispatchGrads(h, h4, given)
  BY <1>7, DispatchGradsKeeps
<1>8. CASE UNCHANGED vars
  BY <1>8 DEF vars, HostInv, HandleInv, BufferInv, AtPins, Tagged, SeqStep
<1> QED BY <1>1, <1>2, <1>3, <1>4, <1>5, <1>6, <1>7, <1>8 DEF Next

LEMMA InitHost == Init => HostInv
BY DEF Init, HostInv, NoBuffer

THEOREM HostInvHolds == Spec => []HostInv
<1>1. HostInv /\ [Next]_vars => HostInv'  BY NextKeeps
<1> QED BY <1>1, InitHost, PTL DEF Spec

(* Whatever mix of calls, configs, failures and other Buffers: all launches of
   a Buffer share one geometry, and those of one ring chain one config, so the
   cursors its internode rings keep are read where they were written. *)
THEOREM OneGeometry == Spec => []OneGeometryPerBuffer
<1>1. HostInv => OneGeometryPerBuffer
  <2> SUFFICES ASSUME HostInv, NEW b \in Live,
                      NEW K \in buffers[b].launched, NEW L \in buffers[b].launched
               PROVE  K.geometry = L.geometry /\ (K.rings = L.rings => K.config = L.config)
    BY DEF OneGeometryPerBuffer
  <2>1. BufferInv(buffers[b])  BY DEF HostInv, Live
  <2> QED BY <2>1 DEF BufferInv, AtPins
<1> QED BY <1>1, HostInvHolds, PTL

(* A dispatch is tagged above everything its Buffer's rings ever carried, the
   calls that were refused and the layers that are over included. *)
THEOREM SeqAlwaysIncreases == Spec => SeqIncreases
<1>1. HostInv /\ [Next]_vars => [SeqStep]_vars  BY NextKeeps
<1>2. SeqIncreases <=> [][SeqStep]_vars  BY DEF SeqIncreases, SeqStep
<1> QED BY <1>1, <1>2, HostInvHolds, PTL DEF Spec

(***************************************************************************)
(* The connection count of a Buffer is fixed when it is made; the SM count *)
(* is read again by every call.  The two agree as long as no caller        *)
(* changes the SM count while a Buffer exists.                             *)
(***************************************************************************)
Connected(B, n) ==
  Internode(B.ranks) => /\ B.rcs = n
                        /\ \A L \in B.launched : L.config.num_sms = n
Sms(given, n, ranks) == IF given THEN n ELSE AutoPick(ranks)      \* Resolved
RcInv ==
  /\ num_sms \in Nat
  /\ \A b \in BufferIds :
       buffers[b].alive => Connected(buffers[b], Sms(explicit, num_sms, buffers[b].ranks))

(* A call changes neither the group of its Buffer nor its connections, and
   launches at most its own config. *)
LEMMA LeftConnected ==
  ASSUME NEW B0, NEW rings \in Rings, NEW forward, NEW geometry, NEW c,
         NEW fits, NEW B, NEW seq, NEW n,
         BufferInv(B0), DOMAIN B = BufferFields,
         B.ranks = B0.ranks, B.rcs = B0.rcs, B.launched = B0.launched,
         Connected(B0, n), c.num_sms = n
  PROVE  LET N == Left(B0, rings, forward, geometry, c, fits, B, seq)
         IN  N.ranks = B0.ranks /\ Connected(N, n)
<1> DEFINE P == Pins(B0, rings, geometry, c)
           L == Launch(rings, forward, seq, geometry, c)
           launchedB == [B EXCEPT !.launched = @ \cup {L}]
           N == Left(B0, rings, forward, geometry, c, fits, B, seq)
<1>1. P.ranks = B0.ranks /\ P.rcs = B0.rcs /\ P.launched = B0.launched
  BY PinsKeep
<1>2. /\ launchedB.ranks = B0.ranks /\ launchedB.rcs = B0.rcs
      /\ launchedB.launched = B0.launched \cup {L}
  BY DEF BufferFields
<1>3. L.config = c  BY DEF Launch
<1>4. N = P \/ N = launchedB \/ N = B  BY DEF Left
<1> HIDE DEF N, P, launchedB, L
<1>5. /\ N.ranks = B0.ranks /\ N.rcs = B0.rcs
      /\ N.launched \subseteq B0.launched \cup {L}
  BY <1>1, <1>2, <1>4
<1>6. Connected(N, n)  BY <1>3, <1>5 DEF Connected
<1> QED BY <1>5, <1>6 DEF N

(* A call leaves what every Buffer resolves the SM count to. *)
LEMMA CallKeepsRcs ==
  ASSUME RcInv, HostInv, NEW b \in BufferIds, NEW N,
         buffers' = [buffers EXCEPT ![b] = N],
         Connected(N, Sms(explicit, num_sms, N.ranks)),
         explicit' = explicit,
         num_sms' = num_sms \/ num_sms' = Sms(explicit, num_sms, N.ranks)
  PROVE  RcInv'
<1>1. num_sms' \in Nat  BY DEF RcInv, Sms, AutoPick
<1>2. \A ranks : Sms(explicit', num_sms', ranks) = Sms(explicit, num_sms, ranks)
  BY DEF Sms
<1>3. ASSUME NEW d \in BufferIds, buffers'[d].alive
      PROVE  Connected(buffers'[d], Sms(explicit', num_sms', buffers'[d].ranks))
  <2>1. PICK r : r = buffers'[d].ranks  OBVIOUS
  <2>2. CASE d = b
    <3>1. buffers'[d] = N  BY <2>2 DEF HostInv
    <3> QED BY <1>2, <2>1, <3>1
  <2>3. CASE d # b
    <3>1. buffers'[d] = buffers[d]  BY <2>3 DEF HostInv
    <3>2. Connected(buffers[d], Sms(explicit, num_sms, buffers[d].ranks))
      BY <1>3, <3>1 DEF RcInv
    <3> QED BY <1>2, <2>1, <3>1, <3>2
  <2> QED BY <2>2, <2>3
<1> QED BY <1>1, <1>3 DEF RcInv, Connected

LEMMA DispatchConnected ==
  ASSUME RcInv, HostInv, NEW b0 \in BufferIds, NEW h4, NEW topk, NEW experts,
         NEW given \in Names, Dispatch(b0, h4, topk, experts, given)
  PROVE  RcInv'
<1> DEFINE b == b0
           B0 == buffers[b]
           c == Explicit(given, Recommended(B0, "dispatch"))
           geometry == <<h4, topk>>
           fits == DispatchFits(c, B0.ranks, h4, topk, experts, B0.nvl, B0.rdma)
           P == Pins(B0, "dispatch", geometry, c)
           seq == AllocateSeq(B0)
           B == [P EXCEPT !.next_seq = seq]
<1>1. PICK rings : rings = "dispatch"  OBVIOUS
<1>2. PICK X, g, x, f, q, forward, n :
        /\ X = B0 /\ g = geometry /\ x = c /\ f = fits /\ q = seq
        /\ forward = TRUE /\ n = Sms(explicit, num_sms, B0.ranks)
  OBVIOUS
<1>3. PICK Y : Y = B  OBVIOUS
<1>4. rings \in Rings  BY <1>1 DEF Rings
<1>5. b \in BufferIds /\ B0.alive  BY DEF Dispatch
<1>6. BufferInv(X) /\ Connected(X, n)  BY <1>2, <1>5 DEF HostInv, RcInv
<1>7. x.num_sms = n
  <2>1. Explicit(given, Recommended(X, rings)).num_sms = Resolved(X.ranks)
    BY <1>4, ExplicitIsSet
  <2>2. x = Explicit(given, Recommended(X, rings))  BY <1>1, <1>2
  <2> HIDE DEF c
  <2> QED BY <1>2, <2>1, <2>2 DEF Resolved, Sms
<1>8. /\ DOMAIN Y = BufferFields /\ Y.ranks = X.ranks
      /\ Y.rcs = X.rcs /\ Y.launched = X.launched
  <2>1. /\ BufferInv(Pins(X, rings, g, x)) /\ Pins(X, rings, g, x).launched = X.launched
        /\ Pins(X, rings, g, x).ranks = X.ranks /\ Pins(X, rings, g, x).rcs = X.rcs
    BY <1>4, <1>6, PinsKeep
  <2>2. P = Pins(X, rings, g, x)  BY <1>1, <1>2
  <2> HIDE DEF P
  <2> QED BY <1>3, <2>1, <2>2 DEF BufferInv, BufferFields
<1> HIDE DEF c, geometry, fits, seq
<1>9. /\ buffers' = [buffers EXCEPT ![b] = Left(X, rings, forward, g, x, f, Y, q)]
      /\ explicit' = explicit
      /\ num_sms' = num_sms \/ num_sms' = n
  BY <1>1, <1>2, <1>3
  DEF Dispatch, Call, Left, RecommendedFor, Resolved, Sms, c, geometry, fits, seq
<1> HIDE DEF P, B
<1>10. /\ Left(X, rings, forward, g, x, f, Y, q).ranks = X.ranks
       /\ Connected(Left(X, rings, forward, g, x, f, Y, q), n)
  BY <1>4, <1>6, <1>7, <1>8, LeftConnected
<1>11. PICK N, d : N = Left(X, rings, forward, g, x, f, Y, q) /\ d = b  OBVIOUS
<1>12. n = Sms(explicit, num_sms, N.ranks)  BY <1>2, <1>10, <1>11
<1> HIDE DEF b
<1> QED BY <1>2, <1>5, <1>9, <1>10, <1>11, <1>12, CallKeepsRcs

LEMMA CombineConnected ==
  ASSUME RcInv, HostInv, NEW h \in handles, NEW h4, NEW given \in Names,
         NEW op, NEW from, NEW to, Combine(h, h4, given, op, from, to)
  PROVE  RcInv'
<1> DEFINE b == h.buffer
           B0 == buffers[b]
           c == Explicit(given, Recommended(B0, "combine"))
           geometry == <<h4, h.geometry[2]>>
           fits == /\ CombineFits(c, B0.ranks, h4, geometry[2], B0.nvl)
                   /\ Internode(B0.ranks) \/ Channels(c) = h.channels
           P == Pins(B0, "combine", geometry, c)
           seq == h.seq
           B == P
<1>1. PICK rings : rings = "combine"  OBVIOUS
<1>2. PICK X, g, x, f, q, forward, n :
        /\ X = B0 /\ g = geometry /\ x = c /\ f = fits /\ q = seq
        /\ forward = (op = "combine") /\ n = Sms(explicit, num_sms, B0.ranks)
  OBVIOUS
<1>3. PICK Y : Y = B  OBVIOUS
<1>4. rings \in Rings  BY <1>1 DEF Rings
<1>5. b \in BufferIds /\ B0.alive  BY DEF HostInv, HandleInv
<1>6. BufferInv(X) /\ Connected(X, n)  BY <1>2, <1>5 DEF HostInv, RcInv
<1>7. x.num_sms = n
  <2>1. Explicit(given, Recommended(X, rings)).num_sms = Resolved(X.ranks)
    BY <1>4, ExplicitIsSet
  <2>2. x = Explicit(given, Recommended(X, rings))  BY <1>1, <1>2
  <2> HIDE DEF c
  <2> QED BY <1>2, <2>1, <2>2 DEF Resolved, Sms
<1>8. /\ DOMAIN Y = BufferFields /\ Y.ranks = X.ranks
      /\ Y.rcs = X.rcs /\ Y.launched = X.launched
  <2>1. /\ BufferInv(Pins(X, rings, g, x)) /\ Pins(X, rings, g, x).launched = X.launched
        /\ Pins(X, rings, g, x).ranks = X.ranks /\ Pins(X, rings, g, x).rcs = X.rcs
    BY <1>4, <1>6, PinsKeep
  <2>2. P = Pins(X, rings, g, x)  BY <1>1, <1>2
  <2> HIDE DEF P
  <2> QED BY <1>3, <2>1, <2>2 DEF BufferInv, BufferFields
<1> HIDE DEF c, geometry, fits, seq
<1>9. /\ buffers' = [buffers EXCEPT ![b] = Left(X, rings, forward, g, x, f, Y, q)]
      /\ explicit' = explicit
      /\ num_sms' = num_sms \/ num_sms' = n
  BY <1>1, <1>2, <1>3
  DEF Combine, Call, Left, RecommendedFor, Resolved, Sms, c, geometry, fits, seq
<1> HIDE DEF P, B
<1>10. /\ Left(X, rings, forward, g, x, f, Y, q).ranks = X.ranks
       /\ Connected(Left(X, rings, forward, g, x, f, Y, q), n)
  BY <1>4, <1>6, <1>7, <1>8, LeftConnected
<1>11. PICK N, d : N = Left(X, rings, forward, g, x, f, Y, q) /\ d = b  OBVIOUS
<1>12. n = Sms(explicit, num_sms, N.ranks)  BY <1>2, <1>10, <1>11
<1> HIDE DEF b
<1> QED BY <1>2, <1>5, <1>9, <1>10, <1>11, <1>12, CallKeepsRcs

LEMMA DispatchGradsConnected ==
  ASSUME RcInv, HostInv, NEW h \in handles, NEW h4, NEW given \in Names,
         DispatchGrads(h, h4, given)
  PROVE  RcInv'
<1> DEFINE b == h.buffer
           B0 == buffers[b]
           c == Explicit(given, Recommended(B0, "dispatch"))
           geometry == <<h4, h.geometry[2]>>
           fits == /\ DispatchGradsFits(c, B0.ranks, B0.nvl)
                   /\ Internode(B0.ranks) \/ Channels(c) = h.channels
           P == Pins(B0, "dispatch", geometry, c)
           seq == h.seq
           B == P
<1>1. PICK rings : rings = "dispatch"  OBVIOUS
<1>2. PICK X, g, x, f, q, forward, n :
        /\ X = B0 /\ g = geometry /\ x = c /\ f = fits /\ q = seq
        /\ forward = FALSE /\ n = Sms(explicit, num_sms, B0.ranks)
  OBVIOUS
<1>3. PICK Y : Y = B  OBVIOUS
<1>4. rings \in Rings  BY <1>1 DEF Rings
<1>5. b \in BufferIds /\ B0.alive  BY DEF HostInv, HandleInv
<1>6. BufferInv(X) /\ Connected(X, n)  BY <1>2, <1>5 DEF HostInv, RcInv
<1>7. x.num_sms = n
  <2>1. Explicit(given, Recommended(X, rings)).num_sms = Resolved(X.ranks)
    BY <1>4, ExplicitIsSet
  <2>2. x = Explicit(given, Recommended(X, rings))  BY <1>1, <1>2
  <2> HIDE DEF c
  <2> QED BY <1>2, <2>1, <2>2 DEF Resolved, Sms
<1>8. /\ DOMAIN Y = BufferFields /\ Y.ranks = X.ranks
      /\ Y.rcs = X.rcs /\ Y.launched = X.launched
  <2>1. /\ BufferInv(Pins(X, rings, g, x)) /\ Pins(X, rings, g, x).launched = X.launched
        /\ Pins(X, rings, g, x).ranks = X.ranks /\ Pins(X, rings, g, x).rcs = X.rcs
    BY <1>4, <1>6, PinsKeep
  <2>2. P = Pins(X, rings, g, x)  BY <1>1, <1>2
  <2> HIDE DEF P
  <2> QED BY <1>3, <2>1, <2>2 DEF BufferInv, BufferFields
<1> HIDE DEF c, geometry, fits, seq
<1>9. /\ buffers' = [buffers EXCEPT ![b] = Left(X, rings, forward, g, x, f, Y, q)]
      /\ explicit' = explicit
      /\ num_sms' = num_sms \/ num_sms' = n
  BY <1>1, <1>2, <1>3
  DEF DispatchGrads, Call, Left, RecommendedFor, Resolved, Sms, c, geometry, fits, seq
<1> HIDE DEF P, B
<1>10. /\ Left(X, rings, forward, g, x, f, Y, q).ranks = X.ranks
       /\ Connected(Left(X, rings, forward, g, x, f, Y, q), n)
  BY <1>4, <1>6, <1>7, <1>8, LeftConnected
<1>11. PICK N, d : N = Left(X, rings, forward, g, x, f, Y, q) /\ d = b  OBVIOUS
<1>12. n = Sms(explicit, num_sms, N.ranks)  BY <1>2, <1>10, <1>11
<1> HIDE DEF b
<1> QED BY <1>2, <1>5, <1>9, <1>10, <1>11, <1>12, CallKeepsRcs

LEMMA NewBufferConnected ==
  ASSUME NEW ranks, NEW h4, NEW n
  PROVE  /\ NewBuffer(ranks, h4, n, n).ranks = ranks
         /\ Connected(NewBuffer(ranks, h4, n, n), n)
<1>1. /\ NewBuffer(ranks, h4, n, n).ranks = ranks
      /\ NewBuffer(ranks, h4, n, n).rcs = IF Internode(ranks) THEN n ELSE 0
      /\ NewBuffer(ranks, h4, n, n).launched = {}
  BY DEF NewBuffer
<1> QED BY <1>1 DEF Connected

LEMMA NextConnected ==
  ASSUME ~LateSetNumSms, RcInv, HostInv, [Next]_vars
  PROVE  RcInv'
<1> USE BufferAssumption DEF Names
<1>1. CASE \E n \in PinnedSms : SetNumSms(n)
  <2>1. /\ buffers' = buffers /\ Live = {} /\ num_sms' \in Nat
    BY <1>1 DEF SetNumSms
  <2>2. \A b \in BufferIds : ~buffers[b].alive  BY <2>1 DEF Live
  <2> QED BY <2>1, <2>2 DEF RcInv, Connected
<1>2. CASE \E b \in BufferIds, ranks \in Groups, h4 \in SizedWidths : SizedFor(b, ranks, h4)
  <2>1. PICK b \in BufferIds, ranks \in Groups, h4 \in SizedWidths : SizedFor(b, ranks, h4)
    BY <1>2
  <2>2. PICK n : n = Sms(explicit, num_sms, ranks)  OBVIOUS
  <2>3. PICK N : N = NewBuffer(ranks, h4, n, n)  OBVIOUS
  <2>4. /\ buffers' = [buffers EXCEPT ![b] = N]
        /\ explicit' = explicit /\ num_sms' = n
    BY <2>1, <2>2, <2>3 DEF SizedFor, Resolved, Sms
  <2>5. N.ranks = ranks /\ Connected(N, n)  BY <2>3, NewBufferConnected
  <2>6. n = Sms(explicit, num_sms, N.ranks)  BY <2>2, <2>5
  <2> QED BY <2>4, <2>5, <2>6, CallKeepsRcs
<1>3. CASE \E b \in BufferIds : Drop(b)
  <2>1. PICK b \in BufferIds : Drop(b)  BY <1>3
  <2>2. /\ buffers' = [buffers EXCEPT ![b] = NoBuffer]
        /\ explicit' = explicit /\ num_sms' = num_sms
    BY <2>1 DEF Drop
  <2>3. NoBuffer.alive = FALSE  BY DEF NoBuffer
  <2>4. \A d \in BufferIds : buffers'[d].alive => buffers'[d] = buffers[d]
    BY <2>2, <2>3 DEF HostInv
  <2> QED BY <2>2, <2>4 DEF RcInv, Connected
<1>4. CASE \E b \in BufferIds, h4 \in Widths, topk \in TopKs, experts \in Experts,
              given \in DispatchGiven : Dispatch(b, h4, topk, experts, given)
  BY <1>4, DispatchConnected
<1>5. CASE \E h \in handles, h4 \in Widths, given \in CombineGiven : CombineForward(h, h4, given)
  BY <1>5, CombineConnected DEF CombineForward
<1>6. CASE \E h \in handles, h4 \in Widths, given \in CombineGiven : CombineGrads(h, h4, given)
  BY <1>6, CombineConnected DEF CombineGrads
<1>7. CASE \E h \in handles, h4 \in Widths, given \in DispatchGiven : DispatchGrads(h, h4, given)
  BY <1>7, DispatchGradsConnected
<1>8. CASE UNCHANGED vars
  BY <1>8 DEF vars, RcInv, Connected
<1> QED BY <1>1, <1>2, <1>3, <1>4, <1>5, <1>6, <1>7, <1>8 DEF Next

(* When callers set the SM count only while no Buffer exists, every internode
   launch, explicit config or not, uses exactly as many SMs as its Buffer has
   connections per peer, whatever other Buffers resolve for their groups. *)
THEOREM LaunchesFindConnections ==
  ASSUME ~LateSetNumSms
  PROVE  Spec => []LaunchWithinRcs
<1>1. Init => RcInv
  <2>1. Init => num_sms \in Nat /\ \A b \in BufferIds : ~buffers[b].alive
    BY DEF Init, NoBuffer
  <2> QED BY <2>1 DEF RcInv
<1>2. RcInv /\ HostInv /\ [Next]_vars => RcInv'  BY NextConnected
<1>3. RcInv => LaunchWithinRcs
  <2> SUFFICES ASSUME RcInv, NEW b \in Live, Internode(buffers[b].ranks),
                      NEW L \in buffers[b].launched
               PROVE  L.config.num_sms <= buffers[b].rcs
    BY DEF LaunchWithinRcs
  <2>1. PICK n : n = Sms(explicit, num_sms, buffers[b].ranks)  OBVIOUS
  <2>2. n \in Nat  BY <2>1 DEF RcInv, Sms, AutoPick
  <2>3. Connected(buffers[b], n)  BY <2>1 DEF RcInv, Live
  <2>4. buffers[b].rcs = n /\ L.config.num_sms = n  BY <2>3 DEF Connected
  <2> QED BY <2>2, <2>4
<1> QED BY <1>1, <1>2, <1>3, HostInvHolds, PTL DEF Spec

-----------------------------------------------------------------------------
(***************************************************************************)
(* Sizes and types.                                                        *)
(***************************************************************************)
(* The recommended config of a ring chain, as Recommended reads it. *)
Table(rings, ranks, sms) ==
  IF rings = "dispatch" THEN DispatchConfig(ranks, sms) ELSE CombineConfig(ranks, sms)

GivenFor(rings) == IF rings = "dispatch" THEN DispatchGiven ELSE CombineGiven

ConfigsOf(rings, ranks, names, counts) ==
  {Explicit(name, Table(rings, ranks, sms)) : name \in names, sms \in counts}

ConfigFields == {"num_sms", "nvl_send", "nvl_recv", "rdma_send", "rdma_recv"}

(* Rows of the two tables: legal configs with the same NVL slots, chunks that
   do not depend on the SM count, and RDMA rings of at least 128 slots. *)
TableRow(c, sms, slots) ==
  /\ c = [f \in ConfigFields |-> c[f]]
  /\ c.num_sms = sms /\ c.nvl_recv = slots
  /\ c.nvl_send \in Nat /\ 0 < c.nvl_send
  /\ 2 * c.nvl_send + 2 < c.nvl_recv
  /\ c.rdma_send \in Nat /\ c.rdma_recv \in Nat
  /\ 0 < c.rdma_send /\ 2 * c.rdma_send <= c.rdma_recv
  /\ 128 <= c.rdma_recv

Slots(ranks) ==
  CASE ranks \in {2, 4, 8} -> 256
    [] ranks \in {16, 24, 32, 48, 64} -> 288
    [] ranks = 96 -> 480
    [] ranks = 128 -> 560
    [] ranks \in {144, 160} -> 720

ChunkOf(rings, ranks) ==
  IF rings = "dispatch"
  THEN CASE ranks = 2 -> 24 [] ranks \in {4, 8} -> 6 [] ranks = 16 -> 36
         [] ranks \in {24, 32, 48, 64, 144} -> 32 [] ranks \in {96, 128} -> 20
         [] ranks = 160 -> 28
  ELSE CASE ranks = 2 -> 10 [] ranks = 4 -> 9 [] ranks = 8 -> 4
         [] ranks \in {16, 24, 32, 48, 64, 96, 128} -> 1 [] ranks \in {144, 160} -> 2

TableRanks == {2, 4, 8, 16, 24, 32, 48, 64, 96, 128, 144, 160}

LEMMA RoundedRings ==
  /\ CeilTo(128, 6) = 132 /\ CeilTo(256, 20) = 260 /\ CeilTo(128, 8) = 128
  /\ CeilTo(256, 8) = 256 /\ CeilTo(128, 12) = 132 /\ CeilTo(256, 12) = 264
BY DEF CeilTo

LEMMA ConfigRow ==
  ASSUME NEW sms, NEW a \in Nat, NEW p \in Nat, NEW q \in Nat, NEW r \in Nat,
         0 < a, 2 * a + 2 < p, 0 < q, CeilTo(r, q) \in Nat,
         2 * q <= CeilTo(r, q), 128 <= CeilTo(r, q)
  PROVE  TableRow(Config(sms, a, p, q, r), sms, p) /\ Config(sms, a, p, q, r).nvl_send = a
<1> DEFINE rounded == CeilTo(r, q)
<1> HIDE DEF rounded
<1>1. Config(sms, a, p, q, r) = [num_sms |-> sms, nvl_send |-> a, nvl_recv |-> p,
                                 rdma_send |-> q, rdma_recv |-> rounded]
  BY DEF Config, rounded
<1>2. rounded \in Nat /\ 2 * q <= rounded /\ 128 <= rounded
  BY DEF rounded
<1> QED BY <1>1, <1>2 DEF TableRow, ConfigFields

LEMMA TableFacts ==
  ASSUME NEW rings \in Rings, NEW ranks \in TableRanks, NEW sms
  PROVE  /\ TableRow(Table(rings, ranks, sms), sms, Slots(ranks))
         /\ Table(rings, ranks, sms).nvl_send = ChunkOf(rings, ranks)
<1> DEFINE Row(a, p, q, r) == /\ TableRow(Config(sms, a, p, q, r), sms, p)
                              /\ Config(sms, a, p, q, r).nvl_send = a
<1>1. CASE rings = "dispatch"
  <2>1. /\ Row(24, 256, 6, 128) /\ Row(6, 256, 6, 128) /\ Row(36, 288, 20, 256)
        /\ Row(32, 288, 8, 128) /\ Row(32, 288, 8, 256) /\ Row(20, 480, 12, 128)
        /\ Row(20, 560, 12, 128) /\ Row(32, 720, 12, 128) /\ Row(28, 720, 12, 128)
    BY ConfigRow, RoundedRings
  <2> HIDE DEF Row
  <2>2. Table(rings, ranks, sms) = DispatchConfig(ranks, sms)
    BY <1>1 DEF Table
  <2> QED BY <1>1, <2>1, <2>2 DEF DispatchConfig, TableRanks, Slots, ChunkOf, Row
<1>2. CASE rings = "combine"
  <2>1. /\ Row(10, 256, 6, 128) /\ Row(9, 256, 6, 128) /\ Row(4, 256, 6, 128)
        /\ Row(1, 288, 12, 256) /\ Row(1, 288, 8, 128) /\ Row(1, 288, 8, 256)
        /\ Row(1, 480, 8, 128) /\ Row(1, 560, 8, 128) /\ Row(2, 720, 8, 128)
    BY ConfigRow, RoundedRings
  <2> HIDE DEF Row
  <2>2. Table(rings, ranks, sms) = CombineConfig(ranks, sms)
    BY <1>2 DEF Table
  <2> QED BY <1>2, <2>1, <2>2 DEF CombineConfig, TableRanks, Slots, ChunkOf, Row
<1> QED BY <1>1, <1>2 DEF Rings

(* A caller's own config: legal, of the same SM count, and with the NVL slots
   of the recommended one unless it is the narrow one. *)
GivenRow(c, sms, slots) ==
  /\ ConfigLegal(c)
  /\ c.num_sms = sms
  /\ c.nvl_recv \in Nat /\ c.nvl_recv <= slots
  /\ c.rdma_recv \in Nat

LEMMA GivenFacts ==
  ASSUME NEW name \in Names, NEW c, NEW sms \in Nat, NEW slots \in Nat, TableRow(c, sms, slots)
  PROVE  /\ GivenRow(Explicit(name, c), sms, slots)
         /\ Explicit(name, c).rdma_recv = c.rdma_recv
         /\ name # "narrow" => Explicit(name, c).nvl_recv = slots
         /\ Explicit(name, c).nvl_send \in {c.nvl_send, (c.nvl_send + 1) \div 2}
         /\ name # "narrow" /\ Explicit(name, c).nvl_send = c.nvl_send => Explicit(name, c) = c
<1> USE DEF TableRow, GivenRow, ConfigFields, ConfigLegal
<1>1. CASE name = "None"
  BY <1>1 DEF Explicit
<1>2. CASE name = "chunked"
  <2> DEFINE half == (c.nvl_send + 1) \div 2
  <2>1. half \in Nat /\ 0 < half /\ half <= c.nvl_send
    OBVIOUS
  <2> HIDE DEF half
  <2>2. Explicit(name, c) = [c EXCEPT !.nvl_send = half]
    BY <1>2 DEF Explicit, half
  <2>3. half = c.nvl_send => Explicit(name, c) = c
    BY <2>2
  <2> QED BY <1>2, <2>1, <2>2, <2>3 DEF half
<1>3. CASE name = "narrow"
  <2> DEFINE half == c.nvl_recv \div 2
  <2>1. half \in Nat /\ half <= c.nvl_recv /\ c.nvl_send < half
    OBVIOUS
  <2> HIDE DEF half
  <2>2. Explicit(name, c) = [c EXCEPT !.nvl_recv = half]
    BY <1>3 DEF Explicit, half
  <2> QED BY <1>3, <2>1, <2>2
<1> QED BY <1>1, <1>2, <1>3 DEF Names

-----------------------------------------------------------------------------
(***************************************************************************)
(* What a call leaves in its Buffer, field by field: the pins it found or  *)
(* set, and at most its own launch.                                        *)
(***************************************************************************)
KeptFields == {"alive", "ranks", "sized", "nvl", "rdma", "rcs"}

LeftBy(B0, N, rings, forward, g, c, fits, seq, next) ==
  /\ DOMAIN N = BufferFields
  /\ \A f \in KeptFields : N[f] = B0[f]
  /\ N.geometry = IF B0.geometry = Unset THEN g ELSE B0.geometry
  /\ N.geometry = g => N[rings] = IF B0[rings] = Unset THEN c ELSE B0[rings]
  /\ N.geometry # g => N[rings] = B0[rings]
  /\ \A r \in Rings : r # rings => N[r] = B0[r]
  /\ N.next_seq = B0.next_seq \/ N.next_seq = next
  /\ N.launched = IF N.geometry = g /\ N[rings] = c /\ fits
                    THEN B0.launched \cup {Launch(rings, forward, seq, g, c)}
                    ELSE B0.launched

LEMMA PinFields ==
  ASSUME NEW B, DOMAIN B = BufferFields, NEW rings \in Rings, NEW g, NEW c,
         NEW P, P = Pins(B, rings, g, c)
  PROVE  /\ DOMAIN P = BufferFields
         /\ \A f \in KeptFields \cup {"next_seq", "launched"} : P[f] = B[f]
         /\ P.geometry = IF B.geometry = Unset THEN g ELSE B.geometry
         /\ P.geometry = g => P[rings] = IF B[rings] = Unset THEN c ELSE B[rings]
         /\ P.geometry # g => P[rings] = B[rings]
         /\ \A r \in Rings : r # rings => P[r] = B[r]
<1> DEFINE first == IF B.geometry = Unset THEN g ELSE B.geometry
           config == IF B[rings] = Unset THEN c ELSE B[rings]
<1>1. CASE first # g
  <2>1. P = B /\ first = B.geometry
    BY <1>1 DEF Pins
  <2> QED BY <1>1, <2>1
<1>2. CASE first = g
  <2>1. P = [B EXCEPT !.geometry = first, ![rings] = config]
    BY <1>2 DEF Pins
  <2>2. rings \in DOMAIN B /\ "geometry" \in DOMAIN B /\ rings # "geometry"
    BY DEF BufferFields, Rings
  <2>3. /\ DOMAIN P = DOMAIN B
        /\ P["geometry"] = first /\ P[rings] = config
        /\ \A f \in DOMAIN B : f # "geometry" /\ f # rings => P[f] = B[f]
    BY <2>1, <2>2 DEF Rings
  <2> HIDE DEF config
  <2>4. \A f \in KeptFields \cup {"next_seq", "launched"} : P[f] = B[f]
    BY <2>3 DEF KeptFields, BufferFields, Rings
  <2>5. \A r \in Rings : r # rings => P[r] = B[r]
    BY <2>3 DEF BufferFields, Rings
  <2> QED BY <1>2, <2>3, <2>4, <2>5 DEF config
<1> QED BY <1>1, <1>2

LEMMA CallFields ==
  ASSUME NEW B0, DOMAIN B0 = BufferFields, NEW rings \in Rings, NEW forward, NEW g, NEW c,
         NEW fits \in BOOLEAN, NEW B, NEW seq, NEW next,
         B = Pins(B0, rings, g, c) \/ B = [Pins(B0, rings, g, c) EXCEPT !.next_seq = next]
  PROVE  /\ LeftBy(B0, Left(B0, rings, forward, g, c, fits, B, seq),
                   rings, forward, g, c, fits, seq, next)
         /\ Accepts(B0, rings, g, c)
              <=> /\ Left(B0, rings, forward, g, c, fits, B, seq).geometry = g
                  /\ Left(B0, rings, forward, g, c, fits, B, seq)[rings] = c
<1> DEFINE P == Pins(B0, rings, g, c)
           L == Launch(rings, forward, seq, g, c)
           launchedB == [B EXCEPT !.launched = @ \cup {L}]
           N == Left(B0, rings, forward, g, c, fits, B, seq)
           ok == Accepts(B0, rings, g, c)
<1>1. /\ DOMAIN P = BufferFields
      /\ \A f \in KeptFields \cup {"next_seq", "launched"} : P[f] = B0[f]
      /\ P.geometry = IF B0.geometry = Unset THEN g ELSE B0.geometry
      /\ P.geometry = g => P[rings] = IF B0[rings] = Unset THEN c ELSE B0[rings]
      /\ P.geometry # g => P[rings] = B0[rings]
      /\ \A r \in Rings : r # rings => P[r] = B0[r]
  BY PinFields
<1>2. ok <=> P.geometry = g /\ P[rings] = c
  BY DEF Accepts
<1>3. N = IF ~ok THEN P ELSE IF fits THEN launchedB ELSE B
  BY DEF Left
<1>4. B = P \/ B = [P EXCEPT !.next_seq = next]
  OBVIOUS
<1> HIDE DEF P, L, ok
<1>5. /\ DOMAIN B = BufferFields
      /\ \A f \in BufferFields : f # "next_seq" => B[f] = P[f]
      /\ B.next_seq = P.next_seq \/ B.next_seq = next
  BY <1>1, <1>4 DEF BufferFields
<1>6. /\ DOMAIN launchedB = BufferFields
      /\ \A f \in BufferFields : f # "launched" => launchedB[f] = B[f]
      /\ launchedB.launched = B.launched \cup {L}
  BY <1>5 DEF BufferFields
<1> HIDE DEF launchedB, N
<1>7. /\ DOMAIN N = BufferFields
      /\ \A f \in BufferFields : f \notin {"next_seq", "launched"} => N[f] = P[f]
      /\ N.next_seq = P.next_seq \/ N.next_seq = next
      /\ N.launched = IF ok /\ fits THEN P.launched \cup {L} ELSE P.launched
  <2>1. CASE ~ok
    BY <1>1, <1>3, <2>1
  <2>2. CASE ok /\ fits
    BY <1>3, <1>5, <1>6, <2>2 DEF BufferFields
  <2>3. CASE ok /\ ~fits
    BY <1>3, <1>5, <2>3 DEF BufferFields
  <2> QED BY <2>1, <2>2, <2>3
<1>8. /\ \A f \in KeptFields : N[f] = B0[f]
      /\ N.geometry = P.geometry /\ \A r \in Rings : N[r] = P[r]
  BY <1>1, <1>7 DEF KeptFields, BufferFields, Rings
<1>9. ok <=> N.geometry = g /\ N[rings] = c
  BY <1>2, <1>8
<1>10. /\ N.next_seq = B0.next_seq \/ N.next_seq = next
       /\ N.launched = IF ok /\ fits THEN B0.launched \cup {L} ELSE B0.launched
  BY <1>1, <1>7
<1>11. LeftBy(B0, N, rings, forward, g, c, fits, seq, next)
  BY <1>1, <1>7, <1>8, <1>9, <1>10 DEF LeftBy, L
<1> QED BY <1>9, <1>11 DEF N, ok

-----------------------------------------------------------------------------
(***************************************************************************)
(* The steps, as the invariants below need them.  A call finds or sets the *)
(* pins of its Buffer, is rejected if they are not what it came with,      *)
(* refused if it does not fit, and otherwise launched.                     *)
(***************************************************************************)
SmsOf(b) == Sms(explicit, num_sms, buffers[b].ranks)

Ended(N, op, b, rings, given, g, c, fits) ==
  IF ~(N.geometry = g /\ N[rings] = c) THEN Failed(op, b, given, g, "raised")
  ELSE IF fits THEN Launched ELSE Failed(op, b, given, g, "refused")

Called(b, op, rings, forward, given, g, c, fits, seq, next) ==
  /\ b \in BufferIds /\ buffers[b].alive /\ rings \in Rings /\ given \in Names
  /\ c = Explicit(given, Table(rings, buffers[b].ranks, SmsOf(b)))
  /\ fits \in BOOLEAN
  /\ \E N : /\ buffers' = [buffers EXCEPT ![b] = N]
            /\ LeftBy(buffers[b], N, rings, forward, g, c, fits, seq, next)
            /\ last' = Ended(N, op, b, rings, given, g, c, fits)
  /\ explicit' = explicit
  /\ num_sms' = num_sms \/ num_sms' = SmsOf(b)

DispatchCalled(b, h4, topk, experts, given, c, fits, seq) ==
  /\ Called(b, "dispatch", "dispatch", TRUE, given, <<h4, topk>>, c, fits, seq, seq)
  /\ fits = DispatchFits(c, buffers[b].ranks, h4, topk, experts, buffers[b].nvl, buffers[b].rdma)
  /\ seq = buffers[b].next_seq + 1 /\ buffers[b].next_seq < MaxSeq
  /\ handles' = IF last'.outcome # "launched" THEN handles
                ELSE handles \cup {[buffer |-> b, seq |-> seq, geometry |-> <<h4, topk>>,
                                    channels |-> Channels(c), stage |-> "dispatched"]}

HandleOps == {"combine", "combine_grads", "dispatch_grads"}
RingsOf(op) == IF op = "dispatch_grads" THEN "dispatch" ELSE "combine"

HandleFits(op, c, h, h4, B) ==
  /\ IF op = "dispatch_grads" THEN DispatchGradsFits(c, B.ranks, B.nvl)
                              ELSE CombineFits(c, B.ranks, h4, h.geometry[2], B.nvl)
  /\ Internode(B.ranks) \/ Channels(c) = h.channels

HandleCalled(h, h4, op, given, c, fits, to) ==
  /\ Called(h.buffer, op, RingsOf(op), op = "combine", given, <<h4, h.geometry[2]>>, c, fits,
            h.seq, buffers[h.buffer].next_seq)
  /\ fits = HandleFits(op, c, h, h4, buffers[h.buffer])
  /\ Advance(h, to) /\ to \subseteq {"combined", "grads", "done"}

LEMMA CallCalled ==
  ASSUME HostInv, NEW b \in BufferIds, buffers[b].alive, NEW op, NEW rings \in Rings,
         NEW forward, NEW given \in Names, NEW g, NEW c, NEW fits \in BOOLEAN,
         NEW B, NEW seq, NEW next,
         \/ B = Pins(buffers[b], rings, g, c)
         \/ B = [Pins(buffers[b], rings, g, c) EXCEPT !.next_seq = next],
         c = Explicit(given, Recommended(buffers[b], rings)),
         RecommendedFor(b, given), explicit' = explicit,
         Call(op, b, rings, forward, given, g, c, fits, B, seq)
  PROVE  Called(b, op, rings, forward, given, g, c, fits, seq, next)
<1> DEFINE N == Left(buffers[b], rings, forward, g, c, fits, B, seq)
<1>1. DOMAIN buffers[b] = BufferFields
  BY DEF HostInv, BufferInv
<1>2. /\ LeftBy(buffers[b], N, rings, forward, g, c, fits, seq, next)
      /\ Accepts(buffers[b], rings, g, c) <=> N.geometry = g /\ N[rings] = c
  BY <1>1, CallFields
<1>3. /\ buffers' = [buffers EXCEPT ![b] = N]
      /\ last' = IF ~Accepts(buffers[b], rings, g, c) THEN Failed(op, b, given, g, "raised")
                 ELSE IF fits THEN Launched ELSE Failed(op, b, given, g, "refused")
  BY DEF Call, Left
<1> HIDE DEF N
<1>4. last' = Ended(N, op, b, rings, given, g, c, fits)
  BY <1>2, <1>3 DEF Ended
<1>5. Resolved(buffers[b].ranks) = SmsOf(b)
  BY DEF Resolved, SmsOf, Sms
<1>6. Recommended(buffers[b], rings) = Table(rings, buffers[b].ranks, SmsOf(b))
  BY <1>5 DEF Recommended, Table
<1>7. num_sms' = num_sms \/ num_sms' = SmsOf(b)
  BY <1>5 DEF RecommendedFor
<1> QED BY <1>2, <1>3, <1>4, <1>6, <1>7 DEF Called

LEMMA DispatchShape ==
  ASSUME HostInv, NEW b \in BufferIds, NEW h4, NEW topk, NEW experts,
         NEW given \in Names, Dispatch(b, h4, topk, experts, given)
  PROVE  \E c, fits, seq : DispatchCalled(b, h4, topk, experts, given, c, fits, seq)
<1>1. PICK X, rings, g, c, fits, seq :
        /\ X = buffers[b] /\ rings = "dispatch" /\ g = <<h4, topk>> /\ seq = X.next_seq + 1
        /\ c = Explicit(given, Recommended(X, "dispatch"))
        /\ fits = DispatchFits(c, X.ranks, h4, topk, experts, X.nvl, X.rdma)
  OBVIOUS
<1>2. fits \in BOOLEAN /\ rings \in Rings
  BY <1>1 DEF DispatchFits, Rings
<1>3. PICK B : B = [Pins(X, rings, g, c) EXCEPT !.next_seq = seq]
  OBVIOUS
<1>4. /\ X.alive /\ X.next_seq < MaxSeq /\ RecommendedFor(b, given) /\ explicit' = explicit
      /\ Call("dispatch", b, rings, TRUE, given, g, c, fits, B, seq)
      /\ handles' = IF last'.outcome # "launched" THEN handles
                    ELSE handles \cup {[buffer |-> b, seq |-> seq, geometry |-> g,
                                        channels |-> Channels(c), stage |-> "dispatched"]}
  BY <1>1, <1>3 DEF Dispatch, AllocateSeq
<1>5. Called(b, "dispatch", rings, TRUE, given, g, c, fits, seq, seq)
  BY <1>1, <1>2, <1>3, <1>4, CallCalled
<1> QED BY <1>1, <1>4, <1>5 DEF DispatchCalled

LEMMA CombineShape ==
  ASSUME HostInv, NEW h \in handles, NEW h4, NEW given \in Names,
         NEW op \in {"combine", "combine_grads"}, NEW from,
         NEW to, to \subseteq {"combined", "grads", "done"},
         Combine(h, h4, given, op, from, to)
  PROVE  \E c, fits : HandleCalled(h, h4, op, given, c, fits, to)
<1>1. PICK X, rings, g, c, fits :
        /\ X = buffers[h.buffer] /\ rings = "combine" /\ g = <<h4, h.geometry[2]>>
        /\ c = Explicit(given, Recommended(X, "combine"))
        /\ fits = (/\ CombineFits(c, X.ranks, h4, g[2], X.nvl)
                   /\ Internode(X.ranks) \/ Channels(c) = h.channels)
  OBVIOUS
<1>2. fits \in BOOLEAN /\ rings \in Rings /\ rings = RingsOf(op)
  BY <1>1 DEF Rings, RingsOf
<1>3. h.buffer \in BufferIds /\ buffers[h.buffer].alive
  BY DEF HostInv, HandleInv
<1>4. /\ RecommendedFor(h.buffer, given) /\ explicit' = explicit /\ Advance(h, to)
      /\ Call(op, h.buffer, rings, op = "combine", given, g, c, fits,
              Pins(X, rings, g, c), h.seq)
  BY <1>1 DEF Combine
<1>5. Called(h.buffer, op, rings, op = "combine", given, g, c, fits, h.seq, X.next_seq)
  BY <1>1, <1>2, <1>3, <1>4, CallCalled
<1>6. fits = HandleFits(op, c, h, h4, X)
  BY <1>1 DEF HandleFits
<1> QED BY <1>1, <1>2, <1>4, <1>5, <1>6 DEF HandleCalled

LEMMA GradsShape ==
  ASSUME HostInv, NEW h \in handles, NEW h4, NEW given \in Names, DispatchGrads(h, h4, given)
  PROVE  \E c, fits : HandleCalled(h, h4, "dispatch_grads", given, c, fits, {"grads"})
<1>1. PICK X, rings, g, c, fits, op :
        /\ X = buffers[h.buffer] /\ rings = "dispatch" /\ g = <<h4, h.geometry[2]>>
        /\ c = Explicit(given, Recommended(X, "dispatch")) /\ op = "dispatch_grads"
        /\ fits = (/\ DispatchGradsFits(c, X.ranks, X.nvl)
                   /\ Internode(X.ranks) \/ Channels(c) = h.channels)
  OBVIOUS
<1>2. /\ fits \in BOOLEAN /\ rings \in Rings /\ rings = RingsOf(op)
      /\ (op = "combine") = FALSE
  BY <1>1 DEF Rings, RingsOf
<1>3. h.buffer \in BufferIds /\ buffers[h.buffer].alive
  BY DEF HostInv, HandleInv
<1>4. /\ RecommendedFor(h.buffer, given) /\ explicit' = explicit /\ Advance(h, {"grads"})
      /\ Call(op, h.buffer, rings, FALSE, given, g, c, fits, Pins(X, rings, g, c), h.seq)
  BY <1>1 DEF DispatchGrads
<1>5. Called(h.buffer, op, rings, FALSE, given, g, c, fits, h.seq, X.next_seq)
  BY <1>1, <1>2, <1>3, <1>4, CallCalled
<1>6. fits = HandleFits(op, c, h, h4, X)
  BY <1>1 DEF HandleFits
<1>7. Called(h.buffer, op, RingsOf(op), op = "combine", given, <<h4, h.geometry[2]>>, c, fits,
             h.seq, X.next_seq)
  BY <1>1, <1>2, <1>5
<1>8. HandleCalled(h, h4, op, given, c, fits, {"grads"})
  BY <1>1, <1>4, <1>6, <1>7 DEF HandleCalled
<1> QED BY <1>1, <1>8

LEMMA StepShape ==
  ASSUME HostInv, [Next]_vars
  PROVE  \/ UNCHANGED vars
         \/ \E n \in PinnedSms : SetNumSms(n)
         \/ \E b \in BufferIds, ranks \in Groups, h4 \in SizedWidths : SizedFor(b, ranks, h4)
         \/ \E b \in BufferIds : Drop(b)
         \/ \E b \in BufferIds, h4 \in Widths, topk \in TopKs, experts \in Experts,
               given \in DispatchGiven : \E c, fits, seq :
              DispatchCalled(b, h4, topk, experts, given, c, fits, seq)
         \/ \E h \in handles, h4 \in Widths, op \in HandleOps : \E given, c, fits, to :
              given \in GivenFor(RingsOf(op)) /\ HandleCalled(h, h4, op, given, c, fits, to)
<1>1. DispatchGiven \subseteq Names /\ CombineGiven \subseteq Names
  BY BufferAssumption DEF Names
<1>2. ASSUME NEW b \in BufferIds, NEW h4 \in Widths, NEW topk \in TopKs,
             NEW experts \in Experts, NEW given \in DispatchGiven,
             Dispatch(b, h4, topk, experts, given)
      PROVE  \E c, fits, seq : DispatchCalled(b, h4, topk, experts, given, c, fits, seq)
  BY <1>1, <1>2, DispatchShape
<1>3. ASSUME NEW h \in handles, NEW h4 \in Widths, NEW given \in CombineGiven,
             CombineForward(h, h4, given)
      PROVE  \E c, fits, to : HandleCalled(h, h4, "combine", given, c, fits, to)
  <2>1. PICK op, from, to : op = "combine" /\ from = "dispatched" /\ to = {"combined"}
    OBVIOUS
  <2>2. Combine(h, h4, given, op, from, to)
    BY <1>3, <2>1 DEF CombineForward
  <2>3. /\ op \in {"combine", "combine_grads"} /\ to \subseteq {"combined", "grads", "done"}
        /\ given \in Names
    BY <1>1, <2>1
  <2> QED BY <2>1, <2>2, <2>3, CombineShape
<1>4. ASSUME NEW h \in handles, NEW h4 \in Widths, NEW given \in CombineGiven,
             CombineGrads(h, h4, given)
      PROVE  \E c, fits, to : HandleCalled(h, h4, "combine_grads", given, c, fits, to)
  <2>1. PICK op, from, to : op = "combine_grads" /\ from = "grads" /\ to = {"done"}
    OBVIOUS
  <2>2. Combine(h, h4, given, op, from, to)
    BY <1>4, <2>1 DEF CombineGrads
  <2>3. /\ op \in {"combine", "combine_grads"} /\ to \subseteq {"combined", "grads", "done"}
        /\ given \in Names
    BY <1>1, <2>1
  <2> QED BY <2>1, <2>2, <2>3, CombineShape
<1>5. ASSUME NEW h \in handles, NEW h4 \in Widths, NEW given \in DispatchGiven,
             DispatchGrads(h, h4, given)
      PROVE  \E c, fits, to : HandleCalled(h, h4, "dispatch_grads", given, c, fits, to)
  BY <1>1, <1>5, GradsShape
<1>6. /\ {"combine", "combine_grads", "dispatch_grads"} \subseteq HandleOps
      /\ GivenFor(RingsOf("combine")) = CombineGiven
      /\ GivenFor(RingsOf("combine_grads")) = CombineGiven
      /\ GivenFor(RingsOf("dispatch_grads")) = DispatchGiven
  BY DEF HandleOps, GivenFor, RingsOf
<1> QED BY <1>2, <1>3, <1>4, <1>5, <1>6 DEF Next

-----------------------------------------------------------------------------
(* Types. *)
BufferType(B) ==
  /\ B.ranks \in Groups /\ B.sized \in SizedWidths /\ B.next_seq \in 0 .. MaxSeq
  /\ B.geometry \in {Unset} \cup (Widths \X TopKs)
  /\ \A rings \in Rings : B[rings] # Unset => ConfigLegal(B[rings])
  /\ \A L \in B.launched : L.seq \in 1 .. MaxSeq

HandleType(h) ==
  /\ h.seq \in 1 .. MaxSeq /\ h.geometry \in Widths \X TopKs
  /\ h.stage \in {"dispatched", "combined", "grads"}

TypeInv ==
  /\ num_sms \in Nat /\ explicit \in BOOLEAN
  /\ \A b \in BufferIds : buffers[b].alive => BufferType(buffers[b])
  /\ \A h \in handles : HandleType(h)

LEMMA GroupFacts ==
  /\ Groups \subseteq TableRanks
  /\ \A ranks \in Groups : ranks \in Nat /\ ranks > 0 /\ Slots(ranks) \in Nat
  /\ \A ranks : AutoPick(ranks) \in Nat
<1>1. Groups \subseteq TableRanks
  BY BufferAssumption DEF TableRanks
<1>2. \A ranks \in TableRanks : ranks \in Nat /\ ranks > 0 /\ Slots(ranks) \in Nat
  BY DEF TableRanks, Slots
<1> QED BY <1>1, <1>2 DEF AutoPick

LEMMA OthersKeep ==
  ASSUME HostInv, NEW b \in BufferIds, NEW N, buffers' = [buffers EXCEPT ![b] = N]
  PROVE  buffers'[b] = N /\ \A d \in BufferIds : d # b => buffers'[d] = buffers[d]
BY DEF HostInv

(* The config a call comes with is legal, whichever config it is. *)
LEMMA CalledConfig ==
  ASSUME TypeInv, NEW b, NEW op, NEW rings, NEW forward, NEW given, NEW g, NEW c,
         NEW fits, NEW seq, NEW next, Called(b, op, rings, forward, given, g, c, fits, seq, next)
  PROVE  /\ buffers[b].ranks \in Groups /\ SmsOf(b) \in Nat
         /\ LET r == Table(rings, buffers[b].ranks, SmsOf(b))
                slots == Slots(buffers[b].ranks)
            IN  /\ TableRow(r, SmsOf(b), slots) /\ c = Explicit(given, r)
                /\ r.nvl_send = ChunkOf(rings, buffers[b].ranks)
                /\ GivenRow(c, SmsOf(b), slots)
                /\ c.rdma_recv = r.rdma_recv
                /\ given # "narrow" => c.nvl_recv = slots
                /\ c.nvl_send \in {r.nvl_send, (r.nvl_send + 1) \div 2}
                /\ given # "narrow" /\ c.nvl_send = r.nvl_send => c = r
<1>1. PICK ranks, sms : ranks = buffers[b].ranks /\ sms = SmsOf(b)
  OBVIOUS
<1>2. ranks \in Groups /\ sms \in Nat /\ rings \in Rings /\ given \in Names
  BY <1>1, GroupFacts DEF Called, TypeInv, BufferType, SmsOf, Sms
<1>3. ranks \in TableRanks /\ Slots(ranks) \in Nat
  BY <1>2, GroupFacts
<1>4. PICK r, slots : r = Table(rings, ranks, sms) /\ slots = Slots(ranks)
  OBVIOUS
<1>5. TableRow(r, sms, slots) /\ r.nvl_send = ChunkOf(rings, ranks)
  BY <1>2, <1>3, <1>4, TableFacts
<1>6. c = Explicit(given, r)
  BY <1>1, <1>4 DEF Called
<1>7. /\ GivenRow(c, sms, slots) /\ c.rdma_recv = r.rdma_recv
      /\ given # "narrow" => c.nvl_recv = slots
      /\ c.nvl_send \in {r.nvl_send, (r.nvl_send + 1) \div 2}
      /\ given # "narrow" /\ c.nvl_send = r.nvl_send => c = r
  BY <1>2, <1>3, <1>4, <1>5, <1>6, GivenFacts
<1> QED BY <1>1, <1>2, <1>4, <1>5, <1>6, <1>7

LEMMA CalledTypes ==
  ASSUME HostInv, TypeInv, NEW b, NEW op, NEW rings, NEW forward, NEW given,
         NEW g \in Widths \X TopKs, NEW c, NEW fits, NEW seq \in 1 .. MaxSeq,
         NEW next \in 0 .. MaxSeq, Called(b, op, rings, forward, given, g, c, fits, seq, next)
  PROVE  /\ num_sms' \in Nat /\ explicit' \in BOOLEAN
         /\ \A d \in BufferIds : buffers'[d].alive => BufferType(buffers'[d])
<1>1. ConfigLegal(c) /\ SmsOf(b) \in Nat
  BY CalledConfig DEF GivenRow
<1>2. PICK N : /\ buffers' = [buffers EXCEPT ![b] = N]
               /\ LeftBy(buffers[b], N, rings, forward, g, c, fits, seq, next)
  BY DEF Called
<1>3. b \in BufferIds /\ BufferType(buffers[b]) /\ rings \in Rings
  BY DEF Called, TypeInv
<1>4. PICK B : B = buffers[b]
  OBVIOUS
<1>5. BufferType(N)
  <2>1. /\ N.ranks = B.ranks /\ N.sized = B.sized
        /\ N.geometry \in {B.geometry, g}
        /\ N.next_seq \in {B.next_seq, next}
    BY <1>2, <1>4 DEF LeftBy, KeptFields
  <2>2. \A r \in Rings : N[r] \in {B[r], c}
    BY <1>2, <1>3, <1>4 DEF LeftBy
  <2>3. \A L \in N.launched : L \in B.launched \/ L.seq = seq
    BY <1>2, <1>4 DEF LeftBy, Launch
  <2> QED BY <1>1, <1>3, <1>4, <2>1, <2>2, <2>3 DEF BufferType
<1>6. num_sms' \in Nat /\ explicit' \in BOOLEAN
  BY <1>1 DEF Called, TypeInv
<1> QED BY <1>2, <1>3, <1>5, <1>6, OthersKeep DEF TypeInv

LEMMA NewBufferType ==
  ASSUME NEW ranks \in Groups, NEW h4 \in SizedWidths, NEW sms, NEW env
  PROVE  BufferType(NewBuffer(ranks, h4, sms, env))
<1> DEFINE B == NewBuffer(ranks, h4, sms, env)
<1>1. /\ B.ranks = ranks /\ B.sized = h4 /\ B.geometry = Unset
      /\ B["dispatch"] = Unset /\ B["combine"] = Unset
      /\ B.next_seq = 0 /\ B.launched = {}
  BY DEF NewBuffer
<1> HIDE DEF B
<1>2. MaxSeq \in Nat
  BY BufferAssumption
<1>3. BufferType(B)
  BY <1>1, <1>2 DEF BufferType, Rings
<1> QED BY <1>3 DEF B

LEMMA TypesInductive == HostInv /\ TypeInv /\ [Next]_vars => TypeInv'
<1> SUFFICES ASSUME HostInv, TypeInv, [Next]_vars PROVE TypeInv'
  OBVIOUS
<1>0. MaxSeq \in Nat \ {0} /\ \A n \in PinnedSms : n \in Nat
  BY BufferAssumption
<1>1. CASE UNCHANGED vars
  BY <1>1 DEF vars, TypeInv, BufferType, HandleType
<1>2. CASE \E n \in PinnedSms : SetNumSms(n)
  BY <1>0, <1>2 DEF SetNumSms, TypeInv, BufferType, HandleType
<1>3. CASE \E b \in BufferIds, ranks \in Groups, h4 \in SizedWidths : SizedFor(b, ranks, h4)
  <2>1. PICK b \in BufferIds, ranks \in Groups, h4 \in SizedWidths : SizedFor(b, ranks, h4)
    BY <1>3
  <2>2. PICK N : buffers' = [buffers EXCEPT ![b] = N] /\ BufferType(N)
    BY <2>1, NewBufferType DEF SizedFor
  <2>3. num_sms' \in Nat /\ explicit' = explicit /\ handles' = handles
    BY <2>1, GroupFacts DEF SizedFor, Resolved, TypeInv
  <2> QED BY <2>2, <2>3, OthersKeep DEF TypeInv, HandleType, BufferType
<1>4. CASE \E b \in BufferIds : Drop(b)
  <2>1. PICK b \in BufferIds : Drop(b)
    BY <1>4
  <2>2. /\ buffers' = [buffers EXCEPT ![b] = NoBuffer] /\ handles' \subseteq handles
        /\ num_sms' = num_sms /\ explicit' = explicit
    BY <2>1 DEF Drop
  <2>3. NoBuffer.alive = FALSE
    BY DEF NoBuffer
  <2> QED BY <2>2, <2>3, OthersKeep DEF TypeInv, HandleType, BufferType
<1>5. ASSUME NEW b \in BufferIds, NEW h4 \in Widths, NEW topk \in TopKs, NEW experts,
             NEW given, NEW c, NEW fits, NEW seq,
             DispatchCalled(b, h4, topk, experts, given, c, fits, seq)
      PROVE  TypeInv'
  <2>1. BufferType(buffers[b])
    BY <1>5 DEF DispatchCalled, Called, TypeInv
  <2>2. seq \in 1 .. MaxSeq /\ seq \in 0 .. MaxSeq
    BY <1>0, <1>5, <2>1 DEF DispatchCalled, BufferType
  <2>3. PICK g : g = <<h4, topk>>
    OBVIOUS
  <2>4. g \in Widths \X TopKs
    BY <2>3
  <2>5. Called(b, "dispatch", "dispatch", TRUE, given, g, c, fits, seq, seq)
    BY <1>5, <2>3 DEF DispatchCalled
  <2>6. /\ num_sms' \in Nat /\ explicit' \in BOOLEAN
        /\ \A d \in BufferIds : buffers'[d].alive => BufferType(buffers'[d])
    BY <2>2, <2>4, <2>5, CalledTypes
  <2>7. \A h \in handles' : HandleType(h)
    <3>1. \A h \in handles' : h \in handles
            \/ h = [buffer |-> b, seq |-> seq, geometry |-> g,
                    channels |-> Channels(c), stage |-> "dispatched"]
      BY <1>5, <2>3 DEF DispatchCalled
    <3> QED BY <2>2, <2>4, <3>1 DEF TypeInv, HandleType
  <2> QED BY <2>6, <2>7 DEF TypeInv, BufferType, HandleType
<1>6. ASSUME NEW h \in handles, NEW h4 \in Widths, NEW op, NEW given, NEW c, NEW fits, NEW to,
             HandleCalled(h, h4, op, given, c, fits, to)
      PROVE  TypeInv'
  <2>1. /\ HandleType(h) /\ DOMAIN h = HandleFields
        /\ h.buffer \in BufferIds /\ BufferType(buffers[h.buffer])
    BY DEF TypeInv, HostInv, HandleInv
  <2>2. PICK g, next : g = <<h4, h.geometry[2]>> /\ next = buffers[h.buffer].next_seq
    OBVIOUS
  <2>3. /\ g \in Widths \X TopKs /\ next \in 0 .. MaxSeq /\ h.seq \in 1 .. MaxSeq
    BY <2>1, <2>2 DEF HandleType, BufferType
  <2>4. Called(h.buffer, op, RingsOf(op), op = "combine", given, g, c, fits, h.seq, next)
    BY <1>6, <2>2 DEF HandleCalled
  <2>5. /\ num_sms' \in Nat /\ explicit' \in BOOLEAN
        /\ \A d \in BufferIds : buffers'[d].alive => BufferType(buffers'[d])
    BY <2>3, <2>4, CalledTypes
  <2>6. ASSUME NEW k \in handles' PROVE HandleType(k)
    <3>1. CASE k \in handles
      BY <3>1 DEF TypeInv
    <3>2. CASE k \notin handles
      <4>1. PICK s \in to \ {"done"} : k = [h EXCEPT !.stage = s]
        BY <1>6, <3>2 DEF HandleCalled, Advance
      <4>2. s \in {"combined", "grads"}
        BY <1>6 DEF HandleCalled
      <4>3. k.seq = h.seq /\ k.geometry = h.geometry /\ k.stage = s
        BY <2>1, <4>1 DEF HandleFields
      <4> QED BY <2>1, <4>2, <4>3 DEF HandleType
    <3> QED BY <3>1, <3>2
  <2> QED BY <2>5, <2>6 DEF TypeInv, BufferType, HandleType
<1> QED BY <1>1, <1>2, <1>3, <1>4, <1>5, <1>6, StepShape

LEMMA TypesHold == Spec => []TypeInv
<1>1. Init => TypeInv
  <2>1. Init => num_sms \in Nat /\ handles = {}
    BY DEF Init
  <2>2. Init => explicit \in BOOLEAN
    BY Zenon DEF Init
  <2>3. Init => \A b \in BufferIds : ~buffers[b].alive
    BY DEF Init, NoBuffer
  <2> QED BY <2>1, <2>2, <2>3 DEF TypeInv
<1> QED BY <1>1, TypesInductive, HostInvHolds, PTL DEF Spec

(* Every Buffer and handle keeps its type whatever its callers do: no sequence
   number is 0, the value of the zeroed rings, and no ring chain is ever pinned
   to a config that the constructor of Config would reject. *)
THEOREM TypeCorrect == Spec => []TypeOK
<1>1. HostInv /\ TypeInv => TypeOK
  BY DEF HostInv, TypeInv, TypeOK, BufferType, HandleType, HandleInv, Live, Rings
<1> QED BY <1>1, HostInvHolds, TypesHold, PTL

-----------------------------------------------------------------------------
(***************************************************************************)
(* As long as no caller changes the SM count while a Buffer exists, every  *)
(* call of a Buffer reads the count it was sized with.  Its pins are then  *)
(* the configs callers may pass at that count, its allocation is the hint  *)
(* of both recommended configs, and its handles carry its channel count.   *)
(***************************************************************************)
PinsOf(rings, ranks, n) == {Explicit(name, Table(rings, ranks, n)) : name \in GivenFor(rings)}

SizedAt(B, n) ==
  /\ \A rings \in Rings : NvlHint(Table(rings, B.ranks, n), B.ranks, B.sized) <= B.nvl
  /\ \A rings \in Rings : RdmaHint(Table(rings, B.ranks, n), B.ranks, B.sized) <= B.rdma
  /\ B.nvl \in Int /\ B.rdma \in Int

BufferSize(B, n) ==
  /\ \A rings \in Rings : B[rings] # Unset => B[rings] \in PinsOf(rings, B.ranks, n)
  /\ SizedAt(B, n)

HandleSize(h) == h.channels = SmsOf(h.buffer) \div 2 /\ buffers[h.buffer].launched # {}

SizeInv ==
  /\ \A b \in BufferIds : buffers[b].alive => BufferSize(buffers[b], SmsOf(b))
  /\ \A h \in handles : HandleSize(h)

(* A call leaves what every group resolves the SM count to. *)
LEMMA SmsStay ==
  ASSUME explicit' = explicit,
         \/ num_sms' = num_sms
         \/ \E ranks : num_sms' = Sms(explicit, num_sms, ranks)
  PROVE  \A ranks : Sms(explicit', num_sms', ranks) = Sms(explicit, num_sms, ranks)
BY DEF Sms

LEMMA CalledSizes ==
  ASSUME HostInv, TypeInv, SizeInv, NEW b, NEW op, NEW rings, NEW forward,
         NEW given \in GivenFor(rings), NEW g, NEW c, NEW fits, NEW seq, NEW next,
         Called(b, op, rings, forward, given, g, c, fits, seq, next)
  PROVE  /\ \A d \in BufferIds : buffers[d].alive => SmsOf(d)' = SmsOf(d)
         /\ \A d \in BufferIds : buffers'[d].alive => buffers[d].alive
         /\ \A d \in BufferIds : buffers[d].launched \subseteq buffers'[d].launched
         /\ \A d \in BufferIds : buffers'[d].alive => BufferSize(buffers'[d], SmsOf(d)')
         /\ last'.outcome = "launched" => buffers'[b].launched # {}
         /\ c.num_sms = SmsOf(b)
<1>1. PICK N : /\ buffers' = [buffers EXCEPT ![b] = N]
               /\ LeftBy(buffers[b], N, rings, forward, g, c, fits, seq, next)
               /\ last' = Ended(N, op, b, rings, given, g, c, fits)
  BY DEF Called
<1>2. PICK B, n : B = buffers[b] /\ n = SmsOf(b)
  OBVIOUS
<1>3. /\ b \in BufferIds /\ B.alive /\ rings \in Rings
      /\ c = Explicit(given, Table(rings, B.ranks, n))
  BY <1>2 DEF Called
<1>4. N.ranks = B.ranks /\ N.sized = B.sized /\ N.nvl = B.nvl /\ N.rdma = B.rdma /\ N.alive = B.alive
  BY <1>1, <1>2 DEF LeftBy, KeptFields
<1>5. B.launched \subseteq N.launched
  BY <1>1, <1>2 DEF LeftBy
<1>6. last'.outcome = "launched" => N.launched # {}
  <2>1. last'.outcome = "launched" => N.geometry = g /\ N[rings] = c /\ fits
    BY <1>1 DEF Ended, Failed
  <2> QED BY <1>1, <2>1 DEF LeftBy
<1>7. buffers'[b] = N /\ \A d \in BufferIds : d # b => buffers'[d] = buffers[d]
  BY <1>1, <1>3, OthersKeep
<1>8. \A ranks : Sms(explicit', num_sms', ranks) = Sms(explicit, num_sms, ranks)
  BY SmsStay DEF Called, SmsOf
<1>9. \A d \in BufferIds : SmsOf(d)' = SmsOf(d)
  <2> SUFFICES ASSUME NEW d \in BufferIds
               PROVE  Sms(explicit', num_sms', buffers'[d].ranks)
                        = Sms(explicit, num_sms, buffers[d].ranks)
    BY DEF SmsOf
  <2>1. buffers'[d].ranks = buffers[d].ranks
    BY <1>2, <1>4, <1>7
  <2> QED BY <1>8, <2>1
<1>10. BufferSize(N, n)
  <2>1. BufferSize(B, n)
    BY <1>2, <1>3 DEF SizeInv
  <2>2. c \in PinsOf(rings, B.ranks, n)
    BY <1>3 DEF PinsOf
  <2>3. \A r \in Rings : N[r] = B[r] \/ (r = rings /\ N[r] = c)
    BY <1>1, <1>2 DEF LeftBy
  <2>4. SizedAt(N, n)
    BY <1>4, <2>1 DEF BufferSize, SizedAt
  <2> QED BY <1>4, <2>1, <2>2, <2>3, <2>4 DEF BufferSize
<1>11. \A d \in BufferIds : buffers'[d].alive => BufferSize(buffers'[d], SmsOf(d))
  BY <1>2, <1>3, <1>4, <1>7, <1>10 DEF SizeInv
<1>12. c.num_sms = n
  BY <1>2, CalledConfig DEF GivenRow
<1> QED BY <1>2, <1>3, <1>4, <1>5, <1>6, <1>7, <1>9, <1>11, <1>12

LEMMA NewBufferSize ==
  ASSUME NEW ranks \in Groups, NEW h4 \in SizedWidths, NEW n \in Nat
  PROVE  BufferSize(NewBuffer(ranks, h4, n, n), n)
<1> DEFINE B == NewBuffer(ranks, h4, n, n)
           Nvl(rings) == NvlHint(Table(rings, ranks, n), ranks, h4)
           Rdma(rings) == RdmaHint(Table(rings, ranks, n), ranks, h4)
<1>1. \A rings \in Rings : Nvl(rings) \in Int /\ Rdma(rings) \in Int
  <2>1. ranks \in TableRanks /\ ranks \in Nat /\ h4 \in Nat
    BY GroupFacts, BufferAssumption
  <2> SUFFICES ASSUME NEW rings \in Rings PROVE Nvl(rings) \in Int /\ Rdma(rings) \in Int
    OBVIOUS
  <2>2. PICK c : c = Table(rings, ranks, n)
    OBVIOUS
  <2>3. c.num_sms \in Nat /\ c.nvl_recv \in Nat /\ c.rdma_recv \in Nat
    BY <2>1, <2>2, TableFacts, GroupFacts DEF TableRow
  <2>4. \A x, y \in Int : x \in Int /\ CeilTo(x, 128) \in Int /\ CeilTo(x, 16) \in Int
    BY DEF CeilTo
  <2>5. RdmaRanks(ranks) \in Nat /\ Channels(c) \in Nat
    BY <2>1, <2>3 DEF RdmaRanks, NvlPeers, Channels
  <2>6. /\ DispatchNvlBytes(c, ranks, h4, 128) \in Int /\ CombineNvlBytes(c, ranks, h4, 128) \in Int
        /\ MetadataNvlBytes(c, ranks, 64) \in Int
        /\ DispatchRdmaBytes(c, ranks, h4, 128) \in Int /\ CombineRdmaBytes(c, ranks, h4, 128) \in Int
    <3>1. BytesPerToken(h4, 128, 128) \in Int /\ BytesPerToken(h4, 0, 128) \in Int
      BY <2>1, <2>4 DEF BytesPerToken
    <3> QED BY <2>3, <2>5, <3>1 DEF DispatchNvlBytes, CombineNvlBytes, MetadataNvlBytes,
                                    DispatchRdmaBytes, CombineRdmaBytes, NvlPeers
  <2> QED BY <2>2, <2>4, <2>6 DEF NvlHint, RdmaHint, MaxTopKHint, MaxLocalExperts
<1> HIDE DEF Nvl, Rdma
<1>2. /\ B.ranks = ranks /\ B.sized = h4 /\ B["dispatch"] = Unset /\ B["combine"] = Unset
      /\ B.nvl = IF Nvl("dispatch") > Nvl("combine") THEN Nvl("dispatch") ELSE Nvl("combine")
      /\ B.rdma = IF Rdma("dispatch") > Rdma("combine") THEN Rdma("dispatch") ELSE Rdma("combine")
  BY DEF NewBuffer, Table, Nvl, Rdma
<1> HIDE DEF B
<1>3. \A rings \in Rings : Nvl(rings) <= B.nvl /\ Rdma(rings) <= B.rdma
  BY <1>1, <1>2 DEF Rings
<1>4. B.nvl \in Int /\ B.rdma \in Int
  BY <1>1, <1>2 DEF Rings
<1>5. SizedAt(B, n)
  BY <1>2, <1>3, <1>4 DEF SizedAt, Nvl, Rdma
<1>6. BufferSize(B, n)
  BY <1>2, <1>5 DEF BufferSize, Rings
<1> QED BY <1>6 DEF B

LEMMA SizesInductive ==
  ASSUME ~LateSetNumSms, HostInv, TypeInv, SizeInv, [Next]_vars
  PROVE  SizeInv'
<1>1. CASE UNCHANGED vars
  BY <1>1 DEF vars, SizeInv, BufferSize, SizedAt, HandleSize, SmsOf, Sms
<1>2. CASE \E n \in PinnedSms : SetNumSms(n)
  <2>1. Live = {} /\ buffers' = buffers /\ handles' = handles
    BY <1>2 DEF SetNumSms
  <2>2. \A b \in BufferIds : ~buffers[b].alive
    BY <2>1 DEF Live
  <2>3. handles = {}
    BY <2>2 DEF HostInv, HandleInv
  <2> QED BY <2>1, <2>2, <2>3 DEF SizeInv
<1>3. CASE \E b \in BufferIds, ranks \in Groups, h4 \in SizedWidths : SizedFor(b, ranks, h4)
  <2>1. PICK b \in BufferIds, ranks \in Groups, h4 \in SizedWidths : SizedFor(b, ranks, h4)
    BY <1>3
  <2>2. PICK n : n = Sms(explicit, num_sms, ranks)
    OBVIOUS
  <2>3. PICK N : N = NewBuffer(ranks, h4, n, n)
    OBVIOUS
  <2>4. /\ buffers' = [buffers EXCEPT ![b] = N] /\ ~buffers[b].alive
        /\ num_sms' = n /\ explicit' = explicit /\ handles' = handles
    BY <2>1, <2>2, <2>3 DEF SizedFor, Resolved, Sms
  <2>5. n \in Nat
    BY <2>2, GroupFacts DEF Sms, TypeInv
  <2>6. BufferSize(N, n)
    BY <2>3, <2>5, NewBufferSize
  <2>7. N.ranks = ranks
    BY <2>3 DEF NewBuffer
  <2>8. \A r : Sms(explicit', num_sms', r) = Sms(explicit, num_sms, r)
    BY <2>2, <2>4, SmsStay
  <2>9. buffers'[b] = N /\ \A d \in BufferIds : d # b => buffers'[d] = buffers[d]
    BY <2>4, OthersKeep
  <2>10. SmsOf(b)' = n /\ \A d \in BufferIds : d # b => SmsOf(d)' = SmsOf(d)
    <3>1. SmsOf(b)' = Sms(explicit', num_sms', ranks)
      BY <2>7, <2>9 DEF SmsOf
    <3>2. SmsOf(b)' = n
      BY <2>2, <2>8, <3>1
    <3>3. ASSUME NEW d \in BufferIds, d # b PROVE SmsOf(d)' = SmsOf(d)
      BY <2>8, <2>9, <3>3 DEF SmsOf
    <3> QED BY <3>2, <3>3
  <2>11. ASSUME NEW d \in BufferIds, buffers'[d].alive PROVE BufferSize(buffers'[d], SmsOf(d)')
    BY <2>6, <2>9, <2>10, <2>11 DEF SizeInv
  <2>12. ASSUME NEW h \in handles PROVE HandleSize(h)'
    <3>1. h.buffer \in BufferIds /\ h.buffer # b
      BY <2>4 DEF HostInv, HandleInv
    <3> QED BY <2>9, <2>10, <3>1 DEF SizeInv, HandleSize
  <2>13. SizeInv' = /\ \A d \in BufferIds : buffers'[d].alive => BufferSize(buffers'[d], SmsOf(d)')
                    /\ \A h \in handles' : HandleSize(h)'
    BY DEF SizeInv, BufferSize, SizedAt
  <2> QED BY <2>4, <2>11, <2>12, <2>13
<1>4. CASE \E b \in BufferIds : Drop(b)
  <2>1. PICK b \in BufferIds : Drop(b)
    BY <1>4
  <2>2. /\ buffers' = [buffers EXCEPT ![b] = NoBuffer] /\ num_sms' = num_sms
        /\ explicit' = explicit /\ handles' = {h \in handles : h.buffer # b}
    BY <2>1 DEF Drop
  <2>3. ~NoBuffer.alive
    BY DEF NoBuffer
  <2>4. buffers'[b] = NoBuffer /\ \A d \in BufferIds : d # b => buffers'[d] = buffers[d]
    BY <2>2, OthersKeep
  <2>5. \A d \in BufferIds : d # b => SmsOf(d)' = SmsOf(d)
    BY <2>2, <2>4 DEF SmsOf
  <2>6. ASSUME NEW d \in BufferIds, buffers'[d].alive PROVE BufferSize(buffers'[d], SmsOf(d)')
    BY <2>3, <2>4, <2>5, <2>6 DEF SizeInv
  <2>7. ASSUME NEW h \in handles' PROVE HandleSize(h)'
    <3>1. h \in handles /\ h.buffer \in BufferIds /\ h.buffer # b
      BY <2>2 DEF HostInv, HandleInv
    <3> QED BY <2>4, <2>5, <3>1 DEF SizeInv, HandleSize
  <2>8. SizeInv' = /\ \A d \in BufferIds : buffers'[d].alive => BufferSize(buffers'[d], SmsOf(d)')
                   /\ \A h \in handles' : HandleSize(h)'
    BY DEF SizeInv, BufferSize, SizedAt
  <2> QED BY <2>6, <2>7, <2>8
<1>5. ASSUME NEW b, NEW op, NEW rings, NEW forward, NEW given \in GivenFor(rings), NEW g, NEW c,
             NEW fits, NEW seq, NEW next, Called(b, op, rings, forward, given, g, c, fits, seq, next),
             \A k \in handles' : \/ k \in handles
                                 \/ /\ last'.outcome = "launched" /\ k.buffer = b
                                    /\ \/ k.channels = Channels(c)
                                       \/ \E h \in handles : h.buffer = b /\ k.channels = h.channels
      PROVE  SizeInv'
  <2>1. /\ \A d \in BufferIds : buffers[d].alive => SmsOf(d)' = SmsOf(d)
        /\ \A d \in BufferIds : buffers[d].launched \subseteq buffers'[d].launched
        /\ \A d \in BufferIds : buffers'[d].alive => BufferSize(buffers'[d], SmsOf(d)')
        /\ last'.outcome = "launched" => buffers'[b].launched # {}
        /\ c.num_sms = SmsOf(b)
    <3>1. given \in GivenFor(rings) /\ Called(b, op, rings, forward, given, g, c, fits, seq, next)
      BY <1>5
    <3> QED BY <3>1, CalledSizes
  <2>2. b \in BufferIds /\ buffers[b].alive
    BY <1>5 DEF Called
  <2>3. ASSUME NEW k \in handles' PROVE HandleSize(k)'
    <3>1. CASE k \in handles
      <4>1. HandleSize(k) /\ k.buffer \in BufferIds /\ buffers[k.buffer].alive
        BY <3>1 DEF SizeInv, HostInv, HandleInv
      <4> QED BY <2>1, <4>1 DEF HandleSize
    <3>2. CASE k \notin handles
      <4>1. last'.outcome = "launched" /\ k.buffer = b
        BY <1>5, <3>2
      <4>2. k.channels = SmsOf(b) \div 2
        <5>1. \A h \in handles : h.buffer = b => h.channels = SmsOf(b) \div 2
          BY DEF SizeInv, HandleSize
        <5>2. Channels(c) = SmsOf(b) \div 2
          BY <2>1 DEF Channels
        <5> QED BY <1>5, <3>2, <5>1, <5>2
      <4> QED BY <2>1, <2>2, <4>1, <4>2 DEF HandleSize
    <3> QED BY <3>1, <3>2
  <2>4. SizeInv' = /\ \A d \in BufferIds : buffers'[d].alive => BufferSize(buffers'[d], SmsOf(d)')
                   /\ \A h \in handles' : HandleSize(h)'
    BY DEF SizeInv, BufferSize, SizedAt
  <2> QED BY <2>1, <2>3, <2>4
<1>6. ASSUME NEW b \in BufferIds, NEW h4 \in Widths, NEW topk \in TopKs, NEW experts,
             NEW given \in DispatchGiven, NEW c, NEW fits, NEW seq,
             DispatchCalled(b, h4, topk, experts, given, c, fits, seq)
      PROVE  SizeInv'
  <2>1. PICK rings, g : rings = "dispatch" /\ g = <<h4, topk>>
    OBVIOUS
  <2>2. Called(b, "dispatch", rings, TRUE, given, g, c, fits, seq, seq) /\ given \in GivenFor(rings)
    BY <1>6, <2>1 DEF DispatchCalled, GivenFor
  <2>3. \A k \in handles' :
          \/ k \in handles
          \/ last'.outcome = "launched" /\ k.buffer = b /\ k.channels = Channels(c)
    BY <1>6 DEF DispatchCalled
  <2> QED BY <1>5, <2>2, <2>3
<1>7. ASSUME NEW h \in handles, NEW h4 \in Widths, NEW op, NEW given \in GivenFor(RingsOf(op)),
             NEW c, NEW fits, NEW to, HandleCalled(h, h4, op, given, c, fits, to)
      PROVE  SizeInv'
  <2>1. PICK rings, g, forward, b, next :
          /\ rings = RingsOf(op) /\ g = <<h4, h.geometry[2]>> /\ forward = (op = "combine")
          /\ b = h.buffer /\ next = buffers[h.buffer].next_seq
    OBVIOUS
  <2>2. Called(b, op, rings, forward, given, g, c, fits, h.seq, next) /\ given \in GivenFor(rings)
    BY <1>7, <2>1 DEF HandleCalled
  <2>3. ASSUME NEW k \in handles', k \notin handles
        PROVE  last'.outcome = "launched" /\ k.buffer = b /\ k.channels = h.channels
    <3>1. /\ last'.outcome = "launched"
          /\ \E s \in to \ {"done"} : k = [h EXCEPT !.stage = s]
      BY <1>7, <2>3 DEF HandleCalled, Advance
    <3>2. DOMAIN h = HandleFields
      BY DEF HostInv, HandleInv
    <3> QED BY <2>1, <3>1, <3>2 DEF HandleFields
  <2> QED BY <1>5, <2>1, <2>2, <2>3
<1> QED BY <1>1, <1>2, <1>3, <1>4, <1>6, <1>7, StepShape

LEMMA SizesHold == ASSUME ~LateSetNumSms PROVE Spec => []SizeInv
<1>1. Init => SizeInv
  <2>1. Init => handles = {}
    BY DEF Init
  <2>2. Init => \A b \in BufferIds : ~buffers[b].alive
    BY DEF Init, NoBuffer
  <2> QED BY <2>1, <2>2 DEF SizeInv
<1>2. HostInv /\ TypeInv /\ SizeInv /\ [Next]_vars => SizeInv'
  BY SizesInductive
<1> QED BY <1>1, <1>2, HostInvHolds, TypesHold, PTL DEF Spec

-----------------------------------------------------------------------------
(***************************************************************************)
(* Rejected calls.  With a recommended config the pins differ from it only *)
(* where an earlier call of the Buffer set them to a config of its own.    *)
(* The narrow config is excluded: the property looks at the chunk only.    *)
(***************************************************************************)
DirectionOf(op) == IF op \in {"dispatch", "dispatch_grads"} THEN "dispatch" ELSE "combine"

NoNarrow == "narrow" \notin DispatchGiven \cup CombineGiven

LEMMA CalledRaises ==
  ASSUME NoNarrow, HostInv, TypeInv, SizeInv, NEW b, NEW op, NEW rings, NEW forward,
         NEW given \in GivenFor(rings), NEW g, NEW c, NEW fits, NEW seq, NEW next,
         Called(b, op, rings, forward, given, g, c, fits, seq, next),
         rings = DirectionOf(op)
  PROVE  RaisedOnlyForItsOwnPins'
<1>1. PICK N : /\ buffers' = [buffers EXCEPT ![b] = N]
               /\ LeftBy(buffers[b], N, rings, forward, g, c, fits, seq, next)
               /\ last' = Ended(N, op, b, rings, given, g, c, fits)
  BY DEF Called
<1>2. PICK B, n, ranks : B = buffers[b] /\ n = SmsOf(b) /\ ranks = B.ranks
  OBVIOUS
<1>3. /\ b \in BufferIds /\ B.alive /\ rings \in Rings
      /\ c = Explicit(given, Table(rings, ranks, n))
      /\ buffers'[b] = N /\ N.ranks = ranks
  BY <1>1, <1>2, OthersKeep DEF Called, LeftBy, KeptFields
<1>4. ranks \in Groups /\ ranks \in TableRanks /\ n \in Nat /\ Slots(ranks) \in Nat
  BY <1>2, CalledConfig, GroupFacts
<1> SUFFICES ASSUME last'.outcome = "raised", last'.given = "None", N.geometry = last'.geometry
             PROVE  IF op \in {"dispatch", "dispatch_grads"}
                      THEN N["dispatch"].nvl_send # DispatchConfig(ranks, 64).nvl_send
                      ELSE N["combine"].nvl_send # CombineConfig(ranks, 64).nvl_send
  <2>1. last'.outcome = "raised" => last'.op = op /\ last'.buffer = b
    BY <1>1 DEF Ended, Launched, Failed
  <2> QED BY <1>3, <2>1 DEF RaisedOnlyForItsOwnPins
<1>5. given = "None" /\ N.geometry = g /\ N[rings] # c
  <2>1. last' = Failed(op, b, given, g, "raised") /\ ~(N.geometry = g /\ N[rings] = c)
    BY <1>1 DEF Ended, Launched, Failed
  <2>2. last'.given = given /\ last'.geometry = g
    BY <2>1 DEF Failed
  <2> QED BY <2>1, <2>2
<1>6. PICK r : r = Table(rings, ranks, n)
  OBVIOUS
<1>7. c = r /\ TableRow(r, n, Slots(ranks)) /\ r.nvl_send = ChunkOf(rings, ranks)
  BY <1>3, <1>4, <1>5, <1>6, TableFacts DEF Explicit
<1>8. N[rings] \in PinsOf(rings, ranks, n)
  <2>1. N[rings] = B[rings] /\ B[rings] # Unset
    BY <1>1, <1>2, <1>5 DEF LeftBy
  <2> QED BY <1>2, <1>3, <2>1 DEF SizeInv, BufferSize
<1>9. PICK name \in GivenFor(rings) : N[rings] = Explicit(name, r)
  BY <1>6, <1>8 DEF PinsOf
<1>10. name \in Names /\ name # "narrow"
  BY BufferAssumption DEF GivenFor, NoNarrow, Names
<1>11. N[rings].nvl_send # r.nvl_send
  <2>1. Explicit(name, r).nvl_send = r.nvl_send => Explicit(name, r) = r
    BY <1>4, <1>7, <1>10, GivenFacts
  <2> QED BY <1>5, <1>7, <1>9, <2>1
<1>12. Table(rings, ranks, 64).nvl_send = ChunkOf(rings, ranks)
  BY <1>3, <1>4, TableFacts
<1> QED BY <1>3, <1>7, <1>11, <1>12 DEF Table, DirectionOf

(* Every call is a call on the rings of its direction. *)
CallMade ==
  \E b, op, rings, forward, g, c, fits, seq, next : \E given \in GivenFor(rings) :
    /\ Called(b, op, rings, forward, given, g, c, fits, seq, next)
    /\ rings = DirectionOf(op)

LEMMA StepCalls ==
  ASSUME HostInv, [Next]_vars
  PROVE  UNCHANGED vars \/ last' = NoCall \/ CallMade
<1>1. ASSUME NEW b, NEW h4, NEW topk, NEW experts, NEW given \in DispatchGiven,
             NEW c, NEW fits, NEW seq, DispatchCalled(b, h4, topk, experts, given, c, fits, seq)
      PROVE  CallMade
  <2>1. PICK op, rings, g : op = "dispatch" /\ rings = "dispatch" /\ g = <<h4, topk>>
    OBVIOUS
  <2>2. /\ Called(b, op, rings, TRUE, given, g, c, fits, seq, seq)
        /\ given \in GivenFor(rings) /\ rings = DirectionOf(op)
    BY <1>1, <2>1 DEF DispatchCalled, GivenFor, DirectionOf
  <2> QED BY <2>2 DEF CallMade
<1>2. ASSUME NEW h, NEW h4, NEW op \in HandleOps, NEW given, given \in GivenFor(RingsOf(op)),
             NEW c, NEW fits, NEW to, HandleCalled(h, h4, op, given, c, fits, to)
      PROVE  CallMade
  <2>1. RingsOf(op) = DirectionOf(op)
    BY DEF RingsOf, HandleOps, DirectionOf
  <2>2. PICK b, rings, forward, g, seq, next :
          /\ given \in GivenFor(rings) /\ rings = DirectionOf(op)
          /\ Called(b, op, rings, forward, given, g, c, fits, seq, next)
    BY <1>2, <2>1 DEF HandleCalled
  <2> QED BY <2>2 DEF CallMade
<1>3. ASSUME NEW n, SetNumSms(n) PROVE last' = NoCall
  BY <1>3 DEF SetNumSms
<1>4. ASSUME NEW b, NEW ranks, NEW h4, SizedFor(b, ranks, h4) PROVE last' = NoCall
  BY <1>4 DEF SizedFor
<1>5. ASSUME NEW b, Drop(b) PROVE last' = NoCall
  BY <1>5 DEF Drop
<1> QED BY <1>1, <1>2, <1>3, <1>4, <1>5, StepShape

(* Other Buffers never make a Buffer raise: a call at its geometry with the
   recommended config is rejected only for a config of its own. *)
THEOREM RaisedForOwnPins ==
  ASSUME ~LateSetNumSms, NoNarrow
  PROVE  Spec => []RaisedOnlyForItsOwnPins
<1>1. Init => RaisedOnlyForItsOwnPins
  BY DEF Init, NoCall, RaisedOnlyForItsOwnPins
<1>2. HostInv /\ TypeInv /\ SizeInv /\ RaisedOnlyForItsOwnPins /\ [Next]_vars
        => RaisedOnlyForItsOwnPins'
  <2> SUFFICES ASSUME HostInv, TypeInv, SizeInv, RaisedOnlyForItsOwnPins, [Next]_vars
               PROVE  RaisedOnlyForItsOwnPins'
    OBVIOUS
  <2>1. CASE UNCHANGED vars
    BY <2>1 DEF vars, RaisedOnlyForItsOwnPins
  <2>2. CASE last' = NoCall
    BY <2>2 DEF NoCall, RaisedOnlyForItsOwnPins
  <2>3. CASE CallMade
    BY <2>3, CalledRaises DEF CallMade
  <2> QED BY <2>1, <2>2, <2>3, StepCalls
<1> QED BY <1>1, <1>2, HostInvHolds, TypesHold, SizesHold, PTL DEF Spec

-----------------------------------------------------------------------------
(***************************************************************************)
(* Regions.  A launch computes where the rings lie from its own config, so *)
(* two launches agree if their configs have the same SM count and the same *)
(* NVL slots.  The host asserts the room for the combine region in every   *)
(* intranode combine; internode it does so only when the dispatch is       *)
(* launched, and the combine relies on the agreement.                      *)
(***************************************************************************)
Fitted(B, L) ==
  Internode(B.ranks) \/ L.rings = "combine" =>
    CombineEnd(L.config, B.ranks, L.geometry[1], L.geometry[2]) <= B.nvl

FitInv == \A b \in BufferIds : buffers[b].alive =>
            \A L \in buffers[b].launched : Fitted(buffers[b], L)

LEMMA RanksFacts ==
  ASSUME NEW ranks \in TableRanks
  PROVE  /\ RdmaRanks(ranks) \in Nat /\ RdmaRanks(ranks) > 0
         /\ Internode(ranks) => ranks > 8
         /\ ~Internode(ranks) => ranks \in {2, 4, 8} /\ RdmaRanks(ranks) = 1
BY DEF TableRanks, RdmaRanks, Internode, NvlPeers

LEMMA SameEnds ==
  ASSUME NEW c, NEW d, c.num_sms = d.num_sms, c.nvl_recv = d.nvl_recv, NEW ranks, NEW h4, NEW topk
  PROVE  /\ DispatchEnd(c, ranks, h4, topk) = DispatchEnd(d, ranks, h4, topk)
         /\ CombineEnd(c, ranks, h4, topk) = CombineEnd(d, ranks, h4, topk)
<1>1. Channels(c) = Channels(d)
  BY DEF Channels
<1>2. DispatchEnd(c, ranks, h4, topk) = DispatchEnd(d, ranks, h4, topk)
  BY <1>1 DEF DispatchEnd, DispatchNvlBytes, IntranodeDispatchBytes
<1>3. /\ CombineNvlBytes(c, ranks, h4, topk) = CombineNvlBytes(d, ranks, h4, topk)
      /\ IntranodeCombineBytes(c, ranks, h4, topk) = IntranodeCombineBytes(d, ranks, h4, topk)
  BY <1>1 DEF CombineNvlBytes, IntranodeCombineBytes
<1> QED BY <1>2, <1>3 DEF CombineEnd, CombineStart

(* What the configs of a Buffer's launches have in common. *)
LEMMA PinnedSlots ==
  ASSUME NoNarrow, NEW rings \in Rings, NEW ranks \in Groups, NEW n \in Nat,
         NEW c \in PinsOf(rings, ranks, n)
  PROVE  c.num_sms = n /\ c.nvl_recv = Slots(ranks)
<1>1. PICK name \in GivenFor(rings) : c = Explicit(name, Table(rings, ranks, n))
  BY DEF PinsOf
<1>2. PICK r : r = Table(rings, ranks, n)
  OBVIOUS
<1>3. name \in Names /\ name # "narrow"
  BY BufferAssumption DEF GivenFor, NoNarrow, Names
<1>4. TableRow(r, n, Slots(ranks)) /\ Slots(ranks) \in Nat
  BY <1>2, TableFacts, GroupFacts
<1> QED BY <1>1, <1>2, <1>3, <1>4, GivenFacts DEF GivenRow

LEMMA LaunchedSlots ==
  ASSUME NoNarrow, HostInv, TypeInv, SizeInv,
         NEW b \in BufferIds, buffers[b].alive, NEW L \in buffers[b].launched
  PROVE  /\ L.config.num_sms = SmsOf(b) /\ L.config.nvl_recv = Slots(buffers[b].ranks)
         /\ L.geometry = buffers[b].geometry /\ L.geometry # Unset
         /\ L.geometry \in Widths \X TopKs
<1>1. PICK B, n, rings : B = buffers[b] /\ n = SmsOf(b) /\ rings = L.rings
  OBVIOUS
<1>2. /\ rings \in Rings /\ L.geometry # Unset /\ L.geometry = B.geometry
      /\ L.config # Unset /\ L.config = B[rings]
  BY <1>1 DEF HostInv, BufferInv, AtPins
<1>3. BufferType(B) /\ BufferSize(B, n) /\ n \in Nat
  BY <1>1, GroupFacts DEF TypeInv, SizeInv, SmsOf, Sms
<1>4. L.config \in PinsOf(rings, B.ranks, n)
  BY <1>2, <1>3 DEF BufferSize
<1>5. B.ranks \in Groups
  BY <1>3 DEF BufferType
<1>6. L.config.num_sms = n /\ L.config.nvl_recv = Slots(B.ranks)
  BY <1>2, <1>3, <1>4, <1>5, PinnedSlots
<1>7. L.geometry \in Widths \X TopKs
  BY <1>2, <1>3 DEF BufferType
<1> QED BY <1>1, <1>2, <1>6, <1>7

(* The launch of a dispatch fits with the combine region it leaves room for. *)
LEMMA DispatchRoom ==
  ASSUME NEW c, NEW ranks \in TableRanks, NEW h4 \in Nat, NEW topk \in Nat,
         NEW experts \in Nat, NEW nvl \in Int, NEW rdma,
         c.num_sms \in Nat, c.nvl_recv \in Nat, Internode(ranks),
         DispatchFits(c, ranks, h4, topk, experts, nvl, rdma)
  PROVE  CombineEnd(c, ranks, h4, topk) <= nvl
<1>1. PICK R, ch, D, C, M :
        /\ R = RdmaRanks(ranks) /\ ch = Channels(c)
        /\ D = DispatchNvlBytes(c, ranks, h4, topk) /\ C = CombineNvlBytes(c, ranks, h4, topk)
        /\ M = MetadataNvlBytes(c, ranks, experts)
  OBVIOUS
<1>2. R \in Nat /\ ch \in Nat
  BY <1>1, RanksFacts DEF Channels
<1>3. M \in Nat
  <2>1. R * ch \in Nat
    BY <1>2
  <2>2. R * ch * experts \in Nat
    BY <2>1
  <2>3. M = 4 * 8 * (2 * experts + R + R * ch * experts)
    BY <1>1 DEF MetadataNvlBytes, NvlPeers
  <2> QED BY <1>2, <2>2, <2>3
<1>4. D \in Int /\ C \in Int
  <2>1. BytesPerToken(h4, topk, topk) \in Int /\ BytesPerToken(h4, 0, topk) \in Int
    BY DEF BytesPerToken, CeilTo
  <2> QED BY <1>1, <1>2, <2>1 DEF DispatchNvlBytes, CombineNvlBytes, NvlPeers
<1>5. D + C + M <= nvl
  BY <1>1 DEF DispatchFits
<1>6. CombineEnd(c, ranks, h4, topk) = D + C
  BY <1>1 DEF CombineEnd, CombineStart, DispatchEnd
<1> QED BY <1>3, <1>4, <1>5, <1>6

(* One more launch: it fits by its own check, or because an earlier launch of
   the Buffer did. *)
LEMMA CalledFits ==
  ASSUME HostInv, FitInv, NEW b, NEW op, NEW rings, NEW forward, NEW given, NEW g, NEW c,
         NEW fits, NEW seq, NEW next, Called(b, op, rings, forward, given, g, c, fits, seq, next),
         fits /\ (buffers[b].geometry = Unset \/ buffers[b].geometry = g)
              /\ (Internode(buffers[b].ranks) \/ rings = "combine")
           => CombineEnd(c, buffers[b].ranks, g[1], g[2]) <= buffers[b].nvl
  PROVE  FitInv'
<1>1. PICK N : /\ buffers' = [buffers EXCEPT ![b] = N]
               /\ LeftBy(buffers[b], N, rings, forward, g, c, fits, seq, next)
  BY DEF Called
<1>2. PICK B : B = buffers[b]
  OBVIOUS
<1>3. /\ b \in BufferIds /\ B.alive
      /\ buffers'[b] = N /\ \A d \in BufferIds : d # b => buffers'[d] = buffers[d]
  BY <1>1, <1>2, OthersKeep DEF Called
<1>4. N.ranks = B.ranks /\ N.nvl = B.nvl
  BY <1>1, <1>2 DEF LeftBy, KeptFields
<1>5. ASSUME NEW L \in N.launched PROVE Fitted(N, L)
  <2>1. CASE L \in B.launched
    BY <1>2, <1>3, <1>4, <2>1 DEF FitInv, Fitted
  <2>2. CASE L \notin B.launched
    <3>1. /\ fits /\ N.geometry = g /\ L = Launch(rings, forward, seq, g, c)
          /\ N.geometry = IF B.geometry = Unset THEN g ELSE B.geometry
      BY <1>1, <1>2, <1>5, <2>2 DEF LeftBy
    <3>2. L.rings = rings /\ L.config = c /\ L.geometry = g
      BY <3>1 DEF Launch
    <3> QED BY <1>2, <1>4, <3>1, <3>2 DEF Fitted
  <2> QED BY <2>1, <2>2
<1> QED BY <1>3, <1>5 DEF FitInv, Fitted

LEMMA FitsInductive ==
  ASSUME NoNarrow, HostInv, TypeInv, SizeInv, FitInv, [Next]_vars
  PROVE  FitInv'
<1>0. /\ \A h4 \in Widths : h4 \in Nat /\ \A topk \in TopKs : topk \in Nat
      /\ \A experts \in Experts : experts \in Nat
  BY BufferAssumption
<1>1. CASE UNCHANGED vars \/ \E n \in PinnedSms : SetNumSms(n)
  BY <1>1 DEF vars, SetNumSms, FitInv, Fitted
<1>2. CASE \E b \in BufferIds, ranks \in Groups, h4 \in SizedWidths : SizedFor(b, ranks, h4)
  <2>1. PICK b \in BufferIds, ranks \in Groups, h4 \in SizedWidths : SizedFor(b, ranks, h4)
    BY <1>2
  <2> DEFINE n == Resolved(ranks)
  <2>2. buffers' = [buffers EXCEPT ![b] = NewBuffer(ranks, h4, n, n)]
    BY <2>1 DEF SizedFor
  <2>3. NewBuffer(ranks, h4, n, n).launched = {}
    BY DEF NewBuffer
  <2> QED BY <2>2, <2>3, OthersKeep DEF FitInv, Fitted
<1>3. CASE \E b \in BufferIds : Drop(b)
  <2>1. PICK b \in BufferIds : buffers' = [buffers EXCEPT ![b] = NoBuffer]
    BY <1>3 DEF Drop
  <2>2. ~NoBuffer.alive
    BY DEF NoBuffer
  <2> QED BY <2>1, <2>2, OthersKeep DEF FitInv, Fitted
<1>4. ASSUME NEW b \in BufferIds, NEW h4 \in Widths, NEW topk \in TopKs, NEW experts \in Experts,
             NEW given, NEW c, NEW fits, NEW seq,
             DispatchCalled(b, h4, topk, experts, given, c, fits, seq)
      PROVE  FitInv'
  <2>1. PICK rings, g, B : rings = "dispatch" /\ g = <<h4, topk>> /\ B = buffers[b]
    OBVIOUS
  <2>2. Called(b, "dispatch", rings, TRUE, given, g, c, fits, seq, seq)
    BY <1>4, <2>1 DEF DispatchCalled
  <2>3. /\ B.ranks \in Groups /\ c.num_sms \in Nat /\ c.nvl_recv \in Nat
    <3>1. B.ranks \in Groups /\ SmsOf(b) \in Nat
      BY <2>1, <2>2, CalledConfig
    <3>2. GivenRow(c, SmsOf(b), Slots(buffers[b].ranks))
      BY <2>2, CalledConfig
    <3> QED BY <3>1, <3>2 DEF GivenRow
  <2>4. B.alive /\ B.nvl \in Int
    BY <2>1, <2>2 DEF Called, SizeInv, BufferSize, SizedAt
  <2>5. ASSUME fits, Internode(B.ranks) PROVE CombineEnd(c, B.ranks, h4, topk) <= B.nvl
    <3>1. DispatchFits(c, B.ranks, h4, topk, experts, B.nvl, B.rdma)
      BY <1>4, <2>1, <2>5 DEF DispatchCalled
    <3> QED BY <1>0, <2>3, <2>4, <2>5, <3>1, GroupFacts, DispatchRoom
  <2>6. rings # "combine" /\ g[1] = h4 /\ g[2] = topk
    BY <2>1
  <2> QED BY <2>1, <2>2, <2>5, <2>6, CalledFits
<1>5. ASSUME NEW h \in handles, NEW h4, NEW op \in HandleOps, NEW given, NEW c, NEW fits, NEW to,
             given \in GivenFor(RingsOf(op)), HandleCalled(h, h4, op, given, c, fits, to)
      PROVE  FitInv'
  <2>1. PICK rings, g, forward, b, next, B :
          /\ rings = RingsOf(op) /\ g = <<h4, h.geometry[2]>> /\ forward = (op = "combine")
          /\ b = h.buffer /\ B = buffers[b] /\ next = B.next_seq
    OBVIOUS
  <2>2. Called(b, op, rings, forward, given, g, c, fits, h.seq, next)
    BY <1>5, <2>1 DEF HandleCalled
  <2>3. b \in BufferIds /\ B.alive /\ rings \in Rings /\ given \in GivenFor(rings)
    BY <1>5, <2>1, <2>2 DEF Called
  <2>4. g[1] = h4 /\ g[2] = h.geometry[2]
    BY <2>1
  <2>5. ASSUME fits, ~Internode(B.ranks), rings = "combine"
        PROVE  CombineEnd(c, B.ranks, g[1], g[2]) <= B.nvl
    <3>1. op # "dispatch_grads"
      BY <2>1, <2>5 DEF RingsOf
    <3>2. HandleFits(op, c, h, h4, B)
      BY <1>5, <2>1, <2>5 DEF HandleCalled
    <3> QED BY <2>4, <2>5, <3>1, <3>2 DEF HandleFits, CombineFits
  <2>6. ASSUME Internode(B.ranks), B.geometry = Unset \/ B.geometry = g
        PROVE  CombineEnd(c, B.ranks, g[1], g[2]) <= B.nvl
    <3>1. PICK K : K \in B.launched
      BY <2>1 DEF SizeInv, HandleSize
    <3>2. /\ K.config.num_sms = SmsOf(b) /\ K.config.nvl_recv = Slots(B.ranks)
          /\ K.geometry = B.geometry /\ K.geometry # Unset
      BY <2>1, <2>3, <3>1, LaunchedSlots
    <3>3. CombineEnd(K.config, B.ranks, K.geometry[1], K.geometry[2]) <= B.nvl
      BY <2>1, <2>3, <2>6, <3>1 DEF FitInv, Fitted
    <3>4. c.num_sms = SmsOf(b) /\ c.nvl_recv = Slots(B.ranks)
      <4>1. given # "narrow"
        BY <2>3 DEF NoNarrow, GivenFor
      <4> QED BY <2>1, <2>2, <4>1, CalledConfig DEF GivenRow
    <3> QED BY <2>6, <3>2, <3>3, <3>4, SameEnds
  <2> QED BY <2>1, <2>2, <2>5, <2>6, CalledFits
<1> QED BY <1>1, <1>2, <1>3, <1>4, <1>5, StepShape

(* The launches of a Buffer compute the same boundary between the dispatch and
   the combine rings, and the combine rings end within the allocation, for all
   groups, widths and top-ks, and whatever else the process does; provided
   that no caller's own config changes the number of NVL slots. *)
THEOREM RegionsStayDisjoint ==
  ASSUME ~LateSetNumSms, NoNarrow
  PROVE  Spec => []RegionsDisjoint
<1>1. Init => FitInv
  <2>1. Init => \A b \in BufferIds : ~buffers[b].alive
    BY DEF Init, NoBuffer
  <2> QED BY <2>1 DEF FitInv
<1>2. HostInv /\ TypeInv /\ SizeInv /\ FitInv /\ [Next]_vars => FitInv'
  BY FitsInductive
<1>3. HostInv /\ TypeInv /\ SizeInv /\ FitInv => RegionsDisjoint
  <2> SUFFICES ASSUME HostInv, TypeInv, SizeInv, FitInv, NEW b \in Live,
                      NEW d \in buffers[b].launched, NEW c \in buffers[b].launched,
                      c.rings = "combine"
               PROVE  LET ranks == buffers[b].ranks IN
                      /\ DispatchEnd(d.config, ranks, d.geometry[1], d.geometry[2])
                           <= CombineStart(c.config, ranks, c.geometry[1], c.geometry[2])
                      /\ CombineEnd(c.config, ranks, c.geometry[1], c.geometry[2])
                           <= buffers[b].nvl
    BY DEF RegionsDisjoint
  <2>1. b \in BufferIds /\ buffers[b].alive
    BY DEF Live
  <2>2. PICK ranks, n : ranks = buffers[b].ranks /\ n = SmsOf(b)
    OBVIOUS
  <2>3. /\ d.config.num_sms = n /\ d.config.nvl_recv = Slots(ranks)
        /\ c.config.num_sms = n /\ c.config.nvl_recv = Slots(ranks)
        /\ d.geometry = c.geometry /\ c.geometry \in Widths \X TopKs
    BY <2>1, <2>2, LaunchedSlots
  <2>4. PICK h4, topk : h4 = c.geometry[1] /\ topk = c.geometry[2]
    OBVIOUS
  <2>5. DispatchEnd(d.config, ranks, h4, topk) = CombineStart(c.config, ranks, h4, topk)
    BY <2>3, SameEnds DEF CombineStart
  <2>6. CombineStart(c.config, ranks, h4, topk) \in Int
    <3>1. ranks \in TableRanks /\ ranks \in Nat /\ n \in Nat /\ Slots(ranks) \in Nat
      BY <2>1, <2>2, GroupFacts DEF TypeInv, BufferType, SmsOf, Sms
    <3>2. h4 \in Nat /\ topk \in Nat
      <4>1. h4 \in Widths /\ topk \in TopKs
        BY <2>3, <2>4
      <4> QED BY <4>1, BufferAssumption
    <3>3. RdmaRanks(ranks) \in Nat /\ Channels(c.config) \in Nat
      BY <2>3, <3>1, RanksFacts DEF Channels
    <3>4. BytesPerToken(h4, topk, topk) \in Int
      BY <3>2 DEF BytesPerToken, CeilTo
    <3>5. DispatchNvlBytes(c.config, ranks, h4, topk) \in Int
      BY <2>3, <3>1, <3>3, <3>4 DEF DispatchNvlBytes, NvlPeers
    <3>6. IntranodeDispatchBytes(c.config, ranks, h4, topk) \in Int
      BY <2>3, <3>1, <3>2, <3>3 DEF IntranodeDispatchBytes, TopkIdxBytes, CeilTo
    <3> QED BY <3>5, <3>6 DEF CombineStart, DispatchEnd
  <2>7. DispatchEnd(d.config, ranks, h4, topk) <= CombineStart(c.config, ranks, h4, topk)
    BY <2>5, <2>6
  <2>8. CombineEnd(c.config, ranks, h4, topk) <= buffers[b].nvl
    BY <2>1, <2>2, <2>4 DEF FitInv, Fitted
  <2> QED BY <2>2, <2>3, <2>4, <2>7, <2>8
<1> QED BY <1>1, <1>2, <1>3, HostInvHolds, TypesHold, SizesHold, PTL DEF Spec

-----------------------------------------------------------------------------
(***************************************************************************)
(* Sizes.  The hints take 128 entries per token where the kernels accept   *)
(* at most 32: that margin pays for what the hints leave out, the metadata *)
(* of the RDMA rings and the rank tables of the intranode slab.            *)
(***************************************************************************)
LEMMA CeilBounds ==
  ASSUME NEW x \in Nat
  PROVE  /\ CeilTo(x, 16) \in Nat /\ x <= CeilTo(x, 16) /\ CeilTo(x, 16) <= x + 15
         /\ CeilTo(x, 128) \in Nat /\ x <= CeilTo(x, 128) /\ CeilTo(x, 128) <= x + 127
BY DEF CeilTo

LEMMA TokenBytes ==
  ASSUME NEW h4 \in Nat, NEW idx \in Nat, NEW weights \in Nat
  PROVE  /\ BytesPerToken(h4, idx, weights) \in Nat
         /\ 16 * h4 + 8 + 4 * idx + 4 * weights <= BytesPerToken(h4, idx, weights)
         /\ BytesPerToken(h4, idx, weights) <= 16 * h4 + 23 + 4 * idx + 4 * weights
<1>1. 16 * h4 + 8 + 4 * idx + 4 * weights \in Nat
  OBVIOUS
<1> QED BY <1>1, CeilBounds DEF BytesPerToken

LEMMA Product ==
  ASSUME NEW a \in Nat, NEW b \in Nat, NEW c \in Nat
  PROVE  /\ a * b \in Nat
         /\ a <= b => c * a <= c * b
         /\ a * (b + c) = a * b + a * c
OBVIOUS

(* Ring bytes of two regions grow with the slots and the bytes per slot. *)
LEMMA RingBytes ==
  ASSUME NEW k \in Nat, NEW q \in Nat, NEW Q \in Nat, NEW b \in Nat, NEW B \in Nat, NEW x \in Nat,
         q <= Q, b <= B
  PROVE  /\ k * (q * b + x) \in Nat /\ k * (q * b + x) <= k * (Q * B + x)
<1>1. q * b \in Nat /\ Q * b \in Nat /\ Q * B \in Nat
  BY Product
<1>2. q * b <= Q * b
  <2>1. b * q <= b * Q
    BY Product
  <2> QED BY <2>1
<1>3. Q * b <= Q * B
  BY Product
<1>4. q * b + x <= Q * B + x /\ q * b + x \in Nat /\ Q * B + x \in Nat
  BY <1>1, <1>2, <1>3
<1>5. PICK u, v \in Nat : u = q * b + x /\ v = Q * B + x
  BY <1>4
<1>6. k * u \in Nat /\ k * u <= k * v
  BY <1>4, <1>5, Product
<1> QED BY <1>5, <1>6

LEMMA RdmaRoom ==
  ASSUME NEW R \in Nat, NEW ch \in Nat, NEW e \in Nat, NEW Q \in Nat,
         NEW b \in Nat, NEW B \in Nat, ch >= 1, e <= 64, Q >= 128, B >= b + 700
  PROVE  2 * R * ch * (Q * b + 8) + 2 * R * 4 * ((8 + e * 8 + 1) + ch * 8 * e)
           <= 2 * R * ch * (Q * B + 8)
<1>1. PICK T, Re, Te \in Nat : T = R * ch /\ Re = R * e /\ Te = T * e
  BY Product
<1>2. R <= T /\ Re <= 64 * R /\ Te <= 64 * T
  <2>1. R * 1 <= R * ch /\ R * e <= R * 64 /\ T * e <= T * 64
    BY Product
  <2> QED BY <1>1, <2>1
<1>3. PICK x, X \in Nat : x = Q * b + 8 /\ X = Q * B + 8
  BY Product
<1>4. X >= x + 89600
  <2>1. Q * (b + 700) <= Q * B
    BY Product
  <2>2. Q * (b + 700) = Q * b + Q * 700
    BY Product
  <2>3. Q * b \in Nat /\ Q * B \in Nat
    BY Product
  <2> QED BY <1>3, <2>1, <2>2, <2>3
<1>5. PICK Tx, TX \in Nat : Tx = T * x /\ TX = T * X
  BY Product
<1>6. TX >= Tx + 89600 * T
  <2>1. T * (x + 89600) <= T * X
    BY <1>4, Product
  <2>2. T * (x + 89600) = T * x + T * 89600
    BY Product
  <2> QED BY <1>5, <2>1, <2>2
<1>7. 2 * R * 4 * ((8 + e * 8 + 1) + ch * 8 * e) = 72 * R + 64 * Re + 64 * Te
  <2>1. Te = R * ch * e
    BY <1>1
  <2> QED BY <1>1, <2>1
<1>8. 2 * R * ch * x = 2 * Tx /\ 2 * R * ch * X = 2 * TX
  BY <1>1, <1>5
<1>9. 2 * Tx + (72 * R + 64 * Re + 64 * Te) <= 2 * TX
  BY <1>2, <1>6
<1> QED BY <1>3, <1>7, <1>8, <1>9

LEMMA MetadataGrows ==
  ASSUME NEW ranks \in TableRanks, NEW c, c.num_sms \in Nat, NEW e \in Nat, e <= 64
  PROVE  /\ MetadataNvlBytes(c, ranks, e) \in Nat
         /\ MetadataNvlBytes(c, ranks, 64) \in Nat
         /\ MetadataNvlBytes(c, ranks, e) <= MetadataNvlBytes(c, ranks, 64)
<1>1. PICK R, ch \in Nat : R = RdmaRanks(ranks) /\ ch = Channels(c)
  BY RanksFacts DEF Channels
<1>2. PICK T \in Nat : T = R * ch
  BY Product
<1>3. T * e \in Nat /\ T * 64 \in Nat /\ T * e <= T * 64
  BY Product
<1> QED BY <1>1, <1>2, <1>3 DEF MetadataNvlBytes, NvlPeers

(* A launch is no larger than the Buffer: r is a recommended config at n SMs,
   c the config of the call, s the width the Buffer is sized for. *)
Smaller(c, r, n, h4, s, topk) ==
  /\ n \in Nat /\ n >= 2
  /\ c.num_sms = n /\ r.num_sms = n
  /\ c.nvl_recv \in Nat /\ r.nvl_recv \in Nat /\ c.nvl_recv <= r.nvl_recv
  /\ c.rdma_recv = r.rdma_recv /\ r.rdma_recv \in Nat /\ r.rdma_recv >= 128
  /\ h4 \in Nat /\ s \in Nat /\ h4 <= s
  /\ topk \in Nat /\ topk <= 32

LEMMA SmallerTokens ==
  ASSUME NEW h4 \in Nat, NEW s \in Nat, h4 <= s, NEW topk \in Nat, topk <= 32
  PROVE  /\ BytesPerToken(h4, topk, topk) \in Nat /\ BytesPerToken(s, 128, 128) \in Nat
         /\ BytesPerToken(h4, 0, topk) \in Nat /\ BytesPerToken(s, 0, 128) \in Nat
         /\ BytesPerToken(h4, topk, topk) + 700 <= BytesPerToken(s, 128, 128)
         /\ BytesPerToken(h4, 0, topk) <= BytesPerToken(s, 0, 128)
         /\ 16 * s + 1032 <= BytesPerToken(s, 128, 128)
         /\ 16 * s + 520 <= BytesPerToken(s, 0, 128)
<1>1. /\ BytesPerToken(h4, topk, topk) \in Nat /\ BytesPerToken(s, 128, 128) \in Nat
      /\ BytesPerToken(h4, topk, topk) <= 16 * h4 + 23 + 4 * topk + 4 * topk
      /\ 16 * s + 8 + 4 * 128 + 4 * 128 <= BytesPerToken(s, 128, 128)
  BY TokenBytes
<1>2. /\ BytesPerToken(h4, 0, topk) \in Nat /\ BytesPerToken(s, 0, 128) \in Nat
      /\ BytesPerToken(h4, 0, topk) <= 16 * h4 + 23 + 4 * 0 + 4 * topk
      /\ 16 * s + 8 + 4 * 0 + 4 * 128 <= BytesPerToken(s, 0, 128)
  BY TokenBytes
<1> QED BY <1>1, <1>2

LEMMA SmallerWidths ==
  ASSUME NEW c, NEW r, NEW n, NEW h4, NEW s, NEW topk, Smaller(c, r, n, h4, s, topk)
  PROVE  /\ BytesPerToken(h4, topk, topk) \in Nat /\ BytesPerToken(s, 128, 128) \in Nat
         /\ BytesPerToken(h4, 0, topk) \in Nat /\ BytesPerToken(s, 0, 128) \in Nat
         /\ BytesPerToken(h4, topk, topk) + 700 <= BytesPerToken(s, 128, 128)
         /\ BytesPerToken(h4, topk, topk) <= BytesPerToken(s, 128, 128)
         /\ BytesPerToken(h4, 0, topk) <= BytesPerToken(s, 0, 128)
         /\ 16 * s + 1032 <= BytesPerToken(s, 128, 128)
         /\ 16 * s + 520 <= BytesPerToken(s, 0, 128)
<1>1. h4 \in Nat /\ s \in Nat /\ h4 <= s /\ topk \in Nat /\ topk <= 32
  BY DEF Smaller
<1>2. PICK v, V \in Nat : v = BytesPerToken(h4, topk, topk) /\ V = BytesPerToken(s, 128, 128)
  BY <1>1, SmallerTokens
<1>3. v + 700 <= V
  BY <1>1, <1>2, SmallerTokens
<1>4. v <= V
  BY <1>3
<1> QED BY <1>1, <1>2, <1>3, <1>4, SmallerTokens

LEMMA InternodeNvl ==
  ASSUME NEW ranks \in TableRanks, Internode(ranks), NEW c, NEW r, NEW n, NEW h4, NEW s, NEW topk,
         Smaller(c, r, n, h4, s, topk), NEW experts \in Nat, experts <= 64, NEW nvl \in Int,
         NvlHint(r, ranks, s) <= nvl
  PROVE  DispatchNvlBytes(c, ranks, h4, topk) + CombineNvlBytes(c, ranks, h4, topk)
           + MetadataNvlBytes(c, ranks, experts) <= nvl
<1>0. /\ c.num_sms \in Nat /\ c.num_sms = r.num_sms
      /\ c.nvl_recv \in Nat /\ r.nvl_recv \in Nat /\ c.nvl_recv <= r.nvl_recv
  BY DEF Smaller
<1>1. PICK R, ch \in Nat : R = RdmaRanks(ranks) /\ ch = Channels(c) /\ ch = Channels(r)
  BY <1>0, RanksFacts DEF Channels
<1>2. PICK b1, B1, b2, B2 \in Nat :
        /\ b1 = BytesPerToken(h4, topk, topk) /\ B1 = BytesPerToken(s, 128, 128)
        /\ b2 = BytesPerToken(h4, 0, topk) /\ B2 = BytesPerToken(s, 0, 128)
        /\ b1 <= B1 /\ b2 <= B2
  BY SmallerWidths
<1>3. PICK k \in Nat : k = 8 * ch
  OBVIOUS
<1>4. PICK d, D \in Nat : /\ d = DispatchNvlBytes(c, ranks, h4, topk)
                          /\ D = DispatchNvlBytes(r, ranks, s, 128) /\ d <= D
  <2>1. PICK x \in Nat : x = 2 * R * 8 + 2 * 8
    OBVIOUS
  <2>2. /\ k * (c.nvl_recv * b1 + x) \in Nat /\ k * (r.nvl_recv * B1 + x) \in Nat
        /\ k * (c.nvl_recv * b1 + x) <= k * (r.nvl_recv * B1 + x)
    BY <1>0, <1>2, RingBytes
  <2>3. /\ DispatchNvlBytes(c, ranks, h4, topk) = k * (c.nvl_recv * b1 + x)
        /\ DispatchNvlBytes(r, ranks, s, 128) = k * (r.nvl_recv * B1 + x)
    <3>1. c.nvl_recv * b1 \in Nat /\ r.nvl_recv * B1 \in Nat
      BY <1>0, Product
    <3> QED BY <1>1, <1>2, <1>3, <2>1, <3>1 DEF DispatchNvlBytes, NvlPeers
  <2> QED BY <2>2, <2>3
<1>5. PICK e, E \in Nat : /\ e = CombineNvlBytes(c, ranks, h4, topk)
                          /\ E = CombineNvlBytes(r, ranks, s, 128) /\ e <= E
  <2>1. PICK x \in Nat : x = 2 * R * 8
    OBVIOUS
  <2>2. /\ k * (c.nvl_recv * b2 + x) \in Nat /\ k * (r.nvl_recv * B2 + x) \in Nat
        /\ k * (c.nvl_recv * b2 + x) <= k * (r.nvl_recv * B2 + x)
    BY <1>0, <1>2, RingBytes
  <2>3. /\ CombineNvlBytes(c, ranks, h4, topk) = k * (c.nvl_recv * b2 + x)
        /\ CombineNvlBytes(r, ranks, s, 128) = k * (r.nvl_recv * B2 + x)
    BY <1>1, <1>2, <1>3, <2>1 DEF CombineNvlBytes, NvlPeers
  <2> QED BY <2>2, <2>3
<1>6. PICK m, M \in Nat : /\ m = MetadataNvlBytes(c, ranks, experts)
                          /\ M = MetadataNvlBytes(r, ranks, 64) /\ m <= M
  <2>1. MetadataNvlBytes(c, ranks, 64) = MetadataNvlBytes(r, ranks, 64)
    BY <1>1 DEF MetadataNvlBytes
  <2> QED BY <1>0, <2>1, MetadataGrows
<1>7. ranks > NvlPeers
  BY RanksFacts DEF NvlPeers
<1>8. NvlHint(r, ranks, s) = CeilTo(D + E + M, 128)
  BY <1>4, <1>5, <1>6, <1>7 DEF NvlHint, MaxTopKHint, MaxLocalExperts
<1>9. PICK x \in Nat : x = D + E + M
  OBVIOUS
<1>10. x <= CeilTo(x, 128) /\ CeilTo(x, 128) \in Nat
  BY CeilBounds
<1> QED BY <1>4, <1>5, <1>6, <1>8, <1>9, <1>10

LEMMA InternodeRdma ==
  ASSUME NEW ranks \in TableRanks, Internode(ranks), NEW c, NEW r, NEW n, NEW h4, NEW s, NEW topk,
         Smaller(c, r, n, h4, s, topk), NEW experts \in Nat, experts <= 64, NEW rdma \in Int,
         RdmaHint(r, ranks, s) <= rdma
  PROVE  DispatchRdmaBytes(c, ranks, h4, topk) + CombineRdmaBytes(c, ranks, h4, topk)
           + MetadataRdmaBytes(c, ranks, experts) <= rdma
<1>0. /\ c.num_sms \in Nat /\ c.num_sms >= 2 /\ c.num_sms = r.num_sms
      /\ c.rdma_recv = r.rdma_recv /\ r.rdma_recv \in Nat /\ r.rdma_recv >= 128
  BY DEF Smaller
<1>1. PICK R, ch \in Nat : R = RdmaRanks(ranks) /\ ch = Channels(c) /\ ch = Channels(r) /\ ch >= 1
  BY <1>0, RanksFacts DEF Channels
<1>2. PICK b1, B1, b2, B2, Q \in Nat :
        /\ b1 = BytesPerToken(h4, topk, topk) /\ B1 = BytesPerToken(s, 128, 128)
        /\ b2 = BytesPerToken(h4, 0, topk) /\ B2 = BytesPerToken(s, 0, 128)
        /\ b1 + 700 <= B1 /\ b2 <= B2 /\ Q = c.rdma_recv /\ Q = r.rdma_recv /\ Q >= 128
  BY <1>0, SmallerWidths
<1>3. PICK k \in Nat : k = 2 * R * ch
  <2>1. 2 * R * ch \in Nat
    BY Product
  <2> QED BY <2>1
<1>4. PICK d, D, e, E \in Nat :
        /\ d = DispatchRdmaBytes(c, ranks, h4, topk) /\ d = k * (Q * b1 + 8)
        /\ D = DispatchRdmaBytes(r, ranks, s, 128) /\ D = k * (Q * B1 + 8)
        /\ e = CombineRdmaBytes(c, ranks, h4, topk) /\ e = k * (Q * b2 + 8)
        /\ E = CombineRdmaBytes(r, ranks, s, 128) /\ E = k * (Q * B2 + 8)
        /\ e <= E
  <2>1. /\ k * (Q * b1 + 8) \in Nat /\ k * (Q * B1 + 8) \in Nat
        /\ k * (Q * b2 + 8) \in Nat /\ k * (Q * B2 + 8) \in Nat
        /\ k * (Q * b2 + 8) <= k * (Q * B2 + 8)
    BY <1>2, RingBytes
  <2> QED BY <1>1, <1>2, <1>3, <2>1 DEF DispatchRdmaBytes, CombineRdmaBytes
<1>5. PICK m : m = MetadataRdmaBytes(c, ranks, experts)
  OBVIOUS
<1>6. m \in Nat /\ d + m <= D
  <2>1. m = 2 * R * 4 * ((8 + experts * 8 + 1) + ch * 8 * experts)
    BY <1>1, <1>5 DEF MetadataRdmaBytes, NvlPeers
  <2>2. m \in Nat
    <3>1. ch * 8 * experts \in Nat
      BY Product
    <3>2. PICK x \in Nat : x = (8 + experts * 8 + 1) + ch * 8 * experts
      BY <3>1
    <3>3. 2 * R * 4 * x \in Nat
      BY Product
    <3> QED BY <2>1, <3>2, <3>3
  <2>3. 2 * R * ch * (Q * b1 + 8) + 2 * R * 4 * ((8 + experts * 8 + 1) + ch * 8 * experts)
          <= 2 * R * ch * (Q * B1 + 8)
    BY <1>1, <1>2, RdmaRoom
  <2>4. d + m <= D
    BY <1>3, <1>4, <2>1, <2>3
  <2> QED BY <2>2, <2>4
<1>7. RdmaHint(r, ranks, s) = CeilTo(D + E, 128)
  <2>1. ~(ranks <= NvlPeers)
    BY RanksFacts DEF NvlPeers, TableRanks
  <2> QED BY <1>4, <2>1 DEF RdmaHint, MaxTopKHint
<1>8. PICK x \in Nat : x = D + E
  OBVIOUS
<1>9. x <= CeilTo(x, 128) /\ CeilTo(x, 128) \in Nat
  BY CeilBounds
<1> QED BY <1>4, <1>5, <1>6, <1>7, <1>8, <1>9

(* The rings of a launch take less than the same rings of the hint. *)
LEMMA RingRoom ==
  ASSUME NEW rings \in Nat, NEW T \in Nat, NEW p \in Nat, NEW q \in Nat, NEW w \in Nat, NEW W \in Nat,
         rings <= T, p <= q, q >= 256, w + 4 <= W
  PROVE  rings * p * w \in Nat /\ rings * p * w + 1000 * T <= T * (q * W)
<1>1. PICK u, v, z \in Nat : u = p * w /\ v = q * w /\ z = q * W
  BY Product
<1>2. u <= v
  <2>1. w * p <= w * q
    BY Product
  <2> QED BY <1>1, <2>1
<1>3. v + 1000 <= z
  <2>1. q * (w + 4) <= q * W
    BY Product
  <2>2. q * (w + 4) = q * w + q * 4
    BY Product
  <2> QED BY <1>1, <2>1, <2>2
<1>4. u + 1000 <= z
  BY <1>2, <1>3
<1>5. T * (u + 1000) <= T * z /\ T * (u + 1000) = T * u + T * 1000
  BY <1>4, Product
<1>6. u * rings <= u * T
  BY Product
<1>7. rings * p * w = u * rings
  BY <1>1
<1>8. PICK a, A, Z \in Nat : a = u * rings /\ A = T * u /\ Z = T * z
  BY Product
<1>9. a <= A
  BY <1>6, <1>8
<1>10. A + T * 1000 <= Z
  BY <1>5, <1>8
<1> QED BY <1>1, <1>7, <1>8, <1>9, <1>10

LEMMA IntranodeNvl ==
  ASSUME NEW ranks \in TableRanks, ~Internode(ranks), NEW c, NEW r, NEW n, NEW h4, NEW s, NEW topk,
         Smaller(c, r, n, h4, s, topk), r.nvl_recv >= 256, NEW experts, NEW nvl \in Int, NEW rdma,
         NvlHint(r, ranks, s) <= nvl
  PROVE  /\ DispatchFits(c, ranks, h4, topk, experts, nvl, rdma)
         /\ DispatchGradsFits(c, ranks, nvl)
         /\ CombineFits(c, ranks, h4, topk, nvl)
<1>0. /\ c.num_sms \in Nat /\ c.num_sms >= 2 /\ c.num_sms = r.num_sms
      /\ c.nvl_recv \in Nat /\ r.nvl_recv \in Nat /\ c.nvl_recv <= r.nvl_recv
      /\ h4 \in Nat /\ s \in Nat /\ h4 <= s /\ topk \in Nat /\ topk <= 32
  BY DEF Smaller
<1>1. PICK ch \in Nat : ch = Channels(c) /\ ch = Channels(r) /\ ch >= 1
  BY <1>0 DEF Channels
<1>2. ranks \in {2, 4, 8} /\ RdmaRanks(ranks) = 1
  BY RanksFacts
<1>3. PICK T, rings, square \in Nat :
        /\ T = 8 * ch /\ rings = ch * ranks /\ square = ranks * ranks
        /\ rings <= T /\ square <= 64
  BY <1>2
<1>4. PICK p, q \in Nat : p = c.nvl_recv /\ q = r.nvl_recv /\ p <= q /\ q >= 256
  BY <1>0
<1>5. PICK w1, w2 \in Nat : w1 = 16 * h4 + 4 + topk * (8 + 4) /\ w2 = 16 * h4 + 4 + topk * 4
  BY <1>0
<1>6. PICK B1, B2 \in Nat : /\ B1 = BytesPerToken(s, 128, 128) /\ B2 = BytesPerToken(s, 0, 128)
                            /\ w1 + 4 <= B1 /\ w2 + 4 <= B2
  <2>1. PICK V1, V2 \in Nat : /\ V1 = BytesPerToken(s, 128, 128) /\ V2 = BytesPerToken(s, 0, 128)
                              /\ 16 * s + 1032 <= V1 /\ 16 * s + 520 <= V2
    BY SmallerWidths
  <2>2. w1 + 4 <= V1 /\ w2 + 4 <= V2
    BY <1>0, <1>5, <2>1
  <2> QED BY <2>1, <2>2
<1>7. PICK u1, u2, X1, X2 \in Nat :
        /\ u1 = rings * p * w1 /\ u2 = rings * p * w2 /\ X1 = T * (q * B1) /\ X2 = T * (q * B2)
        /\ u1 + 1000 * T <= X1 /\ u2 + 1000 * T <= X2
  <2>1. q * B1 \in Nat /\ q * B2 \in Nat
    BY Product
  <2>2. T * (q * B1) \in Nat /\ T * (q * B2) \in Nat
    BY <2>1, Product
  <2>3. rings * p * w1 \in Nat /\ rings * p * w1 + 1000 * T <= T * (q * B1)
    BY <1>3, <1>4, <1>6, RingRoom
  <2>4. rings * p * w2 \in Nat /\ rings * p * w2 + 1000 * T <= T * (q * B2)
    BY <1>3, <1>4, <1>6, RingRoom
  <2> QED BY <2>2, <2>3, <2>4
<1>8. NvlHint(r, ranks, s) = CeilTo((X1 + 32 * T) + (X2 + 16 * T), 128)
  <2>1. DispatchNvlBytes(r, ranks, s, 128) = X1 + 32 * T
    <3>1. PICK y \in Nat : y = q * B1
      BY Product
    <3>2. T * (y + 32) = T * y + T * 32
      BY Product
    <3>3. DispatchNvlBytes(r, ranks, s, 128) = T * (y + 32)
      BY <1>1, <1>2, <1>3, <1>4, <1>6, <3>1 DEF DispatchNvlBytes, NvlPeers
    <3> QED BY <1>7, <3>1, <3>2, <3>3
  <2>2. CombineNvlBytes(r, ranks, s, 128) = X2 + 16 * T
    <3>1. PICK y \in Nat : y = q * B2
      BY Product
    <3>2. T * (y + 16) = T * y + T * 16
      BY Product
    <3>3. CombineNvlBytes(r, ranks, s, 128) = T * (y + 16)
      BY <1>1, <1>2, <1>3, <1>4, <1>6, <3>1 DEF CombineNvlBytes, NvlPeers
    <3> QED BY <1>7, <3>1, <3>2, <3>3
  <2> QED BY <1>2, <2>1, <2>2 DEF NvlHint, MaxTopKHint, NvlPeers
<1>9. PICK total \in Nat : total = (X1 + 32 * T) + (X2 + 16 * T)
  OBVIOUS
<1>10. total <= nvl
  BY <1>8, <1>9, CeilBounds
<1>11. u1 + u2 + 2048 * T <= nvl
  BY <1>7, <1>9, <1>10
<1>12. T >= 8
  BY <1>1, <1>3
<1>13. DispatchGradsFits(c, ranks, nvl)
  <2>1. 4 * Channels(c) * ranks * 8 = 32 * rings
    BY <1>1, <1>2, <1>3
  <2> QED BY <1>3, <1>11, <1>12, <2>1 DEF DispatchGradsFits
<1>14. DispatchFits(c, ranks, h4, topk, experts, nvl, rdma)
  <2>1. square * 4 + 4 * rings * 8 <= nvl /\ square * 4 + 4 * rings * 4 + u1 <= nvl
    BY <1>3, <1>11, <1>12
  <2> QED BY <1>1, <1>3, <1>4, <1>5, <1>7, <2>1 DEF DispatchFits, TopkIdxBytes
<1>15. CombineFits(c, ranks, h4, topk, nvl)
  <2>1. PICK x1, x2 \in Nat : x1 = square * 4 + 4 * rings * 8 + u1 /\ x2 = 2 * rings * 8 + u2
    OBVIOUS
  <2>2. CombineEnd(c, ranks, h4, topk) = CeilTo(x1, 128) + CeilTo(x2, 128)
    <3>1. IntranodeDispatchBytes(c, ranks, h4, topk) = CeilTo(x1, 128)
      BY <1>1, <1>3, <1>4, <1>5, <1>7, <2>1 DEF IntranodeDispatchBytes, TopkIdxBytes
    <3>2. IntranodeCombineBytes(c, ranks, h4, topk) = CeilTo(x2, 128)
      BY <1>1, <1>3, <1>4, <1>5, <1>7, <2>1 DEF IntranodeCombineBytes
    <3> QED BY <3>1, <3>2 DEF CombineEnd, CombineStart, DispatchEnd
  <2>3. /\ CeilTo(x1, 128) \in Nat /\ CeilTo(x1, 128) <= x1 + 127
        /\ CeilTo(x2, 128) \in Nat /\ CeilTo(x2, 128) <= x2 + 127
    BY CeilBounds
  <2>4. x1 + x2 + 254 <= nvl
    BY <1>3, <1>11, <1>12, <2>1
  <2> QED BY <2>2, <2>3, <2>4 DEF CombineFits
<1> QED BY <1>13, <1>14, <1>15

(* The SM count is one a caller set, or one the automatic pick gives. *)
SmsInv == explicit => num_sms \in PinnedSms

LEMMA SmsInductive == HostInv /\ SmsInv /\ [Next]_vars => SmsInv'
<1> SUFFICES ASSUME HostInv, SmsInv, [Next]_vars PROVE SmsInv'
  OBVIOUS
<1>1. CASE UNCHANGED vars
  BY <1>1 DEF vars, SmsInv
<1>2. ASSUME NEW n \in PinnedSms, SetNumSms(n) PROVE SmsInv'
  BY <1>2 DEF SetNumSms, SmsInv
<1>3. ASSUME NEW b, NEW ranks, NEW h4, SizedFor(b, ranks, h4) PROVE SmsInv'
  BY <1>3 DEF SizedFor, Resolved, SmsInv
<1>4. ASSUME NEW b, Drop(b) PROVE SmsInv'
  BY <1>4 DEF Drop, SmsInv
<1>5. ASSUME NEW b, NEW op, NEW rings, NEW forward, NEW given, NEW g, NEW c,
             NEW fits, NEW seq, NEW next, Called(b, op, rings, forward, given, g, c, fits, seq, next)
      PROVE  SmsInv'
  BY <1>5 DEF Called, SmsOf, Sms, SmsInv
<1>6. ASSUME NEW b, NEW h4, NEW topk, NEW experts, NEW given, NEW c, NEW fits, NEW seq,
             DispatchCalled(b, h4, topk, experts, given, c, fits, seq)
      PROVE  SmsInv'
  <2>1. PICK op, rings, g : op = "dispatch" /\ rings = "dispatch" /\ g = <<h4, topk>>
    OBVIOUS
  <2>2. Called(b, op, rings, TRUE, given, g, c, fits, seq, seq)
    BY <1>6, <2>1 DEF DispatchCalled
  <2> QED BY <1>5, <2>2
<1>7. ASSUME NEW h, NEW h4, NEW op, NEW given, NEW c, NEW fits, NEW to,
             HandleCalled(h, h4, op, given, c, fits, to)
      PROVE  SmsInv'
  <2>1. PICK b, rings, forward, g, seq, next : Called(b, op, rings, forward, given, g, c, fits, seq, next)
    BY <1>7 DEF HandleCalled
  <2> QED BY <1>5, <2>1
<1> QED BY <1>1, <1>2, <1>3, <1>4, <1>6, <1>7, StepShape

LEMMA SmsAtLeastTwo ==
  ASSUME 0 \notin PinnedSms, SmsInv, NEW b
  PROVE  SmsOf(b) \in Nat /\ SmsOf(b) >= 2
<1>1. \A n \in PinnedSms : n \in Nat /\ n >= 2
  BY BufferAssumption
<1>2. \A ranks : AutoPick(ranks) \in Nat /\ AutoPick(ranks) >= 2
  BY DEF AutoPick
<1> QED BY <1>1, <1>2 DEF SmsInv, SmsOf, Sms

(* A call that is no wider than its Buffer passes the host's checks. *)
LEMMA CalledSmaller ==
  ASSUME 0 \notin PinnedSms, HostInv, TypeInv, SizeInv, SmsInv, NEW b, NEW op, NEW rings,
         NEW forward, NEW given, NEW g, NEW c, NEW fits, NEW seq, NEW next,
         Called(b, op, rings, forward, given, g, c, fits, seq, next),
         NEW h4 \in Nat, h4 <= buffers[b].sized, NEW topk \in TopKs
  PROVE  LET ranks == buffers[b].ranks
             r == Table(rings, ranks, SmsOf(b))
         IN  /\ ranks \in TableRanks /\ Channels(c) = SmsOf(b) \div 2
             /\ r.nvl_recv >= 256
             /\ Smaller(c, r, SmsOf(b), h4, buffers[b].sized, topk)
             /\ NvlHint(r, ranks, buffers[b].sized) <= buffers[b].nvl
             /\ RdmaHint(r, ranks, buffers[b].sized) <= buffers[b].rdma
             /\ buffers[b].nvl \in Int /\ buffers[b].rdma \in Int
<1>1. PICK B, n, ranks, r : /\ B = buffers[b] /\ n = SmsOf(b) /\ ranks = B.ranks
                            /\ r = Table(rings, ranks, n)
  OBVIOUS
<1>2. /\ ranks \in Groups /\ TableRow(r, n, Slots(ranks)) /\ GivenRow(c, n, Slots(ranks))
      /\ c.rdma_recv = r.rdma_recv
  BY <1>1, CalledConfig
<1>3. ranks \in TableRanks
  BY <1>2, GroupFacts
<1>4. Slots(ranks) \in Nat /\ Slots(ranks) >= 256
  BY <1>3 DEF TableRanks, Slots
<1>5. n \in Nat /\ n >= 2
  BY <1>1, SmsAtLeastTwo
<1>6. b \in BufferIds /\ B.alive /\ rings \in Rings
  BY <1>1 DEF Called
<1>7. B.sized \in Nat
  BY <1>1, <1>6, BufferAssumption DEF TypeInv, BufferType
<1>8. topk \in Nat /\ topk <= 32
  BY BufferAssumption DEF MaxTopK
<1>9. Smaller(c, r, n, h4, B.sized, topk)
  BY <1>1, <1>2, <1>4, <1>5, <1>7, <1>8 DEF Smaller, TableRow, GivenRow
<1>10. BufferSize(B, n)
  BY <1>1, <1>6 DEF SizeInv
<1>11. Channels(c) = n \div 2 /\ r.nvl_recv >= 256
  BY <1>2, <1>4 DEF Channels, GivenRow, TableRow
<1> QED BY <1>1, <1>3, <1>6, <1>9, <1>10, <1>11 DEF BufferSize, SizedAt

LEMMA DispatchServed ==
  ASSUME 0 \notin PinnedSms, HostInv, TypeInv, SizeInv, SmsInv,
         NEW b, NEW h4 \in Nat, h4 <= buffers[b].sized,
         NEW topk \in TopKs, NEW experts \in Experts, NEW given, NEW c, NEW fits, NEW seq,
         DispatchCalled(b, h4, topk, experts, given, c, fits, seq)
  PROVE  fits
<1>1. PICK op, rings, forward, g, B, n, ranks, r :
        /\ op = "dispatch" /\ forward = TRUE /\ rings = "dispatch" /\ g = <<h4, topk>> /\ B = buffers[b] /\ n = SmsOf(b)
        /\ ranks = B.ranks /\ r = Table(rings, ranks, n)
  OBVIOUS
<1>2. Called(b, op, rings, forward, given, g, c, fits, seq, seq)
  BY <1>1 DEF DispatchCalled
<1>3. /\ ranks \in TableRanks /\ r.nvl_recv >= 256
      /\ Smaller(c, r, n, h4, B.sized, topk)
      /\ NvlHint(r, ranks, B.sized) <= B.nvl /\ RdmaHint(r, ranks, B.sized) <= B.rdma
      /\ B.nvl \in Int /\ B.rdma \in Int
  <2>1. B = buffers[b] /\ n = SmsOf(b) /\ ranks = B.ranks /\ r = Table(rings, ranks, n)
    BY <1>1
  <2> QED BY <1>2, <2>1, CalledSmaller
<1>4. experts \in Nat /\ experts <= 64
  BY BufferAssumption DEF MaxLocalExperts
<1>5. DispatchFits(c, ranks, h4, topk, experts, B.nvl, B.rdma)
  <2>1. CASE Internode(ranks)
    BY <1>3, <1>4, <2>1, InternodeNvl, InternodeRdma DEF DispatchFits
  <2>2. CASE ~Internode(ranks)
    BY <1>3, <2>2, IntranodeNvl
  <2> QED BY <2>1, <2>2
<1> QED BY <1>1, <1>5 DEF DispatchCalled

LEMMA HandleServed ==
  ASSUME 0 \notin PinnedSms, HostInv, TypeInv, SizeInv, SmsInv,
         NEW h \in handles, NEW h4 \in Nat, h4 <= buffers[h.buffer].sized,
         NEW op, NEW given, NEW c, NEW fits, NEW to, HandleCalled(h, h4, op, given, c, fits, to)
  PROVE  fits
<1>1. PICK rings, g, forward, b, next, topk, B, n, ranks, r :
        /\ rings = RingsOf(op) /\ g = <<h4, h.geometry[2]>> /\ forward = (op = "combine")
        /\ b = h.buffer /\ B = buffers[b] /\ next = B.next_seq /\ topk = h.geometry[2]
        /\ n = SmsOf(b) /\ ranks = B.ranks /\ r = Table(rings, ranks, n)
  OBVIOUS
<1>2. Called(b, op, rings, forward, given, g, c, fits, h.seq, next)
  BY <1>1 DEF HandleCalled
<1>3. topk \in TopKs
  BY <1>1 DEF TypeInv, HandleType
<1>4. /\ ranks \in TableRanks /\ r.nvl_recv >= 256 /\ Channels(c) = n \div 2
      /\ Smaller(c, r, n, h4, B.sized, topk)
      /\ NvlHint(r, ranks, B.sized) <= B.nvl /\ B.nvl \in Int
  BY <1>1, <1>2, <1>3, CalledSmaller
<1>5. h.channels = n \div 2
  BY <1>1 DEF SizeInv, HandleSize
<1>6. DispatchGradsFits(c, ranks, B.nvl) /\ CombineFits(c, ranks, h4, topk, B.nvl)
  <2>1. CASE Internode(ranks)
    BY <2>1 DEF DispatchGradsFits, CombineFits
  <2>2. CASE ~Internode(ranks)
    BY <1>4, <2>2, IntranodeNvl
  <2> QED BY <2>1, <2>2
<1>7. HandleFits(op, c, h, h4, B)
  BY <1>1, <1>4, <1>5, <1>6 DEF HandleFits
<1> QED BY <1>1, <1>7 DEF HandleCalled

(* A Buffer from sized_for is never refused a call that is no wider than it
   was sized for: for all groups, widths, top-ks, expert counts, configs of the
   caller's own and whatever other Buffers do to the shared SM count. *)
THEOREM SizedFits ==
  ASSUME ~LateSetNumSms, 0 \notin PinnedSms
  PROVE  Spec => []SizedForFits
<1>0. /\ \A h4 \in Widths : h4 \in Nat
      /\ \A b \in BufferIds : TypeInv /\ buffers[b].alive => buffers[b].sized \in Nat
  BY BufferAssumption DEF TypeInv, BufferType
<1>1. Init => SizedForFits /\ SmsInv
  BY DEF Init, NoCall, SizedForFits, SmsInv
<1>2. HostInv /\ TypeInv /\ SizeInv /\ SmsInv /\ SizedForFits /\ [Next]_vars => SizedForFits'
  <2> SUFFICES ASSUME HostInv, TypeInv, SizeInv, SmsInv, SizedForFits, [Next]_vars
               PROVE  SizedForFits'
    OBVIOUS
  <2>1. CASE UNCHANGED vars
    BY <2>1 DEF vars, SizedForFits
  <2>2. CASE last' = NoCall
    BY <2>2 DEF NoCall, SizedForFits
  <2>3. ASSUME NEW b, NEW op, NEW rings, NEW forward, NEW given, NEW g, NEW c,
               NEW fits, NEW seq, NEW next,
               Called(b, op, rings, forward, given, g, c, fits, seq, next),
               ~fits => g[1] > buffers[b].sized
        PROVE  SizedForFits'
    <3>1. PICK N : /\ buffers' = [buffers EXCEPT ![b] = N]
                   /\ LeftBy(buffers[b], N, rings, forward, g, c, fits, seq, next)
                   /\ last' = Ended(N, op, b, rings, given, g, c, fits)
      BY <2>3 DEF Called
    <3>2. buffers'[b].sized = buffers[b].sized
      <4>1. b \in BufferIds
        BY <2>3 DEF Called
      <4> QED BY <3>1, <4>1, OthersKeep DEF LeftBy, KeptFields
    <3>3. last'.outcome = "refused" => ~fits /\ last'.buffer = b /\ last'.geometry = g
      BY <3>1 DEF Ended, Launched, Failed
    <3> QED BY <2>3, <3>2, <3>3 DEF SizedForFits
  <2>4. ASSUME NEW b \in BufferIds, NEW h4 \in Widths, NEW topk \in TopKs,
               NEW experts \in Experts, NEW given, NEW c, NEW fits, NEW seq,
               DispatchCalled(b, h4, topk, experts, given, c, fits, seq)
        PROVE  SizedForFits'
    <3>1. PICK op, rings, g : op = "dispatch" /\ rings = "dispatch" /\ g = <<h4, topk>>
      OBVIOUS
    <3>2. Called(b, op, rings, TRUE, given, g, c, fits, seq, seq)
      BY <2>4, <3>1 DEF DispatchCalled
    <3>3. h4 \in Nat /\ buffers[b].sized \in Nat
      BY <1>0, <3>2 DEF Called
    <3>4. ~fits => ~(h4 <= buffers[b].sized)
      BY <2>4, <3>3, DispatchServed
    <3>5. ~fits => g[1] > buffers[b].sized
      BY <3>1, <3>3, <3>4
    <3> QED BY <2>3, <3>2, <3>5
  <2>5. ASSUME NEW h \in handles, NEW h4 \in Widths, NEW op, NEW given, NEW c, NEW fits, NEW to,
               HandleCalled(h, h4, op, given, c, fits, to)
        PROVE  SizedForFits'
    <3>1. PICK rings, g, forward, b, next :
            /\ rings = RingsOf(op) /\ g = <<h4, h.geometry[2]>> /\ forward = (op = "combine")
            /\ b = h.buffer /\ next = buffers[b].next_seq
      OBVIOUS
    <3>2. Called(b, op, rings, forward, given, g, c, fits, h.seq, next)
      BY <2>5, <3>1 DEF HandleCalled
    <3>3. h4 \in Nat /\ buffers[b].sized \in Nat
      BY <1>0, <3>2 DEF Called
    <3>4. ~fits => ~(h4 <= buffers[b].sized)
      BY <2>5, <3>1, <3>3, HandleServed
    <3>5. ~fits => g[1] > buffers[b].sized
      BY <3>1, <3>3, <3>4
    <3> QED BY <2>3, <3>2, <3>5
  <2>6. ASSUME NEW n, SetNumSms(n) PROVE last' = NoCall
    BY <2>6 DEF SetNumSms
  <2>7. ASSUME NEW b, NEW ranks, NEW h4, SizedFor(b, ranks, h4) PROVE last' = NoCall
    BY <2>7 DEF SizedFor
  <2>8. ASSUME NEW b, Drop(b) PROVE last' = NoCall
    BY <2>8 DEF Drop
  <2> QED BY <2>1, <2>2, <2>4, <2>5, <2>6, <2>7, <2>8, StepShape
<1>3. HostInv /\ SmsInv /\ [Next]_vars => SmsInv'
  BY SmsInductive
<1> QED BY <1>1, <1>2, <1>3, HostInvHolds, TypesHold, SizesHold, PTL DEF Spec
=============================================================================
