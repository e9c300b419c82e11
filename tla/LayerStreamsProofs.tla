------------------------- MODULE LayerStreamsProofs -------------------------
(***************************************************************************)
(* Proofs about LayerStreams: for every schedule of passes, every number   *)
(* of ranks and of SMs, and each checkpoint level, the accesses to shared  *)
(* memory are ordered, the passes do not overlap on the side streams and   *)
(* the started gates decide the race for the SMs.                          *)
(***************************************************************************)
EXTENDS LayerStreams, ChannelOpsProofs

(* A kernel has begun: its stream has passed it, or its first block runs. *)
Begun(r, k) == LET s == Prog[k].stream IN
  k < next[r][s] \/ (Running(r, s) /\ Head1(r, s) = k)

(* Every stream is behind the host, and a busy one has a kernel at its head
   that holds no more SMs than it asks for, and at least one once it runs. *)
HeadsOK ==
  \A r \in Ranks, s \in Streams :
    LET st == Prog[Head1(r, s)] IN
    /\ next[r][s] <= pc[r]
    /\ IF Busy(r, s) THEN /\ Head1(r, s) # 0
                          /\ st.kind = "kernel"
                          /\ held[r][s] <= st.need
                     ELSE held[r][s] = 0
    /\ Running(r, s) => held[r][s] > 0
    /\ phase[r][s] = "published" => st.name \in {"dispatch_main", "dispatch_grads"}

(* What a passed wait waited for, and a retired kernel spun on, stays true. *)
Waits == {"wait_stream", "wait_event", "wait_started"}
WaitsHold ==
  \A r \in Ranks, i \in DOMAIN Prog :
    /\ Prog[i].stream \in Streams
    /\ i < next[r][Prog[i].stream]
    /\ Runs(r, i)
    => /\ Prog[i].kind \in Waits => WaitOver(r, i)
       /\ Prog[i].name = "kernel_a" => Delivered(r, "dispatch_main", Prog[i].layer)
       /\ Prog[i].name = "kernel_y_bwd" => Delivered(r, "dispatch_grads", Prog[i].layer)

(* A started flag counts the kernels of its name that have begun. *)
BegunOf(r, f) == {k \in Kernels : Prog[k].name = f /\ Runs(r, k) /\ Begun(r, k)}
StartedCounts ==
  \A r \in Ranks, f \in Flags : started[r][f] = Cardinality(BegunOf(r, f))

(* A kernel behind a gate was launched after the kernel the gate is about, and
   gets SMs after it, unless the streams' priorities say otherwise. *)
Gated == {<<"dispatch_main", "kernel_a">>, <<"dispatch_grads", "kernel_y_bwd">>,
          <<"kernel_y", "combine">>, <<"kernel_a_bwd", "combine_grads">>}
GatedPair(r, s, t) ==
  /\ Busy(r, s) /\ Busy(r, t)
  /\ <<Prog[Head1(r, s)].name, Prog[Head1(r, t)].name>> \in Gated
  /\ Prog[Head1(r, s)].layer = Prog[Head1(r, t)].layer
GatesHold ==
  \A r \in Ranks, s, t \in Streams : GatedPair(r, s, t) =>
    /\ s \in ahead[r][t]
    /\ held[r][t] > 0 /\ (~prioritize \/ s = "communicate") =>
         held[r][s] = Prog[Head1(r, s)].need

Types ==
  /\ level \in Levels
  /\ prioritize \in BOOLEAN
  /\ tiles \in [Ranks -> [Layers -> BOOLEAN]]
  /\ pc \in [Ranks -> 1 .. Len(Prog) + 1]
  /\ next \in [Ranks -> [Streams -> 1 .. Len(Prog) + 1]]
  /\ phase \in [Ranks -> [Streams -> Phases]]
  /\ held \in [Ranks -> [Streams -> 0 .. NumSms]]
  /\ ahead \in [Ranks -> [Streams -> SUBSET Streams]]
  /\ started \in [Ranks -> [Flags -> Nat]]
  /\ \A r \in Ranks : FreeSms(r) >= 0

LInv ==
  /\ Types
  /\ HeadsOK
  /\ WaitsHold
  /\ StartedCounts
  /\ GatesHold


------------------------------------------------------------------------------

(* A list is known by its length and its elements. *)
Listed(s) == Len(s) \in Nat /\ DOMAIN s = 1 .. Len(s)

(* The elements of a concatenation. *)
LEMMA Concat ==
  ASSUME NEW s, NEW t, NEW c, Listed(s), Listed(t), c = s \o t
  PROVE  /\ Listed(c) /\ Len(c) = Len(s) + Len(t)
         /\ \A i \in 1 .. Len(s) : c[i] = s[i]
         /\ \A i \in 1 .. Len(t) : c[Len(s) + i] = t[i]
BY DEF Listed

(* The recursion of FlattenSeq, up to its k-th sequence. *)
Flattens(seqs, k, h) ==
  h = [i \in 1 .. k |-> IF i = 1 THEN seqs[i] ELSE h[i - 1] \o seqs[i]]

(* There is such a function, by its first failing length. *)
LEMMA FlattensExist ==
  ASSUME NEW seqs, NEW n \in Nat
  PROVE  \E h : Flattens(seqs, n, h)
<1> SUFFICES ASSUME NEW m \in Nat, ~ \E h : Flattens(seqs, m, h)
             PROVE  FALSE
  OBVIOUS
<1> DEFINE Bad == {k \in Nat : ~ \E h : Flattens(seqs, k, h)}
<1>1. PICK k \in Bad : \A x \in Bad : k <= x
  BY LeastElement
<1>2. k # 0
  <2>1. Flattens(seqs, 0, [i \in 1 .. 0 |-> 0])
    BY DEF Flattens
  <2> QED BY <2>1
<1>3. k \in Nat /\ k - 1 \in Nat /\ k - 1 \notin Bad
  BY <1>1, <1>2
<1>4. PICK h : Flattens(seqs, k - 1, h)
  BY <1>3
<1> DEFINE last == IF k = 1 THEN seqs[k] ELSE h[k - 1] \o seqs[k]
           g == [i \in 1 .. k |-> IF i = k THEN last ELSE h[i]]
<1>5. Flattens(seqs, k, g)
  <2>1. \A i \in 1 .. k - 1 : h[i] = IF i = 1 THEN seqs[i] ELSE h[i - 1] \o seqs[i]
    BY <1>3, <1>4 DEF Flattens
  <2>2. \A i \in 1 .. k : g[i] = IF i = 1 THEN seqs[i] ELSE g[i - 1] \o seqs[i]
    <3> SUFFICES ASSUME NEW i \in 1 .. k
                 PROVE  g[i] = IF i = 1 THEN seqs[i] ELSE g[i - 1] \o seqs[i]
      OBVIOUS
    <3>1. CASE i = k
      <4>1. g[i] = last
        BY <3>1
      <4>2. CASE k = 1
        BY <3>1, <4>1, <4>2
      <4>3. CASE k # 1
        <5>1. k - 1 \in 1 .. k /\ k - 1 # k
          BY <1>3, <4>3
        <5>2. g[k - 1] = h[k - 1]
          BY <5>1
        <5> QED BY <3>1, <4>1, <4>3, <5>2
      <4> QED BY <4>2, <4>3
    <3>2. CASE i # k
      <4>1. i \in 1 .. k - 1
        BY <1>3, <3>2
      <4>2. g[i] = h[i] /\ (i # 1 => g[i - 1] = h[i - 1])
        BY <1>3, <4>1
      <4> QED BY <2>1, <4>1, <4>2
    <3> QED BY <3>1, <3>2
  <2>3. g = [i \in 1 .. k |-> g[i]]
    OBVIOUS
  <2> HIDE DEF g, last
  <2>4. [i \in 1 .. k |-> g[i]] = [i \in 1 .. k |-> IF i = 1 THEN seqs[i] ELSE g[i - 1] \o seqs[i]]
    BY <2>2
  <2> QED BY <2>3, <2>4, Zenon DEF Flattens
<1> QED BY <1>1, <1>5

(* Sequences to be laid end to end, and what is then at each position. *)
ToLay(n, seqs, base) ==
  /\ n \in Nat /\ n # 0 /\ DOMAIN seqs = 1 .. n /\ Len(seqs) = n
  /\ \A k \in 1 .. n : Listed(seqs[k])
  /\ base \in [0 .. n -> Nat] /\ base[0] = 0
  /\ \A k \in 1 .. n : base[k] = base[k - 1] + Len(seqs[k])
EndToEnd(P, n, seqs, base) ==
  /\ Listed(P) /\ Len(P) = base[n]
  /\ \A k \in 1 .. n, m \in Nat \ {0} : m <= Len(seqs[k]) => P[base[k - 1] + m] = seqs[k][m]

(* The passes of a schedule stand end to end in the flattened program. *)
LEMMA Flattened ==
  ASSUME NEW n, NEW seqs, NEW base, ToLay(n, seqs, base), NEW P, P = FlattenSeq(seqs)
  PROVE  EndToEnd(P, n, seqs, base)
<1>a. /\ n \in Nat /\ n # 0 /\ DOMAIN seqs = 1 .. n /\ Len(seqs) = n
      /\ \A k \in 1 .. n : Listed(seqs[k])
      /\ base \in [0 .. n -> Nat] /\ base[0] = 0
      /\ \A k \in 1 .. n : base[k] = base[k - 1] + Len(seqs[k])
  BY DEF ToLay
<1> USE <1>a
<1>0. \A k \in 0 .. n : base[k] \in Nat
  OBVIOUS
<1>1. FlattenSeq(seqs) = (CHOOSE h : Flattens(seqs, n, h))[n]
  BY Zenon DEF FlattenSeq, Flattens
<1>2. PICK g : g = CHOOSE h : Flattens(seqs, n, h)
  OBVIOUS
<1>3. Flattens(seqs, n, g)
  BY <1>2, FlattensExist
<1>4. \A i \in 1 .. n : g[i] = IF i = 1 THEN seqs[i] ELSE g[i - 1] \o seqs[i]
  BY <1>3 DEF Flattens
<1> DEFINE Good(k) == /\ Listed(g[k]) /\ Len(g[k]) = base[k]
                      /\ \A j \in 1 .. k, m \in Nat \ {0} :
                           m <= Len(seqs[j]) => base[j - 1] + m <= base[k] /\ g[k][base[j - 1] + m] = seqs[j][m]
<1>5. \A k \in 1 .. n : Good(k)
  <2> SUFFICES ASSUME NEW b \in 1 .. n, ~Good(b)
               PROVE  FALSE
    OBVIOUS
  <2> DEFINE Bad == {k \in 1 .. n : ~Good(k)}
  <2>1. PICK k \in Bad : \A x \in Bad : k <= x
    <3> HIDE DEF Good
    <3>1. b \in Bad
      OBVIOUS
    <3>2. \A x \in Bad : x \in 1 .. n
      OBVIOUS
    <3> HIDE DEF Bad
    <3>3. Bad \in SUBSET Nat /\ Bad # {}
      BY <3>1, <3>2
    <3> QED BY <3>3, LeastElement
  <2>2. k \in 1 .. n /\ ~Good(k)
    <3> HIDE DEF Good
    <3> QED BY <2>1
  <2>0. k - 1 \in 0 .. n /\ k \in 0 .. n
    BY <2>2
  <2>3. base[k] \in Nat /\ base[k - 1] \in Nat /\ Listed(seqs[k]) /\ base[k] = base[k - 1] + Len(seqs[k])
    BY <1>0, <2>2, <2>0
  <2>4. k # 1
    <3> SUFFICES ASSUME k = 1 PROVE FALSE
      OBVIOUS
    <3>1. g[1] = seqs[1] /\ base[1] = Len(seqs[1]) /\ Listed(seqs[1])
      BY <1>4, <2>2, <2>3
    <3>2. \A j \in 1 .. 1, m \in Nat \ {0} : m <= Len(seqs[j]) =>
             base[j - 1] + m <= base[1] /\ g[1][base[j - 1] + m] = seqs[j][m]
      <4>1. \A j \in 1 .. 1 : j = 1 /\ j - 1 = 0
        OBVIOUS
      <4> QED BY <3>1, <4>1 DEF Listed
    <3> QED BY <2>2, <3>1, <3>2
  <2>5. k - 1 \in 1 .. n /\ Good(k - 1)
    <3>1. k - 1 \in 1 .. n /\ ~(k <= k - 1)
      BY <2>2, <2>4
    <3>2. k - 1 \notin Bad
      BY <2>1, <3>1
    <3> HIDE DEF Good
    <3> QED BY <3>1, <3>2
  <2>6. g[k] = g[k - 1] \o seqs[k]
    BY <1>4, <2>2, <2>4
  <2>7. PICK s, t, c : s = g[k - 1] /\ t = seqs[k] /\ c = s \o t
    OBVIOUS
  <2>8. /\ Listed(s) /\ Listed(t) /\ Len(s) = base[k - 1] /\ g[k] = c
        /\ \A j \in 1 .. k - 1, m \in Nat \ {0} :
             m <= Len(seqs[j]) => base[j - 1] + m <= base[k - 1] /\ s[base[j - 1] + m] = seqs[j][m]
    BY <2>3, <2>5, <2>6, <2>7
  <2>9. /\ Listed(c) /\ Len(c) = Len(s) + Len(t)
        /\ \A i \in 1 .. Len(s) : c[i] = s[i]
        /\ \A i \in 1 .. Len(t) : c[Len(s) + i] = t[i]
    <3>2. Listed(s) /\ Listed(t)
      BY <2>8
    <3>1. c = s \o t
      BY <2>7
    <3>3. Listed(c)
      BY <3>1, <3>2, Concat
    <3>6. Len(c) = Len(s) + Len(t)
      BY <3>1, <3>2, Concat
    <3>4. \A i \in 1 .. Len(s) : c[i] = s[i]
      BY <3>1, <3>2, Concat
    <3>5. \A i \in 1 .. Len(t) : c[Len(s) + i] = t[i]
      BY <3>1, <3>2, Concat
    <3> QED BY <3>3, <3>4, <3>5, <3>6
  <2>10. ASSUME NEW j \in 1 .. k, NEW m \in Nat \ {0}, m <= Len(seqs[j])
         PROVE  base[j - 1] + m <= base[k] /\ c[base[j - 1] + m] = seqs[j][m]
    <3>1. base[j - 1] \in Nat
      <4>1. j - 1 \in 0 .. n
        BY <2>2
      <4> QED BY <1>0, <4>1
    <3>2. CASE j = k
      <4>1. m \in 1 .. Len(t)
        BY <2>7, <2>8, <2>10, <3>2 DEF Listed
      <4>2. c[Len(s) + m] = t[m]
        BY <2>9, <4>1
      <4> QED BY <2>3, <2>7, <2>8, <2>10, <3>1, <3>2, <4>1, <4>2, SMTT(30) DEF Listed
    <3>3. CASE j # k
      <4>1. j \in 1 .. k - 1
        BY <2>2, <3>3
      <4>2. base[j - 1] + m <= base[k - 1] /\ s[base[j - 1] + m] = seqs[j][m]
        BY <2>8, <2>10, <4>1
      <4>3. base[j - 1] + m \in 1 .. Len(s)
        <5>1. PICK q, e : q = base[j - 1] /\ e = base[k - 1]
          OBVIOUS
        <5>2. q \in Nat /\ e \in Nat /\ Len(s) = e /\ q + m <= e
          BY <2>3, <2>8, <3>1, <4>2, <5>1
        <5>3. q + m \in 1 .. e
          <6>1. m \in Nat /\ m >= 1
            OBVIOUS
          <6> HIDE <1>a
          <6> QED BY <5>2, <6>1
        <5> QED BY <5>1, <5>2, <5>3
      <4>4. c[base[j - 1] + m] = s[base[j - 1] + m]
        BY <2>9, <4>3
      <4>5. base[j - 1] + m <= base[k]
        <5>1. PICK q, e, z, y : q = base[j - 1] /\ e = base[k - 1] /\ z = Len(seqs[k]) /\ y = base[k]
          OBVIOUS
        <5>2. q \in Nat /\ e \in Nat /\ q + m <= e /\ z \in Nat /\ y = e + z
          BY <2>3, <3>1, <4>2, <5>1 DEF Listed
        <5>3. q + m <= y
          BY <5>2
        <5> QED BY <5>1, <5>3
      <4> QED BY <4>2, <4>4, <4>5
    <3> QED BY <3>2, <3>3
  <2>11. Len(c) = base[k]
    BY <2>3, <2>7, <2>8, <2>9
  <2> QED BY <2>2, <2>8, <2>9, <2>10, <2>11
<1>6. Good(n) /\ FlattenSeq(seqs) = g[n]
  <2> HIDE DEF Good
  <2>1. n \in 1 .. n
    OBVIOUS
  <2> QED BY <1>1, <1>2, <1>5, <2>1
<1>7. P = g[n] /\ Good(n)
  <2> HIDE DEF Good
  <2> QED BY <1>6
<1>8. \A k \in 1 .. n, m \in Nat \ {0} : m <= Len(seqs[k]) => P[base[k - 1] + m] = seqs[k][m]
  <2>1. PICK h : h = g[n]
    OBVIOUS
  <2>2. \A j \in 1 .. n, m \in Nat \ {0} : m <= Len(seqs[j]) => h[base[j - 1] + m] = seqs[j][m]
    BY <1>7, <2>1
  <2>3. P = h
    BY <1>7, <2>1
  <2> HIDE <1>a
  <2> HIDE DEF Good
  <2> QED BY <2>2, <2>3, Zenon
<1> QED BY <1>7, <1>8 DEF EndToEnd

(* Where each of n stretches of the given lengths begins, laid end to end. *)
Bases(n, len, base) ==
  /\ base \in [0 .. n -> Nat]
  /\ base[0] = 0
  /\ \A k \in 1 .. n : base[k] = base[k - 1] + len[k]

(* There are such places, by the first pass without one. *)
LEMMA BasesExist ==
  ASSUME NEW n \in Nat, NEW len \in [1 .. n -> Nat]
  PROVE  \E base : Bases(n, len, base)
<1> SUFFICES ASSUME ~ \E base : Bases(n, len, base)
             PROVE  FALSE
  OBVIOUS
<1> DEFINE Bad == {k \in 0 .. n : ~ \E base : Bases(k, len, base)}
<1>1. PICK k \in Bad : \A x \in Bad : k <= x
  <2>1. n \in Bad
    OBVIOUS
  <2>2. Bad \in SUBSET Nat
    OBVIOUS
  <2> HIDE DEF Bad
  <2> QED BY <2>1, <2>2, LeastElement
<1>2. k \in 0 .. n /\ ~ \E base : Bases(k, len, base)
  BY <1>1
<1>3. k # 0
  <2>1. Bases(0, len, [i \in 0 .. 0 |-> 0])
    BY DEF Bases
  <2> QED BY <1>2, <2>1
<1>4. PICK b : Bases(k - 1, len, b)
  <2>1. k - 1 \in 0 .. n /\ ~(k <= k - 1)
    BY <1>2, <1>3
  <2>2. k - 1 \notin Bad
    BY <1>1, <2>1
  <2> QED BY <2>1, <2>2
<1>5. PICK v \in Nat : v = len[k]
  BY <1>2, <1>3
<1>6. PICK u \in Nat : u = b[k - 1]
  BY <1>2, <1>3, <1>4 DEF Bases
<1> DEFINE c == [i \in 0 .. k |-> IF i = k THEN u + v ELSE b[i]]
<1>7. Bases(k, len, c)
  <2>1. c \in [0 .. k -> Nat]
    BY <1>2, <1>3, <1>4 DEF Bases
  <2>2. c[0] = 0
    BY <1>2, <1>3, <1>4 DEF Bases
  <2>3. ASSUME NEW i \in 1 .. k PROVE c[i] = c[i - 1] + len[i]
    <3>0. \A j \in 1 .. k - 1 : b[j] = b[j - 1] + len[j]
      BY <1>4 DEF Bases
    <3>1. CASE i = k
      <4>1. c[i] = u + v /\ c[i - 1] = u
        BY <1>2, <1>3, <1>6, <3>1
      <4> QED BY <1>5, <3>1, <4>1
    <3>2. CASE i # k
      <4>1. i \in 1 .. k - 1 /\ i \in 0 .. k /\ i - 1 \in 0 .. k /\ i - 1 # k
        BY <1>2, <1>3, <3>2
      <4>2. c[i] = b[i] /\ c[i - 1] = b[i - 1]
        BY <3>2, <4>1
      <4>3. b[i] = b[i - 1] + len[i]
        BY <3>0, <4>1
      <4> QED BY <4>2, <4>3
    <3> QED BY <3>1, <3>2
  <2> HIDE DEF c
  <2> QED BY <2>1, <2>2, <2>3 DEF Bases
<1> QED BY <1>2, <1>7

(* A later pass starts later. *)
LEMMA BasesGrow ==
  ASSUME NEW n \in Nat, NEW len \in [1 .. n -> Nat], NEW base, Bases(n, len, base),
         NEW j \in 0 .. n, NEW k \in 0 .. n, j <= k
  PROVE  base[j] <= base[k]
<1> SUFFICES ASSUME ~(base[j] <= base[k])
             PROVE  FALSE
  OBVIOUS
<1> DEFINE Bad == {x \in 0 .. n : j <= x /\ ~(base[j] <= base[x])}
<1>1. PICK m \in Bad : \A x \in Bad : m <= x
  <2>1. k \in Bad
    OBVIOUS
  <2>2. Bad \in SUBSET Nat
    OBVIOUS
  <2> HIDE DEF Bad
  <2> QED BY <2>1, <2>2, LeastElement
<1>2. m \in 0 .. n /\ j <= m /\ ~(base[j] <= base[m])
  BY <1>1
<1>3. \A i \in 0 .. n : base[i] \in Nat
  BY DEF Bases
<1>4. j # m
  BY <1>2, <1>3
<1>5. m \in 1 .. n /\ m - 1 \in 0 .. n /\ j <= m - 1 /\ ~(m <= m - 1)
  BY <1>2, <1>4
<1>6. m - 1 \notin Bad
  BY <1>1, <1>5
<1>7. PICK p, q, v, u : p = base[j] /\ q = base[m - 1] /\ v = len[m] /\ u = base[m]
  OBVIOUS
<1>8. p \in Nat /\ q \in Nat /\ v \in Nat /\ p <= q
  BY <1>3, <1>5, <1>6, <1>7
<1>9. u = q + v
  BY <1>5, <1>7 DEF Bases
<1>10. p <= u
  BY <1>8, <1>9
<1> QED BY <1>2, <1>7, <1>10

(* Every position below the end is in one of the stretches. *)
LEMMA BasesCover ==
  ASSUME NEW n \in Nat, NEW len \in [1 .. n -> Nat], NEW base, Bases(n, len, base),
         NEW i \in 1 .. base[n]
  PROVE  \E k \in 1 .. n, m \in Nat \ {0} : m <= len[k] /\ i = base[k - 1] + m
<1> DEFINE Up == {x \in 0 .. n : i <= base[x]}
<1>1. PICK k \in Up : \A x \in Up : k <= x
  <2>1. n \in Up
    BY DEF Bases
  <2>2. Up \in SUBSET Nat
    OBVIOUS
  <2> HIDE DEF Up
  <2> QED BY <2>1, <2>2, LeastElement
<1>2. \A x \in 0 .. n : base[x] \in Nat
  BY DEF Bases
<1>3. k \in 0 .. n /\ i <= base[k] /\ i \in Nat /\ i >= 1
  <2>1. base[n] \in Nat
    BY <1>2
  <2> QED BY <1>1, <2>1
<1>4. k # 0
  BY <1>3 DEF Bases
<1>5. k \in 1 .. n /\ k - 1 \in 0 .. n /\ ~(k <= k - 1)
  BY <1>3, <1>4
<1>6. k - 1 \notin Up
  BY <1>1, <1>5
<1>7. PICK p, q, v : p = base[k - 1] /\ q = base[k] /\ v = len[k]
  OBVIOUS
<1>8. p \in Nat /\ v \in Nat /\ q = p + v /\ ~(i <= p) /\ i <= q
  <2>1. base[k] = base[k - 1] + len[k]
    BY <1>5 DEF Bases
  <2> QED BY <1>2, <1>3, <1>5, <1>6, <1>7, <2>1
<1>9. i - p \in Nat \ {0} /\ i - p <= v /\ i = p + (i - p)
  BY <1>3, <1>8
<1> QED BY <1>5, <1>7, <1>9

(* Every position is in one of the stretches. *)
Covered(n, len, base) == \A i \in 1 .. base[n] :
  \E k \in 1 .. n, m \in Nat \ {0} : m <= len[k] /\ i = base[k - 1] + m

(* Every place up to the last one lies in some pass. *)
LEMMA AllCovered ==
  ASSUME NEW n \in Nat, NEW len \in [1 .. n -> Nat], NEW base, Bases(n, len, base)
  PROVE  Covered(n, len, base)
BY BasesCover DEF Covered

------------------------------------------------------------------------------
(* The statements of a pass, field by field. *)

Fields(st, kind, l, stream, name, on, when, need, reads, writes) ==
  /\ st.kind = kind /\ st.layer = l /\ st.stream = stream /\ st.name = name /\ st.on = on
  /\ st.when = when /\ st.need = need /\ st.reads = reads /\ st.writes = writes

(* What each kind of statement is made of, run whatever the tile count. *)
LEMMA Constructors ==
  /\ \A l, names : Fields(Alloc(l, names), "alloc", l, "host", "", "", BOOLEAN, 0, {}, T(names, l))
  /\ \A l, names : Fields(Free(l, names), "free", l, "host", "", "", BOOLEAN, 0, {}, T(names, l))
  /\ \A l : Fields(Poll(l), "poll", l, "host", "", "", BOOLEAN, 0, {}, {})
  /\ \A l, f : Fields(Bump(l, f), "bump", l, "host", "", f, BOOLEAN, 0, {}, {})
  /\ \A s, l, t : Fields(WaitStream(s, l, t), "wait_stream", l, s, "", t, BOOLEAN, 0, {}, {})
  /\ \A s, l, e : Fields(WaitEvent(s, l, e), "wait_event", l, s, "", e, BOOLEAN, 0, {}, {})
  /\ \A s, l, e : Fields(RecordEvent(s, l, e), "record_event", l, s, "", e, BOOLEAN, 0, {}, {})
  /\ \A s, l, f : Fields(WaitStarted(s, l, f), "wait_started", l, s, "", f, BOOLEAN, 0, {}, {})
  /\ \A s, l, name, need, reads, writes :
       Fields(Kernel(s, l, name, need, reads, writes), "kernel", l, s, name, "", BOOLEAN, need,
              T(reads, l), T(writes, l))
BY DEF Fields, Alloc, Free, Poll, Bump, WaitStream, WaitEvent, RecordEvent, WaitStarted,
   Kernel, Stmt

(* The same for statements run for some tile counts only. *)
LEMMA ConstructorsWithTiles ==
  /\ \A l, names :
       Fields(WithTiles(Alloc(l, names)), "alloc", l, "host", "", "", {TRUE}, 0, {}, T(names, l))
  /\ \A l, f : Fields(WithTiles(Bump(l, f)), "bump", l, "host", "", f, {TRUE}, 0, {}, {})
  /\ \A s, l, f :
       Fields(WithTiles(WaitStarted(s, l, f)), "wait_started", l, s, "", f, {TRUE}, 0, {}, {})
  /\ \A s, l, name, need, reads, writes :
       Fields(WithTiles(Kernel(s, l, name, need, reads, writes)), "kernel", l, s, name, "", {TRUE},
              need, T(reads, l), T(writes, l))
  /\ \A s, l, name, need, reads, writes :
       Fields(WithoutTiles(Kernel(s, l, name, need, reads, writes)), "kernel", l, s, name, "",
                                  {FALSE},
              need, T(reads, l), T(writes, l))
BY DEF Fields, WithTiles, WithoutTiles, Alloc, Bump, WaitStarted, Kernel, Stmt

(* A forward pass, statement by statement: the compression of level 2 makes
   what follows it four places longer. *)
ForwardTable(F, l, lv, c) ==
  /\ F[1] = Alloc(l, {"x", "tmp"})
  /\ F[2] = Kernel("caller", l, "model", NumSms, {}, {"x", "tmp"})
  /\ F[3] = Free(l, {"tmp"})
  /\ F[4] = WaitStream("communicate", l, "caller")
  /\ F[5] = WaitStream("compute", l, "caller")
  /\ F[6] = Alloc(l, {"pre"})
  /\ F[7] = Kernel("communicate", l, "memset_pre", 1, {}, {"pre"})
  /\ F[8] = Kernel("communicate", l, "metadata", 1, {}, {"pre"})
  /\ F[9] = Poll(l)
  /\ F[10] = Alloc(l, {"pool", "post", "slots", "o"})
  /\ F[11] = Kernel("communicate", l, "memset_post", 1, {"pre"}, {"post", "slots", "o"})
  /\ F[12] = RecordEvent("communicate", l, "metadata_done")
  /\ F[13] = Bump(l, "dispatch_main")
  /\ F[14] = Kernel("communicate", l, "dispatch_main", CommSms, {"x", "pre"},
                    {"pool", "post", "slots"})
  /\ F[15] = WaitEvent("compute", l, "metadata_done")
  /\ F[16] = WaitStarted("compute", l, "dispatch_main")
  /\ F[17] = Alloc(l, Activations(lv))
  /\ F[18] = WaitStream("compute", l, "caller")
  /\ F[19] = WithTiles(Kernel("compute", l, "kernel_a", NumSms, {"pool", "pre", "slots"},
                               Activations(lv)))
  /\ F[20] = WithTiles(Bump(l, "kernel_y"))
  /\ F[21] = WithTiles(Kernel("compute", l, "kernel_y", NumSms, {"postact", "pre", "slots"},
                               {"o", "slots"}))
  /\ F[22] = WithTiles(WaitStarted("communicate", l, "kernel_y"))
  /\ F[23] = Alloc(l, {"out"})
  /\ F[24] = Kernel("communicate", l, "combine", CommSms, {"o", "pre", "post", "slots"}, {"out"})
  /\ lv = 2 => /\ F[25] = WaitStream("caller", l, "compute")
               /\ F[26] = Alloc(l, {"x_recv"})
               /\ F[27] = Kernel("caller", l, "compress", 1, {"pool", "slots"}, {"x_recv"})
               /\ F[28] = Free(l, {"pool"})
  /\ F[25 + c] = WaitStream("caller", l, "communicate")
  /\ F[26 + c] = WaitStream("caller", l, "compute")
  /\ F[27 + c] = Free(l, {"o"})
  /\ F[28 + c] = Free(l, {"postact"})
  /\ F[29 + c] = Free(l, {"x"})
  /\ F[30 + c] = Kernel("caller", l, "model_out", 1, {"out"}, {})
  /\ F[31 + c] = Free(l, {"out"})

(* A backward pass: level 1 recomputes the preactivations, level 2 also
   re-expands the pool. *)
BackwardHead(F, l) ==
  /\ F[1] = Alloc(l, {"dL_dy", "tmp2"})
  /\ F[2] = Kernel("caller", l, "model_bwd", NumSms, {}, {"dL_dy", "tmp2"})
  /\ F[3] = Free(l, {"tmp2"})
  /\ F[4] = Alloc(l, {"sums", "scratch", "dW"})
  /\ F[5] = WaitStream("communicate", l, "caller")
  /\ F[6] = WaitStream("compute", l, "caller")
  /\ F[7] = Kernel("compute", l, "zero_sums", 1, {}, {"sums"})
  /\ F[8] = Alloc(l, {"cu_seqlens"})
  /\ F[9] = Kernel("compute", l, "index", 1, {"pre", "slots"}, {"sums", "cu_seqlens"})
  /\ F[10] = Alloc(l, {"dL_do_pool", "arrival"})
  /\ F[11] = Kernel("communicate", l, "zero_arrival", 1, {}, {"arrival"})
  /\ F[12] = Bump(l, "dispatch_grads")
  /\ F[13] = RecordEvent("communicate", l, "grads_started")
  /\ F[14] = Kernel("communicate", l, "dispatch_grads", CommSms, {"dL_dy", "pre", "post", "slots"},
                    {"dL_do_pool", "arrival"})
  /\ F[15] = WaitEvent("compute", l, "grads_started")
  /\ F[16] = WaitStarted("compute", l, "dispatch_grads")
BackwardMiddle(F, l, lv) ==
  /\ lv = 1 => /\ F[17] = WithTiles(Alloc(l, {"preact2"}))
               /\ F[18] = WithTiles(Kernel("compute", l, "recompute", NumSms,
                                           {PoolTensor(lv), "cu_seqlens"},
                                             {"preact2"}))
  /\ lv = 2 => /\ F[17] = WithTiles(Alloc(l, {"pool2"}))
               /\ F[18] = WithTiles(Kernel("compute", l, "reexpand", 1, {"x_recv", "slots"},
                                           {"pool2"}))
               /\ F[19] = WithTiles(Alloc(l, {"preact2"}))
               /\ F[20] = WithTiles(Kernel("compute", l, "recompute", NumSms,
                                           {PoolTensor(lv), "cu_seqlens"},
                                             {"preact2"}))
BackwardTail(F, l, lv, c) ==
  /\ F[17 + c] = WithTiles(Kernel("compute", l, "kernel_y_bwd", NumSms,
                     {"dL_do_pool", "arrival", "pre", "slots", PreactTensor(lv)}, {"scratch", "sums"}))
  /\ F[18 + c] = WithTiles(Bump(l, "kernel_a_bwd"))
  /\ F[19 + c] = WithTiles(Kernel("compute", l, "kernel_a_bwd", NumSms,
                     {"scratch", "arrival", "pre", "slots"}, {"sums"}))
  /\ F[20 + c] = WithTiles(WaitStarted("communicate", l, "kernel_a_bwd"))
  /\ F[21 + c] = Alloc(l, {"dL_dx"})
  /\ F[22 + c] = Kernel("communicate", l, "combine_grads", CommSms,
                        {"sums", "pre", "post", "slots"},
                        {"dL_dx"})
  /\ F[23 + c] = WithTiles(Kernel("compute", l, "dW2", NumSms,
                                  {"dL_do_pool", "scratch", "cu_seqlens"},
                                {"dW"}))
  /\ F[24 + c] = WithTiles(Kernel("compute", l, "dW1", NumSms,
                                  {"scratch", PoolTensor(lv), "cu_seqlens"},
                                {"dW"}))
  /\ F[25 + c] = WithoutTiles(Kernel("compute", l, "zero_dW", 1, {}, {"dW"}))
  /\ F[26 + c] = WaitStream("caller", l, "communicate")
  /\ F[27 + c] = WaitStream("caller", l, "compute")
  /\ F[28 + c] = Free(l, Released(lv))
  /\ F[29 + c] = Free(l, {"dL_dy"})
  /\ F[30 + c] = Kernel("caller", l, "model_dx", 1, {"dL_dx", "dW"}, {})
  /\ F[31 + c] = Free(l, {"dL_dx", "dW"})
BackwardTable(F, l, lv, c) ==
  BackwardHead(F, l) /\ BackwardMiddle(F, l, lv) /\ BackwardTail(F, l, lv, c)

(* A forward pass is its table. *)
LEMMA ForwardRows ==
  ASSUME NEW l, NEW lv \in Levels, NEW c, c = IF lv = 2 THEN 4 ELSE 0, NEW F, F = Forward(l, lv)
  PROVE  Len(F) = 31 + c /\ DOMAIN F = 1 .. 31 + c /\ ForwardTable(F, l, lv, c)
<1>1. CASE lv = 0
  <2>1. c = 0
    BY <1>1
  <2>2. Len(F) = 31 /\ DOMAIN F = 1 .. 31
    BY <1>1 DEF Forward, ModelBefore, LayerStart, Dispatch, AllocatePrePoll,
        AllocatePostPoll, GateKernelA, AllocateActivations, KernelA, KernelY, GateCombine,
        Combine, CompressPool, AtLevels, LayerEnd, ReleaseO, ForwardReturn, ModelAfter
  <2>3. ForwardTable(F, l, lv, c)
    BY <1>1, <2>1, SMTT(120) DEF ForwardTable, Forward, ModelBefore, LayerStart,
        Dispatch, AllocatePrePoll, AllocatePostPoll, GateKernelA, AllocateActivations, KernelA,
        KernelY, GateCombine, Combine, CompressPool, AtLevels, LayerEnd, ReleaseO,
        ForwardReturn, ModelAfter
  <2> QED BY <2>1, <2>2, <2>3
<1>2. CASE lv = 1
  <2>1. c = 0
    BY <1>2
  <2>2. Len(F) = 31 /\ DOMAIN F = 1 .. 31
    BY <1>2 DEF Forward, ModelBefore, LayerStart, Dispatch, AllocatePrePoll,
        AllocatePostPoll, GateKernelA, AllocateActivations, KernelA, KernelY, GateCombine,
        Combine, CompressPool, AtLevels, LayerEnd, ReleaseO, ForwardReturn, ModelAfter
  <2>3. ForwardTable(F, l, lv, c)
    BY <1>2, <2>1, SMTT(120) DEF ForwardTable, Forward, ModelBefore, LayerStart,
        Dispatch, AllocatePrePoll, AllocatePostPoll, GateKernelA, AllocateActivations, KernelA,
        KernelY, GateCombine, Combine, CompressPool, AtLevels, LayerEnd, ReleaseO,
        ForwardReturn, ModelAfter
  <2> QED BY <2>1, <2>2, <2>3
<1>3. CASE lv = 2
  <2>1. c = 4
    BY <1>3
  <2>2. Len(F) = 35 /\ DOMAIN F = 1 .. 35
    BY <1>3 DEF Forward, ModelBefore, LayerStart, Dispatch, AllocatePrePoll,
        AllocatePostPoll, GateKernelA, AllocateActivations, KernelA, KernelY, GateCombine,
        Combine, CompressPool, AtLevels, LayerEnd, ReleaseO, ForwardReturn, ModelAfter
  <2>3. ForwardTable(F, l, lv, c)
    BY <1>3, <2>1, SMTT(120) DEF ForwardTable, Forward, ModelBefore, LayerStart,
        Dispatch, AllocatePrePoll, AllocatePostPoll, GateKernelA, AllocateActivations, KernelA,
        KernelY, GateCombine, Combine, CompressPool, AtLevels, LayerEnd, ReleaseO,
        ForwardReturn, ModelAfter
  <2> QED BY <2>1, <2>2, <2>3
<1> QED BY <1>1, <1>2, <1>3 DEF Levels

(* A backward pass is its table. *)
LEMMA BackwardRows ==
  ASSUME NEW l, NEW lv \in Levels, NEW c, c = IF lv = 0 THEN 0 ELSE IF lv = 1 THEN 2 ELSE 4,
         NEW F, F = Backward(l, lv)
  PROVE  Len(F) = 31 + c /\ DOMAIN F = 1 .. 31 + c /\ BackwardTable(F, l, lv, c)
<1>1. CASE lv = 0
  <2>1. c = 0
    BY <1>1
  <2>2. Len(F) = 31 /\ DOMAIN F = 1 .. 31
    BY <1>1 DEF Backward, GradBefore, AllocateScratch, FanOut, ZeroSums, IndexTensors,
        DispatchGrads, GateKernelYBwd, AtLevels, ReexpandPool, RecomputePreact, KernelYBwd,
        KernelABwd, GateCombineGrads, CombineGrads, WeightGrads, ZeroWeightGrads, LayerEnd,
        BackwardReturn, GradAfter
  <2>3. BackwardHead(F, l)
    BY <1>1, <2>1, SMTT(60) DEF BackwardHead, Backward, GradBefore, AllocateScratch,
        FanOut, ZeroSums, IndexTensors, DispatchGrads, GateKernelYBwd, AtLevels, ReexpandPool,
        RecomputePreact, KernelYBwd, KernelABwd, GateCombineGrads, CombineGrads, WeightGrads,
        ZeroWeightGrads, LayerEnd, BackwardReturn, GradAfter
  <2>4. BackwardMiddle(F, l, lv)
    BY <1>1, <2>1, SMTT(60) DEF BackwardMiddle, Backward, GradBefore, AllocateScratch,
        FanOut, ZeroSums, IndexTensors, DispatchGrads, GateKernelYBwd, AtLevels, ReexpandPool,
        RecomputePreact, KernelYBwd, KernelABwd, GateCombineGrads, CombineGrads, WeightGrads,
        ZeroWeightGrads, LayerEnd, BackwardReturn, GradAfter
  <2>5. BackwardTail(F, l, lv, c)
    BY <1>1, <2>1, SMTT(60) DEF BackwardTail, Backward, GradBefore, AllocateScratch,
        FanOut, ZeroSums, IndexTensors, DispatchGrads, GateKernelYBwd, AtLevels, ReexpandPool,
        RecomputePreact, KernelYBwd, KernelABwd, GateCombineGrads, CombineGrads, WeightGrads,
        ZeroWeightGrads, LayerEnd, BackwardReturn, GradAfter
  <2> QED BY <2>1, <2>2, <2>3, <2>4, <2>5 DEF BackwardTable
<1>2. CASE lv = 1
  <2>1. c = 2
    BY <1>2
  <2>2. Len(F) = 33 /\ DOMAIN F = 1 .. 33
    BY <1>2 DEF Backward, GradBefore, AllocateScratch, FanOut, ZeroSums, IndexTensors,
        DispatchGrads, GateKernelYBwd, AtLevels, ReexpandPool, RecomputePreact, KernelYBwd,
        KernelABwd, GateCombineGrads, CombineGrads, WeightGrads, ZeroWeightGrads, LayerEnd,
        BackwardReturn, GradAfter
  <2>3. BackwardHead(F, l)
    BY <1>2, <2>1, SMTT(60) DEF BackwardHead, Backward, GradBefore, AllocateScratch,
        FanOut, ZeroSums, IndexTensors, DispatchGrads, GateKernelYBwd, AtLevels, ReexpandPool,
        RecomputePreact, KernelYBwd, KernelABwd, GateCombineGrads, CombineGrads, WeightGrads,
        ZeroWeightGrads, LayerEnd, BackwardReturn, GradAfter
  <2>4. BackwardMiddle(F, l, lv)
    BY <1>2, <2>1, SMTT(60) DEF BackwardMiddle, Backward, GradBefore, AllocateScratch,
        FanOut, ZeroSums, IndexTensors, DispatchGrads, GateKernelYBwd, AtLevels, ReexpandPool,
        RecomputePreact, KernelYBwd, KernelABwd, GateCombineGrads, CombineGrads, WeightGrads,
        ZeroWeightGrads, LayerEnd, BackwardReturn, GradAfter
  <2>5. BackwardTail(F, l, lv, c)
    BY <1>2, <2>1, SMTT(60) DEF BackwardTail, Backward, GradBefore, AllocateScratch,
        FanOut, ZeroSums, IndexTensors, DispatchGrads, GateKernelYBwd, AtLevels, ReexpandPool,
        RecomputePreact, KernelYBwd, KernelABwd, GateCombineGrads, CombineGrads, WeightGrads,
        ZeroWeightGrads, LayerEnd, BackwardReturn, GradAfter
  <2> QED BY <2>1, <2>2, <2>3, <2>4, <2>5 DEF BackwardTable
<1>3. CASE lv = 2
  <2>1. c = 4
    BY <1>3
  <2>2. Len(F) = 35 /\ DOMAIN F = 1 .. 35
    BY <1>3 DEF Backward, GradBefore, AllocateScratch, FanOut, ZeroSums, IndexTensors,
        DispatchGrads, GateKernelYBwd, AtLevels, ReexpandPool, RecomputePreact, KernelYBwd,
        KernelABwd, GateCombineGrads, CombineGrads, WeightGrads, ZeroWeightGrads, LayerEnd,
        BackwardReturn, GradAfter
  <2>3. BackwardHead(F, l)
    BY <1>3, <2>1, SMTT(60) DEF BackwardHead, Backward, GradBefore, AllocateScratch,
        FanOut, ZeroSums, IndexTensors, DispatchGrads, GateKernelYBwd, AtLevels, ReexpandPool,
        RecomputePreact, KernelYBwd, KernelABwd, GateCombineGrads, CombineGrads, WeightGrads,
        ZeroWeightGrads, LayerEnd, BackwardReturn, GradAfter
  <2>4. BackwardMiddle(F, l, lv)
    BY <1>3, <2>1, SMTT(60) DEF BackwardMiddle, Backward, GradBefore, AllocateScratch,
        FanOut, ZeroSums, IndexTensors, DispatchGrads, GateKernelYBwd, AtLevels, ReexpandPool,
        RecomputePreact, KernelYBwd, KernelABwd, GateCombineGrads, CombineGrads, WeightGrads,
        ZeroWeightGrads, LayerEnd, BackwardReturn, GradAfter
  <2>5. BackwardTail(F, l, lv, c)
    BY <1>3, <2>1, SMTT(60) DEF BackwardTail, Backward, GradBefore, AllocateScratch,
        FanOut, ZeroSums, IndexTensors, DispatchGrads, GateKernelYBwd, AtLevels, ReexpandPool,
        RecomputePreact, KernelYBwd, KernelABwd, GateCombineGrads, CombineGrads, WeightGrads,
        ZeroWeightGrads, LayerEnd, BackwardReturn, GradAfter
  <2> QED BY <2>1, <2>2, <2>3, <2>4, <2>5 DEF BackwardTable
<1> QED BY <1>1, <1>2, <1>3 DEF Levels

------------------------------------------------------------------------------
(* What every statement of a pass is like. *)

StmtOK(st, l) ==
  /\ st.layer = l
  /\ st.stream \in Streams \cup {"host"}
  /\ st.when \in SUBSET BOOLEAN
  /\ st.kind = "kernel" => st.stream \in Streams /\ st.need \in 1 .. NumSms
  /\ st.name # "" => st.kind = "kernel"
  /\ st.kind = "poll" => st.stream = "host"
  /\ st.kind = "record_event" => st.when = BOOLEAN /\ st.stream \in Streams
  /\ st.kind = "wait_stream" => st.on \in Streams
  /\ st.kind = "wait_started" => st.on \in Flags
  /\ st.name \in {"dispatch_main", "dispatch_grads"} => st.when = BOOLEAN

(* Every statement the operators build is well formed. *)
LEMMA StatementsOK ==
  ASSUME NEW l
  PROVE  /\ \A names : StmtOK(Alloc(l, names), l) /\ StmtOK(Free(l, names), l)
         /\ StmtOK(Poll(l), l)
         /\ \A f : StmtOK(Bump(l, f), l)
         /\ \A s, t \in Streams : StmtOK(WaitStream(s, l, t), l)
         /\ \A s \in Streams : \A e : StmtOK(WaitEvent(s, l, e), l) /\ StmtOK(RecordEvent(s, l, e), l)
         /\ \A s \in Streams, f \in Flags : StmtOK(WaitStarted(s, l, f), l)
         /\ \A s \in Streams, need \in 1 .. NumSms : \A name, reads, writes :
              StmtOK(Kernel(s, l, name, need, reads, writes), l)
BY DEF StmtOK, Alloc, Free, Poll, Bump, WaitStream, WaitEvent, RecordEvent, WaitStarted,
   Kernel, Stmt

(* So is one that depends on the tile count. *)
LEMMA StatementsWithTilesOK ==
  ASSUME NEW l
  PROVE  /\ \A names : StmtOK(WithTiles(Alloc(l, names)), l)
         /\ \A f : StmtOK(WithTiles(Bump(l, f)), l)
         /\ \A s \in Streams, f \in Flags : StmtOK(WithTiles(WaitStarted(s, l, f)), l)
         /\ \A s \in Streams, need \in 1 .. NumSms : \A name, reads, writes :
              name \notin {"dispatch_main", "dispatch_grads"} =>
                /\ StmtOK(WithTiles(Kernel(s, l, name, need, reads, writes)), l)
                /\ StmtOK(WithoutTiles(Kernel(s, l, name, need, reads, writes)), l)
<1>1. {TRUE} \in SUBSET BOOLEAN /\ {FALSE} \in SUBSET BOOLEAN
  OBVIOUS
<1>2. ASSUME NEW names
      PROVE  StmtOK(WithTiles(Alloc(l, names)), l)
  <2> DEFINE st == WithTiles(Alloc(l, names))
  <2>1. Fields(st, "alloc", l, "host", "", "", {TRUE}, 0, {}, T(names, l))
    BY ConstructorsWithTiles
  <2> HIDE DEF st
  <2>2. st.when \in SUBSET BOOLEAN
    BY <1>1, <2>1, Zenon DEF Fields
  <2>3. /\ st.kind = "alloc" /\ st.layer = l /\ st.stream = "host" /\ st.name = ""
        /\ st.on = "" /\ st.need = 0
    BY <2>1, Zenon DEF Fields
  <2>4. StmtOK(st, l)
    BY <1>2, <2>2, <2>3 DEF StmtOK
  <2> QED BY <2>4 DEF st
<1>3. ASSUME NEW f
      PROVE  StmtOK(WithTiles(Bump(l, f)), l)
  <2> DEFINE st == WithTiles(Bump(l, f))
  <2>1. Fields(st, "bump", l, "host", "", f, {TRUE}, 0, {}, {})
    BY ConstructorsWithTiles
  <2> HIDE DEF st
  <2>2. st.when \in SUBSET BOOLEAN
    BY <1>1, <2>1, Zenon DEF Fields
  <2>3. /\ st.kind = "bump" /\ st.layer = l /\ st.stream = "host" /\ st.name = ""
        /\ st.on = f /\ st.need = 0
    BY <2>1, Zenon DEF Fields
  <2>4. StmtOK(st, l)
    BY <1>3, <2>2, <2>3 DEF StmtOK
  <2> QED BY <2>4 DEF st
<1>4. ASSUME NEW s \in Streams, NEW f \in Flags
      PROVE  StmtOK(WithTiles(WaitStarted(s, l, f)), l)
  <2> DEFINE st == WithTiles(WaitStarted(s, l, f))
  <2>1. Fields(st, "wait_started", l, s, "", f, {TRUE}, 0, {}, {})
    BY ConstructorsWithTiles
  <2> HIDE DEF st
  <2>2. st.when \in SUBSET BOOLEAN
    BY <1>1, <2>1, Zenon DEF Fields
  <2>3. /\ st.kind = "wait_started" /\ st.layer = l /\ st.stream = s /\ st.name = ""
        /\ st.on = f /\ st.need = 0
    BY <2>1, Zenon DEF Fields
  <2>4. StmtOK(st, l)
    BY <1>4, <2>2, <2>3 DEF StmtOK
  <2> QED BY <2>4 DEF st
<1>5. ASSUME NEW s \in Streams, NEW need \in 1 .. NumSms, NEW name, NEW reads, NEW writes,
             name \notin {"dispatch_main", "dispatch_grads"}
      PROVE  StmtOK(WithTiles(Kernel(s, l, name, need, reads, writes)), l)
  <2> DEFINE st == WithTiles(Kernel(s, l, name, need, reads, writes))
  <2>1. Fields(st, "kernel", l, s, name, "", {TRUE}, need, T(reads, l), T(writes, l))
    BY ConstructorsWithTiles
  <2> HIDE DEF st
  <2>2. st.when \in SUBSET BOOLEAN
    BY <1>1, <2>1, Zenon DEF Fields
  <2>3. /\ st.kind = "kernel" /\ st.layer = l /\ st.stream = s /\ st.name = name
        /\ st.on = "" /\ st.need = need
    BY <2>1, Zenon DEF Fields
  <2>4. StmtOK(st, l)
    BY <1>5, <2>2, <2>3 DEF StmtOK
  <2> QED BY <2>4 DEF st
<1>6. ASSUME NEW s \in Streams, NEW need \in 1 .. NumSms, NEW name, NEW reads, NEW writes,
             name \notin {"dispatch_main", "dispatch_grads"}
      PROVE  StmtOK(WithoutTiles(Kernel(s, l, name, need, reads, writes)), l)
  <2> DEFINE st == WithoutTiles(Kernel(s, l, name, need, reads, writes))
  <2>1. Fields(st, "kernel", l, s, name, "", {FALSE}, need, T(reads, l), T(writes, l))
    BY ConstructorsWithTiles
  <2> HIDE DEF st
  <2>2. st.when \in SUBSET BOOLEAN
    BY <1>1, <2>1, Zenon DEF Fields
  <2>3. /\ st.kind = "kernel" /\ st.layer = l /\ st.stream = s /\ st.name = name
        /\ st.on = "" /\ st.need = need
    BY <2>1, Zenon DEF Fields
  <2>4. StmtOK(st, l)
    BY <1>6, <2>2, <2>3 DEF StmtOK
  <2> QED BY <2>4 DEF st
<1> QED BY <1>2, <1>3, <1>4, <1>5, <1>6

(* The places in a pass, those between the level-dependent ones listed. *)
LEMMA Places ==
  ASSUME NEW c \in {0, 2, 4}, NEW m \in 1 .. 31 + c
  PROVE  \/ m \in {1, 2, 3, 4, 5, 6, 7, 8, 9, 10, 11, 12, 13, 14, 15,
                   16, 17, 18, 19, 20, 21, 22, 23, 24}
         \/ c # 0 /\ m \in {25, 26}
         \/ c = 4 /\ m \in {27, 28}
         \/ m \in {25 + c, 26 + c, 27 + c, 28 + c, 29 + c, 30 + c, 31 + c}
OBVIOUS

(* Every statement of a forward pass is well formed. *)
LEMMA ForwardStmts ==
  ASSUME NEW l, NEW lv \in Levels, NEW c, c = IF lv = 2 THEN 4 ELSE 0, NEW F, ForwardTable(F, l, lv, c),
         NEW m \in 1 .. 31 + c
  PROVE  StmtOK(F[m], l)
<1>1. NumSms \in 1 .. NumSms /\ 1 \in 1 .. NumSms /\ CommSms \in 1 .. NumSms
  BY SmAssumption
<1>2. /\ "caller" \in Streams /\ "communicate" \in Streams /\ "compute" \in Streams
      /\ "dispatch_main" \in Flags /\ "kernel_y" \in Flags
  BY DEF Streams, Flags
<1>3. \A i \in {1, 2, 3, 4, 5, 6, 7, 8, 9, 10, 11, 12, 13, 14, 15} : StmtOK(F[i], l)
  BY <1>1, <1>2, StatementsOK DEF ForwardTable
<1>4. \A i \in {16, 17, 18, 19, 20, 21, 22, 23, 24} : StmtOK(F[i], l)
  BY <1>1, <1>2, StatementsOK, StatementsWithTilesOK DEF ForwardTable
<1>5. lv = 2 => \A i \in {25, 26, 27, 28} : StmtOK(F[i], l)
  BY <1>1, <1>2, StatementsOK DEF ForwardTable
<1>6. \A i \in {25 + c, 26 + c, 27 + c, 28 + c, 29 + c, 30 + c, 31 + c} : StmtOK(F[i], l)
  BY <1>1, <1>2, StatementsOK DEF ForwardTable
<1>7. c \in {0, 2, 4} /\ (c # 0 => lv = 2)
  OBVIOUS
<1> QED BY <1>3, <1>4, <1>5, <1>6, <1>7, Places

(* Every statement of a backward pass is well formed. *)
LEMMA BackwardStmts ==
  ASSUME NEW l, NEW lv \in Levels, NEW c, c = IF lv = 0 THEN 0 ELSE IF lv = 1 THEN 2 ELSE 4,
         NEW F, BackwardTable(F, l, lv, c),
         NEW m \in 1 .. 31 + c
  PROVE  StmtOK(F[m], l)
<1>1. NumSms \in 1 .. NumSms /\ 1 \in 1 .. NumSms /\ CommSms \in 1 .. NumSms
  BY SmAssumption
<1>h. BackwardHead(F, l)
  BY DEF BackwardTable
<1>m. BackwardMiddle(F, l, lv)
  BY DEF BackwardTable
<1>t. BackwardTail(F, l, lv, c)
  BY DEF BackwardTable
<1>3. \A i \in {1, 2, 3, 4, 5, 6, 7, 8} : StmtOK(F[i], l)
  BY <1>h, <1>1, StatementsOK DEF BackwardHead, Streams, Flags
<1>8. \A i \in {9, 10, 11, 12, 13, 14, 15, 16} : StmtOK(F[i], l)
  BY <1>h, <1>1, StatementsOK DEF BackwardHead, Streams, Flags
<1>4. /\ lv = 1 => \A i \in {17, 18} : StmtOK(F[i], l)
      /\ lv = 2 => \A i \in {17, 18, 19, 20} : StmtOK(F[i], l)
  <2>1. ASSUME lv = 1 PROVE StmtOK(F[17], l) /\ StmtOK(F[18], l)
    <3>1. /\ F[17] = WithTiles(Alloc(l, {"preact2"}))
          /\ F[18] = WithTiles(Kernel("compute", l, "recompute", NumSms,
                                      {PoolTensor(lv), "cu_seqlens"},
                                     {"preact2"}))
      BY <1>m, <2>1 DEF BackwardMiddle
    <3>2. StmtOK(F[17], l)
      BY <3>1, StatementsWithTilesOK
    <3>3. StmtOK(F[18], l)
      BY <1>1, <3>1, StatementsWithTilesOK DEF Streams
    <3> QED BY <3>2, <3>3
  <2>2. ASSUME lv = 2
        PROVE  StmtOK(F[17], l) /\ StmtOK(F[18], l) /\ StmtOK(F[19], l) /\ StmtOK(F[20], l)
    <3>1. /\ F[17] = WithTiles(Alloc(l, {"pool2"}))
          /\ F[18] = WithTiles(Kernel("compute", l, "reexpand", 1, {"x_recv", "slots"}, {"pool2"}))
          /\ F[19] = WithTiles(Alloc(l, {"preact2"}))
          /\ F[20] = WithTiles(Kernel("compute", l, "recompute", NumSms,
                                      {PoolTensor(lv), "cu_seqlens"},
                                     {"preact2"}))
      BY <1>m, <2>2 DEF BackwardMiddle
    <3> QED BY <1>1, <3>1, StatementsWithTilesOK DEF Streams
  <2> QED BY <2>1, <2>2
<1>5. \A i \in {17 + c, 18 + c, 19 + c, 20 + c, 21 + c, 22 + c, 23 + c, 24 + c} : StmtOK(F[i], l)
  BY <1>t, <1>1, StatementsOK, StatementsWithTilesOK DEF BackwardTail, Streams, Flags
<1>6. \A i \in {25 + c, 26 + c, 27 + c, 28 + c, 29 + c, 30 + c, 31 + c} : StmtOK(F[i], l)
  BY <1>t, <1>1, StatementsOK, StatementsWithTilesOK DEF BackwardTail, Streams, Flags
<1>7. \/ m \in {1, 2, 3, 4, 5, 6, 7, 8, 9, 10, 11, 12, 13, 14, 15, 16}
      \/ lv = 1 /\ m \in {17, 18}
      \/ lv = 2 /\ m \in {17, 18, 19, 20}
      \/ m \in {17 + c, 18 + c, 19 + c, 20 + c, 21 + c, 22 + c, 23 + c, 24 + c}
      \/ m \in {25 + c, 26 + c, 27 + c, 28 + c, 29 + c, 30 + c, 31 + c}
  BY DEF Levels
<1> QED BY <1>3, <1>8, <1>4, <1>5, <1>6, <1>7

(* The kernels of a pass: where they stand, on which stream, and which wait
   for tiles. *)
IsKernel(st, stream, name, when) ==
  st.kind = "kernel" /\ st.stream = stream /\ st.name = name /\ st.when = when

ForwardKernel(st, m, lv, c) ==
  \/ m = 2 /\ IsKernel(st, "caller", "model", BOOLEAN)
  \/ m = 7 /\ IsKernel(st, "communicate", "memset_pre", BOOLEAN)
  \/ m = 8 /\ IsKernel(st, "communicate", "metadata", BOOLEAN)
  \/ m = 11 /\ IsKernel(st, "communicate", "memset_post", BOOLEAN)
  \/ m = 14 /\ IsKernel(st, "communicate", "dispatch_main", BOOLEAN)
  \/ m = 19 /\ IsKernel(st, "compute", "kernel_a", {TRUE})
  \/ m = 21 /\ IsKernel(st, "compute", "kernel_y", {TRUE})
  \/ m = 24 /\ IsKernel(st, "communicate", "combine", BOOLEAN)
  \/ lv = 2 /\ m = 27 /\ IsKernel(st, "caller", "compress", BOOLEAN)
  \/ m = 30 + c /\ IsKernel(st, "caller", "model_out", BOOLEAN)

BackwardKernel(st, m, lv, c) ==
  \/ m = 2 /\ IsKernel(st, "caller", "model_bwd", BOOLEAN)
  \/ m = 7 /\ IsKernel(st, "compute", "zero_sums", BOOLEAN)
  \/ m = 9 /\ IsKernel(st, "compute", "index", BOOLEAN)
  \/ m = 11 /\ IsKernel(st, "communicate", "zero_arrival", BOOLEAN)
  \/ m = 14 /\ IsKernel(st, "communicate", "dispatch_grads", BOOLEAN)
  \/ lv = 2 /\ m = 18 /\ IsKernel(st, "compute", "reexpand", {TRUE})
  \/ lv # 0 /\ m = 16 + c /\ IsKernel(st, "compute", "recompute", {TRUE})
  \/ m = 17 + c /\ IsKernel(st, "compute", "kernel_y_bwd", {TRUE})
  \/ m = 19 + c /\ IsKernel(st, "compute", "kernel_a_bwd", {TRUE})
  \/ m = 22 + c /\ IsKernel(st, "communicate", "combine_grads", BOOLEAN)
  \/ m = 23 + c /\ IsKernel(st, "compute", "dW2", {TRUE})
  \/ m = 24 + c /\ IsKernel(st, "compute", "dW1", {TRUE})
  \/ m = 25 + c /\ IsKernel(st, "compute", "zero_dW", {FALSE})
  \/ m = 30 + c /\ IsKernel(st, "caller", "model_dx", BOOLEAN)

NotKernel(st) == st.kind # "kernel"

(* Which statements launch kernels. *)
LEMMA WhichAreKernels ==
  ASSUME NEW l
  PROVE  /\ \A names : NotKernel(Alloc(l, names)) /\ NotKernel(Free(l, names))
         /\ NotKernel(Poll(l))
         /\ \A f : NotKernel(Bump(l, f))
         /\ \A s, t : NotKernel(WaitStream(s, l, t))
         /\ \A s, e : NotKernel(WaitEvent(s, l, e)) /\ NotKernel(RecordEvent(s, l, e))
         /\ \A s, f : NotKernel(WaitStarted(s, l, f))
         /\ \A s, need, name, reads, writes :
              IsKernel(Kernel(s, l, name, need, reads, writes), s, name, BOOLEAN)
BY DEF NotKernel, IsKernel, Alloc, Free, Poll, Bump, WaitStream, WaitEvent, RecordEvent,
   WaitStarted,
       Kernel, Stmt

(* The same for statements that depend on the tile count. *)
LEMMA WhichAreKernelsWithTiles ==
  ASSUME NEW l
  PROVE  /\ \A names : NotKernel(WithTiles(Alloc(l, names)))
         /\ \A f : NotKernel(WithTiles(Bump(l, f)))
         /\ \A s, f : NotKernel(WithTiles(WaitStarted(s, l, f)))
         /\ \A s, need, name, reads, writes :
              IsKernel(WithTiles(Kernel(s, l, name, need, reads, writes)), s, name, {TRUE})
         /\ \A s, need, name, reads, writes :
              IsKernel(WithoutTiles(Kernel(s, l, name, need, reads, writes)), s, name, {FALSE})
BY DEF NotKernel, IsKernel, WithTiles, WithoutTiles, Alloc, Bump, WaitStarted, Kernel, Stmt

(* The kernels of a forward pass and their places. *)
LEMMA ForwardKernels ==
  ASSUME NEW l, NEW lv \in Levels, NEW c, c = IF lv = 2 THEN 4 ELSE 0, NEW F, ForwardTable(F, l, lv, c),
         NEW m \in 1 .. 31 + c, F[m].kind = "kernel"
  PROVE  ForwardKernel(F[m], m, lv, c)
<1>1. \A i \in {1, 3, 4, 5, 6, 9, 10, 12, 13, 15, 16, 17, 18} : NotKernel(F[i])
  BY WhichAreKernels DEF ForwardTable
<1>2. \A i \in {20, 22, 23} : NotKernel(F[i])
  BY WhichAreKernels, WhichAreKernelsWithTiles DEF ForwardTable
<1>3. lv = 2 => \A i \in {25, 26, 28} : NotKernel(F[i])
  BY WhichAreKernels DEF ForwardTable
<1>4. \A i \in {25 + c, 26 + c, 27 + c, 28 + c, 29 + c, 31 + c} : NotKernel(F[i])
  BY WhichAreKernels DEF ForwardTable
<1>5. /\ IsKernel(F[2], "caller", "model", BOOLEAN)
      /\ IsKernel(F[7], "communicate", "memset_pre", BOOLEAN)
      /\ IsKernel(F[8], "communicate", "metadata", BOOLEAN)
      /\ IsKernel(F[11], "communicate", "memset_post", BOOLEAN)
      /\ IsKernel(F[14], "communicate", "dispatch_main", BOOLEAN)
      /\ IsKernel(F[24], "communicate", "combine", BOOLEAN)
  BY WhichAreKernels DEF ForwardTable
<1>6. /\ IsKernel(F[19], "compute", "kernel_a", {TRUE})
      /\ IsKernel(F[21], "compute", "kernel_y", {TRUE})
  BY WhichAreKernelsWithTiles DEF ForwardTable
<1>7. /\ lv = 2 => IsKernel(F[27], "caller", "compress", BOOLEAN)
      /\ IsKernel(F[30 + c], "caller", "model_out", BOOLEAN)
  BY WhichAreKernels DEF ForwardTable
<1>8. \/ m \in {1, 3, 4, 5, 6, 9, 10, 12, 13, 15, 16, 17, 18}
      \/ m \in {20, 22, 23}
      \/ lv = 2 /\ m \in {25, 26, 28}
      \/ m \in {25 + c, 26 + c, 27 + c, 28 + c, 29 + c, 31 + c}
      \/ m \in {2, 7, 8, 11, 14, 19, 21, 24}
      \/ lv = 2 /\ m = 27
      \/ m = 30 + c
  OBVIOUS
<1>9. ~NotKernel(F[m])
  BY DEF NotKernel
<1>10. \/ m \in {2, 7, 8, 11, 14, 19, 21, 24}
       \/ lv = 2 /\ m = 27
       \/ m = 30 + c
  BY <1>1, <1>2, <1>3, <1>4, <1>8, <1>9
<1> QED BY <1>5, <1>6, <1>7, <1>10 DEF ForwardKernel

(* The kernels of a backward pass and their places. *)
LEMMA BackwardKernels ==
  ASSUME NEW l, NEW lv \in Levels, NEW c, c = IF lv = 0 THEN 0 ELSE IF lv = 1 THEN 2 ELSE 4,
         NEW F,
         BackwardTable(F, l, lv, c), NEW m \in 1 .. 31 + c, F[m].kind = "kernel"
  PROVE  BackwardKernel(F[m], m, lv, c)
<1>h. BackwardHead(F, l)
  BY DEF BackwardTable
<1>m. BackwardMiddle(F, l, lv)
  BY DEF BackwardTable
<1>t. BackwardTail(F, l, lv, c)
  BY DEF BackwardTable
<1>1. \A i \in {1, 3, 4, 5, 6, 8, 10, 12, 13, 15, 16} : NotKernel(F[i])
  BY <1>h, WhichAreKernels DEF BackwardHead
<1>2. (lv = 1 => NotKernel(F[17])) /\ (lv = 2 => NotKernel(F[17]) /\ NotKernel(F[19]))
  BY <1>m, WhichAreKernelsWithTiles DEF BackwardMiddle
<1>3. \A i \in {18 + c, 20 + c, 21 + c, 26 + c, 27 + c, 28 + c, 29 + c, 31 + c} : NotKernel(F[i])
  BY <1>t, WhichAreKernels, WhichAreKernelsWithTiles DEF BackwardTail
<1>4. /\ IsKernel(F[2], "caller", "model_bwd", BOOLEAN)
      /\ IsKernel(F[7], "compute", "zero_sums", BOOLEAN)
      /\ IsKernel(F[9], "compute", "index", BOOLEAN)
      /\ IsKernel(F[11], "communicate", "zero_arrival", BOOLEAN)
      /\ IsKernel(F[14], "communicate", "dispatch_grads", BOOLEAN)
  BY <1>h, WhichAreKernels, SMTT(30) DEF BackwardHead
<1>5. /\ lv = 1 => IsKernel(F[18], "compute", "recompute", {TRUE})
      /\ lv = 2 => /\ IsKernel(F[18], "compute", "reexpand", {TRUE})
                   /\ IsKernel(F[20], "compute", "recompute", {TRUE})
  BY <1>m, WhichAreKernelsWithTiles DEF BackwardMiddle
<1>6. /\ IsKernel(F[17 + c], "compute", "kernel_y_bwd", {TRUE})
      /\ IsKernel(F[19 + c], "compute", "kernel_a_bwd", {TRUE})
      /\ IsKernel(F[23 + c], "compute", "dW2", {TRUE})
      /\ IsKernel(F[24 + c], "compute", "dW1", {TRUE})
      /\ IsKernel(F[25 + c], "compute", "zero_dW", {FALSE})
  BY <1>t, WhichAreKernelsWithTiles DEF BackwardTail
<1>7. /\ IsKernel(F[22 + c], "communicate", "combine_grads", BOOLEAN)
      /\ IsKernel(F[30 + c], "caller", "model_dx", BOOLEAN)
  BY <1>t, WhichAreKernels DEF BackwardTail
<1>8. \/ m \in {1, 3, 4, 5, 6, 8, 10, 12, 13, 15, 16}
      \/ lv = 1 /\ m = 17
      \/ lv = 2 /\ m \in {17, 19}
      \/ m \in {18 + c, 20 + c, 21 + c, 26 + c, 27 + c, 28 + c, 29 + c, 31 + c}
      \/ m \in {2, 7, 9, 11, 14}
      \/ lv = 1 /\ m = 18
      \/ lv = 2 /\ m \in {18, 20}
      \/ m \in {17 + c, 19 + c, 22 + c, 23 + c, 24 + c, 25 + c, 30 + c}
  BY DEF Levels
<1>9. ~NotKernel(F[m])
  BY DEF NotKernel
<1>10. \/ m \in {2, 7, 9, 11, 14}
       \/ lv = 1 /\ m = 18
       \/ lv = 2 /\ m \in {18, 20}
       \/ m \in {17 + c, 19 + c, 22 + c, 23 + c, 24 + c, 25 + c, 30 + c}
  BY <1>1, <1>2, <1>3, <1>8, <1>9
<1> QED BY <1>4, <1>5, <1>6, <1>7, <1>10 DEF BackwardKernel

------------------------------------------------------------------------------
(* The program of a run is the passes of the schedule, end to end. *)

ForwardExtra(lv) == IF lv = 2 THEN 4 ELSE 0
BackwardExtra(lv) == IF lv = 0 THEN 0 ELSE IF lv = 1 THEN 2 ELSE 4

(* A pass of the schedule is a forward or a backward table. *)
LEMMA PassShape ==
  ASSUME NEW lv \in Levels, NEW k \in DOMAIN Schedule, NEW F, F = Pass(k, lv),
         NEW l, l = Schedule[k].layer
  PROVE  /\ Listed(F)
         /\ Schedule[k].dir = "forward" =>
              Len(F) = 31 + ForwardExtra(lv) /\ ForwardTable(F, l, lv, ForwardExtra(lv))
         /\ Schedule[k].dir # "forward" =>
              Len(F) = 31 + BackwardExtra(lv) /\ BackwardTable(F, l, lv, BackwardExtra(lv))
<1>1. CASE Schedule[k].dir = "forward"
  <2>1. PICK c : c = ForwardExtra(lv)
    OBVIOUS
  <2>2. F = Forward(l, lv) /\ c = IF lv = 2 THEN 4 ELSE 0
    BY <1>1, <2>1 DEF Pass, ForwardExtra
  <2>3. Len(F) = 31 + c /\ DOMAIN F = 1 .. 31 + c /\ ForwardTable(F, l, lv, c)
    BY <2>2, ForwardRows
  <2>4. 31 + c \in Nat
    BY <2>2
  <2> QED BY <1>1, <2>1, <2>3, <2>4 DEF Listed
<1>2. CASE Schedule[k].dir # "forward"
  <2>1. PICK c : c = BackwardExtra(lv)
    OBVIOUS
  <2>2. F = Backward(l, lv) /\ c = IF lv = 0 THEN 0 ELSE IF lv = 1 THEN 2 ELSE 4
    BY <1>2, <2>1 DEF Pass, BackwardExtra
  <2>3. Len(F) = 31 + c /\ DOMAIN F = 1 .. 31 + c /\ BackwardTable(F, l, lv, c)
    BY <2>2, BackwardRows
  <2>4. 31 + c \in Nat
    BY <2>2
  <2> QED BY <1>2, <2>1, <2>3, <2>4 DEF Listed
<1> QED BY <1>1, <1>2

(* base[k] statements precede pass k + 1. *)
Laid(lv, base) ==
  LET n == Len(Schedule)  P == Program(lv) IN
  /\ n \in Nat /\ DOMAIN Schedule = 1 .. n
  /\ base \in [0 .. n -> Nat]
  /\ Len(P) = base[n] /\ DOMAIN P = 1 .. base[n]
  /\ \A k \in 1 .. n : base[k] = base[k - 1] + Len(Pass(k, lv))
  /\ \A k \in 1 .. n, m \in Nat \ {0} : m <= Len(Pass(k, lv)) =>
       /\ base[k - 1] + m \in DOMAIN P
       /\ P[base[k - 1] + m] = Pass(k, lv)[m]
       /\ PassOf(lv, base[k - 1] + m) = k
  /\ \A i \in DOMAIN P : \E k \in 1 .. n, m \in Nat \ {0} :
       m <= Len(Pass(k, lv)) /\ i = base[k - 1] + m
  /\ \A j, k \in 1 .. n : j < k => base[j] <= base[k - 1]

(* The program of a level is laid out pass after pass. *)
LEMMA ProgramLaid ==
  ASSUME NEW lv \in Levels
  PROVE  \E base : Laid(lv, base)
<1>1. PICK n : n = Len(Schedule)
  OBVIOUS
<1>2. n \in Nat /\ DOMAIN Schedule = 1 .. n
  BY <1>1, ScheduleAssumption
<1> DEFINE seqs == [k \in DOMAIN Schedule |-> Pass(k, lv)]
           nums == [k \in DOMAIN Schedule |-> [i \in DOMAIN Pass(k, lv) |-> k]]
           len == [k \in 1 .. n |-> Len(Pass(k, lv))]
<1>3. \A k \in 1 .. n : Listed(Pass(k, lv)) /\ len[k] = Len(Pass(k, lv))
  BY <1>2, PassShape
<1>4. len \in [1 .. n -> Nat]
  BY <1>3 DEF Listed
<1>5. PICK base : Bases(n, len, base)
  BY <1>2, <1>4, BasesExist
<1>6. DOMAIN seqs = 1 .. n /\ Len(seqs) = n /\ DOMAIN nums = 1 .. n /\ Len(nums) = n
  BY <1>2
<1>7. \A k \in 1 .. n : seqs[k] = Pass(k, lv) /\ nums[k] = [i \in DOMAIN Pass(k, lv) |-> k]
  BY <1>2
<1>8. \A k \in 1 .. n : Listed(seqs[k]) /\ Len(seqs[k]) = len[k]
  BY <1>3, <1>7
<1>9. \A k \in 1 .. n : /\ Listed(nums[k]) /\ Len(nums[k]) = len[k]
                         /\ \A m \in Nat \ {0} : m <= len[k] => nums[k][m] = k
  <2> SUFFICES ASSUME NEW k \in 1 .. n
               PROVE  /\ Listed(nums[k]) /\ Len(nums[k]) = len[k]
                      /\ \A m \in Nat \ {0} : m <= len[k] => nums[k][m] = k
    OBVIOUS
  <2>1. PICK L, S : L = Len(Pass(k, lv)) /\ S = nums[k]
    OBVIOUS
  <2>2. L \in Nat /\ S = [i \in 1 .. L |-> k] /\ L = len[k]
    BY <1>3, <1>7, <2>1 DEF Listed
  <2>3. Len(S) = L /\ DOMAIN S = 1 .. L /\ \A m \in Nat \ {0} : m <= L => S[m] = k
    BY <2>2
  <2> QED BY <2>1, <2>2, <2>3 DEF Listed
<1>10. Programs = << FlattenSeq([k \in DOMAIN Schedule |-> Pass(k, 0)]),
                     FlattenSeq([k \in DOMAIN Schedule |-> Pass(k, 1)]),
                     FlattenSeq([k \in DOMAIN Schedule |-> Pass(k, 2)]) >>
  BY Zenon DEF Programs, PerLevel
<1>11. Program(lv) = FlattenSeq(seqs)
  BY <1>10 DEF Program, Levels
<1>12. Passes = << FlattenSeq([k \in DOMAIN Schedule |-> [i \in DOMAIN Pass(k, 0) |-> k]]),
                   FlattenSeq([k \in DOMAIN Schedule |-> [i \in DOMAIN Pass(k, 1) |-> k]]),
                   FlattenSeq([k \in DOMAIN Schedule |-> [i \in DOMAIN Pass(k, 2) |-> k]]) >>
  BY Zenon DEF Passes, PerLevel
<1>13. \A i : PassOf(lv, i) = FlattenSeq(nums)[i]
  <2>1. Passes[lv + 1] = FlattenSeq(nums)
    BY <1>12 DEF Levels
  <2> HIDE DEF nums
  <2> QED BY <2>1 DEF PassOf
<1> HIDE DEF seqs, nums, len
<1>14. /\ base \in [0 .. n -> Nat] /\ base[0] = 0
       /\ \A k \in 1 .. n : base[k] = base[k - 1] + len[k]
  BY <1>5 DEF Bases
<1>15. PICK P, Q : P = FlattenSeq(seqs) /\ Q = FlattenSeq(nums)
  OBVIOUS
<1>16. Listed(P) /\ Len(P) = base[n]
  <2>1. CASE n = 0
    <3>1. P = seqs
      BY <1>6, <1>15, <2>1 DEF FlattenSeq
    <3> QED BY <1>6, <1>14, <2>1, <3>1 DEF Listed
  <2>2. CASE n # 0
    <3>1. EndToEnd(P, n, seqs, base)
      <4>1. \A k \in 1 .. n : base[k] = base[k - 1] + Len(seqs[k])
        BY <1>8, <1>14
      <4>2. \A k \in 1 .. n : Listed(seqs[k])
        BY <1>8
      <4>3. ToLay(n, seqs, base)
        BY <1>2, <1>6, <1>14, <2>2, <4>1, <4>2, Zenon DEF ToLay
      <4> QED BY <1>15, <4>3, Flattened
    <3> QED BY <3>1 DEF EndToEnd
  <2> QED BY <2>1, <2>2
<1>17. \A k \in 1 .. n, m \in Nat \ {0} : m <= len[k] =>
         P[base[k - 1] + m] = seqs[k][m] /\ Q[base[k - 1] + m] = nums[k][m]
  <2> SUFFICES ASSUME NEW k \in 1 .. n, NEW m \in Nat \ {0}, m <= len[k]
               PROVE  P[base[k - 1] + m] = seqs[k][m] /\ Q[base[k - 1] + m] = nums[k][m]
    OBVIOUS
  <2>0. n # 0
    BY <1>2
  <2>1. EndToEnd(P, n, seqs, base)
    <3>1. \A j \in 1 .. n : base[j] = base[j - 1] + Len(seqs[j])
      BY <1>8, <1>14
    <3>2. \A j \in 1 .. n : Listed(seqs[j])
      BY <1>8
    <3>3. ToLay(n, seqs, base)
      BY <1>2, <1>6, <1>14, <2>0, <3>1, <3>2, Zenon DEF ToLay
    <3> QED BY <1>15, <3>3, Flattened
  <2>2. EndToEnd(Q, n, nums, base)
    <3>1. \A j \in 1 .. n : base[j] = base[j - 1] + Len(nums[j])
      BY <1>9, <1>14
    <3>2. \A j \in 1 .. n : Listed(nums[j])
      BY <1>9
    <3>3. ToLay(n, nums, base)
      BY <1>2, <1>6, <1>14, <2>0, <3>1, <3>2, Zenon DEF ToLay
    <3> QED BY <1>15, <3>3, Flattened
  <2>3. m <= Len(seqs[k]) /\ m <= Len(nums[k])
    BY <1>8, <1>9
  <2> QED BY <2>1, <2>2, <2>3, Zenon DEF EndToEnd
<1>18. ASSUME NEW k \in 1 .. n, NEW m \in Nat \ {0}, m <= Len(Pass(k, lv))
       PROVE  /\ base[k - 1] + m \in DOMAIN P
              /\ P[base[k - 1] + m] = Pass(k, lv)[m]
              /\ PassOf(lv, base[k - 1] + m) = k
  <2>1. m <= len[k]
    BY <1>3, <1>18
  <2>8. P[base[k - 1] + m] = seqs[k][m] /\ Q[base[k - 1] + m] = nums[k][m]
    BY <1>17, <2>1, Zenon
  <2>9. seqs[k] = Pass(k, lv) /\ nums[k][m] = k
    BY <1>7, <1>9, <2>1
  <2>2. P[base[k - 1] + m] = Pass(k, lv)[m] /\ PassOf(lv, base[k - 1] + m) = k
    BY <1>13, <1>15, <2>8, <2>9, Zenon
  <2>3. base[k] <= base[n] /\ base[k] = base[k - 1] + len[k]
    <3>1. k \in 0 .. n /\ n \in 0 .. n /\ k <= n
      BY <1>2
    <3> QED BY <1>2, <1>4, <1>5, <1>14, <3>1, BasesGrow
  <2>4. PICK p, q, v, u : p = base[k - 1] /\ q = base[n] /\ v = len[k] /\ u = base[k]
    OBVIOUS
  <2>5. p \in Nat /\ q \in Nat /\ v \in Nat /\ u = p + v /\ u <= q /\ m <= v
    <3>1. k - 1 \in 0 .. n /\ n \in 0 .. n
      BY <1>2
    <3> QED BY <1>4, <1>14, <2>1, <2>3, <2>4, <3>1
  <2>6. p + m \in 1 .. q
    BY <2>5
  <2>7. DOMAIN P = 1 .. q
    BY <1>16, <2>4 DEF Listed
  <2> QED BY <2>2, <2>4, <2>6, <2>7
<1>19. ASSUME NEW i \in DOMAIN P
       PROVE  \E k \in 1 .. n, m \in Nat \ {0} : m <= Len(Pass(k, lv)) /\ i = base[k - 1] + m
  <2>1. i \in 1 .. base[n]
    BY <1>16 DEF Listed
  <2>2. PICK k \in 1 .. n, m \in Nat \ {0} : m <= len[k] /\ i = base[k - 1] + m
    <3>1. Covered(n, len, base)
      BY <1>2, <1>4, <1>5, AllCovered
    <3> QED BY <2>1, <3>1, Zenon DEF Covered
  <2> QED BY <1>3, <2>2
<1>20. ASSUME NEW j \in 1 .. n, NEW k \in 1 .. n, j < k
       PROVE  base[j] <= base[k - 1]
  <2>1. j \in 0 .. n /\ k - 1 \in 0 .. n /\ j <= k - 1
    BY <1>2, <1>20
  <2> QED BY <1>2, <1>4, <1>5, <2>1, BasesGrow
<1>21. \A k \in 1 .. n : base[k] = base[k - 1] + Len(Pass(k, lv))
  BY <1>3, <1>14
<1>22. Laid(lv, base)
  <2>1. P = Program(lv) /\ Len(P) = base[n] /\ DOMAIN P = 1 .. base[n]
    BY <1>11, <1>15, <1>16 DEF Listed
  <2> QED BY <1>1, <1>2, <1>14, <1>18, <1>19, <1>20, <1>21, <2>1 DEF Laid
<1> QED BY <1>22

------------------------------------------------------------------------------
(* The statements of a program, by pass and place. *)

(* Every statement of the program is one of some pass. *)
LEMMA Located ==
  ASSUME NEW lv \in Levels, NEW base, Laid(lv, base), NEW i \in DOMAIN Program(lv)
  PROVE  \E k \in DOMAIN Schedule, m \in Nat \ {0} :
           /\ m <= Len(Pass(k, lv)) /\ i = base[k - 1] + m
           /\ Program(lv)[i] = Pass(k, lv)[m] /\ PassOf(lv, i) = k
<1>1. PICK n : n = Len(Schedule) /\ DOMAIN Schedule = 1 .. n
  BY DEF Laid
<1>2. PICK k \in 1 .. n, m \in Nat \ {0} : m <= Len(Pass(k, lv)) /\ i = base[k - 1] + m
  BY <1>1, Zenon DEF Laid
<1>3. Program(lv)[i] = Pass(k, lv)[m] /\ PassOf(lv, i) = k
  BY <1>1, <1>2, Zenon DEF Laid
<1> QED BY <1>1, <1>2, <1>3

(* Every statement of a pass is well formed, and a kernel at its place. *)
LEMMA PassStatement ==
  ASSUME NEW lv \in Levels, NEW k \in DOMAIN Schedule, NEW F, F = Pass(k, lv),
         NEW m \in Nat \ {0}, m <= Len(F)
  PROVE  /\ StmtOK(F[m], Schedule[k].layer)
         /\ F[m].kind = "kernel" /\ Schedule[k].dir = "forward" => ForwardKernel(F[m], m, lv, ForwardExtra(lv))
         /\ F[m].kind = "kernel" /\ Schedule[k].dir # "forward" => BackwardKernel(F[m], m, lv, BackwardExtra(lv))
<1>1. PICK l : l = Schedule[k].layer
  OBVIOUS
<1>2. CASE Schedule[k].dir = "forward"
  <2>1. PICK c : c = ForwardExtra(lv)
    OBVIOUS
  <2>2. Len(F) = 31 + c /\ ForwardTable(F, l, lv, c) /\ (c = IF lv = 2 THEN 4 ELSE 0)
    BY <1>1, <1>2, <2>1, PassShape DEF ForwardExtra
  <2>3. m \in 1 .. 31 + c
    BY <2>2
  <2>4. StmtOK(F[m], l)
    BY <2>2, <2>3, ForwardStmts
  <2>5. F[m].kind = "kernel" => ForwardKernel(F[m], m, lv, c)
    BY <2>2, <2>3, ForwardKernels
  <2> QED BY <1>1, <1>2, <2>1, <2>4, <2>5
<1>3. CASE Schedule[k].dir # "forward"
  <2>1. PICK c : c = BackwardExtra(lv)
    OBVIOUS
  <2>2. Len(F) = 31 + c /\ BackwardTable(F, l, lv, c) /\ (c = IF lv = 0 THEN 0 ELSE IF lv = 1 THEN 2 ELSE 4)
    BY <1>1, <1>3, <2>1, PassShape DEF BackwardExtra
  <2>3. m \in 1 .. 31 + c
    BY <2>2
  <2>4. StmtOK(F[m], l)
    BY <2>2, <2>3, BackwardStmts
  <2>5. F[m].kind = "kernel" => BackwardKernel(F[m], m, lv, c)
    BY <2>2, <2>3, BackwardKernels
  <2> QED BY <1>1, <1>3, <2>1, <2>4, <2>5
<1> QED BY <1>2, <1>3

Stmts(P) ==
  /\ Len(P) \in Nat
  /\ DOMAIN P = 1 .. Len(P)
  /\ \A i \in DOMAIN P :
       /\ P[i].layer \in Layers
       /\ P[i].stream \in Streams \cup {"host"}
       /\ P[i].when \in SUBSET BOOLEAN
       /\ P[i].kind = "kernel" => P[i].stream \in Streams /\ P[i].need \in 1 .. NumSms
       /\ P[i].name # "" => P[i].kind = "kernel"
       /\ P[i].kind = "poll" => P[i].stream = "host"
       /\ P[i].kind = "record_event" => P[i].when = BOOLEAN /\ P[i].stream \in Streams
       /\ P[i].kind = "wait_stream" => P[i].on \in Streams
       /\ P[i].kind = "wait_started" => P[i].on \in Flags
       /\ P[i].name \in {"dispatch_main", "dispatch_grads"} => P[i].when = BOOLEAN

(* Every statement of the program is well formed. *)
LEMMA ProgramStmts == ASSUME NEW lv \in Levels PROVE Stmts(Program(lv))
<1>1. PICK base : Laid(lv, base)
  BY ProgramLaid
<1>2. PICK P : P = Program(lv)
  OBVIOUS
<1>3. Len(P) \in Nat /\ DOMAIN P = 1 .. Len(P)
  BY <1>1, <1>2 DEF Laid
<1>4. ASSUME NEW i \in DOMAIN P
      PROVE  \E l \in Layers : StmtOK(P[i], l)
  <2>1. PICK k \in DOMAIN Schedule, m \in Nat \ {0} :
           /\ m <= Len(Pass(k, lv)) /\ i = base[k - 1] + m
           /\ P[i] = Pass(k, lv)[m] /\ PassOf(lv, i) = k
    BY <1>1, <1>2, Located
  <2>2. StmtOK(P[i], Schedule[k].layer)
    BY <2>1, PassStatement
  <2>3. Schedule[k].layer \in Layers
    BY DEF Layers
  <2> QED BY <2>2, <2>3
<1>5. Stmts(P)
  BY <1>3, <1>4 DEF Stmts, StmtOK
<1> QED BY <1>2, <1>5

(* A level's poll is the ninth statement of a forward pass, and what depends
   on the tiles comes after it. *)
LEMMA PassPolls ==
  ASSUME NEW lv \in Levels, NEW k \in DOMAIN Schedule, NEW F, F = Pass(k, lv),
         NEW m \in Nat \ {0}, m <= Len(F)
  PROVE  /\ F[m].kind = "poll" => Schedule[k].dir = "forward" /\ m = 9
         /\ Schedule[k].dir = "forward" /\ F[m].when # BOOLEAN => m \in 10 .. 22
<1>1. PICK l : l = Schedule[k].layer
  OBVIOUS
<1> DEFINE Plain(st) == st.kind # "poll" /\ st.when = BOOLEAN
<1>a. /\ \A names : Plain(Alloc(l, names)) /\ Plain(Free(l, names))
      /\ \A f : Plain(Bump(l, f))
      /\ \A s, t : Plain(WaitStream(s, l, t))
      /\ \A s, e : Plain(WaitEvent(s, l, e)) /\ Plain(RecordEvent(s, l, e))
      /\ \A s, f : Plain(WaitStarted(s, l, f))
      /\ \A s, need, name, reads, writes : Plain(Kernel(s, l, name, need, reads, writes))
      /\ Poll(l).when = BOOLEAN
  BY DEF Alloc, Free, Poll, Bump, WaitStream, WaitEvent, RecordEvent, WaitStarted, Kernel, Stmt
<1>b. /\ \A names : WithTiles(Alloc(l, names)).kind # "poll"
      /\ \A f : WithTiles(Bump(l, f)).kind # "poll"
      /\ \A s, f : WithTiles(WaitStarted(s, l, f)).kind # "poll"
      /\ \A s, need, name, reads, writes :
           /\ WithTiles(Kernel(s, l, name, need, reads, writes)).kind # "poll"
           /\ WithoutTiles(Kernel(s, l, name, need, reads, writes)).kind # "poll"
  BY DEF WithTiles, WithoutTiles, Alloc, Bump, WaitStarted, Kernel, Stmt
<1> HIDE DEF Plain
<1>p. \A st : Plain(st) => st.kind # "poll" /\ st.when = BOOLEAN
  BY DEF Plain
<1>2. CASE Schedule[k].dir = "forward"
  <2>1. PICK c : c = ForwardExtra(lv)
    OBVIOUS
  <2>2. Len(F) = 31 + c /\ ForwardTable(F, l, lv, c) /\ (c = IF lv = 2 THEN 4 ELSE 0)
    BY <1>1, <1>2, <2>1, PassShape DEF ForwardExtra
  <2>3. \A i \in {1, 2, 3, 4, 5, 6, 7, 8, 10, 11, 12, 13, 14, 15, 16, 17, 18, 23, 24} : Plain(F[i])
    BY <1>a, <2>2 DEF ForwardTable
  <2>4. \A i \in {19, 20, 21, 22} : F[i].kind # "poll"
    BY <1>b, <2>2 DEF ForwardTable
  <2>5. lv = 2 => \A i \in {25, 26, 27, 28} : Plain(F[i])
    BY <1>a, <2>2 DEF ForwardTable
  <2>6. \A i \in {25 + c, 26 + c, 27 + c, 28 + c, 29 + c, 30 + c, 31 + c} : Plain(F[i])
    BY <1>a, <2>2 DEF ForwardTable
  <2>7. F[9] = Poll(l)
    BY <2>2 DEF ForwardTable
  <2>8. \/ m \in {1, 2, 3, 4, 5, 6, 7, 8, 10, 11, 12, 13, 14, 15, 16, 17, 18, 23, 24}
        \/ m \in {19, 20, 21, 22} \/ m = 9
        \/ lv = 2 /\ m \in {25, 26, 27, 28}
        \/ m \in {25 + c, 26 + c, 27 + c, 28 + c, 29 + c, 30 + c, 31 + c}
    BY <2>2
  <2>9. m \in {19, 20, 21, 22} \/ m = 9 \/ Plain(F[m])
    <3>1. CASE m \in {1, 2, 3, 4, 5, 6, 7, 8, 10, 11, 12, 13, 14, 15, 16, 17, 18, 23, 24}
      BY <2>3, <3>1, Zenon
    <3>2. CASE lv = 2 /\ m \in {25, 26, 27, 28}
      BY <2>5, <3>2, Zenon
    <3>3. CASE m \in {25 + c, 26 + c, 27 + c, 28 + c, 29 + c, 30 + c, 31 + c}
      BY <2>6, <3>3, Zenon
    <3> QED BY <2>8, <3>1, <3>2, <3>3, Zenon
  <2> QED BY <1>2, <1>a, <1>p, <2>4, <2>7, <2>9
<1>3. CASE Schedule[k].dir # "forward"
  <2>1. PICK c : c = BackwardExtra(lv)
    OBVIOUS
  <2>2. Len(F) = 31 + c /\ BackwardTable(F, l, lv, c) /\ (c = IF lv = 0 THEN 0 ELSE IF lv = 1 THEN 2 ELSE 4)
    BY <1>1, <1>3, <2>1, PassShape DEF BackwardExtra
  <2>h. BackwardHead(F, l)
    BY <2>2 DEF BackwardTable
  <2>m. BackwardMiddle(F, l, lv)
    BY <2>2 DEF BackwardTable
  <2>t. BackwardTail(F, l, lv, c)
    BY <2>2 DEF BackwardTable
  <2>3. \A i \in {1, 2, 3, 4, 5, 6, 7, 8, 9, 10, 11, 12, 13, 14, 15, 16} : Plain(F[i])
    BY <1>a, <2>h, SMTT(30) DEF BackwardHead
  <2>4. /\ lv = 1 => \A i \in {17, 18} : F[i].kind # "poll"
        /\ lv = 2 => \A i \in {17, 18, 19, 20} : F[i].kind # "poll"
    BY <1>b, <2>m DEF BackwardMiddle
  <2>0. c \in {0, 2, 4}
    BY <2>2
  <2>5. \A i \in {17 + c, 18 + c, 19 + c, 20 + c, 23 + c, 24 + c, 25 + c} : F[i].kind # "poll"
    <3>1. \A i \in {17 + c, 18 + c, 19 + c, 20 + c} : F[i].kind # "poll"
      BY <1>b, <2>t, <2>0, SMTT(20) DEF BackwardTail
    <3>2. \A i \in {23 + c, 24 + c, 25 + c} : F[i].kind # "poll"
      BY <1>b, <2>t, <2>0, SMTT(20) DEF BackwardTail
    <3> QED BY <3>1, <3>2, Zenon
  <2>6. \A i \in {21 + c, 22 + c, 26 + c, 27 + c, 28 + c, 29 + c, 30 + c, 31 + c} : Plain(F[i])
    BY <1>a, <2>t, <2>0 DEF BackwardTail
  <2>7. \/ m \in {1, 2, 3, 4, 5, 6, 7, 8, 9, 10, 11, 12, 13, 14, 15, 16}
        \/ lv = 1 /\ m \in {17, 18}
        \/ lv = 2 /\ m \in {17, 18, 19, 20}
        \/ m \in {17 + c, 18 + c, 19 + c, 20 + c, 23 + c, 24 + c, 25 + c}
        \/ m \in {21 + c, 22 + c, 26 + c, 27 + c, 28 + c, 29 + c, 30 + c, 31 + c}
    BY <2>2 DEF Levels
  <2> QED BY <1>3, <1>p, <2>3, <2>4, <2>5, <2>6, <2>7
<1> QED BY <1>2, <1>3

(* The passes of one layer: its forward first. *)
LEMMA PassOrder ==
  ASSUME NEW lv \in Levels, NEW base, Laid(lv, base),
         NEW j \in DOMAIN Schedule, NEW k \in DOMAIN Schedule,
         Schedule[j].dir = "forward", Schedule[j].layer = Schedule[k].layer
  PROVE  j = k \/ (Schedule[k].dir # "forward" /\ j < k)
<1>1. /\ Schedule \in Seq([dir : {"forward", "backward"}, layer : Nat])
      /\ \A x, y \in DOMAIN Schedule : Schedule[x] = Schedule[y] => x = y
      /\ \A x \in DOMAIN Schedule : Schedule[x].dir = "backward" =>
           \E y \in 1 .. x - 1 : Schedule[y] = [dir |-> "forward", layer |-> Schedule[x].layer]
  BY ScheduleAssumption
<1>2. PICK n \in Nat : n = Len(Schedule) /\ DOMAIN Schedule = 1 .. n
  BY DEF Laid
<1>3. /\ Schedule[j] \in [dir : {"forward", "backward"}, layer : Nat]
      /\ Schedule[k] \in [dir : {"forward", "backward"}, layer : Nat]
  <2>1. PICK R : R = [dir : {"forward", "backward"}, layer : Nat]
    OBVIOUS
  <2>2. Schedule \in Seq(R)
    BY <1>1, <2>1
  <2>3. Schedule[j] \in R /\ Schedule[k] \in R
    BY <1>2, <2>2
  <2> QED BY <2>1, <2>3
<1>4. Schedule[j] = [dir |-> "forward", layer |-> Schedule[k].layer]
  BY <1>3
<1>5. CASE Schedule[k].dir = "forward"
  <2>1. Schedule[k] = [dir |-> "forward", layer |-> Schedule[k].layer]
    BY <1>3, <1>5
  <2> QED BY <1>1, <1>4, <2>1
<1>6. CASE Schedule[k].dir = "backward"
  <2>1. PICK y \in 1 .. k - 1 : Schedule[y] = [dir |-> "forward", layer |-> Schedule[k].layer]
    BY <1>1, <1>6
  <2>2. y \in DOMAIN Schedule /\ y < k
    BY <1>2
  <2>3. y = j
    BY <1>1, <1>4, <2>1, <2>2
  <2> QED BY <1>6, <2>2, <2>3
<1> QED BY <1>3, <1>5, <1>6

(* A statement of an earlier pass comes before one of a later pass. *)
LEMMA PassBefore ==
  ASSUME NEW lv \in Levels, NEW base, Laid(lv, base),
         NEW j \in DOMAIN Schedule, NEW k \in DOMAIN Schedule, j < k,
         NEW x \in Nat \ {0}, x <= Len(Pass(j, lv)), NEW y \in Nat \ {0}, y <= Len(Pass(k, lv))
  PROVE  base[j - 1] + x < base[k - 1] + y
<1>1. PICK n \in Nat : /\ n = Len(Schedule) /\ DOMAIN Schedule = 1 .. n
                       /\ base \in [0 .. n -> Nat]
                       /\ \A i \in 1 .. n : base[i] = base[i - 1] + Len(Pass(i, lv))
                       /\ \A i, h \in 1 .. n : i < h => base[i] <= base[h - 1]
  BY DEF Laid
<1>2. PICK p, q, u, v : p = base[j - 1] /\ q = base[j] /\ u = base[k - 1] /\ v = Len(Pass(j, lv))
  OBVIOUS
<1>3. j - 1 \in 0 .. n /\ j \in 0 .. n /\ k - 1 \in 0 .. n
  BY <1>1, SMTT(30)
<1>4. p \in Nat /\ q \in Nat /\ u \in Nat
  BY <1>1, <1>2, <1>3
<1>5. q = p + v /\ q <= u
  BY <1>1, <1>2
<1>6. v \in Nat
  BY <1>2, PassShape DEF Listed
<1>7. x <= v
  BY <1>2
<1>8. p + x < u + y
  BY <1>4, <1>5, <1>6, <1>7
<1> QED BY <1>2, <1>8

PollsFirst(P) ==
  \A p, i \in DOMAIN P :
    P[p].kind = "poll" /\ P[i].layer = P[p].layer /\ P[i].when # BOOLEAN => p < i

(* The poll of a pass comes before every statement that depends on tiles. *)
LEMMA ProgramPolls == ASSUME NEW lv \in Levels PROVE PollsFirst(Program(lv))
<1>1. PICK base : Laid(lv, base)
  BY ProgramLaid
<1>2. PICK P : P = Program(lv)
  OBVIOUS
<1>3. ASSUME NEW p \in DOMAIN P, NEW i \in DOMAIN P,
             P[p].kind = "poll", P[i].layer = P[p].layer, P[i].when # BOOLEAN
      PROVE  p < i
  <2>1. PICK j \in DOMAIN Schedule, x \in Nat \ {0} :
           /\ x <= Len(Pass(j, lv)) /\ p = base[j - 1] + x
           /\ P[p] = Pass(j, lv)[x]
    BY <1>1, <1>2, Located
  <2>2. PICK k \in DOMAIN Schedule, y \in Nat \ {0} :
           /\ y <= Len(Pass(k, lv)) /\ i = base[k - 1] + y
           /\ P[i] = Pass(k, lv)[y]
    BY <1>1, <1>2, Located
  <2>3. Schedule[j].dir = "forward" /\ x = 9
    BY <1>3, <2>1, PassPolls
  <2>4. P[p].layer = Schedule[j].layer
    <3>1. StmtOK(P[p], Schedule[j].layer)
      BY <2>1, PassStatement
    <3> QED BY <3>1, Zenon DEF StmtOK
  <2>5. P[i].layer = Schedule[k].layer
    <3>1. StmtOK(P[i], Schedule[k].layer)
      BY <2>2, PassStatement
    <3> QED BY <3>1, Zenon DEF StmtOK
  <2>6. j = k \/ (Schedule[k].dir # "forward" /\ j < k)
    BY <1>1, <1>3, <2>3, <2>4, <2>5, PassOrder
  <2>7. CASE j = k
    <3>1. y \in 10 .. 22
      BY <1>3, <2>2, <2>3, <2>7, PassPolls
    <3>2. PICK b : b = base[j - 1]
      OBVIOUS
    <3>3. b \in Nat
      BY <1>1, <3>2 DEF Laid
    <3> QED BY <2>1, <2>2, <2>3, <2>7, <3>1, <3>2, <3>3
  <2>8. CASE j < k
    BY <1>1, <2>1, <2>2, <2>8, PassBefore
  <2> QED BY <2>6, <2>7, <2>8
<1>4. PollsFirst(P)
  BY <1>3 DEF PollsFirst
<1> QED BY <1>2, <1>4

(* Of every kernel: the pass it belongs to and its place there. *)
LEMMA KernelPlaced ==
  ASSUME NEW lv \in Levels, NEW base, Laid(lv, base), NEW i \in DOMAIN Program(lv),
         Program(lv)[i].kind = "kernel"
  PROVE  \E k \in DOMAIN Schedule, m \in Nat \ {0} :
           /\ m <= Len(Pass(k, lv)) /\ i = base[k - 1] + m
           /\ Program(lv)[i] = Pass(k, lv)[m] /\ PassOf(lv, i) = k
           /\ Program(lv)[i].layer = Schedule[k].layer
           /\ Schedule[k].dir = "forward" => ForwardKernel(Program(lv)[i], m, lv, ForwardExtra(lv))
           /\ Schedule[k].dir # "forward" => BackwardKernel(Program(lv)[i], m, lv, BackwardExtra(lv))
<1>1. PICK k \in DOMAIN Schedule, m \in Nat \ {0} :
         /\ m <= Len(Pass(k, lv)) /\ i = base[k - 1] + m
         /\ Program(lv)[i] = Pass(k, lv)[m] /\ PassOf(lv, i) = k
  BY Located
<1>2. PICK st : st = Program(lv)[i] /\ st = Pass(k, lv)[m] /\ st.kind = "kernel"
  BY <1>1
<1>3. Schedule[k].dir = "forward" => ForwardKernel(st, m, lv, ForwardExtra(lv))
  BY <1>1, <1>2, PassStatement
<1>4. Schedule[k].dir # "forward" => BackwardKernel(st, m, lv, BackwardExtra(lv))
  BY <1>1, <1>2, PassStatement
<1>5. st.layer = Schedule[k].layer
  <2>1. StmtOK(st, Schedule[k].layer)
    BY <1>1, <1>2, PassStatement
  <2> QED BY <2>1, Zenon DEF StmtOK
<1> QED BY <1>1, <1>2, <1>3, <1>4, <1>5, Zenon

(* A name tells the stream, the direction, and the place in a pass. *)
OnCommunicate == {"memset_pre", "metadata", "memset_post", "dispatch_main", "combine",
                  "zero_arrival", "dispatch_grads", "combine_grads"}
OnCaller == {"model", "compress", "model_out", "model_bwd", "model_dx"}
StreamOf(name) == IF name \in OnCommunicate THEN "communicate"
                  ELSE IF name \in OnCaller THEN "caller" ELSE "compute"
OfForward == {"model", "memset_pre", "metadata", "memset_post", "dispatch_main", "kernel_a",
              "kernel_y", "combine", "compress", "model_out"}
ForwardPlace(name, c) ==
  CASE name = "model" -> 2
    [] name = "memset_pre" -> 7
    [] name = "metadata" -> 8
    [] name = "memset_post" -> 11
    [] name = "dispatch_main" -> 14
    [] name = "kernel_a" -> 19
    [] name = "kernel_y" -> 21
    [] name = "combine" -> 24
    [] name = "compress" -> 27
    [] OTHER -> 30 + c
BackwardPlace(name, c) ==
  CASE name = "model_bwd" -> 2
    [] name = "zero_sums" -> 7
    [] name = "index" -> 9
    [] name = "zero_arrival" -> 11
    [] name = "dispatch_grads" -> 14
    [] name = "reexpand" -> 18
    [] name = "recompute" -> 16 + c
    [] name = "kernel_y_bwd" -> 17 + c
    [] name = "kernel_a_bwd" -> 19 + c
    [] name = "combine_grads" -> 22 + c
    [] name = "dW2" -> 23 + c
    [] name = "dW1" -> 24 + c
    [] name = "zero_dW" -> 25 + c
    [] OTHER -> 30 + c

(* A forward kernel is known by its name. *)
LEMMA ForwardNamed ==
  ASSUME NEW st, NEW m, NEW lv, NEW c, ForwardKernel(st, m, lv, c)
  PROVE  st.stream = StreamOf(st.name) /\ st.name \in OfForward /\ m = ForwardPlace(st.name, c)
<1>1. ASSUME NEW stream, NEW name, NEW when, IsKernel(st, stream, name, when)
      PROVE  st.stream = stream /\ st.name = name
  BY <1>1 DEF IsKernel
<1>2. \/ m = 2 /\ st.stream = "caller" /\ st.name = "model"
      \/ m = 7 /\ st.stream = "communicate" /\ st.name = "memset_pre"
      \/ m = 8 /\ st.stream = "communicate" /\ st.name = "metadata"
      \/ m = 11 /\ st.stream = "communicate" /\ st.name = "memset_post"
      \/ m = 14 /\ st.stream = "communicate" /\ st.name = "dispatch_main"
      \/ m = 19 /\ st.stream = "compute" /\ st.name = "kernel_a"
      \/ m = 21 /\ st.stream = "compute" /\ st.name = "kernel_y"
      \/ m = 24 /\ st.stream = "communicate" /\ st.name = "combine"
      \/ m = 27 /\ st.stream = "caller" /\ st.name = "compress"
      \/ m = 30 + c /\ st.stream = "caller" /\ st.name = "model_out"
  BY <1>1, ZenonT(40) DEF ForwardKernel
<1> QED BY <1>2 DEF StreamOf, OnCommunicate, OnCaller, OfForward, ForwardPlace

(* A backward kernel is known by its name. *)
LEMMA BackwardNamed ==
  ASSUME NEW st, NEW m, NEW lv, NEW c, BackwardKernel(st, m, lv, c)
  PROVE  st.stream = StreamOf(st.name) /\ st.name \notin OfForward /\ m = BackwardPlace(st.name, c)
<1>1. ASSUME NEW stream, NEW name, NEW when, IsKernel(st, stream, name, when)
      PROVE  st.stream = stream /\ st.name = name
  BY <1>1 DEF IsKernel
<1>2. CASE m = 2 /\ IsKernel(st, "caller", "model_bwd", BOOLEAN)
  <2>1. st.stream = "caller" /\ st.name = "model_bwd"
    BY <1>1, <1>2, Zenon
  <2>2. m = 2
    BY <1>2, Zenon
  <2> QED BY <2>1, <2>2 DEF StreamOf, OnCommunicate, OnCaller, OfForward, BackwardPlace
<1>3. CASE m = 7 /\ IsKernel(st, "compute", "zero_sums", BOOLEAN)
  <2>1. st.stream = "compute" /\ st.name = "zero_sums"
    BY <1>1, <1>3, Zenon
  <2>2. m = 7
    BY <1>3, Zenon
  <2> QED BY <2>1, <2>2 DEF StreamOf, OnCommunicate, OnCaller, OfForward, BackwardPlace
<1>4. CASE m = 9 /\ IsKernel(st, "compute", "index", BOOLEAN)
  <2>1. st.stream = "compute" /\ st.name = "index"
    BY <1>1, <1>4, Zenon
  <2>2. m = 9
    BY <1>4, Zenon
  <2> QED BY <2>1, <2>2 DEF StreamOf, OnCommunicate, OnCaller, OfForward, BackwardPlace
<1>5. CASE m = 11 /\ IsKernel(st, "communicate", "zero_arrival", BOOLEAN)
  <2>1. st.stream = "communicate" /\ st.name = "zero_arrival"
    BY <1>1, <1>5, Zenon
  <2>2. m = 11
    BY <1>5, Zenon
  <2> QED BY <2>1, <2>2 DEF StreamOf, OnCommunicate, OnCaller, OfForward, BackwardPlace
<1>6. CASE m = 14 /\ IsKernel(st, "communicate", "dispatch_grads", BOOLEAN)
  <2>1. st.stream = "communicate" /\ st.name = "dispatch_grads"
    BY <1>1, <1>6, Zenon
  <2>2. m = 14
    BY <1>6, Zenon
  <2> QED BY <2>1, <2>2 DEF StreamOf, OnCommunicate, OnCaller, OfForward, BackwardPlace
<1>7. CASE lv = 2 /\ m = 18 /\ IsKernel(st, "compute", "reexpand", {TRUE})
  <2>1. st.stream = "compute" /\ st.name = "reexpand"
    BY <1>1, <1>7, Zenon
  <2>2. lv = 2 /\ m = 18
    BY <1>7, Zenon
  <2> QED BY <2>1, <2>2 DEF StreamOf, OnCommunicate, OnCaller, OfForward, BackwardPlace
<1>8. CASE lv # 0 /\ m = 16 + c /\ IsKernel(st, "compute", "recompute", {TRUE})
  <2>1. st.stream = "compute" /\ st.name = "recompute"
    BY <1>1, <1>8, Zenon
  <2>2. lv # 0 /\ m = 16 + c
    BY <1>8, Zenon
  <2> QED BY <2>1, <2>2 DEF StreamOf, OnCommunicate, OnCaller, OfForward, BackwardPlace
<1>9. CASE m = 17 + c /\ IsKernel(st, "compute", "kernel_y_bwd", {TRUE})
  <2>1. st.stream = "compute" /\ st.name = "kernel_y_bwd"
    BY <1>1, <1>9, Zenon
  <2>2. m = 17 + c
    BY <1>9, Zenon
  <2> QED BY <2>1, <2>2 DEF StreamOf, OnCommunicate, OnCaller, OfForward, BackwardPlace
<1>10. CASE m = 19 + c /\ IsKernel(st, "compute", "kernel_a_bwd", {TRUE})
  <2>1. st.stream = "compute" /\ st.name = "kernel_a_bwd"
    BY <1>1, <1>10, Zenon
  <2>2. m = 19 + c
    BY <1>10, Zenon
  <2> QED BY <2>1, <2>2 DEF StreamOf, OnCommunicate, OnCaller, OfForward, BackwardPlace
<1>11. CASE m = 22 + c /\ IsKernel(st, "communicate", "combine_grads", BOOLEAN)
  <2>1. st.stream = "communicate" /\ st.name = "combine_grads"
    BY <1>1, <1>11, Zenon
  <2>2. m = 22 + c
    BY <1>11, Zenon
  <2> QED BY <2>1, <2>2 DEF StreamOf, OnCommunicate, OnCaller, OfForward, BackwardPlace
<1>12. CASE m = 23 + c /\ IsKernel(st, "compute", "dW2", {TRUE})
  <2>1. st.stream = "compute" /\ st.name = "dW2"
    BY <1>1, <1>12, Zenon
  <2>2. m = 23 + c
    BY <1>12, Zenon
  <2> QED BY <2>1, <2>2 DEF StreamOf, OnCommunicate, OnCaller, OfForward, BackwardPlace
<1>13. CASE m = 24 + c /\ IsKernel(st, "compute", "dW1", {TRUE})
  <2>1. st.stream = "compute" /\ st.name = "dW1"
    BY <1>1, <1>13, Zenon
  <2>2. m = 24 + c
    BY <1>13, Zenon
  <2> QED BY <2>1, <2>2 DEF StreamOf, OnCommunicate, OnCaller, OfForward, BackwardPlace
<1>14. CASE m = 25 + c /\ IsKernel(st, "compute", "zero_dW", {FALSE})
  <2>1. st.stream = "compute" /\ st.name = "zero_dW"
    BY <1>1, <1>14, Zenon
  <2>2. m = 25 + c
    BY <1>14, Zenon
  <2> QED BY <2>1, <2>2 DEF StreamOf, OnCommunicate, OnCaller, OfForward, BackwardPlace
<1>15. CASE m = 30 + c /\ IsKernel(st, "caller", "model_dx", BOOLEAN)
  <2>1. st.stream = "caller" /\ st.name = "model_dx"
    BY <1>1, <1>15, Zenon
  <2>2. m = 30 + c
    BY <1>15, Zenon
  <2> QED BY <2>1, <2>2 DEF StreamOf, OnCommunicate, OnCaller, OfForward, BackwardPlace
<1> QED BY <1>2, <1>3, <1>4, <1>5, <1>6, <1>7, <1>8, <1>9, <1>10, <1>11, <1>12, <1>13, <1>14,
           <1>15, Zenon DEF BackwardKernel

(* Two kernels of one name and layer are one kernel. *)
LEMMA SameNamePass ==
  ASSUME NEW lv \in Levels, NEW base, Laid(lv, base), NEW i \in DOMAIN Program(lv),
         NEW j \in DOMAIN Program(lv),
         Program(lv)[i].kind = "kernel", Program(lv)[j].kind = "kernel",
         Program(lv)[i].name = Program(lv)[j].name, PassOf(lv, i) = PassOf(lv, j)
  PROVE  i = j
<1>1. PICK k \in DOMAIN Schedule, m \in Nat \ {0} :
           /\ i = base[k - 1] + m /\ PassOf(lv, i) = k
           /\ Schedule[k].dir = "forward" => ForwardKernel(Program(lv)[i], m, lv, ForwardExtra(lv))
           /\ Schedule[k].dir # "forward" => BackwardKernel(Program(lv)[i], m, lv, BackwardExtra(lv))
  BY KernelPlaced
<1>2. PICK h \in DOMAIN Schedule, x \in Nat \ {0} :
           /\ j = base[h - 1] + x /\ PassOf(lv, j) = h
           /\ Schedule[h].dir = "forward" => ForwardKernel(Program(lv)[j], x, lv, ForwardExtra(lv))
           /\ Schedule[h].dir # "forward" => BackwardKernel(Program(lv)[j], x, lv, BackwardExtra(lv))
  BY KernelPlaced
<1>3. h = k
  BY <1>1, <1>2
<1>4. x = m
  <2>1. CASE Schedule[k].dir = "forward"
    <3>1. m = ForwardPlace(Program(lv)[i].name, ForwardExtra(lv))
      BY <1>1, <2>1, ForwardNamed
    <3>2. x = ForwardPlace(Program(lv)[j].name, ForwardExtra(lv))
      BY <1>2, <1>3, <2>1, ForwardNamed
    <3> QED BY <3>1, <3>2
  <2>2. CASE Schedule[k].dir # "forward"
    <3>1. m = BackwardPlace(Program(lv)[i].name, BackwardExtra(lv))
      BY <1>1, <2>2, BackwardNamed
    <3>2. x = BackwardPlace(Program(lv)[j].name, BackwardExtra(lv))
      BY <1>2, <1>3, <2>2, BackwardNamed
    <3> QED BY <3>1, <3>2
  <2> QED BY <2>1, <2>2
<1> QED BY <1>1, <1>2, <1>3, <1>4

(* Every kernel's stream, and its direction, follow from its name. *)
LEMMA KernelNamed ==
  ASSUME NEW lv \in Levels, NEW i \in DOMAIN Program(lv), Program(lv)[i].kind = "kernel"
  PROVE  /\ Program(lv)[i].stream = StreamOf(Program(lv)[i].name)
         /\ PassOf(lv, i) \in DOMAIN Schedule
         /\ Program(lv)[i].layer = Schedule[PassOf(lv, i)].layer
         /\ Program(lv)[i].name \in OfForward <=> Schedule[PassOf(lv, i)].dir = "forward"
<1>1. PICK base : Laid(lv, base)
  BY ProgramLaid
<1>2. PICK k \in DOMAIN Schedule, m \in Nat \ {0} :
           /\ i = base[k - 1] + m /\ PassOf(lv, i) = k
           /\ Program(lv)[i].layer = Schedule[k].layer
           /\ Schedule[k].dir = "forward" => ForwardKernel(Program(lv)[i], m, lv, ForwardExtra(lv))
           /\ Schedule[k].dir # "forward" => BackwardKernel(Program(lv)[i], m, lv, BackwardExtra(lv))
  BY <1>1, KernelPlaced
<1> QED BY <1>2, ForwardNamed, BackwardNamed

(* The host bumps a flag just before it launches the kernel the flag counts:
   one statement before, or two where the event comes between. *)
Lead(f) == IF f = "dispatch_grads" THEN 2 ELSE 1
IsBump(st, flag, when) == st.kind = "bump" /\ st.on = flag /\ st.when = when

(* Which statements bump an issued count. *)
LEMMA WhichAreBumps ==
  ASSUME NEW l
  PROVE  \A f : IsBump(Bump(l, f), f, BOOLEAN) /\ IsBump(WithTiles(Bump(l, f)), f, {TRUE})
<1>1. \A f : Fields(Bump(l, f), "bump", l, "host", "", f, BOOLEAN, 0, {}, {})
  BY Constructors
<1>2. \A f : Fields(WithTiles(Bump(l, f)), "bump", l, "host", "", f, {TRUE}, 0, {}, {})
  BY ConstructorsWithTiles
<1> QED BY <1>1, <1>2, Zenon DEF Fields, IsBump

(* The bump of a kernel with a started flag is right before its launch, or
   before the record of the event in front of it. *)
LEMMA PassFlags ==
  ASSUME NEW lv \in Levels, NEW k \in DOMAIN Schedule, NEW F, F = Pass(k, lv),
         NEW m \in Nat \ {0}, m <= Len(F), F[m].name \in Flags, F[m].kind = "kernel"
  PROVE  /\ m - Lead(F[m].name) \in Nat \ {0}
         /\ IsBump(F[m - Lead(F[m].name)], F[m].name, F[m].when)
<1>1. PICK l : l = Schedule[k].layer
  OBVIOUS
<1>2. CASE Schedule[k].dir = "forward"
  <2>1. PICK c : c = ForwardExtra(lv)
    OBVIOUS
  <2>2. ForwardTable(F, l, lv, c) /\ ForwardKernel(F[m], m, lv, c)
    BY <1>1, <1>2, <2>1, PassShape, PassStatement
  <2>3. F[m].name \in OfForward /\ m = ForwardPlace(F[m].name, c)
    BY <2>2, ForwardNamed
  <2>4. \/ F[m].name = "dispatch_main" /\ m = 14
        \/ F[m].name = "kernel_y" /\ m = 21
    BY <2>3 DEF OfForward, Flags, ForwardPlace
  <2>5. CASE F[m].name = "dispatch_main" /\ m = 14
    <3>1. F[13] = Bump(l, "dispatch_main") /\ F[14].when = BOOLEAN
      <4>2. F[14] = Kernel("communicate", l, "dispatch_main", CommSms, {"x", "pre"},
                           {"pool", "post", "slots"})
        BY <2>2 DEF ForwardTable
      <4>1. IsKernel(F[14], "communicate", "dispatch_main", BOOLEAN)
        BY <4>2, WhichAreKernels, Zenon
      <4> QED BY <2>2, <4>1 DEF ForwardTable, IsKernel
    <3>2. m - Lead(F[m].name) = 13
      BY <2>5 DEF Lead
    <3>3. IsBump(F[13], "dispatch_main", BOOLEAN)
      BY <3>1, WhichAreBumps
    <3> QED BY <2>5, <3>1, <3>2, <3>3
  <2>6. CASE F[m].name = "kernel_y" /\ m = 21
    <3>1. F[20] = WithTiles(Bump(l, "kernel_y"))
      BY <2>2 DEF ForwardTable
    <3>2. m - Lead(F[m].name) = 20
      BY <2>6 DEF Lead
    <3>3. IsBump(F[20], "kernel_y", {TRUE})
      BY <3>1, WhichAreBumps, Zenon
    <3>4. F[21].when = {TRUE}
      <4>2. F[21] = WithTiles(Kernel("compute", l, "kernel_y", NumSms, {"postact", "pre", "slots"},
                                     {"o", "slots"}))
        BY <2>2 DEF ForwardTable
      <4>1. IsKernel(F[21], "compute", "kernel_y", {TRUE})
        BY <4>2, WhichAreKernelsWithTiles, Zenon
      <4> QED BY <4>1, Zenon DEF IsKernel
    <3>5. IsBump(F[20], "kernel_y", F[21].when)
      BY <3>3, <3>4, Zenon
    <3> QED BY <2>6, <3>2, <3>5
  <2> QED BY <2>4, <2>5, <2>6
<1>3. CASE Schedule[k].dir # "forward"
  <2>1. PICK c : c = BackwardExtra(lv)
    OBVIOUS
  <2>2. BackwardTable(F, l, lv, c) /\ BackwardKernel(F[m], m, lv, c)
    BY <1>1, <1>3, <2>1, PassShape, PassStatement
  <2>3. F[m].name \notin OfForward /\ m = BackwardPlace(F[m].name, c)
    BY <2>2, BackwardNamed
  <2>0. c \in {0, 2, 4}
    BY <2>1 DEF BackwardExtra
  <2>4. \/ F[m].name = "dispatch_grads" /\ m = 14
        \/ F[m].name = "kernel_a_bwd" /\ m = 19 + c
    BY <2>3 DEF OfForward, Flags, BackwardPlace
  <2>5. CASE F[m].name = "dispatch_grads" /\ m = 14
    <3>1. F[12] = Bump(l, "dispatch_grads") /\ F[14].when = BOOLEAN
      <4>0. BackwardHead(F, l)
        BY <2>2 DEF BackwardTable
      <4>2. F[14] = Kernel("communicate", l, "dispatch_grads", CommSms,
                           {"dL_dy", "pre", "post", "slots"},
                           {"dL_do_pool", "arrival"})
        BY <4>0 DEF BackwardHead
      <4>1. IsKernel(F[14], "communicate", "dispatch_grads", BOOLEAN)
        BY <4>2, WhichAreKernels, Zenon
      <4> QED BY <4>0, <4>1 DEF BackwardHead, IsKernel
    <3>2. m - Lead(F[m].name) = 12
      BY <2>5 DEF Lead
    <3>3. IsBump(F[12], "dispatch_grads", BOOLEAN)
      BY <3>1, WhichAreBumps
    <3> QED BY <2>5, <3>1, <3>2, <3>3
  <2>6. CASE F[m].name = "kernel_a_bwd" /\ m = 19 + c
    <3>0. BackwardTail(F, l, lv, c)
      BY <2>2 DEF BackwardTable
    <3>1. F[18 + c] = WithTiles(Bump(l, "kernel_a_bwd"))
      BY <3>0 DEF BackwardTail
    <3>2. m - Lead(F[m].name) = 18 + c
      BY <2>0, <2>6 DEF Lead
    <3>3. IsBump(F[18 + c], "kernel_a_bwd", {TRUE})
      BY <3>1, WhichAreBumps, Zenon
    <3>4. F[19 + c].when = {TRUE}
      <4>2. F[19 + c] = WithTiles(Kernel("compute", l, "kernel_a_bwd", NumSms,
                                         {"scratch", "arrival", "pre", "slots"}, {"sums"}))
        BY <3>0 DEF BackwardTail
      <4>1. IsKernel(F[19 + c], "compute", "kernel_a_bwd", {TRUE})
        BY <4>2, WhichAreKernelsWithTiles, Zenon
      <4> QED BY <4>1, Zenon DEF IsKernel
    <3>5. IsBump(F[18 + c], "kernel_a_bwd", F[19 + c].when)
      BY <3>3, <3>4, Zenon
    <3>6. 18 + c \in Nat \ {0}
      BY <2>0
    <3> QED BY <2>6, <3>2, <3>5, <3>6
  <2> QED BY <2>4, <2>5, <2>6
<1> QED BY <1>2, <1>3

(* A kernel behind a started gate: the gate is between it and the kernel the
   gate is about. *)
IsGate(st, stream, flag) == st.kind = "wait_started" /\ st.stream = stream /\ st.on = flag

(* Which statements wait for a started flag. *)
LEMMA WhichAreGates ==
  ASSUME NEW l
  PROVE  \A s, f : /\ IsGate(WaitStarted(s, l, f), s, f) /\ WaitStarted(s, l, f).when = BOOLEAN
                   /\ IsGate(WithTiles(WaitStarted(s, l, f)), s, f)
                   /\ WithTiles(WaitStarted(s, l, f)).when = {TRUE}
<1>1. \A s, f : Fields(WaitStarted(s, l, f), "wait_started", l, s, "", f, BOOLEAN, 0, {}, {})
  BY Constructors
<1>2. \A s, f : Fields(WithTiles(WaitStarted(s, l, f)), "wait_started", l, s, "", f, {TRUE}, 0, {}, {})
  BY ConstructorsWithTiles
<1> SUFFICES ASSUME NEW s, NEW f
             PROVE  /\ IsGate(WaitStarted(s, l, f), s, f) /\ WaitStarted(s, l, f).when = BOOLEAN
                    /\ IsGate(WithTiles(WaitStarted(s, l, f)), s, f)
                    /\ WithTiles(WaitStarted(s, l, f)).when = {TRUE}
  OBVIOUS
<1>3. IsGate(WaitStarted(s, l, f), s, f)
  BY <1>1, Zenon DEF Fields, IsGate
<1>4. WaitStarted(s, l, f).when = BOOLEAN
  BY <1>1, Zenon DEF Fields
<1>5. IsGate(WithTiles(WaitStarted(s, l, f)), s, f)
  BY <1>2, Zenon DEF Fields, IsGate
<1>6. WithTiles(WaitStarted(s, l, f)).when = {TRUE}
  BY <1>2, Zenon DEF Fields
<1> QED BY <1>3, <1>4, <1>5, <1>6

(* A gate run whatever the tile count. *)
LEMMA OpenGate ==
  ASSUME NEW l, NEW s, NEW f, NEW st, st = WaitStarted(s, l, f)
  PROVE  IsGate(st, s, f) /\ st.when = BOOLEAN
BY WhichAreGates

(* A gate run for tiles only. *)
LEMMA TilesGate ==
  ASSUME NEW l, NEW s, NEW f, NEW st, st = WithTiles(WaitStarted(s, l, f))
  PROVE  IsGate(st, s, f) /\ st.when = {TRUE}
<1>1. IsGate(st, s, f)
  BY WhichAreGates, Zenon
<1>2. st.when = {TRUE}
  BY WhichAreGates, Zenon
<1> QED BY <1>1, <1>2

(* Between a gated pair stands its gate, on the stream of the second. *)
LEMMA PassGates ==
  ASSUME NEW lv \in Levels, NEW k \in DOMAIN Schedule, NEW F, F = Pass(k, lv),
         NEW x \in Nat \ {0}, x <= Len(F), NEW y \in Nat \ {0}, y <= Len(F),
         F[x].kind = "kernel", F[y].kind = "kernel", <<F[x].name, F[y].name>> \in Gated
  PROVE  \E g \in Nat \ {0} : /\ x < g /\ g < y /\ IsGate(F[g], F[y].stream, F[x].name)
                              /\ F[x].when \cap F[y].when \subseteq F[g].when
<1>1. PICK l : l = Schedule[k].layer
  OBVIOUS
<1>0. \/ F[x].name = "dispatch_main" /\ F[y].name = "kernel_a"
      \/ F[x].name = "dispatch_grads" /\ F[y].name = "kernel_y_bwd"
      \/ F[x].name = "kernel_y" /\ F[y].name = "combine"
      \/ F[x].name = "kernel_a_bwd" /\ F[y].name = "combine_grads"
  BY DEF Gated
<1>s. \A w \in SUBSET BOOLEAN : w \cap {TRUE} \subseteq {TRUE} /\ {TRUE} \cap w \subseteq {TRUE}
                                /\ w \subseteq BOOLEAN
  OBVIOUS
<1>u. \A z \in Nat \ {0} : z <= Len(F) => F[z].when \in SUBSET BOOLEAN
  BY PassStatement DEF StmtOK
<1>2. CASE Schedule[k].dir = "forward"
  <2>1. PICK c : c = ForwardExtra(lv)
    OBVIOUS
  <2>2. ForwardTable(F, l, lv, c) /\ ForwardKernel(F[x], x, lv, c) /\ ForwardKernel(F[y], y, lv, c)
    BY <1>1, <1>2, <2>1, PassShape, PassStatement
  <2>3. /\ F[x].name \in OfForward /\ x = ForwardPlace(F[x].name, c)
        /\ F[y].name \in OfForward /\ y = ForwardPlace(F[y].name, c)
        /\ F[y].stream = StreamOf(F[y].name)
    BY <2>2, ForwardNamed
  <2>4. \/ F[x].name = "dispatch_main" /\ x = 14 /\ y = 19 /\ F[y].stream = "compute"
        \/ F[x].name = "kernel_y" /\ x = 21 /\ y = 24 /\ F[y].stream = "communicate"
    BY <1>0, <2>3 DEF OfForward, ForwardPlace, StreamOf, OnCommunicate, OnCaller
  <2>5. CASE F[x].name = "dispatch_main" /\ x = 14 /\ y = 19 /\ F[y].stream = "compute"
    <3>1. F[16] = WaitStarted("compute", l, "dispatch_main")
      BY <2>2 DEF ForwardTable
    <3>a. IsGate(F[16], "compute", "dispatch_main")
      BY <3>1, OpenGate
    <3>b. F[16].when = BOOLEAN
      BY <3>1, OpenGate, Zenon
    <3>2. IsGate(F[16], "compute", "dispatch_main") /\ F[16].when = BOOLEAN
      BY <3>a, <3>b, Zenon
    <3>3. F[x].when \cap F[y].when \subseteq F[16].when
      BY <1>u, <3>2
    <3> QED BY <2>5, <3>2, <3>3
  <2>6. CASE F[x].name = "kernel_y" /\ x = 21 /\ y = 24 /\ F[y].stream = "communicate"
    <3>1. F[22] = WithTiles(WaitStarted("communicate", l, "kernel_y"))
      BY <2>2 DEF ForwardTable
    <3>a. IsGate(F[22], "communicate", "kernel_y")
      BY <3>1, TilesGate
    <3>b. F[22].when = {TRUE}
      BY <3>1, TilesGate, Zenon
    <3>2. IsGate(F[22], "communicate", "kernel_y") /\ F[22].when = {TRUE}
      BY <3>a, <3>b, Zenon
    <3>3. IsKernel(F[21], "compute", "kernel_y", {TRUE})
      <4>2. F[21] = WithTiles(Kernel("compute", l, "kernel_y", NumSms, {"postact", "pre", "slots"},
                                     {"o", "slots"}))
        BY <2>2 DEF ForwardTable
      <4> QED BY <4>2, WhichAreKernelsWithTiles, Zenon
    <3>4. F[x].when = {TRUE}
      BY <2>6, <3>3, Zenon DEF IsKernel
    <3>5. F[x].when \cap F[y].when \subseteq F[22].when
      BY <3>2, <3>4, Zenon
    <3>6. x < 22 /\ 22 < y /\ 22 \in Nat \ {0}
      BY <2>6
    <3> QED BY <2>6, <3>2, <3>5, <3>6, ZenonT(40)
  <2> QED BY <2>4, <2>5, <2>6
<1>3. CASE Schedule[k].dir # "forward"
  <2>1. PICK c : c = BackwardExtra(lv)
    OBVIOUS
  <2>2. BackwardTable(F, l, lv, c) /\ BackwardKernel(F[x], x, lv, c) /\ BackwardKernel(F[y], y, lv, c)
    BY <1>1, <1>3, <2>1, PassShape, PassStatement
  <2>3. /\ F[x].name \notin OfForward /\ x = BackwardPlace(F[x].name, c)
        /\ F[y].name \notin OfForward /\ y = BackwardPlace(F[y].name, c)
        /\ F[y].stream = StreamOf(F[y].name)
    BY <2>2, BackwardNamed
  <2>0. c \in {0, 2, 4}
    BY <2>1 DEF BackwardExtra
  <2>4. \/ F[x].name = "dispatch_grads" /\ x = 14 /\ y = 17 + c /\ F[y].stream = "compute"
        \/ F[x].name = "kernel_a_bwd" /\ x = 19 + c /\ y = 22 + c /\ F[y].stream = "communicate"
    BY <1>0, <2>3 DEF OfForward, BackwardPlace, StreamOf, OnCommunicate, OnCaller
  <2>5. CASE F[x].name = "dispatch_grads" /\ x = 14 /\ y = 17 + c /\ F[y].stream = "compute"
    <3>0. BackwardHead(F, l)
      BY <2>2 DEF BackwardTable
    <3>1. F[16] = WaitStarted("compute", l, "dispatch_grads")
      BY <3>0 DEF BackwardHead
    <3>a. IsGate(F[16], "compute", "dispatch_grads")
      BY <3>1, OpenGate
    <3>b. F[16].when = BOOLEAN
      BY <3>1, OpenGate, Zenon
    <3>2. IsGate(F[16], "compute", "dispatch_grads") /\ F[16].when = BOOLEAN
      BY <3>a, <3>b, Zenon
    <3>3. F[x].when \cap F[y].when \subseteq F[16].when
      BY <1>u, <3>2
    <3>4. x < 16 /\ 16 < y
      BY <2>0, <2>5
    <3> QED BY <2>5, <3>2, <3>3, <3>4
  <2>6. CASE F[x].name = "kernel_a_bwd" /\ x = 19 + c /\ y = 22 + c /\ F[y].stream = "communicate"
    <3>0. BackwardTail(F, l, lv, c)
      BY <2>2 DEF BackwardTable
    <3>1. F[20 + c] = WithTiles(WaitStarted("communicate", l, "kernel_a_bwd"))
      BY <3>0 DEF BackwardTail
    <3>a. IsGate(F[20 + c], "communicate", "kernel_a_bwd")
      BY <3>1, TilesGate
    <3>b. F[20 + c].when = {TRUE}
      BY <3>1, TilesGate, Zenon
    <3>2. IsGate(F[20 + c], "communicate", "kernel_a_bwd") /\ F[20 + c].when = {TRUE}
      BY <3>a, <3>b, Zenon
    <3>3. IsKernel(F[19 + c], "compute", "kernel_a_bwd", {TRUE})
      <4>2. F[19 + c] = WithTiles(Kernel("compute", l, "kernel_a_bwd", NumSms,
                                         {"scratch", "arrival", "pre", "slots"}, {"sums"}))
        BY <3>0 DEF BackwardTail
      <4> QED BY <4>2, WhichAreKernelsWithTiles, Zenon
    <3>4. F[x].when = {TRUE}
      BY <2>6, <3>3, Zenon DEF IsKernel
    <3>5. F[x].when \cap F[y].when \subseteq F[20 + c].when
      BY <3>2, <3>4, Zenon
    <3>6. x < 20 + c /\ 20 + c < y /\ 20 + c \in Nat \ {0}
      BY <2>0, <2>6
    <3> QED BY <2>6, <3>2, <3>5, <3>6
  <2> QED BY <2>4, <2>5, <2>6
<1> QED BY <1>2, <1>3

FlagsPaired(P) ==
  /\ \A k \in DOMAIN P : P[k].name \in Flags =>
       LET b == k - Lead(P[k].name) IN
       /\ b \in DOMAIN P /\ P[b].kind = "bump" /\ P[b].on = P[k].name
       /\ P[b].layer = P[k].layer /\ P[b].when = P[k].when
  /\ \A j, k \in DOMAIN P : P[j].name # "" /\ P[j].name = P[k].name => P[j].stream = P[k].stream
GatesPlaced(P) ==
  \A a, b \in DOMAIN P : <<P[a].name, P[b].name>> \in Gated /\ P[a].layer = P[b].layer =>
    /\ P[a].stream # P[b].stream
    /\ \E g \in DOMAIN P : /\ a < g /\ g < b
                           /\ P[g].kind = "wait_started" /\ P[g].on = P[a].name
                           /\ P[g].stream = P[b].stream /\ P[g].layer = P[a].layer
                           /\ P[a].when \cap P[b].when \subseteq P[g].when

(* One forward and one backward of a layer. *)
LEMMA SameDirection ==
  ASSUME NEW k \in DOMAIN Schedule, NEW h \in DOMAIN Schedule,
         Schedule[k].layer = Schedule[h].layer,
         Schedule[k].dir = "forward" <=> Schedule[h].dir = "forward"
  PROVE  h = k
<1>1. PICK R : R = [dir : {"forward", "backward"}, layer : Nat]
  OBVIOUS
<1>2. Schedule \in Seq(R) /\ \A x, y \in DOMAIN Schedule : Schedule[x] = Schedule[y] => x = y
  BY <1>1, ScheduleAssumption
<1>3. Schedule[k] \in R /\ Schedule[h] \in R
  BY <1>2
<1>4. Schedule[k] = Schedule[h]
  BY <1>1, <1>3
<1> QED BY <1>2, <1>4

(* A place of a pass that is not past its end is a position of the program. *)
LEMMA PlaceInProgram ==
  ASSUME NEW lv \in Levels, NEW base, Laid(lv, base), NEW k \in DOMAIN Schedule,
         NEW m \in Nat \ {0}, m <= Len(Pass(k, lv))
  PROVE  /\ base[k - 1] + m \in DOMAIN Program(lv)
         /\ Program(lv)[base[k - 1] + m] = Pass(k, lv)[m]
         /\ PassOf(lv, base[k - 1] + m) = k
         /\ base[k - 1] \in Nat
         /\ Program(lv)[base[k - 1] + m].layer = Schedule[k].layer
<1>1. k \in 1 .. Len(Schedule)
  BY DEF Laid
<1>2. base[k - 1] + m \in DOMAIN Program(lv)
  BY <1>1, Zenon DEF Laid
<1>3. Program(lv)[base[k - 1] + m] = Pass(k, lv)[m]
  BY <1>1, Zenon DEF Laid
<1>4. PassOf(lv, base[k - 1] + m) = k
  BY <1>1, Zenon DEF Laid
<1>5. base[k - 1] \in Nat
  <2>1. Len(Schedule) \in Nat /\ base \in [0 .. Len(Schedule) -> Nat]
    BY DEF Laid
  <2>2. k - 1 \in 0 .. Len(Schedule)
    BY <1>1, <2>1
  <2> QED BY <2>1, <2>2
<1>6. StmtOK(Pass(k, lv)[m], Schedule[k].layer)
  BY PassStatement
<1>7. Pass(k, lv)[m].layer = Schedule[k].layer
  BY <1>6, Zenon DEF StmtOK
<1> QED BY <1>2, <1>3, <1>4, <1>5, <1>7

(* Bumps and gates are paired in the whole program as in each pass. *)
LEMMA ProgramFlags == ASSUME NEW lv \in Levels PROVE FlagsPaired(Program(lv)) /\ GatesPlaced(Program(lv))
<1>1. PICK base : Laid(lv, base)
  BY ProgramLaid
<1>2. PICK P : P = Program(lv)
  OBVIOUS
<1>k. \A i \in DOMAIN P : P[i].name # "" => P[i].kind = "kernel"
  BY <1>2, ProgramStmts DEF Stmts
<1>f. "" \notin Flags /\ \A n, q : <<n, q>> \in Gated => n # "" /\ q # ""
  BY DEF Flags, Gated
<1>3. ASSUME NEW i \in DOMAIN P, P[i].name \in Flags
      PROVE  LET b == i - Lead(P[i].name) IN
             /\ b \in DOMAIN P /\ P[b].kind = "bump" /\ P[b].on = P[i].name
             /\ P[b].layer = P[i].layer /\ P[b].when = P[i].when
  <2>0. P[i].kind = "kernel"
    BY <1>3, <1>k, <1>f
  <2>1. PICK k \in DOMAIN Schedule, m \in Nat \ {0} :
           /\ m <= Len(Pass(k, lv)) /\ i = base[k - 1] + m
           /\ P[i] = Pass(k, lv)[m] /\ PassOf(lv, i) = k
           /\ P[i].layer = Schedule[k].layer
    BY <1>1, <1>2, <2>0, KernelPlaced
  <2>2. PICK F : F = Pass(k, lv)
    OBVIOUS
  <2>3. PICK d \in {1, 2} : d = Lead(P[i].name)
    BY Zenon DEF Lead
  <2>4. m - Lead(F[m].name) \in Nat \ {0} /\ IsBump(F[m - Lead(F[m].name)], F[m].name, F[m].when)
    <3>1. m <= Len(F) /\ F[m].name \in Flags /\ F[m].kind = "kernel"
      BY <1>3, <2>0, <2>1, <2>2
    <3> QED BY <2>2, <3>1, PassFlags
  <2>5. m - d \in Nat \ {0} /\ IsBump(F[m - d], P[i].name, P[i].when)
    BY <2>1, <2>2, <2>3, <2>4
  <2>6. PICK x \in Nat \ {0} : x = m - d
    BY <2>5
  <2>7. x <= Len(Pass(k, lv))
    <3>1. Len(Pass(k, lv)) \in Nat
      BY PassShape DEF Listed
    <3> QED BY <2>1, <2>3, <2>6, <3>1
  <2>8. /\ base[k - 1] + x \in DOMAIN P /\ P[base[k - 1] + x] = F[x] /\ base[k - 1] \in Nat
        /\ P[base[k - 1] + x].layer = Schedule[k].layer
    BY <1>1, <1>2, <2>2, <2>7, PlaceInProgram
  <2>9. base[k - 1] + x = i - d
    BY <2>1, <2>3, <2>6, <2>8
  <2>10. PICK b : b = i - d
    OBVIOUS
  <2>11. b \in DOMAIN P /\ P[b] = F[x] /\ P[b].layer = P[i].layer
    BY <2>1, <2>8, <2>9, <2>10
  <2>12. IsBump(P[b], P[i].name, P[i].when)
    BY <2>5, <2>6, <2>11
  <2>13. b = i - Lead(P[i].name)
    BY <2>3, <2>10
  <2> QED BY <2>11, <2>12, <2>13 DEF IsBump
<1>4. ASSUME NEW i \in DOMAIN P, NEW j \in DOMAIN P, P[i].name # "", P[i].name = P[j].name
      PROVE  P[i].stream = P[j].stream
  <2>1. P[i].kind = "kernel" /\ P[j].kind = "kernel"
    BY <1>4, <1>k
  <2>2. P[i].stream = StreamOf(P[i].name)
    BY <1>2, <2>1, KernelNamed
  <2>3. P[j].stream = StreamOf(P[j].name)
    BY <1>2, <2>1, KernelNamed
  <2> QED BY <1>4, <2>2, <2>3
<1>5. ASSUME NEW a \in DOMAIN P, NEW b \in DOMAIN P,
             <<P[a].name, P[b].name>> \in Gated, P[a].layer = P[b].layer
      PROVE  /\ P[a].stream # P[b].stream
             /\ \E g \in DOMAIN P : /\ a < g /\ g < b
                           /\ P[g].kind = "wait_started" /\ P[g].on = P[a].name
                           /\ P[g].stream = P[b].stream /\ P[g].layer = P[a].layer
                           /\ P[a].when \cap P[b].when \subseteq P[g].when
  <2>0. P[a].kind = "kernel" /\ P[b].kind = "kernel"
    BY <1>5, <1>k, <1>f
  <2>1. PICK k \in DOMAIN Schedule, x \in Nat \ {0} :
           /\ x <= Len(Pass(k, lv)) /\ a = base[k - 1] + x
           /\ P[a] = Pass(k, lv)[x] /\ PassOf(lv, a) = k
           /\ P[a].layer = Schedule[k].layer
    BY <1>1, <1>2, <2>0, KernelPlaced
  <2>2. PICK h \in DOMAIN Schedule, y \in Nat \ {0} :
           /\ y <= Len(Pass(h, lv)) /\ b = base[h - 1] + y
           /\ P[b] = Pass(h, lv)[y] /\ PassOf(lv, b) = h
           /\ P[b].layer = Schedule[h].layer
    BY <1>1, <1>2, <2>0, KernelPlaced
  <2>3. /\ P[a].name \in OfForward <=> Schedule[k].dir = "forward"
        /\ P[a].stream = StreamOf(P[a].name)
    BY <1>2, <2>0, <2>1, KernelNamed
  <2>4. /\ P[b].name \in OfForward <=> Schedule[h].dir = "forward"
        /\ P[b].stream = StreamOf(P[b].name)
    BY <1>2, <2>0, <2>2, KernelNamed
  <2>5. /\ P[a].name \in OfForward <=> P[b].name \in OfForward
        /\ StreamOf(P[a].name) # StreamOf(P[b].name)
    BY <1>5 DEF Gated, OfForward, StreamOf, OnCommunicate, OnCaller
  <2>6. h = k
    BY <1>5, <2>1, <2>2, <2>3, <2>4, <2>5, SameDirection
  <2>7. PICK F : F = Pass(k, lv)
    OBVIOUS
  <2>8. PICK m \in Nat \ {0} : /\ x < m /\ m < y /\ IsGate(F[m], F[y].stream, F[x].name)
                               /\ F[x].when \cap F[y].when \subseteq F[m].when
    <3>1. /\ x <= Len(F) /\ y <= Len(F) /\ F[x].kind = "kernel" /\ F[y].kind = "kernel"
          /\ <<F[x].name, F[y].name>> \in Gated
      BY <1>5, <2>0, <2>1, <2>2, <2>6, <2>7
    <3> QED BY <2>7, <3>1, PassGates
  <2>9. m <= Len(Pass(k, lv))
    <3>1. Len(Pass(k, lv)) \in Nat
      BY PassShape DEF Listed
    <3> QED BY <2>2, <2>6, <2>8, <3>1
  <2>10. /\ base[k - 1] + m \in DOMAIN P /\ P[base[k - 1] + m] = F[m] /\ base[k - 1] \in Nat
         /\ P[base[k - 1] + m].layer = Schedule[k].layer
    BY <1>1, <1>2, <2>7, <2>9, PlaceInProgram
  <2>11. PICK g : g = base[k - 1] + m
    OBVIOUS
  <2>12. a < g /\ g < b
    <3>1. PICK q \in Nat : q = base[k - 1]
      BY <2>10
    <3>2. a = q + x /\ b = q + y /\ g = q + m
      BY <2>1, <2>2, <2>6, <2>11, <3>1
    <3> QED BY <2>8, <3>2
  <2>13. P[a] = F[x] /\ P[b] = F[y] /\ P[g] = F[m] /\ g \in DOMAIN P /\ P[g].layer = P[a].layer
    BY <2>1, <2>2, <2>6, <2>7, <2>10, <2>11
  <2>14. IsGate(P[g], P[b].stream, P[a].name) /\ P[a].when \cap P[b].when \subseteq P[g].when
    BY <2>8, <2>13
  <2>15. P[a].stream # P[b].stream
    BY <2>3, <2>4, <2>5
  <2> QED BY <2>12, <2>13, <2>14, <2>15 DEF IsGate
<1>6. FlagsPaired(P)
  BY <1>3, <1>4 DEF FlagsPaired
<1>7. GatesPlaced(P)
  BY <1>5 DEF GatesPlaced
<1> QED BY <1>2, <1>6, <1>7

(* The tables kept per level are what they are tables of. *)
LEMMA KindSets ==
  ASSUME level \in Levels
  PROVE  /\ Kernels = {i \in DOMAIN Prog : Prog[i].kind = "kernel"}
         /\ Polls = {i \in DOMAIN Prog : Prog[i].kind = "poll"}
BY DEF Kernels, Polls, OfKind, PerLevel, Prog, Levels

(* A dispatch runs on the communicate stream. *)
LEMMA DispatchStream ==
  ASSUME level \in Levels, NEW l, NEW n \in {"dispatch_main", "dispatch_grads"},
         NEW i \in The(n, l)
  PROVE  Prog[i].stream = "communicate"
<1>1. i \in DOMAIN Prog /\ Prog[i].kind = "kernel" /\ Prog[i].name = n
  BY KindSets DEF The
<1>2. Prog[i].stream = StreamOf(n)
  BY <1>1, KernelNamed DEF Prog
<1> QED BY <1>2 DEF StreamOf, OnCommunicate

------------------------------------------------------------------------------
(* The least element of a set of statements. *)
LEMMA MinIs ==
  ASSUME NEW S \in SUBSET Nat, S # {}
  PROVE  Min(S) \in S /\ \A x \in S : Min(S) <= x
BY LeastElement DEF Min

(* The statements of a stream. *)
LEMMA OnStream ==
  ASSUME level \in Levels, NEW s \in Streams
  PROVE  StmtsOn(s) = {i \in DOMAIN Prog : Prog[i].stream = s}
BY DEF StmtsOn, StreamStmts, PerLevel, PerStream, Prog, Levels, Streams

(* The statement at the head of a stream. *)
LEMMA HeadIs ==
  ASSUME Types, NEW r \in Ranks, NEW s \in Streams
  PROVE  /\ Head1(r, s) = 0 => Pending(r, s) = {}
         /\ Head1(r, s) # 0 => /\ Head1(r, s) \in Pending(r, s)
                               /\ \A k \in Pending(r, s) : Head1(r, s) <= k
         /\ \A i : i \in Pending(r, s) <=>
              /\ i \in DOMAIN Prog /\ Prog[i].stream = s
              /\ next[r][s] <= i /\ i < pc[r] /\ Runs(r, i)
         /\ Head1(r, s) \in Nat
<1>1. level \in Levels /\ Stmts(Prog)
  BY ProgramStmts DEF Types, Prog
<1>2. \A i : i \in Pending(r, s) <=>
              /\ i \in DOMAIN Prog /\ Prog[i].stream = s
              /\ next[r][s] <= i /\ i < pc[r] /\ Runs(r, i)
  BY <1>1, OnStream DEF Pending
<1>3. Pending(r, s) \in SUBSET (Nat \ {0})
  <2>1. Len(Prog) \in Nat /\ DOMAIN Prog = 1 .. Len(Prog)
    BY <1>1 DEF Stmts
  <2> QED BY <1>2, <2>1
<1>4. CASE Pending(r, s) = {}
  BY <1>2, <1>4 DEF Head1
<1>5. CASE Pending(r, s) # {}
  <2>1. Head1(r, s) = Min(Pending(r, s))
    BY <1>5 DEF Head1
  <2>2. Pending(r, s) \in SUBSET Nat
    BY <1>3
  <2>3. Head1(r, s) \in Pending(r, s) /\ \A k \in Pending(r, s) : Head1(r, s) <= k
    BY <1>5, <2>1, <2>2, MinIs
  <2> QED BY <1>2, <1>3, <1>5, <2>3
<1> QED BY <1>4, <1>5

(* What no step of a run undoes. *)
Onward ==
  /\ level' = level /\ prioritize' = prioritize
  /\ \A r \in Ranks : pc[r] <= pc'[r]
  /\ \A r \in Ranks, s \in Streams : next[r][s] <= next'[r][s]
  /\ \A r \in Ranks, i \in DOMAIN Prog :
       i < pc[r] \/ Prog[i].when = BOOLEAN => (Runs(r, i)' <=> Runs(r, i))

(* The program does not change. *)
LEMMA StaticPrime ==
  ASSUME level' = level
  PROVE  /\ Prog' = Prog /\ Kernels' = Kernels /\ Polls' = Polls
         /\ \A s \in Streams : StmtsOn(s)' = StmtsOn(s)
         /\ \A n, l : The(n, l)' = The(n, l)
<1>1. Prog' = Prog
  BY DEF Prog
<1>2. Kernels' = Kernels
  BY DEF Kernels
<1>3. Polls' = Polls
  BY DEF Polls
<1>4. \A s \in Streams : StmtsOn(s)' = StmtsOn(s)
  BY DEF StmtsOn
<1>5. \A n, l : The(n, l)' = The(n, l)
  BY <1>1, <1>2 DEF The
<1> QED BY <1>1, <1>2, <1>3, <1>4, <1>5

(* The fold that SumFunction takes over the streams. *)
Summed(f, h) ==
  h = [S \in SUBSET DOMAIN f |->
         IF S = {} THEN 0
         ELSE f[CHOOSE x \in S : TRUE] + h[S \ {CHOOSE x \in S : TRUE}]]

(* One stream taken out of a sum over some of the three. *)
LEMMA SumWithout ==
  ASSUME NEW su, NEW sv, NEW y, NEW fy, NEW a \in Nat, NEW b \in Nat, NEW c \in Nat, NEW S,
         NEW U,
         su = (IF "caller" \in S THEN a ELSE 0) + (IF "communicate" \in S THEN b ELSE 0)
              + (IF "compute" \in S THEN c ELSE 0),
         sv = (IF "caller" \in U THEN a ELSE 0) + (IF "communicate" \in U THEN b ELSE 0)
              + (IF "compute" \in U THEN c ELSE 0),
         y \in S, \A x : x \in U <=> x \in S /\ x # y,
         \/ y = "caller" /\ fy = a
         \/ y = "communicate" /\ fy = b
         \/ y = "compute" /\ fy = c
  PROVE  su = fy + sv
OBVIOUS

(* The sum over the streams, as three terms. *)
LEMMA SumOfStreams ==
  ASSUME NEW f \in [Streams -> Nat]
  PROVE  SumFunction(f) = f["caller"] + f["communicate"] + f["compute"]
<1> DEFINE sum == [S \in SUBSET Streams |-> (IF "caller" \in S THEN f["caller"] ELSE 0)
                                           + (IF "communicate" \in S THEN f["communicate"] ELSE 0)
                                           + (IF "compute" \in S THEN f["compute"] ELSE 0)]
<1>1. SumFunction(f) = (CHOOSE h : Summed(f, h))[DOMAIN f]
  BY Zenon DEF SumFunction, SumFunctionOnSet, FoldFunctionOnSet, MapThenFoldSet, Summed
<1>2. DOMAIN f = Streams
  OBVIOUS
<1>3. ASSUME NEW S \in SUBSET Streams, S # {}
      PROVE  sum[S] = f[CHOOSE x \in S : TRUE] + sum[S \ {CHOOSE x \in S : TRUE}]
  <2>1. PICK y : y = CHOOSE x \in S : TRUE
    OBVIOUS
  <2>2. y \in S /\ y \in Streams /\ S \ {y} \in SUBSET Streams
    BY <1>3, <2>1
  <2>3. \A x \in Streams : f[x] \in Nat
    OBVIOUS
  <2>4. PICK U : U = S \ {y}
    OBVIOUS
  <2>5. \A x : x \in U <=> x \in S /\ x # y
    BY <2>4
  <2>6. y \in {"caller", "communicate", "compute"} /\ U \in SUBSET Streams
    BY <2>2, <2>4 DEF Streams
  <2>7. PICK a, b, c : a = f["caller"] /\ b = f["communicate"] /\ c = f["compute"]
    OBVIOUS
  <2>8. a \in Nat /\ b \in Nat /\ c \in Nat
    BY <2>3, <2>7 DEF Streams
  <2>9. PICK su, sv, fy : su = sum[S] /\ sv = sum[U] /\ fy = f[y]
    OBVIOUS
  <2>10. /\ su = (IF "caller" \in S THEN a ELSE 0) + (IF "communicate" \in S THEN b ELSE 0)
              + (IF "compute" \in S THEN c ELSE 0)
         /\ sv = (IF "caller" \in U THEN a ELSE 0) + (IF "communicate" \in U THEN b ELSE 0)
              + (IF "compute" \in U THEN c ELSE 0)
    BY <2>6, <2>7, <2>9
  <2>11. \/ y = "caller" /\ fy = a
         \/ y = "communicate" /\ fy = b
         \/ y = "compute" /\ fy = c
    BY <2>6, <2>7, <2>9
  <2>12. su = fy + sv
    BY <2>2, <2>5, <2>8, <2>10, <2>11, SumWithout
  <2>13. sum[S] = f[y] + sum[U]
    BY <2>9, <2>12
  <2> QED BY <2>1, <2>4, <2>13
<1>4. sum[{}] = 0
  OBVIOUS
<1>5. Summed(f, sum)
  <2>1. \A S \in SUBSET Streams :
          sum[S] = IF S = {} THEN 0 ELSE f[CHOOSE x \in S : TRUE] + sum[S \ {CHOOSE x \in S : TRUE}]
    BY <1>3, <1>4
  <2>2. sum = [S \in SUBSET Streams |-> sum[S]]
    OBVIOUS
  <2> HIDE DEF sum
  <2> QED BY <1>2, <2>1, <2>2 DEF Summed
<1> HIDE DEF sum
<1>6. PICK h : h = CHOOSE g : Summed(f, g)
  OBVIOUS
<1>7. Summed(f, h)
  BY <1>5, <1>6
<1>8. /\ h[{}] = 0
      /\ \A S \in SUBSET Streams : S # {} =>
           h[S] = f[CHOOSE x \in S : TRUE] + h[S \ {CHOOSE x \in S : TRUE}]
  BY <1>2, <1>7 DEF Summed
<1>9. ASSUME NEW S \in SUBSET Streams, \A y \in S : h[S \ {y}] = sum[S \ {y}]
      PROVE  h[S] = sum[S]
  <2>1. CASE S = {}
    BY <1>4, <1>8, <2>1
  <2>2. CASE S # {}
    <3>1. PICK y : y = CHOOSE x \in S : TRUE
      OBVIOUS
    <3>2. y \in S
      BY <2>2, <3>1
    <3>3. h[S] = f[y] + h[S \ {y}]
      BY <1>8, <2>2, <3>1, Zenon
    <3>4. h[S \ {y}] = sum[S \ {y}]
      BY <1>9, <3>2, Zenon
    <3>5. sum[S] = f[y] + sum[S \ {y}]
      BY <1>3, <2>2, <3>1, Zenon
    <3> QED BY <3>3, <3>4, <3>5
  <2> QED BY <2>1, <2>2
<1>10. \A y \in Streams : h[{y}] = sum[{y}]
  <2> SUFFICES ASSUME NEW y \in Streams PROVE h[{y}] = sum[{y}]
    OBVIOUS
  <2>1. {y} \ {y} = {} /\ {y} \in SUBSET Streams
    OBVIOUS
  <2> QED BY <1>4, <1>8, <1>9, <2>1
<1>11. \A y \in Streams : h[Streams \ {y}] = sum[Streams \ {y}]
  <2> SUFFICES ASSUME NEW y \in Streams PROVE h[Streams \ {y}] = sum[Streams \ {y}]
    OBVIOUS
  <2>1. \A z \in Streams \ {y} : \E w \in Streams : (Streams \ {y}) \ {z} = {w}
    BY DEF Streams
  <2>2. Streams \ {y} \in SUBSET Streams
    OBVIOUS
  <2> QED BY <1>9, <1>10, <2>1, <2>2
<1>12. h[Streams] = sum[Streams]
  BY <1>9, <1>11
<1>13. sum[Streams] = f["caller"] + f["communicate"] + f["compute"]
  BY DEF sum, Streams
<1> QED BY <1>1, <1>2, <1>6, <1>12, <1>13

(* The SMs that no stream holds. *)
LEMMA FreeSmsIs ==
  ASSUME NEW r \in Ranks, held[r] \in [Streams -> 0 .. NumSms]
  PROVE  FreeSms(r) = NumSms - (held[r]["caller"] + held[r]["communicate"] + held[r]["compute"])
<1>1. held[r] \in [Streams -> Nat]
  BY SmAssumption
<1> QED BY <1>1, SumOfStreams DEF FreeSms

(* Issue stops at a poll or at the end, and goes no further back. *)
LEMMA IssueTo ==
  ASSUME Types, NEW r \in Ranks, pc[r] \in DOMAIN Prog
  PROVE  LET n == Min(PollsFrom(pc[r]) \cup {Len(Prog) + 1}) IN
         /\ n \in 1 .. Len(Prog) + 1 /\ pc[r] <= n
<1>1. level \in Levels /\ Len(Prog) \in Nat /\ DOMAIN Prog = 1 .. Len(Prog)
  BY ProgramStmts DEF Types, Prog, Stmts
<1>2. Polls \subseteq DOMAIN Prog
  BY <1>1, KindSets
<1> DEFINE S == PollsFrom(pc[r]) \cup {Len(Prog) + 1}
<1>3. S \in SUBSET Nat /\ S # {} /\ \A x \in S : x \in 1 .. Len(Prog) + 1 /\ pc[r] <= x
  BY <1>1, <1>2 DEF PollsFrom
<1> HIDE DEF S
<1>4. Min(S) \in S
  BY <1>3, MinIs
<1>5. Min(S) \in 1 .. Len(Prog) + 1 /\ pc[r] <= Min(S)
  BY <1>3, <1>4
<1> QED BY <1>5 DEF S

(* The head of a stream is an issued statement of that stream. *)
LEMMA HeadInProg ==
  ASSUME Types, NEW r \in Ranks, NEW s \in Streams, Head1(r, s) # 0
  PROVE  /\ Head1(r, s) \in 1 .. Len(Prog) /\ Head1(r, s) \in DOMAIN Prog
         /\ Prog[Head1(r, s)].stream = s
         /\ next[r][s] <= Head1(r, s) /\ Head1(r, s) < pc[r]
         /\ Runs(r, Head1(r, s))
<1>1. level \in Levels /\ Len(Prog) \in Nat /\ DOMAIN Prog = 1 .. Len(Prog)
  BY ProgramStmts DEF Types, Prog, Stmts
<1> QED BY <1>1, HeadIs

(* A step keeps the types: no stream is given more SMs than are free. *)
LEMMA StepTypes ==
  ASSUME Types, HeadsOK, [Next]_vars
  PROVE  Types'
<1>1. /\ level \in Levels /\ Len(Prog) \in Nat /\ DOMAIN Prog = 1 .. Len(Prog)
      /\ \A i \in DOMAIN Prog : Prog[i].kind = "kernel" => Prog[i].need \in 1 .. NumSms
  BY ProgramStmts DEF Types, Prog, Stmts
<1>2. ASSUME UNCHANGED vars PROVE Types'
  BY <1>2 DEF Types, vars, FreeSms, Prog
<1> SUFFICES ASSUME NEW r \in Ranks, RankStep(r) PROVE Types'
  BY <1>2 DEF Next
<1>3. ASSUME level' = level, held' = held PROVE Prog' = Prog /\ \A q \in Ranks : FreeSms(q)' = FreeSms(q)
  BY <1>3 DEF Prog, FreeSms
<1>4. CASE Issue(r)
  <2>1. Prog' = Prog /\ \A q \in Ranks : FreeSms(q)' = FreeSms(q)
    BY <1>3, <1>4 DEF Issue
  <2>2. Min(PollsFrom(pc[r]) \cup {Len(Prog) + 1}) \in 1 .. Len(Prog) + 1
    BY <1>4, IssueTo DEF Issue
  <2>3. pc' \in [Ranks -> 1 .. Len(Prog) + 1]
    BY <1>4, <2>2 DEF Issue, Types
  <2> QED BY <1>4, <2>1, <2>3 DEF Issue, Types
<1>5. CASE HostPoll(r)
  <2>1. Prog' = Prog /\ \A q \in Ranks : FreeSms(q)' = FreeSms(q)
    BY <1>3, <1>5 DEF HostPoll
  <2>2. pc[r] \in 1 .. Len(Prog)
    BY <1>1, <1>5, KindSets DEF HostPoll
  <2>3. pc' \in [Ranks -> 1 .. Len(Prog) + 1]
    BY <1>1, <1>5, <2>2 DEF HostPoll, Types
  <2>4. tiles' \in [Ranks -> [Layers -> BOOLEAN]]
    <3>1. PICK l, t : t \in BOOLEAN /\ tiles' = [tiles EXCEPT ![r][l] = t]
      BY <1>5 DEF HostPoll
    <3> QED BY <3>1 DEF Types
  <2> QED BY <1>5, <2>1, <2>3, <2>4 DEF HostPoll, Types
<1>6. ASSUME NEW s \in Streams, PassWait(r, s) PROVE Types'
  <2>1. Prog' = Prog /\ \A q \in Ranks : FreeSms(q)' = FreeSms(q)
    BY <1>3, <1>6 DEF PassWait
  <2>2. next' \in [Ranks -> [Streams -> 1 .. Len(Prog) + 1]]
    BY <1>1, <1>6, HeadInProg DEF PassWait, Types
  <2> QED BY <1>6, <2>1, <2>2 DEF PassWait, Types
<1>7. ASSUME NEW s \in Streams, Launch(r, s) PROVE Types'
  <2>1. Prog' = Prog /\ \A q \in Ranks : FreeSms(q)' = FreeSms(q)
    BY <1>3, <1>7 DEF Launch
  <2>2. phase' \in [Ranks -> [Streams -> Phases]] /\ ahead' \in [Ranks -> [Streams -> SUBSET Streams]]
    BY <1>7 DEF Launch, Types, Phases
  <2> QED BY <1>7, <2>1, <2>2 DEF Launch, Types
<1>8. ASSUME NEW s \in Streams, Place(r, s) PROVE Types'
  <2>1. Prog' = Prog
    BY <1>8 DEF Place, Prog
  <2> DEFINE n == Prog[Head1(r, s)].need  b == held[r][s] + FreeSms(r)
  <2>2. Busy(r, s) /\ held[r][s] < n
    BY <1>8 DEF Place, Served, Wanting
  <2>3. n \in 1 .. NumSms
    BY <1>1, <2>2, HeadInProg DEF HeadsOK
  <2>4. /\ held[r] \in [Streams -> 0 .. NumSms] /\ held[r][s] \in 0 .. NumSms /\ FreeSms(r) \in Nat \ {0}
        /\ NumSms \in Nat /\ b \in Nat
    <3>1. /\ held[r] \in [Streams -> 0 .. NumSms] /\ held[r][s] \in 0 .. NumSms /\ FreeSms(r) > 0
          /\ NumSms \in Nat
      BY <1>8, SmAssumption DEF Types, Place
    <3>2. FreeSms(r) \in Int
      BY <3>1, FreeSmsIs DEF Streams
    <3> QED BY <3>1, <3>2
  <2>5. PICK m : m = Min({n, b})
    OBVIOUS
  <2>6. m \in {n, b} /\ m <= n /\ m <= b
    BY <2>3, <2>4, <2>5, MinIs
  <2>7. m \in 1 .. NumSms /\ held[r][s] < m
    BY <2>2, <2>3, <2>4, <2>6
  <2>8. held' = [held EXCEPT ![r][s] = m]
    BY <1>8, <2>5 DEF Place
  <2>9. held' \in [Ranks -> [Streams -> 0 .. NumSms]]
    BY <2>7, <2>8 DEF Types
  <2>10. ASSUME NEW q \in Ranks PROVE FreeSms(q)' >= 0
    <3>1. held'[q] \in [Streams -> 0 .. NumSms] /\ held[q] \in [Streams -> 0 .. NumSms] /\ FreeSms(q) >= 0
      BY <2>9 DEF Types
    <3>2. FreeSms(q)' = NumSms - (held'[q]["caller"] + held'[q]["communicate"] + held'[q]["compute"])
      <4>1. held'[q] \in [Streams -> Nat]
        BY <3>1, SmAssumption
      <4> QED BY <4>1, SumOfStreams DEF FreeSms
    <3>3. CASE q = r
      <4>1. /\ held'[r][s] = m /\ \A t \in Streams : t # s => held'[r][t] = held[r][t]
        BY <2>8 DEF Types
      <4> QED BY <2>4, <2>6, <3>1, <3>2, <3>3, <4>1, FreeSmsIs DEF Streams
    <3>4. CASE q # r
      BY <2>8, <3>1, <3>4 DEF FreeSms, Types
    <3> QED BY <3>3, <3>4
  <2> QED BY <1>8, <2>1, <2>9, <2>10 DEF Place, Types
<1>9. ASSUME NEW s \in Streams, Begin(r, s) PROVE Types'
  <2>1. Prog' = Prog /\ \A q \in Ranks : FreeSms(q)' = FreeSms(q)
    BY <1>3, <1>9 DEF Begin
  <2>2. phase' \in [Ranks -> [Streams -> Phases]]
    BY <1>9 DEF Begin, Types, Phases
  <2>3. started' \in [Ranks -> [Flags -> Nat]]
    BY <1>9 DEF Begin, Types
  <2> QED BY <1>9, <2>1, <2>2, <2>3 DEF Begin, Types
<1>10. ASSUME NEW s \in Streams, Publish(r, s) PROVE Types'
  <2>1. Prog' = Prog /\ \A q \in Ranks : FreeSms(q)' = FreeSms(q)
    BY <1>3, <1>10 DEF Publish
  <2>2. phase' \in [Ranks -> [Streams -> Phases]]
    BY <1>10 DEF Publish, Types, Phases
  <2> QED BY <1>10, <2>1, <2>2 DEF Publish, Types
<1>11. ASSUME NEW s \in Streams, End(r, s) PROVE Types'
  <2>1. Prog' = Prog
    BY <1>11 DEF End, Prog
  <2>2. Busy(r, s) /\ Head1(r, s) \in 1 .. Len(Prog)
    <3>1. Busy(r, s)
      BY <1>11 DEF End, Busy
    <3> QED BY <3>1, HeadInProg DEF HeadsOK
  <2>3. /\ next' \in [Ranks -> [Streams -> 1 .. Len(Prog) + 1]]
        /\ phase' \in [Ranks -> [Streams -> Phases]]
    BY <1>1, <1>11, <2>2 DEF End, Types, Phases
  <2>4. NumSms \in Nat /\ held' = [held EXCEPT ![r][s] = 0]
    BY <1>11, SmAssumption DEF End
  <2>5. held' \in [Ranks -> [Streams -> 0 .. NumSms]]
    BY <2>4 DEF Types
  <2>6. ahead' \in [Ranks -> [Streams -> SUBSET Streams]]
    BY <1>11 DEF End, Types
  <2>7. ASSUME NEW q \in Ranks PROVE FreeSms(q)' >= 0
    <3>1. held'[q] \in [Streams -> 0 .. NumSms] /\ held[q] \in [Streams -> 0 .. NumSms] /\ FreeSms(q) >= 0
      BY <2>5 DEF Types
    <3>2. FreeSms(q)' = NumSms - (held'[q]["caller"] + held'[q]["communicate"] + held'[q]["compute"])
      <4>1. held'[q] \in [Streams -> Nat]
        BY <3>1, SmAssumption
      <4> QED BY <4>1, SumOfStreams DEF FreeSms
    <3>3. \A t \in Streams : held'[q][t] <= held[q][t]
      BY <2>4, <3>1 DEF Types
    <3> QED BY <2>4, <3>1, <3>2, <3>3, FreeSmsIs DEF Streams
  <2> QED BY <1>11, <2>1, <2>3, <2>5, <2>6, <2>7 DEF End, Types
<1> QED BY <1>4, <1>5, <1>6, <1>7, <1>8, <1>9, <1>10, <1>11 DEF RankStep

(* A step never takes the host, a stream or a poll back. *)
LEMMA StepOnward ==
  ASSUME Types, HeadsOK, [Next]_vars
  PROVE  Onward
<1>1. /\ level \in Levels /\ Len(Prog) \in Nat /\ DOMAIN Prog = 1 .. Len(Prog)
      /\ \A i \in DOMAIN Prog : Prog[i].when \in SUBSET BOOLEAN /\ Prog[i].layer \in Layers
  BY ProgramStmts DEF Types, Prog, Stmts
<1>2. \A q \in Ranks : pc[q] \in Nat
  BY <1>1 DEF Types
<1>3. \A q \in Ranks, t \in Streams : next[q][t] \in Nat
  BY <1>1 DEF Types
<1>4. ASSUME level' = level, tiles' = tiles
      PROVE  \A q \in Ranks, i \in DOMAIN Prog : Runs(q, i)' <=> Runs(q, i)
  BY <1>4, StaticPrime DEF Runs
<1>5. ASSUME UNCHANGED vars PROVE Onward
  BY <1>2, <1>3, <1>4, <1>5 DEF Onward, vars
<1> SUFFICES ASSUME NEW r \in Ranks, RankStep(r) PROVE Onward
  BY <1>5 DEF Next
<1>6. CASE Issue(r)
  <2>1. pc[r] <= pc'[r]
    BY <1>6, IssueTo DEF Issue, Types
  <2>2. \A q \in Ranks : pc[q] <= pc'[q]
    BY <1>2, <1>6, <2>1 DEF Issue, Types
  <2>3. level' = level /\ prioritize' = prioritize /\ tiles' = tiles /\ next' = next
    BY <1>6 DEF Issue
  <2> QED BY <1>3, <1>4, <2>2, <2>3 DEF Onward
<1>7. CASE HostPoll(r)
  <2>1. PICK l, t : /\ l = Prog[pc[r]].layer /\ t \in BOOLEAN
                    /\ tiles' = [tiles EXCEPT ![r][l] = t]
    BY <1>7 DEF HostPoll
  <2>2. level' = level /\ pc[r] \in DOMAIN Prog /\ Prog[pc[r]].kind = "poll"
    BY <1>1, <1>7, KindSets DEF HostPoll
  <2>3. ASSUME NEW q \in Ranks, NEW i \in DOMAIN Prog, i < pc[q] \/ Prog[i].when = BOOLEAN
        PROVE  Runs(q, i)' <=> Runs(q, i)
    <3>1. Runs(q, i)' <=> tiles'[q][Prog[i].layer] \in Prog[i].when
      BY <2>2, StaticPrime DEF Runs
    <3>2. CASE q # r \/ Prog[i].layer # l
      BY <1>1, <2>1, <3>1, <3>2 DEF Runs, Types
    <3>3. CASE q = r /\ Prog[i].layer = l
      <4>1. Prog[i].when = BOOLEAN
        <5>1. PollsFirst(Prog)
          BY <1>1, ProgramPolls DEF Prog
        <5>2. Prog[i].when # BOOLEAN => pc[r] < i
          BY <2>1, <2>2, <3>3, <5>1 DEF PollsFirst
        <5> QED BY <1>1, <1>2, <2>3, <3>3, <5>2
      <4>2. tiles[q][l] \in BOOLEAN /\ tiles'[q][l] \in BOOLEAN
        BY <1>1, <2>1, <3>3 DEF Types
      <4> QED BY <3>1, <3>3, <4>1, <4>2 DEF Runs
    <3> QED BY <3>2, <3>3
  <2>4. \A q \in Ranks : pc[q] <= pc'[q]
    BY <1>2, <1>7 DEF HostPoll, Types
  <2> QED BY <1>3, <1>7, <2>3, <2>4 DEF HostPoll, Onward
<1>8. ASSUME NEW s \in Streams, PassWait(r, s) PROVE Onward
  <2>1. next[r][s] <= Head1(r, s) + 1
    BY <1>1, <1>8, HeadInProg, <1>3 DEF PassWait
  <2>2. \A q \in Ranks, t \in Streams : next[q][t] <= next'[q][t]
    BY <1>3, <1>8, <2>1 DEF PassWait, Types
  <2> QED BY <1>2, <1>4, <1>8, <2>2 DEF PassWait, Onward
<1>9. ASSUME NEW s \in Streams, Launch(r, s) PROVE Onward
  BY <1>2, <1>3, <1>4, <1>9 DEF Launch, Onward
<1>10. ASSUME NEW s \in Streams, Place(r, s) PROVE Onward
  BY <1>2, <1>3, <1>4, <1>10 DEF Place, Onward
<1>11. ASSUME NEW s \in Streams, Begin(r, s) PROVE Onward
  BY <1>2, <1>3, <1>4, <1>11 DEF Begin, Onward
<1>12. ASSUME NEW s \in Streams, Publish(r, s) PROVE Onward
  BY <1>2, <1>3, <1>4, <1>12 DEF Publish, Onward
<1>13. ASSUME NEW s \in Streams, End(r, s) PROVE Onward
  <2>1. Head1(r, s) # 0
    BY <1>13 DEF End, Busy, HeadsOK
  <2>2. next[r][s] <= Head1(r, s) + 1
    BY <1>1, <1>3, <2>1, HeadInProg
  <2>3. \A q \in Ranks, t \in Streams : next[q][t] <= next'[q][t]
    BY <1>3, <1>13, <2>2 DEF End, Types
  <2> QED BY <1>2, <1>4, <1>13, <2>3 DEF End, Onward
<1> QED BY <1>6, <1>7, <1>8, <1>9, <1>10, <1>11, <1>12, <1>13 DEF RankStep

(* While its stream passes nothing, the head of a stream stays the same. *)
LEMMA HeadStays ==
  ASSUME Types, Types', Onward, NEW r \in Ranks, NEW s \in Streams,
         Head1(r, s) # 0, next'[r][s] = next[r][s]
  PROVE  Head1(r, s)' = Head1(r, s)
<1>1. /\ level \in Levels /\ level' = level /\ Len(Prog) \in Nat /\ DOMAIN Prog = 1 .. Len(Prog)
      /\ Prog' = Prog /\ StmtsOn(s)' = StmtsOn(s)
      /\ StmtsOn(s) = {i \in DOMAIN Prog : Prog[i].stream = s}
  BY ProgramStmts, StaticPrime, OnStream DEF Types, Prog, Stmts, Onward
<1> DEFINE h == Head1(r, s)
           S == Pending(r, s)'
<1>2. /\ h \in DOMAIN Prog /\ Prog[h].stream = s /\ next[r][s] <= h /\ h < pc[r] /\ Runs(r, h)
      /\ \A k \in Pending(r, s) : h <= k
  BY HeadIs
<1>3. pc[r] \in Nat /\ pc'[r] \in Nat /\ pc[r] <= pc'[r] /\ next[r][s] \in Nat
  BY <1>1 DEF Types, Onward
<1>4. \A i : i \in S <=> i \in DOMAIN Prog /\ Prog[i].stream = s
                         /\ next[r][s] <= i /\ i < pc'[r] /\ Runs(r, i)'
  BY <1>1 DEF Pending
<1>5. h \in S
  BY <1>1, <1>2, <1>3, <1>4 DEF Onward
<1>6. \A k \in S : h <= k
  <2> SUFFICES ASSUME NEW k \in S PROVE h <= k
    OBVIOUS
  <2>1. k \in DOMAIN Prog /\ Prog[k].stream = s /\ next[r][s] <= k /\ k < pc'[r] /\ Runs(r, k)'
    BY <1>4
  <2>2. CASE k < pc[r]
    <3>1. Runs(r, k)
      BY <2>1, <2>2 DEF Onward
    <3>2. k \in Pending(r, s)
      BY <2>1, <2>2, <3>1, HeadIs
    <3> QED BY <1>2, <3>2
  <2>3. CASE ~(k < pc[r])
    BY <1>1, <1>2, <1>3, <2>1, <2>3
  <2> QED BY <2>2, <2>3
<1>7. S \in SUBSET Nat /\ S # {}
  BY <1>1, <1>4, <1>5
<1>8. Head1(r, s)' = Min(S)
  BY <1>7 DEF Head1
<1> HIDE DEF S, h
<1>9. Min(S) \in S /\ \A k \in S : Min(S) <= k
  BY <1>7, MinIs
<1>10. Min(S) = h
  BY <1>5, <1>6, <1>7, <1>9
<1> QED BY <1>8, <1>10 DEF h

(* What a step does to one stream. *)
Quiet(r, s) ==
  /\ next'[r][s] = next[r][s] /\ phase'[r][s] = phase[r][s] /\ held'[r][s] = held[r][s]
StreamStep(r, s) ==
  PassWait(r, s) \/ Launch(r, s) \/ Place(r, s) \/ Begin(r, s) \/ Publish(r, s) \/ End(r, s)

(* A step moves at most one stream. *)
LEMMA StepShape ==
  ASSUME Types, [Next]_vars, NEW r \in Ranks, NEW s \in Streams
  PROVE  \/ Quiet(r, s)
         \/ StreamStep(r, s)
<1>1. ASSUME UNCHANGED vars PROVE Quiet(r, s)
  BY <1>1 DEF vars, Quiet
<1> SUFFICES ASSUME NEW q \in Ranks, RankStep(q) PROVE Quiet(r, s) \/ StreamStep(r, s)
  BY <1>1 DEF Next
<1>2. CASE Issue(q) \/ HostPoll(q)
  BY <1>2 DEF Issue, HostPoll, Quiet
<1>3. ASSUME NEW t \in Streams, StreamStep(q, t), <<q, t>> # <<r, s>>
      PROVE  Quiet(r, s)
  <2>1. CASE PassWait(q, t)
    BY <1>3, <2>1 DEF PassWait, Quiet, Types
  <2>2. CASE Launch(q, t)
    BY <1>3, <2>2 DEF Launch, Quiet, Types
  <2>3. CASE Place(q, t)
    BY <1>3, <2>3 DEF Place, Quiet, Types
  <2>4. CASE Begin(q, t)
    BY <1>3, <2>4 DEF Begin, Quiet, Types
  <2>5. CASE Publish(q, t)
    BY <1>3, <2>5 DEF Publish, Quiet, Types
  <2>6. CASE End(q, t)
    BY <1>3, <2>6 DEF End, Quiet, Types
  <2> QED BY <1>3, <2>1, <2>2, <2>3, <2>4, <2>5, <2>6 DEF StreamStep
<1>4. Issue(q) \/ HostPoll(q) \/ \E t \in Streams : StreamStep(q, t)
  BY DEF RankStep, StreamStep
<1> QED BY <1>2, <1>3, <1>4

HeadOK(r, s) ==
  LET st == Prog[Head1(r, s)] IN
  /\ next[r][s] <= pc[r]
  /\ IF Busy(r, s) THEN /\ Head1(r, s) # 0
                        /\ st.kind = "kernel"
                        /\ held[r][s] <= st.need
                   ELSE held[r][s] = 0
  /\ Running(r, s) => held[r][s] > 0
  /\ phase[r][s] = "published" => st.name \in {"dispatch_main", "dispatch_grads"}

(* A step keeps HeadsOK. *)
LEMMA HeadsStep ==
  ASSUME Types, Types', HeadsOK, [Next]_vars
  PROVE  HeadsOK'
<1>1. Onward /\ Prog' = Prog /\ Len(Prog) \in Nat /\ DOMAIN Prog = 1 .. Len(Prog)
      /\ \A i \in DOMAIN Prog : Prog[i].kind = "kernel" => Prog[i].need \in 1 .. NumSms
  BY StepOnward, StaticPrime, ProgramStmts DEF Onward, Types, Prog, Stmts
<1>2. SUFFICES ASSUME NEW r \in Ranks, NEW s \in Streams PROVE HeadOK(r, s)'
  BY DEF HeadsOK, HeadOK
<1>3. /\ pc[r] \in Nat /\ pc'[r] \in Nat /\ pc[r] <= pc'[r]
      /\ next[r][s] \in Nat /\ phase[r][s] \in Phases /\ held[r][s] \in Nat
      /\ HeadOK(r, s)
  <2>1. NumSms \in Nat
    BY SmAssumption
  <2> QED BY <1>1, <2>1 DEF Types, Onward, HeadsOK, HeadOK
<1>4. CASE Quiet(r, s)
  <2>1. CASE Busy(r, s)
    <3>1. Head1(r, s)' = Head1(r, s)
      BY <1>1, <1>3, <1>4, <2>1, HeadStays DEF HeadOK, Quiet
    <3> QED BY <1>1, <1>3, <1>4, <2>1, <3>1 DEF HeadOK, Quiet, Busy, Running
  <2>2. CASE ~Busy(r, s)
    BY <1>3, <1>4, <2>2 DEF HeadOK, Quiet, Busy, Running
  <2> QED BY <2>1, <2>2
<1>5. CASE PassWait(r, s)
  <2>1. Head1(r, s) # 0 /\ WaitOver(r, Head1(r, s)) /\ next'[r][s] = Head1(r, s) + 1
        /\ phase'[r][s] = phase[r][s] /\ held'[r][s] = held[r][s]
    BY <1>5 DEF PassWait, Types
  <2>2. next'[r][s] <= pc'[r]
    BY <1>1, <1>3, <2>1, HeadInProg
  <2>3. ~Busy(r, s)
    BY <1>3, <2>1 DEF HeadOK, WaitOver
  <2> QED BY <1>3, <2>1, <2>2, <2>3 DEF HeadOK, Busy, Running
<1>6. CASE Launch(r, s)
  <2>1. /\ Head1(r, s) # 0 /\ Prog[Head1(r, s)].kind = "kernel" /\ phase[r][s] = "queued"
        /\ phase'[r][s] = "launched" /\ next'[r][s] = next[r][s] /\ held'[r][s] = held[r][s]
    BY <1>6 DEF Launch, Types
  <2>2. Head1(r, s)' = Head1(r, s)
    BY <1>1, <2>1, HeadStays
  <2>3. held'[r][s] = 0 /\ Prog[Head1(r, s)].need \in Nat
    BY <1>1, <1>3, <2>1, HeadInProg, SmAssumption DEF HeadOK, Busy
  <2> QED BY <1>1, <1>3, <2>1, <2>2, <2>3 DEF HeadOK, Busy, Running
<1>7. CASE Place(r, s)
  <2>1. /\ Busy(r, s) /\ held[r][s] < Prog[Head1(r, s)].need /\ FreeSms(r) > 0
        /\ next'[r][s] = next[r][s] /\ phase'[r][s] = phase[r][s]
        /\ held'[r][s] = Min({Prog[Head1(r, s)].need, held[r][s] + FreeSms(r)})
    BY <1>7 DEF Place, Served, Wanting, Types
  <2>2. Head1(r, s)' = Head1(r, s)
    BY <1>1, <1>3, <2>1, HeadStays DEF HeadOK
  <2>3. Prog[Head1(r, s)].need \in Nat
    BY <1>1, <1>3, <2>1, HeadInProg, SmAssumption DEF HeadOK
  <2>4. FreeSms(r) \in Nat
    BY <2>1, FreeSmsIs, SmAssumption, SMTT(30) DEF Types, Streams
  <2>5. held'[r][s] <= Prog[Head1(r, s)].need /\ held'[r][s] > 0
    <3>1. PICK n, b : n = Prog[Head1(r, s)].need /\ b = held[r][s] + FreeSms(r)
      OBVIOUS
    <3>2. n \in Nat /\ b \in Nat /\ n > 0 /\ b > 0
      BY <1>3, <2>1, <2>3, <2>4, <3>1
    <3>3. Min({n, b}) \in {n, b} /\ \A x \in {n, b} : Min({n, b}) <= x
      BY <3>2, MinIs
    <3> QED BY <2>1, <3>1, <3>2, <3>3
  <2> QED BY <1>1, <1>3, <2>1, <2>2, <2>5 DEF HeadOK, Busy, Running
<1>8. CASE Begin(r, s)
  <2>1. /\ Busy(r, s) /\ held[r][s] > 0 /\ phase'[r][s] = "started"
        /\ next'[r][s] = next[r][s] /\ held'[r][s] = held[r][s]
    BY <1>8 DEF Begin, Busy, Types
  <2>2. Head1(r, s)' = Head1(r, s)
    BY <1>1, <1>3, <2>1, HeadStays DEF HeadOK
  <2> QED BY <1>1, <1>3, <2>1, <2>2 DEF HeadOK, Busy, Running
<1>9. CASE Publish(r, s)
  <2>1. /\ Running(r, s) /\ Busy(r, s) /\ phase'[r][s] = "published"
        /\ next'[r][s] = next[r][s] /\ held'[r][s] = held[r][s]
        /\ Prog[Head1(r, s)].name \in {"dispatch_main", "dispatch_grads"}
    BY <1>9 DEF Publish, Busy, Running, Types
  <2>2. Head1(r, s)' = Head1(r, s)
    BY <1>1, <1>3, <2>1, HeadStays DEF HeadOK
  <2> QED BY <1>1, <1>3, <2>1, <2>2 DEF HeadOK, Busy, Running
<1>10. CASE End(r, s)
  <2>1. /\ Busy(r, s) /\ next'[r][s] = Head1(r, s) + 1
        /\ phase'[r][s] = "queued" /\ held'[r][s] = 0
    BY <1>10 DEF End, Busy, Types
  <2>2. next'[r][s] <= pc'[r]
    BY <1>1, <1>3, <2>1, HeadInProg DEF HeadOK
  <2> QED BY <1>3, <2>1, <2>2 DEF HeadOK, Busy, Running
<1> QED BY <1>4, <1>5, <1>6, <1>7, <1>8, <1>9, <1>10, StepShape DEF StreamStep

(* What does not depend on the tile count is always run. *)
LEMMA RunsOrNot ==
  ASSUME Types, NEW r \in Ranks, NEW i \in DOMAIN Prog
  PROVE  Prog[i].when = BOOLEAN => Runs(r, i)
<1>1. Prog[i].layer \in Layers
  BY ProgramStmts DEF Types, Prog, Stmts
<1> QED BY <1>1 DEF Types, Runs

(* A kernel that runs stays at the head of its stream until it is complete. *)
LEMMA RunningStays ==
  ASSUME Types, Types', HeadsOK, [Next]_vars, NEW r \in Ranks, NEW s \in Streams, Busy(r, s)
  PROVE  \/ /\ Busy(r, s)' /\ Head1(r, s)' = Head1(r, s)
            /\ Running(r, s) => Running(r, s)'
            /\ phase[r][s] = "published" => phase'[r][s] = "published"
            /\ held[r][s] <= held'[r][s]
            /\ next'[r][s] = next[r][s]
         \/ /\ ~Busy(r, s)' /\ next'[r][s] = Head1(r, s) + 1 /\ End(r, s)
<1>1. /\ Onward /\ Head1(r, s) # 0 /\ Prog[Head1(r, s)].kind = "kernel"
  BY StepOnward DEF HeadsOK
<1>2. ASSUME next'[r][s] = next[r][s] PROVE Head1(r, s)' = Head1(r, s)
  BY <1>1, <1>2, HeadStays
<1>3. /\ held[r][s] \in Nat /\ NumSms \in Nat /\ held'[r][s] \in Nat
  BY SmAssumption DEF Types
<1>4. CASE Quiet(r, s)
  BY <1>2, <1>3, <1>4 DEF Quiet, Busy, Running
<1>5. ~PassWait(r, s)
  BY <1>1 DEF PassWait, WaitOver
<1>6. ~Launch(r, s)
  BY DEF Launch, Busy
<1>7. CASE Place(r, s)
  <2>1. next'[r][s] = next[r][s] /\ phase'[r][s] = phase[r][s]
    BY <1>7 DEF Place, Types
  <2>2. /\ held'[r][s] = Min({Prog[Head1(r, s)].need, held[r][s] + FreeSms(r)})
        /\ held[r][s] < Prog[Head1(r, s)].need /\ FreeSms(r) > 0
    BY <1>7 DEF Place, Served, Wanting, Types
  <2>3. FreeSms(r) \in Nat
    BY <2>2, FreeSmsIs, SmAssumption, SMTT(30) DEF Types, Streams
  <2>4. Prog[Head1(r, s)].need \in Nat
    <3>1. Head1(r, s) \in DOMAIN Prog
      BY <1>1, HeadInProg
    <3>2. \A i \in DOMAIN Prog : Prog[i].kind = "kernel" => Prog[i].need \in 1 .. NumSms
      BY ProgramStmts DEF Stmts, Types, Prog
    <3> QED BY <1>1, <1>3, <3>1, <3>2
  <2>5. held[r][s] <= held'[r][s]
    <3>1. PICK n, b : n = Prog[Head1(r, s)].need /\ b = held[r][s] + FreeSms(r)
      OBVIOUS
    <3>2. n \in Nat /\ b \in Nat /\ held[r][s] <= n /\ held[r][s] <= b
      BY <1>3, <2>2, <2>3, <2>4, <3>1
    <3>3. Min({n, b}) \in {n, b}
      BY <3>2, MinIs
    <3> QED BY <2>2, <3>1, <3>2, <3>3
  <2> QED BY <1>2, <2>1, <2>5 DEF Busy, Running
<1>8. CASE Begin(r, s)
  BY <1>2, <1>3, <1>8 DEF Begin, Busy, Running, Types
<1>9. CASE Publish(r, s)
  BY <1>2, <1>3, <1>9 DEF Publish, Busy, Running, Types
<1>10. CASE End(r, s)
  BY <1>10 DEF End, Busy, Types
<1> QED BY <1>4, <1>5, <1>6, <1>7, <1>8, <1>9, <1>10, StepShape DEF StreamStep

(* A complete statement stays complete. *)
LEMMA CompleteStays ==
  ASSUME Types, Types', Onward, NEW r \in Ranks, NEW i \in DOMAIN Prog,
         Prog[i].stream \in Streams,
         i < pc[r] \/ Prog[i].when = BOOLEAN, Complete(r, i)
  PROVE  Complete(r, i)'
<1>1. /\ Prog' = Prog /\ Len(Prog) \in Nat /\ DOMAIN Prog = 1 .. Len(Prog)
  BY StaticPrime, ProgramStmts DEF Types, Prog, Stmts, Onward
<1>2. PICK s \in Streams : s = Prog[i].stream
  OBVIOUS
<1>3. next[r][s] \in Nat /\ next'[r][s] \in Nat /\ next[r][s] <= next'[r][s]
  BY <1>1 DEF Types, Onward
<1>4. Runs(r, i)' <=> Runs(r, i)
  BY DEF Onward
<1> QED BY <1>1, <1>2, <1>3, <1>4 DEF Complete

(* A published dispatch stays published. *)
LEMMA PublishedStays ==
  ASSUME Types, Types', HeadsOK, [Next]_vars, NEW r \in Ranks, NEW i \in DOMAIN Prog,
         Prog[i].stream \in Streams, i < pc[r] \/ Prog[i].when = BOOLEAN, Published(r, i)
  PROVE  Published(r, i)'
<1>1. /\ Prog' = Prog /\ Len(Prog) \in Nat /\ DOMAIN Prog = 1 .. Len(Prog) /\ Onward
  BY StepOnward, StaticPrime, ProgramStmts DEF Types, Prog, Stmts, Onward
<1>2. CASE Complete(r, i)
  BY <1>1, <1>2, CompleteStays DEF Published
<1>3. CASE ~Complete(r, i)
  <2>1. PICK s \in Streams : s = Prog[i].stream
    OBVIOUS
  <2>2. Busy(r, s) /\ Head1(r, s) = i /\ phase[r][s] = "published"
    BY <1>3, <2>1 DEF Published, Current
  <2>3. CASE Busy(r, s)' /\ Head1(r, s)' = i /\ phase'[r][s] = "published"
    BY <1>1, <2>1, <2>3 DEF Published, Current
  <2>4. CASE next'[r][s] = i + 1
    BY <1>1, <2>1, <2>4 DEF Published, Complete
  <2> QED BY <2>2, <2>3, <2>4, RunningStays
<1> QED BY <1>2, <1>3

(* Delivered stays so. *)
LEMMA DeliveredStays ==
  ASSUME Types, Types', HeadsOK, [Next]_vars, NEW r \in Ranks, NEW l,
         NEW n \in {"dispatch_main", "dispatch_grads"}, Delivered(r, n, l)
  PROVE  Delivered(r, n, l)'
<1>1. /\ level \in Levels /\ Onward /\ Prog' = Prog /\ The(n, l)' = The(n, l)
      /\ \A i \in DOMAIN Prog : /\ Prog[i].kind = "kernel" => Prog[i].stream \in Streams
                                /\ Prog[i].name = n => Prog[i].when = BOOLEAN
  BY StepOnward, StaticPrime, ProgramStmts DEF Types, Prog, Stmts, Onward
<1>2. \A i \in The(n, l) : i \in DOMAIN Prog /\ Prog[i].stream \in Streams /\ Prog[i].when = BOOLEAN
  BY <1>1, KindSets DEF The
<1>3. \A i \in The(n, l) : Published(r, i)
  BY DEF Delivered
<1>4. \A i \in The(n, l) : Published(r, i)'
  BY <1>2, <1>3, PublishedStays
<1> QED BY <1>1, <1>4 DEF Delivered

(* A wait that is over stays over: what it names is issued before it. *)
LEMMA WaitOverStays ==
  ASSUME Types, Types', HeadsOK, [Next]_vars, NEW r \in Ranks, NEW i \in DOMAIN Prog,
         i <= pc[r], Prog[i].kind \in Waits, WaitOver(r, i),
         \A f \in Flags : started[r][f] <= started'[r][f]
  PROVE  WaitOver(r, i)'
<1>1. /\ level \in Levels /\ Onward /\ Prog' = Prog /\ Len(Prog) \in Nat /\ DOMAIN Prog = 1 .. Len(Prog)
      /\ pc[r] \in Nat
  <2>1. /\ level \in Levels /\ Onward /\ Prog' = Prog /\ Len(Prog) \in Nat /\ DOMAIN Prog = 1 .. Len(Prog)
    BY StepOnward, StaticPrime, ProgramStmts DEF Types, Prog, Stmts, Onward
  <2> QED BY <2>1 DEF Types
<1>2. CASE Prog[i].kind = "wait_stream"
  <2>1. PICK s \in Streams : s = Prog[i].on
    BY <1>1, <1>2, ProgramStmts DEF Prog, Stmts
  <2>2. StmtsOn(s) = {k \in DOMAIN Prog : Prog[k].stream = s} /\ StmtsOn(s)' = StmtsOn(s)
    BY <1>1, OnStream, StaticPrime DEF Onward
  <2>3. \A k \in StmtsOn(s) : k < i => Complete(r, k)
    BY <1>2, <2>1 DEF WaitOver
  <2>4. \A k \in StmtsOn(s) : k < i => Complete(r, k)'
    BY <1>1, <2>2, <2>3, CompleteStays
  <2> QED BY <1>1, <1>2, <2>1, <2>2, <2>4 DEF WaitOver
<1>3. CASE Prog[i].kind = "wait_event"
  <2> DEFINE M(k) == /\ Prog[k].kind = "record_event"
                     /\ Prog[k].on = Prog[i].on
                     /\ Prog[k].layer = Prog[i].layer
  <2>1. \A k \in DOMAIN Prog : M(k) => Prog[k].when = BOOLEAN /\ Prog[k].stream \in Streams
    BY <1>1, ProgramStmts DEF Prog, Stmts
  <2>2. \A k \in DOMAIN Prog : M(k) => Complete(r, k)
    BY <1>3 DEF WaitOver
  <2>3. \A k \in DOMAIN Prog : M(k) => Complete(r, k)'
    <3> HIDE DEF M
    <3> QED BY <1>1, <2>1, <2>2, CompleteStays
  <2> QED BY <1>1, <1>3, <2>3 DEF WaitOver
<1>4. CASE Prog[i].kind = "wait_started"
  <2>1. PICK f \in Flags : f = Prog[i].on
    BY <1>1, <1>4, ProgramStmts DEF Prog, Stmts
  <2>2. \A b \in 1 .. i - 1 : b \in DOMAIN Prog /\ (Runs(r, b)' <=> Runs(r, b))
    <3> SUFFICES ASSUME NEW b \in 1 .. i - 1
                 PROVE  b \in DOMAIN Prog /\ (Runs(r, b)' <=> Runs(r, b))
      OBVIOUS
    <3>1. b \in DOMAIN Prog /\ b < pc[r]
      BY <1>1
    <3> QED BY <3>1, <1>1 DEF Onward
  <2>3. IssuedBefore(r, i, f)' = IssuedBefore(r, i, f)
    <3> DEFINE S == {b \in 1 .. i - 1 : Prog[b].kind = "bump" /\ Prog[b].on = f /\ Runs(r, b)}
    <3>1. S' = S
      BY <1>1, <2>2
    <3> HIDE DEF S
    <3>2. IssuedBefore(r, i, f) = Cardinality(S) /\ IssuedBefore(r, i, f)' = Cardinality(S')
      BY DEF IssuedBefore, S
    <3> QED BY <3>1, <3>2
  <2>4. started[r][f] \in Nat /\ started'[r][f] \in Nat
    BY DEF Types
  <2>5. IsFiniteSet(1 .. i - 1) /\ IssuedBefore(r, i, f) \in Nat
    <3>1. IsFiniteSet(1 .. i - 1)
      BY <1>1, FS_Interval
    <3> QED BY <3>1, FS_Subset, FS_CardinalityType DEF IssuedBefore
  <2>6. started[r][f] >= IssuedBefore(r, i, f)
    BY <1>4, <2>1 DEF WaitOver
  <2> QED BY <1>1, <1>4, <2>1, <2>3, <2>4, <2>5, <2>6 DEF WaitOver
<1> QED BY <1>2, <1>3, <1>4 DEF Waits

(* A started flag grows, by one, when a kernel of its name begins. *)
LEMMA StartedGrows ==
  ASSUME Types, [Next]_vars, NEW r \in Ranks, NEW f \in Flags
  PROVE  /\ started[r][f] <= started'[r][f]
         /\ \/ started'[r][f] = started[r][f]
            \/ \E s \in Streams : Begin(r, s) /\ Prog[Head1(r, s)].name = f
         /\ \A s \in Streams : Begin(r, s) =>
              started'[r][f] = IF Prog[Head1(r, s)].name = f THEN started[r][f] + 1 ELSE started[r][f]
<1>1. started[r][f] \in Nat
  BY DEF Types
<1>2. ASSUME NEW s \in Streams, Begin(r, s)
      PROVE  started'[r][f] = IF Prog[Head1(r, s)].name = f THEN started[r][f] + 1 ELSE started[r][f]
  BY <1>2 DEF Begin, Types
<1>3. \/ started'[r][f] = started[r][f]
      \/ \E s \in Streams : Begin(r, s) /\ Prog[Head1(r, s)].name = f
  <2>1. CASE UNCHANGED vars
    BY <2>1 DEF vars
  <2> SUFFICES ASSUME NEW q \in Ranks, RankStep(q)
               PROVE  \/ started'[r][f] = started[r][f]
                      \/ \E s \in Streams : Begin(r, s) /\ Prog[Head1(r, s)].name = f
    BY <2>1 DEF Next
  <2>2. CASE Issue(q) \/ HostPoll(q)
    BY <2>2 DEF Issue, HostPoll
  <2>3. ASSUME NEW s \in Streams, PassWait(q, s) \/ Launch(q, s) \/ Place(q, s) \/ Publish(q, s) \/ End(q, s)
        PROVE  started' = started
    BY <2>3 DEF PassWait, Launch, Place, Publish, End
  <2>4. ASSUME NEW s \in Streams, Begin(q, s)
        PROVE  \/ started'[r][f] = started[r][f]
               \/ Begin(r, s) /\ Prog[Head1(r, s)].name = f
    <3>1. CASE q = r
      BY <1>2, <2>4, <3>1
    <3>2. CASE q # r
      BY <2>4, <3>2 DEF Begin, Types
    <3> QED BY <3>1, <3>2
  <2> QED BY <2>2, <2>3, <2>4 DEF RankStep
<1> QED BY <1>1, <1>2, <1>3

WaitHolds(r, i) ==
  /\ Prog[i].kind \in Waits => WaitOver(r, i)
  /\ Prog[i].name = "kernel_a" => Delivered(r, "dispatch_main", Prog[i].layer)
  /\ Prog[i].name = "kernel_y_bwd" => Delivered(r, "dispatch_grads", Prog[i].layer)

(* What a passed wait waited for stays true. *)
LEMMA WaitHoldsStays ==
  ASSUME Types, Types', HeadsOK, [Next]_vars, NEW r \in Ranks, NEW i \in DOMAIN Prog,
         i <= pc[r], WaitHolds(r, i)
  PROVE  WaitHolds(r, i)'
<1>1. Prog' = Prog
  BY StepOnward, StaticPrime DEF Onward
<1>2. ASSUME Prog[i].kind \in Waits PROVE WaitOver(r, i)'
  BY <1>2, StartedGrows, WaitOverStays DEF WaitHolds
<1>3. ASSUME NEW l, NEW n \in {"dispatch_main", "dispatch_grads"}, Delivered(r, n, l)
      PROVE  Delivered(r, n, l)'
  BY <1>3, DeliveredStays
<1> QED BY <1>1, <1>2, <1>3 DEF WaitHolds

(* A step keeps WaitsHold; a stream that passes a wait finds it over. *)
LEMMA WaitsStep ==
  ASSUME Types, Types', HeadsOK, WaitsHold, [Next]_vars
  PROVE  WaitsHold'
<1>1. /\ Onward /\ Prog' = Prog /\ Len(Prog) \in Nat /\ DOMAIN Prog = 1 .. Len(Prog)
  BY StepOnward, StaticPrime, ProgramStmts DEF Types, Prog, Stmts, Onward
<1> SUFFICES ASSUME NEW r \in Ranks, NEW i \in DOMAIN Prog, NEW s \in Streams,
                    s = Prog[i].stream, i < next'[r][s], Runs(r, i)'
             PROVE  WaitHolds(r, i)'
  BY <1>1 DEF WaitsHold, WaitHolds
<1>2. /\ next[r][s] \in Nat /\ next'[r][s] \in Nat /\ pc[r] \in Nat /\ next[r][s] <= pc[r]
  BY <1>1 DEF Types, HeadsOK
<1>3. CASE i < next[r][s]
  <2>1. i < pc[r] /\ Runs(r, i)
    BY <1>1, <1>2, <1>3 DEF Onward
  <2>2. WaitHolds(r, i)
    BY <1>3, <2>1 DEF WaitsHold, WaitHolds
  <2> QED BY <1>1, <1>2, <2>1, <2>2, WaitHoldsStays
<1>4. CASE ~(i < next[r][s])
  <2>1. next'[r][s] # next[r][s]
    BY <1>4
  <2>2. PassWait(r, s) \/ End(r, s)
    <3>1. ~Quiet(r, s)
      BY <2>1 DEF Quiet
    <3>2. ~Launch(r, s) /\ ~Place(r, s) /\ ~Begin(r, s) /\ ~Publish(r, s)
      BY <2>1 DEF Launch, Place, Begin, Publish
    <3> QED BY <3>1, <3>2, StepShape DEF StreamStep
  <2>3. Head1(r, s) # 0 /\ next'[r][s] = Head1(r, s) + 1
    BY <2>2 DEF PassWait, End, Types, Busy, HeadsOK
  <2>4. Head1(r, s) \in 1 .. Len(Prog) /\ Head1(r, s) < pc[r]
    BY <2>3, HeadInProg
  <2>5. i < pc[r] /\ Runs(r, i)
    BY <1>1, <1>2, <2>3, <2>4 DEF Onward
  <2>6. i \in Pending(r, s)
    BY <1>1, <1>2, <1>4, <2>5, HeadIs
  <2>7. i = Head1(r, s)
    BY <1>1, <1>2, <2>3, <2>4, <2>6, HeadIs
  <2>8. WaitHolds(r, i)
    <3>1. CASE PassWait(r, s)
      <4>1. WaitOver(r, i)
        BY <2>7, <3>1 DEF PassWait
      <4>2. Prog[i].kind # "kernel"
        BY <4>1 DEF WaitOver
      <4>3. Prog[i].name = ""
        BY <1>1, <4>2, ProgramStmts DEF Types, Prog, Stmts
      <4> QED BY <4>1, <4>3 DEF WaitHolds
    <3>2. CASE End(r, s)
      <4>1. MayEnd(r, i) /\ Busy(r, s)
        BY <2>7, <3>2 DEF End, Busy
      <4>2. Prog[i].kind = "kernel"
        BY <2>7, <4>1 DEF HeadsOK
      <4> QED BY <4>1, <4>2 DEF WaitHolds, MayEnd, Waits
    <3> QED BY <2>2, <3>1, <3>2
  <2> QED BY <1>1, <1>2, <2>5, <2>8, WaitHoldsStays
<1> QED BY <1>3, <1>4

(* A kernel that has begun was issued. *)
LEMMA BegunIssued ==
  ASSUME Types, HeadsOK, NEW r \in Ranks, NEW k \in Kernels, Begun(r, k)
  PROVE  /\ k \in DOMAIN Prog /\ Prog[k].stream \in Streams /\ k < pc[r]
         /\ Prog[k].kind = "kernel"
<1>1. /\ level \in Levels /\ Len(Prog) \in Nat /\ DOMAIN Prog = 1 .. Len(Prog)
      /\ \A i \in DOMAIN Prog : Prog[i].kind = "kernel" => Prog[i].stream \in Streams
  BY ProgramStmts DEF Types, Prog, Stmts
<1>2. PICK s \in Streams : s = Prog[k].stream /\ k \in DOMAIN Prog /\ Prog[k].kind = "kernel"
  BY <1>1, KindSets
<1>3. next[r][s] \in Nat /\ pc[r] \in Nat /\ next[r][s] <= pc[r]
  BY <1>1 DEF Types, HeadsOK
<1>4. CASE k < next[r][s]
  BY <1>1, <1>2, <1>3, <1>4
<1>5. CASE Running(r, s) /\ Head1(r, s) = k
  <2>1. k # 0
    BY <1>1, <1>2
  <2> QED BY <1>2, <1>5, <2>1, HeadInProg
<1> QED BY <1>2, <1>4, <1>5 DEF Begun

(* A kernel that has begun stays so. *)
LEMMA BegunStays ==
  ASSUME Types, Types', HeadsOK, [Next]_vars, NEW r \in Ranks, NEW k \in Kernels, Begun(r, k)
  PROVE  Begun(r, k)' /\ (Runs(r, k)' <=> Runs(r, k))
<1>1. /\ Onward /\ Prog' = Prog /\ Len(Prog) \in Nat /\ DOMAIN Prog = 1 .. Len(Prog)
  BY StepOnward, StaticPrime, ProgramStmts DEF Types, Prog, Stmts, Onward
<1>2. PICK s \in Streams : s = Prog[k].stream /\ k \in DOMAIN Prog /\ k < pc[r]
  BY BegunIssued
<1>3. next[r][s] \in Nat /\ next'[r][s] \in Nat /\ next[r][s] <= next'[r][s]
  BY <1>1 DEF Types, Onward
<1>4. Runs(r, k)' <=> Runs(r, k)
  BY <1>1, <1>2 DEF Onward
<1>5. CASE k < next[r][s]
  BY <1>1, <1>2, <1>3, <1>4, <1>5 DEF Begun
<1>6. CASE Running(r, s) /\ Head1(r, s) = k
  <2>1. Busy(r, s)
    BY <1>6 DEF Running, Busy
  <2>2. \/ Running(r, s)' /\ Head1(r, s)' = k
        \/ next'[r][s] = k + 1
    BY <1>6, <2>1, RunningStays
  <2> QED BY <1>1, <1>2, <1>4, <2>2 DEF Begun
<1> QED BY <1>2, <1>5, <1>6 DEF Begun

(* A kernel begins by Begin only. *)
LEMMA BegunNew ==
  ASSUME Types, Types', HeadsOK, [Next]_vars, NEW r \in Ranks, NEW k \in Kernels,
         Begun(r, k)', ~Begun(r, k), Runs(r, k)'
  PROVE  \E s \in Streams : Begin(r, s) /\ Head1(r, s) = k
<1>1. /\ level \in Levels /\ Onward /\ Prog' = Prog /\ Len(Prog) \in Nat /\ DOMAIN Prog = 1 .. Len(Prog)
      /\ \A i \in DOMAIN Prog : Prog[i].kind = "kernel" => Prog[i].stream \in Streams
  BY StepOnward, StaticPrime, ProgramStmts DEF Types, Prog, Stmts, Onward
<1>2. PICK s \in Streams : s = Prog[k].stream /\ k \in DOMAIN Prog /\ Prog[k].kind = "kernel"
  BY <1>1, KindSets
<1>3. /\ next[r][s] \in Nat /\ next'[r][s] \in Nat /\ pc[r] \in Nat /\ k \in Nat \ {0}
      /\ ~(k < next[r][s]) /\ ~(Running(r, s) /\ Head1(r, s) = k)
      /\ k < next'[r][s] \/ (Running(r, s)' /\ Head1(r, s)' = k)
  BY <1>1, <1>2 DEF Types, Begun
<1>4. CASE Quiet(r, s)
  <2>1. next'[r][s] = next[r][s] /\ phase'[r][s] = phase[r][s]
    BY <1>4 DEF Quiet
  <2>2. Running(r, s) /\ Head1(r, s)' = k
    BY <1>3, <2>1 DEF Running
  <2>3. Busy(r, s)
    BY <2>2 DEF Running, Busy
  <2>4. Head1(r, s)' = Head1(r, s)
    BY <2>1, <2>3, RunningStays, <1>1, HeadStays DEF HeadsOK
  <2> QED BY <1>3, <2>2, <2>4
<1>5. CASE PassWait(r, s) \/ End(r, s)
  <2>1. /\ Head1(r, s) # 0 /\ next'[r][s] = Head1(r, s) + 1
        /\ End(r, s) => Running(r, s) /\ phase'[r][s] = "queued"
        /\ PassWait(r, s) => Prog[Head1(r, s)].kind # "kernel" /\ phase'[r][s] = phase[r][s]
    BY <1>5 DEF PassWait, End, Types, Busy, HeadsOK, WaitOver, Running
  <2>2. Head1(r, s) \in 1 .. Len(Prog) /\ Head1(r, s) < pc[r] /\ next[r][s] <= Head1(r, s)
    BY <2>1, HeadInProg
  <2>3. CASE k < next'[r][s]
    <3>1. k < pc[r]
      BY <1>3, <2>1, <2>2, <2>3
    <3>2. k \in Pending(r, s)
      BY <1>1, <1>2, <1>3, <3>1, HeadIs DEF Onward
    <3>3. k = Head1(r, s)
      BY <1>3, <2>1, <2>2, <2>3, <3>2, HeadIs
    <3> QED BY <1>2, <1>3, <1>5, <2>1, <3>3
  <2>4. CASE Running(r, s)'
    <3>1. PassWait(r, s) /\ Busy(r, s)
      BY <1>5, <2>1, <2>4 DEF Running, Busy
    <3> QED BY <2>1, <3>1 DEF HeadsOK
  <2> QED BY <1>3, <2>3, <2>4
<1>6. CASE Launch(r, s)
  BY <1>3, <1>6 DEF Launch, Types, Running
<1>7. CASE Place(r, s) \/ Publish(r, s) \/ Begin(r, s)
  <2>1. next'[r][s] = next[r][s] /\ Busy(r, s)
    BY <1>7 DEF Place, Publish, Begin, Served, Wanting, Busy
  <2>2. Head1(r, s)' = Head1(r, s) /\ Running(r, s)' /\ Head1(r, s) = k
    BY <1>1, <1>3, <2>1, HeadStays DEF HeadsOK
  <2>3. CASE Place(r, s) \/ Publish(r, s)
    BY <1>3, <2>2, <2>3 DEF Place, Publish, Running
  <2> QED BY <1>7, <2>2, <2>3
<1> QED BY <1>4, <1>5, <1>6, <1>7, StepShape DEF StreamStep

(* A step keeps StartedCounts: the set and the count grow together. *)
LEMMA StartedStep ==
  ASSUME Types, Types', HeadsOK, StartedCounts, [Next]_vars
  PROVE  StartedCounts'
<1>1. /\ level \in Levels /\ Onward /\ Prog' = Prog /\ Kernels' = Kernels
      /\ Len(Prog) \in Nat /\ DOMAIN Prog = 1 .. Len(Prog)
  BY StepOnward, StaticPrime, ProgramStmts DEF Types, Prog, Stmts, Onward
<1> SUFFICES ASSUME NEW r \in Ranks, NEW f \in Flags
             PROVE  started'[r][f] = Cardinality(BegunOf(r, f)')
  BY DEF StartedCounts
<1>2. started[r][f] = Cardinality(BegunOf(r, f))
  BY DEF StartedCounts
<1>3. \A k : k \in BegunOf(r, f)' <=>
           k \in Kernels /\ Prog[k].name = f /\ Runs(r, k)' /\ Begun(r, k)'
  BY <1>1 DEF BegunOf
<1>4. BegunOf(r, f) \subseteq BegunOf(r, f)'
  BY <1>3, BegunStays DEF BegunOf
<1>5. IsFiniteSet(BegunOf(r, f))
  <2>1. Kernels \subseteq 1 .. Len(Prog)
    BY <1>1, KindSets
  <2>2. IsFiniteSet(1 .. Len(Prog))
    BY <1>1, FS_Interval
  <2>3. BegunOf(r, f) \in SUBSET (1 .. Len(Prog))
    BY <2>1 DEF BegunOf
  <2> QED BY <2>2, <2>3, FS_Subset
<1>6. ASSUME NEW k \in BegunOf(r, f)', k \notin BegunOf(r, f)
      PROVE  \E s \in Streams : Begin(r, s) /\ Head1(r, s) = k /\ Prog[k].name = f
  <2>1. ~Begun(r, k)
    BY <1>3, <1>6, BegunStays DEF BegunOf
  <2> QED BY <1>3, <1>6, <2>1, BegunNew
<1>7. CASE \E s \in Streams : Begin(r, s) /\ Prog[Head1(r, s)].name = f
  <2>1. PICK s \in Streams : Begin(r, s) /\ Prog[Head1(r, s)].name = f
    BY <1>7
  <2>2. started'[r][f] = started[r][f] + 1
    BY <2>1, StartedGrows
  <2>3. PICK h : h = Head1(r, s)
    OBVIOUS
  <2>4. /\ Busy(r, s) /\ ~Running(r, s) /\ h # 0 /\ Prog[h].kind = "kernel"
        /\ next'[r][s] = next[r][s] /\ phase'[r][s] = "started"
    BY <2>1, <2>3 DEF Begin, Busy, Running, HeadsOK, Types
  <2>5. h \in Kernels /\ Prog[h].stream = s /\ next[r][s] <= h /\ h < pc[r] /\ Runs(r, h)
        /\ h \in Nat /\ next[r][s] \in Nat
    BY <1>1, <2>3, <2>4, HeadInProg, KindSets DEF Types
  <2>6. h \notin BegunOf(r, f)
    BY <2>4, <2>5 DEF BegunOf, Begun
  <2>7. h \in BegunOf(r, f)'
    <3>1. Head1(r, s)' = h
      BY <1>1, <2>3, <2>4, HeadStays
    <3>2. Runs(r, h)'
      BY <1>1, <2>5, KindSets DEF Onward
    <3>3. Begun(r, h)'
      BY <1>1, <2>4, <2>5, <3>1 DEF Begun, Running
    <3> QED BY <1>3, <2>1, <2>3, <2>5, <3>2, <3>3
  <2>8. \A k \in BegunOf(r, f)' : k \in BegunOf(r, f) \/ k = h
    <3> SUFFICES ASSUME NEW k \in BegunOf(r, f)', k \notin BegunOf(r, f) PROVE k = h
      OBVIOUS
    <3>1. PICK t \in Streams : Begin(r, t) /\ Head1(r, t) = k
      BY <1>6
    <3>2. t = s
      <4>1. phase'[r][t] = "started" /\ phase[r][t] = "launched"
        BY <3>1 DEF Begin, Types
      <4>2. t # s => phase'[r][t] = phase[r][t]
        BY <2>1 DEF Begin, Types
      <4> QED BY <4>1, <4>2
    <3> QED BY <2>3, <3>1, <3>2
  <2>9. BegunOf(r, f)' = BegunOf(r, f) \cup {h}
    BY <1>4, <2>7, <2>8
  <2>10. Cardinality(BegunOf(r, f)') = Cardinality(BegunOf(r, f)) + 1
    BY <1>5, <2>6, <2>9, FS_AddElement
  <2> QED BY <1>2, <2>2, <2>10
<1>8. CASE ~\E s \in Streams : Begin(r, s) /\ Prog[Head1(r, s)].name = f
  <2>1. started'[r][f] = started[r][f]
    BY <1>8, StartedGrows
  <2>2. BegunOf(r, f)' = BegunOf(r, f)
    BY <1>4, <1>6, <1>8
  <2> QED BY <1>2, <2>1, <2>2
<1> QED BY <1>7, <1>8

(* A gate that is over: every kernel it is about that was issued before it and
   runs has begun. *)
LEMMA GateBegun ==
  ASSUME Types, HeadsOK, StartedCounts, NEW r \in Ranks, NEW g \in DOMAIN Prog, g <= pc[r],
         Prog[g].kind = "wait_started", WaitOver(r, g),
         NEW a \in Kernels, a < g, Prog[a].name = Prog[g].on, Runs(r, a)
  PROVE  Begun(r, a)
<1>1. /\ level \in Levels /\ Len(Prog) \in Nat /\ DOMAIN Prog = 1 .. Len(Prog) /\ FlagsPaired(Prog)
      /\ \A i \in DOMAIN Prog : /\ Prog[i].kind = "kernel" => Prog[i].stream \in Streams
                                /\ Prog[i].kind = "wait_started" => Prog[i].on \in Flags
  BY ProgramStmts, ProgramFlags DEF Types, Prog, Stmts
<1>2. PICK f \in Flags : f = Prog[g].on
  BY <1>1
<1>3. f # ""
  BY <1>2 DEF Flags
<1>10. PICK d \in {1, 2} : d = Lead(f)
  BY Zenon DEF Lead
<1>0. g \in Nat
  BY <1>1
<1> DEFINE K == {k \in Kernels : k < g /\ Prog[k].name = f /\ Runs(r, k)}
           B == {b \in 1 .. g - 1 : Prog[b].kind = "bump" /\ Prog[b].on = f /\ Runs(r, b)}
<1>4. /\ IsFiniteSet(B) /\ IsFiniteSet(K) /\ K \subseteq DOMAIN Prog
  <2>1. IsFiniteSet(1 .. g - 1)
    BY <1>0, FS_Interval
  <2>2. B \in SUBSET (1 .. g - 1) /\ K \in SUBSET (1 .. g - 1) /\ K \subseteq DOMAIN Prog
    BY <1>1, KindSets
  <2> QED BY <2>1, <2>2, FS_Subset
<1>5. Cardinality(K) <= Cardinality(B)
  <2> DEFINE F == [k \in K |-> k - d]
  <2>1. ASSUME NEW k \in K PROVE k - d \in B /\ k \in Int
    <3>1. /\ k \in DOMAIN Prog /\ Prog[k].name = f /\ k < g /\ Runs(r, k) /\ k \in Nat /\ g \in Nat
      BY <1>1, <1>4
    <3>2. PICK b : b = k - d /\ b = k - Lead(f)
      BY <1>10
    <3>3. /\ b \in DOMAIN Prog /\ Prog[b].kind = "bump" /\ Prog[b].on = f
          /\ Prog[b].layer = Prog[k].layer /\ Prog[b].when = Prog[k].when
      <4>1. \A i \in DOMAIN Prog : Prog[i].name \in Flags =>
              /\ i - Lead(Prog[i].name) \in DOMAIN Prog
              /\ Prog[i - Lead(Prog[i].name)].kind = "bump"
              /\ Prog[i - Lead(Prog[i].name)].on = Prog[i].name
              /\ Prog[i - Lead(Prog[i].name)].layer = Prog[i].layer
              /\ Prog[i - Lead(Prog[i].name)].when = Prog[i].when
        BY <1>1 DEF FlagsPaired
      <4>2. b = k - Lead(Prog[k].name) /\ Prog[k].name \in Flags
        BY <3>1, <3>2
      <4> QED BY <3>1, <4>1, <4>2
    <3>4. Runs(r, b)
      BY <3>1, <3>3 DEF Runs
    <3>5. b \in 1 .. g - 1
      <4>1. b \in Nat \ {0}
        BY <1>1, <3>3
      <4>2. b < k
        BY <1>10, <3>1, <3>2
      <4> QED BY <3>1, <4>1, <4>2
    <3> QED BY <3>1, <3>2, <3>3, <3>4, <3>5
  <2> HIDE DEF B, K
  <2>2. F \in [K -> B]
    BY <2>1
  <2>3. F \in Injection(K, B)
    <3>1. \A j, k \in K : F[j] = F[k] => j = k
      <4>1. \A k \in K : F[k] = k - d /\ k \in Int
        BY <2>1
      <4> HIDE DEF F
      <4> QED BY <1>10, <4>1
    <3> HIDE DEF F
    <3> QED BY <2>2, <3>1 DEF Injection, IsInjective
  <2> QED BY <1>4, <2>3, FS_Injection
<1>6. started[r][f] >= Cardinality(B) /\ started[r][f] = Cardinality(BegunOf(r, f))
  BY <1>2 DEF WaitOver, IssuedBefore, StartedCounts
<1>7. ASSUME ~Begun(r, a) PROVE FALSE
  <2>1. PICK s \in Streams : s = Prog[a].stream /\ a \in DOMAIN Prog /\ Prog[a].kind = "kernel"
    BY <1>1, KindSets
  <2>2. a \in Nat /\ g \in Nat /\ pc[r] \in Nat /\ next[r][s] \in Nat
    BY <1>1, <2>1 DEF Types
  <2>3. a \in Pending(r, s)
    <3>1. ~(a < next[r][s])
      BY <1>7, <2>1 DEF Begun
    <3> QED BY <2>1, <2>2, <3>1, HeadIs
  <2>4. ASSUME NEW k \in BegunOf(r, f) PROVE k \in K \ {a}
    <3>1. k \in Kernels /\ k \in DOMAIN Prog /\ Prog[k].name = f /\ Runs(r, k) /\ Begun(r, k) /\ k \in Nat
      BY <1>1, KindSets DEF BegunOf
    <3>2. Prog[k].stream = s
      <4>1. \A i, j \in DOMAIN Prog :
              Prog[i].name # "" /\ Prog[i].name = Prog[j].name => Prog[i].stream = Prog[j].stream
        BY <1>1 DEF FlagsPaired
      <4>2. Prog[a].name = f
        BY <1>2
      <4> QED BY <1>3, <2>1, <3>1, <4>1, <4>2
    <3>3. k < next[r][s] \/ Head1(r, s) = k
      BY <3>1, <3>2 DEF Begun
    <3>4. k <= a
      <4>1. next[r][s] <= a
        BY <2>3, HeadIs
      <4>2. Head1(r, s) <= a
        BY <2>3, HeadIs
      <4> QED BY <2>2, <3>1, <3>3, <4>1, <4>2
    <3>5. k # a
      BY <1>7, <3>1
    <3> QED BY <2>2, <3>1, <3>4, <3>5
  <2>5. a \in K
    BY <1>2
  <2> HIDE DEF K, B
  <2>6. /\ IsFiniteSet(K \ {a}) /\ Cardinality(K \ {a}) = Cardinality(K) - 1
        /\ Cardinality(K \ {a}) \in Nat /\ Cardinality(K) \in Nat /\ Cardinality(B) \in Nat
    BY <1>4, <2>5, FS_RemoveElement, FS_CardinalityType
  <2>7. Cardinality(BegunOf(r, f)) <= Cardinality(K \ {a}) /\ Cardinality(BegunOf(r, f)) \in Nat
    <3>1. BegunOf(r, f) \in SUBSET (K \ {a})
      BY <2>4
    <3>2. IsFiniteSet(BegunOf(r, f)) /\ Cardinality(BegunOf(r, f)) <= Cardinality(K \ {a})
      BY <2>6, <3>1, FS_Subset
    <3> QED BY <3>2, FS_CardinalityType
  <2> QED BY <1>5, <1>6, <2>6, <2>7
<1> QED BY <1>7

(* Behind a passed gate the kernel it names has begun: the count at the gate
   is at least the number of bumps before it, and the kernels of one name begin
   in the order of their bumps. *)
LEMMA GateOver ==
  ASSUME Types, HeadsOK, WaitsHold, StartedCounts, NEW r \in Ranks, NEW t \in Streams,
         Head1(r, t) # 0, NEW a \in Kernels, Runs(r, a),
         <<Prog[a].name, Prog[Head1(r, t)].name>> \in Gated, Prog[a].layer = Prog[Head1(r, t)].layer
  PROVE  Begun(r, a) /\ Prog[a].stream # t
<1>1. /\ level \in Levels /\ Len(Prog) \in Nat /\ DOMAIN Prog = 1 .. Len(Prog) /\ GatesPlaced(Prog)
  BY ProgramStmts, ProgramFlags DEF Types, Prog, Stmts
<1>2. PICK b \in DOMAIN Prog : /\ b = Head1(r, t) /\ Prog[b].stream = t /\ b < pc[r] /\ Runs(r, b)
                               /\ \A k \in Pending(r, t) : b <= k
  BY HeadInProg, HeadIs
<1>3. a \in DOMAIN Prog /\ <<Prog[a].name, Prog[b].name>> \in Gated /\ Prog[a].layer = Prog[b].layer
  BY <1>1, <1>2, KindSets
<1>4. PICK g \in DOMAIN Prog : /\ a < g /\ g < b
                               /\ Prog[g].kind = "wait_started" /\ Prog[g].on = Prog[a].name
                               /\ Prog[g].stream = t /\ Prog[g].layer = Prog[a].layer
                               /\ Prog[a].when \cap Prog[b].when \subseteq Prog[g].when
                               /\ Prog[a].stream # t
  <2>1. /\ Prog[a].stream # Prog[b].stream
        /\ \E g \in DOMAIN Prog : /\ a < g /\ g < b
                               /\ Prog[g].kind = "wait_started" /\ Prog[g].on = Prog[a].name
                               /\ Prog[g].stream = Prog[b].stream /\ Prog[g].layer = Prog[a].layer
                               /\ Prog[a].when \cap Prog[b].when \subseteq Prog[g].when
    BY <1>1, <1>3 DEF GatesPlaced
  <2> QED BY <1>2, <2>1
<1>5. Runs(r, g)
  BY <1>2, <1>3, <1>4 DEF Runs
<1>6. g < next[r][t] /\ g < pc[r]
  <2>1. g \in Nat /\ b \in Nat /\ pc[r] \in Nat /\ next[r][t] \in Nat
    BY <1>1 DEF Types
  <2>2. g < pc[r] /\ g \notin Pending(r, t)
    BY <1>2, <1>4, <2>1
  <2> QED BY <1>4, <1>5, <2>1, <2>2, HeadIs
<1>7. WaitOver(r, g)
  BY <1>4, <1>5, <1>6 DEF WaitsHold, Waits
<1>8. g <= pc[r]
  BY <1>1, <1>6 DEF Types
<1>9. Begun(r, a)
  BY <1>4, <1>7, <1>8, GateBegun
<1> QED BY <1>4, <1>9

(* A kernel launched earlier stays ahead while both are on the device. *)
LEMMA AheadStays ==
  ASSUME Types, HeadsOK, [Next]_vars, NEW r \in Ranks, NEW s \in Streams, NEW t \in Streams,
         Busy(r, t), s \in ahead[r][t], Busy(r, s)', Busy(r, t)'
  PROVE  s \in ahead'[r][t]
<1>1. CASE UNCHANGED vars
  BY <1>1 DEF vars
<1> SUFFICES ASSUME NEW q \in Ranks, RankStep(q) PROVE s \in ahead'[r][t]
  BY <1>1 DEF Next
<1>2. CASE Issue(q) \/ HostPoll(q)
  BY <1>2 DEF Issue, HostPoll
<1>3. ASSUME NEW u \in Streams, PassWait(q, u) \/ Place(q, u) \/ Begin(q, u) \/ Publish(q, u)
      PROVE  ahead' = ahead
  BY <1>3 DEF PassWait, Place, Begin, Publish
<1>4. ASSUME NEW u \in Streams, Launch(q, u) PROVE s \in ahead'[r][t]
  <2>1. q # r \/ u # t
    BY <1>4 DEF Launch, Busy
  <2> QED BY <1>4, <2>1 DEF Launch, Types
<1>5. ASSUME NEW u \in Streams, End(q, u) PROVE s \in ahead'[r][t]
  <2>1. CASE q # r
    BY <1>5, <2>1 DEF End, Types
  <2>2. CASE q = r
    <3>1. phase'[r][u] = "queued"
      BY <1>5, <2>2 DEF End, Types
    <3>2. u # s /\ u # t
      BY <3>1 DEF Busy
    <3>3. ahead'[r][t] = ahead[r][t] \ {u}
      BY <1>5, <2>2, <3>2 DEF End, Types
    <3> QED BY <3>2, <3>3
  <2> QED BY <2>1, <2>2
<1> QED BY <1>2, <1>3, <1>4, <1>5 DEF RankStep

(* A step keeps GatesHold: a kernel gets SMs only when no kernel ahead of it
   wants any, or by priority. *)
LEMMA GatesStep ==
  ASSUME Types, Types', HeadsOK, HeadsOK', WaitsHold, StartedCounts, GatesHold, [Next]_vars
  PROVE  GatesHold'
<1>1. /\ level \in Levels /\ Onward /\ prioritize' = prioritize /\ Prog' = Prog /\ Len(Prog) \in Nat
      /\ DOMAIN Prog = 1 .. Len(Prog)
      /\ \A i \in DOMAIN Prog : Prog[i].kind = "kernel" => Prog[i].need \in 1 .. NumSms
  BY StepOnward, StaticPrime, ProgramStmts DEF Types, Prog, Stmts, Onward
<1> SUFFICES ASSUME NEW r \in Ranks, NEW s \in Streams, NEW t \in Streams, GatedPair(r, s, t)'
             PROVE  /\ s \in ahead'[r][t]
                    /\ held'[r][t] > 0 /\ (~prioritize \/ s = "communicate") =>
                         held'[r][s] = Prog[Head1(r, s)'].need
  BY <1>1 DEF GatesHold
<1>2. PICK a, b : a = Head1(r, s)' /\ b = Head1(r, t)'
  OBVIOUS
<1>3. /\ Busy(r, s)' /\ Busy(r, t)' /\ <<Prog[a].name, Prog[b].name>> \in Gated
      /\ Prog[a].layer = Prog[b].layer
      /\ Prog[a].kind = "kernel" /\ Prog[b].kind = "kernel" /\ held'[r][s] <= Prog[a].need
  BY <1>1, <1>2 DEF GatedPair, HeadsOK
<1>4. \A u \in Streams : Busy(r, u)' /\ Busy(r, u) =>
        Head1(r, u)' = Head1(r, u) /\ held[r][u] <= held'[r][u] /\ next'[r][u] = next[r][u]
  BY RunningStays
<1>5. \A u \in Streams : Busy(r, u)' /\ ~Busy(r, u) =>
        Launch(r, u) /\ Head1(r, u)' = Head1(r, u) /\ Head1(r, u) # 0 /\ held'[r][u] = held[r][u] /\ held[r][u] = 0
  <2> SUFFICES ASSUME NEW u \in Streams, Busy(r, u)', ~Busy(r, u)
               PROVE  /\ Launch(r, u) /\ Head1(r, u)' = Head1(r, u) /\ Head1(r, u) # 0
                      /\ held'[r][u] = held[r][u] /\ held[r][u] = 0
    OBVIOUS
  <2>1. ~Quiet(r, u)
    BY DEF Quiet, Busy
  <2>2. ~PassWait(r, u) /\ ~Place(r, u) /\ ~Begin(r, u) /\ ~Publish(r, u) /\ ~End(r, u)
    BY DEF PassWait, Place, Begin, Publish, End, Busy, Served, Wanting
  <2>3. Launch(r, u)
    BY <2>1, <2>2, StepShape DEF StreamStep
  <2>4. Head1(r, u) # 0 /\ next'[r][u] = next[r][u] /\ held'[r][u] = held[r][u]
    BY <2>3 DEF Launch
  <2>5. Head1(r, u)' = Head1(r, u)
    BY <1>1, <2>4, HeadStays
  <2> QED BY <2>3, <2>4, <2>5 DEF HeadsOK
<1>6. a = Head1(r, s) /\ b = Head1(r, t) /\ a # 0 /\ b # 0
  BY <1>2, <1>3, <1>4, <1>5 DEF HeadsOK
<1>7. /\ a \in DOMAIN Prog /\ b \in DOMAIN Prog /\ a \in Kernels /\ Prog[a].stream = s
      /\ Runs(r, a) /\ next[r][s] <= a /\ a \in Nat /\ next[r][s] \in Nat
  BY <1>1, <1>3, <1>6, HeadInProg, KindSets, SMTT(30) DEF Types
<1>8. Begun(r, a) /\ s # t
  BY <1>3, <1>6, <1>7, GateOver
<1>9. Running(r, s) /\ Busy(r, s)
  BY <1>7, <1>8 DEF Begun, Running, Busy
<1>10. CASE ~Busy(r, t)
  <2>1. Launch(r, t) /\ held'[r][t] = 0
    BY <1>3, <1>5, <1>10
  <2>2. s \in ahead'[r][t]
    BY <1>9, <2>1 DEF Launch, Types
  <2> QED BY <2>1, <2>2
<1>11. CASE Busy(r, t)
  <2>1. GatedPair(r, s, t)
    BY <1>3, <1>6, <1>9, <1>11 DEF GatedPair
  <2>2. /\ s \in ahead[r][t]
        /\ held[r][t] > 0 /\ (~prioritize \/ s = "communicate") => held[r][s] = Prog[a].need
    BY <1>6, <2>1 DEF GatesHold
  <2>3. s \in ahead'[r][t]
    BY <1>3, <1>11, <2>2, AheadStays
  <2>4. held[r][s] \in Nat /\ held'[r][s] \in Nat /\ Prog[a].need \in Nat /\ held[r][t] \in Nat /\ held'[r][t] \in Nat
    BY <1>1, <1>3, <1>7, SmAssumption, SMTT(30) DEF Types
  <2>5. held[r][s] <= held'[r][s]
    BY <1>3, <1>4, <1>9
  <2>6. ASSUME held'[r][t] > 0, ~prioritize \/ s = "communicate" PROVE held'[r][s] = Prog[a].need
    <3>1. CASE held[r][t] > 0
      BY <1>3, <2>2, <2>4, <2>5, <2>6, <3>1
    <3>2. CASE ~(held[r][t] > 0)
      <4>1. held'[r][t] # held[r][t]
        BY <2>6, <3>2
      <4>2. Place(r, t)
        <5>1. ~Quiet(r, t)
          BY <4>1 DEF Quiet
        <5>2. ~PassWait(r, t) /\ ~Launch(r, t) /\ ~Begin(r, t) /\ ~Publish(r, t)
          BY <4>1 DEF PassWait, Launch, Begin, Publish
        <5>3. ~End(r, t)
          BY <1>3 DEF End, Types, Busy
        <5> QED BY <5>1, <5>2, <5>3, StepShape DEF StreamStep
      <4>3. s \notin Wanting(r)
        BY <1>8, <2>2, <2>6, <4>2 DEF Place, Served
      <4>4. ~(held[r][s] < Prog[a].need)
        BY <1>6, <1>9, <4>3 DEF Wanting
      <4> QED BY <1>3, <2>4, <2>5, <4>4
    <3> QED BY <3>1, <3>2
  <2> QED BY <1>2, <2>3, <2>6
<1> QED BY <1>2, <1>10, <1>11

(* Nothing is issued, launched or counted at first. *)
LEMMA LInvInit == Init => LInv
<1> SUFFICES ASSUME Init PROVE LInv
  OBVIOUS
<1>1. /\ level \in Levels /\ Len(Prog) \in Nat /\ DOMAIN Prog = 1 .. Len(Prog)
  BY ProgramStmts, ScheduleAssumption DEF Init, Prog, Stmts
<1>2. NumSms \in Nat
  BY SmAssumption
<1>3. Types
  <2>1. ASSUME NEW r \in Ranks PROVE FreeSms(r) >= 0
    <3>1. held[r] \in [Streams -> 0 .. NumSms] /\ \A s \in Streams : held[r][s] = 0
      BY <1>2 DEF Init
    <3> QED BY <1>2, <3>1, FreeSmsIs DEF Streams
  <2> QED BY <1>1, <1>2, <2>1 DEF Init, Types, Phases
<1>4. HeadsOK
  BY DEF Init, HeadsOK, Busy, Running
<1>5. WaitsHold
  BY <1>1 DEF Init, WaitsHold
<1>6. StartedCounts
  <2> SUFFICES ASSUME NEW r \in Ranks, NEW f \in Flags PROVE started[r][f] = Cardinality(BegunOf(r, f))
    BY DEF StartedCounts
  <2>1. \A k \in Kernels : k \in DOMAIN Prog /\ Prog[k].stream \in Streams
    BY <1>1, KindSets, ProgramStmts DEF Prog, Stmts
  <2>2. \A k \in Kernels : ~Begun(r, k)
    BY <1>1, <2>1 DEF Begun, Running, Init
  <2>3. BegunOf(r, f) = {}
    BY <2>2 DEF BegunOf
  <2> QED BY <2>3, FS_EmptySet DEF Init
<1>7. GatesHold
  BY DEF Init, GatesHold, GatedPair, Busy
<1> QED BY <1>3, <1>4, <1>5, <1>6, <1>7 DEF LInv

(* Every step keeps the invariant. *)
LEMMA LInvStep == LInv /\ [Next]_vars => LInv'
<1> SUFFICES ASSUME LInv, [Next]_vars PROVE LInv'
  OBVIOUS
<1>1. Types /\ HeadsOK /\ WaitsHold /\ StartedCounts /\ GatesHold
  BY DEF LInv
<1>2. Types'
  BY <1>1, StepTypes
<1>3. HeadsOK'
  BY <1>1, <1>2, HeadsStep
<1>4. WaitsHold'
  BY <1>1, <1>2, WaitsStep
<1>5. StartedCounts'
  BY <1>1, <1>2, StartedStep
<1>6. GatesHold'
  BY <1>1, <1>2, <1>3, GatesStep
<1> QED BY <1>2, <1>3, <1>4, <1>5, <1>6 DEF LInv

(* The inductive invariant of the streams: where each stream and the host are,
   what passed wait_stream, wait_event and wait_*_started calls stand for, what
   the started flags count, and who gets SMs first. *)
THEOREM LayerInvariant == Spec => []LInv
<1>1. Init => LInv
  BY LInvInit
<1>2. LInv /\ [Next]_vars => LInv'
  BY LInvStep
<1> QED BY <1>1, <1>2, PTL DEF Spec

(* Both hold of the kernels at the heads by GatesHold; a kernel that is gated
   has begun, so it is complete or at the head of its own stream. *)
LEMMA GatedKernel ==
  ASSUME LInv, NEW r \in Ranks, NEW t \in Streams, Busy(r, t), held[r][t] > 0,
         NEW n, <<n, Prog[Head1(r, t)].name>> \in Gated,
         NEW i \in The(n, Prog[Head1(r, t)].layer)
  PROVE  \/ Complete(r, i)
         \/ /\ Current(r, i) /\ held[r][Prog[i].stream] > 0
            /\ ~prioritize \/ Prog[i].stream = "communicate" => FullyPlaced(r, i)
<1>1. Types /\ HeadsOK /\ WaitsHold /\ StartedCounts /\ GatesHold
  BY DEF LInv
<1>2. i \in Kernels /\ Prog[i].name = n /\ Prog[i].layer = Prog[Head1(r, t)].layer /\ Head1(r, t) # 0
  BY <1>1 DEF The, HeadsOK
<1>3. CASE ~Runs(r, i)
  BY <1>3 DEF Complete
<1>4. CASE Runs(r, i)
  <2>1. Begun(r, i)
    BY <1>1, <1>2, <1>4, GateOver
  <2>2. PICK s \in Streams : s = Prog[i].stream
    BY <1>1, <1>2, <2>1, BegunIssued
  <2>3. CASE i < next[r][s]
    BY <2>2, <2>3 DEF Complete
  <2>4. CASE Running(r, s) /\ Head1(r, s) = i
    <3>1. Busy(r, s) /\ Current(r, i) /\ held[r][s] > 0
      BY <1>1, <2>2, <2>4 DEF Current, Busy, Running, HeadsOK
    <3>2. GatedPair(r, s, t)
      BY <1>2, <2>4, <3>1 DEF GatedPair
    <3>3. ~prioritize \/ s = "communicate" => held[r][s] = Prog[i].need
      BY <1>1, <2>4, <3>2 DEF GatesHold
    <3> QED BY <2>2, <3>1, <3>3 DEF FullyPlaced
  <2> QED BY <2>1, <2>2, <2>3, <2>4 DEF Begun
<1> QED BY <1>3, <1>4

(* kernel_a and kernel_y_bwd, which spin on tiles, hold no SM before every block
   of their dispatch does: the front-end waits for the started flag, for any
   number of SMs, layers and ranks. *)
THEOREM SpinnersGated == Spec => []SpinnerBehindDispatch
<1>1. LInv => SpinnerBehindDispatch
  <2> SUFFICES ASSUME LInv, NEW r \in Ranks, NEW s \in Streams, Busy(r, s), held[r][s] > 0,
                      NEW c \in {<<"dispatch_main", "kernel_a">>, <<"dispatch_grads", "kernel_y_bwd">>},
                      Prog[Head1(r, s)].name = c[2]
               PROVE  Resident(r, c[1], Prog[Head1(r, s)].layer)
    BY DEF SpinnerBehindDispatch
  <2>1. c \in Gated /\ c = <<c[1], c[2]>> /\ c[1] \in {"dispatch_main", "dispatch_grads"}
    BY DEF Gated
  <2>2. ASSUME NEW i \in The(c[1], Prog[Head1(r, s)].layer) PROVE Complete(r, i) \/ FullyPlaced(r, i)
    <3>1. Prog[i].stream = "communicate"
      BY <2>1, DispatchStream DEF LInv, Types
    <3> QED BY <2>1, <3>1, GatedKernel
  <2> QED BY <2>2 DEF Resident
<1> QED BY <1>1, LayerInvariant, PTL

(* combine and combine_grads get SMs after the compute kernel they drain has a
   block on the device, and after all its blocks where make_streams gave the
   streams one priority. *)
THEOREM ComputeFirst == Spec => []ComputeWinsSms
<1>1. LInv => ComputeWinsSms
  <2> SUFFICES ASSUME LInv, NEW r \in Ranks, NEW c \in {<<"combine", "kernel_y">>, <<"combine_grads", "kernel_a_bwd">>},
                      Busy(r, "communicate"), held[r]["communicate"] > 0,
                      Prog[Head1(r, "communicate")].name = c[1]
               PROVE  /\ Seated(r, c[2], Prog[Head1(r, "communicate")].layer)
                      /\ ~prioritize => Resident(r, c[2], Prog[Head1(r, "communicate")].layer)
    BY DEF ComputeWinsSms
  <2>1. <<c[2], c[1]>> \in Gated /\ "communicate" \in Streams
    BY DEF Gated, Streams
  <2>2. ASSUME NEW i \in The(c[2], Prog[Head1(r, "communicate")].layer)
        PROVE  \/ Complete(r, i)
               \/ Current(r, i) /\ held[r][Prog[i].stream] > 0 /\ (~prioritize => FullyPlaced(r, i))
    BY <2>1, GatedKernel
  <2> QED BY <2>2 DEF Seated, Resident
<1> QED BY <1>1, LayerInvariant, PTL

------------------------------------------------------------------------------
(* A flag counts at most one kernel of every pass. *)
THEOREM LayerTypes == Spec => []TypeOK
<1>1. LInv => TypeOK
  <2> SUFFICES ASSUME LInv PROVE TypeOK
    OBVIOUS
  <2>1. Types /\ StartedCounts
    BY DEF LInv
  <2>2. level \in Levels /\ Prog = Program(level)
    BY <2>1 DEF Types, Prog
  <2>3. PICK base : Laid(level, base)
    BY <2>2, ProgramLaid
  <2>4. PICK n \in Nat : n = Len(Schedule) /\ DOMAIN Schedule = 1 .. n
    BY <2>3 DEF Laid
  <2>5. ASSUME NEW r \in Ranks, NEW f \in Flags
        PROVE  started[r][f] \in 0 .. n
    <3> DEFINE B == BegunOf(r, f)
               N == [i \in B |-> PassOf(level, i)]
    <3>1. \A i \in B : /\ i \in DOMAIN Program(level) /\ Program(level)[i].kind = "kernel"
                       /\ Program(level)[i].name = f
      BY <2>2, KindSets DEF BegunOf
    <3> HIDE DEF B
    <3>2. N \in [B -> 1 .. n]
      BY <2>2, <2>4, <3>1, KernelNamed
    <3>3. \A i, j \in B : N[i] = N[j] => i = j
      BY <2>2, <2>3, <3>1, SameNamePass
    <3> HIDE DEF N
    <3>4. N \in Injection(B, 1 .. n)
      BY <3>2, <3>3 DEF Injection, IsInjective
    <3>5. IsFiniteSet(1 .. n) /\ Cardinality(1 .. n) = n
      <4>1. /\ IsFiniteSet(1 .. n)
            /\ Cardinality(1 .. n) = IF 1 > n THEN 0 ELSE n - 1 + 1
        BY FS_Interval
      <4> QED BY <4>1
    <3>6. Cardinality(B) <= n /\ Cardinality(B) \in Nat
      BY <3>4, <3>5, FS_Injection, FS_CardinalityType
    <3>7. started[r][f] = Cardinality(B)
      BY <2>1 DEF StartedCounts, B
    <3> QED BY <2>4, <3>6, <3>7
  <2>6. started \in [Ranks -> [Flags -> 0 .. Len(Schedule)]]
    <3>1. started \in [Ranks -> [Flags -> Nat]]
      BY <2>1 DEF Types
    <3> QED BY <2>4, <2>5, <3>1
  <2> QED BY <2>1, <2>6 DEF TypeOK, Types
<1> QED BY <1>1, LayerInvariant, PTL

------------------------------------------------------------------------------
------------------------------------------------------------------------------
(* Waits as fences: what a stream has passed orders what is behind it after
   what other streams did. *)

(* w waits for i: a wait for the whole stream of i, or for an event recorded
   on it after i. *)
Covers(P, w, i) ==
  /\ P[w].when = BOOLEAN
  /\ \/ P[w].kind = "wait_stream" /\ P[w].on = P[i].stream /\ i < w
     \/ /\ P[w].kind = "wait_event"
        /\ \E e \in DOMAIN P : /\ P[e].kind = "record_event" /\ P[e].on = P[w].on
                               /\ P[e].layer = P[w].layer
                               /\ P[e].stream = P[i].stream /\ i < e
(* Between i and j stands such a wait, or a wait for a stream that has one. *)
FenceAt(P, w, i) ==
  \/ Covers(P, w, i)
  \/ /\ P[w].kind = "wait_stream" /\ P[w].when = BOOLEAN
     /\ \E v \in DOMAIN P : v < w /\ P[v].stream = P[w].on /\ Covers(P, v, i)
Fenced(P, i, j) == \E w \in DOMAIN P : w < j /\ P[w].stream = P[j].stream /\ FenceAt(P, w, i)

(* A wait that is over has its statements complete. *)
LEMMA WaitCovers ==
  ASSUME Types, NEW r \in Ranks, NEW w \in DOMAIN Prog, NEW i \in DOMAIN Prog,
         Prog[i].stream \in Streams, WaitOver(r, w), Covers(Prog, w, i)
  PROVE  Complete(r, i)
<1>1. /\ level \in Levels /\ Len(Prog) \in Nat /\ DOMAIN Prog = 1 .. Len(Prog)
      /\ \A e \in DOMAIN Prog : Prog[e].kind = "record_event" => Prog[e].when = BOOLEAN
  BY ProgramStmts DEF Types, Prog, Stmts
<1>2. CASE Prog[w].kind = "wait_stream" /\ Prog[w].on = Prog[i].stream /\ i < w
  <2>1. {k \in StmtsOn(Prog[w].on) : k < w /\ ~Complete(r, k)} = {}
    BY <1>2 DEF WaitOver
  <2>2. i \in StmtsOn(Prog[w].on)
    BY <1>1, <1>2, OnStream
  <2> QED BY <1>2, <2>1, <2>2
<1>3. ASSUME Prog[w].kind = "wait_event",
             NEW e \in DOMAIN Prog, Prog[e].kind = "record_event", Prog[e].on = Prog[w].on,
             Prog[e].layer = Prog[w].layer, Prog[e].stream = Prog[i].stream, i < e
      PROVE  Complete(r, i)
  <2>1. Complete(r, e)
    BY <1>3 DEF WaitOver
  <2>2. Runs(r, e)
    BY <1>1, <1>3, RunsOrNot
  <2>3. PICK s \in Streams : s = Prog[i].stream
    OBVIOUS
  <2>4. e < next[r][s]
    BY <1>3, <2>1, <2>2, <2>3 DEF Complete
  <2>5. e \in Nat /\ i \in Nat /\ next[r][s] \in Nat
    BY <1>1 DEF Types
  <2>6. i < next[r][s]
    BY <1>3, <2>4, <2>5
  <2> QED BY <2>3, <2>6 DEF Complete
<1> QED BY <1>2, <1>3 DEF Covers

(* The waits before the statement at a stream's head are over, and the
   statements before it on the same stream are complete. *)
LEMMA BeforeHead ==
  ASSUME Types, NEW r \in Ranks, NEW s \in Streams, Head1(r, s) # 0,
         NEW i \in DOMAIN Prog, Prog[i].stream = s, i < Head1(r, s)
  PROVE  Complete(r, i)
<1>1. Len(Prog) \in Nat /\ DOMAIN Prog = 1 .. Len(Prog)
  BY ProgramStmts DEF Types, Prog, Stmts
<1>2. PICK j \in DOMAIN Prog : /\ j = Head1(r, s) /\ j < pc[r]
                               /\ \A k \in Pending(r, s) : j <= k
  BY HeadInProg, HeadIs
<1>3. i \in Nat /\ j \in Nat /\ pc[r] \in Nat /\ next[r][s] \in Nat
  BY <1>1 DEF Types
<1>4. i < pc[r] /\ i \notin Pending(r, s)
  BY <1>2, <1>3
<1>5. ~Runs(r, i) \/ i < next[r][s]
  BY <1>3, <1>4, HeadIs
<1> QED BY <1>5 DEF Complete

(* A wait that a stream has passed is over. *)
LEMMA PassedWait ==
  ASSUME Types, WaitsHold, NEW r \in Ranks, NEW w \in DOMAIN Prog, Prog[w].stream \in Streams,
         Prog[w].kind \in Waits, Prog[w].when = BOOLEAN, Complete(r, w)
  PROVE  WaitOver(r, w)
<1>1. Runs(r, w)
  BY RunsOrNot
<1> QED BY <1>1 DEF WaitsHold, Complete

(* What is fenced before the head of a stream is complete. *)
LEMMA FenceHolds ==
  ASSUME LInv, NEW r \in Ranks, NEW s \in Streams, NEW j, j = Head1(r, s), j # 0,
         NEW i \in DOMAIN Prog, Prog[i].stream \in Streams, Fenced(Prog, i, j)
  PROVE  Complete(r, i)
<1>1. Types /\ WaitsHold
  BY DEF LInv
<1>2. PICK w \in DOMAIN Prog : w < j /\ Prog[w].stream = Prog[j].stream /\ FenceAt(Prog, w, i)
  BY DEF Fenced
<1>3. Prog[j].stream = s
  BY <1>1, HeadIs
<1>4. Complete(r, w)
  BY <1>1, <1>2, <1>3, BeforeHead
<1>5. CASE Covers(Prog, w, i)
  <2>1. Prog[w].kind \in Waits /\ Prog[w].when = BOOLEAN
    BY <1>5 DEF Covers, Waits
  <2>2. WaitOver(r, w)
    BY <1>1, <1>2, <1>3, <1>4, <2>1, PassedWait
  <2> QED BY <1>1, <1>5, <2>2, WaitCovers
<1>6. ASSUME Prog[w].kind = "wait_stream", Prog[w].when = BOOLEAN,
             NEW v \in DOMAIN Prog, v < w, Prog[v].stream = Prog[w].on, Covers(Prog, v, i)
      PROVE  Complete(r, i)
  <2>1. WaitOver(r, w)
    BY <1>1, <1>2, <1>3, <1>4, <1>6, PassedWait DEF Waits
  <2>2. Prog[v].stream \in Streams
    BY <1>1, <1>6, ProgramStmts DEF Types, Prog, Stmts
  <2>3. Covers(Prog, w, v)
    BY <1>6 DEF Covers
  <2>4. Complete(r, v)
    BY <1>1, <2>1, <2>2, <2>3, WaitCovers
  <2>5. Prog[v].kind \in Waits /\ Prog[v].when = BOOLEAN
    BY <1>6 DEF Covers, Waits
  <2>6. WaitOver(r, v)
    BY <1>1, <2>2, <2>4, <2>5, PassedWait
  <2> QED BY <1>1, <1>6, <2>6, WaitCovers
<1> QED BY <1>2, <1>5, <1>6 DEF FenceAt

------------------------------------------------------------------------------
------------------------------------------------------------------------------
(* Every pass is entered and left through the caller's stream. *)

IsWaitStream(st, s, t) == st.kind = "wait_stream" /\ st.stream = s /\ st.on = t /\ st.when = BOOLEAN

(* Which statements wait for a whole stream. *)
LEMMA WhichAreWaits ==
  ASSUME NEW l, NEW s, NEW t, NEW st, st = WaitStream(s, l, t)
  PROVE  IsWaitStream(st, s, t)
BY DEF IsWaitStream, WaitStream, Stmt

(* The same without what a kernel waits for. *)
ForwardAt(st, m, lv, c) ==
  \/ m = 2 /\ st.stream = "caller" /\ st.name = "model"
  \/ m = 7 /\ st.stream = "communicate" /\ st.name = "memset_pre"
  \/ m = 8 /\ st.stream = "communicate" /\ st.name = "metadata"
  \/ m = 11 /\ st.stream = "communicate" /\ st.name = "memset_post"
  \/ m = 14 /\ st.stream = "communicate" /\ st.name = "dispatch_main"
  \/ m = 19 /\ st.stream = "compute" /\ st.name = "kernel_a"
  \/ m = 21 /\ st.stream = "compute" /\ st.name = "kernel_y"
  \/ m = 24 /\ st.stream = "communicate" /\ st.name = "combine"
  \/ lv = 2 /\ m = 27 /\ st.stream = "caller" /\ st.name = "compress"
  \/ m = 30 + c /\ st.stream = "caller" /\ st.name = "model_out"

(* A forward kernel is at its place. *)
LEMMA ForwardPlaces ==
  ASSUME NEW st, NEW m, NEW lv, NEW c, ForwardKernel(st, m, lv, c)
  PROVE  ForwardAt(st, m, lv, c)
<1>1. CASE m = 2 /\ IsKernel(st, "caller", "model", BOOLEAN)
  <2>1. st.stream = "caller" /\ st.name = "model"
    BY <1>1, Zenon DEF IsKernel
  <2>2. m = 2
    BY <1>1, Zenon
  <2> QED BY <2>1, <2>2 DEF ForwardAt
<1>2. CASE m = 7 /\ IsKernel(st, "communicate", "memset_pre", BOOLEAN)
  <2>1. st.stream = "communicate" /\ st.name = "memset_pre"
    BY <1>2, Zenon DEF IsKernel
  <2>2. m = 7
    BY <1>2, Zenon
  <2> QED BY <2>1, <2>2 DEF ForwardAt
<1>3. CASE m = 8 /\ IsKernel(st, "communicate", "metadata", BOOLEAN)
  <2>1. st.stream = "communicate" /\ st.name = "metadata"
    BY <1>3, Zenon DEF IsKernel
  <2>2. m = 8
    BY <1>3, Zenon
  <2> QED BY <2>1, <2>2 DEF ForwardAt
<1>4. CASE m = 11 /\ IsKernel(st, "communicate", "memset_post", BOOLEAN)
  <2>1. st.stream = "communicate" /\ st.name = "memset_post"
    BY <1>4, Zenon DEF IsKernel
  <2>2. m = 11
    BY <1>4, Zenon
  <2> QED BY <2>1, <2>2 DEF ForwardAt
<1>5. CASE m = 14 /\ IsKernel(st, "communicate", "dispatch_main", BOOLEAN)
  <2>1. st.stream = "communicate" /\ st.name = "dispatch_main"
    BY <1>5, Zenon DEF IsKernel
  <2>2. m = 14
    BY <1>5, Zenon
  <2> QED BY <2>1, <2>2 DEF ForwardAt
<1>6. CASE m = 19 /\ IsKernel(st, "compute", "kernel_a", {TRUE})
  <2>1. st.stream = "compute" /\ st.name = "kernel_a"
    BY <1>6, Zenon DEF IsKernel
  <2>2. m = 19
    BY <1>6, Zenon
  <2> QED BY <2>1, <2>2 DEF ForwardAt
<1>7. CASE m = 21 /\ IsKernel(st, "compute", "kernel_y", {TRUE})
  <2>1. st.stream = "compute" /\ st.name = "kernel_y"
    BY <1>7, Zenon DEF IsKernel
  <2>2. m = 21
    BY <1>7, Zenon
  <2> QED BY <2>1, <2>2 DEF ForwardAt
<1>8. CASE m = 24 /\ IsKernel(st, "communicate", "combine", BOOLEAN)
  <2>1. st.stream = "communicate" /\ st.name = "combine"
    BY <1>8, Zenon DEF IsKernel
  <2>2. m = 24
    BY <1>8, Zenon
  <2> QED BY <2>1, <2>2 DEF ForwardAt
<1>9. CASE lv = 2 /\ m = 27 /\ IsKernel(st, "caller", "compress", BOOLEAN)
  <2>1. st.stream = "caller" /\ st.name = "compress"
    BY <1>9, Zenon DEF IsKernel
  <2>2. lv = 2 /\ m = 27
    BY <1>9, Zenon
  <2> QED BY <2>1, <2>2 DEF ForwardAt
<1>10. CASE m = 30 + c /\ IsKernel(st, "caller", "model_out", BOOLEAN)
  <2>1. st.stream = "caller" /\ st.name = "model_out"
    BY <1>10, Zenon DEF IsKernel
  <2>2. m = 30 + c
    BY <1>10, Zenon
  <2> QED BY <2>1, <2>2 DEF ForwardAt
<1> QED BY <1>1, <1>2, <1>3, <1>4, <1>5, <1>6, <1>7, <1>8, <1>9, <1>10, Zenon DEF ForwardKernel

BackwardAt(st, m, lv, c) ==
  \/ m = 2 /\ st.stream = "caller" /\ st.name = "model_bwd"
  \/ m = 7 /\ st.stream = "compute" /\ st.name = "zero_sums"
  \/ m = 9 /\ st.stream = "compute" /\ st.name = "index"
  \/ m = 11 /\ st.stream = "communicate" /\ st.name = "zero_arrival"
  \/ m = 14 /\ st.stream = "communicate" /\ st.name = "dispatch_grads"
  \/ lv = 2 /\ m = 18 /\ st.stream = "compute" /\ st.name = "reexpand"
  \/ lv # 0 /\ m = 16 + c /\ st.stream = "compute" /\ st.name = "recompute"
  \/ m = 17 + c /\ st.stream = "compute" /\ st.name = "kernel_y_bwd"
  \/ m = 19 + c /\ st.stream = "compute" /\ st.name = "kernel_a_bwd"
  \/ m = 22 + c /\ st.stream = "communicate" /\ st.name = "combine_grads"
  \/ m = 23 + c /\ st.stream = "compute" /\ st.name = "dW2"
  \/ m = 24 + c /\ st.stream = "compute" /\ st.name = "dW1"
  \/ m = 25 + c /\ st.stream = "compute" /\ st.name = "zero_dW"
  \/ m = 30 + c /\ st.stream = "caller" /\ st.name = "model_dx"

(* A backward kernel is at its place. *)
LEMMA BackwardPlaces ==
  ASSUME NEW st, NEW m, NEW lv, NEW c, BackwardKernel(st, m, lv, c)
  PROVE  BackwardAt(st, m, lv, c)
<1>1. CASE m = 2 /\ IsKernel(st, "caller", "model_bwd", BOOLEAN)
  <2>1. st.stream = "caller" /\ st.name = "model_bwd"
    BY <1>1, Zenon DEF IsKernel
  <2>2. m = 2
    BY <1>1, Zenon
  <2> QED BY <2>1, <2>2 DEF BackwardAt
<1>2. CASE m = 7 /\ IsKernel(st, "compute", "zero_sums", BOOLEAN)
  <2>1. st.stream = "compute" /\ st.name = "zero_sums"
    BY <1>2, Zenon DEF IsKernel
  <2>2. m = 7
    BY <1>2, Zenon
  <2> QED BY <2>1, <2>2 DEF BackwardAt
<1>3. CASE m = 9 /\ IsKernel(st, "compute", "index", BOOLEAN)
  <2>1. st.stream = "compute" /\ st.name = "index"
    BY <1>3, Zenon DEF IsKernel
  <2>2. m = 9
    BY <1>3, Zenon
  <2> QED BY <2>1, <2>2 DEF BackwardAt
<1>4. CASE m = 11 /\ IsKernel(st, "communicate", "zero_arrival", BOOLEAN)
  <2>1. st.stream = "communicate" /\ st.name = "zero_arrival"
    BY <1>4, Zenon DEF IsKernel
  <2>2. m = 11
    BY <1>4, Zenon
  <2> QED BY <2>1, <2>2 DEF BackwardAt
<1>5. CASE m = 14 /\ IsKernel(st, "communicate", "dispatch_grads", BOOLEAN)
  <2>1. st.stream = "communicate" /\ st.name = "dispatch_grads"
    BY <1>5, Zenon DEF IsKernel
  <2>2. m = 14
    BY <1>5, Zenon
  <2> QED BY <2>1, <2>2 DEF BackwardAt
<1>6. CASE lv = 2 /\ m = 18 /\ IsKernel(st, "compute", "reexpand", {TRUE})
  <2>1. st.stream = "compute" /\ st.name = "reexpand"
    BY <1>6, Zenon DEF IsKernel
  <2>2. lv = 2 /\ m = 18
    BY <1>6, Zenon
  <2> QED BY <2>1, <2>2 DEF BackwardAt
<1>7. CASE lv # 0 /\ m = 16 + c /\ IsKernel(st, "compute", "recompute", {TRUE})
  <2>1. st.stream = "compute" /\ st.name = "recompute"
    BY <1>7, Zenon DEF IsKernel
  <2>2. lv # 0 /\ m = 16 + c
    BY <1>7, Zenon
  <2> QED BY <2>1, <2>2 DEF BackwardAt
<1>8. CASE m = 17 + c /\ IsKernel(st, "compute", "kernel_y_bwd", {TRUE})
  <2>1. st.stream = "compute" /\ st.name = "kernel_y_bwd"
    BY <1>8, Zenon DEF IsKernel
  <2>2. m = 17 + c
    BY <1>8, Zenon
  <2> QED BY <2>1, <2>2 DEF BackwardAt
<1>9. CASE m = 19 + c /\ IsKernel(st, "compute", "kernel_a_bwd", {TRUE})
  <2>1. st.stream = "compute" /\ st.name = "kernel_a_bwd"
    BY <1>9, Zenon DEF IsKernel
  <2>2. m = 19 + c
    BY <1>9, Zenon
  <2> QED BY <2>1, <2>2 DEF BackwardAt
<1>10. CASE m = 22 + c /\ IsKernel(st, "communicate", "combine_grads", BOOLEAN)
  <2>1. st.stream = "communicate" /\ st.name = "combine_grads"
    BY <1>10, Zenon DEF IsKernel
  <2>2. m = 22 + c
    BY <1>10, Zenon
  <2> QED BY <2>1, <2>2 DEF BackwardAt
<1>11. CASE m = 23 + c /\ IsKernel(st, "compute", "dW2", {TRUE})
  <2>1. st.stream = "compute" /\ st.name = "dW2"
    BY <1>11, Zenon DEF IsKernel
  <2>2. m = 23 + c
    BY <1>11, Zenon
  <2> QED BY <2>1, <2>2 DEF BackwardAt
<1>12. CASE m = 24 + c /\ IsKernel(st, "compute", "dW1", {TRUE})
  <2>1. st.stream = "compute" /\ st.name = "dW1"
    BY <1>12, Zenon DEF IsKernel
  <2>2. m = 24 + c
    BY <1>12, Zenon
  <2> QED BY <2>1, <2>2 DEF BackwardAt
<1>13. CASE m = 25 + c /\ IsKernel(st, "compute", "zero_dW", {FALSE})
  <2>1. st.stream = "compute" /\ st.name = "zero_dW"
    BY <1>13, Zenon DEF IsKernel
  <2>2. m = 25 + c
    BY <1>13, Zenon
  <2> QED BY <2>1, <2>2 DEF BackwardAt
<1>14. CASE m = 30 + c /\ IsKernel(st, "caller", "model_dx", BOOLEAN)
  <2>1. st.stream = "caller" /\ st.name = "model_dx"
    BY <1>14, Zenon DEF IsKernel
  <2>2. m = 30 + c
    BY <1>14, Zenon
  <2> QED BY <2>1, <2>2 DEF BackwardAt
<1> QED BY <1>1, <1>2, <1>3, <1>4, <1>5, <1>6, <1>7, <1>8, <1>9, <1>10, <1>11, <1>12, <1>13,
           <1>14, Zenon DEF BackwardKernel

(* The two waits of a pass's start, a and b, and those of its end, d and e,
   with every kernel of the side streams between them. *)
Edges(F, a, b, d, e) ==
  /\ a \in Nat \ {0} /\ b \in Nat \ {0} /\ d \in Nat \ {0} /\ e \in Nat \ {0}
  /\ a <= Len(F) /\ b <= Len(F) /\ d <= Len(F) /\ e <= Len(F)
  /\ IsWaitStream(F[a], "communicate", "caller")
  /\ IsWaitStream(F[b], "compute", "caller")
  /\ IsWaitStream(F[d], "caller", "communicate")
  /\ IsWaitStream(F[e], "caller", "compute")
  /\ \A m \in Nat \ {0} : m <= Len(F) /\ F[m].kind = "kernel" /\ F[m].stream # "caller" =>
       a < m /\ b < m /\ m < d /\ m < e

(* Every pass fans out from the caller and joins it at its end. *)
LEMMA PassEdges ==
  ASSUME NEW lv \in Levels, NEW k \in DOMAIN Schedule, NEW F, F = Pass(k, lv)
  PROVE  \E a, b, d, e : Edges(F, a, b, d, e)
<1>1. PICK l : l = Schedule[k].layer
  OBVIOUS
<1>2. CASE Schedule[k].dir = "forward"
  <2>1. PICK c : c = ForwardExtra(lv)
    OBVIOUS
  <2>2. Len(F) = 31 + c /\ ForwardTable(F, l, lv, c) /\ c \in {0, 4}
    BY <1>1, <1>2, <2>1, PassShape DEF ForwardExtra
  <2>3. /\ F[4] = WaitStream("communicate", l, "caller")
        /\ F[5] = WaitStream("compute", l, "caller")
        /\ F[25 + c] = WaitStream("caller", l, "communicate")
        /\ F[26 + c] = WaitStream("caller", l, "compute")
    BY <2>2 DEF ForwardTable
  <2>4. /\ IsWaitStream(F[4], "communicate", "caller") /\ IsWaitStream(F[5], "compute", "caller")
        /\ IsWaitStream(F[25 + c], "caller", "communicate") /\ IsWaitStream(F[26 + c], "caller", "compute")
    BY <2>3, WhichAreWaits
  <2>5. ASSUME NEW m \in Nat \ {0}, m <= Len(F), F[m].kind = "kernel", F[m].stream # "caller"
        PROVE  m \in 7 .. 24
    <3>1. ForwardKernel(F[m], m, lv, c)
      BY <1>2, <2>1, <2>5, PassStatement
    <3>2. ForwardAt(F[m], m, lv, c)
      BY <3>1, ForwardPlaces
    <3> QED BY <2>5, <3>2 DEF ForwardAt
  <2>6. Edges(F, 4, 5, 25 + c, 26 + c)
    <3>1. \A m \in Nat \ {0} : m <= Len(F) /\ F[m].kind = "kernel" /\ F[m].stream # "caller" =>
            4 < m /\ 5 < m /\ m < 25 + c /\ m < 26 + c
      BY <2>2, <2>5
    <3>2. /\ 25 + c \in Nat \ {0} /\ 26 + c \in Nat \ {0}
          /\ 4 <= Len(F) /\ 5 <= Len(F) /\ 25 + c <= Len(F) /\ 26 + c <= Len(F)
      BY <2>2
    <3> QED BY <2>4, <3>1, <3>2 DEF Edges
  <2> QED BY <2>6
<1>3. CASE Schedule[k].dir # "forward"
  <2>1. PICK c : c = BackwardExtra(lv)
    OBVIOUS
  <2>2. Len(F) = 31 + c /\ BackwardTable(F, l, lv, c) /\ c \in {0, 2, 4}
    BY <1>1, <1>3, <2>1, PassShape DEF BackwardExtra
  <2>3. /\ F[5] = WaitStream("communicate", l, "caller")
        /\ F[6] = WaitStream("compute", l, "caller")
        /\ F[26 + c] = WaitStream("caller", l, "communicate")
        /\ F[27 + c] = WaitStream("caller", l, "compute")
    <3>1. BackwardHead(F, l) /\ BackwardTail(F, l, lv, c)
      BY <2>2 DEF BackwardTable
    <3>2. F[5] = WaitStream("communicate", l, "caller") /\ F[6] = WaitStream("compute", l, "caller")
      BY <3>1 DEF BackwardHead
    <3>3. /\ F[26 + c] = WaitStream("caller", l, "communicate")
          /\ F[27 + c] = WaitStream("caller", l, "compute")
      BY <3>1 DEF BackwardTail
    <3> QED BY <3>2, <3>3
  <2>4. /\ IsWaitStream(F[5], "communicate", "caller") /\ IsWaitStream(F[6], "compute", "caller")
        /\ IsWaitStream(F[26 + c], "caller", "communicate") /\ IsWaitStream(F[27 + c], "caller", "compute")
    BY <2>3, WhichAreWaits
  <2>5. ASSUME NEW m \in Nat \ {0}, m <= Len(F), F[m].kind = "kernel", F[m].stream # "caller"
        PROVE  6 < m /\ m < 26 + c
    <3>1. BackwardKernel(F[m], m, lv, c)
      BY <1>3, <2>1, <2>5, PassStatement
    <3>2. BackwardAt(F[m], m, lv, c)
      BY <3>1, BackwardPlaces
    <3>7. lv = 2 => c = 4
      BY <2>1 DEF BackwardExtra
    <3> QED BY <2>2, <2>5, <3>2, <3>7 DEF BackwardAt
  <2>6. Edges(F, 5, 6, 26 + c, 27 + c)
    BY <2>2, <2>4, <2>5 DEF Edges
  <2> QED BY <2>6
<1> QED BY <1>2, <1>3

------------------------------------------------------------------------------
(* A kernel of an earlier pass on another stream is fenced. *)
LEMMA PassesFenced ==
  ASSUME NEW lv \in Levels, NEW P, P = Program(lv), NEW i \in DOMAIN P, NEW j \in DOMAIN P,
         P[i].kind = "kernel", P[j].kind = "kernel", P[i].stream # P[j].stream,
         PassOf(lv, i) < PassOf(lv, j)
  PROVE  Fenced(P, i, j)
<1>1. PICK base : Laid(lv, base)
  BY ProgramLaid
<1>0. /\ P[i].stream \in Streams /\ P[j].stream \in Streams
      /\ \A x \in DOMAIN P : x \in Nat
  <2>1. Len(P) \in Nat /\ DOMAIN P = 1 .. Len(P)
    BY ProgramStmts DEF Stmts
  <2>2. P[i].stream \in Streams /\ P[j].stream \in Streams
    BY ProgramStmts DEF Stmts
  <2> QED BY <2>1, <2>2
<1>2. PICK k \in DOMAIN Schedule, x \in Nat \ {0} :
         /\ x <= Len(Pass(k, lv)) /\ i = base[k - 1] + x
         /\ P[i] = Pass(k, lv)[x] /\ PassOf(lv, i) = k
  BY <1>1, Located
<1>3. PICK h \in DOMAIN Schedule, y \in Nat \ {0} :
         /\ y <= Len(Pass(h, lv)) /\ j = base[h - 1] + y
         /\ P[j] = Pass(h, lv)[y] /\ PassOf(lv, j) = h
  BY <1>1, Located
<1>4. k < h
  BY <1>2, <1>3
<1>5. PICK F, G : F = Pass(k, lv) /\ G = Pass(h, lv)
  OBVIOUS
<1>6. PICK a1, b1, d1, e1 : Edges(F, a1, b1, d1, e1)
  BY <1>5, PassEdges
<1>7. PICK a2, b2, d2, e2 : Edges(G, a2, b2, d2, e2)
  BY <1>5, PassEdges
<1>8. base[k - 1] \in Nat /\ base[h - 1] \in Nat
  BY <1>1, <1>2, <1>3, PlaceInProgram
<1>9. PICK p \in Nat, q \in Nat : p = base[k - 1] /\ q = base[h - 1]
  BY <1>8
<1>10. ASSUME NEW m \in Nat \ {0}, m <= Len(F), NEW z \in Nat \ {0}, z <= Len(G)
       PROVE  /\ p + m \in DOMAIN P /\ P[p + m] = F[m]
              /\ q + z \in DOMAIN P /\ P[q + z] = G[z]
              /\ p + m < q + z
  <2>1. p + m \in DOMAIN P /\ P[p + m] = F[m]
    BY <1>1, <1>5, <1>9, <1>10, PlaceInProgram
  <2>2. q + z \in DOMAIN P /\ P[q + z] = G[z]
    BY <1>1, <1>5, <1>9, <1>10, PlaceInProgram
  <2>3. p + m < q + z
    BY <1>1, <1>4, <1>5, <1>9, <1>10, PassBefore
  <2> QED BY <2>1, <2>2, <2>3
<1>11. /\ P[i] = F[x] /\ x <= Len(F) /\ i = p + x
       /\ P[j] = G[y] /\ y <= Len(G) /\ j = q + y
  BY <1>2, <1>3, <1>5, <1>9
(* The end of i's pass, where i is on a side stream. *)
<1>12. ASSUME P[i].stream # "caller"
       PROVE  \E v \in DOMAIN P, m \in Nat \ {0} :
                /\ m <= Len(F) /\ v = p + m
                /\ IsWaitStream(P[v], "caller", P[i].stream) /\ i < v
  <2>1. F[x].kind = "kernel" /\ F[x].stream \in {"communicate", "compute"}
    BY <1>0, <1>11, <1>12 DEF Streams
  <2>2. CASE F[x].stream = "communicate"
    <3>1. d1 \in Nat \ {0} /\ d1 <= Len(F) /\ IsWaitStream(F[d1], "caller", "communicate") /\ x < d1
      BY <1>6, <1>11, <1>12, <2>1 DEF Edges
    <3>2. p + d1 \in DOMAIN P /\ P[p + d1] = F[d1]
      BY <1>10, <1>11, <3>1
    <3>3. i < p + d1
      BY <1>11, <3>1
    <3> QED BY <1>11, <2>2, <3>1, <3>2, <3>3
  <2>3. CASE F[x].stream = "compute"
    <3>1. e1 \in Nat \ {0} /\ e1 <= Len(F) /\ IsWaitStream(F[e1], "caller", "compute") /\ x < e1
      BY <1>6, <1>11, <1>12, <2>1 DEF Edges
    <3>2. p + e1 \in DOMAIN P /\ P[p + e1] = F[e1]
      BY <1>10, <1>11, <3>1
    <3>3. i < p + e1
      BY <1>11, <3>1
    <3> QED BY <1>11, <2>3, <3>1, <3>2, <3>3
  <2> QED BY <2>1, <2>2, <2>3
(* The start of j's pass, where j is on a side stream. *)
<1>13. ASSUME P[j].stream # "caller"
       PROVE  \E w \in DOMAIN P, m \in Nat \ {0} :
                /\ m <= Len(G) /\ w = q + m
                /\ IsWaitStream(P[w], P[j].stream, "caller") /\ w < j
  <2>1. G[y].kind = "kernel" /\ G[y].stream \in {"communicate", "compute"}
    BY <1>0, <1>11, <1>13 DEF Streams
  <2>2. CASE G[y].stream = "communicate"
    <3>1. a2 \in Nat \ {0} /\ a2 <= Len(G) /\ IsWaitStream(G[a2], "communicate", "caller") /\ a2 < y
      BY <1>7, <1>11, <1>13, <2>1 DEF Edges
    <3>2. q + a2 \in DOMAIN P /\ P[q + a2] = G[a2]
      BY <1>10, <1>11, <3>1
    <3>3. q + a2 < j
      BY <1>11, <3>1
    <3> QED BY <1>11, <2>2, <3>1, <3>2, <3>3
  <2>3. CASE G[y].stream = "compute"
    <3>1. b2 \in Nat \ {0} /\ b2 <= Len(G) /\ IsWaitStream(G[b2], "compute", "caller") /\ b2 < y
      BY <1>7, <1>11, <1>13, <2>1 DEF Edges
    <3>2. q + b2 \in DOMAIN P /\ P[q + b2] = G[b2]
      BY <1>10, <1>11, <3>1
    <3>3. q + b2 < j
      BY <1>11, <3>1
    <3> QED BY <1>11, <2>3, <3>1, <3>2, <3>3
  <2> QED BY <2>1, <2>2, <2>3
<1>14. CASE P[i].stream # "caller" /\ P[j].stream # "caller"
  <2>1. PICK v \in DOMAIN P, m \in Nat \ {0} :
                /\ m <= Len(F) /\ v = p + m
                /\ IsWaitStream(P[v], "caller", P[i].stream) /\ i < v
    BY <1>12, <1>14
  <2>2. PICK w \in DOMAIN P, z \in Nat \ {0} :
                /\ z <= Len(G) /\ w = q + z
                /\ IsWaitStream(P[w], P[j].stream, "caller") /\ w < j
    BY <1>13, <1>14
  <2>3. v < w
    BY <1>10, <2>1, <2>2
  <2>4. Covers(P, v, i)
    BY <2>1 DEF Covers, IsWaitStream
  <2>5. FenceAt(P, w, i)
    BY <2>1, <2>2, <2>3, <2>4 DEF FenceAt, IsWaitStream
  <2> QED BY <2>2, <2>5 DEF Fenced, IsWaitStream
<1>15. CASE P[i].stream = "caller"
  <2>1. PICK w \in DOMAIN P, z \in Nat \ {0} :
                /\ z <= Len(G) /\ w = q + z
                /\ IsWaitStream(P[w], P[j].stream, "caller") /\ w < j
    BY <1>13, <1>15
  <2>2. i < w
    BY <1>10, <1>11, <2>1
  <2>3. Covers(P, w, i)
    BY <1>15, <2>1, <2>2 DEF Covers, IsWaitStream
  <2> QED BY <2>1, <2>3 DEF Fenced, FenceAt, IsWaitStream
<1>16. CASE P[i].stream # "caller" /\ P[j].stream = "caller"
  <2>1. PICK v \in DOMAIN P, m \in Nat \ {0} :
                /\ m <= Len(F) /\ v = p + m
                /\ IsWaitStream(P[v], "caller", P[i].stream) /\ i < v
    BY <1>12, <1>16
  <2>2. v < j
    BY <1>10, <1>11, <2>1
  <2>3. Covers(P, v, i)
    BY <2>1 DEF Covers, IsWaitStream
  <2> QED BY <1>16, <2>1, <2>2, <2>3 DEF Fenced, FenceAt, IsWaitStream
<1> QED BY <1>14, <1>15, <1>16

(* Passes stand in the order of the schedule. *)
LEMMA PassesInOrder ==
  ASSUME NEW lv \in Levels, NEW i \in DOMAIN Program(lv), NEW j \in DOMAIN Program(lv), i < j
  PROVE  /\ PassOf(lv, i) \in DOMAIN Schedule /\ PassOf(lv, j) \in DOMAIN Schedule
         /\ DOMAIN Schedule \subseteq Nat
         /\ PassOf(lv, i) = PassOf(lv, j) \/ PassOf(lv, i) < PassOf(lv, j)
<1>1. PICK base : Laid(lv, base)
  BY ProgramLaid
<1>2. PICK k \in DOMAIN Schedule, x \in Nat \ {0} :
         /\ x <= Len(Pass(k, lv)) /\ i = base[k - 1] + x /\ PassOf(lv, i) = k
  BY <1>1, Located
<1>3. PICK h \in DOMAIN Schedule, y \in Nat \ {0} :
         /\ y <= Len(Pass(h, lv)) /\ j = base[h - 1] + y /\ PassOf(lv, j) = h
  BY <1>1, Located
<1>4. DOMAIN Schedule \subseteq Nat
  BY <1>1 DEF Laid
<1>5. ASSUME h < k PROVE FALSE
  <2>1. j < i
    BY <1>1, <1>2, <1>3, <1>5, PassBefore
  <2>2. i \in Nat /\ j \in Nat
    <3>1. Len(Program(lv)) \in Nat /\ DOMAIN Program(lv) = 1 .. Len(Program(lv))
      BY ProgramStmts DEF Stmts
    <3> QED BY <3>1
  <2> QED BY <2>1, <2>2
<1> QED BY <1>2, <1>3, <1>4, <1>5

(* No kernel of a layer runs on the side streams beside one of the pass before
   it: the end of a pass is waited for on the caller's stream, and the start of
   the next one waits for that. *)
THEOREM PassesApart == Spec => []LayerIsBarrier
<1>1. LInv => LayerIsBarrier
  <2> SUFFICES ASSUME LInv, NEW r \in Ranks, NEW s \in Streams \ {"caller"}, Running(r, s),
                      NEW k \in SideKernels, PassOf(level, k) < PassOf(level, Head1(r, s))
               PROVE  Complete(r, k)
    BY DEF LayerIsBarrier
  <2>1. Types /\ HeadsOK
    BY DEF LInv
  <2>2. level \in Levels /\ Prog = Program(level) /\ Len(Prog) \in Nat /\ DOMAIN Prog = 1 .. Len(Prog)
        /\ \A x \in DOMAIN Prog : Prog[x].kind = "kernel" => Prog[x].stream \in Streams
    BY <2>1, ProgramStmts DEF Types, Prog, Stmts
  <2>3. PICK j : j = Head1(r, s)
    OBVIOUS
  <2>4. Busy(r, s)
    BY DEF Running, Busy
  <2>5. j # 0 /\ Prog[j].kind = "kernel"
    BY <2>1, <2>3, <2>4 DEF HeadsOK
  <2>6. j \in DOMAIN Prog /\ Prog[j].stream = s
    BY <2>1, <2>3, <2>5, HeadIs
  <2>7. k \in DOMAIN Prog /\ Prog[k].kind = "kernel" /\ Prog[k].stream \in Streams
    BY <2>2, KindSets DEF SideKernels
  <2>8. CASE Prog[k].stream = s
    <3>1. k < j
      <4>1. ASSUME j < k PROVE FALSE
        <5>1. PassOf(level, j) = PassOf(level, k) \/ PassOf(level, j) < PassOf(level, k)
          BY <2>2, <2>6, <2>7, <4>1, PassesInOrder
        <5>2. PassOf(level, j) \in Nat /\ PassOf(level, k) \in Nat
          BY <2>2, <2>6, <2>7, <4>1, PassesInOrder
        <5> QED BY <2>3, <5>1, <5>2
      <4>2. k # j
        <5>1. PassOf(level, k) \in DOMAIN Schedule
          BY <2>2, <2>7, KernelNamed
        <5>2. PICK base : Laid(level, base)
          BY <2>2, ProgramLaid
        <5>3. PassOf(level, k) \in Nat
          BY <5>1, <5>2 DEF Laid
        <5> QED BY <2>3, <5>3
      <4> QED BY <2>2, <2>6, <2>7, <4>1, <4>2
    <3> QED BY <2>1, <2>3, <2>5, <2>7, <2>8, <3>1, BeforeHead
  <2>9. CASE Prog[k].stream # s
    <3>1. Fenced(Prog, k, j)
      BY <2>2, <2>3, <2>5, <2>6, <2>7, <2>9, PassesFenced
    <3> QED BY <2>3, <2>5, <2>7, <3>1, FenceHolds
  <2> QED BY <2>8, <2>9
<1> QED BY <1>1, LayerInvariant, PTL

------------------------------------------------------------------------------
------------------------------------------------------------------------------
(* The tensors of every kernel. *)

TensorsIn(tensors, l, names) == \A u \in tensors : u = <<u[1], l>> /\ u[1] \in names
Within(st, l, R, W) == TensorsIn(st.reads, l, R) /\ TensorsIn(st.writes, l, W)

(* A kernel touches the tensors it is launched with. *)
LEMMA KernelWithin ==
  ASSUME NEW l, NEW st, NEW s, NEW name, NEW need, NEW reads, NEW writes,
         \/ st = Kernel(s, l, name, need, reads, writes)
         \/ st = WithTiles(Kernel(s, l, name, need, reads, writes))
         \/ st = WithoutTiles(Kernel(s, l, name, need, reads, writes))
  PROVE  Within(st, l, reads, writes)
<1>1. st.reads = T(reads, l) /\ st.writes = T(writes, l)
  <2>1. CASE st = Kernel(s, l, name, need, reads, writes)
    <3>1. Fields(st, "kernel", l, s, name, "", BOOLEAN, need, T(reads, l), T(writes, l))
      BY <2>1, Constructors, Zenon
    <3>2. st.reads = T(reads, l)
      BY <3>1, Zenon DEF Fields
    <3>3. st.writes = T(writes, l)
      BY <3>1, Zenon DEF Fields
    <3> QED BY <3>2, <3>3
  <2>2. CASE st = WithTiles(Kernel(s, l, name, need, reads, writes))
    <3>1. Fields(st, "kernel", l, s, name, "", {TRUE}, need, T(reads, l), T(writes, l))
      BY <2>2, ConstructorsWithTiles, Zenon
    <3>2. st.reads = T(reads, l)
      BY <3>1, Zenon DEF Fields
    <3>3. st.writes = T(writes, l)
      BY <3>1, Zenon DEF Fields
    <3> QED BY <3>2, <3>3
  <2>3. CASE st = WithoutTiles(Kernel(s, l, name, need, reads, writes))
    <3>1. Fields(st, "kernel", l, s, name, "", {FALSE}, need, T(reads, l), T(writes, l))
      BY <2>3, ConstructorsWithTiles, Zenon
    <3>2. st.reads = T(reads, l)
      BY <3>1, Zenon DEF Fields
    <3>3. st.writes = T(writes, l)
      BY <3>1, Zenon DEF Fields
    <3> QED BY <3>2, <3>3
  <2> QED BY <2>1, <2>2, <2>3
<1>2. ASSUME NEW names, NEW u \in T(names, l)
      PROVE  u = <<u[1], l>> /\ u[1] \in names
  BY DEF T
<1> QED BY <1>1, <1>2 DEF Within, TensorsIn

ForwardTensors(st, l, lv) ==
  /\ st.name = "model" => Within(st, l, {}, {"x", "tmp"})
  /\ st.name = "memset_pre" => Within(st, l, {}, {"pre"})
  /\ st.name = "metadata" => Within(st, l, {}, {"pre"})
  /\ st.name = "memset_post" => Within(st, l, {"pre"}, {"post", "slots", "o"})
  /\ st.name = "dispatch_main" => Within(st, l, {"x", "pre"}, {"pool", "post", "slots"})
  /\ st.name = "kernel_a" => Within(st, l, {"pool", "pre", "slots"}, Activations(lv))
  /\ st.name = "kernel_y" => Within(st, l, {"postact", "pre", "slots"}, {"o", "slots"})
  /\ st.name = "combine" => Within(st, l, {"o", "pre", "post", "slots"}, {"out"})
  /\ st.name = "compress" => Within(st, l, {"pool", "slots"}, {"x_recv"})
  /\ st.name = "model_out" => Within(st, l, {"out"}, {})

(* The tensors of the forward kernels. *)
LEMMA ForwardWithin ==
  ASSUME NEW l, NEW lv \in Levels, NEW c, NEW F, ForwardTable(F, l, lv, c), NEW m,
         ForwardAt(F[m], m, lv, c)
  PROVE  ForwardTensors(F[m], l, lv)
<1>1. ASSUME F[m].name = "model"
      PROVE  Within(F[m], l, {}, {"x", "tmp"})
  <2>1. m = 2
    BY <1>1 DEF ForwardAt
  <2>2. F[2] = Kernel("caller", l, "model", NumSms, {}, {"x", "tmp"})
    BY DEF ForwardTable
  <2> QED BY <2>1, <2>2, KernelWithin
<1>2. ASSUME F[m].name = "memset_pre"
      PROVE  Within(F[m], l, {}, {"pre"})
  <2>1. m = 7
    BY <1>2 DEF ForwardAt
  <2>2. F[7] = Kernel("communicate", l, "memset_pre", 1, {}, {"pre"})
    BY DEF ForwardTable
  <2> QED BY <2>1, <2>2, KernelWithin
<1>3. ASSUME F[m].name = "metadata"
      PROVE  Within(F[m], l, {}, {"pre"})
  <2>1. m = 8
    BY <1>3 DEF ForwardAt
  <2>2. F[8] = Kernel("communicate", l, "metadata", 1, {}, {"pre"})
    BY DEF ForwardTable
  <2> QED BY <2>1, <2>2, KernelWithin
<1>4. ASSUME F[m].name = "memset_post"
      PROVE  Within(F[m], l, {"pre"}, {"post", "slots", "o"})
  <2>1. m = 11
    BY <1>4 DEF ForwardAt
  <2>2. F[11] = Kernel("communicate", l, "memset_post", 1, {"pre"}, {"post", "slots", "o"})
    BY DEF ForwardTable
  <2> QED BY <2>1, <2>2, KernelWithin
<1>5. ASSUME F[m].name = "dispatch_main"
      PROVE  Within(F[m], l, {"x", "pre"}, {"pool", "post", "slots"})
  <2>1. m = 14
    BY <1>5 DEF ForwardAt
  <2>2. F[14] = Kernel("communicate", l, "dispatch_main", CommSms, {"x", "pre"},
                       {"pool", "post", "slots"})
    BY DEF ForwardTable
  <2> QED BY <2>1, <2>2, KernelWithin
<1>6. ASSUME F[m].name = "kernel_a"
      PROVE  Within(F[m], l, {"pool", "pre", "slots"}, Activations(lv))
  <2>1. m = 19
    BY <1>6 DEF ForwardAt
  <2>2. F[19] = WithTiles(Kernel("compute", l, "kernel_a", NumSms,
                                 {"pool", "pre", "slots"}, Activations(lv)))
    BY DEF ForwardTable
  <2> QED BY <2>1, <2>2, KernelWithin
<1>7. ASSUME F[m].name = "kernel_y"
      PROVE  Within(F[m], l, {"postact", "pre", "slots"}, {"o", "slots"})
  <2>1. m = 21
    BY <1>7 DEF ForwardAt
  <2>2. F[21] = WithTiles(Kernel("compute", l, "kernel_y", NumSms, {"postact", "pre", "slots"},
                                 {"o", "slots"}))
    BY DEF ForwardTable
  <2> QED BY <2>1, <2>2, KernelWithin
<1>8. ASSUME F[m].name = "combine"
      PROVE  Within(F[m], l, {"o", "pre", "post", "slots"}, {"out"})
  <2>1. m = 24
    BY <1>8 DEF ForwardAt
  <2>2. F[24] = Kernel("communicate", l, "combine", CommSms, {"o", "pre", "post", "slots"}, {"out"})
    BY DEF ForwardTable
  <2> QED BY <2>1, <2>2, KernelWithin
<1>9. ASSUME F[m].name = "compress"
      PROVE  Within(F[m], l, {"pool", "slots"}, {"x_recv"})
  <2>1. m = 27 /\ lv = 2
    BY <1>9 DEF ForwardAt
  <2>2. F[27] = Kernel("caller", l, "compress", 1, {"pool", "slots"}, {"x_recv"})
    BY <2>1 DEF ForwardTable
  <2> QED BY <2>1, <2>2, KernelWithin
<1>10. ASSUME F[m].name = "model_out"
      PROVE  Within(F[m], l, {"out"}, {})
  <2>1. m = 30 + c
    BY <1>10 DEF ForwardAt
  <2>2. F[30 + c] = Kernel("caller", l, "model_out", 1, {"out"}, {})
    BY DEF ForwardTable
  <2> QED BY <2>1, <2>2, KernelWithin
<1> QED BY <1>1, <1>2, <1>3, <1>4, <1>5, <1>6, <1>7, <1>8, <1>9, <1>10 DEF ForwardTensors

BackwardTensors(st, l, lv) ==
  /\ st.name = "model_bwd" => Within(st, l, {}, {"dL_dy", "tmp2"})
  /\ st.name = "zero_sums" => Within(st, l, {}, {"sums"})
  /\ st.name = "index" => Within(st, l, {"pre", "slots"}, {"sums", "cu_seqlens"})
  /\ st.name = "zero_arrival" => Within(st, l, {}, {"arrival"})
  /\ st.name = "dispatch_grads" => Within(st, l, {"dL_dy", "pre", "post", "slots"},
         {"dL_do_pool", "arrival"})
  /\ st.name = "reexpand" => Within(st, l, {"x_recv", "slots"}, {"pool2"})
  /\ st.name = "recompute" => Within(st, l, {PoolTensor(lv), "cu_seqlens"}, {"preact2"})
  /\ st.name = "kernel_y_bwd" => Within(st, l, {"dL_do_pool", "arrival", "pre", "slots", PreactTensor(lv)},
         {"scratch", "sums"})
  /\ st.name = "kernel_a_bwd" => Within(st, l, {"scratch", "arrival", "pre", "slots"},
         {"sums"})
  /\ st.name = "combine_grads" => Within(st, l, {"sums", "pre", "post", "slots"}, {"dL_dx"})
  /\ st.name = "dW2" => Within(st, l, {"dL_do_pool", "scratch", "cu_seqlens"}, {"dW"})
  /\ st.name = "dW1" => Within(st, l, {"scratch", PoolTensor(lv), "cu_seqlens"},
         {"dW"})
  /\ st.name = "zero_dW" => Within(st, l, {}, {"dW"})
  /\ st.name = "model_dx" => Within(st, l, {"dL_dx", "dW"}, {})

(* The tensors of the backward kernels. *)
LEMMA BackwardWithin ==
  ASSUME NEW l, NEW lv \in Levels, NEW c, c = IF lv = 0 THEN 0 ELSE IF lv = 1 THEN 2 ELSE 4,
         NEW F,
         BackwardTable(F, l, lv, c), NEW m,
         BackwardAt(F[m], m, lv, c)
  PROVE  BackwardTensors(F[m], l, lv)
<1>h. BackwardHead(F, l)
  BY DEF BackwardTable
<1>m. BackwardMiddle(F, l, lv)
  BY DEF BackwardTable
<1>t. BackwardTail(F, l, lv, c)
  BY DEF BackwardTable
<1>1. ASSUME F[m].name = "model_bwd"
      PROVE  Within(F[m], l, {}, {"dL_dy", "tmp2"})
  <2>1. m = 2
    BY <1>1 DEF BackwardAt
  <2>2. F[2] = Kernel("caller", l, "model_bwd", NumSms, {}, {"dL_dy", "tmp2"})
    BY <1>h DEF BackwardHead
  <2> QED BY <2>1, <2>2, KernelWithin
<1>2. ASSUME F[m].name = "zero_sums"
      PROVE  Within(F[m], l, {}, {"sums"})
  <2>1. m = 7
    BY <1>2 DEF BackwardAt
  <2>2. F[7] = Kernel("compute", l, "zero_sums", 1, {}, {"sums"})
    BY <1>h DEF BackwardHead
  <2> QED BY <2>1, <2>2, KernelWithin
<1>3. ASSUME F[m].name = "index"
      PROVE  Within(F[m], l, {"pre", "slots"}, {"sums", "cu_seqlens"})
  <2>1. m = 9
    BY <1>3 DEF BackwardAt
  <2>2. F[9] = Kernel("compute", l, "index", 1, {"pre", "slots"}, {"sums", "cu_seqlens"})
    BY <1>h DEF BackwardHead
  <2> QED BY <2>1, <2>2, KernelWithin
<1>4. ASSUME F[m].name = "zero_arrival"
      PROVE  Within(F[m], l, {}, {"arrival"})
  <2>1. m = 11
    BY <1>4 DEF BackwardAt
  <2>2. F[11] = Kernel("communicate", l, "zero_arrival", 1, {}, {"arrival"})
    BY <1>h DEF BackwardHead
  <2> QED BY <2>1, <2>2, KernelWithin
<1>5. ASSUME F[m].name = "dispatch_grads"
      PROVE  Within(F[m], l, {"dL_dy", "pre", "post", "slots"}, {"dL_do_pool", "arrival"})
  <2>1. m = 14
    BY <1>5 DEF BackwardAt
  <2>2. F[14] = Kernel("communicate", l, "dispatch_grads", CommSms,
                       {"dL_dy", "pre", "post", "slots"}, {"dL_do_pool", "arrival"})
    BY <1>h DEF BackwardHead
  <2> QED BY <2>1, <2>2, KernelWithin
<1>6. ASSUME F[m].name = "reexpand"
      PROVE  Within(F[m], l, {"x_recv", "slots"}, {"pool2"})
  <2>1. m = 18 /\ lv = 2
    BY <1>6 DEF BackwardAt
  <2>2. F[18] = WithTiles(Kernel("compute", l, "reexpand", 1, {"x_recv", "slots"}, {"pool2"}))
    BY <1>m, <2>1 DEF BackwardMiddle
  <2> QED BY <2>1, <2>2, KernelWithin
<1>7. ASSUME F[m].name = "recompute"
      PROVE  Within(F[m], l, {PoolTensor(lv), "cu_seqlens"}, {"preact2"})
  <2>1. m = 16 + c /\ lv # 0
    BY <1>7 DEF BackwardAt
  <2>2. lv \in 0 .. 2 /\ (c = IF lv = 0 THEN 0 ELSE IF lv = 1 THEN 2 ELSE 4)
    BY DEF Levels
  <2>3. F[16 + c] = WithTiles(Kernel("compute", l, "recompute", NumSms,
                                     {PoolTensor(lv), "cu_seqlens"}, {"preact2"}))
    <3>1. CASE lv = 1
      <4>1. F[18] = WithTiles(Kernel("compute", l, "recompute", NumSms,
                                     {PoolTensor(lv), "cu_seqlens"}, {"preact2"}))
        BY <1>m, <3>1 DEF BackwardMiddle
      <4>2. 16 + c = 18
        BY <2>2, <3>1
      <4> QED BY <4>1, <4>2
    <3>2. CASE lv = 2
      <4>1. F[20] = WithTiles(Kernel("compute", l, "recompute", NumSms,
                                     {PoolTensor(lv), "cu_seqlens"}, {"preact2"}))
        BY <1>m, <3>2 DEF BackwardMiddle
      <4>2. 16 + c = 20
        BY <2>2, <3>2
      <4> QED BY <4>1, <4>2
    <3> QED BY <2>1, <2>2, <3>1, <3>2
  <2> QED BY <2>1, <2>3, KernelWithin
<1>8. ASSUME F[m].name = "kernel_y_bwd"
      PROVE  Within(F[m], l, {"dL_do_pool", "arrival", "pre", "slots", PreactTensor(lv)}, {"scratch", "sums"})
  <2>1. m = 17 + c
    BY <1>8 DEF BackwardAt
  <2>2. F[17 + c] = WithTiles(Kernel("compute", l, "kernel_y_bwd", NumSms,
                                     {"dL_do_pool", "arrival", "pre",
                                     "slots", PreactTensor(lv)}, {"scratch", "sums"}))
    BY <1>t DEF BackwardTail
  <2> QED BY <2>1, <2>2, KernelWithin
<1>9. ASSUME F[m].name = "kernel_a_bwd"
      PROVE  Within(F[m], l, {"scratch", "arrival", "pre", "slots"}, {"sums"})
  <2>1. m = 19 + c
    BY <1>9 DEF BackwardAt
  <2>2. F[19 + c] = WithTiles(Kernel("compute", l, "kernel_a_bwd", NumSms,
                                     {"scratch", "arrival", "pre", "slots"}, {"sums"}))
    BY <1>t DEF BackwardTail
  <2> QED BY <2>1, <2>2, KernelWithin
<1>10. ASSUME F[m].name = "combine_grads"
      PROVE  Within(F[m], l, {"sums", "pre", "post", "slots"}, {"dL_dx"})
  <2>1. m = 22 + c
    BY <1>10 DEF BackwardAt
  <2>2. F[22 + c] = Kernel("communicate", l, "combine_grads", CommSms,
                           {"sums", "pre", "post", "slots"}, {"dL_dx"})
    BY <1>t DEF BackwardTail
  <2> QED BY <2>1, <2>2, KernelWithin
<1>11. ASSUME F[m].name = "dW2"
      PROVE  Within(F[m], l, {"dL_do_pool", "scratch", "cu_seqlens"}, {"dW"})
  <2>1. m = 23 + c
    BY <1>11 DEF BackwardAt
  <2>2. F[23 + c] = WithTiles(Kernel("compute", l, "dW2", NumSms,
                                     {"dL_do_pool", "scratch", "cu_seqlens"}, {"dW"}))
    BY <1>t DEF BackwardTail
  <2> QED BY <2>1, <2>2, KernelWithin
<1>12. ASSUME F[m].name = "dW1"
      PROVE  Within(F[m], l, {"scratch", PoolTensor(lv), "cu_seqlens"}, {"dW"})
  <2>1. m = 24 + c
    BY <1>12 DEF BackwardAt
  <2>2. F[24 + c] = WithTiles(Kernel("compute", l, "dW1", NumSms,
                                     {"scratch", PoolTensor(lv), "cu_seqlens"}, {"dW"}))
    BY <1>t DEF BackwardTail
  <2> QED BY <2>1, <2>2, KernelWithin
<1>13. ASSUME F[m].name = "zero_dW"
      PROVE  Within(F[m], l, {}, {"dW"})
  <2>1. m = 25 + c
    BY <1>13 DEF BackwardAt
  <2>2. F[25 + c] = WithoutTiles(Kernel("compute", l, "zero_dW", 1, {}, {"dW"}))
    BY <1>t DEF BackwardTail
  <2> QED BY <2>1, <2>2, KernelWithin
<1>14. ASSUME F[m].name = "model_dx"
      PROVE  Within(F[m], l, {"dL_dx", "dW"}, {})
  <2>1. m = 30 + c
    BY <1>14 DEF BackwardAt
  <2>2. F[30 + c] = Kernel("caller", l, "model_dx", 1, {"dL_dx", "dW"}, {})
    BY <1>t DEF BackwardTail
  <2> QED BY <2>1, <2>2, KernelWithin
<1> QED BY <1>1, <1>2, <1>3, <1>4, <1>5, <1>6, <1>7, <1>8, <1>9, <1>10, <1>11, <1>12, <1>13,
           <1>14 DEF BackwardTensors

------------------------------------------------------------------------------
------------------------------------------------------------------------------
(* Within a pass: which pairs of kernels on different streams no wait for a
   stream or an event keeps apart. *)
ForwardUnfenced == {
  <<"dispatch_main", "kernel_a">>, <<"dispatch_main", "kernel_y">>, <<"dispatch_main", "compress">>,
  <<"kernel_a", "combine">>, <<"kernel_y", "combine">>, <<"combine", "compress">>}
BackwardUnfenced == {
  <<"zero_sums", "zero_arrival">>, <<"zero_sums", "dispatch_grads">>, <<"zero_sums", "combine_grads">>,
  <<"index", "zero_arrival">>, <<"index", "dispatch_grads">>, <<"index", "combine_grads">>,
  <<"reexpand", "combine_grads">>, <<"recompute", "combine_grads">>,
  <<"kernel_y_bwd", "combine_grads">>, <<"kernel_a_bwd", "combine_grads">>,
  <<"dispatch_grads", "reexpand">>, <<"dispatch_grads", "recompute">>,
  <<"dispatch_grads", "kernel_y_bwd">>, <<"dispatch_grads", "kernel_a_bwd">>,
  <<"dispatch_grads", "dW2">>, <<"dispatch_grads", "dW1">>, <<"dispatch_grads", "zero_dW">>,
  <<"combine_grads", "dW2">>, <<"combine_grads", "dW1">>, <<"combine_grads", "zero_dW">>}

IsEvent(st, kind, l, s, e) ==
  st.kind = kind /\ st.layer = l /\ st.stream = s /\ st.on = e /\ st.when = BOOLEAN

(* Which statements record an event and wait for one. *)
LEMMA WhichAreEvents ==
  ASSUME NEW l, NEW s, NEW e
  PROVE  /\ IsEvent(WaitEvent(s, l, e), "wait_event", l, s, e)
         /\ IsEvent(RecordEvent(s, l, e), "record_event", l, s, e)
BY DEF IsEvent, WaitEvent, RecordEvent, Stmt

(* A wait_stream between two kernels fences them. *)
LEMMA StreamFence ==
  ASSUME NEW F, NEW w \in DOMAIN F, NEW x, NEW y, NEW s, NEW t,
         IsWaitStream(F[w], s, t), F[x].stream = t, F[y].stream = s, x < w, w < y
  PROVE  Fenced(F, x, y)
<1>1. Covers(F, w, x)
  BY DEF Covers, IsWaitStream
<1> QED BY <1>1 DEF Fenced, FenceAt, IsWaitStream

(* An event covers what its stream ran before it was recorded. *)
LEMMA EventCovers ==
  ASSUME NEW F, NEW v \in DOMAIN F, NEW e \in DOMAIN F, NEW x, NEW l, NEW s, NEW t, NEW name,
         IsEvent(F[v], "wait_event", l, s, name), IsEvent(F[e], "record_event", l, t, name),
         F[x].stream = t, x < e
  PROVE  Covers(F, v, x)
<1>1. F[v].when = BOOLEAN /\ F[v].kind = "wait_event" /\ F[v].on = name /\ F[v].layer = l /\ F[v].stream = s
  BY DEF IsEvent
<1>2. F[e].kind = "record_event" /\ F[e].on = name /\ F[e].layer = l /\ F[e].stream = t
  BY DEF IsEvent
<1> QED BY <1>1, <1>2 DEF Covers

(* The pairs of kernels of a forward pass that nothing fences, all of them. *)
LEMMA ForwardFences ==
  ASSUME NEW l, NEW lv \in Levels, NEW c, c = IF lv = 2 THEN 4 ELSE 0, NEW F, ForwardTable(F, l, lv, c),
         DOMAIN F = 1 .. 31 + c,
         NEW x \in Nat, NEW y \in Nat, x < y, ForwardAt(F[x], x, lv, c), ForwardAt(F[y], y, lv, c),
         F[x].stream # F[y].stream
  PROVE  Fenced(F, x, y) \/ <<F[x].name, F[y].name>> \in ForwardUnfenced
<1>1. c \in {0, 4} /\ (lv = 2 => c = 4)
  OBVIOUS
<1>2. /\ IsWaitStream(F[4], "communicate", "caller") /\ IsWaitStream(F[5], "compute", "caller")
      /\ IsWaitStream(F[25 + c], "caller", "communicate") /\ IsWaitStream(F[26 + c], "caller", "compute")
  <2>1. /\ F[4] = WaitStream("communicate", l, "caller")
        /\ F[5] = WaitStream("compute", l, "caller")
        /\ F[25 + c] = WaitStream("caller", l, "communicate")
        /\ F[26 + c] = WaitStream("caller", l, "compute")
    BY DEF ForwardTable
  <2> QED BY <2>1, WhichAreWaits
<1>3. lv = 2 => IsWaitStream(F[25], "caller", "compute")
  <2>1. lv = 2 => F[25] = WaitStream("caller", l, "compute")
    BY DEF ForwardTable
  <2> QED BY <2>1, WhichAreWaits
<1>4. /\ IsEvent(F[15], "wait_event", l, "compute", "metadata_done")
      /\ IsEvent(F[12], "record_event", l, "communicate", "metadata_done")
  <2>1. /\ F[15] = WaitEvent("compute", l, "metadata_done")
        /\ F[12] = RecordEvent("communicate", l, "metadata_done")
    BY DEF ForwardTable
  <2> QED BY <2>1, WhichAreEvents
<1>5. /\ 4 \in DOMAIN F /\ 5 \in DOMAIN F /\ 12 \in DOMAIN F /\ 15 \in DOMAIN F /\ 25 \in DOMAIN F
      /\ 25 + c \in DOMAIN F /\ 26 + c \in DOMAIN F
  BY <1>1
<1>6. \/ /\ y = 30 + c /\ F[y].stream = "caller"
         /\ \/ F[x].stream = "communicate" /\ x < 25 + c
            \/ F[x].stream = "compute" /\ x < 26 + c
      \/ lv = 2 /\ y = 27 /\ F[y].stream = "caller" /\ F[x].stream = "compute" /\ x < 25
      \/ lv = 2 /\ y = 27 /\ F[y].stream = "caller" /\ F[x].stream = "communicate" /\ x < 12
      \/ F[x].stream = "caller" /\ x = 2 /\ F[y].stream = "communicate" /\ 5 < y
      \/ F[x].stream = "caller" /\ x = 2 /\ F[y].stream = "compute" /\ 5 < y
      \/ F[x].stream = "communicate" /\ F[y].stream = "compute" /\ x < 12 /\ 15 < y
      \/ <<F[x].name, F[y].name>> \in ForwardUnfenced
  <2> HIDE DEF ForwardUnfenced
  <2>1. \/ y = 30 + c /\ F[y].stream = "caller"
        \/ lv = 2 /\ y = 27 /\ F[y].stream = "caller" /\ F[y].name = "compress"
        \/ F[y].stream = "communicate" /\ y < 12 /\ y > 5
        \/ y = 14 /\ F[y].stream = "communicate"
        \/ y = 24 /\ F[y].stream = "communicate" /\ F[y].name = "combine"
        \/ y = 19 /\ F[y].stream = "compute" /\ F[y].name = "kernel_a"
        \/ y = 21 /\ F[y].stream = "compute" /\ F[y].name = "kernel_y"
        \/ y = 2
    BY <1>1 DEF ForwardAt
  <2>2. \/ x = 30 + c
        \/ x = 27 /\ F[x].stream = "caller"
        \/ F[x].stream = "communicate" /\ x < 12 /\ x > 5
        \/ x = 14 /\ F[x].stream = "communicate" /\ F[x].name = "dispatch_main"
        \/ x = 24 /\ F[x].stream = "communicate" /\ F[x].name = "combine"
        \/ x = 19 /\ F[x].stream = "compute" /\ F[x].name = "kernel_a"
        \/ x = 21 /\ F[x].stream = "compute" /\ F[x].name = "kernel_y"
        \/ x = 2 /\ F[x].stream = "caller"
    BY <1>1 DEF ForwardAt
  <2>4. /\ <<"dispatch_main", "kernel_a">> \in ForwardUnfenced /\ <<"dispatch_main", "kernel_y">> \in ForwardUnfenced
        /\ <<"dispatch_main", "compress">> \in ForwardUnfenced /\ <<"combine", "compress">> \in ForwardUnfenced
        /\ <<"kernel_a", "combine">> \in ForwardUnfenced /\ <<"kernel_y", "combine">> \in ForwardUnfenced
    BY DEF ForwardUnfenced
  <2>5. c \in {0, 4} /\ x \in Nat /\ y \in Nat /\ x < y /\ F[x].stream # F[y].stream
    BY <1>1
  <2>6. CASE y = 30 + c /\ F[y].stream = "caller"
    <3>1. F[x].stream \in {"communicate", "compute"} /\ x <= 24
      BY <2>2, <2>5, <2>6
    <3> QED BY <2>5, <2>6, <3>1
  <2>7. CASE lv = 2 /\ y = 27 /\ F[y].stream = "caller" /\ F[y].name = "compress"
    BY <2>2, <2>4, <2>5, <2>7
  <2>8. CASE F[y].stream = "communicate" /\ y < 12 /\ y > 5
    BY <2>2, <2>5, <2>8
  <2>9. CASE y = 14 /\ F[y].stream = "communicate"
    BY <2>2, <2>5, <2>9
  <2>10. CASE y = 24 /\ F[y].stream = "communicate" /\ F[y].name = "combine"
    BY <2>2, <2>4, <2>5, <2>10
  <2>11. CASE y = 19 /\ F[y].stream = "compute" /\ F[y].name = "kernel_a"
    BY <2>2, <2>4, <2>5, <2>11
  <2>12. CASE y = 21 /\ F[y].stream = "compute" /\ F[y].name = "kernel_y"
    BY <2>2, <2>4, <2>5, <2>12
  <2>13. CASE y = 2
    BY <2>2, <2>5, <2>13
  <2> QED BY <2>1, <2>6, <2>7, <2>8, <2>9, <2>10, <2>11, <2>12, <2>13
<1>7. CASE /\ y = 30 + c /\ F[y].stream = "caller"
           /\ \/ F[x].stream = "communicate" /\ x < 25 + c
              \/ F[x].stream = "compute" /\ x < 26 + c
  <2>1. 25 + c < y /\ 26 + c < y
    BY <1>1, <1>7
  <2> QED BY <1>2, <1>5, <1>7, <2>1, StreamFence
<1>8. CASE lv = 2 /\ y = 27 /\ F[y].stream = "caller" /\ F[x].stream = "compute" /\ x < 25
  BY <1>3, <1>5, <1>8, StreamFence
<1>9. CASE lv = 2 /\ y = 27 /\ F[y].stream = "caller" /\ F[x].stream = "communicate" /\ x < 12
  <2>0. F[x].stream = "communicate" /\ x < 12
    BY <1>9
  <2>a. /\ 15 \in DOMAIN F /\ 12 \in DOMAIN F
        /\ IsEvent(F[15], "wait_event", l, "compute", "metadata_done")
        /\ IsEvent(F[12], "record_event", l, "communicate", "metadata_done")
    BY <1>4, <1>5
  <2>1. Covers(F, 15, x)
    BY <2>0, <2>a, EventCovers
  <2>b. F[15].stream = "compute"
    BY <2>a, Zenon DEF IsEvent
  <2>2. FenceAt(F, 25, x)
    BY <1>3, <1>5, <1>9, <2>1, <2>b DEF FenceAt, IsWaitStream
  <2>3. F[25].stream = "caller"
    BY <1>3, <1>9 DEF IsWaitStream
  <2> QED BY <1>5, <1>9, <2>2, <2>3 DEF Fenced
<1>10. CASE F[x].stream = "caller" /\ x = 2 /\ F[y].stream = "communicate" /\ 5 < y
  BY <1>2, <1>5, <1>10, StreamFence
<1>11. CASE F[x].stream = "caller" /\ x = 2 /\ F[y].stream = "compute" /\ 5 < y
  <2>1. x < 5 /\ 5 \in DOMAIN F /\ F[x].stream = "caller" /\ F[y].stream = "compute"
    BY <1>5, <1>11
  <2>2. IsWaitStream(F[5], "compute", "caller")
    BY <1>2
  <2> QED BY <1>11, <2>1, <2>2, StreamFence
<1>12. CASE F[x].stream = "communicate" /\ F[y].stream = "compute" /\ x < 12 /\ 15 < y
  <2>0. F[x].stream = "communicate" /\ x < 12
    BY <1>12
  <2>a. /\ 15 \in DOMAIN F /\ 12 \in DOMAIN F
        /\ IsEvent(F[15], "wait_event", l, "compute", "metadata_done")
        /\ IsEvent(F[12], "record_event", l, "communicate", "metadata_done")
    BY <1>4, <1>5
  <2>1. Covers(F, 15, x)
    BY <2>0, <2>a, EventCovers
  <2>b. F[15].stream = "compute"
    BY <2>a, Zenon DEF IsEvent
  <2> QED BY <1>5, <1>12, <2>1, <2>b DEF Fenced, FenceAt
<1> QED BY <1>6, <1>7, <1>8, <1>9, <1>10, <1>11, <1>12

------------------------------------------------------------------------------
(* The pairs of kernels of a backward pass that nothing fences, all of them. *)
LEMMA BackwardFences ==
  ASSUME NEW l, NEW lv \in Levels, NEW c, c = IF lv = 0 THEN 0 ELSE IF lv = 1 THEN 2 ELSE 4,
         NEW F, BackwardTable(F, l, lv, c), DOMAIN F = 1 .. 31 + c,
         NEW x \in Nat, NEW y \in Nat, x < y, BackwardAt(F[x], x, lv, c), BackwardAt(F[y], y, lv, c),
         F[x].stream # F[y].stream
  PROVE  Fenced(F, x, y) \/ <<F[x].name, F[y].name>> \in BackwardUnfenced
<1>1. c \in {0, 2, 4} /\ (lv = 2 => c = 4) /\ (lv # 0 => c >= 2)
  BY DEF Levels
<1>2. /\ IsWaitStream(F[5], "communicate", "caller") /\ IsWaitStream(F[6], "compute", "caller")
      /\ IsWaitStream(F[26 + c], "caller", "communicate") /\ IsWaitStream(F[27 + c], "caller", "compute")
  <2>1. /\ F[5] = WaitStream("communicate", l, "caller")
        /\ F[6] = WaitStream("compute", l, "caller")
        /\ F[26 + c] = WaitStream("caller", l, "communicate")
        /\ F[27 + c] = WaitStream("caller", l, "compute")
    BY DEF BackwardTable, BackwardHead, BackwardTail
  <2> QED BY <2>1, WhichAreWaits
<1>3. /\ IsEvent(F[15], "wait_event", l, "compute", "grads_started")
      /\ IsEvent(F[13], "record_event", l, "communicate", "grads_started")
  <2>1. /\ F[15] = WaitEvent("compute", l, "grads_started")
        /\ F[13] = RecordEvent("communicate", l, "grads_started")
    BY DEF BackwardTable, BackwardHead
  <2> QED BY <2>1, WhichAreEvents
<1>4. /\ 5 \in DOMAIN F /\ 6 \in DOMAIN F /\ 13 \in DOMAIN F /\ 15 \in DOMAIN F
      /\ 26 + c \in DOMAIN F /\ 27 + c \in DOMAIN F
  BY <1>1
<1>5. \/ /\ y = 30 + c /\ F[y].stream = "caller"
         /\ \/ F[x].stream = "communicate" /\ x < 26 + c
            \/ F[x].stream = "compute" /\ x < 27 + c
      \/ F[x].stream = "caller" /\ x = 2 /\ F[y].stream = "communicate" /\ 6 < y
      \/ F[x].stream = "caller" /\ x = 2 /\ F[y].stream = "compute" /\ 6 < y
      \/ F[x].stream = "communicate" /\ F[y].stream = "compute" /\ x < 13 /\ 15 < y
      \/ <<F[x].name, F[y].name>> \in BackwardUnfenced
  <2> DEFINE Late(n) == n \in {"reexpand", "recompute", "kernel_y_bwd", "kernel_a_bwd"}
             Weights(n) == n \in {"dW2", "dW1", "zero_dW"}
             Early(n) == n \in {"zero_sums", "index"}
  <2>1. \/ y = 30 + c /\ F[y].stream = "caller"
        \/ y \in {7, 9} /\ F[y].stream = "compute"
        \/ y = 11 /\ F[y].stream = "communicate" /\ F[y].name = "zero_arrival"
        \/ y = 14 /\ F[y].stream = "communicate" /\ F[y].name = "dispatch_grads"
        \/ 17 < y + 1 /\ y < 20 + c /\ F[y].stream = "compute" /\ Late(F[y].name)
        \/ y = 22 + c /\ F[y].stream = "communicate" /\ F[y].name = "combine_grads"
        \/ 22 + c < y /\ y < 26 + c /\ F[y].stream = "compute" /\ Weights(F[y].name)
        \/ y = 2
    BY <1>1, SMTT(30) DEF BackwardAt
  <2>2. \/ x = 30 + c
        \/ x \in {7, 9} /\ F[x].stream = "compute" /\ Early(F[x].name)
        \/ x = 11 /\ F[x].stream = "communicate"
        \/ x = 14 /\ F[x].stream = "communicate" /\ F[x].name = "dispatch_grads"
        \/ 17 < x + 1 /\ x < 20 + c /\ F[x].stream = "compute" /\ Late(F[x].name)
        \/ x = 22 + c /\ F[x].stream = "communicate" /\ F[x].name = "combine_grads"
        \/ 22 + c < x /\ x < 26 + c /\ F[x].stream = "compute"
        \/ x = 2 /\ F[x].stream = "caller"
    BY <1>1 DEF BackwardAt
  <2>3. /\ Early(F[x].name) => /\ <<F[x].name, "zero_arrival">> \in BackwardUnfenced
                                /\ <<F[x].name, "dispatch_grads">> \in BackwardUnfenced
                                /\ <<F[x].name, "combine_grads">> \in BackwardUnfenced
        /\ Late(F[x].name) => <<F[x].name, "combine_grads">> \in BackwardUnfenced
        /\ Late(F[y].name) => <<"dispatch_grads", F[y].name>> \in BackwardUnfenced
        /\ Weights(F[y].name) => /\ <<"dispatch_grads", F[y].name>> \in BackwardUnfenced
                              /\ <<"combine_grads", F[y].name>> \in BackwardUnfenced
    BY DEF BackwardUnfenced
  <2>4. c \in {0, 2, 4} /\ x < y /\ F[x].stream # F[y].stream
    BY <1>1
  <2> HIDE DEF Early, Late, Weights
  <2>5. CASE y = 30 + c /\ F[y].stream = "caller"
    <3>1. \/ F[x].stream = "communicate" /\ x < 26 + c
          \/ F[x].stream = "compute" /\ x < 27 + c
      BY <2>2, <2>4, <2>5
    <3> QED BY <2>5, <3>1
  <2>6. CASE y \in {7, 9} /\ F[y].stream = "compute"
    BY <2>2, <2>4, <2>6
  <2>7. CASE y = 11 /\ F[y].stream = "communicate" /\ F[y].name = "zero_arrival"
    BY <2>2, <2>3, <2>4, <2>7
  <2>8. CASE y = 14 /\ F[y].stream = "communicate" /\ F[y].name = "dispatch_grads"
    BY <2>2, <2>3, <2>4, <2>8
  <2>9. CASE 17 < y + 1 /\ y < 20 + c /\ F[y].stream = "compute" /\ Late(F[y].name)
    BY <2>2, <2>3, <2>4, <2>9
  <2>10. CASE y = 22 + c /\ F[y].stream = "communicate" /\ F[y].name = "combine_grads"
    BY <2>2, <2>3, <2>4, <2>10
  <2>11. CASE 22 + c < y /\ y < 26 + c /\ F[y].stream = "compute" /\ Weights(F[y].name)
    BY <2>2, <2>3, <2>4, <2>11
  <2>12. CASE y = 2
    BY <2>2, <2>4, <2>12
  <2> QED BY <2>1, <2>5, <2>6, <2>7, <2>8, <2>9, <2>10, <2>11, <2>12
<1>6. CASE /\ y = 30 + c /\ F[y].stream = "caller"
           /\ \/ F[x].stream = "communicate" /\ x < 26 + c
              \/ F[x].stream = "compute" /\ x < 27 + c
  <2>1. 26 + c < y /\ 27 + c < y
    BY <1>1, <1>6
  <2> QED BY <1>2, <1>4, <1>6, <2>1, StreamFence
<1>7. CASE F[x].stream = "caller" /\ x = 2 /\ F[y].stream = "communicate" /\ 6 < y
  <2>1. x < 5 /\ 5 < y /\ 5 \in DOMAIN F /\ F[x].stream = "caller" /\ F[y].stream = "communicate"
    BY <1>4, <1>7
  <2>2. IsWaitStream(F[5], "communicate", "caller")
    BY <1>2
  <2> QED BY <2>1, <2>2, StreamFence
<1>8. CASE F[x].stream = "caller" /\ x = 2 /\ F[y].stream = "compute" /\ 6 < y
  <2>1. x < 6 /\ 6 < y /\ 6 \in DOMAIN F /\ F[x].stream = "caller" /\ F[y].stream = "compute"
    BY <1>4, <1>8
  <2>2. IsWaitStream(F[6], "compute", "caller")
    BY <1>2
  <2> QED BY <2>1, <2>2, StreamFence
<1>9. CASE F[x].stream = "communicate" /\ F[y].stream = "compute" /\ x < 13 /\ 15 < y
  <2>0. F[x].stream = "communicate" /\ x < 13
    BY <1>9
  <2>a. /\ 15 \in DOMAIN F /\ 13 \in DOMAIN F
        /\ IsEvent(F[15], "wait_event", l, "compute", "grads_started")
        /\ IsEvent(F[13], "record_event", l, "communicate", "grads_started")
    BY <1>3, <1>4
  <2>1. Covers(F, 15, x)
    BY <2>0, <2>a, EventCovers
  <2>b. F[15].stream = "compute"
    BY <2>a, Zenon DEF IsEvent
  <2> QED BY <1>4, <1>9, <2>1, <2>b DEF Fenced, FenceAt
<1> QED BY <1>5, <1>6, <1>7, <1>8, <1>9

(* What keeps two statements of a pass apart keeps them apart in the program. *)
LEMMA FencedInProgram ==
  ASSUME NEW lv \in Levels, NEW base, Laid(lv, base), NEW k \in DOMAIN Schedule,
         NEW F, F = Pass(k, lv), NEW P, P = Program(lv),
         NEW x \in Nat \ {0}, x <= Len(F), NEW y \in Nat \ {0}, y <= Len(F), Fenced(F, x, y)
  PROVE  Fenced(P, base[k - 1] + x, base[k - 1] + y)
<1>1. PICK p \in Nat : p = base[k - 1]
  BY PlaceInProgram
<1>2. Len(F) \in Nat /\ DOMAIN F = 1 .. Len(F)
  BY PassShape DEF Listed
<1>3. ASSUME NEW m \in DOMAIN F
      PROVE  p + m \in DOMAIN P /\ P[p + m] = F[m]
  <2>1. m \in Nat \ {0} /\ m <= Len(Pass(k, lv))
    BY <1>2
  <2> QED BY <1>1, <2>1, PlaceInProgram
<1>4. P[p + x] = F[x] /\ P[p + y] = F[y]
  BY <1>2, <1>3
<1>5. PICK w \in DOMAIN F : w < y /\ F[w].stream = F[y].stream /\ FenceAt(F, w, x)
  BY DEF Fenced
<1>6. ASSUME NEW v \in DOMAIN F, Covers(F, v, x)
      PROVE  Covers(P, p + v, p + x)
  <2>1. F[v].when = BOOLEAN
    BY <1>6 DEF Covers
  <2>2. CASE F[v].kind = "wait_stream" /\ F[v].on = F[x].stream /\ x < v
    <3>1. p + x < p + v
      BY <1>2, <2>2
    <3> QED BY <1>3, <1>4, <2>1, <2>2, <3>1 DEF Covers
  <2>3. ASSUME F[v].kind = "wait_event",
               NEW e \in DOMAIN F, F[e].kind = "record_event", F[e].on = F[v].on,
               F[e].layer = F[v].layer, F[e].stream = F[x].stream, x < e
        PROVE  Covers(P, p + v, p + x)
    <3>1. p + x < p + e
      BY <1>2, <2>3
    <3>2. p + e \in DOMAIN P /\ P[p + e] = F[e] /\ P[p + v] = F[v]
      BY <1>3
    <3> QED BY <1>4, <2>1, <2>3, <3>1, <3>2 DEF Covers
  <2> QED BY <1>6, <2>2, <2>3 DEF Covers
<1>7. p + w \in DOMAIN P /\ p + w < p + y /\ P[p + w] = F[w]
  BY <1>2, <1>3, <1>5
<1>8. FenceAt(P, p + w, p + x)
  <2>1. CASE Covers(F, w, x)
    BY <1>6, <2>1 DEF FenceAt
  <2>2. ASSUME F[w].kind = "wait_stream", F[w].when = BOOLEAN,
               NEW v \in DOMAIN F, v < w, F[v].stream = F[w].on, Covers(F, v, x)
        PROVE  FenceAt(P, p + w, p + x)
    <3>1. p + v < p + w
      BY <1>2, <2>2
    <3>2. p + v \in DOMAIN P /\ P[p + v] = F[v] /\ Covers(P, p + v, p + x)
      BY <1>3, <1>6, <2>2
    <3> QED BY <1>7, <2>2, <3>1, <3>2 DEF FenceAt
  <2> QED BY <1>5, <2>1, <2>2 DEF FenceAt
<1>9. Fenced(P, p + x, p + y)
  BY <1>4, <1>5, <1>7, <1>8 DEF Fenced
<1> QED BY <1>1, <1>9

------------------------------------------------------------------------------
------------------------------------------------------------------------------
(* What a pass allocates and releases, and where. *)

Frees(st, l, names) == st.kind = "free" /\ TensorsIn(st.writes, l, names)
Allocates(st, l, names) == st.kind = "alloc" /\ TensorsIn(st.writes, l, names)
Own(st, l) == \A u \in st.writes : u = <<u[1], l>>
IsAlloc(st, l) == st.kind = "alloc" /\ Own(st, l)
IsFree(st, l) == st.kind = "free" /\ Own(st, l)
NoMemory(st) == st.kind \notin {"alloc", "free"}

FreedByForward(lv) == {"o", "postact", "x", "out"} \cup IF lv = 2 THEN {"pool"} ELSE {}
MadeByBackward == {"dL_dy", "tmp2", "sums", "scratch", "dW", "cu_seqlens", "dL_do_pool", "arrival",
                   "preact2", "pool2", "dL_dx"}

(* What a statement allocates or frees, within a wider set of names. *)
LEMMA TensorsOf ==
  ASSUME NEW l, NEW names, NEW wide, names \subseteq wide
  PROVE  /\ Allocates(Alloc(l, names), l, wide)
         /\ Allocates(WithTiles(Alloc(l, names)), l, wide)
         /\ Frees(Free(l, names), l, wide)
<1>1. TensorsIn(T(names, l), l, wide)
  BY DEF TensorsIn, T
<1>2. /\ Alloc(l, names).kind = "alloc" /\ Alloc(l, names).writes = T(names, l)
      /\ Free(l, names).kind = "free" /\ Free(l, names).writes = T(names, l)
  BY DEF Alloc, Free, Stmt
<1>3. WithTiles(Alloc(l, names)).kind = "alloc" /\ WithTiles(Alloc(l, names)).writes = T(names, l)
  BY DEF WithTiles, Alloc, Stmt
<1> QED BY <1>1, <1>2, <1>3 DEF Allocates, Frees

(* What a statement allocates or frees is of its own layer. *)
LEMMA TensorsOwn ==
  ASSUME NEW l
  PROVE  \A names : IsAlloc(Alloc(l, names), l) /\ IsFree(Free(l, names), l)
<1>1. ASSUME NEW names PROVE IsAlloc(Alloc(l, names), l) /\ IsFree(Free(l, names), l)
  <2>1. Allocates(Alloc(l, names), l, names) /\ Frees(Free(l, names), l, names)
    BY TensorsOf
  <2> QED BY <2>1 DEF Allocates, Frees, TensorsIn, IsAlloc, IsFree, Own
<1> QED BY <1>1

(* Waits, bumps, polls and events allocate and free nothing. *)
LEMMA WhichHaveNoMemory ==
  ASSUME NEW l
  PROVE  /\ NoMemory(Poll(l))
         /\ \A f : NoMemory(Bump(l, f)) /\ NoMemory(WithTiles(Bump(l, f)))
         /\ \A s, t : NoMemory(WaitStream(s, l, t))
         /\ \A s, e : NoMemory(WaitEvent(s, l, e)) /\ NoMemory(RecordEvent(s, l, e))
         /\ \A s, f : NoMemory(WaitStarted(s, l, f)) /\ NoMemory(WithTiles(WaitStarted(s, l, f)))
BY DEF NoMemory, Poll, Bump, WaitStream, WaitEvent, RecordEvent, WaitStarted, WithTiles, Stmt

(* Neither does a kernel. *)
LEMMA KernelsHaveNoMemory ==
  ASSUME NEW l
  PROVE  \A s, need, name, reads, writes :
           /\ NoMemory(Kernel(s, l, name, need, reads, writes))
           /\ NoMemory(WithTiles(Kernel(s, l, name, need, reads, writes)))
           /\ NoMemory(WithoutTiles(Kernel(s, l, name, need, reads, writes)))
BY DEF NoMemory, Kernel, WithTiles, WithoutTiles, Stmt

ForwardMemory(st, m, l, lv) ==
  /\ st.kind = "free" => \/ m = 3 /\ TensorsIn(st.writes, l, {"tmp"})
                         \/ 27 <= m /\ TensorsIn(st.writes, l, FreedByForward(lv))
  /\ st.kind = "alloc" => m < 27 /\ Own(st, l)

(* A forward pass allocates before the end and, but for the model, frees there. *)
LEMMA ForwardAllocations ==
  ASSUME NEW l, NEW lv \in Levels, NEW c, c = IF lv = 2 THEN 4 ELSE 0, NEW F, ForwardTable(F, l, lv, c),
         NEW m \in 1 .. 31 + c
  PROVE  ForwardMemory(F[m], m, l, lv)
<1>1. \A i \in {2, 4, 5, 7, 8, 9, 11, 12, 13, 14, 15, 16, 18} : NoMemory(F[i])
  BY WhichHaveNoMemory, KernelsHaveNoMemory DEF ForwardTable
<1>2. \A i \in {19, 20, 21, 22, 24} : NoMemory(F[i])
  BY WhichHaveNoMemory, KernelsHaveNoMemory DEF ForwardTable
<1>3. lv = 2 => NoMemory(F[25]) /\ NoMemory(F[27])
  BY WhichHaveNoMemory, KernelsHaveNoMemory DEF ForwardTable
<1>4. \A i \in {25 + c, 26 + c, 30 + c} : NoMemory(F[i])
  BY WhichHaveNoMemory, KernelsHaveNoMemory DEF ForwardTable
<1>5. Frees(F[3], l, {"tmp"})
  <2>1. F[3] = Free(l, {"tmp"})
    BY DEF ForwardTable
  <2> QED BY <2>1, TensorsOf
<1>6. PICK wide : wide = FreedByForward(lv)
  OBVIOUS
<1>7. \A i \in {27 + c, 28 + c, 29 + c, 31 + c} : Frees(F[i], l, wide)
  <2>1. /\ F[27 + c] = Free(l, {"o"}) /\ F[28 + c] = Free(l, {"postact"})
        /\ F[29 + c] = Free(l, {"x"}) /\ F[31 + c] = Free(l, {"out"})
    BY DEF ForwardTable
  <2>2. {"o"} \subseteq wide /\ {"postact"} \subseteq wide /\ {"x"} \subseteq wide /\ {"out"} \subseteq wide
    BY <1>6 DEF FreedByForward
  <2> QED BY <2>1, <2>2, TensorsOf
<1>8. ASSUME lv = 2 PROVE Frees(F[28], l, wide)
  <2>1. F[28] = Free(l, {"pool"})
    BY <1>8 DEF ForwardTable
  <2>2. {"pool"} \subseteq wide
    BY <1>6, <1>8 DEF FreedByForward
  <2> QED BY <2>1, <2>2, TensorsOf
<1>9. \/ m \in {2, 4, 5, 7, 8, 9, 11, 12, 13, 14, 15, 16, 18}
      \/ m \in {19, 20, 21, 22, 24}
      \/ lv = 2 /\ m \in {25, 27}
      \/ m \in {25 + c, 26 + c, 30 + c}
      \/ m = 3
      \/ 27 <= m /\ m \in {27 + c, 28 + c, 29 + c, 31 + c}
      \/ lv = 2 /\ m = 28
      \/ m < 27 /\ m \in {1, 6, 10, 17, 23}
      \/ lv = 2 /\ m = 26
  OBVIOUS
<1>10. \A i \in {1, 6, 10, 17, 23} : IsAlloc(F[i], l)
  BY TensorsOwn DEF ForwardTable
<1>11. lv = 2 => IsAlloc(F[26], l)
  BY TensorsOwn DEF ForwardTable
<1>12. CASE NoMemory(F[m])
  BY <1>12 DEF NoMemory, ForwardMemory
<1>13. CASE IsAlloc(F[m], l) /\ m < 27
  BY <1>13 DEF IsAlloc, ForwardMemory
<1>14. CASE m = 3
  BY <1>5, <1>14 DEF Frees, ForwardMemory
<1>15. CASE 27 <= m /\ Frees(F[m], l, wide)
  BY <1>6, <1>15 DEF Frees, ForwardMemory
<1>16. \/ NoMemory(F[m])
       \/ IsAlloc(F[m], l) /\ m < 27
       \/ m = 3
       \/ 27 <= m /\ Frees(F[m], l, wide)
  BY <1>1, <1>2, <1>3, <1>4, <1>7, <1>8, <1>9, <1>10, <1>11
<1> QED BY <1>12, <1>13, <1>14, <1>15, <1>16

BackwardMemory(st, m, l) ==
  /\ st.kind = "free" => \/ m = 3 /\ TensorsIn(st.writes, l, {"tmp2"})
                         \/ 28 <= m /\ Own(st, l)
  /\ st.kind = "alloc" => m < 28 /\ TensorsIn(st.writes, l, MadeByBackward)

(* A backward pass allocates before the end and, but for the model, frees there. *)
LEMMA BackwardAllocations ==
  ASSUME NEW l, NEW lv \in Levels, NEW c, c = IF lv = 0 THEN 0 ELSE IF lv = 1 THEN 2 ELSE 4,
         NEW F,
         BackwardTable(F, l, lv, c), NEW m \in 1 .. 31 + c
  PROVE  BackwardMemory(F[m], m, l)
<1>h. BackwardHead(F, l)
  BY DEF BackwardTable
<1>m. BackwardMiddle(F, l, lv)
  BY DEF BackwardTable
<1>t. BackwardTail(F, l, lv, c)
  BY DEF BackwardTable
<1>1. \A i \in {2, 5, 6, 7, 9, 11, 12, 13, 14, 15, 16} : NoMemory(F[i])
  <2>1. \A i \in {2, 7, 9, 11, 14} : NoMemory(F[i])
    BY <1>h, KernelsHaveNoMemory DEF BackwardHead
  <2>2. \A i \in {5, 6, 12, 13, 15, 16} : NoMemory(F[i])
    BY <1>h, WhichHaveNoMemory DEF BackwardHead
  <2> QED BY <2>1, <2>2
<1>2. (lv = 1 => NoMemory(F[18])) /\ (lv = 2 => NoMemory(F[18]) /\ NoMemory(F[20]))
  BY <1>m, KernelsHaveNoMemory DEF BackwardMiddle
<1>3. /\ \A i \in {17 + c, 18 + c, 19 + c, 20 + c} : NoMemory(F[i])
      /\ \A i \in {22 + c, 23 + c, 24 + c, 25 + c, 26 + c, 27 + c} : NoMemory(F[i])
  <2>1. \A i \in {17 + c, 19 + c, 22 + c, 23 + c, 24 + c, 25 + c} : NoMemory(F[i])
    BY <1>t, KernelsHaveNoMemory DEF BackwardTail
  <2>2. \A i \in {18 + c, 20 + c, 26 + c, 27 + c} : NoMemory(F[i])
    BY <1>t, WhichHaveNoMemory DEF BackwardTail
  <2> QED BY <2>1, <2>2
<1>4. PICK wide : wide = MadeByBackward
  OBVIOUS
<1>5. \A i \in {1, 4, 8, 10} : Allocates(F[i], l, wide)
  <2>1. /\ F[1] = Alloc(l, {"dL_dy", "tmp2"}) /\ F[4] = Alloc(l, {"sums", "scratch", "dW"})
        /\ F[8] = Alloc(l, {"cu_seqlens"}) /\ F[10] = Alloc(l, {"dL_do_pool", "arrival"})
    BY <1>h DEF BackwardHead
  <2>2. /\ {"dL_dy", "tmp2"} \subseteq wide /\ {"sums", "scratch", "dW"} \subseteq wide
        /\ {"cu_seqlens"} \subseteq wide /\ {"dL_do_pool", "arrival"} \subseteq wide
    BY <1>4 DEF MadeByBackward
  <2> QED BY <2>1, <2>2, TensorsOf
<1>6. ASSUME lv = 1 PROVE Allocates(F[17], l, wide)
  <2>1. F[17] = WithTiles(Alloc(l, {"preact2"}))
    BY <1>m, <1>6 DEF BackwardMiddle
  <2>2. {"preact2"} \subseteq wide
    BY <1>4 DEF MadeByBackward
  <2> QED BY <2>1, <2>2, TensorsOf
<1>7. ASSUME lv = 2 PROVE Allocates(F[17], l, wide) /\ Allocates(F[19], l, wide)
  <2>1. F[17] = WithTiles(Alloc(l, {"pool2"})) /\ F[19] = WithTiles(Alloc(l, {"preact2"}))
    BY <1>m, <1>7 DEF BackwardMiddle
  <2>2. {"pool2"} \subseteq wide /\ {"preact2"} \subseteq wide
    BY <1>4 DEF MadeByBackward
  <2> QED BY <2>1, <2>2, TensorsOf
<1>8. Allocates(F[21 + c], l, wide)
  <2>1. F[21 + c] = Alloc(l, {"dL_dx"})
    BY <1>t DEF BackwardTail
  <2>2. {"dL_dx"} \subseteq wide
    BY <1>4 DEF MadeByBackward
  <2> QED BY <2>1, <2>2, TensorsOf
<1>9. Frees(F[3], l, {"tmp2"})
  <2>1. F[3] = Free(l, {"tmp2"})
    BY <1>h DEF BackwardHead
  <2> QED BY <2>1, TensorsOf
<1>10. NoMemory(F[30 + c]) /\ \A i \in {28 + c, 29 + c, 31 + c} : IsFree(F[i], l)
  BY <1>t, TensorsOwn, KernelsHaveNoMemory DEF BackwardTail
<1>11. \/ m \in {2, 5, 6, 7, 9, 11, 12, 13, 14, 15, 16}
       \/ lv = 1 /\ m = 18
       \/ lv = 2 /\ m \in {18, 20}
       \/ m \in {17 + c, 18 + c, 19 + c, 20 + c, 22 + c, 23 + c, 24 + c, 25 + c, 26 + c, 27 + c}
       \/ m < 28 /\ m \in {1, 4, 8, 10}
       \/ lv = 1 /\ m = 17
       \/ lv = 2 /\ m \in {17, 19}
       \/ m < 28 /\ m = 21 + c
       \/ m = 3
       \/ m = 30 + c
       \/ 28 <= m /\ m \in {28 + c, 29 + c, 31 + c}
  BY DEF Levels
<1>12. CASE NoMemory(F[m])
  BY <1>12 DEF NoMemory, BackwardMemory
<1>13. CASE m < 28 /\ Allocates(F[m], l, wide)
  BY <1>4, <1>13 DEF Allocates, BackwardMemory
<1>14. CASE m = 3
  BY <1>9, <1>14 DEF Frees, BackwardMemory
<1>15. CASE 28 <= m /\ IsFree(F[m], l)
  BY <1>15 DEF IsFree, BackwardMemory
<1>16. \/ NoMemory(F[m])
       \/ m < 28 /\ Allocates(F[m], l, wide)
       \/ m = 3
       \/ 28 <= m /\ IsFree(F[m], l)
  BY <1>1, <1>2, <1>3, <1>5, <1>6, <1>7, <1>8, <1>10, <1>11
<1> QED BY <1>12, <1>13, <1>14, <1>15, <1>16

------------------------------------------------------------------------------
------------------------------------------------------------------------------
(* What two kernels of a pass share. *)

ForwardNames == {"x", "pre", "post", "slots", "o", "pool", "postact", "preact", "x_recv", "out"}
BackwardNames(lv) ==
  {"dL_dy", "sums", "pre", "post", "slots", "cu_seqlens", "arrival", "dL_do_pool", "x_recv", "pool2",
   "preact2", "preact", "scratch", "dL_dx", "dW"} \cup IF lv = 2 THEN {} ELSE {"pool"}

(* Forward kernels touch nothing backward makes, and backward kernels nothing
   forward frees. *)
LEMMA NamesDisjoint ==
  ASSUME NEW lv \in Levels
  PROVE  /\ ForwardNames \cap MadeByBackward = {} /\ BackwardNames(lv) \cap FreedByForward(lv) = {}
         /\ "tmp" \notin ForwardNames /\ "tmp2" \notin BackwardNames(lv)
<1>1. ForwardNames \cap MadeByBackward = {} /\ "tmp" \notin ForwardNames
  BY DEF ForwardNames, MadeByBackward
<1>2. BackwardNames(lv) \cap FreedByForward(lv) = {} /\ "tmp2" \notin BackwardNames(lv)
  BY DEF BackwardNames, FreedByForward
<1> QED BY <1>1, <1>2

(* A kernel within its tensors touches only their names. *)
LEMMA WithinNames ==
  ASSUME NEW st, NEW l, NEW R, NEW W, Within(st, l, R, W), NEW names, R \cup W \subseteq names
  PROVE  TensorsIn(Touched(st), l, names)
BY DEF Within, TensorsIn, Touched

(* The names a forward kernel touches. *)
LEMMA ForwardTouches ==
  ASSUME NEW l, NEW lv \in Levels, NEW c, NEW st, NEW m, ForwardAt(st, m, lv, c),
         ForwardTensors(st, l, lv), st.name # "model"
  PROVE  TensorsIn(Touched(st), l, ForwardNames)
<1>0. PICK names : names = ForwardNames
  OBVIOUS
<1>1. CASE st.name = "memset_pre"
  <2>1. Within(st, l, {}, {"pre"})
    BY <1>1, Zenon DEF ForwardTensors
  <2>2. {} \cup {"pre"} \subseteq names
    BY <1>0 DEF ForwardNames, Activations, PoolTensor, PreactTensor
  <2> QED BY <1>0, <2>1, <2>2, WithinNames
<1>2. CASE st.name = "metadata"
  <2>1. Within(st, l, {}, {"pre"})
    BY <1>2, Zenon DEF ForwardTensors
  <2>2. {} \cup {"pre"} \subseteq names
    BY <1>0 DEF ForwardNames, Activations, PoolTensor, PreactTensor
  <2> QED BY <1>0, <2>1, <2>2, WithinNames
<1>3. CASE st.name = "memset_post"
  <2>1. Within(st, l, {"pre"}, {"post", "slots", "o"})
    BY <1>3, Zenon DEF ForwardTensors
  <2>2. {"pre"} \cup {"post", "slots", "o"} \subseteq names
    BY <1>0 DEF ForwardNames, Activations, PoolTensor, PreactTensor
  <2> QED BY <1>0, <2>1, <2>2, WithinNames
<1>4. CASE st.name = "dispatch_main"
  <2>1. Within(st, l, {"x", "pre"}, {"pool", "post", "slots"})
    BY <1>4, Zenon DEF ForwardTensors
  <2>2. {"x", "pre"} \cup {"pool", "post", "slots"} \subseteq names
    BY <1>0 DEF ForwardNames, Activations, PoolTensor, PreactTensor
  <2> QED BY <1>0, <2>1, <2>2, WithinNames
<1>5. CASE st.name = "kernel_a"
  <2>1. Within(st, l, {"pool", "pre", "slots"}, Activations(lv))
    BY <1>5, Zenon DEF ForwardTensors
  <2>2. {"pool", "pre", "slots"} \cup Activations(lv) \subseteq names
    BY <1>0 DEF ForwardNames, Activations, PoolTensor, PreactTensor
  <2> QED BY <1>0, <2>1, <2>2, WithinNames
<1>6. CASE st.name = "kernel_y"
  <2>1. Within(st, l, {"postact", "pre", "slots"}, {"o", "slots"})
    BY <1>6, Zenon DEF ForwardTensors
  <2>2. {"postact", "pre", "slots"} \cup {"o", "slots"} \subseteq names
    BY <1>0 DEF ForwardNames, Activations, PoolTensor, PreactTensor
  <2> QED BY <1>0, <2>1, <2>2, WithinNames
<1>7. CASE st.name = "combine"
  <2>1. Within(st, l, {"o", "pre", "post", "slots"}, {"out"})
    BY <1>7, Zenon DEF ForwardTensors
  <2>2. {"o", "pre", "post", "slots"} \cup {"out"} \subseteq names
    BY <1>0 DEF ForwardNames, Activations, PoolTensor, PreactTensor
  <2> QED BY <1>0, <2>1, <2>2, WithinNames
<1>8. CASE st.name = "compress"
  <2>1. Within(st, l, {"pool", "slots"}, {"x_recv"})
    BY <1>8, Zenon DEF ForwardTensors
  <2>2. {"pool", "slots"} \cup {"x_recv"} \subseteq names
    BY <1>0 DEF ForwardNames, Activations, PoolTensor, PreactTensor
  <2> QED BY <1>0, <2>1, <2>2, WithinNames
<1>9. CASE st.name = "model_out"
  <2>1. Within(st, l, {"out"}, {})
    BY <1>9, Zenon DEF ForwardTensors
  <2>2. {"out"} \cup {} \subseteq names
    BY <1>0 DEF ForwardNames, Activations, PoolTensor, PreactTensor
  <2> QED BY <1>0, <2>1, <2>2, WithinNames
<1>10. st.name \in {"model", "memset_pre", "metadata", "memset_post", "dispatch_main",
                    "kernel_a", "kernel_y", "combine", "compress", "model_out"}
  BY Zenon DEF ForwardAt
<1> QED BY <1>0, <1>1, <1>2, <1>3, <1>4, <1>5, <1>6, <1>7, <1>8, <1>9, <1>10

(* The names a backward kernel touches. *)
LEMMA BackwardTouches ==
  ASSUME NEW l, NEW lv \in Levels, NEW c, NEW st, NEW m, BackwardAt(st, m, lv, c),
         BackwardTensors(st, l, lv), st.name # "model_bwd"
  PROVE  TensorsIn(Touched(st), l, BackwardNames(lv))
<1>0. PICK names : names = BackwardNames(lv)
  OBVIOUS
<1>1. CASE st.name = "zero_sums"
  <2>1. Within(st, l, {}, {"sums"})
    BY <1>1, Zenon DEF BackwardTensors
  <2>2. {} \cup {"sums"} \subseteq names
    BY <1>0 DEF BackwardNames, Activations, PoolTensor, PreactTensor
  <2> QED BY <1>0, <2>1, <2>2, WithinNames
<1>2. CASE st.name = "index"
  <2>1. Within(st, l, {"pre", "slots"}, {"sums", "cu_seqlens"})
    BY <1>2, Zenon DEF BackwardTensors
  <2>2. {"pre", "slots"} \cup {"sums", "cu_seqlens"} \subseteq names
    BY <1>0 DEF BackwardNames, Activations, PoolTensor, PreactTensor
  <2> QED BY <1>0, <2>1, <2>2, WithinNames
<1>3. CASE st.name = "zero_arrival"
  <2>1. Within(st, l, {}, {"arrival"})
    BY <1>3, Zenon DEF BackwardTensors
  <2>2. {} \cup {"arrival"} \subseteq names
    BY <1>0 DEF BackwardNames, Activations, PoolTensor, PreactTensor
  <2> QED BY <1>0, <2>1, <2>2, WithinNames
<1>4. CASE st.name = "dispatch_grads"
  <2>1. Within(st, l, {"dL_dy", "pre", "post", "slots"}, {"dL_do_pool", "arrival"})
    BY <1>4, Zenon DEF BackwardTensors
  <2>2. {"dL_dy", "pre", "post", "slots"} \cup {"dL_do_pool", "arrival"} \subseteq names
    BY <1>0 DEF BackwardNames, Activations, PoolTensor, PreactTensor
  <2> QED BY <1>0, <2>1, <2>2, WithinNames
<1>5. CASE st.name = "reexpand"
  <2>1. Within(st, l, {"x_recv", "slots"}, {"pool2"})
    BY <1>5, Zenon DEF BackwardTensors
  <2>2. {"x_recv", "slots"} \cup {"pool2"} \subseteq names
    BY <1>0 DEF BackwardNames, Activations, PoolTensor, PreactTensor
  <2> QED BY <1>0, <2>1, <2>2, WithinNames
<1>6. CASE st.name = "recompute"
  <2>1. Within(st, l, {PoolTensor(lv), "cu_seqlens"}, {"preact2"})
    BY <1>6, Zenon DEF BackwardTensors
  <2>2. {PoolTensor(lv), "cu_seqlens"} \cup {"preact2"} \subseteq names
    BY <1>0 DEF BackwardNames, Activations, PoolTensor, PreactTensor
  <2> QED BY <1>0, <2>1, <2>2, WithinNames
<1>7. CASE st.name = "kernel_y_bwd"
  <2>1. Within(st, l, {"dL_do_pool", "arrival", "pre", "slots", PreactTensor(lv)}, {"scratch", "sums"})
    BY <1>7, Zenon DEF BackwardTensors
  <2>2. {"dL_do_pool", "arrival", "pre", "slots", PreactTensor(lv)} \cup {"scratch", "sums"} \subseteq names
    BY <1>0 DEF BackwardNames, Activations, PoolTensor, PreactTensor
  <2> QED BY <1>0, <2>1, <2>2, WithinNames
<1>8. CASE st.name = "kernel_a_bwd"
  <2>1. Within(st, l, {"scratch", "arrival", "pre", "slots"}, {"sums"})
    BY <1>8, Zenon DEF BackwardTensors
  <2>2. {"scratch", "arrival", "pre", "slots"} \cup {"sums"} \subseteq names
    BY <1>0 DEF BackwardNames, Activations, PoolTensor, PreactTensor
  <2> QED BY <1>0, <2>1, <2>2, WithinNames
<1>9. CASE st.name = "combine_grads"
  <2>1. Within(st, l, {"sums", "pre", "post", "slots"}, {"dL_dx"})
    BY <1>9, Zenon DEF BackwardTensors
  <2>2. {"sums", "pre", "post", "slots"} \cup {"dL_dx"} \subseteq names
    BY <1>0 DEF BackwardNames, Activations, PoolTensor, PreactTensor
  <2> QED BY <1>0, <2>1, <2>2, WithinNames
<1>10. CASE st.name = "dW2"
  <2>1. Within(st, l, {"dL_do_pool", "scratch", "cu_seqlens"}, {"dW"})
    BY <1>10, Zenon DEF BackwardTensors
  <2>2. {"dL_do_pool", "scratch", "cu_seqlens"} \cup {"dW"} \subseteq names
    BY <1>0 DEF BackwardNames, Activations, PoolTensor, PreactTensor
  <2> QED BY <1>0, <2>1, <2>2, WithinNames
<1>11. CASE st.name = "dW1"
  <2>1. Within(st, l, {"scratch", PoolTensor(lv), "cu_seqlens"}, {"dW"})
    BY <1>11, Zenon DEF BackwardTensors
  <2>2. {"scratch", PoolTensor(lv), "cu_seqlens"} \cup {"dW"} \subseteq names
    BY <1>0 DEF BackwardNames, Activations, PoolTensor, PreactTensor
  <2> QED BY <1>0, <2>1, <2>2, WithinNames
<1>12. CASE st.name = "zero_dW"
  <2>1. Within(st, l, {}, {"dW"})
    BY <1>12, Zenon DEF BackwardTensors
  <2>2. {} \cup {"dW"} \subseteq names
    BY <1>0 DEF BackwardNames, Activations, PoolTensor, PreactTensor
  <2> QED BY <1>0, <2>1, <2>2, WithinNames
<1>13. CASE st.name = "model_dx"
  <2>1. Within(st, l, {"dL_dx", "dW"}, {})
    BY <1>13, Zenon DEF BackwardTensors
  <2>2. {"dL_dx", "dW"} \cup {} \subseteq names
    BY <1>0 DEF BackwardNames, Activations, PoolTensor, PreactTensor
  <2> QED BY <1>0, <2>1, <2>2, WithinNames
<1>14. st.name \in {"model_bwd", "zero_sums", "index", "zero_arrival", "dispatch_grads",
                    "reexpand", "recompute", "kernel_y_bwd", "kernel_a_bwd", "combine_grads",
                    "dW2", "dW1", "zero_dW", "model_dx"}
  BY Zenon DEF BackwardAt
<1> QED BY <1>0, <1>1, <1>2, <1>3, <1>4, <1>5, <1>6, <1>7, <1>8, <1>9, <1>10, <1>11, <1>12,
           <1>13, <1>14

------------------------------------------------------------------------------
(* A name that two kernels touch and one of them writes. *)
Meet(n, R, W, Q, V) == n \in W \cap (Q \cup V) \/ n \in V \cap (R \cup W)

(* A tensor that two kernels share and one writes, by their lists. *)
LEMMA WithinClash ==
  ASSUME NEW a, NEW b, NEW l, NEW R, NEW W, NEW Q, NEW V, Within(a, l, R, W), Within(b, l, Q, V),
         NEW u, u \in Touched(a), u \in Touched(b), u \in a.writes \/ u \in b.writes
  PROVE  Meet(u[1], R, W, Q, V)
BY DEF Meet, Within, TensorsIn, Touched

(* What a kernel hands to one that no wait keeps behind it. *)
ForwardHandOffs == {
  <<"dispatch_main", "kernel_a", "pool">>,
  <<"dispatch_main", "kernel_a", "slots">>,
  <<"dispatch_main", "kernel_y", "slots">>,
  <<"dispatch_main", "compress", "pool">>,
  <<"dispatch_main", "compress", "slots">>,
  <<"kernel_y", "combine", "o">>,
  <<"kernel_y", "combine", "slots">>}
BackwardHandOffs == {
  <<"zero_sums", "combine_grads", "sums">>,
  <<"index", "combine_grads", "sums">>,
  <<"kernel_y_bwd", "combine_grads", "sums">>,
  <<"kernel_a_bwd", "combine_grads", "sums">>,
  <<"dispatch_grads", "kernel_y_bwd", "arrival">>,
  <<"dispatch_grads", "kernel_y_bwd", "dL_do_pool">>,
  <<"dispatch_grads", "kernel_a_bwd", "arrival">>,
  <<"dispatch_grads", "dW2", "dL_do_pool">>}

(* Unfenced kernels of a forward pass share what they hand over, nothing else. *)
LEMMA ForwardShared ==
  ASSUME NEW l, NEW lv \in Levels, NEW a, NEW b, ForwardTensors(a, l, lv), ForwardTensors(b, l, lv),
         <<a.name, b.name>> \in ForwardUnfenced,
         NEW u, u \in Touched(a), u \in Touched(b), u \in a.writes \/ u \in b.writes
  PROVE  <<a.name, b.name, u[1]>> \in ForwardHandOffs
<1>0. PICK n : n = u[1]
  OBVIOUS
<1>1. CASE a.name = "dispatch_main" /\ b.name = "kernel_a"
  <2>1. Within(a, l, {"x", "pre"}, {"pool", "post", "slots"})
    BY <1>1, Zenon DEF ForwardTensors
  <2>2. Within(b, l, {"pool", "pre", "slots"}, Activations(lv))
    BY <1>1, Zenon DEF ForwardTensors
  <2>3. Meet(n, {"x", "pre"}, {"pool", "post", "slots"}, {"pool", "pre", "slots"}, Activations(lv))
    BY <1>0, <2>1, <2>2, WithinClash
  <2>4. n \in {"pool", "slots"}
    BY <2>3 DEF Meet, Activations, PoolTensor, PreactTensor
  <2> QED BY <1>0, <1>1, <2>4 DEF ForwardHandOffs
<1>2. CASE a.name = "dispatch_main" /\ b.name = "kernel_y"
  <2>1. Within(a, l, {"x", "pre"}, {"pool", "post", "slots"})
    BY <1>2, Zenon DEF ForwardTensors
  <2>2. Within(b, l, {"postact", "pre", "slots"}, {"o", "slots"})
    BY <1>2, Zenon DEF ForwardTensors
  <2>3. Meet(n, {"x", "pre"}, {"pool", "post", "slots"}, {"postact", "pre", "slots"},
             {"o", "slots"})
    BY <1>0, <2>1, <2>2, WithinClash
  <2>4. n \in {"slots"}
    BY <2>3 DEF Meet, Activations, PoolTensor, PreactTensor
  <2> QED BY <1>0, <1>2, <2>4 DEF ForwardHandOffs
<1>3. CASE a.name = "dispatch_main" /\ b.name = "compress"
  <2>1. Within(a, l, {"x", "pre"}, {"pool", "post", "slots"})
    BY <1>3, Zenon DEF ForwardTensors
  <2>2. Within(b, l, {"pool", "slots"}, {"x_recv"})
    BY <1>3, Zenon DEF ForwardTensors
  <2>3. Meet(n, {"x", "pre"}, {"pool", "post", "slots"}, {"pool", "slots"}, {"x_recv"})
    BY <1>0, <2>1, <2>2, WithinClash
  <2>4. n \in {"pool", "slots"}
    BY <2>3 DEF Meet, Activations, PoolTensor, PreactTensor
  <2> QED BY <1>0, <1>3, <2>4 DEF ForwardHandOffs
<1>4. CASE a.name = "kernel_a" /\ b.name = "combine"
  <2>1. Within(a, l, {"pool", "pre", "slots"}, Activations(lv))
    BY <1>4, Zenon DEF ForwardTensors
  <2>2. Within(b, l, {"o", "pre", "post", "slots"}, {"out"})
    BY <1>4, Zenon DEF ForwardTensors
  <2>3. Meet(n, {"pool", "pre", "slots"}, Activations(lv), {"o", "pre", "post", "slots"}, {"out"})
    BY <1>0, <2>1, <2>2, WithinClash
  <2>4. n \in {}
    BY <2>3 DEF Meet, Activations, PoolTensor, PreactTensor
  <2> QED BY <1>0, <1>4, <2>4 DEF ForwardHandOffs
<1>5. CASE a.name = "kernel_y" /\ b.name = "combine"
  <2>1. Within(a, l, {"postact", "pre", "slots"}, {"o", "slots"})
    BY <1>5, Zenon DEF ForwardTensors
  <2>2. Within(b, l, {"o", "pre", "post", "slots"}, {"out"})
    BY <1>5, Zenon DEF ForwardTensors
  <2>3. Meet(n, {"postact", "pre", "slots"}, {"o", "slots"}, {"o", "pre", "post", "slots"}, {"out"})
    BY <1>0, <2>1, <2>2, WithinClash
  <2>4. n \in {"o", "slots"}
    BY <2>3 DEF Meet, Activations, PoolTensor, PreactTensor
  <2> QED BY <1>0, <1>5, <2>4 DEF ForwardHandOffs
<1>6. CASE a.name = "combine" /\ b.name = "compress"
  <2>1. Within(a, l, {"o", "pre", "post", "slots"}, {"out"})
    BY <1>6, Zenon DEF ForwardTensors
  <2>2. Within(b, l, {"pool", "slots"}, {"x_recv"})
    BY <1>6, Zenon DEF ForwardTensors
  <2>3. Meet(n, {"o", "pre", "post", "slots"}, {"out"}, {"pool", "slots"}, {"x_recv"})
    BY <1>0, <2>1, <2>2, WithinClash
  <2>4. n \in {}
    BY <2>3 DEF Meet, Activations, PoolTensor, PreactTensor
  <2> QED BY <1>0, <1>6, <2>4 DEF ForwardHandOffs
<1> QED BY <1>0, <1>1, <1>2, <1>3, <1>4, <1>5, <1>6 DEF ForwardUnfenced

(* Unfenced kernels of a backward pass share what they hand over, nothing else. *)
LEMMA BackwardShared ==
  ASSUME NEW l, NEW lv \in Levels, NEW a, NEW b, BackwardTensors(a, l, lv), BackwardTensors(b, l, lv),
         <<a.name, b.name>> \in BackwardUnfenced,
         NEW u, u \in Touched(a), u \in Touched(b), u \in a.writes \/ u \in b.writes
  PROVE  <<a.name, b.name, u[1]>> \in BackwardHandOffs
<1>0. PICK n : n = u[1]
  OBVIOUS
<1>1. CASE a.name = "zero_sums" /\ b.name = "zero_arrival"
  <2>1. Within(a, l, {}, {"sums"})
    BY <1>1, Zenon DEF BackwardTensors
  <2>2. Within(b, l, {}, {"arrival"})
    BY <1>1, Zenon DEF BackwardTensors
  <2>3. Meet(n, {}, {"sums"}, {}, {"arrival"})
    BY <1>0, <2>1, <2>2, WithinClash
  <2>4. n \in {}
    BY <2>3 DEF Meet, Activations, PoolTensor, PreactTensor
  <2> QED BY <1>0, <1>1, <2>4 DEF BackwardHandOffs
<1>2. CASE a.name = "zero_sums" /\ b.name = "dispatch_grads"
  <2>1. Within(a, l, {}, {"sums"})
    BY <1>2, Zenon DEF BackwardTensors
  <2>2. Within(b, l, {"dL_dy", "pre", "post", "slots"}, {"dL_do_pool", "arrival"})
    BY <1>2, Zenon DEF BackwardTensors
  <2>3. Meet(n, {}, {"sums"}, {"dL_dy", "pre", "post", "slots"}, {"dL_do_pool", "arrival"})
    BY <1>0, <2>1, <2>2, WithinClash
  <2>4. n \in {}
    BY <2>3 DEF Meet, Activations, PoolTensor, PreactTensor
  <2> QED BY <1>0, <1>2, <2>4 DEF BackwardHandOffs
<1>3. CASE a.name = "zero_sums" /\ b.name = "combine_grads"
  <2>1. Within(a, l, {}, {"sums"})
    BY <1>3, Zenon DEF BackwardTensors
  <2>2. Within(b, l, {"sums", "pre", "post", "slots"}, {"dL_dx"})
    BY <1>3, Zenon DEF BackwardTensors
  <2>3. Meet(n, {}, {"sums"}, {"sums", "pre", "post", "slots"}, {"dL_dx"})
    BY <1>0, <2>1, <2>2, WithinClash
  <2>4. n \in {"sums"}
    BY <2>3 DEF Meet, Activations, PoolTensor, PreactTensor
  <2> QED BY <1>0, <1>3, <2>4 DEF BackwardHandOffs
<1>4. CASE a.name = "index" /\ b.name = "zero_arrival"
  <2>1. Within(a, l, {"pre", "slots"}, {"sums", "cu_seqlens"})
    BY <1>4, Zenon DEF BackwardTensors
  <2>2. Within(b, l, {}, {"arrival"})
    BY <1>4, Zenon DEF BackwardTensors
  <2>3. Meet(n, {"pre", "slots"}, {"sums", "cu_seqlens"}, {}, {"arrival"})
    BY <1>0, <2>1, <2>2, WithinClash
  <2>4. n \in {}
    BY <2>3 DEF Meet, Activations, PoolTensor, PreactTensor
  <2> QED BY <1>0, <1>4, <2>4 DEF BackwardHandOffs
<1>5. CASE a.name = "index" /\ b.name = "dispatch_grads"
  <2>1. Within(a, l, {"pre", "slots"}, {"sums", "cu_seqlens"})
    BY <1>5, Zenon DEF BackwardTensors
  <2>2. Within(b, l, {"dL_dy", "pre", "post", "slots"}, {"dL_do_pool", "arrival"})
    BY <1>5, Zenon DEF BackwardTensors
  <2>3. Meet(n, {"pre", "slots"}, {"sums", "cu_seqlens"}, {"dL_dy", "pre", "post", "slots"},
             {"dL_do_pool", "arrival"})
    BY <1>0, <2>1, <2>2, WithinClash
  <2>4. n \in {}
    BY <2>3 DEF Meet, Activations, PoolTensor, PreactTensor
  <2> QED BY <1>0, <1>5, <2>4 DEF BackwardHandOffs
<1>6. CASE a.name = "index" /\ b.name = "combine_grads"
  <2>1. Within(a, l, {"pre", "slots"}, {"sums", "cu_seqlens"})
    BY <1>6, Zenon DEF BackwardTensors
  <2>2. Within(b, l, {"sums", "pre", "post", "slots"}, {"dL_dx"})
    BY <1>6, Zenon DEF BackwardTensors
  <2>3. Meet(n, {"pre", "slots"}, {"sums", "cu_seqlens"}, {"sums", "pre", "post", "slots"},
             {"dL_dx"})
    BY <1>0, <2>1, <2>2, WithinClash
  <2>4. n \in {"sums"}
    BY <2>3 DEF Meet, Activations, PoolTensor, PreactTensor
  <2> QED BY <1>0, <1>6, <2>4 DEF BackwardHandOffs
<1>7. CASE a.name = "reexpand" /\ b.name = "combine_grads"
  <2>1. Within(a, l, {"x_recv", "slots"}, {"pool2"})
    BY <1>7, Zenon DEF BackwardTensors
  <2>2. Within(b, l, {"sums", "pre", "post", "slots"}, {"dL_dx"})
    BY <1>7, Zenon DEF BackwardTensors
  <2>3. Meet(n, {"x_recv", "slots"}, {"pool2"}, {"sums", "pre", "post", "slots"}, {"dL_dx"})
    BY <1>0, <2>1, <2>2, WithinClash
  <2>4. n \in {}
    BY <2>3 DEF Meet, Activations, PoolTensor, PreactTensor
  <2> QED BY <1>0, <1>7, <2>4 DEF BackwardHandOffs
<1>8. CASE a.name = "recompute" /\ b.name = "combine_grads"
  <2>1. Within(a, l, {PoolTensor(lv), "cu_seqlens"}, {"preact2"})
    BY <1>8, Zenon DEF BackwardTensors
  <2>2. Within(b, l, {"sums", "pre", "post", "slots"}, {"dL_dx"})
    BY <1>8, Zenon DEF BackwardTensors
  <2>3. Meet(n, {PoolTensor(lv), "cu_seqlens"}, {"preact2"}, {"sums", "pre", "post", "slots"},
             {"dL_dx"})
    BY <1>0, <2>1, <2>2, WithinClash
  <2>4. n \in {}
    BY <2>3 DEF Meet, Activations, PoolTensor, PreactTensor
  <2> QED BY <1>0, <1>8, <2>4 DEF BackwardHandOffs
<1>9. CASE a.name = "kernel_y_bwd" /\ b.name = "combine_grads"
  <2>1. Within(a, l, {"dL_do_pool", "arrival", "pre", "slots", PreactTensor(lv)}, {"scratch", "sums"})
    BY <1>9, Zenon DEF BackwardTensors
  <2>2. Within(b, l, {"sums", "pre", "post", "slots"}, {"dL_dx"})
    BY <1>9, Zenon DEF BackwardTensors
  <2>3. Meet(n, {"dL_do_pool", "arrival", "pre", "slots", PreactTensor(lv)},
             {"scratch", "sums"}, {"sums", "pre", "post", "slots"}, {"dL_dx"})
    BY <1>0, <2>1, <2>2, WithinClash
  <2>4. n \in {"sums"}
    BY <2>3 DEF Meet, Activations, PoolTensor, PreactTensor
  <2> QED BY <1>0, <1>9, <2>4 DEF BackwardHandOffs
<1>10. CASE a.name = "kernel_a_bwd" /\ b.name = "combine_grads"
  <2>1. Within(a, l, {"scratch", "arrival", "pre", "slots"}, {"sums"})
    BY <1>10, Zenon DEF BackwardTensors
  <2>2. Within(b, l, {"sums", "pre", "post", "slots"}, {"dL_dx"})
    BY <1>10, Zenon DEF BackwardTensors
  <2>3. Meet(n, {"scratch", "arrival", "pre", "slots"}, {"sums"},
             {"sums", "pre", "post", "slots"}, {"dL_dx"})
    BY <1>0, <2>1, <2>2, WithinClash
  <2>4. n \in {"sums"}
    BY <2>3 DEF Meet, Activations, PoolTensor, PreactTensor
  <2> QED BY <1>0, <1>10, <2>4 DEF BackwardHandOffs
<1>11. CASE a.name = "dispatch_grads" /\ b.name = "reexpand"
  <2>1. Within(a, l, {"dL_dy", "pre", "post", "slots"}, {"dL_do_pool", "arrival"})
    BY <1>11, Zenon DEF BackwardTensors
  <2>2. Within(b, l, {"x_recv", "slots"}, {"pool2"})
    BY <1>11, Zenon DEF BackwardTensors
  <2>3. Meet(n, {"dL_dy", "pre", "post", "slots"}, {"dL_do_pool", "arrival"},
             {"x_recv", "slots"}, {"pool2"})
    BY <1>0, <2>1, <2>2, WithinClash
  <2>4. n \in {}
    BY <2>3 DEF Meet, Activations, PoolTensor, PreactTensor
  <2> QED BY <1>0, <1>11, <2>4 DEF BackwardHandOffs
<1>12. CASE a.name = "dispatch_grads" /\ b.name = "recompute"
  <2>1. Within(a, l, {"dL_dy", "pre", "post", "slots"}, {"dL_do_pool", "arrival"})
    BY <1>12, Zenon DEF BackwardTensors
  <2>2. Within(b, l, {PoolTensor(lv), "cu_seqlens"}, {"preact2"})
    BY <1>12, Zenon DEF BackwardTensors
  <2>3. Meet(n, {"dL_dy", "pre", "post", "slots"}, {"dL_do_pool", "arrival"},
             {PoolTensor(lv), "cu_seqlens"}, {"preact2"})
    BY <1>0, <2>1, <2>2, WithinClash
  <2>4. n \in {}
    BY <2>3 DEF Meet, Activations, PoolTensor, PreactTensor
  <2> QED BY <1>0, <1>12, <2>4 DEF BackwardHandOffs
<1>13. CASE a.name = "dispatch_grads" /\ b.name = "kernel_y_bwd"
  <2>1. Within(a, l, {"dL_dy", "pre", "post", "slots"}, {"dL_do_pool", "arrival"})
    BY <1>13, Zenon DEF BackwardTensors
  <2>2. Within(b, l, {"dL_do_pool", "arrival", "pre", "slots", PreactTensor(lv)}, {"scratch", "sums"})
    BY <1>13, Zenon DEF BackwardTensors
  <2>3. Meet(n, {"dL_dy", "pre", "post", "slots"}, {"dL_do_pool", "arrival"},
             {"dL_do_pool", "arrival", "pre", "slots", PreactTensor(lv)}, {"scratch", "sums"})
    BY <1>0, <2>1, <2>2, WithinClash
  <2>4. n \in {"arrival", "dL_do_pool"}
    BY <2>3 DEF Meet, Activations, PoolTensor, PreactTensor
  <2> QED BY <1>0, <1>13, <2>4 DEF BackwardHandOffs
<1>14. CASE a.name = "dispatch_grads" /\ b.name = "kernel_a_bwd"
  <2>1. Within(a, l, {"dL_dy", "pre", "post", "slots"}, {"dL_do_pool", "arrival"})
    BY <1>14, Zenon DEF BackwardTensors
  <2>2. Within(b, l, {"scratch", "arrival", "pre", "slots"}, {"sums"})
    BY <1>14, Zenon DEF BackwardTensors
  <2>3. Meet(n, {"dL_dy", "pre", "post", "slots"}, {"dL_do_pool", "arrival"},
             {"scratch", "arrival", "pre", "slots"}, {"sums"})
    BY <1>0, <2>1, <2>2, WithinClash
  <2>4. n \in {"arrival"}
    BY <2>3 DEF Meet, Activations, PoolTensor, PreactTensor
  <2> QED BY <1>0, <1>14, <2>4 DEF BackwardHandOffs
<1>15. CASE a.name = "dispatch_grads" /\ b.name = "dW2"
  <2>1. Within(a, l, {"dL_dy", "pre", "post", "slots"}, {"dL_do_pool", "arrival"})
    BY <1>15, Zenon DEF BackwardTensors
  <2>2. Within(b, l, {"dL_do_pool", "scratch", "cu_seqlens"}, {"dW"})
    BY <1>15, Zenon DEF BackwardTensors
  <2>3. Meet(n, {"dL_dy", "pre", "post", "slots"}, {"dL_do_pool", "arrival"},
             {"dL_do_pool", "scratch", "cu_seqlens"}, {"dW"})
    BY <1>0, <2>1, <2>2, WithinClash
  <2>4. n \in {"dL_do_pool"}
    BY <2>3 DEF Meet, Activations, PoolTensor, PreactTensor
  <2> QED BY <1>0, <1>15, <2>4 DEF BackwardHandOffs
<1>16. CASE a.name = "dispatch_grads" /\ b.name = "dW1"
  <2>1. Within(a, l, {"dL_dy", "pre", "post", "slots"}, {"dL_do_pool", "arrival"})
    BY <1>16, Zenon DEF BackwardTensors
  <2>2. Within(b, l, {"scratch", PoolTensor(lv), "cu_seqlens"}, {"dW"})
    BY <1>16, Zenon DEF BackwardTensors
  <2>3. Meet(n, {"dL_dy", "pre", "post", "slots"}, {"dL_do_pool", "arrival"},
             {"scratch", PoolTensor(lv), "cu_seqlens"}, {"dW"})
    BY <1>0, <2>1, <2>2, WithinClash
  <2>4. n \in {}
    BY <2>3 DEF Meet, Activations, PoolTensor, PreactTensor
  <2> QED BY <1>0, <1>16, <2>4 DEF BackwardHandOffs
<1>17. CASE a.name = "dispatch_grads" /\ b.name = "zero_dW"
  <2>1. Within(a, l, {"dL_dy", "pre", "post", "slots"}, {"dL_do_pool", "arrival"})
    BY <1>17, Zenon DEF BackwardTensors
  <2>2. Within(b, l, {}, {"dW"})
    BY <1>17, Zenon DEF BackwardTensors
  <2>3. Meet(n, {"dL_dy", "pre", "post", "slots"}, {"dL_do_pool", "arrival"}, {}, {"dW"})
    BY <1>0, <2>1, <2>2, WithinClash
  <2>4. n \in {}
    BY <2>3 DEF Meet, Activations, PoolTensor, PreactTensor
  <2> QED BY <1>0, <1>17, <2>4 DEF BackwardHandOffs
<1>18. CASE a.name = "combine_grads" /\ b.name = "dW2"
  <2>1. Within(a, l, {"sums", "pre", "post", "slots"}, {"dL_dx"})
    BY <1>18, Zenon DEF BackwardTensors
  <2>2. Within(b, l, {"dL_do_pool", "scratch", "cu_seqlens"}, {"dW"})
    BY <1>18, Zenon DEF BackwardTensors
  <2>3. Meet(n, {"sums", "pre", "post", "slots"}, {"dL_dx"},
             {"dL_do_pool", "scratch", "cu_seqlens"}, {"dW"})
    BY <1>0, <2>1, <2>2, WithinClash
  <2>4. n \in {}
    BY <2>3 DEF Meet, Activations, PoolTensor, PreactTensor
  <2> QED BY <1>0, <1>18, <2>4 DEF BackwardHandOffs
<1>19. CASE a.name = "combine_grads" /\ b.name = "dW1"
  <2>1. Within(a, l, {"sums", "pre", "post", "slots"}, {"dL_dx"})
    BY <1>19, Zenon DEF BackwardTensors
  <2>2. Within(b, l, {"scratch", PoolTensor(lv), "cu_seqlens"}, {"dW"})
    BY <1>19, Zenon DEF BackwardTensors
  <2>3. Meet(n, {"sums", "pre", "post", "slots"}, {"dL_dx"},
             {"scratch", PoolTensor(lv), "cu_seqlens"}, {"dW"})
    BY <1>0, <2>1, <2>2, WithinClash
  <2>4. n \in {}
    BY <2>3 DEF Meet, Activations, PoolTensor, PreactTensor
  <2> QED BY <1>0, <1>19, <2>4 DEF BackwardHandOffs
<1>20. CASE a.name = "combine_grads" /\ b.name = "zero_dW"
  <2>1. Within(a, l, {"sums", "pre", "post", "slots"}, {"dL_dx"})
    BY <1>20, Zenon DEF BackwardTensors
  <2>2. Within(b, l, {}, {"dW"})
    BY <1>20, Zenon DEF BackwardTensors
  <2>3. Meet(n, {"sums", "pre", "post", "slots"}, {"dL_dx"}, {}, {"dW"})
    BY <1>0, <2>1, <2>2, WithinClash
  <2>4. n \in {}
    BY <2>3 DEF Meet, Activations, PoolTensor, PreactTensor
  <2> QED BY <1>0, <1>20, <2>4 DEF BackwardHandOffs
<1> QED BY <1>0, <1>1, <1>2, <1>3, <1>4, <1>5, <1>6, <1>7, <1>8, <1>9, <1>10, <1>11, <1>12,
           <1>13, <1>14, <1>15, <1>16, <1>17, <1>18, <1>19, <1>20 DEF BackwardUnfenced

------------------------------------------------------------------------------
------------------------------------------------------------------------------
(* What may lie in the same memory. *)

(* A shared block is freed before it is allocated again. *)
LEMMA MayShareIs ==
  ASSUME NEW lv \in Levels, NEW u, NEW t, <<u, t>> \in MayShare[lv + 1]
  PROVE  \E f, a \in DOMAIN Program(lv) :
           /\ Program(lv)[f].kind = "free" /\ u \in Program(lv)[f].writes
           /\ Program(lv)[a].kind = "alloc" /\ t \in Program(lv)[a].writes
           /\ f < a
<1>1. \E f \in At(lv, "free", u), a \in At(lv, "alloc", t) : f < a
  <2>1. CASE lv = 0
    BY <2>1 DEF MayShare, PerLevel
  <2>2. CASE lv = 1
    BY <2>2 DEF MayShare, PerLevel
  <2>3. CASE lv = 2
    BY <2>3 DEF MayShare, PerLevel
  <2> QED BY <2>1, <2>2, <2>3 DEF Levels
<1> QED BY <1>1 DEF At

(* Every allocation of the program is at its place in some pass. *)
LEMMA MemoryPlaced ==
  ASSUME NEW lv \in Levels, NEW base, Laid(lv, base), NEW i \in DOMAIN Program(lv)
  PROVE  \E k \in DOMAIN Schedule, m \in Nat \ {0} :
           /\ m <= Len(Pass(k, lv)) /\ i = base[k - 1] + m
           /\ Schedule[k].dir = "forward" => ForwardMemory(Program(lv)[i], m, Schedule[k].layer, lv)
           /\ Schedule[k].dir # "forward" => BackwardMemory(Program(lv)[i], m, Schedule[k].layer)
<1>1. PICK k \in DOMAIN Schedule, m \in Nat \ {0} :
         /\ m <= Len(Pass(k, lv)) /\ i = base[k - 1] + m
         /\ Program(lv)[i] = Pass(k, lv)[m]
  BY Located
<1>2. PICK F, l : F = Pass(k, lv) /\ l = Schedule[k].layer
  OBVIOUS
<1>3. ASSUME Schedule[k].dir = "forward" PROVE ForwardMemory(F[m], m, l, lv)
  <2>1. PICK c : c = ForwardExtra(lv)
    OBVIOUS
  <2>2. Len(F) = 31 + c /\ ForwardTable(F, l, lv, c) /\ (c = IF lv = 2 THEN 4 ELSE 0)
    BY <1>2, <1>3, <2>1, PassShape DEF ForwardExtra
  <2>3. m \in 1 .. 31 + c
    BY <1>1, <1>2, <2>2
  <2> QED BY <2>2, <2>3, ForwardAllocations
<1>4. ASSUME Schedule[k].dir # "forward" PROVE BackwardMemory(F[m], m, l)
  <2>1. PICK c : c = BackwardExtra(lv)
    OBVIOUS
  <2>2. Len(F) = 31 + c /\ BackwardTable(F, l, lv, c) /\ (c = IF lv = 0 THEN 0 ELSE IF lv = 1 THEN 2 ELSE 4)
    BY <1>2, <1>4, <2>1, PassShape DEF BackwardExtra
  <2>3. m \in 1 .. 31 + c
    BY <1>1, <1>2, <2>2
  <2> QED BY <2>2, <2>3, BackwardAllocations
<1> QED BY <1>1, <1>2, <1>3, <1>4

(* A block is recycled within a layer only from the model's temporaries, or
   from what the forward pass has left to what the backward pass makes. *)
LEMMA Recycled ==
  ASSUME NEW lv \in Levels, NEW base, Laid(lv, base), NEW l, NEW u, NEW t,
         <<u, t>> \in MayShare[lv + 1], u = <<u[1], l>>, t = <<t[1], l>>
  PROVE  \/ u[1] \in {"tmp", "tmp2"}
         \/ u[1] \in FreedByForward(lv) /\ t[1] \in MadeByBackward
<1>1. PICK P : P = Program(lv)
  OBVIOUS
<1>2. PICK f, a \in DOMAIN P : /\ P[f].kind = "free" /\ u \in P[f].writes
                               /\ P[a].kind = "alloc" /\ t \in P[a].writes
                               /\ f < a
  BY <1>1, MayShareIs
<1>3. PICK k \in DOMAIN Schedule, m \in Nat \ {0} :
         /\ m <= Len(Pass(k, lv)) /\ f = base[k - 1] + m
         /\ Schedule[k].dir = "forward" => ForwardMemory(P[f], m, Schedule[k].layer, lv)
         /\ Schedule[k].dir # "forward" => BackwardMemory(P[f], m, Schedule[k].layer)
  BY <1>1, <1>2, MemoryPlaced
<1>4. PICK h \in DOMAIN Schedule, z \in Nat \ {0} :
         /\ z <= Len(Pass(h, lv)) /\ a = base[h - 1] + z
         /\ Schedule[h].dir = "forward" => ForwardMemory(P[a], z, Schedule[h].layer, lv)
         /\ Schedule[h].dir # "forward" => BackwardMemory(P[a], z, Schedule[h].layer)
  BY <1>1, <1>2, MemoryPlaced
<1>5. ASSUME NEW w, NEW y, w = <<w[1], l>>, w = <<w[1], y>> PROVE y = l
  BY <1>5
<1>6. \/ /\ Schedule[k].dir = "forward" /\ Schedule[k].layer = l
         /\ \/ m = 3 /\ u[1] = "tmp"
            \/ 27 <= m /\ u[1] \in FreedByForward(lv)
      \/ /\ Schedule[k].dir # "forward" /\ Schedule[k].layer = l
         /\ \/ m = 3 /\ u[1] = "tmp2"
            \/ 28 <= m
  <2>1. CASE Schedule[k].dir = "forward"
    <3>1. ForwardMemory(P[f], m, Schedule[k].layer, lv)
      BY <1>3, <2>1
    <3>2. \/ m = 3 /\ u = <<u[1], Schedule[k].layer>> /\ u[1] = "tmp"
          \/ 27 <= m /\ u = <<u[1], Schedule[k].layer>> /\ u[1] \in FreedByForward(lv)
      BY <1>2, <3>1 DEF ForwardMemory, TensorsIn
    <3>3. Schedule[k].layer = l
      BY <1>5, <3>2
    <3> QED BY <2>1, <3>2, <3>3
  <2>2. CASE Schedule[k].dir # "forward"
    <3>1. BackwardMemory(P[f], m, Schedule[k].layer)
      BY <1>3, <2>2
    <3>2. \/ m = 3 /\ u = <<u[1], Schedule[k].layer>> /\ u[1] = "tmp2"
          \/ 28 <= m /\ u = <<u[1], Schedule[k].layer>>
      BY <1>2, <3>1 DEF BackwardMemory, TensorsIn, Own
    <3>3. Schedule[k].layer = l
      BY <1>5, <3>2
    <3> QED BY <2>2, <3>2, <3>3
  <2> QED BY <2>1, <2>2
<1>7. \/ Schedule[h].dir = "forward" /\ Schedule[h].layer = l /\ z < 27
      \/ Schedule[h].dir # "forward" /\ Schedule[h].layer = l /\ z < 28 /\ t[1] \in MadeByBackward
  <2>1. CASE Schedule[h].dir = "forward"
    <3>1. ForwardMemory(P[a], z, Schedule[h].layer, lv)
      BY <1>4, <2>1
    <3>2. z < 27 /\ t = <<t[1], Schedule[h].layer>>
      BY <1>2, <3>1 DEF ForwardMemory, Own
    <3>3. Schedule[h].layer = l
      BY <1>5, <3>2
    <3> QED BY <2>1, <3>2, <3>3
  <2>2. CASE Schedule[h].dir # "forward"
    <3>1. BackwardMemory(P[a], z, Schedule[h].layer)
      BY <1>4, <2>2
    <3>2. z < 28 /\ t = <<t[1], Schedule[h].layer>> /\ t[1] \in MadeByBackward
      BY <1>2, <3>1 DEF BackwardMemory, TensorsIn
    <3>3. Schedule[h].layer = l
      BY <1>5, <3>2
    <3> QED BY <2>2, <3>2, <3>3
  <2> QED BY <2>1, <2>2
<1>8. ASSUME Schedule[k].dir = "forward" <=> Schedule[h].dir = "forward" PROVE m < z
  <2>1. h = k
    BY <1>6, <1>7, <1>8, SameDirection
  <2>2. PICK p \in Nat : p = base[k - 1]
    BY <1>3, PlaceInProgram
  <2> QED BY <1>2, <1>3, <1>4, <2>1, <2>2
<1>9. CASE Schedule[k].dir = "forward" /\ Schedule[h].dir = "forward"
  BY <1>6, <1>7, <1>8, <1>9
<1>10. CASE Schedule[k].dir # "forward" /\ Schedule[h].dir # "forward"
  BY <1>6, <1>7, <1>8, <1>10
<1>11. CASE Schedule[k].dir = "forward" /\ Schedule[h].dir # "forward"
  BY <1>6, <1>7, <1>11
<1>12. CASE Schedule[k].dir # "forward" /\ Schedule[h].dir = "forward"
  <2>1. h < k
    BY <1>6, <1>7, <1>12, PassOrder
  <2>2. a < f
    BY <1>3, <1>4, <2>1, PassBefore
  <2>3. a \in Nat /\ f \in Nat
    <3>1. base[k - 1] \in Nat /\ base[h - 1] \in Nat
      BY <1>3, <1>4, PlaceInProgram
    <3> QED BY <1>3, <1>4, <3>1
  <2> QED BY <1>2, <2>2, <2>3
<1> QED BY <1>9, <1>10, <1>11, <1>12

------------------------------------------------------------------------------
HandOffs == ForwardHandOffs \cup BackwardHandOffs
Clash(lv, a, b, u, t) ==
  /\ u \in Touched(a) /\ t \in Touched(b)
  /\ \/ u = t /\ (u \in a.writes \/ t \in b.writes)
     \/ <<u, t>> \in MayShare[lv + 1]

(* Kernels a and b of layer l, behind no common wait, share one tensor only. *)
Hands(a, b, l, u, t, pairs) == u = t /\ u = <<u[1], l>> /\ <<a.name, b.name, u[1]>> \in pairs

(* Two clashing kernels of a forward pass are fenced or hand over: no block is
   freed by a tensor of the one and allocated for a tensor of the other between
   them, except in the model before the layer, which is fenced. *)
LEMMA ForwardClash ==
  ASSUME NEW lv \in Levels, NEW base, Laid(lv, base), NEW k \in DOMAIN Schedule, NEW F,
         F = Pass(k, lv),
         NEW l, l = Schedule[k].layer, Schedule[k].dir = "forward",
         NEW x \in Nat \ {0}, x <= Len(F), NEW y \in Nat \ {0}, y <= Len(F), x < y,
         F[x].kind = "kernel", F[y].kind = "kernel", F[x].stream # F[y].stream,
         NEW u, NEW t, Clash(lv, F[x], F[y], u, t)
  PROVE  Fenced(F, x, y) \/ Hands(F[x], F[y], l, u, t, ForwardHandOffs)
<1>1. PICK c : c = ForwardExtra(lv)
  OBVIOUS
<1>2. /\ DOMAIN F = 1 .. 31 + c /\ ForwardTable(F, l, lv, c)
      /\ c = IF lv = 2 THEN 4 ELSE 0
  <2>1. Len(F) = 31 + c /\ ForwardTable(F, l, lv, c)
    BY <1>1, PassShape
  <2>2. DOMAIN F = 1 .. Len(F)
    BY PassShape DEF Listed
  <2> QED BY <1>1, <2>1, <2>2 DEF ForwardExtra
<1>3. ForwardKernel(F[x], x, lv, c) /\ ForwardKernel(F[y], y, lv, c)
  BY <1>1, PassStatement
<1>4. ForwardAt(F[x], x, lv, c) /\ ForwardAt(F[y], y, lv, c)
  <2>1. ForwardAt(F[x], x, lv, c)
    BY <1>3, ForwardPlaces
  <2>2. ForwardAt(F[y], y, lv, c)
    BY <1>3, ForwardPlaces
  <2> QED BY <2>1, <2>2
<1>5. ForwardTensors(F[x], l, lv) /\ ForwardTensors(F[y], l, lv)
  <2>1. ForwardTensors(F[x], l, lv)
    BY <1>2, <1>4, ForwardWithin
  <2>2. ForwardTensors(F[y], l, lv)
    BY <1>2, <1>4, ForwardWithin
  <2> QED BY <2>1, <2>2
<1>6. Fenced(F, x, y) \/ <<F[x].name, F[y].name>> \in ForwardUnfenced
  BY <1>2, <1>4, ForwardFences
<1>7. ASSUME <<F[x].name, F[y].name>> \in ForwardUnfenced
      PROVE  u = t /\ u = <<u[1], l>> /\ <<F[x].name, F[y].name, u[1]>> \in ForwardHandOffs
  <2>1. F[x].name # "model" /\ F[y].name # "model"
    BY <1>7 DEF ForwardUnfenced
  <2>2. TensorsIn(Touched(F[x]), l, ForwardNames)
    BY <1>4, <1>5, <2>1, ForwardTouches
  <2>3. TensorsIn(Touched(F[y]), l, ForwardNames)
    BY <1>4, <1>5, <2>1, ForwardTouches
  <2>4. /\ u = <<u[1], l>> /\ u[1] \in ForwardNames
        /\ t = <<t[1], l>> /\ t[1] \in ForwardNames
    BY <2>2, <2>3 DEF Clash, TensorsIn
  <2>5. CASE u = t /\ (u \in F[x].writes \/ t \in F[y].writes)
    <3>1. u \in Touched(F[x]) /\ u \in Touched(F[y]) /\ (u \in F[x].writes \/ u \in F[y].writes)
      BY <2>5 DEF Clash
    <3> QED BY <1>5, <1>7, <2>4, <2>5, <3>1, ForwardShared
  <2>6. CASE <<u, t>> \in MayShare[lv + 1]
    <3>1. \/ u[1] \in {"tmp", "tmp2"}
          \/ u[1] \in FreedByForward(lv) /\ t[1] \in MadeByBackward
      BY <2>4, <2>6, Recycled
    <3>2. u[1] # "tmp" /\ t[1] \notin MadeByBackward
      BY <2>4, NamesDisjoint
    <3>3. u[1] # "tmp2"
      BY <2>4 DEF ForwardNames
    <3> QED BY <3>1, <3>2, <3>3
  <2> QED BY <2>5, <2>6 DEF Clash
<1> QED BY <1>6, <1>7 DEF Hands

(* The same of a backward pass. *)
LEMMA BackwardClash ==
  ASSUME NEW lv \in Levels, NEW base, Laid(lv, base), NEW k \in DOMAIN Schedule, NEW F,
         F = Pass(k, lv),
         NEW l, l = Schedule[k].layer, Schedule[k].dir # "forward",
         NEW x \in Nat \ {0}, x <= Len(F), NEW y \in Nat \ {0}, y <= Len(F), x < y,
         F[x].kind = "kernel", F[y].kind = "kernel", F[x].stream # F[y].stream,
         NEW u, NEW t, Clash(lv, F[x], F[y], u, t)
  PROVE  Fenced(F, x, y) \/ Hands(F[x], F[y], l, u, t, BackwardHandOffs)
<1>1. PICK c : c = BackwardExtra(lv)
  OBVIOUS
<1>2. /\ DOMAIN F = 1 .. 31 + c /\ BackwardTable(F, l, lv, c)
      /\ c = IF lv = 0 THEN 0 ELSE IF lv = 1 THEN 2 ELSE 4
  <2>1. Len(F) = 31 + c /\ BackwardTable(F, l, lv, c)
    BY <1>1, PassShape
  <2>2. DOMAIN F = 1 .. Len(F)
    BY PassShape DEF Listed
  <2> QED BY <1>1, <2>1, <2>2 DEF BackwardExtra
<1>3. BackwardKernel(F[x], x, lv, c) /\ BackwardKernel(F[y], y, lv, c)
  BY <1>1, PassStatement
<1>4. BackwardAt(F[x], x, lv, c) /\ BackwardAt(F[y], y, lv, c)
  <2>1. BackwardAt(F[x], x, lv, c)
    BY <1>3, BackwardPlaces
  <2>2. BackwardAt(F[y], y, lv, c)
    BY <1>3, BackwardPlaces
  <2> QED BY <2>1, <2>2
<1>5. BackwardTensors(F[x], l, lv) /\ BackwardTensors(F[y], l, lv)
  <2>1. BackwardTensors(F[x], l, lv)
    BY <1>2, <1>4, BackwardWithin
  <2>2. BackwardTensors(F[y], l, lv)
    BY <1>2, <1>4, BackwardWithin
  <2> QED BY <2>1, <2>2
<1>6. Fenced(F, x, y) \/ <<F[x].name, F[y].name>> \in BackwardUnfenced
  BY <1>2, <1>4, BackwardFences
<1>7. ASSUME <<F[x].name, F[y].name>> \in BackwardUnfenced
      PROVE  u = t /\ u = <<u[1], l>> /\ <<F[x].name, F[y].name, u[1]>> \in BackwardHandOffs
  <2>1. F[x].name # "model_bwd" /\ F[y].name # "model_bwd"
    BY <1>7 DEF BackwardUnfenced
  <2>0. PICK names : names = BackwardNames(lv)
    OBVIOUS
  <2>2. TensorsIn(Touched(F[x]), l, names)
    BY <1>4, <1>5, <2>0, <2>1, BackwardTouches
  <2>3. TensorsIn(Touched(F[y]), l, names)
    BY <1>4, <1>5, <2>0, <2>1, BackwardTouches
  <2>4. /\ u = <<u[1], l>> /\ u[1] \in names
        /\ t = <<t[1], l>> /\ t[1] \in names
    BY <2>2, <2>3 DEF Clash, TensorsIn
  <2>5. CASE u = t /\ (u \in F[x].writes \/ t \in F[y].writes)
    <3>1. u \in Touched(F[x]) /\ u \in Touched(F[y]) /\ (u \in F[x].writes \/ u \in F[y].writes)
      BY <2>5 DEF Clash
    <3> QED BY <1>5, <1>7, <2>4, <2>5, <3>1, BackwardShared
  <2>6. CASE <<u, t>> \in MayShare[lv + 1]
    <3>1. \/ u[1] \in {"tmp", "tmp2"}
          \/ u[1] \in FreedByForward(lv) /\ t[1] \in MadeByBackward
      BY <2>4, <2>6, Recycled
    <3>2. u[1] # "tmp2" /\ u[1] \notin FreedByForward(lv)
      BY <2>0, <2>4, NamesDisjoint
    <3>3. u[1] # "tmp"
      BY <2>0, <2>4 DEF BackwardNames
    <3> QED BY <3>1, <3>2, <3>3
  <2> QED BY <2>5, <2>6 DEF Clash
<1> QED BY <1>6, <1>7 DEF Hands

(* The same of two kernels of the program in one pass. *)
LEMMA PassClash ==
  ASSUME NEW lv \in Levels, NEW P, P = Program(lv), NEW i \in DOMAIN P, NEW j \in DOMAIN P,
         i < j,
         P[i].kind = "kernel", P[j].kind = "kernel", P[i].stream # P[j].stream,
         PassOf(lv, i) = PassOf(lv, j), NEW u, NEW t, Clash(lv, P[i], P[j], u, t)
  PROVE  \/ Fenced(P, i, j)
         \/ /\ u = t /\ u = <<u[1], P[i].layer>> /\ P[i].layer = P[j].layer
            /\ <<P[i].name, P[j].name, u[1]>> \in HandOffs
<1>1. PICK base : Laid(lv, base)
  BY ProgramLaid
<1>2. PICK k \in DOMAIN Schedule, x \in Nat \ {0} :
         /\ x <= Len(Pass(k, lv)) /\ i = base[k - 1] + x
         /\ P[i] = Pass(k, lv)[x] /\ PassOf(lv, i) = k
  BY <1>1, Located
<1>3. PICK h \in DOMAIN Schedule, y \in Nat \ {0} :
         /\ y <= Len(Pass(h, lv)) /\ j = base[h - 1] + y
         /\ P[j] = Pass(h, lv)[y] /\ PassOf(lv, j) = h
  BY <1>1, Located
<1>4. PICK F, l : F = Pass(k, lv) /\ l = Schedule[k].layer
  OBVIOUS
<1>5. h = k /\ P[i] = F[x] /\ P[j] = F[y] /\ x <= Len(F) /\ y <= Len(F)
  BY <1>2, <1>3, <1>4
<1>6. x < y
  <2>1. PICK p \in Nat : p = base[k - 1]
    BY <1>1, <1>2, PlaceInProgram
  <2> QED BY <1>2, <1>3, <1>5, <2>1
<1>7. P[i].layer = l /\ P[j].layer = l
  BY <1>2, <1>3, <1>4, <1>5, KernelNamed
<1>8. \/ Fenced(F, x, y)
      \/ u = t /\ u = <<u[1], l>> /\ <<F[x].name, F[y].name, u[1]>> \in HandOffs
  <2>1. Clash(lv, F[x], F[y], u, t) /\ F[x].kind = "kernel" /\ F[y].kind = "kernel" /\ F[x].stream # F[y].stream
    BY <1>5
  <2>2. CASE Schedule[k].dir = "forward"
    <3>1. Fenced(F, x, y) \/ Hands(F[x], F[y], l, u, t, ForwardHandOffs)
      BY <1>1, <1>4, <1>5, <1>6, <2>1, <2>2, ForwardClash
    <3> QED BY <3>1 DEF Hands, HandOffs
  <2>3. CASE Schedule[k].dir # "forward"
    <3>1. Fenced(F, x, y) \/ Hands(F[x], F[y], l, u, t, BackwardHandOffs)
      BY <1>1, <1>4, <1>5, <1>6, <2>1, <2>3, BackwardClash
    <3> QED BY <3>1 DEF Hands, HandOffs
  <2> QED BY <2>2, <2>3
<1>9. ASSUME Fenced(F, x, y) PROVE Fenced(P, i, j)
  BY <1>1, <1>2, <1>3, <1>4, <1>5, <1>9, FencedInProgram
<1> QED BY <1>5, <1>7, <1>8, <1>9

------------------------------------------------------------------------------
(* A compute kernel of j's layer that runs for tiles only. *)
Companion(P, a, j, name) ==
  /\ IsKernel(P[a], "compute", name, {TRUE}) /\ P[a].layer = P[j].layer

(* The kernels of j's pass that write the sums before a. *)
AfterSums(lv, P, a, j) ==
  \A i \in DOMAIN P :
    (/\ P[i].kind = "kernel"
     /\ P[i].name \in {"zero_sums", "index", "kernel_y_bwd"}
     /\ PassOf(lv, i) = PassOf(lv, j)) => i < a

(* The compression of the pool waits for kernel_a, which spins on dispatch. *)
LEMMA CompressBehindKernelA ==
  ASSUME NEW lv \in Levels, NEW P, P = Program(lv), NEW j \in DOMAIN P,
         P[j].kind = "kernel", P[j].name = "compress"
  PROVE  \E a \in DOMAIN P : Companion(P, a, j, "kernel_a") /\ Fenced(P, a, j)
<1>1. PICK base : Laid(lv, base)
  BY ProgramLaid
<1>2. PICK k \in DOMAIN Schedule, y \in Nat \ {0} :
         /\ y <= Len(Pass(k, lv)) /\ j = base[k - 1] + y
         /\ P[j] = Pass(k, lv)[y] /\ PassOf(lv, j) = k
  BY <1>1, Located
<1>3. PICK F, l : F = Pass(k, lv) /\ l = Schedule[k].layer
  OBVIOUS
<1>4. P[j].layer = l /\ Schedule[k].dir = "forward"
  BY <1>2, <1>3, KernelNamed DEF OfForward
<1>5. PICK c : c = ForwardExtra(lv)
  OBVIOUS
<1>6. /\ Len(F) = 31 + c /\ DOMAIN F = 1 .. 31 + c /\ ForwardTable(F, l, lv, c)
      /\ c = IF lv = 2 THEN 4 ELSE 0
  BY <1>3, <1>4, <1>5, PassShape DEF ForwardExtra, Listed
<1>7. ForwardAt(F[y], y, lv, c)
  <2>1. ForwardKernel(F[y], y, lv, c)
    BY <1>2, <1>3, <1>4, <1>5, PassStatement
  <2> QED BY <2>1, ForwardPlaces
<1>8. y = 27 /\ lv = 2 /\ c = 4 /\ F[y].stream = "caller"
  <2>1. F[y].name = "compress"
    BY <1>2, <1>3
  <2> QED BY <1>6, <1>7, <2>1 DEF ForwardAt
<1>9. IsKernel(F[19], "compute", "kernel_a", {TRUE})
  BY <1>6, WhichAreKernelsWithTiles DEF ForwardTable
<1>10. Fenced(F, 19, 27)
  <2>1. IsWaitStream(F[25], "caller", "compute")
    <3>1. F[25] = WaitStream("caller", l, "compute")
      BY <1>6, <1>8 DEF ForwardTable
    <3> QED BY <3>1, WhichAreWaits
  <2>2. 25 \in DOMAIN F
    BY <1>6, <1>8
  <2>3. F[19].stream = "compute" /\ F[27].stream = "caller"
    <3>1. F[19].stream = "compute"
      BY <1>9, Zenon DEF IsKernel
    <3> QED BY <1>8, <3>1
  <2>4. 19 < 25 /\ 25 < 27
    OBVIOUS
  <2> QED BY <2>1, <2>2, <2>3, <2>4, StreamFence
<1>11. 19 \in Nat \ {0} /\ 19 <= Len(F) /\ 27 \in Nat \ {0} /\ 27 <= Len(F)
  BY <1>6, <1>8
<1>12. PICK a : a = base[k - 1] + 19
  OBVIOUS
<1>13. a \in DOMAIN P /\ P[a] = F[19] /\ P[a].layer = l
  BY <1>1, <1>3, <1>11, <1>12, PlaceInProgram
<1>14. Fenced(P, a, j)
  <2>1. Fenced(P, base[k - 1] + 19, base[k - 1] + 27)
    BY <1>1, <1>3, <1>10, <1>11, FencedInProgram
  <2> QED BY <1>2, <1>8, <1>12, <2>1
<1>15. Companion(P, a, j, "kernel_a")
  BY <1>4, <1>9, <1>13 DEF Companion
<1> QED BY <1>13, <1>14, <1>15

(* dW2 runs behind kernel_y_bwd, and combine_grads behind a started kernel_a_bwd
   that comes after all the kernels that write the sums. *)
LEMMA BackwardCompanions ==
  ASSUME NEW lv \in Levels, NEW P, P = Program(lv), NEW j \in DOMAIN P,
         P[j].kind = "kernel"
  PROVE  /\ P[j].name = "dW2" => \E a \in DOMAIN P : Companion(P, a, j, "kernel_y_bwd") /\ a < j
         /\ P[j].name = "combine_grads" =>
              \E a \in DOMAIN P : Companion(P, a, j, "kernel_a_bwd") /\ AfterSums(lv, P, a, j)
<1> SUFFICES ASSUME P[j].name \in {"dW2", "combine_grads"}
             PROVE  /\ P[j].name = "dW2" => \E a \in DOMAIN P : Companion(P, a, j, "kernel_y_bwd") /\ a < j
                    /\ P[j].name = "combine_grads" =>
                         \E a \in DOMAIN P :
                           Companion(P, a, j, "kernel_a_bwd") /\ AfterSums(lv, P, a, j)
  OBVIOUS
<1>1. PICK base : Laid(lv, base)
  BY ProgramLaid
<1>2. PICK k \in DOMAIN Schedule, y \in Nat \ {0} :
         /\ y <= Len(Pass(k, lv)) /\ j = base[k - 1] + y
         /\ P[j] = Pass(k, lv)[y] /\ PassOf(lv, j) = k
  BY <1>1, Located
<1>3. PICK F, l : F = Pass(k, lv) /\ l = Schedule[k].layer
  OBVIOUS
<1>4. P[j].layer = l /\ Schedule[k].dir # "forward"
  BY <1>2, <1>3, KernelNamed DEF OfForward
<1>5. PICK c : c = BackwardExtra(lv)
  OBVIOUS
<1>6. c \in {0, 2, 4} /\ (c = IF lv = 0 THEN 0 ELSE IF lv = 1 THEN 2 ELSE 4)
  BY <1>5 DEF BackwardExtra
<1>7. Len(F) = 31 + c /\ BackwardTail(F, l, lv, c)
  BY <1>3, <1>4, <1>5, PassShape DEF BackwardTable
<1>8. PICK p \in Nat : p = base[k - 1]
  BY <1>1, <1>2, PlaceInProgram
<1>9. ASSUME NEW m \in Nat \ {0}, m <= 31 + c
      PROVE  p + m \in DOMAIN P /\ P[p + m] = F[m] /\ P[p + m].layer = l
  <2>1. m <= Len(Pass(k, lv))
    BY <1>3, <1>7, <1>9
  <2> QED BY <1>1, <1>3, <1>8, <2>1, PlaceInProgram
<1>10. ASSUME NEW i \in DOMAIN P, P[i].kind = "kernel", PassOf(lv, i) = k
       PROVE  \E x \in Nat : i = p + x /\ BackwardAt(P[i], x, lv, c)
  <2>1. PICK h \in DOMAIN Schedule, x \in Nat \ {0} :
           /\ x <= Len(Pass(h, lv)) /\ i = base[h - 1] + x
           /\ P[i] = Pass(h, lv)[x] /\ PassOf(lv, i) = h
    BY <1>1, Located
  <2>2. h = k /\ P[i] = F[x] /\ x <= Len(F) /\ i = p + x
    BY <1>3, <1>8, <1>10, <2>1
  <2>3. BackwardKernel(P[i], x, lv, c)
    <3>1. F[x].kind = "kernel"
      BY <1>10, <2>2
    <3>2. BackwardKernel(F[x], x, lv, c)
      BY <1>3, <1>4, <1>5, <2>2, <3>1, PassStatement
    <3> QED BY <2>2, <3>2
  <2>4. BackwardAt(P[i], x, lv, c)
    BY <2>3, BackwardPlaces
  <2> QED BY <2>2, <2>4
<1>11. PICK z \in Nat : j = p + z /\ BackwardAt(P[j], z, lv, c)
  BY <1>2, <1>10
<1>12. /\ IsKernel(F[17 + c], "compute", "kernel_y_bwd", {TRUE})
       /\ IsKernel(F[19 + c], "compute", "kernel_a_bwd", {TRUE})
  BY <1>7, WhichAreKernelsWithTiles DEF BackwardTail
<1>13. ASSUME P[j].name = "dW2"
       PROVE  \E a \in DOMAIN P : Companion(P, a, j, "kernel_y_bwd") /\ a < j
  <2>1. z = 23 + c
    BY <1>11, <1>13 DEF BackwardAt
  <2>2. PICK m \in Nat \ {0} : m = 17 + c /\ m <= 31 + c
    BY <1>6
  <2>3. p + m \in DOMAIN P /\ P[p + m] = F[m] /\ P[p + m].layer = l
    BY <1>9, <2>2
  <2>4. p + m < j
    BY <1>6, <1>11, <2>1, <2>2
  <2>5. Companion(P, p + m, j, "kernel_y_bwd")
    BY <1>4, <1>12, <2>2, <2>3 DEF Companion
  <2> QED BY <2>3, <2>4, <2>5
<1>14. ASSUME P[j].name = "combine_grads"
       PROVE  \E a \in DOMAIN P :
                           Companion(P, a, j, "kernel_a_bwd") /\ AfterSums(lv, P, a, j)
  <2>2. PICK m \in Nat \ {0} : m = 19 + c /\ m <= 31 + c
    BY <1>6
  <2>3. p + m \in DOMAIN P /\ P[p + m] = F[m] /\ P[p + m].layer = l
    BY <1>9, <2>2
  <2>4. ASSUME NEW i \in DOMAIN P, P[i].kind = "kernel", PassOf(lv, i) = k,
               P[i].name \in {"zero_sums", "index", "kernel_y_bwd"}
        PROVE  i < p + m
    <3>1. PICK x \in Nat : i = p + x /\ BackwardAt(P[i], x, lv, c)
      BY <1>10, <2>4
    <3>2. x \in {7, 9, 17 + c}
      BY <2>4, <3>1 DEF BackwardAt
    <3> QED BY <1>6, <2>2, <3>1, <3>2
  <2>5. Companion(P, p + m, j, "kernel_a_bwd")
    BY <1>4, <1>12, <2>2, <2>3 DEF Companion
  <2>6. PICK a : a = p + m
    OBVIOUS
  <2>7. AfterSums(lv, P, a, j)
    BY <1>2, <2>4, <2>6 DEF AfterSums
  <2>8. a \in DOMAIN P /\ Companion(P, a, j, "kernel_a_bwd")
    BY <2>3, <2>5, <2>6
  <2> QED BY <2>7, <2>8
<1> QED BY <1>13, <1>14

------------------------------------------------------------------------------
------------------------------------------------------------------------------
(* What no wait orders is handed over row by row, is not there without tiles,
   or is complete because of the compute kernel in between. *)

(* The entries of Clashes. *)
LEMMA ClashesAre ==
  ASSUME NEW lv \in Levels, NEW P, P = Program(lv), NEW j \in DOMAIN P,
         NEW c \in Clashes[lv + 1][j]
  PROVE  /\ c[1] \in DOMAIN P /\ c[1] < j
         /\ P[c[1]].kind = "kernel" /\ P[c[1]].stream # P[j].stream
         /\ Clash(lv, P[c[1]], P[j], c[2], c[3])
<1>1. Len(P) \in Nat /\ DOMAIN P = 1 .. Len(P)
  BY ProgramStmts DEF Stmts
<1>2. PICK s : s = [i \in DOMAIN P |-> ClashesOf(lv, i)]
  OBVIOUS
<1>3. Listed(s) /\ Listed(<< >>) /\ Len(s) = Len(P)
  BY <1>1, <1>2 DEF Listed
<1>4. Clashes[lv + 1] = s \o << >>
  <2>1. CASE lv = 0
    BY <1>2, <2>1 DEF Clashes, PerLevel
  <2>2. CASE lv = 1
    BY <1>2, <2>2 DEF Clashes, PerLevel
  <2>3. CASE lv = 2
    BY <1>2, <2>3 DEF Clashes, PerLevel
  <2> QED BY <2>1, <2>2, <2>3 DEF Levels
<1>5. PICK d : d = s \o << >>
  OBVIOUS
<1>6. d[j] = s[j]
  <2>1. \A i \in 1 .. Len(s) : d[i] = s[i]
    BY <1>3, <1>5, Concat
  <2> QED BY <1>1, <1>3, <2>1
<1>7. c \in ClashesOf(lv, j)
  BY <1>2, <1>4, <1>5, <1>6
<1>8. /\ c \in UNION {{i} \X Touched(P[i]) \X Touched(P[j]) :
                        i \in {k \in 1 .. j - 1 : P[k].kind = "kernel" /\ P[k].stream # P[j].stream}}
      /\ \/ c[2] = c[3] /\ (c[2] \in P[c[1]].writes \/ c[3] \in P[j].writes)
         \/ <<c[2], c[3]>> \in MayShare[lv + 1]
  BY <1>7 DEF ClashesOf
<1>9. PICK i \in 1 .. j - 1 : /\ P[i].kind = "kernel" /\ P[i].stream # P[j].stream
                              /\ c \in {i} \X Touched(P[i]) \X Touched(P[j])
  BY <1>8
<1>10. c[1] = i /\ c[2] \in Touched(P[i]) /\ c[3] \in Touched(P[j])
  BY <1>9
<1>11. i \in DOMAIN P /\ i < j
  BY <1>1
<1> QED BY <1>8, <1>9, <1>10, <1>11 DEF Clash

(* A kernel that runs for tiles only runs when there are tiles. *)
LEMMA CompanionRuns ==
  ASSUME Types, NEW r \in Ranks, NEW a \in DOMAIN Prog, NEW j, NEW name, Companion(Prog, a, j, name),
         tiles[r][Prog[j].layer] = TRUE
  PROVE  /\ Runs(r, a) /\ Prog[a].name = name /\ Prog[a].layer = Prog[j].layer
         /\ Prog[a].stream = "compute" /\ Prog[a].kind = "kernel"
<1>1. /\ IsKernel(Prog[a], "compute", name, {TRUE}) /\ Prog[a].layer = Prog[j].layer
  BY DEF Companion
<1>2. Prog[a].when = {TRUE}
  BY <1>1, Zenon DEF IsKernel
<1>3. tiles[r][Prog[a].layer] \in Prog[a].when
  <2>1. tiles[r][Prog[a].layer] = TRUE
    BY <1>1
  <2> QED BY <1>2, <2>1, Zenon
<1>4. Prog[a].name = name /\ Prog[a].stream = "compute" /\ Prog[a].kind = "kernel"
  BY <1>1, Zenon DEF IsKernel
<1> QED BY <1>1, <1>3, <1>4 DEF Runs

(* A complete reader of a dispatch's tiles has seen them all delivered. *)
LEMMA ReaderComplete ==
  ASSUME Types, WaitsHold, NEW r \in Ranks, NEW a \in DOMAIN Prog, Prog[a].stream = "compute",
         Runs(r, a), Complete(r, a), NEW d, NEW i \in DOMAIN Prog, Prog[i].kind = "kernel",
         Prog[i].name = d, Prog[i].layer = Prog[a].layer,
         \/ Prog[a].name = "kernel_a" /\ d = "dispatch_main"
         \/ Prog[a].name = "kernel_y_bwd" /\ d = "dispatch_grads"
  PROVE  Published(r, i)
<1>1. a < next[r]["compute"] /\ "compute" \in Streams
  BY DEF Complete, Streams
<1>2. Delivered(r, d, Prog[a].layer)
  BY <1>1 DEF WaitsHold
<1>3. i \in The(d, Prog[a].layer)
  BY KindSets DEF The, Types
<1> QED BY <1>2, <1>3 DEF Delivered

------------------------------------------------------------------------------
(* A kernel runs only when every earlier one on another stream that touches
   its memory is complete, or hands the data over, or there is none: the
   wait_stream edges, the events and the started gates of a layer, with the
   caching allocator's pools and no record_stream, are enough for that. *)
THEOREM AccessesInOrder == Spec => []AccessesOrdered
<1>1. LInv => AccessesOrdered
  <2> SUFFICES ASSUME LInv, NEW r \in Ranks, NEW s \in Streams, Running(r, s),
                      NEW c \in Clashes[level + 1][Head1(r, s)]
               PROVE  \/ Complete(r, c[1])
                      \/ ~HasRows(r, c[2]) \/ ~HasRows(r, c[3])
                      \/ HandedOver(r, c[1], Head1(r, s), c[2], c[3])
    BY DEF AccessesOrdered
  <2>1. Types /\ HeadsOK /\ WaitsHold /\ StartedCounts
    BY DEF LInv
  <2>2. /\ level \in Levels /\ Prog = Program(level)
        /\ \A x \in DOMAIN Prog : Prog[x].kind = "kernel" => Prog[x].stream \in Streams /\ Prog[x].layer \in Layers
        /\ tiles \in [Ranks -> [Layers -> BOOLEAN]]
    BY <2>1, ProgramStmts DEF Types, Prog, Stmts
  <2>3. PICK j, i, u, t : j = Head1(r, s) /\ i = c[1] /\ u = c[2] /\ t = c[3]
    OBVIOUS
  <2>4. Busy(r, s)
    BY DEF Running, Busy
  <2>5. j # 0 /\ Prog[j].kind = "kernel"
    BY <2>1, <2>3, <2>4 DEF HeadsOK
  <2>6. j \in DOMAIN Prog /\ Prog[j].stream = s /\ Runs(r, j)
    BY <2>1, <2>3, <2>5, HeadIs
  <2>7. /\ i \in DOMAIN Prog /\ i < j /\ Prog[i].kind = "kernel" /\ Prog[i].stream # Prog[j].stream
        /\ Clash(level, Prog[i], Prog[j], u, t)
    BY <2>2, <2>3, <2>6, ClashesAre
  <2>8. ASSUME Fenced(Prog, i, j) PROVE Complete(r, i)
    <3>1. Prog[i].stream \in Streams
      BY <2>2, <2>7
    <3> QED BY <2>3, <2>5, <2>7, <2>8, <3>1, FenceHolds
  <2>9. CASE PassOf(level, i) < PassOf(level, j)
    <3>1. Fenced(Prog, i, j)
      BY <2>2, <2>5, <2>6, <2>7, <2>9, PassesFenced
    <3> QED BY <2>3, <2>8, <3>1
  <2>10. CASE PassOf(level, i) = PassOf(level, j)
    <3>1. PICK l \in Layers : l = Prog[j].layer
      BY <2>2, <2>5, <2>6
    <3>2. \/ Fenced(Prog, i, j)
          \/ /\ u = t /\ u = <<u[1], l>> /\ Prog[i].layer = l
             /\ <<Prog[i].name, Prog[j].name, u[1]>> \in HandOffs
      <4>1. \/ Fenced(Prog, i, j)
            \/ /\ u = t /\ u = <<u[1], Prog[i].layer>> /\ Prog[i].layer = Prog[j].layer
               /\ <<Prog[i].name, Prog[j].name, u[1]>> \in HandOffs
        BY <2>2, <2>5, <2>6, <2>7, <2>10, PassClash
      <4> QED BY <3>1, <4>1
    <3> SUFFICES ASSUME u = t, u = <<u[1], l>>, Prog[i].layer = l,
                        <<Prog[i].name, Prog[j].name, u[1]>> \in HandOffs
                 PROVE  Complete(r, i) \/ ~HasRows(r, u) \/ HandedOver(r, i, j, u, t)
      BY <2>3, <2>8, <3>2
    <3>3. PICK n, from, to : n = u[1] /\ from = Prog[i].name /\ to = Prog[j].name /\ u[2] = l
      OBVIOUS
    <3>4. \/ Streamed(i, j, n)
          \/ from = "dispatch_main" /\ to = "compress" /\ n \in {"pool", "slots"}
          \/ from = "dispatch_grads" /\ to = "dW2" /\ n = "dL_do_pool"
          \/ from \in {"zero_sums", "index", "kernel_y_bwd"} /\ to = "combine_grads" /\ n = "sums"
      BY <3>3 DEF HandOffs, ForwardHandOffs, BackwardHandOffs, Streamed
    <3>5. CASE Streamed(i, j, n)
      BY <3>3, <3>5 DEF HandedOver
    <3>6. ASSUME n \in SizedByTiles, tiles[r][l] # TRUE PROVE ~HasRows(r, u)
      BY <2>2, <3>3, <3>6 DEF HasRows
    <3>7. ASSUME n \in FilledByDispatch, Published(r, i) PROVE HandedOver(r, i, j, u, t)
      BY <3>3, <3>7 DEF HandedOver
    <3>8. CASE from = "dispatch_main" /\ to = "compress" /\ n \in {"pool", "slots"}
      <4>1. n \in SizedByTiles /\ n \in FilledByDispatch
        BY <3>8 DEF SizedByTiles, FilledByDispatch
      <4>2. ASSUME tiles[r][l] = TRUE PROVE Published(r, i)
        <5>1. PICK a \in DOMAIN Prog : Companion(Prog, a, j, "kernel_a") /\ Fenced(Prog, a, j)
          BY <2>2, <2>5, <2>6, <3>3, <3>8, CompressBehindKernelA
        <5>2. /\ Runs(r, a) /\ Prog[a].name = "kernel_a" /\ Prog[a].layer = l
              /\ Prog[a].stream = "compute"
          BY <2>1, <3>1, <4>2, <5>1, CompanionRuns
        <5>3. Complete(r, a)
          BY <2>3, <2>5, <5>1, <5>2, FenceHolds DEF Streams
        <5> QED BY <2>1, <2>7, <3>3, <3>8, <5>2, <5>3, ReaderComplete
      <4> QED BY <3>6, <3>7, <4>1, <4>2
    <3>9. CASE from = "dispatch_grads" /\ to = "dW2" /\ n = "dL_do_pool"
      <4>1. n \in SizedByTiles /\ n \in FilledByDispatch
        BY <3>9 DEF SizedByTiles, FilledByDispatch
      <4>2. ASSUME tiles[r][l] = TRUE PROVE Published(r, i)
        <5>1. PICK a \in DOMAIN Prog : Companion(Prog, a, j, "kernel_y_bwd") /\ a < j
          BY <2>2, <2>5, <2>6, <3>3, <3>9, BackwardCompanions
        <5>2. /\ Runs(r, a) /\ Prog[a].name = "kernel_y_bwd" /\ Prog[a].layer = l
              /\ Prog[a].stream = "compute"
          BY <2>1, <3>1, <4>2, <5>1, CompanionRuns
        <5>3. s = "compute"
          <6>1. Prog[j].stream = StreamOf("dW2")
            BY <2>2, <2>5, <2>6, <3>3, <3>9, KernelNamed
          <6> QED BY <2>6, <6>1 DEF StreamOf, OnCommunicate, OnCaller
        <5>4. Complete(r, a)
          BY <2>1, <2>3, <2>5, <5>1, <5>2, <5>3, BeforeHead
        <5> QED BY <2>1, <2>7, <3>3, <3>9, <5>2, <5>4, ReaderComplete
      <4> QED BY <3>6, <3>7, <4>1, <4>2
    <3>10. CASE from \in {"zero_sums", "index", "kernel_y_bwd"} /\ to = "combine_grads" /\ n = "sums"
      <4>1. n \in SizedByTiles
        BY <3>10 DEF SizedByTiles
      <4>2. ASSUME tiles[r][l] = TRUE PROVE Complete(r, i)
        <5>1. PICK a \in DOMAIN Prog : Companion(Prog, a, j, "kernel_a_bwd") /\ AfterSums(level, Prog, a, j)
          BY <2>2, <2>5, <2>6, <3>3, <3>10, BackwardCompanions
        <5>2. /\ Runs(r, a) /\ Prog[a].name = "kernel_a_bwd" /\ Prog[a].layer = l
              /\ Prog[a].stream = "compute" /\ Prog[a].kind = "kernel"
          BY <2>1, <3>1, <4>2, <5>1, CompanionRuns
        <5>3. i < a
          BY <2>7, <2>10, <3>3, <3>10, <5>1 DEF AfterSums
        <5>4. Prog[i].stream = "compute"
          <6>1. Prog[i].stream = StreamOf(from)
            BY <2>2, <2>7, <3>3, KernelNamed
          <6> QED BY <3>10, <6>1 DEF StreamOf, OnCommunicate, OnCaller
        <5>5. Begun(r, a)
          <6>1. a \in Kernels
            BY <2>2, <5>2, KindSets
          <6>2. <<Prog[a].name, Prog[Head1(r, s)].name>> \in Gated
            BY <2>3, <3>3, <3>10, <5>2 DEF Gated
          <6> QED BY <2>1, <2>3, <2>5, <3>1, <5>2, <6>1, <6>2, GateOver
        <5>6. CASE a < next[r]["compute"]
          <6>1. i \in Nat /\ a \in Nat /\ next[r]["compute"] \in Nat
            <7>1. Len(Prog) \in Nat /\ DOMAIN Prog = 1 .. Len(Prog)
              BY <2>2, ProgramStmts DEF Stmts
            <7>2. i \in Nat /\ a \in Nat
              BY <2>7, <7>1
            <7>3. "compute" \in Streams
              BY DEF Streams
            <7>4. next[r]["compute"] \in Nat
              BY <2>1, <7>1, <7>3 DEF Types
            <7> QED BY <7>2, <7>4
          <6>2. i < next[r]["compute"]
            BY <5>3, <5>6, <6>1
          <6> QED BY <5>4, <6>2 DEF Complete
        <5>7. CASE Running(r, "compute") /\ Head1(r, "compute") = a
          <6>1. "compute" \in Streams /\ Head1(r, "compute") # 0
            <7>1. "compute" \in Streams /\ Busy(r, "compute")
              BY <5>7 DEF Streams, Running, Busy
            <7> QED BY <2>1, <7>1 DEF HeadsOK
          <6> QED BY <2>1, <2>7, <5>3, <5>4, <5>7, <6>1, BeforeHead
        <5> QED BY <5>2, <5>5, <5>6, <5>7 DEF Begun
      <4> QED BY <3>6, <4>1, <4>2
    <3> QED BY <3>4, <3>5, <3>8, <3>9, <3>10
  <2> QED BY <2>2, <2>6, <2>7, <2>9, <2>10, PassesInOrder
<1> QED BY <1>1, LayerInvariant, PTL
=============================================================================
