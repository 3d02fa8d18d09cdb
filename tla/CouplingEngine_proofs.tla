------------------------ MODULE CouplingEngine_proofs ------------------------
(***************************************************************************)
(* What the coupling engine computes, for any couplings over any fields.   *)
(***************************************************************************)
EXTENDS CouplingEngine, Induction, FiniteSetTheorems

-----------------------------------------------------------------------------
(* The recursive functions satisfy their equations.                        *)

Ready(cs, prev) ==
  LET done == {prev[m] : m \in DOMAIN prev}
  IN  {j \in DOMAIN cs \ done : \A i \in DOMAIN cs : Precedes(cs, i, j) => i \in done}

NextOrder(cs, prev) ==
  IF Ready(cs, prev) = {} THEN prev
  ELSE Append(prev, CHOOSE j \in Ready(cs, prev) : \A m \in Ready(cs, prev) : j <= m)

(* Order(cs) is what Len(cs) steps of Kahn's algorithm yield. *)
LEMMA OrderEquation ==
  ASSUME NEW cs, Len(cs) \in Nat
  PROVE  \E f : /\ f[0] = <<>>
                /\ \A k \in 1 .. Len(cs) : f[k] = NextOrder(cs, f[k-1])
                /\ Order(cs) = f[Len(cs)]
<1> DEFINE N == Len(cs)
           eqn(n, g) == g = [k \in 0 .. n |-> IF k = 0 THEN <<>> ELSE NextOrder(cs, g[k-1])]
           T == {n \in 0 .. N : \E g : eqn(n, g)}
<1>1. \E g : eqn(0, g)
  <2> WITNESS [p \in 0 .. 0 |-> <<>>]
  <2> QED OBVIOUS
<1>2. ASSUME NEW n \in 1 .. N, NEW g, eqn(n - 1, g)
      PROVE  \E h : eqn(n, h)
  <2> DEFINE h == [k \in 0 .. n |-> IF k = n THEN NextOrder(cs, g[n-1]) ELSE g[k]]
  <2> SUFFICES eqn(n, h)
    OBVIOUS
  <2>1. ASSUME NEW k \in 0 .. n
        PROVE  h[k] = IF k = 0 THEN <<>> ELSE NextOrder(cs, h[k-1])
    <3>1. CASE k = n
      BY <3>1
    <3>2. CASE k # n
      BY <3>2, <1>2
    <3> QED BY <3>1, <3>2
  <2> QED BY <2>1
<1>3. \E g : eqn(N, g)
  <2> HIDE DEF eqn
  <2>1. 0 \in T /\ \A n \in 1 .. N : n - 1 \in T => n \in T
    BY <1>1, <1>2
  <2> HIDE DEF T
  <2>2. \A n \in 0 .. N : n \in T
    BY <2>1, SegmentInduction, Zenon
  <2> QED BY <2>2 DEF T
<1> DEFINE f == CHOOSE g : eqn(N, g)
<1>4. eqn(N, f)
  <2> HIDE DEF eqn
  <2> QED BY <1>3
<1>5. Order(cs) = f[N]
  BY DEF Order, NextOrder, Ready
<1> HIDE DEF f
<1>6. f[0] = <<>> /\ \A k \in 1 .. N : f[k] = NextOrder(cs, f[k-1])
  BY <1>4
<1> QED BY <1>5, <1>6

Grown(cs, allowed, prev) ==
  prev \cup {p \in allowed : \E c \in prev : cs[p].out \in cs[c].ins}

(* Upstream is what Len(cs) rounds of the worklist yield. *)
LEMMA UpstreamEquation ==
  ASSUME NEW cs, Len(cs) \in Nat, NEW start, NEW allowed
  PROVE  \E f : /\ f[0] = start
                /\ \A k \in 1 .. Len(cs) : f[k] = Grown(cs, allowed, f[k-1])
                /\ Upstream(cs, start, allowed) = f[Len(cs)]
<1> DEFINE N == Len(cs)
           eqn(n, g) == g = [k \in 0 .. n |->
                               IF k = 0 THEN start ELSE Grown(cs, allowed, g[k-1])]
           T == {n \in 0 .. N : \E g : eqn(n, g)}
<1>1. \E g : eqn(0, g)
  <2> WITNESS [p \in 0 .. 0 |-> start]
  <2> QED OBVIOUS
<1>2. ASSUME NEW n \in 1 .. N, NEW g, eqn(n - 1, g)
      PROVE  \E h : eqn(n, h)
  <2> DEFINE h == [k \in 0 .. n |-> IF k = n THEN Grown(cs, allowed, g[n-1]) ELSE g[k]]
  <2> SUFFICES eqn(n, h)
    OBVIOUS
  <2>1. ASSUME NEW k \in 0 .. n
        PROVE  h[k] = IF k = 0 THEN start ELSE Grown(cs, allowed, h[k-1])
    <3>1. CASE k = n
      BY <3>1
    <3>2. CASE k # n
      BY <3>2, <1>2
    <3> QED BY <3>1, <3>2
  <2> QED BY <2>1
<1>3. \E g : eqn(N, g)
  <2> HIDE DEF eqn
  <2>1. 0 \in T /\ \A n \in 1 .. N : n - 1 \in T => n \in T
    BY <1>1, <1>2
  <2> HIDE DEF T
  <2>2. \A n \in 0 .. N : n \in T
    BY <2>1, SegmentInduction, Zenon
  <2> QED BY <2>2 DEF T
<1> DEFINE f == CHOOSE g : eqn(N, g)
<1>4. eqn(N, f)
  <2> HIDE DEF eqn
  <2> QED BY <1>3
<1>5. Upstream(cs, start, allowed) = f[Len(cs)]
  BY DEF Upstream, Grown
<1> HIDE DEF f
<1>6. f[0] = start /\ \A k \in 1 .. N : f[k] = Grown(cs, allowed, f[k-1])
  BY <1>4
<1> QED BY <1>5, <1>6

RunOne(cs, which, i, prev) ==
  IF i \notin which THEN prev ELSE [prev EXCEPT ![cs[i].out] = Compute(cs[i], prev)]

(* Run applies the couplings of `which` one after another, in the order. *)
LEMMA RunEquation ==
  ASSUME NEW cs, NEW which, NEW frame, Len(Order(cs)) \in Nat
  PROVE  \E f : /\ f[0] = frame
                /\ \A k \in 1 .. Len(Order(cs)) : f[k] = RunOne(cs, which, Order(cs)[k], f[k-1])
                /\ Run(cs, which, frame) = f[Len(Order(cs))]
<1> DEFINE N == Len(Order(cs))
           eqn(n, g) == g = [k \in 0 .. n |->
                               IF k = 0 THEN frame ELSE RunOne(cs, which, Order(cs)[k], g[k-1])]
           T == {n \in 0 .. N : \E g : eqn(n, g)}
<1>1. \E g : eqn(0, g)
  <2> WITNESS [p \in 0 .. 0 |-> frame]
  <2> QED OBVIOUS
<1>2. ASSUME NEW n \in 1 .. N, NEW g, eqn(n - 1, g)
      PROVE  \E h : eqn(n, h)
  <2> DEFINE h == [k \in 0 .. n |-> IF k = n THEN RunOne(cs, which, Order(cs)[n], g[n-1]) ELSE g[k]]
  <2> SUFFICES eqn(n, h)
    OBVIOUS
  <2>1. ASSUME NEW k \in 0 .. n
        PROVE  h[k] = IF k = 0 THEN frame ELSE RunOne(cs, which, Order(cs)[k], h[k-1])
    <3>1. CASE k = n
      BY <3>1
    <3>2. CASE k # n
      BY <3>2, <1>2
    <3> QED BY <3>1, <3>2
  <2> QED BY <2>1
<1>3. \E g : eqn(N, g)
  <2> HIDE DEF eqn
  <2>1. 0 \in T /\ \A n \in 1 .. N : n - 1 \in T => n \in T
    BY <1>1, <1>2
  <2> HIDE DEF T
  <2>2. \A n \in 0 .. N : n \in T
    BY <2>1, SegmentInduction, Zenon
  <2> QED BY <2>2 DEF T
<1> DEFINE f == CHOOSE g : eqn(N, g)
<1>4. eqn(N, f)
  <2> HIDE DEF eqn
  <2> QED BY <1>3
<1>5. Run(cs, which, frame) = f[Len(Order(cs))]
  BY DEF Run, RunOne
<1> HIDE DEF f
<1>6. f[0] = frame /\ \A k \in 1 .. N : f[k] = RunOne(cs, which, Order(cs)[k], f[k-1])
  BY <1>4
<1> QED BY <1>5, <1>6

KeepOne(cs, ran, i, prev) == IF i \in ran THEN prev ELSE Append(prev, cs[i])

(* Discharge keeps, one after another, the couplings that did not run. *)
LEMMA DischargeEquation ==
  ASSUME NEW cs, NEW ran, Len(cs) \in Nat
  PROVE  \E f : /\ f[0] = <<>>
                /\ \A k \in 1 .. Len(cs) : f[k] = KeepOne(cs, ran, k, f[k-1])
                /\ Discharge(cs, ran) = f[Len(cs)]
<1> DEFINE N == Len(cs)
           eqn(n, g) == g = [k \in 0 .. n |->
                               IF k = 0 THEN <<>> ELSE KeepOne(cs, ran, k, g[k-1])]
           T == {n \in 0 .. N : \E g : eqn(n, g)}
<1>1. \E g : eqn(0, g)
  <2> WITNESS [p \in 0 .. 0 |-> <<>>]
  <2> QED OBVIOUS
<1>2. ASSUME NEW n \in 1 .. N, NEW g, eqn(n - 1, g)
      PROVE  \E h : eqn(n, h)
  <2> DEFINE h == [k \in 0 .. n |-> IF k = n THEN KeepOne(cs, ran, n, g[n-1]) ELSE g[k]]
  <2> SUFFICES eqn(n, h)
    OBVIOUS
  <2>1. ASSUME NEW k \in 0 .. n
        PROVE  h[k] = IF k = 0 THEN <<>> ELSE KeepOne(cs, ran, k, h[k-1])
    <3>1. CASE k = n
      BY <3>1
    <3>2. CASE k # n
      BY <3>2, <1>2
    <3> QED BY <3>1, <3>2
  <2> QED BY <2>1
<1>3. \E g : eqn(N, g)
  <2> HIDE DEF eqn
  <2>1. 0 \in T /\ \A n \in 1 .. N : n - 1 \in T => n \in T
    BY <1>1, <1>2
  <2> HIDE DEF T
  <2>2. \A n \in 0 .. N : n \in T
    BY <2>1, SegmentInduction, Zenon
  <2> QED BY <2>2 DEF T
<1> DEFINE f == CHOOSE g : eqn(N, g)
<1>4. eqn(N, f)
  <2> HIDE DEF eqn
  <2> QED BY <1>3
<1>5. Discharge(cs, ran) = f[Len(cs)]
  BY DEF Discharge, KeepOne
<1> HIDE DEF f
<1>6. f[0] = <<>> /\ \A k \in 1 .. N : f[k] = KeepOne(cs, ran, k, f[k-1])
  BY <1>4
<1> QED BY <1>5, <1>6


(* ConsumeAll consumes the columns one after another. *)
LEMMA ConsumeAllEquation ==
  ASSUME NEW snap, NEW outs, Len(outs) \in Nat
  PROVE  \E f : /\ f[0] = snap
                /\ \A k \in 1 .. Len(outs) : f[k] = ConsumeColumn(f[k-1], outs[k])
                /\ ConsumeAll(snap, outs) = f[Len(outs)]
<1> DEFINE N == Len(outs)
           eqn(n, g) == g = [k \in 0 .. n |->
                               IF k = 0 THEN snap ELSE ConsumeColumn(g[k-1], outs[k])]
           T == {n \in 0 .. N : \E g : eqn(n, g)}
<1>1. \E g : eqn(0, g)
  <2> WITNESS [p \in 0 .. 0 |-> snap]
  <2> QED OBVIOUS
<1>2. ASSUME NEW n \in 1 .. N, NEW g, eqn(n - 1, g)
      PROVE  \E h : eqn(n, h)
  <2> DEFINE h == [k \in 0 .. n |-> IF k = n THEN ConsumeColumn(g[n-1], outs[n]) ELSE g[k]]
  <2> SUFFICES eqn(n, h)
    OBVIOUS
  <2>1. ASSUME NEW k \in 0 .. n
        PROVE  h[k] = IF k = 0 THEN snap ELSE ConsumeColumn(h[k-1], outs[k])
    <3>1. CASE k = n
      BY <3>1
    <3>2. CASE k # n
      BY <3>2, <1>2
    <3> QED BY <3>1, <3>2
  <2> QED BY <2>1
<1>3. \E g : eqn(N, g)
  <2> HIDE DEF eqn
  <2>1. 0 \in T /\ \A n \in 1 .. N : n - 1 \in T => n \in T
    BY <1>1, <1>2
  <2> HIDE DEF T
  <2>2. \A n \in 0 .. N : n \in T
    BY <2>1, SegmentInduction, Zenon
  <2> QED BY <2>2 DEF T
<1> DEFINE f == CHOOSE g : eqn(N, g)
<1>4. eqn(N, f)
  <2> HIDE DEF eqn
  <2> QED BY <1>3
<1>5. ConsumeAll(snap, outs) = f[Len(outs)]
  BY DEF ConsumeAll
<1> HIDE DEF f
<1>6. f[0] = snap /\ \A k \in 1 .. N : f[k] = ConsumeColumn(f[k-1], outs[k])
  BY <1>4
<1> QED BY <1>5, <1>6

-----------------------------------------------------------------------------
(* What a schedule of couplings computes.                                  *)

IsFrame(frame) == frame = [n \in DOMAIN frame |-> frame[n]]

(* What a coupling computes depends on the fields it reads only.           *)
Local(c) == \A f, g : (\A n \in c.ins : f[n] = g[n]) => Compute(c, f) = Compute(c, g)

Couplings(cs, names) ==
  /\ Len(cs) \in Nat /\ DOMAIN cs = 1 .. Len(cs)
  /\ KnownFields(cs, names)
  /\ \A i \in DOMAIN cs : Local(cs[i])

(* p schedules every coupling once, as the dependency edges ask.           *)
Linear(cs, p) ==
  /\ p \in [1 .. Len(cs) -> 1 .. Len(cs)]
  /\ \A a, b \in 1 .. Len(cs) : p[a] = p[b] => a = b
  /\ \A i \in 1 .. Len(cs) : \E a \in 1 .. Len(cs) : p[a] = i
  /\ \A a, b \in 1 .. Len(cs) : Precedes(cs, p[a], p[b]) => a < b

Done(p, a) == {p[b] : b \in 1 .. a}

Writers(cs, D, n) == {i \in D : cs[i].out = n}

LastOf(S) == CHOOSE i \in S : \A j \in S : j <= i

(* The value of a field after the couplings S wrote it, V[i] being what    *)
(* coupling i computes: that of the last one recorded.                     *)
LastValue(V, S, old) == IF S = {} THEN old ELSE V[LastOf(S)]

Meaning(cs, V, D, frame) ==
  [n \in DOMAIN frame |-> LastValue(V, Writers(cs, D, n), frame[n])]

(* The same after the first a couplings of the schedule p, those of W run. *)
Progress(cs, V, W, frame, p, a) == Meaning(cs, V, W \cap Done(p, a), frame)

Before(cs, i, n) == {j \in 1 .. Len(cs) : cs[j].out = n /\ Precedes(cs, j, i)}

Reads(cs, V, frame, i) == [n \in cs[i].ins |-> LastValue(V, Before(cs, i, n), frame[n])]

(* V assigns to each coupling the value it computes from the others'.      *)
Solution(cs, V, frame) ==
  \A i \in 1 .. Len(cs) : V[i] = Compute(cs[i], Reads(cs, V, frame, i))

ReadClosed(cs, W) ==
  \A i \in W, j \in 1 .. Len(cs) : cs[j].out \in cs[i].ins /\ Precedes(cs, j, i) => j \in W

(* p is a linear schedule of couplings over the fields of frame, W a part  *)
(* of them that holds what its members read.                               *)
Scheduled(cs, frame, p, W) ==
  /\ IsFrame(frame) /\ Couplings(cs, DOMAIN frame)
  /\ Linear(cs, p)
  /\ W \in SUBSET (1 .. Len(cs)) /\ ReadClosed(cs, W)

(* f is a run of the members of W by p, as far as its M-th coupling.       *)
Executes(cs, p, W, frame, f, M) ==
  f[0] = frame /\ \A a \in 1 .. M : f[a] = RunOne(cs, W, p[a], f[a-1])

(* The last of some recorded positions is one of them, and none is later. *)
LEMMA LastIsGreatest ==
  ASSUME NEW N \in Nat, NEW S \in SUBSET (1 .. N), S # {}
  PROVE  LastOf(S) \in S /\ \A j \in S : j <= LastOf(S)
<1>1. S \in SUBSET (0 .. N)
  OBVIOUS
<1>2. \E m \in S : \A k \in S : k <= m
  BY <1>1, GreatestNatural
<1> QED BY <1>2 DEF LastOf

(* A member none is later than is the last. *)
LEMMA LastIs ==
  ASSUME NEW N \in Nat, NEW S \in SUBSET (1 .. N), NEW i \in S, \A j \in S : j <= i
  PROVE  LastOf(S) = i
<1>1. LastOf(S) \in S /\ \A j \in S : j <= LastOf(S)
  BY LastIsGreatest
<1>2. LastOf(S) \in 1 .. N /\ i \in 1 .. N
  BY <1>1
<1>3. i <= LastOf(S) /\ LastOf(S) <= i
  BY <1>1
<1> QED BY <1>2, <1>3

(* The couplings of W done by a linear schedule when coupling p[a] of W    *)
(* runs: of a field it reads, exactly the writers that precede it; of the  *)
(* field it writes, earlier links of its chain only.                       *)
LEMMA DoneBefore ==
  ASSUME NEW cs, NEW frame, NEW p, NEW W, Scheduled(cs, frame, p, W),
         NEW a \in 1 .. Len(cs), p[a] \in W
  PROVE  /\ \A n \in cs[p[a]].ins :
              Writers(cs, W \cap Done(p, a-1), n) = Before(cs, p[a], n)
         /\ \A j \in Writers(cs, W \cap Done(p, a-1), cs[p[a]].out) : j < p[a]
<1> DEFINE N == Len(cs)
           i == p[a]
<1> USE DEF Scheduled
<1>0. N \in Nat /\ DOMAIN cs = 1 .. N /\ i \in 1 .. N
  BY DEF Couplings, Linear
<1>1. ASSUME NEW n \in cs[i].ins, NEW j \in Before(cs, i, n)
      PROVE  j \in Writers(cs, W \cap Done(p, a-1), n)
  <2>1. j \in 1 .. N /\ cs[j].out = n /\ Precedes(cs, j, i)
    BY DEF Before
  <2>2. j \in W
    BY <2>1 DEF ReadClosed
  <2>3. PICK b \in 1 .. N : p[b] = j
    BY <2>1 DEF Linear
  <2>4. b < a
    BY <2>1, <2>3 DEF Linear
  <2>5. b \in 1 .. a - 1
    BY <2>4, <1>0
  <2>6. j \in Done(p, a-1)
    BY <2>3, <2>5 DEF Done
  <2> QED BY <2>1, <2>2, <2>6 DEF Writers
<1>2. ASSUME NEW n, NEW j \in Writers(cs, W \cap Done(p, a-1), n)
      PROVE  j \in 1 .. N /\ j # i /\ cs[j].out = n /\ ~ Precedes(cs, i, j)
  <2>1. j \in Done(p, a-1) /\ j \in W /\ cs[j].out = n
    BY DEF Writers
  <2>2. PICK b \in 1 .. a - 1 : p[b] = j
    BY <2>1 DEF Done
  <2>3. b \in 1 .. N /\ b < a
    BY <1>0
  <2>4. j # i
    BY <2>2, <2>3 DEF Linear
  <2>5. ~ Precedes(cs, i, j)
    BY <2>2, <2>3 DEF Linear
  <2> QED BY <2>1, <2>4, <2>5
<1>3. ASSUME NEW n \in cs[i].ins, NEW j \in Writers(cs, W \cap Done(p, a-1), n)
      PROVE  j \in Before(cs, i, n)
  <2>1. j \in 1 .. N /\ j # i /\ cs[j].out = n /\ ~ Precedes(cs, i, j)
    BY <1>2
  <2>2. Precedes(cs, j, i)
    BY <2>1, <1>0 DEF Precedes
  <2> QED BY <2>1, <2>2 DEF Before
<1>4. ASSUME NEW j \in Writers(cs, W \cap Done(p, a-1), cs[i].out)
      PROVE  j < i
  <2>1. j \in 1 .. N /\ j # i /\ cs[j].out = cs[i].out /\ ~ Precedes(cs, i, j)
    BY <1>2
  <2> QED BY <2>1, <1>0 DEF Precedes
<1>5. \A n \in cs[i].ins : Writers(cs, W \cap Done(p, a-1), n) = Before(cs, i, n)
  BY <1>1, <1>3
<1> QED BY <1>4, <1>5

(* One step of a schedule: what coupling p[a] computes is its value, and   *)
(* the frame goes on meaning what has been done.                           *)
LEMMA StepMeaning ==
  ASSUME NEW cs, NEW frame, NEW p, NEW W, Scheduled(cs, frame, p, W),
         NEW a \in 1 .. Len(cs), NEW V
  PROVE  LET prev == Progress(cs, V, W, frame, p, a-1)
         IN  /\ p[a] \in W =>
                  Compute(cs[p[a]], prev) = Compute(cs[p[a]], Reads(cs, V, frame, p[a]))
             /\ (p[a] \in W => V[p[a]] = Compute(cs[p[a]], prev)) =>
                  RunOne(cs, W, p[a], prev) = Progress(cs, V, W, frame, p, a)
<1> USE DEF Progress
<1> DEFINE N == Len(cs)
           prev == Progress(cs, V, W, frame, p, a-1)
           i == p[a]
           out == cs[i].out
           D == W \cap Done(p, a-1)
           E == W \cap Done(p, a)
<1>1. N \in Nat /\ DOMAIN cs = 1 .. N /\ i \in 1 .. N /\ out \in DOMAIN frame
        /\ cs[i].ins \subseteq DOMAIN frame /\ Local(cs[i]) /\ W \subseteq 1 .. N
  BY DEF Scheduled, Couplings, Linear, KnownFields
<1>2. Done(p, a) = Done(p, a-1) \cup {i}
  <2>1. 1 .. a = (1 .. a - 1) \cup {a}
    OBVIOUS
  <2> QED BY <2>1 DEF Done
<1>3. ASSUME i \in W
      PROVE  /\ Compute(cs[i], prev) = Compute(cs[i], Reads(cs, V, frame, i))
             /\ V[i] = Compute(cs[i], prev) =>
                  RunOne(cs, W, i, prev) = Meaning(cs, V, E, frame)
  <2>1. /\ \A n \in cs[i].ins : Writers(cs, D, n) = Before(cs, i, n)
        /\ \A j \in Writers(cs, D, out) : j < i
    BY <1>3, DoneBefore
  <2>2. \A n \in cs[i].ins : prev[n] = Reads(cs, V, frame, i)[n]
    <3> SUFFICES ASSUME NEW n \in cs[i].ins
                 PROVE  prev[n] = Reads(cs, V, frame, i)[n]
      OBVIOUS
    <3>1. prev[n] = LastValue(V, Writers(cs, D, n), frame[n])
      BY <1>1 DEF Meaning
    <3>2. Reads(cs, V, frame, i)[n] = LastValue(V, Before(cs, i, n), frame[n])
      BY DEF Reads
    <3> QED BY <2>1, <3>1, <3>2
  <2>3. Compute(cs[i], prev) = Compute(cs[i], Reads(cs, V, frame, i))
    BY <1>1, <2>2 DEF Local
  <2>4. ASSUME V[i] = Compute(cs[i], prev)
        PROVE  RunOne(cs, W, i, prev) = Meaning(cs, V, E, frame)
    <3>1. RunOne(cs, W, i, prev) = [prev EXCEPT ![out] = V[i]]
      BY <1>3, <2>4 DEF RunOne
    <3>2. E = D \cup {i}
      BY <1>2, <1>3
    <3>3. ASSUME NEW n \in DOMAIN frame, n # out
          PROVE  Writers(cs, E, n) = Writers(cs, D, n)
      BY <3>2, <3>3 DEF Writers
    <3>4. LastValue(V, Writers(cs, E, out), frame[out]) = V[i]
      <4>1. Writers(cs, E, out) = Writers(cs, D, out) \cup {i}
        BY <3>2 DEF Writers
      <4>2. Writers(cs, E, out) \in SUBSET (1 .. N) /\ i \in Writers(cs, E, out)
        BY <1>1, <4>1 DEF Writers
      <4>3. ASSUME NEW j \in Writers(cs, E, out)
            PROVE  j <= i
        <5>1. j \in 1 .. N /\ (j = i \/ j < i)
          BY <2>1, <4>1, <4>2
        <5> QED BY <1>1, <5>1
      <4>4. LastOf(Writers(cs, E, out)) = i
        BY <1>1, <4>2, <4>3, LastIs
      <4> QED BY <4>2, <4>4 DEF LastValue
    <3>5. \A n \in DOMAIN frame :
            [prev EXCEPT ![out] = V[i]][n] = Meaning(cs, V, E, frame)[n]
      <4> SUFFICES ASSUME NEW n \in DOMAIN frame
                   PROVE  [prev EXCEPT ![out] = V[i]][n] = Meaning(cs, V, E, frame)[n]
        OBVIOUS
      <4>1. CASE n = out
        BY <4>1, <3>4 DEF Meaning
      <4>2. CASE n # out
        BY <4>2, <3>3 DEF Meaning
      <4> QED BY <4>1, <4>2
    <3>6. [prev EXCEPT ![out] = V[i]] = Meaning(cs, V, E, frame)
      BY <3>5 DEF Meaning
    <3> QED BY <3>1, <3>6
  <2> QED BY <2>3, <2>4
<1>4. ASSUME i \notin W
      PROVE  RunOne(cs, W, i, prev) = Meaning(cs, V, E, frame)
  <2>1. E = D
    BY <1>2, <1>4
  <2> QED BY <1>4, <2>1 DEF RunOne
<1> QED BY <1>3, <1>4

(* Every linear schedule of couplings that holds what its members read, as *)
(* far as it got, leaves in each field the value of its last writer done.  *)
LEMMA ScheduleMeaning ==
  ASSUME NEW cs, NEW frame, NEW p, NEW W, Scheduled(cs, frame, p, W),
         NEW M \in 0 .. Len(cs), NEW f, Executes(cs, p, W, frame, f, M),
         NEW V,
         \/ Solution(cs, V, frame)
         \/ \A a \in 1 .. M : p[a] \in W => V[p[a]] = Compute(cs[p[a]], f[a-1])
  PROVE  \A a \in 0 .. M : f[a] = Progress(cs, V, W, frame, p, a)
<1> DEFINE T == {a \in 0 .. M : f[a] = Progress(cs, V, W, frame, p, a)}
<1>1. Len(cs) \in Nat /\ M \in Nat
  BY DEF Scheduled, Couplings
<1>2. 0 \in T
  <2>1. W \cap Done(p, 0) = {}
    BY DEF Done
  <2>2. \A n : Writers(cs, {}, n) = {}
    BY DEF Writers
  <2>3. Meaning(cs, V, {}, frame) = frame
    BY <2>2 DEF Meaning, LastValue, Scheduled, IsFrame
  <2>4. f[0] = Progress(cs, V, W, frame, p, 0)
    BY <2>1, <2>3 DEF Executes, Progress
  <2> QED BY <1>1, <2>4
<1>3. ASSUME NEW a \in 1 .. M, a - 1 \in T
      PROVE  a \in T
  <2>1. a \in 1 .. Len(cs)
    BY <1>1
  <2>2. f[a-1] = Progress(cs, V, W, frame, p, a-1)
    BY <1>3
  <2>3. f[a] = RunOne(cs, W, p[a], f[a-1])
    BY DEF Executes
  <2>4. /\ p[a] \in W => Compute(cs[p[a]], f[a-1]) = Compute(cs[p[a]], Reads(cs, V, frame, p[a]))
        /\ (p[a] \in W => V[p[a]] = Compute(cs[p[a]], f[a-1])) =>
              RunOne(cs, W, p[a], f[a-1]) = Progress(cs, V, W, frame, p, a)
    BY <2>1, <2>2, StepMeaning
  <2>5. p[a] \in W => V[p[a]] = Compute(cs[p[a]], f[a-1])
    <3>1. CASE Solution(cs, V, frame)
      <4>1. p[a] \in 1 .. Len(cs)
        BY <2>1 DEF Scheduled, Linear
      <4> QED BY <3>1, <2>4, <4>1 DEF Solution
    <3>2. CASE \A b \in 1 .. M : p[b] \in W => V[p[b]] = Compute(cs[p[b]], f[b-1])
      BY <3>2
    <3> QED BY <3>1, <3>2
  <2> QED BY <2>3, <2>4, <2>5
<1>4. \A a \in 0 .. M : a \in T
  <2> HIDE DEF T
  <2>1. \A a \in 1 .. M : a - 1 \in T => a \in T
    BY <1>3
  <2> QED BY <1>1, <1>2, <2>1, SegmentInduction, Zenon
<1> QED BY <1>4

-----------------------------------------------------------------------------
(* Kahn's algorithm.                                                       *)

(* s schedules some of the couplings, each after what it depends on.       *)
Prefix(cs, s) ==
  /\ s \in Seq(1 .. Len(cs))
  /\ \A a, b \in 1 .. Len(s) : s[a] = s[b] => a = b
  /\ \A b \in 1 .. Len(s), i \in 1 .. Len(cs) :
       Precedes(cs, i, s[b]) => \E a \in 1 .. Len(s) : a < b /\ s[a] = i

(* One step extends a prefix, by one coupling if one is ready. *)
LEMMA NextOrderPrefix ==
  ASSUME NEW cs, Len(cs) \in Nat, DOMAIN cs = 1 .. Len(cs), NEW s, Prefix(cs, s)
  PROVE  /\ Prefix(cs, NextOrder(cs, s))
         /\ Ready(cs, s) = {} => NextOrder(cs, s) = s
         /\ Ready(cs, s) # {} => Len(NextOrder(cs, s)) = Len(s) + 1
<1> DEFINE N == Len(cs)
           j == CHOOSE j \in Ready(cs, s) : \A m \in Ready(cs, s) : j <= m
<1>1. CASE Ready(cs, s) = {}
  BY <1>1 DEF NextOrder
<1>2. CASE Ready(cs, s) # {}
  <2>1. Ready(cs, s) \in SUBSET Nat
    BY DEF Ready
  <2>2. j \in Ready(cs, s)
    BY <1>2, <2>1, LeastNatural
  <2> DEFINE t == Append(s, j)
  <2>3. NextOrder(cs, s) = t
    BY <1>2 DEF NextOrder
  <2> HIDE DEF j
  <2>4. /\ j \in 1 .. N
        /\ \A a \in 1 .. Len(s) : s[a] # j
        /\ \A i \in 1 .. N : Precedes(cs, i, j) => \E a \in 1 .. Len(s) : s[a] = i
    BY <2>2 DEF Ready, Prefix
  <2>5. s \in Seq(1 .. N) /\ Len(s) \in Nat
    BY DEF Prefix
  <2>6. /\ t \in Seq(1 .. N) /\ Len(t) = Len(s) + 1 /\ t[Len(s) + 1] = j
        /\ \A a \in 1 .. Len(s) : t[a] = s[a]
    BY <2>4, <2>5
  <2>7. \A a \in 1 .. Len(t) : a = Len(s) + 1 \/ a \in 1 .. Len(s)
    BY <2>5, <2>6
  <2> HIDE DEF t
  <2>8. \A a, b \in 1 .. Len(t) : t[a] = t[b] => a = b
    BY <2>4, <2>6, <2>7 DEF Prefix
  <2>9. ASSUME NEW b \in 1 .. Len(t), NEW i \in 1 .. N, Precedes(cs, i, t[b])
        PROVE  \E a \in 1 .. Len(t) : a < b /\ t[a] = i
    <3>1. CASE b = Len(s) + 1
      <4>1. PICK a \in 1 .. Len(s) : s[a] = i
        BY <2>4, <2>6, <2>9, <3>1
      <4>2. a \in 1 .. Len(t) /\ a < b /\ t[a] = i
        BY <2>5, <2>6, <3>1, <4>1
      <4> QED BY <4>2
    <3>2. CASE b \in 1 .. Len(s)
      <4>1. PICK a \in 1 .. Len(s) : a < b /\ s[a] = i
        BY <2>6, <2>9, <3>2 DEF Prefix
      <4>2. a \in 1 .. Len(t) /\ t[a] = i
        BY <2>5, <2>6, <4>1
      <4> QED BY <4>1, <4>2
    <3> QED BY <2>7, <3>1, <3>2
  <2> QED BY <1>2, <2>3, <2>6, <2>8, <2>9 DEF Prefix
<1> QED BY <1>1, <1>2

(* The order Kahn's algorithm returns is a prefix; it stops short only     *)
(* when nothing is ready.                                                  *)
LEMMA OrderPrefix ==
  ASSUME NEW cs, Len(cs) \in Nat, DOMAIN cs = 1 .. Len(cs)
  PROVE  /\ Prefix(cs, Order(cs))
         /\ Len(Order(cs)) = Len(cs) \/ Ready(cs, Order(cs)) = {}
<1> DEFINE N == Len(cs)
<1>1. PICK f : /\ f[0] = <<>>
               /\ \A k \in 1 .. N : f[k] = NextOrder(cs, f[k-1])
               /\ Order(cs) = f[N]
  BY OrderEquation
<1> DEFINE good(k) == Prefix(cs, f[k]) /\ (Len(f[k]) = k \/ Ready(cs, f[k]) = {})
           T == {k \in 0 .. N : good(k)}
<1>2. 0 \in T
  <2>1. <<>> \in Seq(1 .. N) /\ Len(<<>>) = 0
    OBVIOUS
  <2>2. Prefix(cs, <<>>)
    BY <2>1 DEF Prefix
  <2> QED BY <1>1, <2>1, <2>2
<1>3. ASSUME NEW k \in 1 .. N, k - 1 \in T
      PROVE  k \in T
  <2>1. Prefix(cs, f[k-1]) /\ (Len(f[k-1]) = k - 1 \/ Ready(cs, f[k-1]) = {})
    BY <1>3
  <2>2. f[k] = NextOrder(cs, f[k-1])
    BY <1>1
  <2>3. /\ Prefix(cs, f[k])
        /\ Ready(cs, f[k-1]) = {} => f[k] = f[k-1]
        /\ Ready(cs, f[k-1]) # {} => Len(f[k]) = Len(f[k-1]) + 1
    BY <2>1, <2>2, NextOrderPrefix
  <2>4. Len(f[k]) = k \/ Ready(cs, f[k]) = {}
    BY <2>1, <2>3
  <2> QED BY <2>3, <2>4
<1>4. \A k \in 0 .. N : k \in T
  <2> HIDE DEF T
  <2>1. \A k \in 1 .. N : k - 1 \in T => k \in T
    BY <1>3
  <2> QED BY <1>2, <2>1, SegmentInduction, Zenon
<1>5. N \in T
  BY <1>4
<1> QED BY <1>1, <1>5

(* An injective map of 1..N into itself is onto; into fewer there is none. *)
LEMMA Counting ==
  ASSUME NEW N \in Nat, NEW M \in Nat, NEW f \in [1 .. N -> 1 .. M],
         \A a, b \in 1 .. N : f[a] = f[b] => a = b
  PROVE  N <= M /\ (N = M => \A i \in 1 .. M : \E a \in 1 .. N : f[a] = i)
<1>1. f \in Injection(1 .. N, 1 .. M)
  BY DEF Injection, IsInjective
<1>2. /\ IsFiniteSet(1 .. N) /\ Cardinality(1 .. N) = N
      /\ IsFiniteSet(1 .. M) /\ Cardinality(1 .. M) = M
  BY FS_Interval
<1>3. Cardinality(1 .. N) <= Cardinality(1 .. M)
  BY <1>1, <1>2, FS_Injection
<1>4. Cardinality(1 .. N) = Cardinality(1 .. M) => f \in Surjection(1 .. N, 1 .. M)
  BY <1>1, <1>2, FS_Injection
<1> QED BY <1>2, <1>3, <1>4 DEF Surjection

(* A complete order schedules every coupling once, dependencies first.     *)
LEMMA OrderIsLinear ==
  ASSUME NEW cs, Len(cs) \in Nat, DOMAIN cs = 1 .. Len(cs), Len(Order(cs)) = Len(cs)
  PROVE  Linear(cs, Order(cs))
<1> DEFINE N == Len(cs)
           p == Order(cs)
<1>1. Prefix(cs, p)
  BY OrderPrefix
<1>2. p \in [1 .. N -> 1 .. N]
  BY <1>1 DEF Prefix
<1>3. \A a, b \in 1 .. N : p[a] = p[b] => a = b
  BY <1>1 DEF Prefix
<1>4. \A i \in 1 .. N : \E a \in 1 .. N : p[a] = i
  <2> HIDE DEF p
  <2> QED BY <1>2, <1>3, Counting
<1>5. ASSUME NEW a \in 1 .. N, NEW b \in 1 .. N, Precedes(cs, p[a], p[b])
      PROVE  a < b
  <2>1. p[a] \in 1 .. N
    BY <1>2
  <2>2. PICK c \in 1 .. N : c < b /\ p[c] = p[a]
    BY <1>1, <1>5, <2>1 DEF Prefix
  <2>3. c = a
    BY <2>2, <1>3
  <2> QED BY <2>2, <2>3
<1> QED BY <1>2, <1>3, <1>4, <1>5 DEF Linear

(* Couplings whose dependencies go up in some rank have a complete order.  *)
LEMMA RankedOrderIsComplete ==
  ASSUME NEW cs, Len(cs) \in Nat, DOMAIN cs = 1 .. Len(cs),
         NEW rank \in [1 .. Len(cs) -> Nat],
         \A i, j \in 1 .. Len(cs) : Precedes(cs, i, j) => rank[i] < rank[j]
  PROVE  Len(Order(cs)) = Len(cs)
<1> DEFINE N == Len(cs)
           s == Order(cs)
           done == {s[a] : a \in 1 .. Len(s)}
           left == (1 .. N) \ done
<1>1. /\ s \in Seq(1 .. N) /\ Len(s) \in Nat
      /\ \A a, b \in 1 .. Len(s) : s[a] = s[b] => a = b
      /\ Len(s) = N \/ Ready(cs, s) = {}
  BY OrderPrefix DEF Prefix
<1>2. Len(s) <= N
  <2>1. s \in [1 .. Len(s) -> 1 .. N]
    BY <1>1
  <2> QED BY <1>1, <2>1, Counting
<1>3. SUFFICES ASSUME Len(s) < N PROVE FALSE
  BY <1>1, <1>2
<1>4. left # {}
  <2> SUFFICES ASSUME left = {} PROVE FALSE
    OBVIOUS
  <2> DEFINE at == [i \in 1 .. N |-> CHOOSE a \in 1 .. Len(s) : s[a] = i]
  <2>1. \A i \in 1 .. N : at[i] \in 1 .. Len(s) /\ s[at[i]] = i
    OBVIOUS
  <2> HIDE DEF at
  <2>2. at \in [1 .. N -> 1 .. Len(s)]
    BY <2>1 DEF at
  <2>3. \A a, b \in 1 .. N : at[a] = at[b] => a = b
    BY <2>1
  <2>4. N <= Len(s)
    BY <1>1, <2>2, <2>3, Counting
  <2> QED BY <1>1, <1>3, <2>4
<1> DEFINE ranks == {rank[i] : i \in left}
<1>5. PICK i \in left : \A k \in left : rank[i] <= rank[k]
  <2>1. ranks \in SUBSET Nat /\ ranks # {}
    BY <1>4
  <2>2. PICK r \in ranks : \A k \in ranks : r <= k
    BY <2>1, LeastNatural
  <2> QED BY <2>2
<1>6. ASSUME NEW j \in 1 .. N, Precedes(cs, j, i)
      PROVE  j \in done
  <2>1. rank[j] < rank[i] /\ rank[j] \in Nat /\ rank[i] \in Nat
    BY <1>6
  <2> QED BY <1>5, <2>1
<1>7. DOMAIN s = 1 .. Len(s)
  BY <1>1
<1>8. i \in Ready(cs, s)
  BY <1>6, <1>7 DEF Ready
<1> QED BY <1>1, <1>3, <1>8

-----------------------------------------------------------------------------
(* What a run computes.                                                    *)

(* An engine over the fields of frame accepts the couplings.               *)
Sound(cs, frame) ==
  /\ IsFrame(frame) /\ Couplings(cs, DOMAIN frame)
  /\ Len(Order(cs)) = Len(cs)

(* The order of an accepted set is a schedule of it. *)
LEMMA SoundIsScheduled ==
  ASSUME NEW cs, NEW frame, Sound(cs, frame),
         NEW W \in SUBSET (1 .. Len(cs)), ReadClosed(cs, W)
  PROVE  Scheduled(cs, frame, Order(cs), W)
BY OrderIsLinear DEF Sound, Scheduled, Couplings

(* All the couplings hold what they read. *)
LEMMA AllIsReadClosed ==
  ASSUME NEW cs
  PROVE  ReadClosed(cs, 1 .. Len(cs))
BY DEF ReadClosed

(* A schedule ends with everything done. *)
LEMMA AllDone ==
  ASSUME NEW cs, NEW p, Linear(cs, p), NEW W \in SUBSET (1 .. Len(cs))
  PROVE  W \cap Done(p, Len(cs)) = W
<1>1. \A i \in W : \E a \in 1 .. Len(cs) : p[a] = i
  BY DEF Linear
<1> QED BY <1>1 DEF Done

(* A run executes the schedule that is the order. *)
LEMMA RunExecutes ==
  ASSUME NEW cs, NEW frame, NEW W, Sound(cs, frame)
  PROVE  \E f : /\ Executes(cs, Order(cs), W, frame, f, Len(cs))
                /\ Run(cs, W, frame) = f[Len(cs)]
<1>1. Len(Order(cs)) = Len(cs)
  BY DEF Sound
<1>2. Len(Order(cs)) \in Nat
  BY DEF Sound, Couplings
<1>3. PICK f : /\ f[0] = frame
               /\ \A k \in 1 .. Len(Order(cs)) : f[k] = RunOne(cs, W, Order(cs)[k], f[k-1])
               /\ Run(cs, W, frame) = f[Len(Order(cs))]
  BY <1>2, RunEquation
<1> QED BY <1>1, <1>3 DEF Executes

(* The couplings of an accepted set have values.                           *)
LEMMA SolutionExists ==
  ASSUME NEW cs, NEW frame, Sound(cs, frame)
  PROVE  \E V : Solution(cs, V, frame)
<1> DEFINE N == Len(cs)
           W == 1 .. N
           p == Order(cs)
<1>1. N \in Nat /\ Len(p) = N
  BY DEF Sound, Couplings
<1>2. ReadClosed(cs, W) /\ W \in SUBSET (1 .. N)
  BY AllIsReadClosed
<1>3. Scheduled(cs, frame, p, W) /\ Linear(cs, p)
  BY <1>2, SoundIsScheduled DEF Scheduled
<1>5. PICK f : Executes(cs, p, W, frame, f, N)
  BY RunExecutes
<1> DEFINE at(i) == CHOOSE a \in 1 .. N : p[a] = i
           V == [i \in 1 .. N |-> Compute(cs[i], f[at(i) - 1])]
<1>6. \A a \in 1 .. N : V[p[a]] = Compute(cs[p[a]], f[a-1])
  <2> SUFFICES ASSUME NEW a \in 1 .. N PROVE V[p[a]] = Compute(cs[p[a]], f[a-1])
    OBVIOUS
  <2>1. p[a] \in 1 .. N
    BY <1>3 DEF Linear
  <2>2. at(p[a]) \in 1 .. N /\ p[at(p[a])] = p[a]
    OBVIOUS
  <2>3. at(p[a]) = a
    <3> HIDE DEF at
    <3> QED BY <1>3, <2>2 DEF Linear
  <2> QED BY <2>1, <2>3
<1> HIDE DEF V
<1>7. \A a \in 0 .. N : f[a] = Progress(cs, V, W, frame, p, a)
  BY <1>1, <1>3, <1>5, <1>6, ScheduleMeaning
<1>8. ASSUME NEW i \in 1 .. N
      PROVE  V[i] = Compute(cs[i], Reads(cs, V, frame, i))
  <2>1. PICK a \in 1 .. N : p[a] = i
    BY <1>3 DEF Linear
  <2>2. a - 1 \in 0 .. N
    BY <1>1
  <2>3. f[a-1] = Progress(cs, V, W, frame, p, a-1)
    BY <1>7, <2>2
  <2>4. Compute(cs[p[a]], f[a-1]) = Compute(cs[p[a]], Reads(cs, V, frame, p[a]))
    BY <1>3, <2>1, <2>3, StepMeaning
  <2> QED BY <1>6, <2>1, <2>4
<1>9. Solution(cs, V, frame)
  BY <1>8 DEF Solution
<1> QED BY <1>9

(* Any linear order gives every field the value of its last writer: the    *)
(* frame after the run does not depend on the order chosen.                *)
THEOREM AnyOrderHasTheMeaning ==
  ASSUME NEW cs, NEW frame, NEW p, NEW W, Scheduled(cs, frame, p, W),
         NEW f, Executes(cs, p, W, frame, f, Len(cs)),
         NEW V, Solution(cs, V, frame)
  PROVE  f[Len(cs)] = Meaning(cs, V, W, frame)
<1> DEFINE N == Len(cs)
<1>1. N \in Nat /\ Linear(cs, p) /\ W \in SUBSET (1 .. N)
  BY DEF Scheduled, Couplings
<1>2. \A a \in 0 .. N : f[a] = Progress(cs, V, W, frame, p, a)
  BY <1>1, ScheduleMeaning
<1>3. f[N] = Progress(cs, V, W, frame, p, N)
  BY <1>1, <1>2
<1>4. W \cap Done(p, N) = W
  BY <1>1, AllDone
<1> QED BY <1>3, <1>4 DEF Progress

(* Running couplings that hold what they read leaves the meaning of them.  *)
THEOREM RunHasTheMeaning ==
  ASSUME NEW cs, NEW frame, Sound(cs, frame),
         NEW W \in SUBSET (1 .. Len(cs)), ReadClosed(cs, W),
         NEW V, Solution(cs, V, frame)
  PROVE  Run(cs, W, frame) = Meaning(cs, V, W, frame)
<1> DEFINE p == Order(cs)
<1>1. PICK f : /\ Executes(cs, p, W, frame, f, Len(cs))
               /\ Run(cs, W, frame) = f[Len(cs)]
  BY RunExecutes
<1>2. Scheduled(cs, frame, p, W)
  BY SoundIsScheduled
<1> QED BY <1>1, <1>2, AnyOrderHasTheMeaning

(* Row access evaluates every field to the value of its last writer. *)
LEMMA EvaluateHasTheMeaning ==
  ASSUME NEW cs, NEW frame, Sound(cs, frame), NEW V, Solution(cs, V, frame)
  PROVE  Evaluate(cs, frame) = Meaning(cs, V, 1 .. Len(cs), frame)
<1>1. DOMAIN cs = 1 .. Len(cs)
  BY DEF Sound, Couplings
<1>2. ReadClosed(cs, 1 .. Len(cs))
  BY AllIsReadClosed
<1> QED BY <1>1, <1>2, RunHasTheMeaning DEF Evaluate

-----------------------------------------------------------------------------
(* What a target needs.                                                    *)

(* U is what the worklist collects from start within allowed: a fixpoint,  *)
(* every member of which was put there for a reader of its output.         *)
Collected(cs, start, allowed, U) ==
  /\ U \in SUBSET (1 .. Len(cs)) /\ start \subseteq U
  /\ \A p \in allowed, c \in U : cs[p].out \in cs[c].ins => p \in U
  /\ \A p \in U : p \in start \/ (p \in allowed /\ \E c \in U : cs[p].out \in cs[c].ins)

(* Positions up to N are finitely many, N at most. *)
LEMMA SegmentSubsets ==
  ASSUME NEW N \in Nat, NEW S \in SUBSET (1 .. N)
  PROVE  /\ IsFiniteSet(S) /\ Cardinality(S) \in Nat /\ Cardinality(S) <= N
         /\ Cardinality(S) = N => S = 1 .. N
<1>1. IsFiniteSet(1 .. N) /\ Cardinality(1 .. N) = N
  BY FS_Interval
<1> QED BY <1>1, FS_Subset, FS_CardinalityType

(* Len(cs) rounds of the worklist are enough: a round that adds nothing is *)
(* the last that could, and a round that adds adds one of Len(cs).         *)
LEMMA UpstreamIsCollected ==
  ASSUME NEW cs, Len(cs) \in Nat,
         NEW start \in SUBSET (1 .. Len(cs)), NEW allowed \in SUBSET (1 .. Len(cs))
  PROVE  Collected(cs, start, allowed, Upstream(cs, start, allowed))
<1> DEFINE N == Len(cs)
<1>1. PICK f : /\ f[0] = start
               /\ \A k \in 1 .. N : f[k] = Grown(cs, allowed, f[k-1])
               /\ Upstream(cs, start, allowed) = f[N]
  BY UpstreamEquation
<1>3. \A S \in SUBSET (1 .. N) :
        IsFiniteSet(S) /\ Cardinality(S) \in Nat /\ Cardinality(S) <= N
          /\ (Cardinality(S) = N => S = 1 .. N)
  BY SegmentSubsets
<1> DEFINE sourced(S) ==
             \A p \in S : p \in start \/ (p \in allowed /\ \E c \in S : cs[p].out \in cs[c].ins)
           good(k) == /\ f[k] \in SUBSET (1 .. N) /\ start \subseteq f[k]
                      /\ sourced(f[k])
                      /\ Grown(cs, allowed, f[k]) = f[k] \/ Cardinality(f[k]) >= k
           T == {k \in 0 .. N : good(k)}
<1>4. 0 \in T
  BY <1>1, <1>3
<1>5. ASSUME NEW k \in 1 .. N, k - 1 \in T
      PROVE  k \in T
  <2> DEFINE S == f[k-1]
             R == f[k]
  <2>1. /\ S \in SUBSET (1 .. N) /\ start \subseteq S /\ sourced(S)
        /\ Grown(cs, allowed, S) = S \/ Cardinality(S) >= k - 1
    BY <1>5
  <2>2. R = Grown(cs, allowed, S)
    BY <1>1
  <2> HIDE DEF S, R
  <2>3. R \in SUBSET (1 .. N) /\ S \subseteq R /\ start \subseteq R
    BY <2>1, <2>2 DEF Grown
  <2>4. sourced(R)
    BY <2>1, <2>2 DEF Grown
  <2>5. CASE R = S
    <3>1. Grown(cs, allowed, R) = R
      BY <2>2, <2>5
    <3> QED BY <2>3, <2>4, <3>1 DEF R
  <2>6. CASE R # S
    <3>1. PICK x \in R : x \notin S
      BY <2>3, <2>6
    <3>2. Cardinality(S \cup {x}) = Cardinality(S) + 1
      BY <1>3, <2>1, <3>1, FS_AddElement
    <3>3. Cardinality(S \cup {x}) <= Cardinality(R)
      BY <1>3, <2>3, <3>1, FS_Subset
    <3>4. Cardinality(S) >= k - 1
      BY <2>1, <2>2, <2>6
    <3>5. Cardinality(R) >= k
      BY <1>3, <2>1, <2>3, <3>2, <3>3, <3>4
    <3> QED BY <2>3, <2>4, <3>5 DEF R
  <2> QED BY <2>5, <2>6
<1>6. \A k \in 0 .. N : k \in T
  <2> HIDE DEF T
  <2>1. \A k \in 1 .. N : k - 1 \in T => k \in T
    BY <1>5
  <2> QED BY <1>4, <2>1, SegmentInduction, Zenon
<1>7. good(N)
  BY <1>6
<1>8. Grown(cs, allowed, f[N]) = f[N]
  <2>1. CASE Cardinality(f[N]) >= N
    <3>1. f[N] = 1 .. N
      BY <1>3, <1>7, <2>1
    <3> QED BY <3>1 DEF Grown
  <2> QED BY <1>7, <2>1
<1>9. \A p \in allowed, c \in f[N] : cs[p].out \in cs[c].ins => p \in f[N]
  BY <1>8 DEF Grown
<1> QED BY <1>1, <1>7, <1>9 DEF Collected

(* W holds whatever its members depend on.                                 *)
Closed(cs, W) ==
  \A i \in W, j \in 1 .. Len(cs) : Precedes(cs, j, i) => j \in W

(* What is depended on includes what is read. *)
LEMMA ClosedIsReadClosed ==
  ASSUME NEW cs, NEW W, Closed(cs, W)
  PROVE  ReadClosed(cs, W)
BY DEF Closed, ReadClosed

(* couplings_for_column takes the whole chain of the column, and of every  *)
(* column it takes.                                                        *)
LEMMA CouplingsForColumnIsClosed ==
  ASSUME NEW cs, Len(cs) \in Nat, DOMAIN cs = 1 .. Len(cs), NEW column
  PROVE  /\ CouplingsForColumn(cs, column) \in SUBSET (1 .. Len(cs))
         /\ \A i \in 1 .. Len(cs) : cs[i].out = column => i \in CouplingsForColumn(cs, column)
         /\ Closed(cs, CouplingsForColumn(cs, column))
<1> DEFINE N == Len(cs)
           start == {i \in DOMAIN cs : cs[i].out = column}
           U == CouplingsForColumn(cs, column)
<1>1. Collected(cs, start, DOMAIN cs, U)
  BY UpstreamIsCollected DEF CouplingsForColumn
<1> HIDE DEF U
<1>2. ASSUME NEW i \in U, NEW j \in 1 .. N, Precedes(cs, j, i)
      PROVE  j \in U
  <2>1. CASE cs[j].out \in cs[i].ins
    BY <1>1, <2>1 DEF Collected
  <2>2. CASE cs[j].out = cs[i].out
    BY <1>1, <2>2 DEF Collected
  <2> QED BY <1>2, <2>1, <2>2 DEF Precedes
<1>3. U \in SUBSET (1 .. N) /\ \A i \in 1 .. N : cs[i].out = column => i \in U
  BY <1>1 DEF Collected
<1>4. Closed(cs, U)
  BY <1>2 DEF Closed
<1> QED BY <1>3, <1>4 DEF U

(* The couplings a chain mate of which was recorded earlier read it.       *)
ChainsAreRead(cs) ==
  \A i, j \in 1 .. Len(cs) : i < j /\ cs[i].out = cs[j].out => InPlace(cs[j])

Position(cs, i) == CHOOSE p \in DOMAIN Order(cs) : Order(cs)[p] = i

(* couplings_up_to takes what its members read, nothing scheduled after    *)
(* the target, and the chain mates ahead where chains are read.            *)
LEMMA CouplingsUpToIsClosed ==
  ASSUME NEW cs, Len(cs) \in Nat, DOMAIN cs = 1 .. Len(cs), Len(Order(cs)) = Len(cs),
         NEW i \in 1 .. Len(cs), NEW own \in BOOLEAN
  PROVE  LET W == CouplingsUpTo(cs, i, own)
             at == Position(cs, i)
         IN  /\ W \in SUBSET (1 .. Len(cs)) /\ ReadClosed(cs, W)
             /\ ChainsAreRead(cs) => Closed(cs, W)
             /\ at \in 1 .. Len(cs) /\ Order(cs)[at] = i
             /\ own => i \in W /\ W \subseteq Done(Order(cs), at)
<1> DEFINE N == Len(cs)
           p == Order(cs)
           at == Position(cs, i)
           ahead == {p[k] : k \in 1 .. (at - 1)}
           found == Upstream(cs, {i}, ahead)
           W == CouplingsUpTo(cs, i, own)
<1>1. Linear(cs, p) /\ DOMAIN p = 1 .. N
  BY OrderIsLinear DEF Linear
<1>2. at \in 1 .. N /\ p[at] = i
  BY <1>1 DEF Position, Linear
<1>3. W = IF own THEN found ELSE found \ {i}
  BY DEF CouplingsUpTo, Position
<1> HIDE DEF at, p
<1>4. ahead \in SUBSET (1 .. N)
  <2>1. \A k \in 1 .. N : p[k] \in 1 .. N
    BY <1>1 DEF Linear
  <2>2. \A k \in 1 .. (at - 1) : p[k] \in 1 .. N
    BY <1>2, <2>1
  <2> QED BY <2>2
<1>5. Collected(cs, {i}, ahead, found)
  BY <1>4, UpstreamIsCollected
<1> HIDE DEF found, W
<1>6. \A j \in found : \E a \in 1 .. at : p[a] = j
  <2> SUFFICES ASSUME NEW j \in found PROVE \E a \in 1 .. at : p[a] = j
    OBVIOUS
  <2>1. CASE j = i
    BY <1>2, <2>1
  <2>2. CASE j \in ahead
    <3>1. PICK k \in 1 .. (at - 1) : p[k] = j
      BY <2>2
    <3>2. k \in 1 .. at
      BY <1>2
    <3> QED BY <3>1, <3>2
  <2> QED BY <1>5, <2>1, <2>2 DEF Collected
<1>7. ASSUME NEW c \in found, NEW j \in 1 .. N, Precedes(cs, j, c)
      PROVE  j \in ahead /\ j # i
  <2>1. PICK a \in 1 .. at : p[a] = c
    BY <1>6
  <2>2. PICK b \in 1 .. N : p[b] = j
    BY <1>1 DEF Linear
  <2>3. a \in 1 .. N
    BY <1>2
  <2>4. b < a
    BY <1>1, <1>7, <2>1, <2>2, <2>3 DEF Linear
  <2>5. b \in 1 .. (at - 1) /\ b # at
    BY <1>2, <2>4
  <2>6. j # i
    BY <1>1, <1>2, <2>2, <2>5 DEF Linear
  <2> QED BY <2>2, <2>5, <2>6
<1>8. ASSUME NEW c \in W, NEW j \in 1 .. N, Precedes(cs, j, c), cs[j].out \in cs[c].ins
      PROVE  j \in W
  <2>1. c \in found
    BY <1>3
  <2>2. j \in found
    BY <1>5, <1>7, <1>8, <2>1 DEF Collected
  <2> QED BY <1>3, <1>7, <1>8, <2>1, <2>2
<1>9. ReadClosed(cs, W)
  BY <1>8 DEF ReadClosed
<1>10. ASSUME ChainsAreRead(cs), NEW c \in W, NEW j \in 1 .. N, Precedes(cs, j, c)
       PROVE  j \in W
  <2>1. c \in found /\ c \in 1 .. N
    BY <1>3, <1>5 DEF Collected
  <2>2. cs[j].out \in cs[c].ins
    BY <1>10, <2>1 DEF Precedes, ChainsAreRead, InPlace
  <2> QED BY <1>8, <1>10, <2>2
<1>11. W \in SUBSET (1 .. N) /\ (own => i \in W)
  BY <1>3, <1>5 DEF Collected
<1>12. own => W \subseteq Done(p, at)
  BY <1>3, <1>6 DEF Done
<1>13. ChainsAreRead(cs) => Closed(cs, W)
  BY <1>10 DEF Closed
<1> QED BY <1>2, <1>9, <1>11, <1>12, <1>13 DEF at, p, W

-----------------------------------------------------------------------------
(* What stays pending after a run, and what it is worth.                   *)

(* rest holds, in recording order, the couplings of cs at the positions r  *)
(* names: those up to k outside ran.                                       *)
Keeps(cs, ran, k, rest, r) ==
  /\ rest \in Seq({cs[i] : i \in 1 .. Len(cs)}) /\ r \in Seq(1 .. k) /\ Len(rest) = Len(r)
  /\ \A a, b \in 1 .. Len(r) : a < b => r[a] < r[b]
  /\ \A a \in 1 .. Len(r) : r[a] \notin ran /\ rest[a] = cs[r[a]]
  /\ \A i \in 1 .. k : i \notin ran => \E a \in 1 .. Len(r) : r[a] = i

(* Discharge keeps the couplings that did not run, in recording order. *)
LEMMA DischargeKeeps ==
  ASSUME NEW cs, NEW ran, Len(cs) \in Nat
  PROVE  \E r : Keeps(cs, ran, Len(cs), Discharge(cs, ran), r)
<1> DEFINE N == Len(cs)
           C == {cs[i] : i \in 1 .. N}
<1>1. PICK f : /\ f[0] = <<>>
               /\ \A k \in 1 .. N : f[k] = KeepOne(cs, ran, k, f[k-1])
               /\ Discharge(cs, ran) = f[N]
  BY DischargeEquation
<1> DEFINE T == {k \in 0 .. N : \E r : Keeps(cs, ran, k, f[k], r)}
<1>2. 0 \in T
  <2>1. Keeps(cs, ran, 0, f[0], <<>>)
    BY <1>1 DEF Keeps
  <2> QED BY <2>1
<1>3. ASSUME NEW k \in 1 .. N, k - 1 \in T
      PROVE  k \in T
  <2>1. PICK r : Keeps(cs, ran, k - 1, f[k-1], r)
    BY <1>3
  <2> DEFINE s == f[k-1]
  <2>2. f[k] = KeepOne(cs, ran, k, s)
    BY <1>1
  <2> HIDE DEF s
  <2>3. /\ s \in Seq(C) /\ r \in Seq(1 .. (k - 1)) /\ Len(s) = Len(r) /\ Len(r) \in Nat
        /\ \A a, b \in 1 .. Len(r) : a < b => r[a] < r[b]
        /\ \A a \in 1 .. Len(r) : r[a] \notin ran /\ s[a] = cs[r[a]]
        /\ \A i \in 1 .. (k - 1) : i \notin ran => \E a \in 1 .. Len(r) : r[a] = i
    BY <2>1 DEF Keeps, s
  <2>4. r \in Seq(1 .. k) /\ \A a \in 1 .. Len(r) : r[a] \in 1 .. (k - 1)
    BY <2>3
  <2>5. CASE k \in ran
    <3>1. f[k] = s
      BY <2>2, <2>5 DEF KeepOne
    <3>2. Keeps(cs, ran, k, s, r)
      BY <2>3, <2>4, <2>5 DEF Keeps
    <3> QED BY <3>1, <3>2
  <2>6. CASE k \notin ran
    <3> DEFINE q == Append(r, k)
               t == Append(s, cs[k])
    <3>1. f[k] = t
      BY <2>2, <2>6 DEF KeepOne
    <3>2. /\ q \in Seq(1 .. k) /\ Len(q) = Len(r) + 1 /\ q[Len(r) + 1] = k
          /\ \A a \in 1 .. Len(r) : q[a] = r[a]
      BY <2>3, <2>4
    <3>3. /\ t \in Seq(C) /\ Len(t) = Len(r) + 1 /\ t[Len(r) + 1] = cs[k]
          /\ \A a \in 1 .. Len(r) : t[a] = s[a]
      BY <2>3
    <3>4. \A a \in 1 .. Len(q) : a = Len(r) + 1 \/ a \in 1 .. Len(r)
      BY <2>3, <3>2
    <3> HIDE DEF q, t
    <3>5. ASSUME NEW a \in 1 .. Len(q), NEW b \in 1 .. Len(q), a < b
          PROVE  q[a] < q[b]
      <4>1. a \in 1 .. Len(r)
        BY <2>3, <3>2, <3>4, <3>5
      <4>2. q[a] \in 1 .. (k - 1)
        BY <2>4, <3>2, <4>1
      <4>3. CASE b = Len(r) + 1
        BY <3>2, <4>2, <4>3
      <4>4. CASE b \in 1 .. Len(r)
        BY <2>3, <3>2, <3>5, <4>1, <4>4
      <4> QED BY <3>4, <4>3, <4>4
    <3>6. \A a \in 1 .. Len(q) : q[a] \notin ran /\ t[a] = cs[q[a]]
      BY <2>3, <2>6, <3>2, <3>3, <3>4
    <3>7. ASSUME NEW i \in 1 .. k, i \notin ran
          PROVE  \E a \in 1 .. Len(q) : q[a] = i
      <4>1. CASE i = k
        <5>1. Len(r) + 1 \in 1 .. Len(q)
          BY <2>3, <3>2
        <5> QED BY <3>2, <4>1, <5>1
      <4>2. CASE i # k
        <5>1. i \in 1 .. (k - 1)
          BY <4>2
        <5>2. PICK a \in 1 .. Len(r) : r[a] = i
          BY <2>3, <3>7, <5>1
        <5>3. a \in 1 .. Len(q)
          BY <2>3, <3>2
        <5> QED BY <3>2, <5>2, <5>3
      <4> QED BY <4>1, <4>2
    <3>8. Keeps(cs, ran, k, t, q)
      BY <3>2, <3>3, <3>5, <3>6, <3>7 DEF Keeps
    <3> QED BY <3>1, <3>8
  <2> QED BY <2>5, <2>6
<1>4. \A k \in 0 .. N : k \in T
  <2> HIDE DEF T
  <2>1. \A k \in 1 .. N : k - 1 \in T => k \in T
    BY <1>3
  <2> QED BY <1>2, <2>1, SegmentInduction, Zenon
<1>5. N \in T
  BY <1>4
<1> QED BY <1>1, <1>5

(* What a reader of Keeps needs. *)
LEMMA KeptPositions ==
  ASSUME NEW cs, Len(cs) \in Nat, NEW ran, NEW rest, NEW r, Keeps(cs, ran, Len(cs), rest, r)
  PROVE  /\ Len(rest) \in Nat /\ DOMAIN rest = 1 .. Len(rest)
         /\ \A a \in 1 .. Len(rest) :
              r[a] \in 1 .. Len(cs) /\ r[a] \notin ran /\ rest[a] = cs[r[a]]
         /\ \A a, b \in 1 .. Len(rest) : (r[a] = r[b] <=> a = b) /\ (r[a] < r[b] <=> a < b)
         /\ \A i \in 1 .. Len(cs) : i \notin ran => \E a \in 1 .. Len(rest) : r[a] = i
         /\ \A a, b \in 1 .. Len(rest) : Precedes(rest, a, b) <=> Precedes(cs, r[a], r[b])
<1> DEFINE N == Len(cs)
           M == Len(rest)
<1>1. /\ M \in Nat /\ DOMAIN rest = 1 .. M
      /\ \A a \in 1 .. M : r[a] \in 1 .. N /\ r[a] \notin ran /\ rest[a] = cs[r[a]]
      /\ \A a, b \in 1 .. M : a < b => r[a] < r[b]
      /\ \A i \in 1 .. N : i \notin ran => \E a \in 1 .. M : r[a] = i
  <2> DEFINE C == {cs[i] : i \in 1 .. N}
  <2>1. /\ rest \in Seq(C) /\ r \in Seq(1 .. N) /\ Len(rest) = Len(r)
        /\ \A a, b \in 1 .. Len(r) : a < b => r[a] < r[b]
        /\ \A a \in 1 .. Len(r) : r[a] \notin ran /\ rest[a] = cs[r[a]]
        /\ \A i \in 1 .. N : i \notin ran => \E a \in 1 .. Len(r) : r[a] = i
    BY DEF Keeps
  <2> HIDE DEF C
  <2>2. M \in Nat /\ DOMAIN rest = 1 .. M /\ \A a \in 1 .. M : r[a] \in 1 .. N
    BY <2>1
  <2> QED BY <2>1, <2>2
<1>2. \A a, b \in 1 .. M : (r[a] = r[b] <=> a = b) /\ (r[a] < r[b] <=> a < b)
  <2> SUFFICES ASSUME NEW a \in 1 .. M, NEW b \in 1 .. M
               PROVE  (r[a] = r[b] <=> a = b) /\ (r[a] < r[b] <=> a < b)
    OBVIOUS
  <2>1. r[a] \in 1 .. N /\ r[b] \in 1 .. N
    BY <1>1
  <2>2. (a < b => r[a] < r[b]) /\ (b < a => r[b] < r[a])
    BY <1>1
  <2> QED BY <1>1, <2>1, <2>2
<1>3. \A a, b \in 1 .. M : Precedes(rest, a, b) <=> Precedes(cs, r[a], r[b])
  <2> SUFFICES ASSUME NEW a \in 1 .. M, NEW b \in 1 .. M
               PROVE  Precedes(rest, a, b) <=> Precedes(cs, r[a], r[b])
    OBVIOUS
  <2>1. rest[a] = cs[r[a]] /\ rest[b] = cs[r[b]]
    BY <1>1
  <2>2. (r[a] = r[b] <=> a = b) /\ (r[a] < r[b] <=> a < b)
    BY <1>2
  <2> QED BY <2>1, <2>2 DEF Precedes
<1> QED BY <1>1, <1>2, <1>3

(* The members inside W of a set of positions up to N are its first.       *)
FirstOf(N, S, W) ==
  S \in SUBSET (1 .. N) /\ \A i \in S \cap W, j \in S : j < i => j \in W

(* When the earlier writers ran first, the later ones decide. *)
LEMMA LastValueSplit ==
  ASSUME NEW N \in Nat, NEW S, NEW W, FirstOf(N, S, W), NEW V, NEW old
  PROVE  LastValue(V, S, old) = LastValue(V, S \ W, LastValue(V, S \cap W, old))
<1> USE DEF FirstOf
<1>1. CASE S \ W = {}
  <2>1. S \cap W = S
    BY <1>1
  <2> QED BY <1>1, <2>1 DEF LastValue
<1>2. CASE S \ W # {}
  <2> DEFINE m == LastOf(S \ W)
  <2>1. m \in S \ W /\ \A j \in S \ W : j <= m
    BY <1>2, LastIsGreatest
  <2> HIDE DEF m
  <2>2. ASSUME NEW j \in S PROVE j <= m
    <3>1. j \in 1 .. N /\ m \in 1 .. N
      BY <2>1
    <3>2. CASE j \in W
      <4>1. ~ m < j
        BY <2>1, <3>2 DEF FirstOf
      <4> QED BY <3>1, <4>1
    <3>3. CASE j \notin W
      BY <2>1, <3>3
    <3> QED BY <3>2, <3>3
  <2>3. LastOf(S) = m
    BY <2>1, <2>2, LastIs
  <2> QED BY <1>2, <2>1, <2>3 DEF LastValue, m
<1> QED BY <1>1, <1>2

(* r renames the numbers up to M, in order, and U holds V under r.         *)
Renames(r, M, N, U, V) ==
  /\ \A a, b \in 1 .. M : r[a] < r[b] <=> a < b
  /\ \A a \in 1 .. M : r[a] \in 1 .. N /\ U[a] = V[r[a]]

Image(r, K) == {r[k] : k \in K}

(* Dropping couplings renumbers the others and changes no value. *)
LEMMA LastValueRenamed ==
  ASSUME NEW N \in Nat, NEW M \in Nat, NEW r, NEW V, NEW U, Renames(r, M, N, U, V),
         NEW K \in SUBSET (1 .. M), NEW old
  PROVE  LastValue(U, K, old) = LastValue(V, Image(r, K), old)
<1> DEFINE S == Image(r, K)
<1> USE DEF Renames, Image
<1>1. CASE K = {}
  BY <1>1 DEF LastValue
<1>2. CASE K # {}
  <2> DEFINE m == LastOf(K)
  <2>1. m \in K /\ \A j \in K : j <= m
    BY <1>2, LastIsGreatest
  <2> HIDE DEF m
  <2>2. S \in SUBSET (1 .. N) /\ r[m] \in S
    BY <2>1
  <2>3. ASSUME NEW j \in S PROVE j <= r[m]
    <3>1. PICK k \in K : j = r[k]
      OBVIOUS
    <3>2. k \in 1 .. M /\ m \in 1 .. M /\ k <= m /\ r[k] \in 1 .. N /\ r[m] \in 1 .. N
      BY <2>1
    <3>3. ~ r[m] < r[k]
      BY <3>2
    <3> QED BY <3>1, <3>2, <3>3
  <2>4. LastOf(S) = r[m]
    BY <2>2, <2>3, LastIs
  <2>5. LastValue(U, K, old) = U[m] /\ LastValue(V, S, old) = V[r[m]]
    BY <1>2, <2>2, <2>4 DEF LastValue, m
  <2>6. m \in 1 .. M
    BY <2>1
  <2> QED BY <2>5, <2>6
<1> QED BY <1>1, <1>2

(* The couplings left pending, over the frame the others left.             *)
Remains(cs, frame, W, V, rest, r, U, left) ==
  /\ Sound(cs, frame) /\ W \in SUBSET (1 .. Len(cs)) /\ Closed(cs, W)
  /\ Solution(cs, V, frame)
  /\ Keeps(cs, W, Len(cs), rest, r)
  /\ U = [k \in 1 .. Len(rest) |-> V[r[k]]]
  /\ left = Meaning(cs, V, W, frame)

(* The engine accepts what a dependency-closed run leaves.                 *)
LEMMA RestIsSound ==
  ASSUME NEW cs, NEW frame, NEW W, NEW V, NEW rest, NEW r, NEW U, NEW left,
         Remains(cs, frame, W, V, rest, r, U, left)
  PROVE  Sound(rest, left)
<1> DEFINE N == Len(cs)
           M == Len(rest)
           p == Order(cs)
<1>1. /\ N \in Nat /\ DOMAIN cs = 1 .. N /\ Len(p) = N
      /\ \A i \in 1 .. N : cs[i].ins \cup {cs[i].out} \subseteq DOMAIN frame /\ Local(cs[i])
  BY DEF Remains, Sound, Couplings, KnownFields
<1>2. /\ M \in Nat /\ DOMAIN rest = 1 .. M
      /\ \A a \in 1 .. M : r[a] \in 1 .. N /\ r[a] \notin W /\ rest[a] = cs[r[a]]
      /\ \A a, b \in 1 .. M : Precedes(rest, a, b) <=> Precedes(cs, r[a], r[b])
  BY <1>1, KeptPositions DEF Remains
<1>3. IsFrame(left) /\ DOMAIN left = DOMAIN frame
  BY DEF Remains, Meaning, IsFrame
<1>4. Couplings(rest, DOMAIN left)
  BY <1>1, <1>2, <1>3 DEF Couplings, KnownFields
<1>5. Linear(cs, p)
  BY <1>1, OrderIsLinear
<1> HIDE DEF p
<1> DEFINE at(i) == CHOOSE a \in 1 .. N : p[a] = i
           rank == [k \in 1 .. M |-> at(r[k])]
<1>6. \A i \in 1 .. N : at(i) \in 1 .. N /\ p[at(i)] = i
  BY <1>5 DEF Linear
<1> HIDE DEF at
<1>7. rank \in [1 .. M -> Nat]
  BY <1>2, <1>6
<1>8. ASSUME NEW a \in 1 .. M, NEW b \in 1 .. M, Precedes(rest, a, b)
      PROVE  rank[a] < rank[b]
  <2>1. Precedes(cs, r[a], r[b]) /\ r[a] \in 1 .. N /\ r[b] \in 1 .. N
    BY <1>2, <1>8
  <2>2. Precedes(cs, p[at(r[a])], p[at(r[b])])
    BY <1>6, <2>1
  <2>3. at(r[a]) < at(r[b])
    BY <1>5, <1>6, <2>1, <2>2 DEF Linear
  <2> QED BY <2>3
<1> HIDE DEF rank
<1>9. Len(Order(rest)) = M
  BY <1>2, <1>7, <1>8, RankedOrderIsComplete
<1> QED BY <1>3, <1>4, <1>9 DEF Sound

(* S holds writers of field n, all that ran among them, and K those of S   *)
(* that are left.                                                          *)
WritersLeft(cs, W, rest, r, n, S, K) ==
  /\ S \in SUBSET (1 .. Len(cs)) /\ K \in SUBSET (1 .. Len(rest))
  /\ \A i \in S : cs[i].out = n
  /\ \A k \in 1 .. Len(rest) : k \in K <=> r[k] \in S
  /\ \A i \in W : cs[i].out = n => i \in S

(* What the run left in a field and the writers still pending make of it,  *)
(* all the writers would have made: those that ran were recorded first.    *)
LEMMA RestLastValue ==
  ASSUME NEW cs, NEW frame, NEW W, NEW V, NEW rest, NEW r, NEW U, NEW left,
         Remains(cs, frame, W, V, rest, r, U, left),
         NEW n \in DOMAIN frame, NEW S, NEW K, WritersLeft(cs, W, rest, r, n, S, K)
  PROVE  LastValue(U, K, left[n]) = LastValue(V, S, frame[n])
<1> USE DEF WritersLeft
<1> DEFINE N == Len(cs)
           M == Len(rest)
<1>1. N \in Nat
  BY DEF Remains, Sound, Couplings
<1>2. /\ M \in Nat
      /\ \A a \in 1 .. M : r[a] \in 1 .. N /\ r[a] \notin W
      /\ \A a, b \in 1 .. M : r[a] < r[b] <=> a < b
      /\ \A i \in 1 .. N : i \notin W => \E a \in 1 .. M : r[a] = i
  BY <1>1, KeptPositions DEF Remains
<1>3. ASSUME NEW i \in S \cap W, NEW j \in S, j < i
      PROVE  j \in W
  <2>1. i \in 1 .. N /\ j \in 1 .. N /\ j # i /\ cs[j].out = cs[i].out
    BY <1>3
  <2>2. Precedes(cs, j, i)
    BY <1>3, <2>1 DEF Precedes
  <2> QED BY <2>1, <2>2 DEF Remains, Closed
<1>4. LastValue(V, S, frame[n]) = LastValue(V, S \ W, LastValue(V, S \cap W, frame[n]))
  <2>1. FirstOf(N, S, W)
    BY <1>3 DEF FirstOf
  <2> QED BY <1>1, <2>1, LastValueSplit
<1>5. LastValue(V, S \cap W, frame[n]) = left[n]
  <2>1. S \cap W = Writers(cs, W, n)
    BY DEF Writers
  <2> QED BY <2>1 DEF Remains, Meaning
<1>6. S \ W = Image(r, K)
  <2>1. \A i \in S \ W : \E k \in K : r[k] = i
    BY <1>2
  <2>2. \A k \in K : r[k] \in S \ W
    BY <1>2
  <2> QED BY <2>1, <2>2 DEF Image
<1>7. \A k \in 1 .. M : U[k] = V[r[k]]
  BY DEF Remains
<1>8. LastValue(U, K, left[n]) = LastValue(V, S \ W, left[n])
  <2>1. Renames(r, M, N, U, V)
    BY <1>2, <1>7 DEF Renames
  <2>2. LastValue(U, K, left[n]) = LastValue(V, Image(r, K), left[n])
    BY <1>1, <1>2, <2>1, LastValueRenamed
  <2> QED BY <1>6, <2>2
<1> QED BY <1>4, <1>5, <1>8

(* A pending coupling computes what it would have computed in the full run.*)
LEMMA RestIsSolved ==
  ASSUME NEW cs, NEW frame, NEW W, NEW V, NEW rest, NEW r, NEW U, NEW left,
         Remains(cs, frame, W, V, rest, r, U, left)
  PROVE  Solution(rest, U, left)
<1> DEFINE N == Len(cs)
           M == Len(rest)
<1>1. /\ N \in Nat
      /\ \A i \in 1 .. N : cs[i].ins \cup {cs[i].out} \subseteq DOMAIN frame
  BY DEF Remains, Sound, Couplings, KnownFields
<1>2. /\ M \in Nat
      /\ \A a \in 1 .. M : r[a] \in 1 .. N /\ r[a] \notin W /\ rest[a] = cs[r[a]]
      /\ \A a, b \in 1 .. M : Precedes(rest, a, b) <=> Precedes(cs, r[a], r[b])
  BY <1>1, KeptPositions DEF Remains
<1>3. ASSUME NEW k \in 1 .. M
      PROVE  U[k] = Compute(rest[k], Reads(rest, U, left, k))
  <2> DEFINE i == r[k]
  <2>1. i \in 1 .. N /\ i \notin W /\ rest[k] = cs[i] /\ U[k] = V[i]
    BY <1>2 DEF Remains
  <2> HIDE DEF i
  <2>2. ASSUME NEW n \in cs[i].ins
        PROVE  LastValue(U, Before(rest, k, n), left[n]) = LastValue(V, Before(cs, i, n), frame[n])
    <3>1. n \in DOMAIN frame
      BY <1>1, <2>1
    <3>2. Before(cs, i, n) \in SUBSET (1 .. N) /\ \A j \in Before(cs, i, n) : cs[j].out = n
      BY DEF Before
    <3>3. Before(rest, k, n) \in SUBSET (1 .. M)
      BY DEF Before
    <3>4. \A b \in 1 .. M : b \in Before(rest, k, n) <=> r[b] \in Before(cs, i, n)
      BY <1>2 DEF Before, i
    <3>5. ASSUME NEW j \in W, cs[j].out = n
          PROVE  j \in Before(cs, i, n)
      <4>1. j \in 1 .. N /\ j # i /\ ~ Precedes(cs, i, j)
        BY <2>1, <3>5 DEF Remains, Closed
      <4>2. Precedes(cs, j, i)
        BY <2>1, <3>5, <4>1, <1>1 DEF Precedes
      <4> QED BY <3>5, <4>1, <4>2 DEF Before
    <3>6. WritersLeft(cs, W, rest, r, n, Before(cs, i, n), Before(rest, k, n))
      BY <3>2, <3>3, <3>4, <3>5 DEF WritersLeft
    <3> QED BY <3>1, <3>6, RestLastValue
  <2>3. Reads(rest, U, left, k) = Reads(cs, V, frame, i)
    BY <2>1, <2>2 DEF Reads
  <2>4. V[i] = Compute(cs[i], Reads(cs, V, frame, i))
    BY <2>1 DEF Remains, Solution
  <2> QED BY <2>1, <2>3, <2>4
<1> QED BY <1>3 DEF Solution

(* Running couplings with all they depend on, and discharging them, leaves *)
(* an accepted set whose evaluation gives every field what the evaluation  *)
(* of the whole set gave it.                                               *)
THEOREM ClosedRunKeepsTheEvaluation ==
  ASSUME NEW cs, NEW frame, Sound(cs, frame),
         NEW W \in SUBSET (1 .. Len(cs)), Closed(cs, W)
  PROVE  /\ Sound(Discharge(cs, W), Run(cs, W, frame))
         /\ Evaluate(Discharge(cs, W), Run(cs, W, frame)) = Evaluate(cs, frame)
<1> DEFINE N == Len(cs)
           rest == Discharge(cs, W)
           M == Len(rest)
<1>1. PICK V : Solution(cs, V, frame)
  BY SolutionExists
<1> DEFINE left == Meaning(cs, V, W, frame)
<1>2. /\ N \in Nat
      /\ \A i \in 1 .. N : cs[i].ins \cup {cs[i].out} \subseteq DOMAIN frame
  BY DEF Sound, Couplings, KnownFields
<1>3. PICK r : Keeps(cs, W, N, rest, r)
  BY <1>2, DischargeKeeps
<1> DEFINE U == [k \in 1 .. M |-> V[r[k]]]
<1>4. Remains(cs, frame, W, V, rest, r, U, left)
  BY <1>1, <1>3 DEF Remains
<1> HIDE DEF U, left, rest
<1>5. Sound(rest, left) /\ Solution(rest, U, left)
  BY <1>4, RestIsSound, RestIsSolved
<1>6. left = Run(cs, W, frame)
  BY <1>1, ClosedIsReadClosed, RunHasTheMeaning DEF left
<1>7. Evaluate(rest, left) = Meaning(rest, U, 1 .. M, left)
  BY <1>5, EvaluateHasTheMeaning
<1>8. Evaluate(cs, frame) = Meaning(cs, V, 1 .. N, frame)
  BY <1>1, EvaluateHasTheMeaning
<1>9. ASSUME NEW n \in DOMAIN frame
      PROVE  LastValue(U, Writers(rest, 1 .. M, n), left[n])
               = LastValue(V, Writers(cs, 1 .. N, n), frame[n])
  <2>1. \A k \in 1 .. M : r[k] \in 1 .. N /\ rest[k] = cs[r[k]]
    BY <1>2, <1>3, KeptPositions
  <2>2. /\ Writers(cs, 1 .. N, n) \in SUBSET (1 .. N)
        /\ \A i \in Writers(cs, 1 .. N, n) : cs[i].out = n
        /\ \A i \in W : cs[i].out = n => i \in Writers(cs, 1 .. N, n)
    BY DEF Writers
  <2>3. Writers(rest, 1 .. M, n) \in SUBSET (1 .. M)
    BY DEF Writers
  <2>4. \A k \in 1 .. M : k \in Writers(rest, 1 .. M, n) <=> r[k] \in Writers(cs, 1 .. N, n)
    BY <2>1 DEF Writers
  <2>5. WritersLeft(cs, W, rest, r, n, Writers(cs, 1 .. N, n), Writers(rest, 1 .. M, n))
    BY <2>2, <2>3, <2>4 DEF WritersLeft
  <2> QED BY <1>4, <2>5, RestLastValue
<1>10. DOMAIN left = DOMAIN frame
  BY DEF left, Meaning
<1>11. Meaning(rest, U, 1 .. M, left) = Meaning(cs, V, 1 .. N, frame)
  BY <1>9, <1>10 DEF Meaning
<1> QED BY <1>5, <1>6, <1>7, <1>8, <1>11 DEF rest

-----------------------------------------------------------------------------
(* The two targets of consume, and a batch.                                *)

(* consume(ds, column) stores in the column what row access evaluates, and *)
(* leaves nothing pending that writes it.                                  *)
THEOREM ColumnRunCompletes ==
  ASSUME NEW cs, NEW frame, Sound(cs, frame), NEW column \in DOMAIN frame
  PROVE  LET W == CouplingsForColumn(cs, column)
             rest == Discharge(cs, W)
         IN  /\ Run(cs, W, frame)[column] = Evaluate(cs, frame)[column]
             /\ \A k \in DOMAIN rest : rest[k].out # column
<1> DEFINE N == Len(cs)
           W == CouplingsForColumn(cs, column)
           rest == Discharge(cs, W)
<1>1. N \in Nat /\ DOMAIN cs = 1 .. N
  BY DEF Sound, Couplings
<1>2. /\ W \in SUBSET (1 .. N) /\ Closed(cs, W)
      /\ \A i \in 1 .. N : cs[i].out = column => i \in W
  BY <1>1, CouplingsForColumnIsClosed
<1>3. PICK V : Solution(cs, V, frame)
  BY SolutionExists
<1>4. PICK r : Keeps(cs, W, N, rest, r)
  BY <1>1, DischargeKeeps
<1> HIDE DEF W, rest
<1>5. Run(cs, W, frame) = Meaning(cs, V, W, frame)
  BY <1>2, <1>3, ClosedIsReadClosed, RunHasTheMeaning
<1>6. Evaluate(cs, frame) = Meaning(cs, V, 1 .. N, frame)
  BY <1>3, EvaluateHasTheMeaning
<1>7. Writers(cs, W, column) = Writers(cs, 1 .. N, column)
  BY <1>2 DEF Writers
<1>8. Run(cs, W, frame)[column] = Evaluate(cs, frame)[column]
  BY <1>5, <1>6, <1>7 DEF Meaning
<1>9. \A k \in DOMAIN rest : r[k] \in 1 .. N /\ r[k] \notin W /\ rest[k] = cs[r[k]]
  BY <1>1, <1>4, KeptPositions
<1>10. \A k \in DOMAIN rest : rest[k].out # column
  BY <1>2, <1>9
<1> QED BY <1>8, <1>10 DEF W, rest

(* W are the couplings that consuming the snapshot's own coupling i runs,  *)
(* and f is a run of the whole order that stops at i.                      *)
RunsUpTo(cs, frame, i, W, f) ==
  /\ i \in 1 .. Len(cs)
  /\ \E own \in BOOLEAN : own /\ W = CouplingsUpTo(cs, i, own)
  /\ Executes(cs, Order(cs), 1 .. Len(cs), frame, f, Position(cs, i))

AgreeAt(cs, frame, i, W, f) ==
  Run(cs, W, frame)[cs[i].out] = f[Position(cs, i)][cs[i].out]

(* consume(ds, coupling) stores what a run of the order that stops at the  *)
(* target would hold in its field, having run its upstream only.           *)
THEOREM RunUpToStopsAtTarget ==
  ASSUME NEW cs, NEW frame, NEW i, NEW W, NEW f,
         Sound(cs, frame), RunsUpTo(cs, frame, i, W, f)
  PROVE  AgreeAt(cs, frame, i, W, f)
<1> DEFINE N == Len(cs)
           all == 1 .. N
           p == Order(cs)
           at == Position(cs, i)
           out == cs[i].out
<1>0. PICK own \in BOOLEAN : own /\ W = CouplingsUpTo(cs, i, own)
  BY DEF RunsUpTo
<1>1. /\ N \in Nat /\ DOMAIN cs = 1 .. N /\ Len(p) = N
      /\ i \in 1 .. N /\ out \in DOMAIN frame
  BY DEF RunsUpTo, Sound, Couplings, KnownFields
<1>2. /\ W \in SUBSET (1 .. N) /\ ReadClosed(cs, W)
      /\ at \in 1 .. N /\ p[at] = i
      /\ i \in W /\ W \subseteq Done(p, at)
  BY <1>0, <1>1, CouplingsUpToIsClosed
<1>3. PICK V : Solution(cs, V, frame)
  BY SolutionExists
<1>4. Scheduled(cs, frame, p, all) /\ Linear(cs, p)
  BY AllIsReadClosed, SoundIsScheduled DEF Scheduled
<1> HIDE DEF p, at
<1>5. Run(cs, W, frame) = Meaning(cs, V, W, frame)
  BY <1>2, <1>3, RunHasTheMeaning
<1>6. f[at] = Progress(cs, V, all, frame, p, at)
  <2>1. Executes(cs, p, all, frame, f, at) /\ at \in 0 .. N
    BY <1>1, <1>2 DEF p, at, RunsUpTo
  <2>2. \A a \in 0 .. at : f[a] = Progress(cs, V, all, frame, p, a)
    BY <1>3, <1>4, <2>1, ScheduleMeaning
  <2> QED BY <1>2, <2>2
<1> DEFINE E == all \cap Done(p, at)
<1>7. \A j \in Writers(cs, E, out) : j \in 1 .. N /\ j <= i
  <2> SUFFICES ASSUME NEW j \in Writers(cs, E, out) PROVE j \in 1 .. N /\ j <= i
    OBVIOUS
  <2>1. j \in 1 .. N /\ j \in Done(p, at) /\ cs[j].out = out
    BY DEF Writers
  <2>2. PICK a \in 1 .. at : p[a] = j
    BY <2>1 DEF Done
  <2>3. a \in 1 .. N /\ ~ at < a
    BY <1>2
  <2>4. ~ Precedes(cs, i, j)
    BY <1>2, <1>4, <2>2, <2>3 DEF Linear
  <2> QED BY <1>1, <2>1, <2>4 DEF Precedes
<1>8. ASSUME NEW S, W \subseteq S, S \subseteq E
      PROVE  LastValue(V, Writers(cs, S, out), frame[out]) = V[i]
  <2>1. i \in Writers(cs, S, out)
    BY <1>2, <1>8 DEF Writers
  <2>2. Writers(cs, S, out) \subseteq Writers(cs, E, out)
    BY <1>8 DEF Writers
  <2>3. Writers(cs, S, out) \in SUBSET (1 .. N) /\ \A j \in Writers(cs, S, out) : j <= i
    BY <1>7, <2>2
  <2>4. LastOf(Writers(cs, S, out)) = i
    BY <1>1, <2>1, <2>3, LastIs
  <2> QED BY <2>1, <2>4 DEF LastValue
<1>9. W \subseteq E
  BY <1>2
<1>10. LastValue(V, Writers(cs, W, out), frame[out]) = LastValue(V, Writers(cs, E, out), frame[out])
  BY <1>8, <1>9
<1>11. Run(cs, W, frame)[out] = LastValue(V, Writers(cs, W, out), frame[out])
  BY <1>1, <1>5 DEF Meaning
<1>12. f[at][out] = LastValue(V, Writers(cs, E, out), frame[out])
  BY <1>1, <1>6 DEF Progress, Meaning
<1> QED BY <1>10, <1>11, <1>12 DEF at, AgreeAt

(* With nothing pending a row is what is stored. *)
LEMMA NothingPendingEvaluatesToTheFrame ==
  ASSUME NEW cs, NEW frame, Sound(cs, frame), Len(cs) = 0
  PROVE  Evaluate(cs, frame) = frame
<1>1. PICK V : Solution(cs, V, frame)
  BY SolutionExists
<1>2. Evaluate(cs, frame) = Meaning(cs, V, 1 .. Len(cs), frame)
  BY <1>1, EvaluateHasTheMeaning
<1>3. 1 .. Len(cs) = {}
  OBVIOUS
<1>4. \A n : Writers(cs, {}, n) = {}
  BY DEF Writers
<1>5. Meaning(cs, V, {}, frame) = frame
  BY <1>4 DEF Meaning, LastValue, Sound, IsFrame
<1> QED BY <1>2, <1>3, <1>5

(* snap is worth what frame and the couplings cs over it evaluate to, and  *)
(* its pending outputs are among those of outs from the k-th on.           *)
Worth(snap, k, outs, C, cs, frame) ==
  /\ \E now, rest :
       /\ snap = [stored |-> now, pending |-> rest]
       /\ rest \in Seq(C) /\ Sound(rest, now) /\ DOMAIN now = DOMAIN frame
       /\ Evaluate(rest, now) = Evaluate(cs, frame)
       /\ \A i \in DOMAIN rest : \E m \in k .. Len(outs) : outs[m] = rest[i].out

(* One step of a batch keeps what the snapshot is worth and does its       *)
(* column.                                                                 *)
LEMMA ConsumeColumnKeepsTheWorth ==
  ASSUME NEW snap, NEW outs, Len(outs) \in Nat, NEW k \in 1 .. Len(outs), NEW C, NEW cs, NEW frame,
         Worth(snap, k, outs, C, cs, frame), outs[k] \in DOMAIN frame
  PROVE  Worth(ConsumeColumn(snap, outs[k]), k + 1, outs, C, cs, frame)
<1> DEFINE column == outs[k]
<1>1. PICK now, rest :
       /\ snap = [stored |-> now, pending |-> rest]
       /\ rest \in Seq(C) /\ Sound(rest, now) /\ DOMAIN now = DOMAIN frame
       /\ Evaluate(rest, now) = Evaluate(cs, frame)
       /\ \A i \in DOMAIN rest : \E m \in k .. Len(outs) : outs[m] = rest[i].out
  BY DEF Worth
<1> DEFINE W == CouplingsForColumn(rest, column)
           new == Run(rest, W, now)
           left == Discharge(rest, W)
<1>2. Len(rest) \in Nat /\ DOMAIN rest = 1 .. Len(rest)
  BY <1>1 DEF Sound, Couplings
<1>3. W \in SUBSET (1 .. Len(rest)) /\ Closed(rest, W)
  BY <1>2, CouplingsForColumnIsClosed
<1>4. \A j \in DOMAIN left : left[j].out # column
  BY <1>1, ColumnRunCompletes
<1>5. ConsumeColumn(snap, column) = [stored |-> new, pending |-> left]
  <2>1. snap.pending = rest /\ snap.stored = now
    BY <1>1
  <2>2. ConsumeColumn(snap, column) = [snap EXCEPT !.stored = new, !.pending = left]
    BY <2>1 DEF ConsumeColumn
  <2> HIDE DEF new, left
  <2> QED BY <1>1, <2>2
<1>6. PICK r : Keeps(rest, W, Len(rest), left, r)
  BY <1>2, DischargeKeeps
<1>7. PICK V : Solution(rest, V, now)
  BY <1>1, SolutionExists
<1> HIDE DEF W
<1>8. new = Meaning(rest, V, W, now)
  BY <1>1, <1>3, <1>7, ClosedIsReadClosed, RunHasTheMeaning
<1>9. DOMAIN new = DOMAIN frame
  BY <1>1, <1>8 DEF Meaning
<1>10. Sound(left, new) /\ Evaluate(left, new) = Evaluate(rest, now)
  BY <1>1, <1>3, ClosedRunKeepsTheEvaluation
<1> HIDE DEF left, new
<1>11. left \in Seq(C)
  <2> DEFINE B == {rest[i] : i \in 1 .. Len(rest)}
  <2>1. left \in Seq(B)
    BY <1>6 DEF Keeps
  <2>2. B \subseteq C
    BY <1>1
  <2> HIDE DEF B
  <2> QED BY <2>1, <2>2
<1>12. ASSUME NEW j \in DOMAIN left
       PROVE  \E m \in (k + 1) .. Len(outs) : outs[m] = left[j].out
  <2>1. j \in 1 .. Len(left)
    BY <1>2, <1>6, KeptPositions
  <2>2. r[j] \in DOMAIN rest /\ left[j] = rest[r[j]]
    BY <1>2, <1>6, <2>1, KeptPositions
  <2>3. PICK m \in k .. Len(outs) : outs[m] = left[j].out
    BY <1>1, <2>2
  <2>4. m # k
    BY <1>4, <2>3
  <2>5. m \in (k + 1) .. Len(outs)
    BY <2>4
  <2> QED BY <2>3, <2>5
<1>13. Evaluate(left, new) = Evaluate(cs, frame)
  BY <1>1, <1>10
<1> QED BY <1>5, <1>9, <1>10, <1>11, <1>12, <1>13 DEF Worth

(* A batch that consumes every pending output, in any order, ends with the *)
(* row that row access evaluates and nothing pending.                      *)
THEOREM BatchIsTheRow ==
  ASSUME NEW C, NEW cs \in Seq(C), NEW frame, Sound(cs, frame),
         NEW outs, Len(outs) \in Nat,
         \A i \in DOMAIN cs : \E m \in 1 .. Len(outs) : outs[m] = cs[i].out,
         \A k \in 1 .. Len(outs) : outs[k] \in DOMAIN frame
  PROVE  LET batch == ConsumeAll([stored |-> frame, pending |-> cs], outs)
         IN  batch.stored = Evaluate(cs, frame) /\ batch.pending = <<>>
<1> DEFINE K == Len(outs)
           snap == [stored |-> frame, pending |-> cs]
<1>1. PICK f : /\ f[0] = snap
               /\ \A k \in 1 .. K : f[k] = ConsumeColumn(f[k-1], outs[k])
               /\ ConsumeAll(snap, outs) = f[K]
  BY ConsumeAllEquation
<1> DEFINE T == {k \in 0 .. K : Worth(f[k], k + 1, outs, C, cs, frame)}
<1>2. 0 \in T
  <2>1. Worth(snap, 1, outs, C, cs, frame)
    BY DEF Worth
  <2> QED BY <1>1, <2>1
<1>3. ASSUME NEW k \in 1 .. K, k - 1 \in T
      PROVE  k \in T
  <2>1. Worth(f[k-1], k, outs, C, cs, frame)
    BY <1>3
  <2>2. Worth(ConsumeColumn(f[k-1], outs[k]), k + 1, outs, C, cs, frame)
    BY <2>1, ConsumeColumnKeepsTheWorth
  <2> QED BY <1>1, <2>2
<1>4. \A k \in 0 .. K : k \in T
  <2> HIDE DEF T
  <2>1. \A k \in 1 .. K : k - 1 \in T => k \in T
    BY <1>3
  <2> QED BY <1>2, <2>1, SegmentInduction, Zenon
<1>5. Worth(f[K], K + 1, outs, C, cs, frame)
  BY <1>4
<1>6. PICK now, rest :
       /\ f[K] = [stored |-> now, pending |-> rest]
       /\ rest \in Seq(C) /\ Sound(rest, now)
       /\ Evaluate(rest, now) = Evaluate(cs, frame)
       /\ \A i \in DOMAIN rest : \E m \in (K + 1) .. K : outs[m] = rest[i].out
  BY <1>5 DEF Worth
<1>7. DOMAIN rest = {}
  BY <1>6
<1>8. Len(rest) = 0 /\ rest = <<>>
  BY <1>6, <1>7
<1>9. Evaluate(rest, now) = now
  BY <1>6, <1>8, NothingPendingEvaluatesToTheFrame
<1> QED BY <1>1, <1>6, <1>8, <1>9

-----------------------------------------------------------------------------
(* Recording one coupling more.                                            *)

(* more is cs with coupling w recorded last.                               *)
Recorded(cs, w, more) ==
  /\ Len(more) = Len(cs) + 1 /\ DOMAIN more = 1 .. Len(cs) + 1
  /\ \A i \in 1 .. Len(cs) : more[i] = cs[i]
  /\ more[Len(cs) + 1] = w

(* The field w writes is read by its own chain only.                       *)
Unread(cs, w) == \A i \in 1 .. Len(cs) : w.out \in cs[i].ins => cs[i].out = w.out

(* The earlier couplings depend on one another as they did; on an unread   *)
(* one none of them does.                                                  *)
LEMMA RecordedPrecedes ==
  ASSUME NEW cs, Len(cs) \in Nat, NEW w, NEW more, Recorded(cs, w, more)
  PROVE  /\ \A i, j \in 1 .. Len(cs) : Precedes(more, i, j) <=> Precedes(cs, i, j)
         /\ Unread(cs, w) => \A i \in 1 .. Len(cs) : ~Precedes(more, Len(cs) + 1, i)
         /\ \A i \in 1 .. Len(cs) :
              Precedes(more, i, Len(cs) + 1) <=> cs[i].out = w.out \/ cs[i].out \in w.ins
<1>1. \A i \in 1 .. Len(cs) : i # Len(cs) + 1 /\ i < Len(cs) + 1 /\ ~(Len(cs) + 1 < i)
  OBVIOUS
<1> QED BY <1>1 DEF Recorded, Unread, Precedes

(* What is accepted with w recorded was accepted without it.               *)
LEMMA OrderWasComplete ==
  ASSUME NEW cs, Len(cs) \in Nat, DOMAIN cs = 1 .. Len(cs),
         NEW w, NEW more, Recorded(cs, w, more), Len(Order(more)) = Len(more)
  PROVE  Len(Order(cs)) = Len(cs)
<1> DEFINE N == Len(cs)
           p == Order(more)
<1>1. Linear(more, p) /\ Len(more) = N + 1
  BY OrderIsLinear DEF Recorded
<1> HIDE DEF p
<1> DEFINE rank == [i \in 1 .. N |-> CHOOSE a \in 1 .. N + 1 : p[a] = i]
<1>2. \A i \in 1 .. N : rank[i] \in 1 .. N + 1 /\ p[rank[i]] = i
  <2> TAKE i \in 1 .. N
  <2>1. \E a \in 1 .. N + 1 : p[a] = i
    BY <1>1 DEF Linear
  <2> QED BY <2>1
<1>3. rank \in [1 .. N -> Nat]
  BY <1>2
<1> HIDE DEF rank
<1>4. \A i, j \in 1 .. N : Precedes(cs, i, j) => rank[i] < rank[j]
  <2> TAKE i, j \in 1 .. N
  <2> HAVE Precedes(cs, i, j)
  <2>1. Precedes(more, p[rank[i]], p[rank[j]])
    BY <1>2, RecordedPrecedes
  <2> QED BY <1>1, <1>2, <2>1 DEF Linear
<1> QED BY <1>3, <1>4, RankedOrderIsComplete

(* The engine accepts one coupling more when nothing pending for another   *)
(* field reads what it writes.                                             *)
LEMMA RecordedIsSound ==
  ASSUME NEW cs, NEW frame, Sound(cs, frame), NEW w, Local(w),
         w.ins \cup {w.out} \subseteq DOMAIN frame, Unread(cs, w),
         NEW more, Recorded(cs, w, more)
  PROVE  Sound(more, frame)
<1> DEFINE N == Len(cs)
           p == Order(cs)
<1>1. N \in Nat /\ DOMAIN cs = 1 .. N /\ Len(p) = N
  BY DEF Sound, Couplings
<1>2. Linear(cs, p)
  BY <1>1, OrderIsLinear
<1> HIDE DEF p
<1> DEFINE place(i) == CHOOSE a \in 1 .. N : p[a] = i
           rank == [i \in 1 .. N + 1 |-> IF i = N + 1 THEN N + 1 ELSE place(i)]
<1>3. \A i \in 1 .. N : place(i) \in 1 .. N /\ p[place(i)] = i
  <2> TAKE i \in 1 .. N
  <2>1. \E a \in 1 .. N : p[a] = i
    BY <1>2 DEF Linear
  <2> QED BY <2>1
<1> HIDE DEF place
<1>4. rank[N + 1] = N + 1 /\ \A i \in 1 .. N : rank[i] = place(i)
  BY <1>1
<1>5. rank \in [1 .. N + 1 -> Nat]
  BY <1>1, <1>3
<1> HIDE DEF rank
<1>6. \A i, j \in 1 .. N + 1 : Precedes(more, i, j) => rank[i] < rank[j]
  <2> TAKE i, j \in 1 .. N + 1
  <2> HAVE Precedes(more, i, j)
  <2>1. CASE j = N + 1
    <3>1. i # N + 1
      BY <2>1 DEF Precedes
    <3>2. i \in 1 .. N
      BY <1>1, <3>1
    <3>3. rank[i] \in 1 .. N
      BY <1>3, <1>4, <3>2
    <3> QED BY <1>1, <1>4, <2>1, <3>3
  <2>2. CASE j \in 1 .. N
    <3>1. i \in 1 .. N
      BY <1>1, <2>2, RecordedPrecedes
    <3>2. Precedes(cs, p[place(i)], p[place(j)])
      BY <1>1, <1>3, <2>2, <3>1, RecordedPrecedes
    <3>3. place(i) \in 1 .. N /\ place(j) \in 1 .. N
      BY <1>3, <2>2, <3>1
    <3>4. place(i) < place(j)
      BY <1>2, <3>2, <3>3 DEF Linear
    <3> QED BY <1>4, <2>2, <3>1, <3>4
  <2> QED BY <1>1, <2>1, <2>2
<1>7. Len(Order(more)) = Len(more)
  BY <1>1, <1>5, <1>6, RankedOrderIsComplete DEF Recorded
<1>8. KnownFields(more, DOMAIN frame) /\ \A i \in DOMAIN more : Local(more[i])
  BY <1>1 DEF Sound, Couplings, KnownFields, Recorded
<1>9. Len(more) \in Nat /\ DOMAIN more = 1 .. Len(more)
  BY <1>1 DEF Recorded
<1> QED BY <1>7, <1>8, <1>9 DEF Sound, Couplings

(* The values V, and one more past the N-th.                               *)
OneMore(V, N, new) == [i \in 1 .. N + 1 |-> IF i = N + 1 THEN new ELSE V[i]]

LEMMA OneMoreValues ==
  ASSUME NEW V, NEW N \in Nat, NEW new
  PROVE  /\ OneMore(V, N, new)[N + 1] = new
         /\ \A i \in 1 .. N : OneMore(V, N, new)[i] = V[i]
         /\ \A S \in SUBSET (1 .. N) : \A old :
              LastValue(OneMore(V, N, new), S, old) = LastValue(V, S, old)
<1> DEFINE U == OneMore(V, N, new)
<1>1. \A i \in 1 .. N : i \in 1 .. N + 1 /\ i # N + 1
  OBVIOUS
<1>2. U[N + 1] = new /\ \A i \in 1 .. N : U[i] = V[i]
  BY <1>1 DEF OneMore
<1> HIDE DEF U
<1>3. ASSUME NEW S \in SUBSET (1 .. N), NEW old
      PROVE  LastValue(U, S, old) = LastValue(V, S, old)
  <2>1. CASE S = {}
    BY <2>1 DEF LastValue
  <2>2. CASE S # {}
    <3>1. LastOf(S) \in 1 .. N
      BY <2>2, LastIsGreatest
    <3> QED BY <1>2, <2>2, <3>1 DEF LastValue
  <2> QED BY <2>1, <2>2
<1> QED BY <1>2, <1>3 DEF U

(* What the earlier couplings compute stays a solution with what w makes   *)
(* of the row they leave.                                                  *)
LEMMA RecordedIsSolved ==
  ASSUME NEW cs, NEW frame, Sound(cs, frame), NEW w, Local(w),
         w.ins \cup {w.out} \subseteq DOMAIN frame, Unread(cs, w),
         NEW more, Recorded(cs, w, more),
         NEW V, Solution(cs, V, frame)
  PROVE  Solution(more, OneMore(V, Len(cs), Compute(w, Meaning(cs, V, 1 .. Len(cs), frame))), frame)
<1> DEFINE N == Len(cs)
           row == Meaning(cs, V, 1 .. N, frame)
           new == Compute(w, row)
           U == OneMore(V, N, new)
<1>1. /\ N \in Nat /\ Len(more) = N + 1 /\ more[N + 1] = w
      /\ \A i \in 1 .. N : more[i] = cs[i] /\ cs[i].ins \subseteq DOMAIN frame
  BY DEF Sound, Couplings, KnownFields, Recorded
<1> HIDE DEF new
<1>2. U[N + 1] = new /\ \A i \in 1 .. N : U[i] = V[i]
  BY <1>1, OneMoreValues
<1>3. ASSUME NEW S \in SUBSET (1 .. N), NEW old
      PROVE  LastValue(U, S, old) = LastValue(V, S, old)
  BY <1>1, OneMoreValues
<1> HIDE DEF U
<1>4. ASSUME NEW i \in 1 .. N
      PROVE  U[i] = Compute(more[i], Reads(more, U, frame, i))
  <2>1. ASSUME NEW n \in cs[i].ins
        PROVE  Before(more, i, n) = Before(cs, i, n)
    <3>1. ~Precedes(more, N + 1, i)
      BY <1>1, RecordedPrecedes
    <3>2. \A j \in 1 .. N + 1 : j = N + 1 \/ j \in 1 .. N
      BY <1>1
    <3>3. \A j \in 1 .. N : Precedes(more, j, i) <=> Precedes(cs, j, i)
      BY <1>1, RecordedPrecedes
    <3> QED BY <1>1, <3>1, <3>2, <3>3 DEF Before
  <2>2. \A n \in cs[i].ins : Before(cs, i, n) \in SUBSET (1 .. N)
    BY DEF Before
  <2>3. Reads(more, U, frame, i) = Reads(cs, V, frame, i)
    BY <1>1, <1>3, <2>1, <2>2 DEF Reads
  <2> QED BY <1>1, <1>2, <2>3 DEF Solution
<1>5. U[N + 1] = Compute(more[N + 1], Reads(more, U, frame, N + 1))
  <2>1. ASSUME NEW n \in w.ins
        PROVE  Before(more, N + 1, n) = Writers(cs, 1 .. N, n)
    <3>1. ~Precedes(more, N + 1, N + 1)
      BY DEF Precedes
    <3>2. \A j \in 1 .. N + 1 : j = N + 1 \/ j \in 1 .. N
      BY <1>1
    <3>3. \A j \in 1 .. N : cs[j].out = n => Precedes(more, j, N + 1)
      BY <1>1, RecordedPrecedes
    <3>4. \A j \in 1 .. N : j \in 1 .. N + 1
      BY <1>1
    <3> QED BY <1>1, <3>1, <3>2, <3>3, <3>4 DEF Before, Writers
  <2>2. \A n \in w.ins : Writers(cs, 1 .. N, n) \in SUBSET (1 .. N)
    BY DEF Writers
  <2>3. \A n \in w.ins : Reads(more, U, frame, N + 1)[n] = row[n]
    BY <1>1, <1>3, <2>1, <2>2 DEF Reads, Meaning
  <2> QED BY <1>1, <1>2, <2>3 DEF Local, new
<1>6. \A i \in 1 .. N + 1 : U[i] = Compute(more[i], Reads(more, U, frame, i))
  <2>1. \A j \in 1 .. N + 1 : j = N + 1 \/ j \in 1 .. N
    BY <1>1
  <2> QED BY <1>4, <1>5, <2>1
<1>7. Solution(more, U, frame)
  BY <1>1, <1>6 DEF Solution
<1> QED BY <1>7 DEF U, new

(* Recording a coupling whose output no pending work for another field     *)
(* reads is running it: every row evaluates to what the coupling makes of  *)
(* the row as it evaluated before.                                         *)
THEOREM RecordingIsRunning ==
  ASSUME NEW cs, NEW frame, Sound(cs, frame), NEW w, Local(w),
         w.ins \cup {w.out} \subseteq DOMAIN frame, Unread(cs, w),
         NEW more, Recorded(cs, w, more)
  PROVE  /\ Sound(more, frame)
         /\ Evaluate(more, frame) =
              [Evaluate(cs, frame) EXCEPT ![w.out] = Compute(w, Evaluate(cs, frame))]
<1> DEFINE N == Len(cs)
<1>1. N \in Nat /\ Len(more) = N + 1 /\ more[N + 1] = w /\ \A i \in 1 .. N : more[i] = cs[i]
  BY DEF Sound, Couplings, Recorded
<1>2. Sound(more, frame)
  BY RecordedIsSound
<1>3. PICK V : Solution(cs, V, frame)
  BY SolutionExists
<1> DEFINE row == Meaning(cs, V, 1 .. N, frame)
           new == Compute(w, row)
           U == OneMore(V, N, new)
<1>4. Evaluate(cs, frame) = row
  BY <1>3, EvaluateHasTheMeaning
<1>5. Solution(more, U, frame)
  BY <1>3, RecordedIsSolved
<1> HIDE DEF new
<1>6. U[N + 1] = new /\ \A i \in 1 .. N : U[i] = V[i]
  <2>1. N \in Nat
    BY <1>1
  <2> HIDE DEF N
  <2> QED BY ONLY <2>1, OneMoreValues
<1> HIDE DEF U
<1>7. Evaluate(more, frame) = Meaning(more, U, 1 .. N + 1, frame)
  BY <1>1, <1>2, <1>5, EvaluateHasTheMeaning
<1> DEFINE after == [row EXCEPT ![w.out] = new]
<1>8. ASSUME NEW n \in DOMAIN frame
      PROVE  Meaning(more, U, 1 .. N + 1, frame)[n] = after[n]
  <2> DEFINE S == Writers(more, 1 .. N + 1, n)
  <2>1. Meaning(more, U, 1 .. N + 1, frame)[n] = LastValue(U, S, frame[n])
    BY DEF Meaning
  <2>2. S \in SUBSET (1 .. N + 1) /\ N + 1 \in Nat
    BY <1>1 DEF Writers
  <2>3. CASE n = w.out
    <3>1. N + 1 \in S
      BY <1>1, <2>3 DEF Writers
    <3>2. \A j \in S : j <= N + 1
      BY <1>1, <2>2
    <3>3. LastOf(S) = N + 1
      BY <2>2, <3>1, <3>2, LastIs
    <3>4. LastValue(U, S, frame[n]) = new
      BY <1>6, <3>1, <3>3 DEF LastValue
    <3> QED BY <2>1, <2>3, <3>4 DEF Meaning
  <2>4. CASE n # w.out
    <3>1. \A j \in 1 .. N + 1 : j = N + 1 \/ j \in 1 .. N
      BY <1>1
    <3>2. S = Writers(cs, 1 .. N, n)
      <4>1. \A j \in 1 .. N : j \in 1 .. N + 1
        BY <1>1
      <4> QED BY <1>1, <2>4, <3>1, <4>1 DEF Writers
    <3>3. LastValue(U, S, frame[n]) = LastValue(V, S, frame[n])
      <4>1. CASE S = {}
        BY <4>1 DEF LastValue
      <4>2. CASE S # {}
        <5>1. S \in SUBSET (1 .. N)
          BY <3>2 DEF Writers
        <5>2. LastOf(S) \in 1 .. N
          BY <1>1, <4>2, <5>1, LastIsGreatest
        <5> QED BY <1>6, <4>2, <5>2 DEF LastValue
      <4> QED BY <4>1, <4>2
    <3>4. after[n] = row[n]
      BY <2>4 DEF Meaning
    <3> QED BY <2>1, <3>2, <3>3, <3>4 DEF Meaning
  <2> QED BY <2>3, <2>4
<1>9. Meaning(more, U, 1 .. N + 1, frame) = after
  <2>1. DOMAIN after = DOMAIN frame /\ after = [n \in DOMAIN frame |-> after[n]]
    BY DEF Meaning
  <2>2. Meaning(more, U, 1 .. N + 1, frame)
          = [n \in DOMAIN frame |-> Meaning(more, U, 1 .. N + 1, frame)[n]]
    BY DEF Meaning
  <2> HIDE DEF after
  <2> QED BY <1>8, <2>1, <2>2
<1> QED BY <1>2, <1>4, <1>7, <1>9 DEF new

(* A field that no pending coupling writes is what is stored.              *)
LEMMA UnwrittenIsStored ==
  ASSUME NEW cs, NEW frame, Sound(cs, frame), NEW n \in DOMAIN frame,
         \A i \in 1 .. Len(cs) : cs[i].out # n
  PROVE  Evaluate(cs, frame)[n] = frame[n]
<1>1. PICK V : Solution(cs, V, frame)
  BY SolutionExists
<1>2. Writers(cs, 1 .. Len(cs), n) = {}
  BY DEF Writers
<1> QED BY <1>1, <1>2, EvaluateHasTheMeaning DEF Meaning, LastValue

(* What was recorded last, unless it reads what it writes, is computed     *)
(* from the row that row access returns.                                   *)
LEMMA LastWorkReadsTheRow ==
  ASSUME NEW cs, NEW frame, Sound(cs, frame), NEW N \in Nat, Len(cs) = N, N # 0,
         cs[N].out \notin cs[N].ins
  PROVE  Evaluate(cs, frame)[cs[N].out] = Compute(cs[N], Evaluate(cs, frame))
<1> DEFINE W == 1 .. N
           out == cs[N].out
<1>1. PICK V : Solution(cs, V, frame)
  BY SolutionExists
<1>2. PICK row : row = Evaluate(cs, frame)
  OBVIOUS
<1>3. row = Meaning(cs, V, W, frame)
  BY <1>1, <1>2, EvaluateHasTheMeaning
<1>4. N \in W /\ Local(cs[N]) /\ out \in DOMAIN frame /\ cs[N].ins \subseteq DOMAIN frame
  BY DEF Sound, Couplings, KnownFields
<1>5. ASSUME NEW n \in cs[N].ins PROVE row[n] = Reads(cs, V, frame, N)[n]
  <2>1. Before(cs, N, n) = Writers(cs, W, n)
    BY <1>4 DEF Before, Writers, Precedes
  <2> QED BY <1>3, <1>4, <2>1 DEF Meaning, Reads
<1>6. Compute(cs[N], row) = Compute(cs[N], Reads(cs, V, frame, N))
  BY <1>4, <1>5 DEF Local
<1>7. row[out] = V[N]
  <2>1. Writers(cs, W, out) \in SUBSET W /\ N \in Writers(cs, W, out)
    BY <1>4 DEF Writers
  <2>2. PICK S \in SUBSET (1 .. N) : S = Writers(cs, W, out) /\ N \in S
    BY <2>1
  <2>3. \A j \in S : j <= N
    BY <2>2
  <2>4. LastOf(S) = N
    <3>1. LastOf(S) \in S /\ \A j \in S : j <= LastOf(S)
      BY <2>2, LastIsGreatest
    <3> QED BY <2>2, <2>3, <3>1
  <2> QED BY <1>3, <1>4, <2>2, <2>4 DEF Meaning, LastValue
<1> QED BY <1>1, <1>2, <1>4, <1>6, <1>7 DEF Solution
=============================================================================
