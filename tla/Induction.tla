------------------------------ MODULE Induction ------------------------------
(***************************************************************************)
(* Induction over an initial segment of the naturals, stated over a set    *)
(* (the numbers for which the claim holds) rather than over a predicate,   *)
(* so that first-order provers can instantiate it, and what follows from   *)
(* it about sequences and sums: the models' recursive functions, and the   *)
(* folds of the library, all run over such a segment.                      *)
(***************************************************************************)
EXTENDS Naturals, SequencesExt, FiniteSetTheorems, WellFoundedInduction, RowChoice, TLAPS

(* A set of naturals with an element has a least one. *)
THEOREM LeastNatural ==
  ASSUME NEW T \in SUBSET Nat, T # {}
  PROVE  \E m \in T : \A k \in T : m <= k
<1>1. PICK m \in T : \A k \in T : ~ <<k, m>> \in OpToRel(<, Nat)
  BY NatLessThanWellFounded, WFMin, Zenon
<1>2. \A k \in T : ~ k < m
  BY <1>1, Zenon DEF OpToRel
<1> QED BY <1>2

(* A set that holds 0, and k whenever it holds k - 1, holds the segment. *)
THEOREM SegmentInduction ==
  ASSUME NEW N \in Nat, NEW T,
         0 \in T, \A k \in 1 .. N : k - 1 \in T => k \in T
  PROVE  \A k \in 0 .. N : k \in T
<1> DEFINE out == {k \in 0 .. N : k \notin T}
<1> SUFFICES ASSUME out # {} PROVE FALSE
  OBVIOUS
<1>1. out \in SUBSET Nat
  OBVIOUS
<1>2. PICK m \in out : \A k \in out : m <= k
  BY <1>1, LeastNatural
<1>3. m # 0 /\ m \in 1 .. N /\ m - 1 \in 0 .. N
  OBVIOUS
<1>4. m - 1 \notin out
  BY <1>2, <1>3
<1> QED BY <1>3, <1>4

(* A bounded set of naturals with an element has a greatest one. *)
THEOREM GreatestNatural ==
  ASSUME NEW N \in Nat, NEW T \in SUBSET (0 .. N), T # {}
  PROVE  \E m \in T : \A k \in T : k <= m
<1> DEFINE down == {d \in 0 .. N : N - d \in T}
<1>1. down \in SUBSET Nat
  OBVIOUS
<1>2. PICK t \in T : TRUE
  OBVIOUS
<1>3. N - t \in down
  OBVIOUS
<1>4. PICK d \in down : \A k \in down : d <= k
  BY <1>1, <1>3, LeastNatural
<1>5. \A k \in T : N - k \in down
  OBVIOUS
<1>6. \A k \in T : k <= N - d
  BY <1>4, <1>5
<1> QED BY <1>6

-----------------------------------------------------------------------------
(* Choosing members of a sequence, and concatenating sequences.            *)

ChosenOne(s, P, n, prev) == IF n \in P THEN Append(prev, s[n]) ELSE prev

(* Chosen(s, P) looks at the members one by one. *)
LEMMA ChosenEquation ==
  ASSUME NEW s, NEW P, Len(s) \in Nat
  PROVE  \E f : /\ f[0] = <<>>
                /\ \A n \in 1 .. Len(s) : f[n] = ChosenOne(s, P, n, f[n-1])
                /\ Chosen(s, P) = f[Len(s)]
<1> DEFINE N == Len(s)
           eqn(n, g) == g = [k \in 0 .. n |->
                               IF k = 0 THEN <<>> ELSE ChosenOne(s, P, k, g[k-1])]
           T == {n \in 0 .. N : \E g : eqn(n, g)}
<1>1. \E g : eqn(0, g)
  <2> WITNESS [k \in 0 .. 0 |-> <<>>]
  <2> QED OBVIOUS
<1>2. ASSUME NEW n \in 1 .. N, NEW g, eqn(n - 1, g)
      PROVE  \E h : eqn(n, h)
  <2> DEFINE h == [k \in 0 .. n |-> IF k = n THEN ChosenOne(s, P, n, g[n-1]) ELSE g[k]]
  <2> SUFFICES eqn(n, h)
    OBVIOUS
  <2>1. ASSUME NEW k \in 0 .. n
        PROVE  h[k] = IF k = 0 THEN <<>> ELSE ChosenOne(s, P, k, h[k-1])
    <3>1. CASE k = n
      BY <3>1
    <3>2. CASE k # n
      BY <3>2, <1>2
    <3> QED BY <3>1, <3>2
  <2> QED BY <2>1
<1>3. \E g : eqn(N, g)
  <2> HIDE DEF eqn
  <2>1. 0 \in T /\ \A n \in 1 .. N : n - 1 \in T => n \in T
    BY <1>1, <1>2
  <2> HIDE DEF T
  <2>2. \A n \in 0 .. N : n \in T
    BY <2>1, SegmentInduction, Zenon
  <2> QED BY <2>2 DEF T
<1> DEFINE f == CHOOSE g : eqn(N, g)
<1>4. eqn(N, f)
  <2> HIDE DEF eqn
  <2> QED BY <1>3
<1>5. Chosen(s, P) = f[N]
  BY DEF Chosen, ChosenOne
<1> HIDE DEF f
<1>6. f[0] = <<>> /\ \A n \in 1 .. N : f[n] = ChosenOne(s, P, n, f[n-1])
  BY <1>4
<1> QED BY <1>5, <1>6

(* k enumerates the positions P up to n, in order: c holds the members at  *)
(* those positions.                                                        *)
Enumerates(k, P, n) ==
  /\ Len(k) \in Nat /\ k \in [1 .. Len(k) -> 1 .. n]
  /\ \A a, b \in 1 .. Len(k) : a < b => k[a] < k[b]
  /\ \A i \in 1 .. n : i \in P <=> \E a \in 1 .. Len(k) : k[a] = i

Picks(c, s, P, n) ==
  \E k : Enumerates(k, P, n) /\ c = [a \in 1 .. Len(k) |-> s[k[a]]]

(* The chosen members are those at the chosen positions, in order. *)
LEMMA ChosenPicks ==
  ASSUME NEW s, NEW P, Len(s) \in Nat
  PROVE  Picks(Chosen(s, P), s, P, Len(s))
<1> DEFINE N == Len(s)
<1>1. PICK f : /\ f[0] = <<>>
               /\ \A n \in 1 .. N : f[n] = ChosenOne(s, P, n, f[n-1])
               /\ Chosen(s, P) = f[N]
  BY ChosenEquation
<1> DEFINE T == {n \in 0 .. N : Picks(f[n], s, P, n)}
<1>2. Picks(f[0], s, P, 0)
  <2>1. Enumerates(<<>>, P, 0)
    BY DEF Enumerates
  <2>2. f[0] = [a \in 1 .. Len(<<>>) |-> s[<<>>[a]]]
    BY <1>1
  <2> QED BY <2>1, <2>2 DEF Picks
<1>3. ASSUME NEW n \in 1 .. N, Picks(f[n-1], s, P, n - 1)
      PROVE  Picks(f[n], s, P, n)
  <2>1. PICK k : Enumerates(k, P, n - 1) /\ f[n-1] = [a \in 1 .. Len(k) |-> s[k[a]]]
    BY <1>3 DEF Picks
  <2>2. f[n] = ChosenOne(s, P, n, f[n-1])
    BY <1>1
  <2>3. CASE n \notin P
    <3>1. Enumerates(k, P, n)
      BY <2>1, <2>3 DEF Enumerates
    <3> QED BY <2>1, <2>2, <2>3, <3>1 DEF Picks, ChosenOne
  <2>4. CASE n \in P
    <3> DEFINE M == Len(k)
               h == [a \in 1 .. M + 1 |-> IF a = M + 1 THEN n ELSE k[a]]
    <3>1. M \in Nat /\ Len(h) = M + 1
      BY <2>1 DEF Enumerates
    <3>2. Enumerates(h, P, n)
      <4>1. h \in [1 .. M + 1 -> 1 .. n]
        BY <2>1, <3>1 DEF Enumerates
      <4>2. ASSUME NEW a \in 1 .. M + 1, NEW b \in 1 .. M + 1, a < b
            PROVE  h[a] < h[b]
        <5>1. a \in 1 .. M /\ h[a] = k[a] /\ k[a] \in 1 .. n - 1
          BY <2>1, <3>1, <4>2 DEF Enumerates
        <5>2. CASE b = M + 1
          BY <5>1, <5>2
        <5>3. CASE b # M + 1
          <6>1. b \in 1 .. M /\ h[b] = k[b]
            BY <3>1, <5>3
          <6> QED BY <2>1, <4>2, <5>1, <6>1 DEF Enumerates
        <5> QED BY <5>2, <5>3
      <4>3. ASSUME NEW i \in 1 .. n
            PROVE  i \in P <=> \E a \in 1 .. M + 1 : h[a] = i
        <5>1. CASE i = n
          <6>1. M + 1 \in 1 .. M + 1 /\ h[M + 1] = n
            BY <3>1
          <6> QED BY <5>1, <6>1, <2>4
        <5>2. CASE i # n
          <6>1. i \in 1 .. n - 1
            BY <5>2
          <6>2. i \in P <=> \E a \in 1 .. M : k[a] = i
            BY <2>1, <6>1 DEF Enumerates
          <6>3. (\E a \in 1 .. M + 1 : h[a] = i) <=> \E a \in 1 .. M : k[a] = i
            BY <3>1, <5>2
          <6> QED BY <6>2, <6>3
        <5> QED BY <5>1, <5>2
      <4> HIDE DEF h
      <4> QED BY <3>1, <4>1, <4>2, <4>3 DEF Enumerates
    <3>3. Append(f[n-1], s[n]) = [a \in 1 .. M + 1 |-> s[h[a]]]
      BY <2>1, <3>1
    <3> QED BY <2>2, <2>4, <3>1, <3>2, <3>3 DEF Picks, ChosenOne
  <2> QED BY <2>3, <2>4
<1>4. 0 \in T /\ \A n \in 1 .. N : n - 1 \in T => n \in T
  BY <1>2, <1>3
<1> HIDE DEF T
<1>5. \A n \in 0 .. N : n \in T
  BY <1>4, SegmentInduction, Zenon
<1>6. N \in T
  BY <1>5
<1> QED BY <1>1, <1>6 DEF T

JoinOne(seqs, i, prev) == prev \o seqs[i]

(* FlattenSeq appends the sequences one by one. *)
LEMMA FlattenEquation ==
  ASSUME NEW S, NEW seqs \in Seq(Seq(S))
  PROVE  \E f : /\ f[0] = <<>>
                /\ \A i \in 1 .. Len(seqs) : f[i] = f[i-1] \o seqs[i]
                /\ FlattenSeq(seqs) = f[Len(seqs)]
<1> DEFINE N == Len(seqs)
           eqn(n, g) == g = [i \in 1 .. n |->
                               IF i = 1 THEN seqs[i] ELSE JoinOne(seqs, i, g[i-1])]
           T == {n \in 0 .. N : \E g : eqn(n, g)}
<1>0. N \in Nat /\ seqs = [i \in 1 .. N |-> seqs[i]] /\ \A i \in 1 .. N : seqs[i] \in Seq(S)
  OBVIOUS
<1>1. \E g : eqn(0, g)
  <2> WITNESS [i \in 1 .. 0 |-> <<>>]
  <2> QED OBVIOUS
<1>2. ASSUME NEW n \in 1 .. N, NEW g, eqn(n - 1, g)
      PROVE  \E h : eqn(n, h)
  <2> DEFINE first == IF n = 1 THEN seqs[1] ELSE JoinOne(seqs, n, g[n-1])
             h == [i \in 1 .. n |-> IF i = n THEN first ELSE g[i]]
  <2> SUFFICES eqn(n, h)
    OBVIOUS
  <2>1. ASSUME NEW i \in 1 .. n
        PROVE  h[i] = IF i = 1 THEN seqs[i] ELSE JoinOne(seqs, i, h[i-1])
    <3>1. CASE i = n
      BY <3>1
    <3>2. CASE i # n
      BY <3>2, <1>2
    <3> QED BY <3>1, <3>2
  <2> QED BY <2>1
<1>3. \E g : eqn(N, g)
  <2> HIDE DEF eqn
  <2>1. 0 \in T /\ \A n \in 1 .. N : n - 1 \in T => n \in T
    BY <1>0, <1>1, <1>2
  <2> HIDE DEF T
  <2>2. \A n \in 0 .. N : n \in T
    BY <1>0, <2>1, SegmentInduction, Zenon
  <2> QED BY <1>0, <2>2 DEF T
<1> DEFINE g == CHOOSE h : eqn(N, h)
           f == [i \in 0 .. N |-> IF i = 0 THEN <<>> ELSE g[i]]
<1>4. eqn(N, g)
  <2> HIDE DEF eqn
  <2> QED BY <1>3
<1>5. N # 0 => FlattenSeq(seqs) = g[N]
  BY DEF FlattenSeq, JoinOne
<1>6. N = 0 => FlattenSeq(seqs) = <<>>
  BY <1>0 DEF FlattenSeq
<1> HIDE DEF g
<1>7. FlattenSeq(seqs) = f[N]
  BY <1>0, <1>5, <1>6
<1>8. ASSUME NEW i \in 1 .. N PROVE f[i] = f[i-1] \o seqs[i]
  <2>1. i \in Nat /\ 1 <= i /\ i <= N /\ i - 1 \in 0 .. N
    BY <1>0
  <2>2. f[i] = g[i] /\ g[i] = IF i = 1 THEN seqs[i] ELSE JoinOne(seqs, i, g[i-1])
    <3>1. f[i] = g[i]
      BY <2>1
    <3>2. i \in 1 .. N
      OBVIOUS
    <3> HIDE DEF N, f
    <3> QED BY <1>4, <3>1, <3>2
  <2>3. CASE i = 1
    <3>1. <<>> \o seqs[1] = seqs[1]
      BY <1>0, <2>1, <2>3
    <3>2. f[0] = <<>>
      BY <1>0
    <3> QED BY <2>2, <2>3, <3>1, <3>2
  <2>4. CASE i # 1
    <3>1. f[i-1] = g[i-1]
      BY <2>1, <2>4
    <3> QED BY <2>2, <2>4, <3>1 DEF JoinOne
  <2> QED BY <2>3, <2>4
<1>9. f[0] = <<>>
  BY <1>0
<1> HIDE DEF f
<1> QED BY <1>7, <1>8, <1>9

(* Concatenated sequences of S are a sequence of S. *)
LEMMA FlattenTyped ==
  ASSUME NEW S, NEW seqs \in Seq(Seq(S))
  PROVE  FlattenSeq(seqs) \in Seq(S)
<1> DEFINE N == Len(seqs)
<1>1. PICK f : /\ f[0] = <<>>
               /\ \A i \in 1 .. N : f[i] = f[i-1] \o seqs[i]
               /\ FlattenSeq(seqs) = f[N]
  BY FlattenEquation
<1> DEFINE T == {i \in 0 .. N : f[i] \in Seq(S)}
<1>2. N \in Nat /\ \A i \in 1 .. N : seqs[i] \in Seq(S)
  OBVIOUS
<1>3. 0 \in T
  <2>1. 0 \in 0 .. N /\ f[0] \in Seq(S)
    BY <1>1, <1>2
  <2> QED BY <2>1
<1>4. ASSUME NEW i \in 1 .. N, i - 1 \in T PROVE i \in T
  <2>1. i \in 0 .. N /\ f[i-1] \in Seq(S) /\ seqs[i] \in Seq(S)
    BY <1>2, <1>4
  <2>2. f[i] = f[i-1] \o seqs[i]
    BY <1>1
  <2>3. f[i-1] \o seqs[i] \in Seq(S)
    BY <2>1
  <2> QED BY <2>1, <2>2, <2>3
<1> HIDE DEF T
<1>5. \A i \in 0 .. N : i \in T
  BY <1>2, <1>3, <1>4, SegmentInduction, Zenon
<1> QED BY <1>1, <1>2, <1>5 DEF T

(* Sequences of equal lengths have concatenations of equal length. *)
LEMMA FlattenLength ==
  ASSUME NEW S, NEW seqs \in Seq(Seq(S)), NEW R, NEW others \in Seq(Seq(R)),
         Len(others) = Len(seqs),
         \A i \in 1 .. Len(seqs) : Len(others[i]) = Len(seqs[i])
  PROVE  Len(FlattenSeq(others)) = Len(FlattenSeq(seqs))
<1> DEFINE N == Len(seqs)
<1>1. PICK f : /\ f[0] = <<>>
               /\ \A i \in 1 .. N : f[i] = f[i-1] \o seqs[i]
               /\ FlattenSeq(seqs) = f[N]
  BY FlattenEquation
<1>2. PICK g : /\ g[0] = <<>>
               /\ \A i \in 1 .. N : g[i] = g[i-1] \o others[i]
               /\ FlattenSeq(others) = g[N]
  BY FlattenEquation
<1> DEFINE T == {i \in 0 .. N : f[i] \in Seq(S) /\ g[i] \in Seq(R) /\ Len(g[i]) = Len(f[i])}
<1>3. /\ N \in Nat
      /\ \A i \in 1 .. N : seqs[i] \in Seq(S) /\ others[i] \in Seq(R)
  OBVIOUS
<1>4. 0 \in T
  <2>1. 0 \in 0 .. N /\ f[0] \in Seq(S) /\ g[0] \in Seq(R) /\ Len(g[0]) = Len(f[0])
    BY <1>1, <1>2, <1>3
  <2> QED BY <2>1
<1>5. ASSUME NEW i \in 1 .. N, i - 1 \in T PROVE i \in T
  <2>1. /\ i \in 0 .. N /\ seqs[i] \in Seq(S) /\ others[i] \in Seq(R)
        /\ f[i-1] \in Seq(S) /\ g[i-1] \in Seq(R) /\ Len(g[i-1]) = Len(f[i-1])
    BY <1>3, <1>5
  <2>2. Len(others[i]) = Len(seqs[i])
    OBVIOUS
  <2>3. f[i-1] \o seqs[i] \in Seq(S) /\ g[i-1] \o others[i] \in Seq(R)
    BY <2>1
  <2>4. Len(f[i-1] \o seqs[i]) = Len(g[i-1] \o others[i])
    <3>1. ASSUME NEW X, NEW a \in Seq(X), NEW b \in Seq(X)
          PROVE  Len(a \o b) = Len(a) + Len(b)
      OBVIOUS
    <3>2. Len(f[i-1] \o seqs[i]) = Len(f[i-1]) + Len(seqs[i])
      BY <2>1, <3>1, Zenon
    <3>3. Len(g[i-1] \o others[i]) = Len(g[i-1]) + Len(others[i])
      BY <2>1, <3>1, Zenon
    <3> QED BY <2>1, <2>2, <3>2, <3>3
  <2>5. f[i] = f[i-1] \o seqs[i] /\ g[i] = g[i-1] \o others[i]
    BY <1>1, <1>2
  <2>6. f[i] \in Seq(S) /\ g[i] \in Seq(R) /\ Len(g[i]) = Len(f[i])
    BY <2>3, <2>4, <2>5
  <2> QED BY <2>1, <2>6
<1> HIDE DEF T
<1>6. \A i \in 0 .. N : i \in T
  BY <1>3, <1>4, <1>5, SegmentInduction, Zenon
<1> QED BY <1>1, <1>2, <1>3, <1>6 DEF T

(* The members of two sequences joined. *)
LEMMA ConcatParts ==
  ASSUME NEW S, NEW s \in Seq(S), NEW t \in Seq(S)
  PROVE  /\ s \o t \in Seq(S) /\ Len(s \o t) = Len(s) + Len(t)
         /\ \A l \in 1 .. Len(s) : (s \o t)[l] = s[l]
         /\ \A l \in Len(s) + 1 .. Len(s) + Len(t) : (s \o t)[l] = t[l - Len(s)]
OBVIOUS

-----------------------------------------------------------------------------
(* Sequences that hold each of their members once.                         *)

(* The members of s come from S, each once.                                *)
Once(s, S) ==
  /\ s \in Seq(S)
  /\ \A a, b \in 1 .. Len(s) : a < b => s[a] # s[b]

(* x is one of the members of s. *)
Member(x, s) == \E n \in 1 .. Len(s) : s[n] = x

(* Some members of a sequence that holds each once. *)
LEMMA ChosenOnce ==
  ASSUME NEW S, NEW s, Once(s, S), NEW P
  PROVE  /\ Once(Chosen(s, P), S)
         /\ \A x : Member(x, Chosen(s, P)) <=> \E n \in 1 .. Len(s) : n \in P /\ s[n] = x
<1> DEFINE N == Len(s)
           c == Chosen(s, P)
<1>1. s \in Seq(S) /\ N \in Nat /\ \A n \in 1 .. N : s[n] \in S
  BY DEF Once
<1>2. PICK k : Enumerates(k, P, N) /\ c = [a \in 1 .. Len(k) |-> s[k[a]]]
  BY <1>1, ChosenPicks DEF Picks
<1> DEFINE K == Len(k)
<1>3. /\ K \in Nat /\ \A a \in 1 .. K : k[a] \in 1 .. N
      /\ \A a, b \in 1 .. K : a < b => k[a] < k[b]
      /\ \A n \in 1 .. N : n \in P <=> \E a \in 1 .. K : k[a] = n
  BY <1>2 DEF Enumerates
<1> HIDE DEF c, K, N
<1>4. c = [a \in 1 .. K |-> s[k[a]]]
  BY <1>2 DEF K
<1>5. c \in Seq(S) /\ Len(c) = K /\ \A a \in 1 .. K : c[a] = s[k[a]]
  BY <1>1, <1>3, <1>4
<1>6. \A a, b \in 1 .. K : a < b => c[a] # c[b]
  BY <1>3, <1>5 DEF Once, N
<1>7. Once(c, S)
  BY <1>5, <1>6 DEF Once
<1>8. ASSUME NEW x PROVE Member(x, c) <=> \E n \in 1 .. N : n \in P /\ s[n] = x
  BY <1>3, <1>5 DEF Member
<1> QED BY <1>7, <1>8 DEF c, N

(* A sequence has as many members as places, where each is there once. *)
LEMMA OnceCounts ==
  ASSUME NEW S, NEW s, Once(s, S)
  PROVE  /\ IsFiniteSet(ToSet(s)) /\ Cardinality(ToSet(s)) = Len(s)
         /\ \A x : x \in ToSet(s) <=> Member(x, s)
<1>1. PICK N \in Nat : N = Len(s)
  BY DEF Once
<1>2. DOMAIN s = 1 .. N /\ s = [n \in 1 .. N |-> s[n]]
  BY <1>1 DEF Once
<1>3. \A i, j \in 1 .. N : s[i] = s[j] => i = j
  <2>1. \A i, j \in 1 .. N : i < j \/ j < i \/ i = j
    OBVIOUS
  <2> QED BY <1>1, <2>1 DEF Once
<1>4. ToSet(s) = {s[n] : n \in 1 .. N}
  BY <1>2 DEF ToSet
<1>5. s \in Bijection(1 .. N, ToSet(s))
  BY <1>2, <1>3, <1>4 DEF Bijection, Injection, Surjection, IsInjective
<1>6. ExistsBijection(1 .. N, ToSet(s))
  BY <1>5 DEF ExistsBijection
<1>7. Cardinality(ToSet(s)) = N
  BY <1>6, FS_CountingElements
<1>8. IsFiniteSet(ToSet(s))
  BY <1>6, FS_NatBijection
<1> QED BY <1>1, <1>4, <1>7, <1>8 DEF Member

(* Two sequences that share no member. *)
LEMMA ConcatOnce ==
  ASSUME NEW S, NEW s, Once(s, S), NEW t, Once(t, S),
         \A x : Member(x, s) => ~ Member(x, t)
  PROVE  /\ Once(s \o t, S)
         /\ \A x : Member(x, s \o t) <=> Member(x, s) \/ Member(x, t)
<1>1. s \in Seq(S) /\ t \in Seq(S)
  BY DEF Once
<1>2. PICK L \in Nat : L = Len(s)
  BY <1>1
<1>3. PICK M \in Nat : M = Len(t)
  BY <1>1
<1>4. PICK w : w = s \o t
  OBVIOUS
<1>5. /\ w \in Seq(S) /\ Len(w) = L + M
      /\ \A l \in 1 .. L : w[l] = s[l]
      /\ \A l \in L + 1 .. L + M : w[l] = t[l - L]
  <2>1. /\ s \o t \in Seq(S) /\ Len(s \o t) = Len(s) + Len(t)
        /\ \A l \in 1 .. Len(s) : (s \o t)[l] = s[l]
        /\ \A l \in Len(s) + 1 .. Len(s) + Len(t) : (s \o t)[l] = t[l - Len(s)]
    BY <1>1, ConcatParts, Zenon
  <2> QED BY <2>1, <1>2, <1>3, <1>4
<1>6. \A l \in 1 .. L + M : l \in 1 .. L \/ (l \in L + 1 .. L + M /\ l - L \in 1 .. M)
  OBVIOUS
<1>7. ASSUME NEW x PROVE Member(x, w) <=> Member(x, s) \/ Member(x, t)
  <2>1. ASSUME Member(x, w) PROVE Member(x, s) \/ Member(x, t)
    BY <1>2, <1>3, <1>5, <1>6, <2>1 DEF Member
  <2>2. ASSUME Member(x, s) PROVE Member(x, w)
    <3>1. PICK l \in 1 .. L : s[l] = x
      BY <1>2, <2>2 DEF Member
    <3>2. l \in 1 .. L + M /\ w[l] = x
      BY <1>5, <3>1
    <3> QED BY <1>5, <3>2 DEF Member
  <2>3. ASSUME Member(x, t) PROVE Member(x, w)
    <3>1. PICK l \in 1 .. M : t[l] = x
      BY <1>3, <2>3 DEF Member
    <3>2. l + L \in L + 1 .. L + M /\ (l + L) - L = l /\ l + L \in 1 .. L + M
      OBVIOUS
    <3>3. w[l + L] = x
      BY <1>5, <3>1, <3>2
    <3> QED BY <1>5, <3>2, <3>3 DEF Member
  <2> QED BY <2>1, <2>2, <2>3
<1>8. ASSUME NEW a \in 1 .. L + M, NEW b \in 1 .. L + M, a < b PROVE w[a] # w[b]
  <2>1. CASE a \in 1 .. L /\ b \in 1 .. L
    BY <1>2, <1>5, <1>8, <2>1 DEF Once
  <2>2. CASE a \in 1 .. L /\ ~ b \in 1 .. L
    <3>1. b - L \in 1 .. M /\ b \in L + 1 .. L + M
      BY <1>6, <2>2
    <3>2. Member(w[a], s) /\ Member(w[b], t)
      BY <1>2, <1>3, <1>5, <2>2, <3>1 DEF Member
    <3> QED BY <3>2
  <2>3. CASE ~ a \in 1 .. L
    <3>1. /\ a - L \in 1 .. M /\ a \in L + 1 .. L + M
          /\ b - L \in 1 .. M /\ b \in L + 1 .. L + M /\ a - L < b - L
      BY <1>8, <2>3
    <3> QED BY <1>3, <1>5, <3>1, SMTT(40) DEF Once
  <2> QED BY <2>1, <2>2, <2>3
<1> QED BY <1>4, <1>5, <1>7, <1>8 DEF Once

(* Sequences that share no member, each holding its own once, appended.    *)
LEMMA FlattenOnce ==
  ASSUME NEW S, NEW seqs \in Seq(Seq(S)),
         \A i \in 1 .. Len(seqs) : Once(seqs[i], S),
         \A i, j \in 1 .. Len(seqs) : \A x :
            Member(x, seqs[i]) /\ Member(x, seqs[j]) => i = j
  PROVE  /\ Once(FlattenSeq(seqs), S)
         /\ \A x : Member(x, FlattenSeq(seqs)) <=> \E i \in 1 .. Len(seqs) : Member(x, seqs[i])
<1>1. PICK N \in Nat : N = Len(seqs)
  OBVIOUS
<1>2. PICK f : /\ f[0] = <<>>
               /\ \A i \in 1 .. N : f[i] = f[i-1] \o seqs[i]
               /\ FlattenSeq(seqs) = f[N]
  BY <1>1, FlattenEquation
<1> DEFINE In(x, i) == \E j \in 1 .. i : Member(x, seqs[j])
           Ok(i) == Once(f[i], S) /\ \A x : Member(x, f[i]) <=> In(x, i)
           T == {i \in 0 .. N : Ok(i)}
<1>3. 0 \in T
  <2>1. f[0] = <<>> /\ Len(f[0]) = 0 /\ f[0] \in Seq(S)
    BY <1>2
  <2>2. Once(f[0], S)
    BY <2>1 DEF Once
  <2>3. \A x : ~ Member(x, f[0])
    BY <2>1 DEF Member
  <2>4. \A x : ~ In(x, 0)
    OBVIOUS
  <2> HIDE DEF In
  <2>5. Ok(0)
    BY <2>2, <2>3, <2>4
  <2> HIDE DEF Ok
  <2> QED BY <2>5
<1>4. ASSUME NEW i \in 1 .. N, i - 1 \in T PROVE i \in T
  <2>1. PICK u, t : u = f[i-1] /\ t = seqs[i]
    OBVIOUS
  <2>2. f[i] = u \o t
    BY <1>2, <2>1
  <2>3. Once(u, S) /\ \A x : Member(x, u) <=> In(x, i - 1)
    <3> HIDE DEF In
    <3> QED BY <1>4, <2>1
  <2>4. Once(t, S)
    BY <1>1, <2>1
  <2>5. ASSUME NEW x, In(x, i - 1), Member(x, t) PROVE FALSE
    <3>1. PICK j \in 1 .. i - 1 : Member(x, seqs[j])
      BY <2>5
    <3>2. j \in 1 .. N /\ j # i
      OBVIOUS
    <3> QED BY <1>1, <2>1, <2>5, <3>1, <3>2
  <2>6. \A x : In(x, i) <=> In(x, i - 1) \/ Member(x, t)
    <3>1. \A j : j \in 1 .. i <=> j \in 1 .. i - 1 \/ j = i
      OBVIOUS
    <3> QED BY <2>1, <3>1
  <2> HIDE DEF In
  <2>7. \A x : Member(x, u) => ~ Member(x, t)
    BY <2>3, <2>5
  <2>8. Once(u \o t, S) /\ \A x : Member(x, u \o t) <=> Member(x, u) \/ Member(x, t)
    BY <2>3, <2>4, <2>7, ConcatOnce
  <2>9. \A x : Member(x, f[i]) <=> In(x, i)
    BY <2>2, <2>3, <2>6, <2>8
  <2>10. Ok(i)
    BY <2>2, <2>8, <2>9
  <2> HIDE DEF Ok
  <2> QED BY <2>10
<1> HIDE DEF T
<1>5. \A i \in 0 .. N : i \in T
  BY <1>3, <1>4, SegmentInduction
<1>6. Ok(N)
  <2> HIDE DEF Ok
  <2> QED BY <1>5 DEF T
<1> QED BY <1>1, <1>2, <1>6

-----------------------------------------------------------------------------
(* Sums over finite sets.                                                  *)

(* Where a set is in T when the sets with one element less are, every      *)
(* subset of a finite set is in T.                                         *)
LEMMA SubsetInduction ==
  ASSUME NEW S, IsFiniteSet(S), NEW T,
         \A s \in SUBSET S : (\A x \in s : s \ {x} \in T) => s \in T
  PROVE  \A s \in SUBSET S : s \in T
<1>1. PICK N \in Nat : N = Cardinality(S)
  BY FS_CardinalityType
<1> DEFINE U == {n \in 0 .. N : \A s \in SUBSET S : Cardinality(s) = n => s \in T}
<1>2. \A s \in SUBSET S : IsFiniteSet(s) /\ Cardinality(s) \in Nat /\ Cardinality(s) <= N
  BY <1>1, FS_Subset, FS_CardinalityType
<1>3. 0 \in U
  <2>1. ASSUME NEW s \in SUBSET S, Cardinality(s) = 0 PROVE s \in T
    <3>1. s = {}
      BY <1>2, <2>1, FS_EmptySet
    <3> QED BY <3>1
  <2> QED BY <1>1, <2>1
<1>4. ASSUME NEW n \in 1 .. N, n - 1 \in U PROVE n \in U
  <2>1. ASSUME NEW s \in SUBSET S, Cardinality(s) = n PROVE s \in T
    <3>1. ASSUME NEW x \in s PROVE s \ {x} \in T
      <4>1. Cardinality(s \ {x}) = n - 1
        BY <1>2, <2>1, FS_RemoveElement
      <4> QED BY <1>4, <4>1
    <3> QED BY <3>1
  <2> QED BY <2>1
<1> HIDE DEF U
<1>5. \A n \in 0 .. N : n \in U
  BY <1>1, <1>3, <1>4, SegmentInduction, Zenon
<1>6. ASSUME NEW s \in SUBSET S PROVE s \in T
  <2>1. Cardinality(s) \in 0 .. N
    BY <1>1, <1>2
  <2> QED BY <1>5, <2>1 DEF U
<1> QED BY <1>6

(* How the library sums: it takes some element, then the rest. *)
AnyOf(s) == CHOOSE x \in s : TRUE

SumOne(v, s, g) == IF s = {} THEN 0 ELSE v[AnyOf(s)] + g[s \ {AnyOf(s)}]

(* g sums the subsets of S. *)
Sums(v, S, g) == \A s \in SUBSET S : g[s] = SumOne(v, s, g)

(* The sum takes the elements one by one. *)
LEMMA SumEquation ==
  ASSUME NEW v, NEW S, IsFiniteSet(S)
  PROVE  \E g : Sums(v, S, g) /\ SumFunctionOnSet(v, S) = g[S]
<1>1. PICK N \in Nat : N = Cardinality(S)
  BY FS_CardinalityType
<1> DEFINE Level(n) == {s \in SUBSET S : Cardinality(s) <= n}
           eqn(n, g) == g = [s \in Level(n) |-> SumOne(v, s, g)]
           T == {n \in 0 .. N : \E g : eqn(n, g)}
<1>2. \A s \in SUBSET S : IsFiniteSet(s) /\ Cardinality(s) \in Nat /\ Cardinality(s) <= N
  BY <1>1, FS_Subset, FS_CardinalityType
<1>3. \E g : eqn(0, g)
  <2> DEFINE h == [s \in Level(0) |-> 0]
  <2>1. ASSUME NEW s \in Level(0) PROVE s = {}
    <3>1. Cardinality(s) = 0
      BY <1>2
    <3> QED BY <1>2, <3>1, FS_EmptySet
  <2>2. \A s \in Level(0) : SumOne(v, s, h) = 0
    BY <2>1 DEF SumOne
  <2>3. eqn(0, h)
    BY <2>2
  <2> QED BY <2>3
<1>4. ASSUME NEW n \in 1 .. N, NEW g, eqn(n - 1, g)
      PROVE  \E h : eqn(n, h)
  <2> DEFINE h == [s \in Level(n) |-> SumOne(v, s, g)]
  <2>1. ASSUME NEW s \in Level(n) PROVE SumOne(v, s, h) = SumOne(v, s, g)
    <3>1. CASE s = {}
      BY <3>1 DEF SumOne
    <3>2. CASE s # {}
      <4>1. PICK r : r = s \ {AnyOf(s)}
        OBVIOUS
      <4>2. AnyOf(s) \in s
        BY <3>2 DEF AnyOf
      <4>3. Cardinality(r) = Cardinality(s) - 1
        BY <1>2, <4>1, <4>2, FS_RemoveElement
      <4>4. r \in Level(n - 1) /\ r \in Level(n)
        BY <1>2, <4>1, <4>3
      <4>5. g[r] = SumOne(v, r, g)
        BY <1>4, <4>4
      <4>6. h[r] = SumOne(v, r, g)
        BY <4>4
      <4> QED BY <4>1, <4>5, <4>6 DEF SumOne
    <3> QED BY <3>1, <3>2
  <2>2. eqn(n, h)
    BY <2>1
  <2> QED BY <2>2
<1>5. \E g : eqn(N, g)
  <2> HIDE DEF eqn
  <2>1. 0 \in T /\ \A n \in 1 .. N : n - 1 \in T => n \in T
    BY <1>1, <1>3, <1>4
  <2> HIDE DEF T
  <2>2. \A n \in 0 .. N : n \in T
    BY <1>1, <2>1, SegmentInduction, Zenon
  <2> QED BY <1>1, <2>2 DEF T
<1>6. Level(N) = SUBSET S
  BY <1>2
<1> DEFINE whole(g) == g = [s \in SUBSET S |-> SumOne(v, s, g)]
           f == CHOOSE g : whole(g)
<1>7. \E g : whole(g)
  <2>1. PICK g : eqn(N, g)
    BY <1>5
  <2>2. whole(g)
    BY <1>6, <2>1
  <2> HIDE DEF whole
  <2> QED BY <2>2
<1>8. whole(f)
  <2> HIDE DEF whole
  <2> QED BY <1>7
<1>9. SumFunctionOnSet(v, S) = f[S]
  BY DEF SumFunctionOnSet, FoldFunctionOnSet, MapThenFoldSet, AnyOf, SumOne
<1> HIDE DEF f
<1>10. \A s \in SUBSET S : f[s] = SumOne(v, s, f)
  BY <1>8
<1> QED BY <1>9, <1>10 DEF Sums

(* A sum over a subset is the sum within the set. *)
LEMMA SumWithin ==
  ASSUME NEW v, NEW S, IsFiniteSet(S), NEW g, Sums(v, S, g)
  PROVE  \A s \in SUBSET S : SumFunctionOnSet(v, s) = g[s]
<1>1. ASSUME NEW s \in SUBSET S PROVE SumFunctionOnSet(v, s) = g[s]
  <2>1. IsFiniteSet(s)
    BY FS_Subset
  <2>2. PICK h : Sums(v, s, h) /\ SumFunctionOnSet(v, s) = h[s]
    BY <2>1, SumEquation
  <2> DEFINE T == {t \in SUBSET s : h[t] = g[t]}
  <2>3. ASSUME NEW t \in SUBSET s, \A x \in t : t \ {x} \in T PROVE t \in T
    <3>1. h[t] = SumOne(v, t, h) /\ g[t] = SumOne(v, t, g)
      BY <2>2 DEF Sums
    <3>2. CASE t = {}
      BY <3>1, <3>2 DEF SumOne
    <3>3. CASE t # {}
      <4>1. AnyOf(t) \in t
        BY <3>3 DEF AnyOf
      <4>2. h[t \ {AnyOf(t)}] = g[t \ {AnyOf(t)}]
        BY <2>3, <4>1
      <4> QED BY <3>1, <4>2 DEF SumOne
    <3> QED BY <3>2, <3>3
  <2> HIDE DEF T
  <2>4. \A t \in SUBSET s : t \in T
    BY <2>1, <2>3, SubsetInduction, Zenon
  <2> QED BY <2>2, <2>4 DEF T
<1> QED BY <1>1

(* The empty sum is zero, and any element may be taken out of a sum first. *)
LEMMA SumTakes ==
  ASSUME NEW S, IsFiniteSet(S), NEW v, \A x \in S : v[x] \in Int
  PROVE  /\ SumFunctionOnSet(v, S) \in Int
         /\ SumFunctionOnSet(v, {}) = 0
         /\ \A x \in S : SumFunctionOnSet(v, S) = v[x] + SumFunctionOnSet(v, S \ {x})
<1>1. PICK g : Sums(v, S, g) /\ SumFunctionOnSet(v, S) = g[S]
  BY SumEquation
<1>2. \A s \in SUBSET S : SumFunctionOnSet(v, s) = g[s]
  BY <1>1, SumWithin
<1> DEFINE I == {s \in SUBSET S : g[s] \in Int}
<1>3. ASSUME NEW s \in SUBSET S, \A x \in s : s \ {x} \in I PROVE s \in I
  <2>1. CASE s = {}
    <3>1. g[s] = 0
      BY <1>1, <2>1 DEF Sums, SumOne
    <3> QED BY <3>1
  <2>2. CASE s # {}
    <3>1. AnyOf(s) \in s
      BY <2>2 DEF AnyOf
    <3>2. g[s] = v[AnyOf(s)] + g[s \ {AnyOf(s)}]
      BY <1>1, <2>2 DEF Sums, SumOne
    <3>3. v[AnyOf(s)] \in Int /\ g[s \ {AnyOf(s)}] \in Int
      BY <1>3, <3>1
    <3> QED BY <3>2, <3>3
  <2> QED BY <2>1, <2>2
<1> HIDE DEF I
<1>4. \A s \in SUBSET S : s \in I
  BY <1>3, SubsetInduction, Zenon
<1>5. \A s \in SUBSET S : g[s] \in Int
  BY <1>4 DEF I
<1> DEFINE T == {s \in SUBSET S : \A x \in s : g[s] = v[x] + g[s \ {x}]}
<1>6. ASSUME NEW s \in SUBSET S, \A x \in s : s \ {x} \in T PROVE s \in T
  <2>1. ASSUME NEW x \in s PROVE g[s] = v[x] + g[s \ {x}]
    <3>1. PICK c \in s : c = AnyOf(s)
      BY DEF AnyOf
    <3>2. g[s] = v[c] + g[s \ {c}]
      BY <1>1, <3>1 DEF Sums, SumOne
    <3>3. CASE x = c
      BY <3>2, <3>3
    <3>4. CASE x # c
      <4>1. PICK r \in SUBSET S : r = (s \ {c}) \ {x} /\ r = (s \ {x}) \ {c}
        OBVIOUS
      <4>2. s \ {c} \in T /\ x \in s \ {c}
        BY <1>6, <3>1, <3>4
      <4>3. s \ {x} \in T /\ c \in s \ {x}
        BY <1>6, <3>1, <3>4
      <4>4. g[s \ {c}] = v[x] + g[r]
        BY <4>1, <4>2
      <4>5. g[s \ {x}] = v[c] + g[r]
        BY <4>1, <4>3
      <4>6. g[r] \in Int /\ v[x] \in Int /\ v[c] \in Int
        BY <1>5, <4>1
      <4> QED BY <3>2, <4>4, <4>5, <4>6
    <3> QED BY <3>3, <3>4
  <2> QED BY <2>1
<1> HIDE DEF T
<1>7. \A s \in SUBSET S : s \in T
  BY <1>6, SubsetInduction, Zenon
<1>8. g[{}] = 0
  BY <1>1 DEF Sums, SumOne
<1> QED BY <1>2, <1>5, <1>7, <1>8 DEF T

(* No numbers add to nothing. *)
LEMMA SumEmpty ==
  ASSUME NEW v
  PROVE  SumFunctionOnSet(v, {}) = 0
<1>1. IsFiniteSet({}) /\ \A x \in {} : v[x] \in Int
  BY FS_EmptySet
<1> QED BY <1>1, SumTakes

(* Sums over two finite sets of which one names the other's elements.      *)
LEMMA SumRenamed ==
  ASSUME NEW S, IsFiniteSet(S), NEW v, \A x \in S : v[x] \in Int,
         NEW h, \A x, y \in S : h[x] = h[y] => x = y,
         NEW w, \A x \in S : w[h[x]] = v[x]
  PROVE  SumFunctionOnSet(w, {h[x] : x \in S}) = SumFunctionOnSet(v, S)
<1> DEFINE Img(s) == {h[x] : x \in s}
           T == {s \in SUBSET S : SumFunctionOnSet(w, Img(s)) = SumFunctionOnSet(v, s)}
<1>1. ASSUME NEW s \in SUBSET S, \A x \in s : s \ {x} \in T PROVE s \in T
  <2>1. IsFiniteSet(s) /\ \A x \in s : v[x] \in Int
    BY FS_Subset
  <2>2. IsFiniteSet(Img(s)) /\ \A y \in Img(s) : w[y] \in Int
    <3>1. [x \in s |-> h[x]] \in Surjection(s, Img(s))
      BY DEF Surjection
    <3>2. IsFiniteSet(Img(s))
      <4> HIDE DEF Img
      <4> QED BY <2>1, <3>1, FS_Surjection
    <3> QED BY <3>2
  <2>3. CASE s = {}
    <3>1. Img(s) = {}
      BY <2>3
    <3> QED BY <2>3, <3>1, SumEmpty
  <2>4. CASE s # {}
    <3>1. PICK x \in s : TRUE
      BY <2>4
    <3>2. Img(s) \ {h[x]} = Img(s \ {x}) /\ h[x] \in Img(s)
      BY <3>1
    <3>3. SumFunctionOnSet(v, s) = v[x] + SumFunctionOnSet(v, s \ {x})
      BY <2>1, <3>1, SumTakes
    <3>4. PICK U, y : U = Img(s) /\ y = h[x]
      OBVIOUS
    <3>5. SumFunctionOnSet(w, U) = w[y] + SumFunctionOnSet(w, U \ {y})
      <4>1. IsFiniteSet(U) /\ y \in U /\ \A z \in U : w[z] \in Int
        BY <2>2, <3>2, <3>4
      <4> QED BY <4>1, SumTakes
    <3>6. SumFunctionOnSet(w, Img(s \ {x})) = SumFunctionOnSet(v, s \ {x})
      BY <1>1, <3>1
    <3>7. w[y] = v[x] /\ U \ {y} = Img(s \ {x})
      BY <3>1, <3>2, <3>4
    <3> HIDE DEF Img
    <3>8. SumFunctionOnSet(w, Img(s)) = SumFunctionOnSet(v, s)
      BY <3>3, <3>4, <3>5, <3>6, <3>7
    <3> QED BY <3>8 DEF Img
  <2> QED BY <2>3, <2>4
<1> HIDE DEF T
<1>2. \A s \in SUBSET S : s \in T
  BY <1>1, SubsetInduction, Zenon
<1> QED BY <1>2 DEF T

(* Sums of the same numbers. *)
LEMMA SumSame ==
  ASSUME NEW S, IsFiniteSet(S), NEW v, \A x \in S : v[x] \in Int,
         NEW w, \A x \in S : w[x] = v[x]
  PROVE  SumFunctionOnSet(w, S) = SumFunctionOnSet(v, S)
<1> DEFINE h == [x \in S |-> x]
<1>1. \A x \in S : h[x] = x
  OBVIOUS
<1>2. {h[x] : x \in S} = S
  BY <1>1
<1> HIDE DEF h
<1>3. SumFunctionOnSet(w, {h[x] : x \in S}) = SumFunctionOnSet(v, S)
  BY <1>1, SumRenamed
<1> QED BY <1>2, <1>3

(* Zeros add to nothing, and ones to how many they are. *)
LEMMA SumConstant ==
  ASSUME NEW S, IsFiniteSet(S), NEW v, NEW c \in {0, 1}, \A x \in S : v[x] = c
  PROVE  SumFunctionOnSet(v, S) = IF c = 0 THEN 0 ELSE Cardinality(S)
<1> DEFINE T == {s \in SUBSET S : SumFunctionOnSet(v, s) = IF c = 0 THEN 0 ELSE Cardinality(s)}
<1>1. ASSUME NEW s \in SUBSET S, \A x \in s : s \ {x} \in T PROVE s \in T
  <2>1. IsFiniteSet(s) /\ \A x \in s : v[x] \in Int
    BY FS_Subset
  <2>2. CASE s = {}
    BY <2>1, <2>2, SumTakes, FS_EmptySet
  <2>3. CASE s # {}
    <3>1. PICK x \in s : TRUE
      BY <2>3
    <3>2. SumFunctionOnSet(v, s) = v[x] + SumFunctionOnSet(v, s \ {x})
      BY <2>1, <3>1, SumTakes
    <3>3. Cardinality(s \ {x}) = Cardinality(s) - 1 /\ Cardinality(s) \in Nat
      BY <2>1, <3>1, FS_RemoveElement, FS_CardinalityType
    <3>4. SumFunctionOnSet(v, s \ {x}) = IF c = 0 THEN 0 ELSE Cardinality(s \ {x})
      BY <1>1, <3>1
    <3> QED BY <3>1, <3>2, <3>3, <3>4
  <2> QED BY <2>2, <2>3
<1> HIDE DEF T
<1>2. \A s \in SUBSET S : s \in T
  BY <1>1, SubsetInduction, Zenon
<1> QED BY <1>2 DEF T

(* The elements of S whose key is j. *)
Part(S, k, j) == {x \in S : k[x] = j}

(* t has the sums of v over the groups of S by k.                          *)
GroupSums(t, J, v, S, k) ==
  /\ \A x \in S : v[x] \in Int /\ k[x] \in J
  /\ \A j \in J : t[j] = SumFunctionOnSet(v, Part(S, k, j))

(* The sums over the groups of a finite set add to the sum over the set.   *)
LEMMA SumOfParts ==
  ASSUME NEW S, IsFiniteSet(S), NEW J, IsFiniteSet(J),
         NEW v, NEW k, NEW t, GroupSums(t, J, v, S, k)
  PROVE  SumFunctionOnSet(t, J) = SumFunctionOnSet(v, S)
<1>0. /\ \A x \in S : v[x] \in Int /\ k[x] \in J
      /\ \A j \in J : t[j] = SumFunctionOnSet(v, Part(S, k, j))
  BY DEF GroupSums
<1> DEFINE G(s, j) == {x \in s : k[x] = j}
           P(s) == [j \in J |-> SumFunctionOnSet(v, G(s, j))]
           T == {s \in SUBSET S : SumFunctionOnSet(P(s), J) = SumFunctionOnSet(v, s)}
<1>1. ASSUME NEW s \in SUBSET S
      PROVE  /\ IsFiniteSet(s) /\ \A x \in s : v[x] \in Int
             /\ SumFunctionOnSet(v, s) \in Int
             /\ \A j \in J : P(s)[j] \in Int
  <2>1. IsFiniteSet(s) /\ \A x \in s : v[x] \in Int
    BY <1>0, FS_Subset
  <2>2. ASSUME NEW r \in SUBSET s PROVE SumFunctionOnSet(v, r) \in Int
    <3>1. IsFiniteSet(r) /\ \A x \in r : v[x] \in Int
      BY <2>1, FS_Subset
    <3> QED BY <3>1, SumTakes
  <2>3. \A j \in J : G(s, j) \in SUBSET s
    OBVIOUS
  <2>4. \A j \in J : SumFunctionOnSet(v, G(s, j)) \in Int
    BY <2>2, <2>3
  <2> HIDE DEF G
  <2> QED BY <2>1, <2>2, <2>4
<1>2. ASSUME NEW s \in SUBSET S, \A x \in s : s \ {x} \in T PROVE s \in T
  <2>1. CASE s = {}
    <3>1. SumFunctionOnSet(v, {}) = 0
      BY <1>1, SumTakes
    <3>2. \A j \in J : G(s, j) = {}
      BY <2>1
    <3>3. \A j \in J : P(s)[j] = 0
      BY <3>1, <3>2
    <3> HIDE DEF P, G
    <3>4. SumFunctionOnSet(P(s), J) = 0
      BY <3>3, SumConstant
    <3> QED BY <2>1, <3>1, <3>4
  <2>2. CASE s # {}
    <3>1. PICK x \in s : TRUE
      BY <2>2
    <3>2. PICK r \in SUBSET S : r = s \ {x}
      OBVIOUS
    <3>3. k[x] \in J
      BY <1>0, <3>1
    <3>4. SumFunctionOnSet(v, s) = v[x] + SumFunctionOnSet(v, r)
      BY <1>1, <3>1, <3>2, SumTakes
    <3>5. SumFunctionOnSet(P(r), J) = SumFunctionOnSet(v, r)
      BY <1>2, <3>1, <3>2
    <3>6. PICK p, q : p = P(s) /\ q = P(r)
      OBVIOUS
    <3>7. \A j \in J \ {k[x]} : p[j] = q[j]
      <4>1. \A j \in J \ {k[x]} : G(s, j) = G(r, j)
        BY <3>2
      <4> HIDE DEF G
      <4> QED BY <3>6, <4>1
    <3>8. p[k[x]] = v[x] + q[k[x]]
      <4>1. PICK a : a = G(s, k[x])
        OBVIOUS
      <4>2. a \in SUBSET S /\ x \in a /\ G(r, k[x]) = a \ {x}
        BY <3>1, <3>2, <4>1
      <4>3. SumFunctionOnSet(v, a) = v[x] + SumFunctionOnSet(v, a \ {x})
        BY <1>1, <4>2, SumTakes
      <4> HIDE DEF G
      <4> QED BY <3>3, <3>6, <4>1, <4>2, <4>3
    <3>9. (\A j \in J : p[j] \in Int) /\ (\A j \in J : q[j] \in Int)
      BY <1>1, <3>6
    <3> HIDE DEF P, G
    <3>10. PICK R : R = J \ {k[x]}
      OBVIOUS
    <3>11. IsFiniteSet(R) /\ \A j \in R : q[j] \in Int
      BY <3>9, <3>10, FS_Subset
    <3>12. SumFunctionOnSet(p, R) = SumFunctionOnSet(q, R)
      BY <3>7, <3>10, <3>11, SumSame
    <3>13. SumFunctionOnSet(q, R) \in Int
      BY <3>11, SumTakes
    <3>14. SumFunctionOnSet(p, J) = p[k[x]] + SumFunctionOnSet(p, R)
      BY <3>3, <3>9, <3>10, SumTakes
    <3>15. SumFunctionOnSet(q, J) = q[k[x]] + SumFunctionOnSet(q, R)
      BY <3>3, <3>9, <3>10, SumTakes
    <3>16. v[x] \in Int /\ q[k[x]] \in Int
      BY <1>1, <3>1, <3>3, <3>9
    <3>17. SumFunctionOnSet(P(s), J) = SumFunctionOnSet(v, s)
      BY <3>4, <3>5, <3>6, <3>8, <3>12, <3>13, <3>14, <3>15, <3>16
    <3> QED BY <3>17
  <2> QED BY <2>1, <2>2
<1> HIDE DEF T
<1>3. \A s \in SUBSET S : s \in T
  BY <1>2, SubsetInduction, Zenon
<1>4. SumFunctionOnSet(P(S), J) = SumFunctionOnSet(v, S)
  BY <1>3 DEF T
<1>5. \A j \in J : P(S)[j] \in Int /\ t[j] = P(S)[j]
  <2>1. \A j \in J : P(S)[j] \in Int
    BY <1>1
  <2> QED BY <1>0, <2>1 DEF Part
<1> HIDE DEF P
<1>6. SumFunctionOnSet(t, J) = SumFunctionOnSet(P(S), J)
  BY <1>5, SumSame
<1> QED BY <1>4, <1>6
=============================================================================
