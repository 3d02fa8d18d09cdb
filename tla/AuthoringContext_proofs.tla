------------------------ MODULE AuthoringContext_proofs ------------------------
(***************************************************************************)
(* Contexts, handles and snapshots keep their meaning, for any programs.   *)
(***************************************************************************)
EXTENDS AuthoringContext, Induction, SequenceTheorems, FiniteSetTheorems

-----------------------------------------------------------------------------
(* Sequences whose elements are not of one named type                      *)

Indexed(s) == Len(s) \in Nat /\ s = [i \in 1 .. Len(s) |-> s[i]]

(* Appending to any sequence adds one place and changes no other. *)
LEMMA Appending ==
  ASSUME NEW s, Indexed(s), NEW x
  PROVE  /\ Indexed(Append(s, x))
         /\ Len(Append(s, x)) = Len(s) + 1
         /\ Append(s, x)[Len(s) + 1] = x
         /\ \A i \in 1 .. Len(s) : Append(s, x)[i] = s[i]
         /\ DOMAIN Append(s, x) = 1 .. Len(s) + 1
<1> DEFINE S == {s[i] : i \in 1 .. Len(s)} \cup {x}
<1>1. s \in Seq(S)
  <2>1. s \in [1 .. Len(s) -> S]
    BY DEF Indexed
  <2> HIDE DEF S
  <2> QED BY <2>1 DEF Indexed
<1>2. x \in S
  OBVIOUS
<1> HIDE DEF S
<1>3. /\ Append(s, x) \in Seq(S)
      /\ Len(Append(s, x)) = Len(s) + 1
      /\ Append(s, x)[Len(s) + 1] = x
      /\ \A i \in 1 .. Len(s) : Append(s, x)[i] = s[i]
  BY <1>1, <1>2
<1>4. Append(s, x) \in [1 .. Len(Append(s, x)) -> S]
  BY <1>3, LenProperties
<1>5. /\ Append(s, x) = [i \in 1 .. Len(Append(s, x)) |-> Append(s, x)[i]]
      /\ DOMAIN Append(s, x) = 1 .. Len(Append(s, x))
  BY <1>4
<1>6. Len(s) \in Nat
  BY DEF Indexed
<1>7. Indexed(Append(s, x))
  BY <1>5, <1>3, <1>6 DEF Indexed
<1>8. DOMAIN Append(s, x) = 1 .. Len(s) + 1
  BY <1>5, <1>3
<1> QED BY <1>3, <1>7, <1>8

-----------------------------------------------------------------------------
(* Snapshots                                                               *)

(* r is a snapshot in a store of N datasets, of M minted identities. *)
IsSnapshot(r, N, M) ==
  /\ r = [id |-> r.id, pending |-> r.pending, cell |-> r.cell, of |-> r.of]
  /\ r.id = [n \in DOMAIN r.id |-> r.id[n]]
  /\ \A n \in DOMAIN r.id : r.id[n] \in 1 .. M
  /\ \A m, n \in DOMAIN r.id : r.id[m] = r.id[n] => m = n
  /\ r.pending \in Seq([in : DOMAIN r.id, out : DOMAIN r.id])
  /\ r.cell = [n \in DOMAIN r.cell |-> r.cell[n]]
  /\ \A n \in DOMAIN r.cell : n \in DOMAIN r.id /\ r.cell[n] \in 1 .. N
  /\ r.of \in 0 .. N

IsStore(s, M) == Indexed(s) /\ \A i \in 1 .. Len(s) : IsSnapshot(s[i], Len(s), M)

(* A snapshot stays one while datasets and identities are added. *)
LEMMA SnapshotStays ==
  ASSUME NEW r, NEW N \in Nat, NEW M \in Nat, NEW N2 \in Nat, NEW M2 \in Nat,
         IsSnapshot(r, N, M), N <= N2, M <= M2
  PROVE  IsSnapshot(r, N2, M2)
BY DEF IsSnapshot

(* A store with one more snapshot is a store. *)
LEMMA StoreGrows ==
  ASSUME NEW s, NEW M \in Nat, NEW M2 \in Nat, M <= M2, IsStore(s, M),
         NEW r, IsSnapshot(r, Len(s) + 1, M2)
  PROVE  /\ IsStore(Append(s, r), M2)
         /\ Len(Append(s, r)) = Len(s) + 1
         /\ Append(s, r)[Len(s) + 1] = r
         /\ \A i \in 1 .. Len(s) : Append(s, r)[i] = s[i]
<1>1. Indexed(s) /\ Len(s) \in Nat
  BY DEF IsStore, Indexed
<1> DEFINE t == Append(s, r)
<1>2. /\ Indexed(t)
      /\ Len(t) = Len(s) + 1
      /\ t[Len(s) + 1] = r
      /\ \A i \in 1 .. Len(s) : t[i] = s[i]
  BY <1>1, Appending
<1> HIDE DEF t
<1>3. ASSUME NEW i \in 1 .. Len(t)
      PROVE  IsSnapshot(t[i], Len(t), M2)
  <2>1. CASE i \in 1 .. Len(s)
    <3>1. IsSnapshot(s[i], Len(s), M)
      BY <2>1 DEF IsStore
    <3>2. IsSnapshot(s[i], Len(t), M2)
      BY <3>1, <1>1, <1>2, SnapshotStays
    <3> QED BY <3>2, <2>1, <1>2
  <2>2. CASE i = Len(s) + 1
    BY <2>2, <1>2
  <2> QED BY <2>1, <2>2, <1>1, <1>2
<1> QED BY <1>2, <1>3 DEF IsStore, t

(* Deriving a snapshot from another. *)
LEMMA DerivedSnapshot ==
  ASSUME NEW r, NEW N \in Nat, NEW M \in Nat, IsSnapshot(r, N, M), NEW e \in 0 .. N
  PROVE  IsSnapshot([r EXCEPT !.of = e], N, M)
<1>1. [r EXCEPT !.of = e] = [id |-> r.id, pending |-> r.pending, cell |-> r.cell, of |-> e]
  BY DEF IsSnapshot
<1> QED BY <1>1 DEF IsSnapshot

(* What one more place of pending adds. *)
NextKept(pending, keep, k, prev) ==
  IF k \in keep THEN Append(prev, pending[k]) ELSE prev


(* Kept(pending, keep) is built place by place. *)
LEMMA KeptEquation ==
  ASSUME NEW pending, NEW keep, Len(pending) \in Nat
  PROVE  \E f : /\ f[0] = <<>>
                /\ \A k \in 1 .. Len(pending) : f[k] = NextKept(pending, keep, k, f[k-1])
                /\ Kept(pending, keep) = f[Len(pending)]
<1> DEFINE N == Len(pending)
           eqn(n, g) == g = [k \in 0 .. n |->
                               IF k = 0 THEN <<>> ELSE NextKept(pending, keep, k, g[k-1])]
           T == {n \in 0 .. N : \E g : eqn(n, g)}
<1>1. \E g : eqn(0, g)
  <2> WITNESS [p \in 0 .. 0 |-> <<>>]
  <2> QED OBVIOUS
<1>2. ASSUME NEW n \in 1 .. N, NEW g, eqn(n - 1, g)
      PROVE  \E h : eqn(n, h)
  <2> DEFINE h == [k \in 0 .. n |-> IF k = n THEN NextKept(pending, keep, n, g[n-1]) ELSE g[k]]
  <2> SUFFICES eqn(n, h)
    OBVIOUS
  <2>1. ASSUME NEW k \in 0 .. n
        PROVE  h[k] = IF k = 0 THEN <<>> ELSE NextKept(pending, keep, k, h[k-1])
    <3>1. CASE k = n
      BY <3>1
    <3>2. CASE k # n
      BY <3>2, <1>2
    <3> QED BY <3>1, <3>2
  <2> QED BY <2>1
<1>3. \E g : eqn(N, g)
  <2> HIDE DEF eqn
  <2>1. 0 \in T /\ \A n \in 1 .. N : n - 1 \in T => n \in T
    BY <1>1, <1>2
  <2> HIDE DEF T
  <2>2. \A n \in 0 .. N : n \in T
    BY <2>1, SegmentInduction, Zenon
  <2> QED BY <2>2 DEF T
<1> DEFINE f == CHOOSE g : eqn(N, g)
<1>4. eqn(N, f)
  <2> HIDE DEF eqn
  <2> QED BY <1>3
<1>5. Kept(pending, keep) = f[Len(pending)]
  BY DEF Kept, NextKept
<1> HIDE DEF f
<1>6. f[0] = <<>> /\ \A k \in 1 .. N : f[k] = NextKept(pending, keep, k, f[k-1])
  BY <1>4
<1> QED BY <1>5, <1>6


(* What is kept of a sequence are its elements at the places to keep. *)
LEMMA KeptElements ==
  ASSUME NEW S, NEW pending \in Seq(S), NEW keep
  PROVE  /\ Kept(pending, keep) \in Seq(S)
         /\ \A k \in 1 .. Len(Kept(pending, keep)) :
              \E j \in keep \cap 1 .. Len(pending) : Kept(pending, keep)[k] = pending[j]
<1>1. Len(pending) \in Nat /\ \A j \in 1 .. Len(pending) : pending[j] \in S
  OBVIOUS
<1>2. PICK f : /\ f[0] = <<>>
               /\ \A k \in 1 .. Len(pending) :
                    f[k] = NextKept(pending, keep, k, f[k-1])
               /\ Kept(pending, keep) = f[Len(pending)]
  BY <1>1, KeptEquation
<1> DEFINE From(t) == \A k \in 1 .. Len(t) : \E j \in keep \cap 1 .. Len(pending) : t[k] = pending[j]
           T == {n \in 0 .. Len(pending) : f[n] \in Seq(S) /\ From(f[n])}
<1>3. 0 \in T
  <2>1. f[0] = <<>> /\ <<>> \in Seq(S) /\ Len(<<>>) = 0
    BY <1>2
  <2>2. From(<<>>)
    BY <2>1
  <2>3. f[0] \in Seq(S) /\ From(f[0])
    <3> HIDE DEF From
    <3> QED BY <2>1, <2>2
  <2> QED BY <2>3, <1>1
<1>4. ASSUME NEW n \in 1 .. Len(pending), n - 1 \in T
      PROVE  n \in T
  <2>1. f[n-1] \in Seq(S) /\ From(f[n-1])
    BY <1>4
  <2>2. CASE n \in keep
    <3>1. f[n] = Append(f[n-1], pending[n])
      BY <2>2, <1>2 DEF NextKept
    <3> DEFINE g == f[n-1]
    <3>2. g \in Seq(S) /\ pending[n] \in S /\ From(g)
      BY <2>1, <1>1
    <3> HIDE DEF g
    <3>3. /\ Append(g, pending[n]) \in Seq(S)
          /\ Len(Append(g, pending[n])) = Len(g) + 1
          /\ \A i \in 1 .. Len(g) : Append(g, pending[n])[i] = g[i]
          /\ Append(g, pending[n])[Len(g) + 1] = pending[n]
      BY <3>2, AppendProperties
    <3>4. Len(g) \in Nat
      BY <3>2
    <3>5. From(Append(g, pending[n]))
      <4> SUFFICES ASSUME NEW k \in 1 .. Len(g) + 1
                   PROVE  \E j \in keep \cap 1 .. Len(pending) : Append(g, pending[n])[k] = pending[j]
        BY <3>3
      <4>1. CASE k \in 1 .. Len(g)
        BY <4>1, <3>2, <3>3
      <4>2. CASE k = Len(g) + 1
        BY <4>2, <2>2, <3>3
      <4> QED BY <4>1, <4>2, <3>4
    <3>6. f[n] = Append(g, pending[n])
      BY <3>1 DEF g
    <3>7. f[n] \in Seq(S) /\ From(f[n])
      <4> HIDE DEF From
      <4> QED BY <3>6, <3>3, <3>5
    <3> QED BY <3>7
  <2>3. CASE n \notin keep
    <3>1. f[n] = f[n-1]
      BY <2>3, <1>2 DEF NextKept
    <3> QED BY <3>1, <2>1
  <2> QED BY <2>2, <2>3
<1> HIDE DEF T
<1>5. \A n \in 0 .. Len(pending) : n \in T
  BY <1>1, <1>3, <1>4, SegmentInduction, Zenon
<1>6. Len(pending) \in T
  BY <1>1, <1>5
<1> QED BY <1>2, <1>6 DEF T

(* Pending work of a snapshot, less some of it and its fields. *)
LEMMA KeptPending ==
  ASSUME NEW F, NEW G, NEW pending \in Seq([in : F, out : F]),
         NEW keep, \A k \in keep \cap 1 .. Len(pending) : {pending[k].in, pending[k].out} \subseteq G
  PROVE  Kept(pending, keep) \in Seq([in : G, out : G])
<1> DEFINE t == Kept(pending, keep)
           S == [in : F, out : F]
<1>0. \A j \in 1 .. Len(pending) : pending[j] \in S
  BY LenProperties DEF S
<1>1. /\ t \in Seq(S)
      /\ \A k \in 1 .. Len(t) : \E j \in keep \cap 1 .. Len(pending) : t[k] = pending[j]
  <2> HIDE DEF S
  <2> QED BY KeptElements DEF S
<1> HIDE DEF t
<1>2. Len(t) \in Nat /\ t \in [1 .. Len(t) -> S]
  <2> HIDE DEF S
  <2> QED BY <1>1, LenProperties
<1>3. ASSUME NEW k \in 1 .. Len(t)
      PROVE  t[k] \in [in : G, out : G]
  <2>1. PICK j \in keep \cap 1 .. Len(pending) : t[k] = pending[j]
    BY <1>1
  <2> QED BY <2>1, <1>0
<1>4. t \in [1 .. Len(t) -> [in : G, out : G]]
  BY <1>2, <1>3
<1> DEFINE R == [in : G, out : G]
<1>5. t \in [1 .. Len(t) -> R]
  BY <1>4
<1> HIDE DEF R
<1>6. t \in Seq(R)
  BY <1>2, <1>5
<1> QED BY <1>6 DEF t, R

(* The parts of a snapshot with the fields F. *)
AreParts(F, id, pending, cell, of, N, M) ==
  /\ DOMAIN id = F /\ id = [q \in F |-> id[q]]
  /\ \A q \in F : id[q] \in 1 .. M
  /\ \A p, q \in F : id[p] = id[q] => p = q
  /\ pending \in Seq([in : F, out : F])
  /\ cell = [q \in DOMAIN cell |-> cell[q]]
  /\ \A q \in DOMAIN cell : q \in F /\ cell[q] \in 1 .. N
  /\ of \in 0 .. N

(* A record of such parts is a snapshot. *)
LEMMA SnapshotParts ==
  ASSUME NEW F, NEW id, NEW pending, NEW cell, NEW of, NEW N, NEW M,
         AreParts(F, id, pending, cell, of, N, M)
  PROVE  IsSnapshot([id |-> id, pending |-> pending, cell |-> cell, of |-> of], N, M)
<1> DEFINE x == [id |-> id, pending |-> pending, cell |-> cell, of |-> of]
<1>1. /\ x = [id |-> x.id, pending |-> x.pending, cell |-> x.cell, of |-> x.of]
      /\ x.id = id /\ x.pending = pending /\ x.cell = cell /\ x.of = of
  OBVIOUS
<1> HIDE DEF x
<1>2. DOMAIN x.id = F
  BY <1>1 DEF AreParts
<1>3. x.pending \in Seq([in : DOMAIN x.id, out : DOMAIN x.id])
  BY <1>1, <1>2 DEF AreParts
<1>4. /\ x.id = [n \in DOMAIN x.id |-> x.id[n]]
      /\ \A n \in DOMAIN x.id : x.id[n] \in 1 .. M
      /\ \A m, n \in DOMAIN x.id : x.id[m] = x.id[n] => m = n
  BY <1>1 DEF AreParts
<1>5. /\ x.cell = [n \in DOMAIN x.cell |-> x.cell[n]]
      /\ \A n \in DOMAIN x.cell : n \in DOMAIN x.id /\ x.cell[n] \in 1 .. N
      /\ x.of \in 0 .. N
  BY <1>1, <1>2 DEF AreParts
<1>6. IsSnapshot(x, N, M)
  BY <1>1, <1>3, <1>4, <1>5 DEF IsSnapshot
<1> QED BY <1>6 DEF x

(* Recording a coupling into a new field n makes a snapshot. *)
LEMMA ExtendedSnapshot ==
  ASSUME NEW N \in Nat, minted \in Nat, NEW d \in 1 .. N, IsSnapshot(ds[d], N, minted),
         NEW m \in NamesOf(d), NEW n, n \notin NamesOf(d)
  PROVE  /\ IsSnapshot(Extended(d, n, m), N, minted + 1)
         /\ Extended(d, n, m).of = d
         /\ DOMAIN Extended(d, n, m).id = NamesOf(d) \cup {n}
         /\ \A q \in NamesOf(d) : Extended(d, n, m).id[q] = ds[d].id[q]
         /\ Extended(d, n, m).id[n] = minted + 1
         /\ Extended(d, n, m).cell = ds[d].cell
<1> DEFINE r == ds[d]
           F == NamesOf(d)
           G == F \cup {n}
           S == [in : F, out : F]
           R == [in : G, out : G]
           c == [in |-> m, out |-> n]
           newid == [q \in G |-> IF q = n THEN minted + 1 ELSE r.id[q]]
<1>1. /\ r = [id |-> r.id, pending |-> r.pending, cell |-> r.cell, of |-> r.of]
      /\ F = DOMAIN r.id /\ r.pending \in Seq(S)
  BY DEF IsSnapshot, NamesOf
<1>2. Extended(d, n, m) = [id |-> newid, pending |-> Append(r.pending, c), cell |-> r.cell, of |-> d]
  <2> HIDE DEF c, S, R
  <2>1. Extended(d, n, m) = [r EXCEPT !.id = newid, !.pending = Append(r.pending, c), !.of = d]
    BY DEF Extended, c
  <2> HIDE DEF newid, r
  <2> QED BY <2>1, <1>1
<1>3. Append(r.pending, c) \in Seq(R)
  <2>1. c \in R /\ S \subseteq R
    OBVIOUS
  <2>2. r.pending \in Seq(R)
    <3> HIDE DEF S, R, r
    <3>1. /\ Len(r.pending) \in Nat /\ r.pending \in [1 .. Len(r.pending) -> S]
      BY <1>1, LenProperties
    <3>2. r.pending \in [1 .. Len(r.pending) -> R]
      BY <3>1, <2>1
    <3> QED BY <3>1, <3>2
  <2> HIDE DEF S, R, c, r
  <2> QED BY <2>1, <2>2, AppendProperties
<1>4. /\ DOMAIN newid = G
      /\ newid[n] = minted + 1
      /\ \A q \in F : newid[q] = r.id[q]
      /\ newid = [q \in G |-> newid[q]]
  OBVIOUS
<1>5. /\ \A q \in F : r.id[q] \in 1 .. minted
      /\ \A p, q \in F : r.id[p] = r.id[q] => p = q
  BY DEF IsSnapshot, NamesOf
<1>6. \A q \in G : newid[q] \in 1 .. minted + 1
  <2> HIDE DEF newid, r, F
  <2> QED BY <1>4, <1>5
<1>7. \A p, q \in G : newid[p] = newid[q] => p = q
  <2> HIDE DEF newid, r, F
  <2> QED BY <1>4, <1>5
<1>8. /\ r.cell = [q \in DOMAIN r.cell |-> r.cell[q]]
      /\ \A q \in DOMAIN r.cell : q \in F /\ r.cell[q] \in 1 .. N
  BY DEF IsSnapshot, NamesOf
<1>9. Append(r.pending, c) \in Seq([in : DOMAIN newid, out : DOMAIN newid])
  BY <1>3, <1>4
<1> HIDE DEF newid, r, c, R, S
<1> DEFINE x == Extended(d, n, m)
<1>10. /\ x.id = newid /\ x.pending = Append(r.pending, c) /\ x.cell = r.cell /\ x.of = d
       /\ x = [id |-> newid, pending |-> Append(r.pending, c), cell |-> r.cell, of |-> d]
  BY <1>2
<1> HIDE DEF x
<1>11. IsSnapshot(x, N, minted + 1)
  <2>1. IsSnapshot([id |-> newid, pending |-> Append(r.pending, c), cell |-> r.cell, of |-> d],
                   N, minted + 1)
    <3> DEFINE p == Append(r.pending, c)
    <3>1. p \in Seq([in : G, out : G])
      BY <1>9, <1>4
    <3> HIDE DEF p, F
    <3>2. \A q \in DOMAIN r.cell : q \in G /\ r.cell[q] \in 1 .. N
      BY <1>8
    <3> HIDE DEF G
    <3>3. d \in 0 .. N
      OBVIOUS
    <3>4. AreParts(G, newid, p, r.cell, d, N, minted + 1)
      BY <1>4, <1>6, <1>7, <1>8, <3>1, <3>2, <3>3 DEF AreParts
    <3> QED BY <3>4, SnapshotParts DEF p
  <2> QED BY <2>1, <1>10
<1> QED BY <1>4, <1>10, <1>11 DEF x, r

(* Declaring a new field n makes a snapshot. *)
LEMMA DeclaredSnapshot ==
  ASSUME NEW N \in Nat, minted \in Nat, NEW d \in 1 .. N, IsSnapshot(ds[d], N, minted),
         NEW n, n \notin NamesOf(d), NEW M \in Nat, M = minted + 1
  PROVE  /\ IsSnapshot(Declared(d, n), N, M)
         /\ Declared(d, n).of = d
         /\ DOMAIN Declared(d, n).id = NamesOf(d) \cup {n}
         /\ \A q \in NamesOf(d) : Declared(d, n).id[q] = ds[d].id[q]
         /\ Declared(d, n).id[n] = minted + 1
         /\ Declared(d, n).cell = ds[d].cell
<1> DEFINE r == ds[d]
           F == NamesOf(d)
           G == F \cup {n}
           S == [in : F, out : F]
           R == [in : G, out : G]
           newid == [q \in G |-> IF q = n THEN minted + 1 ELSE r.id[q]]
<1>1. /\ r = [id |-> r.id, pending |-> r.pending, cell |-> r.cell, of |-> r.of]
      /\ F = DOMAIN r.id /\ r.pending \in Seq(S)
  BY DEF IsSnapshot, NamesOf
<1>2. Declared(d, n) = [id |-> newid, pending |-> r.pending, cell |-> r.cell, of |-> d]
  <2> HIDE DEF S, R
  <2> DEFINE c == [in |-> n, out |-> n]
  <2>1. Extended(d, n, n) = [r EXCEPT !.id = newid, !.pending = Append(r.pending, c), !.of = d]
    BY DEF Extended
  <2> HIDE DEF newid, c
  <2>2. Extended(d, n, n) = [id |-> newid, pending |-> Append(r.pending, c), cell |-> r.cell, of |-> d]
    <3> HIDE DEF r
    <3> QED BY <2>1, <1>1
  <2>3. Declared(d, n) = [Extended(d, n, n) EXCEPT !.pending = r.pending]
    BY DEF Declared
  <2> HIDE DEF r
  <2> QED BY <2>2, <2>3
<1>3. r.pending \in Seq(R)
  <2>1. S \subseteq R
    OBVIOUS
  <2> HIDE DEF S, R, r
  <2>2. /\ Len(r.pending) \in Nat /\ r.pending \in [1 .. Len(r.pending) -> S]
    BY <1>1, LenProperties
  <2>3. r.pending \in [1 .. Len(r.pending) -> R]
    BY <2>1, <2>2
  <2> QED BY <2>2, <2>3
<1>4. /\ DOMAIN newid = G
      /\ newid[n] = minted + 1
      /\ \A q \in F : newid[q] = r.id[q]
      /\ newid = [q \in G |-> newid[q]]
  OBVIOUS
<1>5. /\ \A q \in F : r.id[q] \in 1 .. minted
      /\ \A p, q \in F : r.id[p] = r.id[q] => p = q
  BY DEF IsSnapshot, NamesOf
<1>6. \A q \in G : newid[q] \in 1 .. M
  <2> HIDE DEF newid, r, F
  <2> QED BY <1>4, <1>5
<1>7. \A p, q \in G : newid[p] = newid[q] => p = q
  <2> HIDE DEF newid, r, F
  <2> QED BY <1>4, <1>5
<1>8. /\ r.cell = [q \in DOMAIN r.cell |-> r.cell[q]]
      /\ \A q \in DOMAIN r.cell : q \in G /\ r.cell[q] \in 1 .. N
  BY DEF IsSnapshot, NamesOf
<1> HIDE DEF newid, r, S
<1> DEFINE x == Declared(d, n)
<1>9. /\ x.id = newid /\ x.pending = r.pending /\ x.cell = r.cell /\ x.of = d
      /\ x = [id |-> newid, pending |-> r.pending, cell |-> r.cell, of |-> d]
  <2> HIDE DEF F, G, R
  <2> QED BY <1>2
<1> HIDE DEF x
<1>10. IsSnapshot(x, N, M)
  <2> HIDE DEF G
  <2>1. d \in 0 .. N
    OBVIOUS
  <2>2. IsSnapshot([id |-> newid, pending |-> r.pending, cell |-> r.cell, of |-> d], N, M)
    <3>1. AreParts(G, newid, r.pending, r.cell, d, N, M)
      BY <2>1, <1>3, <1>4, <1>6, <1>7, <1>8 DEF AreParts
    <3> QED BY <3>1, SnapshotParts
  <2> QED BY <2>2, <1>9
<1> QED BY <1>4, <1>9, <1>10 DEF x, r

(* Renaming a field to a free name makes a snapshot; every field keeps its *)
(* identity.                                                               *)
LEMMA RenamedSnapshot ==
  ASSUME NEW N \in Nat, minted \in Nat, NEW d \in 1 .. N, IsSnapshot(ds[d], N, minted),
         NEW a \in NamesOf(d), NEW b, b \notin NamesOf(d)
  PROVE  /\ IsSnapshot(Renamed(d, a, b), N, minted)
         /\ Renamed(d, a, b).of = d
         /\ DOMAIN Renamed(d, a, b).id = (NamesOf(d) \ {a}) \cup {b}
         /\ \A q \in NamesOf(d) \ {a} : Renamed(d, a, b).id[q] = ds[d].id[q]
         /\ Renamed(d, a, b).id[b] = ds[d].id[a]
         /\ DOMAIN ds[d].cell = {} => DOMAIN Renamed(d, a, b).cell = {}
<1> DEFINE to(q) == IF q = a THEN b ELSE q
           from(q) == IF q = b THEN a ELSE q
           r == ds[d]
           F == NamesOf(d)
           G == (F \ {a}) \cup {b}
           newid == [q \in {to(p) : p \in F} |-> r.id[from(q)]]
           newpending == [k \in DOMAIN r.pending |->
                            [in |-> to(r.pending[k].in), out |-> to(r.pending[k].out)]]
           newcell == [q \in {to(p) : p \in DOMAIN r.cell} |-> r.cell[from(q)]]
<1>1. /\ r = [id |-> r.id, pending |-> r.pending, cell |-> r.cell, of |-> r.of]
      /\ F = DOMAIN r.id /\ r.pending \in Seq([in : F, out : F])
  BY DEF IsSnapshot, NamesOf
<1>2. Renamed(d, a, b) = [id |-> newid, pending |-> newpending, cell |-> newcell, of |-> d]
  <2>1. Renamed(d, a, b) = [r EXCEPT !.id = newid, !.pending = newpending, !.cell = newcell, !.of = d]
    BY DEF Renamed
  <2> HIDE DEF newid, r, newpending, newcell
  <2> QED BY <2>1, <1>1
<1>3. {to(p) : p \in F} = G /\ a \in F /\ b \notin F
  OBVIOUS
<1>4. /\ DOMAIN newid = G
      /\ newid[b] = r.id[a]
      /\ \A q \in F \ {a} : newid[q] = r.id[q]
      /\ newid = [q \in G |-> newid[q]]
  <2> HIDE DEF r, F
  <2> QED BY <1>3
<1>5. /\ \A q \in F : r.id[q] \in 1 .. minted
      /\ \A p, q \in F : r.id[p] = r.id[q] => p = q
  BY DEF IsSnapshot, NamesOf
<1>6. \A q \in G : newid[q] \in 1 .. minted
  <2> HIDE DEF newid, r, F
  <2> QED BY <1>3, <1>4, <1>5
<1>7. \A p, q \in G : newid[p] = newid[q] => p = q
  <2> HIDE DEF newid, r, F
  <2> QED BY <1>3, <1>4, <1>5
<1>8. newpending \in Seq([in : G, out : G])
  <2> DEFINE S == [in : F, out : F]
             R == [in : G, out : G]
             len == Len(r.pending)
  <2>1. len \in Nat /\ r.pending \in [1 .. len -> S] /\ DOMAIN r.pending = 1 .. len
    <3> HIDE DEF S, r
    <3> QED BY <1>1, LenProperties DEF S
  <2>2. \A c \in S : [in |-> to(c.in), out |-> to(c.out)] \in R
    OBVIOUS
  <2> DEFINE moved(c) == [in |-> to(c.in), out |-> to(c.out)]
  <2>3. newpending = [k \in 1 .. len |-> moved(r.pending[k])]
    BY <2>1
  <2>4. \A c \in S : moved(c) \in R
    BY <2>2
  <2> HIDE DEF moved, S, R, len, newpending
  <2>5. newpending \in [1 .. len -> R]
    BY <2>1, <2>3, <2>4
  <2>6. newpending \in Seq(R)
    BY <2>1, <2>5
  <2> QED BY <2>6 DEF R
<1>9. /\ \A q \in DOMAIN r.cell : q \in F /\ r.cell[q] \in 1 .. N
  BY DEF IsSnapshot, NamesOf
<1>10. /\ newcell = [q \in DOMAIN newcell |-> newcell[q]]
       /\ \A q \in DOMAIN newcell : q \in G /\ newcell[q] \in 1 .. N
       /\ DOMAIN r.cell = {} => DOMAIN newcell = {}
  <2> HIDE DEF r
  <2> QED BY <1>9
<1> HIDE DEF newid, r, newpending, newcell, F
<1> DEFINE x == Renamed(d, a, b)
<1>11. /\ x.id = newid /\ x.pending = newpending /\ x.cell = newcell /\ x.of = d
       /\ x = [id |-> newid, pending |-> newpending, cell |-> newcell, of |-> d]
  <2> HIDE DEF G
  <2> QED BY <1>2
<1> HIDE DEF x
<1>12. IsSnapshot(x, N, minted)
  <2> HIDE DEF G
  <2>1. d \in 0 .. N
    OBVIOUS
  <2>2. IsSnapshot([id |-> newid, pending |-> newpending, cell |-> newcell, of |-> d], N, minted)
    <3>1. AreParts(G, newid, newpending, newcell, d, N, minted)
      BY <2>1, <1>4, <1>6, <1>7, <1>8, <1>10 DEF AreParts
    <3> QED BY <3>1, SnapshotParts
  <2> QED BY <2>2, <1>11
<1> QED BY <1>4, <1>10, <1>11, <1>12 DEF x, r, F

(* Dropping a field, with the work that reads or writes it, makes a        *)
(* snapshot; every other field keeps its name and its identity.            *)
LEMMA DroppedSnapshot ==
  ASSUME NEW N \in Nat, minted \in Nat, NEW d \in 1 .. N, IsSnapshot(ds[d], N, minted),
         NEW a \in NamesOf(d)
  PROVE  /\ IsSnapshot(Dropped(d, a), N, minted)
         /\ Dropped(d, a).of = d
         /\ DOMAIN Dropped(d, a).id = NamesOf(d) \ {a}
         /\ \A q \in NamesOf(d) \ {a} : Dropped(d, a).id[q] = ds[d].id[q]
         /\ DOMAIN ds[d].cell = {} => DOMAIN Dropped(d, a).cell = {}
<1> DEFINE r == ds[d]
           F == NamesOf(d)
           G == F \ {a}
           keep == {k \in DOMAIN r.pending : a \notin {r.pending[k].in, r.pending[k].out}}
           newid == [q \in G |-> r.id[q]]
           newcell == [q \in DOMAIN r.cell \ {a} |-> r.cell[q]]
           newpending == Kept(r.pending, keep)
<1>1. /\ r = [id |-> r.id, pending |-> r.pending, cell |-> r.cell, of |-> r.of]
      /\ F = DOMAIN r.id /\ r.pending \in Seq([in : F, out : F])
  BY DEF IsSnapshot, NamesOf
<1>2. Dropped(d, a) = [id |-> newid, pending |-> newpending, cell |-> newcell, of |-> d]
  <2>1. Dropped(d, a) = [r EXCEPT !.id = newid, !.pending = newpending, !.cell = newcell, !.of = d]
    BY DEF Dropped
  <2> HIDE DEF newid, r, newpending, newcell
  <2> QED BY <2>1, <1>1
<1>4. /\ DOMAIN newid = G
      /\ \A q \in G : newid[q] = r.id[q]
      /\ newid = [q \in G |-> newid[q]]
  OBVIOUS
<1>5. /\ \A q \in F : r.id[q] \in 1 .. minted
      /\ \A p, q \in F : r.id[p] = r.id[q] => p = q
  BY DEF IsSnapshot, NamesOf
<1>6. \A q \in G : newid[q] \in 1 .. minted
  <2> HIDE DEF r, F
  <2> QED BY <1>5
<1>7. \A p, q \in G : newid[p] = newid[q] => p = q
  <2> HIDE DEF r, F
  <2> QED BY <1>5
<1>8. newpending \in Seq([in : G, out : G])
  <2>1. \A k \in keep \cap 1 .. Len(r.pending) : {r.pending[k].in, r.pending[k].out} \subseteq G
    <3> DEFINE S == [in : F, out : F]
    <3>1. \A k \in 1 .. Len(r.pending) : r.pending[k] \in S
      <4> HIDE DEF S, r
      <4> QED BY <1>1, LenProperties DEF S
    <3>2. \A k \in 1 .. Len(r.pending) : r.pending[k].in \in F /\ r.pending[k].out \in F
      BY <3>1
    <3> HIDE DEF S, F, r
    <3> QED BY <3>2
  <2> HIDE DEF keep, G, r, F
  <2> QED BY <2>1, <1>1, KeptPending
<1>9. /\ \A q \in DOMAIN r.cell : q \in F /\ r.cell[q] \in 1 .. N
  BY DEF IsSnapshot, NamesOf
<1>10. /\ newcell = [q \in DOMAIN newcell |-> newcell[q]]
       /\ \A q \in DOMAIN newcell : q \in G /\ newcell[q] \in 1 .. N
       /\ DOMAIN r.cell = {} => DOMAIN newcell = {}
  <2> HIDE DEF r, F
  <2> QED BY <1>9
<1> HIDE DEF newid, r, newpending, newcell, F
<1> DEFINE x == Dropped(d, a)
<1>11. /\ x.id = newid /\ x.pending = newpending /\ x.cell = newcell /\ x.of = d
       /\ x = [id |-> newid, pending |-> newpending, cell |-> newcell, of |-> d]
  <2> HIDE DEF G
  <2> QED BY <1>2
<1> HIDE DEF x
<1>12. IsSnapshot(x, N, minted)
  <2> HIDE DEF G, keep
  <2>1. d \in 0 .. N
    OBVIOUS
  <2>2. IsSnapshot([id |-> newid, pending |-> newpending, cell |-> newcell, of |-> d], N, minted)
    <3>1. AreParts(G, newid, newpending, newcell, d, N, minted)
      BY <2>1, <1>4, <1>6, <1>7, <1>8, <1>10 DEF AreParts
    <3> QED BY <3>1, SnapshotParts
  <2> QED BY <2>2, <1>11
<1> QED BY <1>4, <1>10, <1>11, <1>12 DEF x, r, F

-----------------------------------------------------------------------------
(* What holds of every state                                               *)

TypeInv ==
  /\ program \in Programs
  /\ minted \in Nat
  /\ IsStore(ds, minted)
  /\ cached \in Seq(Nat) /\ Len(cached) = Len(ds)
  /\ \A d \in 1 .. Len(ds) : cached[d] \in 0 .. Len(cursor)
  /\ cursor \in Seq(Nat) /\ Len(cursor) <= MaxContexts
  /\ \A c \in 1 .. Len(cursor) : cursor[c] \in 1 .. Len(ds)
  /\ token \in Seq(Nat) /\ Len(token) = Len(cursor)
  /\ ambient \in 0 .. Len(cursor)
  /\ \A h \in handles : h.ctx \in 1 .. Len(cursor) /\ h.id \in 1 .. minted

(* The open blocks are a stack of contexts, the ambient one on top, and    *)
(* each keeps the one below it in its token.                               *)
StackInv ==
  /\ blocks \in Seq(Nat)
  /\ \A k \in 1 .. Len(blocks) : blocks[k] \in 1 .. Len(cursor)
  /\ \A j, k \in 1 .. Len(blocks) : blocks[j] = blocks[k] => j = k
  /\ ambient = IF Len(blocks) = 0 THEN 0 ELSE blocks[Len(blocks)]
  /\ \A k \in 1 .. Len(blocks) : token[blocks[k]] = IF k = 1 THEN 0 ELSE blocks[k-1]
  /\ \A c \in 1 .. Len(cursor) :
       (\A k \in 1 .. Len(blocks) : blocks[k] # c) => token[c] = Inactive

(* A program without blocks has no ambient context; one without bundles    *)
(* fills no cell.                                                          *)
KindInv ==
  /\ ~program.blocks => Len(blocks) = 0
  /\ ~program.bundles => \A d \in 1 .. Len(ds) : DOMAIN ds[d].cell = {}

IInv == TypeInv /\ StackInv /\ KindInv

-----------------------------------------------------------------------------
(* Running pending work                                                    *)

(* What one more coupling of d does, in a run of the work into outs. *)
NextRun(d, outs, k, prev) ==
  LET c == ds[d].pending[k]
  IN  IF c.out \notin outs \/ c.in \notin DOMAIN prev.cell THEN prev
      ELSE LET operand == prev.cell[c.in]
               result  == Len(prev.ds) + 1
           IN  [ds |-> Append(prev.ds, [prev.ds[operand] EXCEPT !.of = operand]),
                cursor |-> AdvanceAmbient(prev.cursor, operand, result),
                cell |-> [n \in DOMAIN prev.cell \cup {c.out} |->
                            IF n = c.out THEN result ELSE prev.cell[n]]]


StartRun(d) == [ds |-> ds, cursor |-> cursor, cell |-> ds[d].cell]

(* RunPending(d, outs) runs the couplings one by one. *)
LEMMA RunEquation ==
  ASSUME NEW d, NEW outs, Len(ds[d].pending) \in Nat
  PROVE  \E f : /\ f[0] = StartRun(d)
                /\ \A k \in 1 .. Len(ds[d].pending) : f[k] = NextRun(d, outs, k, f[k-1])
                /\ RunPending(d, outs) = f[Len(ds[d].pending)]
<1> DEFINE N == Len(ds[d].pending)
           eqn(n, g) == g = [k \in 0 .. n |->
                               IF k = 0 THEN StartRun(d) ELSE NextRun(d, outs, k, g[k-1])]
           T == {n \in 0 .. N : \E g : eqn(n, g)}
<1>1. \E g : eqn(0, g)
  <2> WITNESS [p \in 0 .. 0 |-> StartRun(d)]
  <2> QED OBVIOUS
<1>2. ASSUME NEW n \in 1 .. N, NEW g, eqn(n - 1, g)
      PROVE  \E h : eqn(n, h)
  <2> DEFINE h == [k \in 0 .. n |-> IF k = n THEN NextRun(d, outs, n, g[n-1]) ELSE g[k]]
  <2> SUFFICES eqn(n, h)
    OBVIOUS
  <2>1. ASSUME NEW k \in 0 .. n
        PROVE  h[k] = IF k = 0 THEN StartRun(d) ELSE NextRun(d, outs, k, h[k-1])
    <3>1. CASE k = n
      BY <3>1
    <3>2. CASE k # n
      BY <3>2, <1>2
    <3> QED BY <3>1, <3>2
  <2> QED BY <2>1
<1>3. \E g : eqn(N, g)
  <2> HIDE DEF eqn
  <2>1. 0 \in T /\ \A n \in 1 .. N : n - 1 \in T => n \in T
    BY <1>1, <1>2
  <2> HIDE DEF T
  <2>2. \A n \in 0 .. N : n \in T
    BY <2>1, SegmentInduction, Zenon
  <2> QED BY <2>2 DEF T
<1> DEFINE f == CHOOSE g : eqn(N, g)
<1>4. eqn(N, f)
  <2> HIDE DEF eqn
  <2> QED BY <1>3
<1>5. RunPending(d, outs) = f[Len(ds[d].pending)]
  BY DEF RunPending, NextRun, StartRun
<1> HIDE DEF f
<1>6. f[0] = StartRun(d) /\ \A k \in 1 .. N : f[k] = NextRun(d, outs, k, f[k-1])
  BY <1>4
<1> QED BY <1>5, <1>6


(* What may have become of the datasets, the contexts and the cells of d   *)
(* in a run.                                                               *)
HasRun(d, ran) ==
  /\ ran = [ds |-> ran.ds, cursor |-> ran.cursor, cell |-> ran.cell]
  /\ IsStore(ran.ds, minted) /\ Len(ds) <= Len(ran.ds)
  /\ \A i \in 1 .. Len(ds) : ran.ds[i] = ds[i]
  /\ ran.cursor \in Seq(Nat) /\ Len(ran.cursor) = Len(cursor)
  /\ \A c \in 1 .. Len(cursor) : ran.cursor[c] \in 1 .. Len(ran.ds)
  /\ ran.cell = [n \in DOMAIN ran.cell |-> ran.cell[n]]
  /\ \A n \in DOMAIN ran.cell : n \in DOMAIN ds[d].id /\ ran.cell[n] \in 1 .. Len(ran.ds)
  /\ ambient = 0 => ran.cursor = cursor
  /\ DOMAIN ds[d].cell = {} => /\ ran.ds = ds /\ ran.cursor = cursor /\ DOMAIN ran.cell = {}

(* One coupling run on the cells makes one dataset, and moves at most the  *)
(* ambient context.                                                        *)
LEMMA NextRunRuns ==
  ASSUME TypeInv, NEW d \in 1 .. Len(ds), NEW outs, NEW k \in 1 .. Len(ds[d].pending),
         NEW prev, HasRun(d, prev)
  PROVE  HasRun(d, NextRun(d, outs, k, prev))
<1> DEFINE c == ds[d].pending[k]
           F == DOMAIN ds[d].id
           operand == prev.cell[c.in]
           result == Len(prev.ds) + 1
           copy == [prev.ds[operand] EXCEPT !.of = operand]
           newds == Append(prev.ds, copy)
           newcursor == AdvanceAmbient(prev.cursor, operand, result)
           newcell == [n \in DOMAIN prev.cell \cup {c.out} |->
                         IF n = c.out THEN result ELSE prev.cell[n]]
<1>1. CASE c.out \notin outs \/ c.in \notin DOMAIN prev.cell
  <2>1. NextRun(d, outs, k, prev) = prev
    BY <1>1 DEF NextRun
  <2> QED BY <2>1
<1>2. CASE c.out \in outs /\ c.in \in DOMAIN prev.cell
  <2>1. NextRun(d, outs, k, prev) = [ds |-> newds, cursor |-> newcursor, cell |-> newcell]
    BY <1>2 DEF NextRun
  <2>2. c.in \in F /\ c.out \in F
    <3> DEFINE S == [in : F, out : F]
    <3>1. ds[d].pending \in Seq(S)
      BY DEF TypeInv, IsStore, IsSnapshot
    <3>2. c \in S
      <4> HIDE DEF S
      <4> QED BY <3>1, LenProperties
    <3> QED BY <3>2
  <2>3. /\ IsStore(prev.ds, minted) /\ minted \in Nat /\ Len(prev.ds) \in Nat
        /\ operand \in 1 .. Len(prev.ds)
        /\ Len(ds) \in Nat
    BY <1>2 DEF HasRun, TypeInv, IsStore, Indexed
  <2> HIDE DEF operand
  <2>4. IsSnapshot(copy, Len(prev.ds) + 1, minted)
    <3>1. IsSnapshot(prev.ds[operand], Len(prev.ds) + 1, minted)
      BY <2>3, SnapshotStays DEF IsStore
    <3> DEFINE r == prev.ds[operand]
               N == Len(prev.ds) + 1
    <3>2. N \in Nat /\ operand \in 0 .. N /\ minted \in Nat
      BY <2>3
    <3>3. IsSnapshot(r, N, minted)
      BY <3>1
    <3> HIDE DEF r, N
    <3>4. IsSnapshot([r EXCEPT !.of = operand], N, minted)
      BY <3>2, <3>3, DerivedSnapshot
    <3> QED BY <3>4 DEF r, N
  <2> HIDE DEF copy
  <2>5. /\ IsStore(newds, minted)
        /\ Len(newds) = Len(prev.ds) + 1
        /\ \A i \in 1 .. Len(prev.ds) : newds[i] = prev.ds[i]
    BY <2>3, <2>4, StoreGrows
  <2> HIDE DEF newds
  <2>6. Len(ds) <= Len(newds) /\ \A i \in 1 .. Len(ds) : newds[i] = ds[i]
    BY <2>3, <2>5 DEF HasRun
  <2>7. /\ newcursor \in Seq(Nat) /\ Len(newcursor) = Len(cursor)
        /\ \A q \in 1 .. Len(cursor) : newcursor[q] \in 1 .. Len(newds)
        /\ ambient = 0 => newcursor = cursor
    <3>1. /\ prev.cursor \in Seq(Nat) /\ Len(prev.cursor) = Len(cursor)
          /\ \A q \in 1 .. Len(cursor) : prev.cursor[q] \in 1 .. Len(prev.ds)
          /\ ambient = 0 => prev.cursor = cursor
      BY DEF HasRun
    <3>2. result \in 1 .. Len(newds) /\ result \in Nat /\ Len(cursor) \in Nat
      BY <2>3, <2>5 DEF TypeInv
    <3>3. ambient \in 0 .. Len(cursor)
      BY DEF TypeInv
    <3> HIDE DEF result
    <3>4. CASE ambient # 0 /\ prev.cursor[ambient] = operand
      <4>1. newcursor = [prev.cursor EXCEPT ![ambient] = result]
        BY <3>4 DEF AdvanceAmbient
      <4> HIDE DEF newcursor
      <4> QED BY <4>1, <3>1, <3>2, <3>3, <3>4, <2>3, <2>5, SMTT(40)
    <3>5. CASE ~(ambient # 0 /\ prev.cursor[ambient] = operand)
      <4>1. newcursor = prev.cursor
        BY <3>5 DEF AdvanceAmbient
      <4> QED BY <4>1, <3>1, <2>3, <2>5
    <3> QED BY <3>4, <3>5
  <2>8. /\ newcell = [n \in DOMAIN newcell |-> newcell[n]]
        /\ \A n \in DOMAIN newcell : n \in F /\ newcell[n] \in 1 .. Len(newds)
    <3>1. \A n \in DOMAIN prev.cell : n \in F /\ prev.cell[n] \in 1 .. Len(prev.ds)
      BY DEF HasRun
    <3>2. result \in 1 .. Len(newds)
      BY <2>3, <2>5
    <3> HIDE DEF result, F, c
    <3> QED BY <3>1, <3>2, <2>2, <2>3, <2>5
  <2>9. DOMAIN ds[d].cell # {}
    BY <1>2 DEF HasRun
  <2> HIDE DEF newcursor, newcell
  <2> DEFINE x == NextRun(d, outs, k, prev)
  <2>10. /\ x = [ds |-> x.ds, cursor |-> x.cursor, cell |-> x.cell]
         /\ x.ds = newds /\ x.cursor = newcursor /\ x.cell = newcell
    BY <2>1
  <2> HIDE DEF x
  <2>11. HasRun(d, x)
    BY <2>5, <2>6, <2>7, <2>8, <2>9, <2>10 DEF HasRun
  <2> QED BY <2>11 DEF x
<1> QED BY <1>1, <1>2

(* So do all of them. *)
LEMMA RunPendingRuns ==
  ASSUME TypeInv, NEW d \in 1 .. Len(ds), NEW outs
  PROVE  HasRun(d, RunPending(d, outs))
<1> DEFINE len == Len(ds[d].pending)
           first == StartRun(d)
<1>1. len \in Nat
  BY LenProperties DEF TypeInv, IsStore, IsSnapshot
<1>2. PICK f : /\ f[0] = first
               /\ \A k \in 1 .. len : f[k] = NextRun(d, outs, k, f[k-1])
               /\ RunPending(d, outs) = f[len]
  BY <1>1, RunEquation
<1>3. HasRun(d, first)
  <2>1. /\ first.ds = ds /\ first.cursor = cursor /\ first.cell = ds[d].cell
        /\ first = [ds |-> first.ds, cursor |-> first.cursor, cell |-> first.cell]
    BY DEF StartRun
  <2>2. IsSnapshot(ds[d], Len(ds), minted) /\ Len(ds) \in Nat
    BY DEF TypeInv, IsStore, Indexed
  <2> HIDE DEF first
  <2> QED BY <2>1, <2>2 DEF HasRun, TypeInv, IsSnapshot
<1> DEFINE T == {n \in 0 .. len : HasRun(d, f[n])}
<1>4. 0 \in T
  BY <1>1, <1>2, <1>3
<1>5. ASSUME NEW n \in 1 .. len, n - 1 \in T
      PROVE  n \in T
  <2>1. HasRun(d, f[n-1])
    BY <1>5
  <2>2. HasRun(d, NextRun(d, outs, n, f[n-1]))
    BY <2>1, NextRunRuns
  <2> QED BY <2>2, <1>2
<1> HIDE DEF T
<1>6. \A n \in 0 .. len : n \in T
  BY <1>1, <1>4, <1>5, SegmentInduction, Zenon
<1>7. len \in T
  BY <1>1, <1>6
<1> QED BY <1>2, <1>7 DEF T

-----------------------------------------------------------------------------
(* The steps that leave the contexts in place                              *)

(* The first state is as every state. *)
LEMMA InitTypeInv == Init => TypeInv
<1> SUFFICES ASSUME Init PROVE TypeInv
  OBVIOUS
<1> USE DEF Init
<1>1. PICK id \in [FirstFields -> 1 .. Cardinality(FirstFields)] :
        /\ \A m, n \in FirstFields : id[m] = id[n] => m = n
        /\ ds = <<[id |-> id, pending |-> <<>>, cell |-> [n \in {} |-> 0], of |-> 0]>>
  OBVIOUS
<1>2. minted \in Nat
  <2>1. IsFiniteSet(FirstFields)
    BY FirstFieldsAssumption, FS_Subset
  <2> QED BY <2>1, FS_CardinalityType
<1> DEFINE none == [n \in {} |-> 0]
           r == [id |-> id, pending |-> <<>>, cell |-> none, of |-> 0]
<1>3. /\ DOMAIN none = {}
      /\ none = [n \in DOMAIN none |-> none[n]]
  OBVIOUS
<1> HIDE DEF none
<1>4. AreParts(FirstFields, id, <<>>, none, 0, 1, minted)
  <2>1. \A q \in FirstFields : id[q] \in 1 .. minted
    BY <1>1
  <2> QED BY <1>1, <1>2, <1>3, <2>1 DEF AreParts
<1>5. IsSnapshot(r, 1, minted)
  BY <1>4, SnapshotParts
<1>6. ds = <<r>>
  BY <1>1 DEF none
<1> HIDE DEF r
<1>7. Len(ds) = 1 /\ ds[1] = r /\ Indexed(ds)
  BY <1>6 DEF Indexed
<1>8. IsStore(ds, minted)
  BY <1>5, <1>7 DEF IsStore
<1>9. cursor \in Seq(Nat) /\ Len(cursor) = 0 /\ token \in Seq(Nat) /\ Len(token) = 0
  OBVIOUS
<1>10. cached \in Seq(Nat) /\ Len(cached) = 1 /\ cached[1] = 0
  OBVIOUS
<1>11. MaxContexts \in Nat
  BY BoundsAssumption
<1> QED BY <1>2, <1>7, <1>8, <1>9, <1>10, <1>11 DEF TypeInv

(* No block is open at first, and no cell filled. *)
LEMMA InitIInv == Init => IInv
<1> SUFFICES ASSUME Init PROVE IInv
  OBVIOUS
<1>1. TypeInv
  BY InitTypeInv
<1>2. blocks = <<>> /\ ambient = 0 /\ cursor = <<>>
  BY DEF Init
<1>3. blocks \in Seq(Nat) /\ Len(blocks) = 0 /\ Len(cursor) = 0
  BY <1>2
<1>4. StackInv
  BY <1>2, <1>3 DEF StackInv
<1>5. \A d \in 1 .. Len(ds) : DOMAIN ds[d].cell = {}
  <2>1. PICK id : ds = <<[id |-> id, pending |-> <<>>, cell |-> [n \in {} |-> 0], of |-> 0]>>
    BY DEF Init
  <2> QED BY <2>1
<1> QED BY <1>1, <1>3, <1>4, <1>5 DEF IInv, KindInv

-----------------------------------------------------------------------------
(* What a step does to the datasets and to the contexts                    *)

(* Datasets are added, none is changed. *)
StoreStep ==
  /\ minted' \in Nat /\ minted <= minted'
  /\ IsStore(ds', minted') /\ Len(ds') \in Nat /\ Len(ds) <= Len(ds')
  /\ \A d \in 1 .. Len(ds) : ds'[d] = ds[d]
  /\ cached' \in Seq(Nat) /\ Len(cached') = Len(ds')
  /\ \A d \in 1 .. Len(ds') : cached'[d] \in 0 .. Len(cursor)

(* No cell is filled by a program without bundles. *)
CellsStep == ~program.bundles => \A d \in 1 .. Len(ds') : DOMAIN ds'[d].cell = {}

PointStep ==
  /\ cursor' \in Seq(Nat) /\ Len(cursor') = Len(cursor)
  /\ \A c \in 1 .. Len(cursor) : cursor'[c] \in 1 .. Len(ds')

HandleStep == \A h \in handles' : h.ctx \in 1 .. Len(cursor) /\ h.id \in 1 .. minted'

(* A context stays, moves to a snapshot derived from its own that has all  *)
(* its fields or all but one dropped, or enters a cell of its snapshot.    *)
Derived(c) ==
  /\ cursor'[c] # 0 /\ ds'[cursor'[c]].of = cursor[c]
  /\ \/ \A n \in NamesOf(cursor[c]) : \E m \in DOMAIN ds'[cursor'[c]].id :
          ds'[cursor'[c]].id[m] = ds[cursor[c]].id[n]
     \/ \E a \in NamesOf(cursor[c]) : ds'[cursor'[c]] = Dropped(cursor[c], a)

Follows == \A c \in 1 .. Len(cursor) : cursor'[c] = cursor[c] \/ Derived(c) \/ EntersCell(c)

Alone == ~(program.blocks /\ program.bundles)

WorkStep ==
  /\ StoreStep /\ CellsStep /\ PointStep /\ HandleStep
  /\ Alone => Follows
  /\ program' = program /\ token' = token /\ ambient' = ambient /\ blocks' = blocks

(* Work on snapshots leaves the blocks alone. *)
LEMMA WorkKeepsIInv == IInv /\ WorkStep => IInv'
<1> SUFFICES ASSUME IInv, WorkStep PROVE IInv'
  OBVIOUS
<1>1. TypeInv'
  BY DEF IInv, TypeInv, WorkStep, StoreStep, PointStep, HandleStep
<1>2. StackInv'
  BY DEF IInv, StackInv, WorkStep, PointStep
<1>3. KindInv'
  BY DEF IInv, KindInv, WorkStep, CellsStep
<1> QED BY <1>1, <1>2, <1>3 DEF IInv

(* An operator makes one snapshot. *)
LEMMA OneSnapshot ==
  ASSUME TypeInv, NEW r, NEW k \in Nat, IsSnapshot(r, Len(ds), minted + k), MakeSnapshot(r, k)
  PROVE  /\ StoreStep
         /\ minted' = minted + k
         /\ Len(ds') = Len(ds) + 1 /\ ds'[Len(ds) + 1] = r
<1>1. /\ ds' = Append(ds, r) /\ cached' = Append(cached, 0) /\ minted' = minted + k
      /\ minted \in Nat /\ Len(ds) \in Nat /\ IsStore(ds, minted)
  BY DEF TypeInv, IsStore, Indexed, MakeSnapshot
<1>2. minted + k \in Nat /\ minted <= minted + k
  BY <1>1
<1>3. IsSnapshot(r, Len(ds) + 1, minted + k)
  BY <1>1, <1>2, SnapshotStays
<1>4. /\ IsStore(ds', minted') /\ Len(ds') = Len(ds) + 1 /\ ds'[Len(ds) + 1] = r
      /\ \A i \in 1 .. Len(ds) : ds'[i] = ds[i]
  BY <1>1, <1>2, <1>3, StoreGrows
<1>5. /\ cached' \in Seq(Nat) /\ Len(cached') = Len(ds')
      /\ \A d \in 1 .. Len(ds') : cached'[d] \in 0 .. Len(cursor)
  <2>1. /\ cached \in Seq(Nat) /\ Len(cached) = Len(ds) /\ Len(cursor) \in Nat
        /\ \A d \in 1 .. Len(ds) : cached[d] \in 0 .. Len(cursor)
    BY DEF TypeInv
  <2>2. /\ cached' \in Seq(Nat) /\ Len(cached') = Len(cached) + 1
        /\ \A d \in 1 .. Len(cached) : cached'[d] = cached[d]
        /\ cached'[Len(cached) + 1] = 0
    BY <1>1, <2>1, AppendProperties
  <2> QED BY <2>1, <2>2, <1>1, <1>4
<1> QED BY <1>1, <1>2, <1>4, <1>5 DEF StoreStep

(* Advancing the ambient context moves no other, and only from d. *)
LEMMA Advancing ==
  ASSUME NEW cur \in Seq(Nat), ambient \in 0 .. Len(cur), NEW d, NEW e \in Nat
  PROVE  /\ AdvanceAmbient(cur, d, e) \in Seq(Nat)
         /\ Len(AdvanceAmbient(cur, d, e)) = Len(cur)
         /\ \A c \in 1 .. Len(cur) :
              \/ AdvanceAmbient(cur, d, e)[c] = cur[c]
              \/ (cur[c] = d /\ AdvanceAmbient(cur, d, e)[c] = e)
         /\ ambient = 0 => AdvanceAmbient(cur, d, e) = cur
<1>1. CASE ambient # 0 /\ cur[ambient] = d
  <2>1. AdvanceAmbient(cur, d, e) = [cur EXCEPT ![ambient] = e]
    BY <1>1 DEF AdvanceAmbient
  <2> QED BY <1>1, <2>1
<1>2. CASE ~(ambient # 0 /\ cur[ambient] = d)
  <2>1. AdvanceAmbient(cur, d, e) = cur
    BY <1>2 DEF AdvanceAmbient
  <2> QED BY <2>1
<1> QED BY <1>1, <1>2

(* Contexts on the snapshot d moved to a new snapshot r derived from it. *)
LEMMA MovedToNew ==
  ASSUME TypeInv, NEW d \in 1 .. Len(ds), NEW r, r.of = d,
         Len(ds') = Len(ds) + 1, ds'[Len(ds) + 1] = r,
         \/ \A n \in NamesOf(d) : \E m \in DOMAIN r.id : r.id[m] = ds[d].id[n]
         \/ \E a \in NamesOf(d) : r = Dropped(d, a),
         cursor' \in Seq(Nat), Len(cursor') = Len(cursor),
         \A c \in 1 .. Len(cursor) :
           cursor'[c] = cursor[c] \/ (cursor[c] = d /\ cursor'[c] = Len(ds) + 1)
  PROVE  PointStep /\ Follows
<1>1. Len(ds) \in Nat /\ \A c \in 1 .. Len(cursor) : cursor[c] \in 1 .. Len(ds)
  BY DEF TypeInv, IsStore, Indexed
<1>2. PointStep
  <2>1. ASSUME NEW c \in 1 .. Len(cursor)
        PROVE  cursor'[c] \in 1 .. Len(ds')
    <3>1. cursor'[c] = cursor[c] \/ cursor'[c] = Len(ds) + 1
      OBVIOUS
    <3>2. cursor[c] \in 1 .. Len(ds)
      BY <1>1
    <3> QED BY <3>1, <3>2, <1>1
  <2> QED BY <2>1 DEF PointStep
<1>3. ASSUME NEW c \in 1 .. Len(cursor)
      PROVE  cursor'[c] = cursor[c] \/ Derived(c)
  <2>1. CASE cursor[c] = d /\ cursor'[c] = Len(ds) + 1
    <3>1. ds'[cursor'[c]] = r /\ cursor'[c] # 0
      BY <1>1, <2>1
    <3> QED BY <2>1, <3>1 DEF Derived
  <2> QED BY <2>1
<1> QED BY <1>2, <1>3 DEF Follows

(* A new snapshot with the cells of d, or without any. *)
LEMMA NewCells ==
  ASSUME IInv, StoreStep, Len(ds') = Len(ds) + 1, NEW d \in 1 .. Len(ds),
         DOMAIN ds[d].cell = {} => DOMAIN ds'[Len(ds) + 1].cell = {}
  PROVE  CellsStep
<1> SUFFICES ASSUME ~program.bundles, NEW i \in 1 .. Len(ds')
             PROVE  DOMAIN ds'[i].cell = {}
  BY DEF CellsStep
<1>1. Len(ds) \in Nat /\ \A e \in 1 .. Len(ds) : DOMAIN ds[e].cell = {}
  BY DEF IInv, TypeInv, IsStore, Indexed, KindInv
<1>2. CASE i \in 1 .. Len(ds)
  BY <1>1, <1>2 DEF StoreStep
<1>3. CASE i = Len(ds) + 1
  BY <1>1, <1>3
<1> QED BY <1>1, <1>2, <1>3

(* An eager operator given d moves the ambient context, if it is there. *)
LEMMA EagerStep ==
  ASSUME IInv, program' = program, NEW d \in 1 .. Len(ds), NEW r,
         IsSnapshot(r, Len(ds), minted), r.of = d,
         DOMAIN ds[d].cell = {} => DOMAIN r.cell = {},
         \/ \A n \in NamesOf(d) : \E m \in DOMAIN r.id : r.id[m] = ds[d].id[n]
         \/ \E a \in NamesOf(d) : r = Dropped(d, a),
         EagerOperator(d, r)
  PROVE  WorkStep
<1>1. /\ MakeSnapshot(r, 0)
      /\ cursor' = AdvanceAmbient(cursor, d, Len(ds) + 1)
      /\ token' = token /\ ambient' = ambient /\ blocks' = blocks /\ handles' = handles
  BY DEF EagerOperator
<1>2. TypeInv /\ minted \in Nat /\ minted + 0 = minted /\ Len(ds) \in Nat /\ Len(ds) + 1 \in Nat
  BY DEF IInv, TypeInv, IsStore, Indexed
<1>3. /\ StoreStep /\ minted' = minted
      /\ Len(ds') = Len(ds) + 1 /\ ds'[Len(ds) + 1] = r
  BY <1>1, <1>2, OneSnapshot
<1>4. cursor \in Seq(Nat) /\ ambient \in 0 .. Len(cursor)
  BY <1>2 DEF TypeInv
<1>5. /\ cursor' \in Seq(Nat) /\ Len(cursor') = Len(cursor)
      /\ \A c \in 1 .. Len(cursor) :
           cursor'[c] = cursor[c] \/ (cursor[c] = d /\ cursor'[c] = Len(ds) + 1)
  BY <1>1, <1>2, <1>4, Advancing
<1>6. PointStep /\ Follows
  BY <1>2, <1>3, <1>5, MovedToNew
<1>7. CellsStep
  BY <1>3, NewCells
<1>8. HandleStep
  BY <1>1, <1>2, <1>3 DEF HandleStep, TypeInv
<1> QED BY <1>1, <1>3, <1>6, <1>7, <1>8 DEF WorkStep

(* Renaming a field. *)
LEMMA RenameStep ==
  ASSUME IInv, program' = program, NEW d \in 1 .. Len(ds), NEW a, NEW b, RenameField(d, a, b)
  PROVE  WorkStep
<1> DEFINE r == Renamed(d, a, b)
<1>1. a \in NamesOf(d) /\ b \notin NamesOf(d) /\ EagerOperator(d, r)
  BY DEF RenameField
<1>2. IsSnapshot(ds[d], Len(ds), minted) /\ minted \in Nat /\ Len(ds) \in Nat
  BY DEF IInv, TypeInv, IsStore, Indexed
<1>3. /\ IsSnapshot(r, Len(ds), minted) /\ r.of = d
      /\ DOMAIN r.id = (NamesOf(d) \ {a}) \cup {b}
      /\ \A q \in NamesOf(d) \ {a} : r.id[q] = ds[d].id[q]
      /\ r.id[b] = ds[d].id[a]
      /\ DOMAIN ds[d].cell = {} => DOMAIN r.cell = {}
  BY <1>1, <1>2, RenamedSnapshot
<1> HIDE DEF r
<1>4. \A n \in NamesOf(d) : \E m \in DOMAIN r.id : r.id[m] = ds[d].id[n]
  BY <1>3
<1> QED BY <1>1, <1>3, <1>4, EagerStep

(* Dropping a field. *)
LEMMA DropStep ==
  ASSUME IInv, program' = program, NEW d \in 1 .. Len(ds), NEW a, DropField(d, a)
  PROVE  WorkStep
<1> DEFINE r == Dropped(d, a)
<1>1. a \in NamesOf(d) /\ EagerOperator(d, r)
  BY DEF DropField
<1>2. IsSnapshot(ds[d], Len(ds), minted) /\ minted \in Nat /\ Len(ds) \in Nat
  BY DEF IInv, TypeInv, IsStore, Indexed
<1>3. /\ IsSnapshot(r, Len(ds), minted) /\ r.of = d
      /\ DOMAIN ds[d].cell = {} => DOMAIN r.cell = {}
  BY <1>1, <1>2, DroppedSnapshot
<1>4. \E q \in NamesOf(d) : r = Dropped(d, q)
  BY <1>1
<1> HIDE DEF r
<1> QED BY <1>1, <1>3, <1>4, EagerStep

(* A new field, in the dataset of the context c: c moves to it. *)
LEMMA AuthoringStep ==
  ASSUME IInv, program' = program, NEW c \in 1 .. Len(cursor), NEW r, NEW n,
         IsSnapshot(r, Len(ds), minted + 1), r.of = cursor[c],
         \A q \in NamesOf(cursor[c]) : r.id[q] = ds[cursor[c]].id[q],
         DOMAIN r.id = NamesOf(cursor[c]) \cup {n},
         r.cell = ds[cursor[c]].cell,
         MakeSnapshot(r, 1),
         cursor' = [cursor EXCEPT ![c] = Len(ds) + 1],
         Keep([ctx |-> c, id |-> minted + 1]),
         UNCHANGED <<token, ambient, blocks>>
  PROVE  WorkStep
<1>1. TypeInv /\ minted \in Nat /\ Len(ds) \in Nat /\ Len(ds) + 1 \in Nat /\ 1 \in Nat
  BY DEF IInv, TypeInv, IsStore, Indexed
<1>2. /\ StoreStep /\ minted' = minted + 1
      /\ Len(ds') = Len(ds) + 1 /\ ds'[Len(ds) + 1] = r
  BY <1>1, OneSnapshot
<1>3. cursor \in Seq(Nat) /\ cursor[c] \in 1 .. Len(ds)
  BY <1>1 DEF TypeInv
<1>4. /\ cursor' \in Seq(Nat) /\ Len(cursor') = Len(cursor)
      /\ \A q \in 1 .. Len(cursor) :
           cursor'[q] = cursor[q] \/ (cursor[q] = cursor[c] /\ cursor'[q] = Len(ds) + 1)
  BY <1>1, <1>3
<1>5. \A q \in NamesOf(cursor[c]) : \E m \in DOMAIN r.id : r.id[m] = ds[cursor[c]].id[q]
  OBVIOUS
<1>6. PointStep /\ Follows
  BY <1>1, <1>2, <1>3, <1>4, <1>5, MovedToNew
<1>7. CellsStep
  BY <1>2, <1>3, NewCells
<1>8. HandleStep
  BY <1>1, <1>2 DEF HandleStep, TypeInv, Keep
<1> QED BY <1>2, <1>6, <1>7, <1>8 DEF WorkStep

(* Declaring a field. *)
LEMMA NewFieldStep ==
  ASSUME IInv, program' = program, NEW c \in 1 .. Len(cursor), NEW n, NewField(c, n)
  PROVE  WorkStep
<1> DEFINE d == cursor[c]
           r == Declared(d, n)
           M == minted + 1
<1>1. d \in 1 .. Len(ds) /\ IsSnapshot(ds[d], Len(ds), minted) /\ minted \in Nat /\ Len(ds) \in Nat
      /\ M \in Nat
  BY DEF IInv, TypeInv, IsStore, Indexed
<1>2. n \notin NamesOf(d)
  BY DEF NewField
<1> HIDE DEF d
<1>3. M = minted + 1
  OBVIOUS
<1> HIDE DEF M
<1>4. /\ IsSnapshot(r, Len(ds), M) /\ r.of = d
      /\ DOMAIN r.id = NamesOf(d) \cup {n}
      /\ \A q \in NamesOf(d) : r.id[q] = ds[d].id[q]
      /\ r.cell = ds[d].cell
  BY <1>1, <1>2, <1>3, DeclaredSnapshot
<1>5. /\ MakeSnapshot(r, 1)
      /\ cursor' = [cursor EXCEPT ![c] = Len(ds) + 1]
      /\ Keep([ctx |-> c, id |-> minted + 1])
      /\ UNCHANGED <<token, ambient, blocks>>
  BY DEF NewField, d
<1> HIDE DEF r
<1> QED BY <1>4, <1>5, AuthoringStep DEF d, M

(* The name under which a handle resolves. *)
LEMMA NameResolves ==
  ASSUME NEW h, Resolves(h)
  PROVE  /\ Name(h) \in NamesOf(cursor[h.ctx])
         /\ ds[cursor[h.ctx]].id[Name(h)] = h.id
<1>1. Cardinality(Matches(h)) = 1
  BY DEF Resolves
<1>2. Matches(h) # {}
  BY <1>1, FS_EmptySet
<1>3. Name(h) \in Matches(h)
  BY <1>2 DEF Name
<1> QED BY <1>3 DEF Matches

(* Recording work into a new field, in the level or into a bundle. *)
LEMMA ExtendStep ==
  ASSUME IInv, program' = program, NEW h \in handles, NEW n, RecordCoupling(h, n) \/ DeferInLevel(h, n)
  PROVE  WorkStep
<1> DEFINE c == h.ctx
           d == cursor[c]
           m == Name(h)
           r == Extended(d, n, m)
<1>1. /\ c \in 1 .. Len(cursor) /\ d \in 1 .. Len(ds) /\ IsSnapshot(ds[d], Len(ds), minted)
      /\ minted \in Nat /\ Len(ds) \in Nat
  BY DEF IInv, TypeInv, IsStore, Indexed
<1>2. m \in NamesOf(d)
  BY NameResolves DEF RecordCoupling, DeferInLevel
<1>3. n \notin NamesOf(d)
  BY DEF RecordCoupling, DeferInLevel
<1>4. /\ MakeSnapshot(r, 1)
      /\ cursor' = [cursor EXCEPT ![c] = Len(ds) + 1]
      /\ Keep([ctx |-> c, id |-> minted + 1])
      /\ UNCHANGED <<token, ambient, blocks>>
  BY DEF RecordCoupling, DeferInLevel
<1> HIDE DEF c, d, m
<1>5. /\ IsSnapshot(r, Len(ds), minted + 1) /\ r.of = d
      /\ DOMAIN r.id = NamesOf(d) \cup {n}
      /\ \A q \in NamesOf(d) : r.id[q] = ds[d].id[q]
      /\ r.cell = ds[d].cell
  BY <1>1, <1>2, <1>3, ExtendedSnapshot
<1> HIDE DEF r
<1> QED BY <1>1, <1>4, <1>5, AuthoringStep DEF d

(* Assigning through a context moves it, and the ambient one if it points  *)
(* at the same snapshot.                                                   *)
LEMMA AssignStep ==
  ASSUME IInv, program' = program, NEW c \in 1 .. Len(cursor), AssignThrough(c)
  PROVE  WorkStep
<1> DEFINE d == cursor[c]
           r == [ds[d] EXCEPT !.of = d]
           moved == AdvanceAmbient(cursor, d, Len(ds) + 1)
<1>1. /\ d \in 1 .. Len(ds) /\ IsSnapshot(ds[d], Len(ds), minted)
      /\ minted \in Nat /\ minted + 0 = minted /\ Len(ds) \in Nat /\ Len(ds) + 1 \in Nat
      /\ TypeInv /\ d \in 0 .. Len(ds)
  BY DEF IInv, TypeInv, IsStore, Indexed
<1>2. /\ MakeSnapshot(r, 0) /\ cursor' = [moved EXCEPT ![c] = Len(ds) + 1]
      /\ token' = token /\ ambient' = ambient /\ blocks' = blocks /\ handles' = handles
  BY DEF AssignThrough
<1>3. IsSnapshot(r, Len(ds), minted)
  BY <1>1, DerivedSnapshot
<1>4. r.id = ds[d].id /\ r.cell = ds[d].cell /\ r.of = d
  BY <1>1 DEF IsSnapshot
<1> HIDE DEF r
<1>5. /\ StoreStep /\ minted' = minted
      /\ Len(ds') = Len(ds) + 1 /\ ds'[Len(ds) + 1] = r
  BY <1>1, <1>2, <1>3, OneSnapshot
<1>6. cursor \in Seq(Nat) /\ ambient \in 0 .. Len(cursor)
  BY <1>1 DEF TypeInv
<1>7. /\ moved \in Seq(Nat) /\ Len(moved) = Len(cursor)
      /\ \A q \in 1 .. Len(cursor) :
           moved[q] = cursor[q] \/ (cursor[q] = d /\ moved[q] = Len(ds) + 1)
  <2> HIDE DEF d
  <2> QED BY <1>1, <1>6, Advancing
<1> HIDE DEF moved
<1>8. /\ cursor' \in Seq(Nat) /\ Len(cursor') = Len(cursor)
      /\ \A q \in 1 .. Len(cursor) :
           cursor'[q] = cursor[q] \/ (cursor[q] = d /\ cursor'[q] = Len(ds) + 1)
  BY <1>1, <1>2, <1>7
<1> HIDE DEF d
<1>9. \A n \in NamesOf(d) : \E m \in DOMAIN r.id : r.id[m] = ds[d].id[n]
  BY <1>4 DEF NamesOf
<1>10. PointStep /\ Follows
  BY <1>1, <1>4, <1>5, <1>8, <1>9, MovedToNew
<1>11. CellsStep
  BY <1>1, <1>4, <1>5, NewCells
<1>12. HandleStep
  BY <1>1, <1>2, <1>5 DEF HandleStep, TypeInv
<1> QED BY <1>2, <1>5, <1>10, <1>11, <1>12 DEF WorkStep

(* A bundle of d is an artifact of its own. *)
LEMMA BundleStep ==
  ASSUME IInv, program' = program, NEW d \in 1 .. Len(ds), NEW n, Bundle(d, n)
  PROVE  WorkStep
<1> DEFINE newid == [m \in {n} |-> minted + 1]
           newcell == [m \in {n} |-> d]
           r == [id |-> newid, pending |-> <<>>, cell |-> newcell, of |-> 0]
<1>1. minted \in Nat /\ Len(ds) \in Nat /\ TypeInv
  BY DEF IInv, TypeInv, IsStore, Indexed
<1>2. /\ program.bundles /\ MakeSnapshot(r, 1)
      /\ UNCHANGED <<cursor, token, ambient, blocks, handles>>
  BY DEF Bundle
<1>3. AreParts({n}, newid, <<>>, newcell, 0, Len(ds), minted + 1)
  BY <1>1 DEF AreParts
<1> HIDE DEF newid, newcell
<1>4. IsSnapshot(r, Len(ds), minted + 1)
  BY <1>3, SnapshotParts
<1> HIDE DEF r
<1>5. StoreStep /\ minted' = minted + 1
  BY <1>1, <1>2, <1>4, OneSnapshot
<1>6. PointStep
  BY <1>1, <1>2, <1>5 DEF PointStep, StoreStep, TypeInv
<1>7. CellsStep /\ Follows
  BY <1>2 DEF CellsStep, Follows
<1>8. HandleStep
  BY <1>1, <1>2, <1>5 DEF HandleStep, TypeInv
<1> QED BY <1>2, <1>5, <1>6, <1>7, <1>8 DEF WorkStep

(* A store that is left as it is. *)
LEMMA SameStore ==
  ASSUME IInv, UNCHANGED <<ds, cached, minted>>, program' = program
  PROVE  StoreStep /\ CellsStep
BY DEF StoreStep, CellsStep, IInv, TypeInv, KindInv, IsStore, Indexed

(* extract takes its context into a cell. *)
LEMMA ExtractStep ==
  ASSUME IInv, program' = program, NEW h \in handles, Extract(h)
  PROVE  WorkStep
<1> DEFINE c == h.ctx
           d == cursor[c]
           n == Name(h)
<1>1. /\ c \in 1 .. Len(cursor) /\ d \in 1 .. Len(ds) /\ IsSnapshot(ds[d], Len(ds), minted)
      /\ cursor \in Seq(Nat) /\ Len(ds) \in Nat
      /\ \A q \in 1 .. Len(cursor) : cursor[q] \in 1 .. Len(ds)
  BY DEF IInv, TypeInv, IsStore, Indexed
<1>2. /\ n \in DOMAIN ds[d].cell
      /\ cursor' = [cursor EXCEPT ![c] = ds[d].cell[n]]
      /\ UNCHANGED <<ds, cached, token, ambient, blocks, handles, minted>>
  BY DEF Extract
<1>3. ds[d].cell[n] \in 1 .. Len(ds)
  BY <1>1, <1>2 DEF IsSnapshot
<1>4. StoreStep /\ CellsStep
  BY <1>2, SameStore
<1> HIDE DEF d, n, c
<1>5. PointStep
  BY <1>1, <1>2, <1>3 DEF PointStep
<1>6. \A q \in 1 .. Len(cursor) : cursor'[q] = cursor[q] \/ (q = c /\ cursor'[q] = ds[d].cell[n])
  BY <1>1, <1>2
<1>7. Follows
  BY <1>2, <1>6 DEF Follows, EntersCell, d
<1>8. HandleStep
  BY <1>2 DEF HandleStep, IInv, TypeInv
<1> QED BY <1>2, <1>4, <1>5, <1>7, <1>8 DEF WorkStep

(* Unless a program uses both blocks and bundles, running the work pending *)
(* in d moves no context.                                                  *)
LEMMA RunsInPlace ==
  ASSUME IInv, NEW d \in 1 .. Len(ds), NEW ran, HasRun(d, ran), Alone
  PROVE  ran.cursor = cursor
<1>1. CASE ~program.blocks
  <2>1. ambient = 0
    BY <1>1 DEF IInv, KindInv, StackInv
  <2> QED BY <2>1 DEF HasRun
<1>2. CASE ~program.bundles
  <2>1. DOMAIN ds[d].cell = {}
    BY <1>2 DEF IInv, KindInv
  <2> QED BY <2>1 DEF HasRun
<1> QED BY <1>1, <1>2 DEF Alone

(* The caches of a longer store. *)
LEMMA LongerCache ==
  ASSUME TypeInv, NEW len \in Nat, Len(ds) <= len,
         cached' = [k \in 1 .. len |-> IF k \in Datasets THEN cached[k] ELSE 0]
  PROVE  /\ cached' \in Seq(Nat) /\ Len(cached') = len
         /\ \A d \in 1 .. len : cached'[d] \in 0 .. Len(cursor)
<1>1. /\ Datasets = 1 .. Len(ds) /\ Len(ds) \in Nat /\ Len(cursor) \in Nat
      /\ \A d \in 1 .. Len(ds) : cached[d] \in 0 .. Len(cursor)
  BY DEF TypeInv, IsStore, Indexed, Datasets
<1>2. \A k \in 1 .. len : (IF k \in Datasets THEN cached[k] ELSE 0) \in 0 .. Len(cursor)
  BY <1>1
<1>3. cached' \in [1 .. len -> Nat]
  BY <1>1, <1>2
<1> QED BY <1>2, <1>3

(* Reading a row moves no context but the ambient one. *)
LEMMA ReadStep ==
  ASSUME IInv, program' = program, NEW d \in 1 .. Len(ds), ReadRow(d)
  PROVE  WorkStep
<1> DEFINE ran == RunPending(d, Names)
<1>1. TypeInv /\ Len(ds) \in Nat /\ minted \in Nat
  BY DEF IInv, TypeInv, IsStore, Indexed
<1>2. HasRun(d, ran)
  BY <1>1, RunPendingRuns
<1>3. /\ cursor' = ran.cursor
      /\ IF ran.cursor = cursor
         THEN UNCHANGED <<ds, cached>>
         ELSE /\ ds' = ran.ds
              /\ cached' = [k \in DOMAIN ran.ds |-> IF k \in Datasets THEN cached[k] ELSE 0]
      /\ UNCHANGED <<token, ambient, blocks, handles, minted>>
  BY DEF ReadRow
<1> HIDE DEF ran
<1>4. CASE ran.cursor = cursor
  <2>1. StoreStep /\ CellsStep
    BY <1>3, <1>4, SameStore
  <2>2. PointStep
    BY <1>1, <1>3, <1>4 DEF PointStep, TypeInv
  <2>3. Follows
    BY <1>3, <1>4 DEF Follows
  <2>4. HandleStep
    BY <1>3 DEF HandleStep, IInv, TypeInv
  <2> QED BY <1>3, <2>1, <2>2, <2>3, <2>4 DEF WorkStep
<1>5. CASE ran.cursor # cursor
  <2>1. /\ ds' = ran.ds
        /\ cached' = [k \in DOMAIN ran.ds |-> IF k \in Datasets THEN cached[k] ELSE 0]
    BY <1>3, <1>5
  <2>2. /\ IsStore(ran.ds, minted) /\ Len(ds) <= Len(ran.ds)
        /\ \A i \in 1 .. Len(ds) : ran.ds[i] = ds[i]
        /\ Len(ran.ds) \in Nat /\ DOMAIN ran.ds = 1 .. Len(ran.ds)
    BY <1>2 DEF HasRun, IsStore, Indexed
  <2>3. /\ cached' \in Seq(Nat) /\ Len(cached') = Len(ran.ds)
        /\ \A k \in 1 .. Len(ran.ds) : cached'[k] \in 0 .. Len(cursor)
    <3> DEFINE len == Len(ran.ds)
    <3>1. len \in Nat /\ Len(ds) <= len
          /\ cached' = [k \in 1 .. len |-> IF k \in Datasets THEN cached[k] ELSE 0]
      BY <2>1, <2>2
    <3> HIDE DEF len
    <3>2. /\ cached' \in Seq(Nat) /\ Len(cached') = len
          /\ \A k \in 1 .. len : cached'[k] \in 0 .. Len(cursor)
      BY <1>1, <3>1, LongerCache
    <3> QED BY <3>2 DEF len
  <2>4. StoreStep
    <3>1. minted' = minted /\ ds' = ran.ds
      BY <1>3, <2>1
    <3>2. /\ IsStore(ds', minted') /\ Len(ds) <= Len(ds') /\ Len(ds') \in Nat
          /\ \A i \in 1 .. Len(ds) : ds'[i] = ds[i]
      BY <2>2, <3>1
    <3>3. /\ cached' \in Seq(Nat) /\ Len(cached') = Len(ds')
          /\ \A k \in 1 .. Len(ds') : cached'[k] \in 0 .. Len(cursor)
      BY <2>3, <3>1
    <3>4. minted' \in Nat /\ minted <= minted'
      BY <1>1, <3>1
    <3> QED BY <3>2, <3>3, <3>4 DEF StoreStep
  <2>5. ~Alone
    BY <1>2, <1>5, RunsInPlace
  <2>6. CellsStep
    BY <2>5 DEF Alone, CellsStep
  <2>7. PointStep
    BY <1>2, <1>3, <2>1 DEF PointStep, HasRun
  <2>8. HandleStep
    BY <1>3 DEF HandleStep, IInv, TypeInv
  <2> QED BY <1>3, <2>4, <2>5, <2>6, <2>7, <2>8 DEF WorkStep
<1> QED BY <1>4, <1>5

(* What a collect of h does, to the datasets and to its snapshot. *)
LEMMA CollectStore ==
  ASSUME IInv, program' = program, NEW h \in handles, Collect(h),
         NEW d, d = cursor[h.ctx], NEW ran, ran = RunPending(d, Needs(d, Name(h)))
  PROVE  /\ StoreStep /\ CellsStep
         /\ HasRun(d, ran)
         /\ Len(ds') = Len(ran.ds) + 1
         /\ ds'[Len(ds')].id = ds[d].id
         /\ ds'[Len(ds')].pending =
              Kept(ds[d].pending, {k \in DOMAIN ds[d].pending : ds[d].pending[k].out \notin Needs(d, Name(h))})
         /\ ds'[Len(ds')].of = d
<1> DEFINE needed == Needs(d, Name(h))
           old == ds[d]
           keep == {k \in DOMAIN old.pending : old.pending[k].out \notin needed}
           newpending == Kept(old.pending, keep)
           filled == Len(ran.ds) + 1
           r == [id |-> old.id, pending |-> newpending, cell |-> ran.cell, of |-> d]
<1>1. /\ h.ctx \in 1 .. Len(cursor) /\ d \in 1 .. Len(ds) /\ IsSnapshot(old, Len(ds), minted)
      /\ minted \in Nat /\ Len(ds) \in Nat /\ TypeInv
  BY DEF IInv, TypeInv, IsStore, Indexed
<1>2. HasRun(d, ran)
  BY <1>1, RunPendingRuns
<1>3. /\ ds' = Append(ran.ds, r)
      /\ cached' = [k \in 1 .. filled |-> IF k \in Datasets THEN cached[k] ELSE 0]
      /\ minted' = minted
  BY DEF Collect
<1>4. /\ IsStore(ran.ds, minted) /\ Len(ran.ds) \in Nat /\ Len(ds) <= Len(ran.ds)
      /\ \A i \in 1 .. Len(ds) : ran.ds[i] = ds[i]
  BY <1>2 DEF HasRun, IsStore, Indexed
<1>5. r = [id |-> old.id, pending |-> newpending, cell |-> ran.cell, of |-> d]
  OBVIOUS
<1>6. IsSnapshot(r, filled, minted)
  <2> DEFINE F == DOMAIN old.id
  <2>1. old.pending \in Seq([in : F, out : F])
    BY <1>1 DEF IsSnapshot
  <2>2. newpending \in Seq([in : F, out : F])
    <3>1. \A k \in keep \cap 1 .. Len(old.pending) : {old.pending[k].in, old.pending[k].out} \subseteq F
      <4> DEFINE S == [in : F, out : F]
      <4>1. \A k \in 1 .. Len(old.pending) : old.pending[k] \in S
        <5>1. old.pending \in Seq(S)
          BY <2>1
        <5> HIDE DEF S, old
        <5> QED BY <5>1, LenProperties
      <4>2. \A k \in 1 .. Len(old.pending) : old.pending[k].in \in F /\ old.pending[k].out \in F
        BY <4>1
      <4> HIDE DEF S, old, F
      <4> QED BY <4>2
    <3> HIDE DEF keep, old, F
    <3> QED BY <2>1, <3>1, KeptPending
  <2>3. /\ ran.cell = [q \in DOMAIN ran.cell |-> ran.cell[q]]
        /\ \A q \in DOMAIN ran.cell : q \in F /\ ran.cell[q] \in 1 .. filled
    BY <1>2, <1>4, SMTT(40) DEF HasRun
  <2>4. /\ \A q \in F : old.id[q] \in 1 .. minted
        /\ \A p, q \in F : old.id[p] = old.id[q] => p = q
        /\ old.id = [q \in F |-> old.id[q]]
    BY <1>1 DEF IsSnapshot
  <2>5. d \in 0 .. filled
    BY <1>1, <1>4
  <2> HIDE DEF newpending, old, filled
  <2>6. AreParts(F, old.id, newpending, ran.cell, d, filled, minted)
    BY <2>2, <2>3, <2>4, <2>5 DEF AreParts
  <2>7. IsSnapshot([id |-> old.id, pending |-> newpending, cell |-> ran.cell, of |-> d], filled, minted)
    <3> HIDE DEF F
    <3> QED BY <2>6, SnapshotParts
  <2> QED BY <1>5, <2>7
<1>7. r.id = old.id /\ r.pending = newpending /\ r.of = d /\ r.cell = ran.cell
  <2> HIDE DEF old, newpending, r
  <2> QED BY <1>5
<1> HIDE DEF r, filled
<1>8. /\ IsStore(ds', minted') /\ Len(ds') = Len(ran.ds) + 1 /\ ds'[Len(ran.ds) + 1] = r
      /\ \A i \in 1 .. Len(ran.ds) : ds'[i] = ran.ds[i]
  BY <1>1, <1>3, <1>4, <1>6, StoreGrows DEF filled
<1>9. /\ cached' \in Seq(Nat) /\ Len(cached') = filled
      /\ \A k \in 1 .. filled : cached'[k] \in 0 .. Len(cursor)
  <2>1. filled \in Nat /\ Len(ds) <= filled
    BY <1>1, <1>4 DEF filled
  <2> QED BY <1>1, <1>3, <2>1, LongerCache
<1>10. StoreStep
  <2>1. /\ minted' \in Nat /\ minted <= minted' /\ Len(ds') \in Nat /\ Len(ds) <= Len(ds')
        /\ Len(ds') = filled
    BY <1>1, <1>3, <1>4, <1>8 DEF filled
  <2>2. \A i \in 1 .. Len(ds) : ds'[i] = ds[i]
    BY <1>1, <1>4, <1>8
  <2> QED BY <1>8, <1>9, <2>1, <2>2 DEF StoreStep
<1>11. CellsStep
  <2> SUFFICES ASSUME ~program.bundles, NEW i \in 1 .. Len(ds')
               PROVE  DOMAIN ds'[i].cell = {}
    BY DEF CellsStep
  <2>1. \A e \in 1 .. Len(ds) : DOMAIN ds[e].cell = {}
    BY DEF IInv, KindInv
  <2>2. ran.ds = ds /\ DOMAIN ran.cell = {}
    BY <1>1, <1>2, <2>1 DEF HasRun
  <2>3. CASE i \in 1 .. Len(ds)
    BY <2>1, <2>3, <1>10 DEF StoreStep
  <2>4. CASE i = Len(ds) + 1
    BY <2>2, <2>4, <1>7, <1>8
  <2> QED BY <2>2, <2>3, <2>4, <1>1, <1>8
<1> QED BY <1>2, <1>7, <1>8, <1>10, <1>11

(* collect moves the context of its handle to what it made. *)
LEMMA CollectStep ==
  ASSUME IInv, program' = program, NEW h \in handles, Collect(h)
  PROVE  /\ WorkStep
         /\ Alone => cursor'[h.ctx] = Len(ds')
<1> DEFINE c == h.ctx
           d == cursor[c]
           n == Name(h)
           ran == RunPending(d, Needs(d, n))
           filled == Len(ran.ds) + 1
           moved == AdvanceAmbient(ran.cursor, d, filled)
           adopted == [moved EXCEPT ![c] = filled]
<1>1. /\ c \in 1 .. Len(cursor) /\ d \in 1 .. Len(ds) /\ Len(ds) \in Nat
      /\ ambient \in 0 .. Len(cursor) /\ cursor \in Seq(Nat)
      /\ \A q \in 1 .. Len(cursor) : cursor[q] \in 1 .. Len(ds)
  BY DEF IInv, TypeInv, IsStore, Indexed
<1>2. /\ StoreStep /\ CellsStep /\ HasRun(d, ran) /\ Len(ds') = filled
      /\ ds'[filled].id = ds[d].id /\ ds'[filled].of = d
  BY CollectStore
<1>3. /\ cursor' = IF n \in DOMAIN ran.cell THEN AdvanceAmbient(adopted, filled, ran.cell[n]) ELSE adopted
      /\ token' = token /\ ambient' = ambient /\ blocks' = blocks /\ handles' = handles
      /\ minted' = minted
  BY DEF Collect
<1> HIDE DEF ran, d, n
<1>4. /\ ran.cursor \in Seq(Nat) /\ Len(ran.cursor) = Len(cursor)
      /\ \A q \in 1 .. Len(cursor) : ran.cursor[q] \in 1 .. Len(ran.ds)
      /\ Len(ran.ds) \in Nat /\ filled \in Nat
      /\ \A q \in DOMAIN ran.cell : ran.cell[q] \in 1 .. Len(ran.ds)
  BY <1>2 DEF HasRun, IsStore, Indexed
<1>5. /\ moved \in Seq(Nat) /\ Len(moved) = Len(cursor)
      /\ \A q \in 1 .. Len(cursor) :
           moved[q] = ran.cursor[q] \/ (ran.cursor[q] = d /\ moved[q] = filled)
      /\ ambient = 0 => moved = ran.cursor
  <2> DEFINE cur == ran.cursor
  <2>1. cur \in Seq(Nat) /\ ambient \in 0 .. Len(cur) /\ Len(cur) = Len(cursor) /\ filled \in Nat
    BY <1>1, <1>4
  <2> HIDE DEF filled, cur
  <2>2. /\ AdvanceAmbient(cur, d, filled) \in Seq(Nat)
        /\ Len(AdvanceAmbient(cur, d, filled)) = Len(cur)
        /\ \A q \in 1 .. Len(cur) :
             \/ AdvanceAmbient(cur, d, filled)[q] = cur[q]
             \/ (cur[q] = d /\ AdvanceAmbient(cur, d, filled)[q] = filled)
        /\ ambient = 0 => AdvanceAmbient(cur, d, filled) = cur
    BY <2>1, Advancing
  <2> QED BY <2>1, <2>2 DEF cur
<1> HIDE DEF moved
<1>6. /\ adopted \in Seq(Nat) /\ Len(adopted) = Len(cursor)
      /\ adopted[c] = filled
      /\ \A q \in 1 .. Len(cursor) : adopted[q] = moved[q] \/ adopted[q] = filled
      /\ \A q \in 1 .. Len(cursor) : q # c => adopted[q] = moved[q]
  BY <1>1, <1>4, <1>5, SMTT(40)
<1> HIDE DEF adopted
<1>7. ASSUME NEW q \in 1 .. Len(cursor)
      PROVE  adopted[q] \in 1 .. filled
  <2>1. adopted[q] = ran.cursor[q] \/ adopted[q] = filled
    BY <1>5, <1>6
  <2>2. ran.cursor[q] \in 1 .. Len(ran.ds)
    BY <1>4
  <2> QED BY <2>1, <2>2, <1>4
<1>8. PointStep
  <2>1. CASE n \in DOMAIN ran.cell
    <3>1. /\ cursor' = AdvanceAmbient(adopted, filled, ran.cell[n])
          /\ ran.cell[n] \in 1 .. filled /\ ran.cell[n] \in Nat
      BY <1>3, <1>4, <2>1
    <3> DEFINE e == ran.cell[n]
    <3>2. /\ AdvanceAmbient(adopted, filled, e) \in Seq(Nat)
          /\ Len(AdvanceAmbient(adopted, filled, e)) = Len(adopted)
          /\ \A q \in 1 .. Len(adopted) :
               \/ AdvanceAmbient(adopted, filled, e)[q] = adopted[q]
               \/ (adopted[q] = filled /\ AdvanceAmbient(adopted, filled, e)[q] = e)
      <4>1. e \in Nat
        BY <3>1
      <4> HIDE DEF e
      <4> QED BY <4>1, <1>1, <1>6, Advancing, SMTT(40)
    <3> HIDE DEF filled
    <3> QED BY <3>1, <3>2, <1>2, <1>6, <1>7 DEF PointStep
  <2>2. CASE n \notin DOMAIN ran.cell
    BY <2>2, <1>2, <1>3, <1>6, <1>7 DEF PointStep
  <2> QED BY <2>1, <2>2
<1>9. HandleStep
  BY <1>3 DEF HandleStep, IInv, TypeInv
<1>10. ASSUME Alone
       PROVE  Follows /\ cursor'[c] = filled
  <2>1. ran.cursor = cursor
    BY <1>1, <1>2, <1>10, RunsInPlace
  <2>2. cursor' = adopted
    <3>1. CASE ~program.blocks
      <4>1. ambient = 0
        BY <3>1 DEF IInv, KindInv, StackInv
      <4> QED BY <4>1, <1>3 DEF AdvanceAmbient
    <3>2. CASE ~program.bundles
      <4>1. DOMAIN ds[d].cell = {}
        BY <3>2, <1>1 DEF IInv, KindInv
      <4>2. DOMAIN ran.cell = {}
        BY <4>1, <1>2 DEF HasRun
      <4> QED BY <4>2, <1>3
    <3> QED BY <3>1, <3>2, <1>10 DEF Alone
  <2>3. ASSUME NEW q \in 1 .. Len(cursor)
        PROVE  cursor'[q] = cursor[q] \/ (cursor[q] = d /\ cursor'[q] = filled)
    BY <2>1, <2>2, <1>5, <1>6 DEF d
  <2>4. ASSUME NEW q \in 1 .. Len(cursor), cursor[q] = d, cursor'[q] = filled
        PROVE  Derived(q)
    <3>1. filled # 0
      BY <1>4
    <3> HIDE DEF filled
    <3> QED BY <2>4, <3>1, <1>2 DEF Derived, NamesOf
  <2> HIDE DEF filled
  <2> QED BY <2>2, <2>3, <2>4, <1>6 DEF Follows
<1> QED BY <1>2, <1>3, <1>8, <1>9, <1>10 DEF WorkStep

-----------------------------------------------------------------------------
(* The steps that open contexts and blocks                                 *)

(* The datasets made so far stay as they are, and contexts are kept. *)
Immutable ==
  /\ Len(ds) <= Len(ds') /\ Len(cursor) <= Len(cursor')
  /\ \A d \in 1 .. Len(ds) : ds'[d] = ds[d]

(* A new context, inactive. *)
LEMMA NewContextStep ==
  ASSUME IInv, NEW d \in 1 .. Len(ds), NewContext(d),
         UNCHANGED <<program, ds, ambient, blocks, minted>>,
         cached' \in Seq(Nat), Len(cached') = Len(cached),
         \A e \in 1 .. Len(ds) : cached'[e] \in 0 .. Len(cursor) + 1,
         \A h \in handles' : h.ctx \in 1 .. Len(cursor) + 1 /\ h.id \in 1 .. minted
  PROVE  IInv' /\ Follows /\ Immutable
<1>1. /\ cursor \in Seq(Nat) /\ token \in Seq(Nat) /\ Len(token) = Len(cursor)
      /\ Len(cursor) \in Nat /\ Len(ds) \in Nat /\ d \in Nat /\ MaxContexts \in Nat
      /\ Inactive \in Nat
  BY BoundsAssumption DEF IInv, TypeInv, IsStore, Indexed, Inactive
<1>2. /\ cursor' = Append(cursor, d) /\ token' = Append(token, Inactive)
      /\ Len(cursor) < MaxContexts
  BY DEF NewContext
<1>3. /\ cursor' \in Seq(Nat) /\ Len(cursor') = Len(cursor) + 1
      /\ cursor'[Len(cursor) + 1] = d
      /\ \A c \in 1 .. Len(cursor) : cursor'[c] = cursor[c]
  BY <1>1, <1>2, AppendProperties
<1>4. /\ token' \in Seq(Nat) /\ Len(token') = Len(token) + 1
      /\ token'[Len(cursor) + 1] = Inactive
      /\ \A c \in 1 .. Len(cursor) : token'[c] = token[c]
  BY <1>1, <1>2, AppendProperties
<1>5. \A c \in 1 .. Len(cursor') : cursor'[c] \in 1 .. Len(ds)
  <2> SUFFICES ASSUME NEW c \in 1 .. Len(cursor) + 1
               PROVE  cursor'[c] \in 1 .. Len(ds)
    BY <1>3
  <2>1. CASE c \in 1 .. Len(cursor)
    <3>1. cursor[c] \in 1 .. Len(ds)
      BY <2>1 DEF IInv, TypeInv
    <3> QED BY <2>1, <3>1, <1>3
  <2>2. CASE c = Len(cursor) + 1
    BY <2>2, <1>3
  <2>3. c \in 1 .. Len(cursor) \/ c = Len(cursor) + 1
    <3>1. Len(cursor) \in Nat
      BY <1>1
    <3> QED BY <3>1
  <2> QED BY <2>1, <2>2, <2>3
<1>6. TypeInv'
  <2>1. /\ program \in Programs /\ minted \in Nat /\ IsStore(ds, minted)
        /\ Len(cached) = Len(ds) /\ ambient \in 0 .. Len(cursor)
    BY DEF IInv, TypeInv
  <2>2. /\ ambient \in 0 .. Len(cursor') /\ Len(cursor') <= MaxContexts
        /\ Len(token') = Len(cursor')
    BY <2>1, <1>1, <1>2, <1>3, <1>4
  <2>3. /\ \A e \in 1 .. Len(ds) : cached'[e] \in 0 .. Len(cursor')
        /\ \A h \in handles' : h.ctx \in 1 .. Len(cursor') /\ h.id \in 1 .. minted
    BY <1>3
  <2> QED BY <2>1, <2>2, <2>3, <1>3, <1>4, <1>5 DEF TypeInv
<1>7. StackInv'
  <2>1. /\ blocks \in Seq(Nat) /\ Len(blocks) \in Nat
        /\ \A k \in 1 .. Len(blocks) : blocks[k] \in 1 .. Len(cursor)
        /\ \A k \in 1 .. Len(blocks) : token[blocks[k]] = IF k = 1 THEN 0 ELSE blocks[k-1]
        /\ \A c \in 1 .. Len(cursor) :
             (\A k \in 1 .. Len(blocks) : blocks[k] # c) => token[c] = Inactive
    BY DEF IInv, StackInv
  <2>2. \A k \in 1 .. Len(blocks) : blocks[k] \in 1 .. Len(cursor')
    BY <2>1, <1>1, <1>3
  <2>3. \A k \in 1 .. Len(blocks) : token'[blocks[k]] = IF k = 1 THEN 0 ELSE blocks[k-1]
    BY <2>1, <1>4
  <2>4. ASSUME NEW c \in 1 .. Len(cursor'), \A k \in 1 .. Len(blocks) : blocks[k] # c
        PROVE  token'[c] = Inactive
    <3>1. CASE c \in 1 .. Len(cursor)
      BY <3>1, <2>1, <2>4, <1>4
    <3>2. CASE c = Len(cursor) + 1
      BY <3>2, <1>4
    <3> QED BY <3>1, <3>2, <1>1, <1>3
  <2>5. blocks' = blocks /\ ambient' = ambient
    OBVIOUS
  <2> QED BY <2>1, <2>2, <2>3, <2>4, <2>5 DEF IInv, StackInv
<1>8. KindInv'
  BY DEF IInv, KindInv
<1>9. Follows
  BY <1>3 DEF Follows
<1> QED BY <1>1, <1>3, <1>6, <1>7, <1>8, <1>9 DEF IInv, Immutable

(* Opening a context on a dataset. *)
LEMMA OpenStep ==
  ASSUME IInv, program' = program, NEW d \in 1 .. Len(ds), OpenContext(d)
  PROVE  IInv' /\ Follows /\ Immutable
<1>1. /\ NewContext(d) /\ UNCHANGED <<program, ds, ambient, blocks, minted>>
      /\ cached' = cached /\ handles' = handles
  BY DEF OpenContext
<1>2. /\ cached \in Seq(Nat) /\ Len(cursor) \in Nat
      /\ \A e \in 1 .. Len(ds) : cached[e] \in 0 .. Len(cursor)
      /\ \A h \in handles : h.ctx \in 1 .. Len(cursor) /\ h.id \in 1 .. minted
  BY DEF IInv, TypeInv
<1>3. /\ \A e \in 1 .. Len(ds) : cached'[e] \in 0 .. Len(cursor) + 1
      /\ \A h \in handles' : h.ctx \in 1 .. Len(cursor) + 1 /\ h.id \in 1 .. minted
  BY <1>1, <1>2
<1> QED BY <1>1, <1>2, <1>3, NewContextStep

(* A field of a facade opens a context, unless one is cached there. *)
LEMMA FacadeStep ==
  ASSUME IInv, program' = program, NEW d \in 1 .. Len(ds), NEW n, FacadeField(d, n)
  PROVE  IInv' /\ Follows /\ Immutable
<1> DEFINE authoring == IF ambient # 0 /\ cursor[ambient] = d THEN ambient
                        ELSE IF cached[d] # 0 THEN cached[d]
                        ELSE Len(cursor) + 1
           at == IF authoring \in Contexts THEN cursor[authoring] ELSE d
           h == [ctx |-> authoring, id |-> ds[at].id[n]]
<1>1. /\ cached \in Seq(Nat) /\ Len(cached) = Len(ds) /\ Len(cursor) \in Nat /\ Len(ds) \in Nat
      /\ cursor \in Seq(Nat) /\ Contexts = 1 .. Len(cursor)
      /\ \A e \in 1 .. Len(ds) : cached[e] \in 0 .. Len(cursor)
      /\ \A g \in handles : g.ctx \in 1 .. Len(cursor) /\ g.id \in 1 .. minted
      /\ ambient \in 0 .. Len(cursor) /\ minted \in Nat
      /\ \A c \in 1 .. Len(cursor) : cursor[c] \in 1 .. Len(ds)
  BY DEF IInv, TypeInv, IsStore, Indexed, Contexts
<1>2. /\ n \in NamesOf(at)
      /\ IF authoring \in Contexts
         THEN UNCHANGED <<cursor, token, cached>>
         ELSE NewContext(d) /\ cached' = [cached EXCEPT ![d] = authoring]
      /\ handles' = handles \cup {h}
      /\ UNCHANGED <<program, ds, ambient, blocks, minted>>
  BY DEF FacadeField, Keep
<1>3. authoring \in 1 .. Len(cursor) + 1
  <2>1. cached[d] \in 0 .. Len(cursor)
    BY <1>1
  <2> QED BY <2>1, <1>1
<1>4. at \in 1 .. Len(ds)
  BY <1>1
<1>5. h.ctx = authoring /\ h.id \in 1 .. minted
  <2>1. IsSnapshot(ds[at], Len(ds), minted)
    BY <1>4 DEF IInv, TypeInv, IsStore
  <2> HIDE DEF at, authoring
  <2> QED BY <2>1, <1>2 DEF IsSnapshot, NamesOf
<1> HIDE DEF at, authoring, h
<1>6. \A g \in handles' : g.ctx \in 1 .. Len(cursor) + 1 /\ g.id \in 1 .. minted
  BY <1>1, <1>2, <1>3, <1>5, SMTT(40)
<1>7. CASE authoring \in Contexts
  <2>1. UNCHANGED <<program, ds, cached, cursor, token, ambient, blocks, minted>>
    BY <1>2, <1>7
  <2>2. \A g \in handles' : g.ctx \in 1 .. Len(cursor) /\ g.id \in 1 .. minted
    BY <1>1, <1>2, <1>5, <1>7
  <2>3. TypeInv'
    BY <2>1, <2>2 DEF IInv, TypeInv
  <2>4. StackInv' /\ KindInv'
    BY <2>1 DEF IInv, StackInv, KindInv, Inactive
  <2> QED BY <2>1, <2>3, <2>4, <1>1 DEF IInv, Follows, Immutable
<1>8. CASE authoring \notin Contexts
  <2>1. NewContext(d) /\ cached' = [cached EXCEPT ![d] = authoring]
    BY <1>2, <1>8
  <2>2. /\ cached' \in Seq(Nat) /\ Len(cached') = Len(cached)
        /\ \A e \in 1 .. Len(ds) : cached'[e] \in 0 .. Len(cursor) + 1
    BY <2>1, <1>1, <1>3
  <2> QED BY <2>1, <2>2, <1>2, <1>6, NewContextStep
<1> QED BY <1>7, <1>8

(* Entering a block pushes its context. *)
LEMMA EnterStep ==
  ASSUME IInv, program' = program, NEW c \in 1 .. Len(cursor), Enter(c)
  PROVE  IInv' /\ Follows /\ Immutable
<1>1. /\ token \in Seq(Nat) /\ Len(token) = Len(cursor)
      /\ Len(cursor) \in Nat /\ Len(ds) \in Nat /\ Len(blocks) \in Nat
      /\ ambient \in 0 .. Len(cursor) /\ Len(cursor) <= MaxContexts /\ MaxContexts \in Nat
      /\ blocks \in Seq(Nat)
  BY BoundsAssumption DEF IInv, TypeInv, StackInv, IsStore, Indexed
<1>2. /\ program.blocks /\ token[c] = Inactive
      /\ token' = [token EXCEPT ![c] = ambient]
      /\ ambient' = c /\ blocks' = Append(blocks, c)
      /\ UNCHANGED <<ds, cached, cursor, handles, minted>>
  BY DEF Enter
<1>3. /\ token' \in Seq(Nat) /\ Len(token') = Len(cursor) /\ token'[c] = ambient
      /\ \A q \in 1 .. Len(cursor) : q # c => token'[q] = token[q]
  BY <1>1, <1>2
<1>4. /\ blocks' \in Seq(Nat) /\ Len(blocks') = Len(blocks) + 1
      /\ blocks'[Len(blocks) + 1] = c
      /\ \A k \in 1 .. Len(blocks) : blocks'[k] = blocks[k]
  BY <1>1, <1>2, AppendProperties
<1>5. TypeInv'
  BY <1>1, <1>2, <1>3 DEF IInv, TypeInv
<1>6. /\ \A k \in 1 .. Len(blocks) : blocks[k] \in 1 .. Len(cursor)
      /\ \A j, k \in 1 .. Len(blocks) : blocks[j] = blocks[k] => j = k
      /\ ambient = IF Len(blocks) = 0 THEN 0 ELSE blocks[Len(blocks)]
      /\ \A k \in 1 .. Len(blocks) : token[blocks[k]] = IF k = 1 THEN 0 ELSE blocks[k-1]
      /\ \A q \in 1 .. Len(cursor) :
           (\A k \in 1 .. Len(blocks) : blocks[k] # q) => token[q] = Inactive
  BY DEF IInv, StackInv
<1>7. \A k \in 1 .. Len(blocks) : blocks[k] # c
  <2> SUFFICES ASSUME NEW k \in 1 .. Len(blocks), blocks[k] = c
               PROVE  FALSE
    OBVIOUS
  <2>1. token[c] = IF k = 1 THEN 0 ELSE blocks[k-1]
    BY <1>6
  <2>2. token[c] <= Len(cursor)
    BY <2>1, <1>1, <1>6
  <2> QED BY <2>2, <1>1, <1>2 DEF Inactive
<1>8. StackInv'
  <2>0. ASSUME NEW k \in 1 .. Len(blocks')
        PROVE  \/ (k \in 1 .. Len(blocks) /\ blocks'[k] = blocks[k] /\ blocks[k] # c)
               \/ (k = Len(blocks) + 1 /\ blocks'[k] = c)
    <3>1. k \in 1 .. Len(blocks) \/ k = Len(blocks) + 1
      BY <1>1, <1>4
    <3> QED BY <3>1, <1>4, <1>7
  <2>1. ASSUME NEW k \in 1 .. Len(blocks')
        PROVE  blocks'[k] \in 1 .. Len(cursor)
    <3>1. CASE k \in 1 .. Len(blocks)
      BY <2>0, <3>1, <1>6
    <3>2. CASE k \notin 1 .. Len(blocks)
      BY <2>0, <3>2
    <3> QED BY <3>1, <3>2
  <2>2. ASSUME NEW j \in 1 .. Len(blocks'), NEW k \in 1 .. Len(blocks'), blocks'[j] = blocks'[k]
        PROVE  j = k
    BY <2>0, <2>2, <1>6
  <2>3. ambient' = IF Len(blocks') = 0 THEN 0 ELSE blocks'[Len(blocks')]
    BY <1>1, <1>2, <1>4
  <2>4. ASSUME NEW k \in 1 .. Len(blocks')
        PROVE  token'[blocks'[k]] = IF k = 1 THEN 0 ELSE blocks'[k-1]
    <3>1. CASE k \in 1 .. Len(blocks)
      <4>1. blocks[k] # c /\ blocks'[k] = blocks[k] /\ blocks[k] \in 1 .. Len(cursor)
        BY <3>1, <1>4, <1>6, <1>7
      <4>2. token'[blocks'[k]] = token[blocks[k]]
        BY <4>1, <1>3
      <4>3. k # 1 => blocks'[k-1] = blocks[k-1]
        BY <3>1, <1>4, SMTT(40)
      <4> QED BY <3>1, <4>2, <4>3, <1>6
    <3>2. CASE k = Len(blocks) + 1
      <4>1. token'[blocks'[k]] = ambient
        BY <3>2, <1>3, <1>4
      <4>2. k # 1 => blocks'[k-1] = blocks[Len(blocks)]
        <5>1. k # 1 => k - 1 = Len(blocks) /\ Len(blocks) \in 1 .. Len(blocks)
          BY <3>2, <1>1
        <5> QED BY <5>1, <1>4
      <4> QED BY <3>2, <4>1, <4>2, <1>1, <1>6
    <3> QED BY <3>1, <3>2, <1>1, <1>4
  <2>5. ASSUME NEW q \in 1 .. Len(cursor), \A k \in 1 .. Len(blocks') : blocks'[k] # q
        PROVE  token'[q] = Inactive
    <3>1. q # c /\ \A k \in 1 .. Len(blocks) : blocks[k] # q
      BY <2>5, <1>1, <1>4, SMTT(40)
    <3> QED BY <3>1, <1>3, <1>6
  <2> QED BY <2>1, <2>2, <2>3, <2>4, <2>5, <1>2, <1>4 DEF StackInv, Inactive
<1>9. KindInv'
  BY <1>2 DEF IInv, KindInv
<1> QED BY <1>1, <1>2, <1>5, <1>8, <1>9 DEF IInv, Follows, Immutable

(* Leaving a block pops its context. *)
LEMMA ExitStep ==
  ASSUME IInv, program' = program, Exit
  PROVE  IInv' /\ Follows /\ Immutable
<1> DEFINE n == Len(blocks)
           c == blocks[n]
<1>1. /\ token \in Seq(Nat) /\ Len(token) = Len(cursor)
      /\ Len(cursor) \in Nat /\ Len(ds) \in Nat /\ n \in Nat
      /\ blocks \in Seq(Nat) /\ Len(cursor) <= MaxContexts /\ MaxContexts \in Nat
      /\ Inactive \in Nat
  BY BoundsAssumption DEF IInv, TypeInv, StackInv, IsStore, Indexed, Inactive
<1>2. /\ blocks # <<>> /\ ambient' = token[c] /\ token' = [token EXCEPT ![c] = Inactive]
      /\ blocks' = SubSeq(blocks, 1, n - 1)
      /\ UNCHANGED <<ds, cached, cursor, handles, minted>>
  BY DEF Exit
<1>3. n >= 1
  BY <1>1, <1>2
<1>4. /\ \A k \in 1 .. n : blocks[k] \in 1 .. Len(cursor)
      /\ \A j, k \in 1 .. n : blocks[j] = blocks[k] => j = k
      /\ \A k \in 1 .. n : token[blocks[k]] = IF k = 1 THEN 0 ELSE blocks[k-1]
      /\ \A q \in 1 .. Len(cursor) :
           (\A k \in 1 .. n : blocks[k] # q) => token[q] = Inactive
  BY DEF IInv, StackInv
<1>5. /\ blocks' \in Seq(Nat) /\ Len(blocks') = n - 1
      /\ \A k \in 1 .. n - 1 : blocks'[k] = blocks[k]
  <2> DEFINE s == SubSeq(blocks, 1, n - 1)
             m == n - 1
  <2>1. 1 \in 1 .. n + 1 /\ m \in 0 .. n /\ m \in Nat
    BY <1>1, <1>3
  <2>2. \A k \in 1 .. m : blocks[k] \in Nat
    BY <1>1
  <2>3. s = [k \in 1 .. m |-> blocks[k]]
    BY <1>1, <2>1
  <2>4. s \in [1 .. m -> Nat]
    BY <2>2, <2>3
  <2>5. s \in Seq(Nat) /\ Len(s) = m
    <3> HIDE DEF s, m
    <3> QED BY <2>1, <2>4
  <2> QED BY <2>3, <2>5, <1>2
<1>6. c \in 1 .. Len(cursor) /\ token[c] = IF n = 1 THEN 0 ELSE blocks[n-1]
  <2>1. n \in 1 .. n
    BY <1>1, <1>3
  <2> HIDE DEF n
  <2> QED BY <2>1, <1>4
<1> HIDE DEF n, c
<1>7. /\ token' \in Seq(Nat) /\ Len(token') = Len(cursor) /\ token'[c] = Inactive
      /\ \A q \in 1 .. Len(cursor) : q # c => token'[q] = token[q]
  BY <1>1, <1>2, <1>6
<1>8. ambient' = IF n = 1 THEN 0 ELSE blocks[n-1]
  BY <1>2, <1>6
<1>9. ambient' \in 0 .. Len(cursor)
  BY <1>1, <1>3, <1>4, <1>8
<1>10. TypeInv'
  BY <1>1, <1>2, <1>7, <1>9 DEF IInv, TypeInv
<1>11. StackInv'
  <2>0. \A k \in 1 .. n - 1 : k \in 1 .. n
    BY <1>1
  <2>1. \A k \in 1 .. n - 1 : blocks'[k] \in 1 .. Len(cursor)
    BY <2>0, <1>4, <1>5
  <2>2. \A j, k \in 1 .. n - 1 : blocks'[j] = blocks'[k] => j = k
    BY <2>0, <1>4, <1>5
  <2>3. ambient' = IF Len(blocks') = 0 THEN 0 ELSE blocks'[Len(blocks')]
    BY <1>1, <1>3, <1>5, <1>8
  <2>4. ASSUME NEW k \in 1 .. n - 1
        PROVE  token'[blocks'[k]] = IF k = 1 THEN 0 ELSE blocks'[k-1]
    <3>1. blocks[k] # c /\ blocks'[k] = blocks[k] /\ blocks[k] \in 1 .. Len(cursor)
      BY <1>1, <1>3, <1>4, <1>5 DEF c
    <3>2. token'[blocks'[k]] = token[blocks[k]]
      BY <3>1, <1>7
    <3>3. k # 1 => blocks'[k-1] = blocks[k-1]
      BY <1>1, <1>5
    <3> QED BY <3>2, <3>3, <1>1, <1>4
  <2>5. ASSUME NEW q \in 1 .. Len(cursor), \A k \in 1 .. n - 1 : blocks'[k] # q
        PROVE  token'[q] = Inactive
    <3>1. CASE q = c
      BY <3>1, <1>7
    <3>2. CASE q # c
      <4>1. \A k \in 1 .. n : blocks[k] # q
        <5> SUFFICES ASSUME NEW k \in 1 .. n
                     PROVE  blocks[k] # q
          OBVIOUS
        <5>1. k \in 1 .. n - 1 \/ k = n
          BY <1>1
        <5> QED BY <5>1, <3>2, <2>5, <1>5 DEF c
      <4> QED BY <3>2, <4>1, <1>4, <1>7
    <3> QED BY <3>1, <3>2
  <2> QED BY <2>1, <2>2, <2>3, <2>4, <2>5, <1>2, <1>5 DEF StackInv, Inactive
<1>12. KindInv'
  BY <1>1, <1>2, <1>3, <1>5 DEF IInv, KindInv, n
<1> QED BY <1>1, <1>2, <1>10, <1>11, <1>12 DEF IInv, Follows, Immutable

-----------------------------------------------------------------------------
(* Every step                                                              *)

(* Every step keeps what holds of every state, changes no dataset, and,    *)
(* unless a program uses both blocks and bundles, moves no context aside.  *)
LEMMA EveryStep ==
  ASSUME IInv, [Next]_vars
  PROVE  IInv' /\ (Alone => Follows) /\ Immutable
<1>0. Len(ds) \in Nat /\ Contexts = 1 .. Len(cursor) /\ Datasets = 1 .. Len(ds)
  BY DEF IInv, TypeInv, IsStore, Indexed, Contexts, Datasets
<1>1. ASSUME WorkStep
      PROVE  IInv' /\ (Alone => Follows) /\ Immutable
  <2>1. Len(cursor) \in Nat
    BY DEF IInv, TypeInv
  <2> QED BY <1>1, <2>1, WorkKeepsIInv DEF WorkStep, StoreStep, PointStep, Immutable
<1>2. ASSUME UNCHANGED vars
      PROVE  IInv' /\ (Alone => Follows) /\ Immutable
  <2>1. /\ program' = program /\ ds' = ds /\ cached' = cached /\ cursor' = cursor /\ token' = token
        /\ ambient' = ambient /\ blocks' = blocks /\ handles' = handles /\ minted' = minted
    BY <1>2 DEF vars
  <2>2. TypeInv'
    BY <2>1 DEF IInv, TypeInv
  <2>3. StackInv' /\ KindInv'
    BY <2>1 DEF IInv, StackInv, KindInv, Inactive
  <2>4. Len(cursor) \in Nat
    BY DEF IInv, TypeInv
  <2> QED BY <1>0, <2>1, <2>2, <2>3, <2>4 DEF IInv, Follows, Immutable
<1>3. ASSUME NEW d \in Datasets, OpenContext(d), program' = program
      PROVE  IInv' /\ Follows /\ Immutable
  BY <1>0, <1>3, OpenStep
<1>4. ASSUME NEW c \in Contexts, Enter(c), program' = program
      PROVE  IInv' /\ Follows /\ Immutable
  BY <1>0, <1>4, EnterStep
<1>5. ASSUME Exit, program' = program
      PROVE  IInv' /\ Follows /\ Immutable
  BY <1>5, ExitStep
<1>6. ASSUME NEW d \in Datasets, NEW n, FacadeField(d, n), program' = program
      PROVE  IInv' /\ Follows /\ Immutable
  BY <1>0, <1>6, FacadeStep
<1>7. ASSUME NEW d \in Datasets, NEW a, NEW b, RenameField(d, a, b), program' = program
      PROVE  WorkStep
  BY <1>0, <1>7, RenameStep
<1>8. ASSUME NEW d \in Datasets, NEW a, DropField(d, a), program' = program
      PROVE  WorkStep
  BY <1>0, <1>8, DropStep
<1>9. ASSUME NEW c \in Contexts, NEW n, NewField(c, n), program' = program
      PROVE  WorkStep
  BY <1>0, <1>9, NewFieldStep
<1>10. ASSUME NEW c \in Contexts, AssignThrough(c), program' = program
       PROVE  WorkStep
  BY <1>0, <1>10, AssignStep
<1>11. ASSUME NEW h \in handles, NEW n, RecordCoupling(h, n) \/ DeferInLevel(h, n), program' = program
       PROVE  WorkStep
  BY <1>11, ExtendStep
<1>12. ASSUME NEW d \in Datasets, NEW n, Bundle(d, n), program' = program
       PROVE  WorkStep
  BY <1>0, <1>12, BundleStep
<1>13. ASSUME NEW h \in handles, Extract(h), program' = program
       PROVE  WorkStep
  BY <1>13, ExtractStep
<1>14. ASSUME NEW h \in handles, Collect(h), program' = program
       PROVE  WorkStep
  BY <1>14, CollectStep
<1>15. ASSUME NEW d \in Datasets, ReadRow(d), program' = program
       PROVE  WorkStep
  BY <1>0, <1>15, ReadStep
<1>16. CASE Next
  <2> USE <1>16
  <2>1. program' = program
    BY DEF Next
  <2>2. \/ \E d \in Datasets : OpenContext(d)
        \/ \E c \in Contexts : Enter(c)
        \/ Exit
        \/ \E d \in Datasets, n \in program.names : FacadeField(d, n)
        \/ \E d \in Datasets, a, b \in program.names : RenameField(d, a, b)
        \/ \E d \in Datasets, a \in program.names : DropField(d, a)
        \/ \E c \in Contexts, n \in program.names : NewField(c, n)
        \/ \E c \in Contexts : AssignThrough(c)
        \/ \E h \in handles, n \in program.names : RecordCoupling(h, n)
        \/ \E d \in Datasets, n \in program.names : Bundle(d, n)
        \/ \E h \in handles, n \in program.names : DeferInLevel(h, n)
        \/ \E h \in handles : Extract(h)
        \/ \E h \in handles : Collect(h)
        \/ \E d \in Datasets : ReadRow(d)
    BY DEF Next
  <2> QED BY <2>1, <2>2, <1>1, <1>3, <1>4, <1>5, <1>6, <1>7, <1>8, <1>9, <1>10, <1>11, <1>12,
             <1>13, <1>14, <1>15
<1> QED BY <1>2, <1>16

(* What holds of every state. *)
THEOREM ContextInvariant == Spec => []IInv
<1>1. Init => IInv
  BY InitIInv
<1>2. IInv /\ [Next]_vars => IInv'
  BY EveryStep
<1> QED BY <1>1, <1>2, PTL DEF Spec

-----------------------------------------------------------------------------
(* Contexts and handles are well formed                                    *)

(* Contexts point at datasets, the fields of a snapshot have identities of *)
(* their own, and pending work and cells refer to fields of its snapshot.  *)
THEOREM ContextsAreTyped == Spec => []TypeOK
<1>1. IInv => TypeOK
  <2> SUFFICES ASSUME IInv PROVE TypeOK
    OBVIOUS
  <2> USE DEF IInv
  <2>1. /\ Datasets = 1 .. Len(ds) /\ Contexts = 1 .. Len(cursor)
        /\ DOMAIN cached = 1 .. Len(cached) /\ DOMAIN token = 1 .. Len(token)
        /\ Len(cursor) \in Nat /\ Len(cursor) <= MaxContexts /\ MaxContexts \in Nat
    BY BoundsAssumption DEF TypeInv, IsStore, Indexed, Datasets, Contexts
  <2>2. \A d \in Datasets : cached[d] \in {0} \cup Contexts
    BY <2>1 DEF TypeInv
  <2>3. ASSUME NEW c \in Contexts
        PROVE  cursor[c] \in Datasets /\ token[c] \in 0 .. Inactive
    <3>1. CASE \A k \in 1 .. Len(blocks) : blocks[k] # c
      <4>1. token[c] = Inactive
        BY <2>1, <3>1 DEF StackInv
      <4> QED BY <2>1, <4>1 DEF Inactive, TypeInv
    <3>2. CASE \E k \in 1 .. Len(blocks) : blocks[k] = c
      <4>1. PICK k \in 1 .. Len(blocks) : blocks[k] = c
        BY <3>2
      <4>2. token[c] = IF k = 1 THEN 0 ELSE blocks[k-1]
        BY <4>1 DEF StackInv
      <4>3. k # 1 => blocks[k-1] \in 1 .. Len(cursor)
        <5>1. Len(blocks) \in Nat /\ (k # 1 => k - 1 \in 1 .. Len(blocks))
          BY DEF StackInv
        <5> QED BY <5>1 DEF StackInv
      <4>4. token[c] \in 0 .. Len(cursor)
        BY <2>1, <4>2, <4>3
      <4> QED BY <2>1, <4>4 DEF Inactive, TypeInv
    <3> QED BY <3>1, <3>2
  <2>4. ambient \in {0} \cup Contexts /\ \A h \in handles : h.ctx \in Contexts /\ h.id \in 1 .. minted
    BY <2>1 DEF TypeInv
  <2>5. ASSUME NEW d \in Datasets
        PROVE  /\ \A m, n \in NamesOf(d) : ds[d].id[m] = ds[d].id[n] => m = n
               /\ \A k \in DOMAIN ds[d].pending :
                    {ds[d].pending[k].in, ds[d].pending[k].out} \subseteq NamesOf(d)
               /\ DOMAIN ds[d].cell \subseteq NamesOf(d)
    <3>1. IsSnapshot(ds[d], Len(ds), minted)
      BY <2>1 DEF TypeInv, IsStore
    <3> DEFINE S == [in : NamesOf(d), out : NamesOf(d)]
    <3>2. ds[d].pending \in Seq(S)
      BY <3>1 DEF IsSnapshot, NamesOf
    <3>3. \A k \in DOMAIN ds[d].pending : ds[d].pending[k] \in S
      <4> HIDE DEF S
      <4> QED BY <3>2, LenProperties
    <3>4. \A k \in DOMAIN ds[d].pending : ds[d].pending[k].in \in NamesOf(d) /\ ds[d].pending[k].out \in NamesOf(d)
      BY <3>3
    <3> QED BY <3>1, <3>4 DEF IsSnapshot, NamesOf
  <2>6. program \in Programs /\ DOMAIN cached = Datasets /\ DOMAIN token = Contexts
    BY <2>1 DEF TypeInv
  <2> QED BY <2>2, <2>3, <2>4, <2>5, <2>6 DEF TypeOK
<1> QED BY <1>1, ContextInvariant, PTL

(* With blocks nest, however contexts are entered and left. *)
THEOREM BlocksNest == Spec => []AmbientIsInnermost
<1>1. IInv => AmbientIsInnermost
  <2> SUFFICES ASSUME IInv PROVE AmbientIsInnermost
    OBVIOUS
  <2> USE DEF IInv
  <2>1. /\ blocks \in Seq(Nat) /\ Len(blocks) \in Nat /\ DOMAIN blocks = 1 .. Len(blocks)
        /\ Contexts = 1 .. Len(cursor) /\ Len(cursor) \in Nat /\ Len(cursor) <= MaxContexts
        /\ MaxContexts \in Nat
    BY BoundsAssumption DEF TypeInv, StackInv, Contexts
  <2>2. blocks = <<>> <=> Len(blocks) = 0
    BY <2>1
  <2>3. ambient = IF blocks = <<>> THEN 0 ELSE blocks[Len(blocks)]
    BY <2>2 DEF StackInv
  <2>4. ASSUME NEW c \in Contexts
        PROVE  token[c] # Inactive <=> \E k \in DOMAIN blocks : blocks[k] = c
    <3>1. CASE \A k \in 1 .. Len(blocks) : blocks[k] # c
      BY <2>1, <3>1 DEF StackInv
    <3>2. CASE \E k \in 1 .. Len(blocks) : blocks[k] = c
      <4>1. PICK k \in 1 .. Len(blocks) : blocks[k] = c
        BY <3>2
      <4>2. token[c] = IF k = 1 THEN 0 ELSE blocks[k-1]
        BY <4>1 DEF StackInv
      <4>3. k # 1 => blocks[k-1] \in 1 .. Len(cursor)
        <5>1. k # 1 => k - 1 \in 1 .. Len(blocks)
          BY <2>1
        <5> QED BY <5>1 DEF StackInv
      <4>4. token[c] <= Len(cursor)
        BY <2>1, <4>2, <4>3
      <4> QED BY <2>1, <4>1, <4>4, <4>2, <4>3, SMTT(40) DEF Inactive
    <3> QED BY <3>1, <3>2
  <2> QED BY <2>3, <2>4 DEF AmbientIsInnermost
<1> QED BY <1>1, ContextInvariant, PTL

-----------------------------------------------------------------------------
(* Where contexts go                                                       *)

StartUp(d) == {d}

NextUp(store, prev) == prev \cup {store[e].of : e \in prev \ {0}}


(* Ancestors(store, d) are reached step by step. *)
LEMMA AncestorsEquation ==
  ASSUME NEW store, NEW d, Len(store) \in Nat
  PROVE  \E f : /\ f[0] = StartUp(d)
                /\ \A k \in 1 .. Len(store) : f[k] = NextUp(store, f[k-1])
                /\ Ancestors(store, d) = f[Len(store)]
<1> DEFINE N == Len(store)
           eqn(n, g) == g = [k \in 0 .. n |->
                               IF k = 0 THEN StartUp(d) ELSE NextUp(store, g[k-1])]
           T == {n \in 0 .. N : \E g : eqn(n, g)}
<1>1. \E g : eqn(0, g)
  <2> WITNESS [p \in 0 .. 0 |-> StartUp(d)]
  <2> QED OBVIOUS
<1>2. ASSUME NEW n \in 1 .. N, NEW g, eqn(n - 1, g)
      PROVE  \E h : eqn(n, h)
  <2> DEFINE h == [k \in 0 .. n |-> IF k = n THEN NextUp(store, g[n-1]) ELSE g[k]]
  <2> SUFFICES eqn(n, h)
    OBVIOUS
  <2>1. ASSUME NEW k \in 0 .. n
        PROVE  h[k] = IF k = 0 THEN StartUp(d) ELSE NextUp(store, h[k-1])
    <3>1. CASE k = n
      BY <3>1
    <3>2. CASE k # n
      BY <3>2, <1>2
    <3> QED BY <3>1, <3>2
  <2> QED BY <2>1
<1>3. \E g : eqn(N, g)
  <2> HIDE DEF eqn
  <2>1. 0 \in T /\ \A n \in 1 .. N : n - 1 \in T => n \in T
    BY <1>1, <1>2
  <2> HIDE DEF T
  <2>2. \A n \in 0 .. N : n \in T
    BY <2>1, SegmentInduction, Zenon
  <2> QED BY <2>2 DEF T
<1> DEFINE f == CHOOSE g : eqn(N, g)
<1>4. eqn(N, f)
  <2> HIDE DEF eqn
  <2> QED BY <1>3
<1>5. Ancestors(store, d) = f[Len(store)]
  BY DEF Ancestors, NextUp, StartUp
<1> HIDE DEF f
<1>6. f[0] = StartUp(d) /\ \A k \in 1 .. N : f[k] = NextUp(store, f[k-1])
  BY <1>4
<1> QED BY <1>5, <1>6


(* A dataset is among its ancestors, and so is the one it derives from. *)
LEMMA ParentIsAncestor ==
  ASSUME NEW store, Len(store) \in Nat, Len(store) # 0, NEW d, d # 0
  PROVE  d \in Ancestors(store, d) /\ store[d].of \in Ancestors(store, d)
<1>1. PICK f : /\ f[0] = StartUp(d)
               /\ \A k \in 1 .. Len(store) : f[k] = NextUp(store, f[k-1])
               /\ Ancestors(store, d) = f[Len(store)]
  BY AncestorsEquation
<1> DEFINE T == {n \in 0 .. Len(store) : d \in f[n] /\ (n # 0 => store[d].of \in f[n])}
<1>2. 0 \in T
  BY <1>1 DEF StartUp
<1>3. ASSUME NEW n \in 1 .. Len(store), n - 1 \in T
      PROVE  n \in T
  <2>1. d \in f[n-1] /\ f[n] = NextUp(store, f[n-1])
    BY <1>1, <1>3
  <2>2. d \in f[n] /\ store[d].of \in f[n]
    BY <2>1 DEF NextUp
  <2> QED BY <2>2
<1> HIDE DEF T
<1>4. \A n \in 0 .. Len(store) : n \in T
  BY <1>2, <1>3, SegmentInduction, Zenon
<1>5. Len(store) \in T
  BY <1>4
<1> QED BY <1>1, <1>5 DEF T

(* No program uses both with blocks and bundles: a filter run inside a     *)
(* block may otherwise take the ambient context along.                     *)
NeverBoth == \A p \in Programs : ~(p.blocks /\ p.bundles)

(* A context never moves sideways: it advances to what was derived from    *)
(* its snapshot, or enters a cell of it.                                   *)
THEOREM NoWorkIsLeftBehind == NeverBoth => (Spec => ContextsMoveForward)
<1> SUFFICES ASSUME NeverBoth PROVE Spec => ContextsMoveForward
  OBVIOUS
<1> DEFINE Forward == \A c \in Contexts : \/ cursor[c] \in Ancestors(ds', cursor'[c])
                                          \/ EntersCell(c)
<1>1. IInv /\ [Next]_vars => [Forward]_vars
  <2> SUFFICES ASSUME IInv, [Next]_vars PROVE Forward
    OBVIOUS
  <2>1. IInv' /\ Follows
    BY EveryStep DEF IInv, TypeInv, NeverBoth, Alone
  <2> SUFFICES ASSUME NEW c \in Contexts
               PROVE  cursor[c] \in Ancestors(ds', cursor'[c]) \/ EntersCell(c)
    OBVIOUS
  <2>2. /\ c \in 1 .. Len(cursor) /\ cursor[c] \in 1 .. Len(ds) /\ Len(ds) \in Nat
        /\ Len(ds) <= Len(ds')
    BY EveryStep DEF IInv, TypeInv, Contexts, IsStore, Indexed, Immutable
  <2>3. Len(ds') \in Nat /\ Len(ds') # 0
    BY <2>1, <2>2 DEF IInv, TypeInv, IsStore, Indexed
  <2>4. CASE cursor'[c] = cursor[c]
    BY <2>2, <2>3, <2>4, ParentIsAncestor
  <2>5. CASE Derived(c)
    BY <2>3, <2>5, ParentIsAncestor DEF Derived
  <2> QED BY <2>1, <2>2, <2>4, <2>5 DEF Follows
<1> QED BY <1>1, ContextInvariant, PTL DEF Spec, ContextsMoveForward

-----------------------------------------------------------------------------
(* What handles resolve to                                                 *)

(* A FieldIdentity is found under one name at most. *)
LEMMA FoundOnce ==
  ASSUME NEW f, \A m, n \in DOMAIN f : f[m] = f[n] => m = n, NEW x,
         NEW n \in DOMAIN f, f[n] = x
  PROVE  Cardinality({m \in DOMAIN f : f[m] = x}) = 1
<1>1. {m \in DOMAIN f : f[m] = x} = {n}
  OBVIOUS
<1> QED BY <1>1, FS_Singleton

(* A handle that resolves goes on resolving until its field is dropped or  *)
(* its context enters a cell.                                              *)
THEOREM HandlesOutlive == NeverBoth => (Spec => HandlesOutliveOperators)
<1> SUFFICES ASSUME NeverBoth PROVE Spec => HandlesOutliveOperators
  OBVIOUS
<1> DEFINE Outlive == \A h \in handles :
                        Resolves(h) => Resolves(h)' \/ LosesHandleToDrop(h) \/ EntersCell(h.ctx)
<1>1. IInv /\ [Next]_vars => [Outlive]_vars
  <2> SUFFICES ASSUME IInv, [Next]_vars PROVE Outlive
    OBVIOUS
  <2>1. IInv' /\ Follows /\ Immutable
    BY EveryStep DEF IInv, TypeInv, NeverBoth, Alone
  <2> SUFFICES ASSUME NEW h \in handles, Resolves(h)
               PROVE  Resolves(h)' \/ LosesHandleToDrop(h) \/ EntersCell(h.ctx)
    OBVIOUS
  <2> DEFINE c == h.ctx
             d == cursor[c]
             e == cursor'[c]
             n == Name(h)
  <2>2. c \in 1 .. Len(cursor) /\ d \in 1 .. Len(ds) /\ Len(ds) \in Nat
    BY DEF IInv, TypeInv, IsStore, Indexed
  <2>3. n \in NamesOf(d) /\ ds[d].id[n] = h.id
    BY NameResolves
  <2>4. ASSUME ~EntersCell(c)
        PROVE  c \in 1 .. Len(cursor') /\ e \in 1 .. Len(ds')
    <3>1. Len(cursor) <= Len(cursor') /\ Len(cursor) \in Nat /\ Len(cursor') \in Nat
      BY <2>1 DEF IInv, TypeInv, Immutable
    <3>2. c \in 1 .. Len(cursor')
      BY <2>2, <3>1
    <3> QED BY <2>1, <3>2 DEF IInv, TypeInv
  <2>5. ASSUME ~EntersCell(c), NEW m \in DOMAIN ds'[e].id, ds'[e].id[m] = h.id
        PROVE  Resolves(h)'
    <3>1. IsSnapshot(ds'[e], Len(ds'), minted')
      BY <2>1, <2>4, <2>5 DEF IInv, TypeInv, IsStore
    <3> DEFINE f == ds'[e].id
    <3>2. \A p, q \in DOMAIN f : f[p] = f[q] => p = q
      BY <3>1 DEF IsSnapshot
    <3>3. m \in DOMAIN f /\ f[m] = h.id
      BY <2>5
    <3> HIDE DEF f
    <3>4. Cardinality({p \in DOMAIN f : f[p] = h.id}) = 1
      BY <3>2, <3>3, FoundOnce
    <3> QED BY <3>4 DEF f, Resolves, Matches, NamesOf
  <2>6. CASE e = d
    <3>1. ds'[e] = ds[d]
      BY <2>1, <2>2, <2>6 DEF Immutable
    <3>2. n \in DOMAIN ds'[e].id /\ ds'[e].id[n] = h.id
      BY <2>3, <3>1 DEF NamesOf
    <3> HIDE DEF e, c, n, d
    <3> QED BY <2>5, <3>2 DEF c
  <2>7. CASE Derived(c)
    <3>1. CASE \A q \in NamesOf(d) : \E m \in DOMAIN ds'[e].id : ds'[e].id[m] = ds[d].id[q]
      <4>1. PICK m \in DOMAIN ds'[e].id : ds'[e].id[m] = h.id
        BY <2>3, <3>1
      <4> HIDE DEF e, d, n
      <4> QED BY <2>5, <4>1
    <3>2. CASE \E a \in NamesOf(d) : ds'[e] = Dropped(d, a)
      <4>1. PICK a \in NamesOf(d) : ds'[e] = Dropped(d, a)
        BY <3>2
      <4>2. CASE a = n
        <5>1. n \in Matches(h)
          BY <2>3 DEF Matches
        <5> QED BY <4>1, <4>2, <5>1 DEF LosesHandleToDrop
      <4>3. CASE a # n
        <5>1. IsSnapshot(ds[d], Len(ds), minted) /\ minted \in Nat
          BY <2>2 DEF IInv, TypeInv, IsStore
        <5>2. /\ DOMAIN Dropped(d, a).id = NamesOf(d) \ {a}
              /\ \A q \in NamesOf(d) \ {a} : Dropped(d, a).id[q] = ds[d].id[q]
          <6> HIDE DEF d
          <6> QED BY <2>2, <4>1, <5>1, DroppedSnapshot
        <5>3. n \in DOMAIN ds'[e].id /\ ds'[e].id[n] = h.id
          <6> HIDE DEF d, e, n
          <6> QED BY <2>3, <4>1, <4>3, <5>2
        <5> HIDE DEF e, d, n
        <5> QED BY <2>5, <5>3
      <4> QED BY <4>2, <4>3
    <3> QED BY <2>7, <3>1, <3>2 DEF Derived
  <2> QED BY <2>1, <2>2, <2>6, <2>7 DEF Follows
<1> QED BY <1>1, ContextInvariant, PTL DEF Spec, HandlesOutliveOperators

(* What the work pending into n needs, from the last coupling to the first. *)
NextNeed(p, k, prev) ==
  LET c == p[Len(p) + 1 - k]
  IN  IF c.out \in prev THEN prev \cup {c.in} ELSE prev



(* Needs(d, a) is collected coupling by coupling. *)
LEMMA NeedsEquation ==
  ASSUME NEW d, NEW a, Len(ds[d].pending) \in Nat
  PROVE  \E f : /\ f[0] = StartUp(a)
                /\ \A k \in 1 .. Len(ds[d].pending) : f[k] = NextNeed(ds[d].pending, k, f[k-1])
                /\ Needs(d, a) = f[Len(ds[d].pending)]
<1> DEFINE N == Len(ds[d].pending)
           eqn(n, g) == g = [k \in 0 .. n |->
                               IF k = 0 THEN StartUp(a) ELSE NextNeed(ds[d].pending, k, g[k-1])]
           T == {n \in 0 .. N : \E g : eqn(n, g)}
<1>1. \E g : eqn(0, g)
  <2> WITNESS [p \in 0 .. 0 |-> StartUp(a)]
  <2> QED OBVIOUS
<1>2. ASSUME NEW n \in 1 .. N, NEW g, eqn(n - 1, g)
      PROVE  \E h : eqn(n, h)
  <2> DEFINE h == [k \in 0 .. n |-> IF k = n THEN NextNeed(ds[d].pending, n, g[n-1]) ELSE g[k]]
  <2> SUFFICES eqn(n, h)
    OBVIOUS
  <2>1. ASSUME NEW k \in 0 .. n
        PROVE  h[k] = IF k = 0 THEN StartUp(a) ELSE NextNeed(ds[d].pending, k, h[k-1])
    <3>1. CASE k = n
      BY <3>1
    <3>2. CASE k # n
      BY <3>2, <1>2
    <3> QED BY <3>1, <3>2
  <2> QED BY <2>1
<1>3. \E g : eqn(N, g)
  <2> HIDE DEF eqn
  <2>1. 0 \in T /\ \A n \in 1 .. N : n - 1 \in T => n \in T
    BY <1>1, <1>2
  <2> HIDE DEF T
  <2>2. \A n \in 0 .. N : n \in T
    BY <2>1, SegmentInduction, Zenon
  <2> QED BY <2>2 DEF T
<1> DEFINE f == CHOOSE g : eqn(N, g)
<1>4. eqn(N, f)
  <2> HIDE DEF eqn
  <2> QED BY <1>3
<1>5. Needs(d, a) = f[Len(ds[d].pending)]
  BY DEF Needs, NextNeed, StartUp
<1> HIDE DEF f
<1>6. f[0] = StartUp(a) /\ \A k \in 1 .. N : f[k] = NextNeed(ds[d].pending, k, f[k-1])
  BY <1>4
<1> QED BY <1>5, <1>6

(* A field needs itself. *)
LEMMA NeedsItself ==
  ASSUME NEW d, NEW n, Len(ds[d].pending) \in Nat
  PROVE  n \in Needs(d, n)
<1> DEFINE len == Len(ds[d].pending)
<1>1. PICK f : /\ f[0] = StartUp(n)
               /\ \A k \in 1 .. len : f[k] = NextNeed(ds[d].pending, k, f[k-1])
               /\ Needs(d, n) = f[len]
  BY NeedsEquation
<1> DEFINE T == {k \in 0 .. len : n \in f[k]}
<1>2. 0 \in T
  BY <1>1 DEF StartUp
<1>3. ASSUME NEW k \in 1 .. len, k - 1 \in T
      PROVE  k \in T
  <2>1. n \in f[k-1] /\ f[k] = NextNeed(ds[d].pending, k, f[k-1])
    BY <1>1, <1>3
  <2>2. n \in f[k]
    BY <2>1 DEF NextNeed
  <2> QED BY <2>2
<1> HIDE DEF T
<1>4. \A k \in 0 .. len : k \in T
  BY <1>2, <1>3, SegmentInduction, Zenon
<1>5. len \in T
  BY <1>4
<1> QED BY <1>1, <1>5 DEF T

(* After a collect the handle resolves, and nothing pending writes its     *)
(* field.                                                                  *)
THEOREM SecondCollectFindsNoWork == NeverBoth => (Spec => CollectIsRepeatable)
<1> SUFFICES ASSUME NeverBoth PROVE Spec => CollectIsRepeatable
  OBVIOUS
<1> DEFINE Repeatable ==
             \A h \in handles : Collect(h) =>
               /\ Resolves(h)'
               /\ \A k \in DOMAIN ds'[cursor'[h.ctx]].pending :
                    ds'[cursor'[h.ctx]].pending[k].out # Name(h)'
<1>1. IInv /\ Next => Repeatable
  <2> SUFFICES ASSUME IInv, Next, NEW h \in handles, Collect(h)
               PROVE  /\ Resolves(h)'
                      /\ \A k \in DOMAIN ds'[cursor'[h.ctx]].pending :
                           ds'[cursor'[h.ctx]].pending[k].out # Name(h)'
    OBVIOUS
  <2> DEFINE d == cursor[h.ctx]
             e == Len(ds')
             n == Name(h)
             ran == RunPending(d, Needs(d, n))
             keep == {k \in DOMAIN ds[d].pending : ds[d].pending[k].out \notin Needs(d, n)}
  <2>1. program' = program /\ Alone
    BY DEF Next, IInv, TypeInv, NeverBoth, Alone
  <2>2. cursor'[h.ctx] = e
    BY <2>1, CollectStep
  <2>3. /\ ds'[e].id = ds[d].id
        /\ ds'[e].pending = Kept(ds[d].pending, keep)
    BY <2>1, CollectStore
  <2>4. d \in 1 .. Len(ds) /\ IsSnapshot(ds[d], Len(ds), minted)
    BY DEF IInv, TypeInv, IsStore, Indexed
  <2>5. Resolves(h)
    BY DEF Collect
  <2>6. Matches(h)' = Matches(h)
    BY <2>2, <2>3 DEF Matches, NamesOf
  <2>7. Resolves(h)' /\ Name(h)' = n
    BY <2>5, <2>6 DEF Resolves, Name
  <2> DEFINE S == [in : DOMAIN ds[d].id, out : DOMAIN ds[d].id]
             old == ds[d].pending
             new == Kept(old, keep)
  <2>8. old \in Seq(S)
    BY <2>4 DEF IsSnapshot
  <2>9. n \in Needs(d, n)
    <3>1. Len(old) \in Nat
      <4> HIDE DEF S, old
      <4> QED BY <2>8, LenProperties
    <3> QED BY <3>1, NeedsItself
  <2>10. ASSUME NEW k \in DOMAIN new
         PROVE  new[k].out # n
    <3>1. PICK j \in keep \cap 1 .. Len(old) : new[k] = old[j]
      <4> HIDE DEF S, old, keep
      <4>1. /\ new \in Seq(S)
            /\ \A i \in 1 .. Len(new) : \E j \in keep \cap 1 .. Len(old) : new[i] = old[j]
        BY <2>8, KeptElements
      <4>2. k \in 1 .. Len(new)
        BY <4>1, <2>10
      <4> QED BY <4>1, <4>2
    <3>2. old[j].out \notin Needs(d, n)
      BY <3>1
    <3> QED BY <3>1, <3>2, <2>9
  <2> QED BY <2>2, <2>3, <2>7, <2>10
<1>2. IInv /\ [Next]_vars => [Repeatable]_vars
  BY <1>1
<1> QED BY <1>2, ContextInvariant, PTL DEF Spec, CollectIsRepeatable
=============================================================================
