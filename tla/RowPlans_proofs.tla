--------------------------- MODULE RowPlans_proofs ---------------------------
(***************************************************************************)
(* Why a label keeps meaning the row it meant, for any datasets, any       *)
(* plans, and operators applied in any order.                              *)
(*                                                                         *)
(* Behind every index identity stands a world: for each label, the row it  *)
(* was minted for and what that row refers to.  A dataset is true of the   *)
(* world when each history its rows carry leads, walked from the row's own *)
(* label, to what the row carries.  Every operator keeps datasets true of  *)
(* one and the same world, which only grows, by an identity at a time.     *)
(***************************************************************************)
EXTENDS RowPlans, Induction

-----------------------------------------------------------------------------
(* Worlds, and walks through them.                                         *)

(* What a cell holds, the references a history crosses, and where rows start. *)
Cells == Labels \cup {Null}

Steps(n) == FieldNames \X (1 .. n)
Paths(n) == Seq(Steps(n))

RowNames == {"members", "groups"} \X Nat

(* What stands behind a label: the row it was minted for, and what the     *)
(* fields of that row refer to.                                            *)
Contents == [row : RowNames, ref : [FieldNames -> Cells]]

(* n identities.  Null stands in for the labels that name no row.          *)
Worlds(n) == [1 .. n -> [Cells -> Contents]]

(* W2 tells of the first n identities what W tells. *)
Extends(W2, W, n) == \A i \in 1 .. n : W2[i] = W[i]

(* Where a reference leads, from x. *)
Cross(W, x, c) == W[c[2]][x.ref[c[1]]]

(* Where a path leads, from x: one reference after the other. *)
Walk(W, x, path) ==
    LET walk[k \in 0 .. Len(path)] ==
            IF k = 0 THEN x ELSE Cross(W, walk[k-1], path[k]) IN
    walk[Len(path)]

(* A walk crosses one reference after the other. *)
LEMMA WalkEquation ==
  ASSUME NEW W, NEW x, NEW path, Len(path) \in Nat
  PROVE  \E f : /\ f[0] = x
                /\ \A k \in 1 .. Len(path) : f[k] = Cross(W, f[k-1], path[k])
                /\ Walk(W, x, path) = f[Len(path)]
<1> DEFINE N == Len(path)
           eqn(n, g) == g = [k \in 0 .. n |->
                               IF k = 0 THEN x ELSE Cross(W, g[k-1], path[k])]
           T == {n \in 0 .. N : \E g : eqn(n, g)}
<1>1. \E g : eqn(0, g)
  <2> WITNESS [k \in 0 .. 0 |-> x]
  <2> QED OBVIOUS
<1>2. ASSUME NEW n \in 1 .. N, NEW g, eqn(n - 1, g)
      PROVE  \E h : eqn(n, h)
  <2> DEFINE h == [k \in 0 .. n |-> IF k = n THEN Cross(W, g[n-1], path[n]) ELSE g[k]]
  <2> SUFFICES eqn(n, h)
    OBVIOUS
  <2>1. ASSUME NEW k \in 0 .. n
        PROVE  h[k] = IF k = 0 THEN x ELSE Cross(W, h[k-1], path[k])
    <3>1. CASE k = n
      BY <3>1
    <3>2. CASE k # n
      BY <3>2, <1>2
    <3> QED BY <3>1, <3>2
  <2> QED BY <2>1
<1>3. \E g : eqn(N, g)
  <2> HIDE DEF eqn
  <2>1. 0 \in T /\ \A n \in 1 .. N : n - 1 \in T => n \in T
    BY <1>1, <1>2
  <2> HIDE DEF T
  <2>2. \A n \in 0 .. N : n \in T
    BY <2>1, SegmentInduction, Zenon
  <2> QED BY <2>2 DEF T
<1> DEFINE f == CHOOSE g : eqn(N, g)
<1>4. eqn(N, f)
  <2> HIDE DEF eqn
  <2> QED BY <1>3
<1>5. Walk(W, x, path) = f[N]
  BY DEF Walk
<1> HIDE DEF f
<1>6. f[0] = x /\ \A k \in 1 .. N : f[k] = Cross(W, f[k-1], path[k])
  BY <1>4
<1> QED BY <1>5, <1>6

(* The equation determines the walk. *)
LEMMA WalkIs ==
  ASSUME NEW W, NEW x, NEW path, Len(path) \in Nat,
         NEW g, g[0] = x,
         \A k \in 1 .. Len(path) : g[k] = Cross(W, g[k-1], path[k])
  PROVE  Walk(W, x, path) = g[Len(path)]
<1> DEFINE N == Len(path)
<1>1. PICK f : /\ f[0] = x
               /\ \A k \in 1 .. N : f[k] = Cross(W, f[k-1], path[k])
               /\ Walk(W, x, path) = f[N]
  BY WalkEquation
<1> DEFINE T == {k \in 0 .. N : f[k] = g[k]}
<1>2. 0 \in T
  BY <1>1
<1>3. \A k \in 1 .. N : k - 1 \in T => k \in T
  BY <1>1
<1> HIDE DEF T
<1>4. \A k \in 0 .. N : k \in T
  BY <1>2, <1>3, SegmentInduction, Zenon
<1> QED BY <1>1, <1>4 DEF T

(* Nothing is crossed on an empty path. *)
LEMMA WalkEmpty ==
  ASSUME NEW W, NEW x
  PROVE  Walk(W, x, <<>>) = x
<1>1. PICK f : f[0] = x /\ Walk(W, x, <<>>) = f[0]
  BY WalkEquation
<1> QED BY <1>1

(* A walk along typed paths stays among the contents. *)
LEMMA WalkTyped ==
  ASSUME NEW n \in Nat, NEW W \in Worlds(n), NEW x \in Contents, NEW path \in Paths(n)
  PROVE  Walk(W, x, path) \in Contents
<1> DEFINE N == Len(path)
<1>1. PICK f : /\ f[0] = x
               /\ \A k \in 1 .. N : f[k] = Cross(W, f[k-1], path[k])
               /\ Walk(W, x, path) = f[N]
  BY WalkEquation DEF Paths
<1> DEFINE T == {k \in 0 .. N : f[k] \in Contents}
<1>2. N \in Nat /\ \A k \in 1 .. N : path[k] \in Steps(n)
  BY DEF Paths
<1>3. 0 \in T
  BY <1>1, <1>2
<1>4. ASSUME NEW k \in 1 .. N, k - 1 \in T PROVE k \in T
  <2>1. path[k][1] \in FieldNames /\ path[k][2] \in 1 .. n
    BY <1>2 DEF Steps
  <2>2. f[k-1].ref \in [FieldNames -> Cells]
    BY <1>4 DEF Contents
  <2>3. f[k-1].ref[path[k][1]] \in Cells
    BY <2>1, <2>2
  <2>4. Cross(W, f[k-1], path[k]) \in Contents
    BY <2>1, <2>3 DEF Cross, Worlds
  <2> QED BY <1>1, <1>2, <2>4
<1> HIDE DEF T
<1>5. \A k \in 0 .. N : k \in T
  BY <1>2, <1>3, <1>4, SegmentInduction, Zenon
<1> QED BY <1>1, <1>2, <1>5 DEF T

(* A walk along two paths is a walk along the second from where the first  *)
(* leads.                                                                  *)
LEMMA WalkConcat ==
  ASSUME NEW n, NEW W, NEW x, NEW p \in Paths(n), NEW q \in Paths(n)
  PROVE  Walk(W, x, p \o q) = Walk(W, Walk(W, x, p), q)
<1>1. PICK N \in Nat : N = Len(p)
  BY DEF Paths
<1>2. PICK M \in Nat : M = Len(q)
  BY DEF Paths
<1>3. PICK f : /\ f[0] = x
               /\ \A k \in 1 .. N : f[k] = Cross(W, f[k-1], p[k])
               /\ Walk(W, x, p) = f[N]
  BY <1>1, WalkEquation, SMTT(40)
<1>4. PICK g : /\ g[0] = f[N]
               /\ \A k \in 1 .. M : g[k] = Cross(W, g[k-1], q[k])
               /\ Walk(W, f[N], q) = g[M]
  BY <1>2, WalkEquation
<1>5. PICK r : r = p \o q
  OBVIOUS
<1>6. /\ Len(r) = N + M
      /\ \A k \in 1 .. N : r[k] = p[k]
      /\ \A k \in N + 1 .. N + M : r[k] = q[k - N]
  BY <1>1, <1>2, <1>5, ConcatParts DEF Paths
<1> DEFINE h == [k \in 0 .. N + M |-> IF k <= N THEN f[k] ELSE g[k - N]]
<1>7. h[0] = x /\ h[N + M] = g[M]
  BY <1>3, <1>4
<1>8. ASSUME NEW k \in 1 .. N + M PROVE h[k] = Cross(W, h[k-1], r[k])
  <2>1. CASE k <= N
    <3>1. k \in 1 .. N /\ h[k] = f[k] /\ h[k-1] = f[k-1]
      BY <2>1
    <3> QED BY <1>3, <1>6, <3>1
  <2>2. CASE k > N
    <3>1. k - N \in 1 .. M /\ h[k] = g[k - N] /\ r[k] = q[k - N]
      BY <1>6, <2>2
    <3>2. h[k-1] = g[k - N - 1]
      <4>1. CASE k = N + 1
        BY <1>4, <4>1
      <4>2. CASE k # N + 1
        BY <2>2, <4>2
      <4> QED BY <4>1, <4>2
    <3> QED BY <1>4, <3>1, <3>2
  <2> QED BY <2>1, <2>2
<1> HIDE DEF h
<1>9. Walk(W, x, r) = h[N + M]
  BY <1>6, <1>7, <1>8, WalkIs
<1> QED BY <1>3, <1>4, <1>5, <1>7, <1>9

(* One reference more. *)
LEMMA WalkFurther ==
  ASSUME NEW n \in Nat, NEW W, NEW x, NEW p \in Paths(n), NEW f \in FieldNames,
         NEW id \in 1 .. n
  PROVE  /\ Append(p, <<f, id>>) \in Paths(n)
         /\ Walk(W, x, Append(p, <<f, id>>)) = W[id][Walk(W, x, p).ref[f]]
<1>1. PICK c : c = <<f, id>>
  OBVIOUS
<1>2. c \in Steps(n)
  BY <1>1 DEF Steps
<1>3. PICK N \in Nat : N = Len(p)
  BY DEF Paths
<1>4. PICK r : r = Append(p, c)
  OBVIOUS
<1>5. r \in Paths(n) /\ Len(r) = N + 1 /\ r[N + 1] = c /\ \A k \in 1 .. N : r[k] = p[k]
  BY <1>2, <1>3, <1>4 DEF Paths
<1>6. PICK g : /\ g[0] = x
               /\ \A k \in 1 .. N : g[k] = Cross(W, g[k-1], p[k])
               /\ Walk(W, x, p) = g[N]
  BY <1>3, WalkEquation
<1>7. PICK M \in Nat : M = Len(r)
  BY <1>5
<1>8. PICK h : /\ h[0] = x
               /\ \A k \in 1 .. M : h[k] = Cross(W, h[k-1], r[k])
               /\ Walk(W, x, r) = h[M]
  BY <1>7, WalkEquation
<1>9. Walk(W, x, p) = h[N]
  BY <1>3, <1>5, <1>7, <1>8, WalkIs
<1>10. h[N + 1] = Cross(W, h[N], c)
  BY <1>5, <1>7, <1>8
<1> QED BY <1>1, <1>4, <1>5, <1>7, <1>8, <1>9, <1>10 DEF Cross

(* What one world tells, a world that extends it tells. *)
LEMMA WalkKept ==
  ASSUME NEW n \in Nat, NEW W, NEW W2, Extends(W2, W, n),
         NEW x, NEW path \in Paths(n)
  PROVE  Walk(W2, x, path) = Walk(W, x, path)
<1>1. PICK N \in Nat : N = Len(path)
  BY DEF Paths
<1>2. PICK f : /\ f[0] = x
               /\ \A k \in 1 .. N : f[k] = Cross(W, f[k-1], path[k])
               /\ Walk(W, x, path) = f[N]
  BY <1>1, WalkEquation
<1>3. ASSUME NEW k \in 1 .. N PROVE f[k] = Cross(W2, f[k-1], path[k])
  <2>1. path[k][2] \in 1 .. n
    BY <1>1 DEF Paths, Steps
  <2> QED BY <1>2, <2>1 DEF Cross, Extends
<1> QED BY <1>1, <1>2, <1>3, WalkIs

-----------------------------------------------------------------------------
(* Rows and datasets that are true of a world.                             *)

(* What a row carries of its history. *)
Histories(n) == [path : Paths(n), row : RowNames]

(* Schemas: columns that refer, refer to identities that have been minted. *)
ColumnsOver(n) ==
    {col \in [FieldNames -> [type : ColumnTypes, of : 0 .. n]] :
        \A f \in FieldNames : col[f].type \in {"foreign", "index_column"} => col[f].of \in 1 .. n}

IsSchema(h, n) ==
    h.ix \in FieldNames /\ h.col \in ColumnsOver(n) /\ h.col[h.ix].type = "none"

(* A row has nothing in a column its dataset lacks. *)
IsRow(r, col, n) ==
    /\ r = [lbl |-> r.lbl, from |-> r.from, cell |-> r.cell, via |-> r.via, fiber |-> r.fiber]
    /\ r.from \in SUBSET Histories(n)
    /\ r.cell \in [FieldNames -> Cells] /\ r.via \in [FieldNames -> Paths(n)]
    /\ \A f \in FieldNames : col[f].type = "none" => r.cell[f] = Null /\ r.via[f] = <<>>

(* The row's histories lead, from x, to what the row carries.              *)
OriginsLead(W, x, r) == \A y \in r.from : Walk(W, x, y.path).row = y.row

CellsLead(W, x, col, r) ==
    \A f \in FieldNames : r.cell[f] # Null =>
        /\ col[f].type \in {"value", "foreign"} => Walk(W, x, r.via[f]).ref[f] = r.cell[f]
        /\ col[f].type = "index_column" => Walk(W, x, r.via[f]) = W[col[f].of][r.cell[f]]

(* r tells the truth about x. *)
Tells(W, n, col, x, r) ==
    IsRow(r, col, n) /\ x \in Contents /\ OriginsLead(W, x, r) /\ CellsLead(W, x, col, r)

(* Rows in a sequence, and rows that no two labels repeat.                 *)
IsSeq(rows) == Len(rows) \in Nat /\ rows = [i \in 1 .. Len(rows) |-> rows[i]]

Differ(rows) ==
    \A i, j \in 1 .. Len(rows) : rows[i].lbl = rows[j].lbl => i = j

(* A fiber: rows of the dataset it is part of, none under two labels.      *)
TrueFiber(W, n, fib, t) ==
    /\ IsSeq(t) /\ Differ(t)
    /\ \A i \in 1 .. Len(t) : /\ t[i].lbl \in Labels /\ t[i].fiber = Null
                              /\ Tells(W, n, fib.col, W[fib.id][t[i].lbl], t[i])

(* The schema of fibers, if there are any, and a fiber that is there.      *)
IsFib(fib, n) ==
    fib # Null => /\ fib = [id |-> fib.id, ix |-> fib.ix, col |-> fib.col]
                  /\ fib.id \in 1 .. n /\ IsSchema(fib, n)

FiberTold(W, n, fib, t) ==
    /\ fib = Null => t = Null
    /\ fib # Null /\ t # Null => TrueFiber(W, n, fib, t)

(* Row i of d tells what there is to tell of X[i].                         *)
Told(W, n, d, X) ==
    /\ d = [id |-> d.id, ix |-> d.ix, col |-> d.col, fib |-> d.fib, rows |-> d.rows]
    /\ IsSchema(d, n) /\ IsFib(d.fib, n) /\ IsSeq(d.rows)
    /\ \A i \in 1 .. Len(d.rows) :
        /\ d.rows[i].lbl \in Labels
        /\ Tells(W, n, d.col, X[i], d.rows[i])
        /\ FiberTold(W, n, d.fib, d.rows[i].fiber)

(* What stands behind the labels of d.                                     *)
Own(W, d) == [i \in 1 .. Len(d.rows) |-> W[d.id][d.rows[i].lbl]]

(* A dataset that is true of the world W of n identities. *)
Good(W, n, d) == d.id \in 1 .. n /\ Told(W, n, d, Own(W, d))

(* A result is true of the world, or of one identity more.                 *)
Fits(W, n, d) ==
    \E X : /\ Told(W, n, d, X)
           /\ \/ d.id = n + 1
              \/ d.id \in 1 .. n /\ \A i \in 1 .. Len(d.rows) : X[i] = W[d.id][d.rows[i].lbl]

(* What is typed among n identities is typed among m. *)
LEMMA MoreIdentities ==
  ASSUME NEW n \in Nat, NEW m \in Nat, n <= m
  PROVE  /\ Paths(n) \subseteq Paths(m) /\ Histories(n) \subseteq Histories(m)
         /\ ColumnsOver(n) \subseteq ColumnsOver(m)
<1>1. Steps(n) \subseteq Steps(m)
  BY DEF Steps
<1>2. Paths(n) \subseteq Paths(m)
  BY <1>1 DEF Paths
<1>3. ColumnsOver(n) \subseteq ColumnsOver(m)
  BY DEF ColumnsOver
<1> QED BY <1>2, <1>3 DEF Histories

(* What a row tells in one world it tells in a world that extends it. *)
LEMMA TellsKept ==
  ASSUME NEW n \in Nat, NEW m \in Nat, n <= m, NEW W, NEW W2, Extends(W2, W, n),
         NEW col \in ColumnsOver(n), NEW x, NEW r, Tells(W, n, col, x, r)
  PROVE  Tells(W2, m, col, x, r)
<1>1. IsRow(r, col, m)
  BY MoreIdentities DEF Tells, IsRow
<1>2. r.from \in SUBSET Histories(n) /\ r.via \in [FieldNames -> Paths(n)]
  BY DEF Tells, IsRow
<1>3. OriginsLead(W2, x, r)
  <2>1. ASSUME NEW y \in r.from PROVE Walk(W2, x, y.path).row = y.row
    <3>1. y.path \in Paths(n)
      BY <1>2 DEF Histories
    <3>2. Walk(W2, x, y.path) = Walk(W, x, y.path)
      BY <3>1, WalkKept
    <3> QED BY <3>2 DEF Tells, OriginsLead
  <2> QED BY <2>1 DEF OriginsLead
<1>4. CellsLead(W2, x, col, r)
  <2>1. ASSUME NEW f \in FieldNames, r.cell[f] # Null
        PROVE  /\ col[f].type \in {"value", "foreign"} =>
                    Walk(W2, x, r.via[f]).ref[f] = r.cell[f]
               /\ col[f].type = "index_column" =>
                    Walk(W2, x, r.via[f]) = W2[col[f].of][r.cell[f]]
    <3>1. r.via[f] \in Paths(n)
      BY <1>2
    <3>2. Walk(W2, x, r.via[f]) = Walk(W, x, r.via[f])
      BY <3>1, WalkKept
    <3>3. col[f].type = "index_column" => W2[col[f].of] = W[col[f].of]
      BY DEF ColumnsOver, Extends
    <3> QED BY <2>1, <3>2, <3>3 DEF Tells, CellsLead
  <2> QED BY <2>1 DEF CellsLead
<1> QED BY <1>1, <1>3, <1>4 DEF Tells

(* A fiber stays true. *)
LEMMA FiberKept ==
  ASSUME NEW n \in Nat, NEW m \in Nat, n <= m, NEW W, NEW W2, Extends(W2, W, n),
         NEW fib, IsFib(fib, n), NEW t, FiberTold(W, n, fib, t)
  PROVE  IsFib(fib, m) /\ FiberTold(W2, m, fib, t)
<1>1. IsFib(fib, m)
  BY MoreIdentities DEF IsFib, IsSchema
<1>2. ASSUME fib # Null, t # Null PROVE TrueFiber(W2, m, fib, t)
  <2>1. TrueFiber(W, n, fib, t) /\ fib.id \in 1 .. n /\ fib.col \in ColumnsOver(n)
    BY <1>2 DEF FiberTold, IsFib, IsSchema
  <2>2. W2[fib.id] = W[fib.id]
    BY <2>1 DEF Extends
  <2>3. ASSUME NEW i \in 1 .. Len(t)
        PROVE  Tells(W2, m, fib.col, W2[fib.id][t[i].lbl], t[i])
    <3>1. Tells(W, n, fib.col, W[fib.id][t[i].lbl], t[i])
      BY <2>1 DEF TrueFiber
    <3> QED BY <2>1, <2>2, <3>1, TellsKept
  <2> QED BY <2>1, <2>3 DEF TrueFiber
<1> QED BY <1>1, <1>2 DEF FiberTold

(* So does a dataset. *)
LEMMA ToldKept ==
  ASSUME NEW n \in Nat, NEW m \in Nat, n <= m, NEW W, NEW W2, Extends(W2, W, n),
         NEW d, NEW X, Told(W, n, d, X)
  PROVE  Told(W2, m, d, X)
<1>1. d.col \in ColumnsOver(n) /\ IsFib(d.fib, n)
  BY DEF Told, IsSchema
<1>2. IsSchema(d, m)
  BY MoreIdentities DEF Told, IsSchema
<1>3. IsFib(d.fib, m)
  BY MoreIdentities DEF Told, IsSchema, IsFib
<1>4. ASSUME NEW i \in 1 .. Len(d.rows)
      PROVE  /\ d.rows[i].lbl \in Labels
             /\ Tells(W2, m, d.col, X[i], d.rows[i])
             /\ FiberTold(W2, m, d.fib, d.rows[i].fiber)
  <2>1. /\ d.rows[i].lbl \in Labels
        /\ Tells(W, n, d.col, X[i], d.rows[i])
        /\ FiberTold(W, n, d.fib, d.rows[i].fiber)
    BY DEF Told
  <2>2. Tells(W2, m, d.col, X[i], d.rows[i])
    BY <1>1, <2>1, TellsKept
  <2>3. FiberTold(W2, m, d.fib, d.rows[i].fiber)
    BY <1>1, <2>1, FiberKept
  <2> QED BY <2>1, <2>2, <2>3
<1> QED BY <1>2, <1>3, <1>4 DEF Told

(* A dataset the program holds stays true of a world that grows. *)
LEMMA GoodKept ==
  ASSUME NEW n \in Nat, NEW m \in Nat, n <= m, NEW W, NEW W2, Extends(W2, W, n),
         NEW d, Good(W, n, d)
  PROVE  Good(W2, m, d)
<1>1. d.id \in 1 .. n /\ W2[d.id] = W[d.id]
  BY DEF Good, Extends
<1>2. Own(W2, d) = Own(W, d)
  BY <1>1 DEF Own
<1>3. Told(W2, m, d, Own(W, d))
  BY ToldKept DEF Good
<1> QED BY <1>1, <1>2, <1>3 DEF Good

(* Only the contents of its own rows matter. *)
LEMMA ToldSame ==
  ASSUME NEW W, NEW n, NEW d, NEW X, Told(W, n, d, X), NEW Y,
         \A i \in 1 .. Len(d.rows) : Y[i] = X[i]
  PROVE  Told(W, n, d, Y)
BY DEF Told

(* A result that fits, and names no two rows alike, is true of the world   *)
(* as it is or with the identity it brings.                                *)
LEMMA WorldGrows ==
  ASSUME NEW n \in Nat, NEW W \in Worlds(n), NEW d, Fits(W, n, d), Differ(d.rows),
         NEW m, m = IF d.id = n + 1 THEN n + 1 ELSE n
  PROVE  \E W2 \in Worlds(m) : Extends(W2, W, n) /\ Good(W2, m, d)
<1>1. PICK X : /\ Told(W, n, d, X)
               /\ \/ d.id = n + 1
                  \/ /\ d.id \in 1 .. n
                     /\ \A i \in 1 .. Len(d.rows) : X[i] = W[d.id][d.rows[i].lbl]
  BY DEF Fits
<1>2. PICK N \in Nat : N = Len(d.rows)
  BY <1>1 DEF Told, IsSeq
<1>3. CASE d.id # n + 1
  <2>1. m = n /\ d.id \in 1 .. n
    BY <1>1, <1>3
  <2>2. Told(W, n, d, Own(W, d))
    BY <1>1, <1>3, ToldSame DEF Own
  <2>3. Extends(W, W, n)
    BY DEF Extends
  <2> QED BY <2>1, <2>2, <2>3 DEF Good
<1>4. CASE d.id = n + 1
  <2> DEFINE place(c) == {i \in 1 .. N : d.rows[i].lbl = c}
             any == [row |-> <<"members", 0>>, ref |-> NoCells]
             C == [c \in Cells |-> IF place(c) = {} THEN any
                                   ELSE X[CHOOSE i \in place(c) : TRUE]]
             W2 == [id \in 1 .. n + 1 |-> IF id = n + 1 THEN C ELSE W[id]]
  <2>1. any \in Contents
    BY DEF Contents, RowNames, NoCells, Cells
  <2>2. \A i \in 1 .. N : X[i] \in Contents
    BY <1>1, <1>2 DEF Told, Tells
  <2>3. C \in [Cells -> Contents]
    <3>1. ASSUME NEW c \in Cells, place(c) # {}
          PROVE  X[CHOOSE i \in place(c) : TRUE] \in Contents
      <4>1. (CHOOSE i \in place(c) : TRUE) \in place(c)
        BY <3>1
      <4> QED BY <2>2, <4>1
    <3> HIDE DEF any, place
    <3> QED BY <2>1, <3>1
  <2>4. ASSUME NEW i \in 1 .. N PROVE C[d.rows[i].lbl] = X[i]
    <3>1. d.rows[i].lbl \in Cells
      BY <1>1, <1>2 DEF Told, Cells
    <3>2. place(d.rows[i].lbl) = {i}
      BY <1>2 DEF Differ
    <3> HIDE DEF place
    <3> QED BY <3>1, <3>2
  <2> HIDE DEF C
  <2>5. W2 \in Worlds(n + 1) /\ Extends(W2, W, n) /\ W2[n + 1] = C
    BY <2>3 DEF Worlds, Extends
  <2> HIDE DEF W2
  <2>6. Told(W2, n + 1, d, X)
    <3>1. PICK k \in Nat : k = n + 1 /\ n <= k
      OBVIOUS
    <3>2. Told(W2, k, d, X)
      BY <1>1, <2>5, <3>1, ToldKept
    <3> QED BY <3>1, <3>2
  <2>7. Told(W2, n + 1, d, Own(W2, d))
    <3>1. \A i \in 1 .. Len(d.rows) : Own(W2, d)[i] = X[i]
      BY <1>2, <1>4, <2>4, <2>5 DEF Own
    <3> QED BY <2>6, <3>1, ToldSame
  <2>8. m = n + 1 /\ d.id \in 1 .. n + 1
    BY <1>4
  <2> QED BY <2>5, <2>7, <2>8 DEF Good
<1> QED BY <1>3, <1>4

-----------------------------------------------------------------------------
(* What operators do to the rows of one dataset.                           *)

(* The same, row by row. *)
RowTold(W, n, d, r) ==
    /\ r.lbl \in Labels /\ Tells(W, n, d.col, W[d.id][r.lbl], r)
    /\ FiberTold(W, n, d.fib, r.fiber)

(* A dataset is good row by row. *)
LEMMA GoodIs ==
  ASSUME NEW W, NEW n, NEW d
  PROVE  Good(W, n, d) <=>
           /\ d = [id |-> d.id, ix |-> d.ix, col |-> d.col, fib |-> d.fib, rows |-> d.rows]
           /\ d.id \in 1 .. n /\ IsSchema(d, n) /\ IsFib(d.fib, n) /\ IsSeq(d.rows)
           /\ \A i \in 1 .. Len(d.rows) : RowTold(W, n, d, d.rows[i])
BY DEF Good, Told, Own, RowTold

(* The rows of a dataset, as a set. *)
LEMMA RowsAre ==
  ASSUME NEW d, IsSeq(d.rows)
  PROVE  /\ DOMAIN d.rows = 1 .. Len(d.rows)
         /\ \A r : r \in RowSet(d) <=> \E i \in 1 .. Len(d.rows) : r = d.rows[i]
<1>1. PICK N \in Nat : N = Len(d.rows)
  BY DEF IsSeq
<1>2. DOMAIN d.rows = 1 .. N
  BY <1>1 DEF IsSeq
<1> QED BY <1>1, <1>2 DEF RowSet, ToSet

(* The row a label names is one of the rows, under that label. *)
LEMMA RowAtIsARow ==
  ASSUME NEW d, IsSeq(d.rows), NEW label \in LabelsOf(d)
  PROVE  /\ RowAt(d, label) \in RowSet(d) /\ RowAt(d, label).lbl = label
         /\ \E i \in 1 .. Len(d.rows) : RowAt(d, label) = d.rows[i]
<1>1. \E r \in RowSet(d) : r.lbl = label
  BY DEF LabelsOf
<1>2. RowAt(d, label) \in RowSet(d) /\ RowAt(d, label).lbl = label
  BY <1>1 DEF RowAt
<1> QED BY <1>2, RowsAre

(* Chosen rows are rows. *)
LEMMA ChosenRows ==
  ASSUME NEW s, IsSeq(s), NEW P
  PROVE  /\ IsSeq(Chosen(s, P))
         /\ \A a \in 1 .. Len(Chosen(s, P)) :
               \E i \in 1 .. Len(s) : i \in P /\ Chosen(s, P)[a] = s[i]
         /\ \A i \in 1 .. Len(s) : i \in P =>
               \E a \in 1 .. Len(Chosen(s, P)) : Chosen(s, P)[a] = s[i]
         /\ Differ(s) => Differ(Chosen(s, P))
<1>1. PICK N \in Nat : N = Len(s)
  BY DEF IsSeq
<1>2. PICK c : c = Chosen(s, P)
  OBVIOUS
<1>3. PICK k : Enumerates(k, P, N) /\ c = [a \in 1 .. Len(k) |-> s[k[a]]]
  BY <1>1, <1>2, ChosenPicks DEF Picks
<1>4. PICK K \in Nat : K = Len(k)
  BY <1>3 DEF Enumerates
<1>5. /\ \A a \in 1 .. K : k[a] \in 1 .. N /\ k[a] \in P
      /\ \A a, b \in 1 .. K : a < b => k[a] < k[b]
      /\ \A i \in 1 .. N : i \in P => \E a \in 1 .. K : k[a] = i
  BY <1>3, <1>4 DEF Enumerates
<1>6. c = [a \in 1 .. K |-> s[k[a]]]
  BY <1>3, <1>4
<1>7. Len(c) = K /\ IsSeq(c) /\ \A a \in 1 .. K : c[a] = s[k[a]]
  BY <1>6 DEF IsSeq
<1>8. ASSUME Differ(s), NEW a \in 1 .. K, NEW b \in 1 .. K, c[a].lbl = c[b].lbl
      PROVE  a = b
  <2>1. s[k[a]].lbl = s[k[b]].lbl /\ k[a] \in 1 .. N /\ k[b] \in 1 .. N
    BY <1>5, <1>7, <1>8
  <2>2. k[a] = k[b]
    BY <1>1, <1>8, <2>1 DEF Differ
  <2>3. a < b \/ b < a \/ a = b
    OBVIOUS
  <2> QED BY <1>5, <2>1, <2>2, <2>3
<1>9. Differ(s) => Differ(c)
  BY <1>7, <1>8 DEF Differ
<1> QED BY <1>1, <1>2, <1>5, <1>7, <1>9

(* Rows filtered are the rows they were. *)
LEMMA WhereKeeps ==
  ASSUME NEW W, NEW n, NEW d, Good(W, n, d), NEW kept
  PROVE  Good(W, n, Where(d, kept))
<1> DEFINE P == {i \in DOMAIN d.rows : d.rows[i].lbl \in kept}
           e == Where(d, kept)
<1>1. /\ d = [id |-> d.id, ix |-> d.ix, col |-> d.col, fib |-> d.fib, rows |-> d.rows]
      /\ d.id \in 1 .. n /\ IsSchema(d, n) /\ IsFib(d.fib, n) /\ IsSeq(d.rows)
      /\ \A i \in 1 .. Len(d.rows) : RowTold(W, n, d, d.rows[i])
  BY GoodIs
<1>2. e = [id |-> d.id, ix |-> d.ix, col |-> d.col, fib |-> d.fib, rows |-> Chosen(d.rows, P)]
  BY <1>1 DEF Where
<1> HIDE DEF e, P
<1>3. /\ IsSeq(e.rows)
      /\ \A a \in 1 .. Len(e.rows) : \E i \in 1 .. Len(d.rows) : e.rows[a] = d.rows[i]
  <2>1. e.rows = Chosen(d.rows, P)
    BY <1>2
  <2> QED BY <1>1, <2>1, ChosenRows
<1>4. \A a \in 1 .. Len(e.rows) : RowTold(W, n, e, e.rows[a])
  BY <1>1, <1>2, <1>3 DEF RowTold
<1>5. IsSchema(e, n)
  BY <1>1, <1>2 DEF IsSchema
<1>6. Good(W, n, e)
  BY <1>1, <1>2, <1>3, <1>4, <1>5, GoodIs
<1> QED BY <1>6 DEF e

(* A good dataset fits, and so does one that carries a fresh identity over *)
(* the same columns and rows that tell of what was there.                  *)
LEMMA GoodFits ==
  ASSUME NEW W, NEW n, NEW d, Good(W, n, d)
  PROVE  Fits(W, n, d)
<1>1. Told(W, n, d, Own(W, d)) /\ d.id \in 1 .. n
  BY DEF Good
<1>2. \A i \in 1 .. Len(d.rows) : Own(W, d)[i] = W[d.id][d.rows[i].lbl]
  BY DEF Own
<1> QED BY <1>1, <1>2 DEF Fits

(* Origins that are x itself, and cells that refer as x does.              *)
OfItself(from, x) == \A y \in from : y.path = <<>> /\ y.row = x.row

ReferLike(x, cell, col) ==
    \A f \in FieldNames : cell[f] # Null => /\ col[f].type \in {"value", "foreign"}
                                            /\ cell[f] = x.ref[f]

(* A row that only refers, or says nothing, tells it of any content that   *)
(* refers to the same.                                                     *)
LEMMA PlainRowTells ==
  ASSUME NEW n \in Nat, NEW W, NEW col \in ColumnsOver(n), NEW label, NEW fiber,
         NEW from \in SUBSET Histories(n), NEW x \in Contents, OfItself(from, x),
         NEW cell \in [FieldNames -> Cells], ReferLike(x, cell, col)
  PROVE  /\ Tells(W, n, col, x, Row(label, from, cell, fiber))
         /\ Row(label, from, cell, fiber).lbl = label
         /\ Row(label, from, cell, fiber).fiber = fiber
<1> DEFINE r == Row(label, from, cell, fiber)
<1>1. r = [lbl |-> label, from |-> from, cell |-> cell, via |-> Straight, fiber |-> fiber]
  BY DEF Row
<1> HIDE DEF r
<1>2. /\ r.lbl = label /\ r.from = from /\ r.cell = cell /\ r.via = Straight /\ r.fiber = fiber
      /\ r = [lbl |-> r.lbl, from |-> r.from, cell |-> r.cell, via |-> r.via, fiber |-> r.fiber]
  BY <1>1
<1>3. <<>> \in Paths(n) /\ Straight \in [FieldNames -> Paths(n)]
      /\ \A f \in FieldNames : Straight[f] = <<>>
  BY DEF Paths, Straight
<1>4. Walk(W, x, <<>>) = x
  BY WalkEmpty
<1>5. IsRow(r, col, n)
  BY <1>2, <1>3 DEF IsRow, ReferLike
<1>6. OriginsLead(W, x, r)
  BY <1>2, <1>4 DEF OriginsLead, OfItself
<1>7. CellsLead(W, x, col, r)
  BY <1>2, <1>3, <1>4 DEF CellsLead, ReferLike
<1> QED BY <1>2, <1>5, <1>6, <1>7 DEF Tells, r

(* A row without cells says nothing, whatever its fiber. *)
LEMMA BareRowTells ==
  ASSUME NEW n \in Nat, NEW W, NEW col \in ColumnsOver(n), NEW label, NEW fiber,
         NEW x \in Contents
  PROVE  /\ Tells(W, n, col, x, Row(label, {}, NoCells, fiber))
         /\ Row(label, {}, NoCells, fiber).lbl = label
         /\ Row(label, {}, NoCells, fiber).fiber = fiber
<1>1. NoCells \in [FieldNames -> Cells] /\ \A f \in FieldNames : NoCells[f] = Null
  BY DEF NoCells, Cells
<1>2. PICK from \in SUBSET Histories(n), cell \in [FieldNames -> Cells] :
         from = {} /\ cell = NoCells
  BY <1>1
<1>3. PICK r : r = Row(label, from, cell, fiber)
  OBVIOUS
<1>4. OfItself(from, x)
  BY <1>2 DEF OfItself
<1>5. ReferLike(x, cell, col)
  BY <1>1, <1>2 DEF ReferLike
<1>6. Tells(W, n, col, x, r) /\ r.lbl = label /\ r.fiber = fiber
  BY <1>3, <1>4, <1>5, PlainRowTells, SMTT(40)
<1> QED BY <1>2, <1>3, <1>6

(* An empty row says nothing. *)
LEMMA EmptyRowTells ==
  ASSUME NEW n \in Nat, NEW W, NEW col \in ColumnsOver(n), NEW label, NEW x \in Contents
  PROVE  /\ Tells(W, n, col, x, EmptyRow(label))
         /\ EmptyRow(label).lbl = label /\ EmptyRow(label).fiber = Null
BY BareRowTells DEF EmptyRow

(* A row reached along a path tells of where the path starts what it tells *)
(* of where the path leads.                                                *)
LEMMA ReachedTells ==
  ASSUME NEW n \in Nat, NEW W \in Worlds(n), NEW col \in ColumnsOver(n),
         NEW x \in Contents, NEW path \in Paths(n), NEW label,
         NEW r, Tells(W, n, col, Walk(W, x, path), r)
  PROVE  /\ Tells(W, n, col, x, Reached(r, label, path))
         /\ Reached(r, label, path).lbl = label
         /\ Reached(r, label, path).fiber = r.fiber
<1> DEFINE s == Reached(r, label, path)
           y == Walk(W, x, path)
<1>1. /\ r = [lbl |-> r.lbl, from |-> r.from, cell |-> r.cell, via |-> r.via, fiber |-> r.fiber]
      /\ r.from \in SUBSET Histories(n)
      /\ r.cell \in [FieldNames -> Cells] /\ r.via \in [FieldNames -> Paths(n)]
      /\ \A f \in FieldNames : col[f].type = "none" => r.cell[f] = Null /\ r.via[f] = <<>>
  BY DEF Tells, IsRow
<1>2. s = [lbl |-> label, from |-> Through(path, r.from), cell |-> r.cell,
           via |-> [f \in FieldNames |-> IF r.cell[f] = Null THEN <<>> ELSE path \o r.via[f]],
           fiber |-> r.fiber]
  BY <1>1 DEF Reached
<1> HIDE DEF s
<1>3. /\ s.lbl = label /\ s.from = Through(path, r.from) /\ s.cell = r.cell
      /\ s.via = [f \in FieldNames |-> IF r.cell[f] = Null THEN <<>> ELSE path \o r.via[f]]
      /\ s.fiber = r.fiber
      /\ s = [lbl |-> s.lbl, from |-> s.from, cell |-> s.cell, via |-> s.via, fiber |-> s.fiber]
  BY <1>2
<1>4. <<>> \in Paths(n) /\ \A q \in Paths(n) : path \o q \in Paths(n)
  BY ConcatParts DEF Paths
<1>5. \A q \in Paths(n) : Walk(W, x, path \o q) = Walk(W, y, q)
  BY WalkConcat
<1> HIDE DEF y
<1>6. s.via \in [FieldNames -> Paths(n)]
  BY <1>1, <1>3, <1>4
<1>7. ASSUME NEW z \in s.from PROVE z \in Histories(n) /\ Walk(W, x, z.path).row = z.row
  <2>1. PICK a \in r.from : z = [path |-> path \o a.path, row |-> a.row]
    BY <1>3, <1>7 DEF Through
  <2>2. a.path \in Paths(n) /\ a.row \in RowNames /\ Walk(W, y, a.path).row = a.row
    BY <1>1 DEF Histories, Tells, OriginsLead, y
  <2> QED BY <1>4, <1>5, <2>1, <2>2 DEF Histories
<1>8. IsRow(s, col, n)
  BY <1>1, <1>3, <1>6, <1>7 DEF IsRow
<1>9. CellsLead(W, x, col, s)
  <2>1. ASSUME NEW f \in FieldNames, s.cell[f] # Null
        PROVE  s.via[f] = path \o r.via[f] /\ Walk(W, x, s.via[f]) = Walk(W, y, r.via[f])
    BY <1>1, <1>3, <1>5, <2>1
  <2>2. CellsLead(W, y, col, r)
    BY DEF Tells, y
  <2> QED BY <1>3, <2>1, <2>2 DEF CellsLead
<1> QED BY <1>3, <1>7, <1>8, <1>9 DEF Tells, OriginsLead, s

-----------------------------------------------------------------------------
(* Rows put together from the cells of others.                             *)

(* Field g of s is that of r, or is empty, or holds the label behind which *)
(* x stands.                                                               *)
TakenFrom(s, col, g, r, c) ==
    /\ s.cell[g] = r.cell[g] /\ s.via[g] = r.via[g]
    /\ \/ col[g] = c[g]
       \/ col[g].type \in {"value", "foreign"} /\ c[g].type \in {"value", "foreign"}

Blank(s, g) == s.cell[g] = Null /\ s.via[g] = <<>>

NamesIt(W, n, x, s, col, g) ==
    \E id \in 1 .. n : /\ col[g] = IndexColumn(id) /\ s.via[g] = <<>>
                       /\ s.cell[g] \in Labels /\ x = W[id][s.cell[g]]

(* A row made of the cells of two rows that tell of x tells of x. *)
LEMMA MixedTells ==
  ASSUME NEW n \in Nat, NEW W, NEW x, NEW r, NEW c, Tells(W, n, c, x, r),
         NEW q, NEW e, Tells(W, n, e, x, q), NEW col \in ColumnsOver(n),
         NEW s, s = [lbl |-> s.lbl, from |-> s.from, cell |-> s.cell, via |-> s.via,
                     fiber |-> s.fiber],
         s.from \subseteq r.from \cup q.from,
         s.cell = [g \in FieldNames |-> s.cell[g]], s.via = [g \in FieldNames |-> s.via[g]],
         \A g \in FieldNames : \/ TakenFrom(s, col, g, r, c) \/ TakenFrom(s, col, g, q, e)
                               \/ Blank(s, g) \/ NamesIt(W, n, x, s, col, g)
  PROVE  Tells(W, n, col, x, s)
<1>1. IsRow(r, c, n) /\ IsRow(q, e, n)
  BY DEF Tells
<1>2. s.from \in SUBSET Histories(n)
  BY <1>1 DEF IsRow
<1>3. <<>> \in Paths(n) /\ Null \in Cells /\ Labels \subseteq Cells
  BY DEF Paths, Cells
<1>4. ASSUME NEW g \in FieldNames
      PROVE  /\ s.cell[g] \in Cells /\ s.via[g] \in Paths(n)
             /\ col[g].type = "none" => s.cell[g] = Null /\ s.via[g] = <<>>
             /\ s.cell[g] # Null =>
                  /\ col[g].type \in {"value", "foreign"} =>
                        Walk(W, x, s.via[g]).ref[g] = s.cell[g]
                  /\ col[g].type = "index_column" =>
                        Walk(W, x, s.via[g]) = W[col[g].of][s.cell[g]]
  <2>1. ASSUME NEW t, NEW o, Tells(W, n, o, x, t), TakenFrom(s, col, g, t, o)
        PROVE  /\ s.cell[g] \in Cells /\ s.via[g] \in Paths(n)
               /\ col[g].type = "none" => s.cell[g] = Null /\ s.via[g] = <<>>
               /\ s.cell[g] # Null =>
                    /\ col[g].type \in {"value", "foreign"} =>
                          Walk(W, x, s.via[g]).ref[g] = s.cell[g]
                    /\ col[g].type = "index_column" =>
                          Walk(W, x, s.via[g]) = W[col[g].of][s.cell[g]]
    BY <2>1 DEF Tells, IsRow, CellsLead, TakenFrom
  <2>2. CASE Blank(s, g)
    BY <1>3, <2>2 DEF Blank
  <2>3. CASE NamesIt(W, n, x, s, col, g)
    <3>1. PICK id \in 1 .. n : /\ col[g] = IndexColumn(id) /\ s.via[g] = <<>>
                               /\ s.cell[g] \in Labels /\ x = W[id][s.cell[g]]
      BY <2>3 DEF NamesIt
    <3>2. col[g].type = "index_column" /\ col[g].of = id
      BY <3>1 DEF IndexColumn
    <3>3. Walk(W, x, <<>>) = x
      BY WalkEmpty
    <3> QED BY <1>3, <3>1, <3>2, <3>3
  <2>4. TakenFrom(s, col, g, r, c) \/ TakenFrom(s, col, g, q, e) \/ Blank(s, g)
          \/ NamesIt(W, n, x, s, col, g)
    OBVIOUS
  <2>5. CASE TakenFrom(s, col, g, r, c)
    BY <2>1, <2>5
  <2>6. CASE TakenFrom(s, col, g, q, e)
    BY <2>1, <2>6
  <2> QED BY <2>2, <2>3, <2>4, <2>5, <2>6
<1>5. s.cell \in [FieldNames -> Cells] /\ s.via \in [FieldNames -> Paths(n)]
  BY <1>4
<1>6. IsRow(s, col, n)
  BY <1>2, <1>4, <1>5 DEF IsRow
<1>7. OriginsLead(W, x, s)
  BY DEF Tells, OriginsLead
<1>8. CellsLead(W, x, col, s)
  BY <1>4 DEF CellsLead
<1> QED BY <1>6, <1>7, <1>8 DEF Tells

(* Two rows that share no column, side by side. *)
LEMMA BesideTells ==
  ASSUME NEW n \in Nat, NEW W, NEW x, NEW r, NEW c, Tells(W, n, c, x, r),
         NEW q, NEW e, Tells(W, n, e, x, q),
         c \in ColumnsOver(n), e \in ColumnsOver(n),
         \A g \in FieldNames : c[g].type = "none" \/ e[g].type = "none",
         NEW col, col = [g \in FieldNames |-> IF c[g].type # "none" THEN c[g] ELSE e[g]],
         NEW label
  PROVE  /\ Tells(W, n, col, x, Beside(label, r, q))
         /\ Beside(label, r, q).lbl = label
         /\ Beside(label, r, q).fiber = (IF r.fiber # Null THEN r.fiber ELSE q.fiber)
         /\ col \in ColumnsOver(n)
<1> DEFINE s == Beside(label, r, q)
<1>1. /\ s.lbl = label /\ s.from = r.from \cup q.from
      /\ s.cell = [g \in FieldNames |-> IF r.cell[g] # Null THEN r.cell[g] ELSE q.cell[g]]
      /\ s.via = [g \in FieldNames |-> IF r.cell[g] # Null THEN r.via[g] ELSE q.via[g]]
      /\ s.fiber = (IF r.fiber # Null THEN r.fiber ELSE q.fiber)
      /\ s = [lbl |-> s.lbl, from |-> s.from, cell |-> s.cell, via |-> s.via,
              fiber |-> s.fiber]
  BY DEF Beside
<1> HIDE DEF s
<1>2. col \in ColumnsOver(n)
  BY DEF ColumnsOver
<1>3. ASSUME NEW g \in FieldNames
      PROVE  TakenFrom(s, col, g, r, c) \/ TakenFrom(s, col, g, q, e) \/ Blank(s, g)
  <2>1. /\ s.cell[g] = (IF r.cell[g] # Null THEN r.cell[g] ELSE q.cell[g])
        /\ s.via[g] = (IF r.cell[g] # Null THEN r.via[g] ELSE q.via[g])
        /\ col[g] = IF c[g].type # "none" THEN c[g] ELSE e[g]
    BY <1>1
  <2>2. /\ c[g].type = "none" => r.cell[g] = Null /\ r.via[g] = <<>>
        /\ e[g].type = "none" => q.cell[g] = Null /\ q.via[g] = <<>>
    BY DEF Tells, IsRow
  <2>3. c[g].type = "none" \/ e[g].type = "none"
    OBVIOUS
  <2>4. CASE c[g].type = "none"
    BY <2>1, <2>2, <2>4 DEF TakenFrom
  <2>5. CASE c[g].type # "none" /\ r.cell[g] # Null
    BY <2>1, <2>5 DEF TakenFrom
  <2>6. CASE c[g].type # "none" /\ r.cell[g] = Null
    BY <2>1, <2>2, <2>3, <2>6 DEF Blank
  <2> QED BY <2>4, <2>5, <2>6
<1>4. s.cell = [g \in FieldNames |-> s.cell[g]] /\ s.via = [g \in FieldNames |-> s.via[g]]
  BY <1>1
<1>5. Tells(W, n, col, x, s)
  BY <1>1, <1>2, <1>3, <1>4, MixedTells
<1> QED BY <1>1, <1>2, <1>5 DEF s

(* The index, demoted to a column, names the row it named. *)
LEMMA DemotedIsTyped ==
  ASSUME NEW W, NEW n \in Nat, NEW d, Good(W, n, d)
  PROVE  /\ Demoted(d) \in ColumnsOver(n)
         /\ Demoted(d) = [g \in FieldNames |-> IF g = d.ix THEN IndexColumn(d.id) ELSE d.col[g]]
<1>1. d.id \in 1 .. n /\ IsSchema(d, n)
  BY GoodIs
<1>2. d.col \in ColumnsOver(n) /\ d.ix \in FieldNames
  BY <1>1 DEF IsSchema
<1>3. IndexColumn(d.id) \in [type : ColumnTypes, of : 0 .. n]
      /\ IndexColumn(d.id).of = d.id
  BY <1>1 DEF IndexColumn, ColumnTypes
<1>4. Demoted(d) = [g \in FieldNames |-> IF g = d.ix THEN IndexColumn(d.id) ELSE d.col[g]]
  BY <1>2 DEF Demoted, ColumnsOver
<1>5. Demoted(d) \in ColumnsOver(n)
  BY <1>1, <1>2, <1>3, <1>4 DEF ColumnsOver
<1> QED BY <1>4, <1>5

(* set_index: the rows tell of what they told of, under other labels. *)
LEMMA SetIndexFits ==
  ASSUME NEW n \in Nat, NEW W \in Worlds(n), NEW d, Good(W, n, d), NEW f \in Columns(d),
         \A r \in RowSet(d) : r.cell[f] # Null
  PROVE  Fits(W, n, SetIndex(d, f, n + 1))
<1> DEFINE e == SetIndex(d, f, n + 1)
           X == Own(W, d)
           col == [Demoted(d) EXCEPT ![f] = NoColumn]
           moved(r) == [r EXCEPT !.lbl = r.cell[f],
                                 !.cell[f] = Null, !.via[f] = <<>>, !.cell[d.ix] = r.lbl]
<1>1. /\ d = [id |-> d.id, ix |-> d.ix, col |-> d.col, fib |-> d.fib, rows |-> d.rows]
      /\ d.id \in 1 .. n /\ IsSchema(d, n) /\ IsFib(d.fib, n) /\ IsSeq(d.rows)
      /\ \A i \in 1 .. Len(d.rows) : RowTold(W, n, d, d.rows[i])
  BY GoodIs
<1>2. PICK N \in Nat : N = Len(d.rows)
  BY <1>1 DEF IsSeq
<1>3. DOMAIN d.rows = 1 .. N /\ \A i \in 1 .. N : d.rows[i] \in RowSet(d)
  BY <1>1, <1>2, RowsAre
<1>4. e = [id |-> n + 1, ix |-> f, col |-> col, fib |-> d.fib,
           rows |-> [i \in 1 .. N |-> moved(d.rows[i])]]
  <2> DEFINE t == [i \in DOMAIN d.rows |-> moved(d.rows[i])]
  <2>1. e = [d EXCEPT !.id = n + 1, !.ix = f, !.col = col, !.rows = t]
    BY DEF SetIndex
  <2>2. t = [i \in 1 .. N |-> moved(d.rows[i])]
    <3> HIDE DEF moved
    <3> QED BY <1>3
  <2> HIDE DEF e, col, t
  <2>3. e = [id |-> n + 1, ix |-> f, col |-> col, fib |-> d.fib, rows |-> t]
    BY <1>1, <2>1
  <2> QED BY <2>2, <2>3
<1>5. f \in FieldNames /\ d.col[f].type # "none" /\ f # d.ix /\ d.ix \in FieldNames
  BY <1>1 DEF Columns, Has, IsSchema
<1>6. /\ col \in ColumnsOver(n) /\ col[f].type = "none" /\ col[d.ix] = IndexColumn(d.id)
      /\ \A g \in FieldNames \ {f, d.ix} : col[g] = d.col[g]
  <2>1. /\ Demoted(d) \in ColumnsOver(n)
        /\ Demoted(d) = [g \in FieldNames |-> IF g = d.ix THEN IndexColumn(d.id) ELSE d.col[g]]
    BY DemotedIsTyped
  <2>2. NoColumn \in [type : ColumnTypes, of : 0 .. n] /\ NoColumn.type = "none"
    BY DEF NoColumn, ColumnTypes
  <2>3. col = [g \in FieldNames |-> IF g = f THEN NoColumn
                                    ELSE IF g = d.ix THEN IndexColumn(d.id) ELSE d.col[g]]
    BY <2>1, <1>5
  <2>4. col \in ColumnsOver(n)
    BY <2>1, <2>2, <2>3 DEF ColumnsOver
  <2> QED BY <1>5, <2>2, <2>3, <2>4
<1>7. ASSUME NEW i \in 1 .. N
      PROVE  /\ moved(d.rows[i]).lbl \in Labels
             /\ Tells(W, n, col, X[i], moved(d.rows[i]))
             /\ FiberTold(W, n, d.fib, moved(d.rows[i]).fiber)
  <2>1. PICK r : r = d.rows[i]
    OBVIOUS
  <2>2. PICK x : x = W[d.id][r.lbl]
    OBVIOUS
  <2>3. RowTold(W, n, d, r) /\ r.cell[f] # Null
    BY <1>1, <1>2, <1>3, <2>1
  <2>4. r.lbl \in Labels /\ Tells(W, n, d.col, x, r) /\ FiberTold(W, n, d.fib, r.fiber)
    BY <2>2, <2>3 DEF RowTold
  <2>5. /\ r = [lbl |-> r.lbl, from |-> r.from, cell |-> r.cell, via |-> r.via,
                fiber |-> r.fiber]
        /\ r.cell \in [FieldNames -> Cells] /\ r.via \in [FieldNames -> Paths(n)]
        /\ r.via[d.ix] = <<>>
    BY <1>1, <1>5, <2>4 DEF Tells, IsRow, IsSchema
  <2>6. PICK s : s = moved(r)
    OBVIOUS
  <2>7. s = [lbl |-> r.cell[f], from |-> r.from,
             cell |-> [g \in FieldNames |-> IF g = d.ix THEN r.lbl
                                            ELSE IF g = f THEN Null ELSE r.cell[g]],
             via |-> [g \in FieldNames |-> IF g = f THEN <<>> ELSE r.via[g]],
             fiber |-> r.fiber]
    BY <1>5, <2>5, <2>6
  <2>8. /\ s.lbl = r.cell[f] /\ s.from = r.from /\ s.fiber = r.fiber
        /\ s.cell = [g \in FieldNames |-> IF g = d.ix THEN r.lbl
                                          ELSE IF g = f THEN Null ELSE r.cell[g]]
        /\ s.via = [g \in FieldNames |-> IF g = f THEN <<>> ELSE r.via[g]]
        /\ s = [lbl |-> s.lbl, from |-> s.from, cell |-> s.cell, via |-> s.via,
                fiber |-> s.fiber]
    BY <2>7
  <2>9. s.lbl \in Labels
    BY <1>5, <2>3, <2>5, <2>8 DEF Cells
  <2>10. ASSUME NEW g \in FieldNames
         PROVE  TakenFrom(s, col, g, r, d.col) \/ Blank(s, g) \/ NamesIt(W, n, x, s, col, g)
    <3>1. CASE g = f
      BY <1>5, <2>8, <3>1 DEF Blank
    <3>2. CASE g = d.ix
      BY <1>1, <1>5, <1>6, <2>2, <2>4, <2>5, <2>8, <3>2 DEF NamesIt
    <3>3. CASE g # f /\ g # d.ix
      BY <1>6, <2>8, <3>3 DEF TakenFrom
    <3> QED BY <3>1, <3>2, <3>3
  <2>11. s.cell = [g \in FieldNames |-> s.cell[g]] /\ s.via = [g \in FieldNames |-> s.via[g]]
    BY <2>8
  <2>12. Tells(W, n, col, x, s)
    <3> HIDE DEF col
    <3> QED BY <1>6, <2>4, <2>8, <2>10, <2>11, MixedTells
  <2>13. X[i] = x
    BY <1>2, <2>1, <2>2 DEF Own
  <2> HIDE DEF col, X
  <2> QED BY <2>1, <2>4, <2>6, <2>8, <2>9, <2>12, <2>13
<1> HIDE DEF e, col, X, moved
<1>8. IsSeq(e.rows) /\ Len(e.rows) = N /\ \A i \in 1 .. N : e.rows[i] = moved(d.rows[i])
  BY <1>4 DEF IsSeq
<1>9. IsSchema(e, n)
  BY <1>4, <1>5, <1>6 DEF IsSchema
<1>10. Told(W, n, e, X)
  BY <1>1, <1>4, <1>7, <1>8, <1>9 DEF Told
<1>11. e.id = n + 1
  BY <1>4
<1>12. Fits(W, n, e)
  BY <1>10, <1>11 DEF Fits
<1> QED BY <1>12 DEF e

(* reset_index: as set_index, but the labels are the positions. *)
LEMMA ResetIndexFits ==
  ASSUME NEW n \in Nat, NEW W \in Worlds(n), NEW d, Good(W, n, d), d.ix # "index",
         ~ Has(d, "index"), Len(d.rows) <= MaxRows
  PROVE  Fits(W, n, ResetIndex(d, n + 1))
<1> DEFINE e == ResetIndex(d, n + 1)
           X == Own(W, d)
           col == Demoted(d)
           moved(i) == [d.rows[i] EXCEPT !.lbl = i - 1, !.cell[d.ix] = d.rows[i].lbl]
<1>1. /\ d = [id |-> d.id, ix |-> d.ix, col |-> d.col, fib |-> d.fib, rows |-> d.rows]
      /\ d.id \in 1 .. n /\ IsSchema(d, n) /\ IsFib(d.fib, n) /\ IsSeq(d.rows)
      /\ \A i \in 1 .. Len(d.rows) : RowTold(W, n, d, d.rows[i])
  BY GoodIs
<1>2. PICK N \in Nat : N = Len(d.rows)
  BY <1>1 DEF IsSeq
<1>3. DOMAIN d.rows = 1 .. N
  BY <1>1, <1>2, RowsAre
<1>4. e = [id |-> n + 1, ix |-> "index", col |-> col, fib |-> d.fib,
           rows |-> [i \in 1 .. N |-> moved(i)]]
  <2> DEFINE t == [i \in DOMAIN d.rows |-> moved(i)]
  <2>1. e = [d EXCEPT !.id = n + 1, !.ix = "index", !.col = col, !.rows = t]
    BY DEF ResetIndex
  <2>2. t = [i \in 1 .. N |-> moved(i)]
    <3> HIDE DEF moved
    <3> QED BY <1>3
  <2> HIDE DEF e, col, t
  <2>3. e = [id |-> n + 1, ix |-> "index", col |-> col, fib |-> d.fib, rows |-> t]
    BY <1>1, <2>1
  <2> QED BY <2>2, <2>3
<1>5. d.ix \in FieldNames /\ "index" \in FieldNames /\ d.col["index"].type = "none"
  BY <1>1 DEF IsSchema, FieldNames, Has
<1>6. /\ col \in ColumnsOver(n) /\ col["index"].type = "none"
      /\ col = [g \in FieldNames |-> IF g = d.ix THEN IndexColumn(d.id) ELSE d.col[g]]
  BY <1>5, DemotedIsTyped
<1>7. ASSUME NEW i \in 1 .. N
      PROVE  /\ moved(i).lbl \in Labels
             /\ Tells(W, n, col, X[i], moved(i))
             /\ FiberTold(W, n, d.fib, moved(i).fiber)
  <2>1. PICK r : r = d.rows[i]
    OBVIOUS
  <2>2. PICK x : x = W[d.id][r.lbl]
    OBVIOUS
  <2>3. RowTold(W, n, d, r)
    BY <1>1, <1>2, <2>1
  <2>4. r.lbl \in Labels /\ Tells(W, n, d.col, x, r) /\ FiberTold(W, n, d.fib, r.fiber)
    BY <2>2, <2>3 DEF RowTold
  <2>5. /\ r = [lbl |-> r.lbl, from |-> r.from, cell |-> r.cell, via |-> r.via,
                fiber |-> r.fiber]
        /\ r.cell \in [FieldNames -> Cells] /\ r.via \in [FieldNames -> Paths(n)]
        /\ r.via[d.ix] = <<>>
    BY <1>1, <1>5, <2>4 DEF Tells, IsRow, IsSchema
  <2>6. PICK s : s = moved(i)
    OBVIOUS
  <2>7. s = [lbl |-> i - 1, from |-> r.from,
             cell |-> [g \in FieldNames |-> IF g = d.ix THEN r.lbl ELSE r.cell[g]],
             via |-> r.via, fiber |-> r.fiber]
    BY <1>5, <2>1, <2>5, <2>6
  <2>8. /\ s.lbl = i - 1 /\ s.from = r.from /\ s.fiber = r.fiber /\ s.via = r.via
        /\ s.cell = [g \in FieldNames |-> IF g = d.ix THEN r.lbl ELSE r.cell[g]]
        /\ s = [lbl |-> s.lbl, from |-> s.from, cell |-> s.cell, via |-> s.via,
                fiber |-> s.fiber]
    BY <2>7
  <2>9. s.lbl \in Labels
    BY <1>2, <2>8, RowPlansAssumption DEF Labels
  <2>10. ASSUME NEW g \in FieldNames
         PROVE  TakenFrom(s, col, g, r, d.col) \/ NamesIt(W, n, x, s, col, g)
    <3>1. CASE g = d.ix
      BY <1>1, <1>5, <1>6, <2>2, <2>4, <2>5, <2>8, <3>1 DEF NamesIt
    <3>2. CASE g # d.ix
      BY <1>6, <2>8, <3>2 DEF TakenFrom
    <3> QED BY <3>1, <3>2
  <2>11. s.cell = [g \in FieldNames |-> s.cell[g]] /\ s.via = [g \in FieldNames |-> s.via[g]]
    BY <2>5, <2>8
  <2>12. Tells(W, n, col, x, s)
    <3> HIDE DEF col
    <3> QED BY <1>6, <2>4, <2>8, <2>10, <2>11, MixedTells
  <2>13. X[i] = x
    BY <1>2, <2>1, <2>2 DEF Own
  <2> HIDE DEF col, X
  <2> QED BY <2>4, <2>6, <2>8, <2>9, <2>12, <2>13
<1> HIDE DEF e, col, X, moved
<1>8. IsSeq(e.rows) /\ Len(e.rows) = N /\ \A i \in 1 .. N : e.rows[i] = moved(i)
  BY <1>4 DEF IsSeq
<1>9. IsSchema(e, n)
  BY <1>4, <1>5, <1>6 DEF IsSchema
<1>10. Told(W, n, e, X)
  BY <1>1, <1>4, <1>7, <1>8, <1>9 DEF Told
<1>11. e.id = n + 1
  BY <1>4
<1>12. Fits(W, n, e)
  BY <1>10, <1>11 DEF Fits
<1> QED BY <1>12 DEF e

(* Columns left behind, and the cells in them. *)
Narrowed(col, K) == [g \in FieldNames |-> IF g \in K THEN col[g] ELSE NoColumn]
NarrowedCell(r, K) == [g \in FieldNames |-> IF g \in K THEN r.cell[g] ELSE Null]
NarrowedVia(r, K) == [g \in FieldNames |-> IF g \in K THEN r.via[g] ELSE <<>>]

(* A narrowed row tells less, of the same. *)
LEMMA NarrowedTells ==
  ASSUME NEW n \in Nat, NEW W, NEW x, NEW r, NEW col \in ColumnsOver(n), NEW K,
         Tells(W, n, col, x, r), NEW s,
         s = [lbl |-> s.lbl, from |-> s.from, cell |-> NarrowedCell(r, K),
              via |-> NarrowedVia(r, K), fiber |-> s.fiber],
         s.from \subseteq r.from
  PROVE  /\ Narrowed(col, K) \in ColumnsOver(n)
         /\ Tells(W, n, Narrowed(col, K), x, s)
<1>1. NoColumn \in [type : ColumnTypes, of : 0 .. n] /\ NoColumn.type = "none"
  BY DEF NoColumn, ColumnTypes
<1>2. Narrowed(col, K) \in ColumnsOver(n)
  BY <1>1 DEF ColumnsOver, Narrowed
<1>3. /\ s.cell = [g \in FieldNames |-> IF g \in K THEN r.cell[g] ELSE Null]
      /\ s.via = [g \in FieldNames |-> IF g \in K THEN r.via[g] ELSE <<>>]
  BY DEF NarrowedCell, NarrowedVia
<1>4. ASSUME NEW g \in FieldNames
      PROVE  TakenFrom(s, Narrowed(col, K), g, r, col) \/ Blank(s, g)
  BY <1>3 DEF TakenFrom, Blank, Narrowed
<1>5. /\ s = [lbl |-> s.lbl, from |-> s.from, cell |-> s.cell, via |-> s.via,
              fiber |-> s.fiber]
      /\ s.cell = [g \in FieldNames |-> s.cell[g]] /\ s.via = [g \in FieldNames |-> s.via[g]]
  BY <1>3
<1> QED BY <1>2, <1>4, <1>5, MixedTells

(* construct: only the value columns are kept. *)
LEMMA RebuiltTold ==
  ASSUME NEW n \in Nat, NEW W \in Worlds(n), NEW d, NEW X, Told(W, n, d, X)
  PROVE  Told(W, n, Rebuilt(d), X) /\ Rebuilt(d).id = d.id
<1> DEFINE e == Rebuilt(d)
           K == {g \in FieldNames : d.col[g].type = "value"}
           col == Narrowed(d.col, K)
           moved(i) == [d.rows[i] EXCEPT !.fiber = Null,
                                         !.cell = NarrowedCell(d.rows[i], K),
                                         !.via = NarrowedVia(d.rows[i], K)]
<1>1. /\ d = [id |-> d.id, ix |-> d.ix, col |-> d.col, fib |-> d.fib, rows |-> d.rows]
      /\ IsSchema(d, n) /\ IsSeq(d.rows)
      /\ \A i \in 1 .. Len(d.rows) : d.rows[i].lbl \in Labels /\ Tells(W, n, d.col, X[i], d.rows[i])
  BY DEF Told
<1>2. PICK N \in Nat : N = Len(d.rows)
  BY <1>1 DEF IsSeq
<1>3. DOMAIN d.rows = 1 .. N
  BY <1>1, <1>2, RowsAre
<1>4. e = [id |-> d.id, ix |-> d.ix, col |-> col, fib |-> Null,
           rows |-> [i \in 1 .. N |-> moved(i)]]
  <2> DEFINE t == [i \in DOMAIN d.rows |-> moved(i)]
  <2>1. e = [d EXCEPT !.fib = Null, !.col = col, !.rows = t]
    BY DEF Rebuilt, Narrowed, NarrowedCell, NarrowedVia
  <2>2. t = [i \in 1 .. N |-> moved(i)]
    <3> HIDE DEF moved
    <3> QED BY <1>3
  <2> HIDE DEF e, col, t
  <2>3. e = [id |-> d.id, ix |-> d.ix, col |-> col, fib |-> Null, rows |-> t]
    BY <1>1, <2>1
  <2> QED BY <2>2, <2>3
<1>5. d.col \in ColumnsOver(n) /\ d.ix \in FieldNames /\ d.col[d.ix].type = "none"
  BY <1>1 DEF IsSchema
<1>6. col \in ColumnsOver(n) /\ col[d.ix].type = "none"
  <2>1. NoColumn \in [type : ColumnTypes, of : 0 .. n] /\ NoColumn.type = "none"
    BY DEF NoColumn, ColumnTypes
  <2>2. col \in ColumnsOver(n)
    BY <1>5, <2>1 DEF ColumnsOver, Narrowed
  <2> QED BY <1>5, <2>1, <2>2 DEF Narrowed
<1>7. ASSUME NEW i \in 1 .. N
      PROVE  /\ moved(i).lbl \in Labels
             /\ Tells(W, n, col, X[i], moved(i))
             /\ FiberTold(W, n, Null, moved(i).fiber)
  <2>1. PICK r : r = d.rows[i]
    OBVIOUS
  <2>2. r.lbl \in Labels /\ Tells(W, n, d.col, X[i], r)
    BY <1>1, <1>2, <2>1
  <2>3. r = [lbl |-> r.lbl, from |-> r.from, cell |-> r.cell, via |-> r.via,
             fiber |-> r.fiber]
    BY <2>2 DEF Tells, IsRow
  <2>4. PICK s : s = moved(i)
    OBVIOUS
  <2>5. PICK c, v : c = NarrowedCell(r, K) /\ v = NarrowedVia(r, K)
    OBVIOUS
  <2>6. s = [r EXCEPT !.fiber = Null, !.cell = c, !.via = v]
    BY <2>1, <2>4, <2>5
  <2>7. s = [lbl |-> r.lbl, from |-> r.from, cell |-> c, via |-> v, fiber |-> Null]
    BY <2>3, <2>6
  <2>8. /\ s.lbl = r.lbl /\ s.from = r.from /\ s.fiber = Null
        /\ s = [lbl |-> s.lbl, from |-> s.from, cell |-> c, via |-> v, fiber |-> s.fiber]
    BY <2>7
  <2>9. Tells(W, n, col, X[i], s)
    <3> HIDE DEF K
    <3> QED BY <1>5, <2>2, <2>5, <2>8, NarrowedTells
  <2>10. FiberTold(W, n, Null, s.fiber)
    BY <2>8 DEF FiberTold
  <2> QED BY <2>2, <2>4, <2>8, <2>9, <2>10
<1> HIDE DEF e, col, moved, K
<1>8. IsSeq(e.rows) /\ Len(e.rows) = N /\ \A i \in 1 .. N : e.rows[i] = moved(i)
  BY <1>4 DEF IsSeq
<1>9. IsSchema(e, n) /\ IsFib(Null, n)
  BY <1>4, <1>5, <1>6 DEF IsSchema, IsFib
<1>10. Told(W, n, e, X)
  BY <1>4, <1>7, <1>8, <1>9 DEF Told
<1> QED BY <1>4, <1>10 DEF e

(* A dataset under another identity, with rows that tell of what they are  *)
(* said to tell of.                                                        *)
LEMMA ToldMoved ==
  ASSUME NEW W, NEW n, NEW d, IsSchema(d, n), IsFib(d.fib, n), NEW Y,
         NEW e, e = [id |-> e.id, ix |-> e.ix, col |-> e.col, fib |-> e.fib, rows |-> e.rows],
         e.ix = d.ix, e.col = d.col, e.fib = d.fib, IsSeq(e.rows),
         \A i \in 1 .. Len(e.rows) :
            /\ e.rows[i].lbl \in Labels /\ Tells(W, n, d.col, Y[i], e.rows[i])
            /\ FiberTold(W, n, d.fib, e.rows[i].fiber)
  PROVE  Told(W, n, e, Y)
BY DEF Told, IsSchema

(* The functions a program pipes its datasets through number rows afresh   *)
(* only where they say so.                                                 *)
Honest == \A call \in PipeCalls : call.fn = "sort_and_renumber" => call.identity = "mint"

(* pipe: an honest function's rows tell of what they told of. *)
LEMMA PipeFits ==
  ASSUME Honest, NEW n \in Nat, NEW W \in Worlds(n), NEW d, Good(W, n, d),
         NEW call \in PipeCalls, Len(d.rows) <= MaxRows
  PROVE  Fits(W, n, Pipe(d, call, n + 1))
<1> DEFINE rows == Returned(d, call.fn)
           id == IF call.identity = "mint" THEN n + 1 ELSE d.id
           back == [d EXCEPT !.rows = rows, !.id = id]
           e == Pipe(d, call, n + 1)
<1>1. /\ d.id \in 1 .. n /\ IsSeq(d.rows)
      /\ \A i \in 1 .. Len(d.rows) : RowTold(W, n, d, d.rows[i])
  BY GoodIs
<1>2. PICK N \in Nat : N = Len(d.rows)
  BY <1>1 DEF IsSeq
<1>3. DOMAIN d.rows = 1 .. N
  BY <1>1, <1>2, RowsAre
<1>4. call.fn \in {"sort", "sort_and_renumber"} /\ call.identity \in {"inherit", "mint"}
  BY RowPlansAssumption
<1> DEFINE Y == [i \in 1 .. N |-> W[d.id][d.rows[N - i + 1].lbl]]
<1>5. /\ rows = [i \in 1 .. N |-> rows[i]]
      /\ \A i \in 1 .. N : /\ rows[i].lbl \in Labels /\ Tells(W, n, d.col, Y[i], rows[i])
                           /\ FiberTold(W, n, d.fib, rows[i].fiber)
                           /\ call.fn = "sort" => rows[i].lbl = d.rows[N - i + 1].lbl
  <2>1. ASSUME NEW i \in 1 .. N
        PROVE  /\ N - i + 1 \in 1 .. N /\ Reverse(d.rows)[i] = d.rows[N - i + 1]
               /\ RowTold(W, n, d, d.rows[N - i + 1])
    <3>1. N - i + 1 \in 1 .. N
      OBVIOUS
    <3>2. Reverse(d.rows)[i] = d.rows[N - i + 1]
      BY <1>2 DEF Reverse
    <3>3. RowTold(W, n, d, d.rows[N - i + 1])
      BY <1>1, <1>2, <3>1
    <3> QED BY <3>1, <3>2, <3>3
  <2>2. Reverse(d.rows) = [i \in 1 .. N |-> Reverse(d.rows)[i]]
    BY <1>2 DEF Reverse
  <2>3. CASE call.fn = "sort"
    <3>1. rows = Reverse(d.rows)
      BY <2>3 DEF Returned
    <3> HIDE DEF rows
    <3>2. rows = [i \in 1 .. N |-> rows[i]]
      BY <2>2, <3>1
    <3>3. ASSUME NEW i \in 1 .. N
          PROVE  /\ rows[i].lbl \in Labels /\ Tells(W, n, d.col, Y[i], rows[i])
                 /\ FiberTold(W, n, d.fib, rows[i].fiber)
                 /\ rows[i].lbl = d.rows[N - i + 1].lbl
      BY <2>1, <3>1 DEF RowTold
    <3> QED BY <3>2, <3>3
  <2>4. CASE call.fn # "sort"
    <3>1. rows = [i \in 1 .. N |-> [Reverse(d.rows)[i] EXCEPT !.lbl = i - 1]]
      BY <1>3, <2>4 DEF Returned
    <3> HIDE DEF rows
    <3>2. rows = [i \in 1 .. N |-> rows[i]]
      BY <3>1
    <3>3. ASSUME NEW i \in 1 .. N
          PROVE  /\ rows[i].lbl \in Labels /\ Tells(W, n, d.col, Y[i], rows[i])
                 /\ FiberTold(W, n, d.fib, rows[i].fiber)
      <4>1. PICK r : r = d.rows[N - i + 1]
        OBVIOUS
      <4>2. Tells(W, n, d.col, Y[i], r) /\ FiberTold(W, n, d.fib, r.fiber)
        BY <2>1, <4>1 DEF RowTold
      <4>3. PICK s : s = rows[i]
        OBVIOUS
      <4>4. s = [r EXCEPT !.lbl = i - 1]
        BY <2>1, <3>1, <4>1, <4>3
      <4>5. r = [lbl |-> r.lbl, from |-> r.from, cell |-> r.cell, via |-> r.via,
                 fiber |-> r.fiber]
        BY <4>2 DEF Tells, IsRow
      <4>6. s = [lbl |-> i - 1, from |-> r.from, cell |-> r.cell, via |-> r.via,
                 fiber |-> r.fiber]
        BY <4>4, <4>5
      <4>7. /\ s.lbl = i - 1 /\ s.from = r.from /\ s.cell = r.cell /\ s.via = r.via
            /\ s.fiber = r.fiber
            /\ s = [lbl |-> s.lbl, from |-> s.from, cell |-> s.cell, via |-> s.via,
                    fiber |-> s.fiber]
        BY <4>6
      <4>8. s.lbl \in Labels
        BY <1>2, <4>7, RowPlansAssumption DEF Labels
      <4>9. Tells(W, n, d.col, Y[i], s)
        BY <4>2, <4>7 DEF Tells, IsRow, OriginsLead, CellsLead
      <4> QED BY <4>2, <4>3, <4>7, <4>8, <4>9
    <3> QED BY <2>4, <3>2, <3>3
  <2> QED BY <2>3, <2>4
<1>6. /\ Told(W, n, back, Y) /\ back.rows = rows /\ back.id = id
  <2>1. /\ d = [id |-> d.id, ix |-> d.ix, col |-> d.col, fib |-> d.fib, rows |-> d.rows]
        /\ IsSchema(d, n) /\ IsFib(d.fib, n)
    BY GoodIs
  <2>2. back = [d EXCEPT !.rows = rows, !.id = id]
    OBVIOUS
  <2> HIDE DEF rows, id, Y, back
  <2>3. back = [id |-> id, ix |-> d.ix, col |-> d.col, fib |-> d.fib, rows |-> rows]
    BY <2>1, <2>2
  <2>4. Len(rows) = N /\ IsSeq(rows)
    BY <1>5 DEF IsSeq
  <2>5. /\ back = [id |-> back.id, ix |-> back.ix, col |-> back.col, fib |-> back.fib,
                   rows |-> back.rows]
        /\ back.ix = d.ix /\ back.col = d.col /\ back.fib = d.fib
        /\ back.rows = rows /\ back.id = id
    BY <2>3
  <2>6. Told(W, n, back, Y)
    BY <1>5, <2>1, <2>4, <2>5, ToldMoved
  <2> QED BY <2>5, <2>6
<1>7. /\ Told(W, n, e, Y) /\ e.id = id
      /\ e = back \/ e = Rebuilt(back)
  <2>1. e = back \/ e = Rebuilt(back)
    BY DEF Pipe
  <2> HIDE DEF e, back, id, Y
  <2> QED BY <1>6, <2>1, RebuiltTold
<1>8. CASE call.identity = "mint"
  <2>1. e.id = n + 1
    BY <1>7, <1>8
  <2> HIDE DEF e, Y
  <2>2. Fits(W, n, e)
    BY <1>7, <2>1 DEF Fits
  <2> QED BY <2>2 DEF e
<1>9. CASE call.identity # "mint"
  <2>1. call.fn = "sort" /\ e.id = d.id
    BY <1>4, <1>7, <1>9 DEF Honest
  <2>2. Len(e.rows) = N /\ \A i \in 1 .. N : e.rows[i].lbl = rows[i].lbl
    <3>1. CASE e = back
      <4> HIDE DEF back, e, rows
      <4>1. Len(rows) = N
        BY <1>5
      <4> QED BY <1>6, <3>1, <4>1
    <3>2. CASE e = Rebuilt(back)
      <4> HIDE DEF back, e, rows
      <4>1. Len(rows) = N /\ DOMAIN rows = 1 .. N
        BY <1>5
      <4>2. PICK b : b = back
        OBVIOUS
      <4>3. PICK K : K = {g \in FieldNames : b.col[g].type = "value"}
        OBVIOUS
      <4>4. /\ b = [id |-> b.id, ix |-> b.ix, col |-> b.col, fib |-> b.fib, rows |-> b.rows]
            /\ b.rows = rows
            /\ \A i \in 1 .. N : IsRow(b.rows[i], b.col, n)
        BY <1>6, <4>1, <4>2 DEF Told, Tells
      <4>5. e.rows = [i \in 1 .. N |->
                        [b.rows[i] EXCEPT !.fiber = Null, !.cell = NarrowedCell(b.rows[i], K),
                                          !.via = NarrowedVia(b.rows[i], K)]]
        BY <3>2, <4>1, <4>2, <4>3, <4>4 DEF Rebuilt, NarrowedCell, NarrowedVia
      <4>6. ASSUME NEW i \in 1 .. N PROVE e.rows[i].lbl = rows[i].lbl
        <5>1. PICK r : r = b.rows[i]
          OBVIOUS
        <5>2. PICK c, v : c = NarrowedCell(r, K) /\ v = NarrowedVia(r, K)
          OBVIOUS
        <5>3. e.rows[i] = [r EXCEPT !.fiber = Null, !.cell = c, !.via = v]
          BY <4>5, <5>1, <5>2
        <5>4. r = [lbl |-> r.lbl, from |-> r.from, cell |-> r.cell, via |-> r.via,
                   fiber |-> r.fiber]
          BY <4>4, <5>1 DEF IsRow
        <5> QED BY <4>4, <5>1, <5>3, <5>4
      <4>7. e.rows = [i \in 1 .. N |-> e.rows[i]]
        BY <4>5
      <4>8. Len(e.rows) = N
        BY <4>7
      <4> QED BY <4>6, <4>8
    <3> QED BY <1>7, <3>1, <3>2
  <2>3. \A i \in 1 .. Len(e.rows) : Y[i] = W[e.id][e.rows[i].lbl]
    <3> HIDE DEF e, rows
    <3> QED BY <1>5, <2>1, <2>2
  <2>4. e.id \in 1 .. n
    BY <1>1, <2>1
  <2> HIDE DEF e, Y
  <2>5. Fits(W, n, e)
    BY <1>7, <2>3, <2>4 DEF Fits
  <2> QED BY <2>5 DEF e
<1> QED BY <1>8, <1>9

(* link: a value column, read as a reference, refers to what it held. *)
LEMMA LinkGood ==
  ASSUME NEW n \in Nat, NEW W \in Worlds(n), NEW d, Good(W, n, d),
         NEW target, target.id \in 1 .. n, NEW f \in FieldNames, d.col[f] = ValueColumn
  PROVE  Good(W, n, Link(d, target, f))
<1> DEFINE e == Link(d, target, f)
           col == [d.col EXCEPT ![f] = ForeignIndex(target.id)]
<1>1. /\ d = [id |-> d.id, ix |-> d.ix, col |-> d.col, fib |-> d.fib, rows |-> d.rows]
      /\ d.id \in 1 .. n /\ IsSchema(d, n) /\ IsFib(d.fib, n) /\ IsSeq(d.rows)
      /\ \A i \in 1 .. Len(d.rows) : RowTold(W, n, d, d.rows[i])
  BY GoodIs
<1>2. e = [id |-> d.id, ix |-> d.ix, col |-> col, fib |-> d.fib, rows |-> d.rows]
  BY <1>1 DEF Link
<1>3. d.col \in ColumnsOver(n) /\ d.ix \in FieldNames /\ d.col[d.ix].type = "none"
  BY <1>1 DEF IsSchema
<1>4. /\ ForeignIndex(target.id) \in [type : ColumnTypes, of : 0 .. n]
      /\ ForeignIndex(target.id).type = "foreign" /\ ForeignIndex(target.id).of = target.id
      /\ d.col[f].type = "value"
  BY DEF ForeignIndex, ColumnTypes, ValueColumn
<1>5. /\ col \in ColumnsOver(n)
      /\ col = [g \in FieldNames |-> IF g = f THEN ForeignIndex(target.id) ELSE d.col[g]]
  <2>1. col = [g \in FieldNames |-> IF g = f THEN ForeignIndex(target.id) ELSE d.col[g]]
    BY <1>3 DEF ColumnsOver
  <2>2. col \in ColumnsOver(n)
    BY <1>3, <1>4, <2>1 DEF ColumnsOver
  <2> QED BY <2>1, <2>2
<1> HIDE DEF e, col
<1>6. IsSchema(e, n)
  BY <1>2, <1>3, <1>4, <1>5 DEF IsSchema
<1>7. ASSUME NEW i \in 1 .. Len(e.rows) PROVE RowTold(W, n, e, e.rows[i])
  <2>1. PICK r : r = d.rows[i]
    OBVIOUS
  <2>2. PICK x : x = W[d.id][r.lbl]
    OBVIOUS
  <2>3. r.lbl \in Labels /\ Tells(W, n, d.col, x, r) /\ FiberTold(W, n, d.fib, r.fiber)
    BY <1>1, <1>2, <2>1, <2>2 DEF RowTold
  <2>4. /\ r = [lbl |-> r.lbl, from |-> r.from, cell |-> r.cell, via |-> r.via,
                fiber |-> r.fiber]
        /\ r.cell = [g \in FieldNames |-> r.cell[g]] /\ r.via = [g \in FieldNames |-> r.via[g]]
    BY <2>3 DEF Tells, IsRow
  <2>5. \A g \in FieldNames : TakenFrom(r, col, g, r, d.col)
    BY <1>4, <1>5 DEF TakenFrom
  <2>6. Tells(W, n, col, x, r)
    BY <1>5, <2>3, <2>4, <2>5, MixedTells
  <2> QED BY <1>2, <2>1, <2>2, <2>3, <2>6 DEF RowTold
<1>8. Good(W, n, e)
  BY <1>1, <1>2, <1>6, <1>7, GoodIs
<1> QED BY <1>8 DEF e

(* concat_rows: stacked rows tell of what they told of; under one identity *)
(* they did so under the labels they keep.                                 *)
LEMMA ConcatRowsFits ==
  ASSUME NEW n \in Nat, NEW W \in Worlds(n), NEW d, Good(W, n, d), NEW e, Good(W, n, e),
         d.ix = e.ix, d.col = e.col, d.fib = e.fib
  PROVE  Fits(W, n, ConcatRows(d, e, n + 1))
<1> DEFINE both == ConcatRows(d, e, n + 1)
<1>1. /\ d = [id |-> d.id, ix |-> d.ix, col |-> d.col, fib |-> d.fib, rows |-> d.rows]
      /\ d.id \in 1 .. n /\ IsSchema(d, n) /\ IsFib(d.fib, n) /\ IsSeq(d.rows)
      /\ \A i \in 1 .. Len(d.rows) : RowTold(W, n, d, d.rows[i])
  BY GoodIs
<1>2. /\ IsSeq(e.rows)
      /\ \A i \in 1 .. Len(e.rows) : RowTold(W, n, e, e.rows[i])
  BY GoodIs
<1>3. PICK N \in Nat : N = Len(d.rows)
  BY <1>1 DEF IsSeq
<1>4. PICK M \in Nat : M = Len(e.rows)
  BY <1>2 DEF IsSeq
<1>5. PICK rows : rows = d.rows \o e.rows
  OBVIOUS
<1>6. /\ Len(rows) = N + M /\ IsSeq(rows)
      /\ \A i \in 1 .. N : rows[i] = d.rows[i]
      /\ \A i \in N + 1 .. N + M : rows[i] = e.rows[i - N]
  <2>1. PICK S : d.rows \in Seq(S) /\ e.rows \in Seq(S)
    <3>1. PICK S : S = {d.rows[i] : i \in 1 .. N} \cup {e.rows[i] : i \in 1 .. M}
      OBVIOUS
    <3>2. d.rows = [i \in 1 .. N |-> d.rows[i]] /\ e.rows = [i \in 1 .. M |-> e.rows[i]]
      BY <1>1, <1>2, <1>3, <1>4 DEF IsSeq
    <3>3. PICK s, t : s = d.rows /\ t = e.rows
      OBVIOUS
    <3>4. s \in Seq(S) /\ t \in Seq(S)
      BY <3>1, <3>2, <3>3
    <3> QED BY <3>3, <3>4
  <2>2. PICK s \in Seq(S), t \in Seq(S) : s = d.rows /\ t = e.rows
    BY <2>1
  <2>3. /\ rows \in Seq(S) /\ Len(rows) = N + M
        /\ \A i \in 1 .. N : rows[i] = s[i]
        /\ \A i \in N + 1 .. N + M : rows[i] = t[i - N]
    <3>1. Len(s) = N /\ Len(t) = M /\ rows = s \o t
      BY <1>3, <1>4, <1>5, <2>2
    <3>2. /\ s \o t \in Seq(S) /\ Len(s \o t) = Len(s) + Len(t)
          /\ \A l \in 1 .. Len(s) : (s \o t)[l] = s[l]
          /\ \A l \in Len(s) + 1 .. Len(s) + Len(t) : (s \o t)[l] = t[l - Len(s)]
      BY ConcatParts, Zenon
    <3> QED BY <3>1, <3>2
  <2> QED BY <2>2, <2>3 DEF IsSeq
<1>7. PICK id : id = Coalesced(d, e, n + 1)
  OBVIOUS
<1>8. both = [id |-> id, ix |-> d.ix, col |-> d.col, fib |-> d.fib, rows |-> rows]
  <2>1. both = [d EXCEPT !.id = id, !.rows = rows]
    BY <1>5, <1>7 DEF ConcatRows
  <2> HIDE DEF both
  <2> QED BY <1>1, <2>1
<1> DEFINE Y == [i \in 1 .. N + M |-> IF i <= N THEN W[d.id][d.rows[i].lbl]
                                      ELSE W[e.id][e.rows[i - N].lbl]]
<1> HIDE DEF both
<1>9. ASSUME NEW i \in 1 .. N + M
      PROVE  /\ rows[i].lbl \in Labels /\ Tells(W, n, d.col, Y[i], rows[i])
             /\ FiberTold(W, n, d.fib, rows[i].fiber)
             /\ d.id = e.id => Y[i] = W[d.id][rows[i].lbl]
  <2>1. CASE i <= N
    <3>1. rows[i] = d.rows[i] /\ RowTold(W, n, d, d.rows[i])
      BY <1>1, <1>3, <1>6, <2>1
    <3>2. Y[i] = W[d.id][d.rows[i].lbl]
      BY <2>1
    <3> HIDE DEF Y
    <3> QED BY <3>1, <3>2 DEF RowTold
  <2>2. CASE ~ (i <= N)
    <3>1. i - N \in 1 .. M
      BY <2>2
    <3>2. rows[i] = e.rows[i - N] /\ RowTold(W, n, e, e.rows[i - N])
      BY <1>2, <1>4, <1>6, <2>2, <3>1
    <3>3. Y[i] = W[e.id][e.rows[i - N].lbl]
      BY <2>2
    <3> HIDE DEF Y
    <3> QED BY <3>2, <3>3 DEF RowTold
  <2> QED BY <2>1, <2>2
<1> HIDE DEF Y
<1>10. Told(W, n, both, Y)
  BY <1>1, <1>6, <1>8, <1>9, ToldMoved
<1>11. \/ both.id = n + 1
       \/ both.id \in 1 .. n /\ \A i \in 1 .. Len(both.rows) : Y[i] = W[both.id][both.rows[i].lbl]
  <2>1. CASE d.id = e.id
    BY <1>1, <1>6, <1>7, <1>8, <1>9, <2>1 DEF Coalesced
  <2>2. CASE d.id # e.id
    BY <1>7, <1>8, <2>2 DEF Coalesced
  <2> QED BY <2>1, <2>2
<1>12. Fits(W, n, both)
  BY <1>10, <1>11 DEF Fits
<1> QED BY <1>12 DEF both

(* keep: a plan narrowed to some of its columns. *)
LEMMA KeepGood ==
  ASSUME NEW n \in Nat, NEW W \in Worlds(n), NEW p, Good(W, n, p), NEW K
  PROVE  /\ Good(W, n, Keep(p, K)) /\ Keep(p, K).fib = Null
         /\ Keep(p, K).id = p.id /\ Keep(p, K).ix = p.ix
         /\ Keep(p, K).col = Narrowed(p.col, K)
         /\ Len(Keep(p, K).rows) = Len(p.rows)
         /\ \A i \in 1 .. Len(p.rows) : /\ Keep(p, K).rows[i].lbl = p.rows[i].lbl
                                        /\ Keep(p, K).rows[i].from = {}
                                        /\ Keep(p, K).rows[i].cell = NarrowedCell(p.rows[i], K)
<1> DEFINE e == Keep(p, K)
           col == Narrowed(p.col, K)
           moved(i) == [p.rows[i] EXCEPT !.from = {}, !.cell = NarrowedCell(p.rows[i], K),
                                         !.via = NarrowedVia(p.rows[i], K), !.fiber = Null]
<1>1. /\ p = [id |-> p.id, ix |-> p.ix, col |-> p.col, fib |-> p.fib, rows |-> p.rows]
      /\ p.id \in 1 .. n /\ IsSchema(p, n) /\ IsSeq(p.rows)
      /\ \A i \in 1 .. Len(p.rows) : RowTold(W, n, p, p.rows[i])
  BY GoodIs
<1>2. PICK N \in Nat : N = Len(p.rows)
  BY <1>1 DEF IsSeq
<1>3. DOMAIN p.rows = 1 .. N
  BY <1>1, <1>2, RowsAre
<1>4. e = [id |-> p.id, ix |-> p.ix, col |-> col, fib |-> Null,
           rows |-> [i \in 1 .. N |-> moved(i)]]
  <2> DEFINE t == [i \in DOMAIN p.rows |-> moved(i)]
  <2>1. e = [p EXCEPT !.col = col, !.fib = Null, !.rows = t]
    BY DEF Keep, Narrowed, NarrowedCell, NarrowedVia
  <2>2. t = [i \in 1 .. N |-> moved(i)]
    <3> HIDE DEF moved
    <3> QED BY <1>3
  <2> HIDE DEF e, col, t
  <2>3. e = [id |-> p.id, ix |-> p.ix, col |-> col, fib |-> Null, rows |-> t]
    BY <1>1, <2>1
  <2> QED BY <2>2, <2>3
<1>5. p.col \in ColumnsOver(n) /\ p.ix \in FieldNames /\ p.col[p.ix].type = "none"
  BY <1>1 DEF IsSchema
<1>6. col \in ColumnsOver(n) /\ col[p.ix].type = "none"
  <2>1. NoColumn \in [type : ColumnTypes, of : 0 .. n] /\ NoColumn.type = "none"
    BY DEF NoColumn, ColumnTypes
  <2>2. col \in ColumnsOver(n)
    BY <1>5, <2>1 DEF ColumnsOver, Narrowed
  <2> QED BY <1>5, <2>1, <2>2 DEF Narrowed
<1>7. ASSUME NEW i \in 1 .. N
      PROVE  /\ moved(i).lbl \in Labels /\ moved(i).lbl = p.rows[i].lbl
             /\ moved(i).from = {} /\ moved(i).cell = NarrowedCell(p.rows[i], K)
             /\ Tells(W, n, col, W[p.id][p.rows[i].lbl], moved(i))
             /\ FiberTold(W, n, Null, moved(i).fiber)
  <2>1. PICK r : r = p.rows[i]
    OBVIOUS
  <2>2. PICK x : x = W[p.id][r.lbl]
    OBVIOUS
  <2>3. r.lbl \in Labels /\ Tells(W, n, p.col, x, r)
    BY <1>1, <1>2, <2>1, <2>2 DEF RowTold
  <2>4. r = [lbl |-> r.lbl, from |-> r.from, cell |-> r.cell, via |-> r.via,
             fiber |-> r.fiber]
    BY <2>3 DEF Tells, IsRow
  <2>5. PICK s : s = moved(i)
    OBVIOUS
  <2>6. PICK c, v : c = NarrowedCell(r, K) /\ v = NarrowedVia(r, K)
    OBVIOUS
  <2>7. s = [r EXCEPT !.from = {}, !.cell = c, !.via = v, !.fiber = Null]
    BY <2>1, <2>5, <2>6
  <2>8. s = [lbl |-> r.lbl, from |-> {}, cell |-> c, via |-> v, fiber |-> Null]
    BY <2>4, <2>7
  <2>9. /\ s.lbl = r.lbl /\ s.from = {} /\ s.cell = c /\ s.fiber = Null
        /\ s = [lbl |-> s.lbl, from |-> s.from, cell |-> c, via |-> v, fiber |-> s.fiber]
    BY <2>8
  <2>10. Tells(W, n, col, x, s)
    BY <1>5, <2>3, <2>6, <2>9, NarrowedTells
  <2>11. FiberTold(W, n, Null, s.fiber)
    BY <2>9 DEF FiberTold
  <2> HIDE DEF col, moved
  <2> QED BY <2>1, <2>2, <2>3, <2>5, <2>6, <2>9, <2>10, <2>11
<1> HIDE DEF e, col, moved
<1>8. /\ IsSeq(e.rows) /\ Len(e.rows) = N /\ \A i \in 1 .. N : e.rows[i] = moved(i)
      /\ e.id = p.id /\ e.ix = p.ix /\ e.col = col /\ e.fib = Null
      /\ e = [id |-> e.id, ix |-> e.ix, col |-> e.col, fib |-> e.fib, rows |-> e.rows]
  BY <1>4 DEF IsSeq
<1>9. IsSchema(e, n) /\ IsFib(e.fib, n)
  BY <1>5, <1>6, <1>8 DEF IsSchema, IsFib
<1>10. \A i \in 1 .. N : RowTold(W, n, e, e.rows[i])
  BY <1>7, <1>8 DEF RowTold
<1>11. Good(W, n, e)
  BY <1>1, <1>8, <1>9, <1>10, GoodIs
<1> QED BY <1>2, <1>7, <1>8, <1>11 DEF e, col

(* A typed world tells of every label. *)
LEMMA ContentsTyped ==
  ASSUME NEW n \in Nat, NEW W \in Worlds(n), NEW id \in 1 .. n, NEW label \in Cells
  PROVE  W[id][label] \in Contents
BY DEF Worlds

(* The row a label names, or an empty one in its place. *)
LEMMA RowOrEmptyTells ==
  ASSUME NEW n \in Nat, NEW W \in Worlds(n), NEW d, Good(W, n, d), NEW label \in Labels
  PROVE  /\ Tells(W, n, d.col, W[d.id][label], RowOrEmpty(d, label))
         /\ FiberTold(W, n, d.fib, RowOrEmpty(d, label).fiber)
<1>1. /\ d.id \in 1 .. n /\ IsSchema(d, n) /\ IsSeq(d.rows)
      /\ \A i \in 1 .. Len(d.rows) : RowTold(W, n, d, d.rows[i])
  BY GoodIs
<1>2. CASE label \in LabelsOf(d)
  <2>1. PICK r : r = RowAt(d, label)
    OBVIOUS
  <2>2. r.lbl = label /\ \E i \in 1 .. Len(d.rows) : r = d.rows[i]
    BY <1>1, <1>2, <2>1, RowAtIsARow
  <2>3. RowTold(W, n, d, r)
    BY <1>1, <2>2
  <2>4. RowOrEmpty(d, label) = r
    BY <1>2, <2>1 DEF RowOrEmpty
  <2> QED BY <2>2, <2>3, <2>4 DEF RowTold
<1>3. CASE label \notin LabelsOf(d)
  <2>1. W[d.id][label] \in Contents /\ d.col \in ColumnsOver(n)
    BY <1>1, ContentsTyped DEF Cells, IsSchema
  <2>2. RowOrEmpty(d, label) = EmptyRow(label)
    BY <1>3 DEF RowOrEmpty
  <2>3. /\ Tells(W, n, d.col, W[d.id][label], EmptyRow(label))
        /\ EmptyRow(label).fiber = Null
    BY <2>1, EmptyRowTells
  <2>4. FiberTold(W, n, d.fib, Null)
    BY DEF FiberTold
  <2> QED BY <2>2, <2>3, <2>4
<1> QED BY <1>2, <1>3

(* The labels of a dataset, in the order of its rows. *)
LabelSeq(d) == [i \in 1 .. Len(d.rows) |-> d.rows[i].lbl]

(* Aligned labels are those of both sides, each once where each side has   *)
(* them once.                                                              *)
LEMMA AlignedTyped ==
  ASSUME NEW d, IsSeq(d.rows), \A i \in 1 .. Len(d.rows) : d.rows[i].lbl \in Labels,
         NEW e, IsSeq(e.rows), \A i \in 1 .. Len(e.rows) : e.rows[i].lbl \in Labels
  PROVE  /\ IsSeq(AlignedLabels(d, e))
         /\ \A i \in 1 .. Len(AlignedLabels(d, e)) : AlignedLabels(d, e)[i] \in Labels
         /\ Differ(d.rows) => \A i, j \in 1 .. Len(AlignedLabels(d, e)) :
                                 AlignedLabels(d, e)[i] = AlignedLabels(d, e)[j] => i = j
         /\ LabelSeq(d) = LabelSeq(e) => AlignedLabels(d, e) = LabelSeq(d)
<1>1. PICK N \in Nat : N = Len(d.rows)
  BY DEF IsSeq
<1>2. DOMAIN d.rows = 1 .. N /\ DOMAIN e.rows = 1 .. Len(e.rows)
  BY <1>1, RowsAre
<1> DEFINE all == [k \in 1 .. MaxRows |-> k - 1]
           P == {k \in 1 .. MaxRows : k - 1 \in LabelsOf(d) \cup LabelsOf(e)}
<1>3. PICK labels : labels = AlignedLabels(d, e)
  OBVIOUS
<1>4. labels = IF LabelSeq(d) = LabelSeq(e) THEN LabelSeq(d) ELSE Chosen(all, P)
  BY <1>2, <1>3, SMTT(40) DEF AlignedLabels, LabelSeq
<1>5. CASE LabelSeq(d) = LabelSeq(e)
  <2>1. labels = [i \in 1 .. N |-> d.rows[i].lbl]
    BY <1>1, <1>4, <1>5 DEF LabelSeq
  <2>2. Len(labels) = N /\ IsSeq(labels) /\ \A i \in 1 .. N : labels[i] = d.rows[i].lbl
    BY <2>1 DEF IsSeq
  <2>3. \A i \in 1 .. N : labels[i] \in Labels
    BY <1>1, <2>2
  <2>4. Differ(d.rows) => \A i, j \in 1 .. N : labels[i] = labels[j] => i = j
    BY <1>1, <2>2 DEF Differ
  <2> QED BY <1>3, <1>4, <1>5, <2>2, <2>3, <2>4
<1>6. CASE LabelSeq(d) # LabelSeq(e)
  <2> DEFINE M == MaxRows
  <2>1. M \in Nat /\ Len(all) = M /\ all \in Seq(Labels) /\ \A k \in 1 .. M : all[k] = k - 1
    BY RowPlansAssumption DEF Labels
  <2>2. Once(all, Labels)
    BY <2>1 DEF Once
  <2>3. labels = Chosen(all, P)
    BY <1>4, <1>6
  <2> HIDE DEF all, P
  <2>4. Once(labels, Labels)
    BY <2>2, <2>3, ChosenOnce
  <2>5. PICK K \in Nat : K = Len(labels)
    BY <2>4 DEF Once
  <2>6. /\ IsSeq(labels) /\ \A i \in 1 .. K : labels[i] \in Labels
        /\ \A i, j \in 1 .. K : i < j => labels[i] # labels[j]
    BY <2>4, <2>5 DEF Once, IsSeq
  <2>7. \A i, j \in 1 .. K : labels[i] = labels[j] => i = j
    <3>1. \A i, j \in 1 .. K : i < j \/ j < i \/ i = j
      OBVIOUS
    <3> QED BY <2>6, <3>1
  <2> QED BY <1>3, <1>6, <2>5, <2>6, <2>7
<1> QED BY <1>5, <1>6

(* What concat_columns asks of two schemas. *)
NoSharedColumn(c, e) == \A g \in FieldNames : c[g].type = "none" \/ e[g].type = "none"

(* concat_columns: rows that correspond tell of the same, and so does the  *)
(* row made of both.                                                       *)
LEMMA ConcatColumnsGood ==
  ASSUME NEW n \in Nat, NEW W \in Worlds(n), NEW d, Good(W, n, d), NEW e, Good(W, n, e),
         d.id = e.id, d.ix = e.ix, e.fib = Null, NoSharedColumn(d.col, e.col)
  PROVE  /\ Good(W, n, ConcatColumns(d, e))
         /\ ConcatColumns(d, e).id = d.id /\ ConcatColumns(d, e).fib = d.fib
         /\ ConcatColumns(d, e).ix = d.ix
         /\ ConcatColumns(d, e).col = BesideColumns(d, e)
         /\ Differ(d.rows) => Differ(ConcatColumns(d, e).rows)
         /\ Len(ConcatColumns(d, e).rows) = Len(AlignedLabels(d, e))
         /\ \A i \in 1 .. Len(AlignedLabels(d, e)) :
               ConcatColumns(d, e).rows[i] =
                 Beside(AlignedLabels(d, e)[i], RowOrEmpty(d, AlignedLabels(d, e)[i]),
                                                RowOrEmpty(e, AlignedLabels(d, e)[i]))
<1> DEFINE both == ConcatColumns(d, e)
<1>1. /\ d = [id |-> d.id, ix |-> d.ix, col |-> d.col, fib |-> d.fib, rows |-> d.rows]
      /\ d.id \in 1 .. n /\ IsSchema(d, n) /\ IsFib(d.fib, n) /\ IsSeq(d.rows)
      /\ \A i \in 1 .. Len(d.rows) : RowTold(W, n, d, d.rows[i])
  BY GoodIs
<1>2. /\ IsSchema(e, n) /\ IsSeq(e.rows)
      /\ \A i \in 1 .. Len(e.rows) : RowTold(W, n, e, e.rows[i])
  BY GoodIs
<1>3. PICK labels : labels = AlignedLabels(d, e)
  OBVIOUS
<1>4. /\ IsSeq(labels) /\ \A i \in 1 .. Len(labels) : labels[i] \in Labels
      /\ Differ(d.rows) => \A i, j \in 1 .. Len(labels) : labels[i] = labels[j] => i = j
  BY <1>1, <1>2, <1>3, AlignedTyped DEF RowTold
<1>5. PICK N \in Nat : N = Len(labels) /\ DOMAIN labels = 1 .. N
  BY <1>4 DEF IsSeq
<1> DEFINE mixed(label) == Beside(label, RowOrEmpty(d, label), RowOrEmpty(e, label))
<1>6. PICK col : col = BesideColumns(d, e)
  OBVIOUS
<1>7. both = [id |-> d.id, ix |-> d.ix, col |-> col, fib |-> d.fib,
              rows |-> [i \in 1 .. N |-> mixed(labels[i])]]
  <2> DEFINE t == [i \in DOMAIN labels |-> mixed(labels[i])]
  <2>1. both = [d EXCEPT !.col = col, !.fib = IF d.fib # Null THEN d.fib ELSE e.fib,
                         !.rows = t]
    BY <1>3, <1>6 DEF ConcatColumns
  <2>2. t = [i \in 1 .. N |-> mixed(labels[i])]
    <3> HIDE DEF mixed
    <3> QED BY <1>5
  <2>3. d.fib = IF d.fib # Null THEN d.fib ELSE e.fib
    OBVIOUS
  <2> HIDE DEF t, both
  <2>4. both = [id |-> d.id, ix |-> d.ix, col |-> col, fib |-> d.fib, rows |-> t]
    BY <1>1, <2>1, <2>3
  <2> QED BY <2>2, <2>4
<1>8. col = [g \in FieldNames |-> IF d.col[g].type # "none" THEN d.col[g] ELSE e.col[g]]
  BY <1>6 DEF BesideColumns, Has
<1>9. /\ d.col \in ColumnsOver(n) /\ e.col \in ColumnsOver(n)
      /\ d.ix \in FieldNames /\ d.col[d.ix].type = "none" /\ e.col[d.ix].type = "none"
  BY <1>1, <1>2 DEF IsSchema
<1>10. ASSUME NEW i \in 1 .. N
       PROVE  /\ mixed(labels[i]).lbl = labels[i]
              /\ Tells(W, n, col, W[d.id][labels[i]], mixed(labels[i]))
              /\ FiberTold(W, n, d.fib, mixed(labels[i]).fiber)
              /\ col \in ColumnsOver(n)
  <2>1. PICK label \in Labels : label = labels[i]
    BY <1>4, <1>5
  <2>2. PICK r, q : r = RowOrEmpty(d, label) /\ q = RowOrEmpty(e, label)
    OBVIOUS
  <2>3. PICK x : x = W[d.id][label]
    OBVIOUS
  <2>4. Tells(W, n, d.col, x, r) /\ FiberTold(W, n, d.fib, r.fiber)
    BY <2>2, <2>3, RowOrEmptyTells
  <2>5. Tells(W, n, e.col, x, q) /\ FiberTold(W, n, e.fib, q.fiber)
    BY <2>2, <2>3, RowOrEmptyTells
  <2>6. q.fiber = Null
    BY <2>5 DEF FiberTold
  <2>7. PICK s : s = Beside(label, r, q)
    OBVIOUS
  <2>8. \A g \in FieldNames : d.col[g].type = "none" \/ e.col[g].type = "none"
    BY DEF NoSharedColumn
  <2>9. /\ Tells(W, n, col, x, s) /\ s.lbl = label
        /\ s.fiber = (IF r.fiber # Null THEN r.fiber ELSE q.fiber)
        /\ col \in ColumnsOver(n)
    BY <1>8, <1>9, <2>4, <2>5, <2>7, <2>8, BesideTells
  <2>10. s.fiber = r.fiber
    BY <2>6, <2>9
  <2>11. mixed(labels[i]) = s
    BY <2>1, <2>2, <2>7
  <2> HIDE DEF mixed
  <2> QED BY <2>1, <2>3, <2>4, <2>9, <2>10, <2>11
<1> HIDE DEF both, mixed
<1>11. /\ both = [id |-> both.id, ix |-> both.ix, col |-> both.col, fib |-> both.fib,
                  rows |-> both.rows]
       /\ both.id = d.id /\ both.ix = d.ix /\ both.col = col /\ both.fib = d.fib
       /\ Len(both.rows) = N /\ IsSeq(both.rows)
       /\ \A i \in 1 .. N : both.rows[i] = mixed(labels[i])
  BY <1>7 DEF IsSeq
<1>12. col \in ColumnsOver(n)
  BY <1>8, <1>9 DEF ColumnsOver
<1>13. IsSchema(both, n)
  BY <1>8, <1>9, <1>11, <1>12 DEF IsSchema
<1>14. \A i \in 1 .. N : RowTold(W, n, both, both.rows[i])
  BY <1>4, <1>5, <1>10, <1>11 DEF RowTold
<1>15. Good(W, n, both)
  BY <1>1, <1>11, <1>13, <1>14, GoodIs
<1>16. Differ(d.rows) => Differ(both.rows)
  BY <1>4, <1>5, <1>10, <1>11 DEF Differ
<1> QED BY <1>3, <1>5, <1>6, <1>11, <1>15, <1>16 DEF both, mixed

-----------------------------------------------------------------------------
(* Making plans.                                                           *)

(* A plan's rows stand for what they refer to. *)
LEMMA PlanFits ==
  ASSUME NEW n \in Nat, NEW W \in Worlds(n), NEW ix \in FieldNames,
         NEW columns, DOMAIN columns \subseteq FieldNames, ix \notin DOMAIN columns,
         \A f \in DOMAIN columns : \E id \in 1 .. n : columns[f] = ForeignIndex(id),
         NEW rows, IsSeq(rows), Len(rows) <= MaxRows, NEW cells,
         \A i \in 1 .. Len(rows) :
            /\ rows[i] = Row(i - 1, {}, cells[i], Null)
            /\ cells[i] \in [FieldNames -> Cells]
            /\ \A g \in FieldNames : cells[i][g] # Null => g \in DOMAIN columns
  PROVE  Fits(W, n, PlanDataset(n + 1, ix, columns, rows))
<1> DEFINE e == PlanDataset(n + 1, ix, columns, rows)
           X == [i \in 1 .. Len(rows) |-> [row |-> <<"members", 0>>, ref |-> cells[i]]]
<1>1. PICK col : col = [f \in FieldNames |-> IF f \in DOMAIN columns THEN columns[f] ELSE NoColumn]
  OBVIOUS
<1>2. /\ e = [id |-> e.id, ix |-> e.ix, col |-> e.col, fib |-> e.fib, rows |-> e.rows]
      /\ e.id = n + 1 /\ e.ix = ix /\ e.col = col /\ e.fib = Null /\ e.rows = rows
  BY <1>1 DEF PlanDataset
<1> HIDE DEF e
<1>3. PICK N \in Nat : N = Len(rows)
  BY DEF IsSeq
<1>4. /\ NoColumn \in [type : ColumnTypes, of : 0 .. n] /\ NoColumn.type = "none"
      /\ \A id \in 1 .. n : /\ ForeignIndex(id) \in [type : ColumnTypes, of : 0 .. n]
                            /\ ForeignIndex(id).type = "foreign" /\ ForeignIndex(id).of = id
  BY DEF NoColumn, ForeignIndex, ColumnTypes
<1>5. /\ col \in ColumnsOver(n) /\ col[ix].type = "none"
      /\ \A f \in DOMAIN columns : f \in FieldNames /\ col[f].type = "foreign"
  <2>1. col \in [FieldNames -> [type : ColumnTypes, of : 0 .. n]]
    BY <1>1, <1>4
  <2>2. ASSUME NEW f \in FieldNames, col[f].type \in {"foreign", "index_column"}
        PROVE  col[f].of \in 1 .. n
    <3>1. f \in DOMAIN columns
      BY <1>1, <1>4, <2>2
    <3> QED BY <1>1, <1>4, <3>1
  <2>3. \A f \in DOMAIN columns : f \in FieldNames /\ col[f].type = "foreign"
    BY <1>1, <1>4
  <2> QED BY <1>1, <1>4, <2>1, <2>2, <2>3 DEF ColumnsOver
<1>6. ASSUME NEW i \in 1 .. N
      PROVE  /\ rows[i].lbl \in Labels /\ Tells(W, n, col, X[i], rows[i])
             /\ FiberTold(W, n, Null, rows[i].fiber)
  <2>1. PICK cell \in [FieldNames -> Cells] : cell = cells[i]
    BY <1>3
  <2>2. PICK x : x = X[i]
    OBVIOUS
  <2>3. x \in Contents /\ x.ref = cell
    BY <1>3, <2>1, <2>2 DEF Contents, RowNames
  <2>4. ASSUME NEW g \in FieldNames, cell[g] # Null
        PROVE  col[g].type \in {"value", "foreign"} /\ cell[g] = x.ref[g]
    <3>1. g \in DOMAIN columns
      BY <1>3, <2>1, <2>4
    <3> QED BY <1>5, <2>3, <3>1
  <2>5. PICK label \in Labels : label = i - 1
    BY <1>3, RowPlansAssumption DEF Labels
  <2>6. PICK from \in SUBSET Histories(n) : from = {}
    OBVIOUS
  <2>7. OfItself(from, x)
    BY <2>6 DEF OfItself
  <2>8. /\ Tells(W, n, col, x, Row(label, from, cell, Null))
        /\ Row(label, from, cell, Null).lbl = label
        /\ Row(label, from, cell, Null).fiber = Null
    <3>1. ReferLike(x, cell, col)
      BY <2>4 DEF ReferLike
    <3>2. x \in Contents /\ col \in ColumnsOver(n)
      BY <1>5, <2>3
    <3>3. cell \in [FieldNames -> Cells] /\ from \in SUBSET Histories(n) /\ n \in Nat
      OBVIOUS
    <3>4. PICK fiber : fiber = Null
      OBVIOUS
    <3>5. /\ Tells(W, n, col, x, Row(label, from, cell, fiber))
          /\ Row(label, from, cell, fiber).lbl = label
          /\ Row(label, from, cell, fiber).fiber = fiber
      BY <2>7, <3>1, <3>2, <3>3, PlainRowTells, SMTT(40)
    <3> QED BY <3>4, <3>5
  <2>9. rows[i] = Row(label, from, cell, Null)
    BY <1>3, <2>1, <2>5, <2>6
  <2>10. FiberTold(W, n, Null, Null)
    BY DEF FiberTold
  <2> HIDE DEF X
  <2> QED BY <2>2, <2>5, <2>8, <2>9, <2>10
<1> HIDE DEF X
<1>7. IsSchema(e, n) /\ IsFib(e.fib, n)
  BY <1>2, <1>5 DEF IsSchema, IsFib
<1>8. Told(W, n, e, X)
  BY <1>2, <1>3, <1>6, <1>7 DEF Told
<1>9. Fits(W, n, e)
  BY <1>2, <1>8 DEF Fits
<1> QED BY <1>9 DEF e

(* make_plan. *)
LEMMA MakePlanFits ==
  ASSUME NEW n \in Nat, NEW W \in Worlds(n), NEW target, target.id \in 1 .. n,
         NEW labels \in Selections
  PROVE  Fits(W, n, MakePlan(target, labels, n + 1))
<1>1. labels \in Seq(Labels) /\ Len(labels) <= MaxRows
  BY RowPlansAssumption DEF Labels
<1>2. PICK N \in Nat : N = Len(labels)
  BY <1>1
<1>3. DOMAIN labels = 1 .. N /\ \A i \in 1 .. N : labels[i] \in Labels
  BY <1>1, <1>2
<1> DEFINE cell(i) == [NoCells EXCEPT !["source_index"] = labels[i]]
           cells == [i \in 1 .. N |-> cell(i)]
           rows == [i \in DOMAIN labels |-> Row(i - 1, {}, cell(i), Null)]
           columns == [f \in {"source_index"} |-> ForeignIndex(target.id)]
<1>4. MakePlan(target, labels, n + 1) = PlanDataset(n + 1, "plan_id", columns, rows)
  BY DEF MakePlan
<1>5. /\ "plan_id" \in FieldNames /\ "source_index" \in FieldNames
      /\ "plan_id" # "source_index" /\ DOMAIN columns = {"source_index"}
      /\ columns["source_index"] = ForeignIndex(target.id)
  BY DEF FieldNames
<1>6. ASSUME NEW i \in 1 .. N
      PROVE  /\ cell(i) \in [FieldNames -> Cells]
             /\ \A g \in FieldNames : cell(i)[g] # Null => g = "source_index"
  BY <1>3 DEF NoCells, Cells
<1>7. rows = [i \in 1 .. N |-> Row(i - 1, {}, cell(i), Null)]
  <2> HIDE DEF cell
  <2> QED BY <1>3
<1> HIDE DEF cell, columns
<1>8. Len(rows) = N /\ IsSeq(rows) /\ \A i \in 1 .. N : rows[i] = Row(i - 1, {}, cells[i], Null)
  <2> HIDE DEF rows
  <2>1. rows = [i \in 1 .. N |-> rows[i]] /\ Len(rows) = N
    BY <1>7
  <2> QED BY <1>7, <2>1 DEF IsSeq
<1>9. \A i \in 1 .. Len(rows) :
          /\ rows[i] = Row(i - 1, {}, cells[i], Null)
          /\ cells[i] \in [FieldNames -> Cells]
          /\ \A g \in FieldNames : cells[i][g] # Null => g \in DOMAIN columns
  <2> HIDE DEF rows
  <2> QED BY <1>5, <1>6, <1>8
<1> HIDE DEF rows, cells
<1>10. PICK ix \in FieldNames : ix = "plan_id"
  BY <1>5
<1>11. Fits(W, n, PlanDataset(n + 1, ix, columns, rows))
  <2>1. /\ DOMAIN columns \subseteq FieldNames /\ ix \notin DOMAIN columns
        /\ \A f \in DOMAIN columns : \E id \in 1 .. n : columns[f] = ForeignIndex(id)
    BY <1>5, <1>10
  <2>2. Len(rows) <= MaxRows
    BY <1>1, <1>2, <1>8
  <2> QED BY <1>8, <1>9, <2>1, <2>2, PlanFits
<1> QED BY <1>4, <1>10, <1>11

(* The rows of a join, as pairs of positions. *)
JoinedPairs(l, r, on, how) ==
    LET order == PairOrder(how, l, r) IN
    Chosen(order, {n \in DOMAIN order : order[n] \in JoinPairs(l, r, on, how)})

(* Every pair joined is of rows, or of a row and nothing. *)
LEMMA JoinedTyped ==
  ASSUME NEW l, IsSeq(l.rows), NEW r, IsSeq(r.rows), NEW on, NEW how
  PROVE  /\ IsSeq(JoinedPairs(l, r, on, how))
         /\ \A i \in 1 .. Len(JoinedPairs(l, r, on, how)) :
               JoinedPairs(l, r, on, how)[i] \in (0 .. Len(l.rows)) \X (0 .. Len(r.rows))
<1>1. PICK N \in Nat : N = Len(l.rows) /\ DOMAIN l.rows = 1 .. N
  BY DEF IsSeq
<1>2. PICK M \in Nat : M = Len(r.rows) /\ DOMAIN r.rows = 1 .. M
  BY DEF IsSeq
<1> DEFINE S == Nat \X Nat
           pair(i, j) == <<IF i > N THEN 0 ELSE i, IF j > M THEN 0 ELSE j>>
<1>3. ASSUME NEW i \in 1 .. N + 1, NEW j \in 1 .. M + 1 PROVE pair(i, j) \in S
  OBVIOUS
<1>4. PICK order : order = PairOrder(how, l, r)
  OBVIOUS
<1>5. order \in Seq(S)
  <2>1. CASE how = "right"
    <3> DEFINE seqs == [j \in 1 .. M + 1 |-> [i \in 1 .. N + 1 |-> pair(i, j)]]
    <3>1. order = FlattenSeq(seqs)
      BY <1>1, <1>2, <1>4, <2>1 DEF PairOrder
    <3> HIDE DEF pair, S
    <3>2. seqs \in Seq(Seq(S))
      BY <1>3
    <3> HIDE DEF seqs
    <3> QED BY <3>1, <3>2, FlattenTyped
  <2>2. CASE how # "right"
    <3> DEFINE seqs == [i \in 1 .. N + 1 |-> [j \in 1 .. M + 1 |-> pair(i, j)]]
    <3>1. order = FlattenSeq(seqs)
      BY <1>1, <1>2, <1>4, <2>2 DEF PairOrder
    <3> HIDE DEF pair, S
    <3>2. seqs \in Seq(Seq(S))
      BY <1>3
    <3> HIDE DEF seqs
    <3> QED BY <3>1, <3>2, FlattenTyped
  <2> QED BY <2>1, <2>2
<1>6. IsSeq(order) /\ DOMAIN order = 1 .. Len(order)
  BY <1>5 DEF IsSeq
<1>7. PICK P : P = {k \in DOMAIN order : order[k] \in JoinPairs(l, r, on, how)}
  OBVIOUS
<1>8. PICK pairs : pairs = Chosen(order, P)
  OBVIOUS
<1>9. IsSeq(pairs) /\ \A a \in 1 .. Len(pairs) :
          \E k \in 1 .. Len(order) : k \in P /\ pairs[a] = order[k]
  BY <1>6, <1>8, ChosenRows
<1>10. \A a \in 1 .. Len(pairs) : pairs[a] \in JoinPairs(l, r, on, how)
  BY <1>6, <1>7, <1>9
<1>11. JoinPairs(l, r, on, how) \subseteq (0 .. N) \X (0 .. M)
  BY <1>1, <1>2 DEF JoinPairs, Matches
<1>12. pairs = JoinedPairs(l, r, on, how)
  BY <1>4, <1>7, <1>8 DEF JoinedPairs
<1> QED BY <1>1, <1>2, <1>9, <1>10, <1>11, <1>12

(* join. *)
LEMMA JoinFits ==
  ASSUME NEW n \in Nat, NEW W \in Worlds(n), NEW l, Good(W, n, l), NEW r, Good(W, n, r),
         NEW on, NEW how, Len(Join(l, r, on, how, n + 1).rows) <= MaxRows
  PROVE  Fits(W, n, Join(l, r, on, how, n + 1))
<1>1. /\ l.id \in 1 .. n /\ IsSeq(l.rows)
      /\ \A i \in 1 .. Len(l.rows) : l.rows[i].lbl \in Labels
  BY GoodIs DEF RowTold
<1>2. /\ r.id \in 1 .. n /\ IsSeq(r.rows)
      /\ \A i \in 1 .. Len(r.rows) : r.rows[i].lbl \in Labels
  BY GoodIs DEF RowTold
<1>3. PICK pairs : pairs = JoinedPairs(l, r, on, how)
  OBVIOUS
<1>4. PICK L \in Nat : L = Len(l.rows)
  BY <1>1 DEF IsSeq
<1>5. PICK R \in Nat : R = Len(r.rows)
  BY <1>2 DEF IsSeq
<1>6. IsSeq(pairs) /\ \A i \in 1 .. Len(pairs) : pairs[i] \in (0 .. L) \X (0 .. R)
  BY <1>1, <1>2, <1>3, <1>4, <1>5, JoinedTyped
<1>7. PICK N \in Nat : N = Len(pairs) /\ DOMAIN pairs = 1 .. N
  BY <1>6 DEF IsSeq
<1> DEFINE label(d, i) == IF i = 0 THEN Null ELSE d.rows[i].lbl
           cell(i) == [NoCells EXCEPT !["left_index"] = label(l, pairs[i][1]),
                                      !["right_index"] = label(r, pairs[i][2])]
           cells == [i \in 1 .. N |-> cell(i)]
           rows == [i \in DOMAIN pairs |-> Row(i - 1, {}, cell(i), Null)]
           columns == [f \in {"left_index", "right_index"} |->
                         IF f = "left_index" THEN ForeignIndex(l.id) ELSE ForeignIndex(r.id)]
<1>8. Join(l, r, on, how, n + 1) = PlanDataset(n + 1, "join_id", columns, rows)
  BY <1>3 DEF Join, JoinedPairs
<1>9. /\ "join_id" \in FieldNames /\ "left_index" \in FieldNames /\ "right_index" \in FieldNames
      /\ "join_id" \notin {"left_index", "right_index"}
      /\ DOMAIN columns = {"left_index", "right_index"}
      /\ \A f \in DOMAIN columns : \E id \in 1 .. n : columns[f] = ForeignIndex(id)
  BY <1>1, <1>2 DEF FieldNames
<1>10. ASSUME NEW i \in 1 .. N
       PROVE  /\ cell(i) \in [FieldNames -> Cells]
              /\ \A g \in FieldNames : cell(i)[g] # Null => g \in {"left_index", "right_index"}
  <2>1. PICK a \in 0 .. L, b \in 0 .. R : a = pairs[i][1] /\ b = pairs[i][2]
    BY <1>6, <1>7
  <2>2. label(l, a) \in Cells /\ label(r, b) \in Cells
    BY <1>1, <1>2, <1>4, <1>5 DEF Cells
  <2>3. PICK u \in Cells, v \in Cells : u = label(l, pairs[i][1]) /\ v = label(r, pairs[i][2])
    BY <2>1, <2>2
  <2>4. cell(i) = [NoCells EXCEPT !["left_index"] = u, !["right_index"] = v]
    BY <2>3
  <2> HIDE DEF cell
  <2> QED BY <2>3, <2>4 DEF NoCells, Cells
<1>11. rows = [i \in 1 .. N |-> Row(i - 1, {}, cell(i), Null)]
  <2> HIDE DEF cell
  <2> QED BY <1>7
<1> HIDE DEF cell, columns
<1>12. Len(rows) = N /\ IsSeq(rows) /\ \A i \in 1 .. N : rows[i] = Row(i - 1, {}, cells[i], Null)
  <2> HIDE DEF rows
  <2>1. rows = [i \in 1 .. N |-> rows[i]] /\ Len(rows) = N
    BY <1>11
  <2> QED BY <1>11, <2>1 DEF IsSeq
<1>13. \A i \in 1 .. Len(rows) :
           /\ rows[i] = Row(i - 1, {}, cells[i], Null)
           /\ cells[i] \in [FieldNames -> Cells]
           /\ \A g \in FieldNames : cells[i][g] # Null => g \in DOMAIN columns
  <2> HIDE DEF rows
  <2> QED BY <1>9, <1>10, <1>12
<1> HIDE DEF rows, cells
<1>14. PICK ix \in FieldNames : ix = "join_id"
  BY <1>9
<1>15. Len(rows) <= MaxRows
  BY <1>8 DEF PlanDataset
<1>16. Fits(W, n, PlanDataset(n + 1, ix, columns, rows))
  <2>1. /\ DOMAIN columns \subseteq FieldNames /\ ix \notin DOMAIN columns
        /\ \A f \in DOMAIN columns : \E id \in 1 .. n : columns[f] = ForeignIndex(id)
    BY <1>9, <1>14
  <2> QED BY <1>12, <1>13, <1>15, <2>1, PlanFits
<1> QED BY <1>8, <1>14, <1>16

-----------------------------------------------------------------------------
(* Following plans.                                                        *)

(* What a reference leads to is the row it names. *)
LEMMA GatheredTells ==
  ASSUME NEW n \in Nat, NEW W \in Worlds(n), NEW d, Good(W, n, d), NEW p, Good(W, n, p),
         NEW f \in FieldNames, p.col[f] = ForeignIndex(d.id), LabelsFound(d, p, f),
         NEW i \in 1 .. Len(p.rows)
  PROVE  /\ Gathered(d, p, f, i).lbl = p.rows[i].lbl
         /\ Tells(W, n, d.col, W[p.id][p.rows[i].lbl], Gathered(d, p, f, i))
         /\ FiberTold(W, n, d.fib, Gathered(d, p, f, i).fiber)
<1>1. /\ d.id \in 1 .. n /\ IsSchema(d, n) /\ IsSeq(d.rows)
      /\ \A j \in 1 .. Len(d.rows) : RowTold(W, n, d, d.rows[j])
  BY GoodIs
<1>2. p.id \in 1 .. n /\ IsSeq(p.rows) /\ RowTold(W, n, p, p.rows[i])
  BY GoodIs
<1>3. PICK q : q = p.rows[i]
  OBVIOUS
<1>4. PICK x : x = W[p.id][q.lbl]
  OBVIOUS
<1>5. q.lbl \in Labels /\ Tells(W, n, p.col, x, q)
  BY <1>2, <1>3, <1>4 DEF RowTold
<1>6. x \in Contents /\ q.via[f] \in Paths(n) /\ q.cell[f] \in Cells
  BY <1>5 DEF Tells, IsRow
<1>7. PICK path : path = Crossing(q, f, d.id)
  OBVIOUS
<1>8. path \in Paths(n) /\ Walk(W, x, path) = W[d.id][Walk(W, x, q.via[f]).ref[f]]
  <2>1. PICK id \in 1 .. n, v \in Paths(n) : id = d.id /\ v = q.via[f]
    BY <1>1, <1>6
  <2>2. path = Append(v, <<f, id>>)
    BY <1>7, <2>1 DEF Crossing
  <2>3. /\ Append(v, <<f, id>>) \in Paths(n)
        /\ Walk(W, x, Append(v, <<f, id>>)) = W[id][Walk(W, x, v).ref[f]]
    BY <1>6, WalkFurther
  <2> QED BY <2>1, <2>2, <2>3
<1>9. PICK r : r = IF q.cell[f] = Null THEN EmptyRow(Null) ELSE RowAt(d, q.cell[f])
  OBVIOUS
<1>10. Gathered(d, p, f, i) = Reached(r, q.lbl, path)
  BY <1>3, <1>7, <1>9 DEF Gathered
<1>11. d.col \in ColumnsOver(n)
  BY <1>1 DEF IsSchema
<1>12. Tells(W, n, d.col, Walk(W, x, path), r) /\ FiberTold(W, n, d.fib, r.fiber)
  <2>1. CASE q.cell[f] = Null
    <3>1. Walk(W, x, path) \in Contents
      BY <1>6, <1>8, WalkTyped
    <3>2. PICK y \in Contents : y = Walk(W, x, path)
      BY <3>1
    <3>3. Tells(W, n, d.col, y, EmptyRow(Null)) /\ EmptyRow(Null).fiber = Null
      BY <1>11, EmptyRowTells
    <3>4. FiberTold(W, n, d.fib, Null)
      BY DEF FiberTold
    <3> QED BY <1>9, <2>1, <3>2, <3>3, <3>4
  <2>2. CASE q.cell[f] # Null
    <3>1. PICK label : label = q.cell[f]
      OBVIOUS
    <3>2. q \in RowSet(p)
      BY <1>2, <1>3, RowsAre
    <3>3. label \in LabelsOf(d)
      BY <2>2, <3>1, <3>2 DEF LabelsFound
    <3>4. r = RowAt(d, label)
      BY <1>9, <2>2, <3>1
    <3>5. r.lbl = label /\ \E j \in 1 .. Len(d.rows) : r = d.rows[j]
      BY <1>1, <3>3, <3>4, RowAtIsARow
    <3>6. RowTold(W, n, d, r)
      BY <1>1, <3>5
    <3>7. Walk(W, x, q.via[f]).ref[f] = label
      BY <1>5, <2>2, <3>1 DEF Tells, CellsLead, ForeignIndex
    <3>8. Walk(W, x, path) = W[d.id][r.lbl]
      BY <1>8, <3>5, <3>7
    <3> QED BY <3>6, <3>8 DEF RowTold
  <2> QED BY <2>1, <2>2
<1>13. /\ Tells(W, n, d.col, x, Reached(r, q.lbl, path))
       /\ Reached(r, q.lbl, path).lbl = q.lbl
       /\ Reached(r, q.lbl, path).fiber = r.fiber
  BY <1>6, <1>8, <1>11, <1>12, ReachedTells
<1> QED BY <1>3, <1>4, <1>10, <1>12, <1>13

(* explode: a row per row of the plan, under its label, telling of what    *)
(* the plan's row tells of.                                                *)
LEMMA ExplodeGood ==
  ASSUME NEW n \in Nat, NEW W \in Worlds(n), NEW s, Good(W, n, s), NEW p, Good(W, n, p),
         NEW f \in FieldNames, Explodes(s, p, f)
  PROVE  /\ Good(W, n, Explode(s, p, f))
         /\ Explode(s, p, f).id = p.id /\ Explode(s, p, f).ix = p.ix
         /\ Explode(s, p, f).col = s.col /\ Explode(s, p, f).fib = s.fib
         /\ Len(Explode(s, p, f).rows) = Len(p.rows)
         /\ \A i \in 1 .. Len(p.rows) :
               /\ Explode(s, p, f).rows[i].lbl = p.rows[i].lbl
               /\ Explode(s, p, f).rows[i].from = Gathered(s, p, f, i).from
<1> DEFINE e == Explode(s, p, f)
           over == Overlays(s, p)
           cell(i) == [g \in FieldNames |-> IF g \in over THEN p.rows[i].cell[g]
                                            ELSE Gathered(s, p, f, i).cell[g]]
           via(i) == [g \in FieldNames |-> IF g \in over THEN p.rows[i].via[g]
                                           ELSE Gathered(s, p, f, i).via[g]]
           moved(i) == [Gathered(s, p, f, i) EXCEPT !.cell = cell(i), !.via = via(i)]
<1>1. /\ s = [id |-> s.id, ix |-> s.ix, col |-> s.col, fib |-> s.fib, rows |-> s.rows]
      /\ IsSchema(s, n) /\ IsFib(s.fib, n)
  BY GoodIs
<1>2. /\ p.id \in 1 .. n /\ IsSchema(p, n) /\ IsSeq(p.rows)
      /\ \A i \in 1 .. Len(p.rows) : RowTold(W, n, p, p.rows[i])
  BY GoodIs
<1>3. PICK N \in Nat : N = Len(p.rows) /\ DOMAIN p.rows = 1 .. N
  BY <1>2 DEF IsSeq
<1>4. e = [id |-> p.id, ix |-> p.ix, col |-> s.col, fib |-> s.fib,
           rows |-> [i \in 1 .. N |-> moved(i)]]
  <2> DEFINE t == [i \in DOMAIN p.rows |-> moved(i)]
  <2>1. e = [s EXCEPT !.id = p.id, !.ix = p.ix, !.rows = t]
    BY DEF Explode
  <2>2. t = [i \in 1 .. N |-> moved(i)]
    <3> HIDE DEF moved
    <3> QED BY <1>3
  <2> HIDE DEF e, t
  <2>3. e = [id |-> p.id, ix |-> p.ix, col |-> s.col, fib |-> s.fib, rows |-> t]
    BY <1>1, <2>1
  <2> QED BY <2>2, <2>3
<1>5. /\ p.col[f] = ForeignIndex(s.id) /\ LabelsFound(s, p, f)
      /\ s.col[p.ix].type = "none" /\ \A g \in over : s.col[g] = p.col[g]
  BY DEF Explodes, PlansOver, Has
<1>6. ASSUME NEW i \in 1 .. N
      PROVE  /\ moved(i).lbl = p.rows[i].lbl /\ moved(i).lbl \in Labels
             /\ moved(i).from = Gathered(s, p, f, i).from
             /\ Tells(W, n, s.col, W[p.id][p.rows[i].lbl], moved(i))
             /\ FiberTold(W, n, s.fib, moved(i).fiber)
  <2>1. PICK q : q = p.rows[i]
    OBVIOUS
  <2>2. PICK x : x = W[p.id][q.lbl]
    OBVIOUS
  <2>3. q.lbl \in Labels /\ Tells(W, n, p.col, x, q)
    BY <1>2, <1>3, <2>1, <2>2 DEF RowTold
  <2>4. PICK r : r = Gathered(s, p, f, i)
    OBVIOUS
  <2>5. r.lbl = q.lbl /\ Tells(W, n, s.col, x, r) /\ FiberTold(W, n, s.fib, r.fiber)
    BY <1>3, <1>5, <2>1, <2>2, <2>4, GatheredTells
  <2>6. r = [lbl |-> r.lbl, from |-> r.from, cell |-> r.cell, via |-> r.via,
             fiber |-> r.fiber]
    BY <2>5 DEF Tells, IsRow
  <2>7. PICK c, v : c = cell(i) /\ v = via(i)
    OBVIOUS
  <2>8. PICK m : m = moved(i)
    OBVIOUS
  <2>9. m = [r EXCEPT !.cell = c, !.via = v]
    BY <2>4, <2>7, <2>8
  <2>10. m = [lbl |-> r.lbl, from |-> r.from, cell |-> c, via |-> v, fiber |-> r.fiber]
    BY <2>6, <2>9
  <2>11. /\ m.lbl = r.lbl /\ m.from = r.from /\ m.cell = c /\ m.via = v /\ m.fiber = r.fiber
         /\ m = [lbl |-> m.lbl, from |-> m.from, cell |-> m.cell, via |-> m.via,
                 fiber |-> m.fiber]
    BY <2>10
  <2>12. /\ c = [g \in FieldNames |-> IF g \in over THEN q.cell[g] ELSE r.cell[g]]
         /\ v = [g \in FieldNames |-> IF g \in over THEN q.via[g] ELSE r.via[g]]
    BY <2>1, <2>4, <2>7
  <2>13. \A g \in FieldNames : TakenFrom(m, s.col, g, r, s.col)
                                 \/ TakenFrom(m, s.col, g, q, p.col)
    BY <1>5, <2>11, <2>12 DEF TakenFrom
  <2>14. m.cell = [g \in FieldNames |-> m.cell[g]] /\ m.via = [g \in FieldNames |-> m.via[g]]
    BY <2>11, <2>12
  <2>15. s.col \in ColumnsOver(n)
    BY <1>1 DEF IsSchema
  <2>16. Tells(W, n, s.col, x, m)
    BY <2>3, <2>5, <2>11, <2>13, <2>14, <2>15, MixedTells
  <2> HIDE DEF moved
  <2> QED BY <2>1, <2>2, <2>3, <2>4, <2>5, <2>8, <2>11, <2>16
<1> HIDE DEF e, moved
<1>7. /\ e = [id |-> e.id, ix |-> e.ix, col |-> e.col, fib |-> e.fib, rows |-> e.rows]
      /\ e.id = p.id /\ e.ix = p.ix /\ e.col = s.col /\ e.fib = s.fib
      /\ Len(e.rows) = N /\ IsSeq(e.rows) /\ \A i \in 1 .. N : e.rows[i] = moved(i)
  BY <1>4 DEF IsSeq
<1>8. IsSchema(e, n)
  BY <1>1, <1>2, <1>5, <1>7 DEF IsSchema
<1>9. \A i \in 1 .. N : RowTold(W, n, e, e.rows[i])
  BY <1>6, <1>7 DEF RowTold
<1>10. Good(W, n, e)
  BY <1>1, <1>2, <1>7, <1>8, <1>9, GoodIs
<1> QED BY <1>3, <1>6, <1>7, <1>10 DEF e

(* A set with at most one member. *)
LEMMA AtMostOne ==
  ASSUME NEW S \in SUBSET (1 .. 3), Cardinality(S) <= 1, NEW a \in S, NEW b \in S
  PROVE  a = b
<1> SUFFICES ASSUME a # b PROVE FALSE
  OBVIOUS
<1>1. IsFiniteSet(1 .. 3)
  <2>1. PICK one \in Int, three \in Int : one = 1 /\ three = 3
    OBVIOUS
  <2>2. IsFiniteSet(one .. three)
    BY FS_Interval
  <2> QED BY <2>1, <2>2
<1>2. IsFiniteSet(S)
  BY <1>1, FS_Subset
<1>3. IsFiniteSet({a}) /\ Cardinality({a}) = 1
  BY FS_Singleton
<1>4. IsFiniteSet({a} \cup {b}) /\ Cardinality({a} \cup {b}) = Cardinality({a}) + 1
  BY <1>3, FS_AddElement
<1>5. {a} \cup {b} \subseteq S
  OBVIOUS
<1>6. Cardinality({a} \cup {b}) <= Cardinality(S)
  BY <1>2, <1>5, FS_Subset
<1>7. Cardinality(S) \in Nat
  BY <1>2, FS_CardinalityType
<1> QED BY <1>3, <1>4, <1>6, <1>7

(* merge: rows gathered from both sides, beside the plan's own. *)
LEMMA MergeGood ==
  ASSUME NEW n \in Nat, NEW W \in Worlds(n), NEW l, Good(W, n, l), NEW r, Good(W, n, r),
         NEW p, Good(W, n, p), Merges(l, r, p)
  PROVE  Good(W, n, Merge(l, r, p))
<1> DEFINE e == Merge(l, r, p)
           fib == IF p.fib # Null THEN p.fib ELSE IF l.fib # Null THEN l.fib ELSE r.fib
           side(i) == Beside(p.rows[i].lbl, Gathered(l, p, "left_index", i),
                                            Gathered(r, p, "right_index", i))
           moved(i) == Beside(p.rows[i].lbl, p.rows[i], side(i))
<1>1. /\ p = [id |-> p.id, ix |-> p.ix, col |-> p.col, fib |-> p.fib, rows |-> p.rows]
      /\ p.id \in 1 .. n /\ IsSchema(p, n) /\ IsFib(p.fib, n) /\ IsSeq(p.rows)
      /\ \A i \in 1 .. Len(p.rows) : RowTold(W, n, p, p.rows[i])
  BY GoodIs
<1>2. IsSchema(l, n) /\ IsFib(l.fib, n) /\ IsSchema(r, n) /\ IsFib(r.fib, n)
  BY GoodIs
<1>3. PICK N \in Nat : N = Len(p.rows) /\ DOMAIN p.rows = 1 .. N
  BY <1>1 DEF IsSeq
<1>4. PICK inner : inner = BesideColumns(l, r)
  OBVIOUS
<1>5. PICK col : col = BesideColumns(p, PlanDataset(0, "", inner, <<>>))
  OBVIOUS
<1>6. e = [id |-> p.id, ix |-> p.ix, col |-> col, fib |-> fib,
           rows |-> [i \in 1 .. N |-> moved(i)]]
  <2> DEFINE t == [i \in DOMAIN p.rows |-> moved(i)]
  <2>1. e = [p EXCEPT !.col = col, !.fib = fib, !.rows = t]
    BY <1>4, <1>5 DEF Merge
  <2>2. t = [i \in 1 .. N |-> moved(i)]
    <3> HIDE DEF moved
    <3> QED BY <1>3
  <2> HIDE DEF e, t, fib
  <2>3. e = [id |-> p.id, ix |-> p.ix, col |-> col, fib |-> fib, rows |-> t]
    BY <1>1, <2>1
  <2> QED BY <2>2, <2>3
<1>7. inner = [g \in FieldNames |-> IF l.col[g].type # "none" THEN l.col[g] ELSE r.col[g]]
  BY <1>4 DEF BesideColumns, Has
<1>8. col = [g \in FieldNames |-> IF p.col[g].type # "none" THEN p.col[g] ELSE inner[g]]
  <2>1. PICK b : b = PlanDataset(0, "", inner, <<>>)
    OBVIOUS
  <2>2. b.col = [g \in FieldNames |-> IF g \in DOMAIN inner THEN inner[g] ELSE NoColumn]
    BY <2>1 DEF PlanDataset
  <2>3. \A g \in FieldNames : b.col[g] = inner[g]
    BY <1>7, <2>2
  <2>4. col = [g \in FieldNames |-> IF p.col[g].type # "none" THEN p.col[g] ELSE b.col[g]]
    BY <1>5, <2>1 DEF BesideColumns, Has
  <2> QED BY <2>3, <2>4
<1>9. /\ l.col \in ColumnsOver(n) /\ r.col \in ColumnsOver(n) /\ p.col \in ColumnsOver(n)
      /\ p.ix \in FieldNames /\ p.col[p.ix].type = "none"
  BY <1>1, <1>2 DEF IsSchema
<1>10. /\ \A g \in FieldNames : l.col[g].type = "none" \/ r.col[g].type = "none"
       /\ \A g \in FieldNames : p.col[g].type = "none" \/ inner[g].type = "none"
       /\ inner[p.ix].type = "none"
  <2>1. /\ Columns(l) \cap Columns(r) = {}
        /\ (Columns(l) \cup Columns(r)) \cap (Columns(p) \cup {p.ix}) = {}
    BY DEF Merges
  <2> QED BY <1>7, <1>9, <2>1 DEF Columns, Has
<1>11. inner \in ColumnsOver(n)
  BY <1>7, <1>9 DEF ColumnsOver
<1>12. col \in ColumnsOver(n) /\ col[p.ix].type = "none"
  <2>1. col \in ColumnsOver(n)
    BY <1>8, <1>9, <1>11 DEF ColumnsOver
  <2> QED BY <1>8, <1>9, <1>10, <2>1
<1>13. /\ p.col["left_index"] = ForeignIndex(l.id) /\ LabelsFound(l, p, "left_index")
       /\ p.col["right_index"] = ForeignIndex(r.id) /\ LabelsFound(r, p, "right_index")
       /\ "left_index" \in FieldNames /\ "right_index" \in FieldNames
  BY DEF Merges, FieldNames
<1>14. /\ l.fib # Null => r.fib = Null /\ p.fib = Null
       /\ r.fib # Null => l.fib = Null /\ p.fib = Null
  <2>1. PICK S \in SUBSET (1 .. 3) : S = {k \in 1 .. 3 : <<l, r, p>>[k].fib # Null}
    OBVIOUS
  <2>2. Cardinality(S) <= 1
    BY <2>1 DEF Merges
  <2>3. /\ l.fib # Null => 1 \in S
        /\ r.fib # Null => 2 \in S
        /\ p.fib # Null => 3 \in S
    BY <2>1
  <2>4. \A a, b \in S : a = b
    BY <2>2, AtMostOne
  <2> QED BY <2>3, <2>4
<1>15. ASSUME NEW i \in 1 .. N
       PROVE  /\ moved(i).lbl = p.rows[i].lbl /\ p.rows[i].lbl \in Labels
              /\ Tells(W, n, col, W[p.id][p.rows[i].lbl], moved(i))
              /\ FiberTold(W, n, fib, moved(i).fiber)
  <2>1. PICK q : q = p.rows[i]
    OBVIOUS
  <2>2. PICK x : x = W[p.id][q.lbl]
    OBVIOUS
  <2>3. q.lbl \in Labels /\ Tells(W, n, p.col, x, q) /\ FiberTold(W, n, p.fib, q.fiber)
    BY <1>1, <1>3, <2>1, <2>2 DEF RowTold
  <2>4. PICK f1 \in FieldNames, f2 \in FieldNames : f1 = "left_index" /\ f2 = "right_index"
    BY <1>13
  <2>5. PICK g1, g2 : g1 = Gathered(l, p, f1, i) /\ g2 = Gathered(r, p, f2, i)
    OBVIOUS
  <2>6. Tells(W, n, l.col, x, g1) /\ FiberTold(W, n, l.fib, g1.fiber)
    BY <1>3, <1>13, <2>1, <2>2, <2>4, <2>5, GatheredTells
  <2>7. Tells(W, n, r.col, x, g2) /\ FiberTold(W, n, r.fib, g2.fiber)
    BY <1>3, <1>13, <2>1, <2>2, <2>4, <2>5, GatheredTells
  <2>8. PICK t : t = Beside(q.lbl, g1, g2)
    OBVIOUS
  <2>9. /\ Tells(W, n, inner, x, t)
        /\ t.fiber = (IF g1.fiber # Null THEN g1.fiber ELSE g2.fiber)
    BY <1>7, <1>9, <1>10, <2>6, <2>7, <2>8, BesideTells
  <2>10. PICK m : m = Beside(q.lbl, q, t)
    OBVIOUS
  <2>11. /\ Tells(W, n, col, x, m) /\ m.lbl = q.lbl
         /\ m.fiber = (IF q.fiber # Null THEN q.fiber ELSE t.fiber)
    BY <1>8, <1>9, <1>10, <1>11, <2>3, <2>9, <2>10, BesideTells
  <2>12. FiberTold(W, n, fib, m.fiber)
    BY <1>14, <2>3, <2>6, <2>7, <2>9, <2>11 DEF FiberTold
  <2>13. moved(i) = m
    BY <2>1, <2>4, <2>5, <2>8, <2>10
  <2> HIDE DEF moved, fib
  <2> QED BY <2>1, <2>2, <2>3, <2>11, <2>12, <2>13
<1>16. IsFib(fib, n)
  BY <1>1, <1>2
<1> HIDE DEF e, moved, fib
<1>17. /\ e = [id |-> e.id, ix |-> e.ix, col |-> e.col, fib |-> e.fib, rows |-> e.rows]
       /\ e.id = p.id /\ e.ix = p.ix /\ e.col = col /\ e.fib = fib
       /\ Len(e.rows) = N /\ IsSeq(e.rows) /\ \A i \in 1 .. N : e.rows[i] = moved(i)
  BY <1>6 DEF IsSeq
<1>18. IsSchema(e, n)
  BY <1>9, <1>12, <1>17 DEF IsSchema
<1>19. \A i \in 1 .. N : RowTold(W, n, e, e.rows[i])
  BY <1>15, <1>17 DEF RowTold
<1>20. Good(W, n, e)
  BY <1>1, <1>16, <1>17, <1>18, <1>19, GoodIs
<1> QED BY <1>20 DEF e

-----------------------------------------------------------------------------
(* Grouping.                                                               *)

(* Each key appears first once, and every key does. *)
LEMMA FirstOnce ==
  ASSUME NEW keys, IsSeq(keys)
  PROVE  /\ IsSeq(FirstAppearances(keys))
         /\ \A a \in 1 .. Len(FirstAppearances(keys)) :
               \E i \in 1 .. Len(keys) : FirstAppearances(keys)[a] = keys[i]
         /\ \A i \in 1 .. Len(keys) :
               \E a \in 1 .. Len(FirstAppearances(keys)) : FirstAppearances(keys)[a] = keys[i]
         /\ \A a, b \in 1 .. Len(FirstAppearances(keys)) :
               FirstAppearances(keys)[a] = FirstAppearances(keys)[b] => a = b
<1>1. PICK N \in Nat : N = Len(keys) /\ DOMAIN keys = 1 .. N
  BY DEF IsSeq
<1>2. PICK P : P = {i \in 1 .. N : \A j \in 1 .. i - 1 : keys[j] # keys[i]}
  OBVIOUS
<1>3. PICK c : c = FirstAppearances(keys)
  OBVIOUS
<1>4. c = Chosen(keys, P)
  BY <1>1, <1>2, <1>3 DEF FirstAppearances
<1>5. PICK k : Enumerates(k, P, N) /\ c = [a \in 1 .. Len(k) |-> keys[k[a]]]
  BY <1>1, <1>4, ChosenPicks DEF Picks
<1>6. PICK K \in Nat : K = Len(k)
  BY <1>5 DEF Enumerates
<1>7. /\ \A a \in 1 .. K : k[a] \in 1 .. N /\ k[a] \in P
      /\ \A a, b \in 1 .. K : a < b => k[a] < k[b]
      /\ \A i \in 1 .. N : i \in P => \E a \in 1 .. K : k[a] = i
  BY <1>5, <1>6 DEF Enumerates
<1>8. c = [a \in 1 .. K |-> keys[k[a]]]
  BY <1>5, <1>6
<1>9. Len(c) = K /\ IsSeq(c) /\ \A a \in 1 .. K : c[a] = keys[k[a]]
  BY <1>8 DEF IsSeq
<1>10. ASSUME NEW i \in 1 .. N
       PROVE  \E a \in 1 .. K : c[a] = keys[i]
  <2> DEFINE T == {j \in 1 .. N : keys[j] = keys[i]}
  <2>1. T \in SUBSET Nat /\ \A j : j \in T <=> j \in 1 .. N /\ keys[j] = keys[i]
    OBVIOUS
  <2>2. i \in T
    OBVIOUS
  <2> HIDE DEF T
  <2>3. PICK m \in T : \A j \in T : m <= j
    BY <2>1, <2>2, LeastNatural
  <2>4. \A j \in 1 .. m - 1 : j \in 1 .. N /\ ~ m <= j
    BY <2>1
  <2>5. \A j \in 1 .. m - 1 : keys[j] # keys[m]
    BY <2>1, <2>3, <2>4
  <2>6. m \in P
    BY <1>2, <2>1, <2>5
  <2>7. PICK a \in 1 .. K : k[a] = m
    BY <1>7, <2>1, <2>6
  <2> QED BY <1>9, <2>1, <2>7
<1>11. ASSUME NEW a \in 1 .. K, NEW b \in 1 .. K, a < b
       PROVE  c[a] # c[b]
  <2>1. k[a] \in 1 .. k[b] - 1 /\ k[b] \in P
    BY <1>7, <1>11
  <2>2. keys[k[a]] # keys[k[b]]
    BY <1>2, <2>1
  <2> QED BY <1>9, <2>2
<1>12. \A a, b \in 1 .. K : c[a] = c[b] => a = b
  <2>1. \A a, b \in 1 .. K : a < b \/ b < a \/ a = b
    OBVIOUS
  <2> QED BY <1>11, <2>1
<1> QED BY <1>1, <1>3, <1>7, <1>9, <1>10, <1>12

(* The rows that have a key, the labels of the groups, and the rows of one.*)
Kept(d, f) == Chosen(d.rows, {i \in DOMAIN d.rows : d.rows[i].cell[f] # Null})

GroupLabels(d, f, domain) ==
    IF domain = Null
    THEN FirstAppearances([i \in DOMAIN Kept(d, f) |-> Kept(d, f)[i].cell[f]])
    ELSE [i \in DOMAIN domain.rows |-> domain.rows[i].lbl]

Group(d, f, label) ==
    Chosen(Kept(d, f), {m \in DOMAIN Kept(d, f) : Kept(d, f)[m].cell[f] = label})

(* Kept rows are the rows with a key. *)
LEMMA KeptAre ==
  ASSUME NEW d, IsSeq(d.rows), NEW f
  PROVE  /\ IsSeq(Kept(d, f))
         /\ \A m \in 1 .. Len(Kept(d, f)) :
               \E i \in 1 .. Len(d.rows) : Kept(d, f)[m] = d.rows[i] /\ d.rows[i].cell[f] # Null
         /\ \A i \in 1 .. Len(d.rows) : d.rows[i].cell[f] # Null =>
               \E m \in 1 .. Len(Kept(d, f)) : Kept(d, f)[m] = d.rows[i]
         /\ Differ(d.rows) => Differ(Kept(d, f))
<1>1. PICK s : s = d.rows
  OBVIOUS
<1>2. PICK N \in Nat : N = Len(s) /\ DOMAIN s = 1 .. N /\ IsSeq(s)
  BY <1>1 DEF IsSeq
<1>3. PICK P : P = {i \in 1 .. N : s[i].cell[f] # Null}
  OBVIOUS
<1>4. Kept(d, f) = Chosen(s, P)
  BY <1>1, <1>2, <1>3 DEF Kept
<1>5. \A i \in 1 .. N : i \in P <=> s[i].cell[f] # Null
  BY <1>3
<1>6. PICK c : c = Chosen(s, P)
  OBVIOUS
<1>7. /\ IsSeq(c) /\ (Differ(s) => Differ(c))
      /\ \A a \in 1 .. Len(c) : \E i \in 1 .. Len(s) : i \in P /\ c[a] = s[i]
      /\ \A i \in 1 .. Len(s) : i \in P => \E a \in 1 .. Len(c) : c[a] = s[i]
  <2>1. IsSeq(s)
    BY <1>2
  <2>2. /\ IsSeq(Chosen(s, P))
        /\ \A a \in 1 .. Len(Chosen(s, P)) :
              \E i \in 1 .. Len(s) : i \in P /\ Chosen(s, P)[a] = s[i]
        /\ \A i \in 1 .. Len(s) : i \in P =>
              \E a \in 1 .. Len(Chosen(s, P)) : Chosen(s, P)[a] = s[i]
        /\ Differ(s) => Differ(Chosen(s, P))
    BY <2>1, ChosenRows, Zenon
  <2> QED BY <1>6, <2>2, Zenon
<1>8. ASSUME NEW a \in 1 .. Len(c)
      PROVE  \E i \in 1 .. N : c[a] = s[i] /\ s[i].cell[f] # Null
  <2>1. PICK i \in 1 .. N : i \in P /\ c[a] = s[i]
    BY <1>2, <1>7, Zenon
  <2> QED BY <1>5, <2>1, Zenon
<1>9. \A i \in 1 .. N : s[i].cell[f] # Null => \E a \in 1 .. Len(c) : c[a] = s[i]
  BY <1>2, <1>5, <1>7, Zenon
<1>10. Kept(d, f) = c
  BY <1>4, <1>6
<1>11. \A m \in 1 .. Len(Kept(d, f)) :
          \E i \in 1 .. Len(d.rows) : Kept(d, f)[m] = d.rows[i] /\ d.rows[i].cell[f] # Null
  BY <1>1, <1>2, <1>8, <1>10
<1>12. \A i \in 1 .. Len(d.rows) : d.rows[i].cell[f] # Null =>
          \E m \in 1 .. Len(Kept(d, f)) : Kept(d, f)[m] = d.rows[i]
  BY <1>1, <1>2, <1>9, <1>10
<1> QED BY <1>1, <1>7, <1>10, <1>11, <1>12, Zenon

(* A group is the kept rows whose key is its label. *)
LEMMA GroupIs ==
  ASSUME NEW d, IsSeq(d.rows), NEW f, NEW label
  PROVE  /\ IsSeq(Group(d, f, label))
         /\ \A a \in 1 .. Len(Group(d, f, label)) :
               \E m \in 1 .. Len(Kept(d, f)) : /\ Group(d, f, label)[a] = Kept(d, f)[m]
                                               /\ Kept(d, f)[m].cell[f] = label
         /\ \A m \in 1 .. Len(Kept(d, f)) : Kept(d, f)[m].cell[f] = label =>
               \E a \in 1 .. Len(Group(d, f, label)) : Group(d, f, label)[a] = Kept(d, f)[m]
         /\ Differ(d.rows) => Differ(Group(d, f, label))
<1>1. PICK s : s = Kept(d, f)
  OBVIOUS
<1>2. IsSeq(s) /\ (Differ(d.rows) => Differ(s))
  BY <1>1, KeptAre
<1>3. PICK N \in Nat : N = Len(s) /\ DOMAIN s = 1 .. N
  BY <1>2 DEF IsSeq
<1>4. PICK P : P = {m \in 1 .. N : s[m].cell[f] = label}
  OBVIOUS
<1>5. Group(d, f, label) = Chosen(s, P)
  BY <1>1, <1>3, <1>4 DEF Group
<1>6. \A m \in 1 .. N : m \in P <=> s[m].cell[f] = label
  BY <1>4
<1> QED BY <1>1, <1>2, <1>3, <1>5, <1>6, ChosenRows, SMTT(40)

(* Groups are labelled by the keys found, or by the labels of the domain. *)
LEMMA GroupLabelsAre ==
  ASSUME NEW d, IsSeq(d.rows), NEW f, NEW domain, domain # Null => IsSeq(domain.rows)
  PROVE  /\ IsSeq(GroupLabels(d, f, domain))
         /\ domain = Null =>
              /\ \A a \in 1 .. Len(GroupLabels(d, f, domain)) :
                   \E m \in 1 .. Len(Kept(d, f)) :
                      GroupLabels(d, f, domain)[a] = Kept(d, f)[m].cell[f]
              /\ \A m \in 1 .. Len(Kept(d, f)) :
                   \E a \in 1 .. Len(GroupLabels(d, f, domain)) :
                      GroupLabels(d, f, domain)[a] = Kept(d, f)[m].cell[f]
              /\ \A a, b \in 1 .. Len(GroupLabels(d, f, domain)) :
                   GroupLabels(d, f, domain)[a] = GroupLabels(d, f, domain)[b] => a = b
         /\ domain # Null =>
              /\ Len(GroupLabels(d, f, domain)) = Len(domain.rows)
              /\ \A a \in 1 .. Len(domain.rows) :
                   GroupLabels(d, f, domain)[a] = domain.rows[a].lbl
<1>1. PICK labels : labels = GroupLabels(d, f, domain)
  OBVIOUS
<1>2. CASE domain = Null
  <2>1. PICK s : s = Kept(d, f)
    OBVIOUS
  <2>2. IsSeq(s)
    BY <2>1, KeptAre
  <2>3. PICK N \in Nat : N = Len(s) /\ DOMAIN s = 1 .. N
    BY <2>2 DEF IsSeq
  <2>4. PICK keys : keys = [i \in 1 .. N |-> s[i].cell[f]]
    OBVIOUS
  <2>5. labels = FirstAppearances(keys)
    BY <1>1, <1>2, <2>1, <2>3, <2>4 DEF GroupLabels
  <2>6. Len(keys) = N /\ IsSeq(keys) /\ \A i \in 1 .. N : keys[i] = s[i].cell[f]
    BY <2>4 DEF IsSeq
  <2>7. PICK w : w = keys
    OBVIOUS
  <2>8. /\ IsSeq(labels)
        /\ \A a \in 1 .. Len(labels) : \E i \in 1 .. Len(w) : labels[a] = w[i]
        /\ \A i \in 1 .. Len(w) : \E a \in 1 .. Len(labels) : labels[a] = w[i]
        /\ \A a, b \in 1 .. Len(labels) : labels[a] = labels[b] => a = b
    BY <2>5, <2>6, <2>7, FirstOnce
  <2>9. /\ \A a \in 1 .. Len(labels) : \E i \in 1 .. N : labels[a] = s[i].cell[f]
        /\ \A i \in 1 .. N : \E a \in 1 .. Len(labels) : labels[a] = s[i].cell[f]
    <3>1. Len(w) = N /\ \A i \in 1 .. N : w[i] = s[i].cell[f]
      BY <2>6, <2>7
    <3>2. ASSUME NEW i \in 1 .. N
          PROVE  \E a \in 1 .. Len(labels) : labels[a] = s[i].cell[f]
      <4>1. w[i] = s[i].cell[f] /\ i \in 1 .. Len(w)
        BY <3>1
      <4>2. PICK a \in 1 .. Len(labels) : labels[a] = w[i]
        BY <2>8, <4>1, Zenon
      <4> QED BY <4>1, <4>2
    <3>3. ASSUME NEW a \in 1 .. Len(labels)
          PROVE  \E i \in 1 .. N : labels[a] = s[i].cell[f]
      <4>1. PICK i \in 1 .. N : labels[a] = w[i]
        BY <2>8, <3>1, Zenon
      <4> QED BY <3>1, <4>1, Zenon
    <3> QED BY <3>2, <3>3
  <2> QED BY <1>1, <1>2, <2>1, <2>3, <2>8, <2>9
<1>3. CASE domain # Null
  <2>1. PICK s : s = domain.rows
    OBVIOUS
  <2>2. PICK N \in Nat : N = Len(s) /\ DOMAIN s = 1 .. N
    BY <1>3, <2>1 DEF IsSeq
  <2>3. labels = [i \in 1 .. N |-> s[i].lbl]
    BY <1>1, <1>3, <2>1, <2>2 DEF GroupLabels
  <2>4. IsSeq(labels) /\ Len(labels) = N /\ \A i \in 1 .. N : labels[i] = s[i].lbl
    BY <2>3 DEF IsSeq
  <2> QED BY <1>1, <1>3, <2>1, <2>2, <2>4
<1> QED BY <1>2, <1>3

(* partition: one row per label, with the rows of its group. *)
LEMMA PartitionIs ==
  ASSUME NEW d, IsSeq(d.rows), NEW f, NEW domain, domain # Null => IsSeq(domain.rows),
         d = [id |-> d.id, ix |-> d.ix, col |-> d.col, fib |-> d.fib, rows |-> d.rows],
         NEW fresh, NEW b, b = Partition(d, f, domain, fresh)
  PROVE  /\ b = [id |-> b.id, ix |-> b.ix, col |-> b.col, fib |-> b.fib, rows |-> b.rows]
         /\ b.id = IF d.col[f].type = "foreign" THEN d.col[f].of ELSE fresh
         /\ b.ix = IF domain = Null THEN f ELSE domain.ix
         /\ b.col = NoColumns /\ b.fib = Header(d)
         /\ IsSeq(b.rows) /\ Len(b.rows) = Len(GroupLabels(d, f, domain))
         /\ \A i \in 1 .. Len(b.rows) :
               b.rows[i] = Row(GroupLabels(d, f, domain)[i], {}, NoCells,
                               Group(d, f, GroupLabels(d, f, domain)[i]))
         /\ Keyed(d, f).rows = Kept(d, f)
<1>1. PICK labels : labels = GroupLabels(d, f, domain)
  OBVIOUS
<1>2. PICK kept : kept = Kept(d, f)
  OBVIOUS
<1>3. Keyed(d, f).rows = kept
  <2>1. Keyed(d, f) = [id |-> d.id, ix |-> d.ix, col |-> d.col, fib |-> d.fib, rows |-> kept]
    BY <1>2 DEF Keyed, Kept
  <2> QED BY <2>1
<1>4. labels = IF domain = Null
               THEN FirstAppearances([i \in DOMAIN kept |-> kept[i].cell[f]])
               ELSE [i \in DOMAIN domain.rows |-> domain.rows[i].lbl]
  BY <1>1, <1>2 DEF GroupLabels
<1>5. \A label : Group(d, f, label) = Chosen(kept, {m \in DOMAIN kept : kept[m].cell[f] = label})
  BY <1>2 DEF Group
<1>6. b = [id |-> IF d.col[f].type = "foreign" THEN d.col[f].of ELSE fresh,
           ix |-> IF domain = Null THEN f ELSE domain.ix,
           col |-> NoColumns, fib |-> Header(d),
           rows |-> [i \in DOMAIN labels |->
               Row(labels[i], {}, NoCells,
                   Chosen(kept, {m \in DOMAIN kept : kept[m].cell[f] = labels[i]}))]]
  BY <1>3, <1>4 DEF Partition
<1>7. PICK N \in Nat : N = Len(labels) /\ DOMAIN labels = 1 .. N
  <2>1. IsSeq(labels)
    BY <1>1, GroupLabelsAre
  <2> QED BY <2>1 DEF IsSeq
<1> DEFINE t == [i \in 1 .. N |-> Row(labels[i], {}, NoCells, Group(d, f, labels[i]))]
<1>8. b = [id |-> IF d.col[f].type = "foreign" THEN d.col[f].of ELSE fresh,
           ix |-> IF domain = Null THEN f ELSE domain.ix,
           col |-> NoColumns, fib |-> Header(d), rows |-> t]
  <2>1. t = [i \in DOMAIN labels |->
               Row(labels[i], {}, NoCells,
                   Chosen(kept, {m \in DOMAIN kept : kept[m].cell[f] = labels[i]}))]
    BY <1>5, <1>7
  <2> HIDE DEF t
  <2> QED BY <1>6, <2>1
<1>9. IsSeq(t) /\ Len(t) = N
      /\ \A i \in 1 .. N : t[i] = Row(labels[i], {}, NoCells, Group(d, f, labels[i]))
  BY DEF IsSeq
<1> HIDE DEF t
<1> QED BY <1>1, <1>2, <1>3, <1>7, <1>8, <1>9

(* The schema of a dataset is not the absent fiber. *)
LEMMA HeaderIsNotNull ==
  ASSUME NEW n \in Nat, NEW d, d.id \in 1 .. n, IsSchema(d, n)
  PROVE  /\ Header(d) # Null /\ IsFib(Header(d), n)
         /\ Header(d).id = d.id /\ Header(d).ix = d.ix /\ Header(d).col = d.col
<1>1. PICK h : h = Header(d)
  OBVIOUS
<1>2. h = [id |-> d.id, ix |-> d.ix, col |-> d.col]
  BY <1>1 DEF Header
<1>3. h.id = d.id /\ h.ix = d.ix /\ h.col = d.col /\ h = [id |-> h.id, ix |-> h.ix, col |-> h.col]
  BY <1>2
<1>4. d.ix \in FieldNames /\ d.col \in [FieldNames -> [type : ColumnTypes, of : Nat]]
  BY DEF IsSchema, ColumnsOver
<1>5. h \in [id : Nat, ix : FieldNames, col : [FieldNames -> [type : ColumnTypes, of : Nat]]]
  BY <1>2, <1>4
<1>6. h # Null
  BY <1>5, NullIsApart
<1>7. IsSchema(h, n)
  BY <1>3 DEF IsSchema
<1> QED BY <1>1, <1>3, <1>6, <1>7 DEF IsFib

(* The rows of a group are rows of the dataset, and tell what they told. *)
LEMMA GroupIsTrue ==
  ASSUME NEW n \in Nat, NEW W, NEW d, Good(W, n, d), d.fib = Null, Differ(d.rows),
         NEW f, NEW label
  PROVE  TrueFiber(W, n, Header(d), Group(d, f, label))
<1>1. /\ d.id \in 1 .. n /\ IsSchema(d, n) /\ IsSeq(d.rows)
      /\ \A i \in 1 .. Len(d.rows) : RowTold(W, n, d, d.rows[i])
  BY GoodIs
<1>2. PICK t : t = Group(d, f, label)
  OBVIOUS
<1>3. IsSeq(t) /\ Differ(t)
  BY <1>1, <1>2, GroupIs
<1>4. ASSUME NEW a \in 1 .. Len(t)
      PROVE  RowTold(W, n, d, t[a])
  <2>1. PICK m \in 1 .. Len(Kept(d, f)) : t[a] = Kept(d, f)[m]
    BY <1>1, <1>2, GroupIs
  <2>2. PICK i \in 1 .. Len(d.rows) : Kept(d, f)[m] = d.rows[i]
    BY <1>1, KeptAre
  <2> QED BY <1>1, <2>1, <2>2
<1>5. PICK h : h = Header(d)
  OBVIOUS
<1>6. h.id = d.id /\ h.col = d.col
  BY <1>1, <1>5, HeaderIsNotNull
<1>7. \A a \in 1 .. Len(t) : /\ t[a].lbl \in Labels /\ t[a].fiber = Null
                             /\ Tells(W, n, h.col, W[h.id][t[a].lbl], t[a])
  BY <1>4, <1>6 DEF RowTold, FiberTold
<1> QED BY <1>2, <1>3, <1>5, <1>7 DEF TrueFiber

(* partition: groups are named by the labels of the key, in the namespace  *)
(* the key refers to, or in a fresh one.                                   *)
LEMMA PartitionFits ==
  ASSUME NEW n \in Nat, NEW W \in Worlds(n), NEW d, Good(W, n, d), d.fib = Null,
         Differ(d.rows), NEW f \in FieldNames,
         NEW domain, domain # Null => Good(W, n, domain) /\ d.col[f] = ForeignIndex(domain.id),
         NEW fresh, fresh = n + 1 \/ d.col[f].type = "foreign",
         NEW b, b = Partition(d, f, domain, fresh)
  PROVE  Fits(W, n, b)
<1>1. /\ d = [id |-> d.id, ix |-> d.ix, col |-> d.col, fib |-> d.fib, rows |-> d.rows]
      /\ d.id \in 1 .. n /\ IsSchema(d, n) /\ IsSeq(d.rows)
      /\ \A i \in 1 .. Len(d.rows) : RowTold(W, n, d, d.rows[i])
  BY GoodIs
<1>2. domain # Null => /\ IsSeq(domain.rows) /\ IsSchema(domain, n) /\ domain.id \in 1 .. n
                       /\ \A i \in 1 .. Len(domain.rows) : RowTold(W, n, domain, domain.rows[i])
  BY GoodIs
<1>3. PICK labels : labels = GroupLabels(d, f, domain)
  OBVIOUS
<1>4. /\ b = [id |-> b.id, ix |-> b.ix, col |-> b.col, fib |-> b.fib, rows |-> b.rows]
      /\ b.id = (IF d.col[f].type = "foreign" THEN d.col[f].of ELSE fresh)
      /\ b.ix = (IF domain = Null THEN f ELSE domain.ix)
      /\ b.col = NoColumns /\ b.fib = Header(d)
      /\ IsSeq(b.rows) /\ Len(b.rows) = Len(labels)
      /\ \A i \in 1 .. Len(b.rows) :
            b.rows[i] = Row(labels[i], {}, NoCells, Group(d, f, labels[i]))
  BY <1>1, <1>2, <1>3, PartitionIs
<1>5. PICK N \in Nat : N = Len(b.rows)
  BY <1>4 DEF IsSeq
<1>6. d.col \in ColumnsOver(n) /\ d.col[f].type = "foreign" => d.col[f].of \in 1 .. n
  BY <1>1 DEF IsSchema, ColumnsOver
<1>7. b.id = n + 1 \/ b.id \in 1 .. n
  BY <1>1, <1>4, <1>6 DEF IsSchema
<1>8. ASSUME NEW i \in 1 .. N PROVE labels[i] \in Labels
  <2>1. CASE domain = Null
    <3>1. PICK m \in 1 .. Len(Kept(d, f)) : labels[i] = Kept(d, f)[m].cell[f]
      BY <1>1, <1>3, <1>4, <1>5, <2>1, GroupLabelsAre
    <3>2. PICK j \in 1 .. Len(d.rows) : Kept(d, f)[m] = d.rows[j] /\ d.rows[j].cell[f] # Null
      BY <1>1, KeptAre
    <3>3. d.rows[j].cell \in [FieldNames -> Cells]
      BY <1>1 DEF RowTold, Tells, IsRow
    <3> QED BY <3>1, <3>2, <3>3 DEF Cells
  <2>2. CASE domain # Null
    <3>1. Len(labels) = Len(domain.rows) /\ labels[i] = domain.rows[i].lbl
      BY <1>1, <1>2, <1>3, <1>4, <1>5, <2>2, GroupLabelsAre
    <3> QED BY <1>2, <1>4, <1>5, <2>2, <3>1 DEF RowTold
  <2> QED BY <2>1, <2>2
<1>9. IsSchema(b, n)
  <2>1. NoColumns \in ColumnsOver(n) /\ \A g \in FieldNames : NoColumns[g].type = "none"
    BY DEF NoColumns, NoColumn, ColumnsOver, ColumnTypes
  <2>2. b.ix \in FieldNames
    BY <1>2, <1>4 DEF IsSchema
  <2> QED BY <1>4, <2>1, <2>2 DEF IsSchema
<1>10. b.fib # Null /\ IsFib(b.fib, n)
  BY <1>1, <1>4, HeaderIsNotNull
<1>11. PICK X : X = [i \in 1 .. N |-> IF b.id \in 1 .. n THEN W[b.id][labels[i]]
                                      ELSE W[d.id][labels[i]]]
  OBVIOUS
<1>12. ASSUME NEW i \in 1 .. N
       PROVE  /\ b.rows[i].lbl = labels[i] /\ Tells(W, n, b.col, X[i], b.rows[i])
              /\ FiberTold(W, n, b.fib, b.rows[i].fiber)
  <2>1. PICK g : g = Group(d, f, labels[i])
    OBVIOUS
  <2>2. b.rows[i] = Row(labels[i], {}, NoCells, g)
    BY <1>4, <1>5, <2>1
  <2>3. PICK id \in 1 .. n : X[i] = W[id][labels[i]]
    BY <1>1, <1>11
  <2>4. X[i] \in Contents
    BY <1>8, <2>3, ContentsTyped DEF Cells
  <2>5. PICK x \in Contents : x = X[i]
    BY <2>4
  <2>6. PICK col \in ColumnsOver(n) : col = b.col
    BY <1>9 DEF IsSchema
  <2>7. PICK label : label = labels[i]
    OBVIOUS
  <2>8. /\ Tells(W, n, col, x, Row(label, {}, NoCells, g))
        /\ Row(label, {}, NoCells, g).lbl = label
        /\ Row(label, {}, NoCells, g).fiber = g
    BY BareRowTells
  <2>9. TrueFiber(W, n, b.fib, g)
    BY <1>4, <2>1, GroupIsTrue
  <2> QED BY <1>10, <2>2, <2>5, <2>6, <2>7, <2>8, <2>9 DEF FiberTold
<1>13. Told(W, n, b, X)
  BY <1>4, <1>5, <1>8, <1>9, <1>10, <1>12 DEF Told
<1>14. b.id \in 1 .. n => \A i \in 1 .. Len(b.rows) : X[i] = W[b.id][b.rows[i].lbl]
  BY <1>5, <1>11, <1>12
<1> QED BY <1>7, <1>13, <1>14 DEF Fits

(* The rows of every fiber that is there. *)
FiberRows(b) ==
    UNION {{b.rows[i].fiber[j] : j \in 1 .. Len(b.rows[i].fiber)} :
              i \in {k \in 1 .. Len(b.rows) : b.rows[k].fiber # Null}}

(* The table a flatten gives: the rows of the fibers that are there, in order. *)
Appended(b, e) ==
    /\ e = [id |-> e.id, ix |-> e.ix, col |-> e.col, fib |-> e.fib, rows |-> e.rows]
    /\ e.id = b.fib.id /\ e.ix = b.fib.ix /\ e.col = b.fib.col /\ e.fib = Null
    /\ \E cells : \E seqs \in Seq(Seq(FiberRows(b))) :
         /\ IsSeq(cells) /\ (Differ(b.rows) => Differ(cells))
         /\ \A a \in 1 .. Len(cells) :
               \E i \in 1 .. Len(b.rows) : cells[a] = b.rows[i] /\ b.rows[i].fiber # Null
         /\ \A i \in 1 .. Len(b.rows) : b.rows[i].fiber # Null =>
               \E a \in 1 .. Len(cells) : cells[a] = b.rows[i]
         /\ Len(seqs) = Len(cells) /\ \A a \in 1 .. Len(cells) : seqs[a] = cells[a].fiber
         /\ e.rows = FlattenSeq(seqs)

(* flatten appends the fibers that are there. *)
LEMMA FlattenIs ==
  ASSUME NEW b, IsSeq(b.rows),
         \A i \in 1 .. Len(b.rows) : b.rows[i].fiber # Null => IsSeq(b.rows[i].fiber),
         NEW e, e = Flatten(b)
  PROVE  Appended(b, e)
<1>1. PICK s : s = b.rows
  OBVIOUS
<1>2. PICK N \in Nat : N = Len(s) /\ DOMAIN s = 1 .. N /\ IsSeq(s)
  BY <1>1 DEF IsSeq
<1>3. PICK P : P = {i \in 1 .. N : s[i].fiber # Null}
  OBVIOUS
<1>4. \A i \in 1 .. N : i \in P <=> s[i].fiber # Null
  BY <1>3
<1>5. PICK cells : cells = Chosen(s, P)
  OBVIOUS
<1>6. /\ IsSeq(Chosen(s, P))
      /\ \A a \in 1 .. Len(Chosen(s, P)) :
            \E i \in 1 .. Len(s) : i \in P /\ Chosen(s, P)[a] = s[i]
      /\ \A i \in 1 .. Len(s) : i \in P =>
            \E a \in 1 .. Len(Chosen(s, P)) : Chosen(s, P)[a] = s[i]
      /\ Differ(s) => Differ(Chosen(s, P))
  BY <1>2, ChosenRows, Zenon
<1>7. /\ IsSeq(cells) /\ (Differ(s) => Differ(cells))
      /\ \A a \in 1 .. Len(cells) : \E i \in 1 .. Len(s) : i \in P /\ cells[a] = s[i]
      /\ \A i \in 1 .. Len(s) : i \in P => \E a \in 1 .. Len(cells) : cells[a] = s[i]
  BY <1>5, <1>6, Zenon
<1>8. PICK M \in Nat : M = Len(cells) /\ DOMAIN cells = 1 .. M
  BY <1>7 DEF IsSeq
<1>9. PICK seqs : seqs = [a \in 1 .. M |-> cells[a].fiber]
  OBVIOUS
<1>10. /\ e = [id |-> b.fib.id, ix |-> b.fib.ix, col |-> b.fib.col, fib |-> Null,
               rows |-> FlattenSeq(seqs)]
  <2>1. cells = Chosen(b.rows, {i \in DOMAIN b.rows : b.rows[i].fiber # Null})
    BY <1>1, <1>2, <1>3, <1>5
  <2>2. seqs = [i \in DOMAIN cells |-> cells[i].fiber]
    BY <1>8, <1>9
  <2> QED BY <2>1, <2>2 DEF Flatten, Fiber
<1>11. /\ e = [id |-> e.id, ix |-> e.ix, col |-> e.col, fib |-> e.fib, rows |-> e.rows]
       /\ e.id = b.fib.id /\ e.ix = b.fib.ix /\ e.col = b.fib.col /\ e.fib = Null
       /\ e.rows = FlattenSeq(seqs)
  BY <1>10
<1>12. PICK S : S = FiberRows(b)
  OBVIOUS
<1>13. ASSUME NEW a \in 1 .. M
       PROVE  cells[a].fiber \in Seq(S)
  <2>1. PICK i \in 1 .. N : i \in P /\ cells[a] = s[i]
    BY <1>2, <1>7, <1>8, Zenon
  <2>2. PICK t : t = s[i].fiber
    OBVIOUS
  <2>3. s[i].fiber # Null /\ IsSeq(t)
    BY <1>1, <1>2, <1>4, <2>1, <2>2
  <2>4. PICK K \in Nat : K = Len(t) /\ t = [j \in 1 .. K |-> t[j]]
    BY <2>3 DEF IsSeq
  <2>5. ASSUME NEW j \in 1 .. K PROVE t[j] \in S
    <3>1. i \in {k \in 1 .. Len(b.rows) : b.rows[k].fiber # Null} /\ b.rows[i].fiber = t
      BY <1>1, <1>2, <2>2, <2>3
    <3>2. t[j] \in {b.rows[i].fiber[k] : k \in 1 .. Len(b.rows[i].fiber)}
      BY <2>4, <3>1
    <3> QED BY <1>12, <3>1, <3>2, Zenon DEF FiberRows
  <2>6. [j \in 1 .. K |-> t[j]] \in Seq(S)
    BY <2>5
  <2> QED BY <2>1, <2>2, <2>4, <2>6
<1>14. seqs \in Seq(Seq(S)) /\ Len(seqs) = M /\ \A a \in 1 .. M : seqs[a] = cells[a].fiber
  BY <1>9, <1>13
<1>15. ASSUME NEW a \in 1 .. M
       PROVE  \E i \in 1 .. N : cells[a] = s[i] /\ s[i].fiber # Null
  <2>1. PICK i \in 1 .. N : i \in P /\ cells[a] = s[i]
    BY <1>2, <1>7, <1>8, Zenon
  <2> QED BY <1>4, <2>1, Zenon
<1>16. \A i \in 1 .. N : s[i].fiber # Null => \E a \in 1 .. M : cells[a] = s[i]
  BY <1>2, <1>4, <1>7, <1>8, Zenon
<1>17. /\ IsSeq(cells) /\ (Differ(b.rows) => Differ(cells))
       /\ \A a \in 1 .. Len(cells) :
             \E i \in 1 .. Len(b.rows) : cells[a] = b.rows[i] /\ b.rows[i].fiber # Null
       /\ \A i \in 1 .. Len(b.rows) : b.rows[i].fiber # Null =>
             \E a \in 1 .. Len(cells) : cells[a] = b.rows[i]
  BY <1>1, <1>2, <1>7, <1>8, <1>15, <1>16
<1>18. /\ seqs \in Seq(Seq(FiberRows(b)))
       /\ Len(seqs) = Len(cells) /\ \A a \in 1 .. Len(cells) : seqs[a] = cells[a].fiber
  BY <1>8, <1>12, <1>14
<1> QED BY <1>11, <1>17, <1>18 DEF Appended

(* flatten: the rows tell what they told in their fibers. *)
LEMMA FlattenGood ==
  ASSUME NEW n \in Nat, NEW W, NEW b, Good(W, n, b), b.fib # Null
  PROVE  Good(W, n, Flatten(b))
<1>1. /\ IsSeq(b.rows) /\ IsFib(b.fib, n)
      /\ \A i \in 1 .. Len(b.rows) : RowTold(W, n, b, b.rows[i])
  BY GoodIs
<1>2. ASSUME NEW i \in 1 .. Len(b.rows), b.rows[i].fiber # Null
      PROVE  IsSeq(b.rows[i].fiber) /\ TrueFiber(W, n, b.fib, b.rows[i].fiber)
  BY <1>1, <1>2 DEF RowTold, FiberTold, TrueFiber
<1>3. PICK e : e = Flatten(b)
  OBVIOUS
<1>4. PICK S : S = FiberRows(b)
  OBVIOUS
<1>5. /\ e = [id |-> e.id, ix |-> e.ix, col |-> e.col, fib |-> e.fib, rows |-> e.rows]
      /\ e.id = b.fib.id /\ e.ix = b.fib.ix /\ e.col = b.fib.col /\ e.fib = Null
      /\ \E seqs \in Seq(Seq(S)) : e.rows = FlattenSeq(seqs)
  BY <1>1, <1>2, <1>3, <1>4, FlattenIs DEF Appended
<1>6. e.rows \in Seq(S)
  BY <1>5, FlattenTyped
<1>7. PICK N \in Nat : N = Len(e.rows) /\ e.rows = [i \in 1 .. N |-> e.rows[i]]
                       /\ \A i \in 1 .. N : e.rows[i] \in S
  BY <1>6, SMTT(40)
<1>8. ASSUME NEW r \in S
      PROVE  RowTold(W, n, e, r)
  <2>1. PICK i \in 1 .. Len(b.rows) :
           b.rows[i].fiber # Null /\ \E j \in 1 .. Len(b.rows[i].fiber) : r = b.rows[i].fiber[j]
    BY <1>4 DEF FiberRows
  <2>2. PICK t : t = b.rows[i].fiber
    OBVIOUS
  <2>3. PICK j \in 1 .. Len(t) : r = t[j]
    BY <2>1, <2>2
  <2>4. TrueFiber(W, n, b.fib, t)
    BY <1>2, <2>1, <2>2
  <2>5. /\ r.lbl \in Labels /\ r.fiber = Null
        /\ Tells(W, n, b.fib.col, W[b.fib.id][r.lbl], r)
    BY <2>3, <2>4 DEF TrueFiber
  <2> QED BY <1>5, <2>5 DEF RowTold, FiberTold
<1>9. e.id \in 1 .. n /\ IsSchema(e, n) /\ IsFib(e.fib, n)
  BY <1>1, <1>5 DEF IsFib, IsSchema
<1>10. IsSeq(e.rows) /\ \A i \in 1 .. Len(e.rows) : RowTold(W, n, e, e.rows[i])
  BY <1>7, <1>8 DEF IsSeq
<1>11. Good(W, n, e)
  BY <1>5, <1>9, <1>10, GoodIs
<1> QED BY <1>3, <1>11

(* Where labels differ, a label names its own row. *)
LEMMA RowAtOwnLabel ==
  ASSUME NEW d, IsSeq(d.rows), Differ(d.rows), NEW i \in 1 .. Len(d.rows)
  PROVE  RowAt(d, d.rows[i].lbl) = d.rows[i] /\ RowOrEmpty(d, d.rows[i].lbl) = d.rows[i]
<1>1. PICK label : label = d.rows[i].lbl
  OBVIOUS
<1>2. d.rows[i] \in RowSet(d)
  BY RowsAre
<1>3. label \in LabelsOf(d)
  BY <1>1, <1>2 DEF LabelsOf
<1>4. PICK r : r = RowAt(d, label)
  OBVIOUS
<1>5. r.lbl = label /\ \E j \in 1 .. Len(d.rows) : r = d.rows[j]
  BY <1>3, <1>4, RowAtIsARow
<1>6. r = d.rows[i]
  BY <1>1, <1>5 DEF Differ
<1> QED BY <1>1, <1>3, <1>4, <1>6 DEF RowOrEmpty

(* What implode groups: the members a plan names, beside the groups. *)
Tagged(m, p) ==
    ConcatColumns(Explode(m, p, "right_index"), Keep(p, {"left_index", "right_index"}))

(* What implode groups: a row per row of the plan, holding the member row  *)
(* the plan names, tagged with the group it names.                         *)
LEMMA TaggedIs ==
  ASSUME NEW n \in Nat, NEW W \in Worlds(n), NEW m, Good(W, n, m), m.fib = Null,
         NEW p, Good(W, n, p), Differ(p.rows),
         NEW domain, Implodes(m, p, domain), NEW c, c = Tagged(m, p)
  PROVE  /\ Good(W, n, c) /\ c.fib = Null /\ Differ(c.rows) /\ Len(c.rows) = Len(p.rows)
         /\ c.col["left_index"] = p.col["left_index"]
         /\ \A i \in 1 .. Len(p.rows) :
               /\ c.rows[i].lbl = p.rows[i].lbl
               /\ c.rows[i].cell["left_index"] = p.rows[i].cell["left_index"]
               /\ c.rows[i].from = Gathered(m, p, "right_index", i).from
<1>1. PICK left \in FieldNames, right \in FieldNames :
         left = "left_index" /\ right = "right_index"
  BY DEF FieldNames
<1>2. Explodes(m, p, right) /\ {left, right} \cap Columns(m) = {}
  BY <1>1 DEF Implodes
<1>3. PICK x : x = Explode(m, p, right)
  OBVIOUS
<1>4. /\ Good(W, n, x) /\ x.id = p.id /\ x.ix = p.ix /\ x.col = m.col /\ x.fib = Null
      /\ Len(x.rows) = Len(p.rows)
      /\ \A i \in 1 .. Len(p.rows) : /\ x.rows[i].lbl = p.rows[i].lbl
                                     /\ x.rows[i].from = Gathered(m, p, right, i).from
  BY <1>2, <1>3, ExplodeGood
<1>5. PICK K : K = {left, right}
  OBVIOUS
<1>6. PICK k : k = Keep(p, K)
  OBVIOUS
<1>7. /\ Good(W, n, k) /\ k.fib = Null /\ k.id = p.id /\ k.ix = p.ix
      /\ k.col = Narrowed(p.col, K) /\ Len(k.rows) = Len(p.rows)
      /\ \A i \in 1 .. Len(p.rows) : /\ k.rows[i].lbl = p.rows[i].lbl /\ k.rows[i].from = {}
                                     /\ k.rows[i].cell = NarrowedCell(p.rows[i], K)
  BY <1>6, KeepGood
<1>8. c = ConcatColumns(x, k)
  BY <1>1, <1>3, <1>5, <1>6 DEF Tagged
<1>9. \A g \in K : m.col[g].type = "none"
  BY <1>2, <1>5 DEF Columns, Has
<1>10. NoSharedColumn(x.col, k.col)
  BY <1>4, <1>7, <1>9 DEF NoSharedColumn, Narrowed, NoColumn
<1>11. /\ IsSeq(p.rows) /\ IsSeq(x.rows) /\ IsSeq(k.rows)
       /\ \A i \in 1 .. Len(x.rows) : RowTold(W, n, x, x.rows[i])
       /\ \A i \in 1 .. Len(k.rows) : RowTold(W, n, k, k.rows[i])
  BY <1>4, <1>7, GoodIs
<1>12. PICK N \in Nat : N = Len(p.rows)
  BY <1>11 DEF IsSeq
<1>13. Differ(x.rows) /\ Differ(k.rows)
  BY <1>4, <1>7, <1>12 DEF Differ
<1>14. PICK labels : labels = AlignedLabels(x, k)
  OBVIOUS
<1>15. labels = LabelSeq(x)
  <2>1. LabelSeq(x) = LabelSeq(k)
    BY <1>4, <1>7, <1>12 DEF LabelSeq
  <2>2. /\ \A i \in 1 .. Len(x.rows) : x.rows[i].lbl \in Labels
        /\ \A i \in 1 .. Len(k.rows) : k.rows[i].lbl \in Labels
    BY <1>11 DEF RowTold
  <2> QED BY <1>11, <1>14, <2>1, <2>2, AlignedTyped
<1>16. Len(labels) = N /\ \A i \in 1 .. N : labels[i] = p.rows[i].lbl
  BY <1>4, <1>12, <1>15 DEF LabelSeq
<1>17. /\ Good(W, n, c) /\ c.fib = Null /\ Differ(c.rows) /\ c.col = BesideColumns(x, k)
       /\ Len(c.rows) = N
       /\ \A i \in 1 .. N : c.rows[i] = Beside(labels[i], RowOrEmpty(x, labels[i]),
                                                          RowOrEmpty(k, labels[i]))
  BY <1>4, <1>7, <1>8, <1>10, <1>13, <1>14, <1>16, ConcatColumnsGood
<1>18. c.col[left] = p.col[left]
  BY <1>1, <1>4, <1>5, <1>7, <1>9, <1>17 DEF BesideColumns, Has, Narrowed
<1>19. ASSUME NEW i \in 1 .. N
       PROVE  /\ c.rows[i].lbl = p.rows[i].lbl /\ c.rows[i].cell[left] = p.rows[i].cell[left]
              /\ c.rows[i].from = Gathered(m, p, right, i).from
  <2>1. PICK r, s : r = x.rows[i] /\ s = k.rows[i]
    OBVIOUS
  <2>2. RowOrEmpty(x, x.rows[i].lbl) = r /\ RowOrEmpty(k, k.rows[i].lbl) = s
    BY <1>4, <1>7, <1>11, <1>12, <1>13, <2>1, RowAtOwnLabel
  <2>3. x.rows[i].lbl = labels[i] /\ k.rows[i].lbl = labels[i]
    BY <1>4, <1>7, <1>12, <1>16
  <2>4. PICK q : q = c.rows[i]
    OBVIOUS
  <2>5. q = Beside(labels[i], r, s)
    BY <1>17, <2>2, <2>3, <2>4
  <2>6. /\ q.lbl = labels[i] /\ q.from = r.from \cup s.from
        /\ q.cell[left] = IF r.cell[left] # Null THEN r.cell[left] ELSE s.cell[left]
    BY <2>5 DEF Beside
  <2>7. r.cell[left] = Null
    <3>1. Tells(W, n, x.col, W[x.id][r.lbl], r)
      BY <1>4, <1>11, <1>12, <2>1 DEF RowTold
    <3> QED BY <1>4, <1>5, <1>9, <3>1 DEF Tells, IsRow
  <2>8. s.from = {} /\ s.cell[left] = p.rows[i].cell[left]
    BY <1>5, <1>7, <1>12, <2>1 DEF NarrowedCell
  <2> QED BY <1>4, <1>12, <1>16, <2>1, <2>4, <2>6, <2>7, <2>8
<1> QED BY <1>1, <1>12, <1>17, <1>18, <1>19

(* implode: the tagged rows, grouped. *)
LEMMA ImplodeFits ==
  ASSUME NEW n \in Nat, NEW W \in Worlds(n), NEW m, Good(W, n, m), m.fib = Null,
         NEW p, Good(W, n, p), Differ(p.rows),
         NEW domain, domain # Null => Good(W, n, domain), Implodes(m, p, domain)
  PROVE  Fits(W, n, Implode(m, p, domain))
<1>1. PICK c : c = Tagged(m, p)
  OBVIOUS
<1>2. Good(W, n, c) /\ c.fib = Null /\ Differ(c.rows) /\ c.col["left_index"] = p.col["left_index"]
  BY <1>1, TaggedIs
<1>3. PICK left \in FieldNames : left = "left_index"
  BY DEF FieldNames
<1>4. PICK b, fresh : fresh = 0 /\ b = Partition(c, left, domain, fresh)
  OBVIOUS
<1>5. Implode(m, p, domain) = b
  BY <1>1, <1>3, <1>4 DEF Implode, Tagged
<1>6. /\ c.col[left].type = "foreign"
      /\ domain # Null => c.col[left] = ForeignIndex(domain.id)
  BY <1>2, <1>3 DEF Implodes
<1>7. Fits(W, n, b)
  BY <1>2, <1>4, <1>6, PartitionFits
<1> QED BY <1>5, <1>7

-----------------------------------------------------------------------------
(* The invariant: one world, of which every dataset held is true.          *)

(* Labels are unique where, and only where, they differ. *)
LEMMA UniqueMeansDiffer ==
  ASSUME NEW d, IsSeq(d.rows)
  PROVE  UniqueLabels(d) <=> Differ(d.rows)
<1>1. PICK N \in Nat : N = Len(d.rows)
  BY DEF IsSeq
<1>2. PICK S, T : S = 1 .. N /\ T = LabelsOf(d)
  OBVIOUS
<1>3. PICK f : f = [i \in S |-> d.rows[i].lbl]
  OBVIOUS
<1>4. T = {d.rows[i].lbl : i \in 1 .. N}
  BY <1>1, <1>2, RowsAre DEF LabelsOf
<1>5. f \in Surjection(S, T)
  BY <1>2, <1>3, <1>4 DEF Surjection
<1>6. IsFiniteSet(S) /\ Cardinality(S) = N
  <2>1. IsFiniteSet(1 .. N) /\ Cardinality(1 .. N) = N
    <3>1. PICK one \in Int, top \in Int : one = 1 /\ top = N
      OBVIOUS
    <3>2. /\ IsFiniteSet(one .. top)
          /\ Cardinality(one .. top) = IF one > top THEN 0 ELSE top - one + 1
      BY FS_Interval
    <3>3. (IF one > top THEN 0 ELSE top - one + 1) = N
      BY <3>1
    <3> QED BY <3>1, <3>2, <3>3
  <2> QED BY <1>2, <2>1
<1>7. Cardinality(T) = Cardinality(S) <=> f \in Injection(S, T)
  BY <1>5, <1>6, FS_Surjection
<1>8. f \in Injection(S, T) <=> \A i, j \in 1 .. N : d.rows[i].lbl = d.rows[j].lbl => i = j
  BY <1>2, <1>3, <1>4 DEF Injection, IsInjective
<1> QED BY <1>1, <1>2, <1>6, <1>7, <1>8 DEF UniqueLabels, Differ

(* True of a world, one row to a label.                                    *)
True(W, n, d) == Good(W, n, d) /\ Differ(d.rows) /\ Len(d.rows) <= MaxRows

(* One world of which everything held is true.  It is what makes the other *)
(* invariants inductive: that two datasets agree today says nothing of what *)
(* an operator makes of them, that both are true of one world does.        *)
IInv ==
    /\ minted \in 2 .. MaxMinted
    /\ \E W \in Worlds(minted) : \A d \in store : True(W, minted, d)

(* A created dataset is true of a world that holds its rows. *)
LEMMA CreatedIsTrue ==
  ASSUME NEW n \in Nat, NEW W \in Worlds(n), NEW id \in 1 .. n,
         NEW root \in {"members", "groups"},
         NEW columns \in ColumnsOver(n), columns["item_id"].type = "none",
         NEW key \in Seq(Cells), Len(key) <= MaxRows,
         \A i \in 1 .. Len(key) :
            /\ W[id][i - 1].row = <<root, i - 1>>
            /\ key[i] # Null => columns["key"].type = "value" /\ W[id][i - 1].ref["key"] = key[i]
  PROVE  True(W, n, Created(id, root, columns, key))
<1>1. PICK N \in Nat : N = Len(key)
  OBVIOUS
<1>2. PICK e : e = Created(id, root, columns, key)
  OBVIOUS
<1> DEFINE from(i) == {[path |-> <<>>, row |-> <<root, i - 1>>]}
           cell(i) == [NoCells EXCEPT !["key"] = key[i]]
           t == [i \in 1 .. N |-> Row(i - 1, from(i), cell(i), Null)]
<1>3. e = [id |-> id, ix |-> "item_id", col |-> columns, fib |-> Null, rows |-> t]
  <2>1. DOMAIN key = 1 .. N
    BY <1>1
  <2> QED BY <1>2, <2>1 DEF Created
<1>4. IsSeq(t) /\ Len(t) = N /\ \A i \in 1 .. N : t[i] = Row(i - 1, from(i), cell(i), Null)
  <2> HIDE DEF from, cell
  <2> QED BY DEF IsSeq
<1> HIDE DEF t
<1>5. /\ e = [id |-> e.id, ix |-> e.ix, col |-> e.col, fib |-> e.fib, rows |-> e.rows]
      /\ e.id = id /\ e.ix = "item_id" /\ e.col = columns /\ e.fib = Null /\ e.rows = t
  BY <1>3
<1>6. ASSUME NEW i \in 1 .. N
      PROVE  /\ t[i].lbl = i - 1 /\ t[i].lbl \in Labels /\ t[i].fiber = Null
             /\ Tells(W, n, columns, W[id][i - 1], t[i])
  <2>1. PICK label \in Labels : label = i - 1
    BY <1>1, RowPlansAssumption DEF Labels
  <2>2. W[id][label] \in Contents
    BY ContentsTyped DEF Cells
  <2>3. PICK x \in Contents : x = W[id][label]
    BY <2>2
  <2>4. x.row = <<root, label>> /\ label \in Nat
        /\ (key[i] # Null => columns["key"].type = "value" /\ x.ref["key"] = key[i])
    BY <1>1, <2>1, <2>3
  <2>5. from(i) \in SUBSET Histories(n)
    <3>1. <<root, label>> \in RowNames /\ <<>> \in Paths(n)
      BY <2>4 DEF RowNames, Paths
    <3> QED BY <2>1, <3>1 DEF Histories
  <2>6. key[i] \in Cells /\ cell(i) \in [FieldNames -> Cells]
        /\ \A f \in FieldNames : cell(i)[f] = IF f = "key" THEN key[i] ELSE Null
    <3>1. key[i] \in Cells
      BY <1>1
    <3>2. NoCells = [f \in FieldNames |-> Null] /\ Null \in Cells
      BY DEF NoCells, Cells
    <3> QED BY <3>1, <3>2
  <2>7. \A y \in from(i) : y.path = <<>> /\ y.row = x.row
    BY <2>1, <2>4
  <2>8. PICK fr \in SUBSET Histories(n), cl \in [FieldNames -> Cells] : fr = from(i) /\ cl = cell(i)
    BY <2>5, <2>6
  <2> HIDE DEF from, cell
  <2>9. OfItself(fr, x)
    BY <2>7, <2>8 DEF OfItself
  <2>10. ReferLike(x, cl, columns)
    BY <2>4, <2>6, <2>8 DEF ReferLike
  <2>11. PICK fiber : fiber = Null
    OBVIOUS
  <2>12. PICK r : r = Row(label, fr, cl, fiber)
    OBVIOUS
  <2>13. Tells(W, n, columns, x, r) /\ r.lbl = label /\ r.fiber = Null
    <3>1. Tells(W, n, columns, x, r) /\ r.lbl = label /\ r.fiber = fiber
      <4>1. x \in Contents /\ columns \in ColumnsOver(n) /\ n \in Nat
        OBVIOUS
      <4>2. fr \in SUBSET Histories(n) /\ cl \in [FieldNames -> Cells]
        OBVIOUS
      <4>3. /\ Tells(W, n, columns, x, Row(label, fr, cl, fiber))
            /\ Row(label, fr, cl, fiber).lbl = label
            /\ Row(label, fr, cl, fiber).fiber = fiber
        BY <2>9, <2>10, <4>1, <4>2, PlainRowTells
      <4> QED BY <2>12, <4>3
    <3> QED BY <2>11, <3>1
  <2>14. t[i] = r
    BY <1>4, <2>1, <2>8, <2>11, <2>12
  <2> QED BY <2>1, <2>3, <2>13, <2>14
<1>7. \A i \in 1 .. N : RowTold(W, n, e, t[i])
  BY <1>5, <1>6 DEF RowTold, FiberTold
<1>8. IsSchema(e, n) /\ IsFib(e.fib, n)
  BY <1>5 DEF IsSchema, IsFib, FieldNames
<1>9. Good(W, n, e)
  BY <1>4, <1>5, <1>7, <1>8, GoodIs
<1>10. Differ(e.rows)
  BY <1>4, <1>5, <1>6 DEF Differ
<1> QED BY <1>1, <1>2, <1>4, <1>5, <1>9, <1>10 DEF True

(* The first datasets are true of the world they bring. *)
LEMMA InitHolds == Init => IInv
<1> SUFFICES ASSUME Init PROVE IInv
  OBVIOUS
<1>1. PICK key \in KeyColumns :
         store = {Created(1, "members", [NoColumns EXCEPT !["key"] = ValueColumn], key),
                  Where(Created(1, "members", [NoColumns EXCEPT !["key"] = ValueColumn], key), {1}),
                  Created(2, "groups", NoColumns, <<Null, Null>>)}
  BY DEF Init
<1>2. minted = 2
  BY DEF Init
<1>3. key \in Seq(Cells) /\ Len(key) <= MaxRows
  BY RowPlansAssumption DEF Cells, Labels
<1>4. PICK N \in Nat : N = Len(key)
  BY <1>3
<1> DEFINE name(c) == IF c \in Labels THEN c ELSE 0
           refs(i, c) == [f \in FieldNames |-> IF f = "key" /\ i = 1 /\ c \in 0 .. N - 1
                                               THEN key[c + 1] ELSE Null]
           content(i, c) == [row |-> <<IF i = 1 THEN "members" ELSE "groups", name(c)>>,
                             ref |-> refs(i, c)]
           W == [i \in 1 .. 2 |-> [c \in Cells |-> content(i, c)]]
<1>5. Labels \subseteq Nat /\ Null \notin Labels /\ \A i \in 1 .. N : i - 1 \in Labels
  BY <1>3, <1>4, RowPlansAssumption DEF Labels
<1>6. ASSUME NEW i \in 1 .. 2, NEW c \in Cells PROVE content(i, c) \in Contents
  <2>1. name(c) \in Nat
    BY <1>5
  <2>2. refs(i, c) \in [FieldNames -> Cells]
    <3>1. c \in 0 .. N - 1 => c + 1 \in 1 .. N /\ key[c + 1] \in Cells
      BY <1>3, <1>4
    <3> QED BY <3>1 DEF Cells
  <2> HIDE DEF name, refs
  <2> QED BY <2>1, <2>2 DEF Contents, RowNames
<1>7. W \in Worlds(2)
  <2> HIDE DEF content
  <2> QED BY <1>6 DEF Worlds
<1>8. \A i \in 1 .. 2 : \A c \in Cells : W[i][c] = content(i, c)
  <2> HIDE DEF content
  <2> QED OBVIOUS
<1> HIDE DEF W
<1>9. PICK columns : columns = [NoColumns EXCEPT !["key"] = ValueColumn]
  OBVIOUS
<1>10. /\ columns \in ColumnsOver(2) /\ columns["item_id"].type = "none"
       /\ columns["key"].type = "value"
       /\ NoColumns \in ColumnsOver(2) /\ NoColumns["item_id"].type = "none"
  BY <1>9 DEF ColumnsOver, NoColumns, NoColumn, ValueColumn, FieldNames, ColumnTypes
<1>11. PICK members, groups : /\ members = Created(1, "members", columns, key)
                              /\ groups = Created(2, "groups", NoColumns, <<Null, Null>>)
  OBVIOUS
<1>12. True(W, 2, members)
  <2>1. ASSUME NEW i \in 1 .. N
        PROVE  /\ W[1][i - 1].row = <<"members", i - 1>>
               /\ key[i] # Null => columns["key"].type = "value" /\ W[1][i - 1].ref["key"] = key[i]
    <3>1. i - 1 \in Labels /\ i - 1 \in Cells /\ i - 1 \in 0 .. N - 1
      BY <1>5 DEF Cells
    <3>2. W[1][i - 1] = content(1, i - 1)
      <4> HIDE DEF content
      <4> QED BY <1>8, <3>1
    <3>3. name(i - 1) = i - 1 /\ refs(1, i - 1)["key"] = key[i]
      BY <3>1 DEF FieldNames
    <3> HIDE DEF name, refs
    <3> QED BY <1>10, <3>2, <3>3
  <2>2. PICK id \in 1 .. 2, root \in {"members", "groups"} : id = 1 /\ root = "members"
    OBVIOUS
  <2>3. \A i \in 1 .. Len(key) :
            /\ W[id][i - 1].row = <<root, i - 1>>
            /\ key[i] # Null => columns["key"].type = "value" /\ W[id][i - 1].ref["key"] = key[i]
    BY <1>4, <2>1, <2>2
  <2>4. True(W, 2, Created(id, root, columns, key))
    BY <1>3, <1>7, <1>10, <2>3, CreatedIsTrue
  <2> QED BY <1>11, <2>2, <2>4
<1>13. True(W, 2, groups)
  <2>1. PICK none \in Seq(Cells) : none = <<Null, Null>> /\ Len(none) = 2
                                   /\ \A i \in 1 .. 2 : none[i] = Null
    <3>1. Null \in Cells
      BY DEF Cells
    <3>2. PICK two : two = <<Null, Null>>
      OBVIOUS
    <3>3. two \in Seq(Cells) /\ Len(two) = 2 /\ two[1] = Null /\ two[2] = Null
      BY <3>1, <3>2
    <3>4. \A i \in 1 .. 2 : two[i] = Null
      <4>1. \A i \in 1 .. 2 : i = 1 \/ i = 2
        OBVIOUS
      <4> QED BY <3>3, <4>1
    <3>5. two = <<Null, Null>> /\ Len(two) = 2
      BY <3>2, <3>3
    <3> QED BY <3>3, <3>4, <3>5, Zenon
  <2>2. Len(none) <= MaxRows /\ 0 \in Labels /\ 1 \in Labels
    BY <2>1, RowPlansAssumption DEF Labels
  <2>3. ASSUME NEW i \in 1 .. 2
        PROVE  W[2][i - 1].row = <<"groups", i - 1>>
    <3>1. i - 1 \in Labels /\ i - 1 \in Cells
      BY <2>2 DEF Cells
    <3>2. W[2][i - 1] = content(2, i - 1)
      <4> HIDE DEF content
      <4> QED BY <1>8, <3>1
    <3> HIDE DEF refs
    <3> QED BY <3>1, <3>2
  <2>4. PICK id \in 1 .. 2, root \in {"members", "groups"} : id = 2 /\ root = "groups"
    OBVIOUS
  <2>5. \A i \in 1 .. Len(none) :
            /\ W[id][i - 1].row = <<root, i - 1>>
            /\ none[i] # Null => NoColumns["key"].type = "value" /\ W[id][i - 1].ref["key"] = none[i]
    BY <2>1, <2>3, <2>4
  <2>6. True(W, 2, Created(id, root, NoColumns, none))
    BY <1>7, <1>10, <2>2, <2>5, CreatedIsTrue
  <2> QED BY <1>11, <2>1, <2>4, <2>6
<1>14. True(W, 2, Where(members, {1}))
  <2>1. PICK e, one : one = {1} /\ e = Where(members, one)
    OBVIOUS
  <2>2. Good(W, 2, e)
    BY <1>12, <2>1, WhereKeeps DEF True
  <2>3. IsSeq(members.rows) /\ Differ(members.rows)
    BY <1>12, GoodIs DEF True
  <2>4. Differ(e.rows) /\ \A a \in 1 .. Len(e.rows) : e.rows[a].lbl = 1
    <3>1. PICK s : s = members.rows
      OBVIOUS
    <3>2. PICK P : P = {i \in DOMAIN s : s[i].lbl \in one}
      OBVIOUS
    <3>3. members = [id |-> members.id, ix |-> members.ix, col |-> members.col,
                     fib |-> members.fib, rows |-> s]
      BY <1>12, <3>1, GoodIs DEF True
    <3>4. e.rows = Chosen(s, P)
      BY <2>1, <3>1, <3>2, <3>3 DEF Where
    <3>5. /\ IsSeq(Chosen(s, P))
          /\ \A a \in 1 .. Len(Chosen(s, P)) :
                \E i \in 1 .. Len(s) : i \in P /\ Chosen(s, P)[a] = s[i]
          /\ \A i \in 1 .. Len(s) : i \in P =>
                \E a \in 1 .. Len(Chosen(s, P)) : Chosen(s, P)[a] = s[i]
          /\ Differ(s) => Differ(Chosen(s, P))
      <4>1. IsSeq(s)
        BY <2>3, <3>1
      <4> QED BY <4>1, ChosenRows, Zenon
    <3> QED BY <2>1, <2>3, <3>1, <3>2, <3>4, <3>5
  <2>5. Len(e.rows) <= MaxRows
    <3>1. PICK K \in Nat : K = Len(e.rows)
      BY <2>2, GoodIs DEF IsSeq
    <3>2. ~ (1 \in 1 .. K /\ 2 \in 1 .. K)
      BY <2>4, <3>1 DEF Differ
    <3> QED BY <3>1, <3>2, RowPlansAssumption
  <2> QED BY <2>1, <2>2, <2>4, <2>5 DEF True
<1>15. \A d \in store : True(W, 2, d)
  BY <1>1, <1>9, <1>11, <1>12, <1>13, <1>14
<1> QED BY <1>2, <1>7, <1>15, RowPlansAssumption DEF IInv

(* A result kept is true of the world it makes, and so is all that was held.*)
LEMMA KeptIsTrue ==
  ASSUME minted \in 2 .. MaxMinted, NEW W \in Worlds(minted),
         \A e \in store : True(W, minted, e),
         NEW d, Fits(W, minted, d), Keeps(d)
  PROVE  IInv'
<1>1. MaxMinted \in Nat
  BY RowPlansAssumption
<1>2. PICK n \in Nat : n = minted
  BY <1>1
<1>3. PICK m : m = IF d.id = n + 1 THEN n + 1 ELSE n
  OBVIOUS
<1>4. m \in Nat /\ n <= m /\ minted' = m /\ m \in 2 .. MaxMinted
  BY <1>1, <1>2, <1>3 DEF Keeps, Fresh
<1>5. Fits(W, n, d) /\ W \in Worlds(n)
  BY <1>2
<1>6. IsSeq(d.rows)
  BY <1>5 DEF Fits, Told
<1>7. Differ(d.rows) /\ Len(d.rows) <= MaxRows
  BY <1>6, UniqueMeansDiffer DEF Keeps, Accepted
<1>8. PICK W2 \in Worlds(m) : Extends(W2, W, n) /\ Good(W2, m, d)
  BY <1>3, <1>5, <1>7, WorldGrows
<1>9. ASSUME NEW e \in store PROVE True(W2, m, e)
  <2>1. Good(W, n, e) /\ Differ(e.rows) /\ Len(e.rows) <= MaxRows
    BY <1>2 DEF True
  <2>2. Good(W2, m, e)
    BY <1>4, <1>8, <2>1, GoodKept
  <2> QED BY <2>1, <2>2 DEF True
<1>10. True(W2, m, d)
  BY <1>7, <1>8 DEF True
<1>11. \A e \in store' : True(W2, m, e)
  BY <1>9, <1>10 DEF Keeps
<1>12. W2 \in Worlds(minted') /\ \A e \in store' : True(W2, minted', e)
  BY <1>4, <1>11
<1> QED BY <1>4, <1>12 DEF IInv

(* Every operator keeps to the one world. *)
LEMMA NextHolds ==
  ASSUME Honest, IInv, [Next]_vars
  PROVE  IInv'
<1>1. PICK W \in Worlds(minted) : \A d \in store : True(W, minted, d)
  BY DEF IInv
<1>2. minted \in 2 .. MaxMinted /\ minted \in Nat
  BY RowPlansAssumption DEF IInv
<1>3. PICK n \in Nat : n = minted
  BY <1>2
<1>4. /\ W \in Worlds(n)
      /\ \A d \in store : Good(W, n, d) /\ Differ(d.rows) /\ Len(d.rows) <= MaxRows
      /\ Fresh = n + 1
  BY <1>1, <1>3 DEF True, Fresh
<1>5. \A d \in store : /\ d.id \in 1 .. n /\ IsSeq(d.rows) /\ IsSchema(d, n)
  BY <1>4, GoodIs
<1>6. ASSUME NEW d, Fits(W, n, d), Keeps(d) PROVE IInv'
  BY <1>1, <1>2, <1>3, <1>6, KeptIsTrue
<1>7. CASE FilterRows
  <2>1. PICK d \in store : \E kept \in SUBSET LabelsOf(d) : Keeps(Where(d, kept))
    BY <1>7 DEF FilterRows
  <2>2. PICK kept : Keeps(Where(d, kept))
    BY <2>1
  <2>3. Good(W, n, Where(d, kept))
    BY <1>4, WhereKeeps
  <2> QED BY <1>6, <2>2, <2>3, GoodFits
<1>8. CASE Stack
  <2>1. PICK d \in store, e \in store :
           d.ix = e.ix /\ d.col = e.col /\ d.fib = e.fib /\ Keeps(ConcatRows(d, e, n + 1))
    BY <1>4, <1>8 DEF Stack
  <2>2. Fits(W, n, ConcatRows(d, e, n + 1))
    BY <1>4, <2>1, ConcatRowsFits
  <2> QED BY <1>6, <2>1, <2>2
<1>9. CASE Align
  <2>1. PICK d \in store, p \in store :
           /\ d.id = p.id /\ d.ix = p.ix /\ Columns(d) \cap ForeignColumns(p) = {}
           /\ Keeps(ConcatColumns(d, Keep(p, ForeignColumns(p))))
    BY <1>9 DEF Align
  <2>2. PICK k, K : K = ForeignColumns(p) /\ k = Keep(p, K)
    OBVIOUS
  <2>3. /\ Good(W, n, k) /\ k.fib = Null /\ k.id = p.id /\ k.ix = p.ix
        /\ k.col = Narrowed(p.col, K)
    BY <1>4, <2>2, KeepGood
  <2>4. NoSharedColumn(d.col, k.col)
    BY <2>1, <2>2, <2>3 DEF NoSharedColumn, Narrowed, NoColumn, Columns, Has
  <2>5. Good(W, n, ConcatColumns(d, k))
    BY <1>4, <2>1, <2>3, <2>4, ConcatColumnsGood
  <2> QED BY <1>6, <2>1, <2>2, <2>5, GoodFits
<1>10. CASE PromoteColumn
  <2>1. PICK d \in store : \E f \in Columns(d) :
           (\A r \in RowSet(d) : r.cell[f] # Null) /\ Keeps(SetIndex(d, f, n + 1))
    BY <1>4, <1>10 DEF PromoteColumn
  <2>2. PICK f \in Columns(d) :
           (\A r \in RowSet(d) : r.cell[f] # Null) /\ Keeps(SetIndex(d, f, n + 1))
    BY <2>1
  <2>3. Fits(W, n, SetIndex(d, f, n + 1))
    BY <1>4, <2>2, SetIndexFits
  <2> QED BY <1>6, <2>2, <2>3
<1>11. CASE Reset
  <2>1. PICK d \in store : /\ ~ Has(d, "index") /\ d.ix # "index"
                           /\ Keeps(ResetIndex(d, n + 1))
    BY <1>4, <1>11 DEF Reset
  <2>2. Fits(W, n, ResetIndex(d, n + 1))
    BY <1>4, <2>1, ResetIndexFits
  <2> QED BY <1>6, <2>1, <2>2
<1>12. CASE TransformTable
  <2>1. PICK d \in store, call \in PipeCalls : Keeps(Pipe(d, call, n + 1))
    BY <1>4, <1>12 DEF TransformTable
  <2>2. Fits(W, n, Pipe(d, call, n + 1))
    BY <1>4, PipeFits
  <2> QED BY <1>6, <2>1, <2>2
<1>13. CASE Reference
  <2>1. PICK d \in store, target \in store : \E f \in Columns(d) :
           d.col[f] = ValueColumn /\ Keeps(Link(d, target, f))
    BY <1>13 DEF Reference
  <2>2. PICK f \in FieldNames : d.col[f] = ValueColumn /\ Keeps(Link(d, target, f))
    BY <2>1 DEF Columns
  <2>3. Good(W, n, Link(d, target, f))
    BY <1>4, <1>5, <2>2, LinkGood
  <2> QED BY <1>6, <2>2, <2>3, GoodFits
<1>14. CASE PlanLabels
  <2>1. PICK target \in store, labels \in Selections : Keeps(MakePlan(target, labels, n + 1))
    BY <1>4, <1>14 DEF PlanLabels
  <2>2. Fits(W, n, MakePlan(target, labels, n + 1))
    BY <1>4, <1>5, MakePlanFits
  <2> QED BY <1>6, <2>1, <2>2
<1>15. CASE JoinRows
  <2>1. PICK l \in store, r \in store, how \in Hows, on \in {"index", "key"} :
           Keeps(Join(l, r, on, how, n + 1))
    BY <1>4, <1>15 DEF JoinRows
  <2>2. Len(Join(l, r, on, how, n + 1).rows) <= MaxRows
    BY <2>1 DEF Keeps
  <2>3. Fits(W, n, Join(l, r, on, how, n + 1))
    BY <1>4, <2>2, JoinFits
  <2> QED BY <1>6, <2>1, <2>3
<1>16. CASE ExpandByPlan
  <2>1. PICK s \in store, p \in store : \E f \in ForeignColumns(p) :
           Explodes(s, p, f) /\ Keeps(Explode(s, p, f))
    BY <1>16 DEF ExpandByPlan
  <2>2. PICK f \in FieldNames : Explodes(s, p, f) /\ Keeps(Explode(s, p, f))
    BY <2>1 DEF ForeignColumns
  <2>3. Good(W, n, Explode(s, p, f))
    BY <1>4, <2>2, ExplodeGood
  <2> QED BY <1>6, <2>2, <2>3, GoodFits
<1>17. CASE MergeByPlan
  <2>1. PICK l \in store, r \in store, p \in store : Merges(l, r, p) /\ Keeps(Merge(l, r, p))
    BY <1>17 DEF MergeByPlan
  <2>2. Good(W, n, Merge(l, r, p))
    BY <1>4, <2>1, MergeGood
  <2> QED BY <1>6, <2>1, <2>2, GoodFits
<1>18. CASE GroupRows
  <2>1. PICK d \in store : \E f \in Columns(d) : \E domain \in store \cup {Null} :
           d.fib = Null /\ Partitions(d, f, domain) /\ Keeps(Partition(d, f, domain, n + 1))
    BY <1>4, <1>18 DEF GroupRows
  <2>2. PICK f \in FieldNames, domain \in store \cup {Null} :
           d.fib = Null /\ Partitions(d, f, domain) /\ Keeps(Partition(d, f, domain, n + 1))
    BY <2>1 DEF Columns
  <2>3. PICK b, fresh : fresh = n + 1 /\ b = Partition(d, f, domain, fresh)
    OBVIOUS
  <2>4. domain # Null => Good(W, n, domain) /\ d.col[f] = ForeignIndex(domain.id)
    BY <1>4, <2>2 DEF Partitions
  <2>5. Fits(W, n, b)
    BY <1>4, <2>2, <2>3, <2>4, PartitionFits
  <2> QED BY <1>6, <2>2, <2>3, <2>5
<1>19. CASE FlattenFibers
  <2>1. PICK b \in store : b.fib # Null /\ Keeps(Flatten(b))
    BY <1>19 DEF FlattenFibers
  <2>2. Good(W, n, Flatten(b))
    BY <1>4, <2>1, FlattenGood
  <2> QED BY <1>6, <2>1, <2>2, GoodFits
<1>20. CASE CollapseByPlan
  <2>1. PICK m \in store, p \in store : \E domain \in store \cup {Null} :
           m.fib = Null /\ Implodes(m, p, domain) /\ Keeps(Implode(m, p, domain))
    BY <1>20 DEF CollapseByPlan
  <2>2. PICK domain \in store \cup {Null} :
           m.fib = Null /\ Implodes(m, p, domain) /\ Keeps(Implode(m, p, domain))
    BY <2>1
  <2>3. domain # Null => Good(W, n, domain)
    BY <1>4
  <2>4. Fits(W, n, Implode(m, p, domain))
    BY <1>4, <2>2, <2>3, ImplodeFits
  <2> QED BY <1>6, <2>2, <2>4
<1>21. CASE UNCHANGED vars
  BY <1>1, <1>2, <1>21 DEF IInv, vars
<1> QED
  BY <1>7, <1>8, <1>9, <1>10, <1>11, <1>12, <1>13, <1>14, <1>15, <1>16, <1>17, <1>18,
     <1>19, <1>20, <1>21 DEF Next

(* Whatever the program does, one world stands behind what it holds. *)
THEOREM OneWorld ==
  ASSUME Honest
  PROVE  Spec => []IInv
<1>1. Init => IInv
  BY InitHolds
<1>2. IInv /\ [Next]_vars => IInv'
  BY NextHolds
<1> QED BY <1>1, <1>2, PTL DEF Spec

-----------------------------------------------------------------------------
(* What follows from one world.                                            *)

(* A dataset nested in one that is true is true. *)
LEMMA HeldIsTrue ==
  ASSUME IInv
  PROVE  minted \in Nat /\ \E W \in Worlds(minted) :
            \A d \in Held : Good(W, minted, d) /\ Differ(d.rows)
<1>1. minted \in Nat
  BY RowPlansAssumption DEF IInv
<1>2. PICK n \in Nat : n = minted
  BY <1>1
<1>3. PICK W \in Worlds(n) :
         \A d \in store : Good(W, n, d) /\ Differ(d.rows)
  BY <1>2 DEF IInv, True
<1>4. ASSUME NEW b \in store, b.fib # Null, NEW d \in Fibers(b)
      PROVE  Good(W, n, d) /\ Differ(d.rows)
  <2>1. PICK r \in RowSet(b) : r.fiber # Null /\ d = Fiber(b, r)
    BY <1>4 DEF Fibers
  <2>2. /\ IsSeq(b.rows) /\ IsFib(b.fib, n)
        /\ \A i \in 1 .. Len(b.rows) : RowTold(W, n, b, b.rows[i])
    BY <1>3, GoodIs
  <2>3. RowTold(W, n, b, r)
    BY <2>1, <2>2, RowsAre
  <2>4. TrueFiber(W, n, b.fib, r.fiber)
    BY <1>4, <2>1, <2>3 DEF RowTold, FiberTold
  <2>5. PICK t : t = r.fiber
    OBVIOUS
  <2>6. d = [id |-> b.fib.id, ix |-> b.fib.ix, col |-> b.fib.col, fib |-> Null, rows |-> t]
    BY <2>1, <2>5 DEF Fiber
  <2>7. /\ d = [id |-> d.id, ix |-> d.ix, col |-> d.col, fib |-> d.fib, rows |-> d.rows]
        /\ d.id = b.fib.id /\ d.ix = b.fib.ix /\ d.col = b.fib.col /\ d.fib = Null /\ d.rows = t
    BY <2>6
  <2>8. d.id \in 1 .. n /\ IsSchema(d, n) /\ IsFib(d.fib, n)
    BY <1>4, <2>2, <2>7 DEF IsFib, IsSchema
  <2>9. IsSeq(d.rows) /\ Differ(d.rows)
    BY <2>4, <2>5, <2>7 DEF TrueFiber
  <2>10. \A i \in 1 .. Len(d.rows) : RowTold(W, n, d, d.rows[i])
    BY <2>4, <2>5, <2>7 DEF TrueFiber, RowTold, FiberTold
  <2> QED BY <2>7, <2>8, <2>9, <2>10, GoodIs
<1>5. \A d \in Held : Good(W, n, d) /\ Differ(d.rows)
  BY <1>3, <1>4 DEF Held
<1> QED BY <1>1, <1>2, <1>5

(* What a row carries, walked from what stands behind its label. *)
LEMMA RowLeads ==
  ASSUME NEW n \in Nat, NEW W \in Worlds(n), NEW d, Good(W, n, d), NEW r \in RowSet(d)
  PROVE  /\ r.lbl \in Labels /\ d.id \in 1 .. n
         /\ W[d.id][r.lbl] \in Contents
         /\ r.cell \in [FieldNames -> Cells] /\ r.via \in [FieldNames -> Paths(n)]
         /\ r.from \in SUBSET Histories(n)
         /\ \A y \in r.from : Walk(W, W[d.id][r.lbl], y.path).row = y.row
         /\ CellsLead(W, W[d.id][r.lbl], d.col, r)
<1>1. /\ d.id \in 1 .. n /\ IsSeq(d.rows)
      /\ \A i \in 1 .. Len(d.rows) : RowTold(W, n, d, d.rows[i])
  BY GoodIs
<1>2. RowTold(W, n, d, r)
  BY <1>1, RowsAre
<1> QED BY <1>1, <1>2 DEF RowTold, Tells, IsRow, OriginsLead

(* Contents reached along a path, read from where the path starts. *)
LEMMA ThroughLeads ==
  ASSUME NEW n \in Nat, NEW W, NEW x, NEW path \in Paths(n), NEW x2, Walk(W, x, path) = x2,
         NEW from \in SUBSET Histories(n), \A y \in from : Walk(W, x2, y.path).row = y.row,
         NEW b \in Through(path, from)
  PROVE  Walk(W, x, b.path).row = b.row
<1>1. PICK y \in from : b = [path |-> path \o y.path, row |-> y.row]
  BY DEF Through
<1>2. PICK q \in Paths(n) : q = y.path
  BY <1>1 DEF Histories
<1>3. b.path = path \o q /\ b.row = y.row
  BY <1>1, <1>2
<1>4. Walk(W, x, path \o q) = Walk(W, x2, q)
  BY WalkConcat
<1> QED BY <1>1, <1>2, <1>3, <1>4

(* Where one world stands behind all, labels mean one row, references lead *)
(* to the rows they name, and so do indexes demoted to columns.            *)
LEMMA OneRowEach == IInv => LabelMeansOneRow
<1> SUFFICES ASSUME IInv PROVE LabelMeansOneRow
  OBVIOUS
<1>1. PICK n \in Nat : n = minted
  BY HeldIsTrue
<1>2. PICK W \in Worlds(n) : \A d \in Held : Good(W, n, d)
  BY <1>1, HeldIsTrue
<1> SUFFICES ASSUME NEW d \in Held, NEW e \in Held, d.id = e.id,
                    NEW r \in RowSet(d), NEW s \in RowSet(e), r.lbl = s.lbl
             PROVE  Agree(r.from, s.from)
  BY DEF LabelMeansOneRow
<1>3. PICK x : x = W[d.id][r.lbl]
  OBVIOUS
<1>4. \A y \in r.from : Walk(W, x, y.path).row = y.row
  BY <1>2, <1>3, RowLeads
<1>5. \A y \in s.from : Walk(W, x, y.path).row = y.row
  BY <1>2, <1>3, RowLeads
<1> QED BY <1>4, <1>5 DEF Agree

(* In one world a reference leads to the row its values were gathered from. *)
LEMMA ReferencesLead == IInv => GatheredRowIsTheReferencedRow
<1> SUFFICES ASSUME IInv PROVE GatheredRowIsTheReferencedRow
  OBVIOUS
<1>1. PICK n \in Nat : n = minted
  BY HeldIsTrue
<1>2. PICK W \in Worlds(n) : \A d \in Held : Good(W, n, d)
  BY <1>1, HeldIsTrue
<1> SUFFICES ASSUME NEW d \in Held, NEW e \in Held, NEW f \in ForeignColumns(d),
                    d.col[f].of = e.id,
                    NEW r \in RowSet(d), NEW s \in RowSet(e), r.cell[f] = s.lbl
             PROVE  Agree(r.from, Through(Crossing(r, f, e.id), s.from))
  BY DEF GatheredRowIsTheReferencedRow
<1>3. f \in FieldNames /\ d.col[f].type = "foreign"
  BY DEF ForeignColumns
<1>4. PICK x : x = W[d.id][r.lbl]
  OBVIOUS
<1>5. /\ \A y \in r.from : Walk(W, x, y.path).row = y.row
      /\ CellsLead(W, x, d.col, r) /\ r.via[f] \in Paths(n)
  BY <1>2, <1>3, <1>4, RowLeads
<1>6. PICK x2 : x2 = W[e.id][s.lbl]
  OBVIOUS
<1>7. /\ s.lbl \in Labels /\ e.id \in 1 .. n /\ s.from \in SUBSET Histories(n)
      /\ \A y \in s.from : Walk(W, x2, y.path).row = y.row
  BY <1>2, <1>6, RowLeads
<1>8. Walk(W, x, r.via[f]).ref[f] = s.lbl
  <2>1. s.lbl # Null
    BY <1>7, RowPlansAssumption DEF Labels
  <2> QED BY <1>3, <1>5, <2>1 DEF CellsLead
<1>9. PICK id \in 1 .. n, v \in Paths(n) : id = e.id /\ v = r.via[f]
  BY <1>5, <1>7
<1>10. PICK path : path = Append(v, <<f, id>>)
  OBVIOUS
<1>11. path \in Paths(n) /\ Walk(W, x, path) = x2
  <2>1. /\ Append(v, <<f, id>>) \in Paths(n)
        /\ Walk(W, x, Append(v, <<f, id>>)) = W[id][Walk(W, x, v).ref[f]]
    BY <1>3, WalkFurther
  <2> QED BY <1>6, <1>8, <1>9, <1>10, <2>1
<1>12. \A y \in Through(path, s.from) : Walk(W, x, y.path).row = y.row
  BY <1>7, <1>11, ThroughLeads
<1>13. Crossing(r, f, e.id) = path
  BY <1>9, <1>10 DEF Crossing
<1> QED BY <1>5, <1>12, <1>13 DEF Agree

(* In one world a demoted index leads to the row beside it. *)
LEMMA DemotedIndexLeads == IInv => DemotedIndexKeepsItsMeaning
<1> SUFFICES ASSUME IInv PROVE DemotedIndexKeepsItsMeaning
  OBVIOUS
<1>1. PICK n \in Nat : n = minted
  BY HeldIsTrue
<1>2. PICK W \in Worlds(n) : \A d \in Held : Good(W, n, d)
  BY <1>1, HeldIsTrue
<1> SUFFICES ASSUME NEW d \in Held, NEW e \in Held, NEW f \in Columns(d),
                    d.col[f] = IndexColumn(e.id),
                    NEW r \in RowSet(d), NEW s \in RowSet(e), r.cell[f] = s.lbl
             PROVE  Agree(r.from, Through(r.via[f], s.from))
  BY DEF DemotedIndexKeepsItsMeaning
<1>3. f \in FieldNames /\ d.col[f].type = "index_column" /\ d.col[f].of = e.id
  BY DEF Columns, IndexColumn
<1>4. PICK x : x = W[d.id][r.lbl]
  OBVIOUS
<1>5. /\ \A y \in r.from : Walk(W, x, y.path).row = y.row
      /\ CellsLead(W, x, d.col, r) /\ r.via[f] \in Paths(n)
  BY <1>2, <1>3, <1>4, RowLeads
<1>6. PICK x2 : x2 = W[e.id][s.lbl]
  OBVIOUS
<1>7. /\ s.lbl \in Labels /\ s.from \in SUBSET Histories(n)
      /\ \A y \in s.from : Walk(W, x2, y.path).row = y.row
  BY <1>2, <1>6, RowLeads
<1>8. Walk(W, x, r.via[f]) = x2
  <2>1. s.lbl # Null
    BY <1>7, RowPlansAssumption DEF Labels
  <2> QED BY <1>3, <1>5, <1>6, <2>1 DEF CellsLead
<1>9. PICK path \in Paths(n) : path = r.via[f]
  BY <1>5
<1>10. \A y \in Through(path, s.from) : Walk(W, x, y.path).row = y.row
  BY <1>7, <1>8, <1>9, ThroughLeads
<1> QED BY <1>5, <1>9, <1>10 DEF Agree

(* Datasets that are true of a world are well typed. *)
LEMMA Typed == IInv => TypeOK
<1> SUFFICES ASSUME IInv PROVE TypeOK
  OBVIOUS
<1>1. PICK n \in Nat : n = minted /\ n <= MaxMinted
  BY RowPlansAssumption, HeldIsTrue DEF IInv
<1>2. PICK W \in Worlds(n) : \A d \in Held : Good(W, n, d) /\ Differ(d.rows)
  BY <1>1, HeldIsTrue
<1>3. ASSUME NEW d \in Held
      PROVE  /\ d.id \in 1 .. n /\ d.ix \in FieldNames /\ ~ Has(d, d.ix)
             /\ d.col \in [FieldNames -> [type : ColumnTypes, of : 0 .. n]]
             /\ UniqueLabels(d) /\ LabelsOf(d) \subseteq Labels
             /\ \A r \in RowSet(d) : r.cell \in [FieldNames -> Labels \cup {Null}]
  <2>1. d.id \in 1 .. n /\ IsSchema(d, n) /\ IsSeq(d.rows)
    BY <1>2, GoodIs
  <2>2. UniqueLabels(d)
    BY <1>2, <2>1, UniqueMeansDiffer
  <2>3. \A r \in RowSet(d) : r.lbl \in Labels /\ r.cell \in [FieldNames -> Cells]
    BY <1>2, RowLeads
  <2>4. LabelsOf(d) \subseteq Labels
    BY <2>3 DEF LabelsOf
  <2> QED BY <2>1, <2>2, <2>3, <2>4 DEF IsSchema, ColumnsOver, Has, Cells
<1> QED BY <1>1, <1>3, RowPlansAssumption DEF TypeOK

(* Type correctness, for any number of datasets, rows and identities:      *)
(* labels stay unique and references name identities that were minted.     *)
THEOREM RowsAreTyped ==
  ASSUME Honest
  PROVE  Spec => []TypeOK
BY OneWorld, Typed, PTL

(* Within one identity a label means one row, in every dataset held,       *)
(* whatever was filtered, stacked, joined, expanded or grouped before.     *)
THEOREM LabelsMeanOneRow ==
  ASSUME Honest
  PROVE  Spec => []LabelMeansOneRow
BY OneWorld, OneRowEach, PTL

(* What was gathered beside a reference is the row the reference names.    *)
THEOREM GatheringFollowsReferences ==
  ASSUME Honest
  PROVE  Spec => []GatheredRowIsTheReferencedRow
BY OneWorld, ReferencesLead, PTL

(* An index demoted to a column names the row whose values stand beside it.*)
THEOREM DemotedIndexesKeepMeaning ==
  ASSUME Honest
  PROVE  Spec => []DemotedIndexKeepsItsMeaning
BY OneWorld, DemotedIndexLeads, PTL

-----------------------------------------------------------------------------
(* flatten undoes partition.                                               *)

(* A true fiber is there. *)
LEMMA FiberIsThere ==
  ASSUME NEW n \in Nat, NEW W, NEW fib, NEW t, TrueFiber(W, n, fib, t)
  PROVE  t # Null
<1>1. PICK S : S = [lbl : Labels,
                    from : SUBSET [path : Seq(FieldNames \X Nat),
                                   row : {"members", "groups"} \X Nat],
                    cell : [FieldNames -> Labels \cup {Null}],
                    via : [FieldNames -> Seq(FieldNames \X Nat)], fiber : {Null}]
  OBVIOUS
<1>2. PICK N \in Nat : N = Len(t) /\ t = [i \in 1 .. N |-> t[i]]
  BY DEF TrueFiber, IsSeq
<1>3. ASSUME NEW i \in 1 .. N PROVE t[i] \in S
  <2>1. PICK r : r = t[i]
    OBVIOUS
  <2>2. PICK x : r.lbl \in Labels /\ r.fiber = Null /\ Tells(W, n, fib.col, x, r)
    BY <1>2, <2>1 DEF TrueFiber
  <2>3. /\ r = [lbl |-> r.lbl, from |-> r.from, cell |-> r.cell, via |-> r.via,
                fiber |-> r.fiber]
        /\ r.from \in SUBSET Histories(n)
        /\ r.cell \in [FieldNames -> Cells] /\ r.via \in [FieldNames -> Paths(n)]
    BY <2>2 DEF Tells, IsRow
  <2>4. Paths(n) \subseteq Seq(FieldNames \X Nat)
    <3>1. Steps(n) \subseteq FieldNames \X Nat
      BY DEF Steps
    <3> QED BY <3>1 DEF Paths
  <2>5. Histories(n) \subseteq [path : Seq(FieldNames \X Nat), row : {"members", "groups"} \X Nat]
    BY <2>4 DEF Histories, RowNames
  <2>6. r.via \in [FieldNames -> Seq(FieldNames \X Nat)]
    BY <2>3, <2>4
  <2>7. r.cell \in [FieldNames -> Labels \cup {Null}]
    BY <2>3 DEF Cells
  <2>8. r.from \in SUBSET [path : Seq(FieldNames \X Nat), row : {"members", "groups"} \X Nat]
    BY <2>3, <2>5
  <2> QED BY <1>1, <2>1, <2>2, <2>3, <2>6, <2>7, <2>8
<1>4. t \in Seq(S)
  <2>1. [i \in 1 .. N |-> t[i]] \in Seq(S)
    BY <1>3
  <2> QED BY <1>2, <2>1
<1>5. Null \notin Seq(S)
  BY <1>1, NullIsApart
<1> QED BY <1>4, <1>5

(* Rows under different labels are different rows. *)
LEMMA DifferOnce ==
  ASSUME NEW s, IsSeq(s), Differ(s), NEW S, \A i \in 1 .. Len(s) : s[i] \in S
  PROVE  Once(s, S)
<1>1. PICK N \in Nat : N = Len(s)
  BY DEF IsSeq
<1>2. s = [i \in 1 .. N |-> s[i]]
  BY <1>1 DEF IsSeq
<1>3. s \in Seq(S)
  <2>1. \A i \in 1 .. N : s[i] \in S
    BY <1>1
  <2>2. [i \in 1 .. N |-> s[i]] \in [1 .. N -> S]
    BY <2>1
  <2>3. [i \in 1 .. N |-> s[i]] \in Seq(S)
    BY <2>2
  <2> QED BY <1>2, <2>3, Zenon
<1>4. ASSUME NEW a \in 1 .. N, NEW b \in 1 .. N, a < b PROVE s[a] # s[b]
  <2>1. s[a].lbl = s[b].lbl => a = b
    BY <1>1 DEF Differ
  <2>2. a # b
    BY <1>4
  <2> QED BY <2>1, <2>2
<1> QED BY <1>1, <1>3, <1>4 DEF Once

(* The groups of a partition are named once each. *)
LEMMA GroupsDiffer ==
  ASSUME NEW d, IsSeq(d.rows), NEW f,
         NEW domain, domain # Null => IsSeq(domain.rows) /\ Differ(domain.rows),
         NEW labels, labels = GroupLabels(d, f, domain)
  PROVE  \A i, j \in 1 .. Len(labels) : labels[i] = labels[j] => i = j
<1>1. CASE domain = Null
  BY <1>1, GroupLabelsAre
<1>2. CASE domain # Null
  <2>1. Len(labels) = Len(domain.rows) /\ \A a \in 1 .. Len(domain.rows) :
                                             labels[a] = domain.rows[a].lbl
    BY <1>2, GroupLabelsAre
  <2> QED BY <1>2, <2>1 DEF Differ
<1> QED BY <1>1, <1>2

(* The rows of a group are the rows with its key. *)
LEMMA GroupMembers ==
  ASSUME NEW d, IsSeq(d.rows), NEW f, NEW label, NEW t, t = Group(d, f, label), NEW x
  PROVE  Member(x, t) <=> Member(x, Kept(d, f)) /\ x.cell[f] = label
<1>1. PICK kept : kept = Kept(d, f)
  OBVIOUS
<1>2. PICK K \in Nat : K = Len(kept)
  <2>1. IsSeq(kept)
    BY <1>1, KeptAre
  <2> QED BY <2>1 DEF IsSeq
<1>3. PICK L \in Nat : L = Len(t)
  <2>1. IsSeq(t)
    BY GroupIs
  <2> QED BY <2>1 DEF IsSeq
<1>4. /\ IsSeq(Group(d, f, label))
      /\ \A a \in 1 .. Len(Group(d, f, label)) :
            \E m \in 1 .. Len(Kept(d, f)) : /\ Group(d, f, label)[a] = Kept(d, f)[m]
                                            /\ Kept(d, f)[m].cell[f] = label
      /\ \A m \in 1 .. Len(Kept(d, f)) : Kept(d, f)[m].cell[f] = label =>
            \E a \in 1 .. Len(Group(d, f, label)) : Group(d, f, label)[a] = Kept(d, f)[m]
      /\ Differ(d.rows) => Differ(Group(d, f, label))
  BY GroupIs, Zenon
<1>5. \A k \in 1 .. L : \E m \in 1 .. K : t[k] = kept[m] /\ kept[m].cell[f] = label
  BY <1>1, <1>2, <1>3, <1>4, Zenon
<1>6. \A m \in 1 .. K : kept[m].cell[f] = label => \E k \in 1 .. L : t[k] = kept[m]
  BY <1>1, <1>2, <1>3, <1>4, Zenon
<1>7. ASSUME Member(x, t) PROVE Member(x, kept) /\ x.cell[f] = label
  BY <1>2, <1>3, <1>5, <1>7 DEF Member
<1>8. ASSUME Member(x, kept), x.cell[f] = label PROVE Member(x, t)
  BY <1>2, <1>3, <1>6, <1>8 DEF Member
<1> QED BY <1>1, <1>7, <1>8

(* flatten gives back what partition grouped. *)
LEMMA PartitionFlattens ==
  ASSUME NEW n \in Nat, NEW W \in Worlds(n), NEW d, Good(W, n, d), Differ(d.rows),
         d.fib = Null, NEW f,
         NEW domain, domain # Null => Good(W, n, domain) /\ Differ(domain.rows),
         Partitions(d, f, domain), NEW fresh, NEW b, b = Partition(d, f, domain, fresh)
  PROVE  /\ Header(Flatten(b)) = Header(d)
         /\ RowSet(Flatten(b)) = RowSet(Keyed(d, f))
         /\ Len(Flatten(b).rows) = Len(Keyed(d, f).rows)
<1>1. /\ d = [id |-> d.id, ix |-> d.ix, col |-> d.col, fib |-> d.fib, rows |-> d.rows]
      /\ d.id \in 1 .. n /\ IsSchema(d, n) /\ IsSeq(d.rows)
  BY GoodIs
<1>2. domain # Null => IsSeq(domain.rows) /\ Differ(domain.rows)
  BY GoodIs
<1>3. PICK labels : labels = GroupLabels(d, f, domain)
  OBVIOUS
<1>4. /\ b.fib = Header(d) /\ IsSeq(b.rows) /\ Len(b.rows) = Len(labels)
      /\ \A i \in 1 .. Len(b.rows) :
            b.rows[i] = Row(labels[i], {}, NoCells, Group(d, f, labels[i]))
      /\ Keyed(d, f).rows = Kept(d, f)
  BY <1>1, <1>2, <1>3, PartitionIs
<1>5. PICK N \in Nat : N = Len(b.rows)
  BY <1>4 DEF IsSeq
<1>6. ASSUME NEW i \in 1 .. N
      PROVE  /\ b.rows[i].lbl = labels[i] /\ b.rows[i].fiber = Group(d, f, labels[i])
             /\ b.rows[i].fiber # Null /\ IsSeq(b.rows[i].fiber) /\ Differ(b.rows[i].fiber)
  <2>1. PICK g : g = Group(d, f, labels[i])
    OBVIOUS
  <2>2. TrueFiber(W, n, Header(d), g)
    BY <2>1, GroupIsTrue
  <2>3. g # Null /\ IsSeq(g) /\ Differ(g)
    BY <2>2, FiberIsThere DEF TrueFiber
  <2>4. b.rows[i] = Row(labels[i], {}, NoCells, g)
    BY <1>4, <1>5, <2>1
  <2> QED BY <2>1, <2>3, <2>4 DEF Row
<1>7. Differ(b.rows)
  <2>1. \A i, j \in 1 .. Len(labels) : labels[i] = labels[j] => i = j
    BY <1>1, <1>2, <1>3, GroupsDiffer
  <2> QED BY <1>4, <1>5, <1>6, <2>1 DEF Differ
<1>8. PICK e : e = Flatten(b)
  OBVIOUS
<1>9. PICK S : S = FiberRows(b)
  OBVIOUS
<1>10. /\ e.id = b.fib.id /\ e.ix = b.fib.ix /\ e.col = b.fib.col
       /\ \E cells : \E seqs \in Seq(Seq(S)) :
              /\ IsSeq(cells) /\ Differ(cells)
              /\ \A a \in 1 .. Len(cells) : \E i \in 1 .. N : cells[a] = b.rows[i]
              /\ \A i \in 1 .. N : \E a \in 1 .. Len(cells) : cells[a] = b.rows[i]
              /\ Len(seqs) = Len(cells) /\ \A a \in 1 .. Len(cells) : seqs[a] = cells[a].fiber
              /\ e.rows = FlattenSeq(seqs)
  <2>1. \A i \in 1 .. Len(b.rows) : b.rows[i].fiber # Null => IsSeq(b.rows[i].fiber)
    BY <1>5, <1>6
  <2>2. IsSeq(b.rows)
    BY <1>4
  <2>3. Appended(b, e)
    BY <1>8, <2>1, <2>2, FlattenIs
  <2> QED BY <1>5, <1>6, <1>7, <1>9, <2>3 DEF Appended
<1>11. PICK cells : \E seqs \in Seq(Seq(S)) :
              /\ IsSeq(cells) /\ Differ(cells)
              /\ \A a \in 1 .. Len(cells) : \E i \in 1 .. N : cells[a] = b.rows[i]
              /\ \A i \in 1 .. N : \E a \in 1 .. Len(cells) : cells[a] = b.rows[i]
              /\ Len(seqs) = Len(cells) /\ \A a \in 1 .. Len(cells) : seqs[a] = cells[a].fiber
              /\ e.rows = FlattenSeq(seqs)
  BY <1>10
<1>12. PICK seqs \in Seq(Seq(S)) :
              /\ IsSeq(cells) /\ Differ(cells)
              /\ \A a \in 1 .. Len(cells) : \E i \in 1 .. N : cells[a] = b.rows[i]
              /\ \A i \in 1 .. N : \E a \in 1 .. Len(cells) : cells[a] = b.rows[i]
              /\ Len(seqs) = Len(cells) /\ \A a \in 1 .. Len(cells) : seqs[a] = cells[a].fiber
              /\ e.rows = FlattenSeq(seqs)
  BY <1>11
<1>13. PICK K \in Nat : K = Len(cells)
  BY <1>12 DEF IsSeq
<1>14. ASSUME NEW a \in 1 .. K
       PROVE  /\ cells[a].lbl \in {labels[i] : i \in 1 .. N}
              /\ seqs[a] = Group(d, f, cells[a].lbl) /\ Once(seqs[a], S)
  <2>1. PICK i \in 1 .. N : cells[a] = b.rows[i]
    BY <1>12, <1>13
  <2>2. seqs[a] = b.rows[i].fiber /\ cells[a].lbl = labels[i]
    <3>1. seqs[a] = cells[a].fiber
      BY <1>12, <1>13
    <3> QED BY <1>6, <2>1, <3>1
  <2>3. PICK t : t = seqs[a]
    OBVIOUS
  <2>4. t = Group(d, f, cells[a].lbl) /\ IsSeq(t) /\ Differ(t)
    BY <1>6, <2>2, <2>3
  <2>5. t \in Seq(S)
    BY <1>12, <1>13, <2>3
  <2>6. \A j \in 1 .. Len(t) : t[j] \in S
    BY <2>5
  <2>7. Once(t, S)
    BY <2>4, <2>6, DifferOnce
  <2> QED BY <2>2, <2>3, <2>4, <2>7
<1>15. ASSUME NEW a \in 1 .. K, NEW x
       PROVE  Member(x, seqs[a]) <=> Member(x, Kept(d, f)) /\ x.cell[f] = cells[a].lbl
  <2>1. PICK label, t : label = cells[a].lbl /\ t = Group(d, f, label)
    OBVIOUS
  <2>2. seqs[a] = t
    BY <1>14, <2>1
  <2>3. Member(x, t) <=> Member(x, Kept(d, f)) /\ x.cell[f] = label
    BY <1>1, <2>1, GroupMembers
  <2> QED BY <2>1, <2>2, <2>3
<1>16. ASSUME NEW a \in 1 .. K, NEW c \in 1 .. K, NEW x, Member(x, seqs[a]), Member(x, seqs[c])
       PROVE  a = c
  <2>1. cells[a].lbl = cells[c].lbl
    BY <1>15, <1>16
  <2> QED BY <1>12, <1>13, <2>1 DEF Differ
<1>17. PICK t : t = e.rows
  OBVIOUS
<1>18. Once(t, S) /\ \A x : Member(x, t) <=> \E a \in 1 .. K : Member(x, seqs[a])
  <2>1. Len(seqs) = K
    BY <1>12, <1>13
  <2>2. \A i \in 1 .. Len(seqs) : Once(seqs[i], S)
    BY <1>14, <2>1
  <2>3. \A i, j \in 1 .. Len(seqs) : \A x : Member(x, seqs[i]) /\ Member(x, seqs[j]) => i = j
    BY <1>16, <2>1
  <2>4. /\ Once(FlattenSeq(seqs), S)
        /\ \A x : Member(x, FlattenSeq(seqs)) <=> \E i \in 1 .. Len(seqs) : Member(x, seqs[i])
    BY <2>2, <2>3, FlattenOnce
  <2> QED BY <1>12, <1>17, <2>1, <2>4
<1>19. PICK kept : kept = Kept(d, f)
  OBVIOUS
<1>20. /\ IsSeq(kept) /\ Differ(kept)
       /\ \A m \in 1 .. Len(kept) :
             \E i \in 1 .. Len(d.rows) : kept[m] = d.rows[i] /\ d.rows[i].cell[f] # Null
  <2>1. IsSeq(kept) /\ Differ(kept)
    BY <1>1, <1>19, KeptAre
  <2>2. ASSUME NEW m \in 1 .. Len(kept)
        PROVE  \E i \in 1 .. Len(d.rows) : kept[m] = d.rows[i] /\ d.rows[i].cell[f] # Null
    BY <1>1, <1>19, KeptAre
  <2> QED BY <2>1, <2>2
<1>21. PICK R : R = RowSet(d)
  OBVIOUS
<1>22. Once(kept, R)
  <2>1. \A m \in 1 .. Len(kept) : kept[m] \in R
    BY <1>1, <1>20, <1>21, RowsAre
  <2> QED BY <1>20, <2>1, DifferOnce
<1>23. ASSUME NEW x, Member(x, kept) PROVE \E a \in 1 .. K : x.cell[f] = cells[a].lbl
  <2>1. PICK m \in 1 .. Len(kept) : kept[m] = x
    BY <1>23 DEF Member
  <2>2. PICK j \in 1 .. Len(d.rows) : x = d.rows[j] /\ x.cell[f] # Null
    BY <1>20, <2>1
  <2>3. \E i \in 1 .. N : x.cell[f] = labels[i]
    <3>1. CASE domain = Null
      BY <1>1, <1>3, <1>4, <1>5, <1>19, <2>1, <3>1, GroupLabelsAre, SMTT(40)
    <3>2. CASE domain # Null
      <4>1. x \in RowSet(d)
        BY <1>1, <2>2, RowsAre
      <4>2. x.cell[f] \in LabelsOf(domain)
        BY <2>2, <3>2, <4>1 DEF Partitions
      <4>3. PICK r \in RowSet(domain) : r.lbl = x.cell[f]
        BY <4>2 DEF LabelsOf
      <4>4. PICK i \in 1 .. Len(domain.rows) : r = domain.rows[i]
        BY <1>2, <3>2, <4>3, RowsAre
      <4>5. Len(labels) = Len(domain.rows) /\ labels[i] = domain.rows[i].lbl
        BY <1>1, <1>2, <1>3, <3>2, <4>4, GroupLabelsAre
      <4> QED BY <1>4, <1>5, <4>3, <4>4, <4>5
    <3> QED BY <3>1, <3>2
  <2>4. PICK i \in 1 .. N : x.cell[f] = labels[i]
    BY <2>3
  <2>5. PICK a \in 1 .. K : cells[a] = b.rows[i]
    BY <1>12, <1>13
  <2> QED BY <1>6, <2>4, <2>5
<1>24. \A x : Member(x, t) <=> Member(x, kept)
  BY <1>15, <1>18, <1>19, <1>23
<1>25. ToSet(t) = ToSet(kept) /\ Len(t) = Len(kept)
  <2>1. Cardinality(ToSet(t)) = Len(t) /\ \A x : x \in ToSet(t) <=> Member(x, t)
    BY <1>18, OnceCounts
  <2>2. Cardinality(ToSet(kept)) = Len(kept) /\ \A x : x \in ToSet(kept) <=> Member(x, kept)
    BY <1>22, OnceCounts
  <2>3. ToSet(t) = ToSet(kept)
    BY <1>24, <2>1, <2>2
  <2> QED BY <2>1, <2>2, <2>3
<1>26. Header(e) = Header(d)
  BY <1>1, <1>4, <1>10, HeaderIsNotNull DEF Header
<1> QED BY <1>4, <1>8, <1>17, <1>19, <1>25, <1>26 DEF RowSet

(* Every partition the program can ask for is of a true dataset. *)
LEMMA PartitionsFlatten == IInv => FlattenUndoesPartition
<1> SUFFICES ASSUME IInv,
                    NEW d \in store, NEW f \in Columns(d), NEW domain \in store \cup {Null},
                    d.fib = Null, Partitions(d, f, domain),
                    NEW b, b = Partition(d, f, domain, minted + 1)
             PROVE  /\ Header(Flatten(b)) = Header(d)
                    /\ RowSet(Flatten(b)) = RowSet(Keyed(d, f))
                    /\ Len(Flatten(b).rows) = Len(Keyed(d, f).rows)
  BY DEF FlattenUndoesPartition
<1>1. PICK n \in Nat : n = minted
  BY HeldIsTrue
<1>2. PICK W \in Worlds(n) : \A e \in store : Good(W, n, e) /\ Differ(e.rows)
  BY <1>1, HeldIsTrue DEF Held
<1>3. domain # Null => Good(W, n, domain) /\ Differ(domain.rows)
  BY <1>2
<1>4. PICK fresh : fresh = minted + 1
  OBVIOUS
<1> QED BY <1>2, <1>3, <1>4, PartitionFlattens

(* flatten undoes partition, whatever the partitioned dataset has been     *)
(* through: its rows come back, each once, under its schema and identity.  *)
THEOREM FlatteningUndoesPartitioning ==
  ASSUME Honest
  PROVE  Spec => []FlattenUndoesPartition
BY OneWorld, PartitionsFlatten, PTL

-----------------------------------------------------------------------------
(* implode is the relation its plan states.                                *)

(* The rows of the plan that name a group.                                 *)
Naming(p, g) == {q \in RowSet(p) : q.cell["left_index"] = g}

(* The groups of an implode: those of the domain, or those the plan names. *)
GroupNames(p, domain) == IF domain # Null THEN LabelsOf(domain)
                         ELSE {q.cell["left_index"] : q \in RowSet(p)}

(* Two families over the same finite index, each without repetition, are   *)
(* equally many.                                                           *)
LEMMA EquallyMany ==
  ASSUME NEW J, IsFiniteSet(J), NEW f, NEW g, NEW S, NEW T,
         S = {f[j] : j \in J}, T = {g[j] : j \in J},
         \A i, j \in J : f[i] = f[j] => i = j, \A i, j \in J : g[i] = g[j] => i = j
  PROVE  Cardinality(S) = Cardinality(T)
<1>1. PICK F : F = [j \in J |-> f[j]]
  OBVIOUS
<1>2. PICK G : G = [j \in J |-> g[j]]
  OBVIOUS
<1>3. F \in Bijection(J, S)
  BY <1>1 DEF Bijection, Injection, Surjection, IsInjective
<1>4. G \in Bijection(J, T)
  BY <1>2 DEF Bijection, Injection, Surjection, IsInjective
<1>5. Cardinality(S) = Cardinality(J)
  BY <1>3, FS_Bijection DEF ExistsBijection
<1>6. Cardinality(T) = Cardinality(J)
  BY <1>4, FS_Bijection DEF ExistsBijection
<1> QED BY <1>5, <1>6

(* Every tagged row has a key, so grouping loses none. *)
LEMMA AllTaggedKept ==
  ASSUME NEW c, IsSeq(c.rows), NEW f, \A i \in 1 .. Len(c.rows) : c.rows[i].cell[f] # Null,
         NEW x
  PROVE  Member(x, Kept(c, f)) <=> \E i \in 1 .. Len(c.rows) : x = c.rows[i]
<1>1. PICK kept : kept = Kept(c, f)
  OBVIOUS
<1>2. \A m \in 1 .. Len(kept) : \E i \in 1 .. Len(c.rows) : kept[m] = c.rows[i]
  BY <1>1, KeptAre
<1>3. \A i \in 1 .. Len(c.rows) : \E m \in 1 .. Len(kept) : kept[m] = c.rows[i]
  BY <1>1, KeptAre
<1>4. ASSUME Member(x, kept) PROVE \E i \in 1 .. Len(c.rows) : x = c.rows[i]
  BY <1>2, <1>4 DEF Member
<1>5. ASSUME NEW i \in 1 .. Len(c.rows), x = c.rows[i] PROVE Member(x, kept)
  BY <1>3, <1>5 DEF Member
<1> QED BY <1>1, <1>4, <1>5

(* One group of an implode: a row per plan row that names it. *)
LEMMA ImplodedGroup ==
  ASSUME NEW n \in Nat, NEW W \in Worlds(n), NEW m, Good(W, n, m), m.fib = Null,
         NEW p, Good(W, n, p), Differ(p.rows),
         NEW domain, Implodes(m, p, domain), NEW c, c = Tagged(m, p),
         NEW g, NEW t, t = Group(c, "left_index", g)
  PROVE  /\ Len(t) = Cardinality(Naming(p, g))
         /\ \A q \in Naming(p, g) : \E x \in ToSet(t) :
               /\ x.lbl = q.lbl
               /\ x.from = Through(Crossing(q, "right_index", m.id),
                                   RowAt(m, q.cell["right_index"]).from)
<1>1. PICK left \in FieldNames, right \in FieldNames :
         left = "left_index" /\ right = "right_index"
  BY DEF FieldNames
<1>2. /\ Good(W, n, c) /\ c.fib = Null /\ Differ(c.rows) /\ Len(c.rows) = Len(p.rows)
      /\ \A i \in 1 .. Len(p.rows) :
            /\ c.rows[i].lbl = p.rows[i].lbl
            /\ c.rows[i].cell[left] = p.rows[i].cell[left]
            /\ c.rows[i].from = Gathered(m, p, right, i).from
  BY <1>1, TaggedIs
<1>3. IsSeq(c.rows) /\ IsSeq(p.rows)
  BY <1>2, GoodIs
<1>4. PICK N \in Nat : N = Len(p.rows)
  BY <1>3 DEF IsSeq
<1>5. \A i \in 1 .. N : p.rows[i] \in RowSet(p)
  BY <1>3, <1>4, RowsAre
<1>6. \A i \in 1 .. N : p.rows[i].cell[left] # Null /\ p.rows[i].cell[right] # Null
  BY <1>1, <1>5 DEF Implodes, Explodes, PlansOver, NoNulls
<1>7. PICK J : J = {i \in 1 .. N : p.rows[i].cell[left] = g}
  OBVIOUS
<1>8. IsFiniteSet(J)
  <2>1. PICK one \in Int, top \in Int : one = 1 /\ top = N
    OBVIOUS
  <2>2. IsFiniteSet(one .. top)
    BY FS_Interval
  <2>3. J \subseteq one .. top
    BY <1>7, <2>1
  <2> QED BY <2>2, <2>3, FS_Subset
<1>9. Naming(p, g) = {p.rows[j] : j \in J}
  <2>1. \A q : q \in RowSet(p) <=> \E i \in 1 .. N : q = p.rows[i]
    BY <1>3, <1>4, RowsAre
  <2> QED BY <1>1, <1>7, <2>1 DEF Naming
<1>10. t = Group(c, left, g)
  BY <1>1
<1>11. PICK R : R = RowSet(c)
  OBVIOUS
<1>12. IsSeq(t) /\ Differ(t)
  BY <1>2, <1>3, <1>10, GroupIs
<1>13. ASSUME NEW x PROVE Member(x, t) <=> \E j \in J : x = c.rows[j]
  <2>1. Member(x, t) <=> Member(x, Kept(c, left)) /\ x.cell[left] = g
    BY <1>3, <1>10, GroupMembers
  <2>2. \A i \in 1 .. Len(c.rows) : c.rows[i].cell[left] # Null
    BY <1>2, <1>4, <1>6
  <2>3. Member(x, Kept(c, left)) <=> \E i \in 1 .. Len(c.rows) : x = c.rows[i]
    BY <1>3, <2>2, AllTaggedKept
  <2> QED BY <1>2, <1>4, <1>7, <2>1, <2>3
<1>14. Once(t, R)
  <2>1. \A k \in 1 .. Len(t) : Member(t[k], t)
    BY DEF Member
  <2>2. \A k \in 1 .. Len(t) : t[k] \in R
    BY <1>2, <1>3, <1>4, <1>7, <1>11, <1>13, <2>1, RowsAre
  <2> QED BY <1>12, <2>2, DifferOnce
<1>15. Cardinality(ToSet(t)) = Len(t) /\ \A x : x \in ToSet(t) <=> Member(x, t)
  BY <1>14, OnceCounts
<1>16. ToSet(t) = {c.rows[j] : j \in J}
  BY <1>13, <1>15
<1>17. Cardinality(ToSet(t)) = Cardinality(Naming(p, g))
  <2>1. PICK u, v : u = c.rows /\ v = p.rows
    OBVIOUS
  <2>2. \A i, j \in J : u[i] = u[j] => i = j
    BY <1>2, <1>4, <1>7, <2>1 DEF Differ
  <2>3. \A i, j \in J : v[i] = v[j] => i = j
    BY <1>2, <1>4, <1>7, <2>1 DEF Differ
  <2>4. PICK S, T : S = ToSet(t) /\ T = Naming(p, g)
    OBVIOUS
  <2>5. S = {u[j] : j \in J} /\ T = {v[j] : j \in J}
    BY <1>9, <1>16, <2>1, <2>4
  <2>6. Cardinality(S) = Cardinality(T)
    BY <1>8, <2>2, <2>3, <2>5, EquallyMany
  <2> QED BY <2>4, <2>6
<1>18. ASSUME NEW q \in Naming(p, g)
       PROVE  \E x \in ToSet(t) :
                /\ x.lbl = q.lbl
                /\ x.from = Through(Crossing(q, right, m.id), RowAt(m, q.cell[right]).from)
  <2>1. PICK j \in J : q = p.rows[j]
    BY <1>9
  <2>2. PICK x : x = c.rows[j]
    OBVIOUS
  <2>3. x \in ToSet(t)
    BY <1>16, <2>2
  <2>4. j \in 1 .. N
    BY <1>7
  <2>5. x.lbl = q.lbl /\ x.from = Gathered(m, p, right, j).from
    BY <1>2, <1>4, <2>1, <2>2, <2>4
  <2>6. Gathered(m, p, right, j).from
          = Through(Crossing(q, right, m.id), RowAt(m, q.cell[right]).from)
    BY <1>6, <2>1, <2>4 DEF Gathered, Reached
  <2> QED BY <2>3, <2>5, <2>6
<1> QED BY <1>1, <1>15, <1>17, <1>18

(* The labels are the keys of the rows, all of them and nothing else.      *)
KeysOf(labels, rows, f) ==
    /\ \A a \in 1 .. Len(labels) : \E k \in 1 .. Len(rows) : labels[a] = rows[k].cell[f]
    /\ \A k \in 1 .. Len(rows) : \E a \in 1 .. Len(labels) : labels[a] = rows[k].cell[f]

(* Without a domain the labels of the groups are the keys found. *)
LEMMA FoundLabels ==
  ASSUME NEW d, IsSeq(d.rows), NEW f
  PROVE  KeysOf(GroupLabels(d, f, Null), Kept(d, f), f)
<1>1. PICK domain : domain = Null
  OBVIOUS
<1>2. domain # Null => IsSeq(domain.rows)
  BY <1>1
<1>3. \A a \in 1 .. Len(GroupLabels(d, f, domain)) :
         \E k \in 1 .. Len(Kept(d, f)) : GroupLabels(d, f, domain)[a] = Kept(d, f)[k].cell[f]
  BY <1>1, <1>2, GroupLabelsAre
<1>4. \A k \in 1 .. Len(Kept(d, f)) :
         \E a \in 1 .. Len(GroupLabels(d, f, domain)) :
            GroupLabels(d, f, domain)[a] = Kept(d, f)[k].cell[f]
  BY <1>1, <1>2, GroupLabelsAre
<1> QED BY <1>1, <1>3, <1>4 DEF KeysOf

(* Where every row has a key and no domain is given, every key is a label. *)
LEMMA FoundNames ==
  ASSUME NEW c, IsSeq(c.rows), NEW p, IsSeq(p.rows), Len(c.rows) = Len(p.rows), NEW f,
         \A i \in 1 .. Len(p.rows) : c.rows[i].cell[f] = p.rows[i].cell[f],
         \A i \in 1 .. Len(p.rows) : p.rows[i].cell[f] # Null,
         NEW labels, labels = GroupLabels(c, f, Null)
  PROVE  KeysOf(labels, p.rows, f)
<1>1. PICK kept : kept = Kept(c, f)
  OBVIOUS
<1>2. KeysOf(labels, kept, f)
  BY <1>1, FoundLabels
<1>3. \A i \in 1 .. Len(c.rows) : c.rows[i].cell[f] # Null
  OBVIOUS
<1>4. \A x : Member(x, kept) <=> \E i \in 1 .. Len(c.rows) : x = c.rows[i]
  BY <1>1, <1>3, AllTaggedKept
<1>5. ASSUME NEW a \in 1 .. Len(labels)
      PROVE  \E i \in 1 .. Len(p.rows) : labels[a] = p.rows[i].cell[f]
  <2>1. PICK k \in 1 .. Len(kept) : labels[a] = kept[k].cell[f]
    BY <1>2 DEF KeysOf
  <2>2. Member(kept[k], kept)
    BY <2>1 DEF Member
  <2>3. PICK i \in 1 .. Len(c.rows) : kept[k] = c.rows[i]
    BY <1>4, <2>2
  <2> QED BY <2>1, <2>3
<1>6. ASSUME NEW i \in 1 .. Len(p.rows)
      PROVE  \E a \in 1 .. Len(labels) : labels[a] = p.rows[i].cell[f]
  <2>1. Member(c.rows[i], kept)
    BY <1>4
  <2>2. PICK k \in 1 .. Len(kept) : kept[k] = c.rows[i]
    BY <2>1 DEF Member
  <2>3. PICK a \in 1 .. Len(labels) : labels[a] = kept[k].cell[f]
    BY <1>2, <2>2 DEF KeysOf
  <2> QED BY <2>2, <2>3
<1> QED BY <1>5, <1>6 DEF KeysOf

(* The labels an implode groups under are those names. *)
LEMMA ImplodedLabels ==
  ASSUME NEW n \in Nat, NEW W \in Worlds(n), NEW m, Good(W, n, m), m.fib = Null,
         NEW p, Good(W, n, p), Differ(p.rows),
         NEW domain, domain # Null => IsSeq(domain.rows), Implodes(m, p, domain),
         NEW c, c = Tagged(m, p), NEW labels, labels = GroupLabels(c, "left_index", domain)
  PROVE  {labels[a] : a \in 1 .. Len(labels)} = GroupNames(p, domain)
<1>1. PICK left \in FieldNames : left = "left_index"
  BY DEF FieldNames
<1>2. /\ Good(W, n, c) /\ Len(c.rows) = Len(p.rows)
      /\ \A i \in 1 .. Len(p.rows) : c.rows[i].cell[left] = p.rows[i].cell[left]
  BY <1>1, TaggedIs
<1>3. IsSeq(c.rows) /\ IsSeq(p.rows)
  BY <1>2, GoodIs
<1>4. \A i \in 1 .. Len(p.rows) : p.rows[i].cell[left] # Null
  BY <1>1, <1>3, RowsAre DEF Implodes, NoNulls
<1>5. CASE domain = Null
  <2>1. labels = GroupLabels(c, left, Null)
    BY <1>1, <1>5
  <2>2. KeysOf(labels, p.rows, left)
    BY <1>2, <1>3, <1>4, <2>1, FoundNames
  <2>3. \A q : q \in RowSet(p) <=> \E i \in 1 .. Len(p.rows) : q = p.rows[i]
    BY <1>3, RowsAre
  <2>4. \A a \in 1 .. Len(labels) : \E q \in RowSet(p) : labels[a] = q.cell[left]
    BY <2>2, <2>3 DEF KeysOf
  <2>5. ASSUME NEW q \in RowSet(p)
        PROVE  \E a \in 1 .. Len(labels) : labels[a] = q.cell[left]
    <3>1. PICK i \in 1 .. Len(p.rows) : q = p.rows[i]
      BY <2>3
    <3>2. PICK a \in 1 .. Len(labels) : labels[a] = p.rows[i].cell[left]
      BY <2>2, <3>1 DEF KeysOf
    <3> QED BY <3>1, <3>2
  <2>6. {labels[a] : a \in 1 .. Len(labels)} = {q.cell[left] : q \in RowSet(p)}
    <3>1. PICK A, B : A = {labels[a] : a \in 1 .. Len(labels)} /\ B = {q.cell[left] : q \in RowSet(p)}
      OBVIOUS
    <3>2. \A v : v \in A <=> \E a \in 1 .. Len(labels) : v = labels[a]
      BY <3>1, Zenon
    <3>3. \A v : v \in B <=> \E q \in RowSet(p) : v = q.cell[left]
      BY <3>1, Zenon
    <3>4. ASSUME NEW v \in A PROVE v \in B
      BY <2>4, <3>2, <3>3, <3>4
    <3>5. ASSUME NEW v \in B PROVE v \in A
      BY <2>5, <3>2, <3>3, <3>5
    <3>6. A = B
      BY <3>4, <3>5
    <3> QED BY <3>1, <3>6
  <2> QED BY <1>1, <1>5, <2>6 DEF GroupNames
<1>6. CASE domain # Null
  <2>1. Len(labels) = Len(domain.rows) /\ \A a \in 1 .. Len(domain.rows) :
                                             labels[a] = domain.rows[a].lbl
    BY <1>1, <1>3, <1>6, GroupLabelsAre
  <2>2. \A r : r \in RowSet(domain) <=> \E i \in 1 .. Len(domain.rows) : r = domain.rows[i]
    BY <1>6, RowsAre
  <2> QED BY <1>6, <2>1, <2>2 DEF LabelsOf, GroupNames
<1> QED BY <1>5, <1>6

(* An implode of true datasets is what its plan states. *)
LEMMA ImplodesAsStated ==
  ASSUME NEW n \in Nat, NEW W \in Worlds(n), NEW m, Good(W, n, m), m.fib = Null,
         NEW p, Good(W, n, p), Differ(p.rows),
         NEW domain, domain # Null => IsSeq(domain.rows), Implodes(m, p, domain),
         NEW b, b = Implode(m, p, domain)
  PROVE  /\ LabelsOf(b) = GroupNames(p, domain)
         /\ \A r \in RowSet(b) :
              /\ Len(r.fiber) = Cardinality(Naming(p, r.lbl))
              /\ \A q \in Naming(p, r.lbl) : \E x \in ToSet(r.fiber) :
                    /\ x.lbl = q.lbl
                    /\ x.from = Through(Crossing(q, "right_index", m.id),
                                        RowAt(m, q.cell["right_index"]).from)
<1>1. PICK c : c = Tagged(m, p)
  OBVIOUS
<1>2. PICK left, fresh : left = "left_index" /\ fresh = 0
  OBVIOUS
<1>3. b = Partition(c, left, domain, fresh)
  BY <1>1, <1>2 DEF Implode, Tagged
<1>4. Good(W, n, c)
  BY <1>1, TaggedIs
<1>5. /\ c = [id |-> c.id, ix |-> c.ix, col |-> c.col, fib |-> c.fib, rows |-> c.rows]
      /\ IsSeq(c.rows)
  BY <1>4, GoodIs
<1>6. PICK labels : labels = GroupLabels(c, left, domain)
  OBVIOUS
<1>7. /\ IsSeq(b.rows) /\ Len(b.rows) = Len(labels)
      /\ \A i \in 1 .. Len(b.rows) :
            b.rows[i] = Row(labels[i], {}, NoCells, Group(c, left, labels[i]))
  BY <1>3, <1>5, <1>6, PartitionIs
<1>8. \A r : r \in RowSet(b) <=> \E i \in 1 .. Len(b.rows) : r = b.rows[i]
  BY <1>7, RowsAre
<1>9. \A i \in 1 .. Len(b.rows) : /\ b.rows[i].lbl = labels[i]
                                  /\ b.rows[i].fiber = Group(c, left, labels[i])
  <2> SUFFICES ASSUME NEW i \in 1 .. Len(b.rows)
               PROVE  /\ b.rows[i].lbl = labels[i]
                      /\ b.rows[i].fiber = Group(c, left, labels[i])
    OBVIOUS
  <2>1. PICK g, t : g = labels[i] /\ t = Group(c, left, labels[i])
    OBVIOUS
  <2>2. b.rows[i] = Row(g, {}, NoCells, t)
    BY <1>7, <2>1
  <2>3. b.rows[i].lbl = g /\ b.rows[i].fiber = t
    BY <2>2 DEF Row
  <2> QED BY <2>1, <2>3
<1>10. LabelsOf(b) = {labels[a] : a \in 1 .. Len(labels)}
  BY <1>7, <1>8, <1>9 DEF LabelsOf
<1>11. {labels[a] : a \in 1 .. Len(labels)} = GroupNames(p, domain)
  <2>1. labels = GroupLabels(c, "left_index", domain)
    BY <1>2, <1>6
  <2>2. domain # Null => IsSeq(domain.rows)
    OBVIOUS
  <2> QED BY <1>1, <2>1, <2>2, ImplodedLabels
<1>12. ASSUME NEW r \in RowSet(b)
       PROVE  /\ Len(r.fiber) = Cardinality(Naming(p, r.lbl))
              /\ \A q \in Naming(p, r.lbl) : \E x \in ToSet(r.fiber) :
                    /\ x.lbl = q.lbl
                    /\ x.from = Through(Crossing(q, "right_index", m.id),
                                        RowAt(m, q.cell["right_index"]).from)
  <2>1. PICK i \in 1 .. Len(b.rows) : r = b.rows[i]
    BY <1>8
  <2>2. PICK g, t : g = r.lbl /\ t = r.fiber
    OBVIOUS
  <2>3. t = Group(c, "left_index", g)
    BY <1>2, <1>9, <2>1, <2>2
  <2>4. /\ Len(t) = Cardinality(Naming(p, g))
        /\ \A q \in Naming(p, g) : \E x \in ToSet(t) :
              /\ x.lbl = q.lbl
              /\ x.from = Through(Crossing(q, "right_index", m.id),
                                  RowAt(m, q.cell["right_index"]).from)
    BY <1>1, <2>3, ImplodedGroup
  <2> QED BY <2>2, <2>4
<1> QED BY <1>10, <1>11, <1>12

(* Every implode the program can ask for is of true datasets. *)
LEMMA CollapsesAsStated == IInv => ImplodeIsTheRelation
<1> SUFFICES ASSUME IInv,
                    NEW m \in store, NEW p \in store, NEW domain \in store \cup {Null},
                    m.fib = Null, Implodes(m, p, domain),
                    NEW b, b = Implode(m, p, domain)
             PROVE  /\ LabelsOf(b) = GroupNames(p, domain)
                    /\ \A r \in RowSet(b) :
                         /\ Len(r.fiber) = Cardinality(Naming(p, r.lbl))
                         /\ \A q \in Naming(p, r.lbl) : \E x \in ToSet(r.fiber) :
                               /\ x.lbl = q.lbl
                               /\ x.from = Through(Crossing(q, "right_index", m.id),
                                                   RowAt(m, q.cell["right_index"]).from)
  BY SMTT(40) DEF ImplodeIsTheRelation, Naming, GroupNames
<1>1. PICK n \in Nat : n = minted
  BY HeldIsTrue
<1>2. PICK W \in Worlds(n) : \A e \in store : Good(W, n, e) /\ Differ(e.rows)
  BY <1>1, HeldIsTrue DEF Held
<1>3. domain # Null => IsSeq(domain.rows)
  BY <1>2, GoodIs
<1>4. Good(W, n, m) /\ Good(W, n, p) /\ Differ(p.rows)
  BY <1>2
<1> QED BY <1>3, <1>4, ImplodesAsStated

(* implode, made of explode, concat_columns and partition, is the relation *)
(* its plan states, whatever its member dataset, its plan and its domain   *)
(* have been through: a group holds one member row for each plan row that  *)
(* names it, and over a domain every group is there.                       *)
THEOREM ImplodingMeansTheRelation ==
  ASSUME Honest
  PROVE  Spec => []ImplodeIsTheRelation
BY OneWorld, CollapsesAsStated, PTL

-----------------------------------------------------------------------------
(* Reductions roll up.                                                     *)

(* The keys k of the rows S, and what says their h cells are cells.        *)
Keys(S, k) == {k[r] : r \in S}
Valued(S, h) == \A r \in S : r.cell[h] \in Cells

(* b groups the rows S by their keys k.                                    *)
Grouping(b, S, k) ==
    /\ IsSeq(b.rows) /\ Differ(b.rows)
    /\ LabelsOf(b) = Keys(S, k)
    /\ \A i \in 1 .. Len(b.rows) :
        /\ Once(b.rows[i].fiber, S)
        /\ ToSet(b.rows[i].fiber) = Part(S, k, b.rows[i].lbl)

(* What a row adds to a total. *)
Worth(r, f) == IF r.cell[f] = Null THEN 0 ELSE r.cell[f]

(* What reduce makes of a group, as a set of rows. *)
Summary(S, F, h) ==
    [count |-> Cardinality(F),
     total |-> SumFunctionOnSet([r \in S |-> Worth(r, h)], F),
     distinct |-> Cardinality({r.cell[h] : r \in F} \ {Null})]

(* A total over a fiber is the total over its rows. *)
LEMMA TotalIs ==
  ASSUME NEW S, NEW h, Valued(S, h), NEW t, Once(t, S)
  PROVE  Total(t, h) = SumFunctionOnSet([r \in S |-> Worth(r, h)], ToSet(t))
<1>1. PICK N \in Nat : N = Len(t)
  BY DEF Once
<1>2. DOMAIN t = 1 .. N /\ \A i \in 1 .. N : t[i] \in S
  BY <1>1 DEF Once
<1>3. PICK w : w = [r \in S |-> Worth(r, h)]
  OBVIOUS
<1>4. PICK q : q = [i \in DOMAIN t |-> IF t[i].cell[h] = Null THEN 0 ELSE t[i].cell[h]]
  OBVIOUS
<1>5. \A i \in 1 .. N : w[t[i]] = q[i]
  BY <1>2, <1>3, <1>4 DEF Worth
<1>6. \A i \in 1 .. N : q[i] \in Int
  <2>1. \A i \in 1 .. N : t[i].cell[h] \in Cells
    BY <1>2 DEF Valued
  <2> QED BY <1>2, <1>4, <2>1, RowPlansAssumption DEF Cells, Labels
<1>7. \A i, j \in 1 .. N : t[i] = t[j] => i = j
  <2>1. \A i, j \in 1 .. N : i < j \/ j < i \/ i = j
    OBVIOUS
  <2> QED BY <1>1, <2>1 DEF Once
<1>8. IsFiniteSet(1 .. N)
  BY FS_Interval
<1>9. SumFunctionOnSet(w, {t[i] : i \in 1 .. N}) = SumFunctionOnSet(q, 1 .. N)
  BY <1>5, <1>6, <1>7, <1>8, SumRenamed
<1>10. ToSet(t) = {t[i] : i \in 1 .. N} /\ DOMAIN q = 1 .. N
  BY <1>2, <1>4 DEF ToSet
<1>11. Total(t, h) = SumFunctionOnSet(q, DOMAIN q)
  BY <1>4 DEF Total, SumFunction
<1> QED BY <1>3, <1>9, <1>10, <1>11

(* red tells, for every key, the summary of its group. *)
Summaries(red, S, k, h) ==
    /\ DOMAIN red = Keys(S, k)
    /\ \A label \in Keys(S, k) : red[label] = Summary(S, Part(S, k, label), h)

(* reduce sums up each group. *)
LEMMA ReducedIs ==
  ASSUME NEW S, NEW k, NEW b, Grouping(b, S, k), NEW h, Valued(S, h)
  PROVE  Summaries(Reduce(b, h), S, k, h)
<1>1. DOMAIN Reduce(b, h) = Keys(S, k)
  BY DEF Reduce, Grouping
<1>2. ASSUME NEW label \in Keys(S, k)
      PROVE  Reduce(b, h)[label] = Summary(S, Part(S, k, label), h)
  <2>1. PICK row \in RowSet(b) : row.lbl = label
    BY DEF Grouping, LabelsOf
  <2>2. PICK i \in 1 .. Len(b.rows) : row = b.rows[i]
    BY RowsAre DEF Grouping
  <2>3. RowAt(b, label) = b.rows[i]
    BY <2>1, <2>2, RowAtOwnLabel DEF Grouping
  <2>4. PICK t : t = b.rows[i].fiber
    OBVIOUS
  <2>5. Once(t, S) /\ ToSet(t) = Part(S, k, label)
    BY <2>1, <2>2, <2>4 DEF Grouping
  <2>6. Count(t) = Cardinality(ToSet(t))
    BY <2>5, OnceCounts DEF Count
  <2>7. Total(t, h) = SumFunctionOnSet([r \in S |-> Worth(r, h)], ToSet(t))
    BY <2>5, TotalIs
  <2>8. Distinct(t, h) = Cardinality({r.cell[h] : r \in ToSet(t)} \ {Null})
    BY DEF Distinct
  <2>9. Reduce(b, h)[label] =
            [count |-> Count(t), total |-> Total(t, h), distinct |-> Distinct(t, h)]
    BY <2>3, <2>4 DEF Reduce, Grouping
  <2> QED BY <2>5, <2>6, <2>7, <2>8, <2>9 DEF Summary
<1> QED BY <1>1, <1>2 DEF Summaries

(* A union has no more elements than its parts together. *)
LEMMA UnionBound ==
  ASSUME NEW J, IsFiniteSet(J), NEW D, \A j \in J : IsFiniteSet(D[j]),
         NEW c, \A j \in J : c[j] = Cardinality(D[j])
  PROVE  Cardinality(UNION {D[j] : j \in J}) <= SumFunctionOnSet(c, J)
<1> DEFINE U(s) == UNION {D[j] : j \in s}
           T == {s \in SUBSET J : IsFiniteSet(U(s)) /\ Cardinality(U(s)) <= SumFunctionOnSet(c, s)}
<1>1. ASSUME NEW s \in SUBSET J, \A x \in s : s \ {x} \in T PROVE s \in T
  <2>1. IsFiniteSet(s) /\ \A j \in s : c[j] \in Int
    BY FS_Subset, FS_CardinalityType
  <2>2. CASE s = {}
    <3>1. U(s) = {}
      BY <2>2
    <3> QED BY <2>2, <3>1, SumEmpty, FS_EmptySet
  <2>3. CASE s # {}
    <3>1. PICK x \in s : TRUE
      BY <2>3
    <3>2. PICK r \in SUBSET J : r = s \ {x}
      OBVIOUS
    <3>3. PICK A, B : A = U(r) /\ B = D[x]
      OBVIOUS
    <3>4. U(s) = A \cup B
      BY <3>1, <3>2, <3>3
    <3>5. SumFunctionOnSet(c, s) = c[x] + SumFunctionOnSet(c, r)
      BY <2>1, <3>1, <3>2, SumTakes
    <3>6. IsFiniteSet(A) /\ Cardinality(A) <= SumFunctionOnSet(c, r)
      BY <1>1, <3>1, <3>2, <3>3
    <3>7. IsFiniteSet(B) /\ c[x] = Cardinality(B)
      BY <3>1, <3>3
    <3>8. IsFiniteSet(A \cup B) /\ Cardinality(A \cup B) <= Cardinality(A) + Cardinality(B)
      <4>1. /\ IsFiniteSet(A \cup B) /\ Cardinality(A \cap B) \in Nat
            /\ Cardinality(A \cup B) = Cardinality(A) + Cardinality(B) - Cardinality(A \cap B)
        <5>1. IsFiniteSet(A \cap B)
          BY <3>6, FS_Subset
        <5> QED BY <3>6, <3>7, <5>1, FS_Union, FS_CardinalityType
      <4> QED BY <3>6, <3>7, <4>1, FS_CardinalityType
    <3>9. SumFunctionOnSet(c, r) \in Int
      <4>1. IsFiniteSet(r) /\ \A j \in r : c[j] \in Int
        BY <2>1, <3>2, FS_Subset
      <4> QED BY <4>1, SumTakes
    <3>10. /\ Cardinality(A) \in Nat /\ Cardinality(B) \in Nat
           /\ Cardinality(A \cup B) \in Nat
      BY <3>6, <3>7, <3>8, FS_CardinalityType
    <3>11. Cardinality(A \cup B) <= SumFunctionOnSet(c, s)
      BY <3>5, <3>6, <3>7, <3>8, <3>9, <3>10
    <3> QED BY <3>4, <3>8, <3>11
  <2> QED BY <2>2, <2>3
<1> HIDE DEF T
<1>2. \A s \in SUBSET J : s \in T
  BY <1>1, SubsetInduction, Zenon
<1> QED BY <1>2 DEF T

(* The keys of the fine groups that are part of the coarse group x. *)
Within(fine, x) == {key \in DOMAIN fine : key[1] = x}

(* What the fine groups within x add up to, for a coarse group. *)
AddsUp(fine, J, whole) ==
    /\ whole.count = SumFunction([key \in J |-> fine[key].count])
    /\ whole.total = SumFunction([key \in J |-> fine[key].total])
    /\ whole.distinct <= SumFunction([key \in J |-> fine[key].distinct])

(* The summaries of the groups of F add up to the summary of F. *)
LEMMA SummariesAddUp ==
  ASSUME NEW S, NEW F \in SUBSET S, IsFiniteSet(F), NEW h, Valued(S, h), NEW l,
         NEW J, J = Keys(F, l),
         NEW fine, \A key \in J : fine[key] = Summary(S, Part(F, l, key), h)
  PROVE  AddsUp(fine, J, Summary(S, F, h))
<1>1. (\A r \in F : l[r] \in J) /\ IsFiniteSet(J)
  <2>1. [r \in F |-> l[r]] \in Surjection(F, J)
    BY DEF Surjection, Keys
  <2>2. \A r \in F : l[r] \in J
    BY DEF Keys
  <2> QED BY <2>1, <2>2, FS_Surjection
<1>2. ASSUME NEW key \in J
      PROVE  LET G == Part(F, l, key) IN
             /\ IsFiniteSet(G) /\ G \subseteq F
             /\ fine[key].count = Cardinality(G)
             /\ fine[key].total = SumFunctionOnSet([r \in S |-> Worth(r, h)], G)
             /\ fine[key].distinct = Cardinality({r.cell[h] : r \in G} \ {Null})
  <2>1. PICK G : G = Part(F, l, key)
    OBVIOUS
  <2>2. IsFiniteSet(G) /\ G \subseteq F
    BY <2>1, FS_Subset DEF Part
  <2>3. fine[key] = Summary(S, G, h)
    BY <2>1
  <2> QED BY <2>1, <2>2, <2>3 DEF Summary
<1>3. Summary(S, F, h).count = SumFunction([key \in J |-> fine[key].count])
  <2>1. PICK v : v = [r \in F |-> 1]
    OBVIOUS
  <2>2. PICK t : t = [key \in J |-> fine[key].count]
    OBVIOUS
  <2>3. SumFunctionOnSet(v, F) = Cardinality(F)
    <3>1. \A r \in F : v[r] = 1
      BY <2>1
    <3> QED BY <3>1, SumConstant
  <2>4. ASSUME NEW key \in J PROVE t[key] = SumFunctionOnSet(v, Part(F, l, key))
    <3>1. PICK G : G = Part(F, l, key)
      OBVIOUS
    <3>2. IsFiniteSet(G) /\ \A r \in G : v[r] = 1
      BY <1>2, <2>1, <3>1
    <3>3. SumFunctionOnSet(v, G) = Cardinality(G)
      BY <3>2, SumConstant
    <3>4. t[key] = Cardinality(G)
      BY <1>2, <2>2, <3>1
    <3> QED BY <3>1, <3>3, <3>4
  <2>5. GroupSums(t, J, v, F, l)
    <3>1. \A r \in F : v[r] \in Int
      BY <2>1
    <3> QED BY <1>1, <2>4, <3>1 DEF GroupSums
  <2>6. SumFunctionOnSet(t, J) = SumFunctionOnSet(v, F)
    BY <1>1, <2>5, SumOfParts
  <2>7. SumFunction(t) = SumFunctionOnSet(t, J)
    BY <2>2 DEF SumFunction
  <2>8. Summary(S, F, h).count = Cardinality(F)
    BY DEF Summary
  <2> QED BY <2>2, <2>3, <2>6, <2>7, <2>8
<1>4. Summary(S, F, h).total = SumFunction([key \in J |-> fine[key].total])
  <2>1. PICK v : v = [r \in S |-> Worth(r, h)]
    OBVIOUS
  <2>2. PICK t : t = [key \in J |-> fine[key].total]
    OBVIOUS
  <2>3. ASSUME NEW key \in J PROVE t[key] = SumFunctionOnSet(v, Part(F, l, key))
    BY <1>2, <2>1, <2>2
  <2>4. GroupSums(t, J, v, F, l)
    <3>1. \A r \in F : r.cell[h] \in Cells
      BY DEF Valued
    <3>2. \A r \in F : v[r] = Worth(r, h)
      BY <2>1
    <3>3. \A r \in F : v[r] \in Int
      BY <3>1, <3>2, RowPlansAssumption DEF Worth, Cells, Labels
    <3> QED BY <1>1, <2>3, <3>3 DEF GroupSums
  <2>5. SumFunctionOnSet(t, J) = SumFunctionOnSet(v, F)
    BY <1>1, <2>4, SumOfParts
  <2>6. SumFunction(t) = SumFunctionOnSet(t, J)
    BY <2>2 DEF SumFunction
  <2>7. Summary(S, F, h).total = SumFunctionOnSet(v, F)
    BY <2>1 DEF Summary
  <2> QED BY <2>2, <2>5, <2>6, <2>7
<1>5. Summary(S, F, h).distinct <= SumFunction([key \in J |-> fine[key].distinct])
  <2>1. PICK t : t = [key \in J |-> fine[key].distinct]
    OBVIOUS
  <2>2. PICK D : D = [key \in J |-> {r.cell[h] : r \in Part(F, l, key)} \ {Null}]
    OBVIOUS
  <2>3. ASSUME NEW key \in J PROVE IsFiniteSet(D[key]) /\ t[key] = Cardinality(D[key])
    <3>1. PICK G : G = Part(F, l, key)
      OBVIOUS
    <3>2. IsFiniteSet(G)
      BY <1>2, <3>1
    <3>3. PICK C : C = {r.cell[h] : r \in G}
      OBVIOUS
    <3>4. [r \in G |-> r.cell[h]] \in Surjection(G, C)
      BY <3>3 DEF Surjection
    <3>5. IsFiniteSet(C)
      BY <3>2, <3>4, FS_Surjection
    <3>6. D[key] = C \ {Null}
      BY <2>2, <3>1, <3>3
    <3>7. t[key] = Cardinality(D[key])
      BY <1>2, <2>1, <3>1, <3>3, <3>6
    <3> QED BY <3>5, <3>6, <3>7, FS_Subset
  <2>4. UNION {D[key] : key \in J} = {r.cell[h] : r \in F} \ {Null}
    <3>1. ASSUME NEW key \in J PROVE D[key] = {r.cell[h] : r \in Part(F, l, key)} \ {Null}
      BY <2>2
    <3>2. \A r \in F : r \in Part(F, l, l[r])
      BY DEF Part
    <3>3. \A key \in J : Part(F, l, key) \subseteq F
      BY DEF Part
    <3> QED BY <1>1, <3>1, <3>2, <3>3
  <2>5. Cardinality(UNION {D[key] : key \in J}) <= SumFunctionOnSet(t, J)
    BY <1>1, <2>3, UnionBound
  <2>6. SumFunction(t) = SumFunctionOnSet(t, J)
    BY <2>1 DEF SumFunction
  <2>7. Summary(S, F, h).distinct = Cardinality({r.cell[h] : r \in F} \ {Null})
    BY DEF Summary
  <2> QED BY <2>1, <2>4, <2>5, <2>6, <2>7
<1> QED BY <1>3, <1>4, <1>5 DEF AddsUp

(* Groups of groups. *)
LEMMA RollsUp ==
  ASSUME NEW S, IsFiniteSet(S), NEW h, Valued(S, h),
         NEW k, NEW l, \A r \in S : l[r][1] = k[r],
         NEW b, Grouping(b, S, k), NEW e, Grouping(e, S, l),
         NEW fine, fine = Reduce(e, h), NEW coarse, coarse = Reduce(b, h)
  PROVE  RollsUpTo(fine, coarse)
<1>1. Summaries(fine, S, l, h) /\ Summaries(coarse, S, k, h)
  BY ReducedIs
<1>2. DOMAIN fine = Keys(S, l) /\ DOMAIN coarse = Keys(S, k)
  BY <1>1 DEF Summaries
<1>3. {key[1] : key \in DOMAIN fine} = DOMAIN coarse
  BY <1>2 DEF Keys
<1>4. ASSUME NEW x \in DOMAIN coarse
      PROVE  AddsUp(fine, Within(fine, x), coarse[x])
  <2>1. PICK F : F = Part(S, k, x)
    OBVIOUS
  <2>2. IsFiniteSet(F) /\ F \in SUBSET S
    BY <2>1, FS_Subset DEF Part
  <2>3. PICK J : J = Within(fine, x)
    OBVIOUS
  <2>4. J = Keys(F, l)
    BY <1>2, <2>1, <2>3 DEF Within, Keys, Part
  <2>5. \A key \in J : Part(S, l, key) = Part(F, l, key)
    BY <2>1, <2>3 DEF Part, Within
  <2>6. \A key \in J : fine[key] = Summary(S, Part(F, l, key), h)
    <3>1. \A key \in J : fine[key] = Summary(S, Part(S, l, key), h)
      BY <1>1, <1>2, <2>3 DEF Summaries, Within
    <3> QED BY <2>5, <3>1
  <2>7. coarse[x] = Summary(S, F, h)
    BY <1>1, <1>2, <2>1 DEF Summaries
  <2>8. AddsUp(fine, J, Summary(S, F, h))
    BY <2>2, <2>4, <2>6, SummariesAddUp
  <2> QED BY <2>3, <2>7, <2>8
<1> QED BY <1>3, <1>4 DEF RollsUpTo, AddsUp, Within

(* P is where the members of s are in Q. *)
Places(P, s, Q) == P = {i \in DOMAIN s : s[i] \in Q}

(* The members chosen there. *)
LEMMA ChosenSet ==
  ASSUME NEW s, IsSeq(s), NEW Q, NEW P, Places(P, s, Q)
  PROVE  /\ IsSeq(Chosen(s, P)) /\ (Differ(s) => Differ(Chosen(s, P)))
         /\ ToSet(Chosen(s, P)) = ToSet(s) \cap Q
<1>1. PICK N \in Nat : N = Len(s) /\ DOMAIN s = 1 .. N
  BY DEF IsSeq
<1>2. PICK c : c = Chosen(s, P)
  OBVIOUS
<1>3. /\ IsSeq(c) /\ (Differ(s) => Differ(c))
      /\ \A a \in 1 .. Len(c) : \E i \in 1 .. Len(s) : i \in P /\ c[a] = s[i]
      /\ \A i \in 1 .. Len(s) : i \in P => \E a \in 1 .. Len(c) : c[a] = s[i]
  <2>1. /\ IsSeq(Chosen(s, P))
        /\ \A a \in 1 .. Len(Chosen(s, P)) :
              \E i \in 1 .. Len(s) : i \in P /\ Chosen(s, P)[a] = s[i]
        /\ \A i \in 1 .. Len(s) : i \in P =>
              \E a \in 1 .. Len(Chosen(s, P)) : Chosen(s, P)[a] = s[i]
        /\ Differ(s) => Differ(Chosen(s, P))
    BY ChosenRows, Zenon
  <2> QED BY <1>2, <2>1, Zenon
<1>4. PICK K \in Nat : K = Len(c) /\ DOMAIN c = 1 .. K
  BY <1>3 DEF IsSeq
<1>5. ToSet(c) = {c[a] : a \in 1 .. K} /\ ToSet(s) = {s[i] : i \in 1 .. N}
  BY <1>1, <1>4 DEF ToSet
<1>6. \A a \in 1 .. K : \E i \in 1 .. N : c[a] = s[i] /\ s[i] \in Q
  BY <1>1, <1>3, <1>4 DEF Places
<1>7. \A i \in 1 .. N : s[i] \in Q => \E a \in 1 .. K : c[a] = s[i]
  BY <1>1, <1>3, <1>4 DEF Places
<1>8. \A x : x \in ToSet(c) <=> x \in ToSet(s) /\ x \in Q
  BY <1>5, <1>6, <1>7
<1>9. ToSet(c) = ToSet(s) \cap Q
  BY <1>8
<1> QED BY <1>2, <1>3, <1>9

(* b holds the rows under their keys k, each key once. *)
Grouped(b, rows, k, labels) ==
    /\ labels = FirstAppearances([i \in DOMAIN rows |-> k[rows[i]]])
    /\ b.rows = [i \in DOMAIN labels |->
                    Row(labels[i], {}, NoCells,
                        Chosen(rows, {m \in DOMAIN rows : k[rows[m]] = labels[i]}))]

(* Then b groups them. *)
LEMMA GroupedIs ==
  ASSUME NEW rows, IsSeq(rows), Differ(rows), NEW k, NEW labels,
         NEW b, Grouped(b, rows, k, labels)
  PROVE  Grouping(b, ToSet(rows), k)
<1>0. PICK S : S = ToSet(rows)
  OBVIOUS
<1>1. PICK N \in Nat : N = Len(rows) /\ DOMAIN rows = 1 .. N
  BY DEF IsSeq
<1>2. S = {rows[i] : i \in 1 .. N}
  BY <1>0, <1>1 DEF ToSet
<1>3. PICK keys : keys = [i \in 1 .. N |-> k[rows[i]]]
  OBVIOUS
<1>4. IsSeq(keys) /\ Len(keys) = N /\ labels = FirstAppearances(keys)
  BY <1>1, <1>3 DEF IsSeq, Grouped
<1>5. /\ IsSeq(labels)
      /\ \A a \in 1 .. Len(labels) : \E i \in 1 .. Len(keys) : labels[a] = keys[i]
      /\ \A i \in 1 .. Len(keys) : \E a \in 1 .. Len(labels) : labels[a] = keys[i]
      /\ \A a, c \in 1 .. Len(labels) : labels[a] = labels[c] => a = c
  <2>1. /\ IsSeq(FirstAppearances(keys))
        /\ \A a \in 1 .. Len(FirstAppearances(keys)) :
              \E i \in 1 .. Len(keys) : FirstAppearances(keys)[a] = keys[i]
        /\ \A i \in 1 .. Len(keys) :
              \E a \in 1 .. Len(FirstAppearances(keys)) : FirstAppearances(keys)[a] = keys[i]
        /\ \A a, c \in 1 .. Len(FirstAppearances(keys)) :
              FirstAppearances(keys)[a] = FirstAppearances(keys)[c] => a = c
    BY <1>4, FirstOnce, Zenon
  <2> QED BY <1>4, <2>1, Zenon
<1>6. PICK K \in Nat : K = Len(labels) /\ DOMAIN labels = 1 .. K
  BY <1>5 DEF IsSeq
<1>7. PICK t : t = b.rows
  OBVIOUS
<1>8. IsSeq(t) /\ Len(t) = K /\ DOMAIN t = 1 .. K
  BY <1>6, <1>7 DEF IsSeq, Grouped
<1>9. ASSUME NEW i \in 1 .. K
      PROVE  /\ t[i].lbl = labels[i]
             /\ Once(t[i].fiber, S)
             /\ ToSet(t[i].fiber) = Part(S, k, labels[i])
  <2>1. PICK P : P = {m \in DOMAIN rows : k[rows[m]] = labels[i]}
    OBVIOUS
  <2>2. PICK Q : Q = {r \in S : k[r] = labels[i]}
    OBVIOUS
  <2>3. Places(P, rows, Q)
    BY <1>1, <1>2, <2>1, <2>2 DEF Places
  <2>4. PICK fiber : fiber = Chosen(rows, P)
    OBVIOUS
  <2>5. t[i] = Row(labels[i], {}, NoCells, fiber)
    BY <1>6, <1>7, <2>1, <2>4 DEF Grouped
  <2>6. t[i].lbl = labels[i] /\ t[i].fiber = fiber
    BY <2>5 DEF Row
  <2>7. IsSeq(fiber) /\ Differ(fiber) /\ ToSet(fiber) = ToSet(rows) \cap Q
    BY <2>3, <2>4, ChosenSet
  <2>8. ToSet(fiber) = Q
    BY <1>0, <2>2, <2>7
  <2>9. \A a \in 1 .. Len(fiber) : fiber[a] \in S
    <3>1. DOMAIN fiber = 1 .. Len(fiber)
      BY <2>7 DEF IsSeq
    <3>2. \A a \in DOMAIN fiber : fiber[a] \in ToSet(fiber)
      BY DEF ToSet
    <3> QED BY <2>2, <2>8, <3>1, <3>2
  <2>10. Once(fiber, S)
    BY <2>7, <2>9, DifferOnce
  <2> QED BY <2>2, <2>6, <2>8, <2>10 DEF Part
<1>10. Differ(t)
  BY <1>5, <1>6, <1>8, <1>9 DEF Differ
<1>11. LabelsOf(b) = {labels[i] : i \in 1 .. K}
  <2>1. RowSet(b) = {t[i] : i \in 1 .. K}
    BY <1>7, <1>8 DEF RowSet, ToSet
  <2> QED BY <1>9, <2>1 DEF LabelsOf
<1>12. {labels[i] : i \in 1 .. K} = Keys(S, k)
  <2>1. Keys(S, k) = {keys[i] : i \in 1 .. N}
    BY <1>2, <1>3 DEF Keys
  <2>2. /\ \A a \in 1 .. K : \E i \in 1 .. N : labels[a] = keys[i]
        /\ \A i \in 1 .. N : \E a \in 1 .. K : labels[a] = keys[i]
    BY <1>4, <1>5, <1>6
  <2> QED BY <2>1, <2>2
<1> QED BY <1>0, <1>7, <1>8, <1>9, <1>10, <1>11, <1>12 DEF Grouping

(* The rows with both keys, and the two ways of grouping them. *)
Both(d, f, g) == {r \in RowSet(d) : r.cell[f] # Null /\ r.cell[g] # Null}
ByOne(S, f) == [r \in S |-> r.cell[f]]
ByTwo(S, f, g) == [r \in S |-> <<r.cell[f], r.cell[g]>>]

IsDataset(d) == d = [id |-> d.id, ix |-> d.ix, col |-> d.col, fib |-> d.fib, rows |-> d.rows]

(* The rows kept are the rows with a key. *)
LEMMA KeyedRows ==
  ASSUME NEW d, IsDataset(d), IsSeq(d.rows), Differ(d.rows), NEW f,
         NEW e, e = Keyed(d, f)
  PROVE  /\ IsDataset(e) /\ e.rows = Kept(d, f)
         /\ IsSeq(e.rows) /\ Differ(e.rows)
         /\ RowSet(e) = {r \in RowSet(d) : r.cell[f] # Null}
<1>1. PICK P : P = {i \in DOMAIN d.rows : d.rows[i].cell[f] # Null}
  OBVIOUS
<1>2. PICK Q : Q = {r \in ToSet(d.rows) : r.cell[f] # Null}
  OBVIOUS
<1>3. Places(P, d.rows, Q)
  BY <1>1, <1>2 DEF Places, ToSet
<1>4. PICK kept : kept = Chosen(d.rows, P)
  OBVIOUS
<1>5. IsSeq(kept) /\ Differ(kept) /\ ToSet(kept) = ToSet(d.rows) \cap Q
  BY <1>3, <1>4, ChosenSet
<1>6. e = [id |-> d.id, ix |-> d.ix, col |-> d.col, fib |-> d.fib, rows |-> kept]
  BY <1>1, <1>4 DEF Keyed, IsDataset
<1>7. e.rows = kept /\ IsDataset(e)
  BY <1>6 DEF IsDataset
<1>8. kept = Kept(d, f)
  BY <1>1, <1>4 DEF Kept
<1>9. ToSet(kept) = Q
  BY <1>2, <1>5
<1> QED BY <1>2, <1>5, <1>7, <1>8, <1>9 DEF RowSet

(* partition groups by one key. *)
LEMMA GroupedByOne ==
  ASSUME NEW d, IsDataset(d), IsSeq(d.rows), Differ(d.rows), NEW f, NEW g, NEW fresh
  PROVE  Grouping(Partition(Keyed(d, g), f, Null, fresh), Both(d, f, g),
                  ByOne(Both(d, f, g), f))
<1>1. PICK S : S = Both(d, f, g)
  OBVIOUS
<1>2. PICK k : k = ByOne(S, f)
  OBVIOUS
<1>3. PICK e : e = Keyed(d, g)
  OBVIOUS
<1>4. /\ IsDataset(e) /\ IsSeq(e.rows) /\ Differ(e.rows)
      /\ RowSet(e) = {r \in RowSet(d) : r.cell[g] # Null}
  BY <1>3, KeyedRows
<1>5. PICK rows : rows = Keyed(e, f).rows
  OBVIOUS
<1>6. /\ IsSeq(rows) /\ Differ(rows)
      /\ ToSet(rows) = {r \in RowSet(e) : r.cell[f] # Null}
  BY <1>4, <1>5, KeyedRows DEF RowSet
<1>7. ToSet(rows) = S
  BY <1>1, <1>4, <1>6 DEF Both
<1>8. \A i \in DOMAIN rows : rows[i].cell[f] = k[rows[i]]
  <2>1. \A i \in DOMAIN rows : rows[i] \in S
    BY <1>7 DEF ToSet
  <2> QED BY <1>2, <2>1 DEF ByOne
<1>9. PICK labels : labels = FirstAppearances([i \in DOMAIN rows |-> k[rows[i]]])
  OBVIOUS
<1>10. [i \in DOMAIN rows |-> rows[i].cell[f]] = [i \in DOMAIN rows |-> k[rows[i]]]
  BY <1>8
<1>11. labels = FirstAppearances([i \in DOMAIN rows |-> rows[i].cell[f]])
  BY <1>9, <1>10, Zenon
<1>12. PICK b : b = Partition(e, f, Null, fresh)
  OBVIOUS
<1>13. b = [id |-> IF e.col[f].type = "foreign" THEN e.col[f].of ELSE fresh,
            ix |-> f, col |-> NoColumns, fib |-> Header(e),
            rows |-> [i \in DOMAIN labels |->
                Row(labels[i], {}, NoCells,
                    Chosen(rows, {m \in DOMAIN rows : rows[m].cell[f] = labels[i]}))]]
  BY <1>5, <1>11, <1>12 DEF Partition
<1>14. b.rows = [i \in DOMAIN labels |->
                    Row(labels[i], {}, NoCells,
                        Chosen(rows, {m \in DOMAIN rows : rows[m].cell[f] = labels[i]}))]
  BY <1>13
<1>15. \A i \in DOMAIN labels : {m \in DOMAIN rows : rows[m].cell[f] = labels[i]}
                              = {m \in DOMAIN rows : k[rows[m]] = labels[i]}
  BY <1>8
<1>16. b.rows = [i \in DOMAIN labels |->
                    Row(labels[i], {}, NoCells,
                        Chosen(rows, {m \in DOMAIN rows : k[rows[m]] = labels[i]}))]
  BY <1>14, <1>15
<1>17. Grouped(b, rows, k, labels)
  BY <1>9, <1>16 DEF Grouped
<1> QED BY <1>1, <1>2, <1>3, <1>6, <1>7, <1>12, <1>17, GroupedIs

(* And by two. *)
LEMMA GroupedByTwo ==
  ASSUME NEW d, IsDataset(d), IsSeq(d.rows), Differ(d.rows), NEW f, NEW g, NEW fresh
  PROVE  Grouping(PartitionByAll(d, <<f, g>>, fresh), Both(d, f, g),
                  ByTwo(Both(d, f, g), f, g))
<1>1. PICK S : S = Both(d, f, g)
  OBVIOUS
<1>2. PICK k : k = ByTwo(S, f, g)
  OBVIOUS
<1>3. PICK by : by = <<f, g>>
  OBVIOUS
<1>4. \A r : KeyOf(r, by) = <<r.cell[f], r.cell[g]>>
  BY <1>3 DEF KeyOf
<1>5. \A r : Null \notin ToSet(KeyOf(r, by)) <=> r.cell[f] # Null /\ r.cell[g] # Null
  <2>1. \A x, y : ToSet(<<x, y>>) = {x, y}
    BY DEF ToSet
  <2>2. \A r : ToSet(KeyOf(r, by)) = {r.cell[f], r.cell[g]}
    BY <1>4, <2>1, Zenon
  <2> QED BY <2>2
<1>6. PICK P : P = {m \in DOMAIN d.rows : Null \notin ToSet(KeyOf(d.rows[m], by))}
  OBVIOUS
<1>7. Places(P, d.rows, S)
  <2>1. \A m \in DOMAIN d.rows : d.rows[m] \in RowSet(d)
    BY DEF ToSet, RowSet
  <2> QED BY <1>1, <1>5, <1>6, <2>1 DEF Places, Both
<1>8. PICK rows : rows = Chosen(d.rows, P)
  OBVIOUS
<1>9. IsSeq(rows) /\ Differ(rows) /\ ToSet(rows) = ToSet(d.rows) \cap S
  BY <1>7, <1>8, ChosenSet
<1>10. ToSet(rows) = S
  BY <1>1, <1>9 DEF Both, RowSet
<1>11. \A i \in DOMAIN rows : KeyOf(rows[i], by) = k[rows[i]]
  <2>1. \A i \in DOMAIN rows : rows[i] \in S
    BY <1>10 DEF ToSet
  <2> QED BY <1>2, <1>4, <2>1 DEF ByTwo
<1>12. PICK labels : labels = FirstAppearances([i \in DOMAIN rows |-> k[rows[i]]])
  OBVIOUS
<1>13. [i \in DOMAIN rows |-> KeyOf(rows[i], by)] = [i \in DOMAIN rows |-> k[rows[i]]]
  BY <1>11
<1>14. labels = FirstAppearances([i \in DOMAIN rows |-> KeyOf(rows[i], by)])
  BY <1>12, <1>13, Zenon
<1>15. PICK b : b = PartitionByAll(d, by, fresh)
  OBVIOUS
<1>16. b = [id |-> fresh, ix |-> "key", col |-> NoColumns, fib |-> Header(d),
            rows |-> [i \in DOMAIN labels |->
                Row(labels[i], {}, NoCells,
                    Chosen(rows, {m \in DOMAIN rows : KeyOf(rows[m], by) = labels[i]}))]]
  BY <1>6, <1>8, <1>14, <1>15 DEF PartitionByAll
<1>17. b.rows = [i \in DOMAIN labels |->
                    Row(labels[i], {}, NoCells,
                        Chosen(rows, {m \in DOMAIN rows : KeyOf(rows[m], by) = labels[i]}))]
  BY <1>16
<1>18. \A i \in DOMAIN labels : {m \in DOMAIN rows : KeyOf(rows[m], by) = labels[i]}
                              = {m \in DOMAIN rows : k[rows[m]] = labels[i]}
  BY <1>11
<1>19. b.rows = [i \in DOMAIN labels |->
                    Row(labels[i], {}, NoCells,
                        Chosen(rows, {m \in DOMAIN rows : k[rows[m]] = labels[i]}))]
  BY <1>17, <1>18
<1>20. Grouped(b, rows, k, labels)
  BY <1>12, <1>19 DEF Grouped
<1> QED BY <1>1, <1>2, <1>3, <1>9, <1>10, <1>15, <1>20, GroupedIs

(* The reductions of a true dataset roll up. *)
LEMMA DatasetRollsUp ==
  ASSUME NEW n, NEW W, NEW d, Good(W, n, d), Differ(d.rows),
         NEW f, NEW g, NEW h \in FieldNames, NEW fresh
  PROVE  RollsUpTo(Reduce(PartitionByAll(d, <<f, g>>, fresh), h),
                   Reduce(Partition(Keyed(d, g), f, Null, fresh), h))
<1>1. /\ IsDataset(d) /\ IsSeq(d.rows)
      /\ \A i \in 1 .. Len(d.rows) : RowTold(W, n, d, d.rows[i])
  BY GoodIs DEF IsDataset
<1>2. PICK S : S = Both(d, f, g)
  OBVIOUS
<1>3. PICK N \in Nat : N = Len(d.rows)
  BY <1>1 DEF IsSeq
<1>4. RowSet(d) = {d.rows[i] : i \in 1 .. N}
  BY <1>1, <1>3 DEF RowSet, ToSet, IsSeq
<1>5. IsFiniteSet(S)
  <2>1. IsFiniteSet(1 .. N)
    BY FS_Interval
  <2>2. [i \in 1 .. N |-> d.rows[i]] \in Surjection(1 .. N, RowSet(d))
    BY <1>4 DEF Surjection
  <2>3. IsFiniteSet(RowSet(d))
    BY <2>1, <2>2, FS_Surjection
  <2>4. S \subseteq RowSet(d)
    BY <1>2 DEF Both
  <2> QED BY <2>3, <2>4, FS_Subset
<1>6. Valued(S, h)
  <2>1. \A i \in 1 .. N : d.rows[i].cell[h] \in Cells
    BY <1>1, <1>3 DEF RowTold, Tells, IsRow
  <2>2. S \subseteq {d.rows[i] : i \in 1 .. N}
    BY <1>2, <1>4 DEF Both
  <2> QED BY <2>1, <2>2 DEF Valued
<1>7. PICK k : k = ByOne(S, f)
  OBVIOUS
<1>8. PICK l : l = ByTwo(S, f, g)
  OBVIOUS
<1>9. PICK b : b = Partition(Keyed(d, g), f, Null, fresh)
  OBVIOUS
<1>10. PICK e : e = PartitionByAll(d, <<f, g>>, fresh)
  OBVIOUS
<1>11. Grouping(b, S, k)
  BY <1>1, <1>2, <1>7, <1>9, GroupedByOne
<1>12. Grouping(e, S, l)
  BY <1>1, <1>2, <1>8, <1>10, GroupedByTwo
<1>13. \A r \in S : l[r][1] = k[r]
  BY <1>7, <1>8 DEF ByOne, ByTwo
<1>14. RollsUpTo(Reduce(e, h), Reduce(b, h))
  BY <1>5, <1>6, <1>11, <1>12, <1>13, RollsUp
<1> QED BY <1>9, <1>10, <1>14

(* Every dataset held is true, and one that is can be reduced. *)
LEMMA ReductionsAddUp == IInv => ReductionsRollUp
<1> SUFFICES ASSUME IInv,
                    NEW d \in store, NEW f \in Columns(d), NEW g \in Columns(d),
                    NEW h \in Columns(d)
             PROVE  RollsUpTo(Reduce(PartitionByAll(d, <<f, g>>, minted + 1), h),
                              Reduce(Partition(Keyed(d, g), f, Null, minted + 1), h))
  BY DEF ReductionsRollUp
<1>1. PICK n \in Nat : n = minted
  BY HeldIsTrue
<1>2. PICK W \in Worlds(n) : \A e \in store : Good(W, n, e) /\ Differ(e.rows)
  BY <1>1, HeldIsTrue DEF Held
<1>3. h \in FieldNames
  BY DEF Columns
<1>4. PICK fresh : fresh = minted + 1
  OBVIOUS
<1> QED BY <1>2, <1>3, <1>4, DatasetRollsUp

(* reduce by two keys, rolled up over the second, counts and adds up what  *)
(* reduce by the first does, whatever the dataset has been through; its    *)
(* distinct counts only bound the coarser ones.                            *)
THEOREM ReductionsAddUpAsStated ==
  ASSUME Honest
  PROVE  Spec => []ReductionsRollUp
BY OneWorld, ReductionsAddUp, PTL
=============================================================================
