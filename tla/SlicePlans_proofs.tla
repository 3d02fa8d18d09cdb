-------------------------- MODULE SlicePlans_proofs --------------------------
(***************************************************************************)
(* What windows, filters and correspondences keep, for any slices, any     *)
(* windows and any terms.                                                  *)
(***************************************************************************)
EXTENDS SlicePlans, Induction

-----------------------------------------------------------------------------
(* Slice arrays                                                            *)

Extents == Int \X Int

Layer(array, l) == array.layers[l]

(* A column has a value for each of N rows.                                *)
IsColumn(column, N) == column = [i \in 1 .. N |-> column[i]]

(* A base of scalar slices and selector columns over it, in step.          *)
IsArray(array, N) ==
  /\ array = [base |-> array.base, layers |-> array.layers]
  /\ array.base = [i \in 1 .. N |-> array.base[i]]
  /\ \A i \in 1 .. N : IsSlice(array.base[i])
  /\ Len(array.layers) \in Nat
  /\ array.layers = [l \in 1 .. Len(array.layers) |-> array.layers[l]]
  /\ \A l \in 1 .. Len(array.layers) :
       /\ Layer(array, l) = [dim |-> Layer(array, l).dim, column |-> Layer(array, l).column]
       /\ IsColumn(Layer(array, l).column, N)
       /\ \A i \in Present(array) : Layer(array, l).column[i] \in Extents

(* The bounds a dimension has in a row that is there are integers. *)
LEMMA ExtentIsTyped ==
  ASSUME NEW array, NEW N \in Nat, IsArray(array, N), NEW dim, HasExtents(array, dim),
         NEW i \in Present(array)
  PROVE  Extent(array, dim, i) \in Extents
<1> DEFINE own == LayersOf(array, dim)
           M == Len(array.layers)
<1>1. M \in Nat /\ DOMAIN array.layers = 1 .. M /\ own \in SUBSET (0 .. M)
  BY DEF IsArray, LayersOf
<1>2. i \in 1 .. N /\ array.base[i] # Null
  BY DEF IsArray, Present
<1>3. CASE own # {}
  <2> DEFINE l == CHOOSE k \in own : \A m \in own : m <= k
  <2>1. \E k \in own : \A m \in own : m <= k
    BY <1>1, <1>3, GreatestNatural, Zenon
  <2>2. l \in own
    BY <2>1, Zenon
  <2>3. l \in 1 .. M
    BY <1>1, <2>2 DEF LayersOf
  <2>4. Layer(array, l).column[i] \in Extents
    BY <2>3 DEF IsArray
  <2>5. Extent(array, dim, i) = array.layers[l].column[i]
    BY <1>3 DEF Extent
  <2> QED BY <2>4, <2>5 DEF Layer
<1>4. CASE own = {}
  <2> DEFINE e == array.base[i][dim]
  <2>1. dim \in DOMAIN array.base[i]
    BY <1>4 DEF HasExtents
  <2>2. e \in (Int \cup {Null}) \X Int
    BY <1>2, <2>1 DEF IsArray, IsSlice
  <2>3. Extent(array, dim, i) = IF e[1] = Null THEN <<0, e[2]>> ELSE e
    BY <1>4 DEF Extent
  <2> HIDE DEF e
  <2>4. e = <<e[1], e[2]>> /\ e[2] \in Int /\ (e[1] # Null => e[1] \in Int)
    BY <2>2
  <2>5. (IF e[1] = Null THEN <<0, e[2]>> ELSE e) \in Extents
    BY <2>4 DEF Extents
  <2> QED BY <2>3, <2>5
<1> QED BY <1>3, <1>4

(* An extent has a whole number of windows, each of integer bounds. *)
LEMMA WindowsAreTyped ==
  ASSUME NEW w, IsWindow(w), NEW extent \in Extents
  PROVE  Count(w, extent) \in Int /\ \A k \in Int : Interval(w, extent, k) \in Extents
<1>1. /\ w.size \in Int /\ w.stride \in Int /\ w.offset \in Int /\ w.partial \in BOOLEAN
      /\ w.stride > 0
      /\ extent[1] \in Int /\ extent[2] \in Int
  BY DEF IsWindow, ValidWindow, Extents
<1> DEFINE room == extent[2] - (extent[1] + w.offset) - w.size
<1>2. room \in Int
  BY <1>1
<1>3. room \div w.stride \in Int
  <2> HIDE DEF room
  <2> QED BY <1>1, <1>2
<1>4. FullCount(w, extent) \in Int
  <2>1. FullCount(w, extent) = IF room >= 0 THEN room \div w.stride + 1 ELSE 0
    BY DEF FullCount, First, Exact
  <2> HIDE DEF room
  <2> QED BY <1>3, <2>1
<1>5. Count(w, extent) \in Int
  BY <1>4 DEF Count
<1>6. ASSUME NEW k \in Int PROVE Interval(w, extent, k) \in Extents
  <2> DEFINE start == extent[1] + w.offset + (k - 1) * w.stride
             stop == start + w.size
  <2>1. (k - 1) * w.stride \in Int
    BY <1>1
  <2>2. start \in Int /\ stop \in Int
    BY <1>1, <2>1
  <2>3. Interval(w, extent, k) = <<start, IF w.partial THEN MinOf(stop, extent[2]) ELSE stop>>
    BY DEF Interval, StartAt, First, Exact
  <2> HIDE DEF start, stop
  <2>4. MinOf(stop, extent[2]) \in Int
    BY <1>1, <2>2 DEF MinOf
  <2> QED BY <2>2, <2>3, <2>4 DEF Extents
<1> QED BY <1>5, <1>6

BlockLength(c) == IF c >= 0 THEN c ELSE 0

(* The windows of one row, or its repetitions, are a sequence. *)
LEMMA BlockTyped ==
  ASSUME NEW S, NEW c \in Int, NEW g \in [1 .. c -> S]
  PROVE  g \in Seq(S) /\ Len(g) = BlockLength(c)
<1>1. CASE c >= 0
  <2>1. c \in Nat
    BY <1>1
  <2> QED BY <1>1, <2>1 DEF BlockLength
<1>2. CASE ~ c >= 0
  <2>1. 1 .. c = {}
    BY <1>2
  <2>2. g = <<>>
    BY <2>1
  <2> QED BY <1>2, <2>2 DEF BlockLength
<1> QED BY <1>1, <1>2

(* A family of such blocks, counts[i] long each. *)
Blocks(family, counts, S) ==
  /\ Len(family) \in Nat /\ family = [i \in 1 .. Len(family) |-> family[i]]
  /\ \A i \in 1 .. Len(family) : counts[i] \in Int /\ family[i] \in [1 .. counts[i] -> S]

(* Blocks one after another are a sequence, as long as any others of the   *)
(* same counts.                                                            *)
LEMMA BlocksTyped ==
  ASSUME NEW S, NEW family, NEW counts, Blocks(family, counts, S)
  PROVE  /\ family \in Seq(Seq(S))
         /\ \A i \in 1 .. Len(family) : Len(family[i]) = BlockLength(counts[i])
<1>1. ASSUME NEW i \in 1 .. Len(family)
      PROVE  family[i] \in Seq(S) /\ Len(family[i]) = BlockLength(counts[i])
  BY BlockTyped DEF Blocks
<1>2. family \in Seq(Seq(S))
  BY <1>1 DEF Blocks
<1> QED BY <1>1, <1>2

(* Families whose blocks have the same lengths are, flattened, as long.    *)
LEMMA BlocksInStep ==
  ASSUME NEW S, NEW family, NEW R, NEW others, NEW counts,
         Blocks(family, counts, S), Blocks(others, counts, R), Len(others) = Len(family)
  PROVE  /\ FlattenSeq(family) \in Seq(S) /\ FlattenSeq(others) \in Seq(R)
         /\ Len(FlattenSeq(others)) = Len(FlattenSeq(family))
<1>1. /\ family \in Seq(Seq(S))
      /\ \A i \in 1 .. Len(family) : Len(family[i]) = BlockLength(counts[i])
  BY BlocksTyped
<1>2. /\ others \in Seq(Seq(R))
      /\ \A i \in 1 .. Len(others) : Len(others[i]) = BlockLength(counts[i])
  BY BlocksTyped
<1>3. FlattenSeq(family) \in Seq(S) /\ FlattenSeq(others) \in Seq(R)
  BY <1>1, <1>2, FlattenTyped
<1>4. \A i \in 1 .. Len(family) : Len(others[i]) = Len(family[i])
  BY <1>1, <1>2
<1>5. Len(FlattenSeq(others)) = Len(FlattenSeq(family))
  BY <1>1, <1>2, <1>4, FlattenLength, Zenon
<1> QED BY <1>3, <1>5

-----------------------------------------------------------------------------
(* Expansion, axis by axis                                                 *)

AxisStart(array) ==
  [parents |-> Chosen([i \in DOMAIN array.base |-> i], Present(array)), columns |-> <<>>]

ExtentsOf(array, dim, parents) ==
  [p \in DOMAIN parents |-> Extent(array, dim, parents[p])]

CountsOf(w, extents) == [p \in DOMAIN extents |-> Count(w, extents[p])]

NextAxis(array, axis, prev) ==
  LET extents == ExtentsOf(array, axis.dim, prev.parents)
      counts == CountsOf(axis.window, extents)
  IN  [parents |-> Repeat(prev.parents, counts),
       columns |-> Append([m \in DOMAIN prev.columns |-> Repeat(prev.columns[m], counts)],
                          Intervals(axis.window, extents))]

(* Expanded cuts by one window after another. *)
LEMMA ExpandedEquation ==
  ASSUME NEW array, NEW windows, Len(windows) \in Nat
  PROVE  \E f : /\ f[0] = AxisStart(array)
                /\ \A n \in 1 .. Len(windows) : f[n] = NextAxis(array, windows[n], f[n-1])
                /\ Expanded(array, windows) = f[Len(windows)]
<1> DEFINE N == Len(windows)
           eqn(n, g) == g = [k \in 0 .. n |-> IF k = 0 THEN AxisStart(array)
                                              ELSE NextAxis(array, windows[k], g[k-1])]
           T == {n \in 0 .. N : \E g : eqn(n, g)}
<1>1. \E g : eqn(0, g)
  <2> WITNESS [k \in 0 .. 0 |-> AxisStart(array)]
  <2> QED OBVIOUS
<1>2. ASSUME NEW n \in 1 .. N, NEW g, eqn(n - 1, g)
      PROVE  \E h : eqn(n, h)
  <2> DEFINE h == [k \in 0 .. n |-> IF k = n THEN NextAxis(array, windows[n], g[n-1]) ELSE g[k]]
  <2> SUFFICES eqn(n, h)
    OBVIOUS
  <2>1. ASSUME NEW k \in 0 .. n
        PROVE  h[k] = IF k = 0 THEN AxisStart(array) ELSE NextAxis(array, windows[k], h[k-1])
    <3>1. CASE k = n
      BY <3>1
    <3>2. CASE k # n
      BY <3>2, <1>2
    <3> QED BY <3>1, <3>2
  <2> QED BY <2>1
<1>3. \E g : eqn(N, g)
  <2> HIDE DEF eqn
  <2>1. 0 \in T /\ \A n \in 1 .. N : n - 1 \in T => n \in T
    BY <1>1, <1>2
  <2> HIDE DEF T
  <2>2. \A n \in 0 .. N : n \in T
    BY <2>1, SegmentInduction, Zenon
  <2> QED BY <2>2 DEF T
<1> DEFINE f == CHOOSE g : eqn(N, g)
<1>4. eqn(N, f)
  <2> HIDE DEF eqn
  <2> QED BY <1>3
<1>5. Expanded(array, windows) = f[N]
  BY DEF Expanded, AxisStart, NextAxis, ExtentsOf, CountsOf
<1> HIDE DEF f
<1>6. f[0] = AxisStart(array) /\ \A n \in 1 .. N : f[n] = NextAxis(array, windows[n], f[n-1])
  BY <1>4
<1> QED BY <1>5, <1>6

(* Parents are rows that are there; n columns of bounds stand beside them. *)
InStep(x, array, n) ==
  /\ x.parents \in Seq(Present(array))
  /\ Len(x.columns) = n /\ x.columns \in Seq(Seq(Extents))
  /\ \A m \in 1 .. n : Len(x.columns[m]) = Len(x.parents)

(* Expansion starts with the rows that are there. *)
LEMMA StartInStep ==
  ASSUME NEW array, NEW N \in Nat, DOMAIN array.base = 1 .. N
  PROVE  InStep(AxisStart(array), array, 0)
<1> DEFINE s == [i \in DOMAIN array.base |-> i]
           P == Present(array)
           c == Chosen(s, P)
<1>1. s \in Seq(Nat) /\ Len(s) = N
  OBVIOUS
<1>2. Picks(c, s, P, N)
  BY <1>1, ChosenPicks
<1>3. PICK k : Enumerates(k, P, N) /\ c = [a \in 1 .. Len(k) |-> s[k[a]]]
  BY <1>2 DEF Picks
<1>4. \A a \in 1 .. Len(k) : k[a] \in P /\ s[k[a]] = k[a]
  BY <1>3 DEF Enumerates
<1>5. Len(k) \in Nat
  BY <1>3 DEF Enumerates
<1>6. c \in [1 .. Len(k) -> P]
  BY <1>3, <1>4
<1>7. c \in Seq(P)
  <2> HIDE DEF c, P, s
  <2> QED BY <1>5, <1>6
<1>8. AxisStart(array).parents = c /\ AxisStart(array).columns = <<>>
  BY DEF AxisStart
<1> HIDE DEF c, P
<1> QED BY <1>7, <1>8 DEF InStep, P

(* Repeating a column by counts. *)
LEMMA RepeatIsBlocks ==
  ASSUME NEW S, NEW column \in Seq(S), NEW counts, \A i \in 1 .. Len(column) : counts[i] \in Int
  PROVE  LET family == [i \in DOMAIN column |-> [k \in 1 .. counts[i] |-> column[i]]]
         IN  /\ Repeat(column, counts) = FlattenSeq(family)
             /\ Blocks(family, counts, S) /\ Len(family) = Len(column)
BY DEF Repeat, Blocks

(* The next axis keeps parents and columns in step. *)
LEMMA NextInStep ==
  ASSUME NEW array, NEW N \in Nat, IsArray(array, N),
         NEW axis, IsWindow(axis.window), HasExtents(array, axis.dim),
         NEW n \in Nat, NEW prev, InStep(prev, array, n)
  PROVE  InStep(NextAxis(array, axis, prev), array, n + 1)
<1> DEFINE parents == prev.parents
           L == Len(parents)
           extents == ExtentsOf(array, axis.dim, parents)
           counts == CountsOf(axis.window, extents)
           next == NextAxis(array, axis, prev)
           tiles == [i \in DOMAIN extents |->
                       [k \in 1 .. Count(axis.window, extents[i]) |->
                          Interval(axis.window, extents[i], k)]]
           doubled == [i \in DOMAIN parents |-> [k \in 1 .. counts[i] |-> parents[i]]]
           cut == Intervals(axis.window, extents)
           before == [m \in DOMAIN prev.columns |-> Repeat(prev.columns[m], counts)]
<1>1. parents \in Seq(Present(array)) /\ L \in Nat /\ DOMAIN parents = 1 .. L
  BY DEF InStep
<1>2. extents \in [1 .. L -> Extents]
  <2>1. \A p \in 1 .. L : Extent(array, axis.dim, parents[p]) \in Extents
    BY <1>1, ExtentIsTyped
  <2> QED BY <1>1, <2>1 DEF ExtentsOf
<1>3. extents \in Seq(Extents) /\ Len(extents) = L /\ DOMAIN extents = 1 .. L
  <2> HIDE DEF extents
  <2> QED BY <1>1, <1>2
<1>4. \A p \in 1 .. L : /\ counts[p] = Count(axis.window, extents[p])
                        /\ counts[p] \in Int
                        /\ \A k \in Int : Interval(axis.window, extents[p], k) \in Extents
  <2> HIDE DEF extents
  <2> QED BY <1>2, <1>3, WindowsAreTyped DEF CountsOf
<1> HIDE DEF extents, counts
<1>5. Blocks(tiles, counts, Extents) /\ Len(tiles) = L
  BY <1>1, <1>3, <1>4 DEF Blocks
<1>6. cut = FlattenSeq(tiles)
  BY DEF Intervals
<1>7. Repeat(parents, counts) = FlattenSeq(doubled)
      /\ Blocks(doubled, counts, Present(array)) /\ Len(doubled) = L
  BY <1>1, <1>4, RepeatIsBlocks, ZenonT(40)
<1> HIDE DEF tiles, doubled
<1>8. /\ Repeat(parents, counts) \in Seq(Present(array)) /\ cut \in Seq(Extents)
      /\ Len(cut) = Len(Repeat(parents, counts))
  BY <1>5, <1>6, <1>7, BlocksInStep
<1>9. ASSUME NEW m \in 1 .. n
      PROVE  /\ Repeat(prev.columns[m], counts) \in Seq(Extents)
             /\ Len(Repeat(prev.columns[m], counts)) = Len(Repeat(parents, counts))
  <2> DEFINE column == prev.columns[m]
             family == [i \in DOMAIN column |-> [k \in 1 .. counts[i] |-> column[i]]]
  <2>1. column \in Seq(Extents) /\ Len(column) = L
    BY DEF InStep
  <2>2. Repeat(column, counts) = FlattenSeq(family)
        /\ Blocks(family, counts, Extents) /\ Len(family) = L
    BY <1>4, <2>1, RepeatIsBlocks
  <2> HIDE DEF family, column
  <2>3. /\ FlattenSeq(family) \in Seq(Extents)
        /\ Len(FlattenSeq(family)) = Len(FlattenSeq(doubled))
    BY <1>7, <2>2, BlocksInStep
  <2> QED BY <1>7, <2>2, <2>3 DEF column
<1>10. before \in Seq(Seq(Extents)) /\ Len(before) = n
       /\ \A m \in 1 .. n : before[m] = Repeat(prev.columns[m], counts)
  <2>1. DOMAIN prev.columns = 1 .. n
    BY DEF InStep
  <2> QED BY <1>9, <2>1
<1>11. next.parents = Repeat(parents, counts) /\ next.columns = Append(before, cut)
  BY DEF NextAxis, extents, counts
<1> HIDE DEF before, cut
<1>12. Append(before, cut) \in Seq(Seq(Extents)) /\ Len(Append(before, cut)) = n + 1
  BY <1>8, <1>10
<1>13. ASSUME NEW m \in 1 .. n + 1
       PROVE  Len(Append(before, cut)[m]) = Len(Repeat(parents, counts))
  <2>1. CASE m = n + 1
    BY <1>8, <1>10, <2>1
  <2>2. CASE m # n + 1
    <3>1. m \in 1 .. n /\ Append(before, cut)[m] = before[m]
      BY <1>10, <2>2
    <3> QED BY <1>9, <1>10, <3>1
  <2> QED BY <2>1, <2>2
<1> HIDE DEF next
<1> QED BY <1>8, <1>11, <1>12, <1>13 DEF InStep, next

(* Every window of every axis is one of a parent that is there, and all    *)
(* columns of bounds are as long.                                          *)
LEMMA ExpandedIsInStep ==
  ASSUME NEW array, NEW N \in Nat, IsArray(array, N),
         NEW windows, windows \in Seq(ToSet(windows)), CanExplode(array, windows),
         \A n \in DOMAIN windows : IsWindow(windows[n].window)
  PROVE  InStep(Expanded(array, windows), array, Len(windows))
<1> DEFINE M == Len(windows)
<1>1. M \in Nat /\ DOMAIN windows = 1 .. M
  OBVIOUS
<1>2. PICK f : /\ f[0] = AxisStart(array)
               /\ \A n \in 1 .. M : f[n] = NextAxis(array, windows[n], f[n-1])
               /\ Expanded(array, windows) = f[M]
  BY <1>1, ExpandedEquation
<1> DEFINE T == {n \in 0 .. M : InStep(f[n], array, n)}
<1>3. 0 \in T
  <2>1. DOMAIN array.base = 1 .. N
    BY DEF IsArray
  <2> QED BY <1>1, <1>2, <2>1, StartInStep
<1>4. ASSUME NEW n \in 1 .. M, n - 1 \in T PROVE n \in T
  <2>1. n - 1 \in Nat /\ InStep(f[n-1], array, n - 1) /\ n - 1 + 1 = n /\ n \in 0 .. M
    BY <1>1, <1>4
  <2>2. IsWindow(windows[n].window) /\ HasExtents(array, windows[n].dim)
    BY <1>1 DEF CanExplode
  <2>3. InStep(NextAxis(array, windows[n], f[n-1]), array, n - 1 + 1)
    BY <2>1, <2>2, NextInStep
  <2> QED BY <1>2, <2>1, <2>3
<1> HIDE DEF T
<1>5. \A n \in 0 .. M : n \in T
  BY <1>1, <1>3, <1>4, SegmentInduction, Zenon
<1> QED BY <1>1, <1>2, <1>5 DEF T

-----------------------------------------------------------------------------
(* Taking rows                                                             *)

Column(column, positions) == [p \in DOMAIN positions |-> column[positions[p]]]

(* Taking rows, with repetition, takes them from every column. *)
LEMMA TakeIsTyped ==
  ASSUME NEW array, NEW N \in Nat, IsArray(array, N),
         NEW positions \in Seq(1 .. N)
  PROVE  /\ IsArray(Take(array, positions), Len(positions))
         /\ \A p \in DOMAIN positions :
              p \in Present(Take(array, positions)) <=> positions[p] \in Present(array)
<1> DEFINE M == Len(positions)
           taken == Take(array, positions)
           K == Len(array.layers)
<1>1. M \in Nat /\ DOMAIN positions = 1 .. M /\ \A p \in 1 .. M : positions[p] \in 1 .. N
  OBVIOUS
<1>2. taken = [base |-> Column(array.base, positions),
               layers |-> [l \in DOMAIN array.layers |->
                             [array.layers[l] EXCEPT !.column = Column(@, positions)]]]
  BY DEF Take, Column
<1>3. K \in Nat /\ DOMAIN array.layers = 1 .. K
  BY DEF IsArray
<1>4. /\ taken.base = [p \in 1 .. M |-> array.base[positions[p]]]
      /\ \A p \in 1 .. M : taken.base[p] = array.base[positions[p]]
      /\ DOMAIN taken.base = 1 .. M
  BY <1>1, <1>2 DEF Column
<1>5. ASSUME NEW l \in 1 .. K
      PROVE  /\ taken.layers[l] = [dim |-> Layer(array, l).dim,
                                   column |-> Column(Layer(array, l).column, positions)]
  <2>1. Layer(array, l) = [dim |-> Layer(array, l).dim, column |-> Layer(array, l).column]
    BY DEF IsArray
  <2>2. taken.layers[l] = [Layer(array, l) EXCEPT !.column = Column(@, positions)]
    BY <1>2, <1>3 DEF Layer
  <2> HIDE DEF taken
  <2> QED BY <2>1, <2>2
<1>6. /\ taken = [base |-> taken.base, layers |-> taken.layers]
      /\ taken.layers = [l \in 1 .. K |-> taken.layers[l]] /\ Len(taken.layers) = K
  BY <1>2, <1>3
<1>7. \A p \in 1 .. M : p \in Present(taken) <=> positions[p] \in Present(array)
  <2> HIDE DEF taken
  <2>1. DOMAIN array.base = 1 .. N
    BY DEF IsArray
  <2> QED BY <1>1, <1>4, <2>1 DEF Present
<1>8. \A p \in 1 .. M : IsSlice(taken.base[p])
  BY <1>1, <1>4 DEF IsArray
<1> HIDE DEF taken
<1>9. ASSUME NEW l \in 1 .. K
      PROVE  /\ Layer(taken, l) = [dim |-> Layer(taken, l).dim, column |-> Layer(taken, l).column]
             /\ IsColumn(Layer(taken, l).column, M)
             /\ \A p \in Present(taken) : Layer(taken, l).column[p] \in Extents
  <2>0. Layer(taken, l) = [dim |-> Layer(array, l).dim,
                           column |-> Column(Layer(array, l).column, positions)]
    BY <1>5, Zenon DEF Layer
  <2>1. Layer(taken, l).column = Column(Layer(array, l).column, positions)
    BY <2>0
  <2>2. IsColumn(Column(Layer(array, l).column, positions), M)
    BY <1>1 DEF Column, IsColumn
  <2>3. ASSUME NEW p \in Present(taken) PROVE Layer(taken, l).column[p] \in Extents
    <3>1. p \in 1 .. M
      BY <1>4 DEF Present
    <3>2. positions[p] \in Present(array)
      BY <1>7, <3>1
    <3>3. Layer(taken, l).column[p] = Layer(array, l).column[positions[p]]
      BY <1>1, <2>1, <3>1 DEF Column
    <3> QED BY <3>2, <3>3 DEF IsArray
  <2>4. Layer(taken, l) = [dim |-> Layer(taken, l).dim, column |-> Layer(taken, l).column]
    BY <2>0
  <2> QED BY <2>1, <2>2, <2>3, <2>4
<1>10. IsArray(taken, M)
  <2>1. taken.base = [p \in 1 .. M |-> taken.base[p]]
    BY <1>4
  <2> QED BY <1>3, <1>6, <1>8, <1>9, <2>1 DEF IsArray
<1> QED BY <1>1, <1>7, <1>10 DEF taken

(* Columns of tiles, one for each window, over the array `base`. *)
IsLayered(slices, base, columns, windows) ==
  /\ slices = [base |-> base.base, layers |-> slices.layers]
  /\ Len(base.layers) \in Nat /\ Len(windows) \in Nat
  /\ Len(slices.layers) = Len(base.layers) + Len(windows)
  /\ slices.layers = [l \in 1 .. Len(base.layers) + Len(windows) |-> slices.layers[l]]
  /\ \A l \in 1 .. Len(base.layers) : slices.layers[l] = base.layers[l]
  /\ \A l \in Len(base.layers) + 1 .. Len(base.layers) + Len(windows) :
       slices.layers[l] = [dim |-> windows[l-Len(base.layers)].dim,
                           column |-> columns[l-Len(base.layers)]]

(* What explode_windows returns: the rows taken, and the tiles over them. *)
LEMMA ExplodedLayers ==
  ASSUME NEW array, NEW N \in Nat, IsArray(array, N),
         NEW windows, windows \in Seq(ToSet(windows)), CanExplode(array, windows),
         \A n \in DOMAIN windows : IsWindow(windows[n].window)
  PROVE  LET x == Expanded(array, windows)
             base == Take(array, x.parents)
         IN  /\ x.parents \in Seq(1 .. N) /\ Len(x.parents) \in Nat
             /\ IsArray(base, Len(x.parents))
             /\ ExplodeWindows(array, windows).parents = x.parents
             /\ IsLayered(ExplodeWindows(array, windows).slices, base, x.columns, windows)
<1> DEFINE x == Expanded(array, windows)
           M == Len(x.parents)
           K == Len(array.layers)
           J == Len(windows)
           base == Take(array, x.parents)
           cuts == [n \in DOMAIN windows |-> [dim |-> windows[n].dim, column |-> x.columns[n]]]
           slices == [base EXCEPT !.layers = @ \o cuts]
<1>1. InStep(x, array, J)
  BY ExpandedIsInStep
<1>2. Present(array) \subseteq 1 .. N
  BY DEF IsArray, Present
<1>3. x.parents \in Seq(Present(array)) /\ x.parents \in Seq(1 .. N)
      /\ M \in Nat /\ DOMAIN x.parents = 1 .. M
  BY <1>1, <1>2 DEF InStep
<1>4. IsArray(base, M)
  BY <1>3, TakeIsTyped
<1>5. J \in Nat /\ DOMAIN windows = 1 .. J
  OBVIOUS
<1>6. /\ ExplodeWindows(array, windows).parents = x.parents
      /\ ExplodeWindows(array, windows).slices = slices
  BY DEF ExplodeWindows
<1> DEFINE B == Len(base.layers)
           S == ToSet(base.layers) \cup ToSet(cuts)
<1>7. B \in Nat /\ base.layers \in Seq(S) /\ DOMAIN base.layers = 1 .. B
  <2> HIDE DEF base, cuts
  <2>1. B \in Nat /\ base.layers = [l \in 1 .. B |-> base.layers[l]]
    BY <1>4 DEF IsArray
  <2>2. \A l \in 1 .. B : base.layers[l] \in S
    BY <2>1 DEF ToSet
  <2> HIDE DEF S
  <2>3. [l \in 1 .. B |-> base.layers[l]] \in Seq(S)
    BY <2>1, <2>2
  <2> QED BY <2>1, <2>3
<1>8. cuts \in Seq(S) /\ Len(cuts) = J
  <2>1. cuts = [n \in 1 .. J |-> cuts[n]] /\ DOMAIN cuts = 1 .. J
    BY <1>5
  <2>2. \A n \in 1 .. J : cuts[n] \in S
    BY <2>1 DEF ToSet
  <2> HIDE DEF cuts, S
  <2>3. [n \in 1 .. J |-> cuts[n]] \in Seq(S)
    BY <1>5, <2>2
  <2> QED BY <1>5, <2>1, <2>3
<1>9. \A n \in 1 .. J : cuts[n] = [dim |-> windows[n].dim, column |-> x.columns[n]]
  BY <1>5
<1>10. base = [base |-> base.base, layers |-> base.layers]
  BY <1>4 DEF IsArray
<1> HIDE DEF x, base, cuts, S
<1>11. slices = [base |-> base.base, layers |-> base.layers \o cuts]
  BY <1>10
<1>12. /\ base.layers \o cuts \in Seq(S) /\ Len(base.layers \o cuts) = B + J
       /\ \A l \in 1 .. B : (base.layers \o cuts)[l] = base.layers[l]
       /\ \A l \in B + 1 .. B + J : (base.layers \o cuts)[l] = cuts[l - B]
  <2> DEFINE a == base.layers
  <2>1. a \in Seq(S) /\ cuts \in Seq(S)
    BY <1>7, <1>8
  <2>2. Len(a) = B /\ Len(cuts) = J
    BY <1>8
  <2> HIDE DEF a, B, J
  <2>3. /\ a \o cuts \in Seq(S) /\ Len(a \o cuts) = Len(a) + Len(cuts)
        /\ \A l \in 1 .. Len(a) : (a \o cuts)[l] = a[l]
        /\ \A l \in Len(a) + 1 .. Len(a) + Len(cuts) : (a \o cuts)[l] = cuts[l - Len(a)]
    BY <2>1, ConcatParts, Zenon
  <2>4. /\ a \o cuts \in Seq(S) /\ Len(a \o cuts) = B + J
        /\ \A l \in 1 .. B : (a \o cuts)[l] = a[l]
        /\ \A l \in B + 1 .. B + J : (a \o cuts)[l] = cuts[l - B]
    BY <2>2, <2>3, Zenon
  <2> QED BY <2>4 DEF a
<1>13. /\ slices.layers = base.layers \o cuts
       /\ \A l \in B + 1 .. B + J : l - B \in 1 .. J
  BY <1>5, <1>7, <1>11
<1>14. /\ Len(slices.layers) = B + J
       /\ slices.layers = [l \in 1 .. B + J |-> slices.layers[l]]
       /\ \A l \in 1 .. B : slices.layers[l] = base.layers[l]
       /\ \A l \in B + 1 .. B + J :
            slices.layers[l] = [dim |-> windows[l-B].dim, column |-> x.columns[l-B]]
  BY <1>5, <1>7, <1>9, <1>12, <1>13
<1>15. slices = [base |-> base.base, layers |-> slices.layers]
  BY <1>11
<1> HIDE DEF slices
<1>16. IsLayered(slices, base, x.columns, windows)
  BY <1>5, <1>7, <1>14, <1>15 DEF IsLayered
<1> QED BY <1>3, <1>4, <1>6, <1>16 DEF x, base

(* What explode_windows makes of an array. *)
LEMMA ExplodedIsTyped ==
  ASSUME NEW array, NEW N \in Nat, IsArray(array, N),
         NEW windows, windows \in Seq(ToSet(windows)), CanExplode(array, windows),
         \A n \in DOMAIN windows : IsWindow(windows[n].window)
  PROVE  LET x == ExplodeWindows(array, windows)
         IN  /\ x.parents \in Seq(1 .. N)
             /\ IsArray(x.slices, Len(x.parents))
<1>1. PICK x : x = Expanded(array, windows)
  OBVIOUS
<1>2. PICK base : base = Take(array, x.parents)
  OBVIOUS
<1>3. PICK slices : slices = ExplodeWindows(array, windows).slices
  OBVIOUS
<1>4. PICK M \in Nat : M = Len(x.parents) /\ x.parents \in Seq(1 .. N)
  BY <1>1, ExplodedLayers
<1>5. /\ ExplodeWindows(array, windows).parents = x.parents
      /\ IsArray(base, M) /\ IsLayered(slices, base, x.columns, windows)
  BY <1>1, <1>2, <1>3, <1>4, ExplodedLayers
<1>6. PICK B \in Nat : B = Len(base.layers)
  BY <1>5 DEF IsLayered
<1>7. PICK J \in Nat : J = Len(windows)
  BY <1>5 DEF IsLayered
<1>8. /\ slices = [base |-> base.base, layers |-> slices.layers]
      /\ Len(slices.layers) = B + J
      /\ slices.layers = [l \in 1 .. B + J |-> slices.layers[l]]
      /\ \A l \in 1 .. B : slices.layers[l] = base.layers[l]
      /\ \A l \in B + 1 .. B + J :
           slices.layers[l] = [dim |-> windows[l-B].dim, column |-> x.columns[l-B]]
  BY <1>5, <1>6, <1>7 DEF IsLayered
<1>9. \A m \in 1 .. J : x.columns[m] \in Seq(Extents) /\ Len(x.columns[m]) = M
  <2>1. InStep(x, array, J)
    BY <1>1, <1>7, ExpandedIsInStep
  <2>2. x.columns \in Seq(Seq(Extents)) /\ DOMAIN x.columns = 1 .. J
    BY <2>1 DEF InStep
  <2>3. \A m \in 1 .. J : x.columns[m] \in Seq(Extents)
    BY <2>2
  <2> QED BY <1>4, <2>1, <2>3 DEF InStep
<1>10. slices.base = base.base
  BY <1>8
<1>11. Present(slices) = Present(base) /\ Present(slices) \subseteq 1 .. M
  BY <1>5, <1>10 DEF Present, IsArray
<1>12. ASSUME NEW l \in 1 .. B + J
       PROVE  /\ Layer(slices, l) = [dim |-> Layer(slices, l).dim, column |-> Layer(slices, l).column]
              /\ IsColumn(Layer(slices, l).column, M)
              /\ \A i \in Present(slices) : Layer(slices, l).column[i] \in Extents
  <2>1. CASE l <= B
    <3>1. l \in 1 .. B
      BY <2>1
    <3>2. slices.layers[l] = base.layers[l]
      BY <1>8, <3>1
    <3>3. Layer(slices, l) = Layer(base, l)
      BY <3>2 DEF Layer
    <3> QED BY <1>5, <1>6, <1>11, <3>1, <3>3 DEF IsArray
  <2>2. CASE ~ l <= B
    <3>1. l \in B + 1 .. B + J /\ l - B \in 1 .. J
      BY <2>2
    <3>2. Layer(slices, l) = [dim |-> windows[l-B].dim, column |-> x.columns[l-B]]
      BY <1>8, <3>1 DEF Layer
    <3>3. x.columns[l-B] \in Seq(Extents) /\ Len(x.columns[l-B]) = M
      BY <1>9, <3>1
    <3>4. IsColumn(x.columns[l-B], M) /\ \A i \in 1 .. M : x.columns[l-B][i] \in Extents
      BY <3>3 DEF IsColumn
    <3>5. /\ Layer(slices, l).dim = windows[l-B].dim
          /\ Layer(slices, l).column = x.columns[l-B]
      BY <3>2
    <3> QED BY <1>11, <3>2, <3>4, <3>5
  <2> QED BY <2>1, <2>2
<1>13. IsArray(slices, M)
  <2>1. /\ slices.base = [i \in 1 .. M |-> slices.base[i]]
        /\ \A i \in 1 .. M : IsSlice(slices.base[i])
    BY <1>5, <1>10 DEF IsArray
  <2>2. B + J \in Nat
    OBVIOUS
  <2> QED BY <1>8, <1>12, <2>1, <2>2 DEF IsArray
<1> QED BY <1>3, <1>4, <1>5, <1>13

OverlayOne(array, i, l, prev) ==
  Overlaid(prev, array.layers[l].dim, array.layers[l].column[i])

(* ScalarAt lays one selector column over another. *)
LEMMA ScalarEquation ==
  ASSUME NEW array, NEW i, Len(array.layers) \in Nat
  PROVE  \E f : /\ f[0] = array.base[i]
                /\ \A l \in 1 .. Len(array.layers) : f[l] = OverlayOne(array, i, l, f[l-1])
                /\ ScalarAt(array, i) = IF array.base[i] = Null THEN Null
                                        ELSE f[Len(array.layers)]
<1> DEFINE N == Len(array.layers)
           eqn(n, g) == g = [k \in 0 .. n |-> IF k = 0 THEN array.base[i]
                                              ELSE OverlayOne(array, i, k, g[k-1])]
           T == {n \in 0 .. N : \E g : eqn(n, g)}
<1>1. \E g : eqn(0, g)
  <2> WITNESS [k \in 0 .. 0 |-> array.base[i]]
  <2> QED OBVIOUS
<1>2. ASSUME NEW n \in 1 .. N, NEW g, eqn(n - 1, g)
      PROVE  \E h : eqn(n, h)
  <2> DEFINE h == [k \in 0 .. n |-> IF k = n THEN OverlayOne(array, i, n, g[n-1]) ELSE g[k]]
  <2> SUFFICES eqn(n, h)
    OBVIOUS
  <2>1. ASSUME NEW k \in 0 .. n
        PROVE  h[k] = IF k = 0 THEN array.base[i] ELSE OverlayOne(array, i, k, h[k-1])
    <3>1. CASE k = n
      BY <3>1
    <3>2. CASE k # n
      BY <3>2, <1>2
    <3> QED BY <3>1, <3>2
  <2> QED BY <2>1
<1>3. \E g : eqn(N, g)
  <2> HIDE DEF eqn
  <2>1. 0 \in T /\ \A n \in 1 .. N : n - 1 \in T => n \in T
    BY <1>1, <1>2
  <2> HIDE DEF T
  <2>2. \A n \in 0 .. N : n \in T
    BY <2>1, SegmentInduction, Zenon
  <2> QED BY <2>2 DEF T
<1> DEFINE f == CHOOSE g : eqn(N, g)
<1>4. eqn(N, f)
  <2> HIDE DEF eqn
  <2> QED BY <1>3
<1>5. ScalarAt(array, i) = IF array.base[i] = Null THEN Null ELSE f[N]
  BY DEF ScalarAt, OverlayOne
<1> HIDE DEF f
<1>6. f[0] = array.base[i] /\ \A l \in 1 .. N : f[l] = OverlayOne(array, i, l, f[l-1])
  BY <1>4, SMTT(40)
<1> QED BY <1>5, <1>6

(* A taken row has the slice it had. *)
LEMMA ScalarTaken ==
  ASSUME NEW array, NEW N \in Nat, IsArray(array, N),
         NEW positions \in Seq(1 .. N), NEW p \in DOMAIN positions
  PROVE  ScalarAt(Take(array, positions), p) = ScalarAt(array, positions[p])
<1> DEFINE taken == Take(array, positions)
           i == positions[p]
           K == Len(array.layers)
<1>1. K \in Nat /\ DOMAIN array.layers = 1 .. K
  BY DEF IsArray
<1>2. /\ taken.base[p] = array.base[i]
      /\ Len(taken.layers) = K
      /\ \A l \in 1 .. K : taken.layers[l] = [array.layers[l] EXCEPT !.column = Column(@, positions)]
  BY <1>1 DEF Take, Column
<1>3. ASSUME NEW l \in 1 .. K
      PROVE  /\ taken.layers[l].dim = array.layers[l].dim
             /\ taken.layers[l].column[p] = array.layers[l].column[i]
  <2>1. Layer(array, l) = [dim |-> Layer(array, l).dim, column |-> Layer(array, l).column]
    BY DEF IsArray
  <2>2. taken.layers[l] = [Layer(array, l) EXCEPT !.column = Column(@, positions)]
    BY <1>2 DEF Layer
  <2> HIDE DEF taken
  <2>3. taken.layers[l] = [dim |-> Layer(array, l).dim,
                           column |-> Column(Layer(array, l).column, positions)]
    BY <2>1, <2>2
  <2> QED BY <2>3 DEF Column, Layer
<1> HIDE DEF taken
<1>4. PICK f : /\ f[0] = array.base[i]
               /\ \A l \in 1 .. K : f[l] = OverlayOne(array, i, l, f[l-1])
               /\ ScalarAt(array, i) = IF array.base[i] = Null THEN Null ELSE f[K]
  BY <1>1, ScalarEquation
<1>5. PICK g : /\ g[0] = taken.base[p]
               /\ \A l \in 1 .. K : g[l] = OverlayOne(taken, p, l, g[l-1])
               /\ ScalarAt(taken, p) = IF taken.base[p] = Null THEN Null ELSE g[K]
  <2>1. Len(taken.layers) = K /\ Len(taken.layers) \in Nat
    BY <1>1, <1>2
  <2>2. \E g : /\ g[0] = taken.base[p]
               /\ \A l \in 1 .. Len(taken.layers) : g[l] = OverlayOne(taken, p, l, g[l-1])
               /\ ScalarAt(taken, p) = IF taken.base[p] = Null THEN Null
                                        ELSE g[Len(taken.layers)]
    BY <2>1, ScalarEquation, Zenon
  <2> HIDE DEF K
  <2> QED BY <2>1, <2>2
<1> DEFINE T == {l \in 0 .. K : g[l] = f[l]}
<1>6. 0 \in T
  BY <1>1, <1>2, <1>4, <1>5
<1>7. ASSUME NEW l \in 1 .. K, l - 1 \in T PROVE l \in T
  <2>1. OverlayOne(taken, p, l, g[l-1]) = OverlayOne(array, i, l, f[l-1])
    BY <1>3, <1>7 DEF OverlayOne
  <2> QED BY <1>1, <1>4, <1>5, <2>1
<1> HIDE DEF T
<1>8. \A l \in 0 .. K : l \in T
  BY <1>1, <1>6, <1>7, SegmentInduction, Zenon
<1>9. g[K] = f[K]
  BY <1>1, <1>8 DEF T
<1> QED BY <1>2, <1>4, <1>5, <1>9 DEF taken

-----------------------------------------------------------------------------
(* Datasets                                                                *)

(* Columns in step; labels, in table order, grow.                          *)
IsDataset(d, ids) ==
  /\ d = [id |-> d.id, lbl |-> d.lbl, key |-> d.key, sliced |-> d.sliced, arr |-> d.arr]
  /\ d.id \in ids /\ d.sliced \in BOOLEAN
  /\ d.lbl \in Seq(Nat)
  /\ \A i, j \in 1 .. Len(d.lbl) : i < j => d.lbl[i] < d.lbl[j]
  /\ IsColumn(d.key, Len(d.lbl))
  /\ IsArray(d.arr, Len(d.lbl))

(* e holds the rows of d at the positions k, in their order.               *)
RowsOf(e, d, k) ==
  /\ e.id = d.id
  /\ k \in [Rows(e) -> Rows(d)] /\ \A i, j \in Rows(e) : i < j => k[i] < k[j]
  /\ \A i \in Rows(e) : /\ e.lbl[i] = d.lbl[k[i]] /\ e.key[i] = d.key[k[i]]
                         /\ SliceOf(e, i) = SliceOf(d, k[i])

(* A filtered dataset is one, and its rows are rows of the other. *)
LEMMA SubsetIsTyped ==
  ASSUME NEW ids, NEW d, IsDataset(d, ids), NEW k \in Seq(1 .. Len(d.lbl)),
         \A a, b \in 1 .. Len(k) : a < b => k[a] < k[b]
  PROVE  IsDataset(Subset(d, k), ids) /\ RowsOf(Subset(d, k), d, k)
<1> DEFINE N == Len(d.lbl)
           M == Len(k)
           e == Subset(d, k)
<1>1. /\ N \in Nat /\ DOMAIN d.lbl = 1 .. N /\ \A i \in 1 .. N : d.lbl[i] \in Nat
      /\ M \in Nat /\ DOMAIN k = 1 .. M /\ k \in [1 .. M -> 1 .. N]
  BY DEF IsDataset
<1>2. d = [id |-> d.id, lbl |-> d.lbl, key |-> d.key, sliced |-> d.sliced, arr |-> d.arr]
  BY DEF IsDataset
<1>3. e = [id |-> d.id, lbl |-> [p \in 1 .. M |-> d.lbl[k[p]]],
           key |-> [p \in 1 .. M |-> d.key[k[p]]],
           sliced |-> d.sliced, arr |-> Take(d.arr, k)]
  <2> DEFINE r == [id |-> d.id, lbl |-> d.lbl, key |-> d.key, sliced |-> d.sliced, arr |-> d.arr]
  <2>1. e = Subset(r, k)
    BY <1>2, Zenon
  <2> HIDE DEF e
  <2> QED BY <1>1, <2>1 DEF Subset
<1> HIDE DEF e
<1>4. /\ e = [id |-> e.id, lbl |-> e.lbl, key |-> e.key, sliced |-> e.sliced, arr |-> e.arr]
      /\ e.id = d.id /\ e.sliced = d.sliced
      /\ e.lbl = [p \in 1 .. M |-> d.lbl[k[p]]] /\ e.key = [p \in 1 .. M |-> d.key[k[p]]]
      /\ e.arr = Take(d.arr, k)
  BY <1>3
<1>5. e.lbl \in Seq(Nat) /\ Len(e.lbl) = M /\ Rows(e) = 1 .. M
  BY <1>1, <1>4 DEF Rows
<1>6. \A i, j \in 1 .. M : i < j => e.lbl[i] < e.lbl[j]
  BY <1>1, <1>4 DEF IsDataset
<1>7. IsArray(e.arr, M)
  <2>1. IsArray(d.arr, N)
    BY DEF IsDataset
  <2> QED BY <1>1, <1>4, <2>1, TakeIsTyped
<1>8. IsDataset(e, ids)
  <2>1. e.id \in ids /\ e.sliced \in BOOLEAN
    BY <1>4 DEF IsDataset
  <2>2. IsColumn(e.key, Len(e.lbl))
    BY <1>4, <1>5 DEF IsColumn
  <2> QED BY <1>4, <1>5, <1>6, <1>7, <2>1, <2>2 DEF IsDataset
<1>9. RowsOf(e, d, k)
  <2>1. Rows(d) = 1 .. N
    BY <1>1 DEF Rows
  <2>2. \A i \in 1 .. M : SliceOf(e, i) = SliceOf(d, k[i])
    <3>1. IsArray(d.arr, N)
      BY DEF IsDataset
    <3> QED BY <1>1, <1>4, <3>1, ScalarTaken DEF SliceOf
  <2> QED BY <1>1, <1>4, <1>5, <2>1, <2>2 DEF RowsOf
<1> QED BY <1>8, <1>9 DEF e

(* A dataset is of its own rows. *)
LEMMA OwnRows ==
  ASSUME NEW ids, NEW d, IsDataset(d, ids)
  PROVE  RowsOf(d, d, [i \in Rows(d) |-> i])
BY DEF RowsOf

-----------------------------------------------------------------------------
(* Pairs of positions or of labels, left ones major.                       *)

Lex(p, q) == p[1] < q[1] \/ (p[1] = q[1] /\ p[2] < q[2])

SortedPairs(s, A, B) ==
  /\ s \in Seq(A \X B)
  /\ \A m, n \in 1 .. Len(s) : m < n => Lex(s[m], s[n])

(* Sorted sequences of the same pairs agree as long as the first goes on. *)
LEMMA SortedPrefix ==
  ASSUME NEW s, SortedPairs(s, Nat, Nat), NEW t, SortedPairs(t, Nat, Nat),
         \A x \in Nat \X Nat : Member(x, s) <=> Member(x, t)
  PROVE  Len(s) <= Len(t) /\ \A n \in 1 .. Len(s) : s[n] = t[n]
<1> DEFINE T == {n \in 0 .. Len(s) : n <= Len(t) /\ \A m \in 1 .. n : s[m] = t[m]}
<1>1. /\ Len(s) \in Nat /\ \A n \in 1 .. Len(s) : s[n] \in Nat \X Nat
      /\ Len(t) \in Nat /\ \A n \in 1 .. Len(t) : t[n] \in Nat \X Nat
  BY DEF SortedPairs
<1>2. \A p, q \in Nat \X Nat : Lex(p, q) => ~ Lex(q, p) /\ p # q
  BY DEF Lex
<1>3. 0 \in T
  BY <1>1
<1>4. ASSUME NEW n \in 1 .. Len(s), n - 1 \in T PROVE n \in T
  <2>1. n - 1 <= Len(t) /\ \A m \in 1 .. n - 1 : s[m] = t[m]
    BY <1>4
  <2>2. PICK m \in 1 .. Len(t) : t[m] = s[n]
    BY <1>1 DEF Member
  <2>3. m >= n
    <3> SUFFICES ASSUME m < n PROVE FALSE
      BY <1>1
    <3>1. m \in 1 .. n - 1 /\ m \in 1 .. Len(s)
      BY <1>1
    <3>2. s[m] = s[n] /\ Lex(s[m], s[n])
      BY <2>1, <2>2, <3>1 DEF SortedPairs
    <3> QED BY <1>1, <1>2, <3>1, <3>2
  <2>4. n \in 1 .. Len(t)
    BY <1>1, <2>3
  <2>5. PICK k \in 1 .. Len(s) : s[k] = t[n]
    BY <1>1, <2>4 DEF Member
  <2>6. k >= n
    <3> SUFFICES ASSUME k < n PROVE FALSE
      BY <1>1
    <3>1. k \in 1 .. n - 1 /\ k \in 1 .. Len(t)
      BY <1>1, <2>4
    <3>2. t[k] = t[n] /\ Lex(t[k], t[n])
      BY <2>1, <2>4, <2>5, <3>1 DEF SortedPairs
    <3> QED BY <1>1, <1>2, <2>4, <3>1, <3>2
  <2>7. s[n] = t[n]
    <3>1. CASE m = n
      BY <2>2, <3>1
    <3>2. CASE k = n
      BY <2>5, <3>2
    <3>3. CASE m # n /\ k # n
      <4>1. n < m /\ n < k
        BY <1>1, <2>3, <2>6, <3>3
      <4>2. Lex(t[n], s[n]) /\ Lex(s[n], t[n])
        BY <2>2, <2>4, <2>5, <4>1 DEF SortedPairs
      <4> QED BY <1>1, <1>2, <2>4, <4>2
    <3> QED BY <3>1, <3>2, <3>3
  <2>8. ASSUME NEW j \in 1 .. n PROVE s[j] = t[j]
    <3>1. j = n \/ j \in 1 .. n - 1
      BY <1>1
    <3> QED BY <2>1, <2>7, <3>1
  <2>9. n \in 0 .. Len(s) /\ n <= Len(t)
    BY <1>1, <2>4
  <2> QED BY <2>8, <2>9
<1> HIDE DEF T
<1>5. \A n \in 0 .. Len(s) : n \in T
  BY <1>1, <1>3, <1>4, SegmentInduction, Zenon
<1>6. Len(s) \in T
  BY <1>1, <1>5
<1> QED BY <1>6 DEF T

(* Pairs in order are determined by which pairs there are. *)
LEMMA SortedUnique ==
  ASSUME NEW s, SortedPairs(s, Nat, Nat), NEW t, SortedPairs(t, Nat, Nat),
         \A x \in Nat \X Nat : Member(x, s) <=> Member(x, t)
  PROVE  s = t
<1>1. Len(s) <= Len(t) /\ \A n \in 1 .. Len(s) : s[n] = t[n]
  BY SortedPrefix
<1>2. Len(t) <= Len(s)
  BY SortedPrefix
<1>3. /\ Len(s) \in Nat /\ s = [n \in 1 .. Len(s) |-> s[n]]
      /\ Len(t) \in Nat /\ t = [n \in 1 .. Len(t) |-> t[n]]
  BY DEF SortedPairs
<1>4. Len(s) = Len(t)
  <2>1. Len(s) \in Nat /\ Len(t) \in Nat
    BY <1>3
  <2> QED BY <1>1, <1>2, <2>1
<1>5. [n \in 1 .. Len(s) |-> s[n]] = [n \in 1 .. Len(t) |-> t[n]]
  BY <1>1, <1>4
<1> QED BY <1>3, <1>5, Zenon

(* The pairs of the first i left positions with M right ones, in order.    *)
RowMajor(s, i, M) ==
  /\ SortedPairs(s, 1 .. i, 1 .. M)
  /\ \A a \in 1 .. i, b \in 1 .. M : Member(<<a, b>>, s)

(* One more left position. *)
LEMMA RowMajorNext ==
  ASSUME NEW i \in Nat \ {0}, NEW M \in Nat, NEW u, RowMajor(u, i - 1, M),
         NEW v, v = [j \in 1 .. M |-> <<i, j>>]
  PROVE  RowMajor(u \o v, i, M)
<1> DEFINE P == (1 .. i) \X (1 .. M)
           Q == (1 .. i - 1) \X (1 .. M)
           w == u \o v
<1>0. PICK L \in Nat : L = Len(u)
  BY DEF RowMajor, SortedPairs
<1>1. u \in Seq(Q) /\ \A n \in 1 .. L : u[n] \in Q
  BY <1>0 DEF RowMajor, SortedPairs
<1>2. u \in Seq(P)
  <2>1. Q \subseteq P
    OBVIOUS
  <2> QED BY <1>1, <2>1
<1>3. v \in Seq(P) /\ Len(v) = M /\ \A j \in 1 .. M : v[j] = <<i, j>>
  OBVIOUS
<1>4. /\ w \in Seq(P) /\ Len(w) = L + M
      /\ \A n \in 1 .. L : w[n] = u[n]
      /\ \A n \in L + 1 .. L + M : w[n] = v[n - L]
  <2> HIDE DEF P
  <2> QED BY <1>0, <1>2, <1>3, ConcatParts
<1>5. /\ \A m, n \in 1 .. L : m < n => Lex(u[m], u[n])
      /\ \A a \in 1 .. i - 1, b \in 1 .. M : \E n \in 1 .. L : u[n] = <<a, b>>
  BY <1>0 DEF RowMajor, SortedPairs, Member
<1> HIDE DEF w, P
<1>6. ASSUME NEW n \in L + 1 .. L + M PROVE w[n] = <<i, n - L>>
  <2>1. n - L \in 1 .. M
    BY <1>1
  <2>2. v[n - L] = <<i, n - L>>
    BY <1>3, <2>1
  <2> QED BY <1>4, <2>2
<1>7. ASSUME NEW m \in 1 .. L + M, NEW n \in 1 .. L + M, m < n PROVE Lex(w[m], w[n])
  <2>1. CASE n <= L
    <3>1. m \in 1 .. L /\ n \in 1 .. L
      BY <1>1, <1>7, <2>1
    <3> QED BY <1>4, <1>5, <1>7, <3>1
  <2>2. CASE m <= L /\ ~ n <= L
    <3>1. m \in 1 .. L /\ n \in L + 1 .. L + M
      BY <1>1, <2>2
    <3>2. w[m] \in Q /\ w[n] = <<i, n - L>>
      BY <1>1, <1>4, <1>6, <3>1
    <3>3. w[m][1] \in Int /\ w[m][1] < i
      BY <3>2
    <3> QED BY <3>2, <3>3 DEF Lex
  <2>3. CASE ~ m <= L
    <3>1. m \in L + 1 .. L + M /\ n \in L + 1 .. L + M
      BY <1>1, <1>7, <2>3
    <3>2. w[m] = <<i, m - L>> /\ w[n] = <<i, n - L>> /\ m - L < n - L
      BY <1>1, <1>6, <1>7, <3>1
    <3> QED BY <3>2 DEF Lex
  <2> QED BY <2>1, <2>2, <2>3
<1>8. ASSUME NEW a \in 1 .. i, NEW b \in 1 .. M
      PROVE  \E n \in 1 .. L + M : w[n] = <<a, b>>
  <2>1. CASE a = i
    <3>1. PICK n \in L + 1 .. L + M : n - L = b /\ n \in 1 .. L + M
      <4>1. L + b \in L + 1 .. L + M /\ L + b \in 1 .. L + M /\ L + b - L = b
        OBVIOUS
      <4> QED BY <4>1
    <3>2. w[n] = <<i, n - L>>
      BY <1>6
    <3> QED BY <2>1, <3>1, <3>2
  <2>2. CASE a # i
    <3>1. a \in 1 .. i - 1
      BY <2>2
    <3>2. PICK n \in 1 .. L : u[n] = <<a, b>>
      BY <1>5, <3>1
    <3>3. n \in 1 .. L + M
      BY <1>1
    <3>4. w[n] = <<a, b>>
      BY <1>4, <3>2
    <3> QED BY <3>3, <3>4
  <2> QED BY <2>1, <2>2
<1> QED BY <1>4, <1>7, <1>8 DEF RowMajor, SortedPairs, Member, P, w

(* All pairs of positions of two sides come in order. *)
LEMMA AllPairsSorted ==
  ASSUME NEW l, NEW N \in Nat, Rows(l) = 1 .. N, NEW r, NEW M \in Nat, Rows(r) = 1 .. M
  PROVE  RowMajor(AllPairs(l, r), N, M)
<1> DEFINE seqs == [i \in 1 .. N |-> [j \in 1 .. M |-> <<i, j>>]]
           P == (1 .. N) \X (1 .. M)
<1>1. AllPairs(l, r) = FlattenSeq(seqs)
  BY DEF AllPairs
<1>2. /\ seqs \in Seq(Seq(P)) /\ Len(seqs) = N
      /\ \A i \in 1 .. N : seqs[i] = [j \in 1 .. M |-> <<i, j>>]
  OBVIOUS
<1> HIDE DEF seqs, P
<1>3. PICK f : /\ f[0] = <<>>
               /\ \A i \in 1 .. Len(seqs) : f[i] = f[i-1] \o seqs[i]
               /\ FlattenSeq(seqs) = f[Len(seqs)]
  BY <1>2, FlattenEquation
<1> DEFINE T == {i \in 0 .. N : RowMajor(f[i], i, M)}
<1>4. 0 \in T
  <2>1. RowMajor(<<>>, 0, M)
    BY DEF RowMajor, SortedPairs
  <2> QED BY <1>3, <2>1
<1>5. ASSUME NEW i \in 1 .. N, i - 1 \in T PROVE i \in T
  <2>1. RowMajor(f[i-1], i - 1, M) /\ i \in Nat \ {0} /\ i \in 0 .. N
    BY <1>5
  <2>2. RowMajor(f[i-1] \o seqs[i], i, M)
    BY <1>2, <2>1, RowMajorNext
  <2>3. f[i] = f[i-1] \o seqs[i]
    BY <1>2, <1>3
  <2> QED BY <2>1, <2>2, <2>3
<1> HIDE DEF T
<1>6. \A i \in 0 .. N : i \in T
  BY <1>4, <1>5, SegmentInduction, Zenon
<1> QED BY <1>1, <1>2, <1>3, <1>6 DEF T

(* Some of the pairs, in order. *)
LEMMA ChosenSorted ==
  ASSUME NEW A, NEW B, NEW s, SortedPairs(s, A, B), NEW P
  PROVE  /\ SortedPairs(Chosen(s, P), A, B)
         /\ \A x : Member(x, Chosen(s, P)) <=> \E n \in 1 .. Len(s) : n \in P /\ s[n] = x
<1> DEFINE N == Len(s)
           c == Chosen(s, P)
<1>1. s \in Seq(A \X B) /\ N \in Nat /\ \A n \in 1 .. N : s[n] \in A \X B
  BY DEF SortedPairs
<1>2. PICK k : Enumerates(k, P, N) /\ c = [a \in 1 .. Len(k) |-> s[k[a]]]
  BY <1>1, ChosenPicks DEF Picks
<1> DEFINE K == Len(k)
<1>3. /\ K \in Nat /\ \A a \in 1 .. K : k[a] \in 1 .. N
      /\ \A a, b \in 1 .. K : a < b => k[a] < k[b]
      /\ \A n \in 1 .. N : n \in P <=> \E a \in 1 .. K : k[a] = n
  BY <1>2 DEF Enumerates
<1> HIDE DEF c, K, N
<1>4. c = [a \in 1 .. K |-> s[k[a]]]
  BY <1>2 DEF K
<1>5. c \in Seq(A \X B) /\ Len(c) = K /\ \A a \in 1 .. K : c[a] = s[k[a]]
  BY <1>1, <1>3, <1>4
<1>6. \A m, n \in 1 .. K : m < n => Lex(c[m], c[n])
  BY <1>3, <1>5 DEF SortedPairs, N
<1>7. SortedPairs(c, A, B)
  BY <1>5, <1>6 DEF SortedPairs
<1>8. ASSUME NEW x PROVE Member(x, c) <=> \E n \in 1 .. N : n \in P /\ s[n] = x
  BY <1>3, <1>5 DEF Member
<1> QED BY <1>7, <1>8 DEF c, N

-----------------------------------------------------------------------------
(* Labels and positions.                                                   *)

(* Labels are found at one position, and are ordered as the rows are. *)
LEMMA LabelsNameRows ==
  ASSUME NEW ids, NEW d, IsDataset(d, ids)
  PROVE  /\ Rows(d) = 1 .. Len(d.lbl) /\ Len(d.lbl) \in Nat
         /\ \A i \in Rows(d) : d.lbl[i] \in Nat /\ d.lbl[i] \in LabelsOf(d)
         /\ \A i, j \in Rows(d) : /\ i < j <=> d.lbl[i] < d.lbl[j]
                                  /\ i = j <=> d.lbl[i] = d.lbl[j]
         /\ \A x \in LabelsOf(d) : /\ PositionOf(d, x) \in Rows(d)
                                   /\ d.lbl[PositionOf(d, x)] = x
<1> DEFINE N == Len(d.lbl)
<1>1. /\ N \in Nat /\ DOMAIN d.lbl = 1 .. N /\ \A i \in 1 .. N : d.lbl[i] \in Nat
      /\ \A i, j \in 1 .. N : i < j => d.lbl[i] < d.lbl[j]
  BY DEF IsDataset
<1>2. Rows(d) = 1 .. N /\ \A i \in 1 .. N : d.lbl[i] \in LabelsOf(d)
  BY <1>1 DEF Rows, LabelsOf, ToSet
<1>3. ASSUME NEW i \in 1 .. N, NEW j \in 1 .. N
      PROVE  (i < j <=> d.lbl[i] < d.lbl[j]) /\ (i = j <=> d.lbl[i] = d.lbl[j])
  <2>1. d.lbl[i] \in Nat /\ d.lbl[j] \in Nat
    BY <1>1
  <2>2. CASE i < j
    BY <1>1, <2>1, <2>2
  <2>3. CASE j < i
    BY <1>1, <2>1, <2>3
  <2>4. CASE i = j
    BY <2>1, <2>4
  <2> QED BY <2>2, <2>3, <2>4
<1>4. ASSUME NEW x \in LabelsOf(d)
      PROVE  PositionOf(d, x) \in 1 .. N /\ d.lbl[PositionOf(d, x)] = x
  <2>1. \E i \in 1 .. N : d.lbl[i] = x
    BY <1>1 DEF LabelsOf, ToSet
  <2> QED BY <1>2, <2>1 DEF PositionOf
<1> QED BY <1>1, <1>2, <1>3, <1>4

(* Sequences that hold their values at the same places hold them together. *)
LEMMA SameMembers ==
  ASSUME NEW F, NEW s, Len(s) = F, NEW t, Len(t) = F, NEW x, NEW y,
         \A n \in 1 .. F : s[n] = x <=> t[n] = y
  PROVE  Member(x, s) <=> Member(y, t)
<1>1. ASSUME Member(x, s) PROVE Member(y, t)
  <2>1. PICK n \in 1 .. Len(s) : s[n] = x
    BY <1>1 DEF Member
  <2>2. n \in 1 .. Len(t) /\ t[n] = y
    BY <2>1
  <2> QED BY <2>2 DEF Member
<1>2. ASSUME Member(y, t) PROVE Member(x, s)
  <2>1. PICK n \in 1 .. Len(t) : t[n] = y
    BY <1>2 DEF Member
  <2>2. n \in 1 .. Len(s) /\ s[n] = x
    BY <2>1
  <2> QED BY <2>2 DEF Member
<1> QED BY <1>1, <1>2

LabelPairs(l, r, found) ==
  [n \in DOMAIN found |-> <<l.lbl[found[n][1]], r.lbl[found[n][2]]>>]

PlacedPairs(l, r, pairs) ==
  [n \in DOMAIN pairs |-> <<PositionOf(l, pairs[n][1]), PositionOf(r, pairs[n][2])>>]

Named(pairs, l, r) ==
  \A n \in 1 .. Len(pairs) : pairs[n][1] \in LabelsOf(l) /\ pairs[n][2] \in LabelsOf(r)

(* Positions in order are labels in order, of the same rows. *)
LEMMA LabelledInOrder ==
  ASSUME NEW ids, NEW l, IsDataset(l, ids), NEW r, IsDataset(r, ids),
         NEW found, SortedPairs(found, Rows(l), Rows(r))
  PROVE  LET pairs == LabelPairs(l, r, found)
         IN  /\ SortedPairs(pairs, Nat, Nat) /\ Named(pairs, l, r)
             /\ \A i \in Rows(l), j \in Rows(r) :
                  Member(<<l.lbl[i], r.lbl[j]>>, pairs) <=> Member(<<i, j>>, found)
<1> DEFINE pairs == LabelPairs(l, r, found)
<1>1. /\ \A i \in Rows(l) : l.lbl[i] \in Nat /\ l.lbl[i] \in LabelsOf(l)
      /\ \A i, j \in Rows(l) : (i < j <=> l.lbl[i] < l.lbl[j]) /\ (i = j <=> l.lbl[i] = l.lbl[j])
      /\ \A i \in Rows(r) : r.lbl[i] \in Nat /\ r.lbl[i] \in LabelsOf(r)
      /\ \A i, j \in Rows(r) : (i < j <=> r.lbl[i] < r.lbl[j]) /\ (i = j <=> r.lbl[i] = r.lbl[j])
  BY LabelsNameRows
<1>2. PICK F \in Nat : F = Len(found)
  BY DEF SortedPairs
<1>3. /\ DOMAIN found = 1 .. F
      /\ \A n \in 1 .. F : /\ found[n] = <<found[n][1], found[n][2]>>
                           /\ found[n][1] \in Rows(l) /\ found[n][2] \in Rows(r)
      /\ \A m, n \in 1 .. F : m < n => Lex(found[m], found[n])
  BY <1>2 DEF SortedPairs
<1>4. /\ pairs \in Seq(Nat \X Nat) /\ Len(pairs) = F
      /\ \A n \in 1 .. F : pairs[n] = <<l.lbl[found[n][1]], r.lbl[found[n][2]]>>
  BY <1>1, <1>3 DEF LabelPairs
<1> HIDE DEF pairs
<1>5. ASSUME NEW m \in 1 .. F, NEW n \in 1 .. F, m < n PROVE Lex(pairs[m], pairs[n])
  <2>1. Lex(found[m], found[n])
    BY <1>3, <1>5
  <2>2. PICK a \in Rows(l), b \in Rows(r) : a = found[m][1] /\ b = found[m][2]
    BY <1>3
  <2>3. PICK c \in Rows(l), d \in Rows(r) : c = found[n][1] /\ d = found[n][2]
    BY <1>3
  <2>4. a < c \/ (a = c /\ b < d)
    BY <2>1, <2>2, <2>3 DEF Lex
  <2>5. l.lbl[a] < l.lbl[c] \/ (l.lbl[a] = l.lbl[c] /\ r.lbl[b] < r.lbl[d])
    BY <1>1, <2>4
  <2>6. pairs[m] = <<l.lbl[a], r.lbl[b]>> /\ pairs[n] = <<l.lbl[c], r.lbl[d]>>
    BY <1>4, <2>2, <2>3
  <2> QED BY <2>5, <2>6 DEF Lex
<1>6. ASSUME NEW i \in Rows(l), NEW j \in Rows(r), NEW n \in 1 .. F
      PROVE  pairs[n] = <<l.lbl[i], r.lbl[j]>> <=> found[n] = <<i, j>>
  BY <1>1, <1>3, <1>4
<1>7. \A i \in Rows(l), j \in Rows(r) :
        Member(<<l.lbl[i], r.lbl[j]>>, pairs) <=> Member(<<i, j>>, found)
  <2>1. Len(pairs) = F /\ Len(found) = F
    BY <1>2, <1>4
  <2>2. ASSUME NEW i \in Rows(l), NEW j \in Rows(r),
               NEW x, x = <<l.lbl[i], r.lbl[j]>>, NEW y, y = <<i, j>>
        PROVE  Member(x, pairs) <=> Member(y, found)
    <3>1. \A n \in 1 .. F : pairs[n] = x <=> found[n] = y
      BY <2>2, <1>6
    <3> QED BY <2>1, <3>1, SameMembers, SMTT(60)
  <2> QED BY <2>2, Zenon
<1>8. Named(pairs, l, r)
  <2>1. Len(pairs) = F
    BY <1>4
  <2>2. ASSUME NEW n \in 1 .. F
        PROVE  pairs[n][1] \in LabelsOf(l) /\ pairs[n][2] \in LabelsOf(r)
    <3>1. pairs[n][1] = l.lbl[found[n][1]] /\ pairs[n][2] = r.lbl[found[n][2]]
      BY <1>4
    <3>2. found[n][1] \in Rows(l) /\ found[n][2] \in Rows(r)
      BY <1>3
    <3> QED BY <1>1, <3>1, <3>2
  <2> QED BY <2>1, <2>2, Zenon DEF Named
<1> QED BY <1>4, <1>5, <1>7, <1>8 DEF SortedPairs, pairs

(* Labels in order are positions in order, of the same rows. *)
LEMMA PlacedInOrder ==
  ASSUME NEW ids, NEW l, IsDataset(l, ids), NEW r, IsDataset(r, ids),
         NEW pairs, SortedPairs(pairs, Nat, Nat), Named(pairs, l, r)
  PROVE  LET placed == PlacedPairs(l, r, pairs)
         IN  /\ SortedPairs(placed, Rows(l), Rows(r))
             /\ \A i \in Rows(l), j \in Rows(r) :
                  Member(<<i, j>>, placed) <=> Member(<<l.lbl[i], r.lbl[j]>>, pairs)
<1> DEFINE placed == PlacedPairs(l, r, pairs)
<1>1. /\ \A i, j \in Rows(l) : (i < j <=> l.lbl[i] < l.lbl[j]) /\ (i = j <=> l.lbl[i] = l.lbl[j])
      /\ \A i, j \in Rows(r) : (i < j <=> r.lbl[i] < r.lbl[j]) /\ (i = j <=> r.lbl[i] = r.lbl[j])
  BY LabelsNameRows
<1>2. PICK F \in Nat : F = Len(pairs)
  BY DEF SortedPairs
<1>3. /\ DOMAIN pairs = 1 .. F
      /\ \A n \in 1 .. F : pairs[n] = <<pairs[n][1], pairs[n][2]>>
      /\ \A m, n \in 1 .. F : m < n => Lex(pairs[m], pairs[n])
  BY <1>2 DEF SortedPairs
<1>4. ASSUME NEW n \in 1 .. F
      PROVE  /\ PositionOf(l, pairs[n][1]) \in Rows(l)
             /\ l.lbl[PositionOf(l, pairs[n][1])] = pairs[n][1]
             /\ PositionOf(r, pairs[n][2]) \in Rows(r)
             /\ r.lbl[PositionOf(r, pairs[n][2])] = pairs[n][2]
  <2>1. pairs[n][1] \in LabelsOf(l) /\ pairs[n][2] \in LabelsOf(r)
    BY <1>2 DEF Named
  <2> QED BY <2>1, LabelsNameRows
<1>5. placed = [n \in 1 .. F |-> <<PositionOf(l, pairs[n][1]), PositionOf(r, pairs[n][2])>>]
  BY <1>3 DEF PlacedPairs
<1> HIDE DEF placed
<1>6. /\ placed \in Seq(Rows(l) \X Rows(r)) /\ Len(placed) = F
      /\ \A n \in 1 .. F : placed[n] = <<PositionOf(l, pairs[n][1]), PositionOf(r, pairs[n][2])>>
  BY <1>4, <1>5
<1>7. ASSUME NEW m \in 1 .. F, NEW n \in 1 .. F, m < n PROVE Lex(placed[m], placed[n])
  <2>1. Lex(pairs[m], pairs[n])
    BY <1>3, <1>7
  <2> QED BY <1>1, <1>4, <1>6, <2>1 DEF Lex
<1>8. ASSUME NEW i \in Rows(l), NEW j \in Rows(r), NEW n \in 1 .. F
      PROVE  placed[n] = <<i, j>> <=> pairs[n] = <<l.lbl[i], r.lbl[j]>>
  BY <1>1, <1>3, <1>4, <1>6
<1>9. \A i \in Rows(l), j \in Rows(r) :
        Member(<<i, j>>, placed) <=> Member(<<l.lbl[i], r.lbl[j]>>, pairs)
  <2>1. Len(placed) = F /\ Len(pairs) = F
    BY <1>2, <1>6
  <2>2. ASSUME NEW i \in Rows(l), NEW j \in Rows(r),
               NEW x, x = <<i, j>>, NEW y, y = <<l.lbl[i], r.lbl[j]>>
        PROVE  Member(x, placed) <=> Member(y, pairs)
    <3>1. \A n \in 1 .. F : placed[n] = x <=> pairs[n] = y
      BY <2>2, <1>8
    <3> QED BY <2>1, <3>1, SameMembers, SMTT(60)
  <2> QED BY <2>2, Zenon
<1> QED BY <1>6, <1>7, <1>9 DEF SortedPairs, placed

-----------------------------------------------------------------------------
(* Correspondences.                                                        *)

(* A plan holds, in order, the pairs of rows all its terms relate.         *)
Relates(c, l, r) ==
  /\ SortedPairs(c.pairs, Nat, Nat)
  /\ \A i \in Rows(l), j \in Rows(r) :
       Member(<<l.lbl[i], r.lbl[j]>>, c.pairs) <=> \A t \in c.terms : Holds(t, l, r, i, j)

(* One pass over the candidates in order leaves, in order, those of them   *)
(* the term relates.                                                       *)
LEMMA CorrespondInOrder ==
  ASSUME NEW ids, NEW l, IsDataset(l, ids), NEW r, IsDataset(r, ids), NEW t,
         NEW positions, SortedPairs(positions, Rows(l), Rows(r))
  PROVE  LET found == Correspond(t, l, r, positions)
         IN  /\ SortedPairs(found, Rows(l), Rows(r))
             /\ \A i \in Rows(l), j \in Rows(r) :
                  Member(<<i, j>>, found) <=> Member(<<i, j>>, positions) /\ Holds(t, l, r, i, j)
<1> DEFINE P == {n \in DOMAIN positions : Holds(t, l, r, positions[n][1], positions[n][2])}
           found == Chosen(positions, P)
<1>1. DOMAIN positions = 1 .. Len(positions)
  BY DEF SortedPairs
<1>2. /\ SortedPairs(found, Rows(l), Rows(r))
      /\ \A x : Member(x, found) <=> \E n \in 1 .. Len(positions) : n \in P /\ positions[n] = x
  BY ChosenSorted
<1> HIDE DEF found
<1>3. ASSUME NEW i \in Rows(l), NEW j \in Rows(r), NEW x, x = <<i, j>>
      PROVE  Member(x, found) <=> Member(x, positions) /\ Holds(t, l, r, i, j)
  <2>1. Member(x, found) <=> \E n \in 1 .. Len(positions) : n \in P /\ positions[n] = x
    BY <1>2
  <2>2. \A n \in 1 .. Len(positions) :
          positions[n] = x => (n \in P <=> Holds(t, l, r, i, j))
    BY <1>1, <1>3
  <2> HIDE DEF P
  <2> QED BY <2>1, <2>2 DEF Member
<1>4. Correspond(t, l, r, positions) = found
  BY DEF Correspond, found
<1> QED BY <1>2, <1>3, <1>4, Zenon

(* Joining by a term narrows a plan to the pairs the term relates; without *)
(* one it starts from all pairs.                                           *)
LEMMA JoinRelates ==
  ASSUME NEW ids, NEW l, IsDataset(l, ids), NEW r, IsDataset(r, ids), NEW t, NEW c,
         c # Null => Relates(c, l, r) /\ Named(c.pairs, l, r)
  PROVE  LET joined == DimensionJoin(t, l, r, c)
         IN  /\ Relates(joined, l, r) /\ Named(joined.pairs, l, r)
             /\ joined.left = l.id /\ joined.right = r.id
<1> DEFINE positions == IF c = Null THEN AllPairs(l, r) ELSE PlacedPairs(l, r, c.pairs)
           terms == {t} \cup IF c = Null THEN {} ELSE c.terms
           found == Correspond(t, l, r, positions)
           joined == DimensionJoin(t, l, r, c)
           before(i, j) == c = Null \/ \A u \in c.terms : Holds(u, l, r, i, j)
<1>1. /\ SortedPairs(positions, Rows(l), Rows(r))
      /\ \A i \in Rows(l), j \in Rows(r) : Member(<<i, j>>, positions) <=> before(i, j)
  <2>1. CASE c = Null
    <3>1. Rows(l) = 1 .. Len(l.lbl) /\ Len(l.lbl) \in Nat
      BY LabelsNameRows
    <3>2. Rows(r) = 1 .. Len(r.lbl) /\ Len(r.lbl) \in Nat
      BY LabelsNameRows
    <3>3. RowMajor(AllPairs(l, r), Len(l.lbl), Len(r.lbl))
      BY <3>1, <3>2, AllPairsSorted
    <3> HIDE DEF before
    <3>4. \A i \in Rows(l), j \in Rows(r) : before(i, j)
      BY <2>1 DEF before
    <3> QED BY <2>1, <3>1, <3>2, <3>3, <3>4, Zenon DEF RowMajor
  <2>2. CASE c # Null
    <3>1. /\ SortedPairs(c.pairs, Nat, Nat) /\ Named(c.pairs, l, r)
          /\ \A i \in Rows(l), j \in Rows(r) :
               Member(<<l.lbl[i], r.lbl[j]>>, c.pairs) <=> \A u \in c.terms : Holds(u, l, r, i, j)
      BY <2>2, Zenon DEF Relates
    <3>2. /\ SortedPairs(PlacedPairs(l, r, c.pairs), Rows(l), Rows(r))
          /\ \A i \in Rows(l), j \in Rows(r) :
               Member(<<i, j>>, PlacedPairs(l, r, c.pairs))
                 <=> Member(<<l.lbl[i], r.lbl[j]>>, c.pairs)
      BY <3>1, PlacedInOrder, Zenon
    <3> QED BY <2>2, <3>1, <3>2, Zenon
  <2> QED BY <2>1, <2>2
<1>2. /\ SortedPairs(found, Rows(l), Rows(r))
      /\ \A i \in Rows(l), j \in Rows(r) :
           Member(<<i, j>>, found) <=> Member(<<i, j>>, positions) /\ Holds(t, l, r, i, j)
  BY <1>1, CorrespondInOrder, Zenon
<1>3. /\ SortedPairs(LabelPairs(l, r, found), Nat, Nat)
      /\ Named(LabelPairs(l, r, found), l, r)
      /\ \A i \in Rows(l), j \in Rows(r) :
           Member(<<l.lbl[i], r.lbl[j]>>, LabelPairs(l, r, found)) <=> Member(<<i, j>>, found)
  BY <1>2, LabelledInOrder, Zenon
<1>4. joined = [left |-> l.id, right |-> r.id, terms |-> terms,
                pairs |-> LabelPairs(l, r, found)]
  BY DEF DimensionJoin, CorrespondencePlan, LabelPairs, PlacedPairs
<1>5. \A i, j : (\A u \in terms : Holds(u, l, r, i, j)) <=> Holds(t, l, r, i, j) /\ before(i, j)
  OBVIOUS
<1> HIDE DEF positions, found, terms, before, joined
<1>6. /\ joined.left = l.id /\ joined.right = r.id /\ joined.terms = terms
      /\ joined.pairs = LabelPairs(l, r, found)
  BY <1>4
<1>7. ASSUME NEW i \in Rows(l), NEW j \in Rows(r)
      PROVE  Member(<<l.lbl[i], r.lbl[j]>>, joined.pairs)
               <=> \A u \in joined.terms : Holds(u, l, r, i, j)
  BY <1>1, <1>2, <1>3, <1>5, <1>6, Zenon
<1> QED BY <1>3, <1>6, <1>7, Zenon DEF Relates, joined

(* A finite set laid out in a sequence. *)
LEMMA SetInSequence ==
  ASSUME NEW S, IsFiniteSet(S)
  PROVE  SetToSeq(S) \in Seq(S)
<1> DEFINE n == Cardinality(S)
<1>1. n \in Nat /\ ExistsBijection(1 .. n, S)
  BY FS_CardinalityType
<1>2. PICK f : f \in Bijection(1 .. n, S)
  BY <1>1 DEF ExistsBijection
<1>3. f \in [1 .. n -> S] /\ IsInjective(f)
  BY <1>2 DEF Bijection, Injection, IsInjective
<1> QED BY <1>1, <1>3 DEF SetToSeq

(* Finitely many terms are joined in finitely many stages.                 *)
LEMMA StagesAreFinite ==
  ASSUME NEW terms, IsFiniteSet(terms)
  PROVE  Len(Staged(terms)) \in Nat
<1> DEFINE equalities == {t \in terms : t.kind = "equals"}
           others == terms \ equalities
<1>1. IsFiniteSet(equalities) /\ IsFiniteSet(others)
  BY FS_Subset
<1>2. SetToSeq(equalities) \in Seq(equalities) /\ SetToSeq(others) \in Seq(others)
  BY <1>1, SetInSequence
<1>3. SetToSeq(equalities) \in Seq(terms) /\ SetToSeq(others) \in Seq(terms)
  BY <1>2
<1>4. SetToSeq(equalities) \o SetToSeq(others) \in Seq(terms)
  BY <1>3
<1> QED BY <1>4 DEF Staged

(* Match joins by one term after another. *)
LEMMA MatchEquation ==
  ASSUME NEW terms, NEW l, NEW r, Len(Staged(terms)) \in Nat
  PROVE  LET order == Staged(terms)
         IN  \E f : /\ f[0] = Null
                    /\ \A n \in 1 .. Len(order) : f[n] = DimensionJoin(order[n], l, r, f[n-1])
                    /\ Match(terms, l, r) = f[Len(order)]
<1> DEFINE order == Staged(terms)
           N == Len(order)
           eqn(n, g) == g = [k \in 0 .. n |-> IF k = 0 THEN Null
                                              ELSE DimensionJoin(order[k], l, r, g[k-1])]
           T == {n \in 0 .. N : \E g : eqn(n, g)}
<1>1. \E g : eqn(0, g)
  <2> WITNESS [k \in 0 .. 0 |-> Null]
  <2> QED OBVIOUS
<1>2. ASSUME NEW n \in 1 .. N, NEW g, eqn(n - 1, g)
      PROVE  \E h : eqn(n, h)
  <2> DEFINE h == [k \in 0 .. n |-> IF k = n THEN DimensionJoin(order[n], l, r, g[n-1])
                                    ELSE g[k]]
  <2> SUFFICES eqn(n, h)
    OBVIOUS
  <2>1. ASSUME NEW k \in 0 .. n
        PROVE  h[k] = IF k = 0 THEN Null ELSE DimensionJoin(order[k], l, r, h[k-1])
    <3>1. CASE k = n
      BY <3>1
    <3>2. CASE k # n
      BY <3>2, <1>2
    <3> QED BY <3>1, <3>2
  <2> QED BY <2>1
<1>3. \E g : eqn(N, g)
  <2> HIDE DEF eqn
  <2>1. 0 \in T /\ \A n \in 1 .. N : n - 1 \in T => n \in T
    BY <1>1, <1>2
  <2> HIDE DEF T
  <2>2. \A n \in 0 .. N : n \in T
    BY <2>1, SegmentInduction, Zenon
  <2> QED BY <2>2 DEF T
<1> DEFINE f == CHOOSE g : eqn(N, g)
<1>4. eqn(N, f)
  <2> HIDE DEF eqn
  <2> QED BY <1>3
<1>5. Match(terms, l, r) = f[N]
  BY DEF Match
<1> HIDE DEF f
<1>6. f[0] = Null /\ \A n \in 1 .. N : f[n] = DimensionJoin(order[n], l, r, f[n-1])
  BY <1>4
<1> QED BY <1>5, <1>6

(* Matching relates the rows of both sides, whatever the terms are. *)
LEMMA MatchRelates ==
  ASSUME NEW ids, NEW l, IsDataset(l, ids), NEW r, IsDataset(r, ids),
         NEW terms, IsFiniteSet(terms), Match(terms, l, r) # Null
  PROVE  LET m == Match(terms, l, r)
         IN  Relates(m, l, r) /\ m.left = l.id /\ m.right = r.id
<1> DEFINE order == Staged(terms)
<1>1. PICK N \in Nat : N = Len(order)
  BY StagesAreFinite
<1>2. PICK f : /\ f[0] = Null
               /\ \A n \in 1 .. N : f[n] = DimensionJoin(order[n], l, r, f[n-1])
               /\ Match(terms, l, r) = f[N]
  BY <1>1, MatchEquation
<1> DEFINE good(c) == c # Null => /\ Relates(c, l, r) /\ Named(c.pairs, l, r)
                                  /\ c.left = l.id /\ c.right = r.id
           T == {n \in 0 .. N : good(f[n])}
<1>3. 0 \in T
  BY <1>2
<1>4. ASSUME NEW n \in 1 .. N, n - 1 \in T PROVE n \in T
  <2>1. f[n-1] # Null => Relates(f[n-1], l, r) /\ Named(f[n-1].pairs, l, r)
    BY <1>4
  <2>2. f[n] = DimensionJoin(order[n], l, r, f[n-1])
    BY <1>2
  <2>3. good(f[n])
    BY <2>1, <2>2, JoinRelates
  <2> QED BY <2>3
<1> HIDE DEF T
<1>5. \A n \in 0 .. N : n \in T
  BY <1>3, <1>4, SegmentInduction, Zenon
<1>6. good(f[N])
  BY <1>5 DEF T
<1> QED BY <1>2, <1>6

(* Rows of the sides, whichever are left, are related as before. *)
LEMMA FilteredRelates ==
  ASSUME NEW c, NEW l, NEW r, Relates(c, l, r),
         NEW e, NEW k, RowsOf(e, l, k), NEW g, NEW h, RowsOf(g, r, h)
  PROVE  Relates(c, e, g)
<1> SUFFICES ASSUME NEW i \in Rows(e), NEW j \in Rows(g)
             PROVE  Member(<<e.lbl[i], g.lbl[j]>>, c.pairs)
                      <=> \A t \in c.terms : Holds(t, e, g, i, j)
  BY DEF Relates
<1>1. /\ k[i] \in Rows(l) /\ e.lbl[i] = l.lbl[k[i]] /\ e.key[i] = l.key[k[i]]
      /\ SliceOf(e, i) = SliceOf(l, k[i])
  BY DEF RowsOf
<1>2. /\ h[j] \in Rows(r) /\ g.lbl[j] = r.lbl[h[j]] /\ g.key[j] = r.key[h[j]]
      /\ SliceOf(g, j) = SliceOf(r, h[j])
  BY DEF RowsOf
<1>3. \A t : Holds(t, e, g, i, j) = Holds(t, l, r, k[i], h[j])
  BY <1>1, <1>2 DEF Holds
<1>4. <<e.lbl[i], g.lbl[j]>> = <<l.lbl[k[i]], r.lbl[h[j]]>>
  BY <1>1, <1>2
<1>5. Member(<<l.lbl[k[i]], r.lbl[h[j]]>>, c.pairs)
        <=> \A t \in c.terms : Holds(t, l, r, k[i], h[j])
  BY <1>1, <1>2, Zenon DEF Relates
<1> QED BY <1>3, <1>4, <1>5, Zenon

(* What a plan that relates the sides means, through the labels that are   *)
(* still there.                                                            *)
Meaning(c, l, r) ==
  LET there == Chosen(c.pairs, {n \in DOMAIN c.pairs : /\ c.pairs[n][1] \in LabelsOf(l)
                                                       /\ c.pairs[n][2] \in LabelsOf(r)})
      all == AllPairs(l, r)
  IN  PlacedPairs(l, r, there)
        = Chosen(all, {n \in DOMAIN all : \A t \in c.terms :
                                             Holds(t, l, r, all[n][1], all[n][2])})

(* Pairs in order that stand for the terms are those the terms select.      *)
LEMMA RelatesMeans ==
  ASSUME NEW ids, NEW l, IsDataset(l, ids), NEW r, IsDataset(r, ids),
         NEW c, Relates(c, l, r)
  PROVE  Meaning(c, l, r)
<1> DEFINE pairs == c.pairs
           P == {n \in DOMAIN pairs : pairs[n][1] \in LabelsOf(l) /\ pairs[n][2] \in LabelsOf(r)}
           there == Chosen(pairs, P)
           all == AllPairs(l, r)
           Q == {n \in DOMAIN all : \A t \in c.terms : Holds(t, l, r, all[n][1], all[n][2])}
           related == Chosen(all, Q)
           placed == PlacedPairs(l, r, there)
<1>1. SortedPairs(pairs, Nat, Nat) /\ DOMAIN pairs = 1 .. Len(pairs)
  BY DEF Relates, SortedPairs
<1>2. /\ SortedPairs(there, Nat, Nat)
      /\ \A x : Member(x, there) <=> \E n \in 1 .. Len(pairs) : n \in P /\ pairs[n] = x
  BY <1>1, ChosenSorted
<1>3. /\ Rows(l) = 1 .. Len(l.lbl) /\ Len(l.lbl) \in Nat
      /\ \A i \in Rows(l) : l.lbl[i] \in LabelsOf(l)
  BY LabelsNameRows
<1>4. /\ Rows(r) = 1 .. Len(r.lbl) /\ Len(r.lbl) \in Nat
      /\ \A i \in Rows(r) : r.lbl[i] \in LabelsOf(r)
  BY LabelsNameRows
<1>5. /\ SortedPairs(all, Rows(l), Rows(r)) /\ DOMAIN all = 1 .. Len(all)
      /\ \A i \in Rows(l), j \in Rows(r) : Member(<<i, j>>, all)
  <2>1. RowMajor(all, Len(l.lbl), Len(r.lbl))
    BY <1>3, <1>4, AllPairsSorted
  <2> HIDE DEF all
  <2>2. /\ SortedPairs(all, Rows(l), Rows(r))
        /\ \A i \in Rows(l), j \in Rows(r) : Member(<<i, j>>, all)
    BY <1>3, <1>4, <2>1, Zenon DEF RowMajor
  <2>3. DOMAIN all = 1 .. Len(all)
    BY <2>2 DEF SortedPairs
  <2> QED BY <2>2, <2>3
<1>6. /\ SortedPairs(related, Rows(l), Rows(r))
      /\ \A x : Member(x, related) <=> \E n \in 1 .. Len(all) : n \in Q /\ all[n] = x
  BY <1>5, ChosenSorted
<1> HIDE DEF there, all, related, placed
<1>7. Named(there, l, r)
  <2>1. ASSUME NEW m \in 1 .. Len(there)
        PROVE  there[m][1] \in LabelsOf(l) /\ there[m][2] \in LabelsOf(r)
    <3>1. PICK x : x = there[m]
      OBVIOUS
    <3>2. Member(x, there)
      BY <3>1 DEF Member
    <3>3. PICK n \in 1 .. Len(pairs) : n \in P /\ pairs[n] = x
      BY <1>2, <3>2
    <3> QED BY <3>1, <3>3
  <2> QED BY <2>1 DEF Named
<1>8. /\ SortedPairs(placed, Rows(l), Rows(r))
      /\ \A i \in Rows(l), j \in Rows(r) :
           Member(<<i, j>>, placed) <=> Member(<<l.lbl[i], r.lbl[j]>>, there)
  BY <1>2, <1>7, PlacedInOrder, Zenon DEF placed
<1>9. ASSUME NEW i \in Rows(l), NEW j \in Rows(r), NEW x, x = <<l.lbl[i], r.lbl[j]>>
      PROVE  Member(x, there) <=> Member(x, pairs)
  <2>1. \A n \in 1 .. Len(pairs) : pairs[n] = x => n \in P
    BY <1>1, <1>3, <1>4, <1>9
  <2>2. Member(x, there) <=> \E n \in 1 .. Len(pairs) : n \in P /\ pairs[n] = x
    BY <1>2
  <2> HIDE DEF P, pairs
  <2> QED BY <2>1, <2>2 DEF Member
<1>10. ASSUME NEW i \in Rows(l), NEW j \in Rows(r), NEW x, x = <<i, j>>
       PROVE  Member(x, related) <=> \A t \in c.terms : Holds(t, l, r, i, j)
  <2>1. \A n \in 1 .. Len(all) :
          all[n] = x => (n \in Q <=> \A t \in c.terms : Holds(t, l, r, i, j))
    BY <1>5, <1>10
  <2>2. Member(x, related) <=> \E n \in 1 .. Len(all) : n \in Q /\ all[n] = x
    BY <1>6
  <2>3. Member(x, all)
    BY <1>5, <1>10, Zenon
  <2> HIDE DEF Q
  <2> QED BY <2>1, <2>2, <2>3 DEF Member
<1>11. ASSUME NEW i \in Rows(l), NEW j \in Rows(r)
       PROVE  Member(<<i, j>>, placed) <=> Member(<<i, j>>, related)
  <2>1. Member(<<l.lbl[i], r.lbl[j]>>, pairs) <=> \A t \in c.terms : Holds(t, l, r, i, j)
    BY Zenon DEF Relates
  <2> QED BY <1>8, <1>9, <1>10, <2>1, Zenon
<1>12. Rows(l) \subseteq Nat /\ Rows(r) \subseteq Nat
  BY <1>3, <1>4
<1>13. SortedPairs(placed, Nat, Nat) /\ SortedPairs(related, Nat, Nat)
  BY <1>6, <1>8, <1>12 DEF SortedPairs
<1>14. ASSUME NEW x
       PROVE  Member(x, placed) <=> Member(x, related)
  <2>1. Member(x, placed) => \E i \in Rows(l), j \in Rows(r) : x = <<i, j>>
    BY <1>8 DEF Member, SortedPairs
  <2>2. Member(x, related) => \E i \in Rows(l), j \in Rows(r) : x = <<i, j>>
    BY <1>6 DEF Member, SortedPairs
  <2> QED BY <1>11, <2>1, <2>2, Zenon
<1>15. placed = related
  BY <1>13, <1>14, SortedUnique
<1> QED BY <1>15 DEF Meaning, placed, related, there, all

-----------------------------------------------------------------------------
(* Windows, filters and joins keep the datasets in step and the plan true. *)

(* Windows over the slices of a dataset give a dataset again.              *)
LEMMA TiledIsTyped ==
  ASSUME NEW ids, NEW d, IsDataset(d, ids), NEW windows, windows \in Seq(ToSet(windows)),
         CanExplode(d.arr, windows), \A n \in DOMAIN windows : IsWindow(windows[n].window),
         NEW more, NEW fresh \in more
  PROVE  IsDataset(Tiled(d, windows, fresh), more) /\ Tiled(d, windows, fresh).id = fresh
<1> DEFINE x == ExplodeWindows(d.arr, windows)
           N == Len(d.lbl)
           M == Len(x.parents)
           e == Tiled(d, windows, fresh)
<1>1. N \in Nat /\ IsArray(d.arr, N)
  BY DEF IsDataset
<1>2. x.parents \in Seq(1 .. N) /\ IsArray(x.slices, M)
  BY <1>1, ExplodedIsTyped
<1> HIDE DEF x
<1>3. M \in Nat /\ DOMAIN x.parents = 1 .. M
  BY <1>2
<1>4. /\ e.id = fresh /\ e.sliced = TRUE /\ e.arr = x.slices
      /\ e.lbl = [p \in 1 .. M |-> p - 1] /\ IsColumn(e.key, M)
      /\ e = [id |-> e.id, lbl |-> e.lbl, key |-> e.key, sliced |-> e.sliced, arr |-> e.arr]
  BY <1>3 DEF Tiled, x, IsColumn
<1> HIDE DEF e
<1>5. e.lbl \in Seq(Nat) /\ Len(e.lbl) = M /\ \A i, j \in 1 .. M : i < j => e.lbl[i] < e.lbl[j]
  BY <1>3, <1>4
<1> QED BY <1>2, <1>4, <1>5 DEF IsDataset, e

(* Leaving one row out keeps the others, in order. *)
LEMMA DropOne ==
  ASSUME NEW d, NEW N \in Nat, Rows(d) = 1 .. N, NEW i
  PROVE  LET kept == Chosen([p \in Rows(d) |-> p], Rows(d) \ {i})
         IN  /\ kept \in Seq(1 .. N)
             /\ \A a, b \in 1 .. Len(kept) : a < b => kept[a] < kept[b]
<1> DEFINE s == [p \in Rows(d) |-> p]
           P == Rows(d) \ {i}
           kept == Chosen(s, P)
<1>1. Len(s) = N /\ \A n \in 1 .. N : s[n] = n
  OBVIOUS
<1>2. Picks(kept, s, P, N)
  BY <1>1, ChosenPicks
<1> HIDE DEF s, P, kept
<1>3. PICK k : Enumerates(k, P, N) /\ kept = [a \in 1 .. Len(k) |-> s[k[a]]]
  BY <1>2 DEF Picks
<1>4. PICK K \in Nat : K = Len(k)
  <2>1. Len(k) \in Nat
    BY <1>3 DEF Enumerates
  <2> QED BY <2>1
<1>5. /\ \A a \in 1 .. K : k[a] \in 1 .. N
      /\ \A a, b \in 1 .. K : a < b => k[a] < k[b]
  BY <1>3, <1>4 DEF Enumerates
<1>6. kept = [a \in 1 .. K |-> s[k[a]]]
  BY <1>3, <1>4
<1>7. kept \in Seq(1 .. N) /\ Len(kept) = K /\ \A a \in 1 .. K : kept[a] = k[a]
  BY <1>1, <1>5, <1>6
<1> QED BY <1>5, <1>7 DEF kept, s, P

(* Labels that grow are as many as the rows. *)
LEMMA LabelsAreUnique ==
  ASSUME NEW ids, NEW d, IsDataset(d, ids)
  PROVE  Cardinality(LabelsOf(d)) = Len(d.lbl)
<1> DEFINE N == Len(d.lbl)
<1>1. /\ N \in Nat /\ DOMAIN d.lbl = 1 .. N /\ d.lbl = [i \in 1 .. N |-> d.lbl[i]]
  BY DEF IsDataset
<1>2. \A i, j \in 1 .. N : i = j <=> d.lbl[i] = d.lbl[j]
  BY LabelsNameRows
<1>3. LabelsOf(d) = {d.lbl[i] : i \in 1 .. N}
  BY <1>1 DEF LabelsOf, ToSet
<1>4. d.lbl \in Bijection(1 .. N, LabelsOf(d))
  BY <1>1, <1>2, <1>3 DEF Bijection, Injection, Surjection, IsInjective
<1>5. ExistsBijection(1 .. N, LabelsOf(d))
  BY <1>4 DEF ExistsBijection
<1> QED BY <1>1, <1>5, FS_CountingElements

-----------------------------------------------------------------------------
(* The inductive invariant: both datasets are in step, and a plan under    *)
(* the identities its sides have now relates their rows.  A plan of        *)
(* another identity says nothing, and no identity is minted twice.         *)

SidesInStep ==
  /\ side = [s \in Sides |-> side[s]]
  /\ \A s \in Sides : IsDataset(side[s], 1 .. minted)

PlanIsTrue ==
  plan # Null =>
    /\ plan.left \in 1 .. minted /\ plan.right \in 1 .. minted
    /\ plan.left = side["left"].id /\ plan.right = side["right"].id
         => Relates(plan, side["left"], side["right"])

PlanInv ==
  /\ minted \in 2 .. MaxMinted /\ drops \in 0 .. MaxDrops
  /\ SidesInStep
  /\ PlanIsTrue

(* A dataset with its slices in one column is in step. *)
LEMMA SliceArrayIsTyped ==
  ASSUME NEW scalars, NEW N \in Nat, scalars = [i \in 1 .. N |-> scalars[i]],
         \A i \in 1 .. N : IsSlice(scalars[i])
  PROVE  IsArray(SliceArray(scalars), N)
BY DEF IsArray, SliceArray, Present

(* So is one whose bounds are columns, where they can be bound. *)
LEMMA BindingsAreTyped ==
  ASSUME NEW rows, NEW N \in Nat, rows = [i \in 1 .. N |-> rows[i]],
         \A i \in 1 .. N : IsSlice(rows[i]),
         NEW dims, dims \in Seq(ToSet(dims)), Bindable(dims, rows)
  PROVE  IsArray(SliceArrayFromBindings(dims, rows), N)
<1> DEFINE array == SliceArrayFromBindings(dims, rows)
<1>1. PICK K \in Nat : K = Len(dims) /\ DOMAIN dims = 1 .. K
  OBVIOUS
<1>2. array = [base |-> [i \in 1 .. N |-> NoSlice],
               layers |-> [n \in 1 .. K |->
                             [dim |-> dims[n], column |-> [i \in 1 .. N |-> rows[i][dims[n]]]]]]
  BY <1>1 DEF SliceArrayFromBindings
<1>3. ASSUME NEW n \in 1 .. K, NEW i \in 1 .. N PROVE rows[i][dims[n]] \in Extents
  <2>1. dims[n] \in ToSet(dims)
    BY <1>1
  <2>2. rows[i] # Null /\ DOMAIN rows[i] = ToSet(dims) /\ rows[i][dims[n]][1] # Null
    BY <2>1 DEF Bindable
  <2>3. rows[i][dims[n]] \in (Int \cup {Null}) \X Int
    BY <2>1, <2>2 DEF IsSlice
  <2> DEFINE e == rows[i][dims[n]]
  <2> HIDE DEF e
  <2>4. e \in (Int \cup {Null}) \X Int /\ e[1] # Null
    BY <2>2, <2>3 DEF e
  <2>5. e \in Int \X Int
    BY <2>4
  <2> QED BY <2>5 DEF e, Extents
<1>4. /\ array.base = [i \in 1 .. N |-> NoSlice]
      /\ array.layers = [n \in 1 .. K |-> array.layers[n]] /\ Len(array.layers) = K
      /\ \A n \in 1 .. K : Layer(array, n) = [dim |-> dims[n],
                                              column |-> [i \in 1 .. N |-> rows[i][dims[n]]]]
      /\ array = [base |-> array.base, layers |-> array.layers]
  <2> HIDE DEF array
  <2>1. /\ array.base = [i \in 1 .. N |-> NoSlice]
        /\ array.layers = [n \in 1 .. K |->
                             [dim |-> dims[n], column |-> [i \in 1 .. N |-> rows[i][dims[n]]]]]
    BY <1>2
  <2>2. array = [base |-> array.base, layers |-> array.layers]
    BY <1>2
  <2> QED BY <2>1, <2>2 DEF Layer
<1> HIDE DEF array
<1>5. /\ array.base = [i \in 1 .. N |-> array.base[i]]
      /\ \A i \in 1 .. N : IsSlice(array.base[i])
      /\ Present(array) \subseteq 1 .. N
  BY <1>4 DEF IsSlice, NoSlice, Present
<1>6. ASSUME NEW n \in 1 .. K
      PROVE  /\ Layer(array, n) = [dim |-> Layer(array, n).dim, column |-> Layer(array, n).column]
             /\ IsColumn(Layer(array, n).column, N)
             /\ \A i \in Present(array) : Layer(array, n).column[i] \in Extents
  <2>1. Layer(array, n) = [dim |-> dims[n], column |-> [i \in 1 .. N |-> rows[i][dims[n]]]]
    BY <1>4
  <2>2. Layer(array, n).column = [i \in 1 .. N |-> rows[i][dims[n]]]
    BY <2>1
  <2> QED BY <1>3, <1>5, <2>1, <2>2 DEF IsColumn
<1> QED BY <1>4, <1>5, <1>6 DEF IsArray, array

(* The datasets a program starts with are in step, bound or columnar.      *)
LEMMA InitInStep ==
  Init => PlanInv
<1> SUFFICES ASSUME Init PROVE PlanInv
  OBVIOUS
<1>1. PICK columnar \in SUBSET {s \in Sides : Bindable(Dims, SlicesAt(s))} :
        side = [s \in Sides |->
            [id |-> IF s = "left" THEN 1 ELSE 2,
             lbl |-> [i \in DOMAIN Start[s] |-> i - 1],
             key |-> [i \in DOMAIN Start[s] |-> Start[s][i].key],
             sliced |-> s \notin columnar,
             arr |-> IF s \in columnar THEN SliceArrayFromBindings(Dims, SlicesAt(s))
                     ELSE SliceArray(SlicesAt(s))]]
  BY DEF Init
<1>2. plan = Null /\ drops = 0 /\ minted = 2
  BY DEF Init
<1>3. minted \in 2 .. MaxMinted /\ drops \in 0 .. MaxDrops /\ PlanIsTrue
  BY <1>2, SlicePlansAssumption DEF PlanIsTrue
<1>4. ASSUME NEW s \in Sides PROVE IsDataset(side[s], 1 .. minted)
  <2> DEFINE d == side[s]
             rows == SlicesAt(s)
  <2>1. /\ Start[s] \in Seq(ToSet(Start[s]))
        /\ \A i \in DOMAIN Start[s] : IsSlice(Start[s][i].slice)
        /\ Dims \in Seq(ToSet(Dims))
    BY SlicePlansAssumption DEF Sides
  <2>2. PICK N \in Nat : N = Len(Start[s]) /\ DOMAIN Start[s] = 1 .. N
    BY <2>1
  <2>3. rows = [i \in 1 .. N |-> rows[i]] /\ \A i \in 1 .. N : IsSlice(rows[i])
    BY <2>1, <2>2 DEF SlicesAt
  <2>4. d = [id |-> IF s = "left" THEN 1 ELSE 2,
             lbl |-> [i \in 1 .. N |-> i - 1],
             key |-> [i \in 1 .. N |-> Start[s][i].key],
             sliced |-> s \notin columnar,
             arr |-> IF s \in columnar THEN SliceArrayFromBindings(Dims, rows)
                     ELSE SliceArray(rows)]
    BY <1>1, <2>2
  <2> HIDE DEF d, rows
  <2>5. /\ d.id \in 1 .. minted /\ d.sliced \in BOOLEAN
        /\ d.lbl = [i \in 1 .. N |-> i - 1] /\ IsColumn(d.key, N)
        /\ d = [id |-> d.id, lbl |-> d.lbl, key |-> d.key, sliced |-> d.sliced, arr |-> d.arr]
    BY <1>2, <2>4 DEF IsColumn
  <2>6. d.lbl \in Seq(Nat) /\ Len(d.lbl) = N /\ \A i, j \in 1 .. N : i < j => d.lbl[i] < d.lbl[j]
    BY <2>5
  <2>7. IsArray(d.arr, N)
    <3>1. CASE s \in columnar
      <4>1. Bindable(Dims, rows)
        BY <1>1, <3>1 DEF rows
      <4>2. d.arr = SliceArrayFromBindings(Dims, rows)
        BY <2>4, <3>1
      <4> QED BY <2>1, <2>3, <4>1, <4>2, BindingsAreTyped
    <3>2. CASE s \notin columnar
      <4>1. d.arr = SliceArray(rows)
        BY <2>4, <3>2
      <4> QED BY <2>3, <4>1, SliceArrayIsTyped
    <3> QED BY <3>1, <3>2
  <2> QED BY <2>5, <2>6, <2>7 DEF IsDataset, d
<1>5. side = [s \in Sides |-> side[s]]
  BY <1>1
<1> QED BY <1>3, <1>4, <1>5 DEF PlanInv, SidesInStep

(* One side replaced by a dataset leaves both in step. *)
LEMMA SideReplaced ==
  ASSUME SidesInStep, NEW s \in Sides, NEW e, side' = [side EXCEPT ![s] = e],
         IsDataset(e, 1 .. minted'), minted \in Nat, minted' \in Nat, minted' >= minted
  PROVE  SidesInStep' /\ side'[s] = e /\ \A u \in Sides \ {s} : side'[u] = side[u]
<1>1. side = [u \in Sides |-> side[u]] /\ \A u \in Sides : IsDataset(side[u], 1 .. minted)
  BY DEF SidesInStep
<1>2. /\ side' = [u \in Sides |-> side'[u]] /\ side'[s] = e
      /\ \A u \in Sides \ {s} : side'[u] = side[u]
  BY <1>1
<1>3. ASSUME NEW u \in Sides PROVE IsDataset(side'[u], 1 .. minted')
  <2>1. CASE u = s
    BY <1>2, <2>1
  <2>2. CASE u # s
    <3>1. side'[u] = side[u] /\ IsDataset(side[u], 1 .. minted)
      BY <1>1, <1>2, <2>2
    <3>2. 1 .. minted \subseteq 1 .. minted'
      OBVIOUS
    <3> QED BY <3>1, <3>2 DEF IsDataset
  <2> QED BY <2>1, <2>2
<1> QED BY <1>2, <1>3 DEF SidesInStep

(* Cutting a side into windows: it gets an identity no plan holds. *)
LEMMA ExpandKeeps ==
  ASSUME PlanInv, ExpandByWindows
  PROVE  PlanInv'
<1>1. PICK s \in Sides, windows \in WindowSets :
        /\ CanExplode(side[s].arr, windows)
        /\ minted < MaxMinted
        /\ side' = [side EXCEPT ![s] = Tiled(@, windows, minted + 1)]
        /\ minted' = minted + 1
        /\ UNCHANGED <<plan, drops>>
  BY DEF ExpandByWindows
<1>2. /\ minted \in Nat /\ minted' \in Nat /\ minted' >= minted
      /\ minted' \in 2 .. MaxMinted /\ drops' \in 0 .. MaxDrops
  BY <1>1, SlicePlansAssumption DEF PlanInv
<1> DEFINE e == Tiled(side[s], windows, minted + 1)
<1>3. IsDataset(e, 1 .. minted') /\ e.id = minted'
  <2>1. IsDataset(side[s], 1 .. minted)
    BY DEF PlanInv, SidesInStep
  <2>2. windows \in Seq(ToSet(windows)) /\ \A n \in DOMAIN windows : IsWindow(windows[n].window)
    BY SlicePlansAssumption
  <2>3. minted + 1 \in 1 .. minted'
    BY <1>1, <1>2
  <2> QED BY <1>1, <2>1, <2>2, <2>3, TiledIsTyped
<1>4. side' = [side EXCEPT ![s] = e]
  BY <1>1 DEF PlanInv, SidesInStep
<1> HIDE DEF e
<1>5. SidesInStep' /\ side'[s] = e /\ \A u \in Sides \ {s} : side'[u] = side[u]
  BY <1>2, <1>3, <1>4, SideReplaced DEF PlanInv
<1>6. PlanIsTrue'
  <2> SUFFICES ASSUME plan # Null
               PROVE  /\ plan.left \in 1 .. minted' /\ plan.right \in 1 .. minted'
                      /\ ~ (plan.left = side'["left"].id /\ plan.right = side'["right"].id)
    BY <1>1 DEF PlanIsTrue
  <2>1. plan.left \in 1 .. minted /\ plan.right \in 1 .. minted
    BY DEF PlanInv, PlanIsTrue
  <2>2. plan.left # minted' /\ plan.right # minted'
    BY <1>1, <1>2, <2>1
  <2>3. CASE s = "left"
    BY <1>2, <1>3, <1>5, <2>1, <2>2, <2>3
  <2>4. CASE s = "right"
    BY <1>2, <1>3, <1>5, <2>1, <2>2, <2>4
  <2> QED BY <2>3, <2>4 DEF Sides
<1> QED BY <1>2, <1>5, <1>6 DEF PlanInv

(* Leaving rows out: the others are related as they were. *)
LEMMA FilterKeeps ==
  ASSUME PlanInv, FilterRows
  PROVE  PlanInv'
<1>0. PICK s \in Sides : \E i \in Rows(side[s]) :
        /\ drops < MaxDrops
        /\ drops' = drops + 1
        /\ side' = [side EXCEPT ![s] = Subset(@, Chosen([p \in Rows(@) |-> p], Rows(@) \ {i}))]
        /\ UNCHANGED <<plan, minted>>
  BY DEF FilterRows
<1>1. PICK i \in Rows(side[s]) :
        /\ drops < MaxDrops
        /\ drops' = drops + 1
        /\ side' = [side EXCEPT ![s] = Subset(@, Chosen([p \in Rows(@) |-> p], Rows(@) \ {i}))]
        /\ UNCHANGED <<plan, minted>>
  BY <1>0
<1> DEFINE d == side[s]
           kept == Chosen([p \in Rows(d) |-> p], Rows(d) \ {i})
           e == Subset(d, kept)
<1>2. minted \in Nat /\ minted' \in 2 .. MaxMinted /\ drops' \in 0 .. MaxDrops
      /\ minted' \in Nat /\ minted' = minted /\ minted' >= minted
  BY <1>1, SlicePlansAssumption DEF PlanInv
<1>3. IsDataset(side["left"], 1 .. minted) /\ IsDataset(side["right"], 1 .. minted)
      /\ IsDataset(d, 1 .. minted)
  BY DEF PlanInv, SidesInStep, Sides
<1> HIDE DEF d
<1>4. IsDataset(e, 1 .. minted) /\ RowsOf(e, d, kept)
  <2>1. Rows(d) = 1 .. Len(d.lbl) /\ Len(d.lbl) \in Nat
    BY <1>3, LabelsNameRows
  <2>2. /\ kept \in Seq(1 .. Len(d.lbl))
        /\ \A a, b \in 1 .. Len(kept) : a < b => kept[a] < kept[b]
    BY <2>1, DropOne
  <2> HIDE DEF kept
  <2> QED BY <1>3, <2>2, SubsetIsTyped
<1>5. side' = [side EXCEPT ![s] = e]
  BY <1>1 DEF PlanInv, SidesInStep, d
<1> HIDE DEF e, kept
<1>6. SidesInStep' /\ side'[s] = e /\ \A u \in Sides \ {s} : side'[u] = side[u]
  BY <1>2, <1>4, <1>5, SideReplaced DEF PlanInv
<1>7. \A u \in Sides : side'[u].id = side[u].id /\ \E k : RowsOf(side'[u], side[u], k)
  <2> TAKE u \in Sides
  <2>1. CASE u = s
    BY <1>4, <1>6, <2>1 DEF RowsOf, d
  <2>2. CASE u # s
    <3>1. IsDataset(side[u], 1 .. minted)
      BY DEF PlanInv, SidesInStep
    <3> QED BY <1>6, <2>2, <3>1, OwnRows
  <2> QED BY <2>1, <2>2
<1>8. PlanIsTrue'
  <2> SUFFICES ASSUME plan # Null
               PROVE  /\ plan.left \in 1 .. minted /\ plan.right \in 1 .. minted
                      /\ plan.left = side'["left"].id /\ plan.right = side'["right"].id
                           => Relates(plan, side'["left"], side'["right"])
    BY <1>1 DEF PlanIsTrue
  <2>1. /\ plan.left \in 1 .. minted /\ plan.right \in 1 .. minted
        /\ plan.left = side["left"].id /\ plan.right = side["right"].id
             => Relates(plan, side["left"], side["right"])
    BY DEF PlanInv, PlanIsTrue
  <2>2. /\ side'["left"].id = side["left"].id /\ side'["right"].id = side["right"].id
        /\ \E k : RowsOf(side'["left"], side["left"], k)
        /\ \E k : RowsOf(side'["right"], side["right"], k)
    BY <1>7 DEF Sides
  <2>3. Relates(plan, side["left"], side["right"]) => Relates(plan, side'["left"], side'["right"])
    BY <2>2, FilteredRelates
  <2> QED BY <2>1, <2>2, <2>3
<1> QED BY <1>2, <1>6, <1>8 DEF PlanInv

(* Joining by a term, over the plan at hand if there is one. *)
LEMMA JoinKeeps ==
  ASSUME PlanInv, JoinByTerm
  PROVE  PlanInv'
<1> DEFINE l == side["left"]
           r == side["right"]
<1>1. PICK t \in Terms : /\ Joins(t, l, r, plan)
                         /\ plan' = DimensionJoin(t, l, r, plan)
                         /\ UNCHANGED <<side, drops, minted>>
  BY DEF JoinByTerm
<1>2. IsDataset(l, 1 .. minted) /\ IsDataset(r, 1 .. minted)
  BY DEF PlanInv, SidesInStep, Sides
<1>3. plan # Null => Relates(plan, l, r) /\ Named(plan.pairs, l, r)
  <2> SUFFICES ASSUME plan # Null PROVE Relates(plan, l, r) /\ Named(plan.pairs, l, r)
    OBVIOUS
  <2>1. References(plan, l, r)
    BY <1>1 DEF Joins
  <2>2. Relates(plan, l, r)
    BY <2>1 DEF PlanInv, PlanIsTrue, References
  <2>3. DOMAIN plan.pairs = 1 .. Len(plan.pairs)
    BY <2>2 DEF Relates, SortedPairs
  <2> QED BY <2>1, <2>2, <2>3 DEF References, Named
<1> HIDE DEF l, r
<1>4. Relates(plan', l, r) /\ plan'.left = l.id /\ plan'.right = r.id
  BY <1>1, <1>2, <1>3, JoinRelates
<1>5. PlanIsTrue'
  <2>1. l.id \in 1 .. minted /\ r.id \in 1 .. minted
    BY <1>2 DEF IsDataset
  <2> QED BY <1>1, <1>4, <2>1 DEF PlanIsTrue, l, r
<1> QED BY <1>1, <1>5 DEF PlanInv, SidesInStep

(* Matching by a set of terms. *)
LEMMA MatchKeeps ==
  ASSUME PlanInv, MatchByTerms
  PROVE  PlanInv'
<1> DEFINE l == side["left"]
           r == side["right"]
<1>1. PICK terms \in SUBSET Terms : plan' = Match(terms, l, r)
  BY DEF MatchByTerms
<1>2. UNCHANGED <<side, drops, minted>>
  BY DEF MatchByTerms
<1>3. IsDataset(l, 1 .. minted) /\ IsDataset(r, 1 .. minted)
  BY DEF PlanInv, SidesInStep, Sides
<1>4. IsFiniteSet(terms)
  BY SlicePlansAssumption, FS_Subset
<1> HIDE DEF l, r
<1>5. plan' # Null => Relates(plan', l, r) /\ plan'.left = l.id /\ plan'.right = r.id
  BY <1>1, <1>3, <1>4, MatchRelates
<1>6. PlanIsTrue'
  <2>1. l.id \in 1 .. minted /\ r.id \in 1 .. minted
    BY <1>3 DEF IsDataset
  <2> QED BY <1>2, <1>5, <2>1 DEF PlanIsTrue, l, r
<1> QED BY <1>2, <1>6 DEF PlanInv, SidesInStep

(* The invariant holds in every reachable state. *)
THEOREM PlanInvariant ==
  Spec => []PlanInv
<1>1. PlanInv /\ [Next]_vars => PlanInv'
  <2> SUFFICES ASSUME PlanInv, [Next]_vars PROVE PlanInv'
    OBVIOUS
  <2>1. CASE ExpandByWindows
    BY <2>1, ExpandKeeps
  <2>2. CASE FilterRows
    BY <2>2, FilterKeeps
  <2>3. CASE JoinByTerm
    BY <2>3, JoinKeeps
  <2>4. CASE MatchByTerms
    BY <2>4, MatchKeeps
  <2>5. CASE UNCHANGED vars
    BY <2>5 DEF PlanInv, SidesInStep, PlanIsTrue, vars
  <2> QED BY <2>1, <2>2, <2>3, <2>4, <2>5 DEF Next
<1> QED BY <1>1, InitInStep, PTL DEF Spec

(* The columns of both datasets stay in step, through windows over windows *)
(* on any number of axes and rows left out, and their labels stay unique.  *)
THEOREM DatasetsStayInStep ==
  Spec => []TypeOK
<1>1. PlanInv => TypeOK
  <2> SUFFICES ASSUME PlanInv PROVE TypeOK
    OBVIOUS
  <2>1. ASSUME NEW s \in Sides
        PROVE  /\ side[s].id \in 1 .. minted /\ side[s].sliced \in BOOLEAN
               /\ Rows(side[s]) = DOMAIN side[s].key /\ Rows(side[s]) = DOMAIN side[s].arr.base
               /\ \A l \in DOMAIN side[s].arr.layers :
                    DOMAIN side[s].arr.layers[l].column = Rows(side[s])
               /\ Cardinality(LabelsOf(side[s])) = Len(side[s].lbl)
    <3>1. PICK d : d = side[s]
      OBVIOUS
    <3>2. IsDataset(d, 1 .. minted)
      BY <3>1 DEF PlanInv, SidesInStep
    <3>3. Cardinality(LabelsOf(d)) = Len(d.lbl) /\ Rows(d) = 1 .. Len(d.lbl)
      BY <3>2, LabelsAreUnique, LabelsNameRows
    <3>4. /\ d.id \in 1 .. minted /\ d.sliced \in BOOLEAN /\ DOMAIN d.key = 1 .. Len(d.lbl)
          /\ IsArray(d.arr, Len(d.lbl))
      BY <3>2 DEF IsDataset, IsColumn
    <3>5. /\ DOMAIN d.arr.base = 1 .. Len(d.lbl)
          /\ \A l \in DOMAIN d.arr.layers : DOMAIN d.arr.layers[l].column = 1 .. Len(d.lbl)
      BY <3>4 DEF IsArray, IsColumn, Layer
    <3> QED BY <3>1, <3>3, <3>4, <3>5
  <2>2. plan # Null => plan.left \in 1 .. minted /\ plan.right \in 1 .. minted
    BY DEF PlanInv, PlanIsTrue
  <2> QED BY <2>1, <2>2 DEF PlanInv, TypeOK
<1> QED BY <1>1, PlanInvariant, PTL

(* A correspondence relates exactly the rows that satisfy all its terms,   *)
(* left rows major, whatever the terms are and in whatever order and       *)
(* company they were joined (match, or dimension_join over candidates),    *)
(* however the sides were filtered in between.                             *)
THEOREM PlansMeanTheirTerms ==
  Spec => []PlanMeansItsTerms
<1>1. PlanInv => PlanMeansItsTerms
  <2> SUFFICES ASSUME PlanInv, plan # Null,
                      plan.left = side["left"].id, plan.right = side["right"].id
               PROVE  Meaning(plan, side["left"], side["right"])
    BY DEF PlanMeansItsTerms, Meaning, PlacedPairs
  <2>1. IsDataset(side["left"], 1 .. minted) /\ IsDataset(side["right"], 1 .. minted)
    BY DEF PlanInv, SidesInStep, Sides
  <2>2. Relates(plan, side["left"], side["right"])
    BY DEF PlanInv, PlanIsTrue
  <2> QED BY <2>1, <2>2, RelatesMeans
<1> QED BY <1>1, PlanInvariant, PTL

-----------------------------------------------------------------------------
(* Concatenating columns                                                   *)

(* K columns, lens[n] long each.                                           *)
IsFamily(family, lens, K) ==
  /\ IsColumn(family, K) /\ IsColumn(lens, K)
  /\ \A n \in 1 .. K : lens[n] \in Nat /\ IsColumn(family[n], lens[n])

(* Where the members of their concatenation come from: which column, and   *)
(* where in it.                                                            *)
Address(lens) == FlattenSeq([n \in DOMAIN lens |-> [q \in 1 .. lens[n] |-> <<n, q>>]])

Addresses(lens, K) == {x \in (1 .. K) \X Nat : x[2] \in 1 .. lens[x[1]]}

Cell(family, x) == family[x[1]][x[2]]

(* A family of columns is a sequence of sequences.                        *)
LEMMA FamilyIsTyped ==
  ASSUME NEW K \in Nat, NEW lens, NEW family, IsFamily(family, lens, K)
  PROVE  /\ \E S : family \in Seq(Seq(S))
         /\ Len(family) = K
         /\ \A n \in 1 .. K : Len(family[n]) = lens[n]
<1> DEFINE S == UNION {ToSet(family[n]) : n \in 1 .. K}
<1>1. family = [n \in 1 .. K |-> family[n]]
  BY DEF IsFamily, IsColumn
<1>2. ASSUME NEW n \in 1 .. K PROVE family[n] \in Seq(S) /\ Len(family[n]) = lens[n]
  <2>1. PICK N \in Nat : N = lens[n]
    BY DEF IsFamily
  <2>2. PICK c : c = family[n]
    OBVIOUS
  <2>3. c = [q \in 1 .. N |-> c[q]]
    BY <2>1, <2>2 DEF IsFamily, IsColumn
  <2>4. \A q \in 1 .. N : c[q] \in S
    <3>1. ToSet(c) \subseteq S
      BY <2>2
    <3> HIDE DEF S
    <3> QED BY <2>3, <3>1 DEF ToSet
  <2> HIDE DEF S
  <2>5. [q \in 1 .. N |-> c[q]] \in Seq(S) /\ Len([q \in 1 .. N |-> c[q]]) = N
    BY <2>4
  <2> QED BY <2>1, <2>2, <2>3, <2>5
<1> HIDE DEF S
<1>3. [n \in 1 .. K |-> family[n]] \in Seq(Seq(S)) /\ Len([n \in 1 .. K |-> family[n]]) = K
  BY <1>2
<1> QED BY <1>1, <1>2, <1>3

(* The members of a concatenation, by their addresses. *)
LEMMA FlattenAddressed ==
  ASSUME NEW K \in Nat, NEW lens, NEW family, IsFamily(family, lens, K)
  PROVE  /\ Address(lens) \in Seq(Addresses(lens, K))
         /\ FlattenSeq(family) =
              [p \in 1 .. Len(Address(lens)) |-> Cell(family, Address(lens)[p])]
<1> DEFINE cells == [n \in DOMAIN lens |-> [q \in 1 .. lens[n] |-> <<n, q>>]]
           A == Addresses(lens, K)
<1>1. /\ lens = [n \in 1 .. K |-> lens[n]] /\ \A n \in 1 .. K : lens[n] \in Nat
  BY DEF IsFamily, IsColumn
<1>2. cells = [n \in 1 .. K |-> [q \in 1 .. lens[n] |-> <<n, q>>]]
  BY <1>1
<1>3. ASSUME NEW n \in 1 .. K
      PROVE  cells[n] \in Seq(A) /\ Len(cells[n]) = lens[n]
             /\ \A q \in 1 .. lens[n] : cells[n][q] = <<n, q>>
  <2>1. cells[n] = [q \in 1 .. lens[n] |-> <<n, q>>] /\ lens[n] \in Nat
    BY <1>1, <1>2
  <2> HIDE DEF cells
  <2>2. \A q \in 1 .. lens[n] : <<n, q>> \in A
    BY <2>1 DEF Addresses
  <2> HIDE DEF A
  <2> QED BY <2>1, <2>2
<1>4. cells \in Seq(Seq(A)) /\ Len(cells) = K
  <2>1. cells = [n \in 1 .. K |-> cells[n]]
    BY <1>2
  <2> HIDE DEF cells, A
  <2>2. [n \in 1 .. K |-> cells[n]] \in Seq(Seq(A)) /\ Len([n \in 1 .. K |-> cells[n]]) = K
    BY <1>3
  <2> QED BY <2>1, <2>2
<1>5. PICK S : family \in Seq(Seq(S))
  BY FamilyIsTyped
<1>6. Len(family) = K /\ \A n \in 1 .. K : family[n] \in Seq(S) /\ Len(family[n]) = lens[n]
  <2>1. Len(family) = K /\ \A n \in 1 .. K : Len(family[n]) = lens[n]
    BY FamilyIsTyped
  <2> QED BY <1>5, <2>1
<1>7. PICK f : /\ f[0] = <<>>
               /\ \A i \in 1 .. K : f[i] = f[i-1] \o family[i]
               /\ FlattenSeq(family) = f[K]
  BY <1>5, <1>6, FlattenEquation
<1> HIDE DEF cells, A
<1>8. PICK a : /\ a[0] = <<>>
               /\ \A i \in 1 .. K : a[i] = a[i-1] \o cells[i]
               /\ FlattenSeq(cells) = a[K]
  BY <1>4, FlattenEquation
<1> DEFINE ok(i) == /\ f[i] \in Seq(S) /\ a[i] \in Seq(A) /\ Len(f[i]) = Len(a[i])
                    /\ \A p \in 1 .. Len(a[i]) : f[i][p] = Cell(family, a[i][p])
           T == {i \in 0 .. K : ok(i)}
<1>9. 0 \in T
  <2>1. f[0] \in Seq(S) /\ a[0] \in Seq(A) /\ Len(f[0]) = 0 /\ Len(a[0]) = 0
    BY <1>7, <1>8
  <2> QED BY <2>1
<1>10. ASSUME NEW n \in 1 .. K, n - 1 \in T PROVE n \in T
  <2>1. ok(n - 1)
    BY <1>10
  <2>2. PICK u \in Seq(S) : u = f[n-1]
    BY <2>1
  <2>3. PICK v \in Seq(A) : v = a[n-1]
    BY <2>1
  <2>4. PICK b \in Seq(S) : b = family[n]
    BY <1>6
  <2>5. PICK c \in Seq(A) : c = cells[n]
    BY <1>3
  <2>6. /\ Len(u) = Len(v) /\ Len(b) = Len(c) /\ Len(c) = lens[n]
        /\ \A p \in 1 .. Len(v) : u[p] = Cell(family, v[p])
    BY <1>3, <1>6, <2>1, <2>2, <2>3, <2>4, <2>5
  <2>7. \A q \in 1 .. Len(c) : b[q] = Cell(family, c[q])
    <3> SUFFICES ASSUME NEW q \in 1 .. Len(c) PROVE b[q] = Cell(family, c[q])
      OBVIOUS
    <3>1. c[q] = <<n, q>>
      BY <1>3, <2>5, <2>6
    <3> QED BY <2>4, <3>1 DEF Cell
  <2>8. /\ u \o b \in Seq(S) /\ Len(u \o b) = Len(u) + Len(b)
        /\ \A l \in 1 .. Len(u) : (u \o b)[l] = u[l]
        /\ \A l \in Len(u) + 1 .. Len(u) + Len(b) : (u \o b)[l] = b[l - Len(u)]
    BY ConcatParts, Zenon
  <2>9. /\ v \o c \in Seq(A) /\ Len(v \o c) = Len(v) + Len(c)
        /\ \A l \in 1 .. Len(v) : (v \o c)[l] = v[l]
        /\ \A l \in Len(v) + 1 .. Len(v) + Len(c) : (v \o c)[l] = c[l - Len(v)]
    BY ConcatParts, Zenon
  <2>10. PICK s : s = u \o b
    OBVIOUS
  <2>11. PICK t : t = v \o c
    OBVIOUS
  <2>12. PICK L \in Nat : L = Len(v)
    OBVIOUS
  <2>13. PICK M \in Nat : M = Len(c)
    OBVIOUS
  <2>14. /\ s \in Seq(S) /\ Len(s) = L + M
         /\ \A l \in 1 .. L : s[l] = u[l]
         /\ \A l \in L + 1 .. L + M : s[l] = b[l - L]
    BY <2>6, <2>8, <2>10, <2>12, <2>13
  <2>15. /\ t \in Seq(A) /\ Len(t) = L + M
         /\ \A l \in 1 .. L : t[l] = v[l]
         /\ \A l \in L + 1 .. L + M : t[l] = c[l - L]
    BY <2>9, <2>11, <2>12, <2>13
  <2>16. ASSUME NEW p \in 1 .. L + M PROVE s[p] = Cell(family, t[p])
    <3>1. CASE p \in 1 .. L
      BY <2>6, <2>12, <2>14, <2>15, <3>1
    <3>2. CASE ~ p \in 1 .. L
      <4>1. p \in L + 1 .. L + M /\ p - L \in 1 .. M
        BY <3>2
      <4> QED BY <2>7, <2>13, <2>14, <2>15, <4>1
    <3> QED BY <3>1, <3>2
  <2>17. f[n] = s /\ a[n] = t
    BY <1>7, <1>8, <2>2, <2>3, <2>4, <2>5, <2>10, <2>11
  <2> QED BY <2>14, <2>15, <2>16, <2>17
<1> HIDE DEF T
<1>11. \A i \in 0 .. K : i \in T
  BY <1>9, <1>10, SegmentInduction, Zenon
<1>12. ok(K)
  BY <1>11 DEF T
<1>13. Address(lens) = a[K] /\ FlattenSeq(family) = f[K]
  BY <1>7, <1>8 DEF Address, cells
<1>14. PICK s \in Seq(S) : s = f[K]
  BY <1>12
<1>15. PICK t \in Seq(A) : t = a[K]
  BY <1>12
<1>16. s = [p \in 1 .. Len(t) |-> Cell(family, t[p])]
  <2>1. Len(s) = Len(t) /\ \A p \in 1 .. Len(t) : s[p] = Cell(family, t[p])
    BY <1>12, <1>14, <1>15
  <2>2. s = [p \in 1 .. Len(s) |-> s[p]]
    OBVIOUS
  <2> QED BY <2>1, <2>2
<1> QED BY <1>13, <1>14, <1>15, <1>16 DEF A

-----------------------------------------------------------------------------
(* Stacking slice arrays                                                   *)

(* Rows with the same base slice under the same selectors read the same.   *)
LEMMA ScalarSame ==
  ASSUME NEW one, NEW i, NEW other, NEW j,
         NEW K \in Nat, Len(one.layers) = K, Len(other.layers) = K,
         one.base[i] = other.base[j],
         \A l \in 1 .. K : /\ one.layers[l].dim = other.layers[l].dim
                           /\ one.layers[l].column[i] = other.layers[l].column[j]
  PROVE  ScalarAt(one, i) = ScalarAt(other, j)
<1>1. PICK f : /\ f[0] = one.base[i]
               /\ \A l \in 1 .. K : f[l] = OverlayOne(one, i, l, f[l-1])
               /\ ScalarAt(one, i) = IF one.base[i] = Null THEN Null ELSE f[K]
  <2>1. \E f : /\ f[0] = one.base[i]
               /\ \A l \in 1 .. Len(one.layers) : f[l] = OverlayOne(one, i, l, f[l-1])
               /\ ScalarAt(one, i) = IF one.base[i] = Null THEN Null ELSE f[Len(one.layers)]
    BY ScalarEquation, Zenon
  <2> QED BY <2>1
<1>2. PICK g : /\ g[0] = other.base[j]
               /\ \A l \in 1 .. K : g[l] = OverlayOne(other, j, l, g[l-1])
               /\ ScalarAt(other, j) = IF other.base[j] = Null THEN Null ELSE g[K]
  <2>1. \E g : /\ g[0] = other.base[j]
               /\ \A l \in 1 .. Len(other.layers) : g[l] = OverlayOne(other, j, l, g[l-1])
               /\ ScalarAt(other, j) = IF other.base[j] = Null THEN Null ELSE g[Len(other.layers)]
    BY ScalarEquation, Zenon
  <2> QED BY <2>1
<1> DEFINE T == {l \in 0 .. K : g[l] = f[l]}
<1>3. 0 \in T
  BY <1>1, <1>2
<1>4. ASSUME NEW l \in 1 .. K, l - 1 \in T PROVE l \in T
  <2>1. OverlayOne(one, i, l, f[l-1]) = OverlayOne(other, j, l, g[l-1])
    BY <1>4 DEF OverlayOne
  <2> QED BY <1>1, <1>2, <2>1
<1> HIDE DEF T
<1>5. \A l \in 0 .. K : l \in T
  BY <1>3, <1>4, SegmentInduction, Zenon
<1>6. g[K] = f[K]
  BY <1>5 DEF T
<1> QED BY <1>1, <1>2, <1>6

(* The arrays that hold a slice, in order. *)
Holders(arrays, K, k, M) ==
  /\ k \in [1 .. M -> 1 .. K]
  /\ NonNull(arrays) = [a \in 1 .. M |-> arrays[k[a]]]
  /\ \A n \in 1 .. K : Present(arrays[n]) # {} <=> \E a \in 1 .. M : k[a] = n

(* The arrays that hold a slice, with the places they are taken from.     *)
LEMMA NonNullMembers ==
  ASSUME NEW K \in Nat, NEW arrays, IsColumn(arrays, K)
  PROVE  \E M \in Nat : \E k : Holders(arrays, K, k, M)
<1> DEFINE P == {n \in DOMAIN arrays : Present(arrays[n]) # {}}
<1>1. DOMAIN arrays = 1 .. K /\ Len(arrays) = K
  BY DEF IsColumn
<1>2. NonNull(arrays) = Chosen(arrays, P)
  BY DEF NonNull
<1>3. \A n \in 1 .. K : n \in P <=> Present(arrays[n]) # {}
  BY <1>1
<1> HIDE DEF P
<1>4. Picks(Chosen(arrays, P), arrays, P, K)
  BY <1>1, ChosenPicks
<1>5. PICK k : Enumerates(k, P, K) /\ Chosen(arrays, P) = [a \in 1 .. Len(k) |-> arrays[k[a]]]
  BY <1>4 DEF Picks
<1>6. PICK M \in Nat : M = Len(k)
  BY <1>5 DEF Enumerates
<1>7. k \in [1 .. M -> 1 .. K] /\ \A n \in 1 .. K : n \in P <=> \E a \in 1 .. M : k[a] = n
  BY <1>5, <1>6 DEF Enumerates
<1>8. NonNull(arrays) = [a \in 1 .. M |-> arrays[k[a]]]
  BY <1>2, <1>5, <1>6
<1>9. \A n \in 1 .. K : Present(arrays[n]) # {} <=> \E a \in 1 .. M : k[a] = n
  BY <1>3, <1>7
<1>10. Holders(arrays, K, k, M)
  BY <1>7, <1>8, <1>9, Zenon DEF Holders
<1> QED BY <1>10

(* The columns of aligned arrays one after another, under the template's   *)
(* dimensions.                                                             *)
Bases(arrays) == [n \in DOMAIN arrays |-> arrays[n].base]

ColumnsOf(arrays, l) == [n \in DOMAIN arrays |-> arrays[n].layers[l].column]

AlignedOne(template, array) ==
  IF Signature(array) = Signature(template) THEN array ELSE MissingLike(template, array)

Aligned(template, arrays) == [n \in DOMAIN arrays |-> AlignedOne(template, arrays[n])]

StackedAs(template, aligned) ==
  [base |-> FlattenSeq(Bases(aligned)),
   layers |-> [l \in DOMAIN template.layers |->
                 [template.layers[l] EXCEPT !.column = FlattenSeq(ColumnsOf(aligned, l))]]]

(* Concatenation in two cases: none holds a slice, or all take one's form. *)
LEMMA ConcatSlicesStacks ==
  ASSUME NEW arrays
  PROVE  ConcatSlices(arrays) =
           IF NonNull(arrays) = <<>> THEN SliceArray(FlattenSeq(Bases(arrays)))
           ELSE StackedAs(NonNull(arrays)[1], Aligned(NonNull(arrays)[1], arrays))
BY DEF ConcatSlices, StackedAs, Aligned, AlignedOne, Bases, ColumnsOf

(* An array takes the form of a template and reads as it did. *)
LEMMA AlignedReads ==
  ASSUME NEW T, NEW J \in Nat, IsArray(T, J), NEW array, NEW N \in Nat, IsArray(array, N),
         Present(array) # {} => Signature(array) = Signature(T)
  PROVE  /\ IsColumn(AlignedOne(T, array).base, N)
         /\ Len(AlignedOne(T, array).layers) = Len(T.layers)
         /\ \A l \in 1 .. Len(T.layers) :
              /\ AlignedOne(T, array).layers[l].dim = T.layers[l].dim
              /\ IsColumn(AlignedOne(T, array).layers[l].column, N)
         /\ \A q \in 1 .. N : ScalarAt(AlignedOne(T, array), q) = ScalarAt(array, q)
<1>1. PICK K \in Nat : K = Len(T.layers) /\ DOMAIN T.layers = 1 .. K
  BY DEF IsArray
<1>2. CASE Signature(array) = Signature(T)
  <2>1. AlignedOne(T, array) = array
    BY <1>2 DEF AlignedOne
  <2>2. PICK L \in Nat : L = Len(array.layers) /\ DOMAIN array.layers = 1 .. L
    BY DEF IsArray
  <2>3. L = K /\ \A l \in 1 .. K : array.layers[l].dim = T.layers[l].dim
    <3>1. PICK s : s = Signature(T)
      OBVIOUS
    <3>2. s = [l \in 1 .. K |-> T.layers[l].dim]
      BY <1>1, <3>1 DEF Signature
    <3>3. s = [l \in 1 .. L |-> array.layers[l].dim]
      BY <1>2, <2>2, <3>1 DEF Signature
    <3>4. Len(s) = K /\ Len(s) = L
      <4>1. Len(s) = K
        BY <3>2
      <4>2. Len(s) = L
        BY <3>3
      <4> QED BY <4>1, <4>2
    <3> QED BY <3>2, <3>3, <3>4
  <2>4. IsColumn(array.base, N) /\ \A l \in 1 .. L : IsColumn(array.layers[l].column, N)
    BY <2>2 DEF IsArray, IsColumn, Layer
  <2> QED BY <1>1, <2>1, <2>2, <2>3, <2>4
<1>3. CASE Signature(array) # Signature(T)
  <2> DEFINE missing == [i \in DOMAIN array.base |-> Null]
             a == MissingLike(T, array)
  <2>1. AlignedOne(T, array) = a
    BY <1>3 DEF AlignedOne
  <2>2. DOMAIN array.base = 1 .. N
    BY DEF IsArray
  <2>3. missing = [i \in 1 .. N |-> Null]
    BY <2>2
  <2>4. a = [base |-> missing,
             layers |-> [l \in 1 .. K |-> [T.layers[l] EXCEPT !.column = missing]]]
    BY <1>1 DEF MissingLike
  <2>5. \A l \in 1 .. K : T.layers[l] = [dim |-> T.layers[l].dim, column |-> T.layers[l].column]
    BY <1>1 DEF IsArray, Layer
  <2> HIDE DEF missing, a
  <2>6. a.base = missing /\ Len(a.layers) = K
        /\ \A l \in 1 .. K : a.layers[l] = [T.layers[l] EXCEPT !.column = missing]
    BY <2>4
  <2>7. \A l \in 1 .. K : a.layers[l].dim = T.layers[l].dim /\ a.layers[l].column = missing
    BY <2>5, <2>6
  <2>8. IsColumn(missing, N)
    BY <2>3 DEF IsColumn
  <2>9. ASSUME NEW q \in 1 .. N PROVE ScalarAt(a, q) = ScalarAt(array, q)
    <3>1. a.base[q] = Null
      BY <2>3, <2>6
    <3>2. array.base[q] = Null
      BY <1>3, <2>2 DEF Present
    <3> QED BY <3>1, <3>2 DEF ScalarAt
  <2> QED BY <1>1, <2>1, <2>6, <2>7, <2>8, <2>9
<1> QED BY <1>2, <1>3

-----------------------------------------------------------------------------
(* Arrays in step with lens.                                               *)
AreArrays(arrays, lens, K) ==
  /\ IsColumn(arrays, K) /\ IsColumn(lens, K)
  /\ \A n \in 1 .. K : lens[n] \in Nat /\ IsArray(arrays[n], lens[n])

ReadAt(arrays, x) == ScalarAt(arrays[x[1]], x[2])

(* What they read, one after another.                                      *)
ReadThrough(arrays, at) == [p \in 1 .. Len(at) |-> ReadAt(arrays, at[p])]

(* Arrays under the dimensions of a template read, stacked, as they do. *)
LEMMA StackedReads ==
  ASSUME NEW K \in Nat, NEW lens, NEW arrays, AreArrays(arrays, lens, K),
         NEW T, NEW J \in Nat, IsArray(T, J),
         \A n \in 1 .. K : Present(arrays[n]) # {} => Signature(arrays[n]) = Signature(T)
  PROVE  Scalars(StackedAs(T, Aligned(T, arrays))) =
           ReadThrough(arrays, Address(lens))
<1> DEFINE aligned == Aligned(T, arrays)
           stacked == StackedAs(T, aligned)
           bases == Bases(aligned)
<1>1. PICK L \in Nat : L = Len(T.layers) /\ DOMAIN T.layers = 1 .. L
  BY DEF IsArray
<1>2. /\ arrays = [n \in 1 .. K |-> arrays[n]] /\ lens = [n \in 1 .. K |-> lens[n]]
      /\ \A n \in 1 .. K : lens[n] \in Nat
  BY DEF AreArrays, IsColumn
<1>3. aligned = [n \in 1 .. K |-> AlignedOne(T, arrays[n])]
  BY <1>2 DEF Aligned
<1> HIDE DEF aligned
<1>4. ASSUME NEW n \in 1 .. K
      PROVE  /\ IsColumn(aligned[n].base, lens[n])
             /\ Len(aligned[n].layers) = L
             /\ \A l \in 1 .. L : /\ aligned[n].layers[l].dim = T.layers[l].dim
                                  /\ IsColumn(aligned[n].layers[l].column, lens[n])
             /\ \A q \in 1 .. lens[n] : ScalarAt(aligned[n], q) = ScalarAt(arrays[n], q)
  <2>1. PICK N \in Nat : N = lens[n]
    BY <1>2
  <2>2. PICK array : array = arrays[n]
    OBVIOUS
  <2>3. IsArray(array, N) /\ (Present(array) # {} => Signature(array) = Signature(T))
    BY <2>1, <2>2 DEF AreArrays
  <2>4. aligned[n] = AlignedOne(T, array)
    BY <1>3, <2>2
  <2>5. /\ IsColumn(AlignedOne(T, array).base, N)
        /\ Len(AlignedOne(T, array).layers) = Len(T.layers)
        /\ \A l \in 1 .. Len(T.layers) :
             /\ AlignedOne(T, array).layers[l].dim = T.layers[l].dim
             /\ IsColumn(AlignedOne(T, array).layers[l].column, N)
        /\ \A q \in 1 .. N : ScalarAt(AlignedOne(T, array), q) = ScalarAt(array, q)
    BY <2>3, AlignedReads, Zenon
  <2> QED BY <1>1, <2>1, <2>2, <2>4, <2>5
<1>5. IsFamily(bases, lens, K)
  <2>1. bases = [n \in 1 .. K |-> aligned[n].base]
    BY <1>3 DEF Bases
  <2> QED BY <1>2, <1>4, <2>1 DEF IsFamily, IsColumn
<1>6. ASSUME NEW l \in 1 .. L PROVE IsFamily(ColumnsOf(aligned, l), lens, K)
  <2>1. ColumnsOf(aligned, l) = [n \in 1 .. K |-> aligned[n].layers[l].column]
    BY <1>3 DEF ColumnsOf
  <2>2. \A n \in 1 .. K : IsColumn(aligned[n].layers[l].column, lens[n])
    BY <1>4
  <2>3. IsColumn(ColumnsOf(aligned, l), K)
    BY <2>1 DEF IsColumn
  <2>4. \A n \in 1 .. K : ColumnsOf(aligned, l)[n] = aligned[n].layers[l].column
    BY <2>1
  <2> QED BY <1>2, <2>2, <2>3, <2>4 DEF IsFamily, AreArrays
<1>7. PICK at \in Seq(Addresses(lens, K)) : at = Address(lens)
  BY <1>5, FlattenAddressed
<1>8. PICK A \in Nat : A = Len(at)
  OBVIOUS
<1>9. FlattenSeq(bases) = [p \in 1 .. A |-> Cell(bases, at[p])]
  BY <1>5, <1>7, <1>8, FlattenAddressed
<1>10. \A l \in 1 .. L : FlattenSeq(ColumnsOf(aligned, l)) =
                           [p \in 1 .. A |-> Cell(ColumnsOf(aligned, l), at[p])]
  BY <1>6, <1>7, <1>8, FlattenAddressed
<1>11. /\ stacked.base = FlattenSeq(bases)
       /\ Len(stacked.layers) = L
       /\ \A l \in 1 .. L : stacked.layers[l] =
                              [T.layers[l] EXCEPT !.column = FlattenSeq(ColumnsOf(aligned, l))]
  BY <1>1 DEF StackedAs
<1> HIDE DEF stacked
<1>12. ASSUME NEW l \in 1 .. L
       PROVE  /\ stacked.layers[l].dim = T.layers[l].dim
              /\ stacked.layers[l].column = FlattenSeq(ColumnsOf(aligned, l))
  <2>1. T.layers[l] = [dim |-> T.layers[l].dim, column |-> T.layers[l].column]
    BY <1>1 DEF IsArray, Layer
  <2>2. PICK c : c = FlattenSeq(ColumnsOf(aligned, l))
    OBVIOUS
  <2>3. stacked.layers[l] = [T.layers[l] EXCEPT !.column = c]
    BY <1>11, <2>2
  <2> QED BY <2>1, <2>2, <2>3
<1>13. ASSUME NEW p \in 1 .. A PROVE ScalarAt(stacked, p) = ReadAt(arrays, at[p])
  <2>1. PICK x : x = at[p]
    OBVIOUS
  <2>2. x \in Addresses(lens, K)
    BY <1>7, <1>8, <2>1
  <2>3. PICK n \in 1 .. K : n = x[1]
    BY <2>2 DEF Addresses
  <2>4. PICK q \in 1 .. lens[n] : q = x[2]
    BY <2>2, <2>3 DEF Addresses
  <2>5. stacked.base[p] = aligned[n].base[q]
    <3>1. stacked.base[p] = Cell(bases, x)
      BY <1>9, <1>11, <2>1
    <3>2. bases[n] = aligned[n].base
      BY <1>3 DEF Bases
    <3> QED BY <2>3, <2>4, <3>1, <3>2 DEF Cell
  <2>6. ASSUME NEW l \in 1 .. L
        PROVE  /\ stacked.layers[l].dim = aligned[n].layers[l].dim
               /\ stacked.layers[l].column[p] = aligned[n].layers[l].column[q]
    <3>1. stacked.layers[l].column[p] = Cell(ColumnsOf(aligned, l), x)
      BY <1>10, <1>12, <2>1
    <3>2. ColumnsOf(aligned, l)[n] = aligned[n].layers[l].column
      BY <1>3 DEF ColumnsOf
    <3>3. stacked.layers[l].dim = aligned[n].layers[l].dim
      BY <1>4, <1>12
    <3> QED BY <2>3, <2>4, <3>1, <3>2, <3>3 DEF Cell
  <2>7. Len(aligned[n].layers) = L
    BY <1>4
  <2>8. ScalarAt(stacked, p) = ScalarAt(aligned[n], q)
    BY <1>11, <2>5, <2>6, <2>7, ScalarSame, SMTT(40)
  <2>9. ScalarAt(aligned[n], q) = ScalarAt(arrays[n], q)
    BY <1>4
  <2> QED BY <2>1, <2>3, <2>4, <2>8, <2>9 DEF ReadAt
<1>14. DOMAIN stacked.base = 1 .. A
  BY <1>9, <1>11
<1> QED BY <1>7, <1>8, <1>13, <1>14 DEF Scalars, ReadThrough, stacked, aligned

(* Stacked slices read as they do apart. *)
LEMMA ConcatReads ==
  ASSUME NEW K \in Nat, NEW lens, NEW arrays, AreArrays(arrays, lens, K),
         CanConcatSlices(arrays)
  PROVE  Scalars(ConcatSlices(arrays)) =
           ReadThrough(arrays, Address(lens))
<1> DEFINE present == NonNull(arrays)
<1>1. PICK M \in Nat : \E k : Holders(arrays, K, k, M)
  BY NonNullMembers DEF AreArrays
<1>2. PICK k \in [1 .. M -> 1 .. K] :
        /\ present = [a \in 1 .. M |-> arrays[k[a]]]
        /\ \A n \in 1 .. K : Present(arrays[n]) # {} <=> \E a \in 1 .. M : k[a] = n
  BY <1>1 DEF Holders
<1>3. CanConcatSlices(arrays) <=>
        \A m, n \in DOMAIN present : Signature(present[m]) = Signature(present[n])
  BY DEF CanConcatSlices
<1> HIDE DEF present
<1>4. CASE M = 0
  <2>1. present = <<>>
    BY <1>2, <1>4
  <2>2. PICK one : one = ConcatSlices(arrays)
    OBVIOUS
  <2>3. one = SliceArray(FlattenSeq(Bases(arrays)))
    BY <2>1, <2>2, ConcatSlicesStacks DEF present
  <2>4. one.base = FlattenSeq(Bases(arrays))
    BY <2>3 DEF SliceArray
  <2>5. /\ arrays = [n \in 1 .. K |-> arrays[n]] /\ lens = [n \in 1 .. K |-> lens[n]]
        /\ \A n \in 1 .. K : lens[n] \in Nat /\ arrays[n].base = [i \in 1 .. lens[n] |-> arrays[n].base[i]]
    BY DEF AreArrays, IsColumn, IsArray
  <2>6. Bases(arrays) = [n \in 1 .. K |-> arrays[n].base]
    BY <2>5 DEF Bases
  <2>7. IsFamily(Bases(arrays), lens, K)
    BY <2>5, <2>6 DEF IsFamily, IsColumn
  <2>8. PICK at \in Seq(Addresses(lens, K)) : at = Address(lens)
    BY <2>7, FlattenAddressed
  <2>9. PICK A \in Nat : A = Len(at)
    OBVIOUS
  <2>10. one.base = [p \in 1 .. A |-> Cell(Bases(arrays), at[p])]
    BY <2>4, <2>7, <2>8, <2>9, FlattenAddressed
  <2>11. ASSUME NEW p \in 1 .. A PROVE ScalarAt(one, p) = ReadAt(arrays, at[p])
    <3>1. PICK x : x = at[p]
      OBVIOUS
    <3>2. x \in Addresses(lens, K)
      BY <2>8, <2>9, <3>1
    <3>3. PICK n \in 1 .. K : n = x[1]
      BY <3>2 DEF Addresses
    <3>4. PICK q \in 1 .. lens[n] : q = x[2]
      BY <3>2, <3>3 DEF Addresses
    <3>5. Present(arrays[n]) = {}
      BY <1>2, <1>4
    <3>6. arrays[n].base[q] = Null
      <4>1. q \in DOMAIN arrays[n].base
        BY <2>5
      <4> QED BY <3>5, <4>1 DEF Present
    <3>7. one.base[p] = Null
      BY <2>6, <2>10, <3>1, <3>3, <3>4, <3>6 DEF Cell
    <3> QED BY <3>1, <3>3, <3>4, <3>6, <3>7 DEF ReadAt, ScalarAt
  <2> QED BY <2>2, <2>8, <2>9, <2>10, <2>11 DEF Scalars, ReadThrough
<1>5. CASE M # 0
  <2>1. 1 \in 1 .. M /\ DOMAIN present = 1 .. M /\ present # <<>>
    BY <1>2, <1>5
  <2>2. PICK T : T = present[1]
    OBVIOUS
  <2>3. PICK J \in Nat : IsArray(T, J)
    BY <1>2, <2>1, <2>2 DEF AreArrays
  <2>4. ASSUME NEW n \in 1 .. K, Present(arrays[n]) # {}
        PROVE  Signature(arrays[n]) = Signature(T)
    <3>1. PICK a \in 1 .. M : k[a] = n
      BY <1>2, <2>4
    <3>2. present[a] = arrays[n]
      BY <1>2, <3>1
    <3> QED BY <1>3, <2>1, <2>2, <3>1, <3>2
  <2>5. ConcatSlices(arrays) = StackedAs(T, Aligned(T, arrays))
    BY <2>1, <2>2, ConcatSlicesStacks DEF present
  <2>6. Scalars(StackedAs(T, Aligned(T, arrays))) = ReadThrough(arrays, Address(lens))
    BY <2>3, <2>4, StackedReads
  <2> QED BY <2>5, <2>6
<1> QED BY <1>4, <1>5

-----------------------------------------------------------------------------
ScalarsOf(arrays) == [n \in DOMAIN arrays |-> Scalars(arrays[n])]

(* Reading through addresses is reading one array after another. *)
LEMMA ReadsInTurn ==
  ASSUME NEW K \in Nat, NEW lens, NEW arrays, AreArrays(arrays, lens, K)
  PROVE  /\ ReadThrough(arrays, Address(lens)) = FlattenSeq(ScalarsOf(arrays))
         /\ IsFamily(ScalarsOf(arrays), lens, K)
<1> DEFINE family == ScalarsOf(arrays)
<1>1. /\ arrays = [n \in 1 .. K |-> arrays[n]] /\ lens = [n \in 1 .. K |-> lens[n]]
      /\ \A n \in 1 .. K : lens[n] \in Nat /\ DOMAIN arrays[n].base = 1 .. lens[n]
  BY DEF AreArrays, IsColumn, IsArray
<1>2. family = [n \in 1 .. K |-> Scalars(arrays[n])]
  BY <1>1 DEF ScalarsOf
<1> HIDE DEF family
<1>3. ASSUME NEW n \in 1 .. K
      PROVE  /\ family[n] = [q \in 1 .. lens[n] |-> ScalarAt(arrays[n], q)]
             /\ IsColumn(family[n], lens[n])
  <2>1. family[n] = Scalars(arrays[n])
    BY <1>2
  <2>2. Scalars(arrays[n]) = [q \in 1 .. lens[n] |-> ScalarAt(arrays[n], q)]
    BY <1>1 DEF Scalars
  <2>3. PICK c : c = family[n]
    OBVIOUS
  <2>4. PICK N \in Nat : N = lens[n]
    BY <1>1
  <2>5. c = [q \in 1 .. N |-> ScalarAt(arrays[n], q)]
    BY <2>1, <2>2, <2>3, <2>4
  <2>6. IsColumn(c, N)
    BY <2>5 DEF IsColumn
  <2> QED BY <2>1, <2>2, <2>3, <2>4, <2>6
<1>4. IsFamily(family, lens, K)
  <2>1. IsColumn(family, K) /\ IsColumn(lens, K)
    BY <1>1, <1>2 DEF IsColumn
  <2> QED BY <1>1, <1>3, <2>1 DEF IsFamily
<1>5. PICK at \in Seq(Addresses(lens, K)) : at = Address(lens)
  BY <1>4, FlattenAddressed
<1>6. PICK A \in Nat : A = Len(at)
  OBVIOUS
<1>7. FlattenSeq(family) = [p \in 1 .. A |-> Cell(family, at[p])]
  BY <1>4, <1>5, <1>6, FlattenAddressed
<1>8. ASSUME NEW p \in 1 .. A PROVE Cell(family, at[p]) = ReadAt(arrays, at[p])
  <2>1. PICK x : x = at[p]
    OBVIOUS
  <2>2. x \in Addresses(lens, K)
    BY <1>5, <1>6, <2>1
  <2>3. x[1] \in 1 .. K /\ x[2] \in 1 .. lens[x[1]]
    BY <2>2 DEF Addresses
  <2> QED BY <1>3, <2>1, <2>3 DEF Cell, ReadAt
<1> QED BY <1>4, <1>5, <1>6, <1>7, <1>8 DEF ReadThrough, family

(* Two columns one after the other. *)
LEMMA FlattenTwo ==
  ASSUME NEW family, NEW lens, IsFamily(family, lens, 2)
  PROVE  FlattenSeq(family) = family[1] \o family[2]
<1>1. PICK S : family \in Seq(Seq(S))
  BY FamilyIsTyped
<1>2. Len(family) = 2
  BY FamilyIsTyped
<1>3. PICK f : /\ f[0] = <<>>
               /\ \A i \in 1 .. 2 : f[i] = f[i-1] \o family[i]
               /\ FlattenSeq(family) = f[2]
  BY <1>1, <1>2, FlattenEquation
<1>4. family[1] \in Seq(S)
  BY <1>1, <1>2
<1>5. <<>> \o family[1] = family[1]
  BY <1>4
<1>6. f[1] = f[0] \o family[1] /\ f[2] = f[1] \o family[2]
  <2>1. 1 \in 1 .. 2 /\ 2 \in 1 .. 2 /\ 1 - 1 = 0 /\ 2 - 1 = 1
    OBVIOUS
  <2>2. f[1] = f[1-1] \o family[1] /\ f[2] = f[2-1] \o family[2]
    BY <1>3, <2>1, Zenon
  <2> QED BY <2>1, <2>2
<1> QED BY <1>3, <1>5, <1>6

(* The slices of two datasets, stacked where they may be, read as apart.   *)
LEMMA TwoReadAsBefore ==
  ASSUME NEW M \in Nat, NEW one, IsArray(one, M), NEW N \in Nat, NEW other, IsArray(other, N),
         CanConcatSlices(<<one, other>>)
  PROVE  Scalars(ConcatSlices(<<one, other>>)) = Scalars(one) \o Scalars(other)
<1>1. PICK arrays : arrays = <<one, other>>
  OBVIOUS
<1>2. PICK lens : lens = <<M, N>>
  OBVIOUS
<1>3. AreArrays(arrays, lens, 2)
  <2>1. IsColumn(arrays, 2) /\ IsColumn(lens, 2)
    BY <1>1, <1>2 DEF IsColumn
  <2>2. arrays[1] = one /\ arrays[2] = other /\ lens[1] = M /\ lens[2] = N
    BY <1>1, <1>2
  <2>3. \A n \in 1 .. 2 : n = 1 \/ n = 2
    OBVIOUS
  <2> QED BY <2>1, <2>2, <2>3 DEF AreArrays
<1>4. Scalars(ConcatSlices(arrays)) = FlattenSeq(ScalarsOf(arrays))
  BY <1>1, <1>3, ConcatReads, ReadsInTurn
<1>5. FlattenSeq(ScalarsOf(arrays)) = ScalarsOf(arrays)[1] \o ScalarsOf(arrays)[2]
  BY <1>3, ReadsInTurn, FlattenTwo
<1>6. ScalarsOf(arrays)[1] = Scalars(one) /\ ScalarsOf(arrays)[2] = Scalars(other)
  BY <1>1 DEF ScalarsOf
<1> QED BY <1>1, <1>4, <1>5, <1>6

(* Two slice columns that may be stacked read, stacked, as they read apart,*)
(* whatever they hold in a base or in selector columns and whichever of    *)
(* them is all missing.                                                    *)
THEOREM StackingKeepsSlices ==
  Spec => []StackedSlicesReadAsBefore
<1>1. PlanInv => StackedSlicesReadAsBefore
  <2> SUFFICES ASSUME PlanInv PROVE StackedSlicesReadAsBefore
    OBVIOUS
  <2>1. PICK one : one = side["left"].arr
    OBVIOUS
  <2>2. PICK other : other = side["right"].arr
    OBVIOUS
  <2>3. \A s \in Sides : Len(side[s].lbl) \in Nat /\ IsArray(side[s].arr, Len(side[s].lbl))
    BY DEF PlanInv, SidesInStep, IsDataset
  <2>4. "left" \in Sides /\ "right" \in Sides
    BY DEF Sides
  <2>6. PICK M \in Nat : IsArray(one, M)
    BY <2>1, <2>3, <2>4
  <2>7. PICK N \in Nat : IsArray(other, N)
    BY <2>2, <2>3, <2>4
  <2>5. CanConcatSlices(<<one, other>>) =>
          Scalars(ConcatSlices(<<one, other>>)) = Scalars(one) \o Scalars(other)
    BY <2>6, <2>7, TwoReadAsBefore
  <2> QED BY <2>1, <2>2, <2>5, Zenon DEF StackedSlicesReadAsBefore
<1> QED BY <1>1, PlanInvariant, PTL

-----------------------------------------------------------------------------
(* Chunks of a dataset                                                     *)

(* K ranges of rows, one where the other ends, from the first to the N-th; *)
(* none is empty where there are rows.                                     *)
Covers(ranges, K, N) ==
  /\ K \in Nat \ {0} /\ IsColumn(ranges, K) /\ Len(ranges) = K
  /\ \A c \in 1 .. K : /\ ranges[c][1] \in Nat /\ ranges[c][2] \in 0 .. N
                       /\ ranges[c][1] <= ranges[c][2]
                       /\ N > 0 => ranges[c][1] < ranges[c][2]
                       /\ ranges[c][1] = IF c = 1 THEN 0 ELSE ranges[c-1][2]
  /\ ranges[K][2] = N

(* How many chunks of a size N rows make. *)
LEMMA ChunkCount ==
  ASSUME NEW N \in Nat \ {0}, NEW size \in 1 .. N, NEW K, K = (N + size - 1) \div size
  PROVE  K \in Nat \ {0} /\ K * size >= N /\ (K - 1) * size < N
<1>1. PICK A \in Nat : A = N + size - 1
  OBVIOUS
<1>2. K \in Int /\ size * K <= A /\ A < size * (K + 1)
  BY <1>1
<1>3. K \in Nat \ {0}
  <2>1. CASE K <= 0
    <3>1. size * (K + 1) <= size
      BY <1>2, <2>1
    <3> QED BY <1>1, <1>2, <3>1
  <2> QED BY <1>2, <2>1
<1>4. size * (K + 1) = K * size + size /\ size * K = K * size /\ (K - 1) * size = K * size - size
  BY <1>2
<1> QED BY <1>1, <1>2, <1>3, <1>4

(* The ranges of an offload cut all rows into consecutive chunks.          *)
LEMMA ChunksCover ==
  ASSUME NEW N \in Nat, NEW chunk_size \in (Nat \ {0}) \cup {Null}
  PROVE  \E K : Covers(ChunkRanges(N, chunk_size), K, N)
<1> DEFINE size == IF chunk_size = Null \/ chunk_size >= N THEN N ELSE chunk_size
<1>1. PICK ranges : ranges = ChunkRanges(N, chunk_size)
  OBVIOUS
<1>2. CASE N = 0
  <2>1. ranges = << <<0, 0>> >>
    BY <1>1, <1>2 DEF ChunkRanges
  <2>2. Covers(ranges, 1, N)
    <3>1. Len(ranges) = 1 /\ ranges[1] = <<0, 0>> /\ ranges = [c \in 1 .. 1 |-> ranges[c]]
      BY <2>1
    <3>2. ranges[1][1] = 0 /\ ranges[1][2] = 0
      BY <3>1
    <3> QED BY <1>2, <3>1, <3>2 DEF Covers, IsColumn
  <2> QED BY <1>1, <2>2
<1>3. CASE N # 0
  <2>1. size \in 1 .. N
    BY <1>3
  <2>2. PICK S \in 1 .. N : S = size
    BY <2>1
  <2>3. ranges = [c \in 1 .. (N + size - 1) \div size |-> <<(c - 1) * size, MinOf(c * size, N)>>]
    BY <1>1, <1>3 DEF ChunkRanges
  <2>4. PICK K : K = (N + S - 1) \div S
    OBVIOUS
  <2>5. K \in Nat \ {0} /\ K * S >= N /\ (K - 1) * S < N
    BY <1>3, <2>4, ChunkCount
  <2>6. ranges = [c \in 1 .. K |-> <<(c - 1) * S, MinOf(c * S, N)>>]
    BY <2>2, <2>3, <2>4
  <2>7. ASSUME NEW c \in 1 .. K
        PROVE  /\ c * S \in Nat /\ (c - 1) * S \in Nat /\ (c - 1) * S < N
               /\ c * S = (c - 1) * S + S
               /\ c # K => c * S < N
    <3>1. c * S = (c - 1) * S + S /\ c * S \in Nat /\ (c - 1) * S \in Nat
      BY <2>5
    <3>2. PICK e \in Nat : e = K - c
      BY <2>5
    <3>3. (K - 1) * S = (c - 1) * S + e * S /\ e * S \in Nat
      <4>1. K - 1 = (c - 1) + e
        BY <2>5, <3>2
      <4>2. c - 1 \in Nat
        BY <2>5
      <4>3. ((c - 1) + e) * S = (c - 1) * S + e * S /\ e * S \in Nat
        BY <3>2, <4>2
      <4> QED BY <4>1, <4>3
    <3>4. (c - 1) * S < N
      BY <2>5, <3>1, <3>3
    <3>5. ASSUME c # K PROVE c * S < N
      <4>1. e >= 1
        BY <2>5, <3>2, <3>5
      <4>2. PICK m \in Nat : m = e - 1
        BY <4>1
      <4>3. e * S = m * S + S /\ m * S \in Nat
        <5>1. e = m + 1
          BY <4>2
        <5>2. (m + 1) * S = m * S + S /\ m * S \in Nat
          BY <4>2
        <5> QED BY <5>1, <5>2
      <4> QED BY <2>5, <3>1, <3>3, <4>3
    <3> QED BY <3>1, <3>4, <3>5
  <2>8. ASSUME NEW c \in 1 .. K
        PROVE  /\ ranges[c][1] = (c - 1) * S
               /\ ranges[c][2] = IF c = K THEN N ELSE c * S
    <3>1. ranges[c] = <<(c - 1) * S, MinOf(c * S, N)>>
      BY <2>6
    <3>2. MinOf(c * S, N) = IF c = K THEN N ELSE c * S
      BY <2>5, <2>7 DEF MinOf
    <3> QED BY <3>1, <3>2
  <2>9. IsColumn(ranges, K) /\ Len(ranges) = K
    BY <2>5, <2>6 DEF IsColumn
  <2>10. ASSUME NEW c \in 1 .. K
         PROVE  /\ ranges[c][1] \in Nat /\ ranges[c][2] \in 0 .. N
                /\ ranges[c][1] < ranges[c][2]
                /\ ranges[c][1] = IF c = 1 THEN 0 ELSE ranges[c-1][2]
    <3>1. ranges[c][1] \in Nat /\ ranges[c][2] \in 0 .. N /\ ranges[c][1] < ranges[c][2]
      BY <2>7, <2>8
    <3>2. CASE c = 1
      BY <2>8, <3>1, <3>2
    <3>3. CASE c # 1
      <4>1. c - 1 \in 1 .. K /\ c - 1 # K
        BY <2>5, <3>3
      <4> QED BY <2>8, <3>1, <3>3, <4>1
    <3> QED BY <3>1, <3>2, <3>3
  <2>11. ranges[K][2] = N
    BY <2>5, <2>8
  <2> QED BY <1>1, <2>5, <2>9, <2>10, <2>11 DEF Covers
<1> QED BY <1>2, <1>3

-----------------------------------------------------------------------------
PositionsIn(range) == [k \in 1 .. range[2] - range[1] |-> range[1] + k]

(* What the ranges take of a column.                                       *)
Parts(column, ranges) == [c \in DOMAIN ranges |-> Column(column, PositionsIn(ranges[c]))]

Lengths(ranges) == [c \in DOMAIN ranges |-> ranges[c][2] - ranges[c][1]]

(* The parts of a column, one after another, are the column. *)
LEMMA PartsRejoin ==
  ASSUME NEW N \in Nat, NEW ranges, NEW K, Covers(ranges, K, N), NEW column, IsColumn(column, N)
  PROVE  /\ IsFamily(Parts(column, ranges), Lengths(ranges), K)
         /\ FlattenSeq(Parts(column, ranges)) = column
<1> DEFINE lens == Lengths(ranges)
           parts == Parts(column, ranges)
           S == ToSet(column)
<1>1. /\ K \in Nat /\ 1 <= K /\ DOMAIN ranges = 1 .. K
      /\ column = [p \in 1 .. N |-> column[p]]
  BY DEF Covers, IsColumn
<1>2. /\ lens = [c \in 1 .. K |-> ranges[c][2] - ranges[c][1]]
      /\ parts = [c \in 1 .. K |-> Column(column, PositionsIn(ranges[c]))]
  BY <1>1 DEF Lengths, Parts
<1> HIDE DEF lens, parts
<1>3. ASSUME NEW c \in 1 .. K, NEW lo, lo = ranges[c][1], NEW hi, hi = ranges[c][2]
      PROVE  /\ lo \in Nat /\ hi \in 0 .. N /\ lo <= hi
             /\ lens[c] = hi - lo
             /\ parts[c] = [k \in 1 .. hi - lo |-> column[lo + k]]
             /\ IsColumn(parts[c], lens[c])
  <2>1. lo \in Nat /\ hi \in 0 .. N /\ lo <= hi /\ lens[c] = hi - lo
    BY <1>2, <1>3 DEF Covers
  <2>2. parts[c] = [k \in 1 .. hi - lo |-> column[lo + k]]
    BY <1>2, <1>3, <2>1 DEF Column, PositionsIn
  <2>3. PICK s : s = parts[c]
    OBVIOUS
  <2>4. IsColumn(s, hi - lo)
    BY <2>2, <2>3 DEF IsColumn
  <2> QED BY <2>1, <2>2, <2>3, <2>4
<1>4. ASSUME NEW c \in 1 .. K PROVE lens[c] \in Nat /\ IsColumn(parts[c], lens[c])
  <2>1. PICK lo : lo = ranges[c][1]
    OBVIOUS
  <2>2. PICK hi : hi = ranges[c][2]
    OBVIOUS
  <2>3. lo \in Nat /\ hi \in 0 .. N /\ lo <= hi /\ lens[c] = hi - lo /\ IsColumn(parts[c], lens[c])
    BY <1>3, <2>1, <2>2, Zenon
  <2>4. hi - lo \in Nat
    BY <2>3
  <2> QED BY <2>3, <2>4, Zenon
<1>5. IsFamily(parts, lens, K)
  BY <1>2, <1>4 DEF IsFamily, IsColumn
<1>6. /\ parts \in Seq(Seq(S)) /\ Len(parts) = K
  <2>1. \A p \in 1 .. N : column[p] \in S
    BY <1>1 DEF ToSet
  <2> HIDE DEF S
  <2>2. ASSUME NEW c \in 1 .. K PROVE parts[c] \in Seq(S)
    <3>1. PICK lo : lo = ranges[c][1]
      OBVIOUS
    <3>2. PICK hi : hi = ranges[c][2]
      OBVIOUS
    <3>3. /\ lo \in Nat /\ hi \in 0 .. N /\ lo <= hi
          /\ parts[c] = [k \in 1 .. hi - lo |-> column[lo + k]]
      BY <1>3, <3>1, <3>2
    <3> QED BY <2>1, <3>3
  <2>3. [c \in 1 .. K |-> parts[c]] \in Seq(Seq(S)) /\ Len([c \in 1 .. K |-> parts[c]]) = K
    BY <1>1, <2>2
  <2>4. parts = [c \in 1 .. K |-> parts[c]]
    BY <1>2
  <2> QED BY <2>3, <2>4
<1>7. PICK f : /\ f[0] = <<>>
               /\ \A i \in 1 .. K : f[i] = f[i-1] \o parts[i]
               /\ FlattenSeq(parts) = f[K]
  BY <1>6, FlattenEquation
<1> DEFINE upTo(c) == IF c = 0 THEN 0 ELSE ranges[c][2]
           T == {c \in 0 .. K : f[c] = [p \in 1 .. upTo(c) |-> column[p]]}
<1>8. 0 \in T
  BY <1>1, <1>7
<1>9. ASSUME NEW c \in 1 .. K, c - 1 \in T PROVE c \in T
  <2>1. PICK lo : lo = ranges[c][1]
    OBVIOUS
  <2>2. PICK hi : hi = ranges[c][2]
    OBVIOUS
  <2>3. /\ lo \in Nat /\ hi \in 0 .. N /\ lo <= hi
        /\ parts[c] = [k \in 1 .. hi - lo |-> column[lo + k]]
    BY <1>3, <2>1, <2>2
  <2>4. upTo(c - 1) = lo
    <3>1. lo = IF c = 1 THEN 0 ELSE ranges[c-1][2]
      BY <2>1 DEF Covers
    <3> QED BY <1>1, <3>1
  <2>5. PICK u : u = f[c-1]
    OBVIOUS
  <2>6. PICK v : v = parts[c]
    OBVIOUS
  <2>7. u = [p \in 1 .. lo |-> column[p]] /\ v = [k \in 1 .. hi - lo |-> column[lo + k]]
    BY <1>9, <2>3, <2>4, <2>5, <2>6
  <2>8. u \in Seq(S) /\ v \in Seq(S) /\ Len(u) = lo /\ Len(v) = hi - lo
    <3>1. \A p \in 1 .. N : column[p] \in S
      BY <1>1 DEF ToSet
    <3> HIDE DEF S
    <3> QED BY <2>3, <2>7, <3>1
  <2>9. PICK w : w = u \o v
    OBVIOUS
  <2>10. /\ w \in Seq(S) /\ Len(w) = hi
         /\ \A l \in 1 .. lo : w[l] = u[l]
         /\ \A l \in lo + 1 .. hi : w[l] = v[l - lo]
    <3>1. /\ u \o v \in Seq(S) /\ Len(u \o v) = Len(u) + Len(v)
          /\ \A l \in 1 .. Len(u) : (u \o v)[l] = u[l]
          /\ \A l \in Len(u) + 1 .. Len(u) + Len(v) : (u \o v)[l] = v[l - Len(u)]
      BY <2>8, ConcatParts, Zenon
    <3>2. lo + (hi - lo) = hi
      BY <2>3
    <3> QED BY <2>8, <2>9, <3>1, <3>2
  <2>11. ASSUME NEW p \in 1 .. hi PROVE w[p] = column[p]
    <3>1. CASE p \in 1 .. lo
      BY <2>7, <2>10, <3>1
    <3>2. CASE ~ p \in 1 .. lo
      <4>1. p \in lo + 1 .. hi /\ p - lo \in 1 .. hi - lo /\ lo + (p - lo) = p
        BY <2>3, <3>2
      <4> QED BY <2>7, <2>10, <4>1
    <3> QED BY <3>1, <3>2
  <2>12. w = [p \in 1 .. hi |-> column[p]]
    <3>1. w = [p \in 1 .. Len(w) |-> w[p]]
      BY <2>10
    <3> QED BY <2>10, <2>11, <3>1
  <2>13. f[c] = w
    BY <1>7, <2>5, <2>6, <2>9
  <2>14. upTo(c) = hi
    BY <2>2
  <2> HIDE DEF upTo
  <2>15. f[c] = [p \in 1 .. upTo(c) |-> column[p]]
    BY <2>12, <2>13, <2>14
  <2> QED BY <2>15
<1> HIDE DEF T, upTo
<1>10. \A c \in 0 .. K : c \in T
  BY <1>1, <1>8, <1>9, SegmentInduction, Zenon
<1>11. f[K] = [p \in 1 .. upTo(K) |-> column[p]]
  BY <1>1, <1>10, SMTT(40) DEF T
<1>12. upTo(K) = N
  BY <1>1 DEF Covers, upTo
<1> QED BY <1>1, <1>5, <1>7, <1>11, <1>12 DEF parts, lens

-----------------------------------------------------------------------------
(* The p-th row of the chunks in turn is the p-th row. *)
LEMMA RowsInTurn ==
  ASSUME NEW N \in Nat, NEW ranges, NEW K, Covers(ranges, K, N)
  PROVE  /\ Address(Lengths(ranges)) \in Seq(Addresses(Lengths(ranges), K))
         /\ Len(Address(Lengths(ranges))) = N
         /\ \A p \in 1 .. N : LET x == Address(Lengths(ranges))[p]
                              IN  ranges[x[1]][1] + x[2] = p
<1> DEFINE own == [p \in 1 .. N |-> p]
           parts == Parts(own, ranges)
<1>1. K \in Nat /\ DOMAIN ranges = 1 .. K
  BY DEF Covers, IsColumn
<1>2. IsColumn(own, N)
  BY DEF IsColumn
<1>3. IsFamily(parts, Lengths(ranges), K) /\ FlattenSeq(parts) = own
  BY <1>2, PartsRejoin
<1>4. parts = [c \in 1 .. K |-> Column(own, PositionsIn(ranges[c]))]
  BY <1>1 DEF Parts
<1> HIDE DEF own, parts
<1>10. PICK X : X = Addresses(Lengths(ranges), K)
  OBVIOUS
<1>5. PICK at : at = Address(Lengths(ranges)) /\ at \in Seq(X)
  BY <1>1, <1>3, <1>10, FlattenAddressed
<1>6. PICK A \in Nat : A = Len(at)
  BY <1>5
<1>7. own = [p \in 1 .. A |-> Cell(parts, at[p])]
  BY <1>1, <1>3, <1>5, <1>6, FlattenAddressed
<1>8. A = N
  <2>1. Len(own) = A
    BY <1>7
  <2>2. Len(own) = N
    BY DEF own
  <2> QED BY <2>1, <2>2
<1>9. ASSUME NEW p \in 1 .. N PROVE ranges[at[p][1]][1] + at[p][2] = p
  <2>1. PICK x : x = at[p]
    OBVIOUS
  <2>0. x \in X
    <3>1. at \in Seq(X) /\ p \in 1 .. Len(at)
      BY <1>5, <1>6, <1>8
    <3>2. at[p] \in X
      BY ONLY <3>1
    <3> QED BY <2>1, <3>2, Zenon
  <2>2. x \in Addresses(Lengths(ranges), K)
    BY <1>10, <2>0, Zenon
  <2>3. PICK c \in 1 .. K : c = x[1]
    BY <2>2 DEF Addresses
  <2>4. PICK q : q = x[2]
    OBVIOUS
  <2>5. PICK lo : lo = ranges[c][1]
    OBVIOUS
  <2>6. PICK hi : hi = ranges[c][2]
    OBVIOUS
  <2>7. lo \in Nat /\ hi \in 0 .. N /\ lo <= hi
    BY <2>5, <2>6 DEF Covers
  <2>8. q \in 1 .. hi - lo
    BY <1>1, <2>2, <2>3, <2>4, <2>5, <2>6 DEF Addresses, Lengths
  <2>9. own[p] = parts[c][q]
    BY <1>7, <1>8, <2>1, <2>3, <2>4 DEF Cell
  <2>10. parts[c] = [k \in 1 .. hi - lo |-> own[lo + k]]
    BY <1>4, <2>5, <2>6, <2>7 DEF Column, PositionsIn
  <2>11. lo + q \in 1 .. N
    BY <2>7, <2>8
  <2>12. own[p] = p /\ own[lo + q] = lo + q
    BY <2>11 DEF own
  <2> QED BY <2>1, <2>3, <2>4, <2>5, <2>8, <2>9, <2>10, <2>12
<1> QED BY <1>5, <1>6, <1>8, <1>9, <1>10

(* e holds the rows of d in a range, len many.                             *)
IsChunk(e, len, d, range) ==
  /\ len \in Nat /\ IsArray(e.arr, len)
  /\ e.id = d.id
  /\ e.lbl = Column(d.lbl, PositionsIn(range)) /\ e.key = Column(d.key, PositionsIn(range))
  /\ Signature(e.arr) = Signature(d.arr)
  /\ \A q \in 1 .. len : ScalarAt(e.arr, q) = ScalarAt(d.arr, range[1] + q)

(* A chunk holds its rows. *)
LEMMA ChunkIsTyped ==
  ASSUME NEW ids, NEW d, IsDataset(d, ids), NEW ranges, NEW K, Covers(ranges, K, Len(d.lbl)),
         NEW c \in 1 .. K
  PROVE  IsChunk(ReadPartial(d, ranges[c]), Lengths(ranges)[c], d, ranges[c])
<1> DEFINE e == ReadPartial(d, ranges[c])
           lens == Lengths(ranges)
           k == PositionsIn(ranges[c])
<1>1. PICK N \in Nat : N = Len(d.lbl)
  BY DEF IsDataset
<1>2. PICK lo : lo = ranges[c][1]
  OBVIOUS
<1>3. PICK hi : hi = ranges[c][2]
  OBVIOUS
<1>4. lo \in Nat /\ hi \in 0 .. N /\ lo <= hi /\ DOMAIN ranges = 1 .. K
  BY <1>1, <1>2, <1>3 DEF Covers, IsColumn
<1>5. k = [q \in 1 .. hi - lo |-> lo + q]
  BY <1>2, <1>3 DEF PositionsIn
<1>6. e = Subset(d, k)
  BY DEF ReadPartial, PositionsIn
<1> HIDE DEF k, e
<1>7. PICK M \in Nat : M = hi - lo /\ M = lens[c]
  BY <1>2, <1>3, <1>4 DEF Lengths
<1> HIDE DEF lens
<1>8. k \in Seq(1 .. N) /\ Len(k) = M /\ DOMAIN k = 1 .. M /\ \A q \in 1 .. M : k[q] = lo + q
  BY <1>4, <1>5, <1>7
<1>9. IsArray(d.arr, N) /\ \A i, j \in 1 .. N : i < j => d.lbl[i] < d.lbl[j]
  BY <1>1 DEF IsDataset
<1>10. e.arr = Take(d.arr, k) /\ e.id = d.id
       /\ e.lbl = Column(d.lbl, k) /\ e.key = Column(d.key, k)
  <2>1. d = [id |-> d.id, lbl |-> d.lbl, key |-> d.key, sliced |-> d.sliced, arr |-> d.arr]
    BY DEF IsDataset
  <2> DEFINE r == [id |-> d.id, lbl |-> d.lbl, key |-> d.key, sliced |-> d.sliced, arr |-> d.arr]
  <2>2. e = Subset(r, k)
    BY <1>6, <2>1, Zenon
  <2> QED BY <2>2 DEF Subset, Column
<1>11. IsArray(e.arr, M)
  BY <1>8, <1>9, <1>10, TakeIsTyped
<1>12. Signature(e.arr) = Signature(d.arr)
  <2>1. PICK L \in Nat : DOMAIN d.arr.layers = 1 .. L
    BY <1>9 DEF IsArray
  <2>2. /\ DOMAIN e.arr.layers = 1 .. L
        /\ \A l \in 1 .. L : e.arr.layers[l] = [d.arr.layers[l] EXCEPT !.column = Column(@, k)]
    BY <1>10, <2>1 DEF Take, Column
  <2>3. \A l \in 1 .. L : e.arr.layers[l].dim = d.arr.layers[l].dim
    <3>1. \A l \in 1 .. L : Layer(d.arr, l) = [dim |-> Layer(d.arr, l).dim,
                                               column |-> Layer(d.arr, l).column]
      BY <1>9, <2>1 DEF IsArray
    <3> QED BY <2>2, <3>1 DEF Layer
  <2> QED BY <2>1, <2>2, <2>3 DEF Signature
<1>13. \A q \in 1 .. M : ScalarAt(e.arr, q) = ScalarAt(d.arr, lo + q)
  BY <1>8, <1>9, <1>10, ScalarTaken
<1>14. IsChunk(e, M, d, ranges[c])
  BY <1>2, <1>10, <1>11, <1>12, <1>13 DEF IsChunk, k
<1> QED BY <1>7, <1>14 DEF e, lens

-----------------------------------------------------------------------------
ChunksOf(d, ranges) == [c \in DOMAIN ranges |-> ReadPartial(d, ranges[c])]

SlicesOf(chunks) == [c \in DOMAIN chunks |-> chunks[c].arr]

(* Chunks flattened again are the dataset they were cut from. *)
LEMMA FlattenedAgain ==
  ASSUME NEW ids, NEW d, IsDataset(d, ids), NEW ranges, NEW K, Covers(ranges, K, Len(d.lbl))
  PROVE  LET back == FlattenChunks(d, ranges)
         IN  /\ CanConcatSlices(SlicesOf(ChunksOf(d, ranges)))
             /\ back.id = d.id /\ back.lbl = d.lbl /\ back.key = d.key
             /\ Scalars(back.arr) = Scalars(d.arr)
<1> DEFINE back == FlattenChunks(d, ranges)
           chunks == ChunksOf(d, ranges)
           arrays == SlicesOf(chunks)
<1>1. PICK N \in Nat : N = Len(d.lbl) /\ IsColumn(d.lbl, N) /\ IsColumn(d.key, N)
                       /\ IsArray(d.arr, N)
  <2>1. Len(d.lbl) \in Nat /\ d.lbl = [i \in 1 .. Len(d.lbl) |-> d.lbl[i]]
    BY DEF IsDataset
  <2> QED BY <2>1 DEF IsDataset, IsColumn
<1>2. PICK lens : lens = Lengths(ranges)
  OBVIOUS
<1>3. Covers(ranges, K, N) /\ K \in Nat /\ 1 <= K /\ DOMAIN ranges = 1 .. K /\ Len(ranges) = K
  <2>1. Covers(ranges, K, N)
    BY <1>1
  <2>2. K \in Nat /\ 1 <= K /\ DOMAIN ranges = 1 .. K /\ Len(ranges) = K
    BY ONLY <2>1 DEF Covers, IsColumn
  <2> QED BY <2>1, <2>2
<1>4. /\ chunks = [c \in 1 .. K |-> ReadPartial(d, ranges[c])]
      /\ arrays = [c \in 1 .. K |-> chunks[c].arr]
      /\ IsColumn(lens, K)
  BY <1>2, <1>3 DEF ChunksOf, SlicesOf, Lengths, IsColumn
<1> HIDE DEF chunks, arrays, back
<1>5. ASSUME NEW c \in 1 .. K
      PROVE  /\ lens[c] \in Nat /\ IsArray(arrays[c], lens[c])
             /\ chunks[c].id = d.id
             /\ chunks[c].lbl = Column(d.lbl, PositionsIn(ranges[c]))
             /\ chunks[c].key = Column(d.key, PositionsIn(ranges[c]))
             /\ Signature(arrays[c]) = Signature(d.arr)
             /\ \A q \in 1 .. lens[c] : ScalarAt(arrays[c], q) = ScalarAt(d.arr, ranges[c][1] + q)
  <2>1. PICK e : e = ReadPartial(d, ranges[c])
    OBVIOUS
  <2>2. IsChunk(e, lens[c], d, ranges[c])
    BY <1>2, <2>1, ChunkIsTyped, Zenon
  <2>3. chunks[c] = e /\ arrays[c] = e.arr
    BY <1>4, <2>1
  <2> QED BY <2>2, <2>3 DEF IsChunk
<1>6. CanConcatSlices(arrays)
  <2>1. PICK M \in Nat : \E k : Holders(arrays, K, k, M)
    <3>1. IsColumn(arrays, K)
      BY <1>4 DEF IsColumn
    <3> QED BY <1>3, <3>1, NonNullMembers
  <2>2. PICK k : Holders(arrays, K, k, M)
    BY <2>1
  <2>3. DOMAIN NonNull(arrays) = 1 .. M
        /\ \A a \in 1 .. M : Signature(NonNull(arrays)[a]) = Signature(d.arr)
    BY <1>5, <2>2 DEF Holders
  <2> QED BY <2>3 DEF CanConcatSlices
<1>7. AreArrays(arrays, lens, K)
  <2>1. IsColumn(arrays, K)
    BY <1>4 DEF IsColumn
  <2> QED BY <1>4, <1>5, <2>1 DEF AreArrays
<1>8. PICK at \in Seq(Addresses(lens, K)) :
        /\ at = Address(lens) /\ Len(at) = N
        /\ \A p \in 1 .. N : ranges[at[p][1]][1] + at[p][2] = p
  BY <1>2, <1>3, RowsInTurn
<1>9. ASSUME NEW p \in 1 .. N PROVE ReadAt(arrays, at[p]) = ScalarAt(d.arr, p)
  <2>1. PICK x : x = at[p]
    OBVIOUS
  <2>2. x \in Addresses(lens, K)
    BY <1>8, <2>1
  <2>3. PICK c \in 1 .. K : c = x[1]
    BY <2>2 DEF Addresses
  <2>4. PICK q \in 1 .. lens[c] : q = x[2]
    BY <2>2, <2>3 DEF Addresses
  <2>5. ranges[c][1] + q = p
    BY <1>8, <2>1, <2>3, <2>4
  <2> QED BY <1>5, <2>1, <2>3, <2>4, <2>5 DEF ReadAt
<1>10. Scalars(d.arr) = ReadThrough(arrays, at)
  <2>1. DOMAIN d.arr.base = 1 .. N
    BY <1>1 DEF IsArray
  <2> QED BY <1>8, <1>9, <2>1 DEF Scalars, ReadThrough
<1>11. CASE K = 1
  <2>1. back = chunks[1]
    BY <1>3, <1>4, <1>11 DEF back, FlattenChunks
  <2>2. ranges[1][1] = 0 /\ ranges[1][2] = N
    BY <1>3, <1>11 DEF Covers
  <2>3. PICK k : k = PositionsIn(ranges[1])
    OBVIOUS
  <2>4. k = [q \in 1 .. N |-> q]
    BY <2>2, <2>3 DEF PositionsIn
  <2>5. Column(d.lbl, k) = d.lbl /\ Column(d.key, k) = d.key
    BY <1>1, <2>4 DEF Column, IsColumn
  <2>6. back.id = d.id /\ back.lbl = d.lbl /\ back.key = d.key /\ back.arr = arrays[1]
    BY <1>4, <1>5, <1>11, <2>1, <2>3, <2>5
  <2>7. lens[1] = N
    BY <1>2, <1>3, <1>11, <2>2 DEF Lengths
  <2>8. PICK array : array = arrays[1]
    OBVIOUS
  <2>9. IsArray(array, N) /\ \A q \in 1 .. N : ScalarAt(array, q) = ScalarAt(d.arr, q)
    BY <1>5, <1>11, <2>2, <2>7, <2>8
  <2>10. Scalars(array) = Scalars(d.arr)
    <3>1. DOMAIN array.base = 1 .. N /\ DOMAIN d.arr.base = 1 .. N
      BY <1>1, <2>9 DEF IsArray
    <3> QED BY <2>9, <3>1 DEF Scalars
  <2> QED BY <1>6, <2>6, <2>8, <2>10 DEF back, arrays, chunks
<1>12. CASE K # 1
  <2>1. PICK lbls : lbls = [c \in DOMAIN chunks |-> chunks[c].lbl]
    OBVIOUS
  <2>2. PICK keys : keys = [c \in DOMAIN chunks |-> chunks[c].key]
    OBVIOUS
  <2>3. lbls = Parts(d.lbl, ranges) /\ keys = Parts(d.key, ranges)
    BY <1>3, <1>4, <1>5, <2>1, <2>2 DEF Parts
  <2>4. FlattenSeq(lbls) = d.lbl /\ FlattenSeq(keys) = d.key
    BY <1>1, <1>3, <2>3, PartsRejoin
  <2>5. PICK joined : joined = ConcatSlices(arrays)
    OBVIOUS
  <2>6. back = [d EXCEPT !.lbl = FlattenSeq(lbls), !.key = FlattenSeq(keys), !.arr = joined]
    BY <1>3, <1>12, <2>1, <2>2, <2>5 DEF back, FlattenChunks, chunks, arrays, ChunksOf, SlicesOf
  <2>7. d = [id |-> d.id, lbl |-> d.lbl, key |-> d.key, sliced |-> d.sliced, arr |-> d.arr]
    BY DEF IsDataset
  <2>8. PICK r : r = [d EXCEPT !.lbl = d.lbl, !.key = d.key, !.arr = joined]
    OBVIOUS
  <2>9. r.id = d.id /\ r.lbl = d.lbl /\ r.key = d.key /\ r.arr = joined
    BY <2>7, <2>8
  <2>10. back = r
    BY <2>4, <2>6, <2>8
  <2>11. Scalars(joined) = ReadThrough(arrays, at)
    BY <1>3, <1>6, <1>7, <1>8, <2>5, ConcatReads
  <2> QED BY <1>6, <1>10, <2>9, <2>10, <2>11 DEF back, arrays, chunks
<1> QED BY <1>11, <1>12

(* A dataset offloaded in chunks of any size and flattened again is the    *)
(* dataset it was, row by row, and no chunk is empty unless it is.         *)
THEOREM OffloadChangesNothing ==
  Spec => []OffloadIsInvisible
<1>1. PlanInv => OffloadIsInvisible
  <2> SUFFICES ASSUME PlanInv, NEW s \in Sides, NEW size \in ChunkSizes
      PROVE  LET d == side[s]
                 ranges == Offload(d, size)
                 back == FlattenChunks(d, ranges) IN
             /\ CanConcatSlices([c \in DOMAIN ranges |-> ReadPartial(d, ranges[c]).arr])
             /\ back.id = d.id /\ back.lbl = d.lbl /\ back.key = d.key
             /\ Scalars(back.arr) = Scalars(d.arr)
             /\ Rows(d) # {} => \A c \in DOMAIN ranges : ranges[c][1] < ranges[c][2]
    BY DEF OffloadIsInvisible
  <2>1. PICK d : d = side[s]
    OBVIOUS
  <2>2. IsDataset(d, 1 .. minted)
    BY <2>1 DEF PlanInv, SidesInStep
  <2>3. PICK N \in Nat : N = Len(d.lbl) /\ Rows(d) = 1 .. N
    BY <2>2 DEF IsDataset, Rows
  <2>4. size \in (Nat \ {0}) \cup {Null}
    BY SlicePlansAssumption
  <2>5. PICK ranges : ranges = Offload(d, size)
    OBVIOUS
  <2>6. PICK K : Covers(ranges, K, N)
    BY <2>3, <2>4, <2>5, ChunksCover DEF Offload
  <2>7. /\ CanConcatSlices(SlicesOf(ChunksOf(d, ranges)))
        /\ FlattenChunks(d, ranges).id = d.id /\ FlattenChunks(d, ranges).lbl = d.lbl
        /\ FlattenChunks(d, ranges).key = d.key
        /\ Scalars(FlattenChunks(d, ranges).arr) = Scalars(d.arr)
    BY <2>2, <2>3, <2>6, FlattenedAgain
  <2>8. SlicesOf(ChunksOf(d, ranges)) = [c \in DOMAIN ranges |-> ReadPartial(d, ranges[c]).arr]
    BY DEF SlicesOf, ChunksOf
  <2>9. Rows(d) # {} => \A c \in DOMAIN ranges : ranges[c][1] < ranges[c][2]
    <3>1. DOMAIN ranges = 1 .. K /\ \A c \in 1 .. K : N > 0 => ranges[c][1] < ranges[c][2]
      BY <2>6 DEF Covers, IsColumn
    <3>2. Rows(d) # {} => N > 0
      BY <2>3
    <3> QED BY <3>1, <3>2
  <2> QED BY <2>1, <2>5, <2>7, <2>8, <2>9
<1> QED BY <1>1, PlanInvariant, PTL

-----------------------------------------------------------------------------
(* Joins over dimensions                                                   *)

(* In the order of their m-th components, of which there are n.            *)
InMajor(s, S, m, n) ==
  /\ Once(s, S)
  /\ \A a \in 1 .. Len(s) : s[a][m] \in 1 .. n
  /\ \A a, b \in 1 .. Len(s) : a < b => s[a][m] <= s[b][m]

(* Nothing is a member of the empty sequence, and of no other. *)
LEMMA EmptyHasNoMember ==
  ASSUME NEW S, NEW s \in Seq(S)
  PROVE  s = <<>> <=> \A x : ~ Member(x, s)
<1>1. CASE s = <<>>
  BY <1>1 DEF Member
<1>2. CASE s # <<>>
  <2>1. 1 \in 1 .. Len(s)
    BY <1>2
  <2>2. Member(s[1], s)
    BY <2>1 DEF Member
  <2> QED BY <1>2, <2>2
<1> QED BY <1>1, <1>2

(* One row's partners, or itself alone. *)
OrElse(pairs, lone, kept) == IF pairs = <<>> /\ kept THEN <<lone>> ELSE pairs

(* A row stands alone only where it has no partner and is kept.            *)
LEMMA OrElseOnce ==
  ASSUME NEW S, NEW s, Once(s, S), NEW lone \in S, NEW kept \in BOOLEAN
  PROVE  /\ Once(OrElse(s, lone, kept), S)
         /\ \A x : Member(x, OrElse(s, lone, kept)) <=>
                     Member(x, s) \/ (kept /\ x = lone /\ \A y : ~ Member(y, s))
<1>0. s \in Seq(S) /\ (s = <<>> <=> \A x : ~ Member(x, s))
  BY EmptyHasNoMember DEF Once
<1>1. CASE s = <<>> /\ kept
  <2>1. PICK e : e = <<lone>>
    OBVIOUS
  <2>2. OrElse(s, lone, kept) = e
    BY <1>1, <2>1 DEF OrElse
  <2>3. e \in Seq(S) /\ Len(e) = 1 /\ e[1] = lone
    BY <2>1
  <2>4. Once(e, S) /\ \A x : Member(x, e) <=> x = lone
    BY <2>3 DEF Once, Member
  <2> QED BY <1>0, <1>1, <2>2, <2>4
<1>2. CASE ~ (s = <<>> /\ kept)
  <2>1. OrElse(s, lone, kept) = s
    BY <1>2 DEF OrElse
  <2> QED BY <1>0, <1>2, <2>1
<1> QED BY <1>1, <1>2

(* One sequence after another, each of its own major component. *)
LEMMA FlattenInMajor ==
  ASSUME NEW S, NEW m, NEW K \in Nat, NEW family \in Seq(Seq(S)), Len(family) = K,
         \A n \in 1 .. K : Once(family[n], S) /\ \A x : Member(x, family[n]) => x[m] = n
  PROVE  /\ InMajor(FlattenSeq(family), S, m, K)
         /\ \A x : Member(x, FlattenSeq(family)) <=> \E n \in 1 .. K : Member(x, family[n])
<1>1. PICK f : /\ f[0] = <<>>
               /\ \A i \in 1 .. K : f[i] = f[i-1] \o family[i]
               /\ FlattenSeq(family) = f[K]
  BY FlattenEquation
<1> DEFINE ok(i) == /\ InMajor(f[i], S, m, i)
                    /\ \A x : Member(x, f[i]) <=> \E n \in 1 .. i : Member(x, family[n])
           T == {i \in 0 .. K : ok(i)}
<1>2. 0 \in T
  <2>1. f[0] \in Seq(S) /\ Len(f[0]) = 0
    BY <1>1
  <2>2. InMajor(f[0], S, m, 0)
    BY <2>1 DEF InMajor, Once
  <2>3. \A x : ~ Member(x, f[0])
    BY <2>1 DEF Member
  <2> QED BY <2>2, <2>3
<1>3. ASSUME NEW n \in 1 .. K, n - 1 \in T PROVE n \in T
  <2>1. PICK u : u = f[n-1]
    OBVIOUS
  <2>2. PICK v : v = family[n]
    OBVIOUS
  <2>3. /\ InMajor(u, S, m, n - 1)
        /\ \A x : Member(x, u) <=> \E i \in 1 .. n - 1 : Member(x, family[i])
    BY <1>3, <2>1
  <2>4. Once(v, S) /\ (\A x : Member(x, v) => x[m] = n) /\ Once(u, S)
    BY <2>2, <2>3 DEF InMajor
  <2>5. \A x : Member(x, u) => x[m] \in 1 .. n - 1
    BY <2>3 DEF InMajor, Member
  <2>6. \A x : Member(x, u) => ~ Member(x, v)
    <3>1. n \notin 1 .. n - 1
      OBVIOUS
    <3> QED BY <2>4, <2>5, <3>1
  <2>7. PICK w : w = u \o v
    OBVIOUS
  <2>8. Once(w, S) /\ \A x : Member(x, w) <=> Member(x, u) \/ Member(x, v)
    BY <2>4, <2>6, <2>7, ConcatOnce
  <2>9. u \in Seq(S) /\ v \in Seq(S)
    BY <2>4 DEF Once
  <2>10. PICK L \in Nat : L = Len(u)
    BY <2>9
  <2>11. PICK M \in Nat : M = Len(v)
    BY <2>9
  <2>12. /\ Len(w) = L + M
         /\ \A l \in 1 .. L : w[l] = u[l]
         /\ \A l \in L + 1 .. L + M : w[l] = v[l - L]
    <3>1. /\ Len(u \o v) = Len(u) + Len(v)
          /\ \A l \in 1 .. Len(u) : (u \o v)[l] = u[l]
          /\ \A l \in Len(u) + 1 .. Len(u) + Len(v) : (u \o v)[l] = v[l - Len(u)]
      BY <2>9, ConcatParts, Zenon
    <3> QED BY <3>1, <2>7, <2>10, <2>11
  <2>13. ASSUME NEW l \in 1 .. L + M
         PROVE  \/ l \in 1 .. L /\ w[l] = u[l] /\ w[l][m] \in 1 .. n - 1
                \/ l \in L + 1 .. L + M /\ w[l][m] = n
    <3>1. CASE l \in 1 .. L
      BY <2>3, <2>10, <2>12, <3>1 DEF InMajor
    <3>2. CASE ~ l \in 1 .. L
      <4>1. l \in L + 1 .. L + M /\ l - L \in 1 .. M
        BY <3>2
      <4>2. Member(w[l], v)
        BY <2>11, <2>12, <4>1 DEF Member
      <4> QED BY <2>4, <4>1, <4>2
    <3> QED BY <3>1, <3>2
  <2>14. \A l \in 1 .. L + M : w[l][m] \in 1 .. n
    BY <2>13
  <2>15. ASSUME NEW a \in 1 .. L + M, NEW b \in 1 .. L + M, a < b PROVE w[a][m] <= w[b][m]
    <3>1. CASE b \in 1 .. L
      <4>1. a \in 1 .. L
        BY <2>15, <3>1
      <4> QED BY <2>3, <2>10, <2>12, <2>15, <3>1, <4>1 DEF InMajor
    <3>2. CASE ~ b \in 1 .. L
      <4>1. w[b][m] = n
        BY <2>13, <3>2
      <4> QED BY <2>14, <4>1
    <3> QED BY <3>1, <3>2
  <2>16. InMajor(w, S, m, n)
    BY <2>8, <2>12, <2>14, <2>15 DEF InMajor
  <2>17. \A x : Member(x, w) <=> \E i \in 1 .. n : Member(x, family[i])
    <3>1. \A i : i \in 1 .. n <=> i \in 1 .. n - 1 \/ i = n
      OBVIOUS
    <3> QED BY <2>2, <2>3, <2>8, <3>1
  <2>18. f[n] = w
    BY <1>1, <2>1, <2>2, <2>7
  <2> QED BY <2>16, <2>17, <2>18, SMTT(40)
<1> HIDE DEF ok
<1>5. ok(K)
  <2> HIDE DEF T
  <2>1. \A i \in 0 .. K : i \in T
    BY <1>2, <1>3, SegmentInduction, Zenon
  <2>2. K \in T
    BY <2>1
  <2> QED BY <2>2 DEF T
<1> QED BY <1>1, <1>5 DEF ok

-----------------------------------------------------------------------------
(* A row of the major side, the m-th, and one of the other.                *)
Pair(n, q, m) == IF m = 1 THEN <<n, q>> ELSE <<q, n>>

Partners(hits, n, m, M) ==
  Chosen([q \in 1 .. M |-> Pair(n, q, m)], {q \in 1 .. M : Pair(n, q, m) \in hits})

(* The n-th row with its partners, or alone.                               *)
RowTable(hits, n, m, M, kept) ==
  OrElse(Partners(hits, n, m, M), Pair(n, 0, m), kept)

(* It holds each pair once: the hits, or the row alone where there is none *)
(* and it is kept.                                                         *)
IsRowTable(table, hits, n, m, M, kept, S) ==
  /\ Once(table, S)
  /\ \A x : Member(x, table) <=>
       \/ \E q \in 1 .. M : Pair(n, q, m) \in hits /\ x = Pair(n, q, m)
       \/ /\ kept /\ x = Pair(n, 0, m)
          /\ \A q \in 1 .. M : Pair(n, q, m) \notin hits

(* What is paired with the n-th row. *)
LEMMA PartnersOnce ==
  ASSUME NEW hits, NEW m \in {1, 2}, NEW n, NEW M \in Nat, NEW kept \in BOOLEAN, NEW S,
         \A q \in 0 .. M : Pair(n, q, m) \in S
  PROVE  /\ IsRowTable(RowTable(hits, n, m, M, kept), hits, n, m, M, kept, S)
         /\ Partners(hits, n, m, M) = <<>> <=> \A q \in 1 .. M : Pair(n, q, m) \notin hits
<1> DEFINE s == [q \in 1 .. M |-> Pair(n, q, m)]
           P == {q \in 1 .. M : Pair(n, q, m) \in hits}
           own == Chosen(s, P)
<1>1. s \in Seq(S) /\ Len(s) = M /\ \A q \in 1 .. M : s[q] = Pair(n, q, m)
  <2>1. \A q \in 1 .. M : Pair(n, q, m) \in S
    OBVIOUS
  <2>2. [q \in 1 .. M |-> Pair(n, q, m)] \in Seq(S) /\ Len(s) = M
    BY <2>1
  <2> QED BY <2>2
<1>2. \A p, q \in 0 .. M : Pair(n, p, m) = Pair(n, q, m) => p = q
  BY DEF Pair
<1> HIDE DEF s
<1>3. Once(s, S)
  BY <1>1, <1>2 DEF Once
<1>4. /\ Once(own, S)
      /\ \A x : Member(x, own) <=> \E q \in 1 .. M : q \in P /\ s[q] = x
  BY <1>1, <1>3, ChosenOnce
<1> HIDE DEF own
<1>5. \A x : Member(x, own) <=> \E q \in 1 .. M : Pair(n, q, m) \in hits /\ x = Pair(n, q, m)
  BY <1>1, <1>4
<1>6. own = <<>> <=> \A q \in 1 .. M : Pair(n, q, m) \notin hits
  <2>1. own = <<>> <=> \A x : ~ Member(x, own)
    BY <1>4, EmptyHasNoMember DEF Once
  <2> QED BY <1>5, <2>1
<1>7. PICK lone \in S : lone = Pair(n, 0, m)
  OBVIOUS
<1>8. /\ Once(OrElse(own, lone, kept), S)
      /\ \A x : Member(x, OrElse(own, lone, kept)) <=>
                  Member(x, own) \/ (kept /\ x = lone /\ \A y : ~ Member(y, own))
  BY <1>4, OrElseOnce
<1>9. (\A y : ~ Member(y, own)) <=> \A q \in 1 .. M : Pair(n, q, m) \notin hits
  BY <1>5
<1>10. \A x : Member(x, OrElse(own, lone, kept)) <=>
                  \/ \E q \in 1 .. M : Pair(n, q, m) \in hits /\ x = Pair(n, q, m)
                  \/ /\ kept /\ x = lone
                     /\ \A q \in 1 .. M : Pair(n, q, m) \notin hits
  BY <1>5, <1>8, <1>9, Zenon
<1>11. Partners(hits, n, m, M) = own
  BY DEF Partners, own, s
<1>12. RowTable(hits, n, m, M, kept) = OrElse(own, lone, kept)
  BY <1>7, <1>11 DEF RowTable
<1>13. \A x : Member(x, RowTable(hits, n, m, M, kept)) <=>
                  \/ \E q \in 1 .. M : Pair(n, q, m) \in hits /\ x = Pair(n, q, m)
                  \/ /\ kept /\ x = Pair(n, 0, m)
                     /\ \A q \in 1 .. M : Pair(n, q, m) \notin hits
  BY <1>7, <1>10, <1>12, Zenon
<1> QED BY <1>6, <1>8, <1>11, <1>12, <1>13, Zenon DEF IsRowTable

(* All rows of the major side, K of them, with their partners.             *)
IsMajorTable(table, hits, m, K, M, kept, S) ==
  /\ InMajor(table, S, m, K)
  /\ \A x : Member(x, table) <=> \E n \in 1 .. K :
       \/ \E q \in 1 .. M : Pair(n, q, m) \in hits /\ x = Pair(n, q, m)
       \/ /\ kept /\ x = Pair(n, 0, m)
          /\ \A q \in 1 .. M : Pair(n, q, m) \notin hits

MajorRows(hits, m, K, M, kept) == FlattenSeq([n \in 1 .. K |-> RowTable(hits, n, m, M, kept)])

(* One after another, the rows of the major side come in order. *)
LEMMA MajorTable ==
  ASSUME NEW hits, NEW m \in {1, 2}, NEW K \in Nat, NEW M \in Nat, NEW S,
         \A n \in 1 .. K, q \in 0 .. M : Pair(n, q, m) \in S,
         NEW kept \in BOOLEAN
  PROVE  IsMajorTable(MajorRows(hits, m, K, M, kept), hits, m, K, M, kept, S)
<1> DEFINE family == [n \in 1 .. K |-> RowTable(hits, n, m, M, kept)]
<1>1. ASSUME NEW n \in 1 .. K
      PROVE  /\ Once(RowTable(hits, n, m, M, kept), S)
             /\ \A x : Member(x, RowTable(hits, n, m, M, kept)) <=>
                  \/ \E q \in 1 .. M : Pair(n, q, m) \in hits /\ x = Pair(n, q, m)
                  \/ /\ kept /\ x = Pair(n, 0, m)
                     /\ \A q \in 1 .. M : Pair(n, q, m) \notin hits
  <2>0. \A q \in 0 .. M : Pair(n, q, m) \in S
    OBVIOUS
  <2>1. IsRowTable(RowTable(hits, n, m, M, kept), hits, n, m, M, kept, S)
    <3>1. IsRowTable(RowTable(hits, n, m, M, TRUE), hits, n, m, M, TRUE, S)
      BY <2>0, PartnersOnce, Zenon
    <3>2. IsRowTable(RowTable(hits, n, m, M, FALSE), hits, n, m, M, FALSE, S)
      BY <2>0, PartnersOnce, Zenon
    <3>3. kept = TRUE \/ kept = FALSE
      OBVIOUS
    <3> QED BY <3>1, <3>2, <3>3
  <2> QED BY <2>1 DEF IsRowTable
<1>2. \A n \in 1 .. K : family[n] = RowTable(hits, n, m, M, kept)
  OBVIOUS
<1>3. family \in Seq(Seq(S)) /\ Len(family) = K
  <2>1. \A n \in 1 .. K : RowTable(hits, n, m, M, kept) \in Seq(S)
    BY <1>1 DEF Once
  <2> QED BY <2>1
<1> HIDE DEF family
<1>4. ASSUME NEW n \in 1 .. K
      PROVE  Once(family[n], S) /\ \A x : Member(x, family[n]) => x[m] = n
  <2>1. \A q \in 0 .. M : Pair(n, q, m)[m] = n
    BY DEF Pair
  <2>2. 0 \in 0 .. M /\ \A q \in 1 .. M : q \in 0 .. M
    OBVIOUS
  <2>3. ASSUME NEW x, Member(x, family[n]) PROVE x[m] = n
    <3>1. Member(x, RowTable(hits, n, m, M, kept))
      BY <1>2, <2>3
    <3>2. (\E q \in 1 .. M : x = Pair(n, q, m)) \/ x = Pair(n, 0, m)
      BY <1>1, <3>1
    <3> QED BY <2>1, <2>2, <3>2
  <2> QED BY <1>1, <1>2, <2>3
<1>5. /\ InMajor(FlattenSeq(family), S, m, K)
      /\ \A x : Member(x, FlattenSeq(family)) <=> \E n \in 1 .. K : Member(x, family[n])
  BY <1>3, <1>4, FlattenInMajor
<1>6. \A x : Member(x, FlattenSeq(family)) <=> \E n \in 1 .. K :
                  \/ \E q \in 1 .. M : Pair(n, q, m) \in hits /\ x = Pair(n, q, m)
                  \/ /\ kept /\ x = Pair(n, 0, m)
                     /\ \A q \in 1 .. M : Pair(n, q, m) \notin hits
  BY <1>1, <1>2, <1>5
<1> QED BY <1>5, <1>6 DEF family, IsMajorTable, MajorRows

(* The rows that a join over dimensions relates.                           *)
Hit(l, r, dims, scoped, i, j) ==
  /\ scoped => l.key[i] = r.key[j]
  /\ SlicesOverlap(SliceOf(l, i), SliceOf(r, j), dims)

Hits(l, r, dims, scoped) == {p \in Rows(l) \X Rows(r) : Hit(l, r, dims, scoped, p[1], p[2])}

(* Rows without a partner, of the left ones and of the right ones.         *)
LoneLeft(hits, L) == {<<i, 0>> : i \in {x \in L : \A p \in hits : p[1] # x}}
LoneRight(hits, R) == {<<0, j>> : j \in {x \in R : \A p \in hits : p[2] # x}}

LeftMajor(hits, N, M, kept) == MajorRows(hits, 1, N, M, kept)
RightMajor(hits, N, M) == MajorRows(hits, 2, M, N, TRUE)
OrphansOf(hits, N, M) ==
  Chosen([j \in 1 .. M |-> <<0, j>>], {j \in 1 .. M : Partners(hits, j, 2, N) = <<>>})

Positions(N, M) == (0 .. N) \X (0 .. M)

(* The hits, left rows major, and the left rows without a partner if kept. *)
LEMMA LeftMajorPairs ==
  ASSUME NEW N \in Nat, NEW M \in Nat, NEW hits \in SUBSET ((1 .. N) \X (1 .. M)),
         NEW kept \in BOOLEAN
  PROVE  /\ InMajor(LeftMajor(hits, N, M, kept), Positions(N, M), 1, N)
         /\ \A x : Member(x, LeftMajor(hits, N, M, kept)) <=>
                     x \in hits \/ (kept /\ x \in LoneLeft(hits, 1 .. N))
<1> DEFINE table == LeftMajor(hits, N, M, kept)
<1>1. \A n \in 1 .. N, q \in 0 .. M : Pair(n, q, 1) = <<n, q>> /\ <<n, q>> \in Positions(N, M)
  BY DEF Pair, Positions
<1>2. PICK m \in {1, 2} : m = 1
  OBVIOUS
<1>3. IsMajorTable(table, hits, m, N, M, kept, Positions(N, M))
  <2>1. \A n \in 1 .. N, q \in 0 .. M : Pair(n, q, m) \in Positions(N, M)
    BY <1>1, <1>2
  <2>2. IsMajorTable(MajorRows(hits, m, N, M, TRUE), hits, m, N, M, TRUE, Positions(N, M))
    BY <2>1, MajorTable, Zenon
  <2>3. IsMajorTable(MajorRows(hits, m, N, M, FALSE), hits, m, N, M, FALSE, Positions(N, M))
    BY <2>1, MajorTable, Zenon
  <2>4. kept = TRUE \/ kept = FALSE
    OBVIOUS
  <2> QED BY <1>2, <2>2, <2>3, <2>4 DEF LeftMajor
<1> HIDE DEF table
<1>4. 0 \in 0 .. M /\ \A q \in 1 .. M : q \in 0 .. M
  OBVIOUS
<1>5. ASSUME NEW x
      PROVE  Member(x, table) <=> \E n \in 1 .. N :
               \/ \E q \in 1 .. M : <<n, q>> \in hits /\ x = <<n, q>>
               \/ /\ kept /\ x = <<n, 0>>
                  /\ \A q \in 1 .. M : <<n, q>> \notin hits
  <2>1. Member(x, table) <=> \E n \in 1 .. N :
               \/ \E q \in 1 .. M : Pair(n, q, m) \in hits /\ x = Pair(n, q, m)
               \/ /\ kept /\ x = Pair(n, 0, m)
                  /\ \A q \in 1 .. M : Pair(n, q, m) \notin hits
    BY <1>3 DEF IsMajorTable
  <2>2. \A n \in 1 .. N, q \in 0 .. M : Pair(n, q, m) = <<n, q>>
    BY <1>1, <1>2
  <2> QED BY <1>4, <2>1, <2>2, Zenon
<1>6. \A n \in 1 .. N : (\A q \in 1 .. M : <<n, q>> \notin hits) <=> \A p \in hits : p[1] # n
  OBVIOUS
<1>7. ASSUME NEW x
      PROVE  x \in hits <=> \E n \in 1 .. N : \E q \in 1 .. M : <<n, q>> \in hits /\ x = <<n, q>>
  <2>1. x \in hits => x[1] \in 1 .. N /\ x[2] \in 1 .. M /\ x = <<x[1], x[2]>>
    OBVIOUS
  <2> QED BY <2>1, Zenon
<1>8. \A x : x \in LoneLeft(hits, 1 .. N) <=>
               \E n \in 1 .. N : x = <<n, 0>> /\ \A q \in 1 .. M : <<n, q>> \notin hits
  BY <1>6 DEF LoneLeft
<1>9. ASSUME NEW x PROVE Member(x, table) <=> x \in hits \/ (kept /\ x \in LoneLeft(hits, 1 .. N))
  <2>1. CASE kept = TRUE
    <3>1. Member(x, table) <=> \E n \in 1 .. N :
               \/ \E q \in 1 .. M : <<n, q>> \in hits /\ x = <<n, q>>
               \/ x = <<n, 0>> /\ \A q \in 1 .. M : <<n, q>> \notin hits
      BY <1>5, <2>1
    <3>2. x \in LoneLeft(hits, 1 .. N) <=>
            \E n \in 1 .. N : x = <<n, 0>> /\ \A q \in 1 .. M : <<n, q>> \notin hits
      BY <1>8
    <3>3. x \in hits <=> \E n \in 1 .. N : \E q \in 1 .. M : <<n, q>> \in hits /\ x = <<n, q>>
      BY <1>7
    <3>4. Member(x, table) <=> x \in hits \/ x \in LoneLeft(hits, 1 .. N)
      BY <3>1, <3>2, <3>3, Zenon
    <3> QED BY <2>1, <3>4
  <2>2. CASE kept = FALSE
    <3>1. Member(x, table) <=> \E n \in 1 .. N : \E q \in 1 .. M : <<n, q>> \in hits /\ x = <<n, q>>
      BY <1>5, <2>2
    <3> QED BY <1>7, <2>2, <3>1, Zenon
  <2> QED BY <2>1, <2>2
<1> QED BY <1>2, <1>3, <1>9 DEF table, IsMajorTable

(* The hits, right rows major, and the right rows without a partner. *)
LEMMA RightMajorPairs ==
  ASSUME NEW N \in Nat, NEW M \in Nat, NEW hits \in SUBSET ((1 .. N) \X (1 .. M))
  PROVE  /\ InMajor(RightMajor(hits, N, M), Positions(N, M), 2, M)
         /\ \A x : Member(x, RightMajor(hits, N, M)) <=> x \in hits \/ x \in LoneRight(hits, 1 .. M)
<1> DEFINE table == RightMajor(hits, N, M)
<1>1. \A n \in 1 .. M, q \in 0 .. N : Pair(n, q, 2) = <<q, n>> /\ <<q, n>> \in Positions(N, M)
  BY DEF Pair, Positions
<1>2. PICK m \in {1, 2} : m = 2
  OBVIOUS
<1>3. IsMajorTable(table, hits, m, M, N, TRUE, Positions(N, M))
  <2>1. \A n \in 1 .. M, q \in 0 .. N : Pair(n, q, m) \in Positions(N, M)
    BY <1>1, <1>2
  <2>2. TRUE \in BOOLEAN
    OBVIOUS
  <2>3. IsMajorTable(MajorRows(hits, m, M, N, TRUE), hits, m, M, N, TRUE, Positions(N, M))
    BY <2>1, <2>2, MajorTable, Zenon
  <2> QED BY <1>2, <2>3 DEF RightMajor
<1> HIDE DEF table
<1>4. 0 \in 0 .. N /\ \A q \in 1 .. N : q \in 0 .. N
  OBVIOUS
<1>5. ASSUME NEW x
      PROVE  Member(x, table) <=> \E n \in 1 .. M :
               \/ \E q \in 1 .. N : <<q, n>> \in hits /\ x = <<q, n>>
               \/ /\ TRUE /\ x = <<0, n>>
                  /\ \A q \in 1 .. N : <<q, n>> \notin hits
  <2>1. Member(x, table) <=> \E n \in 1 .. M :
               \/ \E q \in 1 .. N : Pair(n, q, m) \in hits /\ x = Pair(n, q, m)
               \/ /\ TRUE /\ x = Pair(n, 0, m)
                  /\ \A q \in 1 .. N : Pair(n, q, m) \notin hits
    BY <1>3 DEF IsMajorTable
  <2>2. \A n \in 1 .. M, q \in 0 .. N : Pair(n, q, m) = <<q, n>>
    BY <1>1, <1>2
  <2> QED BY <1>4, <2>1, <2>2, Zenon
<1>6. \A n \in 1 .. M : (\A q \in 1 .. N : <<q, n>> \notin hits) <=> \A p \in hits : p[2] # n
  OBVIOUS
<1>7. ASSUME NEW x
      PROVE  x \in hits <=> \E n \in 1 .. M : \E q \in 1 .. N : <<q, n>> \in hits /\ x = <<q, n>>
  <2>1. x \in hits => x[1] \in 1 .. N /\ x[2] \in 1 .. M /\ x = <<x[1], x[2]>>
    OBVIOUS
  <2> QED BY <2>1, Zenon
<1>8. \A x : x \in LoneRight(hits, 1 .. M) <=>
               \E n \in 1 .. M : x = <<0, n>> /\ \A q \in 1 .. N : <<q, n>> \notin hits
  BY <1>6 DEF LoneRight
<1>9. \A x : Member(x, table) <=> x \in hits \/ x \in LoneRight(hits, 1 .. M)
  BY <1>5, <1>7, <1>8
<1> QED BY <1>2, <1>3, <1>9 DEF table, IsMajorTable

(* The right rows without a partner, after all others. *)
LEMMA OrphanPairs ==
  ASSUME NEW N \in Nat, NEW M \in Nat, NEW hits \in SUBSET ((1 .. N) \X (1 .. M))
  PROVE  /\ Once(OrphansOf(hits, N, M), Positions(N, M))
         /\ \A x : Member(x, OrphansOf(hits, N, M)) <=> x \in LoneRight(hits, 1 .. M)
<1> DEFINE s == [j \in 1 .. M |-> <<0, j>>]
           P == {j \in 1 .. M : Partners(hits, j, 2, N) = <<>>}
           S == Positions(N, M)
<1>1. s \in Seq(S) /\ Len(s) = M /\ \A j \in 1 .. M : s[j] = <<0, j>>
  <2>1. \A j \in 1 .. M : <<0, j>> \in S
    BY DEF Positions
  <2> HIDE DEF S
  <2>2. [j \in 1 .. M |-> <<0, j>>] \in Seq(S) /\ Len(s) = M
    BY <2>1
  <2> QED BY <2>2
<1>2. ASSUME NEW j \in 1 .. M PROVE j \in P <=> \A p \in hits : p[2] # j
  <2>1. \A q \in 0 .. N : Pair(j, q, 2) \in S
    BY DEF Pair, Positions
  <2>2. 2 \in {1, 2} /\ TRUE \in BOOLEAN
    OBVIOUS
  <2> HIDE DEF S
  <2>3. Partners(hits, j, 2, N) = <<>> <=> \A q \in 1 .. N : Pair(j, q, 2) \notin hits
    BY <2>1, <2>2, PartnersOnce, Zenon
  <2>4. \A q \in 1 .. N : Pair(j, q, 2) = <<q, j>>
    BY DEF Pair
  <2>5. (\A q \in 1 .. N : <<q, j>> \notin hits) <=> \A p \in hits : p[2] # j
    OBVIOUS
  <2> QED BY <2>3, <2>4, <2>5
<1> HIDE DEF s, P, S
<1>3. Once(s, S)
  BY <1>1 DEF Once
<1>4. /\ Once(Chosen(s, P), S)
      /\ \A x : Member(x, Chosen(s, P)) <=> \E j \in 1 .. M : j \in P /\ s[j] = x
  BY <1>1, <1>3, ChosenOnce
<1>5. OrphansOf(hits, N, M) = Chosen(s, P)
  BY DEF OrphansOf, s, P
<1>6. \A x : x \in LoneRight(hits, 1 .. M) <=> \E j \in 1 .. M : x = <<0, j>> /\ \A p \in hits : p[2] # j
  BY DEF LoneRight
<1>7. ASSUME NEW x PROVE Member(x, Chosen(s, P)) <=> x \in LoneRight(hits, 1 .. M)
  <2>1. Member(x, Chosen(s, P)) <=> \E j \in 1 .. M : j \in P /\ s[j] = x
    BY <1>4
  <2>2. x \in LoneRight(hits, 1 .. M) <=> \E j \in 1 .. M : x = <<0, j>> /\ \A p \in hits : p[2] # j
    BY <1>6
  <2>3. \A j \in 1 .. M : s[j] = <<0, j>>
    BY <1>1
  <2> QED BY <1>2, <2>1, <2>2, <2>3, Zenon
<1> QED BY <1>4, <1>5, <1>7 DEF S

(* What a join of related rows promises, by the rows to be included.       *)
Paired(table, hits, L, R, how) ==
  LET major == IF how = "right" THEN 2 ELSE 1 IN
  /\ ToSet(table) = hits \cup (IF how \in {"left", "outer"} THEN LoneLeft(hits, L) ELSE {})
                         \cup (IF how \in {"right", "outer"} THEN LoneRight(hits, R) ELSE {})
  /\ Len(table) = Cardinality(ToSet(table))
  /\ \A m, n \in DOMAIN table :
       m < n /\ table[m][major] # 0 /\ table[n][major] # 0
         => table[m][major] <= table[n][major]

Included(hits, N, M, how) ==
  CASE how = "right" -> RightMajor(hits, N, M)
    [] how = "outer" -> LeftMajor(hits, N, M, TRUE) \o OrphansOf(hits, N, M)
    [] OTHER -> LeftMajor(hits, N, M, how = "left")

(* A table in order of one side holds each pair once, that side growing.   *)
LEMMA InMajorPaired ==
  ASSUME NEW S, NEW m, NEW n, NEW table, InMajor(table, S, m, n)
  PROVE  /\ Len(table) = Cardinality(ToSet(table))
         /\ \A x : x \in ToSet(table) <=> Member(x, table)
         /\ \A a, b \in DOMAIN table : a < b => table[a][m] <= table[b][m]
<1>1. Once(table, S)
  BY DEF InMajor
<1>2. DOMAIN table = 1 .. Len(table)
  BY <1>1 DEF Once
<1> QED BY <1>1, <1>2, OnceCounts DEF InMajor

(* Whatever rows are to be included, each pair is there once, in order. *)
LEMMA IncludedPaired ==
  ASSUME NEW N \in Nat, NEW M \in Nat, NEW hits \in SUBSET ((1 .. N) \X (1 .. M)),
         NEW how \in {"inner", "left", "right", "outer"}
  PROVE  Paired(Included(hits, N, M, how), hits, 1 .. N, 1 .. M, how)
<1> DEFINE S == Positions(N, M)
           loneL == LoneLeft(hits, 1 .. N)
           loneR == LoneRight(hits, 1 .. M)
           inner == LeftMajor(hits, N, M, FALSE)
           left == LeftMajor(hits, N, M, TRUE)
           right == RightMajor(hits, N, M)
           orphans == OrphansOf(hits, N, M)
<1> HIDE DEF S, loneL, loneR, inner, left, right, orphans
<1>1. InMajor(inner, S, 1, N) /\ \A x : Member(x, inner) <=> x \in hits
  <2>1. FALSE \in BOOLEAN
    OBVIOUS
  <2> QED BY <2>1, LeftMajorPairs DEF inner, S
<1>2. InMajor(left, S, 1, N) /\ \A x : Member(x, left) <=> x \in hits \/ x \in loneL
  <2>1. TRUE \in BOOLEAN
    OBVIOUS
  <2> QED BY <2>1, LeftMajorPairs DEF left, S, loneL
<1>3. InMajor(right, S, 2, M) /\ \A x : Member(x, right) <=> x \in hits \/ x \in loneR
  BY RightMajorPairs DEF right, S, loneR
<1>4. Once(orphans, S) /\ \A x : Member(x, orphans) <=> x \in loneR
  BY OrphanPairs DEF orphans, S, loneR
<1>5. CASE how = "inner"
  <2>1. Included(hits, N, M, how) = inner
    BY <1>5 DEF Included, inner
  <2>2. ToSet(inner) = hits
    BY <1>1, InMajorPaired
  <2> QED BY <1>1, <1>5, <2>1, <2>2, InMajorPaired DEF Paired
<1>6. CASE how = "left"
  <2>1. Included(hits, N, M, how) = left
    BY <1>6 DEF Included, left
  <2>2. ToSet(left) = hits \cup loneL
    BY <1>2, InMajorPaired
  <2> QED BY <1>2, <1>6, <2>1, <2>2, InMajorPaired DEF Paired, loneL
<1>7. CASE how = "right"
  <2>1. Included(hits, N, M, how) = right
    BY <1>7 DEF Included, right
  <2>2. ToSet(right) = hits \cup loneR
    BY <1>3, InMajorPaired
  <2> QED BY <1>3, <1>7, <2>1, <2>2, InMajorPaired DEF Paired, loneR
<1>8. CASE how = "outer"
  <2>1. PICK w : w = left \o orphans
    OBVIOUS
  <2>2. Included(hits, N, M, how) = w
    BY <1>8, <2>1 DEF Included, left, orphans
  <2>3. Once(left, S)
    BY <1>2 DEF InMajor
  <2>4. \A x : Member(x, left) => ~ Member(x, orphans)
    <3>1. \A x \in loneR : x[1] = 0
      BY DEF loneR, LoneRight
    <3>2. \A x : Member(x, left) => x[1] \in 1 .. N
      BY <1>2 DEF InMajor, Member
    <3> QED BY <1>4, <3>1, <3>2
  <2>5. Once(w, S) /\ \A x : Member(x, w) <=> Member(x, left) \/ Member(x, orphans)
    BY <1>4, <2>1, <2>3, <2>4, ConcatOnce
  <2>6. Len(w) = Cardinality(ToSet(w)) /\ \A x : x \in ToSet(w) <=> Member(x, w)
    BY <2>5, OnceCounts, SMTT(40)
  <2>7. ToSet(w) = hits \cup loneL \cup loneR
    BY <1>2, <1>4, <2>5, <2>6
  <2>8. PICK L \in Nat : L = Len(left)
    BY <2>3 DEF Once
  <2>9. PICK K \in Nat : K = Len(orphans)
    BY <1>4 DEF Once
  <2>10. /\ DOMAIN w = 1 .. L + K
         /\ \A l \in 1 .. L : w[l] = left[l]
         /\ \A l \in L + 1 .. L + K : w[l] = orphans[l - L]
    <3>1. /\ left \o orphans \in Seq(S) /\ Len(left \o orphans) = Len(left) + Len(orphans)
          /\ \A l \in 1 .. Len(left) : (left \o orphans)[l] = left[l]
          /\ \A l \in Len(left) + 1 .. Len(left) + Len(orphans) :
               (left \o orphans)[l] = orphans[l - Len(left)]
      BY <1>4, <2>3, ConcatParts, Zenon DEF Once
    <3> QED BY <2>1, <2>8, <2>9, <3>1
  <2>11. \A l \in L + 1 .. L + K : w[l][1] = 0
    <3>1. \A x \in loneR : x[1] = 0
      BY DEF loneR, LoneRight
    <3>2. \A l \in L + 1 .. L + K : l - L \in 1 .. K
      OBVIOUS
    <3>3. \A l \in 1 .. K : orphans[l] \in loneR
      BY <1>4, <2>9 DEF Member
    <3> QED BY <2>10, <3>1, <3>2, <3>3
  <2>12. ASSUME NEW a \in DOMAIN w, NEW b \in DOMAIN w, a < b, w[a][1] # 0, w[b][1] # 0
         PROVE  w[a][1] <= w[b][1]
    <3>1. a \in 1 .. L /\ b \in 1 .. L
      BY <2>10, <2>11, <2>12
    <3> QED BY <1>2, <2>8, <2>10, <2>12, <3>1 DEF InMajor
  <2> QED BY <1>8, <2>2, <2>6, <2>7, <2>12 DEF Paired, loneL, loneR
<1> QED BY <1>5, <1>6, <1>7, <1>8

(* The tables of a join are those rows with their partners. *)
LEMMA JoinTableIncluded ==
  ASSUME NEW l, NEW N \in Nat, Rows(l) = 1 .. N, NEW r, NEW M \in Nat, Rows(r) = 1 .. M,
         NEW dims, NEW scoped, NEW how \in {"inner", "left", "right", "outer"}
  PROVE  JoinTable(l, r, dims, scoped, how) = Included(Hits(l, r, dims, scoped), N, M, how)
<1> DEFINE hits == Hits(l, r, dims, scoped)
           hit(i, j) == Hit(l, r, dims, scoped, i, j)
           rightsOf(i) == Chosen([j \in Rows(r) |-> <<i, j>>], {j \in Rows(r) : hit(i, j)})
           leftsOf(j) == Chosen([i \in Rows(l) |-> <<i, j>>], {i \in Rows(l) : hit(i, j)})
           leftMajor == FlattenSeq([i \in Rows(l) |->
                           OrElse(rightsOf(i), <<i, 0>>, how \in {"left", "outer"})])
           rightMajor == FlattenSeq([j \in Rows(r) |-> OrElse(leftsOf(j), <<0, j>>, TRUE)])
           orphans == Chosen([j \in Rows(r) |-> <<0, j>>], {j \in Rows(r) : leftsOf(j) = <<>>})
<1>1. JoinTable(l, r, dims, scoped, how) =
        CASE how = "right" -> rightMajor
          [] how = "outer" -> leftMajor \o orphans
          [] OTHER -> leftMajor
  BY DEF JoinTable, Hit, OrElse
<1>2. \A i \in 1 .. N, j \in 1 .. M : <<i, j>> \in hits <=> hit(i, j)
  BY DEF Hits
<1>3. ASSUME NEW i \in 1 .. N PROVE rightsOf(i) = Partners(hits, i, 1, M)
  <2>1. {j \in Rows(r) : hit(i, j)} = {q \in 1 .. M : Pair(i, q, 1) \in hits}
    <3> HIDE DEF hits, hit
    <3> QED BY <1>2 DEF Pair
  <2>2. [j \in Rows(r) |-> <<i, j>>] = [q \in 1 .. M |-> Pair(i, q, 1)]
    BY DEF Pair
  <2> HIDE DEF hits, hit
  <2> QED BY <2>1, <2>2, Zenon DEF Partners
<1>4. ASSUME NEW j \in 1 .. M PROVE leftsOf(j) = Partners(hits, j, 2, N)
  <2>1. {i \in Rows(l) : hit(i, j)} = {q \in 1 .. N : Pair(j, q, 2) \in hits}
    <3> HIDE DEF hits, hit
    <3> QED BY <1>2 DEF Pair
  <2>2. [i \in Rows(l) |-> <<i, j>>] = [q \in 1 .. N |-> Pair(j, q, 2)]
    BY DEF Pair
  <2> HIDE DEF hits, hit
  <2> QED BY <2>1, <2>2, Zenon DEF Partners
<1> HIDE DEF hits, rightsOf, leftsOf
<1>5. \A kept : [i \in Rows(l) |-> OrElse(rightsOf(i), <<i, 0>>, kept)] =
                [n \in 1 .. N |-> RowTable(hits, n, 1, M, kept)]
  BY <1>3 DEF RowTable, Pair
<1>6. leftMajor = LeftMajor(hits, N, M, how \in {"left", "outer"})
  BY <1>5 DEF LeftMajor, MajorRows
<1>7. rightMajor = RightMajor(hits, N, M)
  <2>1. \A kept : [j \in Rows(r) |-> OrElse(leftsOf(j), <<0, j>>, kept)] =
                  [n \in 1 .. M |-> RowTable(hits, n, 2, N, kept)]
    BY <1>4 DEF RowTable, Pair
  <2> QED BY <2>1 DEF RightMajor, MajorRows
<1>8. orphans = OrphansOf(hits, N, M)
  <2>1. {j \in Rows(r) : leftsOf(j) = <<>>} = {j \in 1 .. M : Partners(hits, j, 2, N) = <<>>}
    BY <1>4
  <2> QED BY <2>1 DEF OrphansOf
<1> HIDE DEF leftMajor, rightMajor, orphans
<1>9. CASE how = "right"
  BY <1>1, <1>7, <1>9 DEF Included, hits
<1>10. CASE how = "outer"
  <2>1. leftMajor = LeftMajor(hits, N, M, TRUE)
    BY <1>6, <1>10
  <2> QED BY <1>1, <1>8, <1>10, <2>1 DEF Included, hits
<1>11. CASE how = "left"
  <2>1. leftMajor = LeftMajor(hits, N, M, TRUE)
    BY <1>6, <1>11
  <2> QED BY <1>1, <1>11, <2>1 DEF Included, hits
<1>12. CASE how = "inner"
  <2>1. leftMajor = LeftMajor(hits, N, M, FALSE)
    <3>1. (how \in {"left", "outer"}) = FALSE
      BY <1>12
    <3> QED BY <1>6, <3>1
  <2> QED BY <1>1, <1>12, <2>1 DEF Included, hits
<1> QED BY <1>9, <1>10, <1>11, <1>12

(* Intervals that are not empty overlap where they share a point. *)
LEMMA OverlapIsShared ==
  ASSUME NEW p \in Int \X Int, NEW q \in Int \X Int, p[1] < p[2], q[1] < q[2]
  PROVE  OverlapIn(p, q, 0) <=> \E x \in p[1] .. p[2] - 1 : x \in q[1] .. q[2] - 1
<1>1. ASSUME OverlapIn(p, q, 0) PROVE \E x \in p[1] .. p[2] - 1 : x \in q[1] .. q[2] - 1
  <2>1. CASE p[1] <= q[1]
    <3>1. q[1] \in p[1] .. p[2] - 1 /\ q[1] \in q[1] .. q[2] - 1
      BY <1>1, <2>1 DEF OverlapIn
    <3> QED BY <3>1
  <2>2. CASE ~ p[1] <= q[1]
    <3>1. p[1] \in p[1] .. p[2] - 1 /\ p[1] \in q[1] .. q[2] - 1
      BY <1>1, <2>2 DEF OverlapIn
    <3> QED BY <3>1
  <2> QED BY <2>1, <2>2
<1>2. ASSUME NEW x \in p[1] .. p[2] - 1, x \in q[1] .. q[2] - 1 PROVE OverlapIn(p, q, 0)
  BY <1>2 DEF OverlapIn
<1> QED BY <1>1, <1>2

(* The slice of a row has integer bounds, but for a start that is missing. *)
LEMMA ScalarIsSlice ==
  ASSUME NEW array, NEW N \in Nat, IsArray(array, N), NEW i \in 1 .. N
  PROVE  IsSlice(ScalarAt(array, i))
<1> DEFINE typed(s) == \A d \in DOMAIN s : s[d] \in (Int \cup {Null}) \X Int
<1>1. CASE array.base[i] = Null
  <2>1. ScalarAt(array, i) = Null
    BY <1>1 DEF ScalarAt
  <2> QED BY <2>1 DEF IsSlice
<1>2. CASE array.base[i] # Null
  <2>1. PICK L \in Nat : L = Len(array.layers)
    BY DEF IsArray
  <2>2. PICK f : /\ f[0] = array.base[i]
                 /\ \A l \in 1 .. L : f[l] = OverlayOne(array, i, l, f[l-1])
                 /\ ScalarAt(array, i) = IF array.base[i] = Null THEN Null ELSE f[L]
    <3>1. \E f : /\ f[0] = array.base[i]
                 /\ \A l \in 1 .. Len(array.layers) : f[l] = OverlayOne(array, i, l, f[l-1])
                 /\ ScalarAt(array, i) = IF array.base[i] = Null THEN Null
                                         ELSE f[Len(array.layers)]
      BY <2>1, ScalarEquation, Zenon
    <3> QED BY <2>1, <3>1
  <2> DEFINE T == {l \in 0 .. L : typed(f[l])}
  <2>3. 0 \in T
    BY <1>2, <2>2 DEF IsArray, IsSlice
  <2>4. ASSUME NEW l \in 1 .. L, l - 1 \in T PROVE l \in T
    <3>1. PICK u : u = f[l-1]
      OBVIOUS
    <3>2. PICK e : e = Layer(array, l).column[i]
      OBVIOUS
    <3>3. PICK dim : dim = Layer(array, l).dim
      OBVIOUS
    <3>4. i \in Present(array)
      BY <1>2 DEF IsArray, Present
    <3>5. e \in Int \X Int
      BY <2>1, <3>2, <3>4 DEF IsArray, Extents
    <3>6. typed(u)
      BY <2>4, <3>1
    <3>7. f[l] = Overlaid(u, dim, e)
      BY <2>2, <3>1, <3>2, <3>3 DEF OverlayOne, Layer
    <3>8. typed(Overlaid(u, dim, e))
      <4>1. PICK w : w = Overlaid(u, dim, e)
        OBVIOUS
      <4>2. DOMAIN w = DOMAIN u \cup {dim}
            /\ \A d \in DOMAIN w : w[d] = IF d = dim THEN e ELSE u[d]
        BY <4>1 DEF Overlaid
      <4>3. e \in (Int \cup {Null}) \X Int
        BY <3>5
      <4> QED BY <3>6, <4>1, <4>2, <4>3
    <3> QED BY <3>7, <3>8
  <2> HIDE DEF T
  <2>5. \A l \in 0 .. L : l \in T
    BY <2>3, <2>4, SegmentInduction, Zenon
  <2>6. typed(f[L])
    BY <2>5 DEF T
  <2> QED BY <1>2, <2>2, <2>6 DEF IsSlice
<1> QED BY <1>1, <1>2

(* Rows of one scope that share a point in every dimension.                *)
ShareAPoint(l, r, dims, scoped) ==
  {p \in Rows(l) \X Rows(r) :
     /\ scoped => l.key[p[1]] = r.key[p[2]]
     /\ \A d \in dims : \E x \in SliceOf(l, p[1])[d][1] .. SliceOf(l, p[1])[d][2] - 1 :
                          x \in SliceOf(r, p[2])[d][1] .. SliceOf(r, p[2])[d][2] - 1}

(* They are the rows a join relates. *)
LEMMA HitsShareAPoint ==
  ASSUME NEW ids, NEW l, IsDataset(l, ids), NEW r, IsDataset(r, ids), NEW dims,
         DimensionJoins(l, r, dims), NEW scoped
  PROVE  Hits(l, r, dims, scoped) = ShareAPoint(l, r, dims, scoped)
<1>1. ASSUME NEW e \in {l, r}, NEW i \in Rows(e), NEW d \in dims
      PROVE  SliceOf(e, i)[d] \in Int \X Int /\ SliceOf(e, i)[d][1] < SliceOf(e, i)[d][2]
  <2>1. PICK s : s = SliceOf(e, i)
    OBVIOUS
  <2>2. s # Null /\ d \in DOMAIN s /\ s[d][1] # Null /\ s[d][1] < s[d][2]
    BY <2>1 DEF DimensionJoins, Bounded
  <2>3. IsSlice(s)
    <3>1. IsDataset(e, ids)
      OBVIOUS
    <3>2. PICK N \in Nat : N = Len(e.lbl)
      BY <3>1 DEF IsDataset
    <3>3. IsArray(e.arr, N) /\ i \in 1 .. N
      BY <3>1, <3>2, LabelsNameRows DEF IsDataset
    <3> QED BY <2>1, <3>3, ScalarIsSlice DEF SliceOf
  <2>4. s[d] \in (Int \cup {Null}) \X Int
    BY <2>2, <2>3 DEF IsSlice
  <2> QED BY <2>1, <2>2, <2>4
<1>2. ASSUME NEW i \in Rows(l), NEW j \in Rows(r)
      PROVE  SlicesOverlap(SliceOf(l, i), SliceOf(r, j), dims) <=>
               \A d \in dims : \E x \in SliceOf(l, i)[d][1] .. SliceOf(l, i)[d][2] - 1 :
                                 x \in SliceOf(r, j)[d][1] .. SliceOf(r, j)[d][2] - 1
  <2>1. ASSUME NEW d \in dims
        PROVE  OverlapIn(SliceOf(l, i)[d], SliceOf(r, j)[d], 0) <=>
                 \E x \in SliceOf(l, i)[d][1] .. SliceOf(l, i)[d][2] - 1 :
                   x \in SliceOf(r, j)[d][1] .. SliceOf(r, j)[d][2] - 1
    <3>1. PICK p : p = SliceOf(l, i)[d]
      OBVIOUS
    <3>2. PICK q : q = SliceOf(r, j)[d]
      OBVIOUS
    <3>3. p \in Int \X Int /\ p[1] < p[2] /\ q \in Int \X Int /\ q[1] < q[2]
      BY <1>1, <3>1, <3>2
    <3>4. OverlapIn(p, q, 0) <=> \E x \in p[1] .. p[2] - 1 : x \in q[1] .. q[2] - 1
      BY <3>3, OverlapIsShared
    <3> QED BY <3>1, <3>2, <3>4
  <2> QED BY <2>1 DEF SlicesOverlap
<1> QED BY <1>2 DEF Hits, Hit, ShareAPoint

(* The join over dimensions pairs the rows of one scope that share a point. *)
LEMMA JoinPairsThem ==
  ASSUME NEW ids, NEW l, IsDataset(l, ids), NEW r, IsDataset(r, ids), NEW dims,
         DimensionJoins(l, r, dims), NEW scoped, NEW how \in {"inner", "left", "right", "outer"}
  PROVE  Paired(JoinTable(l, r, dims, scoped, how), ShareAPoint(l, r, dims, scoped),
                Rows(l), Rows(r), how)
<1>0. Len(l.lbl) \in Nat /\ Len(r.lbl) \in Nat
  BY DEF IsDataset
<1>1. PICK N \in Nat : N = Len(l.lbl)
  BY <1>0
<1>2. PICK M \in Nat : M = Len(r.lbl)
  BY <1>0
<1>3. Rows(l) = 1 .. N /\ Rows(r) = 1 .. M
  BY <1>1, <1>2, LabelsNameRows
<1>4. PICK hits : hits = Hits(l, r, dims, scoped)
  OBVIOUS
<1>5. hits = ShareAPoint(l, r, dims, scoped)
  BY <1>4, HitsShareAPoint
<1>6. hits \in SUBSET ((1 .. N) \X (1 .. M))
  BY <1>3, <1>4 DEF Hits
<1>7. JoinTable(l, r, dims, scoped, how) = Included(hits, N, M, how)
  BY <1>3, <1>4, JoinTableIncluded
<1>8. Paired(Included(hits, N, M, how), hits, 1 .. N, 1 .. M, how)
  BY <1>6, IncludedPaired
<1> QED BY <1>3, <1>5, <1>7, <1>8

(* A join over dimensions pairs exactly the rows of one scope that share a *)
(* point in each of them, and adds the rows without a partner that its     *)
(* inclusion rule asks for, each once and in the order of its major side,  *)
(* whatever windows and filters the sides went through.                    *)
THEOREM JoinsMeanTheRelation ==
  Spec => []JoinIsTheRelation
<1>1. PlanInv => JoinIsTheRelation
  <2> SUFFICES ASSUME PlanInv PROVE JoinIsTheRelation
    OBVIOUS
  <2> DEFINE l == side["left"]
             r == side["right"]
             dims == {t.dim : t \in {u \in Terms : u.kind = "overlap"}}
  <2>1. IsDataset(l, 1 .. minted) /\ IsDataset(r, 1 .. minted)
    BY DEF PlanInv, SidesInStep, Sides
  <2>2. ASSUME DimensionJoins(l, r, dims),
               NEW scoped \in BOOLEAN, NEW how \in {"inner", "left", "right", "outer"}
        PROVE  Paired(JoinTable(l, r, dims, scoped, how), ShareAPoint(l, r, dims, scoped),
                      Rows(l), Rows(r), how)
    BY <2>1, <2>2, JoinPairsThem
  <2> QED BY <2>2, Zenon DEF JoinIsTheRelation, Paired, ShareAPoint, LoneLeft, LoneRight
<1> QED BY <1>1, PlanInvariant, PTL

-----------------------------------------------------------------------------
(* The windows of one extent                                               *)

(* Integer division leaves less than the divisor. *)
LEMMA Quotient ==
  ASSUME NEW a \in Int, NEW s \in Int, s > 0
  PROVE  a \div s \in Int /\ (a \div s) * s <= a /\ a < (a \div s) * s + s
<1>1. PICK q : q = a \div s
  OBVIOUS
<1>2. q \in Int /\ s * q <= a /\ a < s * (q + 1)
  BY <1>1
<1>3. s * (q + 1) = q * s + s /\ s * q = q * s
  BY <1>2
<1> QED BY <1>1, <1>2, <1>3

(* Steps of a positive stride grow, by one of them at least. *)
LEMMA Strides ==
  ASSUME NEW s \in Int, s > 0, NEW j \in Int, NEW k \in Int
  PROVE  /\ j * s \in Int /\ k * s \in Int
         /\ j < k => j * s + s <= k * s
         /\ j <= k => j * s <= k * s
         /\ 0 <= j => j <= j * s
<1>1. j * s \in Int /\ k * s \in Int
  OBVIOUS
<1>2. ASSUME j < k PROVE j * s + s <= k * s
  <2>1. PICK d \in Nat : k = j + 1 + d
    <3>1. k - j - 1 \in Nat /\ k = j + 1 + (k - j - 1)
      BY <1>2
    <3> QED BY <3>1
  <2>2. d * s >= 0
    OBVIOUS
  <2>3. k * s = j * s + s + d * s
    BY <2>1
  <2> QED BY <2>2, <2>3
<1>3. ASSUME 0 <= j PROVE j <= j * s
  <2>1. PICK r \in Nat : s = r + 1
    <3>1. s - 1 \in Nat /\ s = (s - 1) + 1
      OBVIOUS
    <3> QED BY <3>1
  <2>2. j * r >= 0 /\ j * s = j + j * r
    BY <1>3, <2>1
  <2> QED BY <2>1, <2>2
<1>4. j <= k => j * s <= k * s
  <2>1. CASE j = k
    BY <2>1
  <2>2. CASE j < k
    BY <1>1, <1>2, <2>2
  <2> QED BY <2>1, <2>2
<1> QED BY <1>1, <1>2, <1>3, <1>4

StartOf(w, e, k) == e[1] + w.offset + k * w.stride

(* The full windows are those that fit. *)
LEMMA FullAreThoseThatFit ==
  ASSUME NEW w, IsWindow(w), NEW e \in Extents
  PROVE  /\ FullCount(w, e) \in Nat
         /\ \A k \in Nat : /\ StartOf(w, e, k) \in Int
                           /\ StartOf(w, e, k) + w.size <= e[2] <=> k < FullCount(w, e)
<1>1. /\ w.size \in Int /\ w.stride \in Int /\ w.offset \in Int
      /\ w.size > 0 /\ w.stride > 0 /\ e[1] \in Int /\ e[2] \in Int
  BY DEF IsWindow, ValidWindow, Extents
<1>2. PICK s \in Int : s = w.stride
  BY <1>1
<1>3. PICK first \in Int : first = e[1] + w.offset
  BY <1>1
<1>4. PICK room \in Int : room = e[2] - first - w.size
  BY <1>1
<1>5. PICK q : q = room \div s
  OBVIOUS
<1>6. q \in Int /\ q * s <= room /\ room < q * s + s /\ s > 0
  BY <1>1, <1>2, <1>5, Quotient
<1>7. PICK F : F = FullCount(w, e)
  OBVIOUS
<1>8. F = IF room >= 0 THEN q + 1 ELSE 0
  BY <1>2, <1>3, <1>4, <1>5, <1>7 DEF FullCount, First, Exact
<1>9. q * s \in Int /\ (room >= 0 => q >= 0)
  <2>1. CASE q < 0
    <3>1. q * s + s <= 0 * s /\ 0 * s = 0
      BY <1>6, <2>1, Strides
    <3> QED BY <1>6, <3>1
  <2>2. CASE ~ q < 0
    BY <1>6, <2>2
  <2> QED BY <2>1, <2>2
<1>10. F \in Nat
  BY <1>6, <1>8, <1>9
<1>11. ASSUME NEW k \in Nat
       PROVE  /\ StartOf(w, e, k) \in Int
              /\ StartOf(w, e, k) + w.size <= e[2] <=> k < F
  <2>1. PICK m : m = k * s
    OBVIOUS
  <2>2. m \in Int /\ m >= 0
    BY <1>6, <2>1
  <2>3. StartOf(w, e, k) = first + m
    BY <1>2, <1>3, <2>1 DEF StartOf
  <2>4. StartOf(w, e, k) \in Int /\ (StartOf(w, e, k) + w.size <= e[2] <=> m <= room)
    BY <1>1, <1>4, <2>2, <2>3
  <2>5. CASE room < 0
    BY <1>8, <2>2, <2>4, <2>5
  <2>6. CASE room >= 0 /\ k <= q
    <3>1. m <= q * s
      BY <1>6, <2>1, <2>6, Strides
    <3> QED BY <1>6, <1>8, <1>9, <2>2, <2>4, <2>6, <3>1
  <2>7. CASE room >= 0 /\ q < k
    <3>1. q * s + s <= m
      BY <1>6, <2>1, <2>7, Strides
    <3> QED BY <1>6, <1>8, <1>9, <2>2, <2>4, <2>7, <3>1
  <2> QED BY <1>6, <2>5, <2>6, <2>7
<1> QED BY <1>7, <1>10, <1>11

(* Windows start one stride after another.                                 *)
LEMMA StartsGrow ==
  ASSUME NEW w, IsWindow(w), NEW e \in Extents, NEW j \in Nat, NEW k \in Nat
  PROVE  /\ StartOf(w, e, j) \in Int /\ StartOf(w, e, k) \in Int
         /\ j < k => StartOf(w, e, j) + w.stride <= StartOf(w, e, k)
         /\ j <= k <=> StartOf(w, e, j) <= StartOf(w, e, k)
         /\ StartOf(w, e, k) < e[2] => k \in 0 .. e[2] - (e[1] + w.offset)
<1>1. w.stride \in Int /\ w.offset \in Int /\ w.stride > 0 /\ e[1] \in Int /\ e[2] \in Int
  BY DEF IsWindow, ValidWindow, Extents
<1>2. PICK s \in Int : s = w.stride
  BY <1>1
<1>3. PICK first \in Int : first = e[1] + w.offset
  BY <1>1
<1>4. PICK a : a = j * s
  OBVIOUS
<1>5. PICK b : b = k * s
  OBVIOUS
<1>6. a \in Int /\ b \in Int /\ (j < k => a + s <= b) /\ (k < j => b + s <= a) /\ k <= b
  <2>1. s \in Int /\ s > 0 /\ j \in Int /\ k \in Int /\ 0 <= k
    BY <1>1, <1>2
  <2>2. a \in Int /\ b \in Int /\ (j < k => a + s <= b)
    BY <2>1, <1>4, <1>5, Strides
  <2>3. (k < j => b + s <= a) /\ k <= b
    BY <2>1, <1>4, <1>5, Strides
  <2> QED BY <2>2, <2>3
<1>7. StartOf(w, e, j) = first + a /\ StartOf(w, e, k) = first + b
  BY <1>2, <1>3, <1>4, <1>5 DEF StartOf
<1>8. j = k => a = b
  BY <1>4, <1>5
<1> QED BY <1>1, <1>2, <1>3, <1>6, <1>7, <1>8

GridOf(w, e) == Grid(w, e[1], e[2])

(* What an extent's grid holds: the windows that fit, and the first that   *)
(* does not.                                                               *)
LEMMA GridMembers ==
  ASSUME NEW w, IsWindow(w), NEW e \in Extents, NEW F, F = FullCount(w, e)
  PROVE  \A g : g \in GridOf(w, e) <=>
           \/ \E k \in Nat : k < F /\ g = <<StartOf(w, e, k), StartOf(w, e, k) + w.size>>
           \/ w.partial /\ StartOf(w, e, F) < e[2] /\ g = <<StartOf(w, e, F), e[2]>>
<1> DEFINE starts == {e[1] + w.offset + k * w.stride : k \in 0 .. e[2] - (e[1] + w.offset)}
           fits == {x \in starts : x + w.size <= e[2]}
           late == {x \in starts : x < e[2] /\ x + w.size > e[2]}
           cut == {y \in late : w.partial /\ \A z \in late : y <= z}
<1>1. /\ F \in Nat
      /\ \A k \in Nat : /\ StartOf(w, e, k) \in Int
                        /\ StartOf(w, e, k) + w.size <= e[2] <=> k < F
  BY FullAreThoseThatFit
<1>2. w.size \in Int /\ w.size > 0 /\ e[2] \in Int /\ e[1] \in Int /\ w.offset \in Int
  BY DEF IsWindow, ValidWindow, Extents
<1>3. \A x : x \in starts <=> \E k \in 0 .. e[2] - (e[1] + w.offset) : x = StartOf(w, e, k)
  BY DEF StartOf
<1>4. \A j, k \in Nat : j <= k <=> StartOf(w, e, j) <= StartOf(w, e, k)
  BY StartsGrow
<1>5. \A k \in Nat : StartOf(w, e, k) < e[2] => k \in 0 .. e[2] - (e[1] + w.offset)
  BY StartsGrow
<1> HIDE DEF starts
<1>6. ASSUME NEW x PROVE x \in fits <=> \E k \in Nat : k < F /\ x = StartOf(w, e, k)
  <2>1. ASSUME x \in fits PROVE \E k \in Nat : k < F /\ x = StartOf(w, e, k)
    <3>1. PICK k \in 0 .. e[2] - (e[1] + w.offset) : x = StartOf(w, e, k)
      BY <1>3, <2>1
    <3>2. k \in Nat /\ x + w.size <= e[2]
      BY <2>1
    <3> QED BY <1>1, <3>1, <3>2
  <2>2. ASSUME NEW k \in Nat, k < F, x = StartOf(w, e, k) PROVE x \in fits
    <3>1. x \in Int /\ x + w.size <= e[2]
      BY <1>1, <2>2
    <3>2. x < e[2]
      BY <1>2, <3>1
    <3>3. x \in starts
      BY <1>3, <1>5, <2>2, <3>2
    <3> QED BY <3>1, <3>3
  <2> QED BY <2>1, <2>2
<1>7. ASSUME NEW x
      PROVE  x \in late <=> \E k \in Nat : F <= k /\ x = StartOf(w, e, k) /\ x < e[2]
  <2>1. ASSUME x \in late
        PROVE  \E k \in Nat : F <= k /\ x = StartOf(w, e, k) /\ x < e[2]
    <3>1. PICK k \in 0 .. e[2] - (e[1] + w.offset) : x = StartOf(w, e, k)
      BY <1>3, <2>1
    <3>2. k \in Nat /\ x < e[2] /\ x + w.size > e[2] /\ x \in Int
      BY <1>1, <2>1, <3>1
    <3>3. ~ x + w.size <= e[2]
      BY <1>2, <3>2
    <3>4. F <= k
      BY <1>1, <3>1, <3>2, <3>3
    <3> QED BY <3>1, <3>2, <3>4
  <2>2. ASSUME NEW k \in Nat, F <= k, x = StartOf(w, e, k), x < e[2] PROVE x \in late
    <3>1. x \in Int /\ ~ x + w.size <= e[2]
      BY <1>1, <2>2
    <3>2. x + w.size > e[2]
      BY <1>2, <3>1
    <3>3. x \in starts
      BY <1>3, <1>5, <2>2
    <3> QED BY <2>2, <3>2, <3>3
  <2> QED BY <2>1, <2>2
<1> HIDE DEF fits, late
<1>8. ASSUME NEW x
      PROVE  x \in cut <=> w.partial /\ x = StartOf(w, e, F) /\ x < e[2]
  <2>1. ASSUME x \in cut PROVE w.partial /\ x = StartOf(w, e, F) /\ x < e[2]
    <3>1. x \in late /\ w.partial /\ \A z \in late : x <= z
      BY <2>1
    <3>2. PICK k \in Nat : F <= k /\ x = StartOf(w, e, k) /\ x < e[2]
      BY <1>7, <3>1
    <3>3. PICK z : z = StartOf(w, e, F)
      OBVIOUS
    <3>4. z \in Int /\ x \in Int /\ z <= x
      BY <1>1, <1>4, <3>2, <3>3
    <3>5. z < e[2]
      BY <1>2, <3>2, <3>4
    <3>6. z \in late
      <4>1. F <= F
        BY <1>1
      <4> QED BY <1>1, <1>7, <3>3, <3>5, <4>1
    <3>7. x <= z
      BY <3>1, <3>6
    <3>8. x = z
      BY <3>4, <3>7
    <3> QED BY <3>1, <3>2, <3>3, <3>8
  <2>2. ASSUME w.partial, x = StartOf(w, e, F), x < e[2] PROVE x \in cut
    <3>1. x \in late
      <4>1. F <= F
        BY <1>1
      <4> QED BY <1>1, <1>7, <2>2, <4>1
    <3>2. ASSUME NEW z \in late PROVE x <= z
      <4>1. PICK k \in Nat : F <= k /\ z = StartOf(w, e, k)
        BY <1>7
      <4> QED BY <1>1, <1>4, <2>2, <4>1
    <3> QED BY <2>2, <3>1, <3>2
  <2> QED BY <2>1, <2>2
<1>9. GridOf(w, e) = {<<x, x + w.size>> : x \in fits} \cup {<<x, e[2]>> : x \in cut}
  BY DEF GridOf, Grid, fits, late, starts
<1> HIDE DEF cut
<1> QED BY <1>1, <1>6, <1>8, <1>9

(* The windows of an extent are its grid, each once.                       *)
Tiling(w, e) ==
  /\ Count(w, e) \in Nat
  /\ \A g : g \in GridOf(w, e) <=> \E k \in 1 .. Count(w, e) : g = Interval(w, e, k)
  /\ \A j, k \in 1 .. Count(w, e) : Interval(w, e, j) = Interval(w, e, k) => j = k

(* They are counted and laid out apart, and agree: extents shorter than a  *)
(* window, an offset beyond the extent or before it, strides of any length.*)
LEMMA WindowsAreTheGrid ==
  ASSUME NEW w, IsWindow(w), NEW e \in Extents
  PROVE  Tiling(w, e)
<1>1. PICK F : F = FullCount(w, e)
  OBVIOUS
<1>2. /\ F \in Nat
      /\ \A k \in Nat : /\ StartOf(w, e, k) \in Int
                        /\ StartOf(w, e, k) + w.size <= e[2] <=> k < F
  BY <1>1, FullAreThoseThatFit
<1>3. /\ w.size \in Int /\ w.size > 0 /\ e[2] \in Int /\ e[1] \in Int
      /\ w.offset \in Int /\ w.partial \in BOOLEAN /\ w.stride \in Int
  BY DEF IsWindow, ValidWindow, Extents
<1>4. \A j, k \in Nat : StartOf(w, e, j) = StartOf(w, e, k) => j = k
  <2>1. \A j, k \in Nat : j <= k <=> StartOf(w, e, j) <= StartOf(w, e, k)
    BY StartsGrow
  <2> QED BY <1>2, <2>1
<1>5. PICK more \in BOOLEAN : more <=> w.partial /\ StartOf(w, e, F) < e[2]
  BY <1>3
<1>6. Count(w, e) = IF more THEN F + 1 ELSE F
  BY <1>1, <1>2, <1>5 DEF Count, StartOf, StartAt, First, Exact
<1>7. PICK C \in Nat : C = Count(w, e) /\ C = IF more THEN F + 1 ELSE F
  BY <1>2, <1>6
<1>8. ASSUME NEW k \in 1 .. C
      PROVE  /\ k - 1 \in Nat
             /\ Interval(w, e, k)[1] = StartOf(w, e, k - 1)
             /\ Interval(w, e, k) = IF k - 1 < F
                                    THEN <<StartOf(w, e, k - 1), StartOf(w, e, k - 1) + w.size>>
                                    ELSE <<StartOf(w, e, F), e[2]>>
  <2>1. k - 1 \in Nat
    OBVIOUS
  <2>2. PICK x \in Int : x = StartOf(w, e, k - 1)
    BY <1>2, <2>1
  <2>3. Interval(w, e, k) = <<x, IF w.partial THEN MinOf(x + w.size, e[2]) ELSE x + w.size>>
    BY <2>2 DEF Interval, StartOf, StartAt, First, Exact
  <2>4. CASE k - 1 < F
    <3>1. x + w.size <= e[2]
      BY <1>2, <2>1, <2>2, <2>4
    <3>2. MinOf(x + w.size, e[2]) = x + w.size
      BY <1>3, <3>1 DEF MinOf
    <3> QED BY <2>1, <2>2, <2>3, <2>4, <3>2
  <2>5. CASE ~ k - 1 < F
    <3>1. k - 1 = F /\ more
      BY <1>2, <1>7, <2>5
    <3>2. ~ x + w.size <= e[2]
      BY <1>2, <2>1, <2>2, <2>5
    <3>3. MinOf(x + w.size, e[2]) = e[2] /\ w.partial
      BY <1>3, <1>5, <3>1, <3>2 DEF MinOf
    <3> QED BY <2>1, <2>2, <2>3, <2>5, <3>1, <3>3
  <2> QED BY <2>4, <2>5
<1>9. \A g : g \in GridOf(w, e) <=>
           \/ \E k \in Nat : k < F /\ g = <<StartOf(w, e, k), StartOf(w, e, k) + w.size>>
           \/ w.partial /\ StartOf(w, e, F) < e[2] /\ g = <<StartOf(w, e, F), e[2]>>
  BY <1>1, GridMembers
<1>10. ASSUME NEW g PROVE g \in GridOf(w, e) <=> \E k \in 1 .. C : g = Interval(w, e, k)
  <2>1. ASSUME NEW k \in Nat, k < F,
               g = <<StartOf(w, e, k), StartOf(w, e, k) + w.size>>
        PROVE  \E m \in 1 .. C : g = Interval(w, e, m)
    <3>1. k + 1 \in 1 .. C /\ (k + 1) - 1 = k
      BY <1>2, <1>7, <2>1
    <3> QED BY <1>8, <2>1, <3>1
  <2>2. ASSUME more, g = <<StartOf(w, e, F), e[2]>>
        PROVE  \E m \in 1 .. C : g = Interval(w, e, m)
    <3>1. F + 1 \in 1 .. C /\ (F + 1) - 1 = F /\ ~ F < F
      BY <1>2, <1>7, <2>2
    <3> QED BY <1>8, <2>2, <3>1
  <2>3. ASSUME NEW k \in 1 .. C, g = Interval(w, e, k) PROVE g \in GridOf(w, e)
    <3>1. CASE k - 1 < F
      BY <1>8, <1>9, <2>3, <3>1
    <3>2. CASE ~ k - 1 < F
      <4>1. more
        BY <1>2, <1>7, <3>2
      <4> QED BY <1>5, <1>8, <1>9, <2>3, <3>2, <4>1
    <3> QED BY <3>1, <3>2
  <2> QED BY <1>5, <1>9, <2>1, <2>2, <2>3
<1>11. ASSUME NEW j \in 1 .. C, NEW k \in 1 .. C, Interval(w, e, j) = Interval(w, e, k)
       PROVE  j = k
  <2>1. StartOf(w, e, j - 1) = StartOf(w, e, k - 1) /\ j - 1 \in Nat /\ k - 1 \in Nat
    BY <1>8, <1>11
  <2>2. j - 1 = k - 1
    BY <1>4, <2>1
  <2> QED BY <2>2
<1> QED BY <1>7, <1>10, <1>11 DEF Tiling

-----------------------------------------------------------------------------
(* Windows by their addresses                                              *)

(* Addresses come column by column, and each is one once.                  *)
LEMMA AddressesInOrder ==
  ASSUME NEW K \in Nat, NEW lens, IsColumn(lens, K), \A n \in 1 .. K : lens[n] \in Nat
  PROVE  /\ InMajor(Address(lens), Addresses(lens, K), 1, K)
         /\ \A x : Member(x, Address(lens)) <=> x \in Addresses(lens, K)
<1> DEFINE cells == [n \in DOMAIN lens |-> [q \in 1 .. lens[n] |-> <<n, q>>]]
           A == Addresses(lens, K)
<1>1. cells = [n \in 1 .. K |-> [q \in 1 .. lens[n] |-> <<n, q>>]]
  BY DEF IsColumn
<1>2. \A x : x \in A <=> \E n \in 1 .. K : \E q \in 1 .. lens[n] : x = <<n, q>>
  BY DEF Addresses
<1>3. ASSUME NEW n \in 1 .. K
      PROVE  /\ cells[n] \in Seq(A) /\ Once(cells[n], A)
             /\ \A x : Member(x, cells[n]) <=> \E q \in 1 .. lens[n] : x = <<n, q>>
  <2>1. PICK M \in Nat : M = lens[n]
    OBVIOUS
  <2>2. PICK c : c = cells[n]
    OBVIOUS
  <2>3. c = [q \in 1 .. M |-> <<n, q>>]
    BY <1>1, <2>1, <2>2
  <2>4. \A q \in 1 .. M : <<n, q>> \in A
    BY <1>2, <2>1
  <2> HIDE DEF A, cells
  <2>5. c \in Seq(A) /\ Len(c) = M /\ \A q \in 1 .. M : c[q] = <<n, q>>
    BY <2>3, <2>4
  <2>6. Once(c, A)
    BY <2>5 DEF Once
  <2>7. \A x : Member(x, c) <=> \E q \in 1 .. M : x = <<n, q>>
    BY <2>5 DEF Member
  <2> QED BY <2>1, <2>2, <2>5, <2>6, <2>7
<1>4. cells \in Seq(Seq(A)) /\ Len(cells) = K
  <2>1. cells = [n \in 1 .. K |-> cells[n]]
    BY <1>1
  <2> HIDE DEF cells, A
  <2>2. [n \in 1 .. K |-> cells[n]] \in Seq(Seq(A)) /\ Len([n \in 1 .. K |-> cells[n]]) = K
    BY <1>3
  <2> QED BY <2>1, <2>2
<1> HIDE DEF cells, A
<1>5. \A n \in 1 .. K : Once(cells[n], A) /\ \A x : Member(x, cells[n]) => x[1] = n
  BY <1>3
<1>6. /\ InMajor(FlattenSeq(cells), A, 1, K)
      /\ \A x : Member(x, FlattenSeq(cells)) <=> \E n \in 1 .. K : Member(x, cells[n])
  BY <1>4, <1>5, FlattenInMajor
<1>7. Address(lens) = FlattenSeq(cells)
  BY DEF Address, cells
<1>8. \A x : Member(x, Address(lens)) <=> x \in A
  BY <1>2, <1>3, <1>6, <1>7
<1> QED BY <1>6, <1>7, <1>8 DEF A

ByColumn(column, a) == [P \in 1 .. Len(a) |-> column[a[P][1]]]

ByWindow(w, extents, a) == [P \in 1 .. Len(a) |-> Interval(w, extents[a[P][1]], a[P][2])]

(* A column repeated by counts, by addresses. *)
LEMMA RepeatAddressed ==
  ASSUME NEW S, NEW column \in Seq(S), NEW L \in Nat, Len(column) = L,
         NEW counts, IsColumn(counts, L), \A p \in 1 .. L : counts[p] \in Nat
  PROVE  Repeat(column, counts) = ByColumn(column, Address(counts))
<1> DEFINE family == [i \in DOMAIN column |-> [k \in 1 .. counts[i] |-> column[i]]]
           a == Address(counts)
<1>1. family = [i \in 1 .. L |-> [k \in 1 .. counts[i] |-> column[i]]]
  OBVIOUS
<1>2. IsFamily(family, counts, L)
  BY <1>1 DEF IsFamily, IsColumn
<1>3. Repeat(column, counts) = FlattenSeq(family)
  BY DEF Repeat
<1> HIDE DEF family
<1>4. a \in Seq(Addresses(counts, L))
      /\ FlattenSeq(family) = [P \in 1 .. Len(a) |-> Cell(family, a[P])]
  BY <1>2, FlattenAddressed
<1>5. ASSUME NEW P \in 1 .. Len(a) PROVE Cell(family, a[P]) = column[a[P][1]]
  <2>1. a[P] \in Addresses(counts, L)
    BY <1>4
  <2>2. a[P][1] \in 1 .. L /\ a[P][2] \in 1 .. counts[a[P][1]]
    BY <2>1 DEF Addresses
  <2> QED BY <1>1, <2>2 DEF Cell
<1> QED BY <1>3, <1>4, <1>5 DEF ByColumn

(* The windows of a column of extents, by addresses. *)
LEMMA IntervalsAddressed ==
  ASSUME NEW w, NEW L \in Nat, NEW extents, IsColumn(extents, L),
         \A p \in 1 .. L : Count(w, extents[p]) \in Nat
  PROVE  Intervals(w, extents) = ByWindow(w, extents, Address(CountsOf(w, extents)))
<1> DEFINE family == [i \in DOMAIN extents |->
                        [k \in 1 .. Count(w, extents[i]) |-> Interval(w, extents[i], k)]]
           counts == CountsOf(w, extents)
           a == Address(counts)
<1>0. DOMAIN extents = 1 .. L
  BY DEF IsColumn
<1>1. /\ family = [i \in 1 .. L |->
                     [k \in 1 .. Count(w, extents[i]) |-> Interval(w, extents[i], k)]]
      /\ counts = [i \in 1 .. L |-> Count(w, extents[i])]
  BY <1>0 DEF CountsOf
<1> HIDE DEF counts
<1>2. IsFamily(family, counts, L)
  BY <1>1 DEF IsFamily, IsColumn
<1>3. Intervals(w, extents) = FlattenSeq(family)
  BY DEF Intervals
<1> HIDE DEF family
<1>4. a \in Seq(Addresses(counts, L))
      /\ FlattenSeq(family) = [P \in 1 .. Len(a) |-> Cell(family, a[P])]
  BY <1>2, FlattenAddressed
<1>5. ASSUME NEW P \in 1 .. Len(a)
      PROVE  Cell(family, a[P]) = Interval(w, extents[a[P][1]], a[P][2])
  <2>1. a[P] \in Addresses(counts, L)
    BY <1>4
  <2>2. a[P][1] \in 1 .. L /\ a[P][2] \in 1 .. counts[a[P][1]]
    BY <2>1 DEF Addresses
  <2>3. a[P][2] \in 1 .. Count(w, extents[a[P][1]])
    BY <1>1, <2>2
  <2> QED BY <1>1, <2>2, <2>3 DEF Cell
<1> QED BY <1>3, <1>4, <1>5 DEF counts, ByWindow

(* How often each window so far is cut again.                              *)
AxisCounts(array, axis, prev) ==
  CountsOf(axis.window, ExtentsOf(array, axis.dim, prev.parents))

AxisGrid(array, axis, i) == GridOf(axis.window, Extent(array, axis.dim, i))

(* Each window of the next axis: which one of which window so far.         *)
Spelled(next, prev, a, array, axis, n) ==
  /\ next.parents = [P \in 1 .. Len(a) |-> prev.parents[a[P][1]]]
  /\ \A m \in 1 .. n : next.columns[m] = [P \in 1 .. Len(a) |-> prev.columns[m][a[P][1]]]
  /\ next.columns[n+1] =
       [P \in 1 .. Len(a) |->
          Interval(axis.window, Extent(array, axis.dim, prev.parents[a[P][1]]), a[P][2])]

IsCounted(counts, array, axis, prev) ==
  /\ IsColumn(counts, Len(prev.parents))
  /\ \A p \in 1 .. Len(prev.parents) :
       /\ counts[p] = Count(axis.window, Extent(array, axis.dim, prev.parents[p]))
       /\ counts[p] \in Nat

(* The next axis, by addresses. *)
LEMMA NextAddressed ==
  ASSUME NEW array, NEW N \in Nat, IsArray(array, N),
         NEW axis, IsWindow(axis.window), HasExtents(array, axis.dim),
         NEW n \in Nat, NEW prev, InStep(prev, array, n)
  PROVE  /\ IsCounted(AxisCounts(array, axis, prev), array, axis, prev)
         /\ Spelled(NextAxis(array, axis, prev), prev, Address(AxisCounts(array, axis, prev)),
                    array, axis, n)
<1>1. PICK L \in Nat : L = Len(prev.parents) /\ DOMAIN prev.parents = 1 .. L
  BY DEF InStep
<1>2. PICK extents : extents = ExtentsOf(array, axis.dim, prev.parents)
  OBVIOUS
<1>3. extents = [p \in 1 .. L |-> Extent(array, axis.dim, prev.parents[p])]
  BY <1>1, <1>2 DEF ExtentsOf
<1>4. PICK counts : counts = CountsOf(axis.window, extents)
  OBVIOUS
<1>5. counts = [p \in 1 .. L |-> Count(axis.window, extents[p])]
  BY <1>3, <1>4 DEF CountsOf
<1>6. AxisCounts(array, axis, prev) = counts
  BY <1>2, <1>4 DEF AxisCounts
<1>7. ASSUME NEW p \in 1 .. L PROVE Count(axis.window, extents[p]) \in Nat
  <2>1. prev.parents[p] \in Present(array)
    BY <1>1 DEF InStep
  <2>2. Extent(array, axis.dim, prev.parents[p]) \in Extents
    BY <2>1, ExtentIsTyped
  <2>3. Tiling(axis.window, Extent(array, axis.dim, prev.parents[p]))
    BY <2>2, WindowsAreTheGrid
  <2> QED BY <1>3, <2>3 DEF Tiling
<1>8. IsColumn(counts, L) /\ IsColumn(extents, L) /\ \A p \in 1 .. L : counts[p] \in Nat
  BY <1>3, <1>5, <1>7 DEF IsColumn
<1>9. IsCounted(counts, array, axis, prev)
  BY <1>1, <1>3, <1>5, <1>8 DEF IsCounted
<1>10. PICK a : a = Address(counts)
  OBVIOUS
<1>11. Repeat(prev.parents, counts) = [P \in 1 .. Len(a) |-> prev.parents[a[P][1]]]
  <2>1. prev.parents \in Seq(Present(array))
    BY DEF InStep
  <2>2. PICK column \in Seq(Present(array)) : column = prev.parents /\ Len(column) = L
    BY <1>1, <2>1
  <2>3. Repeat(column, counts) = ByColumn(column, Address(counts))
    BY <1>8, <2>2, RepeatAddressed
  <2> QED BY <1>10, <2>2, <2>3 DEF ByColumn
<1>12. ASSUME NEW m \in 1 .. n
       PROVE  Repeat(prev.columns[m], counts) = [P \in 1 .. Len(a) |-> prev.columns[m][a[P][1]]]
  <2>1. prev.columns[m] \in Seq(Extents) /\ Len(prev.columns[m]) = L
    BY <1>1 DEF InStep
  <2>2. PICK column \in Seq(Extents) : column = prev.columns[m] /\ Len(column) = L
    BY <2>1
  <2>3. Repeat(column, counts) = ByColumn(column, Address(counts))
    BY <1>8, <2>2, RepeatAddressed
  <2> QED BY <1>10, <2>2, <2>3 DEF ByColumn
<1>13. Intervals(axis.window, extents) =
         [P \in 1 .. Len(a) |-> Interval(axis.window, extents[a[P][1]], a[P][2])]
  <2>1. PICK w : w = axis.window
    OBVIOUS
  <2>2. \A p \in 1 .. L : Count(w, extents[p]) \in Nat
    BY <1>7, <2>1
  <2>3. Intervals(w, extents) = ByWindow(w, extents, Address(CountsOf(w, extents)))
    BY <1>8, <2>2, IntervalsAddressed
  <2> QED BY <1>4, <1>10, <2>1, <2>3 DEF ByWindow
<1>14. PICK next : next = NextAxis(array, axis, prev)
  OBVIOUS
<1>15. PICK before : before = [m \in DOMAIN prev.columns |-> Repeat(prev.columns[m], counts)]
  OBVIOUS
<1>16. /\ next.parents = Repeat(prev.parents, counts)
       /\ next.columns = Append(before, Intervals(axis.window, extents))
  BY <1>2, <1>4, <1>14, <1>15 DEF NextAxis
<1>17. before = [m \in 1 .. n |-> Repeat(prev.columns[m], counts)]
  BY <1>15 DEF InStep
<1>18. PICK last : last = Intervals(axis.window, extents)
  OBVIOUS
<1>19. /\ \A m \in 1 .. n : Append(before, last)[m] = before[m]
       /\ Append(before, last)[n+1] = last
  <2> DEFINE S == ToSet(before)
  <2>1. \A m \in 1 .. n : before[m] \in S
    BY <1>17 DEF ToSet
  <2> HIDE DEF S
  <2>2. before = [m \in 1 .. n |-> before[m]]
    BY <1>17
  <2>3. before \in Seq(S) /\ Len(before) = n
    <3>1. [m \in 1 .. n |-> before[m]] \in Seq(S) /\ Len([m \in 1 .. n |-> before[m]]) = n
      BY <2>1
    <3> QED BY <2>2, <3>1
  <2> QED BY <2>3
<1>20. ASSUME NEW P \in 1 .. Len(a)
       PROVE  extents[a[P][1]] = Extent(array, axis.dim, prev.parents[a[P][1]])
  <2>1. a \in Seq(Addresses(counts, L))
    <3>1. InMajor(a, Addresses(counts, L), 1, L)
      BY <1>8, <1>10, AddressesInOrder
    <3> QED BY <3>1 DEF InMajor, Once
  <2>2. a[P][1] \in 1 .. L
    BY <2>1 DEF Addresses
  <2> QED BY <1>3, <2>2
<1>21. last = [P \in 1 .. Len(a) |->
                 Interval(axis.window, Extent(array, axis.dim, prev.parents[a[P][1]]), a[P][2])]
  BY <1>13, <1>18, <1>20
<1>22. /\ next.parents = [P \in 1 .. Len(a) |-> prev.parents[a[P][1]]]
       /\ \A m \in 1 .. n : next.columns[m] = [P \in 1 .. Len(a) |-> prev.columns[m][a[P][1]]]
       /\ next.columns[n+1] = last
  BY <1>11, <1>12, <1>16, <1>17, <1>18, <1>19
<1>23. Spelled(next, prev, a, array, axis, n)
  BY <1>21, <1>22 DEF Spelled
<1> QED BY <1>6, <1>9, <1>10, <1>14, <1>23

(* Every place of every column has an address, and places of later columns *)
(* come later.                                                             *)
Addressing(a, counts, L) ==
  /\ Len(a) \in Nat /\ DOMAIN a = 1 .. Len(a)
  /\ \A P \in 1 .. Len(a) : /\ a[P] = <<a[P][1], a[P][2]>>
                            /\ a[P][1] \in 1 .. L /\ a[P][2] \in 1 .. counts[a[P][1]]
  /\ \A P, Q \in 1 .. Len(a) : P < Q => a[P][1] <= a[Q][1]
  /\ \A P, Q \in 1 .. Len(a) : a[P] = a[Q] => P = Q
  /\ \A p \in 1 .. L : \A k \in 1 .. counts[p] : \E P \in 1 .. Len(a) : a[P] = <<p, k>>

(* Address gives them. *)
LEMMA AddressIsAddressing ==
  ASSUME NEW L \in Nat, NEW counts, IsColumn(counts, L), \A p \in 1 .. L : counts[p] \in Nat
  PROVE  Addressing(Address(counts), counts, L)
<1>1. PICK a : a = Address(counts)
  OBVIOUS
<1>2. PICK A : A = Addresses(counts, L)
  OBVIOUS
<1>3. InMajor(a, A, 1, L) /\ \A x : Member(x, a) <=> x \in A
  BY <1>1, <1>2, AddressesInOrder
<1>4. /\ a \in Seq(A) /\ \A P, Q \in 1 .. Len(a) : P < Q => a[P] # a[Q]
      /\ \A P, Q \in 1 .. Len(a) : P < Q => a[P][1] <= a[Q][1]
  BY <1>3 DEF InMajor, Once
<1>5. Len(a) \in Nat /\ DOMAIN a = 1 .. Len(a) /\ \A P \in 1 .. Len(a) : a[P] \in A
  BY <1>4
<1>6. \A x \in A : x = <<x[1], x[2]>> /\ x[1] \in 1 .. L /\ x[2] \in 1 .. counts[x[1]]
  BY <1>2 DEF Addresses
<1>7. ASSUME NEW p \in 1 .. L, NEW k \in 1 .. counts[p]
      PROVE  \E P \in 1 .. Len(a) : a[P] = <<p, k>>
  <2>1. <<p, k>> \in A
    BY <1>2 DEF Addresses
  <2> QED BY <1>3, <2>1 DEF Member
<1>8. \A P, Q \in 1 .. Len(a) : a[P] = a[Q] => P = Q
  BY <1>4, <1>5
<1> QED BY <1>1, <1>4, <1>5, <1>6, <1>7, <1>8 DEF Addressing

-----------------------------------------------------------------------------
(* The product of the axes                                                 *)

(* Bounds that an extent's grids allow, on n axes.                         *)
OnGrids(g, array, windows, i, n) ==
  \A m \in 1 .. n : g[m] \in AxisGrid(array, windows[m], i)

(* The p-th window: which row it is cut from, and where.                   *)
IsTile(x, p, i, g, n) ==
  x.parents[p] = i /\ \A m \in 1 .. n : x.columns[m][p] = g[m]

SameTile(x, p, q, n) ==
  x.parents[p] = x.parents[q] /\ \A m \in 1 .. n : x.columns[m][p] = x.columns[m][q]

ParentsInOrder(x) ==
  \A p, q \in 1 .. Len(x.parents) : p < q => x.parents[p] <= x.parents[q]

TilesOnGrids(x, array, windows, n) ==
  \A p \in 1 .. Len(x.parents) : \A m \in 1 .. n :
     x.columns[m][p] \in AxisGrid(array, windows[m], x.parents[p])

TilesOnce(x, n) ==
  \A p, q \in 1 .. Len(x.parents) : SameTile(x, p, q, n) => p = q

TilesAll(x, array, windows, n) ==
  \A i \in Present(array) : \A g :
     OnGrids(g, array, windows, i, n) => \E p \in 1 .. Len(x.parents) : IsTile(x, p, i, g, n)

(* Over n axes: every combination of the windows of a row, each once, rows *)
(* in order.                                                               *)
IsProduct(x, array, windows, n) ==
  /\ InStep(x, array, n)
  /\ ParentsInOrder(x) /\ TilesOnGrids(x, array, windows, n)
  /\ TilesOnce(x, n) /\ TilesAll(x, array, windows, n)

Places(x, i) == {p \in 1 .. Len(x.parents) : x.parents[p] = i}

(* How the next axis is made. *)
StepOf(next, prev, a, counts, array, axis, n) ==
  /\ InStep(prev, array, n) /\ InStep(next, array, n + 1)
  /\ IsCounted(counts, array, axis, prev)
  /\ Addressing(a, counts, Len(prev.parents))
  /\ Spelled(next, prev, a, array, axis, n)
  /\ \A i \in Present(array) : Tiling(axis.window, Extent(array, axis.dim, i))

(* Every axis is made so. *)
LEMMA NextIsAStep ==
  ASSUME NEW array, NEW N \in Nat, IsArray(array, N),
         NEW axis, IsWindow(axis.window), HasExtents(array, axis.dim),
         NEW n \in Nat, NEW prev, InStep(prev, array, n)
  PROVE  \E a, counts : StepOf(NextAxis(array, axis, prev), prev, a, counts, array, axis, n)
<1>1. PICK counts : counts = AxisCounts(array, axis, prev)
  OBVIOUS
<1>2. PICK a : a = Address(counts)
  OBVIOUS
<1>3. /\ IsCounted(counts, array, axis, prev)
      /\ Spelled(NextAxis(array, axis, prev), prev, a, array, axis, n)
  BY <1>1, <1>2, NextAddressed
<1>4. InStep(NextAxis(array, axis, prev), array, n + 1)
  BY NextInStep
<1>5. PICK L \in Nat : L = Len(prev.parents)
  BY DEF InStep
<1>6. Addressing(a, counts, L)
  <2>1. IsColumn(counts, L) /\ \A p \in 1 .. L : counts[p] \in Nat
    BY <1>3, <1>5 DEF IsCounted
  <2> QED BY <1>2, <2>1, AddressIsAddressing
<1>7. \A i \in Present(array) : Tiling(axis.window, Extent(array, axis.dim, i))
  BY ExtentIsTyped, WindowsAreTheGrid
<1>8. StepOf(NextAxis(array, axis, prev), prev, a, counts, array, axis, n)
  BY <1>3, <1>4, <1>5, <1>6, <1>7 DEF StepOf
<1> QED BY <1>8

(* The P-th window of a step is cut from the p-th so far, as the k-th of   *)
(* its extent.                                                             *)
CutFrom(next, prev, P, p, k, array, axis, n) ==
  /\ next.parents[P] = prev.parents[p] /\ next.parents[P] \in Present(array)
  /\ \A m \in 1 .. n : next.columns[m][P] = prev.columns[m][p]
  /\ k \in 1 .. Count(axis.window, Extent(array, axis.dim, next.parents[P]))
  /\ next.columns[n+1][P] = Interval(axis.window, Extent(array, axis.dim, next.parents[P]), k)

StepReads(next, prev, a, array, axis, n, L, M) ==
  /\ L \in Nat /\ M \in Nat /\ Len(prev.parents) = L /\ Len(next.parents) = M
  /\ \A P \in 1 .. M : /\ a[P] = <<a[P][1], a[P][2]>> /\ a[P][1] \in 1 .. L
                       /\ CutFrom(next, prev, P, a[P][1], a[P][2], array, axis, n)
  /\ \A P, Q \in 1 .. M : P < Q => a[P][1] <= a[Q][1]
  /\ \A P, Q \in 1 .. M : a[P] = a[Q] => P = Q
  /\ \A p \in 1 .. L :
       /\ prev.parents[p] \in Present(array)
       /\ \A k \in 1 .. Count(axis.window, Extent(array, axis.dim, prev.parents[p])) :
            \E P \in 1 .. M : a[P] = <<p, k>>

(* Where the windows of a step come from. *)
LEMMA StepIsRead ==
  ASSUME NEW array, NEW axis, NEW n \in Nat, NEW prev, NEW next, NEW a, NEW counts,
         StepOf(next, prev, a, counts, array, axis, n)
  PROVE  \E L, M : StepReads(next, prev, a, array, axis, n, L, M)
<1>1. PICK L \in Nat : L = Len(prev.parents)
  BY DEF StepOf, InStep
<1>2. \A p \in 1 .. L : prev.parents[p] \in Present(array)
  BY <1>1 DEF StepOf, InStep
<1>3. PICK M \in Nat : M = Len(a)
  BY DEF StepOf, Addressing
<1>4. /\ next.parents = [P \in 1 .. M |-> prev.parents[a[P][1]]]
      /\ \A m \in 1 .. n : next.columns[m] = [P \in 1 .. M |-> prev.columns[m][a[P][1]]]
      /\ next.columns[n+1] =
           [P \in 1 .. M |->
              Interval(axis.window, Extent(array, axis.dim, prev.parents[a[P][1]]), a[P][2])]
  BY <1>3 DEF StepOf, Spelled
<1>5. \A P \in 1 .. M : /\ a[P] = <<a[P][1], a[P][2]>>
                        /\ a[P][1] \in 1 .. L /\ a[P][2] \in 1 .. counts[a[P][1]]
  BY <1>1, <1>3 DEF StepOf, Addressing
<1>6. \A p \in 1 .. L : counts[p] = Count(axis.window, Extent(array, axis.dim, prev.parents[p]))
  BY <1>1 DEF StepOf, IsCounted
<1>7. \A p \in 1 .. L : \A k \in 1 .. counts[p] : \E P \in 1 .. M : a[P] = <<p, k>>
  BY <1>1, <1>3 DEF StepOf, Addressing
<1>8. Len(next.parents) = M
  <2>1. next.parents \in Seq(Present(array))
    BY DEF StepOf, InStep
  <2>2. PICK s \in Seq(Present(array)) : s = next.parents
    BY <2>1
  <2>3. DOMAIN s = 1 .. M
    BY <1>4, <2>2
  <2> QED BY <2>2, <2>3
<1>9. ASSUME NEW P \in 1 .. M
      PROVE  CutFrom(next, prev, P, a[P][1], a[P][2], array, axis, n)
  <2>1. PICK p \in 1 .. L : p = a[P][1]
    BY <1>5
  <2>2. next.parents[P] = prev.parents[p]
    BY <1>4, <2>1
  <2>3. ASSUME NEW m \in 1 .. n PROVE next.columns[m][P] = prev.columns[m][p]
    <3>1. PICK column : column = next.columns[m]
      OBVIOUS
    <3>2. column = [Q \in 1 .. M |-> prev.columns[m][a[Q][1]]]
      BY <1>4, <3>1, Zenon
    <3>3. column[P] = prev.columns[m][a[P][1]]
      BY <3>2
    <3> QED BY <2>1, <3>1, <3>3
  <2>4. next.columns[n+1][P] =
          Interval(axis.window, Extent(array, axis.dim, prev.parents[p]), a[P][2])
    <3>1. PICK last : last = next.columns[n+1]
      OBVIOUS
    <3>2. last = [Q \in 1 .. M |->
                   Interval(axis.window, Extent(array, axis.dim, prev.parents[a[Q][1]]), a[Q][2])]
      BY <1>4, <3>1, Zenon
    <3>3. last[P] = Interval(axis.window, Extent(array, axis.dim, prev.parents[a[P][1]]), a[P][2])
      BY <3>2
    <3> QED BY <2>1, <3>1, <3>3
  <2>5. a[P][2] \in 1 .. Count(axis.window, Extent(array, axis.dim, prev.parents[p]))
    BY <1>5, <1>6, <2>1
  <2>6. prev.parents[p] \in Present(array)
    BY <1>2
  <2> QED BY <2>1, <2>2, <2>3, <2>4, <2>5, <2>6, Zenon DEF CutFrom
<1>10. \A p \in 1 .. L : \A k \in 1 .. Count(axis.window, Extent(array, axis.dim, prev.parents[p])) :
         \E P \in 1 .. M : a[P] = <<p, k>>
  BY <1>6, <1>7
<1>11. /\ \A P, Q \in 1 .. M : P < Q => a[P][1] <= a[Q][1]
       /\ \A P, Q \in 1 .. M : a[P] = a[Q] => P = Q
  BY <1>3 DEF StepOf, Addressing
<1>12. StepReads(next, prev, a, array, axis, n, L, M)
  BY <1>1, <1>2, <1>5, <1>8, <1>9, <1>10, <1>11, Zenon DEF StepReads
<1> QED BY <1>12

(* A step makes of a product the product with one axis more. *)
LEMMA StepKeepsProduct ==
  ASSUME NEW array, Present(array) \subseteq Nat, NEW windows, NEW n \in Nat,
         NEW axis, axis = windows[n+1], NEW prev, NEW next, NEW a, NEW counts,
         StepOf(next, prev, a, counts, array, axis, n), IsProduct(prev, array, windows, n)
  PROVE  IsProduct(next, array, windows, n + 1)
<1>1. PICK L, M : StepReads(next, prev, a, array, axis, n, L, M)
  BY StepIsRead
<1>2. L \in Nat /\ M \in Nat /\ Len(prev.parents) = L /\ Len(next.parents) = M
  BY <1>1 DEF StepReads
<1>3. \A P \in 1 .. M : /\ a[P] = <<a[P][1], a[P][2]>> /\ a[P][1] \in 1 .. L
                        /\ CutFrom(next, prev, P, a[P][1], a[P][2], array, axis, n)
  BY <1>1 DEF StepReads
<1>4. \A p \in 1 .. L : prev.parents[p] \in Present(array)
  BY <1>1 DEF StepReads
<1>5. \A i \in Present(array) : Tiling(axis.window, Extent(array, axis.dim, i))
  BY DEF StepOf
<1>6. InStep(next, array, n + 1)
  BY DEF StepOf
<1>7. ParentsInOrder(next)
  <2> SUFFICES ASSUME NEW P \in 1 .. M, NEW Q \in 1 .. M, P < Q
               PROVE  next.parents[P] <= next.parents[Q]
    BY <1>2 DEF ParentsInOrder
  <2>1. PICK p \in 1 .. L : p = a[P][1]
    BY <1>3
  <2>2. PICK q \in 1 .. L : q = a[Q][1]
    BY <1>3
  <2>3. p <= q
    BY <1>1, <2>1, <2>2 DEF StepReads
  <2>4. next.parents[P] = prev.parents[p] /\ next.parents[Q] = prev.parents[q]
    BY <1>3, <2>1, <2>2 DEF CutFrom
  <2>5. prev.parents[p] \in Nat /\ (p < q => prev.parents[p] <= prev.parents[q])
    BY <1>2, <1>4 DEF IsProduct, ParentsInOrder
  <2>6. CASE p = q
    BY <2>4, <2>5, <2>6
  <2>7. CASE p < q
    BY <2>4, <2>5, <2>7
  <2> QED BY <2>3, <2>6, <2>7
<1>8. TilesOnGrids(next, array, windows, n + 1)
  <2> SUFFICES ASSUME NEW P \in 1 .. M, NEW m \in 1 .. n + 1
               PROVE  next.columns[m][P] \in AxisGrid(array, windows[m], next.parents[P])
    BY <1>2 DEF TilesOnGrids
  <2>1. PICK p \in 1 .. L : p = a[P][1]
    BY <1>3
  <2>2. PICK k : k = a[P][2]
    OBVIOUS
  <2>3. CutFrom(next, prev, P, p, k, array, axis, n)
    BY <1>3, <2>1, <2>2
  <2>4. CASE m \in 1 .. n
    <3>1. prev.columns[m][p] \in AxisGrid(array, windows[m], prev.parents[p])
      BY <1>2, <2>4 DEF IsProduct, TilesOnGrids
    <3> QED BY <2>3, <2>4, <3>1 DEF CutFrom
  <2>5. CASE m = n + 1
    <3>1. PICK e : e = Extent(array, axis.dim, next.parents[P])
      OBVIOUS
    <3>2. k \in 1 .. Count(axis.window, e) /\ next.columns[m][P] = Interval(axis.window, e, k)
      BY <2>3, <2>5, <3>1 DEF CutFrom
    <3>3. Tiling(axis.window, e)
      BY <1>5, <2>3, <3>1 DEF CutFrom
    <3>4. Interval(axis.window, e, k) \in GridOf(axis.window, e)
      BY <3>2, <3>3 DEF Tiling
    <3> QED BY <2>5, <3>1, <3>2, <3>4 DEF AxisGrid
  <2> QED BY <2>4, <2>5
<1>9. TilesOnce(next, n + 1)
  <2> SUFFICES ASSUME NEW P \in 1 .. M, NEW Q \in 1 .. M, SameTile(next, P, Q, n + 1)
               PROVE  P = Q
    BY <1>2 DEF TilesOnce
  <2>1. PICK p \in 1 .. L : p = a[P][1]
    BY <1>3
  <2>2. PICK q \in 1 .. L : q = a[Q][1]
    BY <1>3
  <2>3. PICK j : j = a[P][2]
    OBVIOUS
  <2>4. PICK k : k = a[Q][2]
    OBVIOUS
  <2>5. CutFrom(next, prev, P, p, j, array, axis, n) /\ CutFrom(next, prev, Q, q, k, array, axis, n)
    BY <1>3, <2>1, <2>2, <2>3, <2>4
  <2>6. p = q
    <3>1. \A m \in 1 .. n : m \in 1 .. n + 1
      OBVIOUS
    <3>2. prev.parents[p] = prev.parents[q]
      BY <2>5 DEF CutFrom, SameTile
    <3>3. \A m \in 1 .. n : prev.columns[m][p] = prev.columns[m][q]
      BY <2>5, <3>1 DEF CutFrom, SameTile
    <3>4. SameTile(prev, p, q, n)
      BY <3>2, <3>3 DEF SameTile
    <3> QED BY <1>2, <3>4 DEF IsProduct, TilesOnce
  <2>7. j = k
    <3>1. PICK e : e = Extent(array, axis.dim, next.parents[P])
      OBVIOUS
    <3>2. e = Extent(array, axis.dim, next.parents[Q])
      BY <3>1 DEF SameTile
    <3>3. /\ j \in 1 .. Count(axis.window, e) /\ k \in 1 .. Count(axis.window, e)
          /\ next.columns[n+1][P] = Interval(axis.window, e, j)
          /\ next.columns[n+1][Q] = Interval(axis.window, e, k)
      BY <2>5, <3>1, <3>2 DEF CutFrom
    <3>4. n + 1 \in 1 .. n + 1
      OBVIOUS
    <3>5. Interval(axis.window, e, j) = Interval(axis.window, e, k)
      BY <3>3, <3>4 DEF SameTile
    <3>6. Tiling(axis.window, e)
      BY <1>5, <2>5, <3>1 DEF CutFrom
    <3> QED BY <3>3, <3>5, <3>6 DEF Tiling
  <2>8. a[P] = a[Q]
    BY <1>3, <2>1, <2>2, <2>3, <2>4, <2>6, <2>7
  <2> QED BY <1>1, <2>8 DEF StepReads
<1>10. TilesAll(next, array, windows, n + 1)
  <2> SUFFICES ASSUME NEW i \in Present(array), NEW g, OnGrids(g, array, windows, i, n + 1)
               PROVE  \E P \in 1 .. M : IsTile(next, P, i, g, n + 1)
    BY <1>2 DEF TilesAll
  <2>0. n + 1 \in 1 .. n + 1 /\ \A m \in 1 .. n : m \in 1 .. n + 1
    OBVIOUS
  <2>1. OnGrids(g, array, windows, i, n)
    BY <2>0 DEF OnGrids
  <2>2. PICK p \in 1 .. L : IsTile(prev, p, i, g, n)
    BY <1>2, <2>1 DEF IsProduct, TilesAll
  <2>3. PICK e : e = Extent(array, axis.dim, i)
    OBVIOUS
  <2>4. g[n+1] \in GridOf(axis.window, e)
    BY <2>0, <2>3 DEF OnGrids, AxisGrid
  <2>5. PICK k \in 1 .. Count(axis.window, e) : g[n+1] = Interval(axis.window, e, k)
    BY <1>5, <2>3, <2>4 DEF Tiling
  <2>6. prev.parents[p] = i
    BY <2>2 DEF IsTile
  <2>7. PICK P \in 1 .. M : a[P] = <<p, k>>
    BY <1>1, <2>3, <2>5, <2>6 DEF StepReads
  <2>8. CutFrom(next, prev, P, p, k, array, axis, n)
    BY <1>3, <2>7
  <2>9. next.parents[P] = i
    BY <2>6, <2>8 DEF CutFrom
  <2>10. next.columns[n+1][P] = g[n+1]
    BY <2>3, <2>5, <2>8, <2>9 DEF CutFrom
  <2>11. ASSUME NEW m \in 1 .. n + 1 PROVE next.columns[m][P] = g[m]
    <3>1. CASE m \in 1 .. n
      BY <2>2, <2>8, <3>1 DEF CutFrom, IsTile
    <3>2. CASE m = n + 1
      BY <2>10, <3>2
    <3> QED BY <3>1, <3>2
  <2> QED BY <2>9, <2>11 DEF IsTile
<1> QED BY <1>6, <1>7, <1>8, <1>9, <1>10 DEF IsProduct

(* A set named apart by f is as large as what f names. *)
LEMMA AsManyNamed ==
  ASSUME NEW S, IsFiniteSet(S), NEW f, \A x, y \in S : f[x] = f[y] => x = y
  PROVE  IsFiniteSet({f[x] : x \in S}) /\ Cardinality({f[x] : x \in S}) = Cardinality(S)
<1> DEFINE T == {f[x] : x \in S}
           h == [x \in S |-> f[x]]
<1>1. h \in Bijection(S, T)
  BY DEF Bijection, Injection, Surjection, IsInjective
<1>2. ExistsBijection(S, T)
  BY <1>1 DEF ExistsBijection
<1> QED BY <1>2, FS_Bijection

(* The windows of a row are finitely many. *)
LEMMA PlacesAreFinite ==
  ASSUME NEW x, NEW L \in Nat, Len(x.parents) = L, NEW i
  PROVE  IsFiniteSet(Places(x, i)) /\ Cardinality(Places(x, i)) \in Nat
<1>1. IsFiniteSet(1 .. L) /\ Places(x, i) \subseteq 1 .. L
  BY FS_Interval DEF Places
<1> QED BY <1>1, FS_Subset, FS_CardinalityType

(* A grid has as many windows as are counted. *)
LEMMA GridCounts ==
  ASSUME NEW w, NEW e, Tiling(w, e)
  PROVE  IsFiniteSet(GridOf(w, e)) /\ Cardinality(GridOf(w, e)) = Count(w, e)
<1>1. PICK C \in Nat : C = Count(w, e)
  BY DEF Tiling
<1>2. PICK f : f = [k \in 1 .. C |-> Interval(w, e, k)]
  OBVIOUS
<1>3. IsFiniteSet(1 .. C) /\ Cardinality(1 .. C) = C
  BY FS_Interval
<1>4. \A j, k \in 1 .. C : f[j] = f[k] => j = k
  BY <1>1, <1>2 DEF Tiling
<1>5. GridOf(w, e) = {f[k] : k \in 1 .. C}
  BY <1>1, <1>2 DEF Tiling
<1> QED BY <1>1, <1>3, <1>4, <1>5, AsManyNamed

(* A step multiplies the windows of a row by those of the axis. *)
LEMMA StepMultiplies ==
  ASSUME NEW array, NEW n \in Nat, NEW axis, NEW prev, NEW next, NEW a, NEW counts,
         StepOf(next, prev, a, counts, array, axis, n), NEW i \in Present(array)
  PROVE  Cardinality(Places(next, i)) = Cardinality(Places(prev, i)) * Cardinality(AxisGrid(array, axis, i))
<1>1. PICK L, M : StepReads(next, prev, a, array, axis, n, L, M)
  BY StepIsRead
<1>2. L \in Nat /\ M \in Nat /\ Len(prev.parents) = L /\ Len(next.parents) = M
  BY <1>1 DEF StepReads
<1>3. \A P \in 1 .. M : /\ a[P] = <<a[P][1], a[P][2]>> /\ a[P][1] \in 1 .. L
                        /\ CutFrom(next, prev, P, a[P][1], a[P][2], array, axis, n)
  BY <1>1 DEF StepReads
<1>4. PICK e : e = Extent(array, axis.dim, i)
  OBVIOUS
<1>5. Tiling(axis.window, e)
  BY <1>4 DEF StepOf
<1>6. PICK C \in Nat : C = Count(axis.window, e)
  BY <1>5 DEF Tiling
<1>7. Cardinality(AxisGrid(array, axis, i)) = C
  BY <1>4, <1>5, <1>6, GridCounts DEF AxisGrid
<1>8. PICK S : S = Places(next, i)
  OBVIOUS
<1>9. PICK T : T = Places(prev, i)
  OBVIOUS
<1>10. IsFiniteSet(S) /\ IsFiniteSet(T)
  BY <1>2, <1>8, <1>9, PlacesAreFinite
<1>11. \A P : P \in S <=> P \in 1 .. M /\ next.parents[P] = i
  BY <1>2, <1>8 DEF Places
<1>12. \A p : p \in T <=> p \in 1 .. L /\ prev.parents[p] = i
  BY <1>2, <1>9 DEF Places
<1>13. ASSUME NEW P \in S PROVE a[P] \in T \X (1 .. C)
  <2>1. P \in 1 .. M /\ next.parents[P] = i
    BY <1>11
  <2>2. PICK p \in 1 .. L : p = a[P][1]
    BY <1>3, <2>1
  <2>3. PICK k : k = a[P][2]
    OBVIOUS
  <2>4. CutFrom(next, prev, P, p, k, array, axis, n) /\ a[P] = <<p, k>>
    BY <1>3, <2>1, <2>2, <2>3
  <2>5. p \in T /\ k \in 1 .. C
    BY <1>4, <1>6, <1>12, <2>1, <2>4 DEF CutFrom
  <2> QED BY <2>4, <2>5
<1>14. ASSUME NEW x \in T \X (1 .. C) PROVE \E P \in S : a[P] = x
  <2>1. PICK p \in T, k \in 1 .. C : x = <<p, k>>
    OBVIOUS
  <2>2. p \in 1 .. L /\ prev.parents[p] = i
    BY <1>12
  <2>3. PICK P \in 1 .. M : a[P] = <<p, k>>
    BY <1>1, <1>4, <1>6, <2>2 DEF StepReads
  <2>4. CutFrom(next, prev, P, p, k, array, axis, n)
    BY <1>3, <2>3
  <2>5. next.parents[P] = i
    BY <2>2, <2>4 DEF CutFrom
  <2> QED BY <1>11, <2>1, <2>3, <2>5
<1>15. {a[P] : P \in S} = T \X (1 .. C)
  BY <1>13, <1>14
<1>16. \A P, Q \in S : a[P] = a[Q] => P = Q
  BY <1>1, <1>11 DEF StepReads
<1>17. Cardinality({a[P] : P \in S}) = Cardinality(S)
  BY <1>10, <1>16, AsManyNamed
<1>18. IsFiniteSet(1 .. C) /\ Cardinality(1 .. C) = C
  BY FS_Interval
<1>19. Cardinality(T \X (1 .. C)) = Cardinality(T) * Cardinality(1 .. C)
  BY <1>10, <1>18, FS_Product
<1>20. Cardinality(S) = Cardinality(T) * C
  BY <1>15, <1>17, <1>18, <1>19, Zenon
<1> QED BY <1>7, <1>8, <1>9, <1>20

(* Over no axis: the rows that are there, each once, in order. *)
LEMMA StartIsProduct ==
  ASSUME NEW array, NEW N \in Nat, DOMAIN array.base = 1 .. N, NEW windows
  PROVE  /\ IsProduct(AxisStart(array), array, windows, 0)
         /\ \A i \in Present(array) : Cardinality(Places(AxisStart(array), i)) = 1
<1>1. PICK x : x = AxisStart(array)
  OBVIOUS
<1>2. InStep(x, array, 0)
  BY <1>1, StartInStep
<1>3. PICK s : s = [i \in DOMAIN array.base |-> i]
  OBVIOUS
<1>4. s \in Seq(Nat) /\ Len(s) = N /\ \A i \in 1 .. N : s[i] = i
  BY <1>3
<1>5. PICK P : P = Present(array)
  OBVIOUS
<1>6. x.parents = Chosen(s, P)
  BY <1>1, <1>3, <1>5 DEF AxisStart
<1>7. Picks(Chosen(s, P), s, P, N)
  BY <1>4, ChosenPicks
<1>8. PICK k : Enumerates(k, P, N) /\ Chosen(s, P) = [b \in 1 .. Len(k) |-> s[k[b]]]
  BY <1>7 DEF Picks
<1>9. PICK K \in Nat : K = Len(k)
  BY <1>8 DEF Enumerates
<1>10. /\ \A b \in 1 .. K : k[b] \in 1 .. N
       /\ \A b, c \in 1 .. K : b < c => k[b] < k[c]
       /\ \A i \in 1 .. N : i \in P <=> \E b \in 1 .. K : k[b] = i
  BY <1>8, <1>9 DEF Enumerates
<1>11. x.parents = [b \in 1 .. K |-> s[k[b]]]
  BY <1>6, <1>8, <1>9
<1>12. Len(x.parents) = K /\ \A b \in 1 .. K : x.parents[b] = k[b]
  <2>1. PICK r : r = x.parents
    OBVIOUS
  <2>2. r \in Seq(P)
    BY <1>2, <1>5, <2>1 DEF InStep
  <2>3. DOMAIN r = 1 .. K /\ \A b \in 1 .. K : r[b] = k[b]
    BY <1>4, <1>10, <1>11, <2>1
  <2> QED BY <2>1, <2>2, <2>3
<1>13. ParentsInOrder(x)
  BY <1>10, <1>12 DEF ParentsInOrder
<1>14. TilesOnGrids(x, array, windows, 0)
  BY DEF TilesOnGrids
<1>15. \A b, c \in 1 .. K : x.parents[b] = x.parents[c] => b = c
  BY <1>10, <1>12
<1>16. TilesOnce(x, 0)
  BY <1>12, <1>15 DEF TilesOnce, SameTile
<1>17. ASSUME NEW i \in P PROVE \E b \in 1 .. K : x.parents[b] = i
  <2>1. i \in 1 .. N
    BY <1>5 DEF Present
  <2> QED BY <1>10, <1>12, <2>1
<1>18. TilesAll(x, array, windows, 0)
  <2> SUFFICES ASSUME NEW i \in P, NEW g PROVE \E b \in 1 .. K : IsTile(x, b, i, g, 0)
    BY <1>5, <1>12 DEF TilesAll
  <2> QED BY <1>17 DEF IsTile
<1>19. ASSUME NEW i \in P PROVE Cardinality(Places(x, i)) = 1
  <2>1. PICK b \in 1 .. K : x.parents[b] = i
    BY <1>17
  <2>2. Places(x, i) = {b}
    BY <1>12, <1>15, <2>1 DEF Places
  <2> QED BY <2>2, FS_Singleton
<1> QED BY <1>1, <1>2, <1>5, <1>13, <1>14, <1>16, <1>18, <1>19 DEF IsProduct

(* c multiplies up the windows of the i-th row, axis by axis. *)
Multiplies(c, array, windows, i, N) ==
  c[0] = 1 /\ \A m \in 1 .. N : c[m] = c[m-1] * Cardinality(AxisGrid(array, windows[m], i))

(* Expanded cuts each row into the product of its windows. *)
LEMMA ExpandedIsProduct ==
  ASSUME NEW array, NEW N \in Nat, IsArray(array, N),
         NEW windows, windows \in Seq(ToSet(windows)), CanExplode(array, windows),
         \A n \in DOMAIN windows : IsWindow(windows[n].window)
  PROVE  /\ IsProduct(Expanded(array, windows), array, windows, Len(windows))
         /\ \A i \in Present(array) : \A c : Multiplies(c, array, windows, i, Len(windows)) =>
              Cardinality(Places(Expanded(array, windows), i)) = c[Len(windows)]
<1>1. PICK K \in Nat : K = Len(windows) /\ DOMAIN windows = 1 .. K
  OBVIOUS
<1>2. PICK f : /\ f[0] = AxisStart(array)
               /\ \A n \in 1 .. K : f[n] = NextAxis(array, windows[n], f[n-1])
               /\ Expanded(array, windows) = f[K]
  BY <1>1, ExpandedEquation
<1>3. DOMAIN array.base = 1 .. N /\ Present(array) \subseteq Nat
  BY DEF IsArray, Present
<1>4. ASSUME NEW n \in 1 .. K, IsProduct(f[n-1], array, windows, n - 1)
      PROVE  /\ IsProduct(f[n], array, windows, n)
             /\ \A i \in Present(array) : Cardinality(Places(f[n], i)) =
                  Cardinality(Places(f[n-1], i)) * Cardinality(AxisGrid(array, windows[n], i))
  <2>1. PICK j \in Nat : j = n - 1 /\ j + 1 = n
    <3>1. n - 1 \in Nat /\ (n - 1) + 1 = n
      OBVIOUS
    <3> QED BY <3>1
  <2>2. PICK prev : prev = f[j]
    OBVIOUS
  <2>3. PICK axis : axis = windows[n]
    OBVIOUS
  <2>4. PICK next : next = f[n]
    OBVIOUS
  <2>5. next = NextAxis(array, axis, prev)
    BY <1>2, <2>1, <2>2, <2>3, <2>4
  <2>6. IsWindow(axis.window) /\ HasExtents(array, axis.dim)
    BY <1>1, <2>3 DEF CanExplode
  <2>7. IsProduct(prev, array, windows, j) /\ InStep(prev, array, j)
    BY <1>4, <2>1, <2>2 DEF IsProduct
  <2>8. PICK a, counts : StepOf(next, prev, a, counts, array, axis, j)
    BY <2>5, <2>6, <2>7, NextIsAStep
  <2>9. IsProduct(next, array, windows, j + 1)
    BY <1>3, <2>1, <2>3, <2>7, <2>8, StepKeepsProduct
  <2>10. \A i \in Present(array) :
           Cardinality(Places(next, i)) = Cardinality(Places(prev, i)) * Cardinality(AxisGrid(array, axis, i))
    BY <2>8, StepMultiplies
  <2> QED BY <2>1, <2>2, <2>3, <2>4, <2>9, <2>10
<1> DEFINE T == {n \in 0 .. K : IsProduct(f[n], array, windows, n)}
<1>5. 0 \in T
  BY <1>2, <1>3, StartIsProduct
<1>6. ASSUME NEW n \in 1 .. K, n - 1 \in T PROVE n \in T
  BY <1>4, <1>6
<1> HIDE DEF T
<1>7. \A n \in 0 .. K : n \in T
  BY <1>5, <1>6, SegmentInduction, Zenon
<1>8. \A n \in 0 .. K : IsProduct(f[n], array, windows, n)
  BY <1>7 DEF T
<1>9. ASSUME NEW i \in Present(array), NEW c, Multiplies(c, array, windows, i, K)
      PROVE  Cardinality(Places(f[K], i)) = c[K]
  <2> DEFINE U == {n \in 0 .. K : Cardinality(Places(f[n], i)) = c[n]}
  <2>1. 0 \in U
    <3>1. c[0] = 1
      BY <1>9 DEF Multiplies
    <3>2. \A j \in Present(array) : Cardinality(Places(AxisStart(array), j)) = 1
      BY <1>3, StartIsProduct
    <3>3. Cardinality(Places(f[0], i)) = 1
      BY <1>2, <3>2
    <3> QED BY <3>1, <3>3
  <2>2. ASSUME NEW n \in 1 .. K, n - 1 \in U PROVE n \in U
    <3>1. n - 1 \in 0 .. K /\ Cardinality(Places(f[n-1], i)) = c[n-1]
      BY <2>2
    <3>2. Cardinality(Places(f[n], i)) =
            Cardinality(Places(f[n-1], i)) * Cardinality(AxisGrid(array, windows[n], i))
      BY <1>4, <1>8, <3>1
    <3>3. c[n] = c[n-1] * Cardinality(AxisGrid(array, windows[n], i))
      BY <1>9 DEF Multiplies
    <3> QED BY <3>1, <3>2, <3>3
  <2> HIDE DEF U
  <2>3. \A n \in 0 .. K : n \in U
    BY <2>1, <2>2, SegmentInduction, Zenon
  <2> QED BY <2>3 DEF U
<1>10. IsProduct(f[K], array, windows, K)
  BY <1>8
<1> QED BY <1>1, <1>2, <1>9, <1>10

-----------------------------------------------------------------------------
(* What a row of an exploded array reads                                   *)

(* The last selector column of a dimension, among the first n.             *)
LastOf(array, l, d, n) ==
  /\ l \in 1 .. n /\ array.layers[l].dim = d
  /\ \A m \in 1 .. n : array.layers[m].dim = d => m <= l

(* What the base slice and the first n columns spell in the i-th row.      *)
Spells(s, array, i, n) ==
  /\ DOMAIN s = DOMAIN array.base[i] \cup {array.layers[l].dim : l \in 1 .. n}
  /\ \A d, l : LastOf(array, l, d, n) => s[d] = array.layers[l].column[i]
  /\ \A d \in DOMAIN array.base[i] :
       (\A l \in 1 .. n : array.layers[l].dim # d) => s[d] = array.base[i][d]

(* One more column is spelled over the others. *)
LEMMA OneMoreSpelled ==
  ASSUME NEW array, NEW i, NEW n \in Nat, n > 0, NEW s, Spells(s, array, i, n - 1)
  PROVE  Spells(OverlayOne(array, i, n, s), array, i, n)
<1> DEFINE dim == array.layers[n].dim
           e == array.layers[n].column[i]
<1>1. PICK t : t = OverlayOne(array, i, n, s)
  OBVIOUS
<1>2. DOMAIN t = DOMAIN s \cup {dim} /\ \A d \in DOMAIN t : t[d] = IF d = dim THEN e ELSE s[d]
  BY <1>1 DEF OverlayOne, Overlaid
<1>3. n - 1 \in Nat /\ 1 .. n = (1 .. (n - 1)) \cup {n} /\ n \notin 1 .. (n - 1)
  OBVIOUS
<1>4. DOMAIN t = DOMAIN array.base[i] \cup {array.layers[l].dim : l \in 1 .. n}
  <2>1. DOMAIN s = DOMAIN array.base[i] \cup {array.layers[l].dim : l \in 1 .. (n - 1)}
    BY DEF Spells
  <2>2. {array.layers[l].dim : l \in 1 .. n} = {array.layers[l].dim : l \in 1 .. (n - 1)} \cup {dim}
    BY <1>3
  <2> QED BY <1>2, <2>1, <2>2
<1>5. ASSUME NEW d, NEW l, LastOf(array, l, d, n) PROVE t[d] = array.layers[l].column[i]
  <2>1. d \in DOMAIN t
    BY <1>4, <1>5 DEF LastOf
  <2>2. CASE d = dim
    <3>1. l = n
      BY <1>3, <1>5, <2>2 DEF LastOf
    <3> QED BY <1>2, <2>1, <2>2, <3>1
  <2>3. CASE d # dim
    <3>1. l # n /\ LastOf(array, l, d, n - 1)
      BY <1>3, <1>5, <2>3 DEF LastOf
    <3>2. s[d] = array.layers[l].column[i]
      BY <3>1 DEF Spells
    <3> QED BY <1>2, <2>1, <2>3, <3>2
  <2> QED BY <2>2, <2>3
<1>6. ASSUME NEW d \in DOMAIN array.base[i], \A l \in 1 .. n : array.layers[l].dim # d
      PROVE  t[d] = array.base[i][d]
  <2>1. d # dim /\ d \in DOMAIN t /\ \A l \in 1 .. (n - 1) : array.layers[l].dim # d
    BY <1>3, <1>4, <1>6
  <2>2. s[d] = array.base[i][d]
    BY <2>1 DEF Spells
  <2> QED BY <1>2, <2>1, <2>2
<1>7. Spells(t, array, i, n)
  BY <1>4, <1>5, <1>6 DEF Spells
<1> QED BY <1>1, <1>7

(* ScalarAt spells all columns. *)
LEMMA ScalarSpells ==
  ASSUME NEW array, NEW i, NEW K \in Nat, Len(array.layers) = K, array.base[i] # Null
  PROVE  Spells(ScalarAt(array, i), array, i, K)
<1>1. PICK f : /\ f[0] = array.base[i]
               /\ \A l \in 1 .. K : f[l] = OverlayOne(array, i, l, f[l-1])
               /\ ScalarAt(array, i) = IF array.base[i] = Null THEN Null ELSE f[K]
  <2>1. \E f : /\ f[0] = array.base[i]
               /\ \A l \in 1 .. Len(array.layers) : f[l] = OverlayOne(array, i, l, f[l-1])
               /\ ScalarAt(array, i) = IF array.base[i] = Null THEN Null ELSE f[Len(array.layers)]
    BY ScalarEquation, Zenon
  <2> QED BY <2>1
<1> DEFINE T == {n \in 0 .. K : Spells(f[n], array, i, n)}
<1>2. 0 \in T
  <2>1. Spells(array.base[i], array, i, 0)
    BY DEF Spells, LastOf
  <2> QED BY <1>1, <2>1
<1>3. ASSUME NEW n \in 1 .. K, n - 1 \in T PROVE n \in T
  <2>1. n \in Nat /\ n > 0 /\ Spells(f[n-1], array, i, n - 1)
    BY <1>3
  <2>2. Spells(OverlayOne(array, i, n, f[n-1]), array, i, n)
    BY <2>1, OneMoreSpelled
  <2> QED BY <1>1, <2>2
<1> HIDE DEF T
<1>4. \A n \in 0 .. K : n \in T
  BY <1>2, <1>3, SegmentInduction, Zenon
<1>5. Spells(f[K], array, i, K)
  BY <1>4 DEF T
<1> QED BY <1>1, <1>5

(* A dimension that has any selector column has a last one. *)
LEMMA LastIsThere ==
  ASSUME NEW array, NEW K \in Nat, NEW d, \E l \in 1 .. K : array.layers[l].dim = d
  PROVE  \E l : LastOf(array, l, d, K)
<1> DEFINE T == {l \in 1 .. K : array.layers[l].dim = d}
<1>1. T \in SUBSET (0 .. K) /\ T # {}
  OBVIOUS
<1>2. PICK l \in T : \A m \in T : m <= l
  <2> HIDE DEF T
  <2> QED BY <1>1, GreatestNatural
<1> QED BY <1>2 DEF LastOf

(* The bounds of a cut dimension are those of the row's own slice. *)
LEMMA BoundsAreExtent ==
  ASSUME NEW array, NEW N \in Nat, IsArray(array, N), NEW i \in Present(array),
         NEW d, HasExtents(array, d)
  PROVE  Bounds(array, d, i) = Extent(array, d, i) /\ d \in DOMAIN ScalarAt(array, i)
<1>1. PICK K \in Nat : K = Len(array.layers) /\ DOMAIN array.layers = 1 .. K
  BY DEF IsArray
<1>2. PICK s : s = ScalarAt(array, i) /\ Spells(s, array, i, K)
  BY <1>1, ScalarSpells DEF Present
<1>3. CASE LayersOf(array, d) = {}
  <2>1. d \in DOMAIN array.base[i] /\ \A l \in 1 .. K : array.layers[l].dim # d
    BY <1>1, <1>3 DEF HasExtents, LayersOf
  <2>2. s[d] = array.base[i][d] /\ d \in DOMAIN s
    BY <1>2, <2>1 DEF Spells
  <2> QED BY <1>2, <1>3, <2>2 DEF Bounds, Extent
<1>4. CASE LayersOf(array, d) # {}
  <2>1. PICK l : LastOf(array, l, d, K)
    BY <1>1, <1>4, LastIsThere DEF LayersOf
  <2>2. \A m \in LayersOf(array, d) : (\A k \in LayersOf(array, d) : k <= m) <=> m = l
    BY <1>1, <2>1 DEF LastOf, LayersOf
  <2>3. l \in LayersOf(array, d) /\ l \in 1 .. K
    BY <1>1, <2>1 DEF LastOf, LayersOf
  <2>4. (CHOOSE m \in LayersOf(array, d) : \A k \in LayersOf(array, d) : k <= m) = l
    BY <2>2, <2>3
  <2>5. Extent(array, d, i) = array.layers[l].column[i]
    BY <1>4, <2>4 DEF Extent
  <2>6. s[d] = array.layers[l].column[i] /\ d \in DOMAIN s
    BY <1>2, <2>1 DEF Spells, LastOf
  <2>7. array.layers[l].column[i] \in Int \X Int
    BY <1>1, <2>3 DEF IsArray, Layer, Extents
  <2>8. s[d][1] # Null
    BY <2>6, <2>7, SlicePlansAssumption
  <2> QED BY <1>2, <2>5, <2>6, <2>8 DEF Bounds
<1> QED BY <1>3, <1>4

(* Distinct axes. *)
Distinct(windows) == \A m, n \in DOMAIN windows : windows[m].dim = windows[n].dim => m = n

(* Over its row's own slice, a tile reads its bounds on every axis. *)
ReadsTiles(t, s, windows, columns, p) ==
  /\ DOMAIN t = DOMAIN s \cup {windows[n].dim : n \in DOMAIN windows}
  /\ \A n \in DOMAIN windows : t[windows[n].dim] = columns[n][p]
  /\ \A d \in DOMAIN s : (\A n \in DOMAIN windows : windows[n].dim # d) => t[d] = s[d]

(* B columns of the row's own, and over them the tiles. *)
LEMMA TilesAreLast ==
  ASSUME NEW base, NEW slices, NEW windows, NEW columns, NEW p,
         NEW B \in Nat, NEW J \in Nat,
         Len(base.layers) = B, Len(slices.layers) = B + J, DOMAIN windows = 1 .. J,
         slices.base = base.base, base.base[p] # Null,
         \A l \in 1 .. B : slices.layers[l] = base.layers[l],
         \A l \in B + 1 .. B + J :
            slices.layers[l] = [dim |-> windows[l-B].dim, column |-> columns[l-B]],
         Distinct(windows)
  PROVE  ReadsTiles(ScalarAt(slices, p), ScalarAt(base, p), windows, columns, p)
<1>1. PICK t, s : t = ScalarAt(slices, p) /\ s = ScalarAt(base, p)
  OBVIOUS
<1>2. Spells(t, slices, p, B + J)
  <2>1. B + J \in Nat
    OBVIOUS
  <2> QED BY <1>1, <2>1, ScalarSpells
<1>3. Spells(s, base, p, B)
  BY <1>1, ScalarSpells
<1>4. /\ \A n \in 1 .. J : B + n \in B + 1 .. B + J /\ (B + n) - B = n
      /\ \A l \in 1 .. B + J : l \in 1 .. B \/ (l - B \in 1 .. J /\ l = B + (l - B))
      /\ \A l \in 1 .. B : l \in 1 .. B + J
      /\ B + 1 .. B + J \subseteq 1 .. B + J
  OBVIOUS
<1>5. \A n \in 1 .. J : /\ slices.layers[B+n].dim = windows[n].dim
                        /\ slices.layers[B+n].column = columns[n]
  <2> TAKE n \in 1 .. J
  <2>1. slices.layers[B+n] = [dim |-> windows[(B+n)-B].dim, column |-> columns[(B+n)-B]]
    BY <1>4
  <2>2. slices.layers[B+n] = [dim |-> windows[n].dim, column |-> columns[n]]
    BY <1>4, <2>1
  <2> QED BY <2>2
<1>6. {slices.layers[l].dim : l \in 1 .. B + J} =
        {base.layers[l].dim : l \in 1 .. B} \cup {windows[n].dim : n \in DOMAIN windows}
  <2>1. ASSUME NEW l \in 1 .. B + J
        PROVE  slices.layers[l].dim \in
                 {base.layers[k].dim : k \in 1 .. B} \cup {windows[n].dim : n \in DOMAIN windows}
    <3>1. CASE l \in 1 .. B
      BY <3>1
    <3>2. CASE l - B \in 1 .. J /\ l = B + (l - B)
      <4>1. PICK n \in 1 .. J : l = B + n
        BY <3>2
      <4>2. slices.layers[l].dim = windows[n].dim
        BY <1>5, <4>1
      <4> QED BY <4>1, <4>2
    <3> QED BY <1>4, <3>1, <3>2
  <2>2. ASSUME NEW l \in 1 .. B
        PROVE  base.layers[l].dim \in {slices.layers[k].dim : k \in 1 .. B + J}
    BY <1>4
  <2>3. ASSUME NEW n \in 1 .. J
        PROVE  windows[n].dim \in {slices.layers[k].dim : k \in 1 .. B + J}
    BY <1>4, <1>5
  <2> QED BY <2>1, <2>2, <2>3
<1>7. DOMAIN t = DOMAIN s \cup {windows[n].dim : n \in DOMAIN windows}
  BY <1>2, <1>3, <1>6 DEF Spells
<1>8. ASSUME NEW n \in DOMAIN windows PROVE t[windows[n].dim] = columns[n][p]
  <2>1. B + n \in 1 .. B + J /\ slices.layers[B+n].dim = windows[n].dim
    BY <1>4, <1>5
  <2>2. ASSUME NEW m \in 1 .. B + J, slices.layers[m].dim = windows[n].dim PROVE m <= B + n
    <3>1. CASE m \in 1 .. B
      BY <3>1
    <3>2. CASE m - B \in 1 .. J /\ m = B + (m - B)
      <4>1. windows[m-B].dim = windows[n].dim
        BY <1>5, <2>2, <3>2
      <4>2. m - B = n
        BY <3>2, <4>1 DEF Distinct
      <4> QED BY <3>2, <4>2
    <3> QED BY <1>4, <3>1, <3>2
  <2>3. LastOf(slices, B + n, windows[n].dim, B + J)
    BY <2>1, <2>2 DEF LastOf
  <2>4. t[windows[n].dim] = slices.layers[B+n].column[p]
    BY <1>2, <2>3 DEF Spells
  <2> QED BY <1>5, <2>4
<1>9. ASSUME NEW d \in DOMAIN s, \A n \in DOMAIN windows : windows[n].dim # d
      PROVE  t[d] = s[d]
  <2>1. ASSUME NEW m \in 1 .. B + J, slices.layers[m].dim = d
        PROVE  m \in 1 .. B /\ base.layers[m].dim = d
    <3>1. CASE m \in 1 .. B
      BY <2>1, <3>1
    <3>2. CASE m - B \in 1 .. J /\ m = B + (m - B)
      BY <1>5, <1>9, <2>1, <3>2
    <3> QED BY <1>4, <3>1, <3>2
  <2>2. CASE \A l \in 1 .. B : base.layers[l].dim # d
    <3>1. d \in DOMAIN base.base[p]
      BY <1>3, <2>2 DEF Spells
    <3>2. s[d] = base.base[p][d]
      BY <1>3, <2>2, <3>1 DEF Spells
    <3>3. \A m \in 1 .. B + J : slices.layers[m].dim # d
      BY <2>1, <2>2
    <3>4. t[d] = slices.base[p][d]
      BY <1>2, <3>1, <3>3 DEF Spells
    <3> QED BY <3>2, <3>4
  <2>3. CASE \E l \in 1 .. B : base.layers[l].dim = d
    <3>1. PICK l : LastOf(base, l, d, B)
      BY <2>3, LastIsThere
    <3>2. LastOf(slices, l, d, B + J)
      BY <1>4, <2>1, <3>1 DEF LastOf
    <3>3. s[d] = base.layers[l].column[p] /\ t[d] = slices.layers[l].column[p]
      BY <1>2, <1>3, <3>1, <3>2 DEF Spells
    <3>4. l \in 1 .. B
      BY <3>1 DEF LastOf
    <3> QED BY <3>3, <3>4
  <2> QED BY <2>2, <2>3
<1>10. ReadsTiles(t, s, windows, columns, p)
  BY <1>7, <1>8, <1>9 DEF ReadsTiles
<1> QED BY <1>1, <1>10

(* An exploded row is a tile of the row it is cut from. *)
LEMMA ExplodedReads ==
  ASSUME NEW array, NEW N \in Nat, IsArray(array, N),
         NEW windows, windows \in Seq(ToSet(windows)), CanExplode(array, windows),
         \A n \in DOMAIN windows : IsWindow(windows[n].window), Distinct(windows),
         NEW p \in 1 .. Len(Expanded(array, windows).parents)
  PROVE  ReadsTiles(ScalarAt(ExplodeWindows(array, windows).slices, p),
                    ScalarAt(array, Expanded(array, windows).parents[p]),
                    windows, Expanded(array, windows).columns, p)
<1>1. PICK x : x = Expanded(array, windows)
  OBVIOUS
<1>2. PICK base : base = Take(array, x.parents)
  OBVIOUS
<1>3. PICK slices : slices = ExplodeWindows(array, windows).slices
  OBVIOUS
<1>4. x.parents \in Seq(1 .. N) /\ IsLayered(slices, base, x.columns, windows)
  BY <1>1, <1>2, <1>3, ExplodedLayers
<1>5. PICK B \in Nat : B = Len(base.layers)
  BY <1>4 DEF IsLayered
<1>6. PICK J \in Nat : J = Len(windows) /\ DOMAIN windows = 1 .. J
  BY <1>4 DEF IsLayered
<1>7. p \in DOMAIN x.parents /\ x.parents[p] \in Present(array)
  <2>1. x.parents \in Seq(Present(array))
    BY <1>1, ExpandedIsInStep DEF InStep
  <2> QED BY <1>1, <1>4, <2>1
<1>8. p \in Present(base) /\ ScalarAt(base, p) = ScalarAt(array, x.parents[p])
  BY <1>2, <1>4, <1>7, TakeIsTyped, ScalarTaken
<1>9. base.base[p] # Null /\ slices.base = base.base
  BY <1>4, <1>8 DEF Present, IsLayered
<1>10. PICK columns : columns = x.columns
  OBVIOUS
<1>11. /\ Len(slices.layers) = B + J
       /\ \A l \in 1 .. B : slices.layers[l] = base.layers[l]
       /\ \A l \in B + 1 .. B + J :
            slices.layers[l] = [dim |-> windows[l-B].dim, column |-> columns[l-B]]
  BY <1>4, <1>5, <1>6, <1>10 DEF IsLayered
<1>12. ReadsTiles(ScalarAt(slices, p), ScalarAt(base, p), windows, columns, p)
  BY <1>5, <1>6, <1>9, <1>11, TilesAreLast
<1> QED BY <1>1, <1>3, <1>8, <1>10, <1>12

-----------------------------------------------------------------------------
(* Expansion, as the property states it                                     *)

GridAt(arr, windows, i, n) ==
  LET e == Bounds(arr, windows[n].dim, i) IN Grid(windows[n].window, e[1], e[2])

CountAt(arr, windows, i) ==
  LET product[n \in 0 .. Len(windows)] ==
        IF n = 0 THEN 1 ELSE product[n-1] * Cardinality(GridAt(arr, windows, i, n)) IN
  product[Len(windows)]

IsTileOf(arr, windows, i, t) ==
  LET cut == {windows[n].dim : n \in DOMAIN windows}
      windowOf(d) == windows[CHOOSE n \in DOMAIN windows : windows[n].dim = d].window IN
  /\ DOMAIN t = DOMAIN ScalarAt(arr, i)
  /\ \A d \in DOMAIN t :
       IF d \in cut
       THEN LET e == Bounds(arr, d, i) IN t[d] \in Grid(windowOf(d), e[1], e[2])
       ELSE t[d] = ScalarAt(arr, i)[d]

(* CountAt multiplies up the windows of the axes. *)
LEMMA CountMultiplies ==
  ASSUME NEW array, NEW windows, NEW i, NEW K \in Nat, Len(windows) = K,
         \A n \in 1 .. K : GridAt(array, windows, i, n) = AxisGrid(array, windows[n], i)
  PROVE  \E c : Multiplies(c, array, windows, i, K) /\ CountAt(array, windows, i) = c[K]
<1> DEFINE by(n) == Cardinality(GridAt(array, windows, i, n))
           eqn(n, g) == g = [k \in 0 .. n |-> IF k = 0 THEN 1 ELSE g[k-1] * by(k)]
           T == {n \in 0 .. K : \E g : eqn(n, g)}
<1>1. \E g : eqn(0, g)
  <2> WITNESS [k \in 0 .. 0 |-> 1]
  <2> QED OBVIOUS
<1>2. ASSUME NEW n \in 1 .. K, NEW g, eqn(n - 1, g)
      PROVE  \E h : eqn(n, h)
  <2> HIDE DEF by
  <2> DEFINE h == [k \in 0 .. n |-> IF k = n THEN g[n-1] * by(n) ELSE g[k]]
  <2> SUFFICES eqn(n, h)
    OBVIOUS
  <2>1. ASSUME NEW k \in 0 .. n
        PROVE  h[k] = IF k = 0 THEN 1 ELSE h[k-1] * by(k)
    <3>1. CASE k = n
      BY <3>1
    <3>2. CASE k # n
      BY <3>2, <1>2
    <3> QED BY <3>1, <3>2
  <2> QED BY <2>1
<1>3. \E g : eqn(K, g)
  <2> HIDE DEF eqn
  <2>1. 0 \in T /\ \A n \in 1 .. K : n - 1 \in T => n \in T
    BY <1>1, <1>2
  <2> HIDE DEF T
  <2>2. \A n \in 0 .. K : n \in T
    BY <2>1, SegmentInduction, Zenon
  <2> QED BY <2>2 DEF T
<1> DEFINE c == CHOOSE g : eqn(K, g)
<1>4. eqn(K, c)
  <2> HIDE DEF eqn
  <2> QED BY <1>3
<1>5. CountAt(array, windows, i) = c[K]
  BY DEF CountAt
<1> HIDE DEF c, by
<1>6. c[0] = 1 /\ \A n \in 1 .. K : c[n] = c[n-1] * by(n)
  BY <1>4, SMTT(40)
<1>7. Multiplies(c, array, windows, i, K)
  BY <1>6 DEF Multiplies, by
<1> QED BY <1>5, <1>7

(* A tile of a row, axis by axis. *)
LEMMA ReadIsTile ==
  ASSUME NEW array, NEW N \in Nat, IsArray(array, N), NEW i \in Present(array),
         NEW windows, Distinct(windows),
         \A n \in DOMAIN windows : HasExtents(array, windows[n].dim),
         NEW columns, NEW p, NEW t,
         ReadsTiles(t, ScalarAt(array, i), windows, columns, p),
         \A n \in DOMAIN windows : columns[n][p] \in AxisGrid(array, windows[n], i)
  PROVE  IsTileOf(array, windows, i, t)
<1> DEFINE cut == {windows[n].dim : n \in DOMAIN windows}
           windowOf(d) == windows[CHOOSE n \in DOMAIN windows : windows[n].dim = d].window
<1>1. PICK s : s = ScalarAt(array, i)
  OBVIOUS
<1>2. \A n \in DOMAIN windows : /\ windows[n].dim \in DOMAIN s
                                /\ Bounds(array, windows[n].dim, i) = Extent(array, windows[n].dim, i)
  BY <1>1, BoundsAreExtent
<1>3. DOMAIN t = DOMAIN s
  BY <1>1, <1>2 DEF ReadsTiles
<1>4. ASSUME NEW d \in DOMAIN t, d \in cut
      PROVE  t[d] \in Grid(windowOf(d), Bounds(array, d, i)[1], Bounds(array, d, i)[2])
  <2>1. PICK n \in DOMAIN windows : windows[n].dim = d
    BY <1>4
  <2>2. (CHOOSE m \in DOMAIN windows : windows[m].dim = d) = n
    BY <2>1 DEF Distinct
  <2>3. windowOf(d) = windows[n].window
    BY <2>2
  <2> HIDE DEF windowOf
  <2>4. t[d] \in AxisGrid(array, windows[n], i)
    BY <1>1, <2>1 DEF ReadsTiles
  <2>5. Bounds(array, d, i) = Extent(array, windows[n].dim, i)
    BY <1>2, <2>1
  <2> QED BY <2>3, <2>4, <2>5 DEF AxisGrid, GridOf
<1>5. ASSUME NEW d \in DOMAIN t, d \notin cut PROVE t[d] = s[d]
  BY <1>1, <1>3, <1>5 DEF ReadsTiles
<1> HIDE DEF cut, windowOf
<1>6. /\ DOMAIN t = DOMAIN s
      /\ \A d \in DOMAIN t :
           IF d \in cut
           THEN t[d] \in Grid(windowOf(d), Bounds(array, d, i)[1], Bounds(array, d, i)[2])
           ELSE t[d] = s[d]
  BY <1>3, <1>4, <1>5
<1> QED BY <1>1, <1>6 DEF IsTileOf, cut, windowOf

(* Expanding gives the product, tile by tile. *)
ProductOf(arr, windows, x, tiles) ==
  /\ \A p, q \in DOMAIN tiles : p < q => x.parents[p] <= x.parents[q]
  /\ \A p \in DOMAIN tiles : IsTileOf(arr, windows, x.parents[p], tiles[p])
  /\ \A i \in Present(arr) :
       /\ Cardinality({p \in DOMAIN tiles : x.parents[p] = i}) = CountAt(arr, windows, i)
       /\ Cardinality({tiles[p] : p \in {q \in DOMAIN tiles : x.parents[q] = i}})
            = CountAt(arr, windows, i)

LEMMA ExplodedIsProduct ==
  ASSUME NEW array, NEW N \in Nat, IsArray(array, N),
         NEW windows, windows \in Seq(ToSet(windows)), CanExplode(array, windows),
         \A n \in DOMAIN windows : IsWindow(windows[n].window), Distinct(windows)
  PROVE  ProductOf(array, windows, ExplodeWindows(array, windows),
                   Scalars(ExplodeWindows(array, windows).slices))
<1>1. PICK e : e = Expanded(array, windows)
  OBVIOUS
<1>2. PICK x : x = ExplodeWindows(array, windows)
  OBVIOUS
<1>3. PICK tiles : tiles = Scalars(x.slices)
  OBVIOUS
<1>4. PICK K \in Nat : K = Len(windows) /\ DOMAIN windows = 1 .. K
  OBVIOUS
<1>5. PICK M \in Nat : M = Len(e.parents) /\ e.parents \in Seq(1 .. N)
  BY <1>1, ExplodedLayers
<1>6. x.parents = e.parents /\ IsArray(x.slices, M)
  <2>1. x.parents = e.parents
    BY <1>1, <1>2, ExplodedLayers
  <2>2. IsArray(x.slices, Len(x.parents))
    BY <1>2, ExplodedIsTyped
  <2> QED BY <1>5, <2>1, <2>2
<1>7. DOMAIN tiles = 1 .. M /\ \A p \in 1 .. M : tiles[p] = ScalarAt(x.slices, p)
  BY <1>3, <1>6 DEF Scalars, IsArray
<1>8. IsProduct(e, array, windows, K)
  BY <1>1, <1>4, ExpandedIsProduct
<1>9. \A i \in Present(array) : \A c :
        Multiplies(c, array, windows, i, K) => Cardinality(Places(e, i)) = c[K]
  BY <1>1, <1>4, ExpandedIsProduct
<1>10. \A p \in 1 .. M : e.parents[p] \in Present(array)
  BY <1>5, <1>8 DEF IsProduct, InStep
<1>11. \A p \in 1 .. M :
         ReadsTiles(tiles[p], ScalarAt(array, e.parents[p]), windows, e.columns, p)
  BY <1>1, <1>2, <1>5, <1>7, ExplodedReads
<1>12. \A n \in DOMAIN windows : HasExtents(array, windows[n].dim)
  BY DEF CanExplode
<1>13. \A p, q \in 1 .. M : p < q => e.parents[p] <= e.parents[q]
  BY <1>5, <1>8 DEF IsProduct, ParentsInOrder
<1>14. ASSUME NEW p \in 1 .. M PROVE IsTileOf(array, windows, e.parents[p], tiles[p])
  <2>1. PICK i \in Present(array) : i = e.parents[p]
    BY <1>10
  <2>2. PICK columns : columns = e.columns
    OBVIOUS
  <2>3. ReadsTiles(tiles[p], ScalarAt(array, i), windows, columns, p)
    BY <1>11, <2>1, <2>2
  <2>4. \A n \in DOMAIN windows : columns[n][p] \in AxisGrid(array, windows[n], i)
    BY <1>4, <1>5, <1>8, <2>1, <2>2 DEF IsProduct, TilesOnGrids
  <2>5. IsTileOf(array, windows, i, tiles[p])
    BY <1>12, <2>3, <2>4, ReadIsTile
  <2> QED BY <2>1, <2>5
<1>15. ASSUME NEW i \in Present(array)
       PROVE  /\ Cardinality(Places(e, i)) = CountAt(array, windows, i)
              /\ Cardinality({tiles[p] : p \in Places(e, i)}) = CountAt(array, windows, i)
  <2>1. \A n \in 1 .. K : GridAt(array, windows, i, n) = AxisGrid(array, windows[n], i)
    <3> TAKE n \in 1 .. K
    <3>1. Bounds(array, windows[n].dim, i) = Extent(array, windows[n].dim, i)
      BY <1>4, <1>12, BoundsAreExtent
    <3> QED BY <3>1 DEF GridAt, AxisGrid, GridOf
  <2>2. PICK c : Multiplies(c, array, windows, i, K) /\ CountAt(array, windows, i) = c[K]
    BY <1>4, <2>1, CountMultiplies
  <2>3. Cardinality(Places(e, i)) = CountAt(array, windows, i)
    BY <1>9, <2>2
  <2>4. IsFiniteSet(Places(e, i)) /\ Places(e, i) \subseteq 1 .. M
    BY <1>5, PlacesAreFinite DEF Places
  <2>5. ASSUME NEW p \in Places(e, i), NEW q \in Places(e, i), tiles[p] = tiles[q]
        PROVE  p = q
    <3>1. p \in 1 .. M /\ q \in 1 .. M /\ e.parents[p] = e.parents[q]
      BY <2>4, <2>5 DEF Places
    <3>2. \A n \in DOMAIN windows : e.columns[n][p] = e.columns[n][q]
      BY <1>11, <2>5, <3>1 DEF ReadsTiles
    <3>3. SameTile(e, p, q, K)
      BY <1>4, <3>1, <3>2 DEF SameTile
    <3> QED BY <1>5, <1>8, <3>1, <3>3 DEF IsProduct, TilesOnce
  <2>6. Cardinality({tiles[p] : p \in Places(e, i)}) = Cardinality(Places(e, i))
    BY <2>4, <2>5, AsManyNamed
  <2> QED BY <2>3, <2>6
<1>16. \A i : Places(e, i) = {p \in DOMAIN tiles : x.parents[p] = i}
  BY <1>5, <1>6, <1>7 DEF Places
<1>17. ProductOf(array, windows, x, tiles)
  BY <1>6, <1>7, <1>13, <1>14, <1>15, <1>16 DEF ProductOf
<1> QED BY <1>2, <1>3, <1>17

(* Expanding over any number of axes, one after another, on columns that   *)
(* may be windows of windows, gives each parent exactly the product of its *)
(* own windows, each once, parents in order; the other dimensions stay as  *)
(* they were, and a missing slice has no tiles.                            *)
THEOREM ExpansionCutsTheProduct ==
  Spec => []ExpansionIsTheProduct
<1>1. PlanInv => ExpansionIsTheProduct
  <2> SUFFICES ASSUME PlanInv PROVE ExpansionIsTheProduct
    OBVIOUS
  <2>1. ASSUME NEW s \in Sides, NEW windows \in WindowSets, CanExplode(side[s].arr, windows)
        PROVE  ProductOf(side[s].arr, windows, ExplodeWindows(side[s].arr, windows),
                         Scalars(ExplodeWindows(side[s].arr, windows).slices))
    <3>1. PICK d : d = side[s]
      OBVIOUS
    <3>2. IsDataset(d, 1 .. minted)
      BY <3>1 DEF PlanInv, SidesInStep
    <3>3. PICK N \in Nat : N = Len(d.lbl)
      BY <3>2 DEF IsDataset
    <3>4. PICK array : array = d.arr /\ IsArray(array, N)
      BY <3>2, <3>3 DEF IsDataset
    <3>5. /\ windows \in Seq(ToSet(windows)) /\ \A n \in DOMAIN windows : IsWindow(windows[n].window)
          /\ Distinct(windows)
      BY SlicePlansAssumption DEF Distinct
    <3>6. CanExplode(array, windows)
      BY <2>1, <3>1, <3>4
    <3>7. ProductOf(array, windows, ExplodeWindows(array, windows),
                    Scalars(ExplodeWindows(array, windows).slices))
      BY <3>4, <3>5, <3>6, ExplodedIsProduct
    <3> QED BY <3>1, <3>4, <3>7
  <2> QED BY <2>1, Zenon DEF ExpansionIsTheProduct, ProductOf, IsTileOf, CountAt, GridAt
<1> QED BY <1>1, PlanInvariant, PTL
=============================================================================
