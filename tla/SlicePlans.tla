------------------------------ MODULE SlicePlans ------------------------------
(***************************************************************************)
(* Two datasets of sliced rows, cut into windows, filtered, and matched.   *)
(*                                                                         *)
(* window_expansion_plan with explode turns each slice into tiles;         *)
(* dimension_join narrows a correspondence plan by one term; match threads *)
(* a chain of terms; join with DimensionJoin pairs rows in one pass;       *)
(* offload cuts a dataset into chunks.  A correspondence holds labels, and *)
(* is handed back as `candidates` after its sides may have been filtered   *)
(* or cut into windows.                                                    *)
(*                                                                         *)
(* The pairwise truth of a term belongs to the caller's MatchPredicate,    *)
(* which src/ only calls: `Holds` and `Correspond` are its contract.       *)
(***************************************************************************)
EXTENDS Integers, Sequences, SequencesExt, FiniteSets, FiniteSetsExt, RowChoice

CONSTANTS
    Null,       \* the missing slice, the absent start, the absent plan
    Start,      \* the two datasets at first: side -> sequence of [key, slice]
    Dims,       \* the dimensions of their slices, a sequence
    WindowSets, \* what window_expansion_plan is called with: sequences of
                \* [dim, window], a dimension at most once in each
    Terms,      \* the terms matched by, [kind, dim, pad]; "equals" compares keys
    ChunkSizes, \* the chunk_size offload is called with
    MaxRows,    \* bound: rows of one dataset
    MaxDrops,   \* bound: rows filtered out
    MaxMinted   \* bound: index identities minted

(* Positions on the axes are indices, or whole seconds: integers.          *)
Exact(x) == x

INSTANCE Windows WITH Rounded <- Exact

(* A stop is always there, a start need not be.                            *)
IsSlice(slice) ==
    slice # Null => \A d \in DOMAIN slice : slice[d] \in (Int \cup {Null}) \X Int

IsWindow(w) ==
    ValidWindow(w) /\ w \in [size : Int, stride : Int, offset : Int, partial : BOOLEAN]

ASSUME SlicePlansAssumption ==
    /\ Null \notin Int
    /\ DOMAIN Start = {"left", "right"}
    /\ \A s \in DOMAIN Start : /\ Start[s] \in Seq(ToSet(Start[s]))
                              /\ \A i \in DOMAIN Start[s] : IsSlice(Start[s][i].slice)
    /\ Dims \in Seq(ToSet(Dims))
    /\ \A ws \in WindowSets :
        /\ ws \in Seq(ToSet(ws)) /\ \A n \in DOMAIN ws : IsWindow(ws[n].window)
        /\ \A m, n \in DOMAIN ws : ws[m].dim = ws[n].dim => m = n
    /\ IsFiniteSet(Terms) /\ \A t \in Terms : t.kind \in {"equals", "overlap"}
    /\ ChunkSizes \subseteq (Nat \ {0}) \cup {Null}
    /\ MaxRows \in Nat /\ MaxDrops \in Nat /\ MaxMinted \in Nat \ {0, 1}

VARIABLES side,   \* the two datasets: [id, lbl, key, arr, sliced], three columns;
                  \* not sliced: arr stands for start and stop columns
          plan,   \* the correspondence so far: [left, right, pairs, terms] or Null
          drops,  \* how many rows have been filtered out
          minted  \* how many index identities have been minted

vars == <<side, plan, drops, minted>>

Sides == {"left", "right"}

Rows(d) == DOMAIN d.lbl
LabelsOf(d) == ToSet(d.lbl)
SliceOf(d, i) == ScalarAt(d.arr, i)

(* Index.get_indexer, over unique labels. *)
PositionOf(d, label) == CHOOSE i \in Rows(d) : d.lbl[i] = label

-----------------------------------------------------------------------------
(* Cutting into windows.                                                   *)

(* window_expansion_plan over the slice field, or over bindings where      *)
(* there is none, followed by explode: the                                 *)
(* plan names the parents by label, its slice column overlays theirs.      *)
Tiled_ParentLabels(d, windows, fresh) ==
    LET x == ExplodeWindows(d.arr, windows)
        parent(p) == PositionOf(d, d.lbl[x.parents[p]]) IN
    [id |-> fresh, arr |-> x.slices, sliced |-> TRUE,
     lbl |-> [p \in DOMAIN x.parents |-> d.lbl[x.parents[p]]],
     key |-> [p \in DOMAIN x.parents |-> d.key[parent(p)]]]
Tiled(d, windows, fresh) ==
    LET x == ExplodeWindows(d.arr, windows)
        parent(p) == PositionOf(d, d.lbl[x.parents[p]]) IN
    [id |-> fresh, arr |-> x.slices, sliced |-> TRUE,
     lbl |-> [p \in DOMAIN x.parents |-> p - 1],
     key |-> [p \in DOMAIN x.parents |-> d.key[parent(p)]]]

Subset(d, positions) ==
    [d EXCEPT !.arr = Take(@, positions),
              !.lbl = [p \in DOMAIN positions |-> @[positions[p]]],
              !.key = [p \in DOMAIN positions |-> @[positions[p]]]]

-----------------------------------------------------------------------------
(* Matching.                                                               *)

OverlapIn_Closed(p, q, pad) == p[1] - pad <= q[2] /\ q[1] <= p[2] + pad
OverlapIn(p, q, pad) == p[1] - pad < q[2] /\ q[1] < p[2] + pad

Holds(t, l, r, i, j) ==
    IF t.kind = "equals" THEN l.key[i] = r.key[j]
    ELSE OverlapIn(SliceOf(l, i)[t.dim], SliceOf(r, j)[t.dim], t.pad)

(* MatchPredicate.correspond: position pairs, left rows major, out of the  *)
(* candidates when there are any.                                          *)
Correspond(t, l, r, candidates) ==
    Chosen(candidates, {n \in DOMAIN candidates :
                            Holds(t, l, r, candidates[n][1], candidates[n][2])})

AllPairs(l, r) == FlattenSeq([i \in Rows(l) |-> [j \in Rows(r) |-> <<i, j>>]])

(* _resolve_operand: a slice operand needs the dimension in every row.     *)
Resolves(t, d) ==
    t.kind = "overlap" =>
        \A i \in Rows(d) : /\ SliceOf(d, i) # Null
                           /\ t.dim \in DOMAIN SliceOf(d, i)
                           /\ SliceOf(d, i)[t.dim][1] # Null

(* _plan_to_positions accepts the candidates.                              *)
References_LabelsOnly(c, l, r) ==
    \A n \in DOMAIN c.pairs :
        c.pairs[n][1] \in LabelsOf(l) /\ c.pairs[n][2] \in LabelsOf(r)
References(c, l, r) ==
    /\ c.left = l.id /\ c.right = r.id
    /\ \A n \in DOMAIN c.pairs :
        c.pairs[n][1] \in LabelsOf(l) /\ c.pairs[n][2] \in LabelsOf(r)

Joins(t, l, r, c) ==
    Resolves(t, l) /\ Resolves(t, r) /\ (c # Null => References(c, l, r))

(* The rows found, by label, under the identities of the two sides.        *)
(* `terms` is history: what the pairs have been narrowed by.               *)
CorrespondencePlan(l, r, found, terms) ==
    [left |-> l.id, right |-> r.id, terms |-> terms,
     pairs |-> [n \in DOMAIN found |-> <<l.lbl[found[n][1]], r.lbl[found[n][2]]>>]]

DimensionJoin(t, l, r, c) ==
    LET positions ==
            IF c = Null THEN AllPairs(l, r)
            ELSE [n \in DOMAIN c.pairs |-> <<PositionOf(l, c.pairs[n][1]),
                                             PositionOf(r, c.pairs[n][2])>>]
    IN
    CorrespondencePlan(l, r, Correspond(t, l, r, positions),
                       {t} \cup IF c = Null THEN {} ELSE c.terms)

(* match: the equality terms, then the others, each over the last result.  *)
(* A dimension must be found in a slice of each side.                      *)
Staged(terms) ==
    LET equalities == {t \in terms : t.kind = "equals"} IN
    SetToSeq(equalities) \o SetToSeq(terms \ equalities)

Found(t, d) ==
    t.kind = "overlap" => d.sliced /\
        \E i \in Rows(d) : SliceOf(d, i) # Null /\ t.dim \in DOMAIN SliceOf(d, i)

Matches(terms, l, r) ==
    terms # {} /\ \A t \in terms : /\ Found(t, l) /\ Found(t, r)
                                   /\ Resolves(t, l) /\ Resolves(t, r)

Match(terms, l, r) ==
    LET order == Staged(terms)
        chain[n \in 0 .. Len(order)] ==
            IF n = 0 THEN Null ELSE DimensionJoin(order[n], l, r, chain[n-1]) IN
    chain[Len(order)]

-----------------------------------------------------------------------------
(* join(strategy=DimensionJoin(dimensions, on, how))                       *)

Bounded(interval) == interval[1] # Null /\ interval[1] < interval[2]

DimensionJoins(l, r, dims) ==
    /\ dims # {} /\ l.sliced /\ r.sliced
    /\ \A d \in {l, r} : \A i \in Rows(d) :
        /\ SliceOf(d, i) # Null
        /\ \A dim \in dims : dim \in DOMAIN SliceOf(d, i) /\ Bounded(SliceOf(d, i)[dim])

SlicesOverlap(s, t, dims) == \A dim \in dims : OverlapIn(s[dim], t[dim], 0)

(* Position pairs, zero for a missing partner.                             *)
JoinTable(l, r, dims, scoped, how) ==
    LET hit(i, j) == /\ scoped => l.key[i] = r.key[j]
                     /\ SlicesOverlap(SliceOf(l, i), SliceOf(r, j), dims)
        rightsOf(i) == Chosen([j \in Rows(r) |-> <<i, j>>], {j \in Rows(r) : hit(i, j)})
        leftsOf(j) == Chosen([i \in Rows(l) |-> <<i, j>>], {i \in Rows(l) : hit(i, j)})
        orElse(pairs, lone, kept) == IF pairs = <<>> /\ kept THEN <<lone>> ELSE pairs
        leftMajor == FlattenSeq([i \in Rows(l) |->
                        orElse(rightsOf(i), <<i, 0>>, how \in {"left", "outer"})])
        rightMajor == FlattenSeq([j \in Rows(r) |-> orElse(leftsOf(j), <<0, j>>, TRUE)])
        orphans == Chosen([j \in Rows(r) |-> <<0, j>>],
                          {j \in Rows(r) : leftsOf(j) = <<>>}) IN
    CASE how = "right" -> rightMajor
      [] how = "outer" -> leftMajor \o orphans
      [] OTHER -> leftMajor

-----------------------------------------------------------------------------
(* offload into a store, and flatten over the accessors it leaves.         *)

Offload(d, size) == ChunkRanges(Len(d.lbl), size)

(* MemoryDatasetSource.read_partial, which every cell read goes through.   *)
ReadPartial(d, range) ==
    Subset(d, [k \in 1 .. range[2] - range[1] |-> range[1] + k])

(* concat_rows of the chunks: they share the namespace of the dataset they *)
(* were cut from, which therefore stays.                                   *)
FlattenChunks(d, ranges) ==
    LET chunk == [c \in DOMAIN ranges |-> ReadPartial(d, ranges[c])] IN
    IF Len(ranges) = 1 THEN chunk[1]
    ELSE [d EXCEPT !.lbl = FlattenSeq([c \in DOMAIN chunk |-> chunk[c].lbl]),
                   !.key = FlattenSeq([c \in DOMAIN chunk |-> chunk[c].key]),
                   !.arr = ConcatSlices([c \in DOMAIN chunk |-> chunk[c].arr])]

-----------------------------------------------------------------------------
SlicesAt(s) == [i \in DOMAIN Start[s] |-> Start[s][i].slice]

(* A dataset comes with a slice field, or with DimensionFields that        *)
(* window_expansion_plan is to bind.                                       *)
Init ==
    /\ \E columnar \in SUBSET {s \in Sides : Bindable(Dims, SlicesAt(s))} :
        side = [s \in Sides |->
            [id |-> IF s = "left" THEN 1 ELSE 2,
             lbl |-> [i \in DOMAIN Start[s] |-> i - 1],
             key |-> [i \in DOMAIN Start[s] |-> Start[s][i].key],
             sliced |-> s \notin columnar,
             arr |-> IF s \in columnar THEN SliceArrayFromBindings(Dims, SlicesAt(s))
                     ELSE SliceArray(SlicesAt(s))]]
    /\ plan = Null
    /\ drops = 0
    /\ minted = 2

ExpandByWindows ==
    \E s \in Sides, windows \in WindowSets :
        /\ CanExplode(side[s].arr, windows)
        /\ minted < MaxMinted
        /\ Len(Expanded(side[s].arr, windows).parents) <= MaxRows
        /\ side' = [side EXCEPT ![s] = Tiled(@, windows, minted + 1)]
        /\ minted' = minted + 1
        /\ UNCHANGED <<plan, drops>>

(* where: some rows, in order.  One is dropped at a time.                  *)
FilterRows ==
    \E s \in Sides : \E i \in Rows(side[s]) :
        /\ drops < MaxDrops
        /\ drops' = drops + 1
        /\ side' = [side EXCEPT ![s] =
                        Subset(@, Chosen([p \in Rows(@) |-> p], Rows(@) \ {i}))]
        /\ UNCHANGED <<plan, minted>>

(* dimension_join, over the correspondence at hand if there is one.  (A    *)
(* chain started over reaches no state that starting it later does not.)   *)
JoinByTerm ==
    \E t \in Terms :
        /\ Joins(t, side["left"], side["right"], plan)
        /\ plan' = DimensionJoin(t, side["left"], side["right"], plan)
        /\ UNCHANGED <<side, drops, minted>>

MatchByTerms ==
    /\ plan = Null
    /\ \E terms \in SUBSET Terms :
        /\ Matches(terms, side["left"], side["right"])
        /\ plan' = Match(terms, side["left"], side["right"])
    /\ UNCHANGED <<side, drops, minted>>

Next == ExpandByWindows \/ FilterRows \/ JoinByTerm \/ MatchByTerms

Spec == Init /\ [][Next]_vars

-----------------------------------------------------------------------------
(* What must hold.                                                         *)

(* Type invariant: the columns of a dataset stay in step through windows   *)
(* over windows and row subsets, and labels stay unique.                   *)
TypeOK ==
    /\ minted \in 2 .. MaxMinted /\ drops \in 0 .. MaxDrops
    /\ \A s \in Sides : LET d == side[s] IN
        /\ d.id \in 1 .. minted /\ d.sliced \in BOOLEAN
        /\ Rows(d) = DOMAIN d.key /\ Rows(d) = DOMAIN d.arr.base
        /\ \A l \in DOMAIN d.arr.layers : DOMAIN d.arr.layers[l].column = Rows(d)
        /\ Cardinality(LabelsOf(d)) = Len(d.lbl)
    /\ plan # Null => plan.left \in 1 .. minted /\ plan.right \in 1 .. minted

(* The windows of an extent, as AxisWindow documents them: the regular     *)
(* grid of those that fit, and the first that does not, cut, if asked for. *)
Grid(w, lo, hi) ==
    LET starts == {lo + w.offset + k * w.stride : k \in 0 .. hi - (lo + w.offset)}
        fits == {x \in starts : x + w.size <= hi}
        late == {x \in starts : x < hi /\ x + w.size > hi} IN
    {<<x, x + w.size>> : x \in fits} \cup
    {<<x, hi>> : x \in {y \in late : w.partial /\ \A z \in late : y <= z}}

(* The bounds a row's own slice gives a dimension.                         *)
Bounds(arr, d, i) ==
    LET e == ScalarAt(arr, i)[d] IN IF e[1] = Null THEN <<0, e[2]>> ELSE e

(* Expanding over several axes, one axis after another, on columns that    *)
(* may already be windows of windows, gives each parent exactly the        *)
(* product of its own windows, each once, parents in order; dimensions no  *)
(* window cuts stay as they were, and a missing slice has no tiles.        *)
ExpansionIsTheProduct ==
    \A s \in Sides, windows \in WindowSets :
        CanExplode(side[s].arr, windows) =>
            LET arr == side[s].arr
                x == ExplodeWindows(arr, windows)
                tiles == Scalars(x.slices)
                cut == {windows[n].dim : n \in DOMAIN windows}
                windowOf(d) == windows[CHOOSE n \in DOMAIN windows : windows[n].dim = d].window
                isTile(i, t) ==
                    /\ DOMAIN t = DOMAIN ScalarAt(arr, i)
                    /\ \A d \in DOMAIN t :
                        IF d \in cut
                        THEN LET e == Bounds(arr, d, i) IN t[d] \in Grid(windowOf(d), e[1], e[2])
                        ELSE t[d] = ScalarAt(arr, i)[d]
                gridOf(i, n) == LET e == Bounds(arr, windows[n].dim, i) IN
                                Grid(windows[n].window, e[1], e[2])
                count(i) ==
                    LET product[n \in 0 .. Len(windows)] ==
                            IF n = 0 THEN 1 ELSE product[n-1] * Cardinality(gridOf(i, n)) IN
                    product[Len(windows)]
                made(i) == {p \in DOMAIN tiles : x.parents[p] = i} IN
            /\ \A p, q \in DOMAIN tiles : p < q => x.parents[p] <= x.parents[q]
            /\ \A p \in DOMAIN tiles : isTile(x.parents[p], tiles[p])
            /\ \A i \in Present(arr) :
                /\ Cardinality(made(i)) = count(i)
                /\ Cardinality({tiles[p] : p \in made(i)}) = count(i)

(* A correspondence relates exactly the rows that satisfy all its terms,   *)
(* left rows major, in whatever order the terms were joined and however    *)
(* the sides were filtered in between; once a side has been cut into       *)
(* windows its labels name other rows, and the plan is refused.            *)
PlanMeansItsTerms ==
    LET l == side["left"]
        r == side["right"] IN
    plan # Null /\ plan.left = l.id /\ plan.right = r.id =>
        LET pairs == plan.pairs
            all == AllPairs(l, r)
            there == Chosen(pairs, {n \in DOMAIN pairs : /\ pairs[n][1] \in LabelsOf(l)
                                                         /\ pairs[n][2] \in LabelsOf(r)}) IN
        [n \in DOMAIN there |-> <<PositionOf(l, there[n][1]), PositionOf(r, there[n][2])>>]
            = Chosen(all, {n \in DOMAIN all : \A t \in plan.terms :
                                                 Holds(t, l, r, all[n][1], all[n][2])})

(* join over dimensions pairs the rows whose slices overlap in every one   *)
(* of them within their scope; the inclusion rule adds each row without a  *)
(* partner exactly once, on its side only; rows come in the order of the   *)
(* left side, of the right one for a right join.                           *)
JoinIsTheRelation ==
    LET l == side["left"]
        r == side["right"]
        dims == {t.dim : t \in {u \in Terms : u.kind = "overlap"}} IN
    DimensionJoins(l, r, dims) =>
        \A scoped \in BOOLEAN, how \in {"inner", "left", "right", "outer"} :
            LET table == JoinTable(l, r, dims, scoped, how)
                hits == {p \in Rows(l) \X Rows(r) :
                            /\ scoped => l.key[p[1]] = r.key[p[2]]
                            /\ \A d \in dims : \E x \in SliceOf(l, p[1])[d][1] .. SliceOf(l, p[1])[d][2] - 1 :
                                  x \in SliceOf(r, p[2])[d][1] .. SliceOf(r, p[2])[d][2] - 1}
                lone == {<<i, 0>> : i \in {x \in Rows(l) : \A p \in hits : p[1] # x}}
                orphans == {<<0, j>> : j \in {x \in Rows(r) : \A p \in hits : p[2] # x}}
                major == IF how = "right" THEN 2 ELSE 1 IN
            /\ ToSet(table) = hits \cup (IF how \in {"left", "outer"} THEN lone ELSE {})
                                   \cup (IF how \in {"right", "outer"} THEN orphans ELSE {})
            /\ Len(table) = Cardinality(ToSet(table))
            /\ \A m, n \in DOMAIN table :
                m < n /\ table[m][major] # 0 /\ table[n][major] # 0
                    => table[m][major] <= table[n][major]

(* Two slice columns that may be stacked read, stacked, as they read apart,*)
(* whichever of them is all missing and whichever has its slices in a base *)
(* and which in selector columns.                                          *)
StackedSlicesReadAsBefore ==
    LET arrays == << side["left"].arr, side["right"].arr >> IN
    CanConcatSlices(arrays) =>
        Scalars(ConcatSlices(arrays)) = Scalars(arrays[1]) \o Scalars(arrays[2])

(* A dataset offloaded in chunks of any size and flattened again is the    *)
(* same dataset: its namespace, its labels and what its slices read, each  *)
(* row once and in order, also when chunks are all missing, when the size  *)
(* does not divide the rows or exceeds them, and when there is no row; no  *)
(* chunk is empty unless the dataset is.                                   *)
OffloadIsInvisible ==
    \A s \in Sides, size \in ChunkSizes :
        LET d == side[s]
            ranges == Offload(d, size)
            back == FlattenChunks(d, ranges) IN
        /\ CanConcatSlices([c \in DOMAIN ranges |-> ReadPartial(d, ranges[c]).arr])
        /\ back.id = d.id /\ back.lbl = d.lbl /\ back.key = d.key
        /\ Scalars(back.arr) = Scalars(d.arr)
        /\ Rows(d) # {} => \A c \in DOMAIN ranges : ranges[c][1] < ranges[c][2]
=============================================================================
