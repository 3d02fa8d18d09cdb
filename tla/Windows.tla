-------------------------------- MODULE Windows --------------------------------
(***************************************************************************)
(* Windows over dimensioned slices: AxisWindow (data/windows.py), the      *)
(* columnar slice array (data/dimensioned_slice_array.py) and the row      *)
(* ranges of a chunked store (ops/builtin/offload.py).  All of it is pure, *)
(* and the vectorised code never looks at one row: counts, starts and      *)
(* stops are columns, cut and repeated in step.                            *)
(*                                                                         *)
(* An interval is <<start, stop>>, half open; a slice is a function from   *)
(* dimension names to intervals, Null a missing one.  An interval of a     *)
(* stored scalar slice may lack a start (Null), and then begins at zero.   *)
(*                                                                         *)
(* Positions on an axis are integers of some unit, and `Rounded` takes the *)
(* result of a sum, difference or product to what the axis's numbers can   *)
(* hold: itself where they are integers (SlicePlans), the nearest number   *)
(* of so many significant bits where they are floats (SampledWindows).     *)
(***************************************************************************)
EXTENDS Integers, Sequences, SequencesExt, FiniteSets, FiniteSetsExt, RowChoice

CONSTANTS
    Null,       \* the missing slice, the absent start, the absent plan
    Rounded(_)  \* what arithmetic on an axis leaves of an exact result

NoSlice == [dim \in {} |-> Null]

Overlaid(slice, dim, interval) ==
    [d \in DOMAIN slice \cup {dim} |-> IF d = dim THEN interval ELSE slice[d]]

MinOf(a, b) == IF a < b THEN a ELSE b

-----------------------------------------------------------------------------
(* One axis: a window is [size, stride, offset, partial].                  *)

ValidWindow(w) == w.size > 0 /\ w.stride > 0

(* The start of the window after n strides, where n = 0 gives the first.   *)
First(w, extent) == Rounded(extent[1] + w.offset)
StartAt(w, extent, n) == Rounded(First(w, extent) + Rounded(n * w.stride))

FullCount_OffsetForgotten(w, extent) ==
    LET room == Rounded(Rounded(extent[2] - extent[1]) - w.size) IN
    IF room >= 0 THEN room \div w.stride + 1 ELSE 0
FullCount(w, extent) ==
    LET room == Rounded(Rounded(extent[2] - First(w, extent)) - w.size) IN
    IF room >= 0 THEN room \div w.stride + 1 ELSE 0

(* At most one window that does not fit is added, cut to the extent.       *)
Count_AtTheStop(w, extent) ==
    LET next == StartAt(w, extent, FullCount(w, extent)) IN
    FullCount(w, extent) + IF w.partial /\ next <= extent[2] THEN 1 ELSE 0
Count(w, extent) ==
    LET next == StartAt(w, extent, FullCount(w, extent)) IN
    FullCount(w, extent) + IF w.partial /\ next < extent[2] THEN 1 ELSE 0

Interval_Uncut(w, extent, k) ==
    LET start == StartAt(w, extent, k - 1) IN <<start, Rounded(start + w.size)>>
Interval(w, extent, k) ==
    LET start == StartAt(w, extent, k - 1)
        stop == Rounded(start + w.size) IN
    <<start, IF w.partial THEN MinOf(stop, extent[2]) ELSE stop>>

(* The windows of every extent, one after another.                         *)
Intervals(w, extents) ==
    FlattenSeq([i \in DOMAIN extents |->
        [k \in 1 .. Count(w, extents[i]) |-> Interval(w, extents[i], k)]])

Repeat(column, counts) ==
    FlattenSeq([i \in DOMAIN column |-> [k \in 1 .. counts[i] |-> column[i]]])

-----------------------------------------------------------------------------
(* The slice array: [base, layers], a column of scalar slices and, over    *)
(* it, selector columns [dim, column] that override it, the later layer    *)
(* the earlier.  A missing row is missing in the base.                     *)

SliceArray(scalars) == [base |-> scalars, layers |-> <<>>]

(* Start and stop columns of DimensionFields, bound to a slice each: no    *)
(* base, one layer per dimension.  `rows` are the slices the columns spell.*)
SliceArrayFromBindings(dims, rows) ==
    [base |-> [i \in DOMAIN rows |-> NoSlice],
     layers |-> [n \in DOMAIN dims |->
                    [dim |-> dims[n], column |-> [i \in DOMAIN rows |-> rows[i][dims[n]]]]]]

Bindable(dims, rows) ==
    \A i \in DOMAIN rows :
        /\ rows[i] # Null /\ DOMAIN rows[i] = ToSet(dims)
        /\ \A d \in ToSet(dims) : rows[i][d][1] # Null

Present(array) == {i \in DOMAIN array.base : array.base[i] # Null}

(* A sequence of positions takes rows, with repetition.                    *)
Take(array, positions) ==
    LET taken(column) == [p \in DOMAIN positions |-> column[positions[p]]] IN
    [base |-> taken(array.base),
     layers |-> [l \in DOMAIN array.layers |->
                    [array.layers[l] EXCEPT !.column = taken(@)]]]

ScalarAt(array, i) ==
    LET over[l \in 0 .. Len(array.layers)] ==
            IF l = 0 THEN array.base[i]
            ELSE Overlaid(over[l-1], array.layers[l].dim, array.layers[l].column[i]) IN
    IF array.base[i] = Null THEN Null ELSE over[Len(array.layers)]

Scalars(array) == [i \in DOMAIN array.base |-> ScalarAt(array, i)]

(* Stacking.  Arrays that hold a slice must have the same selector columns;*)
(* one that is all missing takes the form of the others.                   *)
Signature(array) == [l \in DOMAIN array.layers |-> array.layers[l].dim]

MissingLike(template, array) ==
    LET missing == [i \in DOMAIN array.base |-> Null] IN
    [base |-> missing,
     layers |-> [l \in DOMAIN template.layers |-> [template.layers[l] EXCEPT !.column = missing]]]

NonNull(arrays) == Chosen(arrays, {n \in DOMAIN arrays : Present(arrays[n]) # {}})

CanConcatSlices(arrays) ==
    \A m, n \in DOMAIN NonNull(arrays) :
        Signature(NonNull(arrays)[m]) = Signature(NonNull(arrays)[n])

ConcatSlices_OnlyNonNull(arrays) ==
    LET present == NonNull(arrays)
        joined(Column(_)) == FlattenSeq([n \in DOMAIN present |-> Column(present[n])]) IN
    IF present = <<>> THEN SliceArray(FlattenSeq([n \in DOMAIN arrays |-> arrays[n].base]))
    ELSE [base |-> joined(LAMBDA a : a.base),
          layers |-> [l \in DOMAIN present[1].layers |->
                        [present[1].layers[l] EXCEPT !.column =
                            joined(LAMBDA a : a.layers[l].column)]]]
ConcatSlices(arrays) ==
    LET present == NonNull(arrays)
        aligned == [n \in DOMAIN arrays |->
            IF Signature(arrays[n]) = Signature(present[1]) THEN arrays[n]
            ELSE MissingLike(present[1], arrays[n])]
        joined(Column(_)) == FlattenSeq([n \in DOMAIN aligned |-> Column(aligned[n])]) IN
    IF present = <<>> THEN SliceArray(FlattenSeq([n \in DOMAIN arrays |-> arrays[n].base]))
    ELSE [base |-> joined(LAMBDA a : a.base),
          layers |-> [l \in DOMAIN present[1].layers |->
                        [present[1].layers[l] EXCEPT !.column =
                            joined(LAMBDA a : a.layers[l].column)]]]

(* The bounds of a dimension: its last selector columns, else those of the *)
(* scalar slices.                                                          *)
LayersOf(array, dim) == {l \in DOMAIN array.layers : array.layers[l].dim = dim}

HasExtents(array, dim) ==
    LayersOf(array, dim) = {} =>
        \A i \in Present(array) : dim \in DOMAIN array.base[i]

Extent_FirstLayer(array, dim, i) ==
    LET own == LayersOf(array, dim) IN
    IF own # {} THEN array.layers[CHOOSE l \in own : \A m \in own : m >= l].column[i]
    ELSE LET interval == array.base[i][dim] IN
         IF interval[1] = Null THEN <<0, interval[2]>> ELSE interval
Extent(array, dim, i) ==
    LET own == LayersOf(array, dim) IN
    IF own # {} THEN array.layers[CHOOSE l \in own : \A m \in own : m <= l].column[i]
    ELSE LET interval == array.base[i][dim] IN
         IF interval[1] = Null THEN <<0, interval[2]>> ELSE interval

(* explode_windows: `windows` is a sequence of [dim, window].  Axis by     *)
(* axis, the parents and the columns of the earlier axes are repeated by   *)
(* the counts of the next.                                                 *)
Expanded(array, windows) ==
    LET axis[n \in 0 .. Len(windows)] ==
            IF n = 0
            THEN [parents |-> Chosen([i \in DOMAIN array.base |-> i], Present(array)),
                  columns |-> <<>>]
            ELSE LET prev == axis[n-1]
                     w == windows[n].window
                     extents == [p \in DOMAIN prev.parents |->
                                    Extent(array, windows[n].dim, prev.parents[p])]
                     counts == [p \in DOMAIN extents |-> Count(w, extents[p])] IN
                 [parents |-> Repeat(prev.parents, counts),
                  columns |-> Append([m \in DOMAIN prev.columns |->
                                         Repeat(prev.columns[m], counts)],
                                     Intervals(w, extents))] IN
    axis[Len(windows)]

CanExplode(array, windows) ==
    /\ windows # <<>>
    /\ \A n \in DOMAIN windows : /\ ValidWindow(windows[n].window)
                                 /\ HasExtents(array, windows[n].dim)

ExplodeWindows(array, windows) ==
    LET x == Expanded(array, windows)
        base == Take(array, x.parents) IN
    [parents |-> x.parents,
     slices |-> [base EXCEPT !.layers = @ \o
                    [n \in DOMAIN windows |-> [dim |-> windows[n].dim,
                                               column |-> x.columns[n]]]]]

-----------------------------------------------------------------------------
(* offload's chunk_size is Null for one chunk of everything.               *)
ChunkRanges_Floor(n, chunk_size) ==
    LET size == IF chunk_size = Null \/ chunk_size >= n THEN n ELSE chunk_size IN
    IF n = 0 THEN << <<0, 0>> >>
    ELSE [c \in 1 .. n \div size |-> <<(c - 1) * size, MinOf(c * size, n)>>]
ChunkRanges(n, chunk_size) ==
    LET size == IF chunk_size = Null \/ chunk_size >= n THEN n ELSE chunk_size IN
    IF n = 0 THEN << <<0, 0>> >>
    ELSE [c \in 1 .. (n + size - 1) \div size |-> <<(c - 1) * size, MinOf(c * size, n)>>]
=============================================================================
