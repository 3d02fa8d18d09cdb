# A verification development for patchframe

TLA+ models of the part of `patchframe` that a unit test reaches badly: pending
work that is recorded now and run later, handles and contexts that outlive the
snapshots they were made on, and managers that give integer names to live data
sources. TLC checks the models on small instances; TLAPS proves what matters
most about the coupling engine, pending work, the two forms of a program, contexts,
source managers, rows and plans, and slices for every instance.

    tlc -workers 2 -config MCPendingWork.cfg MCPendingWork     # one run
    tlapm CouplingEngine_proofs.tla                            # the proofs of one component

## 1. The system

A `Dataset` is an immutable snapshot: a schema, a pandas table, a `CouplingSet`
of pending work, and provenance. Operators make new snapshots from old ones.
Given a `Dataset`, an operator does its work at once (*eager*); given a
`FieldHandle`, it records a *coupling* and does nothing (*deferred*), until
`consume`/`collect` runs and discharges it or a row access evaluates it in
passing. `DatasetContext`s are the only mutable part of authoring: cursors over
snapshots, one of which may be ambient in a `with` block. Cells may hold
`DataAccessor`s, which name a live `DataSource` by an integer that one
`SourceManager` gave out. A cell may also hold a whole `Dataset` (a *bundle*),
so that operators over datasets can be deferred like operators over fields.

Nothing runs in parallel. What interleaves is calls: several contexts, handles,
managers and datasets share objects, and an operator called inside another one
may move a context that the outer one holds. There is no thread, queue, timer,
retry or lock, and no state that a restart reads back; every operation returns
before the next one starts, and nothing obliges a program to make another call.
So no fairness is justified and there is no liveness to check: every
specification is `Init /\ [][Next]_vars`. What would be a liveness property
elsewhere (pending work is done when asked for) is an action property here
(`ConsumeCompletesColumn`, `CollectIsRepeatable`).

### Inventory

| component | state | operations | what is hard | what makes it correct | here |
|---|---|---|---|---|---|
| coupling engine (`dataset/coupling_engine.py`) | none: a function of the coupling set | validate, order, sub-chain of a column, up to a coupling, evaluate a row | chains, cycles, fields rewritten in place, tie-breaking | every order the edges allow gives one result | `CouplingEngine`, `PendingWork` |
| consume, row access, batches (`ops/builtin/consume.py`, `dataset/dataset.py`) | table and couplings of a snapshot | consume(column), consume(coupling), `ds[id]`, `rows().__getitems__` | partial runs, what stays pending, set iteration order | consumption never changes what a row evaluates to | `PendingWork` |
| couplings and lineage (`dataset/couplings.py`, `ops/resolution.py`, `ops/dispatch.py`) | the recorded sequence | add, retain, rename references, compose | references by plain name through renames, drops, keeps, compositions | no coupling names a field that is gone | `DatasetOps`, `Composition`, `LazyEagerDuality` |
| dual operators (`map_fields`, `compose_slice`, `slice_data`, `materialize`) | — | an eager and a deferred form each | the two forms meet the engine at different times | collected later = done now | `LazyEagerDuality` |
| schema edits (`rename`, `drop`, `keep`, `assign`, `add_column`) | — | on schema, table and couplings at once | pending work under an edit | as above | `LazyEagerDuality`, `AuthoringContext` |
| sources (`data/manager.py`, `accessor.py`, creation operators, `make_from_dataframe`) | ids, descriptors, live sources, types, the default manager | register, open, close all, create, materialize | objects shared by managers, ids read by another manager, close and reopen | an accessor always reaches its own source | `SourceManager` |
| contexts and handles (`dataset/context.py`, `ops/base.py`) | cursors, the ambient context, tokens, facades' cached contexts | with, branch, field, new_field, item assignment, collect | side effects of eager operators on a shared cursor | handles follow their field; contexts only move forward | `AuthoringContext` |
| bundles (`ops/bundle.py`) | cells that hold datasets | bundle, deferred operators over cells, extract, collect, flatten | a deferred call replayed through its whole eager lifecycle | a read moves nothing; a collect can be repeated | `AuthoringContext`; flatten in `RowPlans`, `SlicePlans` |
| windows and slices (`data/windows.py`, `data/dimensioned_slice_array.py`, `data/dimensions.py`, `data/array_source.py`) | columns of bounds | tile extents, expand over axes, stack, resolve selectors | short extents, partial windows, alignment of columns, rounding of seconds, truncation to samples | each parent gets the product of its windows; tiles follow each other to within a sample | `Windows`, `SlicePlans`, `SampledWindows` |
| composition (`concat`, `merge`, `field_composition.py`, `_composition.py`) | — | rows, columns, merged fields | collisions, winners, couplings of superseded and of renamed fields | schema, table and couplings agree on the winner | rows and identity in `RowPlans`; fields and couplings in `Composition`, `LazyEagerDuality` |
| joins, links (`join`, `dimension_join`, `match`, `link`) | — | pair plans, correspondences narrowed term by term | interval bounds, rows without a partner, candidates of an older snapshot | exactly the pairs of the definition | `RowPlans`, `SlicePlans` |
| reshaping and plans (`explode`, `implode`, `partition`, `reduce`, plans, `where`) | — | by plan and by group | empty groups, domains, composite and null keys, plans followed late | round trips; a plan still means what it meant | `RowPlans`; `window_expansion_plan` in `SlicePlans` |
| index identity (`identity.py`, `set_index`, `reset_index`) | identities of index axes | mint, inherit, reference | plans checked against a stale index | one label of one identity is one row | `RowPlans` |
| `pipe`, `table_transform` | — | an opaque table function | what may be preserved, and how far it is verified | labels keep their meaning | `RowPlans` |
| signatures, transitions, fields, schema | — | declarations, validation | — | — | read, and translated where an operator is modelled |
| offload and stores (`ops/builtin/offload.py`, `storage/*`, `sources/memory/*`) | files, arrays | cut into chunks, read a range, flatten | sizes that do not divide, chunks all missing | offloading changes nothing | chunks and ranges in `SlicePlans`; file and array I/O not modelled |
| mocks, examples, benchmarks, docs | — | — | — | — | not modelled: test doubles and uses of the library |

`PROJECT.json` lists the components with their status and every hazard met in
the code, at its line, with the property that would catch it or the reason why
none does yet.

## 2. The modules

`CouplingEngine` — operators only. A coupling is a record with `ins` and `out`; a
`CouplingSet` is a sequence in recording order, and `id()` of a coupling is its
position. `Accepts` is the constructor of `CouplingEngine`, `Precedes`/`Order`
the dependency graph and Kahn's algorithm with insertion-order ties,
`CouplingsForColumn`/`CouplingsUpTo` the two queries, `Run`/`Discharge` the
table and the couplings after a consume. `Compute`, what one coupling writes, is
a constant operator. Recursion is by recursive functions, over initial segments of
the naturals, so that the proofs can reason about it.

`PendingWork` instantiates the engine over *terms*: a field's value is the
history of the work done on it, so a coupling that ran twice, early, late or not
at all shows in the value. `Record` adds any coupling over the fields (cycles
and self-references included: recording does not validate), `ConsumeColumn` and
`ConsumeCoupling` are the two forms of `consume`.

`EagerRow` — what a snapshot with pending work promises whoever reads its rows: one
row and no pending work. `Work` is done when it is asked for, `Consume` cannot be seen.
`LateWork` is the exception: work for a field that unfinished work already reads is made
of the row that results, so it may change what unfinished work makes of it, and nothing else,
or leave a row that promises nothing, as it does when it recomputes a value from the old one. `PendingWork` implements it (`ReadsAsEager`): the abstract `row` is `Value`,
what row access evaluates, `awaited` and `unfinished` are read off the pending couplings, and
`settled` says that the engine accepts them and no chain is overwritten.

`DatasetOps` — the operators as functions on snapshots `[schema, stored,
pending]`, and the four couplings `BindSlice`, `BindDimensions`, `Materialize`
and `MapCoupling` with what they compute on tagged values (a scalar, an accessor
with its slice, a decoded array, a slice, a mapped value, null). One row stands for
all: these couplings are per-row-independent.

`Composition` — `concat_columns` and `concat_rows` over snapshots with pending
work, on top of `DatasetOps`. The code computes the schema, the table and the
couplings of a composition in three hooks; so does the model: `MergedField` and
`UnifiedField` pick the field of a name, `ResolvedValue` and `ConflictRaised` its
value under a `ColumnCollisionStrategy`, `ComposedPending` the couplings, which are
pruned on the side that lost the collisions (`Pruned`), rewritten by the rename
pairs of the lineage (`RenameMap`, one map for both inputs, as in
`ops/dispatch.py`) and united.

`LazyEagerDuality` composes these: one program, run on a `lazy` snapshot through
the handle form of every operator and on an `eager` snapshot through the Dataset
form. The eager program is the specification of the deferred one, and
`DeferredEqualsEager` is their agreement. `parted` keeps the fields for which the
two forms differ by design: an assignment under pending work is recomputed over by a
later consume (`src/README.md`, "assign assigns values to fields"), and a drop
prunes, with a warning, the work that read the dropped field
(`ops/dispatch.py:173-186`). `ConcatWith` and `StackWith` compose the running program
with `Others`: snapshots that share fields with it, names only, or one field under
another name. A composition resolves a collision on what is stored and never runs
pending work, so it parts two more kinds of field (`PartedBy`): the outputs of the
work it prunes on the losing side, and a column that a filling mode fills from stored
values while either side has work pending on it, with what is computed from it. A
field that the winner replaces whole is parted no longer (`StillParted`).
`FirstId` separates the identities minted by the running program from those that
the source and the `Others` were built with; `Coupling` and `Earlier` say what
snapshots the others may be (well typed, one identity for one name, couplings over
their own fields, each pending once), and the assumptions of the module ask no more.

`SourceManager` — every method of `SourceManager`, the default manager, creation,
`offload`'s accessors and `make_from_dataframe`. A key is the pair
(source_type, source_id); descriptors may share a key and differ in their open
configuration. A live source has a serial, its object identity; `held` and
`closed` are history variables. A cell remembers the manager that gave out its
id, its `manager_hint` and the manager of the dataset that holds it. The new
manager of `reset_default_manager` is one of `Manager` that nothing has used.

`AuthoringContext` — datasets as objects (positions of a sequence, compared as
`is` compares), contexts, the context variable and its tokens, handles,
facades' cached contexts, eager operators with the ambient side effect of
`Operator.apply_context_effects`, recording through a handle, and bundles:
`bundle`, a deferred filter over cells, `extract`, `collect` and row reads,
where running a deferred call is the whole eager call with its side effects.
`Programs` is what a session may use: a record says whether it opens `with` blocks,
whether it lifts datasets into bundles, over which names and with how many
datasets, and a behaviour picks one at the start, so that one run covers several kinds of
program, each with bounds of its own. An exception that leaves a `with` block leaves it as a normal exit does. A handle
is modelled by its context and the identity of its field; two handles of one
context and one field are one handle.

`RowPlans` — rows, their labels and the plans that move them. A dataset is a record:
`id` and `ix`, the identity and the name of its index, `col`, the kind of each column
and the namespace a reference or a demoted index remembers, `fib`, the header that
the fibers of a partition have, and `rows` in table order. `store` is what the program
holds, so any operator may meet any dataset, however old: this is how a plan comes to
be followed over a source that has changed. Each operator is a function on datasets
(`Where`, `SetIndex`, `ResetIndex`, `Pipe`, `Link`, `ConcatRows`, `ConcatColumns`, `MakePlan`,
`Join`, `Explode`, `Merge`, `Partition`, `Flatten`, `Implode`) and an action that
applies it under the code's checks; `Keeps` is the acceptance by `DatasetState`, which
refuses repeated labels. `Implode` is composed of the others as `implode.run` is. A
row's `from` and `via` are history: the rows the program created that its values come
from, and the way each cell came, both as the references crossed (which column, into whose
namespace); they let a property ask whether a label still means the
row it meant. `Reduce` groups with `PartitionByAll`, by any number of keys, and applies a
reducer to each group (count, sum, distinct).
What `RowPlans` narrows, by name: operands of `concat_rows` have one
schema (differing ones are a matter of field policies); alignment is of a dataset with
the references of a plan of the same identity (other identities need a collision
strategy); a colliding name is refused in `merge`, its default; `set_index` takes a column without nulls, as an
`IndexField` is not nullable; fibers are nested one level; nulls are equal keys in a
join by field, as in pandas; the row order of an outer join by field is left rows
then right ones, while pandas sorts them by key (no property depends on it).

`Windows` — operators only, on integers, sequences and sets. An interval is
`<<start, stop>>`, a slice a function from dimensions to intervals, `Null` a missing
one. `Count` and `Intervals` are the two halves of `AxisWindow`; a slice array is its
`base` of scalar slices and its selector `layers`, as in
`DimensionedSliceArray`, with `Take`, `ScalarAt`, `ConcatSlices`,
`SliceArrayFromBindings` and `ExplodeWindows`, which cuts and repeats whole columns
axis by axis and never looks at a row. `ChunkRanges` is offload's. What arithmetic on an axis
does to a result is the operator constant `Rounded`: every sum, difference and product of
`data/windows.py` goes through it where NumPy would round. `RowChoice` is the one operator that
`RowPlans` and `Windows` share: what a mask keeps of a table's rows, in order.

`SlicePlans` — two datasets of sliced rows under `ExpandByWindows`, `FilterRows`,
`JoinByTerm` (`dimension_join` with the correspondence at hand as `candidates`) and
`MatchByTerms`. A side comes with a slice field or with start and stop
columns to be bound (`sliced`). `plan` is the correspondence so far: the labels and the
identities of both sides, and as history the terms it stands for. `join` over
dimensions, `offload` with `flatten`, and stacking are functions of a state and are
evaluated in every one. A `MatchPredicate` is the caller's: `Holds` and
`Correspond` state its contract and are marked external.

Its axes are indices or whole seconds, on which the program's arithmetic is exact: `Rounded` is the
identity there. Two looser readings change no property: `Signature` compares dimension names where the code
compares `Dimension` objects, so more columns may be stacked; and `Tiled` attaches the
slice column of a side given by start and stop columns at once, where the code needs a
`concat_columns` after `explode`.

`SampledWindows` — slices in seconds, as floats. A position is a whole number of ticks with at most `Bits`
significant bits, and `Nearest` (round to nearest, ties to even) is the `Rounded` of
its instance of `Windows`. `Cut` cuts every tile by a window, again and again; `Samples` is
`TemporalDimension.to_index`, which multiplies by the rate, rounds and truncates. Division needs no
rounding: NumPy's `floor_divide` gives the floor of the exact quotient.

`CouplingEngine_proofs`, `PendingWork_proofs`, `LazyEagerDuality_proofs`,
`AuthoringContext_proofs`, `SourceManager_proofs`, `RowPlans_proofs` and `SlicePlans_proofs`
hold the theorems of the module they are named after, and `Induction` what they share: forms of
induction, and lemmas on choosing, concatenating and counting the members of sequences and on sums
over finite sets (section 5).

Definitions such as `Run_StaleReads`, next to the definition they vary, are the
mutated forms used by `PROJECT.json`'s mutants; nothing refers to them.

## 3. The runs

`CHECK_DEADLOCK FALSE` everywhere: a session may stop at any point, the bounds
end every behaviour, and a set the engine refuses stays refused.

| run | instance | shows |
|---|---|---|
| `pending_work` | 3 fields, 3 recorded couplings of any shape, consumed in any order by column or by a coupling of the snapshot's own; fields symmetric | `OrderIsConfluent`: the tie-breaking of the order is invisible. `BatchEqualsRow`: a batch that consumes the outputs in any set order gives the row. `ConsumePreservesValue`, `ConsumeCompletesColumn`, `PartialConsumeStopsAtTarget`: consumption in pieces is evaluation. `ReadsAsEager`: `PendingWork` implements `EagerRow`. (Coupling objects of earlier snapshots are left to `stale_target` and to the theorems of section 5, which have both) |
| `lazy_eager` | a data, a slice and a dimension field, 2 further names, 3 recordings, 1 edit (rename, swap, drop, keep, assign, or a composition with a branch that has work of its own or with a stranger of the same names, under 4 collision strategies), collects anywhere on either side | `DeferredEqualsEager`, `NoDanglingReference`, `EagerAlwaysUsable`; `OneWinner`: after a composition, schema, table and couplings of a name come from one side |
| `source_manager` | 2 managers, 2 keys of 2 types, 2 configurations, 2 live sources, 2 cells | the invariants that section 5 proves |
| `contexts` | 2 contexts, 2 handles; 3 names, 4 datasets and `with` blocks, or 2 names, 5 datasets and bundles | `AmbientIsInnermost`, `HandlesOutliveOperators`, `ContextsMoveForward`, `CollectIsRepeatable` |
| `row_plans` | 2 members (distinct, equal or null keys), 2 groups, a filtered copy, any 3 operators on any operands, inner and outer joins, honest pipes, 3 rows, 4 identities | `LabelMeansOneRow`, `GatheredRowIsTheReferencedRow`, `DemotedIndexKeepsItsMeaning`: identities decide that rows correspond and are right. `ImplodeIsTheRelation`, `FlattenUndoesPartition`, `ReductionsRollUp`, evaluated on every dataset (or pair) a state holds |
| `slice_plans` | a missing and an open-started slice against two boxes on two axes, 4 window sets (gaps with an offset, a tiling, overlaps without partials, both axes), 3 terms (key equality, padded and exact overlap), chunks of 1, 2, 3 or all, 1 row dropped, 2 expansions, 6 rows | `ExpansionIsTheProduct`, `PlanMeansItsTerms`, `JoinIsTheRelation`, `StackedSlicesReadAsBefore`, `OffloadIsInvisible` |
| `sampled_windows` | 16 slices (4 starts, 4 lengths, in hundredths of a second), 7 windows (4 tilings, overlaps without partials, an offset, both), 3 cuts one in the other, 100 tiles, floats of 16 bits, 4 rates | `TilesStrayByOneSample`: partial windows with stride = size, however deep, follow each other to within one sample, start with the slice and end with it or a sample early. `OnlyRoundingDecidesFit`: counts and bounds of all windows are the exact ones but for roundings |

Why the bounds are enough to be worth checking. Three couplings over three fields
contain every pattern the engine tells apart: a chain of two with a reader
before, between and after, a diamond, cycles of two and three, an in-place rewrite with
an earlier and a later reader. One edit between three recordings puts the edit
before, under and after a chain. Two managers with two keys make ids differ
between managers and let one object be live in both. Two contexts are enough for
one to be moved under the other, and are entered in either order; five datasets
let a bundle be made, deferred over, filled and extracted. In `lazy_eager` one
composition between recordings puts it before, under and after a chain, on
either side of a collision. In `row_plans`
three operators on top of an initial filter, two of which may mint an identity, contain the stale uses that matter: a plan made, its source
re-indexed or stacked, the plan followed; a join, an explode and an alignment; a link, a
partition over the filtered target and a flatten. The two operator identities
(`implode`, `flatten`) are evaluated for every operand of every state and need no steps of their own.

In `slice_plans` two expansions give windows of windows, on the same axis or on the other, and let a
correspondence be made before, between and after; extents of 5, 2, 3 and 1 units
against windows of 2, 3 and 1 are shorter than a window, divided by it and not; three
rows in chunks of 1, 2 and 3 are divided and not, and a chunk is all missing.

In `sampled_windows` no hundredth of a second but the quarters is a float, so ends of tiles fall on either side of
a sample and counts on either side of a fit. 16 bits stand for the program's 53: what the properties need is that roundings are small
beside a sample and a window, which `SampledWindowsAssumption` states (`Slack`, 4 roundings) and TLC
evaluates. With 53 bits and a slice of an hour at 192 kHz the slack is less than a millionth of a
sample. Both properties were also evaluated with Python's floats on thousands of random slices and cuts, without an exception.

In `contexts` no program opens a block and makes bundles too. Where one does, a
collect may not be repeatable and a read may move a context: two of the runs below show it.

| run (expects a violation) | what it shows |
|---|---|
| `stale_target` | `consume(ds, coupling)` with a coupling object of an earlier snapshot finds it by equality and filters by `id()`: its upstream is run and discharged, the coupling itself is neither, and no error is raised |
| `self_contained` | `make_from_dataframe` into a manager of one's own re-registers the sources but not the ids in the cells; the dataset's manager resolves them to another source or none |
| `renamed_twin` | `concat_columns` of a dataset with work pending on `img` and a branch that holds the same field as `picture`: the lineage renames `img` to `picture` in the couplings of both, and `img` is never computed |
| `collect_in_block` | `collect()` of a bundle handle inside `with` on its own context leaves the context on the cell: the handle no longer resolves |
| `read_in_block` | a row read of a bundle replays a deferred operator, which advances an ambient context that points at its operand |

Three further configurations are no runs of the project. They are kept beside it to be run by hand, and each
ends in a violation of what the repository says:

| configuration | module | violates | what it shows |
|---|---|---|---|
| `MCRepeatedRecording.cfg` | `MCLazyEagerDuality` | `DeferredEqualsEager` | a recording equal to any pending one is dropped: slicing by `clip`, `crop` and `clip` again on handles ends on `crop`; on datasets it ends on `clip` (`ops/dispatch.py:197`), where README.md says that a recorded operation is applied later |
| `MCSampledOverlap.cfg` | `MCSampledWindows` | `WindowsDoNotOverlap` | a tile stops a rounding after its neighbour starts, and both read the sample between: windows of 0.01 s over [0, 1.0) at 100 samples a second, with Python's floats, read samples 28 and 57 twice and sample 6 never, where the docstring says "non-overlapping windows" (`data/windows.py:17`) |
| `MCRelabellingPipe.cfg` | `MCRowPlans` | `LabelMeansOneRow` | `pipe` with its default, an inherited identity, accepts a function that renumbers rows within the old labels: one label then means two rows, where the comment says that it "never silently corrupts" (`ops/builtin/pipe.py:50-52`) |

The properties exclude, by a stated condition and not by a narrower model, what
the violated ones show: `lazy_eager` sets `Repeats` and `Twins` to FALSE;
`PartialConsumeStopsAtTarget` is about the snapshot's own coupling objects;
`ConsumePreservesValue` is about chains whose members read the previous output
(`ChainsRead`), which is all the operators build: a coupling that overwrites a
chain mate without reading it, consumed by itself, leaves the mate pending to run
last.

## 4. What a property catches

Every property of a passing run has a mutant in `PROJECT.json`: a definition
changed as a plausible bug in the code would change it (no dependency edges
inside a chain, reads of the table from before the consume, references not pruned
when an input goes, a descriptor overwritten on re-registration, a close that keeps
or forgets too much, a context reset to none instead of its token, an ambient
context advanced without comparing snapshots, a re-indexed dataset that keeps its
identity, a gather by position instead of label, the loser's couplings pruned by output only, extents
read from the first selector column instead of the last, an offset left out of
the count, a window at the very end, an uncut partial window, closed intervals, candidates checked by label alone, missing chunks left out of a concatenation),
under which TLC finds the property violated.

## 5. What is proved

Every theorem below holds for every value of the constants that satisfies the named
assumptions of its module: any names, any datasets a program starts from or composes
with, any number of recordings, edits, contexts or managers. TLC checked each
inductive invariant on the runs' instances before it was proved, except that of rows and plans,
which speaks of a world TLC cannot enumerate; TLC checks the six properties it implies. A theorem that states a property of
a run is written with that property's name.

### The coupling engine

`CouplingEngine_proofs`, about operators, for any `Compute` that depends on nothing
but the fields a coupling reads (`Local`), and any coupling set the engine accepts
(`Sound`: known fields, and an order that reaches every coupling):

| theorem | statement |
|---|---|
| `AnyOrderHasTheMeaning` | every linear order of the dependency graph leaves each field with what its last writer makes of its inputs |
| `RunHasTheMeaning` | Kahn's algorithm with insertion-order ties is such an order, for the whole set and for any part that holds what it reads |
| `ClosedRunKeepsTheEvaluation` | running and discharging a part closed under dependency leaves an accepted set that evaluates to the same row |
| `ColumnRunCompletes` | `consume(ds, column)` stores the evaluated value; nothing pending writes the column |
| `RunUpToStopsAtTarget` | `consume(ds, coupling)` stores what the whole evaluation holds just after its target |
| `BatchIsTheRow` | consuming the outputs one by one, in any order, ends with the evaluated row and nothing pending |
| `RecordingIsRunning` | recording a coupling for a field that no pending work for another field reads: the set stays accepted and evaluates to what it did, with the coupling applied to that |

The argument. A coupling set is given a *meaning* that mentions no order: a `Solution`
assigns each coupling the value it computes from the last writers before it
(`Before`, by `Precedes`), and the `Meaning` of a part is each field's last writer in it. By
induction along a schedule, the frame after its first couplings is the meaning of those
(`Progress`, `StepMeaning`): the writers of one field are totally ordered by `Precedes`, so
whatever a coupling reads is already what its `Solution` says. Any two orders therefore agree,
and a part that is `ReadClosed` computes what the whole would. After a discharge the rest is
sound and has the same solution up to renumbering (`KeptPositions`, `RestIsSolved`):
the order of the whole, without what ran, ranks it, and `RankedOrderIsComplete` shows
that Kahn's algorithm finishes wherever a rank exists: a coupling of least rank among those left is ready.

The module proves of each recursive function (`Order`, `Upstream`, `Run`, `Discharge`,
`ConsumeAll`) that it satisfies its recursion equations (lemmas `…Equation`). The library's induction
theorems take a predicate, which the installed provers cannot instantiate; `Induction`
derives, from well-foundedness of `<`, induction stated over a *set* of numbers
(`LeastNatural`, `SegmentInduction`, `GreatestNatural`), which they can. The models recurse over initial segments
of the naturals only, so this is all the induction the proofs need, except for sums, whose folds
take a set apart (`SubsetInduction`).

### Pending work

`PendingWork_proofs`, for any names and bounds:

| theorem | statement |
|---|---|
| `SnapshotInvariant`, `SnapshotsAreTyped` | `Spec => []Inv`, `Spec => []TypeOK` |
| `AnyOrderEvaluatesTheSame` | `Spec => []OrderIsConfluent` |
| `BatchesHoldRows` | `Spec => []BatchEqualsRow` |
| `ConsumptionKeepsRows` | `Spec => ConsumePreservesValue` |
| `ColumnsAreCompleted` | `Spec => ConsumeCompletesColumn` |
| `PartialConsumptionStopsAtItsTarget` | `Spec => PartialConsumeStopsAtTarget` |
| `SnapshotsReadAsEagerRows` | `Spec => ReadsAsEager`: the refinement of `EagerRow` |

Assumptions: there is a name, `MaxRecords` is a natural number. `Inv` says that the table
has the columns of the schema and that couplings refer to them, in recording order;
the rest is the engine's theorems, carried over by `P == INSTANCE CouplingEngine_proofs`.

The refinement goes step by step. Initial states map to initial states; a consume maps to
`Consume`, because what ran leaves the value (`ConsumptionIsUnseen`) and only shrinks what is
awaited and unfinished (`RanShrinks`). A recording maps to `Work` where no pending coupling
for another field reads its output: then the coupling comes last among the writers of its field and
before no reader, so the old solution with one more value solves the new set
(`RecordedIsSolved`, `RecordRuns`). Elsewhere it maps to `LateWork`: a set that was refused, or
whose chains were overwritten, stays so (`RefusedStaysRefused`, `RecordedChains`), a coupling that reads
what it writes is refused for the earlier reader's sake (`Aliased`), and any other is contained: it is the last
writer of its field and comes after all writers of what it reads (`LastWorkReadsTheRow`), and fields that
nothing pending writes keep their stored values (`LateRecordIsContained`).

### The two forms of a program

`LazyEagerDuality_proofs`, for any source, any other datasets, any strategies:

| theorem | statement |
|---|---|
| `InvariantHolds` | `Spec => []IInv` |
| `IdentitiesHold` | `~Twins => (Spec => [](IInv /\ IdInv))` |
| `TypeCorrect` | `~Twins => (Spec => []TypeOK)` |
| `ReferencesHold` | `Spec => []NoDanglingReference` |
| `EagerIsNeverStuck` | `Spec => []EagerAlwaysUsable` |
| `EagerCallsAreAccepted` | in every state, whatever a Dataset call records is accepted by the engine it constructs |
| `OneSideWins` | `~Twins => (Spec => OneWinner)` |

Assumptions: what section 2 says of `Earlier` snapshots, and that the eager form of another
dataset has declared bindings pending only, which is what an eager program leaves.

The argument. `NoDanglingReference` is not inductive alone, because an edit consults the
schema of one form only: `IInv` adds that both forms are well-typed snapshots with *one* schema, and
that the eager one has nothing pending but what `materialize` declares. That last part is
what makes the eager form usable: declared bindings form no cycle, and a call adds one coupling and
consumes it (`DeclaredIsAccepted`, `EagerCallDischarges`). For each operator on snapshots there
is a lemma that it keeps snapshots typed (`RenameIsTyped`, `KeepIsTyped`,
`ConcatColumnsIsTyped`, ...), resting on lemmas about what retaining, pruning, rewriting and
uniting do to a coupling sequence (`RetainedIsTyped`, `PrunedIsTyped`, `RewrittenIsTyped`,
`UnionIsTyped`). `OneWinner` needs more: that a field
has one name and a coupling is pending once (`IdInv`), else a
composition may rename the winner's couplings, or unite two into one. The hypothesis
`~Twins` is what the run `renamed_twin` shows to be necessary.

### Contexts and handles

`AuthoringContext_proofs`, for any names, kinds of program and bounds:

| theorem | statement |
|---|---|
| `ContextInvariant`, `ContextsAreTyped` | `Spec => []IInv`, `Spec => []TypeOK` |
| `BlocksNest` | `Spec => []AmbientIsInnermost` |
| `NoWorkIsLeftBehind` | `NeverBoth => (Spec => ContextsMoveForward)` |
| `HandlesOutlive` | `NeverBoth => (Spec => HandlesOutliveOperators)` |
| `SecondCollectFindsNoWork` | `NeverBoth => (Spec => CollectIsRepeatable)` |

Assumptions: `Names` is finite and contains `FirstFields`; the bounds are positive.

The argument. `AmbientIsInnermost` needs to know what leaving a block will restore: `StackInv` says
that the open blocks are a stack without repetition, that the ambient context is its top and
that each token holds the context below. `KindInv` says that a program without
blocks has no ambient context and one without bundles fills no cell. Each action is shown once to be either
a `WorkStep` or a step on contexts and blocks (`EveryStep`); a `WorkStep` only adds
snapshots, each derived from one before it, and moves a context only as `Follows` says. The action properties follow from that,
where `NeverBoth`: no program has blocks and bundles both. This is a
condition on the constant `Programs`, met by the run `contexts`; where a program has both, `collect_in_block` shows that the
properties fail. Replaying deferred calls is a recursive function (`RunPending`); its equations
and what it keeps are lemmas here too.

### Source managers

`SourceManager_proofs`, for any sets of managers, keys, types and
configurations and any bounds:

| theorem | statement |
|---|---|
| `TypeCorrect` | `Spec => []TypeOK` |
| `IdsAgree` | `Spec => []IdsAndKeysAgree` |
| `OwnKeys` | `Spec => []LiveUnderOwnKey` |
| `AccessorsResolve` | `Spec => []AccessorsResolveAtHome` |
| `IdsPersist` | `Spec => IdsAreForever` |
| `ClosedMeansShared` | `Spec => []OnlySharedSourcesAreClosed` |

Assumptions: `TypeOf` maps keys to types, `NoHint` is not a manager, the bounds
are natural numbers.

The argument. `AccessorsResolveAtHome` is not inductive alone: that an id keeps
its meaning needs the two dictionaries to be inverse to each other
(`IdsAndKeysAgree`), since a fresh id must not be one already bound; that
re-registration of a source found under some id enters the right type needs
every live source to sit under its own key (`LiveUnderOwnKey`). So
`IInv == TypeOK /\ IdsAndKeysAgree /\ LiveUnderOwnKey /\ AccessorsResolveAtHome`,
and its preservation is split into what each action does to the dictionaries
(one lemma for each of `AddDescriptor`, `Register`, `Get`) and what follows for
cells. `OnlySharedSourcesAreClosed` needs serials as well: every live serial is
among those its manager ever held and none exceeds `made` (`SerialsOK`), so that a
new source is never one already closed; `SInv` joins the two, relative to `IInv`.

### Rows and plans

`RowPlans_proofs`, for any key columns, label selections, inclusion rules and piped functions
that satisfy `Honest`, and any bounds:

| theorem | statement |
|---|---|
| `OneWorld` | `Spec => []IInv` |
| `RowsAreTyped` | `Spec => []TypeOK` |
| `LabelsMeanOneRow` | `Spec => []LabelMeansOneRow` |
| `GatheringFollowsReferences` | `Spec => []GatheredRowIsTheReferencedRow` |
| `DemotedIndexesKeepMeaning` | `Spec => []DemotedIndexKeepsItsMeaning` |
| `FlatteningUndoesPartitioning` | `Spec => []FlattenUndoesPartition` |
| `ImplodingMeansTheRelation` | `Spec => []ImplodeIsTheRelation` |
| `ReductionsAddUpAsStated` | `Spec => []ReductionsRollUp` |

Assumptions: `RowPlansAssumption` (keys and selections are sequences of labels within the
bounds, `Null` is no label), and `NullIsApart`: null is no dataset header and no fiber. `Honest`, the
hypothesis of each theorem, is the one thing asked of the caller's code: a function given to
`pipe` that renumbers rows is declared to mint an identity. The run's `HonestCalls` satisfy it, and
where it fails the properties do (`MCRelabellingPipe.cfg`).

The argument. None of the three properties on labels is inductive, nor is their conjunction: they compare
rows by the values that were gathered into them and say nothing of what the rows refer to. Two plans of one
identity whose rows with one label name different rows satisfy all three, until both are followed. So `IInv` says where
meaning lives. Behind every index identity stands a *world*: for each label, the row it was
minted for and what that row's fields refer to. A dataset is true of a world (`Good`) when each
history its rows carry, walked through the world from the row's own label, leads to what the row
carries: `OriginsLead` for where its values come from, `CellsLead` for its values, references and
demoted indexes. `IInv` is that *one* world exists of which every dataset held, and every fiber in
it, is true, and that no two rows of one dataset have the same label.

For each operator there is a lemma that its result is true of the same world, or of one that
has one more identity (`Fits`): `SetIndexFits`, `PipeFits`, `ConcatRowsFits`,
`JoinFits`, `ExplodeGood`, `MergeGood`, `PartitionFits`, `FlattenGood`, `ImplodeFits`, ... A world that
grows goes on telling what it told (`WorldGrows`, `ToldKept`), because paths cross only identities
that have been minted. Following a reference puts one crossing in front of a row's
histories, and a walk along two paths is a walk along the second from where the first leads
(`WalkConcat`, `ReachedTells`): this is why a plan may be followed long after, over any dataset of
the identity it names. That `DatasetState` refuses repeated labels is used exactly where it should be: a
result is kept only with distinct labels (`UniqueMeansDiffer`), so a label leads to one row.

The last three theorems are about what operators compute of good datasets. *Flatten*: each
key appears once among the group labels (`FirstOnce`), so a row with a key is in one fiber and
there once (`GroupMembers`, `GroupsDiffer`), and the fibers one after the other hold each of those rows
once (`PartitionFlattens`). *Implode*: the rows that carry a group's tag are the plan's rows that
name it, under the plan's own labels (`TaggedIs`, `ImplodedGroup`), and the labels are the domain's or
the names found (`ImplodedLabels`).

*Reduce*: both partitions group the rows that have both keys (`GroupedByOne`, `GroupedByTwo`), each
group's summary is a cardinality, a sum and a number of values over its set of rows (`ReducedIs`), and the
groups within a coarse group are a partition of it, so `SumOfParts` adds them up
(`SummariesAddUp`); distinct values are only bounded, because groups may share them (`UnionBound`).
That a fold adds up in any order and over any parts is proved in `Induction` (`SumTakes`, `SumRenamed`,
`SumOfParts`), from an induction over finite sets that is itself a theorem (`SubsetInduction`).

The proof found an error in the model. `from` once named the references a row's values
came through by field name alone; a column dropped and made again under another namespace would then
make two honest histories look contradictory, beyond the bounds of the run. The
histories now say which namespace was entered, and cells carry theirs too (`via`).

### Slices and correspondences

`SlicePlans_proofs`, for any slices, windows and terms and any bounds:

| theorem | statement |
|---|---|
| `PlanInvariant` | `Spec => []PlanInv` |
| `DatasetsStayInStep` | `Spec => []TypeOK` |
| `PlansMeanTheirTerms` | `Spec => []PlanMeansItsTerms` |
| `StackingKeepsSlices` | `Spec => []StackedSlicesReadAsBefore` |
| `OffloadChangesNothing` | `Spec => []OffloadIsInvisible` |
| `JoinsMeanTheRelation` | `Spec => []JoinIsTheRelation` |
| `ExpansionCutsTheProduct` | `Spec => []ExpansionIsTheProduct` |

Assumptions (`SlicePlansAssumption`): the bounds of slices are integers, and a start may be
missing (`Null`, which is no integer); sizes and strides of windows are positive, as `AxisWindow` demands,
and the windows of one call are on distinct dimensions, since `explode_windows` takes a mapping; the
terms are finitely many.

The argument. `PlanInv` says that both datasets are in step (`IsDataset`: every
column, those of the selector layers included, has an entry per row, bounds of rows
that are there are integers, labels grow in table order) and that a plan whose identities are
those of the sides now `Relates` them: its pairs are in lexicographic order, and a pair of labels is
in it exactly if all terms hold of the two rows. Order is what makes the set enough:
sorted sequences with the same members are equal (`SortedUnique`), so `RelatesMeans`
turns the invariant into the property, which compares sequences. `JoinRelates` shows that
narrowing by a term keeps it, from all pairs or from candidates, and `MatchRelates` folds that
along any order of the terms; `FilteredRelates` that rows left out change nothing, because a
kept row keeps its label, key and slice (`ScalarTaken`, through all layers). Expansion mints an identity
above every one a plan can hold, so a plan over the old rows is refused. That an expansion is in step
again (`ExplodedIsTyped`) goes axis by axis: parents and the columns of earlier axes are repeated by the counts
that also cut the new column, so all are as long (`NextInStep`, `BlocksInStep`).

The last four are about what operations compute of datasets in step, for any slices, so they
follow from `PlanInv` and a lemma each. *Stacking*: an array is taken to the form of the first one that holds a
slice, which changes no slice it reads (`AlignedReads`), and the place of an entry in a
concatenation depends on the lengths alone (`FlattenAddressed`): parents, bases and
selector columns, which have the same lengths, are therefore found at the same place
(`TwoReadAsBefore`). *Offload*: the chunks' ranges follow each other from 0 to the number of rows (`Covers`,
`ChunksCover`), so parts taken along them and put together are the whole
(`PartsRejoin`) and rows are read in turn (`RowsInTurn`). *Joins*: the partners of one row are in order and
each there once (`RowTable`); rows of the major side one after another give the table (`MajorTable`),
and rows without partners come last or where their row stands (`IncludedPaired`). That testing bounds
is the relation "shares a point" needs that bounds are integers and that intervals tested are not
empty (`OverlapIsShared`, `ScalarIsSlice`).

*Expansion*: on one extent, the division in `FullCount` counts the windows that fit
(`FullAreThoseThatFit`), starts grow (`StartsGrow`), and so counting and cutting give the property's grid, each window of it once
(`WindowsAreTheGrid`, `Tiling`). Every entry of a repeated or newly cut column has an address, the earlier
tile and the window within it (`AddressIsAddressing`), the same one in all columns, which are repeated by the
same counts (`NextAddressed`); that is how columns stay aligned. So an axis takes a product of `n` grids to one of `n + 1`
(`StepKeepsProduct`) and multiplies the tiles of a row by the windows of the axis (`StepMultiplies`). What a row
of the result reads is its parent's slice under the new columns, because they are the last selector columns and on distinct
dimensions (`Spells`, `TilesAreLast`), and the bounds the expansion starts from are those the parent reads (`BoundsAreExtent`).

### What is model-checked only

- `DeferredEqualsEager`. The property compares the two forms where the deferred one is
  accepted by the engine, and a deferred set may stop being accepted and become accepted
  again when an edit prunes a cycle. An invariant strong enough must therefore speak of every
  part of the pending set, or of the meaning of a set that has no order; neither is stated here yet.
  TLC also checked it with 2 edits and 2 recordings, beyond the run's
  bounds (1,018,997 states).
- `SampledWindows`: roundings of three operations against a bound, with products and quotients of variables.
- The violated properties of section 3, which are counterexamples and need no proof.

There is no fairness and no liveness to prove (section 1), and nothing about `ENABLED` is stated.

## 6. Plan

In place: `CouplingEngine`, `PendingWork` with its abstract `EagerRow`, `LazyEagerDuality`,
`AuthoringContext`, `SourceManager`, `RowPlans` and `SlicePlans` with proofs, `DatasetOps`,
`Composition`, `Windows` and `RowChoice`, on which they stand, and `SampledWindows`. Next, in order:

1. Proofs: for `DeferredEqualsEager`, an invariant stated on the `Meaning` of the deferred set instead
   of its run.
2. Couplings on the datasets of `RowPlans`: what `explode`, `partition` and `reduce`
   do with work pending on their operand.

## 7. Not modelled

File formats and stores, pandas arithmetic, rational sample rates, warnings and messages,
pickling, parameters and signatures of operators (only their effect), provenance
entries, composite indexes, categorical dimensions, callable resolvers and prefixes of
collisions, the other reducers, label-scoped assignment (it differs from the whole-column
one only in the rows it writes). `RowPlans` leaves couplings out: its datasets have none.
Mutation of a pandas table behind a snapshot's back is outside: the library treats tables
as frozen. `src/` imports `patchframe.data.dataset_source` and
`patchframe.data.dataset_accessor`, which the repository does not contain; what they do
is taken from `sources/memory/dataset_source.py` and `ops/builtin/offload.py`, their uses.

Seen while modelling, and not the subject of a run:

- A row whose slice is missing makes `dimension_join` raise
  (`ops/builtin/dimension_join.py`, `_resolve_operand`); the model has it as a guard
  (`Resolves`).
- A window that fits exactly may be left out, by a rounding: `AxisWindow(0.1)` over [0, 1.0) gives nine
  windows, since `0.9 // 0.1` is 8. `OnlyRoundingDecidesFit` allows it, and nothing in the
  repository says which it should be.
- `AxisWindow.offset` is not validated and may be negative; the runs use offsets from zero up.
- `ds.field()` takes the ambient context inside a block and the cached one outside it
  (`dataset/dataset.py:119`), although its docstring says that repeated calls share one.
- `register_source` replaces a live source under the same key and does not close it
  (`data/manager.py:75`); nothing promises that it would.
