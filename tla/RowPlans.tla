----------------------------- MODULE RowPlans -----------------------------
(***************************************************************************)
(* Rows, their labels, and the plans that move them.                       *)
(*                                                                         *)
(* A table index is row identity: its labels are unique, and they live in  *)
(* a namespace, the IndexIdentity of the schema's IndexField.  Operators    *)
(* inherit that identity, mint a fresh one, or coalesce several.  A plan   *)
(* is a dataset whose ForeignIndexField columns hold labels of another     *)
(* dataset's namespace; explode, merge, implode and partition(domain=...)  *)
(* follow those labels later, when the dataset they were taken from may    *)
(* have been filtered, stacked, or re-indexed.                             *)
(*                                                                         *)
(* "from" and "via" are history, not program state: the rows the program   *)
(* created that a row's values come from, and the way each cell came, both *)
(* as the references crossed.  They are what lets a property ask whether a *)
(* label still means the row it meant when it was written down.            *)
(***************************************************************************)
EXTENDS Naturals, FiniteSets, SequencesExt, RowChoice

CONSTANTS
    Null,        \* the null of a cell, and the absent fiber or domain
    KeyColumns,  \* the "key" columns the first dataset may be created with
    Selections,  \* the label sequences make_plan is called with
    Hows,        \* the inclusion rules join is called with
    PipeCalls,   \* how pipe is called: what its function does, what is declared
    MaxRows,     \* bound: rows of one dataset
    MaxDatasets, \* bound: datasets made
    MaxMinted    \* bound: index identities minted

ASSUME RowPlansAssumption ==
    /\ MaxRows \in Nat \ {0, 1}
    /\ MaxDatasets \in Nat
    /\ MaxMinted \in Nat \ {0, 1}
    /\ Null \notin 0 .. MaxRows - 1
    /\ \A key \in KeyColumns : /\ key \in Seq((0 .. MaxRows - 1) \cup {Null})
                               /\ Len(key) <= MaxRows
    /\ \A labels \in Selections : /\ labels \in Seq(0 .. MaxRows - 1)
                                  /\ Len(labels) <= MaxRows
    /\ Hows \subseteq {"inner", "left", "right", "outer"}
    /\ PipeCalls \subseteq [fn : {"sort", "sort_and_renumber"},
                           identity : {"inherit", "mint"},
                           schema : {"preserve", "construct"}]

VARIABLES store,  \* the datasets the program holds
          minted  \* how many index identities have been minted

vars == <<store, minted>>

Labels == 0 .. MaxRows - 1
FieldNames == {"item_id", "key", "plan_id", "join_id", "index",
               "source_index", "left_index", "right_index"}
ColumnTypes == {"none", "value", "foreign", "index_column"}

-----------------------------------------------------------------------------
(* Schemas, rows and datasets.                                             *)

NoColumn == [type |-> "none", of |-> 0]
ValueColumn == [type |-> "value", of |-> 0]
ForeignIndex(id) == [type |-> "foreign", of |-> id]
IndexColumn(id) == [type |-> "index_column", of |-> id]

NoColumns == [f \in FieldNames |-> NoColumn]
NoCells == [f \in FieldNames |-> Null]
Straight == [f \in FieldNames |-> <<>>]

Has(d, f) == d.col[f].type # "none"
Columns(d) == {f \in FieldNames : Has(d, f)}

Row(label, from, cell, fiber) ==
    [lbl |-> label, from |-> from, cell |-> cell, via |-> Straight, fiber |-> fiber]

Header(d) == [id |-> d.id, ix |-> d.ix, col |-> d.col]

(* What an absent fiber or domain is told apart from.                      *)
ASSUME NullIsApart ==
    /\ Null \notin [id : Nat, ix : FieldNames,
                   col : [FieldNames -> [type : ColumnTypes, of : Nat]]]
    /\ Null \notin Seq([lbl : Labels,
                       from : SUBSET [path : Seq(FieldNames \X Nat),
                                      row : {"members", "groups"} \X Nat],
                       cell : [FieldNames -> Labels \cup {Null}],
                       via : [FieldNames -> Seq(FieldNames \X Nat)], fiber : {Null}])

RowSet(d) == ToSet(d.rows)
LabelsOf(d) == {r.lbl : r \in RowSet(d)}

(* The row a label names: reindex, over an index that is unique.           *)
RowAt(d, label) == CHOOSE r \in RowSet(d) : r.lbl = label

(* DatasetState.__post_init__ refuses a table whose labels are not unique. *)
UniqueLabels(d) == Cardinality(LabelsOf(d)) = Len(d.rows)
Accepted_Any(d) == TRUE
Accepted(d) == UniqueLabels(d)

(* History: where a row's foreign column f leads, into target's namespace,  *)
(* and contents reached along a path.                                      *)
Crossing(r, f, target) == Append(r.via[f], <<f, target>>)
Through(path, from) == {[path |-> path \o x.path, row |-> x.row] : x \in from}

-----------------------------------------------------------------------------
(* Operators on one dataset.                                               *)

(* where: rows are filtered, everything else is preserved.                 *)
Where(d, kept) ==
    [d EXCEPT !.rows = Chosen(@, {i \in DOMAIN @ : @[i].lbl \in kept})]

(* The index demotes to a column that remembers its namespace.             *)
Demoted(d) == [d.col EXCEPT ![d.ix] = IndexColumn(d.id)]

(* set_index: the column becomes the index, in a fresh namespace.          *)
SetIndex_KeepsIdentity(d, f, fresh) ==
    [d EXCEPT !.ix = f,
              !.col = [Demoted(d) EXCEPT ![f] = NoColumn],
              !.rows = [i \in DOMAIN d.rows |->
                  LET r == d.rows[i] IN
                  [r EXCEPT !.lbl = r.cell[f],
                            !.cell[f] = Null, !.via[f] = <<>>, !.cell[d.ix] = r.lbl]]]
SetIndex(d, f, fresh) ==
    [d EXCEPT !.id = fresh, !.ix = f,
              !.col = [Demoted(d) EXCEPT ![f] = NoColumn],
              !.rows = [i \in DOMAIN d.rows |->
                  LET r == d.rows[i] IN
                  [r EXCEPT !.lbl = r.cell[f],
                            !.cell[f] = Null, !.via[f] = <<>>, !.cell[d.ix] = r.lbl]]]

(* reset_index: a fresh positional index named "index".                    *)
ResetIndex_AxisFirst(d, fresh) ==
    [d EXCEPT !.id = fresh, !.ix = "index", !.col = Demoted(d),
              !.rows = [i \in DOMAIN d.rows |->
                  [d.rows[i] EXCEPT !.lbl = i - 1, !.cell[d.ix] = i - 1]]]
ResetIndex(d, fresh) ==
    [d EXCEPT !.id = fresh, !.ix = "index", !.col = Demoted(d),
              !.rows = [i \in DOMAIN d.rows |->
                  LET r == d.rows[i] IN
                  [r EXCEPT !.lbl = i - 1, !.cell[d.ix] = r.lbl]]]

(* pipe: a function returns the new table, and what the call declares says *)
(* whether its rows stay in the namespace and what its columns are; a      *)
(* construct here declares the value columns and drops the others.         *)
Returned(d, fn) ==
    IF fn = "sort" THEN Reverse(d.rows)
    ELSE [i \in DOMAIN d.rows |-> [Reverse(d.rows)[i] EXCEPT !.lbl = i - 1]]

PipeSupports(call) == call.schema = "construct" => call.identity = "mint"

PipeAccepts(d, call) ==
    /\ PipeSupports(call)
    /\ call.identity = "inherit" =>
           \A r \in ToSet(Returned(d, call.fn)) : r.lbl \in LabelsOf(d)

Rebuilt(d) ==
    LET kept == {f \in FieldNames : d.col[f].type = "value"} IN
    [d EXCEPT !.fib = Null,
              !.col = [f \in FieldNames |-> IF f \in kept THEN d.col[f] ELSE NoColumn],
              !.rows = [i \in DOMAIN d.rows |->
                  [d.rows[i] EXCEPT !.fiber = Null,
                      !.cell = [f \in FieldNames |->
                          IF f \in kept THEN d.rows[i].cell[f] ELSE Null],
                      !.via = [f \in FieldNames |->
                          IF f \in kept THEN d.rows[i].via[f] ELSE <<>>]]]]

Pipe(d, call, fresh) ==
    LET returned == [d EXCEPT !.rows = Returned(d, call.fn),
                              !.id = IF call.identity = "mint" THEN fresh ELSE d.id] IN
    IF call.schema = "construct" THEN Rebuilt(returned) ELSE returned

(* link: a value column is retyped as a reference into target's namespace. *)
Link(d, target, f) == [d EXCEPT !.col[f] = ForeignIndex(target.id)]

Dangling(d, target, f) ==
    \E r \in RowSet(d) : r.cell[f] \notin LabelsOf(target)

-----------------------------------------------------------------------------
(* Stacking and aligning.                                                  *)

(* The identity of a composition: the one its inputs share, or a fresh one.*)
Coalesced(d, e, fresh) == IF d.id = e.id THEN d.id ELSE fresh

ConcatRows(d, e, fresh) ==
    [d EXCEPT !.id = Coalesced(d, e, fresh), !.rows = d.rows \o e.rows]

ForeignColumns(d) == {f \in FieldNames : d.col[f].type = "foreign"}

(* keep(plan, names): a plan narrowed to some of its references; values    *)
(* gathered beside them stay behind.                                       *)
Keep(d, names) ==
    [d EXCEPT !.col = [f \in FieldNames |->
                          IF f \in names THEN d.col[f] ELSE NoColumn],
              !.fib = Null,
              !.rows = [i \in DOMAIN d.rows |->
                  [d.rows[i] EXCEPT !.from = {},
                      !.cell = [f \in FieldNames |->
                          IF f \in names THEN d.rows[i].cell[f] ELSE Null],
                      !.via = [f \in FieldNames |->
                          IF f \in names THEN d.rows[i].via[f] ELSE <<>>],
                      !.fiber = Null]]]

EmptyRow(label) == Row(label, {}, NoCells, Null)

RowOrEmpty(d, label) ==
    IF label \in LabelsOf(d) THEN RowAt(d, label) ELSE EmptyRow(label)

(* Two rows side by side; no column belongs to both.                       *)
Beside(label, r, s) ==
    [lbl |-> label, from |-> r.from \cup s.from,
     cell |-> [f \in FieldNames |-> IF r.cell[f] # Null THEN r.cell[f] ELSE s.cell[f]],
     via |-> [f \in FieldNames |-> IF r.cell[f] # Null THEN r.via[f] ELSE s.via[f]],
     fiber |-> IF r.fiber # Null THEN r.fiber ELSE s.fiber]

BesideColumns(d, e) ==
    [f \in FieldNames |-> IF Has(d, f) THEN d.col[f] ELSE e.col[f]]

(* The labels an outer alignment yields: as they are when both sides agree,*)
(* sorted otherwise.                                                       *)
AlignedLabels(d, e) ==
    LET of(x) == [i \in DOMAIN x.rows |-> x.rows[i].lbl] IN
    IF of(d) = of(e) THEN of(d)
    ELSE Chosen([n \in 1 .. MaxRows |-> n - 1],
                {n \in 1 .. MaxRows : n - 1 \in LabelsOf(d) \cup LabelsOf(e)})

(* concat_columns of inputs that share a namespace and no column.          *)
ConcatColumns(d, e) ==
    LET labels == AlignedLabels(d, e) IN
    [d EXCEPT !.col = BesideColumns(d, e),
              !.fib = IF d.fib # Null THEN d.fib ELSE e.fib,
              !.rows = [i \in DOMAIN labels |->
                  Beside(labels[i], RowOrEmpty(d, labels[i]),
                                    RowOrEmpty(e, labels[i]))]]

-----------------------------------------------------------------------------
(* Making plans.                                                           *)

PlanDataset(fresh, index, columns, rows) ==
    [id |-> fresh, ix |-> index, fib |-> Null, rows |-> rows,
     col |-> [f \in FieldNames |->
                 IF f \in DOMAIN columns THEN columns[f] ELSE NoColumn]]

(* make_plan: one row per label, on a fresh positional index.              *)
MakePlan(target, labels, fresh) ==
    PlanDataset(fresh, "plan_id",
        [f \in {"source_index"} |-> ForeignIndex(target.id)],
        [i \in DOMAIN labels |->
            Row(i - 1, {}, [NoCells EXCEPT !["source_index"] = labels[i]], Null)])

(* The pairs of positions join finds; zero stands for no partner.          *)
Matches(l, r, on) ==
    {p \in (DOMAIN l.rows) \X (DOMAIN r.rows) :
        IF on = "index" THEN l.rows[p[1]].lbl = r.rows[p[2]].lbl
                        ELSE l.rows[p[1]].cell[on] = r.rows[p[2]].cell[on]}

JoinPairs(l, r, on, how) ==
    LET matched == Matches(l, r, on)
        lone == {i \in DOMAIN l.rows : \A p \in matched : p[1] # i}
        orphans == {j \in DOMAIN r.rows : \A p \in matched : p[2] # j} IN
    matched \cup (IF how \in {"left", "outer"} THEN lone \X {0} ELSE {})
            \cup (IF how \in {"right", "outer"} THEN {0} \X orphans ELSE {})

(* Left rows in order with their partners, rows without a left one last;   *)
(* a right join follows the right rows.                                    *)
PairOrder(how, l, r) ==
    LET N == Len(l.rows)
        M == Len(r.rows)
        pair(i, j) == <<IF i > N THEN 0 ELSE i, IF j > M THEN 0 ELSE j>> IN
    IF how = "right"
    THEN FlattenSeq([j \in 1 .. M + 1 |-> [i \in 1 .. N + 1 |-> pair(i, j)]])
    ELSE FlattenSeq([i \in 1 .. N + 1 |-> [j \in 1 .. M + 1 |-> pair(i, j)]])

Join(l, r, on, how, fresh) ==
    LET order == PairOrder(how, l, r)
        pairs == Chosen(order, {n \in DOMAIN order : order[n] \in JoinPairs(l, r, on, how)})
        label(d, i) == IF i = 0 THEN Null ELSE d.rows[i].lbl IN
    PlanDataset(fresh, "join_id",
        [f \in {"left_index", "right_index"} |->
            IF f = "left_index" THEN ForeignIndex(l.id) ELSE ForeignIndex(r.id)],
        [i \in DOMAIN pairs |->
            Row(i - 1, {}, [NoCells EXCEPT !["left_index"] = label(l, pairs[i][1]),
                                           !["right_index"] = label(r, pairs[i][2])],
                Null)])

-----------------------------------------------------------------------------
(* Following plans.                                                        *)

(* A row reached along a path, under the label it is gathered to.          *)
Reached(r, label, path) ==
    [lbl |-> label, from |-> Through(path, r.from), cell |-> r.cell,
     via |-> [f \in FieldNames |-> IF r.cell[f] = Null THEN <<>> ELSE path \o r.via[f]],
     fiber |-> r.fiber]

(* The rows a plan's foreign column names, in the plan's rows and order.   *)
Gathered_ByPosition(d, p, f, i) ==
    LET r == IF p.rows[i].cell[f] = Null THEN EmptyRow(Null)
             ELSE d.rows[IF i <= Len(d.rows) THEN i ELSE Len(d.rows)] IN
    Reached(r, p.rows[i].lbl, Crossing(p.rows[i], f, d.id))
Gathered(d, p, f, i) ==
    LET label == p.rows[i].cell[f]
        r == IF label = Null THEN EmptyRow(Null) ELSE RowAt(d, label) IN
    Reached(r, p.rows[i].lbl, Crossing(p.rows[i], f, d.id))

LabelsFound(d, p, f) ==
    \A r \in RowSet(p) : r.cell[f] # Null => r.cell[f] \in LabelsOf(d)

NoNulls(p, f) == \A r \in RowSet(p) : r.cell[f] # Null

(* resolve_plan_foreign_index and validate_foreign_index_labels accept it. *)
PlansOver(p, d, f) ==
    /\ p.col[f] = ForeignIndex(d.id)
    /\ NoNulls(p, f) /\ LabelsFound(d, p, f)

(* Plan columns that are not references overlay source columns of the name.*)
Overlays(s, p) ==
    {f \in FieldNames : p.col[f].type \in {"value", "index_column"} /\ Has(s, f)}

Explodes(s, p, f) ==
    /\ PlansOver(p, s, f)
    /\ ~Has(s, p.ix)
    /\ \A g \in Overlays(s, p) : s.col[g] = p.col[g]

Explode(s, p, f) ==
    [s EXCEPT !.id = p.id, !.ix = p.ix,
              !.rows = [i \in DOMAIN p.rows |->
                  LET r == Gathered(s, p, f, i) IN
                  [r EXCEPT !.cell = [g \in FieldNames |->
                      IF g \in Overlays(s, p) THEN p.rows[i].cell[g] ELSE r.cell[g]],
                            !.via = [g \in FieldNames |->
                      IF g \in Overlays(s, p) THEN p.rows[i].via[g] ELSE r.via[g]]]]]

(* merge: both sides gathered beside the plan's own columns; a collision   *)
(* of names is refused.                                                    *)
Merges(l, r, p) ==
    /\ p.col["left_index"] = ForeignIndex(l.id) /\ LabelsFound(l, p, "left_index")
    /\ p.col["right_index"] = ForeignIndex(r.id) /\ LabelsFound(r, p, "right_index")
    /\ Columns(l) \cap Columns(r) = {}
    /\ (Columns(l) \cup Columns(r)) \cap (Columns(p) \cup {p.ix}) = {}
    /\ Cardinality({x \in 1 .. 3 : <<l, r, p>>[x].fib # Null}) <= 1

Merge(l, r, p) ==
    [p EXCEPT !.col = BesideColumns(p, PlanDataset(0, "", BesideColumns(l, r), <<>>)),
              !.fib = IF p.fib # Null THEN p.fib
                      ELSE IF l.fib # Null THEN l.fib ELSE r.fib,
              !.rows = [i \in DOMAIN p.rows |->
                  LET label == p.rows[i].lbl IN
                  Beside(label, p.rows[i],
                      Beside(label, Gathered(l, p, "left_index", i),
                                    Gathered(r, p, "right_index", i)))]]

-----------------------------------------------------------------------------
(* Grouping.                                                               *)

(* Each distinct key once, in the order of first appearance.               *)
FirstAppearances(keys) ==
    Chosen(keys, {i \in DOMAIN keys : \A j \in 1 .. i - 1 : keys[j] # keys[i]})

Partitions(d, f, domain) ==
    /\ Has(d, f)
    /\ domain # Null => /\ d.col[f] = ForeignIndex(domain.id)
                        /\ \A r \in RowSet(d) : r.cell[f] \in LabelsOf(domain) \cup {Null}

(* Rows with a null key are dropped or refused before this point.          *)
Keyed(d, f) ==
    [d EXCEPT !.rows = Chosen(@, {i \in DOMAIN @ : @[i].cell[f] # Null})]

Partition(d, f, domain, fresh) ==
    LET rows == Keyed(d, f).rows
        labels == IF domain = Null
                  THEN FirstAppearances([i \in DOMAIN rows |-> rows[i].cell[f]])
                  ELSE [i \in DOMAIN domain.rows |-> domain.rows[i].lbl] IN
    [id |-> IF d.col[f].type = "foreign" THEN d.col[f].of ELSE fresh,
     ix |-> IF domain = Null THEN f ELSE domain.ix,
     col |-> NoColumns,
     fib |-> Header(d),
     rows |-> [i \in DOMAIN labels |->
         Row(labels[i], {}, NoCells,
             Chosen(rows, {n \in DOMAIN rows : rows[n].cell[f] = labels[i]}))]]

(* A composite key: the groups are the combinations found, in a fresh      *)
(* namespace; a row with a null in any part of its key has no group.       *)
KeyOf(r, by) == [k \in DOMAIN by |-> r.cell[by[k]]]

PartitionByAll_LastPart(d, by, fresh) ==
    LET rows == Chosen(d.rows, {n \in DOMAIN d.rows : KeyOf(d.rows[n], by)[Len(by)] # Null})
        labels == FirstAppearances([i \in DOMAIN rows |-> KeyOf(rows[i], by)]) IN
    [id |-> fresh, ix |-> "key", col |-> NoColumns, fib |-> Header(d),
     rows |-> [i \in DOMAIN labels |->
         Row(labels[i], {}, NoCells,
             Chosen(rows, {n \in DOMAIN rows : KeyOf(rows[n], by) = labels[i]}))]]
PartitionByAll(d, by, fresh) ==
    LET rows == Chosen(d.rows, {n \in DOMAIN d.rows : Null \notin ToSet(KeyOf(d.rows[n], by))})
        labels == FirstAppearances([i \in DOMAIN rows |-> KeyOf(rows[i], by)]) IN
    [id |-> fresh, ix |-> "key", col |-> NoColumns, fib |-> Header(d),
     rows |-> [i \in DOMAIN labels |->
         Row(labels[i], {}, NoCells,
             Chosen(rows, {n \in DOMAIN rows : KeyOf(rows[n], by) = labels[i]}))]]

(* reduce: groups, with one value per fiber in place of the fiber.         *)
Count(fiber) == Len(fiber)
Total(fiber, f) ==
    SumFunction([i \in DOMAIN fiber |->
                    IF fiber[i].cell[f] = Null THEN 0 ELSE fiber[i].cell[f]])
Distinct(fiber, f) == Cardinality({r.cell[f] : r \in ToSet(fiber)} \ {Null})

Reduce(b, f) ==
    [label \in LabelsOf(b) |->
        LET fiber == RowAt(b, label).fiber IN
        [count |-> Count(fiber), total |-> Total(fiber, f), distinct |-> Distinct(fiber, f)]]

(* A fiber is a dataset: rows of the partitioned one under its schema.     *)
Fiber(b, r) == [id |-> b.fib.id, ix |-> b.fib.ix, col |-> b.fib.col,
                fib |-> Null, rows |-> r.fiber]
Fibers(b) == {Fiber(b, r) : r \in {x \in RowSet(b) : x.fiber # Null}}

(* flatten: every fiber that is there, stacked.                            *)
Flatten_FirstFiber(b) ==
    LET cells == Chosen(b.rows, {i \in DOMAIN b.rows : b.rows[i].fiber # Null}) IN
    Fiber(b, cells[1])
Flatten(b) ==
    LET cells == Chosen(b.rows, {i \in DOMAIN b.rows : b.rows[i].fiber # Null}) IN
    Fiber(b, [fiber |-> FlattenSeq([i \in DOMAIN cells |-> cells[i].fiber])])

(* implode: gather the members, tag each with its group, group them.       *)
Implodes(m, p, domain) ==
    /\ Explodes(m, p, "right_index")
    /\ p.col["left_index"].type = "foreign" /\ NoNulls(p, "left_index")
    /\ {"left_index", "right_index"} \cap Columns(m) = {}
    /\ domain # Null => /\ p.col["left_index"] = ForeignIndex(domain.id)
                        /\ LabelsFound(domain, p, "left_index")

Implode_NotTotal(m, p, domain) ==
    Partition(ConcatColumns(Explode(m, p, "right_index"),
                            Keep(p, {"left_index", "right_index"})),
              "left_index", Null, 0)
Implode(m, p, domain) ==
    Partition(ConcatColumns(Explode(m, p, "right_index"),
                            Keep(p, {"left_index", "right_index"})),
              "left_index", domain, 0)

-----------------------------------------------------------------------------
(* The program: creation, then any operator on any datasets it holds.      *)

(* make_from_dataframe: two rows, labelled by position, a fresh identity.  *)
Created(id, root, columns, key) ==
    [id |-> id, ix |-> "item_id", col |-> columns, fib |-> Null,
     rows |-> [i \in DOMAIN key |->
         Row(i - 1, {[path |-> <<>>, row |-> <<root, i - 1>>]},
             [NoCells EXCEPT !["key"] = key[i]], Null)]]

(* Members with a key column, the same members filtered, and groups.       *)
Init ==
    \E key \in KeyColumns :
        LET members == Created(1, "members",
                               [NoColumns EXCEPT !["key"] = ValueColumn], key)
            groups == Created(2, "groups", NoColumns, <<Null, Null>>) IN
        /\ store = {members, Where(members, {1}), groups}
        /\ minted = 2

Fresh == minted + 1

(* A result exists once DatasetState has accepted it; it uses up an        *)
(* identity when it carries the fresh one.                                 *)
Keeps(d) ==
    /\ Accepted(d) /\ Len(d.rows) <= MaxRows
    /\ d \notin store
    /\ store' = store \cup {d}
    /\ minted' = IF d.id = Fresh THEN Fresh ELSE minted
    /\ minted' <= MaxMinted

FilterRows == \E d \in store : \E kept \in SUBSET LabelsOf(d) : Keeps(Where(d, kept))

Stack ==
    \E d, e \in store :
        /\ d.ix = e.ix /\ d.col = e.col /\ d.fib = e.fib
        /\ Keeps(ConcatRows(d, e, Fresh))

Align ==
    \E d, p \in store :
        /\ d.id = p.id /\ d.ix = p.ix
        /\ Columns(d) \cap ForeignColumns(p) = {}
        /\ Keeps(ConcatColumns(d, Keep(p, ForeignColumns(p))))

PromoteColumn ==
    \E d \in store : \E f \in Columns(d) :
        /\ \A r \in RowSet(d) : r.cell[f] # Null
        /\ Keeps(SetIndex(d, f, Fresh))

TransformTable ==
    \E d \in store, call \in PipeCalls : PipeAccepts(d, call) /\ Keeps(Pipe(d, call, Fresh))

Reset == \E d \in store : ~Has(d, "index") /\ d.ix # "index" /\ Keeps(ResetIndex(d, Fresh))

Reference ==
    \E d, target \in store : \E f \in Columns(d) : \E allowDangling \in BOOLEAN :
        /\ d.col[f] = ValueColumn
        /\ allowDangling \/ ~Dangling(d, target, f)
        /\ Keeps(Link(d, target, f))

PlanLabels ==
    \E target \in store, labels \in Selections :
        /\ ToSet(labels) \subseteq LabelsOf(target)
        /\ Keeps(MakePlan(target, labels, Fresh))

JoinRows ==
    \E l, r \in store, how \in Hows, on \in {"index", "key"} :
        /\ on = "key" => Has(l, on) /\ Has(r, on) /\ l.col[on] = r.col[on]
        /\ Keeps(Join(l, r, on, how, Fresh))

ExpandByPlan ==
    \E s, p \in store : \E f \in ForeignColumns(p) :
        Explodes(s, p, f) /\ Keeps(Explode(s, p, f))

MergeByPlan == \E l, r, p \in store : Merges(l, r, p) /\ Keeps(Merge(l, r, p))

GroupRows ==
    \E d \in store : \E f \in Columns(d) : \E domain \in store \cup {Null} :
        /\ d.fib = Null /\ Partitions(d, f, domain)
        /\ Keeps(Partition(d, f, domain, Fresh))

FlattenFibers ==
    \E b \in store :
        /\ b.fib # Null /\ \E r \in RowSet(b) : r.fiber # Null
        /\ Keeps(Flatten(b))

CollapseByPlan ==
    \E m, p \in store : \E domain \in store \cup {Null} :
        /\ m.fib = Null /\ Implodes(m, p, domain)
        /\ Keeps(Implode(m, p, domain))

Next ==
    /\ Cardinality(store) < MaxDatasets
    /\ \/ FilterRows \/ Stack \/ Align \/ PromoteColumn \/ Reset \/ TransformTable
       \/ Reference \/ PlanLabels \/ JoinRows \/ ExpandByPlan \/ MergeByPlan
       \/ GroupRows \/ FlattenFibers \/ CollapseByPlan

Spec == Init /\ [][Next]_vars

-----------------------------------------------------------------------------
(* What must hold.                                                         *)

(* Every dataset held, and every dataset nested in one of them.            *)
Held == store \cup UNION {Fibers(b) : b \in {x \in store : x.fib # Null}}

(* Type invariant: identities have been minted, references name one, and   *)
(* no dataset holds two rows under one label.                              *)
TypeOK ==
    /\ minted \in 0 .. MaxMinted
    /\ \A d \in Held :
        /\ d.id \in 1 .. minted /\ d.ix \in FieldNames /\ ~Has(d, d.ix)
        /\ d.col \in [FieldNames -> [type : ColumnTypes, of : 0 .. minted]]
        /\ UniqueLabels(d) /\ LabelsOf(d) \subseteq Labels
        /\ \A r \in RowSet(d) : r.cell \in [FieldNames -> Labels \cup {Null}]

(* Two contents agree when no path leads them to different rows.           *)
Agree(x, y) == \A a \in x, b \in y : a.path = b.path => a.row = b.row

(* Within one index identity a label means one row, in every dataset of    *)
(* that identity: the program may have filtered, stacked, re-indexed,      *)
(* expanded and grouped in any order, and identity alone (never the        *)
(* content) decides that rows correspond.                                  *)
LabelMeansOneRow ==
    \A d, e \in Held : d.id = e.id =>
        \A r \in RowSet(d), s \in RowSet(e) : r.lbl = s.lbl => Agree(r.from, s.from)

(* A row that carries both a reference and values gathered through it      *)
(* carries the values of the row it references, whichever dataset of that  *)
(* identity they were gathered from and whatever was aligned onto it since.*)
GatheredRowIsTheReferencedRow ==
    \A d, e \in Held : \A f \in ForeignColumns(d) : d.col[f].of = e.id =>
        \A r \in RowSet(d), s \in RowSet(e) : r.cell[f] = s.lbl =>
            Agree(r.from, Through(Crossing(r, f, e.id), s.from))

(* An index demoted to a column still names, in the namespace the column   *)
(* remembers, the row whose values stand beside it.                        *)
DemotedIndexKeepsItsMeaning ==
    \A d, e \in Held : \A f \in Columns(d) : d.col[f] = IndexColumn(e.id) =>
        \A r \in RowSet(d), s \in RowSet(e) : r.cell[f] = s.lbl =>
            Agree(r.from, Through(r.via[f], s.from))

(* implode, built from explode, concat_columns and partition, is the       *)
(* relation the plan states: a group holds one member row per pair that    *)
(* names it, a member of two groups is in both, and over a domain every    *)
(* group is there, matched or not.                                         *)
ImplodeIsTheRelation ==
    \A p \in {x \in store : Has(x, "left_index")}, m \in store :
        \A domain \in store \cup {Null} :
        m.fib = Null /\ Implodes(m, p, domain) =>
            LET b == Implode(m, p, domain)
                pairs(g) == {q \in RowSet(p) : q.cell["left_index"] = g} IN
            /\ LabelsOf(b) = IF domain # Null THEN LabelsOf(domain)
                             ELSE {q.cell["left_index"] : q \in RowSet(p)}
            /\ \A r \in RowSet(b) :
                /\ Len(r.fiber) = Cardinality(pairs(r.lbl))
                /\ \A q \in pairs(r.lbl) : \E x \in ToSet(r.fiber) :
                    /\ x.lbl = q.lbl
                    /\ x.from = Through(Crossing(q, "right_index", m.id),
                                        RowAt(m, q.cell["right_index"]).from)

(* flatten undoes partition: the rows come back under their own schema and *)
(* identity, up to order and the rows whose key is null.                   *)
FlattenUndoesPartition ==
    \A d \in store : \A f \in Columns(d) : \A domain \in store \cup {Null} :
        d.fib = Null /\ Partitions(d, f, domain) =>
            LET b == Partition(d, f, domain, minted + 1)
                back == Flatten(b) IN
            b.rows # <<>> => /\ Header(back) = Header(d)
                             /\ RowSet(back) = RowSet(Keyed(d, f))
                             /\ Len(back.rows) = Len(Keyed(d, f).rows)

(* Counts and sums of the fine groups that begin with x add up to those of *)
(* x; a distinct count cannot be rolled up, only bounded.                  *)
RollsUpTo(fine, coarse) ==
    LET within(x) == {key \in DOMAIN fine : key[1] = x} IN
    /\ {key[1] : key \in DOMAIN fine} = DOMAIN coarse
    /\ \A x \in DOMAIN coarse :
        /\ coarse[x].count = SumFunction([key \in within(x) |-> fine[key].count])
        /\ coarse[x].total = SumFunction([key \in within(x) |-> fine[key].total])
        /\ coarse[x].distinct <= SumFunction([key \in within(x) |-> fine[key].distinct])

(* reduce by a composite key, rolled up over the second part, is reduce by *)
(* the first, whichever column is reduced, over the rows with both parts.  *)
ReductionsRollUp ==
    \A d \in store : \A f, g, h \in Columns(d) : d.fib = Null /\ f # g =>
        RollsUpTo(Reduce(PartitionByAll(d, <<f, g>>, minted + 1), h),
                  Reduce(Partition(Keyed(d, g), f, Null, minted + 1), h))
=============================================================================
