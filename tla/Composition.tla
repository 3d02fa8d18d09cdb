------------------------------ MODULE Composition ------------------------------
(***************************************************************************)
(* concat_columns and concat_rows over snapshots with pending work: the    *)
(* field policies (dataset/field_composition.py), the composition lineage  *)
(* (ops/resolution.py) and the coupling union (ops/dispatch.py).           *)
(*                                                                         *)
(* The three aspects of a composition are computed by three separate       *)
(* hooks: the schema picks a field per name, the table a value per name,   *)
(* and the couplings are pruned by name and input.  Nothing but the shared *)
(* MergedField keeps the three on one winner.  The inputs share an index   *)
(* identity and their rows correspond; namespaces are RowPlans' matter.    *)
(*                                                                         *)
(* A strategy is [mode, side, on_conflict], as ColumnCollisionStrategy.    *)
(***************************************************************************)
EXTENDS DatasetOps

Modes == {"error", "rename", "keep", "update_missing", "coalesce"}
Sides == {"left", "right"}
Conflicts == {"keep_chosen", "raise"}

Collisions(a, b) == Fields(a) \cap Fields(b)

Winner(a, b, strategy) == IF strategy.side = "left" THEN a ELSE b
Loser(a, b, strategy) == IF strategy.side = "left" THEN b ELSE a

-----------------------------------------------------------------------------
(* Fields *)

(* The registered policy of a field type accepts the other field: the same *)
(* type, and for a DimensionField the same dimension.  (dim is NoTag for   *)
(* every other kind that declares none.)                                   *)
SameType(f, g) == f.kind = g.kind /\ (f.kind = "dim" => f.dim = g.dim)

(* MergedField.over: error and rename never compose, keep takes the chosen *)
(* side whole, the filling modes need one type and keep the chosen side's  *)
(* identity.                                                               *)
Mergeable(f, g, strategy) ==
  \/ strategy.mode = "keep"
  \/ strategy.mode \in {"update_missing", "coalesce"} /\ SameType(f, g)

MergedField(a, b, n, strategy) ==
  IF strategy.mode = "keep" THEN Winner(a, b, strategy).schema[n]
  ELSE [a.schema[n] EXCEPT !.id = Winner(a, b, strategy).schema[n].id]

(* A row unification keeps an identity all parents share, or mints one.    *)
UnifiedField(f, g, fresh) == IF f.id = g.id THEN f ELSE [f EXCEPT !.id = fresh]

-----------------------------------------------------------------------------
(* Values *)

ConflictRaised(x, y, strategy) ==
  strategy.on_conflict = "raise" /\ x # Null /\ y # Null /\ x # y

(* resolve_column_collision *)
ResolvedValue(a, b, n, strategy) ==
  IF strategy.mode # "keep" /\ Winner(a, b, strategy).stored[n] = Null
  THEN Loser(a, b, strategy).stored[n] ELSE Winner(a, b, strategy).stored[n]

-----------------------------------------------------------------------------
(* Couplings *)

Touches(c, names) == (c.ins \cup {c.out}) \cap names # {}

(* Couplings the input that lost the collisions recorded over them. *)
Pruned_OutputsOnly(cs, names) == Without(cs, {i \in DOMAIN cs : cs[i].out \in names})

Pruned(cs, names) == Without(cs, {i \in DOMAIN cs : Touches(cs[i], names)})

(* The lineage's rename pairs: a field that only b has, and that a has     *)
(* under another name (the first input to hold its FieldIdentity), as the  *)
(* map from a's name to b's.  It is applied to the couplings of BOTH.      *)
RenamedTwin(a, b, n) ==
  {m \in Fields(b) \ Fields(a) : n \in Fields(a) /\ b.schema[m].id = a.schema[n].id}

RenameMap(a, b) ==
  [n \in Fields(a) \cup Fields(b) |->
     IF RenamedTwin(a, b, n) = {} THEN n ELSE CHOOSE m \in RenamedTwin(a, b, n) : TRUE]

(* The couplings of ys that are not in xs yet, after those of xs. *)
Union(xs, ys) ==
  LET add[k \in 0 .. Len(ys)] == IF k = 0 THEN xs ELSE Added(add[k-1], ys[k])
  IN  add[Len(ys)]

ComposedPending(a, b, strategy) ==
  LET lost == Collisions(a, b)
      left  == IF strategy.side = "left" THEN a.pending ELSE Pruned(a.pending, lost)
      right == IF strategy.side = "left" THEN Pruned(b.pending, lost) ELSE b.pending
      to == RenameMap(a, b)
      names == Fields(a) \cup Fields(b)
  IN  Union(Retained(Rewritten(left, to), names), Retained(Rewritten(right, to), names))

-----------------------------------------------------------------------------
(* Operators *)

CanConcatColumns(a, b, strategy) ==
  \A n \in Collisions(a, b) :
    /\ Mergeable(a.schema[n], b.schema[n], strategy)
    /\ ~ConflictRaised(a.stored[n], b.stored[n], strategy)

ConcatColumns(a, b, strategy) ==
  LET names == Fields(a) \cup Fields(b)
  IN  [schema  |-> [n \in names |->
                      IF n \in Collisions(a, b) THEN MergedField(a, b, n, strategy)
                      ELSE IF n \in Fields(a) THEN a.schema[n] ELSE b.schema[n]],
       stored  |-> [n \in names |->
                      IF n \in Collisions(a, b) THEN ResolvedValue(a, b, n, strategy)
                      ELSE IF n \in Fields(a) THEN a.stored[n] ELSE b.stored[n]],
       pending |-> ComposedPending(a, b, strategy)]

(* concat_rows: shared names unify, and row stacking is refused unless the *)
(* pending sets are equal.                                                 *)
CanConcatRows(a, b) ==
  /\ \A n \in Collisions(a, b) : SameType(a.schema[n], b.schema[n])
  /\ a.pending = b.pending

(* The result, at a row that came from a: columns only b has are missing.  *)
(* fresh is one new FieldIdentity per shared name.                         *)
ConcatRows(a, b, fresh) ==
  LET names == Fields(a) \cup Fields(b)
  IN  [schema  |-> [n \in names |->
                      IF n \in Collisions(a, b)
                      THEN UnifiedField(a.schema[n], b.schema[n], fresh[n])
                      ELSE IF n \in Fields(a) THEN a.schema[n] ELSE b.schema[n]],
       stored  |-> [n \in names |-> IF n \in Fields(a) THEN a.stored[n] ELSE Null],
       pending |-> a.pending]
=============================================================================
