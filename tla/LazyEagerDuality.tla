--------------------------- MODULE LazyEagerDuality ---------------------------
(***************************************************************************)
(* One program run through both call forms of every operator: `lazy` is    *)
(* the snapshot built by handing the operators FieldHandles (couplings     *)
(* recorded, collected later), `eager` the one built by handing them the   *)
(* Dataset (the work done at once).  README.md, "Lazy and eager duality".  *)
(*                                                                         *)
(* A composition takes another dataset in both forms as well: `Others`.    *)
(*                                                                         *)
(* Three documented effects part the programs; `parted` holds the fields   *)
(* they reach:                                                             *)
(*   - assign onto a field with pending work into it or out of it: the     *)
(*     work recomputes over, or from, the new values;                      *)
(*   - drop of a field pending work needs: the work is pruned (with a      *)
(*     warning) and its output stays unfilled;                             *)
(*   - a name collision in concat_columns: the losing side's pending work  *)
(*     over the name is pruned, and a column is filled from what is stored.*)
(***************************************************************************)
EXTENDS Naturals, Sequences, FiniteSets, Composition

CONSTANTS
  FirstId,     \* the first FieldIdentity or value the program mints; those
               \* of Source and of Others are older
  Source,      \* the fields at first: name -> [kind, id, dim]; dim is the
               \* dimension of a dim field, the one a slice field's stored
               \* slices select (NoTag: they are null)
  Spare,       \* further field names
  MaxRecords,  \* bound: couplings recorded in one behaviour
  MaxEdits,    \* bound: renames, drops and assignments in one behaviour
  Repeats,     \* whether a coupling may be recorded again while an equal
               \* one is pending under a later coupling of its chain
  Others,      \* other datasets to compose with: [lazy, eager] snapshots,
               \* of one recording in its two forms
  Strategies,  \* the collision strategies concat_columns is called with
  Twins        \* whether a composition may meet one field, the same
               \* FieldIdentity, under two names

AllNames == DOMAIN Source \cup Spare \cup UNION {Fields(o.lazy) : o \in Others}

(* What a schema says of a field whose FieldIdentity is one of ids. *)
FieldSpec(ids) == [kind : {"data", "slice", "dim", "value"}, id : ids, dim : Nat]

(* A coupling computes from fields it reads; only a mapping does not read  *)
(* what it writes.                                                         *)
Coupling(names) ==
  {c \in [op : {"BindSlice", "BindDimensions", "Materialize", "Map"},
          ins : SUBSET names, out : names, args : Seq(names), tag : Nat] :
     /\ \A k \in DOMAIN c.args : c.args[k] \in c.ins
     /\ c.op # "Map" => c.out \in c.ins
     /\ c.op \in {"BindSlice", "BindDimensions"} => Len(c.args) = 1}

(* A snapshot made before the program starts. *)
Earlier(snap) ==
  /\ snap = [schema |-> snap.schema, stored |-> snap.stored, pending |-> snap.pending]
  /\ snap.schema \in [Fields(snap) -> FieldSpec(1 .. FirstId - 1)]
  /\ snap.stored = [n \in Fields(snap) |-> snap.stored[n]]
  /\ snap.pending \in Seq(Coupling(Fields(snap)))
  /\ \A i, j \in DOMAIN snap.pending : snap.pending[i] = snap.pending[j] => i = j
  /\ \A m, n \in Fields(snap) : snap.schema[m].id = snap.schema[n].id => m = n
  /\ Usable(snap)

ASSUME SourceAssumption ==
  /\ FirstId \in Nat \ {0}
  /\ Source \in [DOMAIN Source -> FieldSpec(1 .. FirstId - 1)]
  /\ \A m, n \in DOMAIN Source : Source[m].id = Source[n].id => m = n
ASSUME BoundsAssumption == MaxRecords \in Nat /\ MaxEdits \in Nat
ASSUME FlagsAssumption == Repeats \in BOOLEAN /\ Twins \in BOOLEAN
ASSUME StrategiesAssumption ==
  Strategies \subseteq [mode : Modes, side : Sides, on_conflict : Conflicts]
(* The eager form of another dataset has declared bindings pending only.   *)
ASSUME OthersAssumption ==
  \A o \in Others :
    /\ o.lazy.schema = o.eager.schema /\ IsFiniteSet(Fields(o.lazy))
    /\ Earlier(o.lazy) /\ Earlier(o.eager)
    /\ \A i \in DOMAIN o.eager.pending :
         o.eager.pending[i] = Materialize(o.eager.pending[i].out)

VARIABLES
  lazy,      \* snapshot of the deferred program
  eager,     \* snapshot of the eager program
  parted,    \* fields the two programs need not agree on
  minted,    \* the next FieldIdentity or value to mint
  records,   \* recordings so far
  edits      \* edits so far

vars == <<lazy, eager, parted, minted, records, edits>>

InitialValue(f) ==
  CASE f.kind = "data"  -> Accessor(f.id, Null)
    [] f.kind = "slice" ->
         IF f.dim = NoTag THEN Null ELSE Slice([x \in {f.dim} |-> Scalar(f.id)])
    [] OTHER            -> Scalar(f.id)

(* names, and every field pending work computes from them. *)
Downstream(cs, names) ==
  LET grow[k \in 0 .. Len(cs)] ==
        IF k = 0 THEN names
        ELSE LET prev == grow[k-1]
             IN  prev \cup {cs[i].out : i \in {j \in DOMAIN cs : cs[j].ins \cap prev # {}}}
  IN  grow[Len(cs)]

Recorded(cs) == {cs[i] : i \in DOMAIN cs}

Outputs(cs) == {c.out : c \in Recorded(cs)}

-----------------------------------------------------------------------------
Init ==
  /\ lazy = [schema  |-> Source,
             stored  |-> [n \in DOMAIN Source |-> InitialValue(Source[n])],
             pending |-> <<>>]
  /\ eager = lazy
  /\ parted = {}
  /\ minted = FirstId
  /\ records = 0
  /\ edits = 0

Recording ==
  /\ records < MaxRecords
  /\ records' = records + 1
  /\ parted' = Downstream(lazy'.pending, parted)
  /\ UNCHANGED edits

(* c is recorded again although a later coupling of its chain is pending. *)
Repeated(c) ==
  \E i, j \in DOMAIN lazy.pending :
    i < j /\ lazy.pending[i] = c /\ lazy.pending[j].out = c.out

Map(inputs, out) ==
  /\ CanMap(lazy, inputs, out)
  /\ lazy' = DeferMap(lazy, inputs, out, minted)
  /\ eager' = EagerMap(eager, inputs, out, minted)
  /\ minted' = minted + 1
  /\ Recording

ComposeSlice(slice_field, field) ==
  /\ CanCompose(lazy, slice_field, field)
  /\ Repeats \/ ~Repeated(BindDimensions(slice_field, field, lazy.schema[field].dim))
  /\ lazy' = DeferCompose(lazy, slice_field, field)
  /\ eager' = EagerCompose(eager, slice_field, field)
  /\ Recording
  /\ UNCHANGED minted

SliceData(slice_field, data_field) ==
  /\ CanSlice(lazy, slice_field, data_field)
  /\ Repeats \/ ~Repeated(BindSlice(slice_field, data_field))
  /\ lazy' = DeferSlice(lazy, slice_field, data_field)
  /\ eager' = EagerSlice(eager, slice_field, data_field)
  /\ Recording
  /\ UNCHANGED minted

MaterializeField(field) ==
  /\ CanMaterialize(lazy, field)
  /\ Repeats \/ ~Repeated(Materialize(field))
  /\ lazy' = DeclareMaterialize(lazy, field)
  /\ eager' = DeclareMaterialize(eager, field)
  /\ Recording
  /\ UNCHANGED minted

Editing == edits < MaxEdits /\ edits' = edits + 1 /\ UNCHANGED records

(* One field to a spare name, or two fields' names swapped. *)
Renamings ==
  LET old == Fields(lazy)
      one(a, b)  == [n \in old |-> IF n = a THEN b ELSE n]
      swap(a, b) == [n \in old |-> IF n = a THEN b ELSE IF n = b THEN a ELSE n]
  IN  {one(a, b) : a \in old, b \in AllNames \ old} \cup {swap(a, b) : a, b \in old}

RenameFields(to) ==
  /\ Editing
  /\ lazy' = Rename(lazy, to)
  /\ eager' = Rename(eager, to)
  /\ parted' = {to[n] : n \in parted}
  /\ UNCHANGED minted

(* The outputs left unfilled when the fields `gone` go. *)
Unfilled(gone) ==
  {c.out : c \in {d \in Recorded(lazy.pending) : d.ins \cap gone # {}}} \ gone

DropFields(gone) ==
  /\ Editing
  /\ lazy' = Drop(lazy, gone)
  /\ eager' = Drop(eager, gone)
  /\ parted' = Downstream(lazy'.pending, (parted \ gone) \cup Unfilled(gone))
  /\ UNCHANGED minted

KeepFields(names) ==
  /\ Editing
  /\ lazy' = Keep(lazy, names)
  /\ eager' = Keep(eager, names)
  /\ LET gone == Fields(lazy) \ names
     IN  parted' = Downstream(lazy'.pending, (parted \ gone) \cup Unfilled(gone))
  /\ UNCHANGED minted

AssignField(name) ==
  /\ Editing
  /\ lazy' = Assign(lazy, name, minted, Scalar(minted))
  /\ eager' = Assign(eager, name, minted, Scalar(minted))
  /\ minted' = minted + 1
  /\ LET after == Downstream(lazy.pending, {name})
         kept  == IF name \in Outputs(lazy.pending) THEN after ELSE after \ {name}
     IN  parted' = Downstream(lazy.pending, (parted \ {name}) \cup kept)

(* One field under two names: the pair RenameMap mistakes for a renaming. *)
OneFieldTwoNames(a, b) ==
  \E m \in Fields(a), n \in Fields(b) : m # n /\ a.schema[m].id = b.schema[n].id

(* The names a composition of lazy snapshots parts.  The loser's pruned    *)
(* work leaves its own outputs unfilled.  A column filled from the other   *)
(* side is filled with what is stored there, before the pending work of    *)
(* either side; what the winner has pending over it runs on the filled     *)
(* values, as it would after an assign.                                    *)
PartedBy(a, b, strategy) ==
  LET lost   == Collisions(a, b)
      chosen == Winner(a, b, strategy)
      loser  == Loser(a, b, strategy)
      pruned == {c \in Recorded(loser.pending) : Touches(c, lost)}
      inPlace == {c \in Recorded(chosen.pending) : Engine!InPlace(c)}
      filled == {n \in lost :
                   /\ strategy.mode # "keep"
                   /\ chosen.stored[n] = Null
                   /\ \A c \in Recorded(chosen.pending) : c.out = n => Engine!InPlace(c)}
      unfilled == {c.out : c \in pruned}
  IN  (unfilled \ lost)
        \cup (filled \cap (unfilled \cup {c.out : c \in inPlace}))
        \cup (Downstream(chosen.pending, filled) \ filled)

(* What was parted before and still shows: not what the winner replaced.   *)
StillParted(a, b, strategy) ==
  IF strategy.mode = "keep" /\ lazy = Loser(a, b, strategy)
  THEN parted \ Collisions(a, b) ELSE parted

(* concat_columns of the program's dataset and another, in either order.   *)
ConcatWith(o, strategy, first) ==
  LET a == IF first THEN lazy ELSE o.lazy
      b == IF first THEN o.lazy ELSE lazy
      x == IF first THEN eager ELSE o.eager
      y == IF first THEN o.eager ELSE eager
  IN  /\ Editing
      /\ Twins \/ ~OneFieldTwoNames(a, b)
      /\ CanConcatColumns(a, b, strategy) /\ CanConcatColumns(x, y, strategy)
      /\ lazy' = ConcatColumns(a, b, strategy)
      /\ eager' = ConcatColumns(x, y, strategy)
      /\ parted' = Downstream(lazy'.pending,
                     StillParted(a, b, strategy) \cup PartedBy(a, b, strategy))
      /\ UNCHANGED minted

(* concat_rows, seen from a row of the program's dataset. *)
StackWith(o) ==
  LET shared == Collisions(lazy, o.lazy)
      fresh  == CHOOSE f \in [shared -> minted .. minted + Cardinality(shared)] :
                  \A m, n \in shared : m # n => f[m] # f[n]
  IN  /\ Editing
      /\ Twins \/ ~OneFieldTwoNames(lazy, o.lazy)
      /\ CanConcatRows(lazy, o.lazy) /\ CanConcatRows(eager, o.eager)
      /\ lazy' = ConcatRows(lazy, o.lazy, fresh)
      /\ eager' = ConcatRows(eager, o.eager, fresh)
      /\ minted' = minted + 1 + Cardinality(shared)
      /\ UNCHANGED parted

(* handle.collect(), or consume on the eager side's declared bindings. *)
CollectLazy(name) ==
  /\ Usable(lazy)
  /\ lazy' = Consume(lazy, name)
  /\ UNCHANGED <<eager, parted, minted, records, edits>>

CollectEager(name) ==
  /\ Usable(eager)
  /\ eager' = Consume(eager, name)
  /\ UNCHANGED <<lazy, parted, minted, records, edits>>

Next ==
  \/ \E a \in Fields(lazy), out \in AllNames : Map(<<a>>, out)
  \/ \E a, b \in Fields(lazy), out \in AllNames : a # b /\ Map(<<a, b>>, out)
  \/ \E s, d \in Fields(lazy) : ComposeSlice(s, d) \/ SliceData(s, d)
  \/ \E d \in Fields(lazy) : MaterializeField(d)
  \/ \E to \in Renamings : RenameFields(to)
  \/ \E a \in Fields(lazy) : DropFields({a})
  \/ \E a, b \in Fields(lazy) : a # b /\ KeepFields({a, b})
  \/ \E a \in AllNames : AssignField(a)
  \/ \E o \in Others, strategy \in Strategies, first \in BOOLEAN :
       ConcatWith(o, strategy, first)
  \/ \E o \in Others : StackWith(o)
  \/ \E a \in Fields(lazy) : CollectLazy(a) \/ CollectEager(a)

Spec == Init /\ [][Next]_vars

-----------------------------------------------------------------------------
(* Properties *)

SnapshotOK(snap) ==
  /\ DOMAIN snap.stored = Fields(snap)
  /\ Fields(snap) \subseteq AllNames
  /\ \A a, b \in Fields(snap) : snap.schema[a].id = snap.schema[b].id => a = b

(* Both programs hold one column per field, FieldIdentities are unique     *)
(* within a snapshot, and the two schemas never part.                      *)
TypeOK ==
  /\ SnapshotOK(lazy) /\ SnapshotOK(eager)
  /\ lazy.schema = eager.schema
  /\ parted \subseteq Fields(lazy)
  /\ records \in 0 .. MaxRecords /\ edits \in 0 .. MaxEdits /\ minted \in Nat

(* A pending coupling refers to fields of the schema only, whatever was    *)
(* renamed, dropped or kept since it was recorded: FieldRefs are plain     *)
(* names, and nothing but the coupling derivation keeps them in step.      *)
NoDanglingReference ==
  /\ Engine!KnownFields(lazy.pending, Fields(lazy))
  /\ Engine!KnownFields(eager.pending, Fields(eager))

(* Collecting deferred work gives what the eager calls gave, field by      *)
(* field, whenever the engine accepts the pending set at all.  The engine  *)
(* orders couplings by name, with no versions, so this needs the in-place  *)
(* aliasing check, the chain order and the renaming of FieldRefs together. *)
DeferredEqualsEager ==
  Usable(lazy) =>
    \A n \in Fields(lazy) \ parted : Evaluate(lazy)[n] = Evaluate(eager)[n]

(* The eager program is never stuck: a Dataset operand does its work       *)
(* before a later declaration could make the pending set ambiguous.        *)
EagerAlwaysUsable == Usable(eager)

(* What a snapshot holds of one field: its identity, its column, and the   *)
(* pending work that reads or writes it.                                   *)
FieldView(snap, n) ==
  [id |-> snap.schema[n].id, value |-> snap.stored[n],
   work |-> Without(snap.pending, {i \in DOMAIN snap.pending :
                                     ~Touches(snap.pending[i], {n})})]

(* A name both inputs of concat_columns hold is, under a keep strategy,    *)
(* one input's field in all three aspects: the schema, the table and the   *)
(* couplings are composed by separate hooks, and a coupling refers to the  *)
(* field by the name the two inputs share.                                 *)
OneWinner ==
  [][edits' # edits =>
       \A strategy \in {s \in Strategies : s.mode = "keep"} :
       \A o \in Others, first \in BOOLEAN :
         ConcatWith(o, strategy, first) =>
           \A n \in Collisions(lazy, o.lazy) :
             FieldView(lazy', n) \in {FieldView(lazy, n), FieldView(o.lazy, n)}]_vars
=============================================================================
