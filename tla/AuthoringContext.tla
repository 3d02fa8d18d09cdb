--------------------------- MODULE AuthoringContext ---------------------------
(***************************************************************************)
(* The mutable half of authoring: DatasetContexts (cursors over immutable  *)
(* Dataset snapshots), the ambient context of a `with` block, FieldHandles *)
(* that follow one FieldIdentity through a context, and the operators that *)
(* advance a context as a side effect.  patchframe/dataset/context.py, the *)
(* lifecycle in ops/base.py, Dataset.field in dataset/dataset.py, and the  *)
(* bundle carriers of ops/bundle.py.                                       *)
(*                                                                         *)
(* Datasets are objects: positions of the sequence ds, told apart by       *)
(* position as Python's `is` tells them apart, never changed once made.    *)
(* A dataset is a record                                                   *)
(*   id      : field name -> its FieldIdentity                             *)
(*   pending : couplings [in, out] in recording order                      *)
(*   cell    : BundleField name -> the dataset in its one cell             *)
(*   of      : the dataset it was derived from, 0 if none                  *)
(* A pending coupling into a BundleField is an ApplyOperator (a per-row    *)
(* filter of the input cell stands for every unary operator), any other    *)
(* one a MapCoupling.  A BundleField whose filling was pruned by a drop    *)
(* holds NA for ever: the model lets it pass for a plain field.            *)
(***************************************************************************)
EXTENDS Naturals, Sequences, FiniteSets

CONSTANTS
  Names,        \* field names
  FirstFields,  \* the fields of the dataset at hand at first
  Programs,     \* the kinds of program: a kind uses `with context:` blocks or
                \* not, lifts datasets into bundles or not, uses some of the
                \* names, and makes a bounded number of Dataset objects
  MaxContexts,  \* bound: contexts made in one behaviour
  MaxHandles    \* bound: handles kept

ASSUME FirstFieldsAssumption == FirstFields \subseteq Names /\ IsFiniteSet(Names)
ASSUME ProgramsAssumption ==
  Programs \subseteq [blocks : BOOLEAN, bundles : BOOLEAN,
                      names : {N \in SUBSET Names : FirstFields \subseteq N},
                      datasets : Nat \ {0}]
ASSUME BoundsAssumption == {MaxContexts, MaxHandles} \subseteq Nat \ {0}

VARIABLES
  program,  \* the kind of program that runs, fixed at the start
  ds,       \* the Dataset objects made so far
  cached,   \* cached[d]: the context cached on the facade d, 0 if none
  cursor,   \* cursor[c]: the dataset context c points at
  token,    \* token[c]: the ambient context to go back to while c is
            \* active, Inactive otherwise
  ambient,  \* the ambient context (a ContextVar), 0 if none
  blocks,   \* the contexts of the open with blocks, innermost last
  handles,  \* FieldHandles held: [ctx, id]
  minted    \* FieldIdentities minted so far

vars == <<program, ds, cached, cursor, token, ambient, blocks, handles, minted>>

Inactive == MaxContexts + 1

Contexts == DOMAIN cursor
Datasets == DOMAIN ds
NamesOf(d) == DOMAIN ds[d].id

(* _resolve_identity: the names under which h's field is found. *)
Matches(h) == {n \in NamesOf(cursor[h.ctx]) : ds[cursor[h.ctx]].id[n] = h.id}

Resolves(h) == Cardinality(Matches(h)) = 1

Name(h) == CHOOSE n \in Matches(h) : TRUE

-----------------------------------------------------------------------------
(* Snapshots derived from snapshots *)

(* The couplings at the positions of keep, in recording order. *)
Kept(pending, keep) ==
  LET kept[k \in 0 .. Len(pending)] ==
        IF k = 0 THEN <<>>
        ELSE IF k \in keep THEN Append(kept[k-1], pending[k]) ELSE kept[k-1]
  IN  kept[Len(pending)]

Extended(d, n, in) ==
  [ds[d] EXCEPT !.id = [m \in NamesOf(d) \cup {n} |-> IF m = n THEN minted + 1 ELSE @[m]],
                !.pending = Append(@, [in |-> in, out |-> n]),
                !.of = d]

Declared(d, n) == [Extended(d, n, n) EXCEPT !.pending = ds[d].pending]

Renamed_FreshIdentity(d, a, b) ==
  LET to(n)   == IF n = a THEN b ELSE n
      from(n) == IF n = b THEN a ELSE n
  IN  [ds[d] EXCEPT
         !.id = [n \in {to(m) : m \in NamesOf(d)} |-> IF n = b THEN minted ELSE @[from(n)]],
         !.pending = [k \in DOMAIN @ |-> [in |-> to(@[k].in), out |-> to(@[k].out)]],
         !.cell = [n \in {to(m) : m \in DOMAIN @} |-> @[from(n)]],
         !.of = d]

Renamed(d, a, b) ==
  LET to(n)   == IF n = a THEN b ELSE n
      from(n) == IF n = b THEN a ELSE n
  IN  [ds[d] EXCEPT
         !.id = [n \in {to(m) : m \in NamesOf(d)} |-> @[from(n)]],
         !.pending = [k \in DOMAIN @ |-> [in |-> to(@[k].in), out |-> to(@[k].out)]],
         !.cell = [n \in {to(m) : m \in DOMAIN @} |-> @[from(n)]],
         !.of = d]

Dropped_OutputsOnly(d, a) ==
  [ds[d] EXCEPT
     !.id = [n \in NamesOf(d) \ {a} |-> @[n]],
     !.pending = Kept(@, {k \in DOMAIN @ : @[k].out # a}),
     !.cell = [n \in DOMAIN @ \ {a} |-> @[n]],
     !.of = d]

Dropped(d, a) ==
  [ds[d] EXCEPT
     !.id = [n \in NamesOf(d) \ {a} |-> @[n]],
     !.pending = Kept(@, {k \in DOMAIN @ : a \notin {@[k].in, @[k].out}}),
     !.cell = [n \in DOMAIN @ \ {a} |-> @[n]],
     !.of = d]

(* A field is a BundleField if its cell is filled or will be. *)
IsBundleField(d, n) ==
  LET reach[k \in 0 .. Len(ds[d].pending)] ==
        IF k = 0 THEN DOMAIN ds[d].cell
        ELSE LET prev == reach[k-1]
                 c    == ds[d].pending[k]
             IN  IF c.in \in prev THEN prev \cup {c.out} ELSE prev
  IN  n \in reach[Len(ds[d].pending)]

(* n and everything pending work into n reads. *)
Needs(d, n) ==
  LET p == ds[d].pending
      need[k \in 0 .. Len(p)] ==
        IF k = 0 THEN {n}
        ELSE LET prev == need[k-1]
                 c    == p[Len(p) + 1 - k]
             IN  IF c.out \in prev THEN prev \cup {c.in} ELSE prev
  IN  need[Len(p)]

-----------------------------------------------------------------------------
(* Context effects (Operator.apply_context_effects).  An operator given    *)
(* the dataset d advances the ambient context if d IS its snapshot.        *)
AdvanceAmbient_Always(cur, d, result) ==
  IF ambient # 0 THEN [cur EXCEPT ![ambient] = result] ELSE cur

AdvanceAmbient(cur, d, result) ==
  IF ambient # 0 /\ cur[ambient] = d THEN [cur EXCEPT ![ambient] = result] ELSE cur

(* Running the pending couplings of d into the fields `outs`.  A running   *)
(* ApplyOperator calls the operator on the cells, through its ordinary     *)
(* eager lifecycle, context effects included.                              *)
RunPending(d, outs) ==
  LET p == ds[d].pending
      run[k \in 0 .. Len(p)] ==
        IF k = 0 THEN [ds |-> ds, cursor |-> cursor, cell |-> ds[d].cell]
        ELSE LET prev == run[k-1]
                 c    == p[k]
             IN  IF c.out \notin outs \/ c.in \notin DOMAIN prev.cell THEN prev
                 ELSE LET operand == prev.cell[c.in]
                          result  == Len(prev.ds) + 1
                      IN  [ds |-> Append(prev.ds, [prev.ds[operand] EXCEPT !.of = operand]),
                           cursor |-> AdvanceAmbient(prev.cursor, operand, result),
                           cell |-> [n \in DOMAIN prev.cell \cup {c.out} |->
                                       IF n = c.out THEN result ELSE prev.cell[n]]]
  IN  run[Len(p)]

Room == Len(ds) < program.datasets

Keep(h) == handles' = handles \cup {h} /\ Cardinality(handles') <= MaxHandles

NewContext(d) ==
  /\ Len(cursor) < MaxContexts
  /\ cursor' = Append(cursor, d)
  /\ token' = Append(token, Inactive)

(* A new snapshot, made by an operator that minted k identities. *)
MakeSnapshot(snapshot, k) ==
  /\ Room
  /\ ds' = Append(ds, snapshot)
  /\ cached' = Append(cached, 0)
  /\ minted' = minted + k

-----------------------------------------------------------------------------
Init ==
  /\ program \in Programs
  /\ \E id \in [FirstFields -> 1 .. Cardinality(FirstFields)] :
       /\ \A m, n \in FirstFields : id[m] = id[n] => m = n
       /\ ds = <<[id |-> id, pending |-> <<>>, cell |-> [n \in {} |-> 0], of |-> 0]>>
  /\ cached = <<0>>
  /\ cursor = <<>>
  /\ token = <<>>
  /\ ambient = 0
  /\ blocks = <<>>
  /\ handles = {}
  /\ minted = Cardinality(FirstFields)

(* ds.context(), and context.branch() with d its current snapshot. *)
OpenContext(d) ==
  /\ NewContext(d)
  /\ UNCHANGED <<ds, cached, ambient, blocks, handles, minted>>

(* with c: *)
Enter(c) ==
  /\ program.blocks
  /\ token[c] = Inactive
  /\ token' = [token EXCEPT ![c] = ambient]
  /\ ambient' = c
  /\ blocks' = Append(blocks, c)
  /\ UNCHANGED <<ds, cached, cursor, handles, minted>>

(* Leaving the innermost with block, normally or by an exception. *)
Exit_ToNone ==
  /\ blocks # <<>>
  /\ ambient' = 0
  /\ token' = [token EXCEPT ![blocks[Len(blocks)]] = Inactive]
  /\ blocks' = SubSeq(blocks, 1, Len(blocks) - 1)
  /\ UNCHANGED <<ds, cached, cursor, handles, minted>>

Exit ==
  /\ blocks # <<>>
  /\ LET c == blocks[Len(blocks)]
     IN  /\ ambient' = token[c]
         /\ token' = [token EXCEPT ![c] = Inactive]
  /\ blocks' = SubSeq(blocks, 1, Len(blocks) - 1)
  /\ UNCHANGED <<ds, cached, cursor, handles, minted>>

(* d.field(n): the ambient context if it points at d, else the one cached  *)
(* on the facade, which may have moved on from d.                          *)
FacadeField(d, n) ==
  LET authoring == IF ambient # 0 /\ cursor[ambient] = d THEN ambient
                   ELSE IF cached[d] # 0 THEN cached[d]
                   ELSE Len(cursor) + 1
      at        == IF authoring \in Contexts THEN cursor[authoring] ELSE d
  IN  /\ n \in NamesOf(at)
      /\ IF authoring \in Contexts
         THEN UNCHANGED <<cursor, token, cached>>
         ELSE NewContext(d) /\ cached' = [cached EXCEPT ![d] = authoring]
      /\ Keep([ctx |-> authoring, id |-> ds[at].id[n]])
      /\ UNCHANGED <<ds, ambient, blocks, minted>>

(* An eager unary operator on d, named or found as the ambient snapshot.   *)
EagerOperator(d, snapshot) ==
  /\ MakeSnapshot(snapshot, 0)
  /\ cursor' = AdvanceAmbient(cursor, d, Len(ds) + 1)
  /\ UNCHANGED <<token, ambient, blocks, handles>>

RenameField(d, a, b) ==
  /\ a \in NamesOf(d) /\ b \in Names \ NamesOf(d)
  /\ EagerOperator(d, Renamed(d, a, b))

DropField(d, a) ==
  /\ a \in NamesOf(d)
  /\ EagerOperator(d, Dropped(d, a))

(* context.new_field: no lifecycle, so no context effect but its own.      *)
NewField(c, n) ==
  /\ n \in Names \ NamesOf(cursor[c])
  /\ MakeSnapshot(Declared(cursor[c], n), 1)
  /\ cursor' = [cursor EXCEPT ![c] = Len(ds) + 1]
  /\ Keep([ctx |-> c, id |-> minted + 1])
  /\ UNCHANGED <<token, ambient, blocks>>

(* context[name] = values, or handle.loc[...] = values: assign through its *)
(* lifecycle on the context's snapshot, then adopted.                      *)
AssignThrough(c) ==
  /\ MakeSnapshot([ds[cursor[c]] EXCEPT !.of = cursor[c]], 0)
  /\ cursor' = [AdvanceAmbient(cursor, cursor[c], Len(ds) + 1) EXCEPT ![c] = Len(ds) + 1]
  /\ UNCHANGED <<token, ambient, blocks, handles>>

(* A dual, coupling-able operator on a handle: the coupling is recorded in *)
(* the handle's context, which no other context may overshadow.            *)
RecordCoupling(h, n) ==
  LET d == cursor[h.ctx]
  IN  /\ Resolves(h) /\ ~IsBundleField(d, Name(h))
      /\ ambient \in {0, h.ctx}
      /\ n \in Names \ NamesOf(d)
      /\ MakeSnapshot(Extended(d, n, Name(h)), 1)
      /\ cursor' = [cursor EXCEPT ![h.ctx] = Len(ds) + 1]
      /\ Keep([ctx |-> h.ctx, id |-> minted + 1])
      /\ UNCHANGED <<token, ambient, blocks>>

(* bundle(d): a sibling artifact, whose one BundleField n holds d itself. *)
Bundle(d, n) ==
  /\ program.bundles
  /\ MakeSnapshot([id |-> [m \in {n} |-> minted + 1], pending |-> <<>>,
                   cell |-> [m \in {n} |-> d], of |-> 0], 1)
  /\ UNCHANGED <<cursor, token, ambient, blocks, handles>>

(* defer_in_level: the ambient context is not consulted. *)
DeferInLevel(h, n) ==
  LET d == cursor[h.ctx]
  IN  /\ Resolves(h) /\ IsBundleField(d, Name(h))
      /\ n \in Names \ NamesOf(d)
      /\ MakeSnapshot(Extended(d, n, Name(h)), 1)
      /\ cursor' = [cursor EXCEPT ![h.ctx] = Len(ds) + 1]
      /\ Keep([ctx |-> h.ctx, id |-> minted + 1])
      /\ UNCHANGED <<token, ambient, blocks>>

(* extract(handle): an exit bridge, which takes the context along. *)
Extract(h) ==
  LET d == cursor[h.ctx]
  IN  /\ Resolves(h) /\ ambient \in {0, h.ctx}
      /\ Name(h) \in DOMAIN ds[d].cell
      /\ cursor' = [cursor EXCEPT ![h.ctx] = ds[d].cell[Name(h)]]
      /\ UNCHANGED <<ds, cached, token, ambient, blocks, handles, minted>>

(* handle.collect(): consume the snapshot, adopt the result, and, for a    *)
(* BundleField, extract the filled cell.  consume and extract are given    *)
(* datasets, so each may advance the ambient context.                      *)
Collect_NoDischarge(h) ==
  LET d      == cursor[h.ctx]
      ran    == RunPending(d, Needs(d, Name(h)))
      filled == Len(ran.ds) + 1
  IN  /\ Resolves(h) /\ filled <= program.datasets
      /\ ds' = Append(ran.ds, [ds[d] EXCEPT !.cell = ran.cell, !.of = d])
      /\ cached' = [k \in 1 .. filled |-> IF k \in Datasets THEN cached[k] ELSE 0]
      /\ cursor' = [AdvanceAmbient(ran.cursor, d, filled) EXCEPT ![h.ctx] = filled]
      /\ UNCHANGED <<token, ambient, blocks, handles, minted>>

Collect_AdoptsCell(h) ==
  LET d      == cursor[h.ctx]
      n      == Name(h)
      ran    == RunPending(d, Needs(d, n))
      filled == Len(ran.ds) + 1
      result == IF n \in DOMAIN ran.cell THEN ran.cell[n] ELSE filled
  IN  /\ Resolves(h) /\ filled <= program.datasets
      /\ ds' = Append(ran.ds,
                 [ds[d] EXCEPT !.pending = Kept(@, {k \in DOMAIN @ : @[k].out \notin Needs(d, n)}),
                               !.cell = ran.cell, !.of = d])
      /\ cached' = [k \in 1 .. filled |-> IF k \in Datasets THEN cached[k] ELSE 0]
      /\ cursor' = [AdvanceAmbient(ran.cursor, d, filled) EXCEPT ![h.ctx] = result]
      /\ UNCHANGED <<token, ambient, blocks, handles, minted>>

Collect(h) ==
  LET d       == cursor[h.ctx]
      n       == Name(h)
      needed  == Needs(d, n)
      ran     == RunPending(d, needed)
      filled  == Len(ran.ds) + 1
      adopted == [AdvanceAmbient(ran.cursor, d, filled) EXCEPT ![h.ctx] = filled]
  IN  /\ Resolves(h)
      /\ filled <= program.datasets
      /\ ds' = Append(ran.ds,
                 [id |-> ds[d].id,
                  pending |-> Kept(ds[d].pending,
                                   {k \in DOMAIN ds[d].pending :
                                      ds[d].pending[k].out \notin needed}),
                  cell |-> ran.cell,
                  of |-> d])
      /\ cached' = [k \in 1 .. filled |-> IF k \in Datasets THEN cached[k] ELSE 0]
      /\ cursor' = IF n \in DOMAIN ran.cell
                   THEN AdvanceAmbient(adopted, filled, ran.cell[n])
                   ELSE adopted
      /\ UNCHANGED <<token, ambient, blocks, handles, minted>>

(* d[item_id], handle.loc[item_id], handle.items(): every pending coupling *)
(* evaluated over the row; what it made is dropped, unless a context took  *)
(* it.                                                                     *)
ReadRow(d) ==
  LET ran == RunPending(d, Names)
  IN  /\ Len(ran.ds) <= program.datasets
      /\ cursor' = ran.cursor
      /\ IF ran.cursor = cursor
         THEN UNCHANGED <<ds, cached>>
         ELSE /\ ds' = ran.ds
              /\ cached' = [k \in DOMAIN ran.ds |-> IF k \in Datasets THEN cached[k] ELSE 0]
      /\ UNCHANGED <<token, ambient, blocks, handles, minted>>

Next ==
  /\ UNCHANGED program
  /\ \/ \E d \in Datasets : OpenContext(d)
     \/ \E c \in Contexts : Enter(c)
     \/ Exit
     \/ \E d \in Datasets, n \in program.names : FacadeField(d, n)
     \/ \E d \in Datasets, a, b \in program.names : RenameField(d, a, b)
     \/ \E d \in Datasets, a \in program.names : DropField(d, a)
     \/ \E c \in Contexts, n \in program.names : NewField(c, n)
     \/ \E c \in Contexts : AssignThrough(c)
     \/ \E h \in handles, n \in program.names : RecordCoupling(h, n)
     \/ \E d \in Datasets, n \in program.names : Bundle(d, n)
     \/ \E h \in handles, n \in program.names : DeferInLevel(h, n)
     \/ \E h \in handles : Extract(h)
     \/ \E h \in handles : Collect(h)
     \/ \E d \in Datasets : ReadRow(d)

Spec == Init /\ [][Next]_vars

-----------------------------------------------------------------------------
(* Properties *)

(* Contexts point at datasets, fields of a snapshot have identities of     *)
(* their own, and pending work refers to fields of its snapshot.           *)
TypeOK ==
  /\ program \in Programs
  /\ DOMAIN cached = Datasets /\ \A d \in Datasets : cached[d] \in {0} \cup Contexts
  /\ DOMAIN token = Contexts
  /\ \A c \in Contexts : cursor[c] \in Datasets /\ token[c] \in 0 .. Inactive
  /\ ambient \in {0} \cup Contexts
  /\ \A h \in handles : h.ctx \in Contexts /\ h.id \in 1 .. minted
  /\ \A d \in Datasets :
       /\ \A m, n \in NamesOf(d) : ds[d].id[m] = ds[d].id[n] => m = n
       /\ \A k \in DOMAIN ds[d].pending :
            {ds[d].pending[k].in, ds[d].pending[k].out} \subseteq NamesOf(d)
       /\ DOMAIN ds[d].cell \subseteq NamesOf(d)

(* With blocks nest: the ambient context is that of the innermost open     *)
(* block, whatever contexts were entered and left before, although each    *)
(* token is kept in a context that other code may hold as well.            *)
AmbientIsInnermost ==
  /\ ambient = IF blocks = <<>> THEN 0 ELSE blocks[Len(blocks)]
  /\ \A c \in Contexts : token[c] # Inactive <=> \E k \in DOMAIN blocks : blocks[k] = c

(* Extracting takes the context into a cell of its snapshot.               *)
EntersCell(c) == \E n \in DOMAIN ds[cursor[c]].cell : cursor'[c] = ds[cursor[c]].cell[n]

(* A handle that resolves goes on resolving to its one field, through      *)
(* renames, collects and the work of other handles, until that field is    *)
(* dropped from its context's snapshot or the context follows an extract.  *)
LosesHandleToDrop(h) ==
  \E n \in Matches(h) : ds'[cursor'[h.ctx]] = Dropped(cursor[h.ctx], n)

HandlesOutliveOperators ==
  [][\A h \in handles : Resolves(h) =>
       Resolves(h)' \/ LosesHandleToDrop(h) \/ EntersCell(h.ctx)]_vars

(* d itself and the datasets it was derived from, in the store of datasets. *)
Ancestors(store, d) ==
  LET up[k \in 0 .. Len(store)] ==
        IF k = 0 THEN {d}
        ELSE LET prev == up[k-1] IN prev \cup {store[e].of : e \in prev \ {0}}
  IN  up[Len(store)]

(* A context never moves sideways: it advances to a snapshot derived from  *)
(* the one it points at, so no recorded work is lost to another line of    *)
(* work, or it follows an extract into a cell of that snapshot.            *)
ContextsMoveForward ==
  [][\A c \in Contexts :
       \/ cursor[c] \in Ancestors(ds', cursor'[c])
       \/ EntersCell(c)]_vars

(* handle.collect() "advances the shared context to the consumed snapshot, *)
(* so a second collect finds the work already done": afterwards the handle *)
(* resolves, and nothing pending writes its field.                         *)
CollectIsRepeatable ==
  [][\A h \in handles : Collect(h) =>
       /\ Resolves(h)'
       /\ \A k \in DOMAIN ds'[cursor'[h.ctx]].pending :
            ds'[cursor'[h.ctx]].pending[k].out # Name(h)']_vars

(* Row access evaluates "ephemerally: nothing is persisted": no context    *)
(* points anywhere else afterwards.                                        *)
ReadsLeaveContexts ==
  [][\A d \in Datasets : ReadRow(d) => cursor' = cursor]_vars
=============================================================================
