------------------------------ MODULE DatasetOps ------------------------------
(***************************************************************************)
(* The dataset operators that record, rewrite or prune pending couplings,  *)
(* as functions from one immutable snapshot to the next.                   *)
(*                                                                         *)
(* A snapshot is a record                                                  *)
(*   schema  : field name -> [kind, id, dim], id the field's FieldIdentity *)
(*             and dim the dimension of a field of kind "dim"              *)
(*   stored  : field name -> the value in its table column                 *)
(*   pending : the CouplingSet, a sequence in recording order.             *)
(* One generic row stands for all of them: every coupling here is          *)
(* per-row-independent.  The primary index is not modelled.                *)
(*                                                                         *)
(* Values are tagged tuples: what a cell holds, as far as the couplings    *)
(* can tell it apart.                                                      *)
(***************************************************************************)
EXTENDS Naturals, Sequences

Null == <<"null">>
Scalar(id) == <<"scalar", id>>                 \* an opaque value
Accessor(id, slice) == <<"accessor", id, slice>> \* a lazy DataAccessor
Array(accessor) == <<"array", accessor>>       \* a decoded one
Slice(dims) == <<"slice", dims>>               \* a DimensionedSlice
Mapped(fn, args) == <<"mapped", fn, args>>     \* fn(*args)

IsAccessor(v) == v[1] = "accessor"
IsSlice(v) == v[1] = "slice"

-----------------------------------------------------------------------------
(* Couplings: [op, ins, out, args, tag]; args holds the operand names in   *)
(* order, tag (a number) the dimension bound or the function mapped.       *)

NoTag == 0

BindSlice(slice_field, data_field) ==
  [op |-> "BindSlice", ins |-> {slice_field, data_field}, out |-> data_field,
   args |-> <<slice_field>>, tag |-> NoTag]

BindDimensions(slice_field, field, dim) ==
  [op |-> "BindDimensions", ins |-> {slice_field, field}, out |-> slice_field,
   args |-> <<field>>, tag |-> dim]

Materialize(field) ==
  [op |-> "Materialize", ins |-> {field}, out |-> field, args |-> <<>>,
   tag |-> NoTag]

MapCoupling(inputs, output, fn) ==
  [op |-> "Map", ins |-> {inputs[k] : k \in DOMAIN inputs}, out |-> output,
   args |-> inputs, tag |-> fn]

(* accessor.slice replaces the slice of an accessor; a decoded array, a    *)
(* null, or a null slice is left alone.                                    *)
Sliced(v, slice) ==
  IF IsAccessor(v) /\ IsSlice(slice) THEN Accessor(v[2], slice) ELSE v

(* BindDimensions updates the dims of the slice it finds, or starts one.   *)
WithDimension(base, dim, selector) ==
  LET dims == IF IsSlice(base) THEN base[2] ELSE [x \in {} |-> Null]
  IN  Slice([x \in DOMAIN dims \cup {dim} |-> IF x = dim THEN selector ELSE dims[x]])

Decoded(v) == IF IsAccessor(v) THEN Array(v) ELSE v

(* Coupling.compute, over the row as the earlier couplings left it. *)
Compute(c, row) ==
  LET old == row[c.out]
  IN  CASE c.op = "BindSlice"      -> Sliced(old, row[c.args[1]])
        [] c.op = "BindDimensions" -> WithDimension(old, c.tag, row[c.args[1]])
        [] c.op = "Materialize"    -> Decoded(old)
        [] c.op = "Map"            -> Mapped(c.tag, [k \in DOMAIN c.args |-> row[c.args[k]]])

Engine == INSTANCE CouplingEngine

Fields(snap) == DOMAIN snap.schema

Usable(snap) == Engine!Accepts(snap.pending, Fields(snap))

Evaluate(snap) == Engine!Evaluate(snap.pending, snap.stored)

Consume(snap, column) == Engine!ConsumeColumn(snap, column)

-----------------------------------------------------------------------------
(* Coupling derivation (ops/dispatch.py) *)

(* The new coupling, unless an equal one is pending already. *)
Added(cs, c) == IF \E i \in DOMAIN cs : cs[i] = c THEN cs ELSE Append(cs, c)

(* FieldRefs follow a simultaneous renaming of fields. *)
Rewritten(cs, to) ==
  [i \in DOMAIN cs |->
     [op |-> cs[i].op, ins |-> {to[n] : n \in cs[i].ins}, out |-> to[cs[i].out],
      args |-> [k \in DOMAIN cs[i].args |-> to[cs[i].args[k]]], tag |-> cs[i].tag]]

(* cs without the couplings at the positions gone, in recording order.     *)
Without(cs, gone) == Engine!Discharge(cs, gone)

(* CouplingSet.retain: couplings all of whose fields survive. *)
Retained_ByOutput(cs, names) == Without(cs, {i \in DOMAIN cs : cs[i].out \notin names})

Retained(cs, names) ==
  Without(cs, {i \in DOMAIN cs : ~(cs[i].ins \cup {cs[i].out} \subseteq names)})

-----------------------------------------------------------------------------
(* Operators *)

Record(snap, c) == [snap EXCEPT !.pending = Added(@, c)]

WithField(snap, name, field, value) ==
  LET names == Fields(snap) \cup {name}
  IN  [snap EXCEPT
         !.schema = [n \in names |-> IF n = name THEN field ELSE snap.schema[n]],
         !.stored = [n \in names |-> IF n = name THEN value ELSE snap.stored[n]]]

ValueField(id) == [kind |-> "value", id |-> id, dim |-> NoTag]

(* map_fields, handle arm: a null column and its pending MapCoupling. *)
CanMap(snap, inputs, out) ==
  /\ \A k \in DOMAIN inputs : inputs[k] \in Fields(snap)
  /\ out \notin Fields(snap)

DeferMap(snap, inputs, out, id) ==
  Record(WithField(snap, out, ValueField(id), Null), MapCoupling(inputs, out, id))

(* map_fields, Dataset arm: the same, consumed at once. *)
EagerMap_Unconsumed(snap, inputs, out, id) == DeferMap(snap, inputs, out, id)

EagerMap(snap, inputs, out, id) == Consume(DeferMap(snap, inputs, out, id), out)

(* compose_slice with one dimension field, onto an existing slice field. *)
CanCompose(snap, slice_field, field) ==
  /\ {slice_field, field} \subseteq Fields(snap)
  /\ snap.schema[slice_field].kind = "slice"
  /\ snap.schema[field].kind = "dim"

DeferCompose(snap, slice_field, field) ==
  Record(snap, BindDimensions(slice_field, field, snap.schema[field].dim))

EagerCompose(snap, slice_field, field) ==
  Consume(DeferCompose(snap, slice_field, field), slice_field)

(* slice_data *)
CanSlice(snap, slice_field, data_field) ==
  /\ {slice_field, data_field} \subseteq Fields(snap)
  /\ snap.schema[slice_field].kind = "slice"
  /\ snap.schema[data_field].kind = "data"

DeferSlice(snap, slice_field, data_field) ==
  Record(snap, BindSlice(slice_field, data_field))

EagerSlice(snap, slice_field, data_field) ==
  Consume(DeferSlice(snap, slice_field, data_field), data_field)

(* materialize: declare-only on both arms. *)
CanMaterialize(snap, field) ==
  field \in Fields(snap) /\ snap.schema[field].kind = "data"

DeclareMaterialize(snap, field) == Record(snap, Materialize(field))

(* rename: schema, table columns and couplings move together.  `to` is     *)
(* total on the fields and one to one: Schema refuses duplicate names.     *)
Rename(snap, to) ==
  LET from(n) == CHOOSE o \in Fields(snap) : to[o] = n
      names   == {to[o] : o \in Fields(snap)}
  IN  [schema  |-> [n \in names |-> snap.schema[from(n)]],
       stored  |-> [n \in names |-> snap.stored[from(n)]],
       pending |-> Retained(Rewritten(snap.pending, to), names)]

(* drop and keep: narrow the schema and prune what refers to the rest. *)
Keep_TableLeftBehind(snap, names) ==
  [schema  |-> [n \in names |-> snap.schema[n]],
   stored  |-> snap.stored,
   pending |-> Retained(snap.pending, names)]

Keep(snap, names) ==
  [schema  |-> [n \in names |-> snap.schema[n]],
   stored  |-> [n \in names |-> snap.stored[n]],
   pending |-> Retained(snap.pending, names)]

Drop(snap, names) == Keep(snap, Fields(snap) \ names)

(* assign: the values land; a pending coupling into the field stays. *)
Assign(snap, name, id, value) ==
  IF name \in Fields(snap)
  THEN [snap EXCEPT !.stored[name] = value]
  ELSE WithField(snap, name, ValueField(id), value)
=============================================================================
