--------------------------- MODULE CouplingEngine ---------------------------
(***************************************************************************)
(* The compiled coupling view of a dataset snapshot                        *)
(* (patchframe/dataset/coupling_engine.py) and the `consume` operator that *)
(* runs it (patchframe/ops/builtin/consume.py).                            *)
(*                                                                         *)
(* A coupling is pending work: a record with at least                      *)
(*   ins : the set of field names it reads                            *)
(*   out : the one field name it writes.                                   *)
(* A CouplingSet is a sequence of couplings in recording order; an engine  *)
(* is a function of that sequence, so everything here is an operator.      *)
(* Couplings are told apart by their POSITION in the sequence, which is    *)
(* what Python's id() tells apart: every snapshot owns its own copies.     *)
(***************************************************************************)
EXTENDS Naturals, Sequences

CONSTANT
  \* Compute(c, frame): the value coupling c writes when the fields hold
  \* frame.  Coupling.compute (bulk) and Coupling.apply_row (one row) are
  \* the same function here: couplings are per-row-independent.
  Compute(_, _)

-----------------------------------------------------------------------------
(* Validation *)

InPlace(c) == c.out \in c.ins

KnownFields(cs, names) ==
  \A i \in DOMAIN cs : cs[i].ins \cup {cs[i].out} \subseteq names

(* A field transformed in place that a coupling recorded EARLIER, and      *)
(* writing some other field, also reads.                                   *)
Aliased_IgnoresRecordingOrder(cs) == FALSE

Aliased(cs) ==
  \E w, r \in DOMAIN cs :
    /\ r < w
    /\ InPlace(cs[w])
    /\ cs[r].out # cs[w].out
    /\ cs[w].out \in cs[r].ins

-----------------------------------------------------------------------------
(* Execution order *)

(* Edge i -> j of the dependency graph: couplings with one output form a   *)
(* chain in recording order; otherwise a producer precedes its readers.    *)
Precedes_NoChain(cs, i, j) == i # j /\ cs[i].out # cs[j].out /\ cs[i].out \in cs[j].ins

Precedes(cs, i, j) ==
  /\ i # j
  /\ IF cs[i].out = cs[j].out THEN i < j ELSE cs[i].out \in cs[j].ins

(* Kahn's algorithm, the smallest available position first.  The result    *)
(* is shorter than cs exactly when the graph has a cycle.                  *)
Order(cs) ==
  LET kahn[k \in 0 .. Len(cs)] ==
        IF k = 0 THEN <<>>
        ELSE LET prev  == kahn[k-1]
                 done  == {prev[m] : m \in DOMAIN prev}
                 ready == {j \in DOMAIN cs \ done :
                             \A i \in DOMAIN cs : Precedes(cs, i, j) => i \in done}
             IN  IF ready = {} THEN prev
                 ELSE Append(prev, CHOOSE j \in ready : \A m \in ready : j <= m)
  IN  kahn[Len(cs)]

(* CouplingEngine(schema, couplings) constructs without raising. *)
Accepts(cs, names) ==
  /\ KnownFields(cs, names)
  /\ ~Aliased(cs)
  /\ Len(Order(cs)) = Len(cs)

-----------------------------------------------------------------------------
(* What a target needs *)

(* start, with every coupling of `allowed` that transitively produces an   *)
(* input of one of them: the worklist loop of both queries.                *)
Upstream_OneLevel(cs, start, allowed) ==
  start \cup {p \in allowed : \E c \in start : cs[p].out \in cs[c].ins}

Upstream(cs, start, allowed) ==
  LET grow[k \in 0 .. Len(cs)] ==
        IF k = 0 THEN start
        ELSE LET prev == grow[k-1]
             IN  prev \cup {p \in allowed : \E c \in prev : cs[p].out \in cs[c].ins}
  IN  grow[Len(cs)]

(* couplings_for_column: the whole chain of a column and its upstream. *)
CouplingsForColumn_LastOnly(cs, column) ==
  LET chain == {i \in DOMAIN cs : cs[i].out = column}
  IN  Upstream(cs, {i \in chain : \A j \in chain : j <= i}, DOMAIN cs)

CouplingsForColumn(cs, column) ==
  Upstream(cs, {i \in DOMAIN cs : cs[i].out = column}, DOMAIN cs)

(* couplings_up_to(target) for a target EQUAL to the coupling at position  *)
(* i.  The search is restricted to couplings ahead of the first equal one  *)
(* in execution order; `own` says whether the target is the snapshot's own *)
(* object.  It is not when the caller took it from an earlier snapshot:    *)
(* each DatasetState deep-copies its couplings, and the final filter is by *)
(* id().                                                                   *)
CouplingsUpTo(cs, i, own) ==
  LET order == Order(cs)
      at    == CHOOSE p \in DOMAIN order : order[p] = i
      ahead == {order[p] : p \in 1 .. (at - 1)}
      found == Upstream(cs, {i}, ahead)
  IN  IF own THEN found ELSE found \ {i}

-----------------------------------------------------------------------------
(* Running couplings *)

(* The frame after the couplings of `which` ran on it in execution order. *)
Run_StaleReads(cs, which, frame) ==
  LET order == Order(cs)
      run[p \in 0 .. Len(order)] ==
        IF p = 0 THEN frame
        ELSE LET prev == run[p-1]
                 c    == cs[order[p]]
             IN  IF order[p] \notin which THEN prev
                 ELSE [prev EXCEPT ![c.out] = Compute(c, frame)]
  IN  run[Len(order)]

Run(cs, which, frame) ==
  LET order == Order(cs)
      run[p \in 0 .. Len(order)] ==
        IF p = 0 THEN frame
        ELSE LET prev == run[p-1]
                 c    == cs[order[p]]
             IN  IF order[p] \notin which THEN prev
                 ELSE [prev EXCEPT ![c.out] = Compute(c, prev)]
  IN  run[Len(order)]

(* Row access: every pending coupling, evaluated and not discharged. *)
Evaluate(cs, frame) == Run(cs, DOMAIN cs, frame)

(* The couplings that did not run stay pending, in recording order. *)
Discharge_SameOutput(cs, ran) ==
  LET outs == {cs[i].out : i \in ran}
  IN  SelectSeq(cs, LAMBDA c : c.out \notin outs)

Discharge(cs, ran) ==
  LET keep[i \in 0 .. Len(cs)] ==
        IF i = 0 THEN <<>>
        ELSE LET prev == keep[i-1]
             IN  IF i \in ran THEN prev ELSE Append(prev, cs[i])
  IN  keep[Len(cs)]

(* consume(ds, column) on a snapshot [stored, pending]. *)
ConsumeColumn(snap, column) ==
  LET ran == CouplingsForColumn(snap.pending, column)
  IN  [snap EXCEPT !.stored  = Run(snap.pending, ran, snap.stored),
                   !.pending = Discharge(snap.pending, ran)]

(* consume(ds, coupling) for a coupling equal to the i-th pending one. *)
ConsumeCoupling(snap, i, own) ==
  LET ran == CouplingsUpTo(snap.pending, i, own)
  IN  [snap EXCEPT !.stored  = Run(snap.pending, ran, snap.stored),
                   !.pending = Discharge(snap.pending, ran)]

(* RowSequence.__getitems__: the batch is copied and every pending output  *)
(* consumed in turn, in the iteration order of a set: `outs` is any        *)
(* sequence of the outputs.                                                *)
ConsumeAll(snap, outs) ==
  LET step[k \in 0 .. Len(outs)] ==
        IF k = 0 THEN snap ELSE ConsumeColumn(step[k-1], outs[k])
  IN  step[Len(outs)]
=============================================================================
