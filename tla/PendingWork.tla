----------------------------- MODULE PendingWork -----------------------------
(***************************************************************************)
(* One dataset snapshot under recording and consumption: couplings of any  *)
(* shape are recorded, and consume runs and discharges them column by      *)
(* column or coupling by coupling, in any order.                           *)
(*                                                                         *)
(* A field's value is the term of the work done on it: <<0, n>> is what    *)
(* field n held at first, <<k, args>> what the k-th recorded coupling      *)
(* computed from args.  Two runs agree exactly when their terms do, so a   *)
(* coupling that ran twice, early, late or never shows.                    *)
(***************************************************************************)
EXTENDS Naturals, Sequences, SequencesExt

CONSTANTS
  Names,       \* the field names of the schema
  MaxRecords,  \* bound: couplings recorded in one behaviour
  Ownership    \* subset of BOOLEAN: whether consume(coupling) is given the
               \* snapshot's own object (TRUE) or an equal one (FALSE)

ASSUME NamesAssumption == Names # {}
ASSUME MaxRecordsAssumption == MaxRecords \in Nat
ASSUME OwnershipAssumption == Ownership \subseteq BOOLEAN

VARIABLES
  stored,    \* stored[n]: the value in table column n
  pending,   \* the CouplingSet, in recording order
  recorded   \* couplings recorded so far

vars == <<stored, pending, recorded>>

ApplyTerm(c, frame) == <<c.id, [n \in c.ins |-> frame[n]]>>

Engine == INSTANCE CouplingEngine WITH Compute <- ApplyTerm

Snap == [stored |-> stored, pending |-> pending]

Become(snap) == stored' = snap.stored /\ pending' = snap.pending

Value == Engine!Evaluate(pending, stored)

Outputs(cs) == {cs[i].out : i \in DOMAIN cs}

-----------------------------------------------------------------------------
Init ==
  /\ stored = [n \in Names |-> <<0, n>>]
  /\ pending = <<>>
  /\ recorded = 0

(* CouplingSet.add: recording never validates; the engine does, on use. *)
Record_Prepends(ins, out) ==
  /\ recorded < MaxRecords
  /\ recorded' = recorded + 1
  /\ pending' = <<[id |-> recorded + 1, ins |-> ins, out |-> out]>> \o pending
  /\ UNCHANGED stored

Record(ins, out) ==
  /\ recorded < MaxRecords
  /\ recorded' = recorded + 1
  /\ pending' = Append(pending, [id |-> recorded + 1, ins |-> ins, out |-> out])
  /\ UNCHANGED stored

(* consume(ds, n).  A rejected coupling set raises and leaves the snapshot. *)
ConsumeColumn(n) ==
  /\ Engine!Accepts(pending, Names)
  /\ Become(Engine!ConsumeColumn(Snap, n))
  /\ UNCHANGED recorded

(* consume(ds, coupling) *)
ConsumeCoupling(i, own) ==
  /\ Engine!Accepts(pending, Names)
  /\ Become(Engine!ConsumeCoupling(Snap, i, own))
  /\ UNCHANGED recorded

Next ==
  \/ \E ins \in SUBSET Names, out \in Names : Record(ins, out)
  \/ \E n \in Names : ConsumeColumn(n)
  \/ \E i \in DOMAIN pending, own \in Ownership : ConsumeCoupling(i, own)

Spec == Init /\ [][Next]_vars

-----------------------------------------------------------------------------
(* Properties *)

Coupling == [id : 1 .. MaxRecords, ins : SUBSET Names, out : Names]

(* Every snapshot is a value for each field and a sequence of couplings    *)
(* over the schema's fields, in recording order.                           *)
TypeOK ==
  /\ DOMAIN stored = Names
  /\ recorded \in 0 .. MaxRecords
  /\ pending \in Seq(Coupling)
  /\ \A i, j \in DOMAIN pending : i < j => pending[i].id < pending[j].id

Usable == Engine!Accepts(pending, Names)

LinearExtensions ==
  {p \in SetToSeqs(DOMAIN pending) :
     \A a, b \in DOMAIN p : Engine!Precedes(pending, p[a], p[b]) => a < b}

RunInOrder(p) ==
  LET run[k \in 0 .. Len(p)] ==
        IF k = 0 THEN stored
        ELSE LET prev == run[k-1]
                 c    == pending[p[k]]
             IN  [prev EXCEPT ![c.out] = ApplyTerm(c, prev)]
  IN  run[Len(p)]

(* The insertion-order tie-breaking of CouplingEngine._compute_order is a  *)
(* convenience only: every order that respects the dependency edges        *)
(* evaluates a row to the same values.  Were it not so, consuming two      *)
(* columns separately could differ from evaluating the row.                *)
OrderIsConfluent == Usable => \A p \in LinearExtensions : RunInOrder(p) = Value

(* DataLoader batches (RowSequence.__getitems__) consume the pending       *)
(* outputs one after another in the iteration order of a Python set, while *)
(* ds[item_id] evaluates the whole order at once.  Both give the same      *)
(* row, whatever that iteration order, and the batch leaves nothing to do. *)
BatchEqualsRow ==
  Usable =>
    \A outs \in SetToSeqs(Outputs(pending)) :
      LET batch == Engine!ConsumeAll(Snap, outs)
      IN  batch.stored = Value /\ batch.pending = <<>>

(* "Multiple couplings sharing the same output_field form a chain ... each *)
(* reading the previous output": what a chain built by the operators does. *)
ChainsRead ==
  \A i, j \in DOMAIN pending :
    i < j /\ pending[i].out = pending[j].out => Engine!InPlace(pending[j])

(* Consumption never changes what row access evaluates to: consuming a     *)
(* column, or the couplings up to one of them, completes part of the       *)
(* pending work once and leaves the rest to be done, so ds[item_id] reads  *)
(* the same before and after.  (Partial consumption of a coupling that     *)
(* overwrites a chain mate without reading it is excluded: the mate stays  *)
(* pending and would run last.)                                            *)
ConsumePreservesValue ==
  [][recorded' = recorded /\ ChainsRead => Value' = Value]_vars

(* consume(ds, "c") does complete the column: what is stored afterwards is *)
(* what row access evaluated before, and nothing pending produces it, so a *)
(* second consume finds no work (tests/test_consume_literal.py).           *)
ConsumeCompletesColumn ==
  [][\A n \in Names :
       ConsumeColumn(n) => stored'[n] = Value[n] /\ n \notin Outputs(pending')]_vars

UpToValue(i) ==
  LET order == Engine!Order(pending)
      at    == CHOOSE p \in DOMAIN order : order[p] = i
  IN  RunInOrder(SubSeq(order, 1, at))[pending[i].out]

CompletesUpTo(i) ==
  /\ stored'[pending[i].out] = UpToValue(i)
  /\ \A j \in DOMAIN pending' : pending'[j].id # pending[i].id

(* consume(ds, coupling) with the snapshot's own coupling object stores    *)
(* exactly what the full evaluation would hold just after that coupling,   *)
(* although it runs only the coupling's upstream, and discharges it.       *)
PartialConsumeStopsAtTarget ==
  [][\A i \in DOMAIN pending : ConsumeCoupling(i, TRUE) => CompletesUpTo(i)]_vars

(* The same for ANY target consume accepts, an equal object of an earlier  *)
(* snapshot included: "runs that coupling and its transitive upstream      *)
(* dependencies".                                                          *)
AnyTargetIsRun ==
  [][\A i \in DOMAIN pending, own \in Ownership :
       ConsumeCoupling(i, own) => CompletesUpTo(i)]_vars

(* What a row reads is settled when the engine accepts what is pending and *)
(* no chain is overwritten.                                                *)
Settled == Usable /\ ChainsRead

Eager == INSTANCE EagerRow WITH
  row <- Value,
  settled <- Settled,
  awaited <- UNION {pending[i].ins \ {pending[i].out} : i \in DOMAIN pending},
  unfinished <- Outputs(pending)

(* "Lazy and eager duality", for one snapshot: whoever reads its rows sees *)
(* recorded work done at once and never sees consumption, in any order of  *)
(* recordings and consumptions, until work is recorded for a field that    *)
(* pending work already reads, or that overwrites pending work.            *)
ReadsAsEager == Eager!Spec
=============================================================================
