-------------------------- MODULE PendingWork_proofs --------------------------
(***************************************************************************)
(* What recording and consumption keep, for any field names and any number *)
(* of recorded couplings.  The results about the engine hold for whatever  *)
(* couplings compute; here they compute terms.                             *)
(***************************************************************************)
EXTENDS PendingWork, Induction, FiniteSetTheorems

P == INSTANCE CouplingEngine_proofs WITH Compute <- ApplyTerm

-----------------------------------------------------------------------------
(* Both instances of the engine are the same engine.                       *)

(* The order and its edges. *)
LEMMA SameOrder ==
  ASSUME NEW cs
  PROVE  /\ Engine!Order(cs) = P!Order(cs)
         /\ \A i, j : Engine!Precedes(cs, i, j) <=> P!Precedes(cs, i, j)
BY DEF Engine!Order, P!Order, Engine!Precedes, P!Precedes

(* Running, discharging and evaluating. *)
LEMMA SameRun ==
  ASSUME NEW cs, NEW W, NEW frame
  PROVE  /\ Engine!Run(cs, W, frame) = P!Run(cs, W, frame)
         /\ Engine!Discharge(cs, W) = P!Discharge(cs, W)
         /\ Engine!Evaluate(cs, frame) = P!Evaluate(cs, frame)
BY DEF Engine!Run, P!Run, Engine!Order, P!Order, Engine!Precedes, P!Precedes,
       Engine!Discharge, P!Discharge, Engine!Evaluate, P!Evaluate

(* What a target needs. *)
LEMMA SameTargets ==
  ASSUME NEW cs, NEW column, NEW i, NEW own
  PROVE  /\ Engine!CouplingsForColumn(cs, column) = P!CouplingsForColumn(cs, column)
         /\ Engine!CouplingsUpTo(cs, i, own) = P!CouplingsUpTo(cs, i, own)
BY DEF Engine!CouplingsForColumn, P!CouplingsForColumn, Engine!Upstream, P!Upstream,
       Engine!CouplingsUpTo, P!CouplingsUpTo, Engine!Order, P!Order,
       Engine!Precedes, P!Precedes

(* A batch. *)
LEMMA SameBatch ==
  ASSUME NEW snap, NEW outs
  PROVE  Engine!ConsumeAll(snap, outs) = P!ConsumeAll(snap, outs)
BY DEF Engine!ConsumeAll, P!ConsumeAll, Engine!ConsumeColumn, P!ConsumeColumn,
       Engine!CouplingsForColumn, P!CouplingsForColumn, Engine!Upstream, P!Upstream,
       Engine!Run, P!Run, Engine!Order, P!Order, Engine!Precedes, P!Precedes,
       Engine!Discharge, P!Discharge

-----------------------------------------------------------------------------
(* The inductive invariant.                                                *)

(* A column for every field, couplings over the fields numbered in         *)
(* recording order, none numbered past the last one recorded.              *)
SnapshotOK(columns, cs, count) ==
  /\ columns = [n \in Names |-> columns[n]]
  /\ count \in 0 .. MaxRecords
  /\ cs \in Seq(Coupling)
  /\ \A i, j \in DOMAIN cs : i < j => cs[i].id < cs[j].id
  /\ \A i \in DOMAIN cs : cs[i].id <= count

Inv == SnapshotOK(stored, pending, recorded)

(* An engine that accepts a snapshot's couplings is sound over its columns. *)
LEMMA AcceptedIsSound ==
  ASSUME NEW columns, NEW cs, NEW count, SnapshotOK(columns, cs, count),
         Engine!Accepts(cs, Names)
  PROVE  /\ P!Sound(cs, columns)
         /\ Len(cs) \in Nat /\ DOMAIN cs = 1 .. Len(cs)
         /\ DOMAIN columns = Names
<1>1. Len(cs) \in Nat /\ DOMAIN cs = 1 .. Len(cs)
  BY DEF SnapshotOK
<1>2. DOMAIN columns = Names /\ P!IsFrame(columns)
  BY DEF SnapshotOK, P!IsFrame
<1>3. P!KnownFields(cs, Names)
  BY DEF Engine!Accepts, Engine!KnownFields, P!KnownFields
<1>4. \A i \in DOMAIN cs : P!Local(cs[i])
  BY DEF P!Local, ApplyTerm
<1>5. P!Couplings(cs, DOMAIN columns)
  BY <1>1, <1>2, <1>3, <1>4 DEF P!Couplings
<1>6. Len(P!Order(cs)) = Len(cs)
  BY SameOrder DEF Engine!Accepts
<1> QED BY <1>1, <1>2, <1>5, <1>6 DEF P!Sound

LEMMA UsableIsSound ==
  ASSUME Inv, Usable
  PROVE  /\ P!Sound(pending, stored)
         /\ Len(pending) \in Nat /\ DOMAIN pending = 1 .. Len(pending)
         /\ DOMAIN stored = Names
BY AcceptedIsSound DEF Inv, Usable

(* The couplings W run and are discharged.                                 *)
Ran(W) ==
  /\ stored' = P!Run(pending, W, stored)
  /\ pending' = P!Discharge(pending, W)
  /\ recorded' = recorded

(* consume(ds, column) runs what couplings_for_column names. *)
LEMMA ConsumeColumnRan ==
  ASSUME NEW n, ConsumeColumn(n)
  PROVE  Usable /\ Ran(P!CouplingsForColumn(pending, n))
BY SameRun, SameTargets
   DEF ConsumeColumn, Become, Snap, Engine!ConsumeColumn, Usable, Ran

(* consume(ds, coupling) runs what couplings_up_to names. *)
LEMMA ConsumeCouplingRan ==
  ASSUME NEW i, NEW own, ConsumeCoupling(i, own)
  PROVE  Usable /\ Ran(P!CouplingsUpTo(pending, i, own))
BY SameRun, SameTargets
   DEF ConsumeCoupling, Become, Snap, Engine!ConsumeCoupling, Usable, Ran

(* A consumption runs couplings together with what they read. *)
LEMMA ConsumptionRan ==
  ASSUME Inv,
         \/ \E n \in Names : ConsumeColumn(n)
         \/ \E i \in DOMAIN pending, own \in Ownership : ConsumeCoupling(i, own)
  PROVE  /\ Usable
         /\ \E W \in SUBSET (1 .. Len(pending)) :
              Ran(W) /\ P!ReadClosed(pending, W) /\ (ChainsRead => P!Closed(pending, W))
<1>1. CASE \E n \in Names : ConsumeColumn(n)
  <2>1. PICK n \in Names : ConsumeColumn(n)
    BY <1>1
  <2> DEFINE W == P!CouplingsForColumn(pending, n)
  <2>2. Usable /\ Ran(W)
    BY <2>1, ConsumeColumnRan
  <2>3. W \in SUBSET (1 .. Len(pending)) /\ P!Closed(pending, W)
    BY <2>2, UsableIsSound, P!CouplingsForColumnIsClosed
  <2>4. P!ReadClosed(pending, W)
    BY <2>3, P!ClosedIsReadClosed
  <2> QED BY <2>2, <2>3, <2>4
<1>2. CASE \E i \in DOMAIN pending, own \in Ownership : ConsumeCoupling(i, own)
  <2>1. PICK i \in DOMAIN pending, own \in Ownership : ConsumeCoupling(i, own)
    BY <1>2
  <2> DEFINE W == P!CouplingsUpTo(pending, i, own)
  <2>2. Usable /\ Ran(W)
    BY <2>1, ConsumeCouplingRan
  <2>3. own \in BOOLEAN
    BY <2>1, OwnershipAssumption
  <2>4. P!Sound(pending, stored) /\ Len(pending) \in Nat /\ DOMAIN pending = 1 .. Len(pending)
    BY <2>2, UsableIsSound
  <2>5. Len(P!Order(pending)) = Len(pending)
    BY <2>4 DEF P!Sound
  <2>6. /\ W \in SUBSET (1 .. Len(pending)) /\ P!ReadClosed(pending, W)
        /\ P!ChainsAreRead(pending) => P!Closed(pending, W)
    BY <2>1, <2>3, <2>4, <2>5, P!CouplingsUpToIsClosed
  <2>7. ChainsRead => P!ChainsAreRead(pending)
    BY <2>4 DEF ChainsRead, P!ChainsAreRead, Engine!InPlace, P!InPlace
  <2> QED BY <2>2, <2>6, <2>7
<1> QED BY <1>1, <1>2

(* What is left pending is pending couplings, in the same order. *)
LEMMA RanKeepsSnapshot ==
  ASSUME Inv, Usable, NEW W \in SUBSET (1 .. Len(pending)), P!ReadClosed(pending, W), Ran(W)
  PROVE  Inv'
<1> DEFINE N == Len(pending)
           rest == P!Discharge(pending, W)
<1>1. P!Sound(pending, stored) /\ N \in Nat /\ DOMAIN pending = 1 .. N /\ DOMAIN stored = Names
  BY UsableIsSound
<1>2. PICK V : P!Solution(pending, V, stored)
  BY <1>1, P!SolutionExists
<1>3. P!Run(pending, W, stored) = P!Meaning(pending, V, W, stored)
  BY <1>1, <1>2, P!RunHasTheMeaning
<1>4. stored' = [n \in Names |-> stored'[n]]
  BY <1>1, <1>3 DEF Ran, P!Meaning
<1>5. PICK r : P!Keeps(pending, W, N, rest, r)
  BY <1>1, P!DischargeKeeps
<1>6. /\ DOMAIN rest = 1 .. Len(rest)
      /\ \A a \in 1 .. Len(rest) : r[a] \in 1 .. N /\ rest[a] = pending[r[a]]
      /\ \A a, b \in 1 .. Len(rest) : r[a] < r[b] <=> a < b
  BY <1>1, <1>5, P!KeptPositions
<1>7. rest \in Seq(Coupling)
  <2> DEFINE B == {pending[i] : i \in 1 .. N}
  <2>1. rest \in Seq(B)
    BY <1>5 DEF P!Keeps
  <2>2. B \subseteq Coupling
    BY <1>1 DEF Inv, SnapshotOK
  <2> HIDE DEF B, rest
  <2> QED BY <2>1, <2>2
<1> HIDE DEF rest
<1>8. \A i, j \in DOMAIN rest : i < j => rest[i].id < rest[j].id
  BY <1>1, <1>6 DEF Inv, SnapshotOK
<1>9. \A i \in DOMAIN rest : rest[i].id <= recorded
  BY <1>1, <1>6 DEF Inv, SnapshotOK
<1>10. pending' = rest /\ recorded' = recorded /\ recorded \in 0 .. MaxRecords
  BY DEF Ran, Inv, SnapshotOK, rest
<1> QED BY <1>4, <1>7, <1>8, <1>9, <1>10 DEF Inv, SnapshotOK

(* Recording numbers the new coupling past all the others. *)
LEMMA RecordKeepsSnapshot ==
  ASSUME Inv, NEW ins \in SUBSET Names, NEW out \in Names, Record(ins, out)
  PROVE  Inv'
<1> DEFINE c == [id |-> recorded + 1, ins |-> ins, out |-> out]
<1>1. /\ recorded < MaxRecords /\ recorded' = recorded + 1
      /\ pending' = Append(pending, c) /\ stored' = stored
  BY DEF Record
<1>2. recorded \in 0 .. MaxRecords /\ pending \in Seq(Coupling) /\ MaxRecords \in Nat
  BY MaxRecordsAssumption DEF Inv, SnapshotOK
<1>3. c \in Coupling /\ c.id = recorded + 1 /\ recorded + 1 \in 0 .. MaxRecords
  BY <1>1, <1>2 DEF Coupling
<1>4. \A i \in DOMAIN pending : pending[i].id <= recorded /\ pending[i].id \in Nat
  <2>1. \A i \in DOMAIN pending : pending[i] \in Coupling
    BY <1>2
  <2>2. \A d \in Coupling : d.id \in Nat
    BY DEF Coupling
  <2> QED BY <2>1, <2>2 DEF Inv, SnapshotOK
<1> HIDE DEF c
<1>5. /\ pending' \in Seq(Coupling)
      /\ DOMAIN pending' = DOMAIN pending \cup {Len(pending) + 1}
      /\ pending'[Len(pending) + 1] = c
      /\ \A i \in DOMAIN pending : pending'[i] = pending[i] /\ i < Len(pending) + 1 /\ i \in Nat
  BY <1>1, <1>2, <1>3
<1>6. Len(pending) \in Nat
  BY <1>2
<1>7. ASSUME NEW i \in DOMAIN pending', NEW j \in DOMAIN pending', i < j
      PROVE  pending'[i].id < pending'[j].id
  <2>1. i \in DOMAIN pending
    BY <1>5, <1>6, <1>7
  <2>2. CASE j \in DOMAIN pending
    BY <1>5, <1>7, <2>1, <2>2 DEF Inv, SnapshotOK
  <2>3. CASE j = Len(pending) + 1
    BY <1>2, <1>3, <1>4, <1>5, <2>1, <2>3
  <2> QED BY <1>5, <2>2, <2>3
<1>8. \A i \in DOMAIN pending' : pending'[i].id <= recorded'
  BY <1>1, <1>2, <1>3, <1>4, <1>5
<1>9. stored' = [n \in Names |-> stored'[n]]
  BY <1>1 DEF Inv, SnapshotOK
<1> QED BY <1>1, <1>3, <1>5, <1>7, <1>8, <1>9 DEF Inv, SnapshotOK

(* A dataset with nothing pending is such a snapshot. *)
LEMMA InitSnapshot ==
  ASSUME Init
  PROVE  Inv
BY MaxRecordsAssumption DEF Init, Inv, SnapshotOK

(* Every step leads from one such snapshot to another. *)
LEMMA NextSnapshot ==
  ASSUME Inv, [Next]_vars
  PROVE  Inv'
<1>1. CASE UNCHANGED vars
  BY <1>1 DEF vars, Inv, SnapshotOK
<1>2. CASE \E ins \in SUBSET Names, out \in Names : Record(ins, out)
  BY <1>2, RecordKeepsSnapshot
<1>3. CASE \/ \E n \in Names : ConsumeColumn(n)
           \/ \E i \in DOMAIN pending, own \in Ownership : ConsumeCoupling(i, own)
  BY <1>3, ConsumptionRan, RanKeepsSnapshot
<1> QED BY <1>1, <1>2, <1>3 DEF Next

(* The invariant is stronger than the types. *)
LEMMA InvImpliesTypeOK ==
  ASSUME Inv
  PROVE  TypeOK
BY DEF Inv, SnapshotOK, TypeOK

(* Every reachable snapshot satisfies the invariant. *)
THEOREM SnapshotInvariant == Spec => []Inv
<1> QED BY InitSnapshot, NextSnapshot, PTL DEF Spec

(* Every reachable snapshot is a value for each field and a sequence of    *)
(* couplings over the fields, in recording order.                          *)
THEOREM SnapshotsAreTyped == Spec => []TypeOK
<1> QED BY SnapshotInvariant, InvImpliesTypeOK, PTL

-----------------------------------------------------------------------------
(* Consumption.                                                            *)

ValueKept == [recorded' = recorded /\ ChainsRead => Value' = Value]_vars

(* A step that records nothing keeps the value of every row. *)
LEMMA StepKeepsValue ==
  ASSUME Inv, [Next]_vars
  PROVE  ValueKept
<1>1. CASE UNCHANGED vars
  BY <1>1 DEF ValueKept
<1>2. CASE \E ins \in SUBSET Names, out \in Names : Record(ins, out)
  <2>1. recorded \in Nat /\ recorded' = recorded + 1
    BY <1>2, MaxRecordsAssumption DEF Record, Inv, SnapshotOK
  <2> QED BY <2>1 DEF ValueKept
<1>3. CASE \/ \E n \in Names : ConsumeColumn(n)
           \/ \E i \in DOMAIN pending, own \in Ownership : ConsumeCoupling(i, own)
  <2> SUFFICES ASSUME ChainsRead PROVE Value' = Value
    BY DEF ValueKept
  <2>1. PICK W \in SUBSET (1 .. Len(pending)) : Ran(W) /\ P!Closed(pending, W)
    BY <1>3, ConsumptionRan
  <2>2. P!Sound(pending, stored)
    BY <1>3, ConsumptionRan, UsableIsSound
  <2>3. P!Evaluate(P!Discharge(pending, W), P!Run(pending, W, stored))
          = P!Evaluate(pending, stored)
    BY <2>1, <2>2, P!ClosedRunKeepsTheEvaluation
  <2>4. P!Evaluate(pending', stored') = P!Evaluate(pending, stored)
    BY <2>1, <2>3 DEF Ran
  <2> QED BY <2>4, SameRun DEF Value
<1> QED BY <1>1, <1>2, <1>3 DEF Next

(* Consumption never changes what row access evaluates to, for couplings   *)
(* whose chains are read: no row depends on what has been consumed before. *)
THEOREM ConsumptionKeepsRows == Spec => ConsumePreservesValue
<1>1. Inv /\ [Next]_vars => ValueKept
  BY StepKeepsValue
<1> QED BY <1>1, SnapshotInvariant, PTL DEF Spec, ConsumePreservesValue, ValueKept

ColumnCompleted ==
  \A n \in Names : ConsumeColumn(n) => stored'[n] = Value[n] /\ n \notin Outputs(pending')

(* A step that consumes a column completes it. *)
LEMMA StepCompletesColumn ==
  ASSUME Inv
  PROVE  ColumnCompleted
<1> SUFFICES ASSUME NEW n \in Names, ConsumeColumn(n)
             PROVE  stored'[n] = Value[n] /\ n \notin Outputs(pending')
  BY DEF ColumnCompleted
<1> DEFINE W == P!CouplingsForColumn(pending, n)
<1>1. Usable /\ Ran(W)
  BY ConsumeColumnRan
<1>2. P!Sound(pending, stored) /\ n \in DOMAIN stored
  BY <1>1, UsableIsSound
<1>3. /\ P!Run(pending, W, stored)[n] = P!Evaluate(pending, stored)[n]
      /\ \A k \in DOMAIN P!Discharge(pending, W) : P!Discharge(pending, W)[k].out # n
  BY <1>2, P!ColumnRunCompletes
<1>4. stored'[n] = Value[n]
  BY <1>1, <1>3, SameRun DEF Ran, Value
<1>5. n \notin Outputs(pending')
  BY <1>1, <1>3 DEF Ran, Outputs
<1> QED BY <1>4, <1>5

(* consume(ds, "c") completes the column: it stores what row access        *)
(* evaluated, and nothing left pending writes it.                          *)
THEOREM ColumnsAreCompleted == Spec => ConsumeCompletesColumn
<1>1. Inv => ColumnCompleted
  BY StepCompletesColumn
<1> QED BY <1>1, SnapshotInvariant, PTL DEF ConsumeCompletesColumn, ColumnCompleted

-----------------------------------------------------------------------------
(* Orders.                                                                 *)

OneTerm(i, prev) == [prev EXCEPT ![pending[i].out] = ApplyTerm(pending[i], prev)]

(* RunInOrder applies the couplings p names one after another. *)
LEMMA RunInOrderEquation ==
  ASSUME NEW p, Len(p) \in Nat
  PROVE  \E f : /\ f[0] = stored
                /\ \A k \in 1 .. Len(p) : f[k] = OneTerm(p[k], f[k-1])
                /\ RunInOrder(p) = f[Len(p)]
<1> DEFINE N == Len(p)
           eqn(n, g) == g = [k \in 0 .. n |->
                               IF k = 0 THEN stored ELSE OneTerm(p[k], g[k-1])]
           T == {n \in 0 .. N : \E g : eqn(n, g)}
<1>1. \E g : eqn(0, g)
  <2> WITNESS [m \in 0 .. 0 |-> stored]
  <2> QED OBVIOUS
<1>2. ASSUME NEW n \in 1 .. N, NEW g, eqn(n - 1, g)
      PROVE  \E h : eqn(n, h)
  <2> DEFINE h == [k \in 0 .. n |-> IF k = n THEN OneTerm(p[n], g[n-1]) ELSE g[k]]
  <2> SUFFICES eqn(n, h)
    OBVIOUS
  <2>1. ASSUME NEW k \in 0 .. n
        PROVE  h[k] = IF k = 0 THEN stored ELSE OneTerm(p[k], h[k-1])
    <3>1. CASE k = n
      BY <3>1
    <3>2. CASE k # n
      BY <3>2, <1>2
    <3> QED BY <3>1, <3>2
  <2> QED BY <2>1
<1>3. \E g : eqn(N, g)
  <2> HIDE DEF eqn
  <2>1. 0 \in T /\ \A n \in 1 .. N : n - 1 \in T => n \in T
    BY <1>1, <1>2
  <2> HIDE DEF T
  <2>2. \A n \in 0 .. N : n \in T
    BY <2>1, SegmentInduction, Zenon
  <2> QED BY <2>2 DEF T
<1> DEFINE f == CHOOSE g : eqn(N, g)
<1>4. eqn(N, f)
  <2> HIDE DEF eqn
  <2> QED BY <1>3
<1>5. RunInOrder(p) = f[Len(p)]
  BY DEF RunInOrder, OneTerm
<1> HIDE DEF f
<1>6. f[0] = stored /\ \A k \in 1 .. N : f[k] = OneTerm(p[k], f[k-1])
  BY <1>4
<1> QED BY <1>5, <1>6

(* RunInOrder is an execution of the schedule its positions begin. *)
LEMMA RunInOrderExecutes ==
  ASSUME NEW p, NEW q, Len(q) \in Nat,
         \A a \in 1 .. Len(q) : q[a] = p[a] /\ q[a] \in 1 .. Len(pending)
  PROVE  \E f : /\ P!Executes(pending, p, 1 .. Len(pending), stored, f, Len(q))
                /\ RunInOrder(q) = f[Len(q)]
<1>1. PICK f : /\ f[0] = stored
               /\ \A k \in 1 .. Len(q) : f[k] = OneTerm(q[k], f[k-1])
               /\ RunInOrder(q) = f[Len(q)]
  BY RunInOrderEquation
<1>2. \A k \in 1 .. Len(q) : f[k] = P!RunOne(pending, 1 .. Len(pending), p[k], f[k-1])
  BY <1>1 DEF OneTerm, P!RunOne
<1> QED BY <1>1, <1>2 DEF P!Executes

(* A sequence of all the elements of a segment, each once, is onto it. *)
LEMMA SequencesOfAll ==
  ASSUME NEW N \in Nat, NEW p \in SetToSeqs(1 .. N)
  PROVE  /\ p \in [1 .. N -> 1 .. N] /\ Len(p) = N /\ DOMAIN p = 1 .. N
         /\ \A a, b \in 1 .. N : p[a] = p[b] => a = b
         /\ \A i \in 1 .. N : \E a \in 1 .. N : p[a] = i
<1>1. Cardinality(1 .. N) = N
  BY FS_Interval
<1>2. /\ p \in [1 .. N -> 1 .. N]
      /\ \A a, b \in 1 .. N : p[a] = p[b] => a = b
  BY <1>1 DEF SetToSeqs
<1>3. \A i \in 1 .. N : \E a \in 1 .. N : p[a] = i
  BY <1>2, P!Counting
<1>4. Len(p) = N
  BY <1>2
<1> QED BY <1>2, <1>3, <1>4

(* Every order that respects the dependency edges evaluates a row to the   *)
(* same values: the tie-breaking of _compute_order is a convenience.       *)
LEMMA OrdersAgree ==
  ASSUME Inv
  PROVE  OrderIsConfluent
<1> SUFFICES ASSUME Usable, NEW p \in LinearExtensions
             PROVE  RunInOrder(p) = Value
  BY DEF OrderIsConfluent
<1> DEFINE N == Len(pending)
           all == 1 .. N
<1>1. P!Sound(pending, stored) /\ N \in Nat /\ DOMAIN pending = 1 .. N
  BY UsableIsSound
<1>2. p \in SetToSeqs(1 .. N) /\ \A a, b \in DOMAIN p : P!Precedes(pending, p[a], p[b]) => a < b
  BY <1>1, SameOrder DEF LinearExtensions
<1>3. /\ p \in [1 .. N -> 1 .. N] /\ Len(p) = N /\ DOMAIN p = 1 .. N
      /\ \A a, b \in 1 .. N : p[a] = p[b] => a = b
      /\ \A i \in 1 .. N : \E a \in 1 .. N : p[a] = i
  BY <1>1, <1>2, SequencesOfAll
<1>4. P!Linear(pending, p)
  BY <1>2, <1>3 DEF P!Linear
<1>5. P!Scheduled(pending, stored, p, all)
  BY <1>1, <1>4, P!AllIsReadClosed DEF P!Scheduled, P!Sound
<1>6. PICK f : P!Executes(pending, p, all, stored, f, N) /\ RunInOrder(p) = f[N]
  <2>1. \A a \in 1 .. Len(p) : p[a] = p[a] /\ p[a] \in 1 .. N
    BY <1>3
  <2>2. Len(p) \in Nat
    BY <1>1, <1>3
  <2>3. PICK f : P!Executes(pending, p, all, stored, f, Len(p)) /\ RunInOrder(p) = f[Len(p)]
    BY <2>1, <2>2, RunInOrderExecutes
  <2> QED BY <1>3, <2>3
<1>7. PICK V : P!Solution(pending, V, stored)
  BY <1>1, P!SolutionExists
<1>8. f[N] = P!Meaning(pending, V, all, stored)
  BY <1>5, <1>6, <1>7, P!AnyOrderHasTheMeaning
<1>9. P!Evaluate(pending, stored) = P!Meaning(pending, V, all, stored)
  BY <1>1, <1>7, P!EvaluateHasTheMeaning
<1> QED BY <1>6, <1>8, <1>9, SameRun DEF Value

(* In every reachable snapshot the evaluation order is a convenience.      *)
THEOREM AnyOrderEvaluatesTheSame == Spec => []OrderIsConfluent
<1> QED BY SnapshotInvariant, OrdersAgree, PTL

(* A batch of a snapshot ends with the row. *)
LEMMA BatchesAreRows ==
  ASSUME Inv
  PROVE  BatchEqualsRow
<1> SUFFICES ASSUME Usable, NEW outs \in SetToSeqs(Outputs(pending))
             PROVE  /\ Engine!ConsumeAll(Snap, outs).stored = Value
                    /\ Engine!ConsumeAll(Snap, outs).pending = <<>>
  BY DEF BatchEqualsRow
<1> DEFINE N == Len(pending)
           O == Outputs(pending)
           K == Cardinality(O)
<1>1. P!Sound(pending, stored) /\ N \in Nat /\ DOMAIN pending = 1 .. N /\ DOMAIN stored = Names
  BY UsableIsSound
<1>2. IsFiniteSet(O) /\ K \in Nat
  <2> DEFINE out == [i \in 1 .. N |-> pending[i].out]
  <2>1. out \in Surjection(1 .. N, O)
    BY <1>1 DEF Surjection, Outputs
  <2>2. IsFiniteSet(1 .. N)
    BY <1>1, FS_Interval
  <2>3. IsFiniteSet(O)
    BY <2>1, <2>2, FS_Surjection
  <2> QED BY <2>3, FS_CardinalityType
<1>3. outs \in [1 .. K -> O] /\ \A i, j \in 1 .. K : i # j => outs[i] # outs[j]
  BY DEF SetToSeqs
<1>4. Len(outs) = K
  BY <1>2, <1>3
<1>5. \A n \in O : \E m \in 1 .. K : outs[m] = n
  <2>1. outs \in Injection(1 .. K, O)
    BY <1>3 DEF Injection, IsInjective
  <2>2. Cardinality(1 .. K) = K
    BY <1>2, FS_Interval
  <2>3. outs \in Surjection(1 .. K, O)
    BY <1>2, <2>1, <2>2, FS_Injection
  <2> QED BY <2>3 DEF Surjection
<1>6. \A i \in DOMAIN pending : \E m \in 1 .. Len(outs) : outs[m] = pending[i].out
  BY <1>4, <1>5 DEF Outputs
<1>7. \A k \in 1 .. Len(outs) : outs[k] \in DOMAIN stored
  <2>1. O \subseteq Names
    BY <1>1 DEF Outputs, P!Sound, P!Couplings, P!KnownFields
  <2> QED BY <1>1, <1>3, <1>4, <2>1
<1>8. pending \in Seq(Coupling) /\ Len(outs) \in Nat
  BY <1>2, <1>4 DEF Inv, SnapshotOK
<1>9. LET batch == P!ConsumeAll([stored |-> stored, pending |-> pending], outs)
      IN  batch.stored = P!Evaluate(pending, stored) /\ batch.pending = <<>>
  BY <1>1, <1>6, <1>7, <1>8, P!BatchIsTheRow
<1> QED BY <1>9, SameBatch, SameRun DEF Snap, Value

(* A DataLoader batch, which consumes the pending outputs in the iteration *)
(* order of a set, holds the rows that row access evaluates.               *)
THEOREM BatchesHoldRows == Spec => []BatchEqualsRow
<1> QED BY SnapshotInvariant, BatchesAreRows, PTL

TargetsCompleted == \A i \in DOMAIN pending : ConsumeCoupling(i, TRUE) => CompletesUpTo(i)

(* A step that consumes the snapshot's own coupling stops at it. *)
LEMMA StepCompletesTarget ==
  ASSUME Inv
  PROVE  TargetsCompleted
<1> SUFFICES ASSUME NEW i \in DOMAIN pending, NEW own \in BOOLEAN, own,
                    ConsumeCoupling(i, own)
             PROVE  CompletesUpTo(i)
  BY DEF TargetsCompleted
<1> DEFINE N == Len(pending)
           all == 1 .. N
           W == P!CouplingsUpTo(pending, i, own)
           order == P!Order(pending)
           at == P!Position(pending, i)
           out == pending[i].out
           q == SubSeq(order, 1, at)
           rest == P!Discharge(pending, W)
<1>1. Usable /\ Ran(W)
  BY ConsumeCouplingRan
<1>2. /\ P!Sound(pending, stored) /\ N \in Nat /\ DOMAIN pending = 1 .. N
      /\ Len(order) = N
  BY <1>1, UsableIsSound DEF P!Sound
<1>3. i \in W /\ at \in 1 .. N
  BY <1>2, P!CouplingsUpToIsClosed
<1>4. order \in Seq(1 .. N)
  BY <1>2, P!OrderPrefix DEF P!Prefix
<1>5. UpToValue(i) = RunInOrder(q)[out]
  BY DEF UpToValue, P!Position, Engine!Order, P!Order, Engine!Precedes, P!Precedes
<1>6. PICK f : P!Executes(pending, order, all, stored, f, at) /\ RunInOrder(q) = f[at]
  <2> HIDE DEF at, order
  <2>1. Len(q) = at /\ \A a \in 1 .. at : q[a] = order[a] /\ order[a] \in 1 .. N
    BY <1>2, <1>3, <1>4, SMTT(40)
  <2> HIDE DEF q
  <2>2. Len(q) \in Nat
    BY <1>3, <2>1
  <2>3. \A a \in 1 .. Len(q) : q[a] = order[a] /\ q[a] \in 1 .. N
    BY <2>1
  <2>4. PICK f : P!Executes(pending, order, all, stored, f, Len(q)) /\ RunInOrder(q) = f[Len(q)]
    BY <2>2, <2>3, RunInOrderExecutes
  <2> QED BY <2>1, <2>4
<1>7. P!Run(pending, W, stored)[out] = f[at][out]
  <2>2. P!RunsUpTo(pending, stored, i, W, f)
    BY <1>2, <1>6 DEF P!RunsUpTo
  <2>3. P!Sound(pending, stored)
    BY <1>2
  <2>4. P!AgreeAt(pending, stored, i, W, f)
    BY <2>2, <2>3, P!RunUpToStopsAtTarget
  <2> QED BY <2>4 DEF P!AgreeAt
<1>8. stored'[out] = UpToValue(i)
  BY <1>1, <1>5, <1>6, <1>7 DEF Ran
<1>9. ASSUME NEW j \in DOMAIN pending'
      PROVE  pending'[j].id # pending[i].id
  <2>1. PICK r : P!Keeps(pending, W, N, rest, r)
    BY <1>2, P!DischargeKeeps
  <2>2. j \in 1 .. Len(rest) /\ r[j] \in 1 .. N /\ r[j] # i /\ rest[j] = pending[r[j]]
    <3>1. j \in DOMAIN rest
      BY <1>1 DEF Ran
    <3> HIDE DEF rest, W
    <3> QED BY <1>2, <1>3, <2>1, <3>1, P!KeptPositions
  <2>3. \A k \in 1 .. N : pending[k].id \in Nat
    <3>1. \A d \in Coupling : d.id \in Nat
      BY DEF Coupling
    <3> QED BY <1>2, <3>1 DEF Inv, SnapshotOK
  <2>4. pending[r[j]].id < pending[i].id \/ pending[i].id < pending[r[j]].id
    BY <1>2, <2>2 DEF Inv, SnapshotOK
  <2> HIDE DEF rest, W
  <2>5. pending'[j] = pending[r[j]]
    BY <1>1, <2>2 DEF Ran, rest
  <2> QED BY <1>2, <2>2, <2>3, <2>4, <2>5
<1> QED BY <1>8, <1>9 DEF CompletesUpTo

(* consume(ds, coupling) with the snapshot's own object stores exactly     *)
(* what the evaluation holds just after that coupling, and discharges it.  *)
THEOREM PartialConsumptionStopsAtItsTarget == Spec => PartialConsumeStopsAtTarget
<1>1. Inv => TargetsCompleted
  BY StepCompletesTarget
<1> QED BY <1>1, SnapshotInvariant, PTL DEF PartialConsumeStopsAtTarget, TargetsCompleted

-----------------------------------------------------------------------------
(* A snapshot reads as an eager row.                                       *)

(* The fields that couplings for other fields read.                        *)
Awaited(cs) == UNION {cs[i].ins \ {cs[i].out} : i \in DOMAIN cs}

Work(ins, out) == [id |-> recorded + 1, ins |-> ins, out |-> out]

(* Recording adds a coupling after the others. *)
LEMMA RecordAppends ==
  ASSUME Inv, NEW ins \in SUBSET Names, NEW out \in Names, Record(ins, out)
  PROVE  /\ Len(pending) \in Nat /\ DOMAIN pending = 1 .. Len(pending)
         /\ P!Recorded(pending, Work(ins, out), pending')
         /\ DOMAIN pending' = DOMAIN pending \cup {Len(pending) + 1}
         /\ stored' = stored
<1> DEFINE c == Work(ins, out)
<1>1. /\ pending \in Seq(Coupling) /\ pending' = Append(pending, c) /\ stored' = stored
  BY DEF Inv, SnapshotOK, Record, Work
<1> HIDE DEF c
<1> QED BY <1>1 DEF P!Recorded, c

(* The outputs, and the fields waited for, with one coupling more. *)
LEMMA RecordedFields ==
  ASSUME Inv, NEW ins \in SUBSET Names, NEW out \in Names, Record(ins, out)
  PROVE  /\ Outputs(pending)' = Outputs(pending) \cup {out}
         /\ Awaited(pending)' = Awaited(pending) \cup (ins \ {out})
<1> DEFINE N == Len(pending)
           w == Work(ins, out)
<1>1. /\ DOMAIN pending' = DOMAIN pending \cup {N + 1}
      /\ \A i \in DOMAIN pending : pending'[i] = pending[i]
      /\ pending'[N + 1] = w
  BY RecordAppends DEF P!Recorded
<1>2. w.ins = ins /\ w.out = out
  BY DEF Work
<1> HIDE DEF w, N
<1>3. Outputs(pending)' = {pending'[i].out : i \in DOMAIN pending'}
  BY DEF Outputs
<1>4. Outputs(pending)' = Outputs(pending) \cup {out}
  BY <1>1, <1>2, <1>3 DEF Outputs
<1>5. Awaited(pending)' = UNION {pending'[i].ins \ {pending'[i].out} : i \in DOMAIN pending'}
  BY DEF Awaited
<1>6. ASSUME NEW n
      PROVE  n \in Awaited(pending)' <=> n \in Awaited(pending) \cup (ins \ {out})
  BY <1>1, <1>2, <1>5 DEF Awaited
<1> QED BY <1>4, <1>6

(* A chain is overwritten after a recording if it was, or if the recording *)
(* overwrites one.                                                         *)
LEMMA RecordedChains ==
  ASSUME Inv, NEW ins \in SUBSET Names, NEW out \in Names, Record(ins, out)
  PROVE  ChainsRead' <=> ChainsRead /\ (out \in Outputs(pending) => out \in ins)
<1> DEFINE N == Len(pending)
           w == Work(ins, out)
<1>1. /\ N \in Nat /\ DOMAIN pending = 1 .. N
      /\ DOMAIN pending' = DOMAIN pending \cup {N + 1}
      /\ \A i \in DOMAIN pending : pending'[i] = pending[i]
      /\ pending'[N + 1] = w
  BY RecordAppends DEF P!Recorded
<1>2. w.ins = ins /\ w.out = out
  BY DEF Work
<1> HIDE DEF w, N
<1>3. \A i \in DOMAIN pending : i < N + 1 /\ ~(N + 1 < i) /\ N + 1 \notin DOMAIN pending
  BY <1>1
<1>4. ~(N + 1 < N + 1)
  BY <1>1
<1>5. ChainsRead' <=> \A i, j \in DOMAIN pending' :
        i < j /\ pending'[i].out = pending'[j].out => pending'[j].out \in pending'[j].ins
  BY DEF ChainsRead, Engine!InPlace
<1>6. ChainsRead <=> \A i, j \in DOMAIN pending :
        i < j /\ pending[i].out = pending[j].out => pending[j].out \in pending[j].ins
  BY DEF ChainsRead, Engine!InPlace
<1> QED BY <1>1, <1>2, <1>3, <1>4, <1>5, <1>6 DEF Outputs

(* Nothing recorded makes the engine accept what it has refused. *)
LEMMA RefusedStaysRefused ==
  ASSUME Inv, NEW ins \in SUBSET Names, NEW out \in Names, Record(ins, out), Usable'
  PROVE  Usable
<1> DEFINE N == Len(pending)
           w == Work(ins, out)
<1>1. /\ N \in Nat /\ DOMAIN pending = 1 .. N
      /\ P!Recorded(pending, w, pending')
      /\ DOMAIN pending' = DOMAIN pending \cup {N + 1}
  BY RecordAppends
<1>2. \A i \in DOMAIN pending : i \in DOMAIN pending' /\ pending'[i] = pending[i]
  BY <1>1 DEF P!Recorded
<1>3. Engine!Accepts(pending', Names)
  BY DEF Usable
<1>4. Len(P!Order(pending')) = Len(pending')
  BY <1>3, SameOrder DEF Engine!Accepts
<1>5. Len(P!Order(pending)) = Len(pending)
  BY <1>1, <1>4, P!OrderWasComplete
<1>6. Engine!KnownFields(pending, Names)
  BY <1>2, <1>3 DEF Engine!Accepts, Engine!KnownFields
<1>7. ~Engine!Aliased(pending)
  BY <1>2, <1>3 DEF Engine!Accepts, Engine!Aliased, Engine!InPlace
<1> QED BY <1>5, <1>6, <1>7, SameOrder DEF Usable, Engine!Accepts

(* Work that nobody waits for is as good as done. *)
LEMMA RecordRuns ==
  ASSUME Inv, NEW ins \in SUBSET Names, NEW out \in Names, Record(ins, out),
         Usable, out \notin Awaited(pending)
  PROVE  /\ Usable'
         /\ Value' = [Value EXCEPT ![out] = <<recorded + 1, [n \in ins |-> Value[n]]>>]
<1> DEFINE N == Len(pending)
           w == Work(ins, out)
<1>1. /\ N \in Nat /\ DOMAIN pending = 1 .. N
      /\ P!Recorded(pending, w, pending')
      /\ DOMAIN pending' = DOMAIN pending \cup {N + 1}
      /\ stored' = stored
  BY RecordAppends
<1>2. w.ins = ins /\ w.out = out /\ w.id = recorded + 1
  BY DEF Work
<1>3. P!Sound(pending, stored) /\ DOMAIN stored = Names
  BY UsableIsSound
<1>4. P!Local(w)
  BY DEF P!Local, ApplyTerm
<1> HIDE DEF w
<1>5. P!Unread(pending, w)
  BY <1>1, <1>2 DEF P!Unread, Awaited
<1>6. /\ P!Sound(pending', stored)
      /\ P!Evaluate(pending', stored) =
           [P!Evaluate(pending, stored) EXCEPT ![w.out] = ApplyTerm(w, P!Evaluate(pending, stored))]
  BY <1>1, <1>2, <1>3, <1>4, <1>5, P!RecordingIsRunning
<1>7. Value' = [Value EXCEPT ![out] = <<recorded + 1, [n \in ins |-> Value[n]]>>]
  <2>1. Value' = P!Evaluate(pending', stored) /\ Value = P!Evaluate(pending, stored)
    BY <1>1, SameRun DEF Value
  <2> QED BY <1>2, <1>6, <2>1 DEF ApplyTerm
<1>8. Len(Engine!Order(pending')) = Len(pending')
  BY <1>6, SameOrder DEF P!Sound
<1>9. Engine!KnownFields(pending', Names)
  BY <1>3, <1>6 DEF P!Sound, P!Couplings, P!KnownFields, Engine!KnownFields
<1>10. ~Engine!Aliased(pending')
  <2> SUFFICES ASSUME NEW i \in DOMAIN pending', NEW r \in DOMAIN pending',
                      r < i, pending'[i].out \in pending'[i].ins,
                      pending'[r].out # pending'[i].out, pending'[i].out \in pending'[r].ins
               PROVE  FALSE
    BY DEF Engine!Aliased, Engine!InPlace
  <2>1. r \in 1 .. N /\ pending'[r] = pending[r]
    BY <1>1 DEF P!Recorded
  <2>2. CASE i \in 1 .. N
    <3>1. Engine!Aliased(pending)
      BY <1>1, <2>1, <2>2 DEF P!Recorded, Engine!Aliased, Engine!InPlace
    <3> QED BY <3>1 DEF Usable, Engine!Accepts
  <2>3. CASE i = N + 1
    BY <1>1, <1>5, <2>1, <2>3 DEF P!Recorded, P!Unread
  <2> QED BY <1>1, <2>2, <2>3
<1> QED BY <1>7, <1>8, <1>9, <1>10 DEF Usable, Engine!Accepts

(* Late work that the engine accepts does not transform in place, is made  *)
(* of the row that results, and changes nothing but fields with pending    *)
(* work.                                                                   *)
LEMMA LateRecordIsContained ==
  ASSUME Inv, NEW ins \in SUBSET Names, NEW out \in Names, Record(ins, out),
         out \in Awaited(pending), Usable'
  PROVE  /\ out \notin ins
         /\ Value'[out] = <<recorded + 1, [n \in ins |-> Value'[n]]>>
         /\ \A n \in Names \ Outputs(pending)' : Value'[n] = Value[n]
<1> DEFINE N == Len(pending)
           w == Work(ins, out)
<1>1. /\ N \in Nat /\ DOMAIN pending = 1 .. N
      /\ P!Recorded(pending, w, pending')
      /\ DOMAIN pending' = DOMAIN pending \cup {N + 1}
      /\ stored' = stored
  BY RecordAppends
<1>2. w.ins = ins /\ w.out = out /\ w.id = recorded + 1
  BY DEF Work
<1> HIDE DEF w
<1>3. out \notin ins
  <2> SUFFICES ASSUME out \in ins PROVE FALSE
    OBVIOUS
  <2>1. PICK r \in 1 .. N : out \in pending[r].ins /\ pending[r].out # out
    BY <1>1 DEF Awaited
  <2>2. /\ r \in DOMAIN pending' /\ N + 1 \in DOMAIN pending' /\ r < N + 1
        /\ pending'[r] = pending[r] /\ pending'[N + 1] = w
    BY <1>1, <2>1 DEF P!Recorded
  <2>3. Engine!Aliased(pending')
    BY <1>2, <2>1, <2>2 DEF Engine!Aliased, Engine!InPlace
  <2> QED BY <2>3 DEF Usable, Engine!Accepts
<1>4. Usable
  BY RefusedStaysRefused
<1>5. P!Sound(pending, stored) /\ DOMAIN stored = Names
  BY <1>4, UsableIsSound
<1>6. P!Sound(pending', stored')
  <2>1. Inv'
    BY RecordKeepsSnapshot
  <2> QED BY <2>1, AcceptedIsSound DEF Inv, Usable
<1>7. ASSUME NEW n \in Names, n \notin Outputs(pending)'
      PROVE  Value'[n] = Value[n]
  <2>1. \A i \in DOMAIN pending' : pending'[i].out # n
    BY <1>7 DEF Outputs
  <2>2. \A i \in DOMAIN pending : pending[i].out # n
    BY <1>1, <2>1 DEF P!Recorded
  <2>3. Len(pending') \in Nat /\ DOMAIN pending' = 1 .. Len(pending')
    BY <1>1 DEF P!Recorded
  <2>4. P!Evaluate(pending', stored)[n] = stored[n]
    BY <1>1, <1>5, <1>6, <2>1, <2>3, P!UnwrittenIsStored
  <2>5. P!Evaluate(pending, stored)[n] = stored[n]
    BY <1>1, <1>5, <2>2, P!UnwrittenIsStored
  <2>6. Value' = P!Evaluate(pending', stored') /\ Value = P!Evaluate(pending, stored)
    BY SameRun DEF Value
  <2> QED BY <1>1, <2>4, <2>5, <2>6
<1>8. Value'[out] = <<recorded + 1, [n \in ins |-> Value'[n]]>>
  <2>1. PICK cs : cs = pending'
    OBVIOUS
  <2>2. Len(cs) = N + 1 /\ N + 1 \in Nat /\ N + 1 # 0 /\ cs[N + 1] = w
    BY <1>1, <2>1 DEF P!Recorded
  <2>3. P!Sound(cs, stored')
    BY <1>6, <2>1
  <2>4. P!Evaluate(cs, stored')[out] = ApplyTerm(w, P!Evaluate(cs, stored'))
    BY <1>2, <1>3, <2>2, <2>3, P!LastWorkReadsTheRow
  <2>5. Value' = P!Evaluate(cs, stored')
    BY <2>1, SameRun DEF Value
  <2> QED BY <1>2, <2>4, <2>5 DEF ApplyTerm
<1> QED BY <1>3, <1>7, <1>8

(* What is left pending writes, and waits for, no field that was not       *)
(* written or waited for; no chain is overwritten, no field aliased, that  *)
(* was not.                                                                *)
LEMMA RanShrinks ==
  ASSUME Inv, Usable, NEW W \in SUBSET (1 .. Len(pending)), Ran(W)
  PROVE  /\ Outputs(pending)' \subseteq Outputs(pending)
         /\ Awaited(pending)' \subseteq Awaited(pending)
         /\ ChainsRead => ChainsRead'
         /\ Engine!KnownFields(pending', Names) /\ ~Engine!Aliased(pending')
<1> DEFINE N == Len(pending)
           M == Len(pending')
<1>1. N \in Nat /\ DOMAIN pending = 1 .. N
  BY UsableIsSound
<1>2. PICK r : P!Keeps(pending, W, N, pending', r)
  BY <1>1, P!DischargeKeeps DEF Ran
<1>3. /\ DOMAIN pending' = 1 .. M
      /\ \A a \in 1 .. M : r[a] \in 1 .. N /\ pending'[a] = pending[r[a]]
      /\ \A a, b \in 1 .. M : r[a] < r[b] <=> a < b
  BY <1>1, <1>2, P!KeptPositions
<1> HIDE DEF N, M
<1>4. Outputs(pending)' \subseteq Outputs(pending)
  BY <1>1, <1>3 DEF Outputs
<1>5. Awaited(pending)' \subseteq Awaited(pending)
  BY <1>1, <1>3 DEF Awaited
<1>6. ASSUME ChainsRead
      PROVE  ChainsRead'
  <2> SUFFICES ASSUME NEW a \in 1 .. M, NEW b \in 1 .. M, a < b, pending'[a].out = pending'[b].out
               PROVE  pending'[b].out \in pending'[b].ins
    BY <1>3 DEF ChainsRead, Engine!InPlace
  <2> QED BY <1>1, <1>3, <1>6 DEF ChainsRead, Engine!InPlace
<1>7. Engine!KnownFields(pending', Names)
  BY <1>1, <1>3 DEF Usable, Engine!Accepts, Engine!KnownFields
<1>8. ~Engine!Aliased(pending')
  <2> SUFFICES ASSUME NEW i \in 1 .. M, NEW k \in 1 .. M,
                      k < i, pending'[i].out \in pending'[i].ins,
                      pending'[k].out # pending'[i].out, pending'[i].out \in pending'[k].ins
               PROVE  FALSE
    BY <1>3 DEF Engine!Aliased, Engine!InPlace
  <2>1. r[k] < r[i] /\ r[k] \in 1 .. N /\ r[i] \in 1 .. N
        /\ pending'[i] = pending[r[i]] /\ pending'[k] = pending[r[k]]
    BY <1>3
  <2>2. Engine!Aliased(pending)
    BY <1>1, <2>1 DEF Engine!Aliased, Engine!InPlace
  <2> QED BY <2>2 DEF Usable, Engine!Accepts
<1> QED BY <1>4, <1>5, <1>6, <1>7, <1>8

(* Consumption leaves a settled row settled, as it is.                     *)
LEMMA ConsumptionIsUnseen ==
  ASSUME Inv,
         \/ \E n \in Names : ConsumeColumn(n)
         \/ \E i \in DOMAIN pending, own \in Ownership : ConsumeCoupling(i, own)
  PROVE  /\ recorded' = recorded
         /\ Outputs(pending)' \subseteq Outputs(pending)
         /\ Awaited(pending)' \subseteq Awaited(pending)
         /\ Settled => Settled' /\ Value' = Value
<1>1. Usable
  BY ConsumptionRan
<1>2. PICK W \in SUBSET (1 .. Len(pending)) :
        Ran(W) /\ (ChainsRead => P!Closed(pending, W))
  BY ConsumptionRan
<1>3. /\ Outputs(pending)' \subseteq Outputs(pending)
      /\ Awaited(pending)' \subseteq Awaited(pending)
      /\ ChainsRead => ChainsRead'
      /\ Engine!KnownFields(pending', Names) /\ ~Engine!Aliased(pending')
  BY <1>1, <1>2, RanShrinks
<1>4. ASSUME ChainsRead
      PROVE  Usable' /\ Value' = Value
  <2>1. P!Sound(pending, stored)
    BY <1>1, UsableIsSound
  <2>2. /\ P!Sound(pending', stored')
        /\ P!Evaluate(pending', stored') = P!Evaluate(pending, stored)
    BY <1>2, <1>4, <2>1, P!ClosedRunKeepsTheEvaluation DEF Ran
  <2>3. Len(Engine!Order(pending')) = Len(pending')
    BY <2>2, SameOrder DEF P!Sound
  <2>4. Usable'
    BY <1>3, <2>3 DEF Usable, Engine!Accepts
  <2>5. Value' = Value
    BY <2>2, SameRun DEF Value
  <2> QED BY <2>4, <2>5
<1> QED BY <1>2, <1>3, <1>4 DEF Settled, Ran

(* A dataset with nothing pending starts as the eager row does. *)
LEMMA InitReadsAsEager ==
  ASSUME Init
  PROVE  Eager!Init
<1>1. Inv
  BY InitSnapshot
<1>2. /\ pending = <<>> /\ DOMAIN pending = {} /\ Len(pending) = 0
      /\ stored = [n \in Names |-> <<0, n>>] /\ recorded = 0
  BY DEF Init
<1>3. Len(Engine!Order(pending)) = Len(pending)
  <2>1. Len(P!Order(pending)) = Len(pending)
    <3> DEFINE rank == [i \in 1 .. Len(pending) |-> 0]
    <3>1. \A i \in 1 .. Len(pending) : FALSE
      BY <1>2
    <3>2. rank \in [1 .. Len(pending) -> Nat]
      OBVIOUS
    <3>3. Len(pending) \in Nat /\ DOMAIN pending = 1 .. Len(pending)
      BY <1>2
    <3> QED BY <3>1, <3>2, <3>3, P!RankedOrderIsComplete
  <2> QED BY <2>1, SameOrder
<1>4. Usable
  BY <1>2, <1>3 DEF Usable, Engine!Accepts, Engine!KnownFields, Engine!Aliased
<1>5. ChainsRead
  BY <1>2 DEF ChainsRead
<1>6. Value = stored
  <2>1. P!Sound(pending, stored)
    BY <1>1, <1>4, UsableIsSound
  <2>2. P!Evaluate(pending, stored) = stored
    BY <1>2, <2>1, P!NothingPendingEvaluatesToTheFrame
  <2> QED BY <2>2, SameRun DEF Value
<1>7. Outputs(pending) = {} /\ UNION {pending[i].ins \ {pending[i].out} : i \in DOMAIN pending} = {}
  BY <1>2 DEF Outputs
<1>8. Settled = TRUE
  BY <1>4, <1>5 DEF Settled
<1> QED BY <1>2, <1>6, <1>7, <1>8 DEF Eager!Init

(* Every step of a snapshot is a step of the eager row, or cannot be seen. *)
LEMMA StepReadsAsEager ==
  ASSUME Inv, [Next]_vars
  PROVE  [Eager!Next]_(Eager!vars)
<1>1. /\ Awaited(pending) = UNION {pending[i].ins \ {pending[i].out} : i \in DOMAIN pending}
      /\ Awaited(pending)' = UNION {pending'[i].ins \ {pending'[i].out} : i \in DOMAIN pending'}
  BY DEF Awaited
<1>2. Settled \in BOOLEAN /\ Settled' \in BOOLEAN
  BY DEF Settled
<1>3. CASE UNCHANGED vars
  <2>1. UNCHANGED <<stored, pending, recorded>>
    BY <1>3 DEF vars
  <2>2. UNCHANGED <<Value, Settled, Outputs(pending), recorded>>
        /\ Awaited(pending)' = Awaited(pending)
    BY <2>1 DEF Value, Settled, Usable, ChainsRead, Outputs, Awaited
  <2> QED BY <1>1, <2>2 DEF Eager!vars
<1>4. ASSUME NEW ins \in SUBSET Names, NEW out \in Names, Record(ins, out)
      PROVE  Eager!Next
  <2>1. Eager!Asked(ins, out)
    BY <1>1, <1>4, RecordedFields DEF Eager!Asked, Record
  <2>2. ChainsRead' <=> ChainsRead /\ (out \in Outputs(pending) => out \in ins)
    BY <1>4, RecordedChains
  <2>3. CASE Settled /\ out \notin Awaited(pending)
    <3>1. Usable' /\ Value' = [Value EXCEPT ![out] = <<recorded + 1, [n \in ins |-> Value[n]]>>]
      BY <1>4, <2>3, RecordRuns DEF Settled
    <3>2. Settled' = (out \in Outputs(pending) => out \in ins)
      BY <2>2, <2>3, <3>1 DEF Settled
    <3>3. Eager!Work(ins, out)
      BY <1>1, <2>1, <2>3, <3>1, <3>2 DEF Eager!Work, Eager!Done, Eager!Made
    <3> QED BY <3>3 DEF Eager!Next
  <2>4. CASE ~(Settled /\ out \notin Awaited(pending))
    <3>1. Settled' => Settled
      BY <1>4, <2>2, RefusedStaysRefused DEF Settled
    <3>2. ASSUME Settled'
          PROVE  /\ out \notin ins
                 /\ Value'[out] = <<recorded + 1, [n \in ins |-> Value'[n]]>>
                 /\ \A n \in Names \ Outputs(pending)' : Value'[n] = Value[n]
      BY <1>4, <2>4, <3>1, <3>2, LateRecordIsContained DEF Settled
    <3>3. Eager!LateWork(ins, out)
      BY <1>1, <1>2, <2>1, <2>4, <3>1, <3>2 DEF Eager!LateWork, Eager!Made
    <3> QED BY <3>3 DEF Eager!Next
  <2> QED BY <2>3, <2>4
<1>5. CASE \/ \E n \in Names : ConsumeColumn(n)
           \/ \E i \in DOMAIN pending, own \in Ownership : ConsumeCoupling(i, own)
  <2>1. Eager!Consume
    BY <1>1, <1>2, <1>5, ConsumptionIsUnseen DEF Eager!Consume
  <2> QED BY <2>1 DEF Eager!Next
<1> QED BY <1>3, <1>4, <1>5 DEF Next

(* Whoever reads the rows of a snapshot sees recorded work done at once    *)
(* and never sees consumption, in any order of recordings and              *)
(* consumptions, until work is recorded for a field that pending work      *)
(* reads already, or that overwrites pending work.                         *)
THEOREM SnapshotsReadAsEagerRows == Spec => ReadsAsEager
<1>1. Init => Eager!Init
  BY InitReadsAsEager
<1>2. Inv /\ [Next]_vars => [Eager!Next]_(Eager!vars)
  BY StepReadsAsEager
<1> QED BY <1>1, <1>2, SnapshotInvariant, PTL DEF Spec, ReadsAsEager, Eager!Spec
=============================================================================
