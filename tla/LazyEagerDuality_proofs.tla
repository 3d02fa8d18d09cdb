----------------------- MODULE LazyEagerDuality_proofs -----------------------
(***************************************************************************)
(* What recording, editing, composing and collecting keep, in both forms   *)
(* of a program, for any fields, any other datasets and any strategies.    *)
(***************************************************************************)
EXTENDS LazyEagerDuality, Induction, FiniteSetTheorems

P == INSTANCE CouplingEngine_proofs WITH Compute <- Compute

-----------------------------------------------------------------------------
(* The invariant                                                           *)

(* A snapshot of some of the names, with identities of ids.                *)
IsSnapshot(snap, ids) ==
  /\ snap = [schema |-> snap.schema, stored |-> snap.stored, pending |-> snap.pending]
  /\ Fields(snap) \subseteq AllNames
  /\ snap.schema \in [Fields(snap) -> FieldSpec(ids)]
  /\ snap.stored = [n \in Fields(snap) |-> snap.stored[n]]
  /\ snap.pending \in Seq(Coupling(Fields(snap)))

Minted == 1 .. minted - 1

TypeInv ==
  /\ IsSnapshot(lazy, Minted) /\ IsSnapshot(eager, Minted)
  /\ lazy.schema = eager.schema
  /\ parted \subseteq Fields(lazy)
  /\ records \in 0 .. MaxRecords /\ edits \in 0 .. MaxEdits
  /\ minted \in Nat /\ FirstId <= minted

Declared(cs) == \A i \in DOMAIN cs : cs[i] = Materialize(cs[i].out)

(* What holds of every state: both programs hold a snapshot, and all that  *)
(* the eager one has pending are the bindings that materialize declares.   *)
IInv == TypeInv /\ Declared(eager.pending)

NoRepeats(cs) == \A i, j \in DOMAIN cs : cs[i] = cs[j] => i = j

OneName(snap) == \A m, n \in Fields(snap) : snap.schema[m].id = snap.schema[n].id => m = n

(* What holds where no composition meets a field under two names: a field  *)
(* has one name, and a coupling is pending once.                           *)
IdInv == OneName(lazy) /\ NoRepeats(lazy.pending)

-----------------------------------------------------------------------------
(* The engine                                                              *)

(* Both instances of the engine are the same engine. *)
LEMMA SameEngine ==
  ASSUME NEW cs, NEW W, NEW frame, NEW column, NEW names
  PROVE  /\ Engine!Run(cs, W, frame) = P!Run(cs, W, frame)
         /\ Engine!Discharge(cs, W) = P!Discharge(cs, W)
         /\ Engine!CouplingsForColumn(cs, column) = P!CouplingsForColumn(cs, column)
         /\ Engine!Order(cs) = P!Order(cs)
         /\ Engine!Accepts(cs, names) = P!Accepts(cs, names)
BY DEF Engine!Run, P!Run, Engine!Order, P!Order, Engine!Precedes, P!Precedes,
       Engine!Discharge, P!Discharge, Engine!CouplingsForColumn, P!CouplingsForColumn,
       Engine!Upstream, P!Upstream, Engine!Accepts, P!Accepts, Engine!KnownFields,
       P!KnownFields, Engine!Aliased, P!Aliased, Engine!InPlace, P!InPlace

(* A sequence without some of its members is a sequence of the others.     *)
LEMMA WithoutKeeps ==
  ASSUME NEW C, NEW cs \in Seq(C), NEW gone
  PROVE  /\ Without(cs, gone) \in Seq({cs[i] : i \in DOMAIN cs \ gone})
         /\ NoRepeats(cs) => NoRepeats(Without(cs, gone))
<1> DEFINE rest == Without(cs, gone)
           B == {cs[i] : i \in DOMAIN cs \ gone}
<1>1. Len(cs) \in Nat /\ DOMAIN cs = 1 .. Len(cs)
  OBVIOUS
<1>2. rest = P!Discharge(cs, gone)
  BY SameEngine DEF Without
<1>3. PICK r : P!Keeps(cs, gone, Len(cs), rest, r)
  BY <1>1, <1>2, P!DischargeKeeps
<1>4. /\ Len(rest) \in Nat /\ DOMAIN rest = 1 .. Len(rest)
      /\ \A a \in 1 .. Len(rest) : r[a] \in 1 .. Len(cs) /\ r[a] \notin gone /\ rest[a] = cs[r[a]]
      /\ \A a, b \in 1 .. Len(rest) : r[a] = r[b] <=> a = b
  BY <1>1, <1>3, P!KeptPositions
<1>5. rest \in Seq({cs[i] : i \in 1 .. Len(cs)})
  BY <1>3 DEF P!Keeps
<1>6. \A a \in 1 .. Len(rest) : rest[a] \in B
  BY <1>1, <1>4
<1> HIDE DEF rest, B
<1>7. rest \in Seq(B)
  BY <1>4, <1>5, <1>6
<1>8. NoRepeats(cs) => NoRepeats(rest)
  BY <1>1, <1>4 DEF NoRepeats
<1> QED BY <1>7, <1>8 DEF rest, B

-----------------------------------------------------------------------------
(* Couplings                                                               *)

(* A set of records, field by field: what SMT needs to know of Coupling.   *)
LEMMA CouplingShape ==
  ASSUME NEW names, NEW c
  PROVE  c \in Coupling(names) <=>
           /\ c = [op |-> c.op, ins |-> c.ins, out |-> c.out, args |-> c.args, tag |-> c.tag]
           /\ c.op \in {"BindSlice", "BindDimensions", "Materialize", "Map"}
           /\ c.ins \subseteq names /\ c.out \in names /\ c.args \in Seq(names) /\ c.tag \in Nat
           /\ \A k \in DOMAIN c.args : c.args[k] \in c.ins
           /\ c.op # "Map" => c.out \in c.ins
           /\ c.op \in {"BindSlice", "BindDimensions"} => Len(c.args) = 1
BY DEF Coupling

(* What is pending over some names is pending over more. *)
LEMMA CouplingGrows ==
  ASSUME NEW names, NEW more, names \subseteq more
  PROVE  /\ Coupling(names) \subseteq Coupling(more)
         /\ Seq(Coupling(names)) \subseteq Seq(Coupling(more))
<1>1. Seq(names) \subseteq Seq(more)
  OBVIOUS
<1>2. ASSUME NEW c \in Coupling(names) PROVE c \in Coupling(more)
  BY <1>1, <1>2, CouplingShape
<1>3. Coupling(names) \subseteq Coupling(more)
  BY <1>2
<1> HIDE DEF Coupling
<1> QED BY <1>3

(* The four couplings that operators record. *)
LEMMA SliceCouplings ==
  ASSUME NEW names, NEW s \in names, NEW d \in names, NEW dim \in Nat
  PROVE  BindSlice(s, d) \in Coupling(names) /\ BindDimensions(s, d, dim) \in Coupling(names)
<1>1. ASSUME NEW x \in names
      PROVE  <<x>> \in Seq(names) /\ Len(<<x>>) = 1 /\ \A k \in DOMAIN <<x>> : <<x>>[k] = x
  <2>1. <<x>> \in Seq(names) /\ Len(<<x>>) = 1 /\ <<x>>[1] = x
    OBVIOUS
  <2>2. DOMAIN <<x>> = {1}
    OBVIOUS
  <2> QED BY <2>1, <2>2
<1>2. BindSlice(s, d) \in Coupling(names)
  <2> DEFINE c == BindSlice(s, d)
  <2>1. /\ c.op = "BindSlice" /\ c.ins = {s, d} /\ c.out = d /\ c.args = <<s>> /\ c.tag = 0
        /\ c = [op |-> c.op, ins |-> c.ins, out |-> c.out, args |-> c.args, tag |-> c.tag]
    BY DEF BindSlice, NoTag
  <2> HIDE DEF c
  <2>2. /\ c.ins \subseteq names /\ c.out \in names /\ c.args \in Seq(names) /\ c.tag \in Nat
        /\ c.out \in c.ins /\ Len(c.args) = 1
        /\ \A k \in DOMAIN c.args : c.args[k] \in c.ins
    BY <1>1, <2>1
  <2>3. c \in Coupling(names)
    BY <2>1, <2>2, CouplingShape
  <2> QED BY <2>3 DEF c
<1>3. BindDimensions(s, d, dim) \in Coupling(names)
  <2> DEFINE c == BindDimensions(s, d, dim)
  <2>1. /\ c.op = "BindDimensions" /\ c.ins = {s, d} /\ c.out = s /\ c.args = <<d>>
        /\ c.tag = dim
        /\ c = [op |-> c.op, ins |-> c.ins, out |-> c.out, args |-> c.args, tag |-> c.tag]
    BY DEF BindDimensions
  <2> HIDE DEF c
  <2>2. /\ c.ins \subseteq names /\ c.out \in names /\ c.args \in Seq(names) /\ c.tag \in Nat
        /\ c.out \in c.ins /\ Len(c.args) = 1
        /\ \A k \in DOMAIN c.args : c.args[k] \in c.ins
    BY <1>1, <2>1
  <2>3. c \in Coupling(names)
    BY <2>1, <2>2, CouplingShape
  <2> QED BY <2>3 DEF c
<1> QED BY <1>2, <1>3

(* A declaration reads and writes one field. *)
LEMMA MaterializeCoupling ==
  ASSUME NEW names, NEW d \in names
  PROVE  Materialize(d) \in Coupling(names) /\ Materialize(d).out = d
<1> DEFINE c == Materialize(d)
<1>1. << >> \in Seq(names) /\ DOMAIN << >> = {}
  OBVIOUS
<1>2. /\ c.op = "Materialize" /\ c.ins = {d} /\ c.out = d /\ c.args = << >> /\ c.tag = 0
      /\ c = [op |-> c.op, ins |-> c.ins, out |-> c.out, args |-> c.args, tag |-> c.tag]
  BY DEF Materialize, NoTag
<1> HIDE DEF c
<1>3. /\ c.ins \subseteq names /\ c.out \in names /\ c.args \in Seq(names) /\ c.tag \in Nat
      /\ c.out \in c.ins /\ \A k \in DOMAIN c.args : c.args[k] \in c.ins
  BY <1>1, <1>2
<1>4. c \in Coupling(names) /\ c.out = d
  BY <1>2, <1>3, CouplingShape
<1> QED BY <1>4 DEF c

(* A mapping reads its arguments. *)
LEMMA MapIsCoupling ==
  ASSUME NEW names, NEW inputs \in Seq(names), NEW out \in names, NEW fn \in Nat
  PROVE  MapCoupling(inputs, out, fn) \in Coupling(names)
<1>1. \A k \in DOMAIN inputs : inputs[k] \in names
  OBVIOUS
<1> QED BY <1>1, CouplingShape DEF MapCoupling

(* Couplings whose fields all survive are couplings over those. *)
LEMMA RetainedIsTyped ==
  ASSUME NEW old, NEW cs \in Seq(Coupling(old)), NEW names
  PROVE  /\ Retained(cs, names) \in Seq(Coupling(names))
         /\ NoRepeats(cs) => NoRepeats(Retained(cs, names))
         /\ Declared(cs) => Declared(Retained(cs, names))
<1> DEFINE gone == {i \in DOMAIN cs : ~(cs[i].ins \cup {cs[i].out} \subseteq names)}
           B == {cs[i] : i \in DOMAIN cs \ gone}
<1>1. ASSUME NEW c \in B PROVE c \in Coupling(names)
  <2>1. c \in Coupling(old) /\ c.ins \cup {c.out} \subseteq names
    BY <1>1
  <2>2. /\ c.ins \subseteq names /\ c.out \in names
        /\ c.args \in Seq(old) /\ \A k \in DOMAIN c.args : c.args[k] \in names
    BY <2>1, CouplingShape
  <2>3. c.args \in Seq(names)
    BY <2>2
  <2> QED BY <2>1, <2>2, <2>3, CouplingShape
<1>2. Declared(cs) => \A c \in B : c = Materialize(c.out)
  BY DEF Declared
<1>3. Without(cs, gone) \in Seq(B) /\ (NoRepeats(cs) => NoRepeats(Without(cs, gone)))
  BY WithoutKeeps
<1> HIDE DEF gone, B
<1>4. \A i \in DOMAIN Without(cs, gone) : Without(cs, gone)[i] \in B
  BY <1>3
<1>5. Without(cs, gone) \in Seq(Coupling(names))
  BY <1>1, <1>3
<1>6. Declared(cs) => Declared(Without(cs, gone))
  BY <1>2, <1>4 DEF Declared
<1> QED BY <1>3, <1>5, <1>6 DEF Retained, gone

(* Pruned couplings are some of them. *)
LEMMA PrunedIsTyped ==
  ASSUME NEW C, NEW cs \in Seq(C), NEW names
  PROVE  /\ Pruned(cs, names) \in Seq(C)
         /\ NoRepeats(cs) => NoRepeats(Pruned(cs, names))
         /\ Declared(cs) => Declared(Pruned(cs, names))
         /\ \A i \in DOMAIN Pruned(cs, names) : ~Touches(Pruned(cs, names)[i], names)
<1> DEFINE gone == {i \in DOMAIN cs : Touches(cs[i], names)}
           B == {cs[i] : i \in DOMAIN cs \ gone}
           rest == Without(cs, gone)
<1>1. B \subseteq C /\ (\A c \in B : ~Touches(c, names))
  OBVIOUS
<1>2. Declared(cs) => \A c \in B : c = Materialize(c.out)
  BY DEF Declared
<1>3. rest \in Seq(B) /\ (NoRepeats(cs) => NoRepeats(rest))
  BY WithoutKeeps
<1>4. Pruned(cs, names) = rest
  BY DEF Pruned
<1> HIDE DEF gone, B, rest
<1>5. rest \in Seq(C) /\ \A i \in DOMAIN rest : rest[i] \in B
  BY <1>1, <1>3
<1>6. Declared(cs) => Declared(rest)
  BY <1>2, <1>5 DEF Declared
<1> QED BY <1>1, <1>3, <1>4, <1>5, <1>6

Rewrote(c, to) ==
  [op |-> c.op, ins |-> {to[n] : n \in c.ins}, out |-> to[c.out],
   args |-> [k \in DOMAIN c.args |-> to[c.args[k]]], tag |-> c.tag]

(* References follow the fields. *)
LEMMA RewrittenIsTyped ==
  ASSUME NEW old, NEW more, NEW new, old \subseteq more, NEW to \in [more -> new],
         NEW cs \in Seq(Coupling(old))
  PROVE  /\ Rewritten(cs, to) \in Seq(Coupling(new))
         /\ Len(Rewritten(cs, to)) = Len(cs)
         /\ Declared(cs) => Declared(Rewritten(cs, to))
<1>1. Rewritten(cs, to) = [i \in DOMAIN cs |-> Rewrote(cs[i], to)]
  BY DEF Rewritten, Rewrote
<1>2. ASSUME NEW c \in Coupling(old)
      PROVE  /\ Rewrote(c, to) \in Coupling(new)
             /\ c = Materialize(c.out) => Rewrote(c, to) = Materialize(Rewrote(c, to).out)
  <2> DEFINE d == Rewrote(c, to)
  <2>1. /\ d = [op |-> c.op, ins |-> {to[n] : n \in c.ins}, out |-> to[c.out],
                args |-> [k \in DOMAIN c.args |-> to[c.args[k]]], tag |-> c.tag]
    BY DEF Rewrote
  <2>2. c.ins \subseteq more /\ c.out \in more /\ c.args \in Seq(old) /\ Len(c.args) \in Nat
        /\ DOMAIN c.args = 1 .. Len(c.args) /\ (\A k \in DOMAIN c.args : c.args[k] \in more)
    BY CouplingShape
  <2>3. d.ins \subseteq new /\ d.out \in new
    BY <2>1, <2>2
  <2>4. d.args \in Seq(new) /\ Len(d.args) = Len(c.args) /\ DOMAIN d.args = DOMAIN c.args
        /\ (\A k \in DOMAIN d.args : d.args[k] = to[c.args[k]])
    BY <2>1, <2>2
  <2>5. d \in Coupling(new)
    <3>1. /\ d = [op |-> d.op, ins |-> d.ins, out |-> d.out, args |-> d.args, tag |-> d.tag]
          /\ d.op = c.op /\ d.tag = c.tag /\ d.out = to[c.out] /\ d.ins = {to[n] : n \in c.ins}
      BY <2>1
    <3>2. /\ c.op \in {"BindSlice", "BindDimensions", "Materialize", "Map"} /\ c.tag \in Nat
          /\ \A k \in DOMAIN c.args : c.args[k] \in c.ins
          /\ c.op # "Map" => c.out \in c.ins
          /\ c.op \in {"BindSlice", "BindDimensions"} => Len(c.args) = 1
      BY CouplingShape
    <3>3. /\ \A k \in DOMAIN d.args : d.args[k] \in d.ins
          /\ d.op # "Map" => d.out \in d.ins
          /\ d.op \in {"BindSlice", "BindDimensions"} => Len(d.args) = 1
      BY <2>4, <3>1, <3>2
    <3> HIDE DEF d
    <3> QED BY <2>3, <2>4, <3>1, <3>2, <3>3, CouplingShape
  <2>6. ASSUME c = Materialize(c.out) PROVE d = Materialize(d.out)
    <3>1. c.op = "Materialize" /\ c.ins = {c.out} /\ c.args = << >> /\ c.tag = NoTag
      BY <2>6 DEF Materialize
    <3>2. d.args = << >>
      BY <2>1, <2>4, <3>1
    <3>3. d.ins = {d.out} /\ d.op = "Materialize" /\ d.tag = NoTag
      BY <2>1, <3>1
    <3>4. d = [op |-> d.op, ins |-> d.ins, out |-> d.out, args |-> d.args, tag |-> d.tag]
      BY <2>1
    <3> HIDE DEF d
    <3> QED BY <3>2, <3>3, <3>4 DEF Materialize
  <2> QED BY <2>5, <2>6
<1> HIDE DEF Rewrote
<1>3. \A i \in DOMAIN cs : cs[i] \in Coupling(old)
  OBVIOUS
<1>4. Len(cs) \in Nat /\ DOMAIN cs = 1 .. Len(cs)
  OBVIOUS
<1>5. Rewritten(cs, to) \in Seq(Coupling(new)) /\ Len(Rewritten(cs, to)) = Len(cs)
  BY <1>1, <1>2, <1>3, <1>4
<1>6. Declared(cs) => Declared(Rewritten(cs, to))
  BY <1>1, <1>2, <1>3 DEF Declared
<1> QED BY <1>5, <1>6

-----------------------------------------------------------------------------
(* Adding and uniting                                                      *)

(* A recording adds a coupling that is not pending yet. *)
LEMMA AddedIsTyped ==
  ASSUME NEW C, NEW cs \in Seq(C), NEW c \in C
  PROVE  /\ Added(cs, c) \in Seq(C)
         /\ NoRepeats(cs) => NoRepeats(Added(cs, c))
         /\ Declared(cs) /\ c = Materialize(c.out) => Declared(Added(cs, c))
         /\ \A i \in DOMAIN Added(cs, c) :
              Added(cs, c)[i] = c \/ \E j \in DOMAIN cs : Added(cs, c)[i] = cs[j]
<1>1. CASE \E i \in DOMAIN cs : cs[i] = c
  BY <1>1 DEF Added
<1>2. CASE ~ \E i \in DOMAIN cs : cs[i] = c
  <2> DEFINE more == Append(cs, c)
  <2>1. /\ more \in Seq(C) /\ Len(cs) \in Nat /\ DOMAIN cs = 1 .. Len(cs)
        /\ DOMAIN more = 1 .. (Len(cs) + 1) /\ more[Len(cs) + 1] = c
        /\ \A i \in 1 .. Len(cs) : more[i] = cs[i]
    OBVIOUS
  <2>2. Added(cs, c) = more
    BY <1>2 DEF Added
  <2> HIDE DEF more
  <2>3. \A i \in DOMAIN more : i = Len(cs) + 1 \/ i \in DOMAIN cs
    BY <2>1
  <2>4. NoRepeats(cs) => NoRepeats(more)
    BY <1>2, <2>1, <2>3 DEF NoRepeats
  <2>5. Declared(cs) /\ c = Materialize(c.out) => Declared(more)
    BY <2>1, <2>3 DEF Declared
  <2> QED BY <2>1, <2>2, <2>3, <2>4, <2>5
<1> QED BY <1>1, <1>2

(* Union adds the members of ys one after another. *)
LEMMA UnionEquation ==
  ASSUME NEW xs, NEW ys, Len(ys) \in Nat
  PROVE  \E f : /\ f[0] = xs
                /\ \A k \in 1 .. Len(ys) : f[k] = Added(f[k-1], ys[k])
                /\ Union(xs, ys) = f[Len(ys)]
<1> DEFINE N == Len(ys)
           eqn(n, g) == g = [k \in 0 .. n |->
                               IF k = 0 THEN xs ELSE Added(g[k-1], ys[k])]
           T == {n \in 0 .. N : \E g : eqn(n, g)}
<1>1. \E g : eqn(0, g)
  <2> WITNESS [p \in 0 .. 0 |-> xs]
  <2> QED OBVIOUS
<1>2. ASSUME NEW n \in 1 .. N, NEW g, eqn(n - 1, g)
      PROVE  \E h : eqn(n, h)
  <2> DEFINE h == [k \in 0 .. n |-> IF k = n THEN Added(g[n-1], ys[n]) ELSE g[k]]
  <2> SUFFICES eqn(n, h)
    OBVIOUS
  <2>1. ASSUME NEW k \in 0 .. n
        PROVE  h[k] = IF k = 0 THEN xs ELSE Added(h[k-1], ys[k])
    <3>1. CASE k = n
      BY <3>1
    <3>2. CASE k # n
      BY <3>2, <1>2
    <3> QED BY <3>1, <3>2
  <2> QED BY <2>1
<1>3. \E g : eqn(N, g)
  <2> HIDE DEF eqn
  <2>1. 0 \in T /\ \A n \in 1 .. N : n - 1 \in T => n \in T
    BY <1>1, <1>2
  <2> HIDE DEF T
  <2>2. \A n \in 0 .. N : n \in T
    BY <2>1, SegmentInduction, Zenon
  <2> QED BY <2>2 DEF T
<1> DEFINE f == CHOOSE g : eqn(N, g)
<1>4. eqn(N, f)
  <2> HIDE DEF eqn
  <2> QED BY <1>3
<1>5. Union(xs, ys) = f[Len(ys)]
  BY DEF Union
<1> HIDE DEF f
<1>6. f[0] = xs /\ \A k \in 1 .. N : f[k] = Added(f[k-1], ys[k])
  BY <1>4
<1> QED BY <1>5, <1>6

(* The union of two sequences of couplings is one, without repetition if   *)
(* the first is.                                                           *)
LEMMA UnionIsTyped ==
  ASSUME NEW C, NEW xs \in Seq(C), NEW ys \in Seq(C)
  PROVE  /\ Union(xs, ys) \in Seq(C)
         /\ NoRepeats(xs) => NoRepeats(Union(xs, ys))
         /\ Declared(xs) /\ Declared(ys) => Declared(Union(xs, ys))
<1> DEFINE N == Len(ys)
           good(s) == /\ s \in Seq(C)
                      /\ NoRepeats(xs) => NoRepeats(s)
                      /\ Declared(xs) /\ Declared(ys) => Declared(s)
<1>1. N \in Nat /\ DOMAIN ys = 1 .. N
  OBVIOUS
<1>2. PICK f : /\ f[0] = xs
               /\ \A k \in 1 .. N : f[k] = Added(f[k-1], ys[k])
               /\ Union(xs, ys) = f[N]
  BY <1>1, UnionEquation
<1> DEFINE T == {k \in 0 .. N : good(f[k])}
<1>3. good(xs)
  OBVIOUS
<1>4. ASSUME NEW k \in 1 .. N, good(f[k-1]) PROVE good(f[k])
  <2>1. ys[k] \in C /\ (Declared(ys) => ys[k] = Materialize(ys[k].out))
    BY <1>1 DEF Declared
  <2>2. f[k] = Added(f[k-1], ys[k])
    BY <1>2
  <2>3. f[k-1] \in Seq(C)
    BY <1>4
  <2>4. /\ Added(f[k-1], ys[k]) \in Seq(C)
        /\ NoRepeats(f[k-1]) => NoRepeats(Added(f[k-1], ys[k]))
        /\ Declared(f[k-1]) /\ ys[k] = Materialize(ys[k].out) => Declared(Added(f[k-1], ys[k]))
    BY <2>1, <2>3, AddedIsTyped
  <2> QED BY <1>4, <2>1, <2>2, <2>4
<1> HIDE DEF good
<1>5. 0 \in T /\ \A k \in 1 .. N : k - 1 \in T => k \in T
  BY <1>1, <1>2, <1>3, <1>4
<1> HIDE DEF T
<1>6. N \in T
  <2> HIDE DEF N
  <2>1. \A k \in 0 .. N : k \in T
    BY <1>1, <1>5, SegmentInduction, Zenon
  <2> QED BY <1>1, <2>1
<1> QED BY <1>2, <1>6 DEF T, good

Reached(cs, prev) == prev \cup {cs[i].out : i \in {j \in DOMAIN cs : cs[j].ins \cap prev # {}}}

(* Downstream grows one round at a time. *)
LEMMA DownstreamEquation ==
  ASSUME NEW cs, NEW names, Len(cs) \in Nat
  PROVE  \E f : /\ f[0] = names
                /\ \A k \in 1 .. Len(cs) : f[k] = Reached(cs, f[k-1])
                /\ Downstream(cs, names) = f[Len(cs)]
<1> DEFINE N == Len(cs)
           eqn(n, g) == g = [k \in 0 .. n |->
                               IF k = 0 THEN names ELSE Reached(cs, g[k-1])]
           T == {n \in 0 .. N : \E g : eqn(n, g)}
<1>1. \E g : eqn(0, g)
  <2> WITNESS [p \in 0 .. 0 |-> names]
  <2> QED OBVIOUS
<1>2. ASSUME NEW n \in 1 .. N, NEW g, eqn(n - 1, g)
      PROVE  \E h : eqn(n, h)
  <2> DEFINE h == [k \in 0 .. n |-> IF k = n THEN Reached(cs, g[n-1]) ELSE g[k]]
  <2> SUFFICES eqn(n, h)
    OBVIOUS
  <2>1. ASSUME NEW k \in 0 .. n
        PROVE  h[k] = IF k = 0 THEN names ELSE Reached(cs, h[k-1])
    <3>1. CASE k = n
      BY <3>1
    <3>2. CASE k # n
      BY <3>2, <1>2
    <3> QED BY <3>1, <3>2
  <2> QED BY <2>1
<1>3. \E g : eqn(N, g)
  <2> HIDE DEF eqn
  <2>1. 0 \in T /\ \A n \in 1 .. N : n - 1 \in T => n \in T
    BY <1>1, <1>2
  <2> HIDE DEF T
  <2>2. \A n \in 0 .. N : n \in T
    BY <2>1, SegmentInduction, Zenon
  <2> QED BY <2>2 DEF T
<1> DEFINE f == CHOOSE g : eqn(N, g)
<1>4. eqn(N, f)
  <2> HIDE DEF eqn
  <2> QED BY <1>3
<1>5. Downstream(cs, names) = f[Len(cs)]
  BY DEF Downstream, Reached
<1> HIDE DEF f
<1>6. f[0] = names /\ \A k \in 1 .. N : f[k] = Reached(cs, f[k-1])
  BY <1>4
<1> QED BY <1>5, <1>6

(* What is downstream is at the source or written. *)
LEMMA DownstreamIsWritten ==
  ASSUME NEW C, NEW cs \in Seq(C), NEW names, NEW all, names \subseteq all,
         \A i \in DOMAIN cs : cs[i].out \in all
  PROVE  Downstream(cs, names) \subseteq all
<1> DEFINE N == Len(cs)
<1>1. N \in Nat
  OBVIOUS
<1>2. PICK f : /\ f[0] = names
               /\ \A k \in 1 .. N : f[k] = Reached(cs, f[k-1])
               /\ Downstream(cs, names) = f[N]
  BY <1>1, DownstreamEquation
<1> DEFINE T == {k \in 0 .. N : f[k] \subseteq all}
<1>3. 0 \in T /\ \A k \in 1 .. N : k - 1 \in T => k \in T
  BY <1>1, <1>2 DEF Reached
<1> HIDE DEF T
<1>4. N \in T
  <2> HIDE DEF N
  <2>1. \A k \in 0 .. N : k \in T
    BY <1>1, <1>3, SegmentInduction, Zenon
  <2> QED BY <1>1, <2>1
<1> QED BY <1>2, <1>4 DEF T

-----------------------------------------------------------------------------
(* Consumption                                                             *)

(* A run keeps the columns of a table. *)
LEMMA RunKeepsColumns ==
  ASSUME NEW cs, Len(cs) \in Nat, DOMAIN cs = 1 .. Len(cs), NEW W,
         NEW names, NEW frame, frame = [n \in names |-> frame[n]]
  PROVE  Engine!Run(cs, W, frame) = [n \in names |-> Engine!Run(cs, W, frame)[n]]
<1> DEFINE N == Len(P!Order(cs))
<1>1. N \in Nat
  BY P!OrderPrefix DEF P!Prefix
<1>2. PICK f : /\ f[0] = frame
               /\ \A k \in 1 .. N : f[k] = P!RunOne(cs, W, P!Order(cs)[k], f[k-1])
               /\ P!Run(cs, W, frame) = f[N]
  BY <1>1, P!RunEquation
<1> DEFINE T == {k \in 0 .. N : f[k] = [n \in names |-> f[k][n]]}
<1>3. 0 \in T
  BY <1>1, <1>2
<1>4. ASSUME NEW k \in 1 .. N, k - 1 \in T PROVE k \in T
  <2> DEFINE c == cs[P!Order(cs)[k]]
  <2>1. f[k] = f[k-1] \/ f[k] = [f[k-1] EXCEPT ![c.out] = Compute(c, f[k-1])]
    BY <1>2 DEF P!RunOne
  <2>2. f[k-1] = [n \in names |-> f[k-1][n]]
    BY <1>4
  <2> HIDE DEF c
  <2> QED BY <1>1, <2>1, <2>2
<1> HIDE DEF T, N
<1>5. \A k \in 0 .. N : k \in T
  BY <1>1, <1>3, <1>4, SegmentInduction, Zenon
<1>6. N \in T
  BY <1>1, <1>5
<1>7. Engine!Run(cs, W, frame) = f[N]
  BY <1>2, SameEngine
<1> QED BY <1>6, <1>7 DEF T

(* consume(ds, column) keeps the fields and leaves couplings that write    *)
(* others pending.                                                         *)
LEMMA ConsumeIsTyped ==
  ASSUME NEW ids, NEW snap, IsSnapshot(snap, ids), NEW column
  PROVE  /\ IsSnapshot(Consume(snap, column), ids)
         /\ Consume(snap, column).schema = snap.schema
         /\ NoRepeats(snap.pending) => NoRepeats(Consume(snap, column).pending)
         /\ \A i \in DOMAIN Consume(snap, column).pending :
              \E j \in DOMAIN snap.pending :
                /\ Consume(snap, column).pending[i] = snap.pending[j]
                /\ snap.pending[j].out # column
<1> DEFINE cs == snap.pending
           W == Engine!CouplingsForColumn(cs, column)
           ran == Engine!Run(cs, W, snap.stored)
           rest == Without(cs, W)
           after == [schema |-> snap.schema, stored |-> ran, pending |-> rest]
           C == Coupling(Fields(snap))
<1>1. /\ cs \in Seq(C) /\ Len(cs) \in Nat /\ DOMAIN cs = 1 .. Len(cs)
      /\ snap.stored = [n \in Fields(snap) |-> snap.stored[n]]
      /\ snap = [schema |-> snap.schema, stored |-> snap.stored, pending |-> snap.pending]
  BY DEF IsSnapshot
<1>2. Consume(snap, column) = after
  <2>1. Consume(snap, column) = [snap EXCEPT !.stored = ran, !.pending = rest]
    BY DEF Consume, Engine!ConsumeColumn, Without
  <2> HIDE DEF ran, rest
  <2> QED BY <1>1, <2>1
<1>3. ran = [n \in Fields(snap) |-> ran[n]]
  BY <1>1, RunKeepsColumns
<1>4. /\ rest \in Seq({cs[i] : i \in DOMAIN cs \ W})
      /\ NoRepeats(cs) => NoRepeats(rest)
  BY <1>1, WithoutKeeps
<1>5. \A i \in DOMAIN cs : cs[i].out = column => i \in W
  <2>1. W = P!CouplingsForColumn(cs, column)
    BY SameEngine
  <2>2. \A i \in 1 .. Len(cs) : cs[i].out = column => i \in P!CouplingsForColumn(cs, column)
    BY <1>1, P!CouplingsForColumnIsClosed
  <2> QED BY <1>1, <2>1, <2>2
<1> HIDE DEF W, ran, rest, C
<1>6. {cs[i] : i \in DOMAIN cs \ W} \subseteq C
  BY <1>1
<1>7. rest \in Seq(C)
  <2> DEFINE B == {cs[i] : i \in DOMAIN cs \ W}
  <2> HIDE DEF B
  <2> QED BY <1>4, <1>6 DEF B
<1>8. \A i \in DOMAIN rest : \E j \in DOMAIN cs : rest[i] = cs[j] /\ cs[j].out # column
  BY <1>4, <1>5
<1>9. after.schema = snap.schema /\ after.pending = rest /\ after.stored = ran
  OBVIOUS
<1>10. IsSnapshot(after, ids)
  BY <1>3, <1>7, <1>9 DEF IsSnapshot, Fields, C
<1> QED BY <1>2, <1>4, <1>8, <1>9, <1>10

-----------------------------------------------------------------------------
(* Recording                                                               *)

(* Identities of a snapshot are among any more of them. *)
LEMMA SnapshotGrows ==
  ASSUME NEW ids, NEW more, ids \subseteq more, NEW snap, IsSnapshot(snap, ids)
  PROVE  IsSnapshot(snap, more)
<1>1. FieldSpec(ids) \subseteq FieldSpec(more)
  BY DEF FieldSpec
<1>2. snap.schema \in [Fields(snap) -> FieldSpec(more)]
  <2> HIDE DEF FieldSpec
  <2> QED BY <1>1 DEF IsSnapshot
<1> QED BY <1>2 DEF IsSnapshot

(* A recording adds its coupling and touches nothing else. *)
LEMMA RecordIsTyped ==
  ASSUME NEW ids, NEW snap, IsSnapshot(snap, ids), NEW c \in Coupling(Fields(snap))
  PROVE  /\ IsSnapshot(Record(snap, c), ids)
         /\ Record(snap, c).schema = snap.schema
         /\ Record(snap, c).pending = Added(snap.pending, c)
<1> DEFINE more == Added(snap.pending, c)
           after == [schema |-> snap.schema, stored |-> snap.stored, pending |-> more]
<1>1. snap = [schema |-> snap.schema, stored |-> snap.stored, pending |-> snap.pending]
  BY DEF IsSnapshot
<1>2. more \in Seq(Coupling(Fields(snap)))
  BY AddedIsTyped DEF IsSnapshot
<1>3. Record(snap, c) = [snap EXCEPT !.pending = more]
  BY DEF Record
<1> HIDE DEF more
<1>4. Record(snap, c) = after
  BY <1>1, <1>3
<1>5. after.schema = snap.schema /\ after.stored = snap.stored /\ after.pending = more
  OBVIOUS
<1>6. IsSnapshot(after, ids)
  BY <1>2, <1>5 DEF IsSnapshot, Fields
<1> QED BY <1>4, <1>5, <1>6 DEF more

(* A new field, or one replaced, leaves the others and what is pending. *)
LEMMA WithFieldIsTyped ==
  ASSUME NEW ids, NEW snap, IsSnapshot(snap, ids),
         NEW name \in AllNames, NEW field \in FieldSpec(ids), NEW value
  PROVE  LET after == WithField(snap, name, field, value)
             names == Fields(snap) \cup {name}
         IN  /\ IsSnapshot(after, ids)
             /\ Fields(after) = names
             /\ after.schema = [n \in names |-> IF n = name THEN field ELSE snap.schema[n]]
             /\ after.pending = snap.pending
<1> DEFINE names == Fields(snap) \cup {name}
           schema == [n \in names |-> IF n = name THEN field ELSE snap.schema[n]]
           stored == [n \in names |-> IF n = name THEN value ELSE snap.stored[n]]
           after == [schema |-> schema, stored |-> stored, pending |-> snap.pending]
<1>1. /\ snap = [schema |-> snap.schema, stored |-> snap.stored, pending |-> snap.pending]
      /\ Fields(snap) \subseteq AllNames
      /\ snap.schema \in [Fields(snap) -> FieldSpec(ids)]
      /\ snap.pending \in Seq(Coupling(Fields(snap)))
  BY DEF IsSnapshot
<1>2. WithField(snap, name, field, value) = [snap EXCEPT !.schema = schema, !.stored = stored]
  BY DEF WithField
<1>3. names \subseteq AllNames /\ Fields(snap) \subseteq names
  BY <1>1
<1>4. schema \in [names -> FieldSpec(ids)] /\ DOMAIN schema = names
  BY <1>1
<1>5. stored = [n \in names |-> stored[n]]
  OBVIOUS
<1>6. snap.pending \in Seq(Coupling(names))
  BY <1>1, <1>3, CouplingGrows
<1> HIDE DEF names, schema, stored
<1>7. WithField(snap, name, field, value) = after
  BY <1>1, <1>2
<1>8. after.schema = schema /\ after.stored = stored /\ after.pending = snap.pending
  OBVIOUS
<1>9. Fields(after) = names
  BY <1>4, <1>8 DEF Fields
<1>10. IsSnapshot(after, ids)
  BY <1>3, <1>4, <1>5, <1>6, <1>8, <1>9 DEF IsSnapshot
<1> QED BY <1>7, <1>8, <1>9, <1>10 DEF names, schema

AreFields(snap, inputs) == inputs \in Seq(Fields(snap))
IsNumbered(id, ids) == id \in ids /\ id \in Nat

MappedSchema(snap, out, id) ==
  [n \in Fields(snap) \cup {out} |-> IF n = out THEN ValueField(id) ELSE snap.schema[n]]

(* map_fields on a handle adds a null column and the work that fills it. *)
LEMMA DeferMapIsTyped ==
  ASSUME NEW ids, NEW more, ids \subseteq more, NEW snap, IsSnapshot(snap, ids),
         NEW inputs, AreFields(snap, inputs), NEW out \in AllNames, NEW id, IsNumbered(id, more)
  PROVE  LET after == DeferMap(snap, inputs, out, id)
         IN  /\ IsSnapshot(after, more)
             /\ after.schema = MappedSchema(snap, out, id)
             /\ after.pending = Added(snap.pending, MapCoupling(inputs, out, id))
<1> DEFINE names == Fields(snap) \cup {out}
           wide == WithField(snap, out, ValueField(id), Null)
<1>1. IsSnapshot(snap, more)
  BY SnapshotGrows
<1>2. ValueField(id) \in FieldSpec(more)
  BY DEF ValueField, FieldSpec, NoTag, IsNumbered
<1>3. /\ IsSnapshot(wide, more) /\ Fields(wide) = names
      /\ wide.schema = MappedSchema(snap, out, id)
      /\ wide.pending = snap.pending
  BY <1>1, <1>2, WithFieldIsTyped DEF MappedSchema
<1> HIDE DEF wide
<1>4. inputs \in Seq(names) /\ out \in names
  BY DEF AreFields
<1>5. MapCoupling(inputs, out, id) \in Coupling(Fields(wide))
  BY <1>3, <1>4, MapIsCoupling DEF IsNumbered
<1>6. DeferMap(snap, inputs, out, id) = Record(wide, MapCoupling(inputs, out, id))
  BY DEF DeferMap, wide
<1>7. /\ IsSnapshot(Record(wide, MapCoupling(inputs, out, id)), more)
      /\ Record(wide, MapCoupling(inputs, out, id)).schema = wide.schema
      /\ Record(wide, MapCoupling(inputs, out, id)).pending
           = Added(wide.pending, MapCoupling(inputs, out, id))
  BY <1>3, <1>5, RecordIsTyped
<1> QED BY <1>3, <1>6, <1>7 DEF Fields

(* assign stores a column; a field it adds has the new identity. *)
LEMMA AssignIsTyped ==
  ASSUME NEW ids, NEW more, ids \subseteq more, NEW snap, IsSnapshot(snap, ids),
         NEW name \in AllNames, NEW id \in more, NEW value
  PROVE  LET after == Assign(snap, name, id, value)
             names == Fields(snap) \cup {name}
         IN  /\ IsSnapshot(after, more)
             /\ after.schema = [n \in names |->
                                  IF n \in Fields(snap) THEN snap.schema[n] ELSE ValueField(id)]
             /\ after.pending = snap.pending
<1>1. IsSnapshot(snap, more)
  BY SnapshotGrows
<1>2. CASE name \in Fields(snap)
  <2> DEFINE stored == [snap.stored EXCEPT ![name] = value]
             after == [schema |-> snap.schema, stored |-> stored, pending |-> snap.pending]
  <2>1. /\ snap = [schema |-> snap.schema, stored |-> snap.stored, pending |-> snap.pending]
        /\ snap.stored = [n \in Fields(snap) |-> snap.stored[n]]
        /\ snap.schema \in [Fields(snap) -> FieldSpec(more)]
    BY <1>1 DEF IsSnapshot
  <2>2. stored = [n \in Fields(snap) |-> stored[n]]
    BY <2>1
  <2>3. Assign(snap, name, id, value) = [snap EXCEPT !.stored = stored]
    BY <1>2, <2>1 DEF Assign
  <2> HIDE DEF stored
  <2>4. Assign(snap, name, id, value) = after
    BY <2>1, <2>3
  <2>5. after.schema = snap.schema /\ after.stored = stored /\ after.pending = snap.pending
    OBVIOUS
  <2>6. IsSnapshot(after, more)
    BY <1>1, <2>2, <2>5 DEF IsSnapshot, Fields
  <2>7. snap.schema = [n \in Fields(snap) \cup {name} |->
                         IF n \in Fields(snap) THEN snap.schema[n] ELSE ValueField(id)]
    BY <1>2, <2>1
  <2> QED BY <2>4, <2>5, <2>6, <2>7
<1>3. CASE name \notin Fields(snap)
  <2>1. ValueField(id) \in FieldSpec(more)
    BY DEF ValueField, FieldSpec, NoTag
  <2> DEFINE names == Fields(snap) \cup {name}
             after == WithField(snap, name, ValueField(id), value)
  <2>2. /\ IsSnapshot(after, more) /\ after.pending = snap.pending
        /\ after.schema = [n \in names |-> IF n = name THEN ValueField(id) ELSE snap.schema[n]]
    BY <1>1, <2>1, WithFieldIsTyped
  <2>3. [n \in names |-> IF n = name THEN ValueField(id) ELSE snap.schema[n]]
          = [n \in names |-> IF n \in Fields(snap) THEN snap.schema[n] ELSE ValueField(id)]
    BY <1>3
  <2>4. Assign(snap, name, id, value) = after
    BY <1>3 DEF Assign
  <2> QED BY <2>2, <2>3, <2>4
<1> QED BY <1>2, <1>3

-----------------------------------------------------------------------------
(* Editing                                                                 *)

(* Couplings rewritten by a renaming that is one to one stay different. *)
LEMMA RewrittenKeepsApart ==
  ASSUME NEW old, NEW new, NEW to \in [old -> new],
         \A m, n \in old : to[m] = to[n] => m = n,
         NEW cs \in Seq(Coupling(old)), NoRepeats(cs)
  PROVE  NoRepeats(Rewritten(cs, to))
<1>1. Rewritten(cs, to) = [i \in DOMAIN cs |-> Rewrote(cs[i], to)]
  BY DEF Rewritten, Rewrote
<1>2. ASSUME NEW c \in Coupling(old), NEW d \in Coupling(old), Rewrote(c, to) = Rewrote(d, to)
      PROVE  c = d
  <2>1. /\ c = [op |-> c.op, ins |-> c.ins, out |-> c.out, args |-> c.args, tag |-> c.tag]
        /\ d = [op |-> d.op, ins |-> d.ins, out |-> d.out, args |-> d.args, tag |-> d.tag]
        /\ c.ins \subseteq old /\ d.ins \subseteq old /\ c.out \in old /\ d.out \in old
        /\ c.args \in Seq(old) /\ d.args \in Seq(old)
    BY CouplingShape
  <2>2. /\ c.op = d.op /\ to[c.out] = to[d.out] /\ c.tag = d.tag
        /\ {to[n] : n \in c.ins} = {to[n] : n \in d.ins}
        /\ [k \in DOMAIN c.args |-> to[c.args[k]]] = [k \in DOMAIN d.args |-> to[d.args[k]]]
    BY <1>2 DEF Rewrote
  <2>3. c.out = d.out
    BY <2>1, <2>2
  <2>4. ASSUME NEW n \in c.ins PROVE n \in d.ins
    <3>1. to[n] \in {to[m] : m \in d.ins}
      BY <2>2
    <3>2. PICK m \in d.ins : to[n] = to[m]
      BY <3>1
    <3> QED BY <2>1, <3>2
  <2>5. ASSUME NEW n \in d.ins PROVE n \in c.ins
    <3>1. to[n] \in {to[m] : m \in c.ins}
      BY <2>2
    <3>2. PICK m \in c.ins : to[n] = to[m]
      BY <3>1
    <3> QED BY <2>1, <3>2
  <2>6. c.args = d.args
    <3> DEFINE f == [k \in DOMAIN c.args |-> to[c.args[k]]]
               g == [k \in DOMAIN d.args |-> to[d.args[k]]]
    <3>1. DOMAIN f = DOMAIN c.args /\ DOMAIN g = DOMAIN d.args /\ f = g
      BY <2>2
    <3>2. DOMAIN c.args = DOMAIN d.args
      BY <3>1
    <3>3. ASSUME NEW k \in DOMAIN c.args PROVE c.args[k] = d.args[k]
      <4>1. f[k] = to[c.args[k]] /\ g[k] = to[d.args[k]]
        BY <3>2, <3>3
      <4>2. c.args[k] \in old /\ d.args[k] \in old
        BY <2>1, <3>2, <3>3
      <4> HIDE DEF f, g
      <4> QED BY <3>1, <4>1, <4>2
    <3> QED BY <2>1, <3>2, <3>3
  <2>7. c.ins = d.ins
    BY <2>4, <2>5
  <2> QED BY <2>1, <2>2, <2>3, <2>6, <2>7
<1> HIDE DEF Rewrote
<1>3. \A i \in DOMAIN cs : cs[i] \in Coupling(old)
  OBVIOUS
<1> QED BY <1>1, <1>2, <1>3 DEF NoRepeats

(* The renamings of rename: total, one to one, onto names. *)
RenamesFields(to, names) ==
  to \in [names -> AllNames] /\ \A m, n \in names : to[m] = to[n] => m = n

(* rename moves the schema, the columns and the couplings together. *)
LEMMA RenameIsTyped ==
  ASSUME NEW ids, NEW snap, IsSnapshot(snap, ids), NEW to, RenamesFields(to, Fields(snap))
  PROVE  LET after == Rename(snap, to)
         IN  /\ IsSnapshot(after, ids)
             /\ Fields(after) = {to[o] : o \in Fields(snap)}
             /\ OneName(snap) => OneName(after)
             /\ NoRepeats(snap.pending) => NoRepeats(after.pending)
             /\ Declared(snap.pending) => Declared(after.pending)
<1> DEFINE names == {to[o] : o \in Fields(snap)}
           from(n) == CHOOSE o \in Fields(snap) : to[o] = n
           schema == [n \in names |-> snap.schema[from(n)]]
           stored == [n \in names |-> snap.stored[from(n)]]
           pending == Retained(Rewritten(snap.pending, to), names)
           after == [schema |-> schema, stored |-> stored, pending |-> pending]
<1>1. \A n \in names : from(n) \in Fields(snap) /\ to[from(n)] = n
  OBVIOUS
<1>2. /\ to \in [Fields(snap) -> names] /\ names \subseteq AllNames
      /\ \A m, n \in Fields(snap) : to[m] = to[n] => m = n
  BY DEF RenamesFields
<1>3. /\ snap.schema \in [Fields(snap) -> FieldSpec(ids)]
      /\ snap.pending \in Seq(Coupling(Fields(snap)))
  BY DEF IsSnapshot
<1>4. Rename(snap, to) = after
  BY DEF Rename
<1> HIDE DEF from
<1>5. schema \in [names -> FieldSpec(ids)] /\ DOMAIN schema = names
  BY <1>1, <1>3
<1>6. stored = [n \in names |-> stored[n]]
  OBVIOUS
<1>7. /\ Rewritten(snap.pending, to) \in Seq(Coupling(names))
      /\ NoRepeats(snap.pending) => NoRepeats(Rewritten(snap.pending, to))
      /\ Declared(snap.pending) => Declared(Rewritten(snap.pending, to))
  BY <1>2, <1>3, RewrittenIsTyped, RewrittenKeepsApart
<1>8. /\ pending \in Seq(Coupling(names))
      /\ NoRepeats(Rewritten(snap.pending, to)) => NoRepeats(pending)
      /\ Declared(Rewritten(snap.pending, to)) => Declared(pending)
  BY <1>7, RetainedIsTyped
<1>9. OneName(snap) => \A m, n \in names : schema[m].id = schema[n].id => m = n
  BY <1>1 DEF OneName
<1> HIDE DEF schema, stored, pending, names
<1>10. after.schema = schema /\ after.stored = stored /\ after.pending = pending
  OBVIOUS
<1>11. Fields(after) = names
  BY <1>5, <1>10 DEF Fields
<1>12. IsSnapshot(after, ids)
  BY <1>2, <1>5, <1>6, <1>8, <1>10, <1>11 DEF IsSnapshot
<1>13. OneName(snap) => OneName(after)
  BY <1>9, <1>10, <1>11 DEF OneName
<1> QED BY <1>4, <1>7, <1>8, <1>10, <1>11, <1>12, <1>13 DEF names

(* keep, and drop, narrow the schema and prune what refers to the rest. *)
LEMMA KeepIsTyped ==
  ASSUME NEW ids, NEW snap, IsSnapshot(snap, ids), NEW names \in SUBSET Fields(snap)
  PROVE  LET after == Keep(snap, names)
         IN  /\ IsSnapshot(after, ids)
             /\ after.schema = [n \in names |-> snap.schema[n]]
             /\ Fields(after) = names
             /\ OneName(snap) => OneName(after)
             /\ NoRepeats(snap.pending) => NoRepeats(after.pending)
             /\ Declared(snap.pending) => Declared(after.pending)
<1> DEFINE schema == [n \in names |-> snap.schema[n]]
           stored == [n \in names |-> snap.stored[n]]
           pending == Retained(snap.pending, names)
           after == [schema |-> schema, stored |-> stored, pending |-> pending]
<1>1. /\ snap.schema \in [Fields(snap) -> FieldSpec(ids)]
      /\ snap.pending \in Seq(Coupling(Fields(snap)))
      /\ names \subseteq AllNames
  BY DEF IsSnapshot
<1>2. Keep(snap, names) = after
  BY DEF Keep
<1>3. schema \in [names -> FieldSpec(ids)] /\ DOMAIN schema = names
  BY <1>1
<1>4. stored = [n \in names |-> stored[n]]
  OBVIOUS
<1>5. /\ pending \in Seq(Coupling(names))
      /\ NoRepeats(snap.pending) => NoRepeats(pending)
      /\ Declared(snap.pending) => Declared(pending)
  BY <1>1, RetainedIsTyped
<1>6. OneName(snap) => \A m, n \in names : schema[m].id = schema[n].id => m = n
  BY DEF OneName
<1> HIDE DEF schema, stored, pending
<1>7. after.schema = schema /\ after.stored = stored /\ after.pending = pending
  OBVIOUS
<1>8. Fields(after) = names
  BY <1>3, <1>7 DEF Fields
<1>9. IsSnapshot(after, ids)
  BY <1>1, <1>3, <1>4, <1>5, <1>7, <1>8 DEF IsSnapshot
<1>10. OneName(snap) => OneName(after)
  BY <1>6, <1>7, <1>8 DEF OneName
<1> QED BY <1>2, <1>5, <1>7, <1>8, <1>9, <1>10 DEF schema

-----------------------------------------------------------------------------
(* Composing                                                               *)

IsStrategy(strategy) == strategy \in [mode : Modes, side : Sides, on_conflict : Conflicts]

(* The field of a name in a composition has the identity it has on a side. *)
LEMMA MergedIsTyped ==
  ASSUME NEW ids, NEW a, NEW b, IsSnapshot(a, ids), IsSnapshot(b, ids),
         NEW strategy, NEW n \in Collisions(a, b)
  PROVE  /\ MergedField(a, b, n, strategy) \in FieldSpec(ids)
         /\ MergedField(a, b, n, strategy).id \in {a.schema[n].id, b.schema[n].id}
<1>1. a.schema[n] \in FieldSpec(ids) /\ b.schema[n] \in FieldSpec(ids)
  BY DEF IsSnapshot, Collisions
<1> DEFINE w == Winner(a, b, strategy).schema[n]
<1>2. w = a.schema[n] \/ w = b.schema[n]
  BY DEF Winner
<1>3. MergedField(a, b, n, strategy) \in {w, [a.schema[n] EXCEPT !.id = w.id]}
  BY DEF MergedField
<1> HIDE DEF w
<1>4. w \in FieldSpec(ids)
  BY <1>1, <1>2
<1>5. /\ [a.schema[n] EXCEPT !.id = w.id] \in FieldSpec(ids)
      /\ [a.schema[n] EXCEPT !.id = w.id].id = w.id
  BY <1>1, <1>4 DEF FieldSpec
<1>6. w.id \in {a.schema[n].id, b.schema[n].id}
  BY <1>2
<1> QED BY <1>3, <1>4, <1>5, <1>6

(* Where no field has two names, the lineage renames nothing.              *)
LEMMA NothingRenamed ==
  ASSUME NEW a, NEW b
  PROVE  /\ RenameMap(a, b) \in [Fields(a) \cup Fields(b) -> Fields(a) \cup Fields(b)]
         /\ ~OneFieldTwoNames(a, b) =>
              RenameMap(a, b) = [n \in Fields(a) \cup Fields(b) |-> n]
<1>1. ASSUME NEW n \in Fields(a) \cup Fields(b), RenamedTwin(a, b, n) # {}
      PROVE  (CHOOSE m \in RenamedTwin(a, b, n) : TRUE) \in Fields(b)
  <2>1. (CHOOSE m \in RenamedTwin(a, b, n) : TRUE) \in RenamedTwin(a, b, n)
    BY <1>1
  <2> QED BY <2>1 DEF RenamedTwin
<1>2. ASSUME NEW n, NEW m \in RenamedTwin(a, b, n)
      PROVE  OneFieldTwoNames(a, b)
  BY DEF RenamedTwin, OneFieldTwoNames
<1> QED BY <1>1, <1>2 DEF RenameMap

(* The couplings of a composition are over its fields. *)
LEMMA ComposedIsTyped ==
  ASSUME NEW a, NEW b, a.pending \in Seq(Coupling(Fields(a))), b.pending \in Seq(Coupling(Fields(b))),
         NEW strategy
  PROVE  LET pending == ComposedPending(a, b, strategy)
         IN  /\ pending \in Seq(Coupling(Fields(a) \cup Fields(b)))
             /\ ~OneFieldTwoNames(a, b) /\ NoRepeats(a.pending) => NoRepeats(pending)
             /\ Declared(a.pending) /\ Declared(b.pending) => Declared(pending)
<1> DEFINE lost == Collisions(a, b)
           names == Fields(a) \cup Fields(b)
           to == RenameMap(a, b)
           left == IF strategy.side = "left" THEN a.pending ELSE Pruned(a.pending, lost)
           right == IF strategy.side = "left" THEN Pruned(b.pending, lost) ELSE b.pending
           xs == Retained(Rewritten(left, to), names)
           ys == Retained(Rewritten(right, to), names)
<1>1. to \in [names -> names] /\ (~OneFieldTwoNames(a, b) => to = [n \in names |-> n])
  BY NothingRenamed
<1>2. Fields(a) \subseteq names /\ Fields(b) \subseteq names
  OBVIOUS
<1>3. a.pending \in Seq(Coupling(names)) /\ b.pending \in Seq(Coupling(names))
  BY <1>2, CouplingGrows
<1>4. /\ left \in Seq(Coupling(names))
      /\ NoRepeats(a.pending) => NoRepeats(left)
      /\ Declared(a.pending) => Declared(left)
  BY <1>3, PrunedIsTyped
<1>5. /\ right \in Seq(Coupling(names))
      /\ Declared(b.pending) => Declared(right)
  BY <1>3, PrunedIsTyped
<1>6. ComposedPending(a, b, strategy) = Union(xs, ys)
  BY DEF ComposedPending
<1> HIDE DEF left, right, to, names
<1>7. /\ Rewritten(left, to) \in Seq(Coupling(names))
      /\ Declared(left) => Declared(Rewritten(left, to))
      /\ Rewritten(right, to) \in Seq(Coupling(names))
      /\ Declared(right) => Declared(Rewritten(right, to))
  BY <1>1, <1>4, <1>5, RewrittenIsTyped
<1>8. ~OneFieldTwoNames(a, b) /\ NoRepeats(left) => NoRepeats(Rewritten(left, to))
  BY <1>1, <1>4, RewrittenKeepsApart
<1>9. /\ xs \in Seq(Coupling(names)) /\ ys \in Seq(Coupling(names))
      /\ NoRepeats(Rewritten(left, to)) => NoRepeats(xs)
      /\ Declared(Rewritten(left, to)) => Declared(xs)
      /\ Declared(Rewritten(right, to)) => Declared(ys)
  BY <1>7, RetainedIsTyped
<1> HIDE DEF xs, ys
<1>10. /\ Union(xs, ys) \in Seq(Coupling(names))
       /\ NoRepeats(xs) => NoRepeats(Union(xs, ys))
       /\ Declared(xs) /\ Declared(ys) => Declared(Union(xs, ys))
  BY <1>9, UnionIsTyped
<1> QED BY <1>4, <1>5, <1>6, <1>7, <1>8, <1>9, <1>10 DEF names

(* Schemas that give each name an identity it has on a side give no        *)
(* identity to two names.                                                  *)
LEMMA SidesKeepApart ==
  ASSUME NEW a, NEW b, OneName(a), OneName(b), ~OneFieldTwoNames(a, b),
         NEW m, NEW n, NEW i,
         (m \in Fields(a) /\ i = a.schema[m].id) \/ (m \in Fields(b) /\ i = b.schema[m].id),
         (n \in Fields(a) /\ i = a.schema[n].id) \/ (n \in Fields(b) /\ i = b.schema[n].id)
  PROVE  m = n
BY DEF OneName, OneFieldTwoNames

(* concat_columns: one field, one column per name of either side. *)
LEMMA ConcatColumnsIsTyped ==
  ASSUME NEW ids, NEW a, NEW b, IsSnapshot(a, ids), IsSnapshot(b, ids), NEW strategy
  PROVE  LET after == ConcatColumns(a, b, strategy)
             names == Fields(a) \cup Fields(b)
         IN  /\ IsSnapshot(after, ids)
             /\ after.schema = [n \in names |->
                  IF n \in Collisions(a, b) THEN MergedField(a, b, n, strategy)
                  ELSE IF n \in Fields(a) THEN a.schema[n] ELSE b.schema[n]]
             /\ Fields(after) = names
             /\ after.pending = ComposedPending(a, b, strategy)
             /\ OneName(a) /\ OneName(b) /\ ~OneFieldTwoNames(a, b) => OneName(after)
<1> DEFINE names == Fields(a) \cup Fields(b)
           schema == [n \in names |->
                        IF n \in Collisions(a, b) THEN MergedField(a, b, n, strategy)
                        ELSE IF n \in Fields(a) THEN a.schema[n] ELSE b.schema[n]]
           stored == [n \in names |->
                        IF n \in Collisions(a, b) THEN ResolvedValue(a, b, n, strategy)
                        ELSE IF n \in Fields(a) THEN a.stored[n] ELSE b.stored[n]]
           pending == ComposedPending(a, b, strategy)
           after == [schema |-> schema, stored |-> stored, pending |-> pending]
<1>1. /\ a.schema \in [Fields(a) -> FieldSpec(ids)] /\ b.schema \in [Fields(b) -> FieldSpec(ids)]
      /\ a.pending \in Seq(Coupling(Fields(a))) /\ b.pending \in Seq(Coupling(Fields(b)))
      /\ names \subseteq AllNames
  BY DEF IsSnapshot
<1>2. ConcatColumns(a, b, strategy) = after
  BY DEF ConcatColumns
<1>3. ASSUME NEW n \in names
      PROVE  /\ schema[n] \in FieldSpec(ids)
             /\ \/ n \in Fields(a) /\ schema[n].id = a.schema[n].id
                \/ n \in Fields(b) /\ schema[n].id = b.schema[n].id
  <2>1. CASE n \in Collisions(a, b)
    <3>1. schema[n] = MergedField(a, b, n, strategy)
      BY <2>1
    <3>2. n \in Fields(a) /\ n \in Fields(b)
      BY <2>1 DEF Collisions
    <3> HIDE DEF schema
    <3> QED BY <2>1, <3>1, <3>2, MergedIsTyped
  <2>2. CASE n \notin Collisions(a, b) /\ n \in Fields(a)
    BY <1>1, <2>2
  <2>3. CASE n \notin Collisions(a, b) /\ n \notin Fields(a)
    BY <1>1, <2>3
  <2> QED BY <2>1, <2>2, <2>3
<1>4. schema \in [names -> FieldSpec(ids)] /\ DOMAIN schema = names
  BY <1>3
<1>5. stored = [n \in names |-> stored[n]]
  OBVIOUS
<1>6. pending \in Seq(Coupling(names))
  BY <1>1, ComposedIsTyped
<1> HIDE DEF schema, stored, pending, names
<1>7. ASSUME OneName(a), OneName(b), ~OneFieldTwoNames(a, b),
             NEW m \in names, NEW n \in names, schema[m].id = schema[n].id
      PROVE  m = n
  BY <1>3, <1>7, SidesKeepApart
<1>8. after.schema = schema /\ after.stored = stored /\ after.pending = pending
  OBVIOUS
<1>9. Fields(after) = names
  BY <1>4, <1>8 DEF Fields
<1>10. IsSnapshot(after, ids)
  BY <1>1, <1>4, <1>5, <1>6, <1>8, <1>9 DEF IsSnapshot
<1>11. OneName(a) /\ OneName(b) /\ ~OneFieldTwoNames(a, b) => OneName(after)
  BY <1>7, <1>8, <1>9 DEF OneName
<1> QED BY <1>2, <1>8, <1>9, <1>10, <1>11 DEF schema, pending, names

(* What a composition keeps of its inputs. *)
LEMMA ConcatColumnsKeeps ==
  ASSUME NEW ids, NEW a, NEW b, IsSnapshot(a, ids), IsSnapshot(b, ids), NEW strategy
  PROVE  LET after == ConcatColumns(a, b, strategy)
         IN  /\ Declared(a.pending) /\ Declared(b.pending) => Declared(after.pending)
             /\ ~OneFieldTwoNames(a, b) /\ OneName(a) /\ OneName(b) => OneName(after)
             /\ ~OneFieldTwoNames(a, b) /\ NoRepeats(a.pending) => NoRepeats(after.pending)
<1>1. a.pending \in Seq(Coupling(Fields(a))) /\ b.pending \in Seq(Coupling(Fields(b)))
  BY DEF IsSnapshot
<1>2. /\ Declared(a.pending) /\ Declared(b.pending) => Declared(ComposedPending(a, b, strategy))
      /\ ~OneFieldTwoNames(a, b) /\ NoRepeats(a.pending)
           => NoRepeats(ComposedPending(a, b, strategy))
  BY <1>1, ComposedIsTyped
<1> DEFINE after == ConcatColumns(a, b, strategy)
<1>3. after.pending = ComposedPending(a, b, strategy)
  BY DEF ConcatColumns
<1>4. ~OneFieldTwoNames(a, b) /\ OneName(a) /\ OneName(b) => OneName(after)
  <2> HIDE DEF after
  <2> QED BY ConcatColumnsIsTyped DEF after
<1> QED BY <1>2, <1>3, <1>4

Fresh(shared, first) ==
  CHOOSE f \in [shared -> first .. first + Cardinality(shared)] :
    \A m, n \in shared : m # n => f[m] # f[n]

(* Finitely many fields find as many new identities. *)
LEMMA FreshIdentities ==
  ASSUME NEW shared, IsFiniteSet(shared), NEW first \in Nat
  PROVE  LET fresh == Fresh(shared, first)
         IN  /\ Cardinality(shared) \in Nat
             /\ fresh \in [shared -> first .. first + Cardinality(shared)]
             /\ \A m, n \in shared : m # n => fresh[m] # fresh[n]
<1> DEFINE N == Cardinality(shared)
           apart(f) == \A m, n \in shared : m # n => f[m] # f[n]
<1>1. N \in Nat /\ ExistsBijection(1 .. N, shared)
  BY FS_CardinalityType
<1>2. PICK g \in [1 .. N -> shared] : \A x \in shared : \E k \in 1 .. N : g[k] = x
  BY <1>1 DEF ExistsBijection, Bijection, Surjection
<1> DEFINE at(x) == CHOOSE k \in 1 .. N : g[k] = x
           f == [x \in shared |-> first + at(x)]
<1>3. \A x \in shared : at(x) \in 1 .. N /\ g[at(x)] = x
  BY <1>2
<1> HIDE DEF at, N
<1>4. f \in [shared -> first .. first + N]
  BY <1>1, <1>3
<1>5. apart(f)
  <2> SUFFICES ASSUME NEW m \in shared, NEW n \in shared, f[m] = f[n] PROVE m = n
    OBVIOUS
  <2>1. at(m) = at(n)
    BY <1>1, <1>3
  <2> QED BY <1>3, <2>1
<1> HIDE DEF f, apart
<1>6. \E h \in [shared -> first .. first + N] : apart(h)
  BY <1>4, <1>5
<1> DEFINE fresh == CHOOSE h \in [shared -> first .. first + N] : apart(h)
<1>7. fresh \in [shared -> first .. first + N] /\ apart(fresh)
  BY <1>6
<1> QED BY <1>1, <1>7 DEF apart, N, Fresh

StackedSchema(a, b, fresh) ==
  [n \in Fields(a) \cup Fields(b) |->
     IF n \in Collisions(a, b) THEN UnifiedField(a.schema[n], b.schema[n], fresh[n])
     ELSE IF n \in Fields(a) THEN a.schema[n] ELSE b.schema[n]]

IsFresh(fresh, shared, ids) ==
  /\ \A m, n \in shared : m # n => fresh[m] # fresh[n]
  /\ \A m \in shared : fresh[m] \notin ids

(* concat_rows: shared fields unify, the rest is taken over. *)
LEMMA ConcatRowsIsTyped ==
  ASSUME NEW ids, NEW more, ids \subseteq more, NEW a, NEW b, IsSnapshot(a, ids), IsSnapshot(b, ids),
         NEW fresh \in [Collisions(a, b) -> more]
  PROVE  LET after == ConcatRows(a, b, fresh)
         IN  /\ IsSnapshot(after, more)
             /\ after.schema = StackedSchema(a, b, fresh)
             /\ after.pending = a.pending
             /\ OneName(a) /\ OneName(b) /\ ~OneFieldTwoNames(a, b)
                  /\ IsFresh(fresh, Collisions(a, b), ids)
                => OneName(after)
<1> DEFINE names == Fields(a) \cup Fields(b)
           shared == Collisions(a, b)
           schema == [n \in names |->
                        IF n \in Collisions(a, b) THEN UnifiedField(a.schema[n], b.schema[n], fresh[n])
                        ELSE IF n \in Fields(a) THEN a.schema[n] ELSE b.schema[n]]
           stored == [n \in names |-> IF n \in Fields(a) THEN a.stored[n] ELSE Null]
           after == [schema |-> schema, stored |-> stored, pending |-> a.pending]
           old(n) == \/ n \in Fields(a) /\ schema[n].id = a.schema[n].id
                     \/ n \in Fields(b) /\ schema[n].id = b.schema[n].id
<1>1. IsSnapshot(a, more) /\ IsSnapshot(b, more)
  BY SnapshotGrows
<1>2. /\ a.schema \in [Fields(a) -> FieldSpec(ids)] /\ b.schema \in [Fields(b) -> FieldSpec(ids)]
      /\ a.schema \in [Fields(a) -> FieldSpec(more)] /\ b.schema \in [Fields(b) -> FieldSpec(more)]
      /\ a.pending \in Seq(Coupling(Fields(a))) /\ names \subseteq AllNames
  BY <1>1 DEF IsSnapshot
<1>3. ConcatRows(a, b, fresh) = after
  BY DEF ConcatRows
<1>4. ASSUME NEW n \in names
      PROVE  /\ schema[n] \in FieldSpec(more)
             /\ (n \in shared /\ schema[n].id = fresh[n]) \/ old(n)
  <2>1. CASE n \in shared
    <3>1. schema[n] = UnifiedField(a.schema[n], b.schema[n], fresh[n])
      BY <2>1
    <3>2. n \in Fields(a) /\ n \in Fields(b) /\ fresh[n] \in more
      BY <2>1 DEF Collisions
    <3>3. a.schema[n] \in FieldSpec(more) /\ b.schema[n] \in FieldSpec(more)
      BY <1>2, <3>2
    <3>4. /\ [a.schema[n] EXCEPT !.id = fresh[n]] \in FieldSpec(more)
          /\ [a.schema[n] EXCEPT !.id = fresh[n]].id = fresh[n]
      BY <3>2, <3>3 DEF FieldSpec
    <3>5. schema[n] = a.schema[n] \/ schema[n] = [a.schema[n] EXCEPT !.id = fresh[n]]
      BY <3>1 DEF UnifiedField
    <3> HIDE DEF schema
    <3> QED BY <2>1, <3>2, <3>3, <3>4, <3>5
  <2>2. CASE n \notin shared /\ n \in Fields(a)
    BY <1>2, <2>2
  <2>3. CASE n \notin shared /\ n \notin Fields(a)
    BY <1>2, <2>3
  <2> QED BY <2>1, <2>2, <2>3
<1>5. schema \in [names -> FieldSpec(more)] /\ DOMAIN schema = names
  BY <1>4
<1>6. stored = [n \in names |-> stored[n]]
  OBVIOUS
<1>7. a.pending \in Seq(Coupling(names))
  <2>1. Fields(a) \subseteq names
    OBVIOUS
  <2> QED BY <1>2, <2>1, CouplingGrows
<1> HIDE DEF schema, stored, names, shared
<1>8. ASSUME OneName(a), OneName(b), ~OneFieldTwoNames(a, b),
             \A m, n \in shared : m # n => fresh[m] # fresh[n],
             \A m \in shared : fresh[m] \notin ids,
             NEW m \in names, NEW n \in names, schema[m].id = schema[n].id
      PROVE  m = n
  <2>1. \A x \in names : old(x) => schema[x].id \in ids
    BY <1>2 DEF FieldSpec
  <2>2. CASE old(m) /\ old(n)
    BY <1>8, <2>2, SidesKeepApart
  <2>3. CASE ~old(m) \/ ~old(n)
    BY <1>4, <1>8, <2>1, <2>3
  <2> QED BY <2>2, <2>3
<1>9. after.schema = schema /\ after.stored = stored /\ after.pending = a.pending
  OBVIOUS
<1>10. Fields(after) = names
  BY <1>5, <1>9 DEF Fields
<1>11. IsSnapshot(after, more)
  BY <1>2, <1>5, <1>6, <1>7, <1>9, <1>10 DEF IsSnapshot
<1>12. OneName(a) /\ OneName(b) /\ ~OneFieldTwoNames(a, b)
         /\ (\A m, n \in shared : m # n => fresh[m] # fresh[n])
         /\ (\A m \in shared : fresh[m] \notin ids)
       => OneName(after)
  BY <1>8, <1>9, <1>10 DEF OneName
<1> QED BY <1>3, <1>9, <1>10, <1>11, <1>12 DEF schema, names, shared, StackedSchema, IsFresh

-----------------------------------------------------------------------------
(* What the engine accepts                                                 *)

(* A coupling computes from the fields it reads. *)
LEMMA CouplingsAreLocal ==
  ASSUME NEW names, NEW c \in Coupling(names)
  PROVE  P!Local(c)
<1> SUFFICES ASSUME NEW f, NEW g, \A n \in c.ins : f[n] = g[n]
             PROVE  Compute(c, f) = Compute(c, g)
  BY DEF P!Local
<1>1. /\ c.op \in {"BindSlice", "BindDimensions", "Materialize", "Map"}
      /\ c.args \in Seq(names) /\ \A k \in DOMAIN c.args : c.args[k] \in c.ins
      /\ c.op # "Map" => c.out \in c.ins
      /\ c.op \in {"BindSlice", "BindDimensions"} => Len(c.args) = 1
  BY CouplingShape
<1>2. \A k \in DOMAIN c.args : f[c.args[k]] = g[c.args[k]]
  BY <1>1
<1>3. CASE c.op = "Map"
  <2>1. [k \in DOMAIN c.args |-> f[c.args[k]]] = [k \in DOMAIN c.args |-> g[c.args[k]]]
    BY <1>2
  <2> QED BY <1>3, <2>1 DEF Compute
<1>4. CASE c.op # "Map"
  <2>1. f[c.out] = g[c.out]
    BY <1>1, <1>4
  <2>2. c.op # "Materialize" => f[c.args[1]] = g[c.args[1]]
    BY <1>1, <1>2, <1>4
  <2>3. CASE c.op = "Materialize"
    BY <2>1, <2>3 DEF Compute
  <2>4. CASE c.op = "BindSlice"
    BY <2>1, <2>2, <2>4 DEF Compute
  <2>5. CASE c.op = "BindDimensions"
    BY <2>1, <2>2, <2>5 DEF Compute
  <2> QED BY <1>1, <1>4, <2>3, <2>4, <2>5
<1> QED BY <1>3, <1>4

(* An engine that accepts a snapshot's couplings is sound over its columns. *)
LEMMA UsableIsSound ==
  ASSUME NEW ids, NEW snap, IsSnapshot(snap, ids), Usable(snap)
  PROVE  P!Sound(snap.pending, snap.stored) /\ DOMAIN snap.stored = Fields(snap)
<1> DEFINE cs == snap.pending
<1>1. /\ cs \in Seq(Coupling(Fields(snap))) /\ Len(cs) \in Nat /\ DOMAIN cs = 1 .. Len(cs)
      /\ snap.stored = [n \in Fields(snap) |-> snap.stored[n]]
  BY DEF IsSnapshot
<1>2. DOMAIN snap.stored = Fields(snap) /\ P!IsFrame(snap.stored)
  BY <1>1 DEF P!IsFrame
<1>3. P!KnownFields(cs, Fields(snap)) /\ Len(P!Order(cs)) = Len(cs)
  BY SameEngine DEF Usable, P!Accepts
<1>4. \A i \in DOMAIN cs : P!Local(cs[i])
  BY <1>1, CouplingsAreLocal
<1> QED BY <1>1, <1>2, <1>3, <1>4 DEF P!Sound, P!Couplings

(* After declared bindings, any one coupling more is accepted: it is read  *)
(* by none of them, and they touch one field each.                         *)
LEMMA DeclaredIsAccepted ==
  ASSUME NEW names, NEW cs \in Seq(Coupling(names)),
         \A i \in DOMAIN cs : i < Len(cs) => cs[i] = Materialize(cs[i].out)
  PROVE  Engine!Accepts(cs, names)
<1> DEFINE N == Len(cs)
           rank == [i \in 1 .. N |-> i]
<1>1. N \in Nat /\ DOMAIN cs = 1 .. N /\ \A i \in 1 .. N : cs[i] \in Coupling(names)
  OBVIOUS
<1>2. \A i \in 1 .. N : i < N => cs[i].ins = {cs[i].out}
  BY <1>1 DEF Materialize
<1>3. P!KnownFields(cs, names)
  BY <1>1, CouplingShape DEF P!KnownFields
<1>4. ~P!Aliased(cs)
  BY <1>1, <1>2 DEF P!Aliased
<1>5. rank \in [1 .. N -> Nat]
  BY <1>1
<1>6. ASSUME NEW i \in 1 .. N, NEW j \in 1 .. N, P!Precedes(cs, i, j) PROVE rank[i] < rank[j]
  <2>1. i # j /\ (IF cs[i].out = cs[j].out THEN i < j ELSE cs[i].out \in cs[j].ins)
    BY <1>6 DEF P!Precedes
  <2>2. j < N => i < j
    BY <1>1, <1>2, <2>1
  <2>3. i < j
    BY <1>1, <2>1, <2>2
  <2> QED BY <2>3
<1>7. Len(P!Order(cs)) = N
  BY <1>1, <1>5, <1>6, P!RankedOrderIsComplete
<1>8. P!Accepts(cs, names)
  BY <1>3, <1>4, <1>7 DEF P!Accepts
<1> QED BY <1>8, SameEngine

-----------------------------------------------------------------------------
(* Every step keeps the invariants                                         *)

(* The parts of the invariant that every recording keeps alike. *)
LEMMA RecordingKeeps ==
  ASSUME IInv, Recording, minted' \in Nat, minted <= minted',
         IsSnapshot(lazy, Minted)', IsSnapshot(eager, Minted)', lazy'.schema = eager'.schema,
         Fields(lazy) \subseteq Fields(lazy'), Declared(eager'.pending)
  PROVE  IInv'
<1>1. /\ records \in 0 .. MaxRecords /\ edits \in 0 .. MaxEdits /\ MaxRecords \in Nat
      /\ FirstId <= minted /\ FirstId \in Nat /\ minted \in Nat /\ parted \subseteq Fields(lazy)
  BY SourceAssumption, BoundsAssumption DEF IInv, TypeInv
<1>2. /\ records < MaxRecords /\ records' = records + 1 /\ edits' = edits
      /\ parted' = Downstream(lazy'.pending, parted)
  BY DEF Recording
<1>3. /\ lazy'.pending \in Seq(Coupling(Fields(lazy')))
  BY DEF IsSnapshot
<1>4. \A i \in DOMAIN lazy'.pending : lazy'.pending[i].out \in Fields(lazy')
  BY <1>3, CouplingShape
<1>5. parted' \subseteq Fields(lazy')
  <2>1. parted \subseteq Fields(lazy')
    BY <1>1
  <2> QED BY <1>2, <1>3, <1>4, <2>1, DownstreamIsWritten
<1>6. records' \in 0 .. MaxRecords /\ edits' \in 0 .. MaxEdits /\ FirstId <= minted'
  BY <1>1, <1>2
<1> QED BY <1>5, <1>6 DEF IInv, TypeInv

(* An eager call discharges what it recorded: only declarations are left. *)
LEMMA EagerCallDischarges ==
  ASSUME NEW ids, NEW snap, IsSnapshot(snap, ids), NEW C, NEW cs \in Seq(C), Declared(cs),
         NEW c \in C, snap.pending = Added(cs, c)
  PROVE  Declared(Consume(snap, c.out).pending)
<1>1. \A i \in DOMAIN snap.pending : snap.pending[i] = c \/ \E j \in DOMAIN cs : snap.pending[i] = cs[j]
  BY AddedIsTyped
<1>2. \A i \in DOMAIN Consume(snap, c.out).pending :
        \E j \in DOMAIN snap.pending :
          Consume(snap, c.out).pending[i] = snap.pending[j] /\ snap.pending[j].out # c.out
  BY ConsumeIsTyped
<1> QED BY <1>1, <1>2 DEF Declared

(* What the actions need to know of a state that satisfies the invariant. *)
LEMMA StateFacts ==
  ASSUME IInv
  PROVE  /\ IsSnapshot(lazy, Minted) /\ IsSnapshot(eager, Minted)
         /\ lazy.schema = eager.schema /\ Fields(eager) = Fields(lazy)
         /\ Fields(lazy) \subseteq AllNames
         /\ lazy.schema \in [Fields(lazy) -> FieldSpec(Minted)]
         /\ lazy.pending \in Seq(Coupling(Fields(lazy)))
         /\ eager.pending \in Seq(Coupling(Fields(lazy)))
         /\ parted \subseteq Fields(lazy) /\ Declared(eager.pending)
         /\ minted \in Nat /\ 1 <= minted /\ FirstId <= minted
<1>1. FirstId \in Nat \ {0}
  BY SourceAssumption
<1>2. Fields(eager) = Fields(lazy)
  BY DEF IInv, TypeInv, Fields
<1> QED BY <1>1, <1>2 DEF IInv, TypeInv, IsSnapshot

(* A coupling recorded in both forms, consumed in the eager one. *)
LEMMA CallKeeps ==
  ASSUME IInv, Recording, UNCHANGED minted, NEW c \in Coupling(Fields(lazy)),
         lazy' = Record(lazy, c),
         \/ eager' = Consume(Record(eager, c), c.out)
         \/ eager' = Record(eager, c) /\ c = Materialize(c.out)
  PROVE  IInv' /\ (IdInv => IdInv')
<1> DEFINE both == Record(eager, c)
<1> USE StateFacts
<1>1. /\ IsSnapshot(lazy', Minted) /\ lazy'.schema = lazy.schema
      /\ lazy'.pending = Added(lazy.pending, c)
  BY RecordIsTyped
<1>2. /\ IsSnapshot(both, Minted) /\ both.schema = eager.schema
      /\ both.pending = Added(eager.pending, c)
  BY RecordIsTyped
<1>3. IsSnapshot(eager', Minted) /\ eager'.schema = eager.schema /\ Declared(eager'.pending)
  <2>1. CASE eager' = Consume(both, c.out)
    <3>1. Declared(Consume(both, c.out).pending)
      BY <1>2, EagerCallDischarges
    <3>2. IsSnapshot(Consume(both, c.out), Minted) /\ Consume(both, c.out).schema = both.schema
      BY <1>2, ConsumeIsTyped
    <3> QED BY <1>2, <2>1, <3>1, <3>2
  <2>2. CASE eager' = both /\ c = Materialize(c.out)
    <3>1. Declared(Added(eager.pending, c))
      BY <2>2, AddedIsTyped
    <3> QED BY <1>2, <2>2, <3>1
  <2> HIDE DEF both
  <2> QED BY <2>1, <2>2 DEF both
<1>4. Minted' = Minted
  BY DEF Minted
<1>5. Fields(lazy') = Fields(lazy)
  BY <1>1 DEF Fields
<1>6. IInv'
  BY <1>1, <1>3, <1>4, <1>5, RecordingKeeps DEF IsSnapshot
<1>7. IdInv => IdInv'
  BY <1>1, <1>5, AddedIsTyped DEF IdInv, OneName
<1> QED BY <1>6, <1>7

(* The parts of the invariant that every edit keeps alike. *)
LEMMA EditingKeeps ==
  ASSUME IInv, Editing, minted' \in Nat, minted <= minted',
         IsSnapshot(lazy, Minted)', IsSnapshot(eager, Minted)', lazy'.schema = eager'.schema,
         parted' \subseteq Fields(lazy'), Declared(eager'.pending)
  PROVE  IInv'
<1>1. /\ records \in 0 .. MaxRecords /\ edits \in 0 .. MaxEdits /\ MaxEdits \in Nat
      /\ FirstId <= minted /\ FirstId \in Nat /\ minted \in Nat
  BY SourceAssumption, BoundsAssumption DEF IInv, TypeInv
<1>2. edits < MaxEdits /\ edits' = edits + 1 /\ records' = records
  BY DEF Editing
<1>3. records' \in 0 .. MaxRecords /\ edits' \in 0 .. MaxEdits /\ FirstId <= minted'
  BY <1>1, <1>2
<1> QED BY <1>3 DEF IInv, TypeInv

(* The next identity is not one of the minted ones. *)
LEMMA NextIdentity ==
  ASSUME IInv, minted' = minted + 1
  PROVE  /\ Minted \subseteq Minted' /\ minted \in Minted' /\ minted \notin Minted
         /\ minted' \in Nat /\ minted <= minted'
<1>1. minted \in Nat /\ 1 <= minted
  BY StateFacts
<1> QED BY <1>1 DEF Minted

(* map_fields *)
LEMMA MapKeeps ==
  ASSUME IInv, NEW inputs \in Seq(Fields(lazy)), NEW out \in AllNames, Map(inputs, out)
  PROVE  IInv' /\ (IdInv => IdInv')
<1> DEFINE names == Fields(lazy) \cup {out}
           c == MapCoupling(inputs, out, minted)
           both == DeferMap(eager, inputs, out, minted)
<1>1. /\ CanMap(lazy, inputs, out) /\ lazy' = DeferMap(lazy, inputs, out, minted)
      /\ eager' = Consume(both, out) /\ minted' = minted + 1 /\ Recording
  BY DEF Map, EagerMap
<1>2. /\ Minted \subseteq Minted' /\ minted \in Minted' /\ minted \notin Minted
      /\ minted' \in Nat /\ minted <= minted' /\ minted \in Nat
  BY <1>1, NextIdentity, StateFacts
<1>3. /\ IsSnapshot(lazy', Minted') /\ Fields(lazy') = names
      /\ lazy'.schema = [n \in names |-> IF n = out THEN ValueField(minted) ELSE lazy.schema[n]]
      /\ lazy'.pending = Added(lazy.pending, c)
  <2> DEFINE after == DeferMap(lazy, inputs, out, minted)
  <2>1. IsSnapshot(lazy, Minted) /\ AreFields(lazy, inputs)
    BY StateFacts DEF AreFields
  <2>2. PICK new : new = Minted'
    OBVIOUS
  <2>3. Minted \subseteq new /\ IsNumbered(minted, new)
    BY <1>2, <2>2 DEF IsNumbered
  <2>4. /\ IsSnapshot(after, new) /\ after.schema = MappedSchema(lazy, out, minted)
        /\ after.pending = Added(lazy.pending, c)
    BY <2>1, <2>3, DeferMapIsTyped
  <2>5. after.schema = [n \in names |-> IF n = out THEN ValueField(minted) ELSE lazy.schema[n]]
    BY <2>4 DEF MappedSchema
  <2>6. Fields(after) = names
    BY <2>5 DEF Fields
  <2> HIDE DEF after
  <2> QED BY <1>1, <2>2, <2>4, <2>5, <2>6 DEF after
<1>4. /\ IsSnapshot(both, Minted')
      /\ both.schema = [n \in names |-> IF n = out THEN ValueField(minted) ELSE lazy.schema[n]]
      /\ both.pending = Added(eager.pending, c)
  <2>1. Fields(eager) = Fields(lazy) /\ eager.schema = lazy.schema /\ IsSnapshot(eager, Minted)
    BY StateFacts
  <2>2. AreFields(eager, inputs)
    BY <2>1 DEF AreFields
  <2>3. /\ IsSnapshot(both, Minted')
        /\ both.schema = [n \in Fields(eager) \cup {out} |->
                            IF n = out THEN ValueField(minted) ELSE eager.schema[n]]
        /\ both.pending = Added(eager.pending, c)
    <3>1. PICK new : new = Minted'
      OBVIOUS
    <3>2. Minted \subseteq new /\ IsNumbered(minted, new)
      BY <1>2, <3>1 DEF IsNumbered
    <3>3. /\ IsSnapshot(both, new) /\ both.schema = MappedSchema(eager, out, minted)
          /\ both.pending = Added(eager.pending, c)
      BY <2>1, <2>2, <3>2, DeferMapIsTyped
    <3> QED BY <3>1, <3>3 DEF MappedSchema
  <2> QED BY <2>1, <2>3
<1>5. c.out = out /\ c \in Coupling(names)
  <2>1. inputs \in Seq(names)
    OBVIOUS
  <2>2. c \in Coupling(names)
    BY <1>2, <2>1, MapIsCoupling
  <2> QED BY <2>2 DEF MapCoupling
<1> HIDE DEF c, both
<1>6. IsSnapshot(eager', Minted') /\ eager'.schema = lazy'.schema
  BY <1>1, <1>3, <1>4, ConsumeIsTyped
<1>7. Declared(eager'.pending)
  <2>1. eager.pending \in Seq(Coupling(names)) /\ Declared(eager.pending)
    BY StateFacts, CouplingGrows
  <2> QED BY <1>1, <1>4, <1>5, <2>1, EagerCallDischarges
<1>8. IInv'
  <2>1. Fields(lazy) \subseteq Fields(lazy')
    BY <1>3
  <2> QED BY <1>1, <1>2, <1>3, <1>6, <1>7, <2>1, RecordingKeeps
<1>9. IdInv => IdInv'
  <2>1. ASSUME IdInv, NEW m \in names, NEW n \in names, lazy'.schema[m].id = lazy'.schema[n].id
        PROVE  m = n
    <3>1. \A x \in Fields(lazy) : lazy.schema[x].id \in Minted
      BY StateFacts DEF FieldSpec
    <3>2. ValueField(minted).id = minted
      BY DEF ValueField
    <3> QED BY <1>2, <1>3, <2>1, <3>1, <3>2 DEF IdInv, OneName
  <2>2. lazy.pending \in Seq(Coupling(names))
    BY StateFacts, CouplingGrows
  <2>3. IdInv => NoRepeats(lazy'.pending)
    BY <1>3, <1>5, <2>2, AddedIsTyped DEF IdInv
  <2> QED BY <1>3, <2>1, <2>3 DEF IdInv, OneName
<1> QED BY <1>8, <1>9

(* compose_slice *)
LEMMA ComposeSliceKeeps ==
  ASSUME IInv, NEW s \in Fields(lazy), NEW d \in Fields(lazy), ComposeSlice(s, d)
  PROVE  IInv' /\ (IdInv => IdInv')
<1> DEFINE c == BindDimensions(s, d, lazy.schema[d].dim)
<1>1. lazy.schema[d].dim \in Nat /\ eager.schema = lazy.schema
  BY StateFacts DEF FieldSpec
<1>2. c \in Coupling(Fields(lazy)) /\ c.out = s
  BY <1>1, SliceCouplings DEF BindDimensions
<1>3. /\ lazy' = Record(lazy, c) /\ eager' = Consume(Record(eager, c), s)
      /\ Recording /\ UNCHANGED minted
  BY <1>1 DEF ComposeSlice, DeferCompose, EagerCompose
<1> HIDE DEF c
<1> QED BY <1>2, <1>3, CallKeeps

(* slice_data *)
LEMMA SliceDataKeeps ==
  ASSUME IInv, NEW s \in Fields(lazy), NEW d \in Fields(lazy), SliceData(s, d)
  PROVE  IInv' /\ (IdInv => IdInv')
<1> DEFINE c == BindSlice(s, d)
<1>1. 0 \in Nat
  OBVIOUS
<1>2. c \in Coupling(Fields(lazy)) /\ c.out = d
  BY <1>1, SliceCouplings DEF BindSlice
<1>3. /\ lazy' = Record(lazy, c) /\ eager' = Consume(Record(eager, c), d)
      /\ Recording /\ UNCHANGED minted
  BY DEF SliceData, DeferSlice, EagerSlice
<1> HIDE DEF c
<1> QED BY <1>2, <1>3, CallKeeps

(* materialize *)
LEMMA MaterializeKeeps ==
  ASSUME IInv, NEW d \in Fields(lazy), MaterializeField(d)
  PROVE  IInv' /\ (IdInv => IdInv')
<1> DEFINE c == Materialize(d)
<1>1. c \in Coupling(Fields(lazy)) /\ c = Materialize(c.out)
  BY MaterializeCoupling
<1>2. /\ lazy' = Record(lazy, c) /\ eager' = Record(eager, c)
      /\ Recording /\ UNCHANGED minted
  BY DEF MaterializeField, DeclareMaterialize
<1> HIDE DEF c
<1> QED BY <1>1, <1>2, CallKeeps

(* A renaming gives one field a name nothing has, or two fields each       *)
(* other's names.                                                          *)
LEMMA RenamingShape ==
  ASSUME NEW to \in Renamings
  PROVE  \/ \E a \in Fields(lazy), b \in AllNames \ Fields(lazy) :
              to = [n \in Fields(lazy) |-> IF n = a THEN b ELSE n]
         \/ \E a, b \in Fields(lazy) :
              to = [n \in Fields(lazy) |-> IF n = a THEN b ELSE IF n = b THEN a ELSE n]
<1> DEFINE old == Fields(lazy)
           one(a, b) == [n \in old |-> IF n = a THEN b ELSE n]
           swap(a, b) == [n \in old |-> IF n = a THEN b ELSE IF n = b THEN a ELSE n]
<1>1. CASE to \in {one(a, b) : a \in old, b \in AllNames \ old}
  <2> HIDE DEF old, one
  <2>1. \E a \in old, b \in AllNames \ old : to = one(a, b)
    BY <1>1
  <2> QED BY <2>1 DEF old, one
<1>2. CASE to \in {swap(a, b) : a, b \in old}
  <2> HIDE DEF old, swap
  <2>1. \E a, b \in old : to = swap(a, b)
    BY <1>2
  <2> QED BY <2>1 DEF old, swap
<1>3. to \in {one(a, b) : a \in old, b \in AllNames \ old} \cup {swap(a, b) : a, b \in old}
  BY SMTT(30) DEF Renamings
<1> QED BY <1>1, <1>2, <1>3

(* rename *)
LEMMA RenameKeeps ==
  ASSUME IInv, NEW to \in Renamings, RenameFields(to)
  PROVE  IInv' /\ (IdInv => IdInv')
<1> DEFINE old == Fields(lazy)
<1>1. RenamesFields(to, old)
  <2>1. old \subseteq AllNames
    BY StateFacts
  <2>2. CASE \E x \in old, y \in AllNames \ old : to = [n \in old |-> IF n = x THEN y ELSE n]
    BY <2>1, <2>2 DEF RenamesFields
  <2>3. CASE \E x, y \in old : to = [n \in old |-> IF n = x THEN y ELSE IF n = y THEN x ELSE n]
    BY <2>1, <2>3 DEF RenamesFields
  <2>4. \/ \E x \in old, y \in AllNames \ old : to = [n \in old |-> IF n = x THEN y ELSE n]
        \/ \E x, y \in old : to = [n \in old |-> IF n = x THEN y ELSE IF n = y THEN x ELSE n]
    BY RenamingShape
  <2> HIDE DEF old
  <2> QED BY <2>2, <2>3, <2>4
<1>2. /\ Editing /\ lazy' = Rename(lazy, to) /\ eager' = Rename(eager, to)
      /\ parted' = {to[n] : n \in parted} /\ UNCHANGED minted
  BY DEF RenameFields
<1> HIDE DEF old
<1>3. /\ IsSnapshot(lazy', Minted) /\ Fields(lazy') = {to[o] : o \in old}
      /\ OneName(lazy) => OneName(lazy')
      /\ NoRepeats(lazy.pending) => NoRepeats(lazy'.pending)
  BY <1>1, <1>2, StateFacts, RenameIsTyped DEF old
<1>4. IsSnapshot(eager', Minted) /\ Declared(eager'.pending)
  BY <1>1, <1>2, StateFacts, RenameIsTyped DEF old
<1>5. lazy'.schema = eager'.schema
  BY <1>2, StateFacts DEF Rename
<1>6. parted' \subseteq Fields(lazy')
  BY <1>2, <1>3, StateFacts DEF old
<1>7. minted' \in Nat /\ minted <= minted' /\ Minted' = Minted
  BY <1>2, StateFacts DEF Minted
<1>8. IInv'
  BY <1>2, <1>3, <1>4, <1>5, <1>6, <1>7, EditingKeeps
<1> QED BY <1>3, <1>8 DEF IdInv

(* drop and keep *)
LEMMA NarrowKeeps ==
  ASSUME IInv, Editing, UNCHANGED minted, NEW names \in SUBSET Fields(lazy),
         lazy' = Keep(lazy, names), eager' = Keep(eager, names),
         NEW gone, gone = Fields(lazy) \ names,
         parted' = Downstream(lazy'.pending, (parted \ gone) \cup Unfilled(gone))
  PROVE  IInv' /\ (IdInv => IdInv')
<1>1. /\ IsSnapshot(lazy', Minted) /\ Fields(lazy') = names
      /\ OneName(lazy) => OneName(lazy')
      /\ NoRepeats(lazy.pending) => NoRepeats(lazy'.pending)
      /\ lazy'.schema = [n \in names |-> lazy.schema[n]]
  BY StateFacts, KeepIsTyped
<1>2. /\ IsSnapshot(eager', Minted) /\ Declared(eager'.pending)
      /\ eager'.schema = [n \in names |-> eager.schema[n]]
  BY StateFacts, KeepIsTyped
<1>3. lazy'.schema = eager'.schema
  BY <1>1, <1>2, StateFacts
<1>4. lazy'.pending \in Seq(Coupling(names)) /\ lazy.pending \in Seq(Coupling(Fields(lazy)))
  BY <1>1, StateFacts DEF IsSnapshot
<1>5. \A i \in DOMAIN lazy.pending : lazy.pending[i].out \in Fields(lazy)
  BY <1>4, CouplingShape
<1>6. \A i \in DOMAIN lazy'.pending : lazy'.pending[i].out \in names
  BY <1>4, CouplingShape
<1>7. (parted \ gone) \cup Unfilled(gone) \subseteq names
  BY <1>5, StateFacts DEF Unfilled, Recorded
<1>8. parted' \subseteq Fields(lazy')
  BY <1>1, <1>4, <1>6, <1>7, DownstreamIsWritten
<1>9. minted' \in Nat /\ minted <= minted' /\ Minted' = Minted
  BY StateFacts DEF Minted
<1>10. IInv'
  BY <1>1, <1>2, <1>3, <1>8, <1>9, EditingKeeps
<1> QED BY <1>1, <1>10 DEF IdInv

(* assign *)
LEMMA AssignKeeps ==
  ASSUME IInv, NEW name \in AllNames, AssignField(name)
  PROVE  IInv' /\ (IdInv => IdInv')
<1> DEFINE names == Fields(lazy) \cup {name}
           after == Downstream(lazy.pending, {name})
           kept == IF name \in Outputs(lazy.pending) THEN after ELSE after \ {name}
<1>1. /\ Editing /\ lazy' = Assign(lazy, name, minted, Scalar(minted))
      /\ eager' = Assign(eager, name, minted, Scalar(minted)) /\ minted' = minted + 1
      /\ parted' = Downstream(lazy.pending, (parted \ {name}) \cup kept)
  BY DEF AssignField
<1>2. /\ Minted \subseteq Minted' /\ minted \in Minted' /\ minted \notin Minted
      /\ minted' \in Nat /\ minted <= minted'
  BY <1>1, NextIdentity
<1>3. /\ IsSnapshot(lazy', Minted') /\ lazy'.pending = lazy.pending
      /\ lazy'.schema = [n \in names |->
                           IF n \in Fields(lazy) THEN lazy.schema[n] ELSE ValueField(minted)]
  <2> DEFINE done == Assign(lazy, name, minted, Scalar(minted))
  <2>1. IsSnapshot(lazy, Minted)
    BY StateFacts
  <2>2. PICK new : new = Minted'
    OBVIOUS
  <2>3. Minted \subseteq new /\ minted \in new
    BY <1>2, <2>2
  <2>4. /\ IsSnapshot(done, new) /\ done.pending = lazy.pending
        /\ done.schema = [n \in names |->
                            IF n \in Fields(lazy) THEN lazy.schema[n] ELSE ValueField(minted)]
    BY <2>1, <2>3, AssignIsTyped
  <2> QED BY <1>1, <2>2, <2>4
<1>4. /\ IsSnapshot(eager', Minted') /\ eager'.pending = eager.pending
      /\ eager'.schema = [n \in Fields(eager) \cup {name} |->
                           IF n \in Fields(eager) THEN eager.schema[n] ELSE ValueField(minted)]
  <2> DEFINE done == Assign(eager, name, minted, Scalar(minted))
  <2>1. IsSnapshot(eager, Minted)
    BY StateFacts
  <2>2. PICK new : new = Minted'
    OBVIOUS
  <2>3. Minted \subseteq new /\ minted \in new
    BY <1>2, <2>2
  <2>4. /\ IsSnapshot(done, new) /\ done.pending = eager.pending
        /\ done.schema = [n \in Fields(eager) \cup {name} |->
                            IF n \in Fields(eager) THEN eager.schema[n] ELSE ValueField(minted)]
    BY <2>1, <2>3, AssignIsTyped
  <2> QED BY <1>1, <2>2, <2>4
<1>5. lazy'.schema = eager'.schema /\ Fields(lazy') = names
  BY <1>3, <1>4, StateFacts DEF Fields
<1>6. parted' \subseteq Fields(lazy')
  <2>1. lazy.pending \in Seq(Coupling(Fields(lazy))) /\ parted \subseteq names
    BY StateFacts
  <2>2. \A i \in DOMAIN lazy.pending : lazy.pending[i].out \in names
    BY <2>1, CouplingShape
  <2>3. after \subseteq names
    BY <2>1, <2>2, DownstreamIsWritten
  <2> HIDE DEF after
  <2>4. (parted \ {name}) \cup kept \subseteq names
    BY <2>1, <2>3
  <2> HIDE DEF kept
  <2> QED BY <1>1, <1>5, <2>1, <2>2, <2>4, DownstreamIsWritten
<1> HIDE DEF after, kept
<1>7. IInv'
  BY <1>1, <1>2, <1>3, <1>4, <1>5, <1>6, StateFacts, EditingKeeps
<1>8. ASSUME IdInv PROVE IdInv'
  <2>1. \A x \in Fields(lazy) : lazy.schema[x].id \in Minted
    BY StateFacts DEF FieldSpec
  <2>2. ValueField(minted).id = minted
    BY DEF ValueField
  <2>3. \A m, n \in names : lazy'.schema[m].id = lazy'.schema[n].id => m = n
    BY <1>2, <1>3, <1>8, <2>1, <2>2 DEF IdInv, OneName
  <2> QED BY <1>3, <1>5, <1>8, <2>3 DEF IdInv, OneName
<1> QED BY <1>7, <1>8

(* collect on the lazy form *)
LEMMA CollectLazyKeeps ==
  ASSUME IInv, NEW name, CollectLazy(name)
  PROVE  IInv' /\ (IdInv => IdInv')
<1>1. /\ lazy' = Consume(lazy, name) /\ UNCHANGED <<eager, parted, minted, records, edits>>
  BY DEF CollectLazy
<1>2. /\ IsSnapshot(lazy', Minted) /\ lazy'.schema = lazy.schema
      /\ NoRepeats(lazy.pending) => NoRepeats(lazy'.pending)
  BY <1>1, StateFacts, ConsumeIsTyped
<1>3. Fields(lazy') = Fields(lazy) /\ Minted' = Minted
  BY <1>1, <1>2 DEF Fields, Minted
<1>4. IInv'
  BY <1>1, <1>2, <1>3 DEF IInv, TypeInv
<1> QED BY <1>2, <1>3, <1>4 DEF IdInv, OneName

(* consume on the eager form *)
LEMMA CollectEagerKeeps ==
  ASSUME IInv, NEW name, CollectEager(name)
  PROVE  IInv' /\ (IdInv => IdInv')
<1>1. /\ eager' = Consume(eager, name) /\ UNCHANGED <<lazy, parted, minted, records, edits>>
  BY DEF CollectEager
<1>2. /\ IsSnapshot(eager', Minted) /\ eager'.schema = eager.schema
      /\ \A i \in DOMAIN eager'.pending :
           \E j \in DOMAIN eager.pending : eager'.pending[i] = eager.pending[j]
  BY <1>1, StateFacts, ConsumeIsTyped
<1>3. Declared(eager'.pending) /\ Minted' = Minted
  BY <1>1, <1>2, StateFacts DEF Declared, Minted
<1> QED BY <1>1, <1>2, <1>3 DEF IInv, TypeInv, IdInv

(* Another dataset, made before the program started, in its two forms. *)
LEMMA OtherFacts ==
  ASSUME IInv, NEW o \in Others
  PROVE  /\ IsSnapshot(o.lazy, Minted) /\ IsSnapshot(o.eager, Minted)
         /\ o.eager.schema = o.lazy.schema /\ Fields(o.eager) = Fields(o.lazy)
         /\ IsFiniteSet(Fields(o.lazy)) /\ Declared(o.eager.pending)
         /\ OneName(o.lazy) /\ NoRepeats(o.lazy.pending)
<1>1. /\ o.lazy.schema = o.eager.schema /\ IsFiniteSet(Fields(o.lazy))
      /\ Earlier(o.lazy) /\ Earlier(o.eager) /\ Declared(o.eager.pending)
  BY OthersAssumption DEF Declared
<1>2. Fields(o.eager) = Fields(o.lazy) /\ Fields(o.lazy) \subseteq AllNames
  BY <1>1 DEF Fields, AllNames
<1>3. 1 .. FirstId - 1 \subseteq Minted
  BY StateFacts, SourceAssumption DEF Minted
<1>4. IsSnapshot(o.lazy, 1 .. FirstId - 1) /\ IsSnapshot(o.eager, 1 .. FirstId - 1)
  BY <1>1, <1>2 DEF Earlier, IsSnapshot
<1>5. IsSnapshot(o.lazy, Minted) /\ IsSnapshot(o.eager, Minted)
  BY <1>3, <1>4, SnapshotGrows
<1> QED BY <1>1, <1>2, <1>5 DEF Earlier, OneName, NoRepeats

(* A composition parts fields that it holds. *)
LEMMA PartedByIsTyped ==
  ASSUME NEW ids, NEW a, NEW b, IsSnapshot(a, ids), IsSnapshot(b, ids), NEW strategy
  PROVE  PartedBy(a, b, strategy) \subseteq Fields(a) \cup Fields(b)
<1> DEFINE names == Fields(a) \cup Fields(b)
           lost == Collisions(a, b)
           chosen == Winner(a, b, strategy)
           loser == Loser(a, b, strategy)
           pruned == {c \in Recorded(loser.pending) : Touches(c, lost)}
           inPlace == {c \in Recorded(chosen.pending) : Engine!InPlace(c)}
           filled == {n \in lost :
                        /\ strategy.mode # "keep"
                        /\ chosen.stored[n] = Null
                        /\ \A c \in Recorded(chosen.pending) : c.out = n => Engine!InPlace(c)}
           unfilled == {c.out : c \in pruned}
<1>1. chosen.pending \in Seq(Coupling(names)) /\ loser.pending \in Seq(Coupling(names))
  <2>1. a.pending \in Seq(Coupling(Fields(a))) /\ b.pending \in Seq(Coupling(Fields(b)))
    BY DEF IsSnapshot
  <2>2. Fields(a) \subseteq names /\ Fields(b) \subseteq names
    OBVIOUS
  <2>3. a.pending \in Seq(Coupling(names)) /\ b.pending \in Seq(Coupling(names))
    BY <2>1, <2>2, CouplingGrows
  <2> QED BY <2>3 DEF Winner, Loser
<1>2. \A i \in DOMAIN chosen.pending : chosen.pending[i].out \in names
  BY <1>1, CouplingShape
<1>3. \A i \in DOMAIN loser.pending : loser.pending[i].out \in names
  BY <1>1, CouplingShape
<1>4. unfilled \subseteq names
  BY <1>3 DEF Recorded
<1>5. filled \subseteq names
  BY DEF Collisions
<1> HIDE DEF unfilled, filled, chosen, names
<1>6. Downstream(chosen.pending, filled) \subseteq names
  BY <1>1, <1>2, <1>5, DownstreamIsWritten
<1>7. PartedBy(a, b, strategy)
        = (unfilled \ lost) \cup (filled \cap (unfilled \cup {c.out : c \in inPlace}))
            \cup (Downstream(chosen.pending, filled) \ filled)
  BY DEF PartedBy, unfilled, filled, chosen
<1> HIDE DEF pruned, lost, inPlace
<1>8. PartedBy(a, b, strategy) \subseteq names
  BY <1>4, <1>5, <1>6, <1>7
<1> QED BY <1>8 DEF names

(* concat_columns, either form and either order *)
LEMMA ComposedKeeps ==
  ASSUME IInv, Editing, UNCHANGED minted, NEW strategy, NEW a, NEW b, NEW x, NEW y,
         IsSnapshot(a, Minted), IsSnapshot(b, Minted),
         IsSnapshot(x, Minted), IsSnapshot(y, Minted),
         x.schema = a.schema, y.schema = b.schema, Declared(x.pending), Declared(y.pending),
         Fields(lazy) \subseteq Fields(a) \cup Fields(b),
         lazy' = ConcatColumns(a, b, strategy), eager' = ConcatColumns(x, y, strategy),
         parted' = Downstream(lazy'.pending,
                     StillParted(a, b, strategy) \cup PartedBy(a, b, strategy))
  PROVE  IInv'
<1> DEFINE names == Fields(a) \cup Fields(b)
<1>1. /\ IsSnapshot(lazy', Minted) /\ Fields(lazy') = names
      /\ lazy'.schema = [n \in names |->
           IF n \in Collisions(a, b) THEN MergedField(a, b, n, strategy)
           ELSE IF n \in Fields(a) THEN a.schema[n] ELSE b.schema[n]]
  BY ConcatColumnsIsTyped
<1>2. /\ IsSnapshot(eager', Minted)
      /\ eager'.pending = ComposedPending(x, y, strategy)
      /\ eager'.schema = [n \in Fields(x) \cup Fields(y) |->
           IF n \in Collisions(x, y) THEN MergedField(x, y, n, strategy)
           ELSE IF n \in Fields(x) THEN x.schema[n] ELSE y.schema[n]]
  BY ConcatColumnsIsTyped
<1>3. Fields(x) = Fields(a) /\ Fields(y) = Fields(b) /\ Collisions(x, y) = Collisions(a, b)
  BY DEF Fields, Collisions
<1>4. \A n : MergedField(x, y, n, strategy) = MergedField(a, b, n, strategy)
  BY DEF MergedField, Winner
<1>5. lazy'.schema = eager'.schema
  BY <1>1, <1>2, <1>3, <1>4
<1>6. Declared(eager'.pending)
  BY ConcatColumnsKeeps
<1>7. parted' \subseteq Fields(lazy')
  <2>1. lazy'.pending \in Seq(Coupling(names))
    BY <1>1 DEF IsSnapshot
  <2>2. \A i \in DOMAIN lazy'.pending : lazy'.pending[i].out \in names
    BY <2>1, CouplingShape
  <2>3. StillParted(a, b, strategy) \subseteq names
    BY StateFacts DEF StillParted
  <2>4. StillParted(a, b, strategy) \cup PartedBy(a, b, strategy) \subseteq names
    BY <2>3, PartedByIsTyped
  <2> QED BY <1>1, <2>1, <2>2, <2>4, DownstreamIsWritten
<1>8. minted' \in Nat /\ minted <= minted' /\ Minted' = Minted
  BY StateFacts DEF Minted
<1> QED BY <1>1, <1>2, <1>5, <1>6, <1>7, <1>8, EditingKeeps

(* concat_columns *)
LEMMA ConcatKeeps ==
  ASSUME IInv, NEW o \in Others, NEW strategy, NEW first \in BOOLEAN,
         ConcatWith(o, strategy, first)
  PROVE  IInv' /\ (~Twins /\ IdInv => IdInv')
<1> USE OtherFacts, StateFacts
<1>1. CASE first
  <2>1. /\ Editing /\ UNCHANGED minted /\ (Twins \/ ~OneFieldTwoNames(lazy, o.lazy))
        /\ lazy' = ConcatColumns(lazy, o.lazy, strategy)
        /\ eager' = ConcatColumns(eager, o.eager, strategy)
        /\ parted' = Downstream(lazy'.pending, StillParted(lazy, o.lazy, strategy)
                                                 \cup PartedBy(lazy, o.lazy, strategy))
    BY <1>1 DEF ConcatWith
  <2>2. IInv'
    BY <2>1, ComposedKeeps
  <2>3. ASSUME ~Twins, IdInv PROVE IdInv'
    <3>1. ~OneFieldTwoNames(lazy, o.lazy) /\ OneName(lazy) /\ NoRepeats(lazy.pending)
      BY <2>1, <2>3 DEF IdInv
    <3>2. /\ OneName(ConcatColumns(lazy, o.lazy, strategy))
          /\ NoRepeats(ConcatColumns(lazy, o.lazy, strategy).pending)
      BY <3>1, ConcatColumnsKeeps
    <3> QED BY <2>1, <3>2 DEF IdInv
  <2> QED BY <2>2, <2>3
<1>2. CASE ~first
  <2>1. /\ Editing /\ UNCHANGED minted /\ (Twins \/ ~OneFieldTwoNames(o.lazy, lazy))
        /\ lazy' = ConcatColumns(o.lazy, lazy, strategy)
        /\ eager' = ConcatColumns(o.eager, eager, strategy)
        /\ parted' = Downstream(lazy'.pending, StillParted(o.lazy, lazy, strategy)
                                                 \cup PartedBy(o.lazy, lazy, strategy))
    BY <1>2 DEF ConcatWith
  <2>2. IInv'
    BY <2>1, ComposedKeeps
  <2>3. ASSUME ~Twins, IdInv PROVE IdInv'
    <3>1. ~OneFieldTwoNames(o.lazy, lazy) /\ OneName(lazy) /\ NoRepeats(lazy.pending)
      BY <2>1, <2>3 DEF IdInv
    <3>2. /\ OneName(ConcatColumns(o.lazy, lazy, strategy))
          /\ NoRepeats(ConcatColumns(o.lazy, lazy, strategy).pending)
      BY <3>1, ConcatColumnsKeeps
    <3> QED BY <2>1, <3>2 DEF IdInv
  <2> QED BY <2>2, <2>3
<1> QED BY <1>1, <1>2

(* concat_rows *)
LEMMA StackKeeps ==
  ASSUME IInv, NEW o \in Others, StackWith(o)
  PROVE  IInv' /\ (~Twins /\ IdInv => IdInv')
<1> DEFINE shared == Collisions(lazy, o.lazy)
           N == Cardinality(shared)
           fresh == Fresh(shared, minted)
           names == Fields(lazy) \cup Fields(o.lazy)
<1>1. /\ Editing /\ (Twins \/ ~OneFieldTwoNames(lazy, o.lazy))
      /\ lazy' = ConcatRows(lazy, o.lazy, fresh)
      /\ eager' = ConcatRows(eager, o.eager, fresh)
      /\ minted' = minted + 1 + N /\ parted' = parted
  BY DEF StackWith, Fresh
<1>2. IsFiniteSet(shared)
  BY FS_Subset, OtherFacts DEF Collisions
<1>3. /\ N \in Nat /\ fresh \in [shared -> minted .. minted + N]
      /\ \A m, n \in shared : m # n => fresh[m] # fresh[n]
  BY <1>2, FreshIdentities, StateFacts
<1> HIDE DEF fresh, N
<1>4. /\ Minted \subseteq Minted' /\ minted' \in Nat /\ minted <= minted'
      /\ minted .. minted + N \subseteq Minted'
      /\ \A i \in minted .. minted + N : i \notin Minted
  BY <1>1, <1>3, StateFacts DEF Minted
<1>5. fresh \in [shared -> Minted'] /\ IsFresh(fresh, shared, Minted)
  BY <1>3, <1>4 DEF IsFresh
<1>6. PICK new : new = Minted'
  OBVIOUS
<1>7. /\ IsSnapshot(lazy', new) /\ lazy'.pending = lazy.pending
      /\ lazy'.schema = StackedSchema(lazy, o.lazy, fresh)
      /\ OneName(lazy) /\ ~OneFieldTwoNames(lazy, o.lazy) => OneName(lazy')
  <2> DEFINE after == ConcatRows(lazy, o.lazy, fresh)
  <2>1. /\ IsSnapshot(lazy, Minted) /\ IsSnapshot(o.lazy, Minted) /\ OneName(o.lazy)
        /\ Minted \subseteq new /\ fresh \in [Collisions(lazy, o.lazy) -> new]
        /\ IsFresh(fresh, Collisions(lazy, o.lazy), Minted)
    BY <1>4, <1>5, <1>6, StateFacts, OtherFacts
  <2>2. /\ IsSnapshot(after, new) /\ after.pending = lazy.pending
        /\ after.schema = StackedSchema(lazy, o.lazy, fresh)
        /\ OneName(lazy) /\ ~OneFieldTwoNames(lazy, o.lazy) => OneName(after)
    BY <2>1, ConcatRowsIsTyped
  <2> QED BY <1>1, <2>2
<1>8. /\ Fields(eager) = Fields(lazy) /\ Fields(o.eager) = Fields(o.lazy)
      /\ eager.schema = lazy.schema /\ o.eager.schema = o.lazy.schema
      /\ Collisions(eager, o.eager) = shared
  BY StateFacts, OtherFacts DEF Collisions
<1>9. /\ IsSnapshot(eager', new) /\ eager'.pending = eager.pending
      /\ eager'.schema = StackedSchema(eager, o.eager, fresh)
  <2> DEFINE after == ConcatRows(eager, o.eager, fresh)
  <2>1. /\ IsSnapshot(eager, Minted) /\ IsSnapshot(o.eager, Minted)
        /\ Minted \subseteq new /\ fresh \in [Collisions(eager, o.eager) -> new]
    BY <1>4, <1>5, <1>6, <1>8, StateFacts, OtherFacts
  <2>2. /\ IsSnapshot(after, new) /\ after.pending = eager.pending
        /\ after.schema = StackedSchema(eager, o.eager, fresh)
    BY <2>1, ConcatRowsIsTyped
  <2> QED BY <1>1, <2>2
<1>10. lazy'.schema = eager'.schema
  BY <1>7, <1>8, <1>9 DEF StackedSchema
<1>11. parted' \subseteq Fields(lazy')
  <2>1. Fields(lazy') = names
    BY <1>7 DEF StackedSchema, Fields
  <2> QED BY <1>1, <2>1, StateFacts
<1>12. IInv'
  BY <1>1, <1>4, <1>6, <1>7, <1>9, <1>10, <1>11, StateFacts, EditingKeeps
<1>13. ~Twins /\ IdInv => IdInv'
  BY <1>1, <1>7 DEF IdInv
<1> QED BY <1>12, <1>13

(* The first state *)
LEMMA InitHolds ==
  ASSUME Init
  PROVE  IInv /\ IdInv
<1>1. /\ FirstId \in Nat \ {0} /\ Source \in [DOMAIN Source -> FieldSpec(1 .. FirstId - 1)]
      /\ \A m, n \in DOMAIN Source : Source[m].id = Source[n].id => m = n
      /\ MaxRecords \in Nat /\ MaxEdits \in Nat
  BY SourceAssumption, BoundsAssumption
<1>2. /\ eager = lazy /\ parted = {} /\ minted = FirstId /\ records = 0 /\ edits = 0
      /\ lazy = [schema |-> Source, stored |-> lazy.stored, pending |-> << >>]
      /\ lazy.stored = [n \in DOMAIN Source |-> lazy.stored[n]]
  <2>1. lazy = [schema  |-> Source,
                stored  |-> [n \in DOMAIN Source |-> InitialValue(Source[n])],
                pending |-> << >>]
    BY DEF Init
  <2> QED BY <2>1 DEF Init
<1>3. /\ lazy.schema = Source /\ lazy.pending = << >> /\ Fields(lazy) = DOMAIN Source
      /\ lazy = [schema |-> lazy.schema, stored |-> lazy.stored, pending |-> lazy.pending]
  <2>1. lazy.schema = Source /\ lazy.pending = << >>
    BY <1>2
  <2> QED BY <1>2, <2>1 DEF Fields
<1>4. lazy.pending \in Seq(Coupling(Fields(lazy))) /\ DOMAIN lazy.pending = {}
  <2>1. \A S : << >> \in Seq(S)
    OBVIOUS
  <2> QED BY <1>3, <2>1
<1>5. Fields(lazy) \subseteq AllNames
  BY <1>3 DEF AllNames
<1>6. IsSnapshot(lazy, Minted)
  BY <1>1, <1>2, <1>3, <1>4, <1>5 DEF IsSnapshot, Minted
<1>7. TypeInv
  BY <1>1, <1>2, <1>6 DEF TypeInv
<1>8. Declared(eager.pending) /\ NoRepeats(lazy.pending)
  BY <1>2, <1>4 DEF Declared, NoRepeats
<1>9. OneName(lazy)
  BY <1>1, <1>3 DEF OneName
<1> QED BY <1>7, <1>8, <1>9 DEF IInv, IdInv

(* A step that changes nothing *)
LEMMA StutterKeeps ==
  ASSUME UNCHANGED vars
  PROVE  (IInv => IInv') /\ (IdInv => IdInv')
BY DEF vars, IInv, TypeInv, IdInv, Minted

(* Every step keeps both invariants. *)
LEMMA StepKeeps ==
  ASSUME IInv, [Next]_vars
  PROVE  IInv' /\ (~Twins /\ IdInv => IdInv')
<1>1. ASSUME NEW a \in Fields(lazy), NEW out \in AllNames, Map(<<a>>, out)
      PROVE  IInv' /\ (IdInv => IdInv')
  <2>1. <<a>> \in Seq(Fields(lazy))
    OBVIOUS
  <2> QED BY <1>1, <2>1, MapKeeps
<1>2. ASSUME NEW a \in Fields(lazy), NEW b \in Fields(lazy), NEW out \in AllNames,
             Map(<<a, b>>, out)
      PROVE  IInv' /\ (IdInv => IdInv')
  <2>1. <<a, b>> \in Seq(Fields(lazy))
    OBVIOUS
  <2> QED BY <1>2, <2>1, MapKeeps
<1>3. ASSUME NEW s \in Fields(lazy), NEW d \in Fields(lazy), ComposeSlice(s, d) \/ SliceData(s, d)
      PROVE  IInv' /\ (IdInv => IdInv')
  BY <1>3, ComposeSliceKeeps, SliceDataKeeps
<1>4. ASSUME NEW d \in Fields(lazy), MaterializeField(d) PROVE IInv' /\ (IdInv => IdInv')
  BY <1>4, MaterializeKeeps
<1>5. ASSUME NEW to \in Renamings, RenameFields(to) PROVE IInv' /\ (IdInv => IdInv')
  BY <1>5, RenameKeeps
<1>6. ASSUME NEW a \in Fields(lazy), DropFields({a}) PROVE IInv' /\ (IdInv => IdInv')
  <2> DEFINE names == Fields(lazy) \ {a}
  <2>1. /\ Editing /\ UNCHANGED minted /\ {a} = Fields(lazy) \ names
        /\ lazy' = Keep(lazy, names) /\ eager' = Keep(eager, names)
        /\ parted' = Downstream(lazy'.pending, (parted \ {a}) \cup Unfilled({a}))
    BY <1>6, StateFacts DEF DropFields, Drop
  <2>2. names \in SUBSET Fields(lazy)
    OBVIOUS
  <2> HIDE DEF names
  <2> QED BY <2>1, <2>2, NarrowKeeps
<1>7. ASSUME NEW a \in Fields(lazy), NEW b \in Fields(lazy), KeepFields({a, b})
      PROVE  IInv' /\ (IdInv => IdInv')
  <2> DEFINE gone == Fields(lazy) \ {a, b}
  <2>1. /\ Editing /\ UNCHANGED minted
        /\ lazy' = Keep(lazy, {a, b}) /\ eager' = Keep(eager, {a, b})
        /\ parted' = Downstream(lazy'.pending, (parted \ gone) \cup Unfilled(gone))
    BY <1>7 DEF KeepFields
  <2>2. {a, b} \in SUBSET Fields(lazy)
    OBVIOUS
  <2> QED BY <2>1, <2>2, NarrowKeeps
<1>8. ASSUME NEW a \in AllNames, AssignField(a) PROVE IInv' /\ (IdInv => IdInv')
  BY <1>8, AssignKeeps
<1>9. ASSUME NEW o \in Others, NEW strategy \in Strategies, NEW first \in BOOLEAN,
             ConcatWith(o, strategy, first)
      PROVE  IInv' /\ (~Twins /\ IdInv => IdInv')
  BY <1>9, ConcatKeeps
<1>10. ASSUME NEW o \in Others, StackWith(o) PROVE IInv' /\ (~Twins /\ IdInv => IdInv')
  BY <1>10, StackKeeps
<1>11. ASSUME NEW a \in Fields(lazy), CollectLazy(a) \/ CollectEager(a)
       PROVE  IInv' /\ (IdInv => IdInv')
  BY <1>11, CollectLazyKeeps, CollectEagerKeeps
<1>12. CASE UNCHANGED vars
  BY <1>12, StutterKeeps
<1>13. CASE Next
  BY <1>1, <1>2, <1>3, <1>4, <1>5, <1>6, <1>7, <1>8, <1>9, <1>10, <1>11, <1>13 DEF Next
<1> QED BY <1>12, <1>13

-----------------------------------------------------------------------------
(* One winner                                                              *)

KeptOne(cs, gone, i, prev) == IF i \in gone THEN prev ELSE Append(prev, cs[i])

(* Without goes through the couplings in recording order. *)
LEMMA WithoutEquation ==
  ASSUME NEW cs, NEW gone, Len(cs) \in Nat
  PROVE  \E f : /\ f[0] = <<>>
                /\ \A k \in 1 .. Len(cs) : f[k] = KeptOne(cs, gone, k, f[k-1])
                /\ Without(cs, gone) = f[Len(cs)]
<1>1. Without(cs, gone) = P!Discharge(cs, gone)
  BY SameEngine DEF Without
<1>2. \A i, prev : P!KeepOne(cs, gone, i, prev) = KeptOne(cs, gone, i, prev)
  BY DEF P!KeepOne, KeptOne
<1>3. PICK f : /\ f[0] = <<>>
               /\ \A k \in 1 .. Len(cs) : f[k] = P!KeepOne(cs, gone, k, f[k-1])
               /\ P!Discharge(cs, gone) = f[Len(cs)]
  BY P!DischargeEquation
<1>4. \A k \in 1 .. Len(cs) : f[k] = KeptOne(cs, gone, k, f[k-1])
  BY <1>2, <1>3
<1> QED BY <1>1, <1>3, <1>4

(* Without nothing gone, a sequence is itself. *)
LEMMA WithoutNothing ==
  ASSUME NEW C, NEW cs \in Seq(C)
  PROVE  Without(cs, {}) = cs
<1> DEFINE N == Len(cs)
           first(k) == [i \in 1 .. k |-> cs[i]]
<1>1. N \in Nat /\ cs = first(N) /\ \A i \in 1 .. N : cs[i] \in C
  OBVIOUS
<1>2. PICK f : /\ f[0] = <<>>
               /\ \A k \in 1 .. N : f[k] = KeptOne(cs, {}, k, f[k-1])
               /\ Without(cs, {}) = f[N]
  BY <1>1, WithoutEquation
<1> DEFINE T == {k \in 0 .. N : f[k] = first(k)}
<1>3. 0 \in T
  BY <1>1, <1>2
<1>4. ASSUME NEW k \in 1 .. N, f[k-1] = first(k-1) PROVE f[k] = first(k)
  <2>1. f[k] = Append(first(k-1), cs[k])
    BY <1>2, <1>4 DEF KeptOne
  <2>2. Append(first(k-1), cs[k]) = first(k)
    <3>1. k - 1 \in Nat /\ first(k-1) \in Seq(C) /\ Len(first(k-1)) = k - 1
      BY <1>1
    <3> QED BY <1>1, <3>1
  <2> QED BY <2>1, <2>2
<1> HIDE DEF first
<1>5. \A k \in 1 .. N : k - 1 \in T => k \in T
  BY <1>1, <1>4
<1> HIDE DEF T
<1>6. N \in T
  <2> HIDE DEF N
  <2>1. \A k \in 0 .. N : k \in T
    BY <1>1, <1>3, <1>5, SegmentInduction, Zenon
  <2> QED BY <1>1, <2>1
<1> QED BY <1>1, <1>2, <1>6 DEF T

(* The pending work that reads or writes a field. *)
Work(cs, n) == Without(cs, {i \in DOMAIN cs : ~Touches(cs[i], {n})})

(* The work of one coupling more. *)
LEMMA WorkOfAppend ==
  ASSUME NEW C, NEW cs \in Seq(C), NEW c \in C, NEW n
  PROVE  Work(Append(cs, c), n) = IF Touches(c, {n}) THEN Append(Work(cs, n), c) ELSE Work(cs, n)
<1> DEFINE N == Len(cs)
           more == Append(cs, c)
           gone == {i \in DOMAIN cs : ~Touches(cs[i], {n})}
           over == {i \in DOMAIN more : ~Touches(more[i], {n})}
<1>1. /\ N \in Nat /\ DOMAIN cs = 1 .. N /\ Len(more) = N + 1 /\ DOMAIN more = 1 .. (N + 1)
      /\ more[N + 1] = c /\ \A i \in 1 .. N : more[i] = cs[i]
  OBVIOUS
<1> HIDE DEF more
<1>2. \A i \in 1 .. N : i \in gone <=> i \in over
  BY <1>1
<1>3. N + 1 \in over <=> ~Touches(c, {n})
  BY <1>1
<1> HIDE DEF gone, over
<1>4. PICK f : /\ f[0] = <<>>
               /\ \A k \in 1 .. N : f[k] = KeptOne(cs, gone, k, f[k-1])
               /\ Without(cs, gone) = f[N]
  BY <1>1, WithoutEquation
<1>5. PICK g : /\ g[0] = <<>>
               /\ \A k \in 1 .. (N + 1) : g[k] = KeptOne(more, over, k, g[k-1])
               /\ Without(more, over) = g[N + 1]
  <2>1. Len(more) \in Nat
    BY <1>1
  <2> QED BY <1>1, <2>1, WithoutEquation
<1> DEFINE T == {k \in 0 .. N : f[k] = g[k]}
<1>6. 0 \in T
  BY <1>1, <1>4, <1>5
<1>7. ASSUME NEW k \in 1 .. N, f[k-1] = g[k-1] PROVE f[k] = g[k]
  <2>1. g[k] = KeptOne(more, over, k, g[k-1])
    BY <1>1, <1>5
  <2> QED BY <1>1, <1>2, <1>4, <1>7, <2>1 DEF KeptOne
<1>8. \A k \in 1 .. N : k - 1 \in T => k \in T
  BY <1>1, <1>7
<1> HIDE DEF T
<1>9. N \in T
  <2> HIDE DEF N
  <2>1. \A k \in 0 .. N : k \in T
    BY <1>1, <1>6, <1>8, SegmentInduction, Zenon
  <2> QED BY <1>1, <2>1
<1>10. g[N + 1] = KeptOne(more, over, N + 1, g[N])
  <2>1. N + 1 \in 1 .. (N + 1) /\ (N + 1) - 1 = N
    BY <1>1
  <2> QED BY <1>5, <2>1
<1>11. g[N + 1] = IF Touches(c, {n}) THEN Append(f[N], c) ELSE f[N]
  BY <1>1, <1>3, <1>9, <1>10 DEF T, KeptOne
<1> QED BY <1>4, <1>5, <1>11 DEF Work, gone, over, more

(* What the union adds does not touch a field: its work is what it was.    *)
LEMMA WorkOfUntouchedUnion ==
  ASSUME NEW C, NEW xs \in Seq(C), NEW ys \in Seq(C), NEW n,
         \A i \in DOMAIN ys : ~Touches(ys[i], {n})
  PROVE  Work(Union(xs, ys), n) = Work(xs, n)
<1> DEFINE N == Len(ys)
           same(s) == s \in Seq(C) /\ Work(s, n) = Work(xs, n)
<1>1. N \in Nat /\ DOMAIN ys = 1 .. N
  OBVIOUS
<1>2. PICK f : /\ f[0] = xs
               /\ \A k \in 1 .. N : f[k] = Added(f[k-1], ys[k])
               /\ Union(xs, ys) = f[N]
  BY <1>1, UnionEquation
<1> DEFINE T == {k \in 0 .. N : same(f[k])}
<1>3. same(xs)
  OBVIOUS
<1>4. ASSUME NEW k \in 1 .. N, same(f[k-1]) PROVE same(f[k])
  <2>1. ys[k] \in C /\ ~Touches(ys[k], {n}) /\ f[k-1] \in Seq(C) /\ Work(f[k-1], n) = Work(xs, n)
    <3>1. ys[k] \in C
      BY <1>1
    <3>2. ~Touches(ys[k], {n})
      BY <1>1
    <3> QED BY <1>4, <3>1, <3>2
  <2>2. f[k] = f[k-1] \/ f[k] = Append(f[k-1], ys[k])
    BY <1>2 DEF Added
  <2>3. Append(f[k-1], ys[k]) \in Seq(C)
    BY <2>1
  <2>4. Work(Append(f[k-1], ys[k]), n) = Work(f[k-1], n)
    BY <2>1, WorkOfAppend
  <2> QED BY <2>1, <2>2, <2>3, <2>4
<1> HIDE DEF same
<1>5. 0 \in T /\ \A k \in 1 .. N : k - 1 \in T => k \in T
  BY <1>1, <1>2, <1>3, <1>4
<1> HIDE DEF T
<1>6. N \in T
  <2> HIDE DEF N
  <2>1. \A k \in 0 .. N : k \in T
    BY <1>1, <1>5, SegmentInduction, Zenon
  <2> QED BY <1>1, <2>1
<1> QED BY <1>2, <1>6 DEF T, same

(* What the union starts from does not touch a field: its work is the      *)
(* other's.                                                                *)
LEMMA WorkOfUnionOntoUntouched ==
  ASSUME NEW C, NEW xs \in Seq(C), NEW ys \in Seq(C), NEW n,
         \A i \in DOMAIN xs : ~Touches(xs[i], {n}), NoRepeats(ys)
  PROVE  Work(Union(xs, ys), n) = Work(ys, n)
<1> DEFINE N == Len(ys)
           gone == {i \in DOMAIN ys : ~Touches(ys[i], {n})}
<1>1. N \in Nat /\ DOMAIN ys = 1 .. N
  OBVIOUS
<1>2. PICK f : /\ f[0] = xs
               /\ \A k \in 1 .. N : f[k] = Added(f[k-1], ys[k])
               /\ Union(xs, ys) = f[N]
  BY <1>1, UnionEquation
<1>3. PICK g : /\ g[0] = <<>>
               /\ \A k \in 1 .. N : g[k] = KeptOne(ys, gone, k, g[k-1])
               /\ Without(ys, gone) = g[N]
  BY <1>1, WithoutEquation
<1>4. \A k \in 1 .. N : k \in gone <=> ~Touches(ys[k], {n})
  BY <1>1
<1> HIDE DEF gone
<1> DEFINE member(s, k) == \A i \in DOMAIN s : \/ \E j \in DOMAIN xs : s[i] = xs[j]
                                               \/ \E j \in 1 .. k : s[i] = ys[j]
           same(k) == f[k] \in Seq(C) /\ member(f[k], k) /\ Work(f[k], n) = g[k]
           T == {k \in 0 .. N : same(k)}
<1>5. same(0)
  <2> DEFINE all == {i \in DOMAIN xs : ~Touches(xs[i], {n})}
             M == Len(xs)
  <2>1. M \in Nat /\ DOMAIN xs = 1 .. M /\ \A i \in 1 .. M : i \in all
    <3>1. M \in Nat /\ DOMAIN xs = 1 .. M
      OBVIOUS
    <3>2. \A i \in DOMAIN xs : i \in all
      OBVIOUS
    <3> QED BY <3>1, <3>2
  <2> HIDE DEF all
  <2>2. PICK h : /\ h[0] = <<>>
                 /\ \A k \in 1 .. M : h[k] = KeptOne(xs, all, k, h[k-1])
                 /\ Without(xs, all) = h[M]
    BY <2>1, WithoutEquation
  <2> DEFINE S == {k \in 0 .. M : h[k] = <<>>}
  <2>3. 0 \in S /\ \A k \in 1 .. M : k - 1 \in S => k \in S
    BY <2>1, <2>2 DEF KeptOne
  <2> HIDE DEF S
  <2>4. M \in S
    <3> HIDE DEF M
    <3>1. \A k \in 0 .. M : k \in S
      BY <2>1, <2>3, SegmentInduction, Zenon
    <3> QED BY <2>1, <3>1
  <2>5. Work(xs, n) = <<>>
    BY <2>2, <2>4 DEF S, Work, all
  <2> QED BY <1>2, <1>3, <2>5
<1>6. ASSUME NEW k \in 1 .. N, same(k-1) PROVE same(k)
  <2>1. /\ ys[k] \in C /\ f[k-1] \in Seq(C) /\ Work(f[k-1], n) = g[k-1]
        /\ member(f[k-1], k-1) /\ k - 1 \in Nat
    BY <1>1, <1>6
  <2>2. f[k] = Added(f[k-1], ys[k])
    BY <1>2
  <2>3. f[k] \in Seq(C)
    BY <2>1, <2>2, AddedIsTyped
  <2>4. member(f[k], k)
    <3>1. \A i \in DOMAIN f[k] : f[k][i] = ys[k] \/ \E j \in DOMAIN f[k-1] : f[k][i] = f[k-1][j]
      <4>1. PICK s, c : s = f[k-1] /\ c = ys[k] /\ s \in Seq(C) /\ c \in C
        BY <2>1
      <4>2. \A i \in DOMAIN Added(s, c) : Added(s, c)[i] = c \/ \E j \in DOMAIN s : Added(s, c)[i] = s[j]
        BY <4>1, AddedIsTyped
      <4> QED BY <2>2, <4>1, <4>2
    <3>2. k \in 1 .. k /\ \A j \in 1 .. (k - 1) : j \in 1 .. k
      OBVIOUS
    <3> QED BY <2>1, <3>1, <3>2
  <2>5. CASE Touches(ys[k], {n})
    <3>1. ~ \E i \in DOMAIN f[k-1] : f[k-1][i] = ys[k]
      <4> SUFFICES ASSUME NEW i \in DOMAIN f[k-1], f[k-1][i] = ys[k] PROVE FALSE
        OBVIOUS
      <4>1. CASE \E j \in DOMAIN xs : f[k-1][i] = xs[j]
        BY <2>5, <4>1
      <4>2. ASSUME NEW j \in 1 .. (k - 1), f[k-1][i] = ys[j] PROVE FALSE
        <5>1. j \in DOMAIN ys /\ k \in DOMAIN ys /\ j # k
          BY <1>1
        <5> QED BY <4>2, <5>1 DEF NoRepeats
      <4> QED BY <2>1, <4>1, <4>2
    <3>2. f[k] = Append(f[k-1], ys[k])
      BY <2>2, <3>1 DEF Added
    <3>3. Work(Append(f[k-1], ys[k]), n) = Append(Work(f[k-1], n), ys[k])
      BY <2>1, <2>5, WorkOfAppend
    <3>4. g[k] = Append(g[k-1], ys[k])
      BY <1>3, <1>4, <2>5 DEF KeptOne
    <3> QED BY <2>1, <2>3, <2>4, <3>2, <3>3, <3>4
  <2>6. CASE ~Touches(ys[k], {n})
    <3>1. f[k] = f[k-1] \/ f[k] = Append(f[k-1], ys[k])
      BY <2>2 DEF Added
    <3>2. Work(Append(f[k-1], ys[k]), n) = Work(f[k-1], n)
      BY <2>1, <2>6, WorkOfAppend
    <3>3. g[k] = g[k-1]
      BY <1>3, <1>4, <2>6 DEF KeptOne
    <3> QED BY <2>1, <2>3, <2>4, <3>1, <3>2, <3>3
  <2> QED BY <2>5, <2>6
<1> HIDE DEF same
<1>7. 0 \in T /\ \A k \in 1 .. N : k - 1 \in T => k \in T
  BY <1>1, <1>5, <1>6
<1> HIDE DEF T
<1>8. N \in T
  <2> HIDE DEF N
  <2>1. \A k \in 0 .. N : k \in T
    BY <1>1, <1>7, SegmentInduction, Zenon
  <2> QED BY <1>1, <2>1
<1> QED BY <1>2, <1>3, <1>8 DEF T, same, Work, gone

(* A renaming that renames nothing leaves the couplings as they are. *)
LEMMA RewrittenByNothing ==
  ASSUME NEW names, NEW cs \in Seq(Coupling(names)), NEW to, to = [n \in names |-> n]
  PROVE  Rewritten(cs, to) = cs
<1>1. Rewritten(cs, to) = [i \in DOMAIN cs |-> Rewrote(cs[i], to)]
  BY DEF Rewritten, Rewrote
<1>2. ASSUME NEW c \in Coupling(names) PROVE Rewrote(c, to) = c
  <2>1. /\ c = [op |-> c.op, ins |-> c.ins, out |-> c.out, args |-> c.args, tag |-> c.tag]
        /\ c.ins \subseteq names /\ c.out \in names /\ c.args \in Seq(names)
    BY CouplingShape
  <2>2. {to[n] : n \in c.ins} = c.ins
    BY <2>1
  <2>3. to[c.out] = c.out
    BY <2>1
  <2>4. [k \in DOMAIN c.args |-> to[c.args[k]]] = c.args
    BY <2>1
  <2>5. Rewrote(c, to) = [op |-> c.op, ins |-> c.ins, out |-> c.out, args |-> c.args, tag |-> c.tag]
    BY <2>2, <2>3, <2>4 DEF Rewrote
  <2> QED BY <2>1, <2>5
<1>3. \A i \in DOMAIN cs : cs[i] \in Coupling(names)
  OBVIOUS
<1>4. cs = [i \in DOMAIN cs |-> cs[i]]
  OBVIOUS
<1>5. \A i \in DOMAIN cs : Rewrote(cs[i], to) = cs[i]
  BY <1>2, <1>3
<1> HIDE DEF Coupling
<1>6. [i \in DOMAIN cs |-> Rewrote(cs[i], to)] = [i \in DOMAIN cs |-> cs[i]]
  BY <1>5
<1> QED BY <1>1, <1>4, <1>6

(* Couplings whose fields all survive stay as they are. *)
LEMMA RetainedInFull ==
  ASSUME NEW names, NEW cs \in Seq(Coupling(names))
  PROVE  Retained(cs, names) = cs
<1>1. \A i \in DOMAIN cs : cs[i] \in Coupling(names)
  OBVIOUS
<1>2. \A i \in DOMAIN cs : cs[i].ins \subseteq names /\ cs[i].out \in names
  BY <1>1, CouplingShape
<1>3. {i \in DOMAIN cs : ~(cs[i].ins \cup {cs[i].out} \subseteq names)} = {}
  BY <1>2
<1> QED BY <1>3, WithoutNothing DEF Retained

(* Under a keep strategy a shared name is the chosen side's field, in all  *)
(* that a snapshot holds of it.                                            *)
LEMMA WinnerFieldWins ==
  ASSUME NEW ids, NEW a, NEW b, IsSnapshot(a, ids), IsSnapshot(b, ids),
         ~OneFieldTwoNames(a, b), NoRepeats(b.pending),
         NEW strategy, strategy.mode = "keep", NEW n \in Collisions(a, b)
  PROVE  FieldView(ConcatColumns(a, b, strategy), n) = FieldView(Winner(a, b, strategy), n)
<1> DEFINE lost == Collisions(a, b)
           names == Fields(a) \cup Fields(b)
           after == ConcatColumns(a, b, strategy)
           chosen == Winner(a, b, strategy)
           left == IF strategy.side = "left" THEN a.pending ELSE Pruned(a.pending, lost)
           right == IF strategy.side = "left" THEN Pruned(b.pending, lost) ELSE b.pending
<1>1. n \in names
  BY DEF Collisions
<1>2. after.schema[n] = chosen.schema[n]
  <2>1. after.schema[n] = MergedField(a, b, n, strategy)
    BY <1>1 DEF ConcatColumns
  <2> QED BY <2>1 DEF MergedField
<1>3. after.stored[n] = chosen.stored[n]
  <2>1. after.stored[n] = ResolvedValue(a, b, n, strategy)
    BY <1>1 DEF ConcatColumns
  <2> QED BY <2>1 DEF ResolvedValue
<1>4. a.pending \in Seq(Coupling(names)) /\ b.pending \in Seq(Coupling(names))
  <2>1. a.pending \in Seq(Coupling(Fields(a))) /\ b.pending \in Seq(Coupling(Fields(b)))
    BY DEF IsSnapshot
  <2>2. Fields(a) \subseteq names /\ Fields(b) \subseteq names
    OBVIOUS
  <2> QED BY <2>1, <2>2, CouplingGrows
<1>5. left \in Seq(Coupling(names)) /\ right \in Seq(Coupling(names))
  BY <1>4, PrunedIsTyped
<1>6. after.pending = Union(left, right)
  <2> DEFINE to == RenameMap(a, b)
  <2>1. after.pending = Union(Retained(Rewritten(left, to), names),
                              Retained(Rewritten(right, to), names))
    BY DEF ConcatColumns, ComposedPending
  <2>2. to = [m \in names |-> m]
    BY NothingRenamed
  <2> HIDE DEF to, left, right, names
  <2>3. Rewritten(left, to) = left /\ Rewritten(right, to) = right
    BY <1>5, <2>2, RewrittenByNothing
  <2>4. Retained(left, names) = left /\ Retained(right, names) = right
    BY <1>5, RetainedInFull
  <2> QED BY <2>1, <2>3, <2>4
<1>7. \A c : ~Touches(c, lost) => ~Touches(c, {n})
  BY DEF Touches
<1>8. Work(Union(left, right), n) = Work(chosen.pending, n)
  <2>1. CASE strategy.side = "left"
    <3>1. left = a.pending /\ right = Pruned(b.pending, lost) /\ chosen = a
      BY <2>1 DEF Winner
    <3>2. \A i \in DOMAIN right : ~Touches(right[i], {n})
      BY <1>4, <1>7, <3>1, PrunedIsTyped
    <3> HIDE DEF left, right, chosen
    <3>3. Work(Union(left, right), n) = Work(left, n)
      BY <1>5, <3>2, WorkOfUntouchedUnion
    <3> QED BY <3>1, <3>3
  <2>2. CASE strategy.side # "left"
    <3>1. left = Pruned(a.pending, lost) /\ right = b.pending /\ chosen = b
      BY <2>2 DEF Winner
    <3>2. \A i \in DOMAIN left : ~Touches(left[i], {n})
      BY <1>4, <1>7, <3>1, PrunedIsTyped
    <3>3. NoRepeats(right)
      BY <3>1
    <3> HIDE DEF left, right, chosen
    <3>4. Work(Union(left, right), n) = Work(right, n)
      BY <1>5, <3>2, <3>3, WorkOfUnionOntoUntouched
    <3> QED BY <3>1, <3>4
  <2> QED BY <2>1, <2>2
<1> HIDE DEF after, chosen, left, right
<1>9. Work(after.pending, n) = Work(chosen.pending, n)
  BY <1>6, <1>8
<1>10. FieldView(after, n) = FieldView(chosen, n)
  BY <1>2, <1>3, <1>9 DEF FieldView, Work
<1> QED BY <1>10 DEF after, chosen

-----------------------------------------------------------------------------
(* The theorems                                                            *)

(* Both forms of a program hold a snapshot whatever is called, and the     *)
(* eager one has declared bindings pending only: that a Dataset operand    *)
(* does its work before it returns (ops/dispatch.py).                      *)
THEOREM InvariantHolds == Spec => []IInv
<1>1. Init => IInv
  BY InitHolds
<1>2. IInv /\ [Next]_vars => IInv'
  BY StepKeeps
<1> QED BY <1>1, <1>2, PTL DEF Spec

(* Where no composition meets one field under two names, a field has one   *)
(* name and a coupling is pending once.                                    *)
THEOREM IdentitiesHold == ~Twins => (Spec => [](IInv /\ IdInv))
<1> SUFFICES ASSUME ~Twins PROVE Spec => [](IInv /\ IdInv)
  OBVIOUS
<1>1. Init => IInv /\ IdInv
  BY InitHolds
<1>2. IInv /\ IdInv /\ [Next]_vars => (IInv /\ IdInv)'
  BY StepKeeps
<1> QED BY <1>1, <1>2, PTL DEF Spec

(* Schema, table and couplings stay in step, FieldIdentities are unique    *)
(* and the two forms agree on the schema.  With Twins a concatenation      *)
(* gives one field two names, and uniqueness is lost.                      *)
THEOREM TypeCorrect == ~Twins => (Spec => []TypeOK)
<1> SUFFICES ASSUME ~Twins PROVE Spec => []TypeOK
  OBVIOUS
<1>1. IInv /\ IdInv => TypeOK
  <2> SUFFICES ASSUME IInv, IdInv PROVE TypeOK
    OBVIOUS
  <2>1. \A snap, ids : IsSnapshot(snap, ids) =>
          DOMAIN snap.stored = Fields(snap) /\ Fields(snap) \subseteq AllNames
    BY DEF IsSnapshot
  <2>2. OneName(lazy) /\ OneName(eager)
    BY DEF IInv, TypeInv, IdInv, OneName, Fields
  <2>3. SnapshotOK(lazy) /\ SnapshotOK(eager)
    BY <2>1, <2>2 DEF IInv, TypeInv, SnapshotOK, OneName
  <2> QED BY <2>3 DEF IInv, TypeInv, TypeOK
<1> QED BY <1>1, IdentitiesHold, PTL

(* No edit, composition or collection leaves a coupling that refers to a   *)
(* field the schema has lost.                                              *)
THEOREM ReferencesHold == Spec => []NoDanglingReference
<1>1. IInv => NoDanglingReference
  <2>1. ASSUME NEW ids, NEW snap, IsSnapshot(snap, ids)
        PROVE  Engine!KnownFields(snap.pending, Fields(snap))
    <3>1. snap.pending \in Seq(Coupling(Fields(snap)))
      BY <2>1 DEF IsSnapshot
    <3>2. \A i \in DOMAIN snap.pending : snap.pending[i] \in Coupling(Fields(snap))
      BY <3>1
    <3> QED BY <3>2, CouplingShape DEF Engine!KnownFields
  <2> QED BY <2>1 DEF IInv, TypeInv, NoDanglingReference
<1> QED BY <1>1, InvariantHolds, PTL

(* The engine accepts the eager program's couplings in every state.        *)
THEOREM EagerIsNeverStuck == Spec => []EagerAlwaysUsable
<1>1. IInv => EagerAlwaysUsable
  <2> SUFFICES ASSUME IInv PROVE EagerAlwaysUsable
    OBVIOUS
  <2>1. /\ eager.pending \in Seq(Coupling(Fields(eager)))
        /\ \A i \in DOMAIN eager.pending : eager.pending[i] = Materialize(eager.pending[i].out)
    BY StateFacts DEF Declared
  <2>2. Engine!Accepts(eager.pending, Fields(eager))
    BY <2>1, DeclaredIsAccepted
  <2> QED BY <2>2 DEF EagerAlwaysUsable, Usable
<1> QED BY <1>1, InvariantHolds, PTL

(* Whatever coupling over the fields of the eager program, and a new one,  *)
(* a Dataset call records, the engine it constructs for the consumption    *)
(* does not raise.                                                         *)
CallsAreAccepted ==
  \A names \in SUBSET AllNames : Fields(eager) \subseteq names =>
    \A c \in Coupling(names) : Engine!Accepts(Added(eager.pending, c), names)

(* No eager call is ever refused by the engine, in any state.              *)
THEOREM EagerCallsAreAccepted == Spec => []CallsAreAccepted
<1>1. IInv => CallsAreAccepted
  <2> SUFFICES ASSUME IInv, NEW names \in SUBSET AllNames, Fields(eager) \subseteq names,
                      NEW c \in Coupling(names)
               PROVE  Engine!Accepts(Added(eager.pending, c), names)
    BY DEF CallsAreAccepted
  <2> DEFINE cs == eager.pending
             more == Added(cs, c)
  <2>1. Fields(lazy) \subseteq names /\ cs \in Seq(Coupling(Fields(lazy))) /\ Declared(cs)
    BY StateFacts
  <2>2. cs \in Seq(Coupling(names))
    BY <2>1, CouplingGrows
  <2>3. more \in Seq(Coupling(names))
    BY <2>2, AddedIsTyped
  <2>4. \A i \in DOMAIN more : i < Len(more) => more[i] = Materialize(more[i].out)
    <3>1. CASE \E i \in DOMAIN cs : cs[i] = c
      BY <2>1, <3>1 DEF Added, Declared
    <3>2. CASE ~ \E i \in DOMAIN cs : cs[i] = c
      <4>1. more = Append(cs, c) /\ Len(cs) \in Nat /\ DOMAIN cs = 1 .. Len(cs)
        BY <2>2, <3>2 DEF Added
      <4>2. /\ Len(more) = Len(cs) + 1 /\ DOMAIN more = 1 .. Len(more)
            /\ \A i \in 1 .. Len(cs) : more[i] = cs[i]
        BY <2>2, <4>1
      <4> HIDE DEF more
      <4> QED BY <2>1, <4>1, <4>2 DEF Declared
    <3> QED BY <3>1, <3>2
  <2> HIDE DEF more
  <2>5. Engine!Accepts(more, names)
    BY <2>3, <2>4, DeclaredIsAccepted
  <2> QED BY <2>5 DEF more
<1> QED BY <1>1, InvariantHolds, PTL

(* A shared name of concat_columns is one input's field in its identity,   *)
(* its column and its pending work alike, when the strategy keeps a side   *)
(* and no field has two names: the hooks that compose the schema, the      *)
(* table and the couplings choose the same side.                           *)
THEOREM OneSideWins == ~Twins => (Spec => OneWinner)
<1> SUFFICES ASSUME ~Twins PROVE Spec => OneWinner
  OBVIOUS
<1> DEFINE Wins ==
      edits' # edits =>
        \A strategy \in {s \in Strategies : s.mode = "keep"} :
        \A o \in Others, first \in BOOLEAN :
          ConcatWith(o, strategy, first) =>
            \A n \in Collisions(lazy, o.lazy) :
              FieldView(lazy', n) \in {FieldView(lazy, n), FieldView(o.lazy, n)}
<1>1. IInv /\ IdInv => Wins
  <2> SUFFICES ASSUME IInv, IdInv, NEW strategy \in Strategies, strategy.mode = "keep",
                      NEW o \in Others, NEW first \in BOOLEAN, ConcatWith(o, strategy, first),
                      NEW n \in Collisions(lazy, o.lazy)
               PROVE  FieldView(lazy', n) \in {FieldView(lazy, n), FieldView(o.lazy, n)}
    OBVIOUS
  <2>1. /\ IsSnapshot(lazy, Minted) /\ IsSnapshot(o.lazy, Minted)
        /\ NoRepeats(lazy.pending) /\ NoRepeats(o.lazy.pending)
    BY StateFacts, OtherFacts DEF IdInv
  <2>2. CASE first
    <3>1. lazy' = ConcatColumns(lazy, o.lazy, strategy) /\ ~OneFieldTwoNames(lazy, o.lazy)
      BY <2>2 DEF ConcatWith
    <3>2. FieldView(lazy', n) = FieldView(Winner(lazy, o.lazy, strategy), n)
      BY <2>1, <3>1, WinnerFieldWins
    <3> QED BY <3>2 DEF Winner
  <2>3. CASE ~first
    <3>1. lazy' = ConcatColumns(o.lazy, lazy, strategy) /\ ~OneFieldTwoNames(o.lazy, lazy)
      BY <2>3 DEF ConcatWith
    <3>2. n \in Collisions(o.lazy, lazy)
      BY DEF Collisions
    <3>3. FieldView(lazy', n) = FieldView(Winner(o.lazy, lazy, strategy), n)
      BY <2>1, <3>1, <3>2, WinnerFieldWins
    <3> QED BY <3>3 DEF Winner
  <2> QED BY <2>2, <2>3
<1>2. IInv /\ IdInv /\ [Next]_vars => [Wins]_vars
  BY <1>1
<1>3. Spec => [](IInv /\ IdInv)
  BY IdentitiesHold
<1>4. Spec => [][Next]_vars
  BY PTL DEF Spec
<1>5. Spec => [][Wins]_vars
  BY <1>2, <1>3, <1>4, PTL
<1> QED BY <1>5, PTL DEF OneWinner
=============================================================================
