------------------------------- MODULE EagerRow -------------------------------
(***************************************************************************)
(* What a snapshot with pending work promises whoever reads its rows.      *)
(*                                                                         *)
(* There is one row and no pending work: an operator's work is done when   *)
(* it is asked for, and consumption cannot be seen.  The promise has two   *)
(* exceptions.  Work that comes late, for a field that unfinished work     *)
(* already reads, may change what that work makes of it, or leave no row   *)
(* at all; and work that overwrites what unfinished work wrote leaves a    *)
(* row that consumption of part of it may change.                          *)
(***************************************************************************)
EXTENDS Naturals

CONSTANTS
  Names,      \* the field names of the schema
  MaxRecords  \* bound: work asked for in one behaviour

VARIABLES
  row,        \* the value of each field
  settled,    \* whether the promise holds
  awaited,    \* the fields that unfinished work for other fields reads
  unfinished, \* the fields that unfinished work writes
  recorded    \* how much work has been asked for

vars == <<row, settled, awaited, unfinished, recorded>>

Init ==
  /\ row = [n \in Names |-> <<0, n>>]
  /\ settled = TRUE
  /\ awaited = {} /\ unfinished = {}
  /\ recorded = 0

(* What the k-th work makes of a row, and that work done on it.            *)
Made(now, k, ins) == <<k, [n \in ins |-> now[n]]>>
Done(now, k, ins, out) == [now EXCEPT ![out] = Made(now, k, ins)]

Asked(ins, out) ==
  /\ recorded < MaxRecords
  /\ recorded' = recorded + 1
  /\ unfinished' = unfinished \cup {out}
  /\ awaited' = awaited \cup (ins \ {out})

(* Nobody waits for the field: the work is as good as done.                *)
Work(ins, out) ==
  /\ Asked(ins, out)
  /\ out \notin awaited /\ settled
  /\ settled' = (out \in unfinished => out \in ins)
  /\ row' = Done(row, recorded + 1, ins, out)

(* Work for a field that unfinished work reads: a value recomputed from    *)
(* the old one is refused; a new one is made of the row that results, and  *)
(* reaches unfinished work only.                                           *)
LateWork(ins, out) ==
  /\ Asked(ins, out)
  /\ settled => out \in awaited
  /\ settled' \in BOOLEAN
  /\ settled' => /\ settled /\ out \notin ins
                 /\ row'[out] = Made(row', recorded + 1, ins)
                 /\ \A n \in Names \ unfinished' : row'[n] = row[n]

Consume ==
  /\ recorded' = recorded
  /\ awaited' \subseteq awaited
  /\ unfinished' \subseteq unfinished
  /\ settled' \in BOOLEAN
  /\ settled => settled' = TRUE /\ row' = row

Next ==
  \/ \E ins \in SUBSET Names, out \in Names : Work(ins, out) \/ LateWork(ins, out)
  \/ Consume

Spec == Init /\ [][Next]_vars
=============================================================================
