-------------------------- MODULE MCLazyEagerDuality --------------------------
(* The duality over one data field, one (empty) slice field and one        *)
(* dimension field; over a data field and two slice fields that hold       *)
(* windows already in the run that records couplings again.  The datasets  *)
(* composed with share fields with it, or only names, or a field renamed.  *)
EXTENDS LazyEagerDuality, TLC

OneOfEach ==
  [img |-> [kind |-> "data", id |-> 1, dim |-> NoTag],
   clip |-> [kind |-> "slice", id |-> 2, dim |-> NoTag],
   start |-> [kind |-> "dim", id |-> 3, dim |-> 1]]

TwoWindows ==
  [img |-> [kind |-> "data", id |-> 1, dim |-> NoTag],
   clip |-> [kind |-> "slice", id |-> 2, dim |-> 1],
   crop |-> [kind |-> "slice", id |-> 3, dim |-> 1]]

(* A branch of the same source that keeps its windows: two shared fields,  *)
(* a binding of its own.                                                   *)
Branch ==
  LET recorded == DeferCompose([schema  |-> [n \in {"clip", "start"} |-> OneOfEach[n]],
                            stored  |-> [clip |-> Null, start |-> Scalar(3)],
                            pending |-> <<>>], "clip", "start")
  IN  [lazy |-> recorded, eager |-> Consume(recorded, "clip")]

(* Another recording with the same field names, and windows in place.      *)
Stranger ==
  LET fields == [img |-> [kind |-> "data", id |-> 101, dim |-> NoTag],
                 clip |-> [kind |-> "slice", id |-> 102, dim |-> 1]]
      recorded == DeferSlice([schema  |-> fields,
                          stored  |-> [img |-> Accessor(101, Null),
                                       clip |-> Slice([x \in {1} |-> Scalar(102)])],
                          pending |-> <<>>], "clip", "img")
  IN  [lazy |-> recorded, eager |-> Consume(recorded, "img")]

(* The raw data of the same source kept under a name of its own:           *)
(* keep(rename(ds, {img: picture}), [picture]).                            *)
RawCopy ==
  LET copy == [schema  |-> [picture |-> OneOfEach.img],
               stored  |-> [picture |-> Accessor(1, Null)],
               pending |-> <<>>]
  IN  [lazy |-> copy, eager |-> copy]

NoOthers == {}
MCOthers == {Branch, Stranger}

Strategy(mode, side, on_conflict) ==
  [mode |-> mode, side |-> side, on_conflict |-> on_conflict]
RenamedBranch == {RawCopy}

MCStrategies ==
  {Strategy("keep", "left", "keep_chosen"), Strategy("keep", "right", "raise"),
   Strategy("update_missing", "left", "raise"),
   Strategy("coalesce", "right", "keep_chosen")}
NoStrategies == {}

SpareSymmetry == Permutations(Spare)
=============================================================================
