---------------------------- MODULE MCRowPlans ----------------------------
(* A small instance of RowPlans: two members, two groups.                  *)
EXTENDS RowPlans

MCKeyColumns == {<<1, 0>>, <<1, 1>>, <<1, Null>>}

(* Functions that keep to what is declared for them. *)
HonestCalls ==
    {[fn |-> "sort", identity |-> "inherit", schema |-> "preserve"],
     [fn |-> "sort_and_renumber", identity |-> "mint", schema |-> "construct"]}
RelabellingCalls ==
    {[fn |-> "sort_and_renumber", identity |-> "inherit", schema |-> "preserve"]}

MCSelections == {<<1>>, <<1, 0>>, <<1, 1>>}
=============================================================================
