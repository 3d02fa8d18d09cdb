-------------------------- MODULE MCAuthoringContext --------------------------
(* Authoring from one dataset, over interchangeable names for what it may   *)
(* be given later.                                                         *)
EXTENDS AuthoringContext, TLC

Blocks == [blocks |-> TRUE, bundles |-> FALSE, names |-> Names, datasets |-> 4]

(* Over two names, whichever the second is, so that names stay symmetric.  *)
TwoNames == {N \in SUBSET Names : FirstFields \subseteq N /\ Cardinality(N) = 2}
Bundling == [blocks : {FALSE}, bundles : {TRUE}, names : TwoNames, datasets : {5}]
Both     == [blocks : {TRUE}, bundles : {TRUE}, names : TwoNames, datasets : {5}]
BlocksOrBundles == {Blocks} \cup Bundling

Symmetry == Permutations(Names \ FirstFields)
=============================================================================
