--------------------------- MODULE MCSourceManager ---------------------------
(* Source managers over keys of types of their own. *)
EXTENDS SourceManager, TLC

KeyTypes == CHOOSE f \in [Key -> Type] : \A t \in Type : \E k \in Key : f[k] = t

Symmetry == Permutations(Recipe) \cup Permutations(Manager)
=============================================================================
