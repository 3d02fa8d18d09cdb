------------------------------ MODULE RowChoice ------------------------------
(***************************************************************************)
(* What a boolean mask keeps of the rows of a table, in order              *)
(* (table.loc[mask], SliceArray.take).                                     *)
(***************************************************************************)
EXTENDS Naturals, Sequences

(* The members of s at some positions, in order.  (A recursive function,   *)
(* where SelectSeq would do, for the sake of proofs.)                      *)
Chosen(s, positions) ==
    LET chosen[n \in 0 .. Len(s)] ==
            IF n = 0 THEN <<>>
            ELSE IF n \in positions THEN Append(chosen[n-1], s[n]) ELSE chosen[n-1] IN
    chosen[Len(s)]
=============================================================================
