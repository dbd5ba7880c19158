------------------------------ MODULE Selection ------------------------------
(***************************************************************************)
(* The elements of a sequence that belong to a set, in their order: the     *)
(* SelectSeq of the standard modules, of which the provers know nothing,    *)
(* as a recursive function.                                                 *)
(***************************************************************************)
EXTENDS Integers, Sequences

\* A turn of the recursion.
AppendIf(kept, x, S) == IF x \in S THEN Append(kept, x) ELSE kept

Only(seq, S) ==
    LET kept[k \in 0..Len(seq)] ==
            IF k = 0 THEN << >> ELSE AppendIf(kept[k - 1], seq[k], S)
    IN  kept[Len(seq)]
=============================================================================
