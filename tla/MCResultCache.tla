--------------------------- MODULE MCResultCache ---------------------------
(* Instances of ResultCache for TLC.                                       *)
EXTENDS ResultCache, TLC

CONSTANTS w1, w2

\* A batch by the running totals of its spots.
B1(c1) == [n |-> 1, cut |-> (0 :> 0 @@ 1 :> c1)]
B2(c1, c2) == [n |-> 2, cut |-> (0 :> 0 @@ 1 :> c1 @@ 2 :> c2)]
B3(c1, c2, c3) == [n |-> 3, cut |-> (0 :> 0 @@ 1 :> c1 @@ 2 :> c2 @@ 3 :> c3)]

\* No answer; one answer without spots; one with two; spots on one answer of
\* two only, in either place; three answers, more than a block of answers and
\* more than a block of spots.
AllBatches == {[n |-> 0, cut |-> (0 :> 0)], B1(0), B1(2), B2(0, 1), B2(1, 1),
               B3(1, 1, 3)}

\* Without and with spots, below and above a block.
FewBatches == {B1(0), B1(1), B3(1, 1, 3)}

\* Without spots, all in the buffer; with spots, more than a block of both.
TwoBatches == {B1(0), B3(1, 1, 3)}

\* The code turns 0 into 1; the third answer may be the last of a dead query.
Starts == {0, 2, 3}
Sizes  == {1, 3}
NoStart == {}

\* One page, of one answer: where it is the writers that matter.
OneStart == {3}
OneSize  == {1}

Symmetry == Permutations(Workers)
=============================================================================
