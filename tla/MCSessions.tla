----------------------------- MODULE MCSessions -----------------------------
(* Instances of Sessions for TLC.                                          *)
EXTENDS Sessions, TLC

CONSTANTS w1, w2

R(base_id, sbas_id, coll_id) ==
    [base_id |-> base_id, sbas_id |-> sbas_id, coll_id |-> coll_id]

\* Two databoxes and three, one with two collections.  Two of them number a
\* collection alike; the second box of FourRows has lost one collection.
ThreeRows == <<R(1, 11, 1), R(2, 12, 1), R(3, 12, 2)>>
FourRows  == <<R(1, 11, 1), R(2, 12, 1), R(3, 12, 2), R(4, 13, 1)>>

ThreeColls == {<<11, 1>>, <<12, 1>>, <<12, 2>>}
FourColls  == {<<11, 1>>, <<12, 2>>, <<13, 1>>}

Symmetry == Permutations(Workers)
=============================================================================
