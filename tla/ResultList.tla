----------------------------- MODULE ResultList -----------------------------
(***************************************************************************)
(* What the result cache of a session promises: a list of answers, each    *)
(* with the spots its own query found, that grows at its end by the whole  *)
(* result of one query at a time and that can be emptied.                  *)
(***************************************************************************)
EXTENDS Integers, Sequences

CONSTANTS Batches, MaxQueries

VARIABLES list, next

Entry(q, b, a) ==
    [q |-> q, rank |-> a,
     spots |-> [k \in 1..(b.cut[a] - b.cut[a - 1])
                  |-> [q |-> q, p |-> b.cut[a - 1] + k]]]

Init == list = << >> /\ next = 1

\* A query is numbered when it begins; it may never give its answers.
Begin == /\ next <= MaxQueries
         /\ next' = next + 1
         /\ UNCHANGED list

Add == \E b \in Batches, q \in 1..(next - 1) :
          /\ \A i \in DOMAIN list : list[i].q # q
          /\ list' = list \o [a \in 1..b.n |-> Entry(q, b, a)]
          /\ UNCHANGED next

Forget == list' = << >> /\ UNCHANGED next

Next == Begin \/ Add \/ Forget

Spec == Init /\ [][Next]_<<list, next>>
=============================================================================
