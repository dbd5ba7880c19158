---------------------------- MODULE MCQueryTree ----------------------------
(* Instances of QueryTree for TLC.                                         *)
EXTENDS QueryTree

\* Four records of two collections and a fifth one that the user may not see,
\* of a collection that the query did not ask for.  The fourth has no sort
\* field; "9" and "10" are in a different order as strings and as numbers.
AllRids    == 1..5
SeenRids   == 1..4
Props      == <<"9", "10", "9", NoProp, "10">>
Shas       == <<{1}, {2}, {2}, {1}, {2}>>
Cids       == <<10, 20, 10, 20, 30>>
Bids       == (10 :> 1 @@ 20 :> 2)
AlphaRanks == ("10" :> 1 @@ "9" :> 2)
Numbers    == ("10" :> 10 @@ "9" :> 9)

\* Words found at some places of some records; a field found without place.
Row(places) == [hits  |-> {[iws |-> places[i], iwe |-> places[i]] : i \in DOMAIN places},
                spots |-> places]

MCLeaves ==
    [A    |-> [kind |-> "found",
               rows |-> 1 :> Row(<<1>>) @@ 2 :> Row(<<1, 5>>) @@ 4 :> Row(<<3>>)],
     B    |-> [kind |-> "found",
               rows |-> 1 :> Row(<<2>>) @@ 2 :> Row(<<4>>) @@ 3 :> Row(<<1>>) @@ 4 :> Row(<<4>>)],
     F    |-> [kind |-> "found", rows |-> 3 :> Row(<< >>) @@ 4 :> Row(<< >>)],
     none |-> [kind |-> "none"],
     same |-> [kind |-> "tuples"],
     all  |-> [kind |-> "all", n |-> 0],
     allneg |-> [kind |-> "all", n |-> -1],
     all2 |-> [kind |-> "all", n |-> 2],
     last0 |-> [kind |-> "last", n |-> 0],
     last2 |-> [kind |-> "last", n |-> 2]]

Names == DOMAIN MCLeaves
Deep  == {"A", "B", "same"}
Types == {"AND", "OR", "EXCEPT", "BEFORE"}

\* Every tree of one node or of one operator, and trees of two operators over
\* fewer leaves: any operator on the left of EXCEPT or BEFORE, or on the right
\* of EXCEPT or OR.
MCQueries ==
    {<<a>> : a \in Names}
    \cup {<<a, b, t>> : a, b \in Names, t \in Types}
    \cup {<<a, b, t, c, u>> : a, b, c \in Deep, t \in Types, u \in {"EXCEPT", "BEFORE"}}
    \cup {<<a, b, c, t, u>> : a, b, c \in Deep, t \in Types, u \in {"EXCEPT", "OR"}}
=============================================================================
