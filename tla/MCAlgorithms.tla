---------------------------- MODULE MCAlgorithms ----------------------------
(***************************************************************************)
(* Algorithms for TLC: the one that runs takes any of a few inputs, the      *)
(* others stay at the start of their least one.                             *)
(***************************************************************************)
EXTENDS Algorithms

-----------------------------------------------------------------------------
(* AnswerMerge                                                             *)

H(iws, iwe) == [iws |-> iws, iwe |-> iwe]

\* An answer of "all"; one of a word found once; one of a word found twice
\* at places 1 and 4; one of a nested proximity, of "sha256=sha256".
FewContents ==
    {[sha |-> FALSE, hits |-> {}, spots |-> << >>],
     [sha |-> FALSE, hits |-> {H(2, 2)}, spots |-> <<<<5, 3>>>>],
     [sha |-> TRUE, hits |-> {H(1, 1), H(4, 6)}, spots |-> <<<<1, 3>>, <<5, 3>>>>]}

-----------------------------------------------------------------------------
(* Highlight                                                               *)

\* No spot, or up to three different ones in any order, of one byte or more, in a
\* text of three bytes: some touch, some overlap.  One was found when the text
\* was longer.
Spots == {[start |-> a, len |-> l] : a \in 0..2, l \in 1..3}

SpotLists ==
    {<< >>, <<[start |-> 2, len |-> 4]>>}
    \cup {list \in UNION {[1..n -> {spot \in Spots : spot.start + spot.len <= 3}] : n \in 1..3} :
             \A i, j \in DOMAIN list : list[i] = list[j] => i = j}

\* A mark of each; a longer one and one; one that is empty; none.
Marks == {<<<<-1>>, <<-2>>>>, <<<<-1, -3>>, <<-2>>>>, <<<< >>, <<-2>>>>, <<<<-1>>, << >>>>,
          <<NoMark, NoMark>>}

SomeInputs == {[length |-> 3, spots |-> list, markin |-> m[1], markout |-> m[2]] :
             list \in SpotLists, m \in Marks}

-----------------------------------------------------------------------------
(* Utf8Convert, "LCND"                                                     *)

\* "A"; two continuation bytes; lead bytes of two, three, four, five and eight
\* bytes: every string of up to four of these.
SomeBytes == {65, 137, 186, 195, 200, 224, 228, 240, 248, 255}

SomeStrings == UNION {[1..n -> SomeBytes] : n \in 0..4}

Lower == [c \in 0..127 |-> IF c \in 65..90 THEN c + 32 ELSE c]

\* The cells for the codes made of these bytes; the others as if unchanged.
Plain ==
    [x \in 128..2047 |->
        CASE x = 201 -> <<101>>                \* e acute
          [] x = 250 -> <<117>>                \* u acute
          [] x = 521 -> <<105>>                \* i with double grave
          [] x = 570 -> <<226, 177, 165>>      \* A with stroke
          [] x = 265 -> <<99>>
          [] x = 314 -> <<108>>
          [] x = 1033 -> <<209, 153>>
          [] OTHER -> <<192 + (x \div 64), 128 + (x % 64)>>]

-----------------------------------------------------------------------------
(* SessionBlob                                                             *)

Coll(name) == [coll_id |-> 0, base_id |-> 5, name |-> name, prefs |-> << >>]

\* Strings that leave one byte, or none, in the last long.
Names == {<< >>, <<7>>, <<7, 8>>, <<7, 8, 9>>}

CollLists ==
    {<< >>} \cup {<<Coll(n)>> : n \in Names} \cup {<<Coll(n), Coll(<<7, 8>>)>> : n \in Names}

Base(viewname, host, passwd, xmlstruct, colls) ==
    [base_id |-> 1, sbas_id |-> 2, viewname |-> viewname, host |-> host, port |-> 0,
     user |-> <<7>>, passwd |-> passwd, dbname |-> viewname, xmlstruct |-> xmlstruct,
     colls |-> colls]

Databoxes ==
    {Base(v, host, w, x, colls) : v \in {<<7>>, <<7, 8>>}, host \in Names,
                                  w \in {<< >>, <<7, 8, 9>>}, x \in {NULL, <<7>>},
                                  colls \in CollLists}

SomeSessions ==
    {[session_id |-> 3, bases |-> l] :
        l \in {<< >>} \cup {<<b>> : b \in Databoxes}
              \cup {<<b, Base(<<7>>, <<7, 8, 9>>, << >>, NULL, <<Coll(<<7>>)>>)>> : b \in Databoxes}}

-----------------------------------------------------------------------------
(* QueryNodes                                                              *)

Is(kind) == [is |-> kind, n |-> 3]
Array(op, args) == [is |-> "array", type |-> op, args |-> args]

\* What may stand for a leaf: words, one of them after a long, an array without type,
\* PHRASEA_KW_FIRST, an operator that lacks a branch.
Least ==
    {Is("string"), Array("KEYLIST", <<Is("string"), Is("string")>>), Array("LAST", <<Is("long")>>),
     Array("FIRST", << >>)}
LeafArrays ==
    Least \cup {Is("long"), Array("KEYLIST", << >>), Array("LAST", << >>), Array("ALL", << >>),
                Array("KEYLIST", <<Is("string"), Is("long"), Is("string")>>),
                Array(NoType, <<Is("string"), Is("string")>>), Array("AND", <<Is("string")>>)}

SomeTypes == {"AND", "COLON", "IN", "NEAR"}

\* An operator with two branches; three values for a proximity and its distance.
Over(S, T) == {Array(op, <<a, b>>) : op \in SomeTypes, a \in S, b \in T}
                 \cup {Array(op, <<Is("long"), a, b>>) : op \in {"OR", "NEAR"}, a \in S, b \in T}

Deeper == Over(Least, Least)

SomeArrays == LeafArrays \cup Over(LeafArrays, LeafArrays) \cup Over(Least, Deeper)
             \cup Over(Deeper, Least)

-----------------------------------------------------------------------------
\* TLC evaluates a definition once, but what a constant is given each time: the
\* constants are given names.
FewInputs   == SomeInputs
FewStrings  == SomeStrings
LowerCase   == Lower
NoAccents   == Plain
FewSessions == SomeSessions
FewArrays   == SomeArrays

-----------------------------------------------------------------------------
\* The one that runs takes any of its inputs, the others their least one.
MCInit ==
    /\ unit \in Units
    /\ unit = "merge" \/ (type = "AND" /\ left = {} /\ right = {})
    /\ unit = "highlight"
       \/ hl_input = [length |-> 3, spots |-> << >>, markin |-> NoMark, markout |-> NoMark]
    /\ unit = "utf8" \/ u8_str = << >>
    /\ unit = "blob" \/ sb_saved = [session_id |-> 3, bases |-> << >>]
    /\ unit = "nodes" \/ (qn_array = Is("string") /\ qn_noCache = FALSE)
    /\ Init /\ HL!Init /\ U8!Init /\ SB!Init /\ QN!Init

\* PHP runs the call to its end.
MCSpec == MCInit /\ [][AllNext]_allvars /\ WF_allvars(AllNext)
=============================================================================
