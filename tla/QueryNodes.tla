------------------------------ MODULE QueryNodes ------------------------------
(***************************************************************************)
(* The nodes of a query: what qtree2tree makes of the PHP array given to    *)
(* phrasea_query2, and what freetree gives back at its end.  Both are       *)
(* recursive and choose by the type of the node, each in a switch of its    *)
(* own; nothing else says which types have branches.                        *)
(*                                                                         *)
(* A value of PHP is a record: "long" (n), "other", or "array" with its type *)
(* (the long at index 0, NoType without one) and the values at 1, 2, ...     *)
(* The recursion is a list of what is left to do.                            *)
(***************************************************************************)
EXTENDS Integers, Sequences, FiniteSets

CONSTANTS
    Arrays,  \* values given as queries
    NoType

VARIABLES
    array,   \* the argument
    noCache, \* the argument: the result is not written
    pc,      \* "build", "free", "done"; "segfault" when NULL is read
    todo,    \* calls in progress and still to make, the next one first
    nodes,   \* CNODEs made, by order of creation; branches are numbers, 0 for NULL
    root,    \* the tree
    freed    \* what was given back, in order

vars == <<array, noCache, pc, todo, nodes, root, freed>>

Leaf      == {"ALL", "LAST"}
Binary    == {"AND", "OR", "EXCEPT", "IN", "COLON", "EQUAL", "NOTEQU", "GT", "LT", "GEQT", "LEQT"}
Proximity == {"NEAR", "BEFORE", "AFTER"}

DEFAULTLAST == 12

\* What an array holds are values too, one after another.
ArraysOK == \A value \in Arrays : value.is = "array" => value.args \in Seq(Arrays)

\* A call of qtree2tree, for a branch of a node (0: the tree itself); the sum of
\* nleaf once both branches of a node are made; a call of freetree; its delete.
Build(value, parent, side) == [do |-> "build", value |-> value, node |-> parent, side |-> side]
Join(node)   == [do |-> "join", node |-> node]
Free(node)   == [do |-> "free", node |-> node]
Delete(node) == [do |-> "delete", node |-> node]

Init ==
    /\ array \in Arrays /\ noCache \in BOOLEAN
    /\ pc = "build"
    /\ todo = <<Build(array, 0, "l")>>
    /\ nodes = << >>
    /\ root = 0
    /\ freed = << >>

-----------------------------------------------------------------------------
(* qtree2tree                                                              *)

IsTyped(value) == value.is = "array" /\ value.type # NoType

\* A type that qtree2tree does not know: the CNODE is deleted at once, and NULL
\* returned.  PHRASEA_OP_NULL and PHRASEA_KW_FIRST are two of them.
IsUnknown(value) ==
    IsTyped(value) /\ value.type \notin {"KEYLIST"} \cup Leaf \cup Binary \cup Proximity

\* zend_hash_index_find finds it, and it is a long.
LongAt(value, i) == i \in DOMAIN value.args /\ value.args[i].is = "long"

\* The strings of a keyword list end at the first value that is none.
Words(value) ==
    Cardinality({i \in DOMAIN value.args : \A j \in 1..i : value.args[j].is = "string"})

\* Where the branches of an operator are.
FirstBranch(value) == IF value.type \in Proximity /\ LongAt(value, 1) THEN 2 ELSE 1

HasBranches(value) ==
    /\ IsTyped(value) /\ value.type \in Binary \cup Proximity
    /\ FirstBranch(value) + 1 \in DOMAIN value.args

NodeOf(value) ==
    LET type == IF IsTyped(value) THEN value.type ELSE "NULL"
    IN  [type    |-> type,
         words   |-> IF type = "KEYLIST" THEN Words(value) ELSE 0,
         numparm |-> CASE type \in Leaf \cup Proximity /\ LongAt(value, 1) -> value.args[1].n
                       [] type = "LAST" /\ ~LongAt(value, 1) -> DEFAULTLAST
                       [] type \in Proximity /\ ~LongAt(value, 1) -> 12
                       [] OTHER -> 0,
         nleaf   |-> IF type \in Leaf THEN 1 ELSE 0,
         l |-> 0, r |-> 0]

\* n becomes the branch the call was made for.
Hang(made, call, n) ==
    IF call.node = 0 THEN made
    ELSE IF call.side = "l" THEN [made EXCEPT ![call.node].l = n]
    ELSE [made EXCEPT ![call.node].r = n]

\* A call: the node is made and the calls for its branches come next.
Qtree2tree ==
    /\ pc = "build" /\ todo # << >> /\ Head(todo).do = "build"
    /\ LET call  == Head(todo)
           value == call.value
           n     == IF IsUnknown(value) THEN 0 ELSE Len(nodes) + 1
           i     == FirstBranch(value)
       IN  /\ nodes' = IF n = 0 THEN nodes ELSE Hang(Append(nodes, NodeOf(value)), call, n)
           /\ root' = IF call.node = 0 THEN n ELSE root
           /\ todo' = IF HasBranches(value)
                      THEN <<Build(value.args[i], n, "l"), Build(value.args[i + 1], n, "r"),
                             Join(n)>> \o Tail(todo)
                      ELSE Tail(todo)
    /\ UNCHANGED <<array, noCache, pc, freed>>

\* nleaf = l->nleaf + r->nleaf, whether there is an l and an r or not.
AddLeaves ==
    /\ pc = "build" /\ todo # << >> /\ Head(todo).do = "join"
    /\ LET n == Head(todo).node
           l == nodes[n].l
           r == nodes[n].r
       IN  IF l = 0 \/ r = 0
           THEN pc' = "segfault" /\ UNCHANGED <<nodes, todo>>
           ELSE /\ nodes' = [nodes EXCEPT ![n].nleaf = nodes[l].nleaf + nodes[r].nleaf]
                /\ todo' = Tail(todo) /\ UNCHANGED pc
    /\ UNCHANGED <<array, noCache, root, freed>>

\* The query is evaluated (querytree2 returns at once for NULL), its answers are
\* counted to be written, and the tree is freed.
Evaluated ==
    /\ pc = "build" /\ todo = << >>
    /\ IF root = 0 /\ ~noCache
       THEN pc' = "segfault" /\ UNCHANGED todo
       ELSE pc' = "free" /\ todo' = <<Free(root)>>
    /\ UNCHANGED <<array, noCache, nodes, root, freed>>

-----------------------------------------------------------------------------
(* freetree                                                                *)

\* Mutant of Freed: IN is forgotten too.
FreedNotIn == (Binary \ {"COLON", "IN"}) \cup Proximity

\* The types whose branches freetree frees: COLON is not among them.
Freed == (Binary \ {"COLON"}) \cup Proximity

\* The words of a list, then the branches, then the node.
Freetree ==
    /\ pc = "free" /\ todo # << >> /\ Head(todo).do = "free"
    /\ LET n == Head(todo).node
       IN  IF n = 0 THEN todo' = Tail(todo) /\ UNCHANGED freed
           ELSE /\ freed' = freed \o [i \in 1..nodes[n].words |-> <<n, i>>]
                /\ todo' = (IF nodes[n].type \in Freed
                            THEN <<Free(nodes[n].l), Free(nodes[n].r), Delete(n)>>
                            ELSE <<Delete(n)>>) \o Tail(todo)
    /\ UNCHANGED <<array, noCache, pc, nodes, root>>

DeleteNode ==
    /\ pc = "free" /\ todo # << >> /\ Head(todo).do = "delete"
    /\ freed' = Append(freed, <<Head(todo).node, 0>>)
    /\ todo' = Tail(todo)
    /\ UNCHANGED <<array, noCache, pc, nodes, root>>

Return ==
    /\ pc = "free" /\ todo = << >>
    /\ pc' = "done"
    /\ UNCHANGED <<array, noCache, todo, nodes, root, freed>>

Next == Qtree2tree \/ AddLeaves \/ Evaluated \/ Freetree \/ DeleteNode \/ Return

Spec == Init /\ [][Next]_vars

-----------------------------------------------------------------------------
(* Properties                                                              *)

\* A node and its words.
Memory(n) == {<<n, i>> : i \in 0..nodes[n].words}

\* The nodes under n; a branch is made after its node.
Under(n) ==
    LET below[k \in 1..Len(nodes)] ==
            k = n \/ \E m \in 1..(k - 1) : below[m] /\ k \in {nodes[m].l, nodes[m].r}
    IN  {k \in 1..Len(nodes) : below[k]}

\* What hangs from a ":" is not given back until the worker ends.
Lost ==
    UNION {Under(nodes[n].l) \cup Under(nodes[n].r) :
              n \in {n \in 1..Len(nodes) : nodes[n].type = "COLON"}}

\* The values that stand for branches.
Branches(value) ==
    IF HasBranches(value)
    THEN {value.args[FirstBranch(value)], value.args[FirstBranch(value) + 1]} ELSE {}

\* A branch that qtree2tree reaches has a type it does not know.  The values above it
\* were made nodes, so it is no deeper than there are nodes.
HasUnknown ==
    LET level[d \in 0..Len(nodes)] ==
            IF d = 0 THEN {array} ELSE UNION {Branches(value) : value \in level[d - 1]}
    IN  \E d \in 1..Len(nodes) : \E value \in level[d] : IsUnknown(value)

\* The arrays the call does not survive: a branch of unknown type, whose leaves are
\* added through NULL, or an unknown type at the top, when the result is written.
Fatal == HasUnknown \/ (IsUnknown(array) /\ ~noCache)

\* TreeGivenBack: whatever array PHP gives, malformed or not, the two switches agree but
\* for ":": when phrasea_query2 returns, each node and each word that was made
\* has been freed (but what hangs from a ":"), and none twice.  The call dies for the
\* arrays of Fatal, however deep the branch is, and for no other.
TreeGivenBack ==
    /\ \A i, j \in DOMAIN freed : freed[i] = freed[j] => i = j
    /\ pc = "done" =>
          {freed[i] : i \in DOMAIN freed} = UNION {Memory(n) : n \in (1..Len(nodes)) \ Lost}
    /\ pc = "segfault" => Fatal
    /\ pc = "done" => ~Fatal
=============================================================================
