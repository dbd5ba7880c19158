----------------------------- MODULE QueryTree -----------------------------
(***************************************************************************)
(* One call of phrasea_query2, from the tree of the query to the list of   *)
(* answers it writes: the evaluation of the nodes by querytree2, with the   *)
(* sort field that a node may cancel for those after it, the choice of a    *)
(* comparator, the sort, and the local collection of each answer.          *)
(*                                                                         *)
(* querytree2 evaluates the left branch of a node, then the right one, then *)
(* the operator: the tree is given in postfix order, and `stack' holds the  *)
(* answers of the nodes whose parent is still to come.  A node that lacks a *)
(* branch evaluates neither and has no answer: it is a leaf "none" here.    *)
(***************************************************************************)
EXTENDS AnswerAlgebra, FiniteSets

CONSTANTS
    Leaves,    \* what each leaf stands for
    Queries,   \* trees in postfix order: leaves and operators
    Prox,      \* the number of words of a proximity operator
    Rids,      \* records of the databox
    Visible,   \* those that _tmpmask, the status mask and the mode let through
    Prop,      \* Prop[rid]: property of the sort field, or NoProp
    Sha,       \* Sha[rid]: {} for a NULL sha256, or {its rank}
    Cid,       \* Cid[rid]: collection in the databox
    BidOf,     \* local base of each collection of the query (t_cid2bid)
    Alpha,     \* rank of a property as a string
    Number,    \* the number a property starts with (atoll)
    Garbage,   \* what an uninitialised sortkey.l may hold
    NoProp, NoKey

Kinds == {"none", "found", "all", "last", "tuples"}

ASSUME QueryAssumption ==
    /\ Queries \subseteq Seq(DOMAIN Leaves \cup Operators)
    /\ \A name \in DOMAIN Leaves :
          /\ Leaves[name].kind \in Kinds
          /\ Leaves[name].kind \in {"all", "last"} => Leaves[name].n \in Int

ASSUME DataboxAssumption ==
    /\ Rids \subseteq Int /\ IsFiniteSet(Rids)
    /\ Visible \subseteq Rids
    /\ \A rid \in Rids : Prop[rid] # NoProp =>
          Alpha[Prop[rid]] \in Int /\ Number[Prop[rid]] \in Int
    /\ \A rid \in Rids : Sha[rid] \subseteq Int /\ \A x, y \in Sha[rid] : x = y
    /\ \A cid \in DOMAIN BidOf : BidOf[cid] \in Int \ {0}
    /\ Garbage \subseteq Int
    /\ NoKey \notin Int

\* The ninth argument of phrasea_query2: nothing, or a field after "+" or "-"
\* and "0" for a number.
Sorts == {[field |-> FALSE, sign |-> "", zero |-> FALSE]}
            \cup [field : {TRUE}, sign : {"", "+", "-"}, zero : BOOLEAN]

VARIABLES
    query,       \* the tree
    sort,        \* the ninth argument
    noCache,     \* the seventh
    pc,          \* what the call does
    rest,        \* nodes still to evaluate
    joined,      \* *psortField is set: a leaf reads the sort key
    stack,       \* answers of the evaluated nodes without parent yet
    plain,       \* history: the same without sort field
    comparator,  \* the order of the result
    keys,        \* the sort keys it reads
    pending,     \* answers still to sort
    sorted,      \* answers in order
    written      \* what goes to the answers file

vars == <<query, sort, noCache, pc, rest, joined, stack, plain, comparator,
          keys, pending, sorted, written>>

Init ==
    /\ query \in Queries
    /\ sort \in Sorts
    /\ noCache \in BOOLEAN
    /\ pc = "eval"
    /\ rest = query
    /\ joined = sort.field
    /\ stack = << >>
    /\ plain = << >>
    /\ comparator = "rid_desc"
    /\ keys = << >>
    /\ pending = {}
    /\ sorted = << >>
    /\ written = << >>

Evaluated == <<query, sort, noCache, rest, joined, stack, plain>>

-----------------------------------------------------------------------------
(* Leaves                                                                  *)

\* INNER JOIN prop ... WHERE prop.name = the sort field.
HasKey(rid) == Prop[rid] # NoProp

Searched(key) == {rid \in Visible : key => HasKey(rid)}

\* The sets of n records that ORDER BY ... DESC LIMIT n may return.
Tops(n, S, Rank(_)) ==
    {T \in SUBSET S :
        /\ Cardinality(T) = IF Cardinality(S) < n THEN Cardinality(S) ELSE n
        /\ \A t \in T, s \in S \ T : Rank(t) >= Rank(s)}

\* Mutant of LastRows: the limit is put after the join with prop.
LastRowsJoined(n, key) == Tops(n, Searched(key), LAMBDA rid : rid)

\* LAST n: the join with prop is made on the last n records.
LastRows(n, key) ==
    IF n <= 0 THEN {{}}
    ELSE {Searched(key) \cap T : T \in Tops(n, Visible, LAMBDA rid : rid)}

\* What the SQL of a leaf may return; key: it reads the sort key.
Rows(leaf, key) ==
    CASE leaf.kind = "none" -> {{}}
      [] leaf.kind = "found" -> {Searched(key) \cap DOMAIN leaf.rows}
      [] leaf.kind = "all" ->
            IF leaf.n = 0 THEN {Searched(key)}
            ELSE IF leaf.n < 0 THEN {{}}    \* LIMIT refuses it
            ELSE IF key THEN Tops(leaf.n, Searched(TRUE), LAMBDA rid : Alpha[Prop[rid]])
            ELSE Tops(leaf.n, Visible, LAMBDA rid : rid)
      [] leaf.kind = "last" -> LastRows(leaf.n, key)
      [] leaf.kind = "tuples" ->
            {{rid \in Rids : \E a, b \in Visible :
                 a # b /\ Sha[rid] # {} /\ Sha[a] = Sha[rid] /\ Sha[b] = Sha[rid]}}

\* The key of an answer whose leaf reads it.
KeyRead(rid) == IF sort.zero THEN Number[Prop[rid]] ELSE Alpha[Prop[rid]]

\* The answer phrasea_query makes of a row.
AnswerOf(leaf, rid, key) ==
    [key   |-> IF key THEN KeyRead(rid) ELSE NoKey,
     sha   |-> IF leaf.kind = "tuples" THEN Sha[rid] ELSE {},
     hits  |-> IF leaf.kind = "found" THEN leaf.rows[rid].hits ELSE {},
     spots |-> IF leaf.kind = "found" THEN leaf.rows[rid].spots ELSE << >>]

\* Mutant of ReadsKey: "last" does not select the sort key.
ReadsKeyNotLast(leaf) == joined /\ leaf.kind \notin {"tuples", "last"}

\* The SQL of this leaf selects the sort key; sha256=sha256 cancels it.
ReadsKey(leaf) == joined /\ leaf.kind # "tuples"

Leaf ==
    /\ pc = "eval" /\ rest # << >> /\ Head(rest) \in DOMAIN Leaves
    /\ LET leaf == Leaves[Head(rest)]
           key  == ReadsKey(leaf)
       IN  /\ \E rows \in Rows(leaf, key) :
                 stack' = Append(stack, [rid \in rows |-> AnswerOf(leaf, rid, key)])
           /\ \E rows \in Rows(leaf, FALSE) :
                 plain' = Append(plain, [rid \in rows |-> AnswerOf(leaf, rid, FALSE)])
           /\ joined' = (joined /\ leaf.kind # "tuples")
    /\ rest' = Tail(rest)
    /\ UNCHANGED <<query, sort, noCache, pc, comparator, keys, pending, sorted, written>>

-----------------------------------------------------------------------------
(* Operators                                                               *)

Operator ==
    /\ pc = "eval" /\ rest # << >> /\ Head(rest) \in Operators
    /\ Len(stack) >= 2
    /\ LET n    == Len(stack) - 1
           type == Head(rest)
           Node(s) == Append(SubSeq(s, 1, n - 1), Combine(type, Prox, s[n], s[n + 1]))
       IN  stack' = Node(stack) /\ plain' = Node(plain)
    /\ rest' = Tail(rest)
    /\ UNCHANGED <<query, sort, noCache, pc, joined, comparator, keys, pending, sorted, written>>

-----------------------------------------------------------------------------
(* The sort                                                                *)

\* The answers of the tree.
Root == stack[1]

FieldComparators == {"str_asc", "str_desc", "int_asc", "int_desc"}

SortOrder(sign) == IF sign = "+" THEN -1 ELSE 1

\* The multiset the answers are inserted into, or none ("rid_desc").
Chosen ==
    IF \E rid \in DOMAIN Root : Root[rid].sha # {} THEN "sha"
    ELSE IF ~sort.field THEN "rid_desc"
    ELSE IF sort.zero
         THEN IF SortOrder(sort.sign) >= 0 THEN "int_asc" ELSE "int_desc"
         ELSE IF SortOrder(sort.sign) >= 0 THEN "str_asc" ELSE "str_desc"

\* The constructor of an answer sets sortkey.s to NULL and leaves sortkey.l.
KeyValues(rid) ==
    IF sort.zero /\ Root[rid].key = NoKey THEN Garbage ELSE {Root[rid].key}

\* Counting the answers, choosing the order; nothing more if noCache.
Count ==
    /\ pc = "eval" /\ rest = << >> /\ Len(stack) = 1
    /\ IF noCache
       THEN pc' = "done" /\ UNCHANGED <<comparator, keys, pending>>
       ELSE /\ pc' = "sort" /\ comparator' = Chosen /\ pending' = DOMAIN Root
            /\ \E values \in [DOMAIN Root -> Garbage \cup {Root[rid].key : rid \in DOMAIN Root}] :
                  /\ \A rid \in DOMAIN Root : values[rid] \in KeyValues(rid)
                  /\ keys' = values
    /\ UNCHANGED <<Evaluated, sorted, written>>

\* What a comparison reads through a pointer is there.
Comparable(rid) ==
    CASE comparator = "sha" -> Root[rid].sha # {}
      [] comparator \in {"str_asc", "str_desc"} -> keys[rid] # NoKey
      [] OTHER -> TRUE

\* Mutant of Before: equal answers go before each other.
BeforeOrEqual(a, b) ==
    CASE comparator = "int_asc"  -> keys[a] >= keys[b]
      [] comparator = "int_desc" -> keys[a] <= keys[b]
      [] OTHER -> FALSE

\* The comparators.
Before(a, b) ==
    CASE comparator = "sha"      -> \E x \in Root[a].sha, y \in Root[b].sha : x > y
      [] comparator = "str_asc"  -> keys[a] < keys[b]
      [] comparator = "str_desc" -> keys[a] > keys[b]
      [] comparator = "int_asc"  -> keys[a] > keys[b]
      [] comparator = "int_desc" -> keys[a] < keys[b]
      [] OTHER -> FALSE

\* Mutant of Insert: a set in place of a multiset.
InsertUnique(rid) ==
    IF \E i \in DOMAIN sorted : ~Before(rid, sorted[i]) /\ ~Before(sorted[i], rid)
    THEN sorted ELSE Append(sorted, rid)

\* multiset::insert: after those it is not before.
Insert(rid) ==
    LET after == {i \in 1..Len(sorted) : ~Before(rid, sorted[i])}
    IN  InsertAt(sorted, Cardinality(after) + 1, rid)

\* The next answer of the root, by descending rid, is inserted.  The first one
\* is compared with nothing; a comparison through NULL ends the call.
Sort ==
    /\ pc = "sort"
    /\ \E rid \in pending :
          /\ \A other \in pending : rid >= other
          /\ pending' = pending \ {rid}
          /\ IF sorted = << >> \/ (Comparable(rid) /\ \A i \in DOMAIN sorted : Comparable(sorted[i]))
             THEN sorted' = Insert(rid) /\ UNCHANGED pc
             ELSE pc' = "segfault" /\ UNCHANGED sorted
    /\ UNCHANGED <<Evaluated, comparator, keys, written>>

-----------------------------------------------------------------------------
(* The result                                                              *)

\* Mutant of LocalBid: what the map creates for an unknown key is kept.
LocalBidZero(cid) == IF cid \in DOMAIN BidOf THEN BidOf[cid] ELSE 0

\* t_cid2bid[cid], or -1 when that is 0.
LocalBid(cid) == IF cid \in DOMAIN BidOf THEN BidOf[cid] ELSE -1

\* Mutant of CurrentBid: current_cid is not set.
CurrentBidStale(rid) ==
    IF written # << >> THEN Last(written).bid ELSE LocalBid(Cid[rid])

\* current_bid: looked up when the collection is not that of the answer before.
CurrentBid(rid) ==
    IF written # << >> /\ Cid[Last(written).rid] = Cid[rid]
    THEN Last(written).bid ELSE LocalBid(Cid[rid])

Write ==
    /\ pc = "sort" /\ pending = {}
    /\ IF Len(written) < Len(sorted)
       THEN LET rid == sorted[Len(written) + 1]
            IN  /\ written' = Append(written, [rid |-> rid, bid |-> CurrentBid(rid)])
                /\ UNCHANGED pc
       ELSE pc' = "done" /\ UNCHANGED written
    /\ UNCHANGED <<Evaluated, comparator, keys, pending, sorted>>

Next == Leaf \/ Operator \/ Count \/ Sort \/ Write

Spec == Init /\ [][Next]_vars

-----------------------------------------------------------------------------
(* Properties                                                              *)

Keys == Int \cup {NoKey}

AnswerOk(rid, a) ==
    /\ DOMAIN a = {"key", "sha", "hits", "spots"}
    /\ a.key \in Keys
    /\ a.sha \in {{}, Sha[rid]}

TypeOK ==
    /\ sort \in Sorts /\ noCache \in BOOLEAN /\ joined \in BOOLEAN
    /\ pc \in {"eval", "sort", "done", "segfault"}
    /\ comparator \in FieldComparators \cup {"sha", "rid_desc"}
    /\ rest \in Seq(DOMAIN Leaves \cup Operators)
    /\ stack \in Seq(Range(stack)) /\ plain \in Seq(Range(plain)) /\ Len(stack) = Len(plain)
    /\ \A i \in 1..Len(stack) :
          /\ DOMAIN stack[i] \subseteq Rids /\ DOMAIN plain[i] \subseteq Rids
          /\ \A rid \in DOMAIN stack[i] : AnswerOk(rid, stack[i][rid])
          /\ \A rid \in DOMAIN plain[i] : AnswerOk(rid, plain[i][rid])
    /\ \A rid \in DOMAIN keys : keys[rid] \in Keys
    /\ pending \subseteq Rids
    /\ sorted \in Seq(Rids)
    /\ written \in Seq([rid : Rids, bid : Int \ {0}])

LeavesOf(q) == {Leaves[q[i]] : i \in {k \in DOMAIN q : q[k] \in DOMAIN Leaves}}

\* The query searches for duplicates.
Tuples == \E leaf \in LeavesOf(query) : leaf.kind = "tuples"

\* A leaf of the query is limited by the sort key.
Limited == \E leaf \in LeavesOf(query) : leaf.kind = "all" /\ leaf.n # 0

\* SortOnlyHides: asking for a sort does not change what a query finds, except
\* for the records without the sort field, which are not found: at any node,
\* below any operators, unless a leaf cancels the sort or is limited by it.
SortOnlyHides ==
    ~Tuples /\ ~Limited =>
        \A i \in 1..Len(stack) :
            DOMAIN stack[i] = {rid \in DOMAIN plain[i] : sort.field => HasKey(rid)}

\* SortHasKeys: without "sha256=sha256" no comparison reads a missing key:
\* the answers of the root have the one of the order chosen, whatever branches
\* they come from.
SortHasKeys == ~Tuples => pc # "segfault"

\* The documented order of two numbers, ties by record_id.
Numbered(a, b) ==
    LET ka == Number[Prop[a]]
        kb == Number[Prop[b]]
    IN  IF ka = kb THEN a > b
        ELSE IF sort.sign = "+" THEN ka < kb ELSE ka > kb

\* NumericAsDocumented: "0FieldName" and "-0FieldName" sort by descending number,
\* "+0FieldName" by ascending number, and nothing by descending record_id;
\* records with the same number keep the order of their record_id.
NumericAsDocumented ==
    pc = "done" /\ ~noCache /\ ~Tuples =>
        \A i, j \in DOMAIN written : i < j =>
            LET a == written[i].rid
                b == written[j].rid
            IN  /\ ~sort.field => a > b
                /\ sort.field /\ sort.zero => Numbered(a, b)

\* WholeResult: what is written is the result of the tree, each record once.
WholeResult ==
    pc = "done" /\ ~noCache =>
        /\ {written[i].rid : i \in DOMAIN written} = DOMAIN Root
        /\ Len(written) = Cardinality(DOMAIN Root)

\* OwnBase: an answer is written with the local base of its own collection, in
\* any order of the result, and with -1 when the query did not ask for it.
OwnBase == \A i \in DOMAIN written : written[i].bid = LocalBid(Cid[written[i].rid])

\* SameTogether: duplicates are written one next to the other.
SameTogether ==
    pc = "done" /\ comparator = "sha" =>
        \A i, j, k \in DOMAIN written :
            i < j /\ j < k /\ Sha[written[i].rid] = Sha[written[k].rid]
                => Sha[written[j].rid] = Sha[written[i].rid]

\* AlphaAsDocumented: "FieldName" and "-FieldName" sort by descending string,
\* "+FieldName" by ascending string.
AlphaAsDocumented ==
    pc = "done" /\ ~noCache /\ ~Tuples /\ sort.field /\ ~sort.zero =>
        \A i, j \in DOMAIN written : i < j =>
            LET ka == Alpha[Prop[written[i].rid]]
                kb == Alpha[Prop[written[j].rid]]
            IN  IF sort.sign = "+" THEN ka <= kb ELSE ka >= kb

-----------------------------------------------------------------------------
(* Why SortHasKeys holds.                                                  *)

\* Without "sha256=sha256" every answer has a key if a sort is asked for, and
\* none has a sha2.
KeysOnTheWay ==
    ~Tuples =>
        /\ joined = sort.field
        /\ LeavesOf(rest) \subseteq LeavesOf(query)
        /\ \A i \in 1..Len(stack) : \A rid \in DOMAIN stack[i] :
              /\ sort.field => stack[i][rid].key \in Int
              /\ stack[i][rid].sha = {}

\* The order was chosen by what the root holds, whose answers are sorted or
\* still to sort.
ChosenForRoot ==
    /\ pc = "eval" => sorted = << >>
    /\ pc \in {"sort", "segfault"} =>
          /\ Len(stack) = 1 /\ comparator = Chosen
          /\ \A rid \in DOMAIN Root : keys[rid] \in KeyValues(rid)
          /\ \A i \in 1..Len(sorted) : sorted[i] \in DOMAIN Root
          /\ pending \subseteq DOMAIN Root

\* SortInv: the inductive invariant for SortHasKeys.
SortInv == KeysOnTheWay /\ ChosenForRoot /\ SortHasKeys

(* Why SortOnlyHides holds.                                                *)

\* f is g without the records a sort hides; what NEAR, BEFORE and AFTER look at
\* is the same.
Hides(f, g) ==
    /\ DOMAIN f = {rid \in DOMAIN g : sort.field => HasKey(rid)}
    /\ \A rid \in DOMAIN f : f[rid].hits = g[rid].hits

\* HidesInv: the inductive invariant for SortOnlyHides.
HidesInv ==
    ~Tuples /\ ~Limited =>
        /\ joined = sort.field
        /\ LeavesOf(rest) \subseteq LeavesOf(query)
        /\ \A i \in 1..Len(stack) : Hides(stack[i], plain[i])

(* Why WholeResult, NumericAsDocumented and SameTogether hold.             *)

\* A result is being sorted or written, or is written.
Running == pc = "sort" \/ (pc = "done" /\ ~noCache)

\* The answers of the root are those sorted and those to sort, which have
\* smaller record_ids; those written are the first sorted ones.
Counted ==
    /\ pc = "eval" \/ noCache => sorted = << >>
    /\ pc = "sort" => ~noCache
    /\ Running =>
          /\ Len(stack) = 1 /\ comparator = Chosen
          /\ \A rid \in DOMAIN Root : keys[rid] \in KeyValues(rid)
          /\ pending \cup {sorted[i] : i \in 1..Len(sorted)} = DOMAIN Root
          /\ Len(sorted) + Cardinality(pending) = Cardinality(DOMAIN Root)
          /\ \A i \in 1..Len(sorted) : \A rid \in pending : sorted[i] > rid
    /\ Len(written) <= Len(sorted)
    /\ \A i \in 1..Len(written) : written[i].rid = sorted[i]
    /\ Len(written) > 0 => pending = {}
    /\ pc = "done" /\ ~noCache => pending = {} /\ Len(written) = Len(sorted)

\* What each comparator weighs: an answer is before those that weigh less.
Weight(rid) ==
    CASE comparator = "sha" -> CHOOSE x \in Root[rid].sha : TRUE
      [] comparator \in {"str_desc", "int_asc"} -> keys[rid]
      [] comparator \in {"str_asc", "int_desc"} -> -keys[rid]
      [] OTHER -> 0

InOrder(a, b) == Weight(a) > Weight(b) \/ (Weight(a) = Weight(b) /\ a > b)

\* Two answers or more have been compared, and are in order.
Ordered ==
    Len(sorted) > 1 =>
        /\ \A i \in 1..Len(sorted) : Comparable(sorted[i])
        /\ \A i, j \in 1..Len(sorted) : i < j => InOrder(sorted[i], sorted[j])

\* Without "sha256=sha256" the key of an answer is the one of its record.
KeysAreOwn ==
    ~Tuples /\ sort.field =>
        \A i \in 1..Len(stack) : \A rid \in DOMAIN stack[i] :
            HasKey(rid) /\ stack[i][rid].key = KeyRead(rid)

\* OrderInv: the inductive invariant, with KeysOnTheWay, for the three.
OrderInv == Counted /\ Ordered /\ KeysAreOwn
=============================================================================
