-------------------------- MODULE QueryTreeProofs --------------------------
(***************************************************************************)
(* Theorems about the evaluation of a query and its sort, for any tree,    *)
(* leaves, databox and sort field.                                         *)
(***************************************************************************)
EXTENDS QueryTree, FiniteSetTheorems, SequenceTheorems, TLAPS

-----------------------------------------------------------------------------
(* The stack                                                               *)

\* A sequence is one of its own elements.
LEMMA SeqOfItself ==
    ASSUME NEW S, NEW s \in Seq(S)
    PROVE  s \in Seq(Range(s))
<1>1. s \in [1..Len(s) -> S] /\ Len(s) \in Nat
    BY LenProperties
<1>2. \A i \in 1..Len(s) : s[i] \in Range(s)
    BY <1>1 DEF Range
<1>3. s \in [1..Len(s) -> Range(s)]
    BY <1>1, <1>2
<1> QED
    BY <1>1, <1>3

\* What a leaf does to the stack.
LEMMA Pushed ==
    ASSUME NEW s, s \in Seq(Range(s)), NEW x
    PROVE  /\ Append(s, x) \in Seq(Range(Append(s, x)))
           /\ Len(Append(s, x)) = Len(s) + 1
           /\ Append(s, x)[Len(s) + 1] = x
           /\ \A i \in 1..Len(s) : Append(s, x)[i] = s[i]
           /\ Len(s) \in Nat
<1> DEFINE S == Range(s) \cup {x}
<1>1. s \in Seq(S) /\ x \in S
    BY SeqMonotonic
<1> HIDE DEF S
<1>2. Append(s, x) \in Seq(S)
    BY <1>1
<1>3. Append(s, x) \in Seq(Range(Append(s, x)))
    BY <1>2, SeqOfItself
<1> QED
    BY <1>1, <1>3

\* What an operator does to the stack.
LEMMA Replaced ==
    ASSUME NEW s, s \in Seq(Range(s)), NEW n \in Nat, Len(s) = n, n >= 2, NEW x
    PROVE  LET t == Append(SubSeq(s, 1, n - 2), x)
           IN  /\ t \in Seq(Range(t))
               /\ Len(t) = n - 1
               /\ t[n - 1] = x
               /\ \A i \in 1..(n - 2) : t[i] = s[i]
<1> DEFINE t == Append(SubSeq(s, 1, n - 2), x)
<1> DEFINE u == SubSeq(s, 1, n - 2)
<1>1. \A i \in 1..n : s[i] \in Range(s)
    BY ElementOfSeq
<1>2. \A i \in 1..(n - 2) : s[i] \in Range(s)
    BY <1>1
<1>3. /\ u \in Seq(Range(s))
      /\ Len(u) = IF 1 <= n - 2 THEN n - 2 - 1 + 1 ELSE 0
      /\ \A i \in 1..(n - 2 - 1 + 1) : u[i] = s[1 + i - 1]
    <2>1. 1 \in Int /\ n - 2 \in Int
        OBVIOUS
    <2> QED
        BY <1>2, <2>1, SubSeqProperties
<1> HIDE DEF u
<1>4. Len(u) = n - 2
    BY <1>3
<1>5. \A i \in 1..(n - 2) : i \in 1..(n - 2 - 1 + 1) /\ 1 + i - 1 = i
    OBVIOUS
<1>6. \A i \in 1..(n - 2) : u[i] = s[i]
    BY <1>3, <1>5
<1>7. u \in Seq(Range(u))
    BY <1>3, SeqOfItself
<1>9. n - 2 + 1 = n - 1
    OBVIOUS
<1> DEFINE v == Append(u, x)
<1>10. /\ v \in Seq(Range(v))
       /\ Len(v) = Len(u) + 1
       /\ v[Len(u) + 1] = x
       /\ \A i \in 1..Len(u) : v[i] = u[i]
    BY <1>7, Pushed
<1> HIDE DEF v, t
<1>11. t = v
    BY Zenon DEF t, u, v
<1>12. /\ v \in Seq(Range(v))
       /\ Len(v) = n - 1
       /\ v[n - 1] = x
       /\ \A i \in 1..(n - 2) : v[i] = s[i]
    BY <1>4, <1>6, <1>9, <1>10
<1> QED
    BY <1>11, <1>12, Zenon DEF t

-----------------------------------------------------------------------------
(* Leaves and operators                                                    *)

\* Records a leaf may return.
LEMMA RowsOk ==
    ASSUME NEW leaf, leaf.kind \in Kinds, NEW key, NEW T \in Rows(leaf, key)
    PROVE  /\ T \subseteq Rids
           /\ key /\ leaf.kind # "tuples" => \A rid \in T : HasKey(rid)
<1>1. Searched(key) \subseteq Rids /\ (key => \A rid \in Searched(key) : HasKey(rid))
    BY DataboxAssumption DEF Searched
<1>2. Visible \subseteq Rids
    BY DataboxAssumption
<1>3. CASE leaf.kind = "none"
    BY <1>3 DEF Rows
<1>4. CASE leaf.kind = "found"
    BY <1>1, <1>4 DEF Rows
<1>5. CASE leaf.kind = "all"
    BY <1>1, <1>2, <1>5 DEF Rows, Tops
<1>6. CASE leaf.kind = "last"
    BY <1>1, <1>6 DEF Rows, LastRows
<1>7. CASE leaf.kind = "tuples"
    BY <1>7 DEF Rows
<1> QED
    BY <1>3, <1>4, <1>5, <1>6, <1>7 DEF Kinds

\* The answers of a leaf.
LEMMA AnswerOfOk ==
    ASSUME sort \in Sorts, NEW leaf, NEW rid \in Rids, NEW key, key => HasKey(rid)
    PROVE  /\ AnswerOk(rid, AnswerOf(leaf, rid, key))
           /\ key => AnswerOf(leaf, rid, key).key \in Int
           /\ leaf.kind # "tuples" => AnswerOf(leaf, rid, key).sha = {}
<1>1. key => KeyRead(rid) \in Int
    BY DataboxAssumption DEF KeyRead, HasKey
<1> QED
    BY <1>1 DEF AnswerOf, AnswerOk, Keys

\* A match of AND.
LEMMA AndOk ==
    ASSUME NEW rid, NEW a, NEW b, AnswerOk(rid, a), AnswerOk(rid, b)
    PROVE  LET c == AndAnswer(a, b)
           IN  AnswerOk(rid, c) /\ c.key = a.key /\ c.sha \in {a.sha, b.sha}
<1> DEFINE c == AndAnswer(a, b)
<1>1. DOMAIN a = {"key", "sha", "hits", "spots"}
    BY DEF AnswerOk
<1>2. /\ DOMAIN c = DOMAIN a /\ c.key = a.key
      /\ c.sha = IF a.sha = {} THEN b.sha ELSE a.sha
    BY <1>1 DEF AndAnswer
<1> QED
    BY <1>1, <1>2 DEF AnswerOk

\* A match of NEAR, BEFORE or AFTER.
LEMMA ProxOk ==
    ASSUME NEW rid, NEW a, NEW b, AnswerOk(rid, a), AnswerOk(rid, b), NEW type, NEW prox
    PROVE  LET c == ProxAnswer(type, prox, a, b)
           IN  AnswerOk(rid, c) /\ c.key = a.key /\ c.sha \in {a.sha, b.sha}
<1> DEFINE c == ProxAnswer(type, prox, a, b)
<1>1. DOMAIN a = {"key", "sha", "hits", "spots"}
    BY DEF AnswerOk
<1>2. /\ DOMAIN c = DOMAIN a /\ c.key = a.key
      /\ c.sha = IF a.sha = {} THEN b.sha ELSE a.sha
    BY <1>1 DEF ProxAnswer
<1> QED
    BY <1>1, <1>2 DEF AnswerOk

\* The records of a node are those of its branches, and an answer takes its key
\* from the answer of one branch and its sha2 from that of one branch.
LEMMA CombineOk ==
    ASSUME NEW type \in Operators, NEW prox, NEW l, NEW r,
           \A rid \in DOMAIN l : AnswerOk(rid, l[rid]),
           \A rid \in DOMAIN r : AnswerOk(rid, r[rid]),
           NEW f, f = Combine(type, prox, l, r)
    PROVE  /\ DOMAIN f \subseteq DOMAIN l \cup DOMAIN r
           /\ \A rid \in DOMAIN f :
                 /\ AnswerOk(rid, f[rid])
                 /\ \/ rid \in DOMAIN l /\ f[rid].key = l[rid].key
                    \/ rid \in DOMAIN r /\ f[rid].key = r[rid].key
                 /\ \/ rid \in DOMAIN l /\ f[rid].sha = l[rid].sha
                    \/ rid \in DOMAIN r /\ f[rid].sha = r[rid].sha
<1>1. type \in {"AND", "OR", "EXCEPT", "NEAR", "BEFORE", "AFTER"}
    BY DEF Operators, ProxTypes
<1> DEFINE both == DOMAIN l \cap DOMAIN r
<1>2. CASE type = "AND"
    <2>1. f = [rid \in both |-> AndAnswer(l[rid], r[rid])]
        BY <1>2 DEF Combine
    <2>2. SUFFICES ASSUME NEW rid \in both
                   PROVE  /\ AnswerOk(rid, f[rid]) /\ f[rid].key = l[rid].key
                          /\ f[rid].sha = l[rid].sha \/ f[rid].sha = r[rid].sha
        BY <2>1
    <2>3. f[rid] = AndAnswer(l[rid], r[rid])
        BY <2>1
    <2>4. AnswerOk(rid, l[rid]) /\ AnswerOk(rid, r[rid])
        OBVIOUS
    <2> HIDE DEF both
    <2> QED
        BY <2>3, <2>4, AndOk
<1>3. CASE type = "OR"
    <2>1. f = [rid \in DOMAIN l \cup DOMAIN r |->
                  IF rid \in both THEN OrAnswer(l[rid], r[rid])
                  ELSE IF rid \in DOMAIN l THEN l[rid] ELSE r[rid]]
        BY <1>3 DEF Combine
    <2> QED
        BY <2>1, ZenonT(30) DEF OrAnswer, AnswerOk
<1>4. CASE type = "EXCEPT"
    <2>1. f = [rid \in DOMAIN l \ DOMAIN r |-> l[rid]]
        BY <1>4 DEF Combine
    <2> QED
        BY <2>1
<1>5. CASE type \in {"NEAR", "BEFORE", "AFTER"}
    <2>1. f = [rid \in {x \in both : ProxHits(type, prox, l[x].hits, r[x].hits) # {}}
                  |-> ProxAnswer(type, prox, l[rid], r[rid])]
        BY <1>5 DEF Combine
    <2>2. SUFFICES ASSUME NEW rid \in both, rid \in DOMAIN f
                   PROVE  /\ AnswerOk(rid, f[rid]) /\ f[rid].key = l[rid].key
                          /\ f[rid].sha = l[rid].sha \/ f[rid].sha = r[rid].sha
        BY <2>1
    <2>3. f[rid] = ProxAnswer(type, prox, l[rid], r[rid])
        BY <2>1, <2>2
    <2>4. AnswerOk(rid, l[rid]) /\ AnswerOk(rid, r[rid])
        OBVIOUS
    <2> HIDE DEF both
    <2> QED
        BY <2>3, <2>4, ProxOk
<1> QED
    BY <1>1, <1>2, <1>3, <1>4, <1>5

\* The answers of a node.
NodeOk(f) == DOMAIN f \subseteq Rids /\ \A rid \in DOMAIN f : AnswerOk(rid, f[rid])

\* The answers of a leaf: they have a key if the leaf reads it, and a sha2 only
\* after a search for duplicates.
LEMMA LeafOk ==
    ASSUME sort \in Sorts, NEW leaf, leaf.kind \in Kinds, NEW key \in BOOLEAN,
           key => leaf.kind # "tuples", NEW rows \in Rows(leaf, key),
           NEW f, f = [rid \in rows |-> AnswerOf(leaf, rid, key)]
    PROVE  /\ NodeOk(f)
           /\ \A rid \in DOMAIN f : /\ key => f[rid].key \in Int
                                    /\ leaf.kind # "tuples" => f[rid].sha = {}
<1>1. /\ rows \subseteq Rids
      /\ key => \A rid \in rows : HasKey(rid)
    BY RowsOk
<1>2. DOMAIN f = rows /\ \A rid \in rows : f[rid] = AnswerOf(leaf, rid, key)
    OBVIOUS
<1> QED
    BY <1>1, <1>2, AnswerOfOk DEF NodeOk

\* What the leaf in front of a well-typed state returns.
LEMMA LeafStep ==
    ASSUME TypeOK, Leaf
    PROVE  \E f, g :
              /\ stack' = Append(stack, f) /\ plain' = Append(plain, g)
              /\ NodeOk(f) /\ NodeOk(g)
              /\ \A rid \in DOMAIN f :
                    /\ ReadsKey(Leaves[Head(rest)]) => f[rid].key \in Int
                    /\ Leaves[Head(rest)].kind # "tuples" => f[rid].sha = {}
<1> DEFINE leaf == Leaves[Head(rest)]
           key  == ReadsKey(leaf)
<1>1. leaf.kind \in Kinds /\ sort \in Sorts
    BY QueryAssumption DEF Leaf, TypeOK
<1>2. key \in BOOLEAN /\ (key => leaf.kind # "tuples")
    BY DEF ReadsKey
<1>3. PICK rows \in Rows(leaf, key) :
          stack' = Append(stack, [rid \in rows |-> AnswerOf(leaf, rid, key)])
    BY DEF Leaf
<1>4. PICK bare \in Rows(leaf, FALSE) :
          plain' = Append(plain, [rid \in bare |-> AnswerOf(leaf, rid, FALSE)])
    BY DEF Leaf
<1> DEFINE f == [rid \in rows |-> AnswerOf(leaf, rid, key)]
           g == [rid \in bare |-> AnswerOf(leaf, rid, FALSE)]
<1>5. stack' = Append(stack, f) /\ plain' = Append(plain, g)
    BY <1>3, <1>4
<1> HIDE DEF leaf, key
<1>6. /\ f = [rid \in rows |-> AnswerOf(leaf, rid, key)]
      /\ g = [rid \in bare |-> AnswerOf(leaf, rid, FALSE)]
    OBVIOUS
<1> HIDE DEF f, g
<1>7. /\ NodeOk(f)
      /\ \A rid \in DOMAIN f : /\ key => f[rid].key \in Int
                               /\ leaf.kind # "tuples" => f[rid].sha = {}
    BY <1>1, <1>2, <1>6, LeafOk
<1>8. NodeOk(g)
    BY <1>1, <1>6, LeafOk
<1> QED
    BY <1>5, <1>7, <1>8 DEF leaf, key

-----------------------------------------------------------------------------
(* The sort                                                                *)

\* Inserting into a sequence.
LEMMA Inserted ==
    ASSUME NEW S, NEW s \in Seq(S), NEW e \in S, NEW i \in 1..(Len(s) + 1)
    PROVE  InsertAt(s, i, e) \in Seq(S)
<1>1. Len(s) \in Nat /\ \A k \in 1..Len(s) : s[k] \in S
    BY LenProperties, ElementOfSeq
<1>2. SubSeq(s, 1, i - 1) \in Seq(S)
    <2>1. 1 \in Int /\ i - 1 \in Int /\ \A k \in 1..(i - 1) : k \in 1..Len(s)
        BY <1>1
    <2> QED
        BY <1>1, <2>1, SubSeqProperties
<1>3. SubSeq(s, i, Len(s)) \in Seq(S)
    <2>1. i \in Int /\ Len(s) \in Int /\ \A k \in i..Len(s) : k \in 1..Len(s)
        BY <1>1
    <2> QED
        BY <1>1, <2>1, SubSeqProperties
<1>4. <<e>> \in Seq(S)
    OBVIOUS
<1>5. SubSeq(s, 1, i - 1) \o <<e>> \in Seq(S)
    BY <1>2, <1>4, ConcatProperties
<1> QED
    BY <1>3, <1>5, ConcatProperties DEF InsertAt

\* An answer is inserted among those already sorted.
LEMMA InsertOk ==
    ASSUME NEW S, sorted \in Seq(S), NEW rid \in S
    PROVE  Insert(rid) \in Seq(S)
<1> DEFINE after == {i \in 1..Len(sorted) : ~Before(rid, sorted[i])}
<1>1. Len(sorted) \in Nat
    BY LenProperties
<1>2. IsFiniteSet(1..Len(sorted)) /\ Cardinality(1..Len(sorted)) = Len(sorted)
    BY <1>1, FS_Interval
<1>3. Cardinality(after) \in Nat /\ Cardinality(after) <= Len(sorted)
    <2>1. after \subseteq 1..Len(sorted)
        OBVIOUS
    <2> HIDE DEF after
    <2>2. IsFiniteSet(after) /\ Cardinality(after) <= Cardinality(1..Len(sorted))
        BY <1>2, <2>1, FS_Subset
    <2> QED
        BY <1>2, <2>2, FS_CardinalityType
<1> HIDE DEF after
<1>4. Cardinality(after) + 1 \in 1..(Len(sorted) + 1)
    BY <1>1, <1>3
<1>5. Insert(rid) = InsertAt(sorted, Cardinality(after) + 1, rid)
    BY DEF Insert, after
<1> QED
    BY <1>4, <1>5, Inserted

-----------------------------------------------------------------------------
(* Types                                                                   *)

\* The part of TypeOK that is about the evaluation.
StackOk(s, p) ==
    /\ s \in Seq(Range(s)) /\ p \in Seq(Range(p)) /\ Len(s) = Len(p)
    /\ \A i \in 1..Len(s) : NodeOk(s[i]) /\ NodeOk(p[i])

LEMMA StackOfTypeOK == TypeOK => StackOk(stack, plain)
BY DEF TypeOK, StackOk, NodeOk

\* A leaf or an operator keeps the stacks well-typed.
LEMMA StackPushed ==
    ASSUME NEW s, NEW p, StackOk(s, p), NEW f, NEW g, NodeOk(f), NodeOk(g)
    PROVE  StackOk(Append(s, f), Append(p, g))
<1>1. s \in Seq(Range(s)) /\ p \in Seq(Range(p)) /\ Len(s) = Len(p)
    BY DEF StackOk
<1> DEFINE n == Len(s)
           sf == Append(s, f)
           pg == Append(p, g)
<1>2. /\ sf \in Seq(Range(sf)) /\ Len(sf) = n + 1 /\ sf[n + 1] = f
      /\ \A i \in 1..n : sf[i] = s[i]
      /\ n \in Nat
    BY <1>1, Pushed
<1>3. /\ pg \in Seq(Range(pg)) /\ Len(pg) = n + 1 /\ pg[n + 1] = g
      /\ \A i \in 1..n : pg[i] = p[i]
    BY <1>1, Pushed
<1>4. \A i \in 1..n : NodeOk(s[i]) /\ NodeOk(p[i])
    BY DEF StackOk
<1> HIDE DEF n, sf, pg
<1>5. \A i \in 1..(n + 1) : NodeOk(sf[i]) /\ NodeOk(pg[i])
    <2>1. SUFFICES ASSUME NEW i \in 1..(n + 1) PROVE NodeOk(sf[i]) /\ NodeOk(pg[i])
        OBVIOUS
    <2>2. i \in 1..n \/ i = n + 1
        BY <1>2
    <2> QED
        BY <1>2, <1>3, <1>4, <2>2
<1> QED
    BY <1>2, <1>3, <1>5 DEF StackOk, sf, pg

LEMMA StackReplaced ==
    ASSUME NEW s, NEW p, StackOk(s, p), NEW n \in Nat, Len(s) = n, n >= 2,
           NEW f, NodeOk(f), NEW g, NodeOk(g)
    PROVE  StackOk(Append(SubSeq(s, 1, n - 2), f), Append(SubSeq(p, 1, n - 2), g))
<1>1. /\ s \in Seq(Range(s)) /\ p \in Seq(Range(p)) /\ Len(p) = n
      /\ \A i \in 1..n : NodeOk(s[i]) /\ NodeOk(p[i])
    BY DEF StackOk
<1> DEFINE sf == Append(SubSeq(s, 1, n - 2), f)
           pg == Append(SubSeq(p, 1, n - 2), g)
<1>2. /\ sf \in Seq(Range(sf)) /\ Len(sf) = n - 1 /\ sf[n - 1] = f
      /\ \A i \in 1..(n - 2) : sf[i] = s[i]
    BY <1>1, Replaced
<1>3. /\ pg \in Seq(Range(pg)) /\ Len(pg) = n - 1 /\ pg[n - 1] = g
      /\ \A i \in 1..(n - 2) : pg[i] = p[i]
    BY <1>1, Replaced
<1> HIDE DEF sf, pg
<1>4. \A i \in 1..n : NodeOk(s[i]) /\ NodeOk(p[i])
    BY <1>1
<1>5. \A i \in 1..(n - 1) : NodeOk(sf[i]) /\ NodeOk(pg[i])
    <2>1. SUFFICES ASSUME NEW i \in 1..(n - 1) PROVE NodeOk(sf[i]) /\ NodeOk(pg[i])
        OBVIOUS
    <2>2. (i \in 1..(n - 2) /\ i \in 1..n) \/ i = n - 1
        OBVIOUS
    <2> QED
        BY <1>2, <1>3, <1>4, <2>2
<1> QED
    BY <1>2, <1>3, <1>5 DEF StackOk, sf, pg

\* An operator replaces the two last nodes of a well-typed stack by one.
LEMMA OperatorStep ==
    ASSUME StackOk(stack, plain), Operator
    PROVE  /\ StackOk(stack, plain)'
           /\ \E type \in Operators : stack' =
                  Append(SubSeq(stack, 1, Len(stack) - 2),
                         Combine(type, Prox, stack[Len(stack) - 1], stack[Len(stack)]))
<1> DEFINE n    == Len(stack)
           type == Head(rest)
           f == Combine(type, Prox, stack[n - 1], stack[n])
           g == Combine(type, Prox, plain[n - 1], plain[n])
<1>1. type \in Operators /\ n >= 2
    BY DEF Operator
<1>2. n \in Nat
    BY LenProperties DEF StackOk
<1>3. n - 1 \in 1..n /\ n \in 1..n /\ n - 1 - 1 = n - 2 /\ n - 1 + 1 = n
    <2> HIDE DEF n
    <2> QED
        BY <1>1, <1>2
<1>4. /\ stack' = Append(SubSeq(stack, 1, n - 2), f)
      /\ plain' = Append(SubSeq(plain, 1, n - 2), g)
      /\ Len(plain) = n
    BY <1>3 DEF Operator, StackOk
<1>5. \A i \in 1..n : NodeOk(stack[i]) /\ NodeOk(plain[i])
    BY DEF StackOk
<1>6. NodeOk(stack[n - 1]) /\ NodeOk(stack[n]) /\ NodeOk(plain[n - 1]) /\ NodeOk(plain[n])
    BY <1>3, <1>5
<1> HIDE DEF type, n
<1>7. ASSUME NEW l, NEW r, NodeOk(l), NodeOk(r), NEW h, h = Combine(type, Prox, l, r)
      PROVE  NodeOk(h)
    <2>1. \A rid \in DOMAIN l : AnswerOk(rid, l[rid])
        BY <1>7 DEF NodeOk
    <2>2. \A rid \in DOMAIN r : AnswerOk(rid, r[rid])
        BY <1>7 DEF NodeOk
    <2>3. DOMAIN h \subseteq DOMAIN l \cup DOMAIN r /\ \A rid \in DOMAIN h : AnswerOk(rid, h[rid])
        BY <1>1, <1>7, <2>1, <2>2, CombineOk
    <2> QED
        BY <1>7, <2>3 DEF NodeOk
<1>8. NodeOk(f) /\ NodeOk(g)
    BY <1>6, <1>7
<1> HIDE DEF f, g
<1>9. StackOk(stack, plain)'
    BY <1>1, <1>2, <1>4, <1>8, StackReplaced DEF n
<1> QED
    BY <1>1, <1>4, <1>9 DEF f, n

\* TypeOK, with its part on the stacks as StackOk.
OtherOk ==
    /\ sort \in Sorts /\ noCache \in BOOLEAN /\ joined \in BOOLEAN
    /\ pc \in {"eval", "sort", "done", "segfault"}
    /\ comparator \in FieldComparators \cup {"sha", "rid_desc"}
    /\ rest \in Seq(DOMAIN Leaves \cup Operators)
    /\ \A rid \in DOMAIN keys : keys[rid] \in Keys
    /\ pending \subseteq Rids
    /\ sorted \in Seq(Rids)
    /\ written \in Seq([rid : Rids, bid : Int \ {0}])

LEMMA TypeSplit == TypeOK <=> StackOk(stack, plain) /\ OtherOk
BY DEF TypeOK, StackOk, NodeOk, OtherOk

LEMMA TypeSplitNext == TypeOK' <=> StackOk(stack, plain)' /\ OtherOk'
BY DEF TypeOK, StackOk, NodeOk, OtherOk

LEMMA TypeInit == Init => TypeOK
<1>1. SUFFICES ASSUME Init PROVE TypeOK
    OBVIOUS
<1>2. rest \in Seq(DOMAIN Leaves \cup Operators)
    BY <1>1, QueryAssumption DEF Init
<1>3. StackOk(<< >>, << >>)
    BY DEF StackOk
<1>4. joined \in BOOLEAN
    <2>1. \/ sort = [field |-> FALSE, sign |-> "", zero |-> FALSE]
          \/ sort \in [field : {TRUE}, sign : {"", "+", "-"}, zero : BOOLEAN]
        BY <1>1 DEF Init, Sorts
    <2>2. CASE sort = [field |-> FALSE, sign |-> "", zero |-> FALSE]
        BY <1>1, <2>2 DEF Init
    <2>3. CASE sort \in [field : {TRUE}, sign : {"", "+", "-"}, zero : BOOLEAN]
        <3>1. sort.field \in {TRUE}
            BY <2>3
        <3> QED
            BY <1>1, <3>1 DEF Init
    <2> QED
        BY <2>1, <2>2, <2>3
<1>5. OtherOk
    BY <1>1, <1>2, <1>4 DEF Init, OtherOk
<1> QED
    BY <1>1, <1>3, <1>5, TypeSplit DEF Init

LEMMA TypeNext == TypeOK /\ [Next]_vars => TypeOK'
<1>1. SUFFICES ASSUME TypeOK, [Next]_vars PROVE TypeOK'
    OBVIOUS
<1>2. StackOk(stack, plain) /\ OtherOk
    BY <1>1, TypeSplit
<1>3. SUFFICES StackOk(stack, plain)' /\ OtherOk'
    BY TypeSplitNext
<1>4. rest # << >> => Tail(rest) \in Seq(DOMAIN Leaves \cup Operators)
    BY <1>2, HeadTailProperties DEF OtherOk
<1>5. CASE Leaf
    <2>1. StackOk(stack, plain)'
        BY <1>1, <1>2, <1>5, LeafStep, StackPushed, ZenonT(30)
    <2>2. joined' \in BOOLEAN
        BY <1>5 DEF Leaf
    <2>3. OtherOk'
        BY <1>2, <1>4, <1>5, <2>2 DEF Leaf, OtherOk
    <2> QED
        BY <2>1, <2>3
<1>6. CASE Operator
    <2>1. StackOk(stack, plain)'
        BY <1>2, <1>6, OperatorStep
    <2>2. OtherOk'
        BY <1>2, <1>4, <1>6 DEF Operator, OtherOk
    <2> QED
        BY <2>1, <2>2
<1>7. CASE Count
    <2>1. StackOk(stack, plain)'
        BY <1>2, <1>7 DEF Count, Evaluated
    <2>2. NodeOk(Root)
        BY <1>2, <1>7 DEF StackOk, Root, Count
    <2>3. \A rid \in DOMAIN Root : Root[rid].key \in Keys
        BY <2>2 DEF NodeOk, AnswerOk
    <2>4. comparator' \in FieldComparators \cup {"sha", "rid_desc"}
        <3>1. Chosen \in FieldComparators \cup {"sha", "rid_desc"}
            BY DEF Chosen, FieldComparators
        <3> QED
            BY <1>2, <1>7, <3>1 DEF Count, OtherOk
    <2>5. \A rid \in DOMAIN keys' : keys'[rid] \in Keys
        <3>1. CASE noCache
            BY <1>2, <1>7, <3>1 DEF Count, OtherOk
        <3>2. CASE ~noCache
            <4>1. keys' \in [DOMAIN Root -> Garbage \cup {Root[rid].key : rid \in DOMAIN Root}]
                BY <1>7, <3>2 DEF Count
            <4>2. Garbage \subseteq Keys
                BY DataboxAssumption DEF Keys
            <4>3. Garbage \cup {Root[rid].key : rid \in DOMAIN Root} \subseteq Keys
                BY <2>3, <4>2
            <4> QED
                BY <4>1, <4>3
        <3> QED
            BY <3>1, <3>2
    <2>6. pending' \subseteq Rids
        BY <1>2, <1>7, <2>2 DEF Count, OtherOk, NodeOk
    <2>7. OtherOk'
        <3>1. /\ sort' = sort /\ noCache' = noCache /\ joined' = joined /\ rest' = rest
              /\ sorted' = sorted /\ written' = written /\ pc' \in {"sort", "done"}
            BY <1>7 DEF Count, Evaluated
        <3> QED
            BY <1>2, <2>4, <2>5, <2>6, <3>1 DEF OtherOk
    <2> QED
        BY <2>1, <2>7
<1>8. CASE Sort
    <2>1. StackOk(stack, plain)'
        BY <1>2, <1>8 DEF Sort, Evaluated
    <2>2. PICK rid \in pending :
              /\ pending' = pending \ {rid}
              /\ \/ sorted' = Insert(rid) /\ pc' = pc
                 \/ sorted' = sorted /\ pc' = "segfault"
        BY <1>8 DEF Sort
    <2>3. sorted' \in Seq(Rids)
        BY <1>2, <2>2, InsertOk DEF OtherOk
    <2>4. /\ sort' = sort /\ noCache' = noCache /\ joined' = joined /\ rest' = rest
          /\ comparator' = comparator /\ keys' = keys /\ written' = written
        BY <1>8 DEF Sort, Evaluated
    <2>5. OtherOk'
        BY <1>2, <2>2, <2>3, <2>4 DEF OtherOk
    <2> QED
        BY <2>1, <2>5
<1>9. CASE Write
    <2>1. StackOk(stack, plain)'
        BY <1>2, <1>9 DEF Write, Evaluated
    <2>2. written' \in Seq([rid : Rids, bid : Int \ {0}]) /\ pc' \in {pc, "done"}
        <3>1. CASE Len(written) < Len(sorted)
            <4> DEFINE rid == sorted[Len(written) + 1]
                       W   == [rid : Rids, bid : Int \ {0}]
            <4>1. written \in Seq(W) /\ sorted \in Seq(Rids)
                BY <1>2 DEF OtherOk
            <4>2. rid \in Rids
                <5>1. Len(written) \in Nat /\ Len(sorted) \in Nat
                    BY <4>1, LenProperties
                <5>2. Len(written) + 1 \in 1..Len(sorted)
                    BY <3>1, <5>1
                <5> QED
                    BY <4>1, <5>2, ElementOfSeq
            <4> HIDE DEF rid
            <4>3. LocalBid(Cid[rid]) \in Int \ {0}
                BY DataboxAssumption DEF LocalBid
            <4>4. written # << >> => Last(written).bid \in Int \ {0}
                <5>1. written # << >> => Len(written) \in 1..Len(written)
                    BY <4>1, EmptySeq, LenProperties
                <5>2. written # << >> => Last(written) \in W
                    BY <4>1, <5>1, ElementOfSeq DEF Last
                <5> QED
                    BY <5>2
            <4>5. CurrentBid(rid) \in Int \ {0}
                BY <4>3, <4>4 DEF CurrentBid
            <4>6. written' = Append(written, [rid |-> rid, bid |-> CurrentBid(rid)]) /\ pc' = pc
                BY <1>9, <3>1 DEF Write, rid
            <4>7. [rid |-> rid, bid |-> CurrentBid(rid)] \in W
                BY <4>2, <4>5
            <4> QED
                BY <4>1, <4>6, <4>7, AppendProperties
        <3>2. CASE ~(Len(written) < Len(sorted))
            BY <1>2, <1>9, <3>2 DEF Write, OtherOk
        <3> QED
            BY <3>1, <3>2
    <2>3. /\ sort' = sort /\ noCache' = noCache /\ joined' = joined /\ rest' = rest
          /\ comparator' = comparator /\ keys' = keys /\ pending' = pending /\ sorted' = sorted
        BY <1>9 DEF Write, Evaluated
    <2>4. OtherOk'
        BY <1>2, <2>2, <2>3 DEF OtherOk
    <2> QED
        BY <2>1, <2>4
<1>10. CASE UNCHANGED vars
    BY <1>2, <1>10 DEF vars, OtherOk
<1> QED
    BY <1>1, <1>5, <1>6, <1>7, <1>8, <1>9, <1>10 DEF Next

\* QueryTypes: a call of phrasea_query2 keeps its types, for any tree, leaves and
\* databox: in particular an answer at any node has a key that is one or NULL
\* and its own sha2 or NULL, and no answer is written with local base 0.
THEOREM QueryTypes == Spec => []TypeOK
<1> QED
    BY TypeInit, TypeNext, PTL DEF Spec

-----------------------------------------------------------------------------
(* Sort keys                                                               *)

\* The leaves still to evaluate.
LEMMA LeavesLeft ==
    ASSUME rest \in Seq(DOMAIN Leaves \cup Operators), rest # << >>
    PROVE  /\ LeavesOf(Tail(rest)) \subseteq LeavesOf(rest)
           /\ Head(rest) \in DOMAIN Leaves => Leaves[Head(rest)] \in LeavesOf(rest)
<1>1. /\ Len(rest) \in Nat \ {0} /\ DOMAIN rest = 1..Len(rest)
      /\ Tail(rest) \in Seq(DOMAIN Leaves \cup Operators)
      /\ Head(rest) = rest[1]
    BY EmptySeq, LenProperties, HeadTailProperties
<1>2. Len(Tail(rest)) = Len(rest) - 1 /\ \A i \in 1..Len(Tail(rest)) : Tail(rest)[i] = rest[i + 1]
    BY HeadTailProperties
<1>3. DOMAIN Tail(rest) = 1..Len(Tail(rest))
    BY <1>1, LenProperties
<1>4. 1 \in DOMAIN rest
    BY <1>1
<1>5. \A i \in DOMAIN Tail(rest) : i + 1 \in DOMAIN rest /\ Tail(rest)[i] = rest[i + 1]
    BY <1>1, <1>2, <1>3
<1> QED
    BY <1>1, <1>4, <1>5 DEF LeavesOf

\* The answers of a node have a key if the query asks for a sort, and no sha2.
Keyed(f) ==
    \A rid \in DOMAIN f : (sort.field => f[rid].key \in Int) /\ f[rid].sha = {}

LEMMA CombineKeyed ==
    ASSUME NEW type \in Operators, NEW prox, NEW l, NEW r,
           NodeOk(l), NodeOk(r), Keyed(l), Keyed(r), NEW f, f = Combine(type, prox, l, r)
    PROVE  Keyed(f)
<1>1. /\ \A rid \in DOMAIN l : AnswerOk(rid, l[rid])
      /\ \A rid \in DOMAIN r : AnswerOk(rid, r[rid])
    BY DEF NodeOk
<1>2. \A rid \in DOMAIN f :
          /\ \/ rid \in DOMAIN l /\ f[rid].key = l[rid].key
             \/ rid \in DOMAIN r /\ f[rid].key = r[rid].key
          /\ \/ rid \in DOMAIN l /\ f[rid].sha = l[rid].sha
             \/ rid \in DOMAIN r /\ f[rid].sha = r[rid].sha
    BY <1>1, CombineOk
<1> QED
    BY <1>2 DEF Keyed

\* The evaluation keeps the keys on the way.
LEMMA KeysOnTheWayNext ==
    ASSUME TypeOK, KeysOnTheWay, Next
    PROVE  KeysOnTheWay'
<1>1. SUFFICES ASSUME ~Tuples'
               PROVE  /\ joined' = sort.field
                      /\ LeavesOf(rest') \subseteq LeavesOf(query)
                      /\ \A i \in 1..Len(stack') : Keyed(stack'[i])
    <2>1. sort' = sort /\ query' = query
        BY DEF Next, Leaf, Operator, Count, Sort, Write, Evaluated
    <2> QED
        BY <2>1 DEF KeysOnTheWay, Keyed, LeavesOf
<1>2. query' = query
    BY DEF Next, Leaf, Operator, Count, Sort, Write, Evaluated
<1>3. ~Tuples
    BY <1>1, <1>2 DEF Tuples, LeavesOf
<1>4. /\ joined = sort.field
      /\ LeavesOf(rest) \subseteq LeavesOf(query)
      /\ \A i \in 1..Len(stack) : Keyed(stack[i])
    BY <1>3 DEF KeysOnTheWay, Keyed
<1>5. StackOk(stack, plain) /\ rest \in Seq(DOMAIN Leaves \cup Operators)
    BY TypeSplit DEF OtherOk
<1>6. CASE Leaf
    <2> DEFINE leaf == Leaves[Head(rest)]
    <2>1. leaf \in LeavesOf(rest) /\ LeavesOf(Tail(rest)) \subseteq LeavesOf(rest)
        BY <1>5, <1>6, LeavesLeft DEF Leaf
    <2>2. leaf.kind # "tuples"
        BY <1>3, <1>4, <2>1 DEF Tuples
    <2>3. joined' = joined
        BY <1>6, <2>2, TypeSplit DEF Leaf, OtherOk
    <2>4. PICK f : /\ stack' = Append(stack, f)
                   /\ \A rid \in DOMAIN f :
                         /\ ReadsKey(leaf) => f[rid].key \in Int
                         /\ leaf.kind # "tuples" => f[rid].sha = {}
        BY <1>6, LeafStep
    <2>5. Keyed(f)
        BY <1>4, <2>2, <2>4 DEF Keyed, ReadsKey
    <2>6. \A i \in 1..Len(stack') : Keyed(stack'[i])
        <3> DEFINE n == Len(stack)
        <3>1. stack \in Seq(Range(stack))
            BY <1>5 DEF StackOk
        <3>2. /\ Len(stack') = n + 1 /\ stack'[n + 1] = f
              /\ \A i \in 1..n : stack'[i] = stack[i]
              /\ n \in Nat
            BY <2>4, <3>1, Pushed
        <3>3. \A i \in 1..n : Keyed(stack[i])
            BY <1>4
        <3> HIDE DEF n
        <3>4. \A i \in 1..(n + 1) : i \in 1..n \/ i = n + 1
            BY <3>2
        <3> QED
            BY <2>5, <3>2, <3>3, <3>4
    <2> QED
        BY <1>4, <1>6, <2>1, <2>3, <2>6 DEF Leaf
<1>7. CASE Operator
    <2> DEFINE n == Len(stack)
    <2>1. n >= 2 /\ joined' = joined /\ rest' = Tail(rest) /\ rest # << >>
        BY <1>7 DEF Operator
    <2>2. stack \in Seq(Range(stack)) /\ n \in Nat /\ \A i \in 1..n : NodeOk(stack[i])
        BY <1>5, LenProperties DEF StackOk
    <2>3. PICK type \in Operators :
              stack' = Append(SubSeq(stack, 1, n - 2),
                              Combine(type, Prox, stack[n - 1], stack[n]))
        BY <1>5, <1>7, OperatorStep
    <2> DEFINE f == Combine(type, Prox, stack[n - 1], stack[n])
    <2>4. \A i \in 1..n : Keyed(stack[i])
        BY <1>4
    <2>5. /\ Len(stack') = n - 1 /\ stack'[n - 1] = f
          /\ \A i \in 1..(n - 2) : stack'[i] = stack[i]
        <3> HIDE DEF f
        <3> DEFINE new == Append(SubSeq(stack, 1, n - 2), f)
        <3>1. Len(stack) = n
            OBVIOUS
        <3>2. stack' = new
            BY <2>3 DEF f
        <3> HIDE DEF n
        <3>3. Len(new) = n - 1 /\ new[n - 1] = f /\ \A i \in 1..(n - 2) : new[i] = stack[i]
            BY <2>1, <2>2, <3>1, Replaced
        <3> HIDE DEF new
        <3> QED
            BY <3>2, <3>3
    <2>6. Keyed(f)
        <3> HIDE DEF n
        <3>1. n - 1 \in 1..n /\ n \in 1..n
            BY <2>1, <2>2
        <3> QED
            BY <2>2, <2>4, <3>1, CombineKeyed
    <2> HIDE DEF n, f
    <2>7. \A i \in 1..(n - 1) : (i \in 1..(n - 2) /\ i \in 1..n) \/ i = n - 1
        BY <2>1, <2>2
    <2>8. \A i \in 1..Len(stack') : Keyed(stack'[i])
        BY <2>4, <2>5, <2>6, <2>7
    <2>9. LeavesOf(rest') \subseteq LeavesOf(rest)
        BY <1>5, <2>1, LeavesLeft
    <2> QED
        BY <1>4, <2>1, <2>8, <2>9
<1>8. CASE Count \/ Sort \/ Write
    BY <1>4, <1>8 DEF Count, Sort, Write, Evaluated
<1> QED
    BY <1>6, <1>7, <1>8 DEF Next

\* With its keys, no answer of the root is compared through NULL.
LEMMA AllComparable ==
    ASSUME SortInv, pc = "sort", ~Tuples, NEW rid \in DOMAIN Root
    PROVE  Comparable(rid)
<1>1. /\ Len(stack) = 1 /\ comparator = Chosen
      /\ \A x \in DOMAIN Root : keys[x] \in KeyValues(x)
    BY DEF SortInv, ChosenForRoot
<1>2. \A x \in DOMAIN Root : (sort.field => Root[x].key \in Int) /\ Root[x].sha = {}
    BY <1>1 DEF SortInv, KeysOnTheWay, Root
<1>3. ~ \E x \in DOMAIN Root : Root[x].sha # {}
    BY <1>2
<1>4. CASE ~sort.field
    BY <1>1, <1>3, <1>4 DEF Chosen, Comparable
<1>5. CASE sort.field /\ sort.zero
    BY <1>1, <1>3, <1>5 DEF Chosen, Comparable
<1>6. CASE sort.field /\ ~sort.zero
    <2>1. comparator \in {"str_asc", "str_desc"}
        BY <1>1, <1>3, <1>6 DEF Chosen
    <2>2. keys[rid] \in {Root[rid].key} /\ Root[rid].key \in Int
        BY <1>1, <1>2, <1>6 DEF KeyValues
    <2> QED
        BY <2>1, <2>2, DataboxAssumption DEF Comparable
<1> QED
    BY <1>4, <1>5, <1>6

LEMMA ChosenForRootNext ==
    ASSUME TypeOK, ChosenForRoot, Next
    PROVE  ChosenForRoot'
<1>1. CASE Leaf \/ Operator
    BY <1>1 DEF Leaf, Operator, ChosenForRoot
<1>2. CASE Count
    <2>1. sorted' = << >> /\ pc' \in {"done", "sort"} /\ stack' = stack /\ sort' = sort
        BY <1>2 DEF Count, ChosenForRoot, Evaluated
    <2>2. Root' = Root /\ Chosen' = Chosen /\ \A rid \in DOMAIN Root : KeyValues(rid)' = KeyValues(rid)
        BY <2>1 DEF Root, Chosen, KeyValues, SortOrder
    <2>3. pc' = "sort" => /\ Len(stack) = 1 /\ comparator' = Chosen /\ pending' = DOMAIN Root
                          /\ \A rid \in DOMAIN Root : keys'[rid] \in KeyValues(rid)
        BY <1>2 DEF Count
    <2>4. \A i \in 1..Len(sorted') : sorted'[i] \in DOMAIN Root
        BY <2>1
    <2>5. pc' # "eval" /\ pc' # "segfault"
        BY <2>1
    <2> QED
        BY <2>1, <2>2, <2>3, <2>4, <2>5 DEF ChosenForRoot
<1>3. CASE Sort
    <2>1. /\ pc = "sort" /\ stack' = stack /\ sort' = sort
          /\ comparator' = comparator /\ keys' = keys
        BY <1>3 DEF Sort, Evaluated
    <2>2. Root' = Root /\ Chosen' = Chosen /\ \A rid \in DOMAIN Root : KeyValues(rid)' = KeyValues(rid)
        BY <2>1 DEF Root, Chosen, KeyValues, SortOrder
    <2>3. /\ Len(stack) = 1 /\ comparator = Chosen
          /\ \A rid \in DOMAIN Root : keys[rid] \in KeyValues(rid)
          /\ \A i \in 1..Len(sorted) : sorted[i] \in DOMAIN Root
          /\ pending \subseteq DOMAIN Root
        BY <2>1 DEF ChosenForRoot
    <2>4. PICK rid \in pending :
              /\ pending' = pending \ {rid}
              /\ \/ sorted' = Insert(rid) /\ pc' = pc
                 \/ sorted' = sorted /\ pc' = "segfault"
        BY <1>3 DEF Sort
    <2>5. sorted \in Seq(DOMAIN Root)
        <3>1. sorted \in [1..Len(sorted) -> Rids] /\ Len(sorted) \in Nat
            BY LenProperties DEF TypeOK
        <3>2. sorted \in [1..Len(sorted) -> DOMAIN Root]
            BY <2>3, <3>1
        <3> QED
            BY <3>1, <3>2
    <2>6. sorted' \in Seq(DOMAIN Root)
        BY <2>3, <2>4, <2>5, InsertOk
    <2>7. \A i \in 1..Len(sorted') : sorted'[i] \in DOMAIN Root
        BY <2>6, ElementOfSeq
    <2>8. pc' # "eval"
        BY <2>1, <2>4
    <2> QED
        BY <2>1, <2>2, <2>3, <2>4, <2>7, <2>8 DEF ChosenForRoot
<1>4. CASE Write
    <2>1. /\ pc = "sort" /\ pc' \in {"sort", "done"} /\ stack' = stack /\ sort' = sort
          /\ comparator' = comparator /\ keys' = keys /\ sorted' = sorted /\ pending' = pending
        BY <1>4 DEF Write, Evaluated
    <2>2. Root' = Root /\ Chosen' = Chosen /\ \A rid \in DOMAIN Root : KeyValues(rid)' = KeyValues(rid)
        BY <2>1 DEF Root, Chosen, KeyValues, SortOrder
    <2> QED
        BY <2>1, <2>2 DEF ChosenForRoot
<1> QED
    BY <1>1, <1>2, <1>3, <1>4 DEF Next

LEMMA SortInvInit == Init => SortInv
<1>1. SUFFICES ASSUME Init PROVE SortInv
    OBVIOUS
<1>2. KeysOnTheWay
    BY <1>1 DEF Init, KeysOnTheWay
<1> QED
    BY <1>1, <1>2 DEF Init, SortInv, ChosenForRoot, SortHasKeys

LEMMA SortInvNext == TypeOK /\ SortInv /\ [Next]_vars => SortInv'
<1>1. SUFFICES ASSUME TypeOK, SortInv, [Next]_vars PROVE SortInv'
    OBVIOUS
<1>2. CASE Next
    <2>1. KeysOnTheWay' /\ ChosenForRoot'
        BY <1>1, <1>2, KeysOnTheWayNext, ChosenForRootNext DEF SortInv
    <2>2. query' = query
        BY <1>2 DEF Next, Leaf, Operator, Count, Sort, Write, Evaluated
    <2>3. SortHasKeys'
        <3>1. SUFFICES ASSUME ~Tuples PROVE pc' # "segfault"
            BY <2>2 DEF SortHasKeys, Tuples, LeavesOf
        <3>2. pc # "segfault"
            BY <1>1, <3>1 DEF SortInv, SortHasKeys
        <3>3. CASE Leaf \/ Operator \/ Count \/ Write
            BY <3>2, <3>3 DEF Leaf, Operator, Count, Write
        <3>4. CASE Sort
            <4>1. \A rid \in DOMAIN Root : Comparable(rid)
                BY <1>1, <3>1, <3>4, AllComparable DEF Sort
            <4>2. /\ pending \subseteq DOMAIN Root
                  /\ \A i \in DOMAIN sorted : sorted[i] \in DOMAIN Root
                <5>1. DOMAIN sorted = 1..Len(sorted)
                    BY <1>1, LenProperties DEF TypeOK
                <5> QED
                    BY <1>1, <3>4, <5>1 DEF SortInv, ChosenForRoot, Sort
            <4>3. pc' = pc
                BY <3>4, <4>1, <4>2 DEF Sort
            <4> QED
                BY <3>2, <4>3
        <3> QED
            BY <1>2, <3>3, <3>4 DEF Next
    <2> QED
        BY <2>1, <2>3 DEF SortInv
<1>3. CASE UNCHANGED vars
    <2>1. KeysOnTheWay'
        BY <1>1, <1>3 DEF vars, SortInv, KeysOnTheWay, Tuples, LeavesOf
    <2>2. Root' = Root /\ Chosen' = Chosen /\ \A rid \in DOMAIN Root : KeyValues(rid)' = KeyValues(rid)
        BY <1>3 DEF vars, Root, Chosen, KeyValues, SortOrder
    <2>3. ChosenForRoot'
        BY <1>1, <1>3, <2>2 DEF vars, SortInv, ChosenForRoot
    <2>4. SortHasKeys'
        BY <1>1, <1>3 DEF vars, SortInv, SortHasKeys, Tuples, LeavesOf
    <2> QED
        BY <2>1, <2>3, <2>4 DEF SortInv
<1> QED
    BY <1>1, <1>2, <1>3

\* SortInvariant: without "sha256=sha256" every answer on the way to the root has a
\* key if a sort is asked for, and the comparator phrasea_query2 chose from the
\* first answer of the root is the right one for all of them.
THEOREM SortInvariant == Spec => []SortInv
<1> QED
    BY QueryTypes, SortInvInit, SortInvNext, PTL DEF Spec

\* SortIsSafe: a query without "sha256=sha256" never compares two answers through
\* a key that was not read, whatever operators joined its leaves.
THEOREM SortIsSafe == Spec => []SortHasKeys
<1>1. SortInv => SortHasKeys
    BY DEF SortInv
<1> QED
    BY <1>1, SortInvariant, PTL

-----------------------------------------------------------------------------
(* Local bases                                                             *)

\* What current_bid is when the next answer is written.
LEMMA CurrentIsOwn ==
    ASSUME TypeOK, OwnBase, NEW rid
    PROVE  CurrentBid(rid) = LocalBid(Cid[rid])
<1>1. written # << >> => Last(written).bid = LocalBid(Cid[Last(written).rid])
    <2>1. written # << >> => Len(written) \in DOMAIN written
        BY EmptySeq, LenProperties DEF TypeOK
    <2> QED
        BY <2>1 DEF OwnBase, Last
<1> QED
    BY <1>1 DEF CurrentBid

\* OwnBaseAlways: the base remembered from the answer before is never the wrong
\* one, whatever order the sort gave to the answers.
THEOREM OwnBaseAlways == Spec => []OwnBase
<1>1. Init => OwnBase
    BY DEF Init, OwnBase
<1>2. TypeOK /\ OwnBase /\ [Next]_vars => OwnBase'
    <2>1. SUFFICES ASSUME TypeOK, OwnBase, [Next]_vars PROVE OwnBase'
        OBVIOUS
    <2>2. CASE written' = written
        BY <2>1, <2>2 DEF OwnBase
    <2>3. CASE Write /\ Len(written) < Len(sorted)
        <3> DEFINE n == Len(written)
                   rid == sorted[n + 1]
                   w   == [rid |-> rid, bid |-> CurrentBid(rid)]
                   W   == [rid : Rids, bid : Int \ {0}]
        <3>1. written \in Seq(W) /\ written' \in Seq(W)
            BY <2>1, TypeNext DEF TypeOK
        <3>2. written' = Append(written, w)
            BY <2>3 DEF Write
        <3>3. w.rid = rid /\ w.bid = LocalBid(Cid[rid])
            BY <2>1, CurrentIsOwn
        <3>4. n \in Nat /\ DOMAIN written = 1..n /\ DOMAIN written' = 1..Len(written')
            BY <3>1, LenProperties
        <3> HIDE DEF W, w, rid
        <3>5. /\ Len(written') = n + 1 /\ written'[n + 1] = w
              /\ \A i \in 1..n : written'[i] = written[i]
            <4>1. written \in Seq(Range(written))
                BY <3>1, SeqOfItself
            <4> QED
                BY <3>2, <4>1, Pushed
        <3> HIDE DEF n
        <3>6. \A i \in 1..(n + 1) : i \in 1..n \/ i = n + 1
            BY <3>4
        <3> QED
            BY <2>1, <3>3, <3>4, <3>5, <3>6 DEF OwnBase
    <2>4. CASE Write /\ ~(Len(written) < Len(sorted))
        BY <2>1, <2>4 DEF Write, OwnBase
    <2>5. Leaf \/ Operator \/ Count \/ Sort \/ UNCHANGED vars => written' = written
        BY DEF Leaf, Operator, Count, Sort, vars
    <2> QED
        BY <2>1, <2>2, <2>3, <2>4, <2>5 DEF Next
<1> QED
    BY <1>1, <1>2, QueryTypes, PTL DEF Spec

-----------------------------------------------------------------------------
(* What a sort hides                                                       *)

\* The hits of a match.
LEMMA MatchHits ==
    ASSUME NEW a, "hits" \in DOMAIN a, NEW b
    PROVE  /\ AndAnswer(a, b).hits = {}
           /\ OrAnswer(a, b).hits = a.hits \cup b.hits
<1>1. AndAnswer(a, b).hits = {}
    BY DEF AndAnswer
<1>2. OrAnswer(a, b).hits = a.hits \cup b.hits
    BY DEF OrAnswer
<1> QED
    BY <1>1, <1>2

\* The hits of a match of NEAR, BEFORE or AFTER.
LEMMA NearHits ==
    ASSUME NEW a, "hits" \in DOMAIN a, NEW b, NEW type, NEW prox
    PROVE  ProxAnswer(type, prox, a, b).hits = ProxHits(type, prox, a.hits, b.hits)
BY DEF ProxAnswer

\* An operator hides nothing more than its branches do: the records with the
\* sort field are combined as if there was no sort.
LEMMA CombineHides ==
    ASSUME NEW type \in Operators, NEW prox, NEW l, NEW r, NEW gl, NEW gr,
           NodeOk(l), NodeOk(r), NodeOk(gl), NodeOk(gr), Hides(l, gl), Hides(r, gr)
    PROVE  Hides(Combine(type, prox, l, r), Combine(type, prox, gl, gr))
<1> DEFINE Kept(rid) == sort.field => HasKey(rid)
           f == Combine(type, prox, l, r)
           g == Combine(type, prox, gl, gr)
<1>1. /\ \A rid : rid \in DOMAIN l <=> rid \in DOMAIN gl /\ Kept(rid)
      /\ \A rid : rid \in DOMAIN r <=> rid \in DOMAIN gr /\ Kept(rid)
      /\ \A rid \in DOMAIN l : l[rid].hits = gl[rid].hits
      /\ \A rid \in DOMAIN r : r[rid].hits = gr[rid].hits
    BY DEF Hides
<1>2. \A rid \in DOMAIN l : "hits" \in DOMAIN l[rid] /\ "hits" \in DOMAIN gl[rid]
    BY <1>1 DEF NodeOk, AnswerOk
<1> HIDE DEF Kept
<1>3. SUFFICES /\ \A rid : rid \in DOMAIN f <=> rid \in DOMAIN g /\ Kept(rid)
               /\ \A rid \in DOMAIN f : f[rid].hits = g[rid].hits
    <2> HIDE DEF f, g
    <2>1. DOMAIN f = {rid \in DOMAIN g : Kept(rid)}
        BY <1>3
    <2> QED
        BY <1>3, <2>1 DEF Hides, Kept, f, g
<1>4. type \in {"AND", "OR", "EXCEPT", "NEAR", "BEFORE", "AFTER"}
    BY DEF Operators, ProxTypes
<1> DEFINE both  == DOMAIN l \cap DOMAIN r
           gboth == DOMAIN gl \cap DOMAIN gr
<1>5. CASE type = "AND"
    <2>1. /\ f = [rid \in both |-> AndAnswer(l[rid], r[rid])]
          /\ g = [rid \in gboth |-> AndAnswer(gl[rid], gr[rid])]
        BY <1>5 DEF Combine
    <2> HIDE DEF f, g
    <2>2. \A rid \in both : f[rid] = AndAnswer(l[rid], r[rid]) /\ g[rid] = AndAnswer(gl[rid], gr[rid])
        BY <1>1, <2>1
    <2>3. DOMAIN f = both /\ DOMAIN g = gboth
        BY <2>1
    <2>4. \A rid \in both : f[rid].hits = {} /\ g[rid].hits = {}
        BY <1>2, <2>2, MatchHits
    <2> QED
        BY <1>1, <2>3, <2>4
<1>6. CASE type = "OR"
    <2>1. /\ f = [rid \in DOMAIN l \cup DOMAIN r |->
                     IF rid \in both THEN OrAnswer(l[rid], r[rid])
                     ELSE IF rid \in DOMAIN l THEN l[rid] ELSE r[rid]]
          /\ g = [rid \in DOMAIN gl \cup DOMAIN gr |->
                     IF rid \in gboth THEN OrAnswer(gl[rid], gr[rid])
                     ELSE IF rid \in DOMAIN gl THEN gl[rid] ELSE gr[rid]]
        BY <1>6 DEF Combine
    <2> HIDE DEF f, g
    <2>2. DOMAIN f = DOMAIN l \cup DOMAIN r /\ DOMAIN g = DOMAIN gl \cup DOMAIN gr
        BY <2>1
    <2>3. \A rid \in both : f[rid] = OrAnswer(l[rid], r[rid]) /\ g[rid] = OrAnswer(gl[rid], gr[rid])
        BY <1>1, <2>1
    <2>4. \A rid \in DOMAIN l \ DOMAIN r : f[rid] = l[rid] /\ g[rid] = gl[rid]
        BY <1>1, <2>1
    <2>5. \A rid \in DOMAIN r \ DOMAIN l : f[rid] = r[rid] /\ g[rid] = gr[rid]
        BY <1>1, <2>1
    <2>6. \A rid \in both : /\ f[rid].hits = l[rid].hits \cup r[rid].hits
                            /\ g[rid].hits = gl[rid].hits \cup gr[rid].hits
        BY <1>2, <2>3, MatchHits
    <2>7. \A rid : rid \in DOMAIN f <=> rid \in DOMAIN g /\ Kept(rid)
        BY <1>1, <2>2
    <2>8. \A rid \in both : f[rid].hits = g[rid].hits
        BY <1>1, <2>6
    <2>9. \A rid \in DOMAIN f :
              rid \in both \/ rid \in DOMAIN l \ DOMAIN r \/ rid \in DOMAIN r \ DOMAIN l
        BY <2>2
    <2>10. \A rid \in DOMAIN f : f[rid].hits = g[rid].hits
        BY <1>1, <2>4, <2>5, <2>8, <2>9
    <2> QED
        BY <2>7, <2>10
<1>7. CASE type = "EXCEPT"
    <2>1. /\ f = [rid \in DOMAIN l \ DOMAIN r |-> l[rid]]
          /\ g = [rid \in DOMAIN gl \ DOMAIN gr |-> gl[rid]]
        BY <1>7 DEF Combine
    <2> HIDE DEF f, g
    <2> QED
        BY <1>1, <2>1
<1>8. CASE type \in {"NEAR", "BEFORE", "AFTER"}
    <2> DEFINE near  == {rid \in both : ProxHits(type, prox, l[rid].hits, r[rid].hits) # {}}
               gnear == {rid \in gboth : ProxHits(type, prox, gl[rid].hits, gr[rid].hits) # {}}
    <2>1. /\ f = [rid \in near |-> ProxAnswer(type, prox, l[rid], r[rid])]
          /\ g = [rid \in gnear |-> ProxAnswer(type, prox, gl[rid], gr[rid])]
        BY <1>8 DEF Combine
    <2> HIDE DEF f, g
    <2>2. \A rid : rid \in near <=> rid \in gnear /\ Kept(rid)
        BY <1>1
    <2>3. DOMAIN f = near /\ DOMAIN g = gnear
        BY <2>1
    <2>4. \A rid \in near : /\ f[rid] = ProxAnswer(type, prox, l[rid], r[rid])
                            /\ g[rid] = ProxAnswer(type, prox, gl[rid], gr[rid])
        BY <2>1, <2>2
    <2>5. near \subseteq both
        OBVIOUS
    <2> HIDE DEF near, gnear
    <2>6. \A rid \in near : /\ f[rid].hits = ProxHits(type, prox, l[rid].hits, r[rid].hits)
                            /\ g[rid].hits = ProxHits(type, prox, gl[rid].hits, gr[rid].hits)
        <3>1. SUFFICES ASSUME NEW rid \in near
                       PROVE  /\ f[rid].hits = ProxHits(type, prox, l[rid].hits, r[rid].hits)
                              /\ g[rid].hits = ProxHits(type, prox, gl[rid].hits, gr[rid].hits)
            OBVIOUS
        <3>2. /\ f[rid] = ProxAnswer(type, prox, l[rid], r[rid])
              /\ g[rid] = ProxAnswer(type, prox, gl[rid], gr[rid])
            BY <2>4
        <3>3. "hits" \in DOMAIN l[rid] /\ "hits" \in DOMAIN gl[rid]
            BY <1>2, <2>5
        <3> QED
            BY <3>2, <3>3, NearHits
    <2>7. \A rid \in near : l[rid].hits = gl[rid].hits /\ r[rid].hits = gr[rid].hits
        BY <1>1, <2>5
    <2> QED
        BY <2>2, <2>3, <2>6, <2>7
<1> QED
    BY <1>4, <1>5, <1>6, <1>7, <1>8

\* LAST n is one set of records: no two records have the same record_id.
LEMMA OneLast ==
    ASSUME NEW n, NEW T \in Tops(n, Visible, LAMBDA rid : rid),
           NEW U \in Tops(n, Visible, LAMBDA rid : rid)
    PROVE  T = U
<1>1. /\ T \subseteq Visible /\ U \subseteq Visible
      /\ Cardinality(T) = Cardinality(U)
      /\ \A t \in T, s \in Visible \ T : t >= s
      /\ \A t \in U, s \in Visible \ U : t >= s
    BY DEF Tops
<1>2. Visible \subseteq Int /\ IsFiniteSet(Visible)
    BY DataboxAssumption, FS_Subset
<1>3. IsFiniteSet(T) /\ IsFiniteSet(U)
    BY <1>1, <1>2, FS_Subset
<1>4. T \subseteq U \/ U \subseteq T
    <2>1. SUFFICES ASSUME NEW t \in T \ U, NEW u \in U \ T PROVE FALSE
        OBVIOUS
    <2>2. t >= u /\ u >= t /\ t \in Int /\ u \in Int
        BY <1>1, <1>2
    <2> QED
        BY <2>2
<1> QED
    BY <1>1, <1>3, <1>4, FS_Subset

\* A leaf that is not limited by the sort key finds, of the records it finds
\* without sort, those with the sort field.
LEMMA RowsHide ==
    ASSUME NEW leaf, leaf.kind \in Kinds, leaf.kind # "tuples",
           ~(leaf.kind = "all" /\ leaf.n # 0), NEW key \in BOOLEAN,
           NEW rows \in Rows(leaf, key), NEW bare \in Rows(leaf, FALSE)
    PROVE  rows = {rid \in bare : key => HasKey(rid)}
<1>1. Searched(key) = {rid \in Visible : key => HasKey(rid)} /\ Searched(FALSE) = Visible
    BY DEF Searched
<1>2. CASE leaf.kind = "none"
    BY <1>2 DEF Rows
<1>3. CASE leaf.kind = "found"
    <2>1. rows = Searched(key) \cap DOMAIN leaf.rows /\ bare = Searched(FALSE) \cap DOMAIN leaf.rows
        BY <1>3 DEF Rows
    <2> QED
        BY <1>1, <2>1
<1>4. CASE leaf.kind = "all"
    <2>1. rows = Searched(key) /\ bare = Searched(FALSE)
        BY <1>4 DEF Rows
    <2> QED
        BY <1>1, <2>1
<1>5. CASE leaf.kind = "last"
    <2>1. rows \in LastRows(leaf.n, key) /\ bare \in LastRows(leaf.n, FALSE)
        BY <1>5 DEF Rows
    <2>2. CASE leaf.n <= 0
        BY <2>1, <2>2 DEF LastRows
    <2>3. CASE ~(leaf.n <= 0)
        <3>1. PICK T \in Tops(leaf.n, Visible, LAMBDA rid : rid) : rows = Searched(key) \cap T
            BY <2>1, <2>3 DEF LastRows
        <3>2. PICK U \in Tops(leaf.n, Visible, LAMBDA rid : rid) : bare = Searched(FALSE) \cap U
            BY <2>1, <2>3 DEF LastRows
        <3>3. T = U
            BY OneLast
        <3> QED
            BY <1>1, <3>1, <3>2, <3>3
    <2> QED
        BY <2>2, <2>3
<1> QED
    BY <1>2, <1>3, <1>4, <1>5 DEF Kinds

\* Of two stacks, each node of the first hides what a sort hides of the second.
AllHide(s, p) == \A i \in 1..Len(s) : Hides(s[i], p[i])

\* The evaluation hides only what a sort hides.
LEMMA HidesNext ==
    ASSUME TypeOK, HidesInv, Next
    PROVE  HidesInv'
<1>1. query' = query /\ sort' = sort
    BY DEF Next, Leaf, Operator, Count, Sort, Write, Evaluated
<1>2. SUFFICES ASSUME ~Tuples, ~Limited
               PROVE  /\ joined' = sort.field
                      /\ LeavesOf(rest') \subseteq LeavesOf(query)
                      /\ AllHide(stack', plain')
    BY <1>1 DEF HidesInv, AllHide, Hides, Tuples, Limited, LeavesOf
<1>3. /\ joined = sort.field
      /\ LeavesOf(rest) \subseteq LeavesOf(query)
      /\ AllHide(stack, plain)
    BY <1>2 DEF HidesInv, AllHide
<1>4. StackOk(stack, plain) /\ rest \in Seq(DOMAIN Leaves \cup Operators) /\ joined \in BOOLEAN
    BY TypeSplit DEF OtherOk
<1> DEFINE n == Len(stack)
<1>5. /\ stack \in Seq(Range(stack)) /\ plain \in Seq(Range(plain))
      /\ n \in Nat /\ Len(plain) = n
      /\ \A i \in 1..n : NodeOk(stack[i]) /\ NodeOk(plain[i])
    BY <1>4, LenProperties DEF StackOk
<1>6. CASE Leaf
    <2> DEFINE leaf == Leaves[Head(rest)]
               key  == ReadsKey(leaf)
    <2>1. leaf \in LeavesOf(rest) /\ LeavesOf(Tail(rest)) \subseteq LeavesOf(rest)
        BY <1>4, <1>6, LeavesLeft DEF Leaf
    <2>2. leaf.kind # "tuples" /\ ~(leaf.kind = "all" /\ leaf.n # 0) /\ leaf.kind \in Kinds
        BY <1>2, <1>3, <1>6, <2>1, QueryAssumption DEF Tuples, Limited, Leaf
    <2>3. joined' = joined /\ key \in BOOLEAN /\ key = sort.field
        BY <1>3, <1>4, <1>6, <2>2 DEF Leaf, ReadsKey
    <2>4. PICK rows \in Rows(leaf, key) :
              stack' = Append(stack, [rid \in rows |-> AnswerOf(leaf, rid, key)])
        BY <1>6 DEF Leaf
    <2>5. PICK bare \in Rows(leaf, FALSE) :
              plain' = Append(plain, [rid \in bare |-> AnswerOf(leaf, rid, FALSE)])
        BY <1>6 DEF Leaf
    <2> DEFINE f == [rid \in rows |-> AnswerOf(leaf, rid, key)]
               g == [rid \in bare |-> AnswerOf(leaf, rid, FALSE)]
    <2> HIDE DEF leaf, key
    <2>6. Hides(f, g)
        <3>1. rows = {rid \in bare : key => HasKey(rid)}
            BY <2>2, <2>3, RowsHide
        <3>2. \A rid \in rows : f[rid].hits = g[rid].hits
            BY <3>1 DEF AnswerOf
        <3> QED
            BY <2>3, <3>1, <3>2 DEF Hides
    <2>7. stack' = Append(stack, f) /\ plain' = Append(plain, g)
        BY <2>4, <2>5
    <2> HIDE DEF f, g
    <2>8. /\ Len(stack') = n + 1 /\ stack'[n + 1] = f
          /\ \A i \in 1..n : stack'[i] = stack[i]
        BY <1>5, <2>7, Pushed
    <2>9. plain'[n + 1] = g /\ \A i \in 1..n : plain'[i] = plain[i]
        BY <1>5, <2>7, Pushed
    <2>10. \A i \in 1..n : Hides(stack[i], plain[i])
        BY <1>3 DEF AllHide
    <2> HIDE DEF n
    <2>11. \A i \in 1..(n + 1) : i \in 1..n \/ i = n + 1
        BY <1>5
    <2>12. AllHide(stack', plain')
        BY <2>6, <2>8, <2>9, <2>10, <2>11 DEF AllHide
    <2> QED
        BY <1>3, <1>6, <2>1, <2>3, <2>12 DEF Leaf
<1>7. CASE Operator
    <2> DEFINE type == Head(rest)
               f == Combine(type, Prox, stack[n - 1], stack[n])
               g == Combine(type, Prox, plain[n - 1], plain[n])
    <2>1. /\ n >= 2 /\ joined' = joined /\ rest' = Tail(rest) /\ rest # << >>
          /\ type \in Operators
        BY <1>7 DEF Operator
    <2>2. n - 1 \in 1..n /\ n \in 1..n /\ n - 1 - 1 = n - 2 /\ n - 1 + 1 = n
        <3>1. n >= 2 /\ n \in Nat
            BY <1>5, <2>1
        <3> HIDE DEF n
        <3> QED
            BY <3>1
    <2>3. /\ stack' = Append(SubSeq(stack, 1, n - 2), f)
          /\ plain' = Append(SubSeq(plain, 1, n - 2), g)
        BY <1>7, <2>2 DEF Operator
    <2>4. \A i \in 1..n : Hides(stack[i], plain[i])
        BY <1>3 DEF AllHide
    <2>5. Len(stack) = n
        OBVIOUS
    <2> HIDE DEF type, n
    <2>6. Hides(f, g)
        BY <1>5, <2>1, <2>2, <2>4, CombineHides
    <2> HIDE DEF f, g
    <2> DEFINE s == Append(SubSeq(stack, 1, n - 2), f)
               p == Append(SubSeq(plain, 1, n - 2), g)
    <2>7. Len(s) = n - 1 /\ s[n - 1] = f /\ \A i \in 1..(n - 2) : s[i] = stack[i]
        BY <1>5, <2>1, <2>5, Replaced
    <2>8. p[n - 1] = g /\ \A i \in 1..(n - 2) : p[i] = plain[i]
        BY <1>5, <2>1, Replaced
    <2>9. \A i \in 1..(n - 1) : (i \in 1..(n - 2) /\ i \in 1..n) \/ i = n - 1
        BY <1>5, <2>1
    <2>10. stack' = s /\ plain' = p
        BY <2>3
    <2> HIDE DEF s, p
    <2>11. AllHide(s, p)
        BY <2>4, <2>6, <2>7, <2>8, <2>9 DEF AllHide
    <2>12. LeavesOf(rest') \subseteq LeavesOf(rest)
        BY <1>4, <2>1, LeavesLeft
    <2> QED
        BY <1>3, <2>1, <2>10, <2>11, <2>12
<1>8. CASE Count \/ Sort \/ Write
    BY <1>3, <1>8 DEF Count, Sort, Write, Evaluated
<1> QED
    BY <1>6, <1>7, <1>8 DEF Next

\* HidesInvariant: at every node, the answers of a sorted evaluation are those of the
\* same tree without sort that have the sort field, with the same hits, unless a leaf
\* searches for duplicates or is limited by the sort key.
THEOREM HidesInvariant == Spec => []HidesInv
<1>1. Init => HidesInv
    BY DEF Init, HidesInv
<1>2. TypeOK /\ HidesInv /\ [Next]_vars => HidesInv'
    <2>1. CASE UNCHANGED vars
        BY <2>1, SMTT(30) DEF vars, HidesInv, Hides, Tuples, Limited, LeavesOf
    <2> QED
        BY <2>1, HidesNext
<1> QED
    BY <1>1, <1>2, QueryTypes, PTL DEF Spec

\* SortHides: for any tree, a sort only takes away the records without the sort
\* field, unless a leaf searches for duplicates or is limited by the sort key.
THEOREM SortHides == Spec => []SortOnlyHides
<1>1. HidesInv => SortOnlyHides
    BY DEF HidesInv, SortOnlyHides, Hides
<1> QED
    BY <1>1, HidesInvariant, PTL

-----------------------------------------------------------------------------
(* The list a query writes: it is the result of the tree, in the order of   *)
(* the comparator.                                                         *)

-----------------------------------------------------------------------------
(* Insertion                                                               *)

\* One element between two sequences.
LEMMA Between ==
    ASSUME NEW S, NEW a \in Seq(S), NEW e \in S, NEW b \in Seq(S),
           NEW t, t = a \o <<e>> \o b
    PROVE  /\ t \in Seq(S) /\ Len(t) = Len(a) + 1 + Len(b)
           /\ \A j \in 1..Len(a) : t[j] = a[j]
           /\ t[Len(a) + 1] = e
           /\ \A j \in 1..Len(b) : t[Len(a) + 1 + j] = b[j]
<1>1. Len(a) \in Nat /\ Len(b) \in Nat
    BY LenProperties
<1>2. PICK c : c = Append(a, e)
    OBVIOUS
<1>3. c \in Seq(S) /\ Len(c) = Len(a) + 1 /\ c[Len(a) + 1] = e
      /\ \A j \in 1..Len(a) : c[j] = a[j]
    BY <1>2, AppendProperties
<1>4. t = c \o b
    BY <1>2
<1>5. t \in Seq(S) /\ Len(t) = Len(c) + Len(b)
    BY <1>3, <1>4, ConcatProperties
<1>6. \A j \in 1..Len(c) + Len(b) : t[j] = IF j <= Len(c) THEN c[j] ELSE b[j - Len(c)]
    BY <1>3, <1>4, ConcatProperties
<1>7. ASSUME NEW j \in 1..(Len(a) + 1) PROVE t[j] = c[j]
    <2>1. j \in 1..Len(c) + Len(b) /\ j <= Len(c)
        BY <1>1, <1>3
    <2> QED
        BY <1>6, <2>1
<1>8. ASSUME NEW j \in 1..Len(b) PROVE t[Len(a) + 1 + j] = b[j]
    <2>1. PICK k \in 1..Len(c) + Len(b) : k = Len(a) + 1 + j
        BY <1>1, <1>3
    <2>2. ~(k <= Len(c)) /\ k - Len(c) = j
        BY <1>1, <1>3, <2>1
    <2> QED
        BY <1>6, <2>1, <2>2
<1> QED
    BY <1>1, <1>3, <1>5, <1>7, <1>8

\* t is s with e at place i.
HasInserted(S, s, i, e, t) ==
    /\ t \in Seq(S) /\ Len(t) = Len(s) + 1 /\ t[i] = e
    /\ \A j \in 1..(i - 1) : t[j] = s[j]
    /\ \A j \in i..Len(s) : t[j + 1] = s[j]

\* What InsertAt makes of a sequence.
LEMMA InsertAtFacts ==
    ASSUME NEW S, NEW s \in Seq(S), NEW e \in S, NEW i \in 1..(Len(s) + 1)
    PROVE  HasInserted(S, s, i, e, InsertAt(s, i, e))
<1>0. PICK t : t = InsertAt(s, i, e)
    OBVIOUS
<1>1. PICK n : n = Len(s)
    OBVIOUS
<1>2. n \in Nat /\ (\A k \in 1..n : s[k] \in S) /\ i \in 1..(n + 1)
    BY <1>1, LenProperties, ElementOfSeq
<1>3. PICK a : a = SubSeq(s, 1, i - 1)
    OBVIOUS
<1>4. PICK b : b = SubSeq(s, i, n)
    OBVIOUS
<1>5. a \in Seq(S) /\ Len(a) = i - 1 /\ \A j \in 1..(i - 1) : a[j] = s[j]
    <2>1. 1 \in Int /\ i - 1 \in Int /\ \A k \in 1..(i - 1) : k \in 1..n
        BY <1>2
    <2>2. a \in Seq(S)
        BY <1>2, <1>3, <2>1, SubSeqProperties
    <2>3. Len(a) = IF 1 <= i - 1 THEN (i - 1) - 1 + 1 ELSE 0
        BY <1>2, <1>3, <2>1, SubSeqProperties
    <2>4. \A j \in 1..((i - 1) - 1 + 1) : a[j] = s[1 + j - 1]
        BY <1>2, <1>3, <2>1, SubSeqProperties
    <2>5. \A j \in 1..(i - 1) : j \in 1..((i - 1) - 1 + 1) /\ 1 + j - 1 = j
        BY <2>1
    <2>6. Len(a) = i - 1
        BY <1>2, <2>3
    <2> QED
        BY <2>2, <2>4, <2>5, <2>6
<1>6. b \in Seq(S) /\ Len(b) = n - i + 1 /\ \A j \in 1..(n - i + 1) : b[j] = s[i + j - 1]
    <2>1. i \in Int /\ n \in Int /\ \A k \in i..n : k \in 1..n
        BY <1>2
    <2>2. b \in Seq(S)
        BY <1>2, <1>4, <2>1, SubSeqProperties
    <2>3. Len(b) = IF i <= n THEN n - i + 1 ELSE 0
        BY <1>2, <1>4, <2>1, SubSeqProperties
    <2>4. \A j \in 1..(n - i + 1) : b[j] = s[i + j - 1]
        BY <1>2, <1>4, <2>1, SubSeqProperties
    <2>5. Len(b) = n - i + 1
        BY <1>2, <2>3
    <2> QED
        BY <2>2, <2>4, <2>5
<1>7. t = a \o <<e>> \o b
    BY <1>0, <1>1, <1>3, <1>4 DEF InsertAt
<1>8. /\ t \in Seq(S) /\ Len(t) = Len(a) + 1 + Len(b)
      /\ \A j \in 1..Len(a) : t[j] = a[j]
      /\ t[Len(a) + 1] = e
      /\ \A j \in 1..Len(b) : t[Len(a) + 1 + j] = b[j]
    <2>1. a \in Seq(S) /\ b \in Seq(S) /\ e \in S
        BY <1>5, <1>6
    <2> QED
        BY <1>7, <2>1, Between
<1>9. Len(t) = n + 1 /\ Len(a) + 1 = i
    BY <1>2, <1>5, <1>6, <1>8
<1>10. ASSUME NEW j \in i..n PROVE t[j + 1] = s[j]
    <2>1. PICK k \in 1..(n - i + 1) : k = j - i + 1
        BY <1>2
    <2>2. t[Len(a) + 1 + k] = s[i + k - 1]
        BY <1>6, <1>8, <2>1
    <2>3. Len(a) + 1 + k = j + 1 /\ i + k - 1 = j
        BY <1>2, <1>9, <2>1
    <2> QED
        BY <2>2, <2>3
<1> QED
    BY <1>0, <1>1, <1>5, <1>8, <1>9, <1>10 DEF HasInserted

\* A set of positions that holds all those before one it holds is a beginning.
LEMMA Beginning ==
    ASSUME NEW n \in Nat, NEW D \in SUBSET (1..n),
           \A i, j \in 1..n : i < j /\ j \in D => i \in D
    PROVE  Cardinality(D) \in 0..n /\ D = 1..Cardinality(D)
<1>1. IsFiniteSet(1..n) /\ Cardinality(1..n) = n
    BY FS_Interval
<1>2. IsFiniteSet(D) /\ Cardinality(D) <= n
    BY <1>1, FS_Subset
<1>3. PICK c : c = Cardinality(D)
    OBVIOUS
<1>4. c \in Nat /\ c <= n
    BY <1>2, <1>3, FS_CardinalityType
<1>5. ASSUME NEW i \in D, ~(i <= c) PROVE FALSE
    <2>1. i \in 1..n /\ \A j \in 1..i : j \in D
        BY <1>5
    <2>2. (1..i) \in SUBSET D /\ Cardinality(1..i) = i
        BY <2>1, FS_Interval
    <2>3. i <= c
        BY <1>2, <1>3, <2>2, FS_Subset
    <2> QED
        BY <1>5, <2>3
<1>6. D \in SUBSET (1..c)
    BY <1>4, <1>5
<1>7. IsFiniteSet(1..c) /\ Cardinality(1..c) = c
    BY <1>4, FS_Interval
<1>8. D = 1..c
    BY <1>3, <1>6, <1>7, FS_Subset
<1> QED
    BY <1>3, <1>4, <1>8

-----------------------------------------------------------------------------
(* Comparisons                                                             *)

\* A state in which the answers of the root are compared.
Comparing ==
    /\ TypeOK /\ Len(stack) = 1 /\ comparator = Chosen
    /\ \A rid \in DOMAIN Root : keys[rid] \in KeyValues(rid)

\* The answers of the root.
LEMMA RootOk ==
    ASSUME TypeOK, Len(stack) = 1
    PROVE  /\ DOMAIN Root \subseteq Rids
           /\ \A rid \in DOMAIN Root : AnswerOk(rid, Root[rid])
BY DEF TypeOK, Root

\* The values a key may have, if it is read at all, are numbers.
LEMMA KeysAreNumbers ==
    ASSUME Comparing, NEW rid \in DOMAIN Root, comparator \in FieldComparators, Comparable(rid)
    PROVE  keys[rid] \in Int
<1>1. keys[rid] \in KeyValues(rid) /\ comparator = Chosen
    BY DEF Comparing
<1>2. Root[rid].key \in Int \/ Root[rid].key = NoKey
    BY RootOk DEF Comparing, AnswerOk, Keys
<1>3. CASE sort.zero /\ Root[rid].key = NoKey
    BY <1>1, <1>3, DataboxAssumption DEF KeyValues
<1>4. CASE ~(sort.zero /\ Root[rid].key = NoKey)
    <2>1. keys[rid] = Root[rid].key
        BY <1>1, <1>4 DEF KeyValues
    <2>2. CASE sort.zero
        BY <1>2, <1>4, <2>1, <2>2
    <2>3. CASE ~sort.zero
        <3>1. comparator \in {"str_asc", "str_desc"}
            BY <1>1, <2>3 DEF Chosen, FieldComparators
        <3> QED
            BY <1>2, <2>1, <3>1 DEF Comparable
    <2> QED
        BY <2>2, <2>3
<1> QED
    BY <1>3, <1>4

\* What an order by sha2 compares is the one of the record.
LEMMA ShaWeight ==
    ASSUME Comparing, NEW rid \in DOMAIN Root, comparator = "sha", Comparable(rid)
    PROVE  /\ Root[rid].sha = Sha[rid] /\ Weight(rid) \in Int
           /\ Sha[rid] = {Weight(rid)}
<1>1. Root[rid].sha # {}
    BY DEF Comparable
<1>2. rid \in Rids /\ Root[rid].sha \in {{}, Sha[rid]}
    BY RootOk DEF Comparing, AnswerOk
<1>3. Root[rid].sha = Sha[rid] /\ Sha[rid] # {}
    BY <1>1, <1>2
<1>4. Sha[rid] \subseteq Int /\ \A x, y \in Sha[rid] : x = y
    BY <1>2, DataboxAssumption
<1>5. Weight(rid) = CHOOSE x \in Sha[rid] : TRUE
    BY <1>3 DEF Weight
<1>6. Weight(rid) \in Sha[rid]
    BY <1>3, <1>5
<1> QED
    BY <1>3, <1>4, <1>6

\* The comparators compare weights.
LEMMA BeforeWeighs ==
    ASSUME Comparing, NEW a \in DOMAIN Root, NEW b \in DOMAIN Root,
           Comparable(a), Comparable(b)
    PROVE  /\ Weight(a) \in Int /\ Weight(b) \in Int
           /\ Before(a, b) <=> Weight(a) > Weight(b)
<1>1. comparator \in FieldComparators \cup {"sha", "rid_desc"}
    BY DEF Comparing, TypeOK
<1>2. CASE comparator = "sha"
    <2>1. /\ Root[a].sha = {Weight(a)} /\ Root[b].sha = {Weight(b)}
          /\ Weight(a) \in Int /\ Weight(b) \in Int
        BY <1>2, ShaWeight
    <2>2. Before(a, b) <=> \E x \in Root[a].sha, y \in Root[b].sha : x > y
        BY <1>2 DEF Before
    <2> QED
        BY <2>1, <2>2
<1>3. CASE comparator \in FieldComparators
    <2>1. keys[a] \in Int /\ keys[b] \in Int
        BY <1>3, KeysAreNumbers
    <2>2. CASE comparator = "str_asc"
        BY <2>1, <2>2 DEF Before, Weight
    <2>3. CASE comparator = "str_desc"
        BY <2>1, <2>3 DEF Before, Weight
    <2>4. CASE comparator = "int_asc"
        BY <2>1, <2>4 DEF Before, Weight
    <2>5. CASE comparator = "int_desc"
        BY <2>1, <2>5 DEF Before, Weight
    <2> QED
        BY <1>3, <2>2, <2>3, <2>4, <2>5 DEF FieldComparators
<1>4. CASE comparator = "rid_desc"
    BY <1>4 DEF Before, Weight
<1> QED
    BY <1>1, <1>2, <1>3, <1>4

\* Weights, the order and what is comparable depend on the root, the comparator
\* and the keys, which nothing changes during the sort.
LEMMA SameOrder ==
    ASSUME stack' = stack, comparator' = comparator, keys' = keys
    PROVE  /\ Root' = Root
           /\ \A a : Comparable(a)' = Comparable(a)
           /\ \A a, b : InOrder(a, b)' = InOrder(a, b)
<1>1. Root' = Root
    BY DEF Root
<1>2. \A a : Weight(a)' = Weight(a)
    BY <1>1 DEF Weight
<1>3. \A a : Comparable(a)' = Comparable(a)
    BY <1>1 DEF Comparable
<1> QED
    BY <1>1, <1>2, <1>3 DEF InOrder

-----------------------------------------------------------------------------
(* One answer is sorted                                                    *)

\* The answers that rid goes after are the first ones.
LEMMA AfterTheFirst ==
    ASSUME Comparing, sorted \in Seq(DOMAIN Root), Ordered, NEW rid \in DOMAIN Root,
           sorted = << >> \/ (Comparable(rid) /\ \A i \in DOMAIN sorted : Comparable(sorted[i])),
           NEW n, n = Len(sorted)
    PROVE  \E c \in 0..n :
              /\ Insert(rid) = InsertAt(sorted, c + 1, rid)
              /\ \A i \in 1..c : ~Before(rid, sorted[i])
              /\ \A i \in (c + 1)..n : Before(rid, sorted[i])
<1> DEFINE D == {i \in 1..n : ~Before(rid, sorted[i])}
<1>1. n \in Nat /\ DOMAIN sorted = 1..n /\ \A i \in 1..n : sorted[i] \in DOMAIN Root
    BY LenProperties, ElementOfSeq
<1>2. ASSUME NEW i \in 1..n, NEW j \in 1..n, i < j, ~Before(rid, sorted[j])
      PROVE  ~Before(rid, sorted[i])
    <2>1. n > 1
        BY <1>1, <1>2
    <2>2. sorted # << >>
        BY <2>1
    <2>3. Comparable(rid) /\ Comparable(sorted[i]) /\ Comparable(sorted[j])
        BY <1>1, <2>2
    <2>4. InOrder(sorted[i], sorted[j])
        BY <1>2, <2>1 DEF Ordered
    <2>5. /\ Weight(rid) \in Int /\ Weight(sorted[j]) \in Int
          /\ Before(rid, sorted[j]) <=> Weight(rid) > Weight(sorted[j])
        BY <1>1, <2>3, BeforeWeighs
    <2>6. /\ Weight(sorted[i]) \in Int
          /\ Before(rid, sorted[i]) <=> Weight(rid) > Weight(sorted[i])
        BY <1>1, <2>3, BeforeWeighs
    <2>7. Weight(sorted[i]) >= Weight(sorted[j])
        BY <2>4, <2>5, <2>6 DEF InOrder
    <2> QED
        BY <1>2, <2>5, <2>6, <2>7
<1>3. D \in SUBSET (1..n) /\ \A i, j \in 1..n : i < j /\ j \in D => i \in D
    BY <1>2
<1>4. Insert(rid) = InsertAt(sorted, Cardinality(D) + 1, rid)
    BY DEF Insert
<1>5. \A i \in 1..n : i \in D <=> ~Before(rid, sorted[i])
    OBVIOUS
<1> HIDE DEF D
<1>6. PICK c : c = Cardinality(D)
    OBVIOUS
<1>7. c \in 0..n /\ D = 1..c
    BY <1>1, <1>3, <1>6, Beginning
<1>8. \A i \in 1..c : i \in 1..n /\ i \in D
    BY <1>1, <1>7
<1>9. \A i \in (c + 1)..n : i \in 1..n /\ i \notin D
    BY <1>1, <1>7
<1> QED
    BY <1>4, <1>5, <1>6, <1>7, <1>8, <1>9

\* t holds the sorted answers and rid, in order if there is more than one.
SortedWith(rid, t) ==
    /\ t \in Seq(DOMAIN Root) /\ Len(t) = Len(sorted) + 1
    /\ {t[i] : i \in 1..Len(t)} = {sorted[i] : i \in 1..Len(sorted)} \cup {rid}
    /\ Len(t) > 1 =>
          /\ \A i \in 1..Len(t) : Comparable(t[i])
          /\ \A i, j \in 1..Len(t) : i < j => InOrder(t[i], t[j])

\* An insertion adds the answer, and keeps the order if it has a smaller
\* record_id than those sorted.
LEMMA InsertOrdered ==
    ASSUME Comparing, sorted \in Seq(DOMAIN Root), Ordered, NEW rid \in DOMAIN Root,
           sorted = << >> \/ (Comparable(rid) /\ \A i \in DOMAIN sorted : Comparable(sorted[i])),
           \A i \in 1..Len(sorted) : sorted[i] > rid
    PROVE  SortedWith(rid, Insert(rid))
<1>0. PICK t : t = Insert(rid)
    OBVIOUS
<1>1. PICK n : n = Len(sorted)
    OBVIOUS
<1>2. n \in Nat /\ DOMAIN sorted = 1..n /\ \A i \in 1..n : sorted[i] \in DOMAIN Root
    BY <1>1, LenProperties, ElementOfSeq
<1>3. PICK c \in 0..n :
          /\ Insert(rid) = InsertAt(sorted, c + 1, rid)
          /\ \A i \in 1..c : ~Before(rid, sorted[i])
          /\ \A i \in (c + 1)..n : Before(rid, sorted[i])
    BY <1>1, AfterTheFirst
<1>4. c + 1 \in 1..(n + 1) /\ c + 1 - 1 = c
    BY <1>2, <1>3
<1>5. /\ t \in Seq(DOMAIN Root) /\ Len(t) = n + 1 /\ t[c + 1] = rid
      /\ \A j \in 1..(c + 1 - 1) : t[j] = sorted[j]
      /\ \A j \in (c + 1)..n : t[j + 1] = sorted[j]
    <2>1. c + 1 \in 1..(Len(sorted) + 1) /\ t = InsertAt(sorted, c + 1, rid)
        BY <1>0, <1>1, <1>3, <1>4
    <2>2. HasInserted(DOMAIN Root, sorted, c + 1, rid, t)
        BY <2>1, InsertAtFacts
    <2> QED
        BY <1>1, <2>2 DEF HasInserted
\* Where each element of t comes from, without changing the order.
<1> DEFINE o(j) == IF j <= c THEN j ELSE j - 1
<1>6. ASSUME NEW j \in 1..(n + 1), j # c + 1
      PROVE  o(j) \in 1..n /\ t[j] = sorted[o(j)]
    <2>1. CASE j <= c
        BY <1>2, <1>3, <1>4, <1>5, <2>1
    <2>2. CASE ~(j <= c)
        <3>1. PICK k \in (c + 1)..n : j = k + 1
            <4>1. j - 1 \in (c + 1)..n /\ j = (j - 1) + 1
                BY <1>2, <1>3, <1>6, <2>2
            <4> QED
                BY <4>1
        <3>2. t[k + 1] = sorted[k] /\ o(j) = k
            BY <1>2, <1>3, <1>5, <2>2, <3>1
        <3> QED
            BY <1>2, <1>3, <3>1, <3>2
    <2> QED
        BY <2>1, <2>2
<1>7. {t[i] : i \in 1..Len(t)} = {sorted[i] : i \in 1..n} \cup {rid}
    <2>1. ASSUME NEW i \in 1..(n + 1) PROVE t[i] \in {sorted[k] : k \in 1..n} \cup {rid}
        BY <1>5, <1>6
    <2>2. ASSUME NEW k \in 1..n PROVE \E i \in 1..(n + 1) : t[i] = sorted[k]
        <3>1. CASE k <= c
            <4>1. k \in 1..(c + 1 - 1) /\ k \in 1..(n + 1)
                BY <1>2, <1>3, <1>4, <3>1
            <4> QED
                BY <1>5, <4>1
        <3>2. CASE ~(k <= c)
            <4>1. k \in (c + 1)..n /\ k + 1 \in 1..(n + 1)
                BY <1>2, <1>3, <3>2
            <4> QED
                BY <1>5, <4>1
        <3> QED
            BY <3>1, <3>2
    <2>3. rid \in {t[i] : i \in 1..(n + 1)}
        BY <1>4, <1>5
    <2> QED
        BY <1>5, <2>1, <2>2, <2>3
<1>8. ASSUME Len(t) > 1
      PROVE  /\ \A i \in 1..(n + 1) : Comparable(t[i])
             /\ \A i, j \in 1..(n + 1) : i < j => InOrder(t[i], t[j])
    <2>1. n >= 1 /\ sorted # << >>
        BY <1>1, <1>2, <1>5, <1>8
    <2>2. Comparable(rid) /\ \A i \in 1..n : Comparable(sorted[i])
        BY <1>2, <2>1
    <2>3. ASSUME NEW i \in 1..n
          PROVE  /\ Weight(rid) \in Int /\ Weight(sorted[i]) \in Int
                 /\ Before(rid, sorted[i]) <=> Weight(rid) > Weight(sorted[i])
        BY <1>2, <2>2, BeforeWeighs
    <2>4. ASSUME NEW i \in 1..(n + 1), NEW j \in 1..(n + 1), i < j
          PROVE  InOrder(t[i], t[j])
        <3>1. CASE j = c + 1
            <4>1. i \in 1..c /\ i \in 1..n /\ t[i] = sorted[i] /\ t[j] = rid
                BY <1>2, <1>3, <1>4, <1>5, <2>4, <3>1
            <4>2. ~Before(rid, sorted[i]) /\ sorted[i] > rid
                BY <1>1, <1>3, <4>1
            <4>3. Weight(sorted[i]) >= Weight(rid)
                BY <2>3, <4>1, <4>2
            <4> QED
                BY <2>3, <4>1, <4>2, <4>3 DEF InOrder
        <3>2. CASE i = c + 1
            <4>1. j # c + 1 /\ o(j) = j - 1 /\ j - 1 \in (c + 1)..n /\ j - 1 \in 1..n
                BY <1>2, <1>3, <2>4, <3>2
            <4>2. t[j] = sorted[j - 1] /\ t[i] = rid
                BY <1>5, <1>6, <3>2, <4>1
            <4>3. Weight(rid) > Weight(sorted[j - 1])
                BY <1>3, <2>3, <4>1
            <4> QED
                BY <4>2, <4>3 DEF InOrder
        <3>3. CASE i # c + 1 /\ j # c + 1
            <4>1. o(i) \in 1..n /\ t[i] = sorted[o(i)] /\ o(j) \in 1..n /\ t[j] = sorted[o(j)]
                BY <1>6, <3>3
            <4>2. o(i) < o(j)
                BY <1>2, <1>3, <2>4, <3>3
            <4> HIDE DEF o
            <4>3. Len(sorted) > 1
                BY <1>1, <1>2, <4>1, <4>2
            <4>4. InOrder(sorted[o(i)], sorted[o(j)])
                BY <1>1, <4>1, <4>2, <4>3 DEF Ordered
            <4> QED
                BY <4>1, <4>4
        <3> QED
            BY <3>1, <3>2, <3>3
    <2>5. ASSUME NEW i \in 1..(n + 1) PROVE Comparable(t[i])
        <3>1. CASE i = c + 1
            BY <1>5, <2>2, <3>1
        <3>2. CASE i # c + 1
            BY <1>6, <2>2, <3>2
        <3> QED
            BY <3>1, <3>2
    <2> QED
        BY <2>4, <2>5
<1> QED
    BY <1>0, <1>1, <1>5, <1>7, <1>8 DEF SortedWith

-----------------------------------------------------------------------------
(* The list grows in order                                                 *)

\* Sort: the next answer of the root is inserted, or the call ends.
LEMMA SortOrders ==
    ASSUME TypeOK, Counted, Ordered, Sort
    PROVE  Counted' /\ Ordered'
<1>1. /\ pc = "sort" /\ stack' = stack /\ sort' = sort /\ noCache' = noCache
      /\ comparator' = comparator /\ keys' = keys /\ written' = written
    BY DEF Sort, Evaluated
<1>2. /\ Len(stack) = 1 /\ comparator = Chosen
      /\ \A rid \in DOMAIN Root : keys[rid] \in KeyValues(rid)
      /\ pending \cup {sorted[i] : i \in 1..Len(sorted)} = DOMAIN Root
      /\ Len(sorted) + Cardinality(pending) = Cardinality(DOMAIN Root)
      /\ \A i \in 1..Len(sorted) : \A rid \in pending : sorted[i] > rid
    BY <1>1 DEF Counted, Running
<1>3. Comparing
    BY <1>2 DEF Comparing
<1>4. /\ Root' = Root /\ Chosen' = Chosen
      /\ \A rid \in DOMAIN Root : KeyValues(rid)' = KeyValues(rid)
    BY <1>1 DEF Root, Chosen, KeyValues, SortOrder
<1>5. /\ \A a : Comparable(a)' = Comparable(a)
      /\ \A a, b : InOrder(a, b)' = InOrder(a, b)
    BY <1>1, SameOrder
<1>6. PICK rid \in pending :
          /\ \A other \in pending : rid >= other
          /\ pending' = pending \ {rid}
          /\ \/ /\ sorted = << >>
                      \/ (Comparable(rid) /\ \A i \in DOMAIN sorted : Comparable(sorted[i]))
                /\ sorted' = Insert(rid) /\ pc' = pc
             \/ sorted' = sorted /\ pc' = "segfault"
    BY DEF Sort
<1>7. /\ written \in Seq([rid : Rids, bid : Int \ {0}]) /\ sorted \in Seq(Rids)
      /\ Len(written) \in Nat /\ Len(sorted) \in Nat /\ DOMAIN Root \subseteq Rids
    BY <1>2, RootOk, LenProperties DEF TypeOK
<1>8. Len(written) = 0
    BY <1>6, <1>7 DEF Counted
<1>9. CASE sorted' = sorted /\ pc' = "segfault"
    <2>1. ~Running'
        BY <1>9 DEF Running
    <2>2. Ordered'
        BY <1>5, <1>9 DEF Ordered
    <2> QED
        BY <1>1, <1>2, <1>8, <1>9, <2>1, <2>2 DEF Counted
<1>10. CASE /\ sorted = << >>
                  \/ (Comparable(rid) /\ \A i \in DOMAIN sorted : Comparable(sorted[i]))
            /\ sorted' = Insert(rid) /\ pc' = pc
    <2>1. sorted \in Seq(DOMAIN Root)
        <3>1. sorted \in [1..Len(sorted) -> DOMAIN Root]
            BY <1>2, <1>7, LenProperties
        <3> QED
            BY <1>7, <3>1
    <2>2. rid \in DOMAIN Root
        BY <1>2, <1>6
    <2>3. \A i \in 1..Len(sorted) : sorted[i] > rid
        BY <1>2, <1>6
    <2>a. SortedWith(rid, Insert(rid))
        BY <1>3, <1>10, <2>1, <2>2, <2>3, InsertOrdered
    <2>4. /\ sorted' \in Seq(DOMAIN Root) /\ Len(sorted') = Len(sorted) + 1
          /\ {sorted'[i] : i \in 1..Len(sorted')} = {sorted[i] : i \in 1..Len(sorted)} \cup {rid}
          /\ Len(sorted') > 1 =>
                /\ \A i \in 1..Len(sorted') : Comparable(sorted'[i])
                /\ \A i, j \in 1..Len(sorted') : i < j => InOrder(sorted'[i], sorted'[j])
        BY <1>10, <2>a DEF SortedWith
    <2>5. Ordered'
        BY <1>5, <2>4 DEF Ordered
    <2>6. pending' \cup {sorted'[i] : i \in 1..Len(sorted')} = DOMAIN Root
        BY <1>2, <1>6, <2>4
    <2>7. Len(sorted') + Cardinality(pending') = Cardinality(DOMAIN Root)
        <3>1. IsFiniteSet(pending)
            BY <1>2, <1>7, FS_Subset, DataboxAssumption
        <3>2. Cardinality(pending') = Cardinality(pending) - 1 /\ Cardinality(pending) \in Nat
            BY <1>6, <3>1, FS_RemoveElement, FS_CardinalityType
        <3> QED
            BY <1>2, <1>7, <2>4, <3>2
    <2>8. \A i \in 1..Len(sorted') : \A other \in pending' : sorted'[i] > other
        <3>1. SUFFICES ASSUME NEW i \in 1..Len(sorted'), NEW other \in pending'
                       PROVE  sorted'[i] > other
            OBVIOUS
        <3>2. sorted'[i] \in {sorted[k] : k \in 1..Len(sorted)} \/ sorted'[i] = rid
            BY <2>4
        <3>3. other \in pending /\ other # rid /\ rid >= other
            BY <1>6
        <3>4. rid \in Int /\ other \in Int
            BY <1>2, <1>7, <2>2, <3>3, DataboxAssumption
        <3>5. rid > other
            BY <3>3, <3>4
        <3> QED
            BY <1>2, <3>2, <3>3, <3>5
    <2>9. Len(written') <= Len(sorted')
        BY <1>1, <1>7, <1>8, <2>4
    <2>10. /\ \A i \in 1..Len(written') : written'[i].rid = sorted'[i]
           /\ ~(Len(written') > 0)
        BY <1>1, <1>8
    <2>11. pc' = "sort"
        BY <1>1, <1>10
    <2>12. Len(stack') = 1 /\ comparator' = Chosen'
           /\ \A x \in DOMAIN Root' : keys'[x] \in KeyValues(x)'
        BY <1>1, <1>2, <1>4
    <2>13. ~noCache'
        BY <1>1 DEF Counted
    <2> QED
        BY <1>4, <2>5, <2>6, <2>7, <2>8, <2>9, <2>10, <2>11, <2>12, <2>13 DEF Counted
<1> QED
    BY <1>6, <1>9, <1>10

\* Write: the next sorted answer is written, or the call returns.
LEMMA WriteOrders ==
    ASSUME TypeOK, Counted, Ordered, Write
    PROVE  Counted' /\ Ordered'
<1>1. /\ pc = "sort" /\ pending = {} /\ stack' = stack /\ sort' = sort /\ noCache' = noCache
      /\ comparator' = comparator /\ keys' = keys /\ pending' = pending /\ sorted' = sorted
    BY DEF Write, Evaluated
<1>2. /\ Root' = Root /\ Chosen' = Chosen
      /\ \A rid \in DOMAIN Root : KeyValues(rid)' = KeyValues(rid)
    BY <1>1 DEF Root, Chosen, KeyValues, SortOrder
<1>3. Ordered'
    BY <1>1, SameOrder DEF Ordered
<1>4. /\ Len(stack) = 1 /\ comparator = Chosen
      /\ \A rid \in DOMAIN Root : keys[rid] \in KeyValues(rid)
      /\ pending \cup {sorted[i] : i \in 1..Len(sorted)} = DOMAIN Root
      /\ Len(sorted) + Cardinality(pending) = Cardinality(DOMAIN Root)
      /\ \A i \in 1..Len(sorted) : \A rid \in pending : sorted[i] > rid
      /\ Len(written) <= Len(sorted)
      /\ \A i \in 1..Len(written) : written[i].rid = sorted[i]
    BY <1>1 DEF Counted, Running
<1>5. /\ written \in Seq([rid : Rids, bid : Int \ {0}])
      /\ Len(written) \in Nat /\ Len(sorted) \in Nat
    BY LenProperties DEF TypeOK
<1>6. CASE Len(written) < Len(sorted)
    <2> DEFINE n == Len(written)
               rid == sorted[n + 1]
               w   == [rid |-> rid, bid |-> CurrentBid(rid)]
    <2>1. written' = Append(written, w) /\ pc' = pc
        BY <1>6 DEF Write
    <2>2. w.rid = rid
        OBVIOUS
    <2>3. written \in Seq(Range(written))
        BY <1>5, SeqOfItself
    <2> HIDE DEF w
    <2>4. /\ Len(written') = n + 1 /\ written'[n + 1] = w
          /\ \A i \in 1..n : written'[i] = written[i]
        BY <2>1, <2>3, Pushed
    <2>5. n + 1 <= Len(sorted) /\ \A i \in 1..(n + 1) : i \in 1..n \/ i = n + 1
        BY <1>5, <1>6
    <2>6. \A i \in 1..(n + 1) : written'[i].rid = sorted[i]
        BY <1>4, <2>2, <2>4, <2>5
    <2> HIDE DEF n, rid
    <2>7. Counted'
        BY <1>1, <1>2, <1>4, <2>1, <2>4, <2>5, <2>6 DEF Counted
    <2> QED
        BY <1>3, <2>7
<1>7. CASE ~(Len(written) < Len(sorted))
    <2>1. written' = written /\ pc' = "done" /\ Len(written) = Len(sorted)
        BY <1>4, <1>5, <1>7 DEF Write
    <2>2. Counted'
        BY <1>1, <1>2, <1>4, <2>1 DEF Counted
    <2> QED
        BY <1>3, <2>2
<1> QED
    BY <1>6, <1>7

\* Every step keeps what is counted and ordered.
LEMMA OrderNext ==
    ASSUME TypeOK, Counted, Ordered, [Next]_vars
    PROVE  Counted' /\ Ordered'
<1>0. Len(written) \in Nat /\ sorted \in Seq(Rids)
    BY LenProperties DEF TypeOK
<1>1. CASE Leaf \/ Operator
    <2>1. /\ pc = "eval" /\ pc' = "eval" /\ sorted' = sorted /\ written' = written
          /\ pending' = pending
        BY <1>1 DEF Leaf, Operator
    <2>2. sorted = << >>
        BY <2>1 DEF Counted
    <2> QED
        BY <2>1, <2>2 DEF Counted, Ordered, Running
<1>2. CASE Count
    <2>1. /\ pc = "eval" /\ sorted' = sorted /\ written' = written /\ stack' = stack
          /\ sort' = sort /\ noCache' = noCache /\ Len(stack) = 1
        BY <1>2 DEF Count, Evaluated
    <2>2. sorted = << >> /\ Len(written) = 0
        <3>1. sorted = << >>
            BY <2>1 DEF Counted
        <3> QED
            BY <1>0, <3>1 DEF Counted
    <2>3. Ordered'
        BY <2>1, <2>2 DEF Ordered
    <2>4. CASE noCache
        <3>1. pc' = "done"
            BY <1>2, <2>4 DEF Count
        <3> QED
            BY <2>1, <2>2, <2>3, <2>4, <3>1 DEF Counted, Running
    <2>5. CASE ~noCache
        <3>1. /\ pc' = "sort" /\ comparator' = Chosen /\ pending' = DOMAIN Root
              /\ \A rid \in DOMAIN Root : keys'[rid] \in KeyValues(rid)
            BY <1>2, <2>5 DEF Count
        <3>2. /\ Root' = Root /\ Chosen' = Chosen
              /\ \A rid \in DOMAIN Root : KeyValues(rid)' = KeyValues(rid)
            BY <2>1 DEF Root, Chosen, KeyValues, SortOrder
        <3>3. 0 + Cardinality(DOMAIN Root) = Cardinality(DOMAIN Root)
            <4>1. IsFiniteSet(DOMAIN Root)
                BY <2>1, RootOk, FS_Subset, DataboxAssumption
            <4>2. Cardinality(DOMAIN Root) \in Nat
                BY <4>1, FS_CardinalityType
            <4> QED
                BY <4>2
        <3>4. /\ Len(sorted') = 0 /\ Len(written') = 0
              /\ pending' \cup {sorted'[i] : i \in 1..Len(sorted')} = DOMAIN Root'
            <4>1. Len(sorted') = 0 /\ Len(written') = 0 /\ pending' = DOMAIN Root'
                BY <2>1, <2>2, <3>1, <3>2
            <4>2. {sorted'[i] : i \in 1..Len(sorted')} = {}
                BY <4>1
            <4> QED
                BY <4>1, <4>2
        <3>5. Len(sorted') + Cardinality(pending') = Cardinality(DOMAIN Root')
            BY <3>1, <3>2, <3>3, <3>4
        <3>6. Len(stack') = 1 /\ comparator' = Chosen'
              /\ \A x \in DOMAIN Root' : keys'[x] \in KeyValues(x)'
            BY <2>1, <3>1, <3>2
        <3> QED
            BY <2>1, <2>3, <2>5, <3>1, <3>4, <3>5, <3>6 DEF Counted
    <2> QED
        BY <2>4, <2>5
<1>3. CASE UNCHANGED vars
    <2>1. /\ Root' = Root /\ Chosen' = Chosen
          /\ \A rid \in DOMAIN Root : KeyValues(rid)' = KeyValues(rid)
        BY <1>3 DEF vars, Root, Chosen, KeyValues, SortOrder
    <2>2. Ordered'
        BY <1>3, SameOrder DEF vars, Ordered
    <2>3. Counted'
        BY <1>3, <2>1 DEF vars, Counted, Running
    <2> QED
        BY <2>2, <2>3
<1> QED
    BY <1>1, <1>2, <1>3, SortOrders, WriteOrders DEF Next

-----------------------------------------------------------------------------
(* The keys are those of the records                                       *)

OwnKeys(f) == \A rid \in DOMAIN f : HasKey(rid) /\ f[rid].key = KeyRead(rid)

\* An operator takes the key of an answer from one of its branches.
LEMMA CombineOwnKeys ==
    ASSUME NEW type \in Operators, NEW prox, NEW l, NEW r,
           NodeOk(l), NodeOk(r), OwnKeys(l), OwnKeys(r), NEW f, f = Combine(type, prox, l, r)
    PROVE  OwnKeys(f)
<1>1. /\ \A rid \in DOMAIN l : AnswerOk(rid, l[rid])
      /\ \A rid \in DOMAIN r : AnswerOk(rid, r[rid])
    BY DEF NodeOk
<1>2. \A rid \in DOMAIN f : \/ rid \in DOMAIN l /\ f[rid].key = l[rid].key
                            \/ rid \in DOMAIN r /\ f[rid].key = r[rid].key
    BY <1>1, CombineOk
<1> QED
    BY <1>2 DEF OwnKeys

\* The evaluation gives every answer the key of its record.
LEMMA KeysAreOwnNext ==
    ASSUME TypeOK, KeysOnTheWay, KeysAreOwn, [Next]_vars
    PROVE  KeysAreOwn'
<1>1. sort' = sort /\ query' = query
    BY DEF Next, Leaf, Operator, Count, Sort, Write, Evaluated, vars
<1>2. SUFFICES ASSUME ~Tuples, sort.field
               PROVE  \A i \in 1..Len(stack') : OwnKeys(stack'[i])
    BY <1>1 DEF KeysAreOwn, OwnKeys, Tuples, LeavesOf, KeyRead
<1>3. \A i \in 1..Len(stack) : OwnKeys(stack[i])
    BY <1>2 DEF KeysAreOwn, OwnKeys
<1>4. joined = sort.field /\ LeavesOf(rest) \subseteq LeavesOf(query)
    BY <1>2 DEF KeysOnTheWay
<1>5. StackOk(stack, plain) /\ rest \in Seq(DOMAIN Leaves \cup Operators)
    BY TypeSplit DEF OtherOk
<1>6. stack \in Seq(Range(stack)) /\ Len(stack) \in Nat
      /\ \A i \in 1..Len(stack) : NodeOk(stack[i])
    BY <1>5, LenProperties DEF StackOk
<1>7. CASE Leaf
    <2> DEFINE leaf == Leaves[Head(rest)]
               key  == ReadsKey(leaf)
    <2>1. leaf \in LeavesOf(rest) /\ leaf.kind \in Kinds
        BY <1>5, <1>7, LeavesLeft, QueryAssumption DEF Leaf
    <2>2. leaf.kind # "tuples"
        BY <1>2, <1>4, <2>1 DEF Tuples
    <2>3. key
        BY <1>2, <1>4, <2>2 DEF ReadsKey
    <2>4. \E rows \in Rows(leaf, key) :
              stack' = Append(stack, [rid \in rows |-> AnswerOf(leaf, rid, key)])
        BY <1>7 DEF Leaf
    <2> HIDE DEF leaf, key
    <2>4a. PICK rows \in Rows(leaf, key) :
              stack' = Append(stack, [rid \in rows |-> AnswerOf(leaf, rid, key)])
        BY <2>4
    <2>5. PICK f : f = [rid \in rows |-> AnswerOf(leaf, rid, key)] /\ stack' = Append(stack, f)
        BY <2>4a
    <2>6. \A rid \in rows : HasKey(rid)
        BY <2>1, <2>2, <2>3, RowsOk
    <2>7. OwnKeys(f)
        <3>1. \A rid \in rows : AnswerOf(leaf, rid, key).key = KeyRead(rid)
            BY <2>3 DEF AnswerOf
        <3> QED
            BY <2>5, <2>6, <3>1 DEF OwnKeys
    <2>8. PICK n : n = Len(stack)
        OBVIOUS
    <2>9. /\ Len(stack') = n + 1 /\ stack'[n + 1] = f
          /\ \A i \in 1..n : stack'[i] = stack[i]
        BY <1>6, <2>5, <2>8, Pushed
    <2>10. \A i \in 1..(n + 1) : i \in 1..n \/ i = n + 1
        BY <1>6, <2>8
    <2> QED
        BY <1>3, <2>7, <2>8, <2>9, <2>10
<1>8. CASE Operator
    <2>1. Len(stack) >= 2
        BY <1>8 DEF Operator
    <2>2. PICK type \in Operators :
              stack' = Append(SubSeq(stack, 1, Len(stack) - 2),
                              Combine(type, Prox, stack[Len(stack) - 1], stack[Len(stack)]))
        BY <1>5, <1>8, OperatorStep
    <2>3. PICK n, f : n = Len(stack) /\ f = Combine(type, Prox, stack[n - 1], stack[n])
        OBVIOUS
    <2>4. n - 1 \in 1..n /\ n \in 1..n
        BY <1>6, <2>1, <2>3
    <2>5. OwnKeys(f)
        BY <1>3, <1>6, <2>3, <2>4, CombineOwnKeys
    <2>6. PICK new : new = Append(SubSeq(stack, 1, n - 2), f)
        OBVIOUS
    <2>7. Len(new) = n - 1 /\ new[n - 1] = f /\ \A i \in 1..(n - 2) : new[i] = stack[i]
        BY <1>6, <2>1, <2>3, <2>6, Replaced
    <2>8. stack' = new
        BY <2>2, <2>3, <2>6
    <2>9. \A i \in 1..(n - 1) : (i \in 1..(n - 2) /\ i \in 1..n) \/ i = n - 1
        BY <1>6, <2>1, <2>3
    <2> QED
        BY <1>3, <2>3, <2>5, <2>7, <2>8, <2>9
<1>9. CASE Count \/ Sort \/ Write \/ UNCHANGED vars
    BY <1>3, <1>9 DEF Count, Sort, Write, Evaluated, vars
<1> QED
    BY <1>7, <1>8, <1>9 DEF Next

-----------------------------------------------------------------------------
(* The theorems                                                            *)

\* OrderInvariant: the multiset phrasea_query2 sorts with holds the answers of the
\* root already taken, in the order of its comparator and then by descending record_id.
THEOREM OrderInvariant == Spec => []OrderInv
<1>1. Init => OrderInv
    BY DEF Init, OrderInv, Counted, Ordered, KeysAreOwn, Running
<1>2. TypeOK /\ SortInv /\ OrderInv /\ [Next]_vars => OrderInv'
    BY OrderNext, KeysAreOwnNext DEF OrderInv, SortInv
<1> QED
    BY <1>1, <1>2, QueryTypes, SortInvariant, PTL DEF Spec

\* WholeAlways: the loop that writes the answers writes those of the root, each of
\* them once, whatever the comparator finds equal.
THEOREM WholeAlways == Spec => []WholeResult
<1>1. TypeOK /\ OrderInv => WholeResult
    <2>1. SUFFICES ASSUME TypeOK, OrderInv, pc = "done", ~noCache
                   PROVE  /\ {written[i].rid : i \in DOMAIN written} = DOMAIN Root
                          /\ Len(written) = Cardinality(DOMAIN Root)
        BY DEF WholeResult
    <2>2. /\ pending = {} /\ Len(written) = Len(sorted)
          /\ pending \cup {sorted[i] : i \in 1..Len(sorted)} = DOMAIN Root
          /\ Len(sorted) + Cardinality(pending) = Cardinality(DOMAIN Root)
          /\ \A i \in 1..Len(written) : written[i].rid = sorted[i]
        BY <2>1 DEF OrderInv, Counted, Running
    <2>3. DOMAIN written = 1..Len(written) /\ Len(written) \in Nat
        BY <2>1, LenProperties DEF TypeOK
    <2>4. Cardinality(pending) = 0
        BY <2>2, FS_EmptySet
    <2>5. Len(written) = Cardinality(DOMAIN Root)
        BY <2>2, <2>3, <2>4
    <2>6. {written[i].rid : i \in DOMAIN written} = {sorted[i] : i \in 1..Len(sorted)}
        <3>1. \A i \in 1..Len(sorted) : i \in DOMAIN written /\ written[i].rid = sorted[i]
            BY <2>2, <2>3
        <3>2. DOMAIN written = 1..Len(sorted)
            BY <2>2, <2>3
        <3> QED
            BY <3>1, <3>2
    <2> QED
        BY <2>2, <2>5, <2>6
<1> QED
    BY <1>1, OrderInvariant, QueryTypes, PTL

\* What the order of the answers written is.
LEMMA WrittenInOrder ==
    ASSUME TypeOK, OrderInv, pc = "done", ~noCache,
           NEW i \in DOMAIN written, NEW j \in DOMAIN written, i < j,
           NEW a, a = written[i].rid, NEW b, b = written[j].rid
    PROVE  /\ Comparing /\ a \in DOMAIN Root /\ b \in DOMAIN Root
           /\ Comparable(a) /\ Comparable(b) /\ InOrder(a, b)
<1>1. /\ Len(stack) = 1 /\ comparator = Chosen
      /\ \A rid \in DOMAIN Root : keys[rid] \in KeyValues(rid)
      /\ pending \cup {sorted[k] : k \in 1..Len(sorted)} = DOMAIN Root
      /\ Len(written) = Len(sorted)
      /\ \A k \in 1..Len(written) : written[k].rid = sorted[k]
    BY DEF OrderInv, Counted, Running
<1>2. DOMAIN written = 1..Len(written) /\ Len(written) \in Nat
    BY LenProperties DEF TypeOK
<1>3. /\ i \in 1..Len(sorted) /\ j \in 1..Len(sorted) /\ a = sorted[i] /\ b = sorted[j]
      /\ Len(sorted) > 1
    BY <1>1, <1>2
<1>4. Comparable(a) /\ Comparable(b) /\ InOrder(a, b)
    BY <1>3 DEF OrderInv, Ordered
<1> QED
    BY <1>1, <1>3, <1>4 DEF Comparing

\* NumericAlways: a query without "sha256=sha256" is written in the documented
\* numeric order, or by descending record_id without sort field.
THEOREM NumericAlways == Spec => []NumericAsDocumented
<1>1. TypeOK /\ SortInv /\ OrderInv => NumericAsDocumented
    <2>1. SUFFICES ASSUME TypeOK, SortInv, OrderInv, pc = "done", ~noCache, ~Tuples,
                          NEW i \in DOMAIN written, NEW j \in DOMAIN written, i < j,
                          NEW a, a = written[i].rid, NEW b, b = written[j].rid
                   PROVE  /\ ~sort.field => a > b
                          /\ sort.field /\ sort.zero => Numbered(a, b)
        BY DEF NumericAsDocumented
    <2>2. /\ Comparing /\ a \in DOMAIN Root /\ b \in DOMAIN Root
          /\ Comparable(a) /\ Comparable(b) /\ InOrder(a, b)
        BY <2>1, WrittenInOrder
    <2>3. /\ Len(stack) = 1 /\ comparator = Chosen
          /\ \A rid \in DOMAIN Root : keys[rid] \in KeyValues(rid)
        BY <2>2 DEF Comparing
    <2>4. \A rid \in DOMAIN Root : Root[rid].sha = {}
        BY <2>1, <2>3 DEF SortInv, KeysOnTheWay, Root
    <2>5. CASE ~sort.field
        <3>1. comparator = "rid_desc"
            BY <2>3, <2>4, <2>5 DEF Chosen
        <3> QED
            BY <2>2, <2>5, <3>1 DEF InOrder, Weight
    <2>6. CASE sort.field /\ sort.zero
        <3>1. \A rid \in DOMAIN Root : HasKey(rid) /\ Root[rid].key = Number[Prop[rid]]
            BY <2>1, <2>3, <2>6 DEF OrderInv, KeysAreOwn, Root, KeyRead
        <3>2. \A rid \in DOMAIN Root : Number[Prop[rid]] \in Int
            <4>1. DOMAIN Root \subseteq Rids
                BY <2>1, <2>3, RootOk
            <4> QED
                BY <3>1, <4>1, DataboxAssumption DEF HasKey
        <3>3. keys[a] = Number[Prop[a]] /\ keys[b] = Number[Prop[b]]
            <4>1. NoKey \notin Int
                BY DataboxAssumption
            <4>2. \A rid \in DOMAIN Root : KeyValues(rid) = {Root[rid].key}
                BY <3>1, <3>2, <4>1 DEF KeyValues
            <4> QED
                BY <2>2, <2>3, <3>1, <4>2
        <3>4. Number[Prop[a]] \in Int /\ Number[Prop[b]] \in Int
            BY <2>2, <3>2
        <3>5. CASE sort.sign = "+"
            <4>1. comparator = "int_desc"
                BY <2>3, <2>4, <2>6, <3>5 DEF Chosen, SortOrder
            <4>2. Weight(a) = -keys[a] /\ Weight(b) = -keys[b]
                BY <4>1 DEF Weight
            <4> QED
                BY <2>2, <2>6, <3>3, <3>4, <3>5, <4>2 DEF InOrder, Numbered
        <3>6. CASE sort.sign # "+"
            <4>1. comparator = "int_asc"
                BY <2>3, <2>4, <2>6, <3>6 DEF Chosen, SortOrder
            <4>2. Weight(a) = keys[a] /\ Weight(b) = keys[b]
                BY <4>1 DEF Weight
            <4> QED
                BY <2>2, <2>6, <3>3, <3>4, <3>6, <4>2 DEF InOrder, Numbered
        <3> QED
            BY <3>5, <3>6
    <2> QED
        BY <2>5, <2>6
<1> QED
    BY <1>1, OrderInvariant, SortInvariant, QueryTypes, PTL

\* SameAlways: "sha256=sha256" writes the duplicates of a record next to it.
THEOREM SameAlways == Spec => []SameTogether
<1>1. TypeOK /\ OrderInv => SameTogether
    <2>1. SUFFICES ASSUME TypeOK, OrderInv, pc = "done", comparator = "sha",
                          NEW i \in DOMAIN written, NEW j \in DOMAIN written,
                          NEW k \in DOMAIN written, i < j, j < k,
                          Sha[written[i].rid] = Sha[written[k].rid]
                   PROVE  Sha[written[j].rid] = Sha[written[i].rid]
        BY DEF SameTogether
    <2>2. DOMAIN written = 1..Len(written) /\ Len(written) \in Nat
        BY <2>1, LenProperties DEF TypeOK
    <2>3. ~noCache
        <3>1. SUFFICES ASSUME noCache PROVE FALSE
            OBVIOUS
        <3>2. sorted = << >> /\ Len(written) <= Len(sorted)
            BY <2>1, <3>1 DEF OrderInv, Counted
        <3> QED
            BY <2>1, <2>2, <3>2
    <2>4. PICK a, b, c : a = written[i].rid /\ b = written[j].rid /\ c = written[k].rid
        OBVIOUS
    <2>5. /\ Comparing /\ a \in DOMAIN Root /\ b \in DOMAIN Root
          /\ Comparable(a) /\ Comparable(b) /\ InOrder(a, b)
        BY <2>1, <2>3, <2>4, WrittenInOrder
    <2>6. c \in DOMAIN Root /\ Comparable(c) /\ InOrder(b, c)
        BY <2>1, <2>3, <2>4, WrittenInOrder
    <2>7. /\ Sha[a] = {Weight(a)} /\ Sha[b] = {Weight(b)} /\ Sha[c] = {Weight(c)}
          /\ Weight(a) \in Int /\ Weight(b) \in Int /\ Weight(c) \in Int
        BY <2>1, <2>5, <2>6, ShaWeight
    <2>8. Weight(a) >= Weight(b) /\ Weight(b) >= Weight(c) /\ Weight(a) = Weight(c)
        <3>1. {Weight(a)} = {Weight(c)}
            BY <2>1, <2>4, <2>7
        <3> QED
            BY <2>5, <2>6, <2>7, <3>1 DEF InOrder
    <2>9. Weight(b) = Weight(a)
        BY <2>7, <2>8
    <2> QED
        BY <2>4, <2>7, <2>9
<1> QED
    BY <1>1, OrderInvariant, QueryTypes, PTL
=============================================================================
