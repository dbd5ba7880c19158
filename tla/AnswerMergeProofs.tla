------------------------- MODULE AnswerMergeProofs -------------------------
(***************************************************************************)
(* Theorems about the merge of two branches, for any records, contents and *)
(* number of words.                                                        *)
(***************************************************************************)
EXTENDS AnswerMerge, RecursionLemmas

\* An answer is known by its branch and its record.
LEMMA AnswerIsItsRecord ==
    /\ Answer("l") \cap Answer("r") = {}
    /\ \A p \in Answers : p.rid \in Rids /\ p.rid \in Int
    /\ \A p, q \in Answer("l") : p.rid = q.rid => p = q
    /\ \A p, q \in Answer("r") : p.rid = q.rid => p = q
<1>1. ASSUME NEW s, NEW p \in Answer(s)
      PROVE  p.side = s /\ p.rid \in Rids /\ p = [side |-> s, rid |-> p.rid]
    BY DEF Answer
<1>2. Answer("l") \cap Answer("r") = {}
    <2>1. "l" # "r"
        OBVIOUS
    <2> QED
        BY <1>1, <2>1
<1>3. \A p \in Answers : p.rid \in Rids /\ p.rid \in Int
    BY <1>1, ParametersAssumption DEF Answers
<1>4. ASSUME NEW s, NEW p \in Answer(s), NEW q \in Answer(s), p.rid = q.rid
      PROVE  p = q
    <2>1. p = [side |-> s, rid |-> p.rid] /\ q = [side |-> s, rid |-> q.rid]
        BY <1>1
    <2> QED
        BY <2>1, <1>4
<1> QED
    BY <1>2, <1>3, <1>4

-----------------------------------------------------------------------------
(* Types                                                                   *)

\* What TypeOK says of the memory of one answer.
OkMemory(m) ==
    /\ DOMAIN m = {"sha", "hits", "spots"}
    /\ m.sha = {} \/ \E q \in Answers : m.sha = {q}
    /\ m.hits \subseteq Hit
    /\ \A h \in m.hits : h.iws <= h.iwe

\* Hits in fresh memory are hits.
LEMMA CellsOk ==
    ASSUME NEW p \in Answers, NEW when \in {"read", "new"},
           NEW hits \in SUBSET [iws : Int, iwe : Int],
           \A h \in hits : h.iws <= h.iwe
    PROVE  /\ Cells(p, when, hits) \subseteq Hit
           /\ \A h \in Cells(p, when, hits) : h.iws <= h.iwe
           /\ \A h \in Cells(p, when, hits) : h.cell = <<p, when>>
           /\ Cells(p, when, hits) = {} <=> hits = {}
<1>1. ASSUME NEW h \in Cells(p, when, hits)
      PROVE  h \in Hit /\ h.iws <= h.iwe /\ h.cell = <<p, when>>
    <2>1. PICK g \in hits : h = [cell |-> <<p, when>>, iws |-> g.iws, iwe |-> g.iwe]
        BY <1>1 DEF Cells
    <2>2. g.iws \in Int /\ g.iwe \in Int /\ g.iws <= g.iwe
        OBVIOUS
    <2> QED
        BY <2>1, <2>2 DEF Hit
<1>2. Cells(p, when, hits) = {} <=> hits = {}
    BY DEF Cells
<1> QED
    BY <1>1, <1>2

\* The hits without their memory.
LEMMA WordsOk ==
    ASSUME NEW c \in SUBSET Hit, \A h \in c : h.iws <= h.iwe
    PROVE  /\ Words(c) \in SUBSET [iws : Int, iwe : Int]
           /\ \A h \in Words(c) : h.iws <= h.iwe
BY DEF Words, Hit

\* A proximity operator makes hits that end after they start.
LEMMA ProxHitsOk ==
    ASSUME NEW t, NEW l \in SUBSET [iws : Int, iwe : Int],
           NEW r \in SUBSET [iws : Int, iwe : Int],
           \A h \in l : h.iws <= h.iwe, \A h \in r : h.iws <= h.iwe
    PROVE  /\ ProxHits(t, Prox, l, r) \in SUBSET [iws : Int, iwe : Int]
           /\ \A h \in ProxHits(t, Prox, l, r) : h.iws <= h.iwe
<1>1. ASSUME NEW h \in ProxHits(t, Prox, l, r)
      PROVE  h \in [iws : Int, iwe : Int] /\ h.iws <= h.iwe
    <2>1. \/ \E a \in l, b \in r : /\ CloseEnough(b.iws - a.iwe, Prox)
                                   /\ h = [iws |-> a.iws, iwe |-> b.iwe]
          \/ \E a \in l, b \in r : /\ CloseEnough(a.iws - b.iwe, Prox)
                                   /\ h = [iws |-> b.iwe, iwe |-> a.iws]
        BY <1>1 DEF ProxHits
    <2>2. CASE \E a \in l, b \in r : /\ CloseEnough(b.iws - a.iwe, Prox)
                                     /\ h = [iws |-> a.iws, iwe |-> b.iwe]
        <3>1. PICK a \in l, b \in r : /\ CloseEnough(b.iws - a.iwe, Prox)
                                      /\ h = [iws |-> a.iws, iwe |-> b.iwe]
            BY <2>2
        <3>2. /\ a.iws \in Int /\ a.iwe \in Int /\ b.iws \in Int /\ b.iwe \in Int
              /\ a.iws <= a.iwe /\ b.iws <= b.iwe
            OBVIOUS
        <3>3. a.iws <= b.iwe
            BY <3>1, <3>2 DEF CloseEnough
        <3> QED
            BY <3>1, <3>2, <3>3
    <2>3. CASE \E a \in l, b \in r : /\ CloseEnough(a.iws - b.iwe, Prox)
                                     /\ h = [iws |-> b.iwe, iwe |-> a.iws]
        <3>1. PICK a \in l, b \in r : /\ CloseEnough(a.iws - b.iwe, Prox)
                                      /\ h = [iws |-> b.iwe, iwe |-> a.iws]
            BY <2>3
        <3>2. a.iws \in Int /\ b.iwe \in Int
            OBVIOUS
        <3>3. b.iwe <= a.iws
            BY <3>1, <3>2 DEF CloseEnough
        <3> QED
            BY <3>1, <3>2, <3>3
    <2> QED
        BY <2>1, <2>2, <2>3
<1> QED
    BY <1>1

\* At the start the memory of every answer is well formed.
LEMMA TypeInit == Init => TypeOK
<1> SUFFICES ASSUME Init PROVE TypeOK
    OBVIOUS
<1>1. PICK content \in [left \cup right -> Contents] :
          heap = [p \in Answers |-> IF p \in left \cup right
                                    THEN Allocated(p, content[p]) ELSE Nothing]
    BY DEF Init
<1>2. ASSUME NEW p \in Answers PROVE OkMemory(heap[p])
    <2>1. CASE p \in left \cup right
        <3> DEFINE c == content[p]
        <3>1. /\ c.hits \in SUBSET [iws : Int, iwe : Int]
              /\ \A h \in c.hits : h.iws <= h.iwe
            BY <2>1, ParametersAssumption
        <3>2. /\ Cells(p, "read", c.hits) \subseteq Hit
              /\ \A h \in Cells(p, "read", c.hits) : h.iws <= h.iwe
            BY <3>1, CellsOk
        <3>3. heap[p] = Allocated(p, c)
            BY <1>1, <2>1
        <3> QED
            BY <3>2, <3>3 DEF OkMemory, Allocated
    <2>2. CASE p \notin left \cup right
        <3>1. heap[p] = Nothing
            BY <1>1, <2>2
        <3> QED
            BY <3>1 DEF OkMemory, Nothing
    <2> QED
        BY <2>1, <2>2
<1>3. DOMAIN heap = Answers
    BY <1>1
<1>4. heap = start /\ type \in Types /\ ll = left /\ lr = right /\ answers = {}
      /\ left \subseteq Answer("l") /\ right \subseteq Answer("r")
    BY DEF Init
<1>5. \A p \in Answers, memory \in {heap, start} : OkMemory(memory[p])
    BY <1>2, <1>4
<1>6. DOMAIN heap = Answers /\ DOMAIN start = Answers
    BY <1>3, <1>4
<1> QED
    BY <1>4, <1>5, <1>6 DEF TypeOK, OkMemory

\* A match keeps the memory of the two answers well formed.
LEMMA TypeMerge ==
    ASSUME TypeOK,
           NEW al \in Answers, NEW ar \in Answers, NEW l, NEW r, NEW dropped,
           Merge(al, ar, l, r, dropped), OkMemory(l), OkMemory(r)
    PROVE  /\ DOMAIN heap' = Answers
           /\ \A p \in Answers : OkMemory(heap'[p])
<1>1. \A p \in Answers : OkMemory(heap[p])
    BY DEF TypeOK, OkMemory
<1>2. heap' = [heap EXCEPT ![al] = l, ![ar] = r] /\ DOMAIN heap = Answers
    BY DEF Merge, TypeOK
<1> QED
    BY <1>1, <1>2

\* Each step keeps the types.
LEMMA TypeNext == TypeOK /\ [Next]_vars => TypeOK'
<1> SUFFICES ASSUME TypeOK, [Next]_vars PROVE TypeOK'
    OBVIOUS
<1> USE DEF OkMemory
<1>0. \A p \in Answers : OkMemory(heap[p]) /\ OkMemory(start[p])
    BY DEF TypeOK
<1>1. CASE Loop
    <2>1. PICK al \in ll, ar \in lr :
              \/ TakeLeft(al, ar) \/ TakeRight(al, ar)
              \/ MatchAnd(al, ar) \/ MatchOr(al, ar)
              \/ MatchProx(al, ar) \/ MatchExcept(al, ar)
        BY <1>1 DEF Loop
    <2>2. UNCHANGED <<type, left, right, start>>
        BY <1>1 DEF Loop
    <2>3. al \in left /\ ar \in right /\ al \in Answers /\ ar \in Answers
        BY DEF TypeOK, Answers
    <2>4. /\ ll' \subseteq left /\ lr' \subseteq right /\ answers' \subseteq left \cup right
        BY <2>1, <2>3 DEF TypeOK, TakeLeft, TakeRight, Keep, Delete, TakeBoth, MatchAnd,
                          MatchOr, MatchProx, MatchExcept
    <2>5. DOMAIN heap' = Answers /\ \A p \in Answers : OkMemory(heap'[p])
        <3> DEFINE a == heap[al]
                   b == heap[ar]
        <3>0. OkMemory(a) /\ OkMemory(b)
            BY <1>0, <2>3
        <3>1. CASE TakeLeft(al, ar) \/ TakeRight(al, ar) \/ MatchExcept(al, ar)
            BY <3>1, <1>0 DEF TakeLeft, TakeRight, MatchExcept, TypeOK
        <3>2. CASE MatchAnd(al, ar)
            <4>1. OkMemory([sha   |-> ShaLeft(a, b), hits  |-> {},
                            spots |-> AddSpots(a.spots, b.spots)])
                BY <3>0 DEF ShaLeft
            <4>2. OkMemory([sha |-> ShaRight(a, b), hits |-> b.hits, spots |-> << >>])
                BY <3>0 DEF ShaRight
            <4> QED
                BY <3>2, <4>1, <4>2, <2>3, TypeMerge DEF MatchAnd
        <3>3. CASE MatchOr(al, ar)
            <4>1. OkMemory([sha |-> a.sha, hits |-> a.hits \cup b.hits,
                            spots |-> AddSpots(a.spots, b.spots)])
                BY <3>0
            <4>2. OkMemory(OrRight(b))
                BY <3>0 DEF OrRight
            <4> QED
                BY <3>3, <4>1, <4>2, <2>3, TypeMerge DEF MatchOr
        <3>4. CASE MatchProx(al, ar)
            <4>1. /\ NewHits(al, a, b) \subseteq Hit
                  /\ \A h \in NewHits(al, a, b) : h.iws <= h.iwe
                <5>1. /\ Words(a.hits) \in SUBSET [iws : Int, iwe : Int]
                      /\ \A h \in Words(a.hits) : h.iws <= h.iwe
                    BY <3>0, WordsOk
                <5>2. /\ Words(b.hits) \in SUBSET [iws : Int, iwe : Int]
                      /\ \A h \in Words(b.hits) : h.iws <= h.iwe
                    BY <3>0, WordsOk
                <5> DEFINE new == ProxHits(type, Prox, Words(a.hits), Words(b.hits))
                <5>3. /\ new \in SUBSET [iws : Int, iwe : Int]
                      /\ \A h \in new : h.iws <= h.iwe
                    BY <5>1, <5>2, ProxHitsOk
                <5> HIDE DEF new
                <5>4. /\ Cells(al, "new", new) \subseteq Hit
                      /\ \A h \in Cells(al, "new", new) : h.iws <= h.iwe
                    BY <5>3, <2>3, CellsOk
                <5> QED
                    BY <5>4 DEF NewHits, new
            <4>2. OkMemory([sha |-> ShaLeft(a, b), hits |-> NewHits(al, a, b),
                            spots |-> AddSpots(a.spots, b.spots)])
                BY <3>0, <4>1 DEF ShaLeft
            <4>3. OkMemory([sha |-> ShaRight(a, b), hits |-> b.hits, spots |-> << >>])
                BY <3>0 DEF ShaRight
            <4> QED
                BY <3>4, <4>2, <4>3, <2>3, TypeMerge DEF MatchProx
        <3> QED
            BY <2>1, <3>1, <3>2, <3>3, <3>4
    <2> QED
        BY <2>2, <2>4, <2>5, <1>0 DEF TypeOK
<1>2. CASE DrainLeft
    BY <1>2 DEF TypeOK, DrainLeft, Delete
<1>3. CASE DrainRight
    BY <1>3 DEF TypeOK, DrainRight, Delete
<1>4. CASE UNCHANGED vars
    BY <1>4 DEF TypeOK, vars
<1> QED
    BY <1>1, <1>2, <1>3, <1>4 DEF Next

\* MergeTypes: the types of the merge: whatever the operator and the
\* branches, an answer holds one sha2 at most and hits that end where they
\* start or later.
THEOREM MergeTypes == Spec => []TypeOK
BY TypeInit, TypeNext, PTL DEF Spec

-----------------------------------------------------------------------------
(* The merge                                                               *)

\* The result, seen from one answer of a branch.
LEMMA InResult ==
    ASSUME TypeOK
    PROVE  /\ \A p \in left : p \in Result <=>
                 \/ type = "AND" /\ Matches(p, right) # {}
                 \/ type = "OR"
                 \/ type = "EXCEPT" /\ Matches(p, right) = {}
                 \/ type \in ProxTypes /\ \E q \in Matches(p, right) : Near(p, q)
           /\ \A q \in right : q \in Result <=> type = "OR" /\ Matches(q, left) = {}
           /\ Result \subseteq left \cup right
<1>1. left \cap right = {}
    BY AnswerIsItsRecord DEF TypeOK
<1>2. type \in {"AND", "OR", "EXCEPT", "NEAR", "BEFORE", "AFTER"}
    BY ParametersAssumption DEF TypeOK, Operators, ProxTypes
<1>3. CASE type = "AND"
    BY <1>1, <1>3 DEF Result, ProxTypes
<1>4. CASE type = "OR"
    BY <1>1, <1>4 DEF Result, ProxTypes
<1>5. CASE type = "EXCEPT"
    BY <1>1, <1>5 DEF Result, ProxTypes
<1>6. CASE type \in ProxTypes
    <2>1. type # "AND" /\ type # "OR" /\ type # "EXCEPT"
        BY <1>6 DEF ProxTypes
    <2>2. Result = {p \in left : \E q \in Matches(p, right) : Near(p, q)}
        BY <1>6, <2>1 DEF Result
    <2> QED
        BY <1>1, <1>6, <2>1, <2>2
<1> QED
    BY <1>2, <1>3, <1>4, <1>5, <1>6 DEF ProxTypes

\* At the start an answer owns what is named after it.
LEMMA NamedAfterItself ==
    ASSUME OwnAtStart, NEW p \in left \cup right, NEW o \in Objects(p, start[p])
    PROVE  Name(o) = p
<1>1. CASE o = <<"answer", p>>
    BY <1>1 DEF Name
<1>2. CASE \E q \in start[p].sha : o = <<"sha", q>>
    BY <1>2 DEF Name, OwnAtStart
<1>3. CASE \E h \in start[p].hits : o = <<"hit", h>>
    <2>1. PICK h \in start[p].hits : o = <<"hit", h>>
        BY <1>3
    <2>2. h.cell = <<p, "read">>
        BY DEF OwnAtStart
    <2> QED
        BY <2>1, <2>2 DEF Name
<1> QED
    BY <1>1, <1>2, <1>3 DEF Objects, Hits

\* What the merge has taken and what is ahead are different answers.
LEMMA PassedIsNotAhead ==
    ASSUME TypeOK, InStep
    PROVE  /\ Passed \cap Ahead = {}
           /\ Passed \cup Ahead = left \cup right
           /\ Passed \subseteq Answers /\ Ahead \subseteq Answers
           /\ \A p \in Answers : p.rid \in Int
<1>1. /\ Passed \cup Ahead = left \cup right
      /\ left \cup right \subseteq Answers
    BY DEF TypeOK, Passed, Ahead, Answers
<1>2. \A p \in Answers : p.rid \in Int
    BY AnswerIsItsRecord
<1>3. \A p \in Passed : p \notin Ahead
    <2> SUFFICES ASSUME NEW p \in Passed, p \in Ahead PROVE FALSE
        OBVIOUS
    <2>1. p.rid > p.rid
        BY DEF InStep
    <2> QED
        BY <2>1, <1>1, <1>2
<1> QED
    BY <1>1, <1>2, <1>3

\* Advance: a step that takes the answers T off the two sets, puts those of
\* the result among them into it and deletes the objects D keeps Advanced,
\* if T comes first and its objects are kept by its survivors or deleted.
LEMMA Advance ==
    ASSUME TypeOK, TypeOK', Advanced,
           NEW T, T \subseteq Ahead, NEW D,
           UNCHANGED <<type, left, right, start>>,
           ll' = ll \ T, lr' = lr \ T,
           \A t \in T, q \in Ahead \ T : t.rid > q.rid,
           answers' = answers \cup (T \cap Result),
           \A p \in Answers \ T : heap'[p] = heap[p],
           freed' = freed \cup D,
           \A o \in D : Name(o) \in T,
           \A p \in T \cap Result : \A o \in Objects(p, heap'[p]) :
               Name(o) \in T /\ Name(o).rid = p.rid /\ o \notin D,
           \A p, q \in T \cap Result : p # q =>
               Objects(p, heap'[p]) \cap Objects(q, heap'[q]) = {},
           \A p \in T : Objects(p, start[p]) \subseteq
               D \cup UNION {Objects(q, heap'[q]) : q \in T \cap Result}
    PROVE  Advanced'
<1> DEFINE U == T \cap Result
           Own(p) == Objects(p, heap[p])
           Owns(p) == Objects(p, heap'[p])
<1>0. InStep /\ SoFar /\ Untouched /\ OwnAtStart /\ SameRecord /\ OneOwner
    BY DEF Advanced
<1>1. /\ Passed \cap Ahead = {} /\ Passed \cup Ahead = left \cup right
      /\ Passed \subseteq Answers /\ Ahead \subseteq Answers
      /\ \A p \in Answers : p.rid \in Int
    BY <1>0, PassedIsNotAhead
<1>2. Ahead' = Ahead \ T /\ Passed' = Passed \cup T
    BY DEF Ahead, Passed, TypeOK
<1>3. Result' = Result
    BY DEF Result, Matches, Near
<1>4. answers \subseteq Passed /\ answers \cap Ahead = {}
    BY <1>0, <1>1, InResult DEF SoFar
<1>5. Live = Ahead \cup answers /\ Live' = (Ahead \ T) \cup answers \cup U
    BY <1>2 DEF Live, Ahead
<1>6. InStep'
    BY <1>0, <1>2 DEF InStep
<1>7. SoFar'
    BY <1>0, <1>2, <1>3 DEF SoFar
<1>8. Untouched'
    BY <1>0, <1>1, <1>2 DEF Untouched
<1>9. OwnAtStart'
    BY <1>0 DEF OwnAtStart
<1>10. \A p \in answers : Owns(p) = Own(p)
    BY <1>1, <1>4
<1>11. \A p \in Ahead : Own(p) = Objects(p, start[p]) /\ \A o \in Own(p) : Name(o) = p
    <2> SUFFICES ASSUME NEW p \in Ahead
                 PROVE  /\ Own(p) = Objects(p, start[p])
                        /\ \A o \in Own(p) : Name(o) = p
        OBVIOUS
    <2>1. heap[p] = start[p]
        BY <1>0 DEF Untouched
    <2>2. p \in left \cup right
        BY <1>1
    <2>3. \A o \in Objects(p, start[p]) : Name(o) = p
        BY <1>0, <2>2, NamedAfterItself
    <2> QED
        BY <2>1, <2>3
<1>12. \A p \in Ahead \ T : Owns(p) = Own(p)
    BY <1>1
<1>13. \A p \in Live : \A o \in Own(p) : Name(o).rid = p.rid
    BY <1>0 DEF SameRecord
<1>14. \A o \in freed : Name(o) \in Passed
    BY <1>0 DEF SameRecord
<1> HIDE DEF Own, Owns
<1>15. SameRecord'
    <2>1. \A p \in Live' : \A o \in Owns(p) : Name(o).rid = p.rid
        BY <1>5, <1>10, <1>12, <1>13 DEF Owns
    <2>2. \A o \in freed' : Name(o) \in Passed'
        BY <1>2, <1>14
    <2> QED
        BY <2>1, <2>2 DEF SameRecord, Owns
<1>16. ASSUME NEW p \in Live', NEW o \in Owns(p) PROVE o \notin freed'
    <2>1. CASE p \in Ahead \ T
        <3>1. Name(o) = p
            BY <2>1, <1>11, <1>12
        <3> QED
            BY <2>1, <3>1, <1>1, <1>14
    <2>2. CASE p \in answers
        <3>1. o \in Own(p) /\ Name(o).rid = p.rid
            BY <2>2, <1>5, <1>10, <1>13
        <3>2. o \notin freed
            BY <2>2, <3>1, <1>0, <1>5 DEF OneOwner, Own
        <3>3. \A t \in T : p.rid > t.rid
            BY <2>2, <1>0, <1>4 DEF InStep
        <3>4. Name(o) \notin T
            BY <3>1, <3>3, <2>2, <1>1, <1>4
        <3> QED
            BY <3>2, <3>4
    <2>3. CASE p \in U
        BY <2>3, <1>1, <1>14 DEF Owns
    <2> QED
        BY <1>5, <2>1, <2>2, <2>3
<1>17. ASSUME NEW p \in Live', NEW q \in Live', NEW o, o \in Owns(p), o \in Owns(q)
       PROVE  p = q
    <2>1. CASE p \in answers /\ q \in answers
        BY <2>1, <1>17, <1>0, <1>5, <1>10 DEF OneOwner, Own
    <2>2. ASSUME NEW x \in answers, NEW y \in (Ahead \ T) \cup U,
                 o \in Owns(x), o \in Owns(y)
          PROVE  FALSE
        <3>1. Name(o).rid = x.rid /\ Name(o).rid = y.rid
            BY <2>2, <1>5, <1>10, <1>12, <1>13 DEF Owns
        <3>2. x.rid > y.rid
            BY <1>0, <1>4 DEF InStep
        <3> QED
            BY <3>1, <3>2, <1>1, <1>4
    <2>3. CASE p \in Ahead \ T /\ q \in Ahead \ T
        BY <2>3, <1>17, <1>11, <1>12
    <2>4. ASSUME NEW x \in Ahead \ T, NEW y \in U, o \in Owns(x), o \in Owns(y)
          PROVE  FALSE
        BY <2>4, <1>11, <1>12 DEF Owns
    <2>5. CASE p \in U /\ q \in U
        BY <2>5, <1>17 DEF Owns
    <2> QED
        BY <1>5, <1>17, <2>1, <2>2, <2>3, <2>4, <2>5
<1>18. ASSUME NEW p \in left \cup right, NEW o \in Objects(p, start[p])
       PROVE  o \in freed' \cup UNION {Owns(q) : q \in Live'}
    <2>1. CASE p \in T
        BY <2>1, <1>5 DEF Owns
    <2>2. CASE p \notin T
        <3>1. o \in freed \/ \E q \in Live : o \in Own(q)
            BY <1>0 DEF OneOwner, Own
        <3>2. CASE o \in freed
            BY <3>2
        <3>3. ASSUME NEW q \in Live, o \in Own(q)
              PROVE  \E x \in Live' : o \in Owns(x)
            <4>1. CASE q \in answers
                BY <4>1, <3>3, <1>5, <1>10
            <4>2. CASE q \in Ahead \ T
                BY <4>2, <3>3, <1>5, <1>12
            <4>3. CASE q \in T
                <5>1. Name(o) = q
                    BY <4>3, <3>3, <1>11
                <5>2. Name(o) = p
                    BY <1>0, NamedAfterItself
                <5> QED
                    BY <5>1, <5>2, <4>3, <2>2
            <4> QED
                BY <1>5, <4>1, <4>2, <4>3
        <3> QED
            BY <3>1, <3>2, <3>3
    <2> QED
        BY <2>1, <2>2
<1>19. OneOwner'
    BY <1>16, <1>17, <1>18 DEF OneOwner, Owns
<1> QED
    BY <1>6, <1>7, <1>8, <1>9, <1>15, <1>19 DEF Advanced

\* The branches own their objects, and nothing is taken yet.
LEMMA AdvancedInit == Init => Advanced
<1> SUFFICES ASSUME Init PROVE Advanced
    OBVIOUS
<1>1. PICK content \in [left \cup right -> Contents] :
          heap = [p \in Answers |-> IF p \in left \cup right
                                    THEN Allocated(p, content[p]) ELSE Nothing]
    BY DEF Init
<1>2. /\ ll = left /\ lr = right /\ answers = {} /\ freed = {} /\ start = heap
      /\ left \cup right \subseteq Answers
    BY DEF Init, Answers
<1>3. OwnAtStart
    <2> SUFFICES ASSUME NEW p \in left \cup right
                 PROVE  /\ start[p].spots \in Seq(Range(start[p].spots))
                        /\ start[p].sha \subseteq {p}
                        /\ \A h \in start[p].hits : h.cell = <<p, "read">>
        BY DEF OwnAtStart
    <2>1. start[p] = Allocated(p, content[p])
        BY <1>1, <1>2
    <2>2. content[p].spots \in Seq(Range(content[p].spots))
        BY ParametersAssumption
    <2>3. start[p].spots = content[p].spots
        BY <2>1 DEF Allocated
    <2>4. start[p].sha \subseteq {p} /\ \A h \in start[p].hits : h.cell = <<p, "read">>
        BY <2>1 DEF Allocated, Cells
    <2> QED
        BY <2>2, <2>3, <2>4
<1>4. \A p \in left \cup right : \A o \in Objects(p, heap[p]) : Name(o) = p
    BY <1>2, <1>3, NamedAfterItself
<1>5. Ahead = left \cup right /\ Passed = {} /\ Live = left \cup right
    BY <1>2 DEF Ahead, Passed, Live
<1>6. InStep /\ Untouched /\ SameRecord
    BY <1>2, <1>4, <1>5 DEF InStep, Untouched, SameRecord
<1>7. SoFar
    BY <1>2, <1>5, TypeInit, InResult DEF SoFar
<1>8. OneOwner
    BY <1>2, <1>4, <1>5 DEF OneOwner
<1> QED
    BY <1>3, <1>6, <1>7, <1>8 DEF Advanced

\* The first answers of the two sets tell whether they have a match.
LEMMA FirstsTell ==
    ASSUME TypeOK, Advanced, NEW al \in ll, NEW ar \in lr,
           IsFirst(al, ll), IsFirst(ar, lr)
    PROVE  /\ al.rid > ar.rid => Matches(al, right) = {}
           /\ ar.rid > al.rid => Matches(ar, left) = {}
           /\ al.rid = ar.rid => Matches(al, right) = {ar} /\ Matches(ar, left) = {al}
           /\ \A q \in Ahead : q.rid <= al.rid \/ q.rid <= ar.rid
           /\ \A q \in ll : q.rid <= al.rid /\ (q.rid = al.rid => q = al)
           /\ \A q \in lr : q.rid <= ar.rid /\ (q.rid = ar.rid => q = ar)
           /\ al.rid \in Int /\ ar.rid \in Int
           /\ \A q \in Ahead : q.rid \in Int
<1>1. /\ al \in left /\ ar \in right /\ ll \subseteq left /\ lr \subseteq right
      /\ left \subseteq Answer("l") /\ right \subseteq Answer("r")
      /\ al \in Answers /\ ar \in Answers
    BY DEF TypeOK, Answers
<1>2. \A p \in left \cup right : p.rid \in Int
    BY <1>1, AnswerIsItsRecord DEF Answers
<1>3. \A q \in ll : q.rid <= al.rid /\ (q.rid = al.rid => q = al)
    BY <1>1, <1>2, AnswerIsItsRecord DEF IsFirst
<1>4. \A q \in lr : q.rid <= ar.rid /\ (q.rid = ar.rid => q = ar)
    BY <1>1, <1>2, AnswerIsItsRecord DEF IsFirst
<1>5. \A p \in (left \ ll) \cup (right \ lr) : p.rid > al.rid /\ p.rid > ar.rid
    BY DEF Advanced, InStep, Passed, Ahead
<1>6. \A q \in right : q.rid > al.rid \/ q \in lr
    BY <1>5
<1>7. \A q \in left : q.rid > ar.rid \/ q \in ll
    BY <1>5
<1>8. al.rid > ar.rid => Matches(al, right) = {}
    BY <1>1, <1>2, <1>4, <1>6 DEF Matches
<1>9. ar.rid > al.rid => Matches(ar, left) = {}
    BY <1>1, <1>2, <1>3, <1>7 DEF Matches
<1>10. al.rid = ar.rid => Matches(al, right) = {ar} /\ Matches(ar, left) = {al}
    BY <1>1, <1>2, <1>3, <1>4, <1>6, <1>7 DEF Matches
<1> QED
    BY <1>1, <1>2, <1>3, <1>4, <1>8, <1>9, <1>10 DEF Ahead

\* A step that takes answers without match: they are all kept, or all deleted.
LEMMA TakeAlone ==
    ASSUME TypeOK, TypeOK', Advanced, NEW T, T \subseteq Ahead,
           UNCHANGED <<type, left, right, start, heap>>,
           ll' = ll \ T, lr' = lr \ T,
           \A t \in T, q \in Ahead \ T : t.rid > q.rid,
           \/ T \subseteq Result /\ answers' = answers \cup T /\ freed' = freed
           \/ /\ T \cap Result = {} /\ answers' = answers
              /\ freed' = freed \cup UNION {Objects(t, heap[t]) : t \in T}
    PROVE  Advanced'
<1>1. InStep /\ Untouched /\ OwnAtStart
    BY DEF Advanced
<1>2. T \subseteq left \cup right /\ \A t \in T : heap[t] = start[t]
    BY <1>1, PassedIsNotAhead DEF Untouched
<1>3. \A t \in T : \A o \in Objects(t, heap[t]) : Name(o) = t
    BY <1>1, <1>2, NamedAfterItself
<1>4. CASE T \subseteq Result /\ answers' = answers \cup T /\ freed' = freed
    <2> DEFINE D == {}
    <2>1. \A p \in T \cap Result : \A o \in Objects(p, heap'[p]) :
               Name(o) \in T /\ Name(o).rid = p.rid /\ o \notin D
        BY <1>3
    <2>2. \A p, q \in T \cap Result : p # q =>
               Objects(p, heap'[p]) \cap Objects(q, heap'[q]) = {}
        BY <1>3
    <2>3. \A p \in T : Objects(p, start[p]) \subseteq
               D \cup UNION {Objects(q, heap'[q]) : q \in T \cap Result}
        BY <1>2, <1>4
    <2>4. /\ answers' = answers \cup (T \cap Result)
          /\ freed' = freed \cup D
          /\ \A o \in D : Name(o) \in T
          /\ \A p \in Answers \ T : heap'[p] = heap[p]
        BY <1>4
    <2> HIDE DEF D
    <2> QED
        BY <2>1, <2>2, <2>3, <2>4, Advance
<1>5. CASE /\ T \cap Result = {} /\ answers' = answers
           /\ freed' = freed \cup UNION {Objects(t, heap[t]) : t \in T}
    <2> DEFINE D == UNION {Objects(t, heap[t]) : t \in T}
    <2>1. \A o \in D : Name(o) \in T
        BY <1>3
    <2>2. \A p \in T : Objects(p, start[p]) \subseteq D
        BY <1>2
    <2>3. /\ answers' = answers \cup (T \cap Result)
          /\ freed' = freed \cup D
          /\ \A p \in Answers \ T : heap'[p] = heap[p]
        BY <1>5
    <2> HIDE DEF D
    <2>4. \A p \in T : Objects(p, start[p]) \subseteq
               D \cup UNION {Objects(q, heap'[q]) : q \in T \cap Result}
        BY <2>2
    <2> QED
        BY <1>5, <2>1, <2>3, <2>4, Advance
<1> QED
    BY <1>4, <1>5

\* A match takes the two first answers.
LEMMA MatchTakes ==
    ASSUME TypeOK, Advanced, NEW al \in ll, NEW ar \in lr,
           IsFirst(al, ll), IsFirst(ar, lr), TakeBoth(al, ar)
    PROVE  /\ {al, ar} \subseteq Ahead
           /\ ll' = ll \ {al, ar} /\ lr' = lr \ {al, ar}
           /\ \A t \in {al, ar}, q \in Ahead \ {al, ar} : t.rid > q.rid
           /\ al # ar /\ al.rid = ar.rid /\ al \in Answers /\ ar \in Answers
           /\ heap[al] = start[al] /\ heap[ar] = start[ar]
           /\ al \in left /\ ar \in right
           /\ Matches(al, right) = {ar} /\ Matches(ar, left) = {al}
<1>1. /\ al \in left /\ ar \in right /\ ll \subseteq left /\ lr \subseteq right
      /\ left \cap right = {} /\ al \in Answers /\ ar \in Answers
    BY AnswerIsItsRecord DEF TypeOK, Answers
<1>2. heap[al] = start[al] /\ heap[ar] = start[ar]
    BY DEF Advanced, Untouched, Ahead
<1>3. al.rid = ar.rid
    BY DEF TakeBoth
<1>4. \A t \in {al, ar}, q \in Ahead \ {al, ar} : t.rid > q.rid
    BY <1>3, FirstsTell DEF Ahead
<1> QED
    BY <1>1, <1>2, <1>3, <1>4, FirstsTell DEF TakeBoth, Ahead

\* A match that keeps al with the memory l, if `kept', and deletes ar with the
\* memory r and the objects `dropped' besides.
LEMMA Match ==
    ASSUME TypeOK, TypeOK', Advanced, NEW al \in ll, NEW ar \in lr,
           IsFirst(al, ll), IsFirst(ar, lr), TakeBoth(al, ar),
           UNCHANGED <<type, left, right, start>>,
           NEW l, NEW r, NEW D,
           heap' = [heap EXCEPT ![al] = l, ![ar] = r],
           freed' = freed \cup D,
           answers' = answers \cup ({al} \cap Result),
           ar \notin Result,
           \A o \in D : Name(o) \in {al, ar},
           al \in Result => \A o \in Objects(al, l) : Name(o) \in {al, ar} /\ o \notin D,
           al \in Result =>
               Objects(al, start[al]) \cup Objects(ar, start[ar]) \subseteq D \cup Objects(al, l),
           al \notin Result =>
               Objects(al, start[al]) \cup Objects(ar, start[ar]) \subseteq D
    PROVE  Advanced'
<1> DEFINE T == {al, ar}
<1>1. /\ T \subseteq Ahead /\ ll' = ll \ T /\ lr' = lr \ T
      /\ \A t \in T, q \in Ahead \ T : t.rid > q.rid
      /\ al # ar /\ al.rid = ar.rid /\ al \in Answers /\ ar \in Answers
    BY MatchTakes
<1>2. heap'[al] = l /\ \A p \in Answers \ T : heap'[p] = heap[p]
    BY <1>1 DEF TypeOK
<1>3. T \cap Result = {al} \cap Result
    OBVIOUS
<1>4. \A p \in T \cap Result : \A o \in Objects(p, heap'[p]) :
           Name(o) \in T /\ Name(o).rid = p.rid /\ o \notin D
    BY <1>1, <1>2
<1>5. \A p, q \in T \cap Result : p # q =>
           Objects(p, heap'[p]) \cap Objects(q, heap'[q]) = {}
    OBVIOUS
<1>6. \A p \in T : Objects(p, start[p]) \subseteq
           D \cup UNION {Objects(q, heap'[q]) : q \in T \cap Result}
    <2>1. CASE al \in Result
        BY <2>1, <1>2
    <2>2. CASE al \notin Result
        BY <2>2
    <2> QED
        BY <2>1, <2>2
<1>7. answers' = answers \cup (T \cap Result) /\ \A o \in D : Name(o) \in T
    BY <1>3
<1> HIDE DEF T
<1> QED
    BY <1>1, <1>2, <1>4, <1>5, <1>6, <1>7, Advance

\* The three kinds of objects, by name.
LEMMA NamesOfObjects ==
    /\ \A p : Name(<<"answer", p>>) = p
    /\ \A q : Name(<<"sha", q>>) = q
    /\ \A h : Name(<<"hit", h>>) = h.cell[1]
BY DEF Name

\* The sha2 of two answers of a record: each is kept by one of them.
LEMMA ShaShared ==
    ASSUME NEW al, NEW ar, al # ar, NEW a, NEW b,
           a.sha \subseteq {al}, b.sha \subseteq {ar}
    PROVE  /\ ShaLeft(a, b) \cap ShaRight(a, b) = {}
           /\ ShaLeft(a, b) \cup ShaRight(a, b) = a.sha \cup b.sha
BY DEF ShaLeft, ShaRight

\* A match of AND.
LEMMA StepAnd ==
    ASSUME TypeOK, TypeOK', Advanced, NEW al \in ll, NEW ar \in lr,
           IsFirst(al, ll), IsFirst(ar, lr), MatchAnd(al, ar),
           UNCHANGED <<type, left, right, start>>
    PROVE  Advanced'
<1> DEFINE a == heap[al]
           b == heap[ar]
           l == [sha |-> ShaLeft(a, b), hits |-> {}, spots |-> AddSpots(a.spots, b.spots)]
           r == [sha |-> ShaRight(a, b), hits |-> b.hits, spots |-> << >>]
           D == Hits(a) \cup Objects(ar, r)
<1>1. /\ TakeBoth(al, ar) /\ type = "AND"
      /\ heap' = [heap EXCEPT ![al] = l, ![ar] = r]
      /\ freed' = freed \cup Hits(a) \cup Objects(ar, r)
      /\ answers' = answers \cup {al}
    BY DEF MatchAnd, Merge
<1>2. /\ al # ar /\ a = start[al] /\ b = start[ar]
      /\ al \in left /\ ar \in right /\ Matches(al, right) = {ar}
    BY <1>1, MatchTakes
<1>3. /\ a.sha \subseteq {al} /\ b.sha \subseteq {ar}
      /\ \A h \in a.hits : h.cell = <<al, "read">>
      /\ \A h \in b.hits : h.cell = <<ar, "read">>
    BY <1>2 DEF Advanced, OwnAtStart
<1>4. al \in Result /\ ar \notin Result
    BY <1>1, <1>2, InResult
<1>5. /\ ShaLeft(a, b) \cap ShaRight(a, b) = {}
      /\ ShaLeft(a, b) \cup ShaRight(a, b) = a.sha \cup b.sha
    BY <1>2, <1>3, ShaShared
<1>6. Objects(al, l) = {<<"answer", al>>} \cup {<<"sha", q>> : q \in ShaLeft(a, b)}
    BY DEF Objects, Hits
<1>7. D = {<<"answer", ar>>} \cup {<<"sha", q>> : q \in ShaRight(a, b)}
            \cup {<<"hit", h>> : h \in a.hits} \cup {<<"hit", h>> : h \in b.hits}
    BY DEF Objects, Hits
<1>8. Objects(al, a) \cup Objects(ar, b)
        = {<<"answer", al>>, <<"answer", ar>>} \cup {<<"sha", q>> : q \in a.sha \cup b.sha}
            \cup {<<"hit", h>> : h \in a.hits} \cup {<<"hit", h>> : h \in b.hits}
    BY DEF Objects, Hits
<1> HIDE DEF l, r, D
<1>9. \A o \in D : Name(o) \in {al, ar}
    BY <1>3, <1>5, <1>7, NamesOfObjects
<1>10. \A o \in Objects(al, l) : Name(o) \in {al, ar} /\ o \notin D
    <2>1. \A o \in Objects(al, l) : Name(o) \in {al, ar}
        BY <1>3, <1>5, <1>6, NamesOfObjects
    <2>2. \A o \in Objects(al, l) : o \notin D
        BY <1>2, <1>5, <1>6, <1>7
    <2> QED
        BY <2>1, <2>2
<1>11. Objects(al, a) \cup Objects(ar, b) \subseteq D \cup Objects(al, l)
    BY <1>5, <1>6, <1>7, <1>8
<1>12. freed' = freed \cup D /\ answers' = answers \cup ({al} \cap Result)
    BY <1>1, <1>4 DEF D
<1> QED
    BY <1>1, <1>2, <1>4, <1>9, <1>10, <1>11, <1>12, Match

\* A match of OR.
LEMMA StepOr ==
    ASSUME TypeOK, TypeOK', Advanced, NEW al \in ll, NEW ar \in lr,
           IsFirst(al, ll), IsFirst(ar, lr), MatchOr(al, ar),
           UNCHANGED <<type, left, right, start>>
    PROVE  Advanced'
<1> DEFINE a == heap[al]
           b == heap[ar]
           l == [sha |-> a.sha, hits |-> a.hits \cup b.hits,
                 spots |-> AddSpots(a.spots, b.spots)]
           r == OrRight(b)
           D == Objects(ar, r)
<1>1. /\ TakeBoth(al, ar) /\ type = "OR"
      /\ heap' = [heap EXCEPT ![al] = l, ![ar] = r]
      /\ freed' = freed \cup D
      /\ answers' = answers \cup {al}
    BY DEF MatchOr, Merge
<1>2. /\ al # ar /\ a = start[al] /\ b = start[ar]
      /\ al \in left /\ ar \in right /\ Matches(ar, left) = {al}
    BY <1>1, MatchTakes
<1>3. /\ a.sha \subseteq {al} /\ b.sha \subseteq {ar}
      /\ \A h \in a.hits : h.cell = <<al, "read">>
      /\ \A h \in b.hits : h.cell = <<ar, "read">>
    BY <1>2 DEF Advanced, OwnAtStart
<1>4. al \in Result /\ ar \notin Result
    BY <1>1, <1>2, InResult
<1>5. Objects(al, l) = {<<"answer", al>>} \cup {<<"sha", q>> : q \in a.sha}
                          \cup {<<"hit", h>> : h \in a.hits} \cup {<<"hit", h>> : h \in b.hits}
    BY DEF Objects, Hits
<1>6. D = {<<"answer", ar>>} \cup {<<"sha", q>> : q \in b.sha}
    BY DEF Objects, Hits, OrRight
<1>7. Objects(al, a) \cup Objects(ar, b)
        = {<<"answer", al>>, <<"answer", ar>>} \cup {<<"sha", q>> : q \in a.sha \cup b.sha}
            \cup {<<"hit", h>> : h \in a.hits} \cup {<<"hit", h>> : h \in b.hits}
    BY DEF Objects, Hits
<1> HIDE DEF l, r, D
<1>8. \A o \in D : Name(o) \in {al, ar}
    BY <1>3, <1>6, NamesOfObjects
<1>9. \A o \in Objects(al, l) : Name(o) \in {al, ar} /\ o \notin D
    <2>1. \A o \in Objects(al, l) : Name(o) \in {al, ar}
        BY <1>3, <1>5, NamesOfObjects
    <2>2. \A o \in Objects(al, l) : o \notin D
        BY <1>2, <1>3, <1>5, <1>6
    <2> QED
        BY <2>1, <2>2
<1>10. Objects(al, a) \cup Objects(ar, b) \subseteq D \cup Objects(al, l)
    BY <1>5, <1>6, <1>7
<1>11. answers' = answers \cup ({al} \cap Result)
    BY <1>1, <1>4
<1> QED
    BY <1>1, <1>2, <1>4, <1>8, <1>9, <1>10, <1>11, Match

\* A match of NEAR, BEFORE or AFTER.
LEMMA StepProx ==
    ASSUME TypeOK, TypeOK', Advanced, NEW al \in ll, NEW ar \in lr,
           IsFirst(al, ll), IsFirst(ar, lr), MatchProx(al, ar),
           UNCHANGED <<type, left, right, start>>
    PROVE  Advanced'
<1> DEFINE a == heap[al]
           b == heap[ar]
           new == NewHits(al, a, b)
           l == [sha |-> ShaLeft(a, b), hits |-> new, spots |-> AddSpots(a.spots, b.spots)]
           r == [sha |-> ShaRight(a, b), hits |-> b.hits, spots |-> << >>]
           E == Hits(a) \cup Objects(ar, r)
           D == IF new # {} THEN E ELSE E \cup Objects(al, l)
<1>1. /\ TakeBoth(al, ar) /\ type \in ProxTypes
      /\ heap' = [heap EXCEPT ![al] = l, ![ar] = r]
      /\ freed' = freed \cup D
      /\ answers' = IF new # {} THEN answers \cup {al} ELSE answers
    BY DEF MatchProx, Merge
<1>2. /\ al # ar /\ a = start[al] /\ b = start[ar]
      /\ al \in left /\ ar \in right /\ Matches(al, right) = {ar}
    BY <1>1, MatchTakes
<1>3. /\ a.sha \subseteq {al} /\ b.sha \subseteq {ar}
      /\ \A h \in a.hits : h.cell = <<al, "read">>
      /\ \A h \in b.hits : h.cell = <<ar, "read">>
    BY <1>2 DEF Advanced, OwnAtStart
<1>4. /\ new = {} <=> ~Near(al, ar)
      /\ \A h \in new : h.cell = <<al, "new">>
    <2> DEFINE hits == ProxHits(type, Prox, Words(a.hits), Words(b.hits))
    <2>1. hits = {} <=> ~Near(al, ar)
        BY <1>2 DEF Near
    <2>2. new = Cells(al, "new", hits)
        BY DEF NewHits
    <2> HIDE DEF hits, new
    <2>3. \A h \in new : h.cell = <<al, "new">>
        BY <2>2 DEF Cells
    <2>4. new = {} <=> hits = {}
        BY <2>2 DEF Cells
    <2> QED
        BY <2>1, <2>3, <2>4
<1>5. ar \notin Result /\ (al \in Result <=> new # {})
    <2>1. type # "OR" /\ type # "AND" /\ type # "EXCEPT"
        BY <1>1 DEF ProxTypes
    <2>2. al \in Result <=> \E q \in Matches(al, right) : Near(al, q)
        BY <1>1, <1>2, <2>1, InResult
    <2> QED
        BY <1>2, <1>4, <2>1, <2>2, InResult
<1>6. /\ ShaLeft(a, b) \cap ShaRight(a, b) = {}
      /\ ShaLeft(a, b) \cup ShaRight(a, b) = a.sha \cup b.sha
    BY <1>2, <1>3, ShaShared
<1> HIDE DEF new
<1>7. Objects(al, l) = {<<"answer", al>>} \cup {<<"sha", q>> : q \in ShaLeft(a, b)}
                          \cup {<<"hit", h>> : h \in new}
    BY DEF Objects, Hits
<1>8. E = {<<"answer", ar>>} \cup {<<"sha", q>> : q \in ShaRight(a, b)}
            \cup {<<"hit", h>> : h \in a.hits} \cup {<<"hit", h>> : h \in b.hits}
    BY DEF Objects, Hits
<1>9. Objects(al, a) \cup Objects(ar, b)
        = {<<"answer", al>>, <<"answer", ar>>} \cup {<<"sha", q>> : q \in a.sha \cup b.sha}
            \cup {<<"hit", h>> : h \in a.hits} \cup {<<"hit", h>> : h \in b.hits}
    BY DEF Objects, Hits
<1> HIDE DEF l, r, E
<1>10. \A o \in E : Name(o) \in {al, ar}
    BY <1>3, <1>6, <1>8, NamesOfObjects
<1>11. \A o \in Objects(al, l) : Name(o) \in {al, ar}
    BY <1>3, <1>4, <1>6, <1>7, NamesOfObjects
<1>12. \A o \in Objects(al, l) : o \notin E
    <2>1. \A h \in new : h \notin a.hits /\ h \notin b.hits
        BY <1>2, <1>3, <1>4
    <2> QED
        BY <1>2, <1>6, <1>7, <1>8, <2>1
<1>13. Objects(al, a) \cup Objects(ar, b) \subseteq E \cup Objects(al, l)
    BY <1>6, <1>7, <1>8, <1>9
<1>14. \A o \in D : Name(o) \in {al, ar}
    BY <1>10, <1>11
<1>15. al \in Result => D = E
    BY <1>5
<1>16. al \notin Result => Objects(al, a) \cup Objects(ar, b) \subseteq D
    BY <1>5, <1>13
<1>17. answers' = answers \cup ({al} \cap Result)
    BY <1>1, <1>5
<1> HIDE DEF D
<1> QED
    BY <1>1, <1>2, <1>5, <1>11, <1>12, <1>13, <1>14, <1>15, <1>16, <1>17, Match

\* A match of EXCEPT.
LEMMA StepExcept ==
    ASSUME TypeOK, TypeOK', Advanced, NEW al \in ll, NEW ar \in lr,
           IsFirst(al, ll), IsFirst(ar, lr), MatchExcept(al, ar),
           UNCHANGED <<type, left, right, start>>
    PROVE  Advanced'
<1> DEFINE T == {al, ar}
<1>1. /\ TakeBoth(al, ar) /\ type = "EXCEPT" /\ UNCHANGED <<answers, heap>>
      /\ freed' = freed \cup Objects(al, heap[al]) \cup Objects(ar, heap[ar])
    BY DEF MatchExcept
<1>2. /\ T \subseteq Ahead /\ ll' = ll \ T /\ lr' = lr \ T
      /\ \A t \in T, q \in Ahead \ T : t.rid > q.rid
      /\ al \in left /\ ar \in right /\ Matches(al, right) = {ar}
    BY <1>1, MatchTakes
<1>3. al \notin Result /\ ar \notin Result
    BY <1>1, <1>2, InResult DEF ProxTypes
<1>4. /\ T \cap Result = {}
      /\ freed' = freed \cup UNION {Objects(t, heap[t]) : t \in T}
    BY <1>1, <1>3
<1> HIDE DEF T
<1> QED
    BY <1>1, <1>2, <1>4, TakeAlone

\* A left answer without match, as one of the loop or of what remains.
LEMMA StepLeft ==
    ASSUME TypeOK, TypeOK', Advanced, NEW al \in ll,
           Matches(al, right) = {},
           \A q \in Ahead \ {al} : al.rid > q.rid,
           ll' = ll \ {al}, UNCHANGED lr,
           IF KeepsLeft(type) THEN Keep(al) ELSE Delete(al),
           UNCHANGED <<type, left, right, start, heap>>
    PROVE  Advanced'
<1> DEFINE T == {al}
<1>1. al \in left /\ al \notin lr
    BY AnswerIsItsRecord DEF TypeOK
<1>2. al \in Result <=> KeepsLeft(type)
    <2>1. type \in ProxTypes => type # "OR" /\ type # "EXCEPT" /\ type # "AND"
        BY DEF ProxTypes
    <2> QED
        BY <1>1, <2>1, InResult DEF KeepsLeft
<1>3. T \subseteq Ahead /\ ll' = ll \ T /\ lr' = lr \ T
    BY <1>1 DEF Ahead
<1>4. \/ T \subseteq Result /\ answers' = answers \cup T /\ freed' = freed
      \/ /\ T \cap Result = {} /\ answers' = answers
         /\ freed' = freed \cup UNION {Objects(t, heap[t]) : t \in T}
    BY <1>2 DEF Keep, Delete
<1>5. \A t \in T, q \in Ahead \ T : t.rid > q.rid
    OBVIOUS
<1> HIDE DEF T
<1> QED
    BY <1>3, <1>4, <1>5, TakeAlone

\* The same for a right answer.
LEMMA StepRight ==
    ASSUME TypeOK, TypeOK', Advanced, NEW ar \in lr,
           Matches(ar, left) = {},
           \A q \in Ahead \ {ar} : ar.rid > q.rid,
           lr' = lr \ {ar}, UNCHANGED ll,
           IF KeepsRight(type) THEN Keep(ar) ELSE Delete(ar),
           UNCHANGED <<type, left, right, start, heap>>
    PROVE  Advanced'
<1> DEFINE T == {ar}
<1>1. ar \in right /\ ar \notin ll
    BY AnswerIsItsRecord DEF TypeOK
<1>2. ar \in Result <=> KeepsRight(type)
    BY <1>1, InResult DEF KeepsRight
<1>3. T \subseteq Ahead /\ ll' = ll \ T /\ lr' = lr \ T
    BY <1>1 DEF Ahead
<1>4. \/ T \subseteq Result /\ answers' = answers \cup T /\ freed' = freed
      \/ /\ T \cap Result = {} /\ answers' = answers
         /\ freed' = freed \cup UNION {Objects(t, heap[t]) : t \in T}
    BY <1>2 DEF Keep, Delete
<1>5. \A t \in T, q \in Ahead \ T : t.rid > q.rid
    OBVIOUS
<1> HIDE DEF T
<1> QED
    BY <1>3, <1>4, <1>5, TakeAlone

\* What remains when one set is empty has no match.
LEMMA RemainsAlone ==
    ASSUME TypeOK, Advanced
    PROVE  /\ lr = {} => \A p \in ll : Matches(p, right) = {}
           /\ ll = {} => \A p \in lr : Matches(p, left) = {}
           /\ \A p, q \in ll : p.rid = q.rid => p = q
           /\ \A p, q \in lr : p.rid = q.rid => p = q
           /\ \A p \in ll \cup lr : p.rid \in Int
<1>1. /\ ll \subseteq left /\ lr \subseteq right
      /\ left \subseteq Answer("l") /\ right \subseteq Answer("r")
      /\ \A p \in left \cup right : p.rid \in Int
    BY AnswerIsItsRecord DEF TypeOK, Answers
<1>2. \A p \in (left \ ll) \cup (right \ lr), q \in ll \cup lr : p.rid > q.rid
    BY DEF Advanced, InStep, Passed, Ahead
<1>3. lr = {} => \A p \in ll, q \in right : q.rid # p.rid
    BY <1>1, <1>2
<1>4. ll = {} => \A p \in lr, q \in left : q.rid # p.rid
    BY <1>1, <1>2
<1>5. /\ \A p, q \in ll : p.rid = q.rid => p = q
      /\ \A p, q \in lr : p.rid = q.rid => p = q
    BY <1>1, AnswerIsItsRecord
<1> QED
    BY <1>1, <1>3, <1>4, <1>5 DEF Matches

\* Each step keeps Advanced.
LEMMA AdvancedNext == TypeOK /\ TypeOK' /\ Advanced /\ [Next]_vars => Advanced'
<1> SUFFICES ASSUME TypeOK, TypeOK', Advanced, [Next]_vars PROVE Advanced'
    OBVIOUS
<1>1. CASE Loop
    <2>1. PICK al \in ll, ar \in lr :
              /\ IsFirst(al, ll) /\ IsFirst(ar, lr)
              /\ \/ TakeLeft(al, ar) \/ TakeRight(al, ar)
                 \/ MatchAnd(al, ar) \/ MatchOr(al, ar)
                 \/ MatchProx(al, ar) \/ MatchExcept(al, ar)
        BY <1>1 DEF Loop
    <2>2. UNCHANGED <<type, left, right, start>>
        BY <1>1 DEF Loop
    <2>3. CASE TakeLeft(al, ar)
        <3>1. /\ Matches(al, right) = {}
              /\ \A q \in Ahead \ {al} : al.rid > q.rid
            BY <2>1, <2>3, FirstsTell DEF TakeLeft, Ahead
        <3> QED
            BY <2>2, <2>3, <3>1, StepLeft DEF TakeLeft
    <2>4. CASE TakeRight(al, ar)
        <3>1. /\ Matches(ar, left) = {}
              /\ \A q \in Ahead \ {ar} : ar.rid > q.rid
            BY <2>1, <2>4, FirstsTell DEF TakeRight, Ahead
        <3> QED
            BY <2>2, <2>4, <3>1, StepRight DEF TakeRight
    <2>5. CASE MatchAnd(al, ar)
        BY <2>1, <2>2, <2>5, StepAnd
    <2>6. CASE MatchOr(al, ar)
        BY <2>1, <2>2, <2>6, StepOr
    <2>7. CASE MatchProx(al, ar)
        BY <2>1, <2>2, <2>7, StepProx
    <2>8. CASE MatchExcept(al, ar)
        BY <2>1, <2>2, <2>8, StepExcept
    <2> QED
        BY <2>1, <2>3, <2>4, <2>5, <2>6, <2>7, <2>8
<1>2. CASE DrainLeft
    <2>1. /\ lr = {} /\ Ahead = ll
          /\ UNCHANGED <<type, left, right, start, heap>> /\ UNCHANGED lr
        BY <1>2 DEF DrainLeft, Ahead
    <2>2. CASE KeepsLeft(type)
        <3> DEFINE T == ll
        <3>1. T \subseteq Result
            <4>1. ll \subseteq left /\ \A p \in ll : Matches(p, right) = {}
                BY <2>1, RemainsAlone DEF TypeOK
            <4> QED
                BY <2>2, <4>1, InResult DEF KeepsLeft
        <3>2. /\ T \subseteq Ahead /\ ll' = ll \ T /\ lr' = lr \ T
              /\ \A t \in T, q \in Ahead \ T : t.rid > q.rid
              /\ answers' = answers \cup T /\ freed' = freed
            BY <1>2, <2>1, <2>2 DEF DrainLeft
        <3> HIDE DEF T
        <3> QED
            BY <2>1, <3>1, <3>2, TakeAlone
    <2>3. CASE ~KeepsLeft(type)
        <3>1. PICK al \in ll : IsFirst(al, ll) /\ ll' = ll \ {al} /\ Delete(al)
            BY <1>2, <2>3 DEF DrainLeft
        <3>2. /\ Matches(al, right) = {}
              /\ \A q \in Ahead \ {al} : al.rid > q.rid
            BY <2>1, <3>1, RemainsAlone DEF IsFirst
        <3> QED
            BY <2>1, <2>3, <3>1, <3>2, StepLeft
    <2> QED
        BY <2>2, <2>3
<1>3. CASE DrainRight
    <2>1. /\ ll = {} /\ Ahead = lr
          /\ UNCHANGED <<type, left, right, start, heap>> /\ UNCHANGED ll
        BY <1>3 DEF DrainRight, Ahead
    <2>2. CASE KeepsRight(type)
        <3> DEFINE T == lr
        <3>1. T \subseteq Result
            <4>1. lr \subseteq right /\ \A p \in lr : Matches(p, left) = {}
                BY <2>1, RemainsAlone DEF TypeOK
            <4> QED
                BY <2>2, <4>1, InResult DEF KeepsRight
        <3>2. /\ T \subseteq Ahead /\ ll' = ll \ T /\ lr' = lr \ T
              /\ \A t \in T, q \in Ahead \ T : t.rid > q.rid
              /\ answers' = answers \cup T /\ freed' = freed
            BY <1>3, <2>1, <2>2 DEF DrainRight
        <3> HIDE DEF T
        <3> QED
            BY <2>1, <3>1, <3>2, TakeAlone
    <2>3. CASE ~KeepsRight(type)
        <3>1. PICK ar \in lr : IsFirst(ar, lr) /\ lr' = lr \ {ar} /\ Delete(ar)
            BY <1>3, <2>3 DEF DrainRight
        <3>2. /\ Matches(ar, left) = {}
              /\ \A q \in Ahead \ {ar} : ar.rid > q.rid
            BY <2>1, <3>1, RemainsAlone DEF IsFirst
        <3> QED
            BY <2>1, <2>3, <3>1, <3>2, StepRight
    <2> QED
        BY <2>2, <2>3
<1>4. CASE UNCHANGED vars
    <2> DEFINE T == {}
    <2>1. /\ UNCHANGED <<type, left, right, start, heap>>
          /\ ll' = ll \ T /\ lr' = lr \ T
          /\ answers' = answers \cup T /\ freed' = freed
        BY <1>4 DEF vars
    <2>2. /\ T \subseteq Ahead /\ T \subseteq Result
          /\ \A t \in T, q \in Ahead \ T : t.rid > q.rid
        OBVIOUS
    <2> HIDE DEF T
    <2> QED
        BY <2>1, <2>2, TakeAlone
<1> QED
    BY <1>1, <1>2, <1>3, <1>4 DEF Next

-----------------------------------------------------------------------------
(* What the answers hold                                                   *)

\* The answers of the result are not ahead.
LEMMA KeptIsPassed ==
    ASSUME TypeOK, Advanced
    PROVE  /\ answers \cap Ahead = {}
           /\ answers \subseteq left \cup right
           /\ left \cap right = {}
           /\ \A p \in left \cup right : p \in Answers
BY AnswerIsItsRecord DEF TypeOK, Advanced, SoFar, Answers

\* A step that leaves the memory alone and takes answers without match.
LEMMA AloneAsMerged ==
    ASSUME TypeOK, Advanced, AsMerged, NEW T, T \subseteq Ahead,
           UNCHANGED <<type, left, right, start, heap>>,
           answers' \subseteq answers \cup T,
           \A p \in T : p \in left => Matches(p, right) = {}
    PROVE  AsMerged'
<1>1. \A p \in T : heap[p] = start[p]
    BY DEF Advanced, Untouched
<1>2. \A p : Matches(p, right)' = Matches(p, right)
    BY DEF Matches
<1>3. \A p, a, b : Fused(p, a, b)' = Fused(p, a, b)
    BY DEF Fused, NewHits
<1> QED
    BY <1>1, <1>2, <1>3 DEF AsMerged

\* A match that leaves l to al.
LEMMA MatchAsMerged ==
    ASSUME TypeOK, Advanced, AsMerged, NEW al \in ll, NEW ar \in lr,
           IsFirst(al, ll), IsFirst(ar, lr), TakeBoth(al, ar),
           UNCHANGED <<type, left, right, start>>,
           NEW l, NEW r,
           heap' = [heap EXCEPT ![al] = l, ![ar] = r],
           answers' \subseteq answers \cup {al},
           l = Fused(al, heap[al], heap[ar])
    PROVE  AsMerged'
<1>1. /\ al # ar /\ al \in Answers /\ ar \in Answers
      /\ heap[al] = start[al] /\ heap[ar] = start[ar]
      /\ al \in left /\ Matches(al, right) = {ar} /\ {al, ar} \subseteq Ahead
    BY MatchTakes
<1>2. heap'[al] = l
    BY <1>1 DEF TypeOK
<1>3. ASSUME NEW p \in answers PROVE heap'[p] = heap[p]
    <2>1. p # al /\ p # ar /\ p \in Answers
        BY <1>1, KeptIsPassed
    <2> QED
        BY <2>1 DEF TypeOK
<1>4. \A p : Matches(p, right)' = Matches(p, right)
    BY DEF Matches
<1>5. \A p, a, b : Fused(p, a, b)' = Fused(p, a, b)
    BY DEF Fused, NewHits
<1> QED
    BY <1>1, <1>2, <1>3, <1>4, <1>5 DEF AsMerged

LEMMA AsMergedNext == TypeOK /\ Advanced /\ AsMerged /\ [Next]_vars => AsMerged'
<1> SUFFICES ASSUME TypeOK, Advanced, AsMerged, [Next]_vars PROVE AsMerged'
    OBVIOUS
<1>0. left \cap right = {} /\ ll \subseteq left /\ lr \subseteq right
    BY KeptIsPassed DEF TypeOK
<1>1. CASE Loop
    <2>1. PICK al \in ll, ar \in lr :
              /\ IsFirst(al, ll) /\ IsFirst(ar, lr)
              /\ \/ TakeLeft(al, ar) \/ TakeRight(al, ar)
                 \/ MatchAnd(al, ar) \/ MatchOr(al, ar)
                 \/ MatchProx(al, ar) \/ MatchExcept(al, ar)
        BY <1>1 DEF Loop
    <2>2. UNCHANGED <<type, left, right, start>>
        BY <1>1 DEF Loop
    <2>3. CASE TakeLeft(al, ar)
        <3>1. Matches(al, right) = {}
            BY <2>1, <2>3, FirstsTell DEF TakeLeft
        <3>2. UNCHANGED heap /\ answers' \subseteq answers \cup {al}
            BY <2>3 DEF TakeLeft, Keep, Delete
        <3>3. PICK T : T = {al}
            OBVIOUS
        <3>4. T \subseteq Ahead /\ answers' \subseteq answers \cup T
              /\ \A p \in T : p \in left => Matches(p, right) = {}
            BY <3>1, <3>2, <3>3 DEF Ahead
        <3> QED
            BY <2>2, <3>2, <3>4, AloneAsMerged
    <2>4. CASE TakeRight(al, ar)
        <3>2. UNCHANGED heap /\ answers' \subseteq answers \cup {ar}
            BY <2>4 DEF TakeRight, Keep, Delete
        <3>3. PICK T : T = {ar}
            OBVIOUS
        <3>4. T \subseteq Ahead /\ answers' \subseteq answers \cup T
              /\ \A p \in T : p \in left => Matches(p, right) = {}
            BY <1>0, <3>2, <3>3 DEF Ahead
        <3> QED
            BY <2>2, <3>2, <3>4, AloneAsMerged
    <2>5. CASE MatchAnd(al, ar)
        <3> DEFINE a == heap[al]
                   b == heap[ar]
                   l == [sha |-> ShaLeft(a, b), hits |-> {},
                         spots |-> AddSpots(a.spots, b.spots)]
                   r == [sha |-> ShaRight(a, b), hits |-> b.hits, spots |-> << >>]
        <3>1. /\ TakeBoth(al, ar) /\ type = "AND" /\ answers' \subseteq answers \cup {al}
              /\ heap' = [heap EXCEPT ![al] = l, ![ar] = r]
            BY <2>5 DEF MatchAnd, Merge
        <3>2. l = Fused(al, heap[al], heap[ar])
            BY <3>1 DEF Fused
        <3> HIDE DEF l, r
        <3> QED
            BY <2>1, <2>2, <3>1, <3>2, MatchAsMerged
    <2>6. CASE MatchOr(al, ar)
        <3> DEFINE a == heap[al]
                   b == heap[ar]
                   l == [sha |-> a.sha, hits |-> a.hits \cup b.hits,
                         spots |-> AddSpots(a.spots, b.spots)]
                   r == OrRight(b)
        <3>1. /\ TakeBoth(al, ar) /\ type = "OR" /\ answers' \subseteq answers \cup {al}
              /\ heap' = [heap EXCEPT ![al] = l, ![ar] = r]
            BY <2>6 DEF MatchOr, Merge
        <3>2. l = Fused(al, heap[al], heap[ar])
            BY <3>1 DEF Fused
        <3> HIDE DEF l, r
        <3> QED
            BY <2>1, <2>2, <3>1, <3>2, MatchAsMerged
    <2>7. CASE MatchProx(al, ar)
        <3> DEFINE a == heap[al]
                   b == heap[ar]
                   l == [sha |-> ShaLeft(a, b), hits |-> NewHits(al, a, b),
                         spots |-> AddSpots(a.spots, b.spots)]
                   r == [sha |-> ShaRight(a, b), hits |-> b.hits, spots |-> << >>]
        <3>1. /\ TakeBoth(al, ar) /\ type \in ProxTypes /\ answers' \subseteq answers \cup {al}
              /\ heap' = [heap EXCEPT ![al] = l, ![ar] = r]
            BY <2>7 DEF MatchProx, Merge
        <3>2. type # "AND" /\ type # "OR"
            BY <3>1 DEF ProxTypes
        <3>3. l = Fused(al, heap[al], heap[ar])
            BY <3>2 DEF Fused
        <3> HIDE DEF l, r
        <3> QED
            BY <2>1, <2>2, <3>1, <3>3, MatchAsMerged
    <2>8. CASE MatchExcept(al, ar)
        <3>1. PICK T : T = {}
            OBVIOUS
        <3>2. UNCHANGED <<heap, answers>> /\ T \subseteq Ahead /\ answers' \subseteq answers \cup T
              /\ \A p \in T : p \in left => Matches(p, right) = {}
            BY <2>8, <3>1 DEF MatchExcept
        <3> QED
            BY <2>2, <3>2, AloneAsMerged
    <2> QED
        BY <2>1, <2>3, <2>4, <2>5, <2>6, <2>7, <2>8
<1>2. CASE DrainLeft
    <2>1. /\ UNCHANGED <<type, left, right, start, heap>>
          /\ answers' \subseteq answers \cup ll
        BY <1>2 DEF DrainLeft, Delete
    <2>2. \A p \in ll : Matches(p, right) = {}
        BY <1>2, RemainsAlone DEF DrainLeft
    <2>3. ll \subseteq Ahead
        BY DEF Ahead
    <2> QED
        BY <2>1, <2>2, <2>3, AloneAsMerged
<1>3. CASE DrainRight
    <2>1. /\ UNCHANGED <<type, left, right, start, heap>>
          /\ answers' \subseteq answers \cup lr
        BY <1>3 DEF DrainRight, Delete
    <2>2. \A p \in lr : p \in left => Matches(p, right) = {}
        BY <1>0
    <2>3. lr \subseteq Ahead
        BY DEF Ahead
    <2> QED
        BY <2>1, <2>2, <2>3, AloneAsMerged
<1>4. CASE UNCHANGED vars
    <2>1. PICK T : T = {}
        OBVIOUS
    <2>2. /\ UNCHANGED <<type, left, right, start, heap>> /\ T \subseteq Ahead
          /\ answers' \subseteq answers \cup T
          /\ \A p \in T : p \in left => Matches(p, right) = {}
        BY <1>4, <2>1 DEF vars
    <2> QED
        BY <2>2, AloneAsMerged
<1> QED
    BY <1>1, <1>2, <1>3, <1>4 DEF Next

\* MergeInvariant: MergeInv always holds: the two sets are gone through in
\* step, every object has one owner, an answer of the record it was read for, and
\* an answer of the result holds what its operator makes of it and of its match.
THEOREM MergeInvariant == Spec => []MergeInv
<1>1. Init => TypeOK /\ MergeInv
    BY TypeInit, AdvancedInit DEF MergeInv, AsMerged, Init
<1>2. TypeOK /\ MergeInv /\ [Next]_vars => TypeOK' /\ MergeInv'
    BY TypeNext, AdvancedNext, AsMergedNext DEF MergeInv
<1> QED
    BY <1>1, <1>2, PTL DEF Spec

\* MergeFindsResult: when the operator returns, its answers are those it
\* stands for: the merge misses no match, for any branches.
THEOREM MergeFindsResult == Spec => []ResultAsDefined
<1>1. MergeInv => ResultAsDefined
    BY DEF MergeInv, Advanced, SoFar, ResultAsDefined, Done, Ahead
<1> QED
    BY <1>1, MergeInvariant, PTL

\* NothingFreedTwice: at each step of the operator every object is owned by
\* one answer in use, or was deleted: none is deleted twice, used after that,
\* or lost.
THEOREM NothingFreedTwice == Spec => []OneOwner
<1>1. MergeInv => OneOwner
    BY DEF MergeInv, Advanced
<1> QED
    BY <1>1, MergeInvariant, PTL

-----------------------------------------------------------------------------
(* The spots of two answers                                                *)

\* A turn of AddSpots.
LEMMA AddSpotOk ==
    ASSUME NEW X, NEW l \in Seq(X), NEW spot \in X
    PROVE  /\ AddSpot(l, spot) \in Seq(X)
           /\ Range(AddSpot(l, spot)) = Range(l) \cup {spot}
<1>1. Append(l, spot) \in Seq(X)
    OBVIOUS
<1>2. DOMAIN l = 1..Len(l) /\ Len(l) \in Nat
    BY LenProperties
<1>3. CASE \E i \in DOMAIN l : l[i] = spot
    BY <1>3 DEF AddSpot, Range
<1>4. CASE ~ \E i \in DOMAIN l : l[i] = spot
    <2>1. AddSpot(l, spot) = Append(l, spot)
        BY <1>4 DEF AddSpot
    <2>2. PICK t \in Seq(X) : t = Append(l, spot)
        BY <1>1
    <2>3. /\ Len(t) = Len(l) + 1 /\ DOMAIN t = 1..Len(t) /\ t[Len(l) + 1] = spot
          /\ \A i \in 1..Len(l) : t[i] = l[i]
        BY <2>2, AppendProperties, LenProperties
    <2>4. \A i \in DOMAIN t : i \in DOMAIN l \/ i = Len(l) + 1
        BY <1>2, <2>3
    <2>5. \A i \in DOMAIN l : i \in DOMAIN t /\ t[i] = l[i]
        BY <1>2, <2>3
    <2>6. Len(l) + 1 \in DOMAIN t
        BY <1>2, <2>3
    <2>7. Range(t) = Range(l) \cup {spot}
        BY <2>3, <2>4, <2>5, <2>6 DEF Range
    <2> QED
        BY <2>1, <2>2, <2>7
<1> QED
    BY <1>3, <1>4

\* The loop over the spots of the right answer adds all of them.
LEMMA AddSpotsOk ==
    ASSUME NEW X, NEW l \in Seq(X), NEW r \in Seq(X)
    PROVE  Range(AddSpots(l, r)) = Range(l) \cup Range(r)
<1> DEFINE n == Len(r)
           step == [p \in Seq(X) \X (1..n) |-> AddSpot(p[1], r[p[2]])]
           Def(g) == [s \in SUBSET DOMAIN r |->
                        IF s = {} THEN l ELSE AddSpot(g[s \ {Max(s)}], r[Max(s)])]
           it == CHOOSE g : g = Def(g)
           f == [k \in 0..n |-> it[1..k]]
           D == {k \in 0..n : /\ f[k] \in Seq(X)
                              /\ Range(f[k]) = Range(l) \cup {r[i] : i \in 1..k}}
<1>1. n \in Nat /\ DOMAIN r = 1..n /\ \A k \in 1..n : r[k] \in X
    BY LenProperties
<1>2. step \in [Seq(X) \X (1..n) -> Seq(X)]
    BY <1>1, AddSpotOk
<1>3. \E g : g = Def(g)
    <2> HIDE DEF step, n
    <2>0. PICK T : T = Seq(X)
        OBVIOUS
    <2>1. n \in Nat /\ l \in T /\ step \in [T \X (1..n) -> T]
        BY <1>1, <1>2, <2>0
    <2>2. PICK g \in [SUBSET (1..n) -> T] : IsFold(g, n, l, step)
        BY <2>1, FoldExists
    <2>3. ASSUME NEW s \in SUBSET (1..n)
          PROVE  g[s] = IF s = {} THEN l ELSE AddSpot(g[s \ {Max(s)}], r[Max(s)])
        <3>1. CASE s = {}
            BY <3>1, <2>2 DEF IsFold
        <3>2. CASE s # {}
            <4>1. Max(s) \in 1..n
                BY <1>1, <3>2, MaxOf
            <4>2. g[s \ {Max(s)}] \in Seq(X)
                BY <2>0, <2>2
            <4>3. step[<<g[s \ {Max(s)}], Max(s)>>] = AddSpot(g[s \ {Max(s)}], r[Max(s)])
                BY <4>1, <4>2 DEF step
            <4> QED
                BY <2>2, <3>2, <4>3 DEF IsFold
        <3> QED
            BY <3>1, <3>2
    <2>4. g = Def(g)
        BY <2>2, <2>3, <1>1
    <2> QED
        BY <2>4
<1>4. it = Def(it)
    <2> HIDE DEF Def
    <2> QED
        BY <1>3
<1>5. AddSpots(l, r) = it[DOMAIN r]
    BY DEF AddSpots, FoldLeft, MapThenFoldSet
<1> HIDE DEF it
<1>6. f[0] = l
    <2>1. 1..0 = {} /\ {} \in SUBSET DOMAIN r /\ 0 \in 0..n
        BY <1>1
    <2>2. it[{}] = l
        BY <1>4, <2>1
    <2> QED
        BY <2>1, <2>2
<1>7. ASSUME NEW k \in 1..n PROVE f[k] = AddSpot(f[k - 1], r[k])
    <2>1. /\ 1..k \in SUBSET DOMAIN r /\ 1..k # {}
          /\ Max(1..k) = k /\ (1..k) \ {Max(1..k)} = 1..(k - 1)
        BY <1>1, FoldSteps
    <2>2. it[1..k] = AddSpot(it[(1..k) \ {Max(1..k)}], r[Max(1..k)])
        BY <1>4, <2>1
    <2>3. k \in 0..n /\ k - 1 \in 0..n
        BY <1>1
    <2> QED
        BY <2>1, <2>2, <2>3
<1>8. f[n] = AddSpots(l, r)
    BY <1>1, <1>5
<1>9. 0 \in D
    <2>1. 0 \in 0..n /\ {r[i] : i \in 1..0} = {}
        BY <1>1
    <2> HIDE DEF f
    <2> QED
        BY <1>6, <2>1
<1> HIDE DEF f
<1>10. ASSUME NEW k \in 0..(n - 1), k \in D PROVE k + 1 \in D
    <2>1. k + 1 \in 1..n /\ (k + 1) - 1 = k /\ k + 1 \in 0..n
        BY <1>1
    <2>2. f[k + 1] = AddSpot(f[k], r[k + 1])
        BY <2>1, <1>7
    <2>3. f[k] \in Seq(X) /\ r[k + 1] \in X
        BY <1>1, <1>10, <2>1
    <2>4. f[k + 1] \in Seq(X) /\ Range(f[k + 1]) = Range(f[k]) \cup {r[k + 1]}
        BY <2>2, <2>3, AddSpotOk, SMTT(30)
    <2>5. 1..(k + 1) = (1..k) \cup {k + 1}
        OBVIOUS
    <2>6. {r[i] : i \in 1..(k + 1)} = {r[i] : i \in 1..k} \cup {r[k + 1]}
        BY <2>5
    <2> QED
        BY <1>10, <2>1, <2>4, <2>6
<1> HIDE DEF D
<1>11. 0..n \subseteq D
    BY <1>1, <1>9, <1>10, UpTo
<1>12. n \in D /\ Range(r) = {r[i] : i \in 1..n}
    BY <1>1, <1>11 DEF Range
<1> QED
    BY <1>8, <1>12 DEF D

\* SpotsKept: an answer of the result highlights what the answers of its record did.
THEOREM SpotsKept == Spec => []SpotsOfBoth
<1>1. TypeOK /\ MergeInv => SpotsOfBoth
    <2> SUFFICES ASSUME TypeOK, MergeInv, NEW p \in answers
                 PROVE  Range(heap[p].spots) =
                            Range(start[p].spots) \cup
                              UNION {Range(start[q].spots) :
                                        q \in IF p.side = "l" THEN Matches(p, right) ELSE {}}
        BY DEF SpotsOfBoth
    <2>1. /\ p \in left \cup right
          /\ p \in left <=> p.side = "l"
        <3>1. \A q \in left : q.side = "l"
            BY DEF TypeOK, Answer
        <3>2. \A q \in right : q.side = "r"
            BY DEF TypeOK, Answer
        <3> QED
            BY <3>1, <3>2 DEF TypeOK
    <2>2. \A q \in left \cup right : start[q].spots \in Seq(Range(start[q].spots))
        BY DEF MergeInv, Advanced, OwnAtStart
    <2>3. CASE p \in left /\ Matches(p, right) # {}
        <3>1. PICK q \in right : Matches(p, right) = {q}
            <4>1. \A q1, q2 \in right : q1.rid = q2.rid => q1 = q2
                BY AnswerIsItsRecord DEF TypeOK
            <4> QED
                BY <2>3, <4>1 DEF Matches
        <3>2. heap[p] = Fused(p, start[p], start[q])
            BY <2>3, <3>1 DEF MergeInv, AsMerged
        <3>3. heap[p].spots = AddSpots(start[p].spots, start[q].spots)
            BY <3>2 DEF Fused
        <3>4. PICK X, l, r : /\ l = start[p].spots /\ r = start[q].spots
                             /\ X = Range(l) \cup Range(r)
            OBVIOUS
        <3>5. l \in Seq(X) /\ r \in Seq(X)
            <4>1. l \in Seq(Range(l)) /\ r \in Seq(Range(r))
                BY <2>1, <2>2, <3>4
            <4> QED
                BY <3>4, <4>1
        <3>6. Range(AddSpots(l, r)) = Range(l) \cup Range(r)
            BY <3>5, AddSpotsOk
        <3> QED
            BY <2>1, <2>3, <3>1, <3>3, <3>4, <3>6
    <2>4. CASE ~(p \in left /\ Matches(p, right) # {})
        <3>1. heap[p] = start[p]
            BY <2>4 DEF MergeInv, AsMerged
        <3>2. {Range(start[q].spots) :
                   q \in IF p.side = "l" THEN Matches(p, right) ELSE {}} = {}
            BY <2>1, <2>4
        <3> QED
            BY <3>1, <3>2
    <2> QED
        BY <2>3, <2>4
<1> QED
    BY <1>1, MergeTypes, MergeInvariant, PTL

-----------------------------------------------------------------------------
(* The algebra of answers                                                  *)

\* What the memory m says of an answer, and what answers with different records say,
\* by record.
Said(m, p) == [m[p] EXCEPT !.hits = Words(@)]

Shows(V, S, m) ==
    /\ DOMAIN V = {p.rid : p \in S}
    /\ V = [rid \in {p.rid : p \in S} |-> V[rid]]
    /\ \A p \in S : V[p.rid] = Said(m, p)

LEMMA ViewIs ==
    ASSUME NEW S, \A p, q \in S : p.rid = q.rid => p = q, NEW m
    PROVE  Shows(View(S, m), S, m)
<1>0. PICK V : V = View(S, m)
    OBVIOUS
<1> DEFINE Of(rid) == CHOOSE p \in S : p.rid = rid
<1>1. \A p \in S : Of(p.rid) = p
    OBVIOUS
<1>2. V = [rid \in {p.rid : p \in S} |-> Said(m, Of(rid))]
    BY <1>0 DEF View, Said
<1> HIDE DEF Of
<1> QED
    BY <1>0, <1>1, <1>2 DEF Shows

\* The hits of a match, without their memory.
LEMMA WordsOf ==
    /\ \A c, d : Words(c \cup d) = Words(c) \cup Words(d)
    /\ Words({}) = {}
    /\ \A p, when : \A hits \in SUBSET [iws : Int, iwe : Int] :
          Words(Cells(p, when, hits)) = hits
<1>1. ASSUME NEW p, NEW when, NEW hits \in SUBSET [iws : Int, iwe : Int]
      PROVE  Words(Cells(p, when, hits)) = hits
    <2>1. ASSUME NEW h \in hits
          PROVE  h \in Words(Cells(p, when, hits))
        <3> DEFINE c == [cell |-> <<p, when>>, iws |-> h.iws, iwe |-> h.iwe]
        <3>1. c \in Cells(p, when, hits) /\ c.iws = h.iws /\ c.iwe = h.iwe
            BY DEF Cells
        <3>2. h = [iws |-> h.iws, iwe |-> h.iwe]
            OBVIOUS
        <3> HIDE DEF c
        <3> QED
            BY <3>1, <3>2 DEF Words
    <2>2. ASSUME NEW w \in Words(Cells(p, when, hits))
          PROVE  w \in hits
        <3>1. PICK c \in Cells(p, when, hits) : w = [iws |-> c.iws, iwe |-> c.iwe]
            BY DEF Words
        <3>2. PICK h \in hits : c = [cell |-> <<p, when>>, iws |-> h.iws, iwe |-> h.iwe]
            BY DEF Cells
        <3>3. h = [iws |-> h.iws, iwe |-> h.iwe]
            OBVIOUS
        <3> QED
            BY <3>1, <3>2, <3>3
    <2> QED
        BY <2>1, <2>2
<1>2. \A c, d : Words(c \cup d) = Words(c) \cup Words(d)
    BY DEF Words
<1>3. Words({}) = {}
    BY DEF Words
<1> QED
    BY <1>1, <1>2, <1>3

\* All the fields of an answer replaced.
LEMMA ThreeFields ==
    ASSUME NEW s1, NEW h1, NEW p1, NEW a, a = [sha |-> s1, hits |-> h1, spots |-> p1],
           NEW S, NEW H, NEW P
    PROVE  [a EXCEPT !.sha = S, !.hits = H, !.spots = P] = [sha |-> S, hits |-> H, spots |-> P]
<1>1. PICK c : c = [a EXCEPT !.sha = S, !.hits = H, !.spots = P]
    OBVIOUS
<1>2. DOMAIN c = {"sha", "hits", "spots"} /\ c.sha = S /\ c.hits = H /\ c.spots = P
    BY <1>1
<1>3. c = [sha |-> S, hits |-> H, spots |-> P]
    BY <1>1, <1>2
<1> QED
    BY <1>1, <1>3

\* The algebra, on records.
Fields(a) == a = [sha |-> a.sha, hits |-> a.hits, spots |-> a.spots]

LEMMA OnRecords ==
    ASSUME NEW a, NEW b, Fields(a), Fields(b)
    PROVE  /\ AndAnswer(a, b) = [sha |-> IF a.sha = {} THEN b.sha ELSE a.sha, hits |-> {},
                                 spots |-> AddSpots(a.spots, b.spots)]
           /\ OrAnswer(a, b) = [sha |-> a.sha, hits |-> a.hits \cup b.hits,
                                spots |-> AddSpots(a.spots, b.spots)]
           /\ \A t, n : ProxAnswer(t, n, a, b) =
                 [sha |-> IF a.sha = {} THEN b.sha ELSE a.sha,
                  hits |-> ProxHits(t, n, a.hits, b.hits),
                  spots |-> AddSpots(a.spots, b.spots)]
<1>a. PICK s1, h1, p1, s2, h2, p2 :
          /\ s1 = a.sha /\ h1 = a.hits /\ p1 = a.spots
          /\ s2 = b.sha /\ h2 = b.hits /\ p2 = b.spots
    OBVIOUS
<1>b. /\ a = [sha |-> s1, hits |-> h1, spots |-> p1]
      /\ b = [sha |-> s2, hits |-> h2, spots |-> p2]
    BY <1>a DEF Fields
<1>0. a.sha = s1 /\ a.hits = h1 /\ a.spots = p1 /\ b.sha = s2 /\ b.hits = h2 /\ b.spots = p2
    BY <1>a
<1>1. AndAnswer(a, b) = [sha |-> IF s1 = {} THEN s2 ELSE s1, hits |-> {},
                         spots |-> AddSpots(p1, p2)]
    <2>1. PICK S, P : S = (IF s1 = {} THEN s2 ELSE s1) /\ P = AddSpots(p1, p2)
        OBVIOUS
    <2>2. AndAnswer(a, b) = [a EXCEPT !.sha = S, !.hits = {}, !.spots = P]
        BY <1>0, <2>1 DEF AndAnswer
    <2> QED
        BY <2>1, <2>2, <1>b, ThreeFields
<1>2. OrAnswer(a, b) = [sha |-> s1, hits |-> h1 \cup h2, spots |-> AddSpots(p1, p2)]
    <2>1. PICK H, P : H = h1 \cup h2 /\ P = AddSpots(p1, p2)
        OBVIOUS
    <2>2. OrAnswer(a, b) = [a EXCEPT !.hits = H, !.spots = P]
        BY <1>0, <2>1 DEF OrAnswer
    <2>3. PICK c : c = [a EXCEPT !.hits = H, !.spots = P]
        OBVIOUS
    <2>4. DOMAIN c = {"sha", "hits", "spots"} /\ c.sha = s1 /\ c.hits = H /\ c.spots = P
        BY <1>b, <2>3
    <2>5. c = [sha |-> s1, hits |-> H, spots |-> P]
        BY <2>3, <2>4
    <2> QED
        BY <2>1, <2>2, <2>3, <2>5
<1>3. ASSUME NEW t, NEW n
      PROVE  ProxAnswer(t, n, a, b) =
                   [sha |-> IF s1 = {} THEN s2 ELSE s1, hits |-> ProxHits(t, n, h1, h2),
                    spots |-> AddSpots(p1, p2)]
    <2>1. PICK S, H, P : /\ S = (IF s1 = {} THEN s2 ELSE s1) /\ P = AddSpots(p1, p2)
                         /\ H = ProxHits(t, n, h1, h2)
        OBVIOUS
    <2>2. ProxAnswer(t, n, a, b) = [a EXCEPT !.sha = S, !.hits = H, !.spots = P]
        BY <1>0, <2>1 DEF ProxAnswer
    <2> QED
        BY <2>1, <2>2, <1>b, ThreeFields
<1> QED
    BY <1>a, <1>1, <1>2, <1>3

\* What is said of a match by what is said of the two answers.
LEMMA SaidOfMatch ==
    ASSUME NEW al \in Answers, NEW a, NEW b, OkMemory(a), OkMemory(b),
           NEW va, va = [a EXCEPT !.hits = Words(@)],
           NEW vb, vb = [b EXCEPT !.hits = Words(@)],
           NEW v, v = [Fused(al, a, b) EXCEPT !.hits = Words(@)]
    PROVE  /\ va.hits = Words(a.hits) /\ vb.hits = Words(b.hits)
           /\ type = "AND" => v = AndAnswer(va, vb)
           /\ type = "OR" => v = OrAnswer(va, vb)
           /\ type \notin {"AND", "OR"} => v = ProxAnswer(type, Prox, va, vb)
<1> DEFINE new == ProxHits(type, Prox, Words(a.hits), Words(b.hits))
<1>0. PICK wa, wb, spots, sha :
          /\ wa = Words(a.hits) /\ wb = Words(b.hits)
          /\ spots = AddSpots(a.spots, b.spots)
          /\ sha = IF a.sha = {} THEN b.sha ELSE a.sha
    OBVIOUS
<1>1. va = [sha |-> a.sha, hits |-> wa, spots |-> a.spots]
    BY <1>0 DEF OkMemory
<1>2. vb = [sha |-> b.sha, hits |-> wb, spots |-> b.spots]
    BY <1>0 DEF OkMemory
<1>3. v = [sha   |-> IF type = "OR" THEN a.sha ELSE sha,
           hits  |-> Words(CASE type = "AND" -> {}
                             [] type = "OR"  -> a.hits \cup b.hits
                             [] OTHER        -> NewHits(al, a, b)),
           spots |-> spots]
    BY <1>0 DEF Fused, ShaLeft
<1>4. /\ AndAnswer(va, vb) = [sha |-> sha, hits |-> {}, spots |-> spots]
      /\ OrAnswer(va, vb) = [sha |-> a.sha, hits |-> wa \cup wb, spots |-> spots]
      /\ ProxAnswer(type, Prox, va, vb) = [sha |-> sha, hits |-> new, spots |-> spots]
    <2>1. /\ va.sha = a.sha /\ va.hits = wa /\ va.spots = a.spots
          /\ vb.sha = b.sha /\ vb.hits = wb /\ vb.spots = b.spots
        BY <1>1, <1>2
    <2>2. Fields(va) /\ Fields(vb)
        BY <1>1, <1>2, <2>1 DEF Fields
    <2>3. /\ AndAnswer(va, vb) = [sha |-> IF va.sha = {} THEN vb.sha ELSE va.sha, hits |-> {},
                                  spots |-> AddSpots(va.spots, vb.spots)]
          /\ OrAnswer(va, vb) = [sha |-> va.sha, hits |-> va.hits \cup vb.hits,
                                 spots |-> AddSpots(va.spots, vb.spots)]
          /\ \A t, n : ProxAnswer(t, n, va, vb) =
                [sha |-> IF va.sha = {} THEN vb.sha ELSE va.sha,
                 hits |-> ProxHits(t, n, va.hits, vb.hits),
                 spots |-> AddSpots(va.spots, vb.spots)]
        BY ONLY <2>2, OnRecords
    <2>4. AddSpots(va.spots, vb.spots) = spots /\ (IF va.sha = {} THEN vb.sha ELSE va.sha) = sha
        BY <1>0, <2>1
    <2>5. ProxHits(type, Prox, va.hits, vb.hits) = new
        BY <1>0, <2>1
    <2> HIDE DEF new
    <2> QED
        BY <2>1, <2>3, <2>4, <2>5
<1>5. va.hits = Words(a.hits) /\ vb.hits = Words(b.hits)
    BY <1>0, <1>1, <1>2
<1>6. ASSUME type = "AND" PROVE v = AndAnswer(va, vb)
    BY <1>3, <1>4, <1>6, WordsOf
<1>7. ASSUME type = "OR" PROVE v = OrAnswer(va, vb)
    <2>1. Words(a.hits \cup b.hits) = wa \cup wb
        BY <1>0, WordsOf
    <2>2. v = [sha |-> a.sha, hits |-> wa \cup wb, spots |-> spots]
        BY <1>3, <1>7, <2>1
    <2> QED
        BY <1>4, <2>2
<1>8. ASSUME type \notin {"AND", "OR"} PROVE v = ProxAnswer(type, Prox, va, vb)
    <2>1. Words(NewHits(al, a, b)) = new
        <3>1. /\ Words(a.hits) \in SUBSET [iws : Int, iwe : Int]
              /\ Words(b.hits) \in SUBSET [iws : Int, iwe : Int]
              /\ \A h \in Words(a.hits) : h.iws <= h.iwe
              /\ \A h \in Words(b.hits) : h.iws <= h.iwe
            BY WordsOk DEF OkMemory
        <3>2. new \in SUBSET [iws : Int, iwe : Int]
            BY <3>1, ProxHitsOk
        <3>3. NewHits(al, a, b) = Cells(al, "new", new)
            BY DEF NewHits
        <3> HIDE DEF new
        <3> QED
            BY <3>2, <3>3, WordsOf
    <2> HIDE DEF new
    <2>2. v = [sha |-> sha, hits |-> new, spots |-> spots]
        BY <1>3, <1>8, <2>1
    <2> QED
        BY <1>4, <2>2
<1> QED
    BY <1>5, <1>6, <1>7, <1>8

\* What the answers of the result say when the operator returns, V, against what those
\* of the two branches did, L and R.
Agrees(V, L, R) ==
    /\ V = [rid \in {p.rid : p \in Result} |-> V[rid]]
    /\ DOMAIN L = {p.rid : p \in left}
    /\ DOMAIN R = {p.rid : p \in right}
    /\ \A p \in left, q \in right : p.rid = q.rid =>
          /\ Matches(p, right) = {q} /\ Matches(q, left) = {p}
          /\ Near(p, q) <=> ProxHits(type, Prox, L[p.rid].hits, R[p.rid].hits) # {}
          /\ p \in Result =>
                /\ type = "AND" => V[p.rid] = AndAnswer(L[p.rid], R[p.rid])
                /\ type = "OR" => V[p.rid] = OrAnswer(L[p.rid], R[p.rid])
                /\ type \notin {"AND", "OR"} =>
                      V[p.rid] = ProxAnswer(type, Prox, L[p.rid], R[p.rid])
    /\ \A p \in left : p \in Result /\ Matches(p, right) = {} => V[p.rid] = L[p.rid]
    /\ \A q \in right : q \in Result => V[q.rid] = R[q.rid]

LEMMA ResultSays ==
    ASSUME TypeOK, MergeInv, Done,
           NEW V, V = View(answers, heap),
           NEW L, L = View(left, start),
           NEW R, R = View(right, start)
    PROVE  Agrees(V, L, R)
<1>1. answers = Result
    BY DEF MergeInv, Advanced, SoFar, Done, Ahead
<1>2. /\ \A p, q \in left : p.rid = q.rid => p = q
      /\ \A p, q \in right : p.rid = q.rid => p = q
      /\ left \cap right = {}
      /\ \A p \in left \cup right : p \in Answers
    BY AnswerIsItsRecord, KeptIsPassed DEF TypeOK, MergeInv
<1>3. /\ \A q \in right : q \in Result => type = "OR" /\ Matches(q, left) = {}
      /\ Result \subseteq left \cup right
    BY InResult
<1>4. \A p, q \in answers : p.rid = q.rid => p = q
    BY <1>1, <1>2, <1>3 DEF Matches
<1>5. /\ V = [rid \in {p.rid : p \in answers} |-> V[rid]]
      /\ \A p \in answers : V[p.rid] = Said(heap, p)
    <2>1. Shows(V, answers, heap)
        BY <1>4, ViewIs
    <2> QED
        BY <2>1 DEF Shows
<1>6. /\ DOMAIN L = {p.rid : p \in left}
      /\ \A p \in left : L[p.rid] = Said(start, p)
    <2>1. Shows(L, left, start)
        BY <1>2, ViewIs
    <2> QED
        BY <2>1 DEF Shows
<1>7. /\ DOMAIN R = {p.rid : p \in right}
      /\ \A p \in right : R[p.rid] = Said(start, p)
    <2>1. Shows(R, right, start)
        BY <1>2, ViewIs
    <2> QED
        BY <2>1 DEF Shows
<1>8. AsMerged
    BY DEF MergeInv
<1>9. ASSUME NEW p \in left, NEW q \in right, p.rid = q.rid
      PROVE  /\ Matches(p, right) = {q} /\ Matches(q, left) = {p}
             /\ Near(p, q) <=> ProxHits(type, Prox, L[p.rid].hits, R[p.rid].hits) # {}
             /\ p \in Result =>
                   /\ type = "AND" => V[p.rid] = AndAnswer(L[p.rid], R[p.rid])
                   /\ type = "OR" => V[p.rid] = OrAnswer(L[p.rid], R[p.rid])
                   /\ type \notin {"AND", "OR"} =>
                         V[p.rid] = ProxAnswer(type, Prox, L[p.rid], R[p.rid])
    <2>1. Matches(p, right) = {q} /\ Matches(q, left) = {p}
        BY <1>2, <1>9 DEF Matches
    <2>2. OkMemory(start[p]) /\ OkMemory(start[q])
        BY <1>2 DEF TypeOK, OkMemory
    <2>3. PICK va, vb, v :
              /\ va = [start[p] EXCEPT !.hits = Words(@)]
              /\ vb = [start[q] EXCEPT !.hits = Words(@)]
              /\ v = [Fused(p, start[p], start[q]) EXCEPT !.hits = Words(@)]
        OBVIOUS
    <2>4. L[p.rid] = va /\ R[p.rid] = vb
        BY <1>6, <1>7, <1>9, <2>3 DEF Said
    <2>5. /\ va.hits = Words(start[p].hits) /\ vb.hits = Words(start[q].hits)
          /\ type = "AND" => v = AndAnswer(va, vb)
          /\ type = "OR" => v = OrAnswer(va, vb)
          /\ type \notin {"AND", "OR"} => v = ProxAnswer(type, Prox, va, vb)
        BY <1>2, <2>2, <2>3, SaidOfMatch
    <2>6. ASSUME p \in Result PROVE V[p.rid] = v
        <3>1. heap[p] = Fused(p, start[p], start[q])
            BY <1>1, <1>8, <2>1, <2>6 DEF AsMerged
        <3> QED
            BY <1>1, <1>5, <2>3, <2>6, <3>1 DEF Said
    <2>7. Near(p, q) <=> ProxHits(type, Prox, va.hits, vb.hits) # {}
        BY <2>5 DEF Near
    <2> QED
        BY <2>1, <2>4, <2>5, <2>6, <2>7
<1>10. ASSUME NEW p \in left, p \in Result, Matches(p, right) = {} PROVE V[p.rid] = L[p.rid]
    <2>1. heap[p] = start[p]
        BY <1>1, <1>8, <1>10 DEF AsMerged
    <2>2. Said(heap, p) = Said(start, p)
        BY <2>1 DEF Said
    <2> QED
        BY <1>1, <1>5, <1>6, <1>10, <2>1, <2>2
<1>11. ASSUME NEW q \in right, q \in Result PROVE V[q.rid] = R[q.rid]
    <2>1. heap[q] = start[q]
        BY <1>1, <1>2, <1>8, <1>11 DEF AsMerged
    <2>2. Said(heap, q) = Said(start, q)
        BY <2>1 DEF Said
    <2> QED
        BY <1>1, <1>5, <1>7, <1>11, <2>1, <2>2
<1> QED
    BY <1>1, <1>5, <1>6, <1>7, <1>9, <1>10, <1>11 DEF Agrees

\* AlgebraImplemented: when the operator returns, what its answers say is what Combine
\* makes of the two branches, for any branches.
THEOREM AlgebraImplemented == Spec => []ImplementsAlgebra
<1>1. TypeOK /\ MergeInv => ImplementsAlgebra
    <2> SUFFICES ASSUME TypeOK, MergeInv, Done
                 PROVE  View(answers, heap) =
                            Combine(type, Prox, View(left, start), View(right, start))
        BY DEF ImplementsAlgebra
    <2>1. PICK V, L, R : V = View(answers, heap) /\ L = View(left, start) /\ R = View(right, start)
        OBVIOUS
    <2> DEFINE rids == {p.rid : p \in Result}
               both == DOMAIN L \cap DOMAIN R
               near == {rid \in both : ProxHits(type, Prox, L[rid].hits, R[rid].hits) # {}}
    <2>a. Agrees(V, L, R)
        BY <2>1, ResultSays
    <2>2. /\ V = [rid \in rids |-> V[rid]]
          /\ DOMAIN L = {p.rid : p \in left}
          /\ DOMAIN R = {p.rid : p \in right}
          /\ \A p \in left, q \in right : p.rid = q.rid =>
                /\ Matches(p, right) = {q} /\ Matches(q, left) = {p}
                /\ Near(p, q) <=> ProxHits(type, Prox, L[p.rid].hits, R[p.rid].hits) # {}
                /\ p \in Result =>
                      /\ type = "AND" => V[p.rid] = AndAnswer(L[p.rid], R[p.rid])
                      /\ type = "OR" => V[p.rid] = OrAnswer(L[p.rid], R[p.rid])
                      /\ type \notin {"AND", "OR"} =>
                            V[p.rid] = ProxAnswer(type, Prox, L[p.rid], R[p.rid])
          /\ \A p \in left : p \in Result /\ Matches(p, right) = {} => V[p.rid] = L[p.rid]
          /\ \A q \in right : q \in Result => V[q.rid] = R[q.rid]
        BY <2>a DEF Agrees
    <2>3. type \in {"AND", "OR", "EXCEPT", "NEAR", "BEFORE", "AFTER"}
        BY ParametersAssumption DEF TypeOK, Operators, ProxTypes
    <2>4. /\ \A p \in left, q \in right : p.rid = q.rid => q \in Matches(p, right)
          /\ \A p \in left : \A q \in Matches(p, right) : q \in right /\ q.rid = p.rid
          /\ \A q \in right : \A p \in Matches(q, left) : p \in left /\ q.rid = p.rid
        BY DEF Matches
    <2>5. CASE type = "AND"
        <3>1. Result = {p \in left : Matches(p, right) # {}}
            BY <2>5 DEF Result, ProxTypes
        <3>2. rids = both
            BY <2>2, <2>4, <3>1
        <3>3. \A rid \in both : V[rid] = AndAnswer(L[rid], R[rid])
            BY <2>2, <2>4, <2>5, <3>1
        <3>4. Combine(type, Prox, L, R) = [rid \in both |-> AndAnswer(L[rid], R[rid])]
            BY <2>5 DEF Combine
        <3> HIDE DEF rids, both
        <3> QED
            BY <2>1, <2>2, <3>2, <3>3, <3>4
    <2>6. CASE type = "OR"
        <3>1. Result = left \cup {q \in right : Matches(q, left) = {}}
            BY <2>6 DEF Result, ProxTypes
        <3> DEFINE all == DOMAIN L \cup DOMAIN R
                   Or(rid) == IF rid \in both THEN OrAnswer(L[rid], R[rid])
                              ELSE IF rid \in DOMAIN L THEN L[rid] ELSE R[rid]
        <3>2. rids = all
            BY <2>2, <2>4, <3>1
        <3>3. ASSUME NEW rid \in all PROVE V[rid] = Or(rid)
            <4>1. CASE rid \in both
                <5>1. PICK p \in left, q \in right : p.rid = rid /\ q.rid = rid
                    BY <2>2, <4>1
                <5>2. V[p.rid] = OrAnswer(L[p.rid], R[p.rid])
                    BY <2>2, <2>6, <3>1, <5>1, ZenonT(30)
                <5> QED
                    BY <4>1, <5>1, <5>2
            <4>2. CASE rid \in DOMAIN L /\ rid \notin DOMAIN R
                <5>1. PICK p \in left : p.rid = rid
                    BY <2>2, <4>2
                <5>2. Matches(p, right) = {}
                    BY <2>2, <2>4, <4>2, <5>1
                <5> QED
                    BY <2>2, <3>1, <4>2, <5>1, <5>2
            <4>3. CASE rid \notin DOMAIN L /\ rid \in DOMAIN R
                <5>1. PICK q \in right : q.rid = rid
                    BY <2>2, <4>3
                <5>2. Matches(q, left) = {}
                    BY <2>2, <2>4, <4>3, <5>1
                <5> QED
                    BY <2>2, <3>1, <4>3, <5>1, <5>2
            <4> QED
                BY <4>1, <4>2, <4>3
        <3>4. Combine(type, Prox, L, R) = [rid \in all |-> Or(rid)]
            BY <2>6 DEF Combine
        <3> HIDE DEF rids, all, Or
        <3> QED
            BY <2>1, <2>2, <3>2, <3>3, <3>4
    <2>7. CASE type = "EXCEPT"
        <3> DEFINE alone == DOMAIN L \ DOMAIN R
        <3>1. Result = {p \in left : Matches(p, right) = {}}
            BY <2>7 DEF Result, ProxTypes
        <3>2. rids = alone
            BY <2>2, <2>4, <3>1
        <3>3. ASSUME NEW rid \in alone PROVE V[rid] = L[rid]
            <4>1. PICK p \in left : p.rid = rid
                BY <2>2
            <4>2. Matches(p, right) = {}
                BY <2>2, <2>4, <4>1
            <4> QED
                BY <2>2, <3>1, <4>1, <4>2
        <3>4. Combine(type, Prox, L, R) = [rid \in alone |-> L[rid]]
            BY <2>7 DEF Combine
        <3> HIDE DEF rids, alone
        <3> QED
            BY <2>1, <2>2, <3>2, <3>3, <3>4
    <2>8. CASE type \in ProxTypes
        <3>0. type # "AND" /\ type # "OR" /\ type # "EXCEPT"
            BY <2>8 DEF ProxTypes
        <3>1. Result = {p \in left : \E q \in Matches(p, right) : Near(p, q)}
            BY <2>8, <3>0 DEF Result
        <3>2. rids = near
            <4>1. ASSUME NEW p \in Result PROVE p.rid \in near
                <5>1. PICK q \in right : p \in left /\ q.rid = p.rid /\ Near(p, q)
                    BY <2>4, <3>1
                <5> QED
                    BY <2>2, <5>1
            <4>2. ASSUME NEW rid \in near PROVE rid \in rids
                <5>1. PICK p \in left, q \in right : p.rid = rid /\ q.rid = rid
                    BY <2>2
                <5>2. Near(p, q)
                    BY <2>2, <5>1
                <5> QED
                    BY <2>4, <3>1, <5>1, <5>2
            <4> QED
                BY <4>1, <4>2
        <3>3. ASSUME NEW rid \in near PROVE V[rid] = ProxAnswer(type, Prox, L[rid], R[rid])
            <4>1. PICK p \in left, q \in right : p.rid = rid /\ q.rid = rid
                BY <2>2
            <4>2. p \in Result
                BY <2>2, <2>4, <3>1, <4>1
            <4> QED
                BY <2>2, <3>0, <4>1, <4>2
        <3>4. Combine(type, Prox, L, R) = [rid \in near |-> ProxAnswer(type, Prox, L[rid], R[rid])]
            BY <3>0 DEF Combine
        <3> HIDE DEF rids, near
        <3> QED
            BY <2>1, <2>2, <3>2, <3>3, <3>4
    <2> QED
        BY <2>3, <2>5, <2>6, <2>7, <2>8 DEF ProxTypes
<1> QED
    BY <1>1, MergeTypes, MergeInvariant, PTL
=============================================================================
