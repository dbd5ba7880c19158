---------------------------- MODULE AnswerMerge ----------------------------
(***************************************************************************)
(* One operator of the query tree (doOperatorAND, OR, PROX, EXCEPT): the   *)
(* merge of the answers of the left and the right branch into those of the *)
(* node, with the memory it moves and frees.                               *)
(*                                                                         *)
(* The branches hold pointers to answers, ordered by descending rid, with  *)
(* one answer per record.  The operator works on copies of these sets, ll  *)
(* and lr, takes their first elements one after the other, and moves an    *)
(* answer to the result or deletes it.  Two answers of the same record     *)
(* become one: spots are copied, the sha2 and the hits may change hands.   *)
(*                                                                         *)
(* An answer is named by the branch it comes from and its record.  The     *)
(* objects it owns have names too: its CSHA is named after the answer it   *)
(* was read with, a hit after the answer it was made for and when.  A sort  *)
(* key or a spot is never shared: it goes with its answer.                 *)
(***************************************************************************)
EXTENDS AnswerAlgebra

CONSTANTS
    Rids,      \* records
    Contents,  \* what an answer of a branch may hold
    Types,     \* operators
    Prox       \* the number of words of a proximity operator

ASSUME ParametersAssumption ==
    /\ Rids \subseteq Int
    /\ Types \subseteq Operators
    /\ Prox \in Int
    /\ \A c \in Contents :
          /\ c.sha \in BOOLEAN
          /\ c.hits \in SUBSET [iws : Int, iwe : Int]
          /\ \A h \in c.hits : h.iws <= h.iwe
          /\ c.spots \in Seq(Range(c.spots))

VARIABLES
    type,     \* the operator
    left,     \* answers of the left branch
    right,    \* answers of the right branch
    ll, lr,   \* what the operator has not yet taken of them
    answers,  \* answers of the node
    heap,     \* heap[p]: what answer p holds
    freed,    \* objects deleted so far
    start     \* history: heap before the operator

vars == <<type, left, right, ll, lr, answers, heap, freed, start>>

Answer(side) == [side : {side}, rid : Rids]
Answers      == Answer("l") \cup Answer("r")

\* The memory of an answer: sha is empty for a NULL sha2.
Nothing == [sha |-> {}, hits |-> {}, spots |-> << >>]

\* Hits in memory of their own, and back to what they say.
Cells(p, when, hits) ==
    {[cell |-> <<p, when>>, iws |-> h.iws, iwe |-> h.iwe] : h \in hits}

Words(cells) == {[iws |-> h.iws, iwe |-> h.iwe] : h \in cells}

Allocated(p, c) ==
    [sha   |-> IF c.sha THEN {p} ELSE {},
     hits  |-> Cells(p, "read", c.hits),
     spots |-> c.spots]

Hits(h) == {<<"hit", cell>> : cell \in h.hits}

\* What the destructor of answer p deletes when it holds h.
Objects(p, h) == {<<"answer", p>>} \cup {<<"sha", q>> : q \in h.sha} \cup Hits(h)

-----------------------------------------------------------------------------
Init ==
    /\ type \in Types
    /\ left \in SUBSET Answer("l")
    /\ right \in SUBSET Answer("r")
    /\ ll = left
    /\ lr = right
    /\ answers = {}
    /\ \E content \in [left \cup right -> Contents] :
          heap = [p \in Answers |-> IF p \in left \cup right
                                    THEN Allocated(p, content[p]) ELSE Nothing]
    /\ freed = {}
    /\ start = heap

\* Mutant of IsFirst: the sets ordered by ascending rid.
IsFirstAscending(p, s) == p \in s /\ \A q \in s : p.rid <= q.rid

\* *(s.begin())
IsFirst(p, s) == p \in s /\ \A q \in s : p.rid >= q.rid

\* Mutant of KeepsLeft: an AND that keeps what has no match.
KeepsLeftInAnd(t) == t \in {"OR", "EXCEPT", "AND"}

\* The operators that insert a left answer without match, or a right one.
KeepsLeft(t) == t \in {"OR", "EXCEPT"}
KeepsRight(t) == t = "OR"

Keep(p) == answers' = answers \cup {p} /\ UNCHANGED freed

Delete(p) == freed' = freed \cup Objects(p, heap[p]) /\ UNCHANGED answers

\* Mutant of ShaLeft: the test is on ar->sha2.
ShaOfRight(a, b) == IF b.sha = {} THEN a.sha ELSE b.sha

\* The sha2 of the left answer, or else that of the right one, which gives
\* it away.
ShaLeft(a, b) == IF a.sha = {} THEN b.sha ELSE a.sha

\* Mutant of ShaRight: ar->sha2 is not reset.
ShaKept(a, b) == b.sha

ShaRight(a, b) == IF a.sha = {} THEN {} ELSE b.sha

-----------------------------------------------------------------------------
(* The loop: while neither set is empty.                                   *)

\* Mutant of TakeLeft: no ll.erase.
TakeLeftForGood(al, ar) ==
    /\ al.rid > ar.rid
    /\ IF KeepsLeft(type) THEN Keep(al) ELSE Delete(al)
    /\ UNCHANGED <<ll, lr, heap>>

TakeLeft(al, ar) ==
    /\ al.rid > ar.rid
    /\ ll' = ll \ {al}
    /\ IF KeepsLeft(type) THEN Keep(al) ELSE Delete(al)
    /\ UNCHANGED <<lr, heap>>

TakeRight(al, ar) ==
    /\ ar.rid > al.rid
    /\ lr' = lr \ {ar}
    /\ IF KeepsRight(type) THEN Keep(ar) ELSE Delete(ar)
    /\ UNCHANGED <<ll, heap>>

TakeBoth(al, ar) ==
    /\ al.rid = ar.rid
    /\ ll' = ll \ {al}
    /\ lr' = lr \ {ar}

\* al and ar hold l and r after the exchange; ar is deleted with what it
\* still owns, and the hits `dropped'.
Merge(al, ar, l, r, dropped) ==
    /\ heap' = [heap EXCEPT ![al] = l, ![ar] = r]
    /\ freed' = freed \cup dropped \cup Objects(ar, r)

\* A match of AND: al loses its hits and is kept.
MatchAnd(al, ar) ==
    /\ type = "AND"
    /\ TakeBoth(al, ar)
    /\ LET a == heap[al]
           b == heap[ar]
       IN  Merge(al, ar,
                 [sha   |-> ShaLeft(a, b),
                  hits  |-> {},
                  spots |-> AddSpots(a.spots, b.spots)],
                 [sha |-> ShaRight(a, b), hits |-> b.hits, spots |-> << >>],
                 Hits(a))
    /\ answers' = answers \cup {al}

\* Mutant of OrRight: the hits are not detached from ar.
OrRightAttached(b) == [sha |-> b.sha, hits |-> b.hits, spots |-> << >>]

\* What a match of OR leaves to ar: its sha2.
OrRight(b) == [sha |-> b.sha, hits |-> {}, spots |-> << >>]

\* A match of OR: al gets the hits of ar.
MatchOr(al, ar) ==
    /\ type = "OR"
    /\ TakeBoth(al, ar)
    /\ LET a == heap[al]
           b == heap[ar]
       IN  Merge(al, ar,
                 [sha   |-> a.sha,
                  hits  |-> a.hits \cup b.hits,
                  spots |-> AddSpots(a.spots, b.spots)],
                 OrRight(b), {})
    /\ answers' = answers \cup {al}

\* The hits doOperatorPROX allocates for al.
NewHits(al, a, b) ==
    Cells(al, "new", ProxHits(type, Prox, Words(a.hits), Words(b.hits)))

\* A match of NEAR, BEFORE or AFTER: al gets new hits, and is deleted when
\* there is none.
MatchProx(al, ar) ==
    /\ type \in ProxTypes
    /\ TakeBoth(al, ar)
    /\ LET a == heap[al]
           b == heap[ar]
           l == [sha   |-> ShaLeft(a, b),
                 hits  |-> NewHits(al, a, b),
                 spots |-> AddSpots(a.spots, b.spots)]
           r == [sha |-> ShaRight(a, b), hits |-> b.hits, spots |-> << >>]
       IN  IF l.hits # {}
           THEN Merge(al, ar, l, r, Hits(a)) /\ answers' = answers \cup {al}
           ELSE Merge(al, ar, l, r, Hits(a) \cup Objects(al, l)) /\ UNCHANGED answers

\* A match of EXCEPT: both are deleted.
MatchExcept(al, ar) ==
    /\ type = "EXCEPT"
    /\ TakeBoth(al, ar)
    /\ freed' = freed \cup Objects(al, heap[al]) \cup Objects(ar, heap[ar])
    /\ UNCHANGED <<answers, heap>>

-----------------------------------------------------------------------------
(* After the loop: what remains in one of the sets.                        *)

DrainLeft ==
    /\ lr = {} /\ ll # {}
    /\ IF KeepsLeft(type)
       THEN ll' = {} /\ answers' = answers \cup ll /\ UNCHANGED freed
       ELSE \E al \in ll : IsFirst(al, ll) /\ ll' = ll \ {al} /\ Delete(al)
    /\ UNCHANGED <<type, left, right, lr, heap, start>>

DrainRight ==
    /\ ll = {} /\ lr # {}
    /\ IF KeepsRight(type)
       THEN lr' = {} /\ answers' = answers \cup lr /\ UNCHANGED freed
       ELSE \E ar \in lr : IsFirst(ar, lr) /\ lr' = lr \ {ar} /\ Delete(ar)
    /\ UNCHANGED <<type, left, right, ll, heap, start>>

Loop ==
    /\ \E al \in ll, ar \in lr :
          /\ IsFirst(al, ll) /\ IsFirst(ar, lr)
          /\ \/ TakeLeft(al, ar) \/ TakeRight(al, ar)
             \/ MatchAnd(al, ar) \/ MatchOr(al, ar)
             \/ MatchProx(al, ar) \/ MatchExcept(al, ar)
    /\ UNCHANGED <<type, left, right, start>>

Next == Loop \/ DrainLeft \/ DrainRight

Spec == Init /\ [][Next]_vars

\* The operator is a function of one thread: it runs until it returns.
FairSpec == Spec /\ WF_vars(Next)

-----------------------------------------------------------------------------
(* Properties                                                              *)

Done == ll = {} /\ lr = {}

Hit == [cell : Answers \X {"read", "new"}, iws : Int, iwe : Int]

\* Each answer holds at most one sha2, and hits that end where they start or
\* later.
TypeOK ==
    /\ type \in Types
    /\ left \subseteq Answer("l") /\ right \subseteq Answer("r")
    /\ ll \subseteq left /\ lr \subseteq right
    /\ answers \subseteq left \cup right
    /\ DOMAIN heap = Answers /\ DOMAIN start = Answers
    /\ \A p \in Answers, memory \in {heap, start} :
          /\ DOMAIN memory[p] = {"sha", "hits", "spots"}
          /\ memory[p].sha = {} \/ \E q \in Answers : memory[p].sha = {q}
          /\ memory[p].hits \subseteq Hit
          /\ \A h \in memory[p].hits : h.iws <= h.iwe

Matches(p, side) == {q \in side : q.rid = p.rid}

\* The answers the operator stands for.
Near(p, q) == ProxHits(type, Prox, Words(start[p].hits), Words(start[q].hits)) # {}

Result ==
    CASE type = "AND"     -> {p \in left : Matches(p, right) # {}}
      [] type = "OR"      -> left \cup {q \in right : Matches(q, left) = {}}
      [] type = "EXCEPT"  -> {p \in left : Matches(p, right) = {}}
      [] type \in ProxTypes -> {p \in left : \E q \in Matches(p, right) : Near(p, q)}

\* ResultAsDefined: the merge, which only ever compares the first answers of
\* the two sets, finds all the matches: AND is the intersection of the
\* branches, OR their union with one answer per record, EXCEPT their
\* difference and a proximity operator keeps the records with close words.
ResultAsDefined == Done => answers = Result

\* OneOwner: every object of the branches and of the result has one owner:
\* no answer that is still to be used holds anything deleted or held by
\* another one (a double free, or a use after free, would follow), and
\* nothing but what was deleted is out of reach (a leak).
Live == ll \cup lr \cup answers

OneOwner ==
    /\ \A p \in Live : Objects(p, heap[p]) \cap freed = {}
    /\ \A p, q \in Live : p # q => Objects(p, heap[p]) \cap Objects(q, heap[q]) = {}
    /\ \A p \in left \cup right :
          Objects(p, start[p]) \subseteq
              freed \cup UNION {Objects(q, heap[q]) : q \in Live}

\* SpotsOfBoth: an answer of the result highlights what the answers of its
\* record in the two branches did, except that EXCEPT only takes from the
\* left one.
SpotsOfBoth ==
    \A p \in answers :
        Range(heap[p].spots) =
            Range(start[p].spots) \cup
                UNION {Range(start[q].spots) :
                          q \in IF p.side = "l" THEN Matches(p, right) ELSE {}}

\* What the answers S say in the memory m, by record.
View(S, m) ==
    LET Of(rid) == CHOOSE p \in S : p.rid = rid
    IN  [rid \in {p.rid : p \in S} |-> [m[Of(rid)] EXCEPT !.hits = Words(@)]]

\* ImplementsAlgebra: whatever is moved, shared and freed on the way, the
\* answers of the node are those Combine makes of the two branches.
ImplementsAlgebra ==
    Done => View(answers, heap) = Combine(type, Prox, View(left, start), View(right, start))

\* Termination: the operator returns.
Termination == <>Done

-----------------------------------------------------------------------------
(* Why they hold.                                                          *)

Passed == (left \ ll) \cup (right \ lr)
Ahead  == ll \cup lr

\* The answer after which an object is named.
Name(o) == IF o[1] = "hit" THEN o[2].cell[1] ELSE o[2]

\* Both sets are gone through by descending rid, in step with each other.
InStep == \A p \in Passed, q \in Ahead : p.rid > q.rid

\* What has been taken so far is in the result if it has to be.
SoFar == answers = Result \ Ahead

\* What is ahead is as the branches left it.
Untouched == \A p \in Ahead : heap[p] = start[p]

\* At the start every answer owns objects of its own, and a list of spots.
OwnAtStart ==
    \A p \in left \cup right :
        /\ start[p].spots \in Seq(Range(start[p].spots))
        /\ start[p].sha \subseteq {p}
        /\ \A h \in start[p].hits : h.cell = <<p, "read">>

\* What changes hands or is deleted does so between the answers of a record.
SameRecord ==
    /\ \A p \in Live : \A o \in Objects(p, heap[p]) : Name(o).rid = p.rid
    /\ \A o \in freed : Name(o) \in Passed

\* What al holds once it has been merged with its match, when they held a and b.
Fused(al, a, b) ==
    [sha   |-> IF type = "OR" THEN a.sha ELSE ShaLeft(a, b),
     hits  |-> CASE type = "AND" -> {}
                 [] type = "OR"  -> a.hits \cup b.hits
                 [] OTHER        -> NewHits(al, a, b),
     spots |-> AddSpots(a.spots, b.spots)]

\* An answer of the result was merged with its match, if it had one.
AsMerged ==
    \A p \in answers :
        IF p \in left /\ Matches(p, right) # {}
        THEN \A q \in Matches(p, right) : heap[p] = Fused(p, start[p], start[q])
        ELSE heap[p] = start[p]

\* How far the merge has come, and who owns what.
Advanced ==
    InStep /\ SoFar /\ Untouched /\ OwnAtStart /\ SameRecord /\ OneOwner

\* MergeInv: the inductive invariant of the merge.
MergeInv == Advanced /\ AsMerged
=============================================================================
