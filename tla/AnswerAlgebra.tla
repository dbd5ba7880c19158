---------------------------- MODULE AnswerAlgebra ----------------------------
(***************************************************************************)
(* The lists an answer of a query carries: its hits (positions of words,   *)
(* which NEAR, BEFORE and AFTER compare) and its spots (places to          *)
(* highlight), and what the operators of the query tree make of the lists  *)
(* of two answers of the same record.                                      *)
(*                                                                         *)
(* A hit is [iws, iwe], the index of its first and of its last word, and a *)
(* spot is any value, equal to another if start and len are.  The list of  *)
(* hits is a set: nothing depends on its order.  The list of spots is a    *)
(* sequence, since addSpot has to look through it.                         *)
(***************************************************************************)
EXTENDS Integers, Sequences, SequencesExt

ProxTypes == {"NEAR", "BEFORE", "AFTER"}
Operators == {"AND", "OR", "EXCEPT"} \cup ProxTypes

\* CANSWER::addSpot: a spot already in the list is forgotten.
AddSpot(spots, spot) ==
    IF \E i \in DOMAIN spots : spots[i] = spot THEN spots ELSE Append(spots, spot)

\* Mutant of AddSpots: the spots of the right operand are lost.
KeepSpots(l, r) == l

\* The loop of AND, OR and PROX over the spots of the right answer.
AddSpots(l, r) == FoldLeft(AddSpot, l, r)

\* Mutant of CloseEnough: the words in any order.
CloseEnoughEitherWay(distance, prox) == distance <= prox + 1

\* The words from the end of one hit to the start of another.
CloseEnough(distance, prox) == distance >= 1 /\ distance <= prox + 1

\* The double loop of doOperatorPROX: the new hits of a pair, from the start
\* of hitl to the end of hitr when hitl comes before, from the end of hitr to
\* the start of hitl when it comes after.
ProxHits(type, prox, hitsl, hitsr) ==
    LET pairs  == hitsl \X hitsr
        before == {h \in pairs : CloseEnough(h[2].iws - h[1].iwe, prox)}
        after  == {h \in pairs : CloseEnough(h[1].iws - h[2].iwe, prox)}
    IN  (IF type \in {"BEFORE", "NEAR"}
         THEN {[iws |-> h[1].iws, iwe |-> h[2].iwe] : h \in before} ELSE {})
        \cup
        (IF type \in {"AFTER", "NEAR"}
         THEN {[iws |-> h[2].iwe, iwe |-> h[1].iws] : h \in after} ELSE {})

(* What a node makes of its two branches, as functions from records to     *)
(* answers.  The field sha of an answer is empty for a NULL sha2; fields    *)
(* that are not named stay those of the left answer.                       *)

\* A match of AND.
AndAnswer(a, b) ==
    [a EXCEPT !.sha   = IF @ = {} THEN b.sha ELSE @,
              !.hits  = {},
              !.spots = AddSpots(@, b.spots)]

\* A match of OR.
OrAnswer(a, b) ==
    [a EXCEPT !.hits = @ \cup b.hits, !.spots = AddSpots(@, b.spots)]

\* A match of NEAR, BEFORE or AFTER.
ProxAnswer(type, prox, a, b) ==
    [a EXCEPT !.sha   = IF @ = {} THEN b.sha ELSE @,
              !.hits  = ProxHits(type, prox, @, b.hits),
              !.spots = AddSpots(@, b.spots)]

Combine(type, prox, l, r) ==
    LET both == DOMAIN l \cap DOMAIN r
        near == {rid \in both : ProxHits(type, prox, l[rid].hits, r[rid].hits) # {}}
    IN  CASE type = "AND"    -> [rid \in both |-> AndAnswer(l[rid], r[rid])]
          [] type = "OR"     -> [rid \in DOMAIN l \cup DOMAIN r |->
                                    IF rid \in both THEN OrAnswer(l[rid], r[rid])
                                    ELSE IF rid \in DOMAIN l THEN l[rid] ELSE r[rid]]
          [] type = "EXCEPT" -> [rid \in DOMAIN l \ DOMAIN r |-> l[rid]]
          [] OTHER -> [rid \in near |-> ProxAnswer(type, prox, l[rid], r[rid])]
=============================================================================
