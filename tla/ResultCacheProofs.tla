------------------------- MODULE ResultCacheProofs -------------------------
(***************************************************************************)
(* Theorems about ResultCache, for every set of workers, every set of      *)
(* batches and every bound.                                                *)
(***************************************************************************)
EXTENDS ResultCache, RecursionLemmas

-----------------------------------------------------------------------------
(* Lemmas about what a query writes.                                       *)

\* fwrite hands over at most what it is given.
LEMMA FlushedBounds ==
    ASSUME NEW n \in Nat, NEW perBlock \in Nat \ {0}
    PROVE  Flushed(n, perBlock) \in 0..n
  BY DEF Flushed

\* An answer of a batch has its spots inside the batch.
LEMMA AnswerRecordType ==
    ASSUME NEW b, ValidBatch(b), NEW q \in Queries, NEW index \in Nat,
           NEW a \in 1..b.n
    PROVE  /\ AnswerRecord(q, b, index, a) \in Answer
           /\ b.cut[a - 1] + (b.cut[a] - b.cut[a - 1]) <= NSpots(b)
           /\ NSpots(b) \in Nat
  <1>1. /\ b.cut[a - 1] \in Nat /\ b.cut[a] \in Nat /\ NSpots(b) \in Nat
        /\ b.cut[a - 1] <= b.cut[a] /\ b.cut[a] <= NSpots(b)
    BY SMTT(30) DEF ValidBatch, NSpots
  <1>2. /\ b.cut[a] - b.cut[a - 1] \in Nat
        /\ index + b.cut[a - 1] \in Nat /\ a \in Nat
    BY <1>1
  <1> QED BY <1>1, <1>2 DEF AnswerRecord, Answer

\* A function on 1..n is a sequence of length n.
LEMMA FunctionIsSeq ==
    ASSUME NEW S, NEW n \in Nat, NEW s \in [1..n -> S]
    PROVE  s \in Seq(S) /\ Len(s) = n
  <1>1. s \in Seq(S)
    BY SeqDef
  <1> QED BY <1>1, LenProperties

\* The whole blocks of the answers of a batch, and the rest.
LEMMA AnswersWritten ==
    ASSUME NEW b, ValidBatch(b), NEW q \in Queries, NEW index \in Nat,
           NEW n, n = b.n, NEW f, f = Flushed(n, AnswersPerBlock),
           NEW m, m = n - f,
           NEW head, head = AnswerRecords(q, b, index, 0, f),
           NEW tail, tail = AnswerRecords(q, b, index, f, n)
    PROVE  /\ n \in Nat /\ f \in 0..n /\ m \in Nat
           /\ head \in Seq(Answer) /\ Len(head) = f
           /\ \A i \in 1..f : i \in 1..n /\ head[i] = AnswerRecord(q, b, index, i)
           /\ tail \in Seq(Answer) /\ Len(tail) = m
           /\ \A i \in 1..m : /\ f + i \in 1..n
                                    /\ tail[i] = AnswerRecord(q, b, index, f + i)
  <1>1. n \in Nat
    BY DEF ValidBatch
  <1>2. f \in 0..n
    BY <1>1, FlushedBounds, BoundsAssumption
  <1>3. \A a \in 1..n : AnswerRecord(q, b, index, a) \in Answer
    BY AnswerRecordType
  <1>4. /\ \A i \in 1..f : i \in 1..n
        /\ \A i \in 1..m : f + i \in 1..n
        /\ f \in Nat /\ m \in Nat
    BY <1>1, <1>2
  <1>5. head = [i \in 1..f |-> AnswerRecord(q, b, index, i)]
    <2>1. f - 0 = f /\ \A i \in 1..f : 0 + i = i
      BY <1>4
    <2> QED BY <2>1 DEF AnswerRecords
  <1>6. tail = [i \in 1..m |-> AnswerRecord(q, b, index, f + i)]
    BY DEF AnswerRecords
  <1>7. head \in [1..f -> Answer] /\ tail \in [1..m -> Answer]
    BY <1>3, <1>4, <1>5, <1>6
  <1>8. head \in Seq(Answer) /\ Len(head) = f
    BY <1>4, <1>7, FunctionIsSeq
  <1>9. tail \in Seq(Answer) /\ Len(tail) = m
    BY <1>4, <1>7, FunctionIsSeq
  <1> QED BY <1>1, <1>2, <1>4, <1>5, <1>6, <1>8, <1>9

\* The same for its spots.
LEMMA SpotsWritten ==
    ASSUME NEW b, ValidBatch(b), NEW q \in Queries,
           NEW n, n = NSpots(b), NEW f, f = Flushed(n, SpotsPerBlock),
           NEW m, m = n - f,
           NEW head, head = SpotRecords(q, 0, f),
           NEW tail, tail = SpotRecords(q, f, n)
    PROVE  /\ n \in Nat /\ f \in 0..n /\ m \in Nat
           /\ head \in Seq(Spot) /\ Len(head) = f
           /\ \A i \in 1..f : head[i] = [q |-> q, p |-> i]
           /\ tail \in Seq(Spot) /\ Len(tail) = m
           /\ \A i \in 1..m : tail[i] = [q |-> q, p |-> f + i]
  <1>1. n \in Nat
    BY DEF ValidBatch, NSpots
  <1>2. f \in 0..n
    BY <1>1, FlushedBounds, BoundsAssumption
  <1>3. f \in Nat /\ m \in Nat
    BY <1>1, <1>2
  <1>4. head = [i \in 1..f |-> [q |-> q, p |-> i]]
    <2>1. f - 0 = f /\ \A i \in 1..f : 0 + i = i
      BY <1>3
    <2> QED BY <2>1 DEF SpotRecords
  <1>5. tail = [i \in 1..m |-> [q |-> q, p |-> f + i]]
    BY DEF SpotRecords
  <1>6. head \in [1..f -> Spot] /\ tail \in [1..m -> Spot]
    BY <1>3, <1>4, <1>5 DEF Spot
  <1>7. /\ head \in Seq(Spot) /\ Len(head) = f
        /\ tail \in Seq(Spot) /\ Len(tail) = m
    BY <1>3, <1>6, FunctionIsSeq
  <1> QED BY <1>1, <1>2, <1>4, <1>5, <1>7

\* What AppendTo makes of a file of S and records of S is a file of S.
LEMMA AppendToType ==
    ASSUME NEW S, NEW file \in Seq(S), NEW records \in Seq(S), NEW fp
    PROVE  AppendTo(file, fp, records) \in Seq(S)
  BY ConcatProperties DEF AppendTo

\* The batch of a worker that runs no query is a valid, empty one.
LEMMA NoBatchValid == ValidBatch(NoBatch)
  BY DEF NoBatch, ValidBatch

-----------------------------------------------------------------------------
(* Type correctness.                                                       *)

\* Types hold before the session exists.
LEMMA InitType == Init => TypeOK
  <1> SUFFICES ASSUME Init PROVE TypeOK
    OBVIOUS
  <1>1. << >> \in Seq(Answer) /\ << >> \in Seq(Spot)
    BY EmptySeq
  <1>2. \A w \in Workers : ValidBatch(batch[w])
    BY NoBatchValid DEF Init
  <1>3. 0 \in 0..MaxQueries
    BY BoundsAssumption
  <1>4. pc \in [Workers -> Pcs] /\ \A w \in Workers : pc[w] \notin QueryPcs
    BY DEF Init, Pcs, QueryPcs
  <1> QED BY <1>1, <1>2, <1>3, <1>4 DEF Init, TypeOK, Fp

\* The steps that touch none of the lists.
LEMMA ControlType ==
    ASSUME TypeOK, NEW w \in Workers,
           \/ Request(w) \/ OpenSpots(w) \/ OpenAnswers(w) \/ BeginFetch(w)
           \/ BeginClear(w) \/ BeginClose(w) \/ Restore(w)
    PROVE  TypeOK'
  <1> USE DEF TypeOK, files, writing, reading, history
  <1>0. Len(spots) \in Nat
    BY LenProperties
  <1>1. CASE CreateSession(w)
    BY <1>1 DEF CreateSession
  <1>2. CASE OpenSession(w)
    BY <1>2 DEF OpenSession
  <1>3. CASE EndRequest(w)
    BY <1>3 DEF EndRequest
  <1>4. CASE OpenSpots(w)
    <2>0. /\ spot_index' = spot_index
             \/ spot_index' = [spot_index EXCEPT ![w] = Len(spots)]
          /\ fp_spots' = fp_spots \/ fp_spots' = [fp_spots EXCEPT ![w] = "linked"]
      BY <1>4 DEF OpenSpots, Ftell
    <2>1. spot_index' \in [Workers -> Nat]
      BY <1>0, <2>0
    <2>3. fp_spots' \in [Workers -> Fp]
      BY <2>0 DEF Fp
    <2>2. /\ pc' \in [Workers -> Pcs]
          /\ \A v \in Workers : pc'[v] \in QueryPcs => pc[v] \in QueryPcs
      BY <1>4 DEF OpenSpots, Goto, Pcs, WritePcs, QueryPcs
    <2> QED BY <1>4, <2>1, <2>2, <2>3 DEF OpenSpots
  <1>5. CASE OpenAnswers(w)
    BY <1>5 DEF OpenAnswers, Goto, Pcs, WritePcs, QueryPcs, Fp
  <1>6. CASE BeginFetch(w)
    BY <1>6 DEF BeginFetch, Goto, Pcs, FetchPcs, QueryPcs
  <1>7. CASE BeginClear(w)
    BY <1>7 DEF BeginClear, Goto, Pcs, WritePcs, RemovePcs, QueryPcs
  <1>8. CASE BeginClose(w)
    BY <1>8 DEF BeginClose, Goto, Pcs, WritePcs, RemovePcs, QueryPcs
  <1>9. CASE Restore(w)
    BY <1>9 DEF Restore, Goto, Pcs, QueryPcs
  <1> QED BY <1>1, <1>2, <1>3, <1>4, <1>5, <1>6, <1>7, <1>8, <1>9 DEF Request

\* A new query gets a number of its own range and a valid batch.
LEMMA BeginQueryType ==
    ASSUME TypeOK, NEW w \in Workers, BeginQuery(w)
    PROVE  TypeOK'
  <1> USE DEF TypeOK, BeginQuery, files, reading
  <1>1. pc' \in [Workers -> Pcs]
    BY DEF Goto, Pcs, WritePcs, QueryPcs
  <1>2. queries' \in Queries /\ queries' \in 0..MaxQueries
    BY BoundsAssumption DEF Queries
  <1>3. /\ query' \in [Workers -> 0..MaxQueries]
        /\ \A v \in Workers : pc'[v] \in QueryPcs => query'[v] \in Queries
    BY <1>2 DEF Goto
  <1>4. DOMAIN batch' = Workers /\ \A v \in Workers : ValidBatch(batch'[v])
    <2> PICK b \in Batches : batch' = [batch EXCEPT ![w] = b]
      OBVIOUS
    <2> QED BY BatchesAssumption
  <1> QED BY <1>1, <1>2, <1>3, <1>4

\* Every fwrite and fclose hands well-formed records to its file.
LEMMA WriteType ==
    ASSUME TypeOK, NEW w \in Workers,
           WriteAnswers(w) \/ CloseAnswers(w) \/ WriteSpots(w)
    PROVE  TypeOK'
  <1> USE DEF TypeOK, files, writing, reading, history
  <1>0. /\ ValidBatch(batch[w]) /\ spot_index[w] \in Nat
        /\ pc[w] \in QueryPcs => query[w] \in Queries
    OBVIOUS
  <1>1. CASE WriteAnswers(w)
    <2>1. answers' \in Seq(Answer)
      BY <1>0, <1>1, AnswersWritten, AppendToType DEF WriteAnswers, QueryPcs
    <2> QED BY <1>1, <2>1 DEF WriteAnswers, Goto, Pcs, WritePcs, QueryPcs
  <1>2. CASE CloseAnswers(w)
    <2>1. answers' \in Seq(Answer)
      BY <1>0, <1>2, AnswersWritten, AppendToType DEF CloseAnswers, QueryPcs
    <2> QED BY <1>2, <2>1 DEF CloseAnswers, Goto, Pcs, WritePcs, QueryPcs, Fp
  <1>3. CASE WriteSpots(w)
    <2>1. spots' \in Seq(Spot)
      BY <1>0, <1>3, SpotsWritten, AppendToType DEF WriteSpots, QueryPcs
    <2> QED BY <1>3, <2>1 DEF WriteSpots, Goto, Pcs, WritePcs, QueryPcs
  <1> QED BY <1>1, <1>2, <1>3

\* What is left of a call that returns or dies.
LEMMA DropType ==
    ASSUME TypeOK, NEW w \in Workers, Goto(w, "ready")
    PROVE  /\ pc' \in [Workers -> Pcs]
           /\ DropQuery(w) =>
                /\ query' \in [Workers -> 0..MaxQueries]
                /\ \A v \in Workers : pc'[v] \in QueryPcs => query'[v] \in Queries
                /\ DOMAIN batch' = Workers
                /\ \A v \in Workers : ValidBatch(batch'[v])
                /\ spot_index' \in [Workers -> Nat]
                /\ fp_answers' \in [Workers -> Fp] /\ fp_spots' \in [Workers -> Fp]
           /\ DropPage(w) =>
                /\ page' \in [Workers -> Seq(Answer)]
                /\ DOMAIN pspot' = Workers
                /\ seen' \in [Workers -> SUBSET Queries]
  <1> USE DEF TypeOK
  <1>1. pc' \in [Workers -> Pcs] /\ pc'[w] \notin QueryPcs
    BY DEF Goto, Pcs, QueryPcs
  <1>2. ASSUME DropQuery(w)
        PROVE  DOMAIN batch' = Workers /\ \A v \in Workers : ValidBatch(batch'[v])
    BY <1>2, NoBatchValid DEF DropQuery
  <1>3. ASSUME DropQuery(w)
        PROVE  /\ query' \in [Workers -> 0..MaxQueries]
               /\ \A v \in Workers : pc'[v] \in QueryPcs => query'[v] \in Queries
               /\ spot_index' \in [Workers -> Nat]
    BY <1>1, <1>3, BoundsAssumption DEF DropQuery, Goto
  <1>4. ASSUME DropQuery(w)
        PROVE  fp_answers' \in [Workers -> Fp] /\ fp_spots' \in [Workers -> Fp]
    BY <1>4 DEF DropQuery, Fp
  <1>5. ASSUME DropPage(w)
        PROVE  /\ page' \in [Workers -> Seq(Answer)]
               /\ DOMAIN pspot' = Workers
               /\ seen' \in [Workers -> SUBSET Queries]
    BY <1>5, EmptySeq DEF DropPage
  <1> QED BY <1>1, <1>2, <1>3, <1>4, <1>5

\* A call that returns, or dies, drops what it held.
LEMMA ReturnType ==
    ASSUME TypeOK, NEW w \in Workers, CloseSpots(w) \/ Deliver(w) \/ Crash(w)
    PROVE  TypeOK'
  <1> USE DEF TypeOK, files, writing, reading, history
  <1>0. /\ ValidBatch(batch[w]) /\ spot_index[w] \in Nat
        /\ pc[w] \in QueryPcs => query[w] \in Queries
    OBVIOUS
  <1>1. CASE CloseSpots(w)
    <2>1. query[w] \in Queries
      BY <1>0, <1>1 DEF CloseSpots, QueryPcs
    <2>2. spots' \in Seq(Spot)
      BY <1>0, <1>1, <2>1, SpotsWritten, AppendToType DEF CloseSpots
    <2> QED BY <1>1, <2>1, <2>2, DropType DEF CloseSpots
  <1>2. CASE Deliver(w)
    <2>1. pc' \in [Workers -> Pcs]
      BY <1>2, DropType DEF Deliver
    <2>2. \A v \in Workers : pc'[v] \in QueryPcs => query'[v] \in Queries
      BY <1>2 DEF Deliver, Goto, QueryPcs
    <2> QED BY <1>2, <2>1, <2>2, DropType DEF Deliver
  <1>3. CASE Crash(w)
    BY <1>3, DropType DEF Crash
  <1> QED BY <1>1, <1>2, <1>3

\* A page is a sequence of answers, however short the file is.
LEMMA ReadType ==
    ASSUME TypeOK, NEW w \in Workers, ReadAnswers(w) \/ ReadSpots(w)
    PROVE  TypeOK'
  <1> USE DEF TypeOK, files, writing, history
  <1>1. CASE ReadAnswers(w)
    <2>1. PICK firstanswer \in PageStarts, nanswers \in PageSizes :
            LET first == IF firstanswer < 1 THEN 1 ELSE firstanswer
            IN  page' = [page EXCEPT ![w] =
                            SubSeq(answers, first,
                                   IF first + nanswers - 1 < Len(answers)
                                   THEN first + nanswers - 1 ELSE Len(answers))]
      BY <1>1 DEF ReadAnswers
    <2> DEFINE first == IF firstanswer < 1 THEN 1 ELSE firstanswer
               last == IF first + nanswers - 1 < Len(answers)
                       THEN first + nanswers - 1 ELSE Len(answers)
    <2>2. firstanswer \in Nat /\ nanswers \in Nat
      BY BoundsAssumption
    <2>3. Len(answers) \in Nat
      BY LenProperties
    <2>4. first \in Nat /\ last \in Int /\ 1 <= first /\ last <= Len(answers)
      BY <2>2, <2>3
    <2>5. \A i \in first..last : answers[i] \in Answer
      BY <2>3, <2>4, ElementOfSeq
    <2>6. SubSeq(answers, first, last) \in Seq(Answer)
      BY <2>4, <2>5, SubSeqProperties
    <2>7. page' \in [Workers -> Seq(Answer)]
      BY <2>1, <2>6
    <2>8. seen' \in [Workers -> SUBSET Queries]
      BY <1>1 DEF ReadAnswers
    <2> QED BY <1>1, <2>7, <2>8 DEF ReadAnswers, Goto, Pcs, FetchPcs, QueryPcs
  <1>2. CASE ReadSpots(w)
    <2>1. DOMAIN pspot' = Workers
      BY <1>2 DEF ReadSpots
    <2> QED BY <1>2, <2>1 DEF ReadSpots, Goto, Pcs, FetchPcs, QueryPcs
  <1> QED BY <1>1, <1>2

\* remove() empties a file and orphans the handles open on it.
LEMMA RemoveType ==
    ASSUME TypeOK, NEW w \in Workers, RemoveAnswers(w) \/ RemoveSpots(w)
    PROVE  TypeOK'
  <1> USE DEF TypeOK, reading, history
  <1>1. << >> \in Seq(Answer) /\ << >> \in Seq(Spot)
    BY EmptySeq
  <1>2. /\ Unlink(fp_answers) \in [Workers -> Fp]
        /\ Unlink(fp_spots) \in [Workers -> Fp]
    BY DEF Unlink, Fp
  <1>3. CASE RemoveAnswers(w)
    BY <1>1, <1>2, <1>3
    DEF RemoveAnswers, Goto, Pcs, WritePcs, RemovePcs, QueryPcs
  <1>4. CASE RemoveSpots(w)
    BY <1>1, <1>2, <1>4
    DEF RemoveSpots, Goto, Pcs, WritePcs, RemovePcs, QueryPcs
  <1> QED BY <1>3, <1>4

\* Every step keeps the types.
LEMMA NextType == TypeOK /\ [Next]_vars => TypeOK'
  <1> SUFFICES ASSUME TypeOK, [Next]_vars PROVE TypeOK'
    OBVIOUS
  <1>1. CASE UNCHANGED vars
    BY <1>1 DEF vars, files, writing, reading, history, TypeOK
  <1>2. ASSUME NEW w \in Workers,
               Request(w) \/ Query2(w) \/ FetchResults(w) \/ ClearOrClose(w) \/ Crash(w)
        PROVE  TypeOK'
    BY <1>2, ControlType, BeginQueryType, WriteType, ReturnType, ReadType, RemoveType
    DEF Query2, FetchResults, ClearOrClose
  <1> QED BY <1>1, <1>2 DEF Next

\* The state of the cache keeps its type: the files hold whole records of
\* queries of the session, and a call that writes knows its query.
THEOREM TypeCorrect == Spec => []TypeOK
  BY InitType, NextType, PTL DEF Spec

-----------------------------------------------------------------------------
(* No batch without its head, whatever overlaps.                           *)

\* A write leaves what is in the file where it is, and adds after it.
LEMMA AppendToFacts ==
    ASSUME NEW S, NEW file \in Seq(S), NEW records \in Seq(S), NEW fp,
           NEW new, new = AppendTo(file, fp, records)
    PROVE  /\ Len(file) \in Nat /\ Len(records) \in Nat /\ Len(new) \in Nat
           /\ DOMAIN file = 1..Len(file) /\ DOMAIN new = 1..Len(new)
           /\ \A i \in 1..Len(file) : i \in 1..Len(new) /\ new[i] = file[i]
           /\ fp # "linked" => new = file
           /\ fp = "linked" =>
                /\ Len(new) = Len(file) + Len(records)
                /\ \A i \in 1..Len(records) : new[Len(file) + i] = records[i]
  <1>1. /\ Len(file) \in Nat /\ Len(records) \in Nat
        /\ DOMAIN file = 1..Len(file)
    BY LenProperties
  <1>2. CASE fp # "linked"
    BY <1>1, <1>2 DEF AppendTo
  <1>3. CASE fp = "linked"
    <2>3. new = file \o records
      BY <1>3 DEF AppendTo
    <2>1. /\ new \in Seq(S)
          /\ Len(new) = Len(file) + Len(records)
          /\ \A i \in 1..(Len(file) + Len(records)) :
                new[i] = IF i <= Len(file) THEN file[i] ELSE records[i - Len(file)]
      BY <2>3, ConcatProperties
    <2>2. DOMAIN new = 1..Len(new)
      BY <2>1, LenProperties
    <2>4. \A i \in 1..Len(records) : new[Len(file) + i] = records[i]
      <3> TAKE i \in 1..Len(records)
      <3>1. /\ Len(file) + i \in 1..(Len(file) + Len(records))
            /\ ~(Len(file) + i <= Len(file)) /\ (Len(file) + i) - Len(file) = i
        BY <1>1
      <3> QED BY <2>1, <3>1
    <2>5. \A i \in 1..Len(file) : i \in 1..Len(new) /\ new[i] = file[i]
      BY <1>1, <2>1
    <2> QED BY <1>1, <1>3, <2>1, <2>2, <2>4, <2>5
  <1> QED BY <1>2, <1>3

\* The same, for the answers file.
LEMMA AnswersGrow ==
    ASSUME answers \in Seq(Answer), NEW recs \in Seq(Answer), NEW fp,
           answers' = AppendTo(answers, fp, recs)
    PROVE  /\ Len(answers) \in Nat /\ Len(recs) \in Nat /\ Len(answers') \in Nat
           /\ DOMAIN answers = 1..Len(answers) /\ DOMAIN answers' = 1..Len(answers')
           /\ \A i \in 1..Len(answers) :
                 i \in 1..Len(answers') /\ answers'[i] = answers[i]
           /\ fp # "linked" => answers' = answers
           /\ fp = "linked" =>
                /\ Len(answers') = Len(answers) + Len(recs)
                /\ \A i \in 1..Len(recs) : answers'[Len(answers) + i] = recs[i]
  <1> DEFINE new == answers'
  <1>1. new = AppendTo(answers, fp, recs)
    OBVIOUS
  <1> HIDE DEF new
  <1>2. /\ Len(answers) \in Nat /\ Len(recs) \in Nat /\ Len(new) \in Nat
        /\ DOMAIN answers = 1..Len(answers) /\ DOMAIN new = 1..Len(new)
        /\ \A i \in 1..Len(answers) : i \in 1..Len(new) /\ new[i] = answers[i]
        /\ fp # "linked" => new = answers
        /\ fp = "linked" =>
             /\ Len(new) = Len(answers) + Len(recs)
             /\ \A i \in 1..Len(recs) : new[Len(answers) + i] = recs[i]
    BY <1>1, AppendToFacts
  <1> QED BY <1>2 DEF new

\* The answers a writer adds, from rank first on, continue the file: the first
\* of them opens the batch or follows an answer already there.
LEMMA AppendKeepsHeads ==
    ASSUME answers \in Seq(Answer), NoHeadlessBatch,
           NEW recs \in Seq(Answer), NEW q, NEW first \in Nat \ {0},
           \A i \in 1..Len(recs) : recs[i].q = q /\ recs[i].rank = first + i - 1,
           NEW fp, answers' = AppendTo(answers, fp, recs),
           fp = "linked" /\ first > 1 =>
                \E i \in DOMAIN answers :
                    answers[i].q = q /\ answers[i].rank = first - 1
    PROVE  NoHeadlessBatch'
  <1> DEFINE L == Len(answers)
  <1>4. /\ L \in Nat /\ Len(recs) \in Nat /\ DOMAIN answers = 1..L
        /\ \A i \in 1..L : answers'[i] = answers[i]
        /\ DOMAIN answers' = 1..Len(answers') /\ Len(answers') \in Nat
        /\ fp # "linked" => answers' = answers
        /\ fp = "linked" =>
             /\ Len(answers') = L + Len(recs)
             /\ \A i \in 1..Len(recs) : answers'[L + i] = recs[i]
    BY AnswersGrow
  <1> HIDE DEF L
  <1> SUFFICES ASSUME NEW i \in DOMAIN answers', answers'[i].rank > 1
               PROVE  \E j \in 1..(i - 1) : /\ answers'[j].q = answers'[i].q
                                            /\ answers'[j].rank = answers'[i].rank - 1
    BY DEF NoHeadlessBatch
  <1>n. L \in Nat /\ i \in Nat /\ Len(recs) \in Nat
    <2>1. i \in 1..Len(answers')
      BY <1>4
    <2>2. Len(answers') \in Nat
      BY <1>4
    <2>3. i \in Nat
      BY <2>1, <2>2
    <2> QED BY <1>4, <2>3
  <1>5. CASE i \in 1..L
    <2>1. PICK j \in 1..(i - 1) : /\ answers[j].q = answers[i].q
                                  /\ answers[j].rank = answers[i].rank - 1
      BY <1>4, <1>5 DEF NoHeadlessBatch
    <2>2. j \in 1..L
      BY <1>n, <1>5
    <2> QED BY <1>4, <1>5, <2>1, <2>2
  <1>6. CASE i \notin 1..L
    <2>1. fp = "linked"
      BY <1>4, <1>6
    <2>2. PICK k \in 1..Len(recs) : i = L + k
      <3>1. i - L \in 1..Len(recs) /\ i = L + (i - L)
        BY <1>4, <1>6, <2>1
      <3> QED BY <3>1
    <2>3. answers'[i].q = q /\ answers'[i].rank = first + k - 1
      BY <1>4, <2>1, <2>2
    <2>4. CASE k = 1
      <3>1. first > 1 /\ answers'[i].rank - 1 = first - 1
        BY <2>3, <2>4
      <3>2. PICK j \in DOMAIN answers : answers[j].q = q /\ answers[j].rank = first - 1
        BY <2>1, <3>1
      <3>3. j \in 1..L
        BY <1>4, <3>2
      <3>4. j \in 1..(i - 1)
        BY <1>n, <2>2, <2>4, <3>3
      <3> QED BY <1>4, <2>3, <3>1, <3>2, <3>3, <3>4
    <2>5. CASE k # 1
      <3>1. k - 1 \in 1..Len(recs) /\ i - 1 = L + (k - 1)
        BY <1>n, <2>2, <2>5
      <3>4. i - 1 \in 1..(i - 1)
        BY <1>n, <2>2, <3>1
      <3>2. answers'[i - 1].q = q /\ answers'[i - 1].rank = first + (k - 1) - 1
        BY <1>4, <2>1, <3>1
      <3>3. answers'[i].rank - 1 = first + (k - 1) - 1
        BY <1>n, <2>3
      <3> QED BY <2>3, <3>2, <3>3, <3>4
    <2> QED BY <2>4, <2>5
  <1> QED BY <1>4, <1>5, <1>6

\* A step that adds no answer, in which no worker comes to close its answers.
LEMMA QuietHeads ==
    ASSUME TypeOK, HeadInv, answers' = answers,
           \A v \in Workers : pc'[v] = "close_answers" =>
              /\ pc[v] = "close_answers" /\ query'[v] = query[v]
              /\ batch'[v] = batch[v] /\ fp_answers'[v] = fp_answers[v]
    PROVE  HeadInv'
  <1>1. NoHeadlessBatch'
    BY DEF HeadInv, NoHeadlessBatch
  <1>2. TailHasHead'
    BY DEF HeadInv, TailHasHead
  <1> QED BY <1>1, <1>2 DEF HeadInv

\* The whole blocks of a batch: rank 1 comes first, and the last one flushed
\* is the head that fclose will need.
LEMMA HeadsWriteAnswers ==
    ASSUME TypeOK, HeadInv, NEW w \in Workers, WriteAnswers(w)
    PROVE  HeadInv'
  <1>1. PICK n, f, m, recs, tail :
          /\ n = batch[w].n
          /\ f = Flushed(n, AnswersPerBlock) /\ m = n - f
          /\ recs = AnswerRecords(query[w], batch[w], spot_index[w], 0, f)
          /\ tail = AnswerRecords(query[w], batch[w], spot_index[w], f, n)
    OBVIOUS
  <1>2. answers' = AppendTo(answers, fp_answers[w], recs)
    BY <1>1 DEF WriteAnswers
  <1>3. ValidBatch(batch[w]) /\ query[w] \in Queries /\ spot_index[w] \in Nat
    BY DEF TypeOK, WriteAnswers, QueryPcs
  <1>r. recs \in Seq(Answer)
    BY <1>1, <1>3, AnswersWritten
  <1>4. /\ f \in Nat /\ Len(recs) = f
        /\ \A i \in 1..f : recs[i].q = query[w] /\ recs[i].rank = i
    <2>1. /\ n \in Nat /\ f \in 0..n /\ Len(recs) = f
          /\ \A i \in 1..f : recs[i] = AnswerRecord(query[w], batch[w], spot_index[w], i)
      BY <1>1, <1>3, AnswersWritten
    <2> QED BY <2>1 DEF AnswerRecord
  <1>5. answers \in Seq(Answer)
    BY DEF TypeOK
  <1>6. NoHeadlessBatch'
    <2>1. \A i \in 1..Len(recs) : recs[i].q = query[w] /\ recs[i].rank = 1 + i - 1
      BY <1>4
    <2>2. 1 \in Nat \ {0} /\ ~(1 > 1)
      OBVIOUS
    <2>3. NoHeadlessBatch
      BY DEF HeadInv
    <2> QED BY <1>2, <1>r, <1>5, <2>1, <2>2, <2>3, AppendKeepsHeads
  <1>7. /\ \A i \in DOMAIN answers : i \in DOMAIN answers' /\ answers'[i] = answers[i]
        /\ fp_answers[w] = "linked" /\ f > 0 =>
              \E i \in DOMAIN answers' :
                 answers'[i].q = query[w] /\ answers'[i].rank = f
    <2>1. /\ Len(answers) \in Nat /\ DOMAIN answers = 1..Len(answers)
          /\ DOMAIN answers' = 1..Len(answers')
          /\ \A i \in 1..Len(answers) : i \in 1..Len(answers') /\ answers'[i] = answers[i]
      BY <1>2, <1>r, <1>5, AnswersGrow
    <2>2. ASSUME fp_answers[w] = "linked", f > 0
          PROVE  \E i \in DOMAIN answers' :
                     answers'[i].q = query[w] /\ answers'[i].rank = f
      <3>1. /\ Len(answers') = Len(answers) + f
            /\ \A i \in 1..f : answers'[Len(answers) + i] = recs[i]
        BY <1>2, <1>r, <1>4, <1>5, <2>2, AnswersGrow
      <3>2. f \in 1..f
        BY <1>4, <2>2
      <3>3. Len(answers) + f \in 1..Len(answers')
        BY <1>4, <2>1, <2>2, <3>1
      <3>4. answers'[Len(answers) + f] = recs[f]
        BY <3>1, <3>2
      <3> QED BY <1>4, <2>1, <3>2, <3>3, <3>4
    <2> QED BY <2>1, <2>2
  <1>8. /\ pc' = [pc EXCEPT ![w] = "close_answers"]
        /\ batch' = batch /\ query' = query /\ fp_answers' = fp_answers
    BY DEF WriteAnswers, writing, Goto
  <1>9. TailHasHead'
    <2> SUFFICES ASSUME NEW v \in Workers, pc'[v] = "close_answers",
                        fp_answers[v] = "linked",
                        Flushed(batch[v].n, AnswersPerBlock) > 0
                 PROVE  \E i \in DOMAIN answers' :
                            /\ answers'[i].q = query[v]
                            /\ answers'[i].rank = Flushed(batch[v].n, AnswersPerBlock)
      BY <1>8 DEF TailHasHead
    <2>1. CASE v = w
      BY <1>1, <1>7, <2>1
    <2>2. CASE v # w
      <3>1. pc[v] = "close_answers"
        BY <1>8, <2>2 DEF TypeOK
      <3> QED BY <1>7, <3>1 DEF HeadInv, TailHasHead
    <2> QED BY <2>1, <2>2
  <1> QED BY <1>6, <1>9 DEF HeadInv

\* fclose adds the rest behind the last answer that fwrite flushed.
LEMMA HeadsCloseAnswers ==
    ASSUME TypeOK, HeadInv, NEW w \in Workers, CloseAnswers(w)
    PROVE  HeadInv'
  <1>1. PICK n, f, m, head, recs :
          /\ n = batch[w].n
          /\ f = Flushed(n, AnswersPerBlock) /\ m = n - f
          /\ head = AnswerRecords(query[w], batch[w], spot_index[w], 0, f)
          /\ recs = AnswerRecords(query[w], batch[w], spot_index[w], f, n)
    OBVIOUS
  <1>2. answers' = AppendTo(answers, fp_answers[w], recs)
    BY <1>1 DEF CloseAnswers
  <1>3. ValidBatch(batch[w]) /\ query[w] \in Queries /\ spot_index[w] \in Nat
    BY DEF TypeOK, CloseAnswers, QueryPcs
  <1>4. /\ n \in Nat /\ f \in 0..n /\ m \in Nat /\ recs \in Seq(Answer) /\ Len(recs) = m
        /\ \A i \in 1..m : recs[i].q = query[w] /\ recs[i].rank = f + i
    <2>1. /\ n \in Nat /\ f \in 0..n /\ m \in Nat /\ recs \in Seq(Answer) /\ Len(recs) = m
          /\ \A i \in 1..m :
                recs[i] = AnswerRecord(query[w], batch[w], spot_index[w], f + i)
      BY <1>1, <1>3, AnswersWritten
    <2> QED BY <2>1 DEF AnswerRecord
  <1>r. recs \in Seq(Answer)
    BY <1>4
  <1>5. answers \in Seq(Answer)
    BY DEF TypeOK
  <1>6. f + 1 \in Nat \ {0} /\ (f + 1) - 1 = f /\ (f + 1 > 1 <=> f > 0)
    BY <1>4
  <1>7. fp_answers[w] = "linked" /\ f + 1 > 1 =>
            \E i \in DOMAIN answers :
                answers[i].q = query[w] /\ answers[i].rank = (f + 1) - 1
    BY <1>1, <1>6 DEF CloseAnswers, HeadInv, TailHasHead
  <1>8. \A i \in 1..Len(recs) : recs[i].q = query[w] /\ recs[i].rank = (f + 1) + i - 1
    BY <1>4
  <1>9. NoHeadlessBatch'
    BY <1>2, <1>4, <1>5, <1>6, <1>7, <1>8, AppendKeepsHeads DEF HeadInv
  <1>10. \A i \in DOMAIN answers : i \in DOMAIN answers' /\ answers'[i] = answers[i]
    <2>1. /\ DOMAIN answers = 1..Len(answers) /\ DOMAIN answers' = 1..Len(answers')
          /\ \A i \in 1..Len(answers) : i \in 1..Len(answers') /\ answers'[i] = answers[i]
      BY <1>2, <1>r, <1>5, AnswersGrow
    <2> QED BY <2>1
  <1>11. \A v \in Workers : pc'[v] = "close_answers" =>
             /\ v # w /\ pc[v] = "close_answers"
             /\ query'[v] = query[v] /\ batch'[v] = batch[v]
             /\ fp_answers'[v] = fp_answers[v]
    BY DEF CloseAnswers, Goto, TypeOK
  <1>12. TailHasHead'
    BY <1>10, <1>11 DEF HeadInv, TailHasHead
  <1> QED BY <1>9, <1>12 DEF HeadInv

\* Every step keeps HeadInv, whatever overlaps.
LEMMA HeadsNext == TypeOK /\ HeadInv /\ [Next]_vars => HeadInv'
  <1> SUFFICES ASSUME TypeOK, HeadInv, [Next]_vars PROVE HeadInv'
    OBVIOUS
  <1>1. CASE UNCHANGED vars
    BY <1>1, QuietHeads DEF vars, files, writing
  <1>2. ASSUME NEW w \in Workers,
               \/ Request(w) \/ BeginQuery(w) \/ OpenSpots(w) \/ WriteSpots(w)
               \/ CloseSpots(w) \/ FetchResults(w) \/ BeginClear(w) \/ BeginClose(w)
               \/ RemoveSpots(w) \/ Restore(w) \/ Crash(w)
        PROVE  HeadInv'
    <2>1. answers' = answers
      BY <1>2 DEF Request, CreateSession, OpenSession, EndRequest, BeginQuery,
         OpenSpots, WriteSpots, CloseSpots, FetchResults, BeginFetch,
         ReadAnswers, ReadSpots, Deliver, BeginClear, BeginClose, RemoveSpots,
         Restore, Crash, files
    <2>2. \A v \in Workers : pc'[v] = "close_answers" =>
              /\ pc[v] = "close_answers" /\ query'[v] = query[v]
              /\ batch'[v] = batch[v] /\ fp_answers'[v] = fp_answers[v]
      BY <1>2 DEF TypeOK, Request, CreateSession, OpenSession, EndRequest, BeginQuery,
         OpenSpots, WriteSpots, CloseSpots, FetchResults, BeginFetch,
         ReadAnswers, ReadSpots, Deliver, BeginClear, BeginClose, RemoveSpots,
         Restore, Crash, writing, Goto, DropQuery
    <2> QED BY <2>1, <2>2, QuietHeads
  <1>3. ASSUME NEW w \in Workers, OpenAnswers(w)
        PROVE  HeadInv'
    <2>1. \A v \in Workers : pc'[v] = "close_answers" => v # w
      BY <1>3 DEF OpenAnswers, Goto, TypeOK
    <2>2. answers' = answers
      BY <1>3 DEF OpenAnswers, files
    <2>3. \A v \in Workers : pc'[v] = "close_answers" =>
              /\ pc[v] = "close_answers" /\ query'[v] = query[v]
              /\ batch'[v] = batch[v] /\ fp_answers'[v] = fp_answers[v]
      BY <1>3, <2>1 DEF OpenAnswers, Goto, TypeOK
    <2> QED BY <2>2, <2>3, QuietHeads
  <1>4. ASSUME NEW w \in Workers, RemoveAnswers(w)
        PROVE  HeadInv'
    <2>1. \A v \in Workers : fp_answers'[v] # "linked"
      BY <1>4 DEF RemoveAnswers, Unlink
    <2>2. answers' = << >>
      BY <1>4 DEF RemoveAnswers
    <2>3. NoHeadlessBatch' /\ TailHasHead'
      BY <2>1, <2>2 DEF NoHeadlessBatch, TailHasHead
    <2> QED BY <2>3 DEF HeadInv
  <1>5. ASSUME NEW w \in Workers,
               Request(w) \/ Query2(w) \/ FetchResults(w) \/ ClearOrClose(w) \/ Crash(w)
        PROVE  HeadInv'
    BY <1>2, <1>3, <1>4, <1>5, HeadsWriteAnswers, HeadsCloseAnswers
    DEF Query2, ClearOrClose
  <1> QED BY <1>1, <1>5 DEF Next

\* Whatever overlaps, fails or dies, a query that has put the head of its result
\* in the present answers file and still holds its tail finds the head there,
\* last, when it appends the tail (fclose in phrasea_query2).
THEOREM HeadInvariant == Spec => []HeadInv
  <1>1. Init => HeadInv
    BY DEF Init, HeadInv, TailHasHead, NoHeadlessBatch
  <1> QED BY <1>1, HeadsNext, TypeCorrect, PTL DEF Spec

\* However queries, clears, closes and deaths of workers overlap, an answer is
\* never in the file without the answer that precedes it in its query.
THEOREM NoBatchWithoutHead == Spec => []NoHeadlessBatch
  <1>1. HeadInv => NoHeadlessBatch
    BY DEF HeadInv
  <1> QED BY <1>1, HeadInvariant, PTL

-----------------------------------------------------------------------------
(* Answers point to their own spots when writers do not overlap.           *)

\* The application lets one writing call run at a time, and the spots file
\* can always be opened.
Exclusive == Callers # "free" /\ "spots" \notin MayFail

\* Unless calls overlap freely, at most one worker writes or removes.
LEMMA OneWriterNext ==
    ASSUME Exclusive, TypeOK, OneWriter, [Next]_vars
    PROVE  OneWriter'
  <1>1. CASE UNCHANGED vars
    BY <1>1 DEF vars, OneWriter
  \* The calls that write begin when no other does.
  <1>2. ASSUME NEW w \in Workers, BeginQuery(w) \/ BeginClear(w) \/ BeginClose(w)
        PROVE  OneWriter'
    <2>1. \A v \in Workers \ {w} : pc[v] \notin WritePcs
      BY <1>2, CallersAssumption
      DEF BeginQuery, BeginClear, BeginClose, MayWrite, MayRead, Exclusive,
          WritePcs, QueryPcs, RemovePcs
    <2>2. \A v \in Workers \ {w} : pc'[v] = pc[v]
      BY <1>2 DEF BeginQuery, BeginClear, BeginClose, Goto, TypeOK
    <2> QED BY <2>1, <2>2 DEF OneWriter
  \* No other step makes a writer of a worker.
  <1>3. ASSUME \A v \in Workers : pc'[v] \in WritePcs => pc[v] \in WritePcs
        PROVE  OneWriter'
    BY <1>3 DEF OneWriter
  <1>4. ASSUME NEW w \in Workers,
               \/ Request(w) \/ OpenSpots(w) \/ OpenAnswers(w) \/ WriteAnswers(w)
               \/ CloseAnswers(w) \/ WriteSpots(w) \/ CloseSpots(w)
               \/ FetchResults(w) \/ RemoveAnswers(w) \/ RemoveSpots(w)
               \/ Restore(w) \/ Crash(w)
        PROVE  \A v \in Workers : pc'[v] \in WritePcs => pc[v] \in WritePcs
    <2>1. CASE Request(w)
      BY <2>1 DEF Request, CreateSession, OpenSession, EndRequest
    <2>2. CASE FetchResults(w) \/ Crash(w)
      BY <2>2 DEF FetchResults, BeginFetch, ReadAnswers, ReadSpots, Deliver, Crash,
         Goto, TypeOK, WritePcs, QueryPcs, RemovePcs
    <2>3. CASE OpenSpots(w) \/ OpenAnswers(w) \/ WriteAnswers(w) \/ CloseAnswers(w)
      BY <2>3 DEF OpenSpots, OpenAnswers, WriteAnswers, CloseAnswers, Goto, TypeOK,
         WritePcs, QueryPcs
    <2>4. CASE WriteSpots(w) \/ CloseSpots(w)
      BY <2>4 DEF WriteSpots, CloseSpots, Goto, TypeOK, WritePcs, QueryPcs
    <2>5. CASE RemoveAnswers(w) \/ RemoveSpots(w) \/ Restore(w)
      BY <2>5 DEF RemoveAnswers, RemoveSpots, Restore, Goto, TypeOK,
         WritePcs, RemovePcs
    <2> QED BY <1>4, <2>1, <2>2, <2>3, <2>4, <2>5
  <1> QED BY <1>1, <1>2, <1>3, <1>4 DEF Next, Query2, ClearOrClose

\* A step that leaves the files and the running queries alone, one that ends
\* a call among them.
LEMMA QuietCache ==
    ASSUME Pointing, OneWriter',
           answers' = answers, spots' = spots, settled' = settled, queries' = queries,
           \A v \in Workers :
              /\ pc'[v] \in QueryPcs =>
                    /\ pc[v] = pc'[v] /\ query'[v] = query[v] /\ batch'[v] = batch[v]
                    /\ spot_index'[v] = spot_index[v]
                    /\ fp_answers'[v] = fp_answers[v] /\ fp_spots'[v] = fp_spots[v]
              /\ pc'[v] \notin QueryPcs => fp_answers'[v] = "null" /\ fp_spots'[v] = "null"
              /\ pc'[v] \in {"clear_spots", "delete_spots"} => pc[v] = pc'[v]
    PROVE  Pointing'
  <1> USE DEF Pointing
  <1>1. FilesOpen'
    BY DEF FilesOpen
  <1>2. OffsetIsRight'
    BY DEF OffsetIsRight
  <1>3. RunningAnswers'
    BY DEF RunningAnswers
  <1>4. Numbering'
    BY DEF Numbering
  <1>5. AnswersGoFirst'
    BY DEF AnswersGoFirst
  <1>6. OwnSpots'
    BY DEF OwnSpots, PointsToItsOwn
  <1> QED BY <1>1, <1>2, <1>3, <1>4, <1>5, <1>6

\* Sessions, reads, the SQL of clear and close, and deaths.
LEMMA QuietSteps ==
    ASSUME TypeOK, Pointing, OneWriter', NEW w \in Workers,
           \/ Request(w) \/ FetchResults(w) \/ BeginClear(w) \/ BeginClose(w)
           \/ Restore(w) \/ Crash(w)
    PROVE  Pointing'
  <1>1. answers' = answers /\ spots' = spots /\ settled' = settled /\ queries' = queries
    BY DEF Request, CreateSession, OpenSession, EndRequest, FetchResults, BeginFetch,
       ReadAnswers, ReadSpots, Deliver, BeginClear, BeginClose, Restore, Crash,
       files, history
  <1>2. ASSUME NEW v \in Workers
        PROVE  /\ pc'[v] \in QueryPcs =>
                     /\ pc[v] = pc'[v] /\ query'[v] = query[v] /\ batch'[v] = batch[v]
                     /\ spot_index'[v] = spot_index[v]
                     /\ fp_answers'[v] = fp_answers[v] /\ fp_spots'[v] = fp_spots[v]
               /\ pc'[v] \notin QueryPcs =>
                     fp_answers'[v] = "null" /\ fp_spots'[v] = "null"
               /\ pc'[v] \in {"clear_spots", "delete_spots"} => pc[v] = pc'[v]
    <2> USE DEF TypeOK, QueryPcs, Pointing, FilesOpen
    <2>1. CASE Request(w)
      BY <2>1 DEF Request, CreateSession, OpenSession, EndRequest, writing
    <2>2. CASE FetchResults(w)
      BY <2>2 DEF FetchResults, BeginFetch, ReadAnswers, ReadSpots, Deliver,
         writing, Goto
    <2>3. CASE BeginClear(w) \/ BeginClose(w) \/ Restore(w)
      BY <2>3 DEF BeginClear, BeginClose, Restore, writing, Goto
    <2>4. CASE Crash(w)
      BY <2>4 DEF Crash, DropQuery, Goto
    <2> QED BY <2>1, <2>2, <2>3, <2>4
  <1> QED BY <1>1, <1>2, QuietCache

\* While w writes or removes, no other worker does.
LEMMA Alone ==
    ASSUME OneWriter, NEW w \in Workers, pc[w] \in WritePcs
    PROVE  \A v \in Workers \ {w} :
              pc[v] \notin QueryPcs /\ pc[v] \notin {"clear_spots", "delete_spots"}
  BY DEF OneWriter, WritePcs, RemovePcs

\* A query that begins has a number no answer and no settled query has.
LEMMA CacheBeginQuery ==
    ASSUME TypeOK, Pointing, OneWriter', NEW w \in Workers, BeginQuery(w)
    PROVE  Pointing'
  <1> USE DEF Pointing
  <1>1. /\ answers' = answers /\ spots' = spots /\ settled' = settled
        /\ fp_answers' = fp_answers /\ fp_spots' = fp_spots
        /\ spot_index' = spot_index /\ queries' = queries + 1
    BY DEF BeginQuery, files
  <1>2. /\ pc'[w] = "open_spots" /\ query'[w] = queries + 1
        /\ \A v \in Workers \ {w} : /\ pc'[v] = pc[v] /\ query'[v] = query[v]
                                    /\ batch'[v] = batch[v]
    BY DEF BeginQuery, Goto, TypeOK
  <1>3. queries \in Nat /\ \A q \in Queries : q \in Int
    BY BoundsAssumption DEF TypeOK, Queries
  <1>4. \A i \in DOMAIN answers : answers[i].q \in Queries
    <2>1. answers \in Seq(Answer)
      BY DEF TypeOK
    <2>2. \A i \in DOMAIN answers : answers[i] \in Answer
      BY <2>1, ElementOfSeq, LenProperties
    <2> QED BY <2>2 DEF Answer
  <1>5. FilesOpen'
    BY <1>1, <1>2 DEF FilesOpen, QueryPcs, BeginQuery
  <1>6. OffsetIsRight'
    BY <1>1, <1>2 DEF OffsetIsRight
  <1>7. RunningAnswers'
    <2> SUFFICES ASSUME NEW v \in Workers, NEW i \in DOMAIN answers,
                        pc'[v] \in QueryPcs, answers[i].q = query'[v]
                 PROVE  /\ pc'[v] \in QueryPcs \ {"open_spots"}
                        /\ answers[i].spots_index = spot_index[v] + answers[i].from
                        /\ answers[i].from + answers[i].nspots <= NSpots(batch'[v])
      BY <1>1 DEF RunningAnswers
    <2>1. v # w
      <3>1. answers[i].q <= queries
        BY DEF Numbering
      <3>2. answers[i].q # queries + 1
        BY <1>3, <1>4, <3>1
      <3> QED BY <1>2, <3>2
    <2> QED BY <1>2, <2>1 DEF RunningAnswers
  <1>8. Numbering'
    <2>1. \A i \in DOMAIN answers : answers[i].q <= queries + 1
      BY <1>3, <1>4 DEF Numbering
    <2>2. \A q \in settled : q <= queries + 1 /\ q # queries + 1
      BY <1>3 DEF Numbering, TypeOK
    <2>3. \A v \in Workers : pc'[v] \in QueryPcs =>
              query'[v] <= queries + 1 /\ query'[v] \notin settled
      <3> SUFFICES ASSUME NEW v \in Workers, pc'[v] \in QueryPcs
                   PROVE  query'[v] <= queries + 1 /\ query'[v] \notin settled
        OBVIOUS
      <3>1. CASE v = w
        BY <1>2, <1>3, <2>2, <3>1
      <3>2. CASE v # w
        BY <1>2, <1>3, <3>2 DEF Numbering, TypeOK
      <3> QED BY <3>1, <3>2
    <2> QED BY <1>1, <2>1, <2>2, <2>3 DEF Numbering
  <1>9. AnswersGoFirst'
    BY <1>1, <1>2 DEF AnswersGoFirst
  <1>10. OwnSpots'
    BY <1>1 DEF OwnSpots, PointsToItsOwn
  <1> QED BY <1>5, <1>6, <1>7, <1>8, <1>9, <1>10

\* The two fopen: ftell gives the end of the file, which only this call moves.
LEMMA CacheOpen ==
    ASSUME Exclusive, TypeOK, Pointing, OneWriter', NEW w \in Workers,
           OpenSpots(w) \/ OpenAnswers(w)
    PROVE  Pointing'
  <1> USE DEF Pointing
  <1>1. /\ answers' = answers /\ spots' = spots /\ settled' = settled
        /\ queries' = queries /\ query' = query /\ batch' = batch
    BY DEF OpenSpots, OpenAnswers, files, history
  <1>2. \A v \in Workers \ {w} :
            /\ pc[v] \notin QueryPcs /\ pc[v] \notin {"clear_spots", "delete_spots"}
            /\ pc'[v] = pc[v]
            /\ fp_answers'[v] = fp_answers[v] /\ fp_spots'[v] = fp_spots[v]
    <2>1. pc[w] \in WritePcs
      BY DEF OpenSpots, OpenAnswers, WritePcs, QueryPcs
    <2> QED BY <2>1, Alone DEF OpenSpots, OpenAnswers, Goto, TypeOK
  <1>3. NSpots(batch[w]) \in Nat /\ Len(spots) \in Nat
    BY LenProperties DEF TypeOK, ValidBatch, NSpots
  <1>4. /\ pc[w] \in QueryPcs /\ pc'[w] \in {"open_answers", "write_answers"}
        /\ fp_answers'[w] # "removed" /\ fp_spots'[w] # "removed"
        /\ fp_spots'[w] = "linked" <=> NSpots(batch[w]) > 0
        /\ NSpots(batch[w]) > 0 => spot_index'[w] = Len(spots)
    <2>1. CASE OpenSpots(w)
      BY <1>3, <2>1 DEF OpenSpots, Ftell, Exclusive, FilesOpen, QueryPcs, Goto, TypeOK
    <2>2. CASE OpenAnswers(w)
      <3>1. /\ fp_spots[w] = "linked" <=> NSpots(batch[w]) > 0
            /\ fp_spots'[w] = fp_spots[w] /\ spot_index'[w] = spot_index[w]
        BY <2>2 DEF OpenAnswers, FilesOpen, QueryPcs
      <3>2. NSpots(batch[w]) > 0 => Len(spots) = spot_index[w] + 0
        BY <2>2 DEF OpenAnswers, OffsetIsRight, QueryPcs
      <3>3. fp_answers'[w] # "removed" /\ fp_spots'[w] # "removed"
        BY <2>2 DEF OpenAnswers, FilesOpen, TypeOK
      <3> QED BY <2>2, <3>1, <3>2, <3>3 DEF OpenAnswers, Goto, TypeOK, QueryPcs
    <2> QED BY <2>1, <2>2
  <1>5. FilesOpen'
    BY <1>1, <1>2, <1>4 DEF FilesOpen, QueryPcs
  <1>6. OffsetIsRight'
    BY <1>1, <1>2, <1>3, <1>4 DEF OffsetIsRight, QueryPcs
  <1>7. Numbering'
    BY <1>1, <1>2, <1>4 DEF Numbering
  <1>8. RunningAnswers'
    <2> SUFFICES ASSUME NEW v \in Workers, NEW i \in DOMAIN answers,
                        pc'[v] \in QueryPcs, answers[i].q = query[v]
                 PROVE  /\ pc'[v] \in QueryPcs \ {"open_spots"}
                        /\ answers[i].spots_index = spot_index'[v] + answers[i].from
                        /\ answers[i].from + answers[i].nspots <= NSpots(batch[v])
      BY <1>1 DEF RunningAnswers
    <2>1. v = w
      BY <1>2
    <2>2. CASE OpenSpots(w)
      BY <2>1, <2>2 DEF RunningAnswers, OpenSpots, Ftell, QueryPcs
    <2>3. CASE OpenAnswers(w)
      BY <1>4, <2>1, <2>3 DEF RunningAnswers, OpenAnswers, QueryPcs
    <2> QED BY <2>2, <2>3
  <1>9. AnswersGoFirst'
    BY <1>1, <1>2, <1>4 DEF AnswersGoFirst
  <1>10. OwnSpots'
    BY <1>1 DEF OwnSpots, PointsToItsOwn
  <1> QED BY <1>5, <1>6, <1>7, <1>8, <1>9, <1>10

\* The two removes: once the answers are gone none of them can point anywhere.
LEMMA CacheRemove ==
    ASSUME TypeOK, Pointing, OneWriter', NEW w \in Workers,
           RemoveAnswers(w) \/ RemoveSpots(w)
    PROVE  Pointing'
  <1> USE DEF Pointing
  <1>1. /\ pc[w] \in WritePcs /\ pc[w] \notin QueryPcs /\ pc'[w] \notin QueryPcs
        /\ answers' = << >>
    BY DEF RemoveAnswers, RemoveSpots, WritePcs, RemovePcs, QueryPcs, Goto, TypeOK,
       AnswersGoFirst
  <1>2. \A v \in Workers : pc'[v] \notin QueryPcs
    BY <1>1, Alone DEF RemoveAnswers, RemoveSpots, Goto, TypeOK
  <1>3. \A v \in Workers : pc[v] \notin QueryPcs
    BY <1>1, Alone
  <1>4. \A v \in Workers : fp_answers'[v] = "null" /\ fp_spots'[v] = "null"
    BY <1>3 DEF RemoveAnswers, RemoveSpots, Unlink, FilesOpen
  <1>5. settled' = settled /\ queries' = queries
    BY DEF RemoveAnswers, RemoveSpots, history
  <1>6. FilesOpen' /\ OffsetIsRight'
    BY <1>2, <1>4 DEF FilesOpen, OffsetIsRight
  <1>7. RunningAnswers' /\ AnswersGoFirst'
    BY <1>1, <1>2 DEF RunningAnswers, AnswersGoFirst
  <1>8. Numbering' /\ OwnSpots'
    BY <1>1, <1>2, <1>5 DEF Numbering, OwnSpots
  <1> QED BY <1>6, <1>7, <1>8

\* What both writes of the answers have in common.
LEMMA CacheAddsAnswers ==
    ASSUME TypeOK, Pointing, OneWriter', NEW w \in Workers,
           pc[w] \in {"write_answers", "close_answers"},
           NEW recs \in Seq(Answer),
           \A i \in 1..Len(recs) :
              /\ recs[i].q = query[w]
              /\ recs[i].spots_index = spot_index[w] + recs[i].from
              /\ recs[i].from + recs[i].nspots <= NSpots(batch[w]),
           answers' = AppendTo(answers, fp_answers[w], recs),
           spots' = spots, settled' = settled, queries' = queries, query' = query,
           batch' = batch, spot_index' = spot_index, fp_spots' = fp_spots,
           pc'[w] \in {"close_answers", "write_spots"},
           \A v \in Workers \ {w} : pc'[v] = pc[v],
           \A v \in Workers : fp_answers'[v] \in {fp_answers[v], "null"}
    PROVE  Pointing'
  <1> USE DEF Pointing
  <1>1. pc[w] \in QueryPcs \ {"open_spots", "close_spots"}
        /\ pc'[w] \in QueryPcs \ {"open_spots", "close_spots"}
    BY DEF QueryPcs
  <1>2. \A v \in Workers \ {w} :
            pc'[v] \notin QueryPcs /\ pc'[v] \notin {"clear_spots", "delete_spots"}
    BY <1>1, Alone DEF WritePcs
  <1>3. answers \in Seq(Answer)
    BY DEF TypeOK
  \* Where an answer of the file comes from.
  <1>4. ASSUME NEW i \in DOMAIN answers'
        PROVE  \/ i \in DOMAIN answers /\ answers'[i] = answers[i]
               \/ \E j \in 1..Len(recs) : answers'[i] = recs[j]
    <2>1. /\ Len(answers) \in Nat /\ Len(recs) \in Nat /\ Len(answers') \in Nat
          /\ DOMAIN answers = 1..Len(answers) /\ DOMAIN answers' = 1..Len(answers')
      BY <1>3, AnswersGrow
    <2>2. CASE i \in 1..Len(answers)
      BY <1>3, <2>1, <2>2, AnswersGrow
    <2>3. CASE i \notin 1..Len(answers)
      <3>1. i \in 1..Len(answers')
        BY <1>4, <2>1
      <3>2. fp_answers[w] = "linked"
        BY <1>3, <2>3, <3>1, AnswersGrow
      <3>3. /\ Len(answers') = Len(answers) + Len(recs)
            /\ \A j \in 1..Len(recs) : answers'[Len(answers) + j] = recs[j]
        BY <1>3, <3>2, AnswersGrow
      <3>4. PICK j \in 1..Len(recs) : i = Len(answers) + j
        <4>1. i - Len(answers) \in 1..Len(recs) /\ i = Len(answers) + (i - Len(answers))
          BY <2>1, <2>3, <3>1, <3>3
        <4> QED BY <4>1
      <3> QED BY <3>3, <3>4
    <2> QED BY <2>2, <2>3
  <1>5. FilesOpen'
    BY <1>1, <1>2 DEF FilesOpen
  <1>6. OffsetIsRight'
    BY <1>1, <1>2 DEF OffsetIsRight
  <1>7. Numbering'
    <2>1. query[w] <= queries
      BY <1>1 DEF Numbering
    <2>2. \A i \in DOMAIN answers' : answers'[i].q <= queries
      BY <1>4, <2>1 DEF Numbering
    <2> QED BY <1>1, <1>2, <2>2 DEF Numbering
  <1>8. RunningAnswers'
    <2> SUFFICES ASSUME NEW i \in DOMAIN answers', answers'[i].q = query[w]
                 PROVE  /\ answers'[i].spots_index = spot_index[w] + answers'[i].from
                        /\ answers'[i].from + answers'[i].nspots <= NSpots(batch[w])
      BY <1>1, <1>2 DEF RunningAnswers
    <2>1. CASE i \in DOMAIN answers /\ answers'[i] = answers[i]
      BY <1>1, <2>1 DEF RunningAnswers
    <2>2. CASE \E j \in 1..Len(recs) : answers'[i] = recs[j]
      BY <2>2
    <2> QED BY <1>4, <2>1, <2>2
  <1>9. AnswersGoFirst'
    BY <1>1, <1>2 DEF AnswersGoFirst, QueryPcs
  <1>10. OwnSpots'
    <2> SUFFICES ASSUME NEW i \in DOMAIN answers', answers'[i].q \in settled
                 PROVE  PointsToItsOwn(answers'[i])
      BY DEF OwnSpots, PointsToItsOwn
    <2>1. query[w] \notin settled
      BY <1>1 DEF Numbering
    <2>2. i \in DOMAIN answers /\ answers'[i] = answers[i]
      BY <1>4, <2>1
    <2> QED BY <2>2 DEF OwnSpots
  <1> QED BY <1>5, <1>6, <1>7, <1>8, <1>9, <1>10

\* The records of a batch point into it.
LEMMA RecordPoints ==
    ASSUME NEW b, ValidBatch(b), NEW q \in Queries, NEW index \in Nat,
           NEW a \in 1..b.n, NEW r, r = AnswerRecord(q, b, index, a)
    PROVE  r.q = q /\ r.spots_index = index + r.from /\ r.from + r.nspots <= NSpots(b)
  BY AnswerRecordType DEF AnswerRecord

\* fwrite and fclose of the answers.
LEMMA CacheAnswers ==
    ASSUME TypeOK, Pointing, OneWriter', NEW w \in Workers,
           WriteAnswers(w) \/ CloseAnswers(w)
    PROVE  Pointing'
  <1>1. PICK n, f, m, head, tail :
          /\ n = batch[w].n
          /\ f = Flushed(n, AnswersPerBlock) /\ m = n - f
          /\ head = AnswerRecords(query[w], batch[w], spot_index[w], 0, f)
          /\ tail = AnswerRecords(query[w], batch[w], spot_index[w], f, n)
    OBVIOUS
  <1>2. ValidBatch(batch[w]) /\ query[w] \in Queries /\ spot_index[w] \in Nat
    BY DEF TypeOK, WriteAnswers, CloseAnswers, QueryPcs
  <1>3. /\ head \in Seq(Answer) /\ Len(head) = f
        /\ \A i \in 1..f :
              /\ i \in 1..n
              /\ head[i] = AnswerRecord(query[w], batch[w], spot_index[w], i)
    BY <1>1, <1>2, AnswersWritten
  <1>4. /\ tail \in Seq(Answer) /\ Len(tail) = m
        /\ \A i \in 1..m :
              /\ f + i \in 1..n
              /\ tail[i] = AnswerRecord(query[w], batch[w], spot_index[w], f + i)
    BY <1>1, <1>2, AnswersWritten, SMTT(30)
  <1>5. \A i \in 1..Len(head) :
            /\ head[i].q = query[w]
            /\ head[i].spots_index = spot_index[w] + head[i].from
            /\ head[i].from + head[i].nspots <= NSpots(batch[w])
    BY <1>1, <1>2, <1>3, RecordPoints
  <1>6. \A i \in 1..Len(tail) :
            /\ tail[i].q = query[w]
            /\ tail[i].spots_index = spot_index[w] + tail[i].from
            /\ tail[i].from + tail[i].nspots <= NSpots(batch[w])
    BY <1>1, <1>2, <1>4, RecordPoints
  <1>7. /\ spots' = spots /\ settled' = settled /\ queries' = queries
        /\ query' = query /\ batch' = batch /\ spot_index' = spot_index
        /\ fp_spots' = fp_spots
    BY DEF WriteAnswers, CloseAnswers, writing, history
  <1>8. /\ pc[w] \in {"write_answers", "close_answers"}
        /\ pc'[w] \in {"close_answers", "write_spots"}
        /\ \A v \in Workers \ {w} : pc'[v] = pc[v]
        /\ \A v \in Workers : fp_answers'[v] \in {fp_answers[v], "null"}
    BY DEF WriteAnswers, CloseAnswers, writing, Goto, TypeOK
  <1>9. CASE WriteAnswers(w)
    <2>1. answers' = AppendTo(answers, fp_answers[w], head)
      BY <1>1, <1>9 DEF WriteAnswers
    <2> QED BY <1>3, <1>5, <1>7, <1>8, <2>1, CacheAddsAnswers
  <1>10. CASE CloseAnswers(w)
    <2>1. answers' = AppendTo(answers, fp_answers[w], tail)
      BY <1>1, <1>10 DEF CloseAnswers
    <2> QED BY <1>4, <1>6, <1>7, <1>8, <2>1, CacheAddsAnswers
  <1> QED BY <1>9, <1>10

\* What is in the spots file stays there, and what follows is new.
LEMMA SpotsGrow ==
    ASSUME spots \in Seq(Spot), NEW recs \in Seq(Spot), NEW fp,
           spots' = AppendTo(spots, fp, recs)
    PROVE  /\ Len(spots) \in Nat /\ Len(recs) \in Nat /\ Len(spots') \in Nat
           /\ DOMAIN spots = 1..Len(spots) /\ DOMAIN spots' = 1..Len(spots')
           /\ \A i \in 1..Len(spots) : i \in 1..Len(spots') /\ spots'[i] = spots[i]
           /\ fp # "linked" => spots' = spots
           /\ fp = "linked" =>
                /\ Len(spots') = Len(spots) + Len(recs)
                /\ \A i \in 1..Len(recs) : spots'[Len(spots) + i] = recs[i]
  <1> DEFINE new == spots'
  <1>1. new = AppendTo(spots, fp, recs)
    OBVIOUS
  <1> HIDE DEF new
  <1>2. /\ Len(spots) \in Nat /\ Len(recs) \in Nat /\ Len(new) \in Nat
        /\ DOMAIN spots = 1..Len(spots) /\ DOMAIN new = 1..Len(new)
        /\ \A i \in 1..Len(spots) : i \in 1..Len(new) /\ new[i] = spots[i]
        /\ fp # "linked" => new = spots
        /\ fp = "linked" =>
             /\ Len(new) = Len(spots) + Len(recs)
             /\ \A i \in 1..Len(recs) : new[Len(spots) + i] = recs[i]
    BY <1>1, AppendToFacts
  <1> QED BY <1>2 DEF new

\* Adding spots never moves the ones an answer points to.
LEMMA PointsStay ==
    ASSUME spots \in Seq(Spot), NEW recs \in Seq(Spot), NEW fp,
           spots' = AppendTo(spots, fp, recs), NEW e, PointsToItsOwn(e)
    PROVE  \A k \in 1..e.nspots :
              /\ e.spots_index + k \in DOMAIN spots'
              /\ spots'[e.spots_index + k] = [q |-> e.q, p |-> e.from + k]
  <1>1. /\ DOMAIN spots = 1..Len(spots) /\ DOMAIN spots' = 1..Len(spots')
        /\ \A i \in 1..Len(spots) : i \in 1..Len(spots') /\ spots'[i] = spots[i]
    BY SpotsGrow
  <1> QED BY <1>1 DEF PointsToItsOwn

\* fwrite of the spots: the whole blocks land where spot_index says.
LEMMA CacheWriteSpots ==
    ASSUME TypeOK, Pointing, OneWriter', NEW w \in Workers, WriteSpots(w)
    PROVE  Pointing'
  <1> USE DEF Pointing
  <1>1. PICK n, f, m, head, tail :
          /\ n = NSpots(batch[w])
          /\ f = Flushed(n, SpotsPerBlock) /\ m = n - f
          /\ head = SpotRecords(query[w], 0, f)
          /\ tail = SpotRecords(query[w], f, n)
    OBVIOUS
  <1>2. ValidBatch(batch[w]) /\ query[w] \in Queries /\ spot_index[w] \in Nat
    BY DEF TypeOK, WriteSpots, QueryPcs
  <1>3. /\ n \in Nat /\ f \in 0..n
        /\ head \in Seq(Spot) /\ Len(head) = f
        /\ \A i \in 1..f : head[i] = [q |-> query[w], p |-> i]
    BY <1>1, <1>2, SpotsWritten
  <1>4. spots' = AppendTo(spots, fp_spots[w], head)
    BY <1>1 DEF WriteSpots
  <1>5. spots \in Seq(Spot) /\ head \in Seq(Spot)
    BY <1>3 DEF TypeOK
  <1>6. /\ answers' = answers /\ settled' = settled /\ queries' = queries
        /\ query' = query /\ batch' = batch /\ spot_index' = spot_index
        /\ fp_answers' = fp_answers /\ fp_spots' = fp_spots
    BY DEF WriteSpots, writing, history
  <1>7. /\ pc[w] = "write_spots" /\ pc'[w] = "close_spots"
        /\ \A v \in Workers \ {w} : pc'[v] = pc[v]
    BY DEF WriteSpots, Goto, TypeOK
  <1>8. \A v \in Workers \ {w} :
            pc'[v] \notin QueryPcs /\ pc'[v] \notin {"clear_spots", "delete_spots"}
    BY <1>7, Alone DEF WritePcs, QueryPcs
  <1>9. FilesOpen'
    BY <1>6, <1>7 DEF FilesOpen, QueryPcs
  <1>10. OffsetIsRight'
    <2> SUFFICES ASSUME n > 0
                 PROVE  /\ Len(spots') = spot_index[w] + f
                        /\ \A k \in 1..f :
                              spots'[spot_index[w] + k] = [q |-> query[w], p |-> k]
      BY <1>1, <1>6, <1>7, <1>8 DEF OffsetIsRight
    <2>1. fp_spots[w] = "linked"
      BY <1>1, <1>7 DEF FilesOpen, QueryPcs
    <2>2. Len(spots) = spot_index[w]
      <3>1. Len(spots) = spot_index[w] + 0
        BY <1>1, <1>7 DEF OffsetIsRight, QueryPcs
      <3> QED BY <1>2, <3>1
    <2>3. /\ Len(spots') = Len(spots) + f
          /\ \A k \in 1..f : spots'[Len(spots) + k] = head[k]
      BY <1>3, <1>4, <1>5, <2>1, SpotsGrow
    <2> QED BY <1>3, <2>2, <2>3
  <1>11. RunningAnswers'
    BY <1>6, <1>7, <1>8 DEF RunningAnswers, QueryPcs
  <1>12. Numbering'
    BY <1>6, <1>7, <1>8 DEF Numbering, QueryPcs
  <1>13. AnswersGoFirst'
    BY <1>6, <1>7, <1>8 DEF AnswersGoFirst
  <1>14. OwnSpots'
    <2> SUFFICES ASSUME NEW i \in DOMAIN answers, answers[i].q \in settled
                 PROVE  \A k \in 1..answers[i].nspots :
                          /\ answers[i].spots_index + k \in DOMAIN spots'
                          /\ spots'[answers[i].spots_index + k]
                               = [q |-> answers[i].q, p |-> answers[i].from + k]
      BY <1>6 DEF OwnSpots, PointsToItsOwn
    <2>1. PointsToItsOwn(answers[i])
      BY DEF OwnSpots
    <2> QED BY <1>4, <1>5, <2>1, PointsStay
  <1> QED BY <1>9, <1>10, <1>11, <1>12, <1>13, <1>14

\* fclose of the spots: the batch is complete and its answers may be relied on.
LEMMA CacheCloseSpots ==
    ASSUME TypeOK, Pointing, OneWriter', NEW w \in Workers, CloseSpots(w)
    PROVE  Pointing'
  <1> USE DEF Pointing
  <1>1. PICK n, f, m, head, tail :
          /\ n = NSpots(batch[w])
          /\ f = Flushed(n, SpotsPerBlock) /\ m = n - f
          /\ head = SpotRecords(query[w], 0, f)
          /\ tail = SpotRecords(query[w], f, n)
    OBVIOUS
  <1>2. ValidBatch(batch[w]) /\ query[w] \in Queries /\ spot_index[w] \in Nat
    BY DEF TypeOK, CloseSpots, QueryPcs
  <1>3. /\ n \in Nat /\ f \in 0..n /\ m \in Nat
        /\ tail \in Seq(Spot) /\ Len(tail) = m
        /\ \A i \in 1..m : tail[i] = [q |-> query[w], p |-> f + i]
    BY <1>1, <1>2, SpotsWritten
  <1>4. spots' = AppendTo(spots, fp_spots[w], tail)
    BY <1>1 DEF CloseSpots
  <1>5. spots \in Seq(Spot) /\ tail \in Seq(Spot)
    BY <1>3 DEF TypeOK
  <1>6. /\ answers' = answers /\ queries' = queries
        /\ settled' = settled \cup {query[w]}
        /\ \A v \in Workers \ {w} :
              /\ pc'[v] = pc[v]
              /\ fp_answers'[v] = fp_answers[v] /\ fp_spots'[v] = fp_spots[v]
        /\ fp_answers'[w] = "null" /\ fp_spots'[w] = "null"
    BY DEF CloseSpots, DropQuery, Goto, TypeOK
  <1>7. pc[w] = "close_spots" /\ pc[w] \in QueryPcs \ {"open_spots"} /\ pc'[w] = "ready"
    BY DEF CloseSpots, Goto, TypeOK, QueryPcs
  <1>8. \A v \in Workers :
            pc'[v] \notin QueryPcs /\ pc'[v] \notin {"clear_spots", "delete_spots"}
    BY <1>6, <1>7, Alone DEF WritePcs, QueryPcs
  <1>9. FilesOpen'
    BY <1>6, <1>7, <1>8 DEF FilesOpen
  <1>10. OffsetIsRight' /\ RunningAnswers' /\ AnswersGoFirst'
    BY <1>8 DEF OffsetIsRight, RunningAnswers, AnswersGoFirst
  <1>11. Numbering'
    BY <1>6, <1>7, <1>8 DEF Numbering
  \* The answers of the query point into its batch, and all of it is there.
  <1>12. ASSUME NEW i \in DOMAIN answers, answers[i].q = query[w],
                NEW k \in 1..answers[i].nspots
         PROVE  /\ answers[i].spots_index + k \in DOMAIN spots'
                /\ spots'[answers[i].spots_index + k]
                     = [q |-> answers[i].q, p |-> answers[i].from + k]
    <2>1. /\ answers[i].spots_index = spot_index[w] + answers[i].from
          /\ answers[i].from + answers[i].nspots <= n
      BY <1>1, <1>7, <1>12 DEF RunningAnswers
    <2>2. answers[i].from \in Nat /\ answers[i].nspots \in Nat
      <3>1. answers[i] \in Answer
        BY ElementOfSeq, LenProperties DEF TypeOK
      <3> QED BY <3>1 DEF Answer
    <2>3. PICK p \in 1..n : p = answers[i].from + k
      <3>1. answers[i].from + k \in 1..n
        BY <1>3, <2>1, <2>2
      <3> QED BY <3>1
    <2>4. answers[i].spots_index + k = spot_index[w] + p
      BY <1>2, <2>1, <2>2, <2>3
    <2>5. fp_spots[w] = "linked"
      BY <1>1, <1>3, <1>7, <2>3 DEF FilesOpen
    <2>6. /\ Len(spots) = spot_index[w] + f
          /\ \A j \in 1..f : spots[spot_index[w] + j] = [q |-> query[w], p |-> j]
      <3>1. NSpots(batch[w]) > 0 /\ Flushed(NSpots(batch[w]), SpotsPerBlock) = f
        BY <1>1, <1>3, <2>3
      <3> QED BY <1>7, <3>1 DEF OffsetIsRight
    <2>7. /\ Len(spots') = Len(spots) + m
          /\ \A j \in 1..m : spots'[Len(spots) + j] = tail[j]
      BY <1>3, <1>4, <1>5, <2>5, SpotsGrow
    <2>8. /\ DOMAIN spots' = 1..Len(spots')
          /\ \A j \in 1..Len(spots) : spots'[j] = spots[j]
      BY <1>4, <1>5, SpotsGrow
    <2>9. spot_index[w] + p \in DOMAIN spots'
      <3>1. Len(spots') = spot_index[w] + n
        BY <1>1, <1>2, <1>3, <2>6, <2>7
      <3> QED BY <1>2, <1>3, <2>8, <3>1
    <2>10. CASE p <= f
      <3>1. p \in 1..f /\ spot_index[w] + p \in 1..Len(spots)
        BY <1>2, <1>3, <2>6, <2>10
      <3>2. spots'[spot_index[w] + p] = [q |-> query[w], p |-> p]
        BY <2>6, <2>8, <3>1
      <3> QED BY <1>12, <2>3, <2>4, <2>9, <3>2
    <2>11. CASE ~(p <= f)
      <3>1. PICK j \in 1..m : p = f + j
        <4>1. p - f \in 1..m /\ p = f + (p - f)
          BY <1>1, <1>3, <2>11
        <4> QED BY <4>1
      <3>2. spot_index[w] + p = Len(spots) + j
        BY <1>2, <1>3, <2>6, <3>1
      <3>3. spots'[spot_index[w] + p] = [q |-> query[w], p |-> p]
        BY <1>3, <2>7, <3>1, <3>2
      <3> QED BY <1>12, <2>3, <2>4, <2>9, <3>3
    <2> QED BY <2>10, <2>11
  <1>13. OwnSpots'
    <2> SUFFICES ASSUME NEW i \in DOMAIN answers, answers[i].q \in settled'
                 PROVE  \A k \in 1..answers[i].nspots :
                          /\ answers[i].spots_index + k \in DOMAIN spots'
                          /\ spots'[answers[i].spots_index + k]
                               = [q |-> answers[i].q, p |-> answers[i].from + k]
      BY <1>6 DEF OwnSpots, PointsToItsOwn
    <2>1. CASE answers[i].q = query[w]
      BY <1>12, <2>1
    <2>2. CASE answers[i].q \in settled
      <3>1. PointsToItsOwn(answers[i])
        BY <2>2 DEF OwnSpots
      <3> QED BY <1>4, <1>5, <3>1, PointsStay
    <2> QED BY <1>6, <2>1, <2>2
  <1> QED BY <1>9, <1>10, <1>11, <1>13

\* Every step keeps Pointing when writers exclude each other.
LEMMA PointingNext ==
    ASSUME Exclusive
    PROVE  TypeOK /\ Pointing /\ [Next]_vars => Pointing'
  <1> SUFFICES ASSUME TypeOK, Pointing, [Next]_vars PROVE Pointing'
    OBVIOUS
  <1>1. OneWriter'
    BY OneWriterNext DEF Pointing
  <1>2. CASE UNCHANGED vars
    BY <1>1, <1>2, QuietCache DEF vars, files, writing, history, Pointing, FilesOpen
  <1>3. ASSUME NEW w \in Workers,
               Request(w) \/ Query2(w) \/ FetchResults(w) \/ ClearOrClose(w) \/ Crash(w)
        PROVE  Pointing'
    BY <1>1, <1>3, QuietSteps, CacheBeginQuery, CacheOpen, CacheAnswers,
       CacheWriteSpots, CacheCloseSpots, CacheRemove
    DEF Query2, ClearOrClose
  <1> QED BY <1>2, <1>3 DEF Next

\* While writing calls run one at a time and the spots file can be opened, the
\* call that writes has its handles on the present files, and the offset of its
\* spots, taken when phrasea_query2 opened the file, stays the end of the file.
LEMMA PointingInvariant ==
    ASSUME Exclusive
    PROVE  Spec => []Pointing
  <1>1. Init => Pointing
    BY DEF Init, Pointing, OneWriter, FilesOpen, OffsetIsRight, RunningAnswers,
       Numbering, AnswersGoFirst, OwnSpots, WritePcs, QueryPcs, RemovePcs
  <1>2. TypeOK /\ Pointing /\ [Next]_vars => Pointing'
    BY PointingNext
  <1> QED BY <1>1, <1>2, TypeCorrect, PTL DEF Spec

\* When the application runs one writing call of the session at a time and
\* the spots file can be opened, every answer of a query that has returned
\* points to the spots its query found, however workers die between two steps
\* of phrasea_query2, phrasea_clear_cache or phrasea_close_session.
THEOREM AnswersOwnTheirSpots ==
    ASSUME Exclusive
    PROVE  Spec => []OwnSpots
  <1>1. Pointing => OwnSpots
    BY DEF Pointing
  <1> QED BY <1>1, PointingInvariant, PTL

-----------------------------------------------------------------------------
(* What the running query has written is the end of the answers file.      *)

\* A step that leaves the answers alone, and the running queries but for
\* their place in phrasea_query2.
LEMMA QuietTail ==
    ASSUME RunningTail, answers' = answers,
           \A v \in Workers : pc'[v] \in QueryPcs =>
              /\ pc[v] \in QueryPcs /\ query'[v] = query[v] /\ batch'[v] = batch[v]
              /\ Written(v) \subseteq Written(v)'
              /\ spot_index'[v] = spot_index[v] \/ Written(v) = {0}
    PROVE  RunningTail'
  <1> SUFFICES ASSUME NEW v \in Workers, pc'[v] \in QueryPcs
               PROVE  batch'[v] \in Batches /\ \E done \in Written(v)' : WrittenAtEnd(v, done)'
    BY DEF RunningTail
  <1>1. PICK done \in Written(v) : WrittenAtEnd(v, done)
    BY DEF RunningTail
  <1>2. done \in Written(v)' /\ batch'[v] \in Batches
    BY DEF RunningTail
  <1>3. CASE spot_index'[v] = spot_index[v]
    <2>1. WrittenAtEnd(v, done)'
      BY <1>1, <1>3 DEF WrittenAtEnd
    <2> QED BY <1>2, <2>1
  <1>4. CASE Written(v) = {0}
    <2>1. done = 0
      BY <1>4
    <2>2. WrittenAtEnd(v, done)'
      BY <1>1, <2>1 DEF WrittenAtEnd
    <2> QED BY <1>2, <2>2
  <1> QED BY <1>3, <1>4

\* A write of the answers that follow the done first ones.
LEMMA TailGrows ==
    ASSUME TypeOK, NEW w \in Workers, NEW done \in Nat, WrittenAtEnd(w, done),
           NEW recs \in Seq(Answer),
           \A i \in 1..Len(recs) :
              recs[i] = AnswerRecord(query[w], batch[w], spot_index[w], done + i),
           NEW fp, answers' = AppendTo(answers, fp, recs),
           query' = query, batch' = batch, spot_index' = spot_index,
           NEW all, all = IF fp = "linked" THEN done + Len(recs) ELSE done
    PROVE  WrittenAtEnd(w, all)'
  <1>1. answers \in Seq(Answer)
    BY DEF TypeOK
  <1>2. /\ Len(answers) \in Nat /\ Len(recs) \in Nat /\ Len(answers') \in Nat
        /\ \A i \in 1..Len(answers) : answers'[i] = answers[i]
        /\ fp # "linked" => answers' = answers
        /\ fp = "linked" =>
             /\ Len(answers') = Len(answers) + Len(recs)
             /\ \A i \in 1..Len(recs) : answers'[Len(answers) + i] = recs[i]
    BY ONLY <1>1, recs \in Seq(Answer), answers' = AppendTo(answers, fp, recs),
       AnswersGrow
  <1>3. PICK before : before = Len(answers) - done
    OBVIOUS
  <1>4. /\ before \in Nat
        /\ \A i \in 1..before : i \in 1..Len(answers) /\ answers[i].q # query[w]
        /\ \A a \in 1..done :
              answers[before + a] = AnswerRecord(query[w], batch[w], spot_index[w], a)
    BY <1>2, <1>3 DEF WrittenAtEnd
  <1>5. CASE fp # "linked"
    BY <1>2, <1>5 DEF WrittenAtEnd
  <1>6. CASE fp = "linked"
    <2>1. all \in Nat /\ Len(answers') - all = before
      BY <1>2, <1>3, <1>6
    <2>2. ASSUME NEW a \in 1..all
          PROVE  answers'[before + a]
                   = AnswerRecord(query[w], batch[w], spot_index[w], a)
      <3>1. CASE a <= done
        <4>1. a \in 1..done /\ before + a \in 1..Len(answers)
          BY <1>2, <1>3, <1>4, <2>1, <3>1
        <4> QED BY <1>2, <1>4, <4>1
      <3>2. CASE ~(a <= done)
        <4>1. PICK i \in 1..Len(recs) : i = a - done
          <5>1. a - done \in 1..Len(recs)
            BY <1>2, <1>6, <2>1, <3>2
          <5> QED BY <5>1
        <4>2. before + a = Len(answers) + i /\ a = done + i
          BY <1>2, <1>3, <2>1, <4>1
        <4> QED BY <1>2, <1>6, <4>2
      <3> QED BY <3>1, <3>2
    <2>3. \A i \in 1..before : answers'[i].q # query[w]
      BY <1>2, <1>4
    <2>4. WrittenAtEnd(w, all)' <=>
            /\ before >= 0
            /\ \A i \in 1..before : answers'[i].q # query[w]
            /\ \A a \in 1..all :
                  answers'[before + a] = AnswerRecord(query[w], batch[w], spot_index[w], a)
      BY <2>1 DEF WrittenAtEnd
    <2> QED BY <1>4, <2>2, <2>3, <2>4
  <1> QED BY <1>5, <1>6

\* fwrite of the answers adds the whole blocks, fclose the rest.
LEMMA TailLinked ==
    ASSUME TypeOK, RunningTail, NEW w \in Workers, fp_answers[w] = "linked",
           NEW n, n = batch[w].n, NEW f, f = Flushed(n, AnswersPerBlock)
    PROVE  /\ n \in Nat /\ f \in 0..n
           /\ WriteAnswers(w) => WrittenAtEnd(w, f)'
           /\ CloseAnswers(w) => WrittenAtEnd(w, n)'
  <1>1. ValidBatch(batch[w])
    BY DEF TypeOK
  <1>2. n \in Nat /\ f \in 0..n
    BY <1>1, FlushedBounds, BoundsAssumption DEF ValidBatch
  <1>3. ASSUME WriteAnswers(w) \/ CloseAnswers(w)
        PROVE  /\ WriteAnswers(w) => WrittenAtEnd(w, f)'
               /\ CloseAnswers(w) => WrittenAtEnd(w, n)'
    <2>1. PICK m, head, tail :
            /\ m = n - f
            /\ head = AnswerRecords(query[w], batch[w], spot_index[w], 0, f)
            /\ tail = AnswerRecords(query[w], batch[w], spot_index[w], f, n)
      OBVIOUS
    <2>2. query[w] \in Queries /\ spot_index[w] \in Nat
      BY <1>3 DEF TypeOK, WriteAnswers, CloseAnswers, QueryPcs
    <2>3. /\ head \in Seq(Answer) /\ Len(head) = f
          /\ \A i \in 1..f :
                head[i] = AnswerRecord(query[w], batch[w], spot_index[w], i)
      BY <1>1, <2>1, <2>2, AnswersWritten
    <2>4. /\ tail \in Seq(Answer) /\ Len(tail) = m
          /\ \A i \in 1..m :
                tail[i] = AnswerRecord(query[w], batch[w], spot_index[w], f + i)
      BY <1>1, <2>1, <2>2, AnswersWritten
    <2>5. query' = query /\ batch' = batch /\ spot_index' = spot_index
      BY <1>3 DEF WriteAnswers, CloseAnswers, writing
    <2>6. pc[w] \in QueryPcs
      BY <1>3 DEF WriteAnswers, CloseAnswers, QueryPcs
    <2>7. PICK done \in Written(w) : WrittenAtEnd(w, done)
      BY <2>6 DEF RunningTail
    <2>8. CASE WriteAnswers(w)
      <3>1. done = 0
        BY <2>7, <2>8 DEF WriteAnswers, Written
      <3>2. \A i \in 1..Len(head) :
              head[i] = AnswerRecord(query[w], batch[w], spot_index[w], done + i)
        <4>1. \A i \in 1..Len(head) : i \in 1..f /\ done + i = i
          BY <1>2, <2>3, <3>1
        <4> QED BY <2>3, <4>1
      <3>3. answers' = AppendTo(answers, fp_answers[w], head)
        BY <2>1, <2>8 DEF WriteAnswers
      <3>4. f = done + Len(head)
        BY <1>2, <2>3, <3>1
      <3>5. WrittenAtEnd(w, f)'
        BY <2>3, <2>5, <2>7, <3>1, <3>2, <3>3, <3>4, TailGrows
      <3>6. ~CloseAnswers(w)
        BY <2>8 DEF WriteAnswers, CloseAnswers
      <3> QED BY <3>5, <3>6
    <2>9. CASE CloseAnswers(w)
      <3>1. done = f
        BY <2>7, <2>9 DEF CloseAnswers, Written
      <3>2. n = done + Len(tail) /\ done \in Nat
        BY <1>2, <2>1, <2>4, <3>1
      <3>3. \A i \in 1..Len(tail) :
              tail[i] = AnswerRecord(query[w], batch[w], spot_index[w], done + i)
        BY <2>4, <3>1
      <3>4. answers' = AppendTo(answers, fp_answers[w], tail)
        BY <2>1, <2>9 DEF CloseAnswers
      <3>5. WrittenAtEnd(w, n)'
        BY <2>4, <2>5, <2>7, <3>2, <3>3, <3>4, TailGrows
      <3>6. ~WriteAnswers(w)
        BY <2>9 DEF WriteAnswers, CloseAnswers
      <3> QED BY <3>5, <3>6
    <2> QED BY <1>3, <2>8, <2>9
  <1> QED BY <1>2, <1>3

LEMMA TailAnswers ==
    ASSUME TypeOK, OneWriter, RunningTail, NEW w \in Workers,
           WriteAnswers(w) \/ CloseAnswers(w)
    PROVE  RunningTail'
  <1>1. PICK n, f : n = batch[w].n /\ f = Flushed(n, AnswersPerBlock)
    OBVIOUS
  <1>2. /\ query' = query /\ batch' = batch /\ spot_index' = spot_index
        /\ \A v \in Workers \ {w} : pc'[v] = pc[v]
    BY DEF WriteAnswers, CloseAnswers, writing, Goto, TypeOK
  <1>3. \A v \in Workers \ {w} : pc'[v] \notin QueryPcs
    <2>1. pc[w] \in WritePcs
      BY DEF WriteAnswers, CloseAnswers, WritePcs, QueryPcs
    <2> QED BY <1>2, <2>1, Alone
  <1>4. pc[w] \in QueryPcs
    BY DEF WriteAnswers, CloseAnswers, QueryPcs
  <1>5. /\ WriteAnswers(w) => pc[w] = "write_answers" /\ pc'[w] = "close_answers"
                              /\ fp_answers' = fp_answers
        /\ CloseAnswers(w) => pc[w] = "close_answers" /\ pc'[w] = "write_spots"
    BY DEF WriteAnswers, CloseAnswers, Goto, TypeOK, writing
  <1>6. CASE fp_answers[w] = "linked"
    <2>1. /\ WriteAnswers(w) => WrittenAtEnd(w, f)'
          /\ CloseAnswers(w) => WrittenAtEnd(w, n)'
      BY <1>1, <1>6, TailLinked
    <2>2. /\ WriteAnswers(w) => f \in Written(w)'
          /\ CloseAnswers(w) => n \in Written(w)'
      BY <1>1, <1>2, <1>5, <1>6 DEF Written
    <2> QED BY <1>2, <1>3, <1>4, <2>1, <2>2 DEF RunningTail
  <1>7. CASE fp_answers[w] # "linked"
    <2>1. answers' = answers
      BY <1>7 DEF WriteAnswers, CloseAnswers, AppendTo
    <2>2. PICK done \in Written(w) : WrittenAtEnd(w, done)
      BY <1>4 DEF RunningTail
    <2>3. done = 0
      BY <1>5, <1>7, <2>2 DEF Written
    <2>4. WrittenAtEnd(w, 0)'
      BY <1>2, <2>1, <2>2, <2>3 DEF WrittenAtEnd
    <2>5. 0 \in Written(w)'
      BY <1>5, <1>7 DEF Written
    <2> QED BY <1>2, <1>3, <1>4, <2>4, <2>5 DEF RunningTail
  <1> QED BY <1>6, <1>7

\* A query begins with a number no answer of the file has.
LEMMA TailBegins ==
    ASSUME TypeOK, OneWriter', Numbering, NEW w \in Workers, BeginQuery(w)
    PROVE  RunningTail'
  <1>1. /\ answers' = answers /\ pc'[w] = "open_spots"
        /\ query'[w] = queries + 1 /\ batch'[w] \in Batches
    BY DEF BeginQuery, files, Goto, TypeOK
  <1>2. \A v \in Workers \ {w} : pc'[v] \notin QueryPcs
    BY <1>1 DEF OneWriter, WritePcs, QueryPcs
  <1>3. queries \in Nat /\ answers \in Seq(Answer)
    BY BoundsAssumption DEF TypeOK
  <1>4. Len(answers) \in Nat /\ DOMAIN answers = 1..Len(answers)
    BY <1>3, LenProperties
  <1>5. ASSUME NEW i \in 1..Len(answers) PROVE answers[i].q # queries + 1
    <2>1. answers[i] \in Answer
      BY <1>3, ElementOfSeq
    <2>2. answers[i].q \in Int
      BY <2>1, BoundsAssumption DEF Answer, Queries
    <2>3. answers[i].q <= queries
      BY <1>4 DEF Numbering
    <2> QED BY <1>3, <2>2, <2>3
  <1>6. WrittenAtEnd(w, 0)'
    <2>1. Len(answers) - 0 = Len(answers) /\ Len(answers) >= 0 /\ 1..0 = {}
      BY <1>4
    <2>2. \A i \in 1..Len(answers) : answers'[i].q # query'[w]
      BY <1>1, <1>5
    <2> QED BY <1>1, <2>1, <2>2 DEF WrittenAtEnd
  <1>7. 0 \in Written(w)'
    BY <1>1 DEF Written
  <1> QED BY <1>1, <1>2, <1>6, <1>7 DEF RunningTail

\* The steps that write no answer, while no query of another worker runs.
LEMMA TailStays ==
    ASSUME TypeOK, OneWriter, RunningTail, NEW w \in Workers,
           \/ Request(w) \/ OpenSpots(w) \/ OpenAnswers(w) \/ WriteSpots(w)
           \/ CloseSpots(w) \/ FetchResults(w) \/ BeginClear(w) \/ BeginClose(w)
           \/ RemoveAnswers(w) \/ RemoveSpots(w) \/ Restore(w) \/ Crash(w)
    PROVE  RunningTail'
  <1>1. CASE OpenSpots(w) \/ OpenAnswers(w) \/ WriteSpots(w)
    <2>1. answers' = answers /\ query' = query /\ batch' = batch
      BY <1>1 DEF OpenSpots, OpenAnswers, WriteSpots, files, writing
    <2>2. /\ pc[w] \in QueryPcs /\ \A v \in Workers \ {w} : pc'[v] = pc[v]
          /\ pc[w] \in WritePcs
      BY <1>1 DEF OpenSpots, OpenAnswers, WriteSpots, Goto, TypeOK, QueryPcs, WritePcs
    <2>3. Written(w) \subseteq Written(w)'
      BY <1>1, <2>1 DEF OpenSpots, OpenAnswers, WriteSpots, Goto, TypeOK, Written
    <2>4. spot_index'[w] = spot_index[w] \/ Written(w) = {0}
      BY <1>1 DEF OpenSpots, OpenAnswers, WriteSpots, writing, Written
    <2>5. \A v \in Workers \ {w} : pc'[v] \notin QueryPcs
      BY <2>2, Alone
    <2> QED BY <2>1, <2>2, <2>3, <2>4, <2>5, QuietTail
  <1>2. CASE RemoveAnswers(w)
    <2>1. /\ pc[w] \in WritePcs /\ pc'[w] \notin QueryPcs
          /\ \A v \in Workers \ {w} : pc'[v] = pc[v]
      BY <1>2 DEF RemoveAnswers, Goto, TypeOK, WritePcs, QueryPcs, RemovePcs
    <2>2. \A v \in Workers : pc'[v] \notin QueryPcs
      BY <2>1, Alone
    <2> QED BY <2>2 DEF RunningTail
  <1>3. CASE \/ Request(w) \/ CloseSpots(w) \/ FetchResults(w) \/ BeginClear(w)
             \/ BeginClose(w) \/ RemoveSpots(w) \/ Restore(w) \/ Crash(w)
    <2>1. answers' = answers
      BY <1>3 DEF Request, CreateSession, OpenSession, EndRequest, FetchResults,
         BeginFetch, ReadAnswers, ReadSpots, Deliver, BeginClear, BeginClose,
         Restore, Crash, CloseSpots, RemoveSpots, files
    <2>2. ASSUME NEW v \in Workers, pc'[v] \in QueryPcs
          PROVE  /\ pc[v] = pc'[v] /\ query'[v] = query[v] /\ batch'[v] = batch[v]
                 /\ spot_index'[v] = spot_index[v] /\ fp_answers'[v] = fp_answers[v]
      <3> USE <2>2 DEF TypeOK, QueryPcs
      <3>1. CASE Request(w)
        BY <3>1 DEF Request, CreateSession, OpenSession, EndRequest, writing
      <3>2. CASE FetchResults(w)
        BY <3>2 DEF FetchResults, BeginFetch, ReadAnswers, ReadSpots, Deliver,
           writing, Goto
      <3>3. CASE BeginClear(w) \/ BeginClose(w) \/ Restore(w)
        BY <3>3 DEF BeginClear, BeginClose, Restore, writing, Goto
      <3>4. CASE Crash(w)
        BY <3>4 DEF Crash, DropQuery, Goto
      <3>5. CASE CloseSpots(w)
        BY <3>5 DEF CloseSpots, DropQuery, Goto
      <3>6. CASE RemoveSpots(w)
        BY <3>6 DEF RemoveSpots, Goto
      <3> QED BY <1>3, <3>1, <3>2, <3>3, <3>4, <3>5, <3>6
    <2>3. \A v \in Workers : pc'[v] \in QueryPcs => Written(v)' = Written(v)
      BY <2>2 DEF Written
    <2> QED BY <2>1, <2>2, <2>3, QuietTail
  <1> QED BY <1>1, <1>2, <1>3

LEMMA TailNext ==
    TypeOK /\ OneWriter /\ OneWriter' /\ Numbering /\ RunningTail /\ [Next]_vars
        => RunningTail'
  <1> SUFFICES ASSUME TypeOK, OneWriter, OneWriter', Numbering, RunningTail, [Next]_vars
               PROVE  RunningTail'
    OBVIOUS
  <1>1. CASE UNCHANGED vars
    <2>1. \A v \in Workers : Written(v)' = Written(v)
      BY <1>1 DEF vars, files, writing, Written
    <2> QED BY <1>1, <2>1, QuietTail DEF vars, files, writing
  <1>2. ASSUME NEW w \in Workers,
               Request(w) \/ Query2(w) \/ FetchResults(w) \/ ClearOrClose(w) \/ Crash(w)
        PROVE  RunningTail'
    BY <1>2, TailStays, TailAnswers, TailBegins DEF Query2, ClearOrClose
  <1> QED BY <1>1, <1>2 DEF Next

\* While writing calls run one at a time and the spots file can be opened: the
\* call that writes has its handles on the present files, the offset of its
\* spots, taken when phrasea_query2 opened the file, stays the end of the file,
\* and what it has written of its answers is the end of the answers file.
THEOREM CacheInvariant ==
    ASSUME Exclusive
    PROVE  Spec => []CacheInv
  <1>1. Init => RunningTail
    BY DEF Init, RunningTail, QueryPcs
  <1>2. Pointing => OneWriter /\ Numbering
    BY DEF Pointing
  <1>3. CacheInv <=> Pointing /\ RunningTail
    BY DEF CacheInv
  <1> QED BY <1>1, <1>2, <1>3, TailNext, PointingInvariant, TypeCorrect, PTL DEF Spec

-----------------------------------------------------------------------------
(* The cache implements the list.                                          *)

\* An answer with the spots its query found for it.
OwnEntry(e) ==
    [q |-> e.q, rank |-> e.rank,
     spots |-> [k \in 1..e.nspots |-> [q |-> e.q, p |-> e.from + k]]]

OwnEntries(list) == [i \in DOMAIN list |-> OwnEntry(list[i])]

\* What the abstract list is, as long as the answers point to their own spots.
ListIsOwn == AbstractList = OwnEntries(SettledAnswers)

\* The answers of the queries that have returned.
LEMMA SettledType ==
    TypeOK => SettledAnswers \in Seq(Answer \cap Settled)
  BY OnlyType DEF TypeOK, SettledAnswers

\* Each of them points to the spots of its own query.
LEMMA ListOwn == TypeOK /\ OwnSpots => ListIsOwn
  <1> SUFFICES ASSUME TypeOK, OwnSpots PROVE ListIsOwn
    OBVIOUS
  <1>1. PICK X : X = {answers[i] : i \in DOMAIN answers}
    OBVIOUS
  <1>2. answers \in Seq(X)
    <2>1. answers \in Seq(Answer)
      BY DEF TypeOK
    <2>2. /\ Len(answers) \in Nat /\ DOMAIN answers = 1..Len(answers)
          /\ answers = [i \in 1..Len(answers) |-> answers[i]]
      BY <2>1, LenProperties
    <2>3. answers \in [1..Len(answers) -> X]
      BY <1>1, <2>2
    <2> QED BY <2>2, <2>3, FunctionIsSeq
  <1>3. PICK list : list = SettledAnswers
    OBVIOUS
  <1>4. list \in Seq(X \cap Settled)
    BY <1>2, <1>3, OnlyType DEF SettledAnswers
  <1>5. ASSUME NEW i \in DOMAIN list
        PROVE  [q |-> list[i].q, rank |-> list[i].rank, spots |-> SpotsOf(list[i])]
                 = OwnEntry(list[i])
    <2>1. PICK e : e = list[i]
      OBVIOUS
    <2>2. e \in X /\ e \in Settled
      <3>1. i \in 1..Len(list)
        BY <1>4, LenProperties
      <3> QED BY <1>4, <2>1, <3>1, ElementOfSeq
    <2>3. PointsToItsOwn(e)
      BY <1>1, <2>2 DEF Settled, OwnSpots
    <2>4. SpotsOf(e) = [k \in 1..e.nspots |-> [q |-> e.q, p |-> e.from + k]]
      BY <2>3 DEF PointsToItsOwn, SpotsOf
    <2> QED BY <2>1, <2>4 DEF OwnEntry
  <1>6. Entries(list) = OwnEntries(list)
    BY <1>5 DEF Entries, OwnEntries
  <1> QED BY <1>3, <1>6 DEF ListIsOwn, AbstractList

\* A step that leaves the answers of the returned queries alone leaves the list
\* alone, whatever it does to the files.
LEMMA SameList ==
    ASSUME ListIsOwn, ListIsOwn', SettledAnswers' = SettledAnswers
    PROVE  AbstractList' = AbstractList
  <1>1. OwnEntries(SettledAnswers)' = OwnEntries(SettledAnswers)
    BY DEF OwnEntries, OwnEntry
  <1> QED BY <1>1 DEF ListIsOwn

\* The answers of a query that still runs are not in the list yet.
LEMMA ListWrites ==
    ASSUME TypeOK, Numbering, NEW w \in Workers, WriteAnswers(w) \/ CloseAnswers(w)
    PROVE  SettledAnswers' = SettledAnswers
  <1>1. PICK n, f, m, head, tail :
          /\ n = batch[w].n
          /\ f = Flushed(n, AnswersPerBlock) /\ m = n - f
          /\ head = AnswerRecords(query[w], batch[w], spot_index[w], 0, f)
          /\ tail = AnswerRecords(query[w], batch[w], spot_index[w], f, n)
    OBVIOUS
  <1>2. ValidBatch(batch[w]) /\ query[w] \in Queries /\ spot_index[w] \in Nat
    BY DEF TypeOK, WriteAnswers, CloseAnswers, QueryPcs
  <1>3. /\ head \in Seq(Answer) /\ Len(head) = f
        /\ \A i \in 1..f :
              head[i] = AnswerRecord(query[w], batch[w], spot_index[w], i)
    BY <1>1, <1>2, AnswersWritten
  <1>4. /\ tail \in Seq(Answer) /\ Len(tail) = m
        /\ \A i \in 1..m :
              tail[i] = AnswerRecord(query[w], batch[w], spot_index[w], f + i)
    BY <1>1, <1>2, AnswersWritten
  <1>5. settled' = settled /\ query[w] \notin settled
    BY DEF WriteAnswers, CloseAnswers, history, Numbering, QueryPcs
  <1>6. PICK recs : /\ recs \in Seq(Answer)
                    /\ \A i \in 1..Len(recs) : recs[i].q = query[w]
                    /\ answers' = AppendTo(answers, fp_answers[w], recs)
    <2>1. CASE WriteAnswers(w)
      <3>1. answers' = AppendTo(answers, fp_answers[w], head)
        BY <1>1, <2>1 DEF WriteAnswers
      <3>2. \A i \in 1..Len(head) : head[i].q = query[w]
        BY <1>3 DEF AnswerRecord
      <3> QED BY <1>3, <3>1, <3>2
    <2>2. CASE CloseAnswers(w)
      <3>1. answers' = AppendTo(answers, fp_answers[w], tail)
        BY <1>1, <2>2 DEF CloseAnswers
      <3>2. \A i \in 1..Len(tail) : tail[i].q = query[w]
        BY <1>4 DEF AnswerRecord
      <3> QED BY <1>4, <3>1, <3>2
    <2> QED BY <2>1, <2>2
  <1>7. answers \in Seq(Answer)
    BY DEF TypeOK
  <1>8. Settled' = Settled
    BY <1>5 DEF Settled
  <1>9. Only(recs, Settled) = << >>
    <2>1. PICK X : X = {e \in Answer : e.q = query[w]}
      OBVIOUS
    <2>2. \A i \in 1..Len(recs) : recs[i] \in X
      BY <1>6, <2>1, ElementOfSeq
    <2>3. recs \in Seq(X)
      BY <1>6, <2>2, LenProperties, FunctionIsSeq
    <2>4. X \cap Settled = {}
      BY <1>5, <2>1 DEF Settled
    <2> QED BY <2>3, <2>4, OnlyNone
  <1>10. Only(answers', Settled) = Only(answers, Settled)
    <2>1. CASE fp_answers[w] = "linked"
      <3>1. answers' = answers \o recs
        BY <1>6, <2>1 DEF AppendTo
      <3>4. Only(answers \o recs, Settled) = Only(answers, Settled) \o Only(recs, Settled)
        BY ONLY <1>6, <1>7, OnlyConcat
      <3>2. Only(answers \o recs, Settled) = Only(answers, Settled) \o << >>
        BY <1>9, <3>4
      <3>3. Only(answers, Settled) \in Seq(Answer \cap Settled)
        BY <1>7, OnlyType
      <3> QED BY <3>1, <3>2, <3>3, ConcatEmptySeq
    <2>2. CASE fp_answers[w] # "linked"
      BY <1>6, <2>2 DEF AppendTo
    <2> QED BY <2>1, <2>2
  <1> QED BY <1>8, <1>10 DEF SettledAnswers

\* OwnEntries of two lists, one after the other.
LEMMA OwnConcat ==
    ASSUME NEW s \in Seq(Answer), NEW t \in Seq(Answer)
    PROVE  OwnEntries(s \o t) = OwnEntries(s) \o OwnEntries(t)
  <1>1. PICK X : X = {OwnEntry(e) : e \in Answer}
    OBVIOUS
  <1>2. /\ Len(s) \in Nat /\ DOMAIN s = 1..Len(s) /\ \A i \in 1..Len(s) : s[i] \in Answer
        /\ Len(t) \in Nat /\ DOMAIN t = 1..Len(t) /\ \A i \in 1..Len(t) : t[i] \in Answer
    BY LenProperties, ElementOfSeq
  <1>3. PICK a, b : a = OwnEntries(s) /\ b = OwnEntries(t)
    OBVIOUS
  <1>4. /\ a \in Seq(X) /\ Len(a) = Len(s) /\ \A i \in 1..Len(s) : a[i] = OwnEntry(s[i])
        /\ b \in Seq(X) /\ Len(b) = Len(t) /\ \A i \in 1..Len(t) : b[i] = OwnEntry(t[i])
    <2>1. /\ a \in [1..Len(s) -> X] /\ \A i \in 1..Len(s) : a[i] = OwnEntry(s[i])
          /\ b \in [1..Len(t) -> X] /\ \A i \in 1..Len(t) : b[i] = OwnEntry(t[i])
      BY <1>1, <1>2, <1>3 DEF OwnEntries
    <2> QED BY <1>2, <2>1, FunctionIsSeq
  <1>5. PICK u : u = s \o t
    OBVIOUS
  <1>6. /\ u \in Seq(Answer) /\ Len(u) = Len(s) + Len(t) /\ DOMAIN u = 1..Len(u)
        /\ \A i \in 1..(Len(s) + Len(t)) : u[i] = IF i <= Len(s) THEN s[i] ELSE t[i - Len(s)]
    BY <1>5, ConcatProperties, LenProperties
  <1>7. PICK v : v = a \o b
    OBVIOUS
  <1>8. /\ v \in Seq(X) /\ Len(v) = Len(s) + Len(t) /\ DOMAIN v = 1..Len(v)
        /\ \A i \in 1..(Len(s) + Len(t)) : v[i] = IF i <= Len(s) THEN a[i] ELSE b[i - Len(s)]
    <2>1. /\ v \in Seq(X) /\ Len(v) = Len(a) + Len(b)
          /\ \A i \in 1..(Len(a) + Len(b)) : v[i] = IF i <= Len(a) THEN a[i] ELSE b[i - Len(a)]
      BY <1>4, <1>7, ConcatProperties
    <2>2. DOMAIN v = 1..Len(v)
      BY <2>1, LenProperties
    <2> QED BY <1>4, <2>1, <2>2
  <1>9. ASSUME NEW i \in 1..(Len(s) + Len(t)) PROVE OwnEntry(u[i]) = v[i]
    <2>1. CASE i <= Len(s)
      BY <1>2, <1>4, <1>6, <1>8, <2>1
    <2>2. CASE ~(i <= Len(s))
      <3>1. i - Len(s) \in 1..Len(t)
        BY <1>2, <2>2
      <3> QED BY <1>4, <1>6, <1>8, <2>2, <3>1
    <2> QED BY <2>1, <2>2
  <1>10. OwnEntries(u) = v
    <2>1. v = [i \in 1..Len(v) |-> v[i]]
      BY <1>8, LenProperties
    <2> QED BY <1>6, <1>8, <1>9, <2>1 DEF OwnEntries
  <1> QED BY <1>3, <1>5, <1>7, <1>10

\* tail is the n first answers of query q.
FirstAnswers(tail, q, b, index, n) ==
    tail = [a \in 1..n |-> AnswerRecord(q, b, index, a)]

\* What a query wrote, seen as entries of the list.
LEMMA OwnRecords ==
    ASSUME NEW q, NEW b, NEW index, NEW n, NEW tail, FirstAnswers(tail, q, b, index, n)
    PROVE  OwnEntries(tail) = [a \in 1..n |-> RL!Entry(q, b, a)]
  <1>1. DOMAIN tail = 1..n
    BY DEF FirstAnswers
  <1>2. ASSUME NEW a \in 1..n PROVE OwnEntry(tail[a]) = RL!Entry(q, b, a)
    BY DEF FirstAnswers, AnswerRecord, OwnEntry, RL!Entry
  <1> QED BY <1>1, <1>2 DEF OwnEntries

\* The answers file splits into what was there when the running query began,
\* and what it wrote.
LEMMA Split ==
    ASSUME TypeOK, NEW w \in Workers, pc[w] \in QueryPcs,
           NEW done \in 0..batch[w].n, WrittenAtEnd(w, done),
           NEW q, q = query[w], NEW b, b = batch[w],
           NEW H, H = {e \in Answer : e.q # q}, NEW T, T = {e \in Answer : e.q = q}
    PROVE  \E head \in Seq(H), tail \in Seq(T) :
              answers = head \o tail /\ FirstAnswers(tail, q, b, spot_index[w], done)
  <1>1. /\ answers \in Seq(Answer) /\ Len(answers) \in Nat /\ DOMAIN answers = 1..Len(answers)
        /\ ValidBatch(batch[w]) /\ batch[w].n \in Nat /\ query[w] \in Queries
        /\ spot_index[w] \in Nat
    BY LenProperties DEF TypeOK, ValidBatch
  <1>2. PICK before : before = Len(answers) - done
    OBVIOUS
  <1>3. /\ before \in Nat /\ done \in Nat /\ Len(answers) = before + done
        /\ \A i \in 1..before : i \in 1..Len(answers) /\ answers[i].q # q
        /\ \A a \in 1..done : /\ before + a \in 1..Len(answers)
                              /\ answers[before + a]
                                   = AnswerRecord(q, batch[w], spot_index[w], a)
    BY <1>1, <1>2, SMTT(30) DEF WrittenAtEnd
  <1>5. PICK head, tail :
          /\ head = [i \in 1..before |-> answers[i]]
          /\ tail = [a \in 1..done |-> AnswerRecord(q, batch[w], spot_index[w], a)]
    OBVIOUS
  <1>6. head \in [1..before -> H]
    <2>1. \A i \in 1..before : answers[i] \in Answer
      BY <1>1, <1>3, ElementOfSeq
    <2> QED BY <1>3, <1>5, <2>1
  <1>7. tail \in [1..done -> T]
    <2>1. ASSUME NEW a \in 1..done
          PROVE  /\ AnswerRecord(q, batch[w], spot_index[w], a) \in Answer
                 /\ AnswerRecord(q, batch[w], spot_index[w], a).q = q
      <3>1. a \in 1..batch[w].n
        BY <1>1, <1>3
      <3> QED BY <1>1, <3>1, AnswerRecordType DEF AnswerRecord
    <2> QED BY <1>5, <2>1
  <1>8. /\ head \in Seq(H) /\ Len(head) = before
        /\ tail \in Seq(T) /\ Len(tail) = done
    BY <1>3, <1>6, <1>7, FunctionIsSeq
  <1>9. head \in Seq(Answer) /\ tail \in Seq(Answer)
    <2>1. head \in [1..before -> Answer] /\ tail \in [1..done -> Answer]
      BY <1>6, <1>7
    <2> QED BY <1>3, <2>1, FunctionIsSeq
  <1>10. answers = head \o tail
    <2>1. PICK u : u = head \o tail
      OBVIOUS
    <2>2. /\ u \in Seq(Answer) /\ Len(u) = Len(head) + Len(tail)
          /\ \A i \in 1..(Len(head) + Len(tail)) :
                u[i] = IF i <= Len(head) THEN head[i] ELSE tail[i - Len(head)]
      BY <1>9, <2>1, ConcatProperties
    <2>3. Len(u) = Len(answers)
      BY <1>3, <1>8, <2>2
    <2>4. ASSUME NEW i \in 1..Len(answers) PROVE u[i] = answers[i]
      <3>1. CASE i <= before
        <4>1. i \in 1..before
          BY <1>1, <1>3, <3>1
        <4> QED BY <1>3, <1>5, <1>8, <2>2, <3>1, <4>1
      <3>2. CASE ~(i <= before)
        <4>1. i - before \in 1..done /\ before + (i - before) = i
          BY <1>1, <1>3, <3>2
        <4>2. tail[i - before] = answers[i]
          BY <1>3, <1>5, <4>1
        <4> QED BY <1>3, <1>8, <2>2, <3>2, <4>2
      <3> QED BY <3>1, <3>2
    <2>5. u = [i \in 1..Len(u) |-> u[i]] /\ answers = [i \in 1..Len(answers) |-> answers[i]]
      BY <1>1, <2>2, LenProperties
    <2> QED BY <2>1, <2>3, <2>4, <2>5
  <1> QED BY <1>5, <1>8, <1>10 DEF FirstAnswers

\* What the return of a query adds to the settled answers: what it wrote.
LEMMA SettledGrow ==
    ASSUME NEW q, q \notin settled, settled' = settled \cup {q},
           NEW head \in Seq({e \in Answer : e.q # q}),
           NEW tail \in Seq({e \in Answer : e.q = q}),
           answers = head \o tail, answers' = answers
    PROVE  /\ SettledAnswers \in Seq({e \in Answer : e.q # q})
           /\ SettledAnswers' = SettledAnswers \o tail
  <1>1. PICK H, T : H = {e \in Answer : e.q # q} /\ T = {e \in Answer : e.q = q}
    OBVIOUS
  <1>2. head \in Seq(H) /\ tail \in Seq(T)
    BY <1>1
  <1>3. head \in Seq(Answer) /\ tail \in Seq(Answer)
    <2>1. H \subseteq Answer /\ T \subseteq Answer
      BY <1>1
    <2> QED BY <1>2, <2>1, SeqSubset
  <1>4. PICK S, U : S = Settled /\ U = Settled'
    OBVIOUS
  <1>5. /\ \A e \in H : e \in S <=> e \in U
        /\ T \cap S = {} /\ T \subseteq U
    BY <1>1, <1>4 DEF Settled
  <1>6. Only(head, U) = Only(head, S)
    BY <1>2, <1>5, OnlySame
  <1>7. Only(tail, S) = << >>
    BY <1>2, <1>5, OnlyNone
  <1>8. Only(tail, U) = tail
    BY <1>2, <1>5, OnlyAll
  <1>9. Only(head \o tail, S) = Only(head, S) \o Only(tail, S)
    BY ONLY <1>3, OnlyConcat
  <1>10. Only(head \o tail, U) = Only(head, U) \o Only(tail, U)
    BY ONLY <1>3, OnlyConcat
  <1>11. Only(head, S) \in Seq(H \cap S)
    BY <1>2, OnlyType
  <1>12. Only(head, S) \in Seq(H)
    <2>1. H \cap S \subseteq H
      OBVIOUS
    <2> QED BY <1>11, <2>1, SeqSubset
  <1>13. SettledAnswers = Only(head, S)
    <2>1. Only(head, S) \o << >> = Only(head, S)
      BY <1>12, ConcatEmptySeq
    <2> QED BY <1>4, <1>7, <1>9, <2>1 DEF SettledAnswers
  <1>14. SettledAnswers' = Only(head, S) \o tail
    BY <1>4, <1>6, <1>8, <1>10 DEF SettledAnswers
  <1> QED BY <1>1, <1>12, <1>13, <1>14

\* The return of phrasea_query2 adds the whole result of the query to the list,
\* or nothing when the answers file could not be opened.
LEMMA ListCloses ==
    ASSUME TypeOK, Numbering, RunningTail, ListIsOwn, ListIsOwn',
           NEW w \in Workers, CloseSpots(w)
    PROVE  RL!Add \/ (AbstractList' = AbstractList /\ queries' = queries)
  <1>1. /\ pc[w] = "close_spots" /\ pc[w] \in QueryPcs /\ answers' = answers
        /\ settled' = settled \cup {query[w]} /\ queries' = queries
    BY DEF CloseSpots, QueryPcs
  <1>2. PICK q, b, n : q = query[w] /\ b = batch[w] /\ n = b.n
    OBVIOUS
  <1>3. PICK done \in Written(w) : WrittenAtEnd(w, done)
    BY <1>1 DEF RunningTail
  <1>4. /\ q \in Queries /\ q \in Nat /\ 1 <= q /\ queries \in Nat /\ n \in Nat /\ q <= queries
        /\ q \notin settled /\ b \in Batches
    <2>1. q \in Queries /\ queries \in Nat /\ n \in Nat
      BY <1>1, <1>2, BoundsAssumption DEF TypeOK, ValidBatch
    <2>2. q \in Nat /\ 1 <= q
      BY <2>1, BoundsAssumption DEF Queries
    <2>3. q <= queries /\ q \notin settled
      BY <1>1, <1>2 DEF Numbering
    <2>4. b \in Batches
      BY <1>1, <1>2 DEF RunningTail
    <2> QED BY <2>1, <2>2, <2>3, <2>4
  <1>5. done \in {0, n} /\ done \in 0..batch[w].n
    <2>1. done \in {0, n}
      BY <1>1, <1>2, <1>3 DEF Written
    <2> QED BY <1>2, <1>4, <2>1
  <1>6. PICK H, T : H = {e \in Answer : e.q # q} /\ T = {e \in Answer : e.q = q}
    OBVIOUS
  <1>7. PICK head \in Seq(H), tail \in Seq(T) :
            answers = head \o tail /\ FirstAnswers(tail, q, b, spot_index[w], done)
    BY <1>1, <1>2, <1>3, <1>5, <1>6, Split
  <1>8. SettledAnswers \in Seq(H) /\ SettledAnswers' = SettledAnswers \o tail
    BY <1>1, <1>2, <1>4, <1>6, <1>7, SettledGrow
  <1>9. CASE done = 0
    <2>1. tail = << >>
      BY <1>7, <1>9 DEF FirstAnswers
    <2>2. SettledAnswers' = SettledAnswers
      BY <1>8, <2>1, ConcatEmptySeq
    <2> QED BY <1>1, <2>2, SameList
  <1>10. CASE done = n
    <2>1. SettledAnswers \in Seq(Answer) /\ tail \in Seq(Answer)
      <3>1. H \subseteq Answer /\ T \subseteq Answer
        BY <1>6
      <3> QED BY <1>7, <1>8, <3>1, SeqSubset
    <2>2. OwnEntries(SettledAnswers \o tail) = OwnEntries(SettledAnswers) \o OwnEntries(tail)
      BY <2>1, OwnConcat
    <2>3. OwnEntries(tail) = [a \in 1..n |-> RL!Entry(q, b, a)]
      BY <1>7, <1>10, OwnRecords
    <2>4. AbstractList = OwnEntries(SettledAnswers)
      BY DEF ListIsOwn
    <2>5. AbstractList' = OwnEntries(SettledAnswers)'
      BY DEF ListIsOwn
    <2>6. OwnEntries(SettledAnswers)' = OwnEntries(SettledAnswers \o tail)
      BY <1>8 DEF OwnEntries, OwnEntry
    <2>7. AbstractList' = AbstractList \o [a \in 1..b.n |-> RL!Entry(q, b, a)]
      BY <1>2, <2>2, <2>3, <2>4, <2>5, <2>6
    <2>8. \A i \in DOMAIN AbstractList : AbstractList[i].q # q
      <3>1. PICK list : list = SettledAnswers
        OBVIOUS
      <3>2. \A i \in DOMAIN list : list[i].q # q
        <4>1. list \in Seq(H)
          BY <1>8, <3>1
        <4>2. \A i \in DOMAIN list : list[i] \in H
          BY <4>1, LenProperties, ElementOfSeq
        <4> QED BY <1>6, <4>2
      <3>3. AbstractList = OwnEntries(list)
        BY <2>4, <3>1
      <3> QED BY <3>2, <3>3 DEF OwnEntries, OwnEntry
    <2>9. q \in 1..((queries + 1) - 1)
      BY <1>4
    <2>10. queries' + 1 = queries + 1
      BY <1>1
    <2> QED BY <1>4, <2>7, <2>8, <2>9, <2>10 DEF RL!Add
  <1> QED BY <1>5, <1>9, <1>10

\* Every step of the cache is a step of the list, or leaves it alone.
LEMMA ListStep ==
    TypeOK /\ Numbering /\ RunningTail /\ ListIsOwn /\ ListIsOwn' /\ [Next]_vars
        => [RL!Next]_<<AbstractList, queries + 1>>
  <1> SUFFICES ASSUME TypeOK, Numbering, RunningTail, ListIsOwn, ListIsOwn', [Next]_vars
               PROVE  RL!Next \/ (AbstractList' = AbstractList /\ queries' = queries)
    OBVIOUS
  <1>1. ASSUME answers' = answers, settled' = settled
        PROVE  AbstractList' = AbstractList
    <2>1. SettledAnswers' = SettledAnswers
      BY <1>1 DEF SettledAnswers, Settled
    <2> QED BY <2>1, SameList
  <1>2. CASE UNCHANGED vars
    BY <1>1, <1>2 DEF vars, files, history
  <1>3. ASSUME NEW w \in Workers, BeginQuery(w)
        PROVE  RL!Next
    <2>1. /\ queries < MaxQueries /\ queries' = queries + 1
          /\ answers' = answers /\ settled' = settled
      BY <1>3 DEF BeginQuery, files
    <2>2. AbstractList' = AbstractList
      BY <1>1, <2>1
    <2>3. queries + 1 <= MaxQueries
      BY <2>1, BoundsAssumption DEF TypeOK
    <2>4. RL!Begin
      BY <2>1, <2>2, <2>3 DEF RL!Begin
    <2> QED BY <2>4 DEF RL!Next
  <1>4. ASSUME NEW w \in Workers, WriteAnswers(w) \/ CloseAnswers(w)
        PROVE  AbstractList' = AbstractList /\ queries' = queries
    <2>1. SettledAnswers' = SettledAnswers
      BY <1>4, ListWrites
    <2>2. queries' = queries
      BY <1>4 DEF WriteAnswers, CloseAnswers, history
    <2> QED BY <2>1, <2>2, SameList
  <1>5. ASSUME NEW w \in Workers, CloseSpots(w)
        PROVE  RL!Next \/ (AbstractList' = AbstractList /\ queries' = queries)
    BY <1>5, ListCloses DEF RL!Next
  <1>6. ASSUME NEW w \in Workers, RemoveAnswers(w)
        PROVE  RL!Next
    <2>1. answers' = << >> /\ queries' = queries
      BY <1>6 DEF RemoveAnswers, history
    <2>2. SettledAnswers' = << >>
      BY <2>1, OnlyEmpty DEF SettledAnswers
    <2>3. OwnEntries(SettledAnswers)' = << >>
      BY <2>2 DEF OwnEntries
    <2>4. RL!Forget
      BY <2>1, <2>3 DEF ListIsOwn, RL!Forget
    <2> QED BY <2>4 DEF RL!Next
  <1>7. ASSUME NEW w \in Workers,
               \/ Request(w) \/ OpenSpots(w) \/ OpenAnswers(w) \/ WriteSpots(w)
               \/ FetchResults(w) \/ BeginClear(w) \/ BeginClose(w)
               \/ RemoveSpots(w) \/ Restore(w) \/ Crash(w)
        PROVE  AbstractList' = AbstractList /\ queries' = queries
    <2>1. answers' = answers /\ settled' = settled /\ queries' = queries
      BY <1>7 DEF Request, CreateSession, OpenSession, EndRequest, OpenSpots,
         OpenAnswers, WriteSpots, FetchResults, BeginFetch, ReadAnswers, ReadSpots,
         Deliver, BeginClear, BeginClose, RemoveSpots, Restore, Crash, files, history
    <2> QED BY <1>1, <2>1
  <1>8. ASSUME NEW w \in Workers,
               Request(w) \/ Query2(w) \/ FetchResults(w) \/ ClearOrClose(w) \/ Crash(w)
        PROVE  RL!Next \/ (AbstractList' = AbstractList /\ queries' = queries)
    BY <1>3, <1>4, <1>5, <1>6, <1>7, <1>8 DEF Query2, ClearOrClose
  <1> QED BY <1>2, <1>8 DEF Next

\* When the application runs one writing call of the session at a time and the
\* spots file can be opened, the two files, written in six steps by
\* phrasea_query2 and removed in two by phrasea_clear_cache and
\* phrasea_close_session, by workers that may die between any two of them,
\* are to their reader a list to which a query adds its whole result, in one
\* step, each answer with its own spots, and which is emptied in one.
THEOREM ListImplemented ==
    ASSUME Exclusive
    PROVE  Spec => ImplementsResultList
  <1>1. Init => RL!Init
    <2> SUFFICES ASSUME Init PROVE RL!Init
      OBVIOUS
    <2>1. SettledAnswers = << >>
      BY OnlyEmpty DEF Init, SettledAnswers
    <2>2. AbstractList = << >>
      BY <2>1 DEF AbstractList, Entries
    <2> QED BY <2>2 DEF Init, RL!Init
  <1>2. CacheInv => Numbering /\ RunningTail /\ OwnSpots
    BY DEF CacheInv, Pointing
  <1> QED BY <1>1, <1>2, ListOwn, ListStep, TypeCorrect, CacheInvariant, PTL
          DEF Spec, ImplementsResultList, RL!Spec

-----------------------------------------------------------------------------
(* Pages highlight the spots of their answers.                             *)

\* The running total of a page's spots, answer by answer.
LEMMA TotalTurns ==
    ASSUME NEW pg \in Seq(Answer)
    PROVE  /\ Len(pg) \in Nat /\ DOMAIN pg = 1..Len(pg)
           /\ Total(pg) \in [0..Len(pg) -> Nat] /\ Total(pg)[0] = 0
           /\ \A a \in 1..Len(pg) :
                 /\ pg[a] \in Answer
                 /\ Total(pg)[a] = Total(pg)[a - 1] + pg[a].nspots
  <1> DEFINE n == Len(pg)
             step == [p \in Nat \X (1..n) |-> p[1] + pg[p[2]].nspots]
             Def(g) == [a \in 0..n |-> IF a = 0 THEN 0 ELSE g[a - 1] + pg[a].nspots]
             t == CHOOSE g : g = Def(g)
  <1>1. n \in Nat /\ DOMAIN pg = 1..n /\ \A a \in 1..n : pg[a] \in Answer
    BY LenProperties, ElementOfSeq
  <1>2. \A a \in 1..n : pg[a].nspots \in Nat
    BY <1>1 DEF Answer
  <1>3. step \in [Nat \X (1..n) -> Nat]
    BY <1>2
  <1>4. \E h : h = Def(h)
    <2> HIDE DEF step, n
    <2>1. PICK h \in [0..n -> Nat] : IsRun(h, n, 0, step)
      BY <1>1, <1>3, RunExists
    <2>2. ASSUME NEW a \in 1..n PROVE h[a] = h[a - 1] + pg[a].nspots
      <3>1. a - 1 \in 0..n
        BY <1>1
      <3>2. <<h[a - 1], a>> \in Nat \X (1..n)
        BY <2>1, <3>1
      <3> QED BY <2>1, <3>2 DEF step, IsRun
    <2>3. ASSUME NEW a \in 0..n
          PROVE  h[a] = IF a = 0 THEN 0 ELSE h[a - 1] + pg[a].nspots
      <3>1. a # 0 => a \in 1..n
        BY <1>1
      <3> QED BY <2>1, <2>2, <3>1 DEF IsRun
    <2>4. h = Def(h)
      BY <2>1, <2>3
    <2> QED BY <2>4
  <1>5. t = Def(t)
    <2> HIDE DEF Def
    <2> QED BY <1>4
  <1>6. Total(pg) = t
    BY DEF Total
  <1> HIDE DEF t
  <1>7. DOMAIN t = 0..n /\ t[0] = 0
    <2>1. 0 \in 0..n
      BY <1>1
    <2> QED BY <1>5, <2>1
  <1>8. ASSUME NEW a \in 1..n PROVE t[a] = t[a - 1] + pg[a].nspots
    <2>1. a \in 0..n /\ a # 0
      BY <1>1
    <2> QED BY <1>5, <2>1
  <1>9. \A a \in 0..n : t[a] \in Nat
    <2> DEFINE S == {a \in 0..n : t[a] \in Nat}
    <2>1. 0 \in S
      BY <1>1, <1>7
    <2>2. ASSUME NEW a \in 0..(n - 1), a \in S PROVE a + 1 \in S
      <3>1. a + 1 \in 1..n /\ (a + 1) - 1 = a /\ a + 1 \in 0..n
        BY <1>1
      <3>2. t[a + 1] = t[a] + pg[a + 1].nspots /\ pg[a + 1].nspots \in Nat
        BY <1>2, <1>8, <3>1
      <3> QED BY <2>2, <3>1, <3>2
    <2> HIDE DEF S, n
    <2>3. 0..n \subseteq S
      BY <1>1, <2>1, <2>2, UpTo
    <2> QED BY <2>3 DEF S
  <1>10. t = [a \in 0..n |-> t[a]]
    BY <1>5
  <1>11. t \in [0..n -> Nat]
    BY <1>9, <1>10
  <1> QED BY <1>1, <1>6, <1>7, <1>8, <1>11

\* j is the next answer with spots after i.
Follows(list, i, j) ==
    /\ i < j /\ list[i].nspots > 0 /\ list[j].nspots > 0
    /\ \A x \in (i + 1)..(j - 1) : list[x].nspots = 0

\* Where the spots of an answer end.
End(e) == e.spots_index + e.nspots

\* Answers follow one another in the spots file without a gap (they may go back
\* after a query that died), and never start before one of a query that has
\* returned.
LaidOut(list, done) ==
    /\ \A i, j \in DOMAIN list :
          Follows(list, i, j) => list[j].spots_index <= End(list[i])
    /\ \A i, j \in DOMAIN list :
          /\ i < j /\ list[i].nspots > 0 /\ list[j].nspots > 0
          /\ list[i].q \in done
          => list[i].spots_index <= list[j].spots_index

\* What a page of such answers needs is within the total that is read for it.
LEMMA WithinTotal ==
    ASSUME NEW pg \in Seq(Answer), NEW done, LaidOut(pg, done), pg # << >>,
           pg[1].nspots > 0, NEW a \in DOMAIN pg, pg[a].nspots > 0
    PROVE  End(pg[a]) <= pg[1].spots_index + Total(pg)[Len(pg)]
  <1>1. PICK n, t : n = Len(pg) /\ t = Total(pg)
    OBVIOUS
  <1>2. /\ n \in Nat /\ DOMAIN pg = 1..n /\ t \in [0..n -> Nat] /\ t[0] = 0
        /\ \A b \in 1..n : pg[b] \in Answer /\ t[b] = t[b - 1] + pg[b].nspots
    BY <1>1, TotalTurns
  <1>3. \A b \in 1..n : pg[b].spots_index \in Nat /\ pg[b].nspots \in Nat
    BY <1>2 DEF Answer
  <1>4. n # 0 /\ 1 \in 1..n
    <2>1. n # 0
      BY <1>1, EmptySeq
    <2> QED BY <1>2, <2>1
  <1> DEFINE S == {k \in 0..n : \A m \in 1..k : pg[m].nspots > 0 =>
                                    End(pg[m]) <= pg[1].spots_index + t[k]}
  <1>5. 0 \in S
    <2>1. 0 \in 0..n /\ 1..0 = {}
      BY <1>2
    <2> QED BY <2>1
  <1>6. ASSUME NEW k \in 0..(n - 1), k \in S PROVE k + 1 \in S
    <2>1. k \in Nat /\ k + 1 \in 1..n /\ (k + 1) - 1 = k /\ k \in 0..n /\ k + 1 \in 0..n
      BY <1>2
    <2>2. t[k + 1] = t[k] + pg[k + 1].nspots /\ t[k] \in Nat /\ t[k + 1] \in Nat
      BY <1>2, <2>1
    <2>3. \A m \in 1..k : m \in 1..n
      BY <1>2, <2>1
    <2>4. ASSUME NEW m \in 1..k, pg[m].nspots > 0
          PROVE  End(pg[m]) <= pg[1].spots_index + t[k]
      BY <1>6, <2>4
    <2>5. ASSUME NEW m \in 1..(k + 1), pg[m].nspots > 0
          PROVE  End(pg[m]) <= pg[1].spots_index + t[k + 1]
      <3>1. CASE m \in 1..k
        <4>1. End(pg[m]) <= pg[1].spots_index + t[k] /\ m \in 1..n
          BY <2>3, <2>4, <2>5, <3>1
        <4>2. t[k] <= t[k + 1] /\ pg[1].spots_index \in Nat /\ End(pg[m]) \in Nat
          <5>1. pg[k + 1].nspots \in Nat /\ pg[1].spots_index \in Nat
            BY <1>3, <1>4, <2>1
          <5>2. End(pg[m]) \in Nat
            BY <1>3, <4>1 DEF End
          <5>3. t[k] <= t[k + 1]
            BY <2>2, <5>1
          <5> QED BY <5>1, <5>2, <5>3
        <4>3. \A e, s0, u, v \in Nat : e <= s0 + u /\ u <= v => e <= s0 + v
          OBVIOUS
        <4> QED BY <2>2, <4>1, <4>2, <4>3
      <3>2. CASE m = k + 1 /\ k = 0
        BY <1>3, <1>4, <2>1, <2>2, <1>2, <3>2 DEF End
      <3>3. CASE m = k + 1 /\ k # 0
        <4>1. PICK s : s = {x \in 1..k : pg[x].nspots > 0}
          OBVIOUS
        <4>2. s \in SUBSET (1..k) /\ 1 \in s
          BY <2>1, <3>3, <4>1
        <4>3. PICK l : l \in s /\ \A y \in s : y <= l
          BY <2>1, <4>2, MaxOf
        <4>4. l \in 1..k /\ l \in 1..n /\ pg[l].nspots > 0
          BY <2>3, <4>1, <4>3
        <4>5. \A x \in (l + 1)..(m - 1) : pg[x].nspots = 0
          <5> SUFFICES ASSUME NEW x \in (l + 1)..(m - 1) PROVE pg[x].nspots = 0
            OBVIOUS
          <5>1. x \in 1..k /\ ~(x <= l)
            BY <2>1, <3>3, <4>4
          <5>2. x \notin s
            BY <4>3, <5>1
          <5>3. x \in 1..n /\ pg[x].nspots \in Nat
            BY <1>3, <2>3, <5>1
          <5> QED BY <4>1, <5>1, <5>2, <5>3
        <4>6. Follows(pg, l, m)
          BY <2>1, <2>5, <3>3, <4>4, <4>5 DEF Follows
        <4>7. pg[m].spots_index <= End(pg[l])
          BY <1>2, <2>1, <3>3, <4>4, <4>6 DEF LaidOut
        <4>8. End(pg[l]) <= pg[1].spots_index + t[k]
          BY <2>4, <4>4
        <4>9. End(pg[m]) = pg[m].spots_index + pg[m].nspots /\ End(pg[l]) \in Nat
          BY <1>3, <4>4 DEF End
        <4>10. pg[1].spots_index \in Nat /\ pg[m].spots_index \in Nat /\ pg[m].nspots \in Nat
          BY <1>3, <1>4, <2>1, <3>3
        <4>11. t[k + 1] = t[k] + pg[m].nspots
          BY <2>2, <3>3
        <4>12. \A e, s0, u, v, f, x, y \in Nat :
                  e = x + y /\ x <= f /\ f <= s0 + u /\ v = u + y => e <= s0 + v
          OBVIOUS
        <4>13. End(pg[m]) \in Nat
          BY ONLY <4>9, <4>10, SMTT(20)
        <4> QED BY <2>2, <4>7, <4>8, <4>9, <4>10, <4>11, <4>12, <4>13
      <3>4. m \in 1..k \/ m = k + 1
        BY <2>1
      <3> QED BY <3>1, <3>2, <3>3, <3>4
    <2> QED BY <2>1, <2>5
  <1> HIDE DEF S
  <1>7. 0..n \subseteq S
    BY <1>2, <1>5, <1>6, UpTo
  <1>8. n \in S /\ a \in 1..n
    BY <1>2, <1>7
  <1> QED BY <1>1, <1>8 DEF S

\* A page of such a list is such a list.
LEMMA LaidPage ==
    ASSUME NEW list \in Seq(Answer), NEW done, LaidOut(list, done),
           NEW m \in Nat \ {0}, NEW n \in Int, n <= Len(list)
    PROVE  SubSeq(list, m, n) \in Seq(Answer) /\ LaidOut(SubSeq(list, m, n), done)
  <1>1. PICK pg : pg = SubSeq(list, m, n)
    OBVIOUS
  <1>2. Len(list) \in Nat /\ DOMAIN list = 1..Len(list)
    BY LenProperties
  <1>3. /\ pg \in Seq(Answer)
        /\ \A i \in DOMAIN pg : i \in Nat \ {0} /\ m + i - 1 \in DOMAIN list
                                /\ pg[i] = list[m + i - 1]
    <2>1. CASE m <= n
      <3>1. m \in 1..(Len(list) + 1) /\ n \in (m - 1)..Len(list)
        BY <1>2, <2>1
      <3>2. /\ pg \in Seq(Answer) /\ Len(pg) = n - m + 1
            /\ \A i \in 1..(n - m + 1) : pg[i] = list[m + i - 1]
        BY <1>1, <3>1, SubSeqProperties
      <3>3. DOMAIN pg = 1..(n - m + 1)
        BY <3>2, LenProperties
      <3>4. \A i \in 1..(n - m + 1) : i \in Nat \ {0} /\ m + i - 1 \in 1..Len(list)
        BY <1>2, <2>1
      <3> QED BY <1>2, <3>2, <3>3, <3>4
    <2>2. CASE ~(m <= n)
      <3>1. pg = << >>
        BY <1>1, <2>2, SubSeqEmpty
      <3> QED BY <3>1, EmptySeq
    <2> QED BY <2>1, <2>2
  <1>4. ASSUME NEW i \in DOMAIN pg, NEW j \in DOMAIN pg, Follows(pg, i, j)
        PROVE  pg[j].spots_index <= End(pg[i])
    <2>1. PICK x, y : x = m + i - 1 /\ y = m + j - 1
      OBVIOUS
    <2>2. /\ x \in DOMAIN list /\ y \in DOMAIN list /\ pg[i] = list[x] /\ pg[j] = list[y]
          /\ i \in Nat \ {0} /\ j \in Nat \ {0} /\ x \in Int /\ y \in Int
      BY <1>2, <1>3, <2>1
    <2>3. x < y
      BY <1>4, <2>1, <2>2 DEF Follows
    <2>4. ASSUME NEW z \in (x + 1)..(y - 1) PROVE list[z].nspots = 0
      <3>1. PICK u : u = z - m + 1
        OBVIOUS
      <3>2. u \in (i + 1)..(j - 1) /\ z = m + u - 1
        <4>1. \A a, b, c, d, e, f, g \in Int :
                 d = c + a - 1 /\ e = c + b - 1 /\ f \in (d + 1)..(e - 1) /\ g = f - c + 1
                 => g \in (a + 1)..(b - 1) /\ f = c + g - 1
          OBVIOUS
        <4>2. i \in Int /\ j \in Int /\ m \in Int /\ x \in Int /\ y \in Int /\ z \in Int /\ u \in Int
          BY <2>2, <3>1
        <4> QED BY <2>1, <3>1, <4>1, <4>2, Z3T(30)
      <3>3. u \in DOMAIN pg
        <4>1. DOMAIN pg = 1..Len(pg) /\ Len(pg) \in Nat
          BY <1>3, LenProperties
        <4>2. j \in 1..Len(pg)
          BY <4>1
        <4> QED BY ONLY <2>2, <3>2, <4>1, <4>2, SMTT(20)
      <3> QED BY <1>3, <1>4, <3>2, <3>3 DEF Follows
    <2>5. Follows(list, x, y)
      BY <1>4, <2>2, <2>3, <2>4 DEF Follows
    <2> QED BY <2>2, <2>5 DEF LaidOut
  <1>5. ASSUME NEW i \in DOMAIN pg, NEW j \in DOMAIN pg, i < j,
               pg[i].nspots > 0, pg[j].nspots > 0, pg[i].q \in done
        PROVE  pg[i].spots_index <= pg[j].spots_index
    <2>1. PICK x, y : x = m + i - 1 /\ y = m + j - 1
      OBVIOUS
    <2>2. /\ x \in DOMAIN list /\ y \in DOMAIN list /\ pg[i] = list[x] /\ pg[j] = list[y]
          /\ i \in Nat \ {0} /\ j \in Nat \ {0}
      BY <1>3, <2>1
    <2>3. x < y
      BY <1>5, <2>1, <2>2
    <2> QED BY <1>5, <2>2, <2>3 DEF LaidOut
  <1> QED BY <1>1, <1>3, <1>4, <1>5 DEF LaidOut

\* The total of a batch stays the same over answers without spots.
LEMMA CutFlat ==
    ASSUME NEW b, ValidBatch(b), NEW x \in 0..b.n, NEW y \in 0..b.n, x <= y,
           \A r \in (x + 1)..y : b.cut[r] - b.cut[r - 1] = 0
    PROVE  b.cut[y] = b.cut[x]
  <1>1. b.n \in Nat /\ \A a \in 0..b.n : b.cut[a] \in Nat
    BY DEF ValidBatch
  <1>2. PICK n \in Nat : n = y - x
    <2>1. y - x \in Nat
      BY <1>1
    <2> QED BY <2>1
  <1> DEFINE S == {k \in 0..n : b.cut[x + k] = b.cut[x]}
  <1>3. 0 \in S
    <2>1. x + 0 = x /\ 0 \in 0..n
      BY <1>1
    <2> QED BY <2>1
  <1>4. ASSUME NEW k \in 0..(n - 1), k \in S PROVE k + 1 \in S
    <2>1. PICK r : r = x + k + 1
      OBVIOUS
    <2>2. /\ r \in (x + 1)..y /\ r - 1 = x + k /\ x + (k + 1) = r /\ k + 1 \in 0..n
          /\ r \in 0..b.n /\ r - 1 \in 0..b.n
      BY <1>1, <1>2, <2>1
    <2>3. b.cut[r] = b.cut[r - 1]
      <3>1. b.cut[r] - b.cut[r - 1] = 0 /\ b.cut[r] \in Nat /\ b.cut[r - 1] \in Nat
        BY <1>1, <2>2
      <3> QED BY <3>1
    <2> QED BY <1>4, <2>2, <2>3
  <1> HIDE DEF S
  <1>5. 0..n \subseteq S
    BY <1>3, <1>4, UpTo
  <1>6. n \in S /\ x + n = y
    BY <1>1, <1>2, <1>5
  <1> QED BY <1>6 DEF S

\* The last answer with spots reaches as far as the spots file does.
Reaches(list, length) ==
    \A i \in DOMAIN list :
        /\ list[i].nspots > 0
        /\ \A x \in (i + 1)..Len(list) : list[x].nspots = 0
        => length <= End(list[i])

\* Where the records of a batch start and end.
LEMMA RecordSpan ==
    ASSUME NEW b, ValidBatch(b), NEW q, NEW index \in Nat, NEW a \in 1..b.n,
           NEW e, e = AnswerRecord(q, b, index, a)
    PROVE  /\ a \in 0..b.n /\ a - 1 \in 0..b.n
           /\ b.cut[a - 1] \in Nat /\ b.cut[a] \in Nat /\ b.cut[a - 1] <= b.cut[a]
           /\ b.cut[a] <= NSpots(b) /\ NSpots(b) \in Nat
           /\ e.q = q /\ e.spots_index = index + b.cut[a - 1]
           /\ e.nspots = b.cut[a] - b.cut[a - 1]
           /\ End(e) = index + b.cut[a]
  <1>1. a \in 0..b.n /\ a - 1 \in 0..b.n /\ b.n \in 0..b.n /\ b.n \in Nat
    BY DEF ValidBatch
  <1>2. /\ b.cut[a - 1] \in Nat /\ b.cut[a] \in Nat /\ b.cut[a - 1] <= b.cut[a]
        /\ b.cut[a] <= NSpots(b) /\ NSpots(b) \in Nat
    BY <1>1 DEF ValidBatch, NSpots
  <1>3. /\ e.q = q /\ e.spots_index = index + b.cut[a - 1]
        /\ e.nspots = b.cut[a] - b.cut[a - 1]
    BY DEF AnswerRecord
  <1>4. End(e) = index + b.cut[a]
    BY <1>2, <1>3 DEF End
  <1> QED BY <1>1, <1>2, <1>3, <1>4

\* The list is A: what was there before a query, then the first records of its
\* batch.
EndsWith(A, before, all, b, q, index) ==
    /\ before \in Nat /\ all \in 0..b.n /\ Len(A) = before + all
    /\ \A a \in 1..all : A[before + a] = AnswerRecord(q, b, index, a)

\* An answer of the list is one or the other.
LEMMA FromBatch ==
    ASSUME NEW A \in Seq(Answer), NEW before, NEW all, NEW b, ValidBatch(b), NEW q,
           NEW index, EndsWith(A, before, all, b, q, index), NEW i \in DOMAIN A
    PROVE  /\ i \in Nat
           /\ ~(i <= before) => \E c \in 1..all : /\ i = before + c /\ c \in 1..b.n
                                                  /\ A[i] = AnswerRecord(q, b, index, c)
  <1>1. /\ before \in Nat /\ all \in 0..b.n /\ Len(A) = before + all /\ b.n \in Nat
        /\ \A a \in 1..all : A[before + a] = AnswerRecord(q, b, index, a)
    BY DEF EndsWith, ValidBatch
  <1>2. i \in 1..(before + all)
    BY <1>1, LenProperties
  <1>3. ASSUME ~(i <= before)
        PROVE  \E c \in 1..all : /\ i = before + c /\ c \in 1..b.n
                                 /\ A[i] = AnswerRecord(q, b, index, c)
    <2>1. PICK c : c = i - before
      OBVIOUS
    <2>2. c \in 1..all /\ i = before + c /\ c \in 1..b.n
      BY <1>1, <1>2, <1>3, <2>1
    <2> QED BY <1>1, <2>2
  <1> QED BY <1>2, <1>3

\* Between two answers without others that have spots the total stands still.
LEMMA FlatBetween ==
    ASSUME NEW A \in Seq(Answer), NEW before, NEW all, NEW b, ValidBatch(b), NEW q,
           NEW index \in Nat, EndsWith(A, before, all, b, q, index),
           NEW x \in 0..all, NEW y \in 0..all, x <= y,
           \A z \in (before + x + 1)..(before + y) : A[z].nspots = 0
    PROVE  b.cut[y] = b.cut[x]
  <1>1. /\ before \in Nat /\ all \in 0..b.n /\ b.n \in Nat /\ all \in Nat
        /\ \A a \in 1..all : A[before + a] = AnswerRecord(q, b, index, a)
    BY DEF EndsWith, ValidBatch
  <1>2. ASSUME NEW r \in (x + 1)..y PROVE b.cut[r] - b.cut[r - 1] = 0
    <2>1. r \in 1..all /\ before + r \in (before + x + 1)..(before + y) /\ r \in 1..b.n
      BY <1>1
    <2>2. A[before + r].nspots = 0 /\ A[before + r] = AnswerRecord(q, b, index, r)
      BY <1>1, <2>1
    <2> QED BY <2>1, <2>2, RecordSpan
  <1>3. x \in 0..b.n /\ y \in 0..b.n
    BY <1>1
  <1> QED BY <1>2, <1>3, CutFlat

\* More answers of the batch, whose spots go to the end of the spots file.
LEMMA LaidBatch ==
    ASSUME NEW l \in Seq(Answer), NEW done, LaidOut(l, done),
           NEW length \in Nat, Reaches(l, length),
           \A i \in DOMAIN l :
              l[i].q \in done /\ l[i].nspots > 0 => End(l[i]) <= length,
           NEW A \in Seq(Answer), NEW before, NEW all, NEW b, ValidBatch(b),
           NEW q, q \notin done, NEW index \in Nat,
           EndsWith(A, before, all, b, q, index),
           before <= Len(l), Len(l) <= Len(A), \A i \in 1..Len(l) : A[i] = l[i],
           NSpots(b) > 0 => index = length
    PROVE  LaidOut(A, done) /\ Reaches(A, length)
  <1>1. /\ before \in Nat /\ all \in Nat /\ Len(A) = before + all /\ b.n \in Nat
        /\ Len(l) \in Nat /\ Len(A) \in Nat /\ DOMAIN l = 1..Len(l) /\ DOMAIN A = 1..Len(A)
    BY LenProperties DEF EndsWith, ValidBatch
  <1>2. \A i \in DOMAIN A :
           /\ i \in Nat
           /\ ~(i <= before) => \E c \in 1..all : /\ i = before + c /\ c \in 1..b.n
                                                  /\ A[i] = AnswerRecord(q, b, index, c)
    BY FromBatch
  <1>a. \A i \in DOMAIN A : /\ A[i].spots_index \in Nat /\ A[i].nspots \in Nat
                            /\ End(A[i]) = A[i].spots_index + A[i].nspots
    <2>1. \A i \in DOMAIN A : A[i] \in Answer
      BY <1>1, ElementOfSeq
    <2> QED BY <2>1 DEF Answer, End
  <1>b. b.cut[0] = 0
    BY DEF ValidBatch
  <1>3. ASSUME NEW i \in DOMAIN A, NEW j \in DOMAIN A, Follows(A, i, j)
        PROVE  A[j].spots_index <= End(A[i])
    <2>0. /\ i < j /\ A[i].nspots > 0 /\ A[j].nspots > 0 /\ i \in Nat /\ j \in Nat
          /\ \A x \in (i + 1)..(j - 1) : A[x].nspots = 0
      BY <1>2, <1>3 DEF Follows
    <2>1. CASE j <= Len(l)
      <3>1. i \in 1..Len(l) /\ j \in 1..Len(l) /\ A[i] = l[i] /\ A[j] = l[j]
        BY <1>1, <2>0, <2>1
      <3>2. \A x \in (i + 1)..(j - 1) : x \in 1..Len(l)
        BY <1>1, <2>0, <2>1
      <3>3. Follows(l, i, j)
        BY <2>0, <3>1, <3>2 DEF Follows
      <3> QED BY <1>1, <3>1, <3>3 DEF LaidOut
    <2>2. CASE ~(j <= Len(l))
      <3>1. PICK a \in 1..all : /\ j = before + a /\ a \in 1..b.n
                                /\ A[j] = AnswerRecord(q, b, index, a)
        BY <1>1, <1>2, <2>0, <2>2
      <3>2. /\ A[j].spots_index = index + b.cut[a - 1] /\ A[j].nspots = b.cut[a] - b.cut[a - 1]
            /\ b.cut[a] <= NSpots(b) /\ b.cut[a] \in Nat /\ b.cut[a - 1] \in Nat
            /\ NSpots(b) \in Nat
        BY <3>1, RecordSpan
      <3>3. NSpots(b) > 0 /\ index = length
        BY <2>0, <3>2, SMTT(30)
      <3>4. a - 1 \in 0..all /\ before + (a - 1) = j - 1
        BY <1>1, <3>1
      <3>5. CASE i <= before
        <4>1. \A x \in (before + 0 + 1)..(before + (a - 1)) : A[x].nspots = 0
          <5>1. \A x \in (before + 0 + 1)..(before + (a - 1)) : x \in (i + 1)..(j - 1)
            BY <1>1, <2>0, <3>4, <3>5
          <5> QED BY <2>0, <5>1
        <4>2. 0 \in 0..all /\ 0 <= a - 1
          BY <1>1, <3>1
        <4>3. b.cut[a - 1] = 0
          BY <1>b, <3>4, <4>1, <4>2, FlatBetween
        <4>4. i \in 1..Len(l) /\ A[i] = l[i]
          BY <1>1, <2>0, <3>5
        <4>5. \A x \in (i + 1)..Len(l) : x \in (i + 1)..(j - 1) /\ A[x] = l[x]
          BY <1>1, <2>0, <2>2
        <4>6. length <= End(l[i])
          BY <1>1, <2>0, <4>4, <4>5 DEF Reaches
        <4> QED BY <3>2, <3>3, <4>3, <4>4, <4>6
      <3>6. CASE ~(i <= before)
        <4>1. PICK c \in 1..all : /\ i = before + c /\ c \in 1..b.n
                                  /\ A[i] = AnswerRecord(q, b, index, c)
          BY <1>2, <3>6
        <4>2. End(A[i]) = index + b.cut[c]
          BY <4>1, RecordSpan
        <4>3. c \in 0..all /\ c <= a - 1
          BY <1>1, <2>0, <3>1, <4>1
        <4>4. \A x \in (before + c + 1)..(before + (a - 1)) : A[x].nspots = 0
          <5>1. \A x \in (before + c + 1)..(before + (a - 1)) : x \in (i + 1)..(j - 1)
            BY <1>1, <3>4, <4>1
          <5> QED BY <2>0, <5>1
        <4>5. b.cut[a - 1] = b.cut[c]
          BY <3>4, <4>3, <4>4, FlatBetween
        <4> QED BY <3>2, <4>2, <4>5
      <3> QED BY <3>5, <3>6
    <2> QED BY <2>1, <2>2
  <1>4. ASSUME NEW i \in DOMAIN A, NEW j \in DOMAIN A, i < j, A[i].nspots > 0,
               A[j].nspots > 0, A[i].q \in done
        PROVE  A[i].spots_index <= A[j].spots_index
    <2>1. i <= before
      <3>1. ASSUME ~(i <= before) PROVE FALSE
        <4>1. PICK c \in 1..all : c \in 1..b.n /\ A[i] = AnswerRecord(q, b, index, c)
          BY <1>2, <3>1
        <4>2. A[i].q = q
          BY <4>1, RecordSpan
        <4> QED BY <1>4, <4>2
      <3> QED BY <3>1
    <2>2. i \in 1..Len(l) /\ A[i] = l[i] /\ i \in Nat /\ j \in Nat
      BY <1>1, <1>2, <2>1
    <2>3. CASE j <= Len(l)
      <3>1. j \in 1..Len(l) /\ A[j] = l[j]
        BY <1>1, <2>3
      <3> QED BY <1>1, <1>4, <2>2, <3>1 DEF LaidOut
    <2>4. CASE ~(j <= Len(l))
      <3>1. PICK a \in 1..all : a \in 1..b.n /\ A[j] = AnswerRecord(q, b, index, a)
        BY <1>1, <1>2, <2>2, <2>4
      <3>2. /\ A[j].spots_index = index + b.cut[a - 1] /\ A[j].nspots = b.cut[a] - b.cut[a - 1]
            /\ b.cut[a] <= NSpots(b) /\ b.cut[a] \in Nat /\ b.cut[a - 1] \in Nat
            /\ NSpots(b) \in Nat
        BY <3>1, RecordSpan
      <3>3. NSpots(b) > 0 /\ index = length
        BY <1>4, <3>2
      <3>4. End(A[i]) <= length
        BY <1>1, <1>4, <2>2
      <3>5. A[i].spots_index <= End(A[i]) /\ A[i].spots_index \in Nat /\ End(A[i]) \in Nat
        BY <1>a, SMTT(30)
      <3> QED BY <3>2, <3>3, <3>4, <3>5
    <2> QED BY <2>3, <2>4
  <1>5. ASSUME NEW i \in DOMAIN A, A[i].nspots > 0,
               \A x \in (i + 1)..Len(A) : A[x].nspots = 0
        PROVE  length <= End(A[i])
    <2>1. CASE i <= before
      <3>1. i \in 1..Len(l) /\ A[i] = l[i] /\ i \in Nat
        BY <1>1, <1>2, <2>1
      <3>2. \A x \in (i + 1)..Len(l) : x \in (i + 1)..Len(A) /\ A[x] = l[x]
        BY <1>1, <3>1, SMTT(30)
      <3> QED BY <1>1, <1>5, <3>1, <3>2 DEF Reaches
    <2>2. CASE ~(i <= before)
      <3>1. PICK c \in 1..all : c \in 1..b.n /\ A[i] = AnswerRecord(q, b, index, c)
        BY <1>2, <2>2
      <3>2. /\ End(A[i]) = index + b.cut[c] /\ A[i].nspots = b.cut[c] - b.cut[c - 1]
            /\ b.cut[c] <= NSpots(b) /\ b.cut[c] \in Nat /\ b.cut[c - 1] \in Nat
            /\ NSpots(b) \in Nat
        BY <3>1, RecordSpan
      <3>3. NSpots(b) > 0 /\ index = length
        BY <1>5, <3>2
      <3> QED BY <3>2, <3>3
    <2> QED BY <2>1, <2>2
  <1> QED BY <1>3, <1>4, <1>5 DEF LaidOut, Reaches

\* Once all the answers of a batch are there, its last spot is the furthest.
LEMMA BatchReaches ==
    ASSUME NEW A \in Seq(Answer), NEW before, NEW b, ValidBatch(b), NEW q,
           NEW index \in Nat, EndsWith(A, before, b.n, b, q, index), NSpots(b) > 0,
           NEW length \in Nat, length <= index + NSpots(b)
    PROVE  Reaches(A, length)
  <1>1. /\ before \in Nat /\ b.n \in Nat /\ Len(A) = before + b.n
        /\ DOMAIN A = 1..Len(A) /\ b.cut[0] = 0
    BY LenProperties DEF EndsWith, ValidBatch
  <1> SUFFICES ASSUME NEW i \in DOMAIN A, A[i].nspots > 0,
                      \A x \in (i + 1)..Len(A) : A[x].nspots = 0
               PROVE  length <= End(A[i])
    BY DEF Reaches
  <1>2. /\ i \in Nat /\ i \in 1..Len(A)
        /\ ~(i <= before) => \E c \in 1..b.n : /\ i = before + c
                                               /\ A[i] = AnswerRecord(q, b, index, c)
    BY <1>1, FromBatch
  <1>3. ASSUME NEW x \in 0..b.n, i <= before + x PROVE b.cut[b.n] = b.cut[x]
    <2>1. \A z \in (before + x + 1)..(before + b.n) : z \in (i + 1)..Len(A)
      BY <1>1, <1>2, <1>3
    <2>2. \A z \in (before + x + 1)..(before + b.n) : A[z].nspots = 0
      BY <2>1
    <2>3. b.n \in 0..b.n /\ x <= b.n
      BY <1>1
    <2> QED BY <2>2, <2>3, FlatBetween
  <1>4. CASE i <= before
    <2>1. 0 \in 0..b.n /\ i <= before + 0
      BY <1>1, <1>4
    <2>2. b.cut[b.n] = 0
      BY <1>1, <1>3, <2>1
    <2> QED BY <2>2 DEF NSpots
  <1>5. CASE ~(i <= before)
    <2>1. PICK c \in 1..b.n : i = before + c /\ A[i] = AnswerRecord(q, b, index, c)
      BY <1>2, <1>5
    <2>2. End(A[i]) = index + b.cut[c]
      BY <2>1, RecordSpan
    <2>3. c \in 0..b.n /\ i <= before + c
      BY <1>1, <2>1
    <2>4. b.cut[b.n] = b.cut[c]
      BY <1>3, <2>3
    <2> QED BY <2>2, <2>4 DEF NSpots
  <1> QED BY <1>4, <1>5

\* When its query returns, the answers of a batch are in the order of their spots.
LEMMA BatchSettles ==
    ASSUME NEW A \in Seq(Answer), NEW done, LaidOut(A, done), NEW before, NEW b,
           ValidBatch(b), NEW q, NEW index \in Nat, EndsWith(A, before, b.n, b, q, index),
           \A i \in 1..before : A[i].q # q
    PROVE  LaidOut(A, done \cup {q})
  <1>1. before \in Nat /\ b.n \in Nat /\ DOMAIN A = 1..Len(A)
    BY LenProperties DEF EndsWith, ValidBatch
  <1>2. ASSUME NEW i \in DOMAIN A, NEW j \in DOMAIN A, i < j, A[i].q = q
        PROVE  A[i].spots_index <= A[j].spots_index
    <2>1. i \in Nat /\ j \in Nat /\ ~(i <= before) /\ ~(j <= before)
      <3>1. i \in Nat /\ j \in Nat
        BY FromBatch
      <3>2. i <= before => i \in 1..before
        BY <1>1
      <3> QED BY <1>1, <1>2, <3>1, <3>2
    <2>2. PICK c \in 1..b.n : i = before + c /\ A[i] = AnswerRecord(q, b, index, c)
      BY <2>1, FromBatch
    <2>3. PICK a \in 1..b.n : j = before + a /\ A[j] = AnswerRecord(q, b, index, a)
      BY <2>1, FromBatch
    <2>4. /\ A[i].spots_index = index + b.cut[c - 1] /\ A[j].spots_index = index + b.cut[a - 1]
          /\ c - 1 \in 0..b.n /\ a - 1 \in 0..b.n
          /\ b.cut[c - 1] \in Nat /\ b.cut[a - 1] \in Nat
      BY <2>2, <2>3, RecordSpan
    <2>5. c - 1 <= a - 1
      BY <1>1, <1>2, <2>2, <2>3
    <2>6. b.cut[c - 1] <= b.cut[a - 1]
      BY <2>4, <2>5 DEF ValidBatch
    <2> QED BY <2>4, <2>6
  <1> QED BY <1>2 DEF LaidOut

\* The running query is in the answers file as EndsWith says.
LEMMA RunningEnds ==
    ASSUME TypeOK, NEW w \in Workers, NEW done, done \in 0..batch[w].n,
           WrittenAtEnd(w, done)
    PROVE  \E before : /\ EndsWith(answers, before, done, batch[w], query[w], spot_index[w])
                       /\ before <= Len(answers)
                       /\ \A i \in 1..before : answers[i].q # query[w]
  <1>1. Len(answers) \in Nat /\ batch[w].n \in Nat
    BY LenProperties DEF TypeOK, ValidBatch
  <1>2. PICK before : before = Len(answers) - done
    OBVIOUS
  <1>3. before \in Nat /\ Len(answers) = before + done /\ before <= Len(answers)
    BY <1>1, <1>2 DEF WrittenAtEnd
  <1>4. /\ \A i \in 1..before : answers[i].q # query[w]
        /\ \A a \in 1..done :
              answers[before + a] = AnswerRecord(query[w], batch[w], spot_index[w], a)
    BY <1>2 DEF WrittenAtEnd
  <1> QED BY <1>3, <1>4 DEF EndsWith
-----------------------------------------------------------------------------
\* Every file of answers can be opened, and what a query has written of its
\* answers is all of them once it gets to its spots.
AllWritten ==
    \A w \in Workers :
        /\ pc[w] \in {"write_answers", "close_answers"} => fp_answers[w] = "linked"
        /\ pc[w] \in {"write_spots", "close_spots"} => WrittenAtEnd(w, batch[w].n)

\* How the answers file lies over the spots file.
Laid ==
    LaidOut(answers, settled) /\ Reaches(answers, Len(spots)) /\ AllWritten

\* What a call of phrasea_fetch_results has read.
Reading ==
    /\ \A w \in Workers : seen[w] \subseteq settled
    /\ \A w \in Workers : pc[w] = "read_spots" => LaidOut(page[w], seen[w])
    /\ PageOwnSpots

\* The spots of a query that has returned are all in the file.
LEMMA SettledWithin ==
    ASSUME TypeOK, OwnSpots, NEW i \in DOMAIN answers, answers[i].q \in settled,
           answers[i].nspots > 0
    PROVE  End(answers[i]) <= Len(spots)
  <1>1. PICK e \in Answer : e = answers[i]
    <2>1. answers \in Seq(Answer)
      BY DEF TypeOK
    <2>2. DOMAIN answers = 1..Len(answers)
      BY <2>1, LenProperties
    <2>3. answers[i] \in Answer
      BY <2>1, <2>2, ElementOfSeq
    <2> QED BY <2>3
  <1>2. e.nspots \in Nat /\ e.spots_index \in Nat
    BY ONLY e \in Answer DEF Answer
  <1>3. PointsToItsOwn(e)
    BY <1>1 DEF OwnSpots
  <1>4. e.nspots \in 1..e.nspots
    BY <1>1, <1>2
  <1>5. e.spots_index + e.nspots \in DOMAIN spots
    BY ONLY <1>3, <1>4 DEF PointsToItsOwn
  <1>6. DOMAIN spots = 1..Len(spots) /\ Len(spots) \in Nat
    BY LenProperties DEF TypeOK
  <1> QED BY <1>1, <1>2, <1>5, <1>6 DEF End

\* What a query adds to the answers file is its own.
LEMMA AnswersAdded ==
    ASSUME TypeOK, TypeOK', NEW w \in Workers, WriteAnswers(w) \/ CloseAnswers(w)
    PROVE  /\ answers \in Seq(Answer) /\ answers' \in Seq(Answer)
           /\ Len(answers) \in Nat /\ Len(answers') \in Nat
           /\ Len(answers) <= Len(answers')
           /\ \A i \in 1..Len(answers) : answers'[i] = answers[i]
           /\ \A i \in 1..Len(answers') : i > Len(answers) => answers'[i].q = query[w]
  <1>1. ValidBatch(batch[w]) /\ query[w] \in Queries /\ spot_index[w] \in Nat
    BY DEF TypeOK, QueryPcs, WriteAnswers, CloseAnswers
  <1>2. PICK b, n, f, m, head, tail :
          /\ b = batch[w] /\ n = b.n /\ f = Flushed(n, AnswersPerBlock) /\ m = n - f
          /\ head = AnswerRecords(query[w], b, spot_index[w], 0, f)
          /\ tail = AnswerRecords(query[w], b, spot_index[w], f, n)
    OBVIOUS
  <1>3. /\ head \in Seq(Answer) /\ tail \in Seq(Answer)
        /\ \A i \in 1..Len(head) : head[i].q = query[w]
        /\ \A i \in 1..Len(tail) : tail[i].q = query[w]
    <2>0. ValidBatch(b) /\ n = b.n /\ f = Flushed(n, AnswersPerBlock)
      BY <1>1, <1>2
    <2>q. PICK q \in Queries, index \in Nat : q = query[w] /\ index = spot_index[w]
      BY ONLY <1>1
    <2>p. /\ m = n - f
          /\ head = AnswerRecords(q, b, index, 0, f)
          /\ tail = AnswerRecords(q, b, index, f, n)
      BY ONLY <1>2, <2>q
    <2>1. /\ head \in Seq(Answer) /\ Len(head) = f
          /\ \A i \in 1..f : i \in 1..n /\ head[i] = AnswerRecord(q, b, index, i)
          /\ tail \in Seq(Answer) /\ Len(tail) = m
          /\ \A i \in 1..m : /\ f + i \in 1..n
                             /\ tail[i] = AnswerRecord(q, b, index, f + i)
      BY ONLY <2>0, <2>p, <2>q, AnswersWritten
    <2>2. \A a : AnswerRecord(q, b, index, a).q = q
      BY ONLY DEF AnswerRecord
    <2> QED BY ONLY <2>1, <2>2, <2>q
  <1>4. \/ answers' = AppendTo(answers, fp_answers[w], head)
        \/ answers' = AppendTo(answers, fp_answers[w], tail)
    BY <1>2 DEF WriteAnswers, CloseAnswers
  <1>5. PICK recs \in Seq(Answer) : /\ answers' = AppendTo(answers, fp_answers[w], recs)
                                    /\ \A i \in 1..Len(recs) : recs[i].q = query[w]
    BY <1>3, <1>4
  <1>6. answers \in Seq(Answer) /\ answers' \in Seq(Answer)
    BY DEF TypeOK
  <1>7. /\ Len(answers) \in Nat /\ Len(recs) \in Nat /\ Len(answers') \in Nat
        /\ \A i \in 1..Len(answers) : answers'[i] = answers[i]
        /\ fp_answers[w] # "linked" => answers' = answers
        /\ fp_answers[w] = "linked" =>
             /\ Len(answers') = Len(answers) + Len(recs)
             /\ \A i \in 1..Len(recs) : answers'[Len(answers) + i] = recs[i]
    <2>1. PICK fp : fp = fp_answers[w]
      OBVIOUS
    <2>2. answers' = AppendTo(answers, fp, recs)
      BY <1>5, <2>1
    <2>3. /\ Len(answers) \in Nat /\ Len(recs) \in Nat /\ Len(answers') \in Nat
          /\ DOMAIN answers = 1..Len(answers) /\ DOMAIN answers' = 1..Len(answers')
          /\ \A i \in 1..Len(answers) :
                i \in 1..Len(answers') /\ answers'[i] = answers[i]
          /\ fp # "linked" => answers' = answers
          /\ fp = "linked" =>
               /\ Len(answers') = Len(answers) + Len(recs)
               /\ \A i \in 1..Len(recs) : answers'[Len(answers) + i] = recs[i]
      BY ONLY <1>6, <2>2, recs \in Seq(Answer), AnswersGrow
    <2> QED BY ONLY <2>1, <2>3
  <1>8. Len(answers) <= Len(answers')
    BY <1>7
  <1>9. ASSUME NEW i \in 1..Len(answers'), i > Len(answers)
        PROVE  answers'[i].q = query[w]
    <2>1. fp_answers[w] = "linked"
      BY <1>7, <1>9
    <2>2. PICK j : j = i - Len(answers)
      OBVIOUS
    <2>3. j \in 1..Len(recs) /\ i = Len(answers) + j
      BY <1>7, <1>9, <2>1, <2>2
    <2> QED BY <1>5, <1>7, <2>1, <2>3
  <1> QED BY <1>6, <1>7, <1>8, <1>9

\* The answers of the running query reach the end of the file, but for those of
\* fclose.
LEMMA LaidWriteAnswers ==
    ASSUME TypeOK, TypeOK', Pointing, RunningTail, RunningTail', Laid, NEW w \in Workers,
           WriteAnswers(w) \/ CloseAnswers(w)
    PROVE  Laid'
  <1>1. /\ pc[w] \in {"write_answers", "close_answers"} /\ fp_answers[w] = "linked"
        /\ pc'[w] \in {"close_answers", "write_spots"}
        /\ spots' = spots /\ settled' = settled /\ query' = query /\ batch' = batch
        /\ spot_index' = spot_index
        /\ pc'[w] = "close_answers" => fp_answers' = fp_answers
        /\ \A v \in Workers \ {w} : pc'[v] = pc[v]
    BY DEF WriteAnswers, CloseAnswers, writing, history, Goto, TypeOK, Laid, AllWritten
  <1>2. \A v \in Workers \ {w} : pc'[v] \notin QueryPcs
    BY <1>1, Alone DEF WritePcs, QueryPcs, Pointing
  <1>3. ValidBatch(batch[w]) /\ query[w] \in Queries /\ spot_index[w] \in Nat
    BY <1>1 DEF TypeOK, QueryPcs
  <1>4. PICK b, n, f : b = batch[w] /\ n = b.n /\ f = Flushed(n, AnswersPerBlock)
    OBVIOUS
  <1>5. n \in Nat /\ f \in 0..n
    BY <1>3, <1>4, FlushedBounds, BoundsAssumption DEF ValidBatch
  <1>6. /\ answers \in Seq(Answer) /\ answers' \in Seq(Answer)
        /\ Len(answers) \in Nat /\ Len(answers') \in Nat
        /\ Len(answers) <= Len(answers')
        /\ \A i \in 1..Len(answers) : answers'[i] = answers[i]
        /\ \A i \in 1..Len(answers') : i > Len(answers) => answers'[i].q = query[w]
    BY AnswersAdded
  <1>7. PICK all : all \in 0..n /\ WrittenAtEnd(w, all)' /\ (pc'[w] = "write_spots" => all = n)
    <2>1. /\ WriteAnswers(w) => WrittenAtEnd(w, f)'
          /\ CloseAnswers(w) => WrittenAtEnd(w, n)'
      BY <1>1, <1>4, TailLinked
    <2>2. WriteAnswers(w) => pc'[w] # "write_spots"
      BY DEF WriteAnswers, Goto, TypeOK
    <2>3. n \in 0..n
      BY <1>5
    <2> QED BY <1>5, <2>1, <2>2, <2>3
  <1>8. PICK before : /\ EndsWith(answers', before, all, b, query[w], spot_index[w])
                      /\ before <= Len(answers)
    <2>2. PICK before : before = Len(answers') - all
      OBVIOUS
    <2>3. /\ before >= 0 /\ \A i \in 1..before : answers'[i].q # query[w]
          /\ \A a \in 1..all :
                answers'[before + a] = AnswerRecord(query[w], b, spot_index[w], a)
      <3>1. /\ Len(answers') - all >= 0
            /\ \A i \in 1..(Len(answers') - all) : answers'[i].q # query'[w]
            /\ \A a \in 1..all : answers'[(Len(answers') - all) + a]
                                = AnswerRecord(query'[w], batch'[w], spot_index'[w], a)
        BY <1>7 DEF WrittenAtEnd
      <3>2. query'[w] = query[w] /\ batch'[w] = b /\ spot_index'[w] = spot_index[w]
        BY <1>1, <1>4
      <3> QED BY <2>2, <3>1, <3>2
    <2>4. before \in Nat /\ Len(answers') = before + all
      BY <1>5, <1>6, <1>7, <2>2, <2>3
    <2>5. before <= Len(answers)
      <3>1. ASSUME ~(before <= Len(answers)) PROVE FALSE
        <4>1. before \in 1..before /\ before \in 1..Len(answers') /\ before > Len(answers)
          BY <1>5, <1>6, <1>7, <2>4, <3>1
        <4> QED BY <1>6, <2>3, <4>1
      <3> QED BY <3>1
    <2> QED BY <1>4, <1>5, <1>7, <2>3, <2>4, <2>5 DEF EndsWith
  <1>9. Len(spots) \in Nat /\ (NSpots(b) > 0 => spot_index[w] = Len(spots))
    <2>1. Len(spots) \in Nat
      BY LenProperties DEF TypeOK
    <2>2. NSpots(b) > 0 => Len(spots) = spot_index[w] + 0
      BY <1>1, <1>4 DEF Pointing, OffsetIsRight, QueryPcs
    <2> QED BY <1>3, <2>1, <2>2
  <1>10. query[w] \notin settled
    BY <1>1 DEF Pointing, Numbering, QueryPcs
  <1>11. \A i \in DOMAIN answers :
            answers[i].q \in settled /\ answers[i].nspots > 0 => End(answers[i]) <= Len(spots)
    BY SettledWithin DEF Pointing
  <1>12. LaidOut(answers', settled) /\ Reaches(answers', Len(spots))
    <2>1. LaidOut(answers, settled) /\ Reaches(answers, Len(spots))
      BY DEF Laid
    <2>2. PICK l, A : l = answers /\ A = answers'
      OBVIOUS
    <2> QED BY <1>3, <1>4, <1>6, <1>8, <1>9, <1>10, <1>11, <2>1, <2>2, LaidBatch
  <1>13. AllWritten'
    <2>1. pc'[w] = "close_answers" => fp_answers'[w] = "linked"
      BY <1>1
    <2>2. pc'[w] = "write_spots" => WrittenAtEnd(w, batch[w].n)'
      BY <1>1, <1>4, <1>7
    <2> QED BY <1>1, <1>2, <2>1, <2>2 DEF AllWritten, QueryPcs
  <1> QED BY <1>1, <1>12, <1>13 DEF Laid

\* fwrite of the spots brings the file no further than the end of the batch.
LEMMA LaidWriteSpots ==
    ASSUME TypeOK, TypeOK', Pointing, Pointing', Laid, NEW w \in Workers, WriteSpots(w)
    PROVE  Laid'
  <1>1. /\ pc[w] = "write_spots" /\ pc'[w] = "close_spots"
        /\ answers' = answers /\ settled' = settled /\ query' = query /\ batch' = batch
        /\ spot_index' = spot_index
        /\ \A v \in Workers \ {w} : pc'[v] = pc[v]
    BY DEF WriteSpots, writing, history, Goto, TypeOK
  <1>2. \A v \in Workers \ {w} : pc'[v] \notin QueryPcs
    BY <1>1, Alone DEF WritePcs, QueryPcs, Pointing
  <1>3. PICK b : b = batch[w]
    OBVIOUS
  <1>4. ValidBatch(b) /\ query[w] \in Queries /\ spot_index[w] \in Nat
    BY <1>1, <1>3 DEF TypeOK, QueryPcs
  <1>5. b.n \in Nat /\ NSpots(b) \in Nat
    BY <1>4 DEF ValidBatch, NSpots
  <1>6. WrittenAtEnd(w, b.n)
    BY <1>1, <1>3 DEF Laid, AllWritten
  <1>7. Reaches(answers, Len(spots'))
    <2>1. CASE NSpots(b) = 0
      <3>1. fp_spots[w] # "linked"
        BY <1>1, <1>3, <2>1 DEF Pointing, FilesOpen, QueryPcs
      <3>2. spots' = spots
        BY <3>1 DEF WriteSpots, AppendTo
      <3> QED BY <3>2 DEF Laid
    <2>2. CASE NSpots(b) > 0
      <3>1. PICK f : f = Flushed(NSpots(b), SpotsPerBlock)
        OBVIOUS
      <3>2. f \in 0..NSpots(b)
        BY <1>5, <3>1, FlushedBounds, BoundsAssumption
      <3>3. Len(spots') = spot_index[w] + f
        BY <1>1, <1>3, <2>2, <3>1 DEF Pointing, OffsetIsRight, QueryPcs
      <3>4. Len(spots') \in Nat /\ Len(spots') <= spot_index[w] + NSpots(b)
        BY <1>4, <1>5, <3>2, <3>3
      <3>5. b.n \in 0..batch[w].n /\ WrittenAtEnd(w, b.n)
        BY <1>3, <1>5, <1>6
      <3>6. PICK before : EndsWith(answers, before, b.n, b, query[w], spot_index[w])
        BY <1>3, <3>5, RunningEnds
      <3>7. PICK A \in Seq(Answer) : A = answers
        BY DEF TypeOK
      <3>8. PICK length : length = Len(spots')
        OBVIOUS
      <3> QED BY <1>4, <2>2, <3>4, <3>6, <3>7, <3>8, BatchReaches
    <2> QED BY <1>5, <2>1, <2>2
  <1>8. WrittenAtEnd(w, batch[w].n)'
    BY <1>1, <1>3, <1>6 DEF WrittenAtEnd
  <1>9. AllWritten'
    BY <1>1, <1>2, <1>8 DEF AllWritten, QueryPcs
  <1> QED BY <1>1, <1>7, <1>9 DEF Laid

\* fclose of the spots brings it to the end of the batch, whose answers are
\* all there.
LEMMA LaidCloseSpots ==
    ASSUME TypeOK, TypeOK', Pointing, Laid, NEW w \in Workers, CloseSpots(w)
    PROVE  Laid'
  <1>1. /\ pc[w] = "close_spots" /\ pc[w] \in WritePcs /\ pc'[w] = "ready"
        /\ answers' = answers /\ settled' = settled \cup {query[w]}
        /\ \A v \in Workers \ {w} : pc'[v] = pc[v]
    BY DEF CloseSpots, Goto, TypeOK, WritePcs, QueryPcs
  <1>2. \A v \in Workers : pc'[v] \notin QueryPcs
    BY <1>1, Alone DEF QueryPcs, Pointing
  <1>3. PICK b : b = batch[w]
    OBVIOUS
  <1>4. ValidBatch(b) /\ query[w] \in Queries /\ spot_index[w] \in Nat
    BY <1>1, <1>3 DEF TypeOK, QueryPcs
  <1>5. b.n \in Nat /\ NSpots(b) \in Nat
    BY <1>4 DEF ValidBatch, NSpots
  <1>6. b.n \in 0..batch[w].n /\ WrittenAtEnd(w, b.n)
    BY <1>1, <1>3, <1>5 DEF Laid, AllWritten
  <1>7. PICK before : /\ EndsWith(answers, before, b.n, b, query[w], spot_index[w])
                      /\ \A i \in 1..before : answers[i].q # query[w]
    BY <1>3, <1>6, RunningEnds
  <1>8. answers \in Seq(Answer) /\ spots \in Seq(Spot)
    BY DEF TypeOK
  <1>9. Reaches(answers, Len(spots'))
    <2>1. CASE NSpots(b) = 0
      <3>1. fp_spots[w] # "linked"
        BY <1>1, <1>3, <2>1 DEF Pointing, FilesOpen, QueryPcs
      <3>2. spots' = spots
        BY <3>1 DEF CloseSpots, AppendTo
      <3> QED BY <3>2 DEF Laid
    <2>2. CASE NSpots(b) > 0
      <3>1. PICK n, f, m, tail :
              /\ n = NSpots(b) /\ f = Flushed(n, SpotsPerBlock) /\ m = n - f
              /\ tail = SpotRecords(query[w], f, n)
        OBVIOUS
      <3>2. n \in Nat /\ f \in 0..n /\ tail \in Seq(Spot) /\ Len(tail) = m
        BY <1>4, <3>1, SpotsWritten
      <3>3. Len(spots) = spot_index[w] + f
        BY <1>1, <1>3, <2>2, <3>1 DEF Pointing, OffsetIsRight, QueryPcs
      <3>4. spots' = AppendTo(spots, fp_spots[w], tail)
        BY <1>3, <3>1 DEF CloseSpots
      <3>5. fp_spots[w] = "linked"
        BY <1>1, <1>3, <2>2 DEF Pointing, FilesOpen, QueryPcs
      <3>6. Len(spots') = Len(spots) + Len(tail)
        BY <1>8, <3>2, <3>4, <3>5, SpotsGrow
      <3>7. Len(spots') = spot_index[w] + n
        <4>1. \A s, g, l, x, y : /\ s \in Nat /\ g \in 0..l /\ l \in Nat
                                /\ x = s + g /\ y = x + (l - g) => y = s + l
          OBVIOUS
        <4> QED BY <1>4, <3>1, <3>2, <3>3, <3>6, <4>1
      <3>8. Len(spots') \in Nat /\ Len(spots') <= spot_index[w] + NSpots(b)
        BY <1>4, <3>1, <3>2, <3>7
      <3>9. PICK length : length = Len(spots')
        OBVIOUS
      <3> QED BY <1>4, <1>7, <1>8, <2>2, <3>8, <3>9, BatchReaches
    <2> QED BY <1>5, <2>1, <2>2
  <1>10. LaidOut(answers, settled \cup {query[w]})
    <2>1. LaidOut(answers, settled)
      BY DEF Laid
    <2> QED BY <1>4, <1>7, <1>8, <2>1, BatchSettles
  <1>11. AllWritten'
    BY <1>2 DEF AllWritten, QueryPcs
  <1> QED BY <1>1, <1>9, <1>10, <1>11 DEF Laid

\* The removes: the answers go first.
LEMMA LaidRemove ==
    ASSUME TypeOK, Pointing, NEW w \in Workers, RemoveAnswers(w) \/ RemoveSpots(w)
    PROVE  Laid'
  <1>1. /\ pc[w] \in WritePcs /\ pc'[w] \notin QueryPcs /\ answers' = << >>
        /\ \A v \in Workers \ {w} : pc'[v] = pc[v]
    BY DEF RemoveAnswers, RemoveSpots, WritePcs, RemovePcs, QueryPcs, Goto, TypeOK,
       AnswersGoFirst, Pointing
  <1>2. \A v \in Workers : pc'[v] \notin QueryPcs
    BY <1>1, Alone DEF Pointing
  <1>3. LaidOut(answers', settled') /\ Reaches(answers', Len(spots'))
    BY <1>1 DEF LaidOut, Reaches
  <1>4. AllWritten'
    BY <1>2 DEF AllWritten, QueryPcs
  <1> QED BY <1>3, <1>4 DEF Laid

\* The steps that leave the files and the queries that have returned alone.
LEMMA LaidQuiet ==
    ASSUME Laid, answers' = answers, spots' = spots, settled' = settled,
           \A v \in Workers :
              /\ pc'[v] \in {"write_answers", "close_answers"} => fp_answers'[v] = "linked"
              /\ pc'[v] \in {"write_spots", "close_spots"} =>
                    /\ pc[v] = pc'[v] /\ query'[v] = query[v] /\ batch'[v] = batch[v]
                    /\ spot_index'[v] = spot_index[v]
    PROVE  Laid'
  <1>1. AllWritten'
    <2>1. ASSUME NEW v \in Workers, pc'[v] \in {"write_spots", "close_spots"}
          PROVE  WrittenAtEnd(v, batch[v].n)'
      <3>1. /\ query'[v] = query[v] /\ batch'[v] = batch[v] /\ spot_index'[v] = spot_index[v]
            /\ WrittenAtEnd(v, batch[v].n)
        BY <2>1 DEF Laid, AllWritten
      <3> QED BY <3>1 DEF WrittenAtEnd
    <2> QED BY <2>1 DEF AllWritten
  <1> QED BY <1>1 DEF Laid

LEMMA LaidNext ==
    ASSUME Exclusive, "answers" \notin MayFail, TypeOK, TypeOK', Pointing, Pointing',
           RunningTail, RunningTail', Laid, [Next]_vars
    PROVE  Laid'
  <1>1. CASE UNCHANGED vars
    BY <1>1, LaidQuiet DEF vars, files, writing, history, Laid, AllWritten
  <1>2. ASSUME NEW w \in Workers,
               \/ Request(w) \/ FetchResults(w) \/ BeginClear(w) \/ BeginClose(w)
               \/ Restore(w) \/ Crash(w) \/ BeginQuery(w) \/ OpenSpots(w)
               \/ OpenAnswers(w)
        PROVE  Laid'
    <2>1. answers' = answers /\ spots' = spots /\ settled' = settled
      BY <1>2 DEF Request, CreateSession, OpenSession, EndRequest, FetchResults,
         BeginFetch, ReadAnswers, ReadSpots, Deliver, BeginClear, BeginClose, Restore,
         Crash, BeginQuery, OpenSpots, OpenAnswers, files, history
    <2>2. \A v \in Workers :
             pc[v] \in {"write_answers", "close_answers"} => fp_answers[v] = "linked"
      BY DEF Laid, AllWritten
    <2>3. ASSUME NEW v \in Workers
          PROVE  /\ pc'[v] \in {"write_answers", "close_answers"} =>
                       fp_answers'[v] = "linked"
                 /\ pc'[v] \in {"write_spots", "close_spots"} =>
                       /\ pc[v] = pc'[v] /\ query'[v] = query[v]
                       /\ batch'[v] = batch[v] /\ spot_index'[v] = spot_index[v]
      <3> USE <2>2 DEF TypeOK
      <3>1. CASE Request(w)
        BY <3>1 DEF Request, CreateSession, OpenSession, EndRequest, writing
      <3>2. CASE FetchResults(w)
        BY <3>2 DEF FetchResults, BeginFetch, ReadAnswers, ReadSpots, Deliver,
           writing, Goto
      <3>3. CASE BeginClear(w) \/ BeginClose(w) \/ Restore(w)
        BY <3>3 DEF BeginClear, BeginClose, Restore, writing, Goto
      <3>4. CASE Crash(w)
        BY <3>4 DEF Crash, DropQuery, Goto
      <3>5. CASE BeginQuery(w)
        BY <3>5 DEF BeginQuery, Goto
      <3>6. CASE OpenSpots(w)
        BY <3>6 DEF OpenSpots, Goto
      <3>7. CASE OpenAnswers(w)
        BY <3>7 DEF OpenAnswers, Goto
      <3> QED BY <1>2, <3>1, <3>2, <3>3, <3>4, <3>5, <3>6, <3>7
    <2> QED BY <2>1, <2>3, LaidQuiet
  <1>3. ASSUME NEW w \in Workers, Query2(w) \/ ClearOrClose(w) PROVE Laid'
    BY <1>2, <1>3, LaidWriteAnswers, LaidWriteSpots, LaidCloseSpots, LaidRemove
    DEF Query2, ClearOrClose
  <1> QED BY <1>1, <1>2, <1>3 DEF Next

\* A page as it is delivered.
OwnPage(w) ==
    \A a \in DOMAIN page[w] :
        page[w][1].nspots > 0 /\ page[w][1].q \in seen[w] /\ Dependable(w, a)
        => ShowsItsOwn(w, a)

\* The read of the spots gets those of every answer that can be counted on.
LEMMA ReadsItsOwn ==
    ASSUME NEW pg \in Seq(Answer), NEW done, LaidOut(pg, done),
           NEW file \in Seq(Spot), NEW a \in DOMAIN pg,
           pg[1].nspots > 0, pg[1].q \in done, NEW e, e = pg[a],
           NEW k \in 1..e.nspots, NEW x, x = e.spots_index + k, x \in DOMAIN file,
           NEW read, read = SpotsOfPage(pg, file)
    PROVE  e.spots_index >= pg[1].spots_index /\ x \in DOMAIN read /\ read[x] = file[x]
  <1>1. /\ Len(pg) \in Nat /\ DOMAIN pg = 1..Len(pg)
        /\ Total(pg) \in [0..Len(pg) -> Nat] /\ \A i \in 1..Len(pg) : pg[i] \in Answer
    BY TotalTurns
  <1>2. pg # << >> /\ 1 \in DOMAIN pg
    BY <1>1
  <1>3. PICK f, t : f = pg[1] /\ t = Total(pg)[Len(pg)]
    OBVIOUS
  <1>4. /\ e.spots_index \in Nat /\ e.nspots \in Nat /\ f.spots_index \in Nat /\ t \in Nat
    <2>1. e \in Answer /\ f \in Answer
      BY <1>1, <1>2, <1>3
    <2>2. t \in Nat
      BY <1>1, <1>3
    <2> QED BY <2>1, <2>2 DEF Answer
  <1>5. pg[a].nspots > 0 /\ k \in Nat /\ k > 0 /\ k <= e.nspots
    BY <1>4
  <1>6. f.spots_index <= e.spots_index
    <2>1. CASE a = 1
      BY <1>3, <1>4, <2>1
    <2>2. CASE a # 1
      <3>1. 1 < a
        BY <1>1, <2>2
      <3> QED BY <1>2, <1>3, <1>5, <3>1 DEF LaidOut
    <2> QED BY <2>1, <2>2
  <1>7. e.spots_index + e.nspots <= f.spots_index + t
    <2>1. End(e) <= f.spots_index + t
      BY <1>2, <1>3, <1>5, WithinTotal
    <2> QED BY <2>1 DEF End
  <1>8. f.spots_index < x /\ x <= f.spots_index + t
    BY <1>4, <1>5, <1>6, <1>7
  <1>9. x \in 1..Len(file)
    BY LenProperties
  <1>10. read = [i \in {j \in 1..Len(file) : f.spots_index < j /\ j <= f.spots_index + t}
                   |-> file[i]]
    BY <1>3 DEF SpotsOfPage
  <1>11. x \in {j \in 1..Len(file) : f.spots_index < j /\ j <= f.spots_index + t}
    BY <1>8, <1>9
  <1>12. x \in DOMAIN read /\ read[x] = file[x]
    BY <1>10, <1>11
  <1> QED BY <1>3, <1>4, <1>6, <1>12

LEMMA PageRead ==
    ASSUME TypeOK, OwnSpots, Reading, NEW w \in Workers, ReadSpots(w)
    PROVE  OwnPage(w)'
  <1>1. /\ answers' = answers /\ page' = page /\ seen' = seen
        /\ pspot'[w] = IF page[w] = << >> THEN << >> ELSE SpotsOfPage(page[w], spots)
        /\ pc[w] = "read_spots"
    BY DEF ReadSpots, files, TypeOK
  <1>2. PICK pg, done, read : pg = page[w] /\ done = seen[w] /\ read = pspot'[w]
    OBVIOUS
  <1>3. /\ pg \in Seq(Answer) /\ LaidOut(pg, done) /\ done \subseteq settled
        /\ spots \in Seq(Spot)
    BY <1>1, <1>2 DEF TypeOK, Reading
  <1> SUFFICES ASSUME NEW a \in DOMAIN page'[w], page'[w][1].nspots > 0,
                      page'[w][1].q \in seen'[w], Dependable(w, a)'
               PROVE  ShowsItsOwn(w, a)'
    BY DEF OwnPage
  <1>4. PICK e : e = pg[a]
    OBVIOUS
  <1>5. page'[w] = pg /\ seen'[w] = done /\ pspot'[w] = read
    BY ONLY <1>1, <1>2
  <1>6. a \in DOMAIN pg /\ pg[1].nspots > 0 /\ pg[1].q \in done
    BY ONLY <1>5, a \in DOMAIN page'[w], page'[w][1].nspots > 0, page'[w][1].q \in seen'[w]
  <1>7. e.q \in done /\ \E i \in DOMAIN answers : answers[i] = e
    <2>1. page'[w][a].q \in seen'[w] /\ \E i \in DOMAIN answers' : answers'[i] = page'[w][a]
      BY ONLY Dependable(w, a)' DEF Dependable
    <2> QED BY ONLY <1>1, <1>4, <1>5, <2>1
  <1>8. PointsToItsOwn(e)
    BY ONLY <1>3, <1>7, OwnSpots DEF OwnSpots
  <1>9. read = SpotsOfPage(pg, spots)
    <2>1. pg # << >>
      BY ONLY <1>6, EmptySeq
    <2> QED BY ONLY <1>1, <1>2, <2>1
  <1>10. ASSUME NEW k \in 1..e.nspots
         PROVE  Shown(w, a, k)' = [q |-> e.q, p |-> e.from + k]
    <2>1. PICK x : x = e.spots_index + k
      OBVIOUS
    <2>2. x \in DOMAIN spots /\ spots[x] = [q |-> e.q, p |-> e.from + k]
      BY ONLY <1>8, <1>10, <2>1 DEF PointsToItsOwn
    <2>3. e.spots_index >= pg[1].spots_index /\ x \in DOMAIN read /\ read[x] = spots[x]
      BY ONLY <1>3, <1>4, <1>6, <1>9, <1>10, <2>1, <2>2, ReadsItsOwn
    <2>4. Shown(w, a, k)' = IF e.spots_index >= pg[1].spots_index /\ x \in DOMAIN read
                            THEN read[x] ELSE Garbage
      BY ONLY <1>4, <1>5, <2>1 DEF Shown
    <2> QED BY ONLY <2>2, <2>3, <2>4
  <1> QED BY ONLY <1>4, <1>5, <1>10 DEF ShowsItsOwn

\* What keeps Reading: pages are read as they should be, or stay as they are
\* while no answer appears of a query that has returned.
LEMMA PagesStay ==
    ASSUME Reading, \A v \in Workers : seen'[v] \subseteq settled',
           \A v \in Workers :
              pc'[v] = "read_spots" => LaidOut(page'[v], seen'[v]),
           \A v \in Workers : pc'[v] = "deliver" =>
              \/ OwnPage(v)'
              \/ /\ pc[v] = "deliver" /\ page'[v] = page[v] /\ pspot'[v] = pspot[v]
                 /\ seen'[v] = seen[v],
           \A i \in DOMAIN answers' : answers'[i].q \in settled =>
              \E j \in DOMAIN answers : answers[j] = answers'[i]
    PROVE  Reading'
  <1>1. ASSUME NEW v \in Workers, pc[v] = "deliver", page'[v] = page[v],
               pspot'[v] = pspot[v], seen'[v] = seen[v]
        PROVE  OwnPage(v)'
    <2>1. OwnPage(v) /\ seen[v] \subseteq settled
      BY <1>1 DEF Reading, PageOwnSpots, OwnPage
    <2>2. ASSUME NEW a \in DOMAIN page[v], Dependable(v, a)' PROVE Dependable(v, a)
      <3>1. PICK e : e = page[v][a]
        OBVIOUS
      <3>2. e.q \in seen[v] /\ \E i \in DOMAIN answers' : answers'[i] = e
        BY <1>1, <2>2, <3>1 DEF Dependable
      <3>3. \E i \in DOMAIN answers : answers[i] = e
        BY <2>1, <3>2
      <3> QED BY <3>1, <3>2, <3>3 DEF Dependable
    <2>3. ASSUME NEW a \in DOMAIN page[v], ShowsItsOwn(v, a) PROVE ShowsItsOwn(v, a)'
      BY <1>1, <2>3 DEF ShowsItsOwn, Shown
    <2> QED BY <1>1, <2>1, <2>2, <2>3 DEF OwnPage
  <1>2. PageOwnSpots'
    <2>1. \A v \in Workers : pc'[v] = "deliver" => OwnPage(v)'
      BY <1>1
    <2> QED BY <2>1 DEF PageOwnSpots, OwnPage
  <1> QED BY <1>2 DEF Reading

LEMMA ReadingNext ==
    ASSUME TypeOK, TypeOK', Pointing, Laid, Reading, [Next]_vars
    PROVE  Reading'
  <1>1. /\ \A v \in Workers : seen[v] \subseteq settled
        /\ \A v \in Workers : pc[v] = "read_spots" => LaidOut(page[v], seen[v])
    BY DEF Reading
  \* The steps that read no page.
  <1>2. ASSUME settled \subseteq settled',
               \A v \in Workers : seen'[v] = seen[v] \/ seen'[v] = {},
               \A v \in Workers : pc'[v] \in {"read_spots", "deliver"} =>
                  /\ pc'[v] = pc[v] /\ page'[v] = page[v] /\ pspot'[v] = pspot[v]
                  /\ seen'[v] = seen[v],
               \A i \in DOMAIN answers' : answers'[i].q \in settled =>
                  \E j \in DOMAIN answers : answers[j] = answers'[i]
        PROVE  Reading'
    <2>1. \A v \in Workers : seen'[v] \subseteq settled'
      BY <1>1, <1>2
    <2>2. \A v \in Workers : pc'[v] = "read_spots" => LaidOut(page'[v], seen'[v])
      BY <1>1, <1>2
    <2>3. \A v \in Workers : pc'[v] = "deliver" =>
             /\ pc[v] = "deliver" /\ page'[v] = page[v] /\ pspot'[v] = pspot[v]
             /\ seen'[v] = seen[v]
      BY <1>2
    <2> QED BY <1>2, <2>1, <2>2, <2>3, PagesStay
  <1>3. CASE UNCHANGED vars
    BY <1>2, <1>3 DEF vars, files, reading, history
  <1>4. ASSUME NEW w \in Workers,
               \/ Request(w) \/ BeginFetch(w) \/ Deliver(w) \/ ClearOrClose(w)
               \/ BeginQuery(w) \/ OpenSpots(w) \/ OpenAnswers(w) \/ WriteSpots(w)
               \/ CloseSpots(w) \/ Crash(w)
        PROVE  Reading'
    <2>1. answers' = answers \/ answers' = << >>
      BY <1>4 DEF Request, CreateSession, OpenSession, EndRequest, BeginFetch, Deliver,
         ClearOrClose, BeginClear, BeginClose, RemoveAnswers, RemoveSpots, Restore,
         BeginQuery, OpenSpots, OpenAnswers, WriteSpots, CloseSpots, Crash, files
    <2>2. settled \subseteq settled'
      BY <1>4 DEF Request, CreateSession, OpenSession, EndRequest, BeginFetch, Deliver,
         ClearOrClose, BeginClear, BeginClose, RemoveAnswers, RemoveSpots, Restore,
         BeginQuery, OpenSpots, OpenAnswers, WriteSpots, CloseSpots, Crash, history
    <2>3. \A i \in DOMAIN answers' : \E j \in DOMAIN answers : answers[j] = answers'[i]
      BY <2>1
    <2>4. ASSUME NEW v \in Workers
          PROVE  /\ seen'[v] = seen[v] \/ seen'[v] = {}
                 /\ pc'[v] \in {"read_spots", "deliver"} =>
                       /\ pc'[v] = pc[v] /\ page'[v] = page[v]
                       /\ pspot'[v] = pspot[v] /\ seen'[v] = seen[v]
      <3> USE DEF TypeOK
      <3>1. CASE Request(w)
        BY <3>1 DEF Request, CreateSession, OpenSession, EndRequest, reading
      <3>2. CASE BeginFetch(w)
        BY <3>2 DEF BeginFetch, reading, Goto
      <3>3. CASE Deliver(w)
        BY <3>3 DEF Deliver, DropPage, Goto
      <3>4. CASE ClearOrClose(w)
        BY <3>4 DEF ClearOrClose, BeginClear, BeginClose, RemoveAnswers, RemoveSpots,
           Restore, reading, Goto
      <3>5. CASE BeginQuery(w) \/ OpenSpots(w) \/ OpenAnswers(w)
        BY <3>5 DEF BeginQuery, OpenSpots, OpenAnswers, reading, Goto
      <3>6. CASE WriteSpots(w) \/ CloseSpots(w)
        BY <3>6 DEF WriteSpots, CloseSpots, reading, Goto
      <3>7. CASE Crash(w)
        BY <3>7 DEF Crash, DropPage, Goto
      <3> QED BY <1>4, <3>1, <3>2, <3>3, <3>4, <3>5, <3>6, <3>7
    <2> QED BY <1>2, <2>2, <2>3, <2>4
  <1>5. ASSUME NEW w \in Workers, WriteAnswers(w) \/ CloseAnswers(w)
        PROVE  Reading'
    <2>1. /\ settled' = settled /\ seen' = seen /\ page' = page /\ pspot' = pspot
          /\ pc'[w] \notin {"read_spots", "deliver"} /\ pc[w] \in QueryPcs
          /\ \A v \in Workers \ {w} : pc'[v] = pc[v]
      BY <1>5 DEF WriteAnswers, CloseAnswers, reading, history, Goto, TypeOK, QueryPcs
    <2>2. query[w] \notin settled
      BY <2>1 DEF Pointing, Numbering
    <2>3. ASSUME NEW i \in DOMAIN answers', answers'[i].q \in settled
          PROVE  \E j \in DOMAIN answers : answers[j] = answers'[i]
      <3>1. /\ answers \in Seq(Answer) /\ answers' \in Seq(Answer)
            /\ Len(answers) \in Nat /\ Len(answers') \in Nat
            /\ \A x \in 1..Len(answers) : answers'[x] = answers[x]
            /\ \A x \in 1..Len(answers') : x > Len(answers) => answers'[x].q = query[w]
        BY <1>5, AnswersAdded
      <3>2. DOMAIN answers = 1..Len(answers) /\ DOMAIN answers' = 1..Len(answers')
        BY <3>1, LenProperties
      <3>3. i \in 1..Len(answers') /\ ~(i > Len(answers))
        BY <2>2, <2>3, <3>1, <3>2
      <3>4. i \in 1..Len(answers)
        BY <3>1, <3>3
      <3> QED BY <3>1, <3>2, <3>4
    <2> QED BY <1>2, <2>1, <2>3
  <1>6. ASSUME NEW w \in Workers, ReadAnswers(w) PROVE Reading'
    <2>1. /\ answers' = answers /\ settled' = settled /\ pspot' = pspot
          /\ pc'[w] = "read_spots" /\ seen'[w] = settled
          /\ \A v \in Workers \ {w} : /\ pc'[v] = pc[v] /\ page'[v] = page[v]
                                      /\ seen'[v] = seen[v]
      BY <1>6 DEF ReadAnswers, files, history, Goto, TypeOK
    <2>2. PICK m \in Nat \ {0}, n \in Int :
            n <= Len(answers) /\ page'[w] = SubSeq(answers, m, n)
      <3> DEFINE First(k) == IF k < 1 THEN 1 ELSE k
                 LastOf(k, l) == IF k + l - 1 < Len(answers) THEN k + l - 1 ELSE Len(answers)
      <3>1. PICK firstanswer \in PageStarts, nanswers \in PageSizes :
              page'[w] = SubSeq(answers, First(firstanswer), LastOf(First(firstanswer), nanswers))
        BY <1>6 DEF ReadAnswers, TypeOK
      <3>2. PICK m : m = First(firstanswer)
        OBVIOUS
      <3>3. PICK n : n = LastOf(m, nanswers)
        OBVIOUS
      <3> SUFFICES m \in Nat \ {0} /\ n \in Int /\ n <= Len(answers)
        BY <3>1, <3>2, <3>3, Zenon
      <3>4. firstanswer \in Nat /\ nanswers \in Nat /\ Len(answers) \in Nat
        BY BoundsAssumption, LenProperties DEF TypeOK
      <3>5. m \in Nat \ {0}
        BY <3>2, <3>4
      <3>6. n \in Int /\ n <= Len(answers)
        BY <3>3, <3>4, <3>5
      <3> QED BY <3>5, <3>6
    <2>3. LaidOut(page'[w], seen'[w])
      <3>1. answers \in Seq(Answer) /\ LaidOut(answers, settled)
        BY DEF TypeOK, Laid
      <3> QED BY <2>1, <2>2, <3>1, LaidPage
    <2>4. \A v \in Workers : pc'[v] = "read_spots" => LaidOut(page'[v], seen'[v])
      BY <1>1, <2>1, <2>3
    <2>5. \A v \in Workers : seen'[v] \subseteq settled'
      BY <1>1, <2>1
    <2>6. \A v \in Workers : pc'[v] = "deliver" =>
             /\ pc[v] = "deliver" /\ page'[v] = page[v] /\ pspot'[v] = pspot[v]
             /\ seen'[v] = seen[v]
      BY <2>1
    <2> QED BY <2>1, <2>4, <2>5, <2>6, PagesStay
  <1>7. ASSUME NEW w \in Workers, ReadSpots(w) PROVE Reading'
    <2>1. /\ answers' = answers /\ settled' = settled /\ page' = page /\ seen' = seen
          /\ pc'[w] = "deliver"
          /\ \A v \in Workers \ {w} : pc'[v] = pc[v] /\ pspot'[v] = pspot[v]
      BY <1>7 DEF ReadSpots, files, history, Goto, TypeOK
    <2>2. OwnPage(w)'
      BY <1>7, PageRead DEF Pointing
    <2>3. \A v \in Workers : pc'[v] = "read_spots" => LaidOut(page'[v], seen'[v])
      BY <1>1, <2>1
    <2>4. \A v \in Workers : seen'[v] \subseteq settled'
      BY <1>1, <2>1
    <2>5. \A v \in Workers : pc'[v] = "deliver" =>
             \/ OwnPage(v)'
             \/ /\ pc[v] = "deliver" /\ page'[v] = page[v] /\ pspot'[v] = pspot[v]
                /\ seen'[v] = seen[v]
      BY <2>1, <2>2
    <2> QED BY <2>1, <2>3, <2>4, <2>5, PagesStay
  <1> QED BY <1>3, <1>4, <1>5, <1>6, <1>7 DEF Next, Query2, FetchResults

\* While writing calls run one at a time and the two files can be opened, each
\* page highlights the spots of its answers, in every answer that could be
\* counted on, when its first answer has spots and is of a query that has
\* returned: whatever reads go on while a query or a clear runs, and however
\* workers die.
THEOREM PagesOwnTheirSpots ==
    ASSUME Exclusive, "answers" \notin MayFail
    PROVE  Spec => []PageOwnSpots
  <1>1. Init => Laid /\ Reading
    BY DEF Init, Laid, Reading, LaidOut, Reaches, AllWritten, PageOwnSpots
  <1>2. TypeOK /\ TypeOK' /\ CacheInv /\ CacheInv' /\ Laid /\ Reading /\ [Next]_vars
          => Laid' /\ Reading'
    BY LaidNext, ReadingNext DEF CacheInv
  <1>3. Reading => PageOwnSpots
    BY DEF Reading
  <1> QED BY <1>1, <1>2, <1>3, TypeCorrect, CacheInvariant, PTL DEF Spec
=============================================================================
