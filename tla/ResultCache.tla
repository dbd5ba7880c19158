---------------------------- MODULE ResultCache ----------------------------
(***************************************************************************)
(* The result cache of ONE search session.                                 *)
(*                                                                         *)
(* phrasea_query2() appends the answers of a query to the file             *)
(* _phrasea.<ukey>.answers.<session>.bin and the spots (the words to       *)
(* highlight) of those answers to _phrasea.<ukey>.spots.<session>.bin.  An *)
(* answer holds the index of its first spot (spots_index) and how many it  *)
(* has (nspots).  phrasea_fetch_results() reads a page of answers, then    *)
(* the spots of that page.  phrasea_clear_cache() and                      *)
(* phrasea_close_session() remove both files.                              *)
(*                                                                         *)
(* The callers are PHP workers, processes that share the two files and the *)
(* row of the session in the table `cache'.  No lock protects either.      *)
(*                                                                         *)
(* Abstractions: an answer's rid and bid are replaced by the query that    *)
(* found it, its rank and its place among the spots of that query, which   *)
(* is what tells a right highlight from a wrong one.  A file that does not *)
(* exist is an empty file.  fopen and the read that follows it are one     *)
(* step for a reader: both files only ever grow at their end, so the read  *)
(* of a page sees the file as it is at one moment.                         *)
(***************************************************************************)
EXTENDS Integers, Sequences, Selection

CONSTANTS
    Workers,          \* PHP worker processes serving requests of the session
    Batches,          \* what a query may find: see BatchesAssumption
    PageStarts,       \* values of the argument firstanswer
    PageSizes,        \* values of the argument nanswers
    MaxQueries,       \* bound: phrasea_query2 calls of a behaviour
    AnswersPerBlock,  \* CACHE_ANSWER records in one stdio block
    SpotsPerBlock,    \* CACHE_SPOT records in one stdio block
    Callers,          \* which calls the application lets overlap
    MayFail,          \* the files whose fopen(.., "ab") may fail
    MayCrash          \* may a worker die inside a call ?

\* A batch is the result of one query, as it is written: n answers and, for
\* each of them, the running total of spots at its end (cut).
ValidBatch(b) ==
    /\ DOMAIN b = {"n", "cut"}
    /\ b.n \in Nat
    /\ b.cut \in [0..b.n -> Nat]
    /\ b.cut[0] = 0
    /\ \A i, j \in 0..b.n : i <= j => b.cut[i] <= b.cut[j]

ASSUME BatchesAssumption == \A b \in Batches : ValidBatch(b)

ASSUME BoundsAssumption ==
    /\ MaxQueries \in Nat
    /\ AnswersPerBlock \in Nat \ {0}
    /\ SpotsPerBlock \in Nat \ {0}
    /\ PageStarts \subseteq Nat
    /\ PageSizes \subseteq Nat

ASSUME CallersAssumption ==
    /\ Callers \in {"serial", "one_writer", "free"}
    /\ MayFail \subseteq {"answers", "spots"}
    /\ MayCrash \in BOOLEAN

VARIABLES
    row,          \* the row of the session in the table `cache'
    answers,      \* content of the answers file
    spots,        \* content of the spots file
    loaded,       \* loaded[w]: global_session of w is this session
    pc,           \* pc[w]: next step of w, "ready" between two calls
    query,        \* query[w]: number of the query w runs (0: none yet)
    batch,        \* batch[w]: what that query found
    spot_index,   \* spot_index[w]: offset of the first spot of the batch
    fp_answers,   \* fp_answers[w], fp_spots[w]: file open for append, see Fp
    fp_spots,
    page,         \* page[w]: answers read by phrasea_fetch_results
    pspot,        \* pspot[w]: spots read with them, by place in the file
    queries,      \* number of queries so far
    settled,      \* history: queries whose phrasea_query2 has returned
    seen          \* history: seen[w]: settled when w read its page

files   == <<answers, spots>>
writing == <<query, batch, spot_index, fp_answers, fp_spots>>
reading == <<page, pspot, seen>>
history == <<queries, settled>>
vars    == <<row, files, loaded, pc, writing, reading, history>>

\* An open file: none, the file found under the name, or a file that has
\* been removed since and that nobody will read.
Fp == {"null", "linked", "removed"}

QueryPcs  == {"open_spots", "open_answers", "write_answers", "close_answers",
              "write_spots", "close_spots"}
FetchPcs  == {"read_answers", "read_spots", "deliver"}
RemovePcs == {"clear_answers", "clear_spots", "restore",
              "delete_answers", "delete_spots"}
WritePcs  == QueryPcs \cup RemovePcs
Pcs       == {"ready"} \cup FetchPcs \cup WritePcs

Queries == 1..MaxQueries

Answer == [q : Queries, rank : Nat, from : Nat, spots_index : Nat, nspots : Nat]
Spot   == [q : Queries, p : Nat]

-----------------------------------------------------------------------------
(* What a query writes.                                                    *)

NSpots(b) == b.cut[b.n]

\* Mutant of AnswerRecord: nspots subtracted the wrong way round.
AnswerRecordNegative(q, b, index, a) ==
    [q |-> q, rank |-> a, from |-> b.cut[a - 1],
     spots_index |-> index + b.cut[a - 1],
     nspots |-> b.cut[a - 1] - b.cut[a]]

\* Mutant of AnswerRecord: spot_index is not advanced from answer to answer.
AnswerRecordStandingStill(q, b, index, a) ==
    [q |-> q, rank |-> a, from |-> b.cut[a - 1],
     spots_index |-> index,
     nspots |-> b.cut[a] - b.cut[a - 1]]

\* The records of the batch: spots_index runs through the batch from the
\* offset ftell gave, one answer's spots after the other's.
AnswerRecord(q, b, index, a) ==
    [q |-> q, rank |-> a, from |-> b.cut[a - 1],
     spots_index |-> index + b.cut[a - 1],
     nspots |-> b.cut[a] - b.cut[a - 1]]

\* Those that follow the first `done' ones, up to `last'.
AnswerRecords(q, b, index, done, last) ==
    [i \in 1..(last - done) |-> AnswerRecord(q, b, index, done + i)]

SpotRecords(q, done, last) ==
    [i \in 1..(last - done) |-> [q |-> q, p |-> done + i]]

\* Of n records, those fwrite itself hands to the system: whole blocks.  The
\* rest stays in the buffer of the FILE until fclose.
Flushed(n, perBlock) == n - (n % perBlock)

\* Mutant of AppendTo: fopen(.., "wb") in place of "ab".
WriteOver(file, fp, records) == IF fp = "linked" THEN records ELSE file

AppendTo(file, fp, records) == IF fp = "linked" THEN file \o records ELSE file

\* Mutant of Ftell: without fseek(.., SEEK_END), ftell gives 0 after fopen.
FtellAtOpen(file) == 0

\* ftell at the end of the file, in records.
Ftell(file) == Len(file)

\* Mutant of Unlink: the file is truncated, its name and handles stay.
Truncate(fp) == fp

\* remove() of a file that others may have open.
Unlink(fp) == [w \in Workers |-> IF fp[w] = "linked" THEN "removed" ELSE fp[w]]

-----------------------------------------------------------------------------
NoBatch == [n |-> 0, cut |-> [i \in 0..0 |-> 0]]

Init ==
    /\ row = "none"
    /\ answers = << >>
    /\ spots = << >>
    /\ loaded = [w \in Workers |-> FALSE]
    /\ pc = [w \in Workers |-> "ready"]
    /\ query = [w \in Workers |-> 0]
    /\ batch = [w \in Workers |-> NoBatch]
    /\ spot_index = [w \in Workers |-> 0]
    /\ fp_answers = [w \in Workers |-> "null"]
    /\ fp_spots = [w \in Workers |-> "null"]
    /\ page = [w \in Workers |-> << >>]
    /\ pspot = [w \in Workers |-> << >>]
    /\ queries = 0
    /\ settled = {}
    /\ seen = [w \in Workers |-> {}]

\* phrasea_query2 returns, or dies: its variables are gone.
DropQuery(w) ==
    /\ query' = [query EXCEPT ![w] = 0]
    /\ batch' = [batch EXCEPT ![w] = NoBatch]
    /\ spot_index' = [spot_index EXCEPT ![w] = 0]
    /\ fp_answers' = [fp_answers EXCEPT ![w] = "null"]
    /\ fp_spots' = [fp_spots EXCEPT ![w] = "null"]

\* phrasea_fetch_results returns, or dies.
DropPage(w) ==
    /\ page' = [page EXCEPT ![w] = << >>]
    /\ pspot' = [pspot EXCEPT ![w] = << >>]
    /\ seen' = [seen EXCEPT ![w] = {}]

Goto(w, label) == pc' = [pc EXCEPT ![w] = label]

\* The calls the application may start while others run.  The code itself
\* excludes nothing: Callers = "free".
MayRead(w) ==
    Callers = "serial" => \A v \in Workers \ {w} : pc[v] = "ready"

MayWrite(w) ==
    /\ MayRead(w)
    /\ Callers = "one_writer" => \A v \in Workers \ {w} : pc[v] \notin WritePcs

-----------------------------------------------------------------------------
(* Sessions of the requests.                                               *)

\* phrasea_create_session inserts the row; the number is never used again.
CreateSession(w) ==
    /\ pc[w] = "ready"
    /\ row = "none"
    /\ row' = "live"
    /\ loaded' = [loaded EXCEPT ![w] = TRUE]
    /\ UNCHANGED <<files, pc, writing, reading, history>>

\* phrasea_open_session: UPDATE cache ... affects one row, or nothing is opened.
OpenSession(w) ==
    /\ pc[w] = "ready"
    /\ row = "live"
    /\ loaded' = [loaded EXCEPT ![w] = TRUE]
    /\ UNCHANGED <<row, files, pc, writing, reading, history>>

\* RSHUTDOWN: the end of the request deletes global_session.
EndRequest(w) ==
    /\ pc[w] = "ready"
    /\ loaded[w]
    /\ loaded' = [loaded EXCEPT ![w] = FALSE]
    /\ UNCHANGED <<row, files, pc, writing, reading, history>>

-----------------------------------------------------------------------------
(* phrasea_query2, from the moment it has its answers.                     *)

\* Only global_session is looked at, not the row.
BeginQuery(w) ==
    /\ pc[w] = "ready"
    /\ loaded[w]
    /\ MayWrite(w)
    /\ queries < MaxQueries
    /\ queries' = queries + 1
    /\ query' = [query EXCEPT ![w] = queries + 1]
    /\ \E b \in Batches : batch' = [batch EXCEPT ![w] = b]
    /\ Goto(w, "open_spots")
    /\ UNCHANGED <<row, files, loaded, spot_index, fp_answers, fp_spots, reading,
                   settled>>

\* The spots file is opened only when there are spots to write.
OpenSpots(w) ==
    /\ pc[w] = "open_spots"
    /\ \/ /\ NSpots(batch[w]) > 0
          /\ fp_spots' = [fp_spots EXCEPT ![w] = "linked"]
          /\ spot_index' = [spot_index EXCEPT ![w] = Ftell(spots)]
       \/ /\ NSpots(batch[w]) = 0 \/ "spots" \in MayFail
          /\ UNCHANGED <<fp_spots, spot_index>>
    /\ Goto(w, "open_answers")
    /\ UNCHANGED <<row, files, loaded, query, batch, fp_answers, reading, history>>

OpenAnswers(w) ==
    /\ pc[w] = "open_answers"
    /\ \/ fp_answers' = [fp_answers EXCEPT ![w] = "linked"]
       \/ "answers" \in MayFail /\ UNCHANGED fp_answers
    /\ Goto(w, "write_answers")
    /\ UNCHANGED <<row, files, loaded, query, batch, spot_index, fp_spots,
                   reading, history>>

\* fwrite of the answers: the whole blocks reach the file.
WriteAnswers(w) ==
    /\ pc[w] = "write_answers"
    /\ answers' = AppendTo(answers, fp_answers[w],
                          AnswerRecords(query[w], batch[w], spot_index[w], 0,
                                        Flushed(batch[w].n, AnswersPerBlock)))
    /\ Goto(w, "close_answers")
    /\ UNCHANGED <<row, spots, loaded, writing, reading, history>>

\* fclose of the answers: the rest follows.
CloseAnswers(w) ==
    /\ pc[w] = "close_answers"
    /\ answers' = AppendTo(answers, fp_answers[w],
                          AnswerRecords(query[w], batch[w], spot_index[w],
                                        Flushed(batch[w].n, AnswersPerBlock),
                                        batch[w].n))
    /\ fp_answers' = [fp_answers EXCEPT ![w] = "null"]
    /\ Goto(w, "write_spots")
    /\ UNCHANGED <<row, spots, loaded, query, batch, spot_index, fp_spots,
                   reading, history>>

WriteSpots(w) ==
    /\ pc[w] = "write_spots"
    /\ spots' = AppendTo(spots, fp_spots[w],
                        SpotRecords(query[w], 0,
                                    Flushed(NSpots(batch[w]), SpotsPerBlock)))
    /\ Goto(w, "close_spots")
    /\ UNCHANGED <<row, answers, loaded, writing, reading, history>>

\* fclose of the spots, and phrasea_query2 returns.
CloseSpots(w) ==
    /\ pc[w] = "close_spots"
    /\ spots' = AppendTo(spots, fp_spots[w],
                        SpotRecords(query[w],
                                    Flushed(NSpots(batch[w]), SpotsPerBlock),
                                    NSpots(batch[w])))
    /\ settled' = settled \cup {query[w]}
    /\ DropQuery(w)
    /\ Goto(w, "ready")
    /\ UNCHANGED <<row, answers, loaded, reading, queries>>

-----------------------------------------------------------------------------
(* phrasea_fetch_results                                                   *)

\* UPDATE cache ... WHERE session_id: one row, or nothing is fetched.
BeginFetch(w) ==
    /\ pc[w] = "ready"
    /\ row = "live"
    /\ MayRead(w)
    /\ Goto(w, "read_answers")
    /\ UNCHANGED <<row, files, loaded, writing, reading, history>>

ReadAnswers(w) ==
    /\ pc[w] = "read_answers"
    /\ \E firstanswer \in PageStarts, nanswers \in PageSizes :
          LET first == IF firstanswer < 1 THEN 1 ELSE firstanswer
          IN  page' = [page EXCEPT ![w] =
                          SubSeq(answers, first,
                                 IF first + nanswers - 1 < Len(answers)
                                 THEN first + nanswers - 1 ELSE Len(answers))]
    /\ seen' = [seen EXCEPT ![w] = settled]
    /\ Goto(w, "read_spots")
    /\ UNCHANGED <<row, files, loaded, writing, pspot, history>>

\* Mutant of SpotsOfPage: only the spots of the first answer are read.
SpotsOfFirst(pg, file) ==
    [i \in {j \in 1..Len(file) : /\ pg[1].spots_index < j
                                 /\ j <= pg[1].spots_index + pg[1].nspots}
        |-> file[i]]

\* The running total of the spots of a page.
Total(pg) ==
    LET total[a \in 0..Len(pg)] == IF a = 0 THEN 0 ELSE total[a - 1] + pg[a].nspots
    IN  total

\* As many spots as the answers of the page have, from the first spot of its
\* first answer on.  A file that is too short gives fewer.
SpotsOfPage(pg, file) ==
    LET spot_index0 == pg[1].spots_index
        nspots_toread == Total(pg)[Len(pg)]
    IN  [i \in {j \in 1..Len(file) : /\ spot_index0 < j
                                     /\ j <= spot_index0 + nspots_toread}
            |-> file[i]]

ReadSpots(w) ==
    /\ pc[w] = "read_spots"
    /\ pspot' = [pspot EXCEPT ![w] = IF page[w] = << >> THEN << >>
                                     ELSE SpotsOfPage(page[w], spots)]
    /\ Goto(w, "deliver")
    /\ UNCHANGED <<row, files, loaded, writing, page, seen, history>>

\* The loop over the answers of the page; what it shows is Shown, below.
Deliver(w) ==
    /\ pc[w] = "deliver"
    /\ DropPage(w)
    /\ Goto(w, "ready")
    /\ UNCHANGED <<row, files, loaded, writing, history>>

-----------------------------------------------------------------------------
(* phrasea_clear_cache and phrasea_close_session                           *)

\* The UPDATE of the row succeeds.
BeginClear(w) ==
    /\ pc[w] = "ready"
    /\ row = "live"
    /\ MayWrite(w)
    /\ Goto(w, "clear_answers")
    /\ UNCHANGED <<row, files, loaded, writing, reading, history>>

\* The DELETE of the row succeeds.  global_session stays.
BeginClose(w) ==
    /\ pc[w] = "ready"
    /\ row = "live"
    /\ MayWrite(w)
    /\ row' = "deleted"
    /\ Goto(w, "delete_answers")
    /\ UNCHANGED <<files, loaded, writing, reading, history>>

RemoveAnswers(w) ==
    /\ \/ pc[w] = "clear_answers" /\ Goto(w, "clear_spots")
       \/ pc[w] = "delete_answers" /\ Goto(w, "delete_spots")
    /\ answers' = << >>
    /\ fp_answers' = Unlink(fp_answers)
    /\ UNCHANGED <<row, spots, loaded, query, batch, spot_index, fp_spots,
                   reading, history>>

RemoveSpots(w) ==
    /\ \/ pc[w] = "clear_spots" /\ Goto(w, "restore")
       \/ pc[w] = "delete_spots" /\ Goto(w, "ready")
    /\ spots' = << >>
    /\ fp_spots' = Unlink(fp_spots)
    /\ UNCHANGED <<row, answers, loaded, query, batch, spot_index, fp_answers,
                   reading, history>>

\* clear_cache ends by restoring the session from its row, if still there.
Restore(w) ==
    /\ pc[w] = "restore"
    /\ loaded' = [loaded EXCEPT ![w] = loaded[w] \/ row = "live"]
    /\ Goto(w, "ready")
    /\ UNCHANGED <<row, files, writing, reading, history>>

-----------------------------------------------------------------------------
(* The worker dies inside a call: what the system has is kept, the buffers *)
(* of its FILEs and its memory are lost.                                   *)

Crash(w) ==
    /\ MayCrash
    /\ pc[w] # "ready"
    /\ Goto(w, "ready")
    /\ loaded' = [loaded EXCEPT ![w] = FALSE]
    /\ DropQuery(w)
    /\ DropPage(w)
    /\ UNCHANGED <<row, files, history>>

-----------------------------------------------------------------------------
Request(w) == CreateSession(w) \/ OpenSession(w) \/ EndRequest(w)

Query2(w) ==
    \/ BeginQuery(w) \/ OpenSpots(w) \/ OpenAnswers(w)
    \/ WriteAnswers(w) \/ CloseAnswers(w) \/ WriteSpots(w) \/ CloseSpots(w)

FetchResults(w) == BeginFetch(w) \/ ReadAnswers(w) \/ ReadSpots(w) \/ Deliver(w)

ClearOrClose(w) ==
    \/ BeginClear(w) \/ BeginClose(w)
    \/ RemoveAnswers(w) \/ RemoveSpots(w) \/ Restore(w)

Next == \E w \in Workers :
            Request(w) \/ Query2(w) \/ FetchResults(w) \/ ClearOrClose(w) \/ Crash(w)

Spec == Init /\ [][Next]_vars
-----------------------------------------------------------------------------
(* Properties                                                              *)

TypeOK ==
    /\ row \in {"none", "live", "deleted"}
    /\ answers \in Seq(Answer)
    /\ spots \in Seq(Spot)
    /\ loaded \in [Workers -> BOOLEAN]
    /\ pc \in [Workers -> Pcs]
    /\ query \in [Workers -> 0..MaxQueries]
    /\ \A w \in Workers : pc[w] \in QueryPcs => query[w] \in Queries
    /\ DOMAIN batch = Workers
    /\ \A w \in Workers : ValidBatch(batch[w])
    /\ spot_index \in [Workers -> Nat]
    /\ fp_answers \in [Workers -> Fp]
    /\ fp_spots \in [Workers -> Fp]
    /\ page \in [Workers -> Seq(Answer)]
    /\ DOMAIN pspot = Workers
    /\ queries \in 0..MaxQueries
    /\ settled \subseteq Queries
    /\ seen \in [Workers -> SUBSET Queries]

\* The spots that an answer points to are the ones its query found for it.
PointsToItsOwn(e) ==
    \A k \in 1..e.nspots :
        /\ e.spots_index + k \in DOMAIN spots
        /\ spots[e.spots_index + k] = [q |-> e.q, p |-> e.from + k]

\* OwnSpots: every answer of a query that has returned points, in the spots
\* file, to the spots its own query found for it.  This is what the ftell of
\* phrasea_query2 and the order of its writes and of the removes are for.
OwnSpots ==
    \A i \in DOMAIN answers :
        answers[i].q \in settled => PointsToItsOwn(answers[i])

\* No query found this.
Garbage == [q |-> 0, p |-> 0]

\* What phrasea_fetch_results highlights for the k-th spot of answer a:
\* pspot[s0 + k] with s0 = spots_index - spot_index0, an unsigned difference.
\* Outside what has been read it is whatever the memory holds.
Shown(w, a, k) ==
    LET e == page[w][a]
    IN  IF /\ e.spots_index >= page[w][1].spots_index
           /\ e.spots_index + k \in DOMAIN pspot[w]
        THEN pspot[w][e.spots_index + k]
        ELSE Garbage

ShowsItsOwn(w, a) ==
    LET e == page[w][a]
    IN  \A k \in 1..e.nspots : Shown(w, a, k) = [q |-> e.q, p |-> e.from + k]

\* An answer the reader could count on: its query had returned when the page
\* was read, and the list has not been cleared since.
Dependable(w, a) ==
    /\ page[w][a].q \in seen[w]
    /\ \E i \in DOMAIN answers : answers[i] = page[w][a]

\* EveryPageOwnSpots: every page of phrasea_fetch_results highlights, in each
\* answer that could be counted on, the spots of that answer.
EveryPageOwnSpots ==
    \A w \in Workers : pc[w] = "deliver" =>
        \A a \in DOMAIN page[w] : Dependable(w, a) => ShowsItsOwn(w, a)

\* PageOwnSpots: the same for the pages whose first answer, the one whose
\* spots_index tells phrasea_fetch_results where to read, has spots and is of a
\* query that had returned.  After one that died before it wrote its spots,
\* the offsets of the next query start below those of the dead one.
PageOwnSpots ==
    \A w \in Workers : pc[w] = "deliver" =>
        \A a \in DOMAIN page[w] :
            /\ page[w][1].nspots > 0 /\ page[w][1].q \in seen[w]
            /\ Dependable(w, a)
            => ShowsItsOwn(w, a)

\* NoHeadlessBatch: whatever the overlap of queries, clears and deaths, the
\* answers of a query are in the file in their order and without a gap: an
\* answer is never there without the one that precedes it in its query.
NoHeadlessBatch ==
    \A i \in DOMAIN answers : answers[i].rank > 1 =>
        \E j \in 1..(i - 1) : /\ answers[j].q = answers[i].q
                              /\ answers[j].rank = answers[i].rank - 1

-----------------------------------------------------------------------------
(* Why OwnSpots holds when writers do not overlap.                         *)

\* At most one worker is in a call that writes or removes.
OneWriter ==
    \A v, w \in Workers : pc[v] \in WritePcs /\ pc[w] \in WritePcs => v = w

\* No call is left with a file that was removed under it, and the spots file
\* is open from its fopen to its fclose exactly if there are spots to write.
FilesOpen ==
    \A w \in Workers :
        /\ fp_answers[w] # "removed" /\ fp_spots[w] # "removed"
        /\ pc[w] \in QueryPcs \ {"open_spots"} =>
             (fp_spots[w] = "linked" <=> NSpots(batch[w]) > 0)
        /\ pc[w] \notin QueryPcs \ {"open_spots"} =>
             fp_answers[w] = "null" /\ fp_spots[w] = "null"

\* spot_index is where the spots of the running query go: still the end of
\* the file, or the place of those already flushed.
OffsetIsRight ==
    \A w \in Workers : pc[w] \in QueryPcs \ {"open_spots"} /\ NSpots(batch[w]) > 0 =>
        LET done == IF pc[w] = "close_spots"
                    THEN Flushed(NSpots(batch[w]), SpotsPerBlock) ELSE 0
        IN  /\ Len(spots) = spot_index[w] + done
            /\ \A k \in 1..done :
                  spots[spot_index[w] + k] = [q |-> query[w], p |-> k]

\* The answers already written by the running query point into its batch.
RunningAnswers ==
    \A w \in Workers, i \in DOMAIN answers :
        pc[w] \in QueryPcs /\ answers[i].q = query[w] =>
            /\ pc[w] \in QueryPcs \ {"open_spots"}
            /\ answers[i].spots_index = spot_index[w] + answers[i].from
            /\ answers[i].from + answers[i].nspots <= NSpots(batch[w])

\* The number of a running query is its own: neither used up nor to come.
Numbering ==
    /\ \A i \in DOMAIN answers : answers[i].q <= queries
    /\ \A q \in settled : q <= queries
    /\ \A w \in Workers : pc[w] \in QueryPcs =>
            query[w] <= queries /\ query[w] \notin settled

\* The answers are removed before the spots they point to.
AnswersGoFirst ==
    \A w \in Workers : pc[w] \in {"clear_spots", "delete_spots"} => answers = << >>

\* How many of its answers the running query of w has in the file: none if it
\* could not be opened.
Written(w) ==
    IF pc[w] \in {"open_spots", "open_answers", "write_answers"} THEN {0}
    ELSE IF pc[w] = "close_answers"
         THEN {IF fp_answers[w] = "linked"
               THEN Flushed(batch[w].n, AnswersPerBlock) ELSE 0}
         ELSE {0, batch[w].n}

\* They are the first ones of its batch, at the end of the file, and no other
\* answer there has its number.
WrittenAtEnd(w, done) ==
    LET before == Len(answers) - done
    IN  /\ before >= 0
        /\ \A i \in 1..before : answers[i].q # query[w]
        /\ \A a \in 1..done :
              answers[before + a] = AnswerRecord(query[w], batch[w], spot_index[w], a)

RunningTail ==
    \A w \in Workers : pc[w] \in QueryPcs =>
        /\ batch[w] \in Batches
        /\ \E done \in Written(w) : WrittenAtEnd(w, done)

\* Why the answers of the file point to their spots.
Pointing ==
    /\ OneWriter /\ FilesOpen /\ OffsetIsRight /\ RunningAnswers
    /\ Numbering /\ AnswersGoFirst /\ OwnSpots

\* CacheInv: the inductive invariant of the cache with one writer at a time,
\* OwnSpots with what phrasea_query2, phrasea_clear_cache and
\* phrasea_close_session keep true between their steps.
CacheInv == Pointing /\ RunningTail

-----------------------------------------------------------------------------
(* Why NoHeadlessBatch holds whatever overlaps.                            *)

\* A query that still has answers to write to the file under the name has
\* all the preceding ones there.
TailHasHead ==
    \A w \in Workers :
        LET done == Flushed(batch[w].n, AnswersPerBlock)
        IN  pc[w] = "close_answers" /\ fp_answers[w] = "linked" /\ done > 0 =>
                \E i \in DOMAIN answers :
                    answers[i].q = query[w] /\ answers[i].rank = done

\* HeadInv: the inductive invariant for NoHeadlessBatch.
HeadInv == TailHasHead /\ NoHeadlessBatch
-----------------------------------------------------------------------------
(* The abstract list under the cache: the answers of the queries that have *)
(* returned, each with the spots it points to.                             *)

SpotsOf(e) == [k \in 1..e.nspots |->
                 IF e.spots_index + k \in DOMAIN spots
                 THEN spots[e.spots_index + k] ELSE Garbage]

Settled == {e \in Answer : e.q \in settled}

SettledAnswers == Only(answers, Settled)

\* The entries of answers.
Entries(list) ==
    [i \in DOMAIN list |->
        [q |-> list[i].q, rank |-> list[i].rank, spots |-> SpotsOf(list[i])]]

AbstractList == Entries(SettledAnswers)

RL == INSTANCE ResultList WITH list <- AbstractList, next <- queries + 1

\* ImplementsResultList: with one writer at a time, the two files written
\* in six steps and removed in two, by workers that may die between any two
\* of them, implement the list.
ImplementsResultList == RL!Spec
=============================================================================
