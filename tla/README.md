# A TLA+ development of the Phraseanet search extension

`phrasea2.so` is a PHP extension: the search engine and the session cache of
Phraseanet. This directory holds a specification of it in TLA+, the TLC
configurations that check it on small instances, and theorems proved with
TLAPS. Paths below are relative to `src/`.

## 1. Inventory

Every PHP worker is a process of its own with its own copy of the globals of the
extension (`epublisher`, the connection to the application box, and
`global_session`). Workers meet in three places: the table `cache` of the
application box, the databoxes they search, and, for each session, two files
`_phrasea.<ukey>.answers.<session>.bin` and `_phrasea.<ukey>.spots.<session>.bin`
in a temporary directory. There is no lock on any of them. The threads of the
query evaluation are compiled out (`MYSQL_THREAD_SAFE` is `false` in
`phrasea_engine/thread.h`, and `CMutex` is never locked).

| component | code | state | operations | what is hard | what makes it correct |
|---|---|---|---|---|---|
| Result cache of a session | `phrasea_engine/query.cpp` 473-683, `fetchresults.cpp`, file parts of `session.cpp` | the two files, the row of the session, the `FILE*`s and `spot_index` of a running query, the page of a running fetch | `phrasea_query2` (append), `phrasea_fetch_results` (page), `phrasea_clear_cache`, `phrasea_close_session` (remove) | two files written one after the other with an offset taken before; stdio buffers; deaths, failing `fopen`, removes under open files; pages read in two steps | an answer points to its own spots; a page highlights its own words; the files are a list of whole results |
| Sessions | `phrasea_engine/session.cpp`, `cache.cpp` 458-532, `php_phrasea2/phrasea2.cpp` | table `cache`, `epublisher`, `global_session` | `phrasea_conn`, create, open, clear, close, end of request | a listing made row by row with connections that may fail; a row that disappears between two statements; results not looked at | a session lists what is published, each collection under its databox; a returned number can be opened |
| Binary form of a session | `cache.cpp` | the blob of a row | `serialize_bin`, `unserialize_bin`, lookups | sizes and paddings computed twice | unserialize after serialize gives the session |
| Query tree | `qtree.cpp`, `query.cpp` 143-526, 573-638, `sql.cpp` 370-547, `phrasea_types.*` | the tree, the sorted sets of answers of its nodes, shared pointers | `qtree2tree`, one evaluation per node kind, sort, `freetree` | answers moved, shared and freed by pointer between sets; sort keys cancelled by a branch; hit lists combined by hand | a node's set is the set its operator means; nothing freed is used |
| SQL access | `sql.cpp` | a connection | connect, query, fetch | the leaf query groups rows into answers | one answer per record, all its hits |
| Highlighting | `fetchresults.cpp` 155-270 | the marks of an answer | sort of the marks, insertion in the XML | nested and equal offsets | the marks nest |
| UTF-8 folding | `unicode.cpp` | none | `phrasea_utf8_convert_to` | truncated sequences | none missed, none read past the end |
| PHP glue, clock, traces | `php_phrasea2/`, `phrasea_clock_t.*`, `trace_memory.*` | none | registration, `phrasea_info` | nothing | nothing |
| Threads | `mutex.*`, `CNODE` threads | none | disabled | nothing | nothing |
| Disabled and vendored code | `qtree3.cpp`, `query3.cpp`, `libstemmer_c` | | commented out; third party | | |

How they interact: `phrasea_query2` builds and evaluates a tree (leaves are SQL
on a databox), sorts the root's answers and appends them, with their spots, to
the files of the session; `phrasea_fetch_results` reads a page of them, finds
the databox of each answer through `global_session`, and marks the words in the
record's XML. `phrasea_create_session` makes the session that `phrasea_open_session`
restores in later requests.

## 2. Modules

| module | models | used by |
|---|---|---|
| `ResultCache` | the files and the row of one session, by any number of workers | `MCResultCache`, `ResultCacheProofs` |
| `ResultList` | abstract: what that cache promises, a list that grows by whole results and can be emptied | `ResultCache`, which ends with the refinement mapping |
| `MCResultCache` | instances for TLC | runs `cache_one_writer`, `cache_overlap`, `cache_spotless` |
| `MCResultCacheBoth` | two instances, one after the other: what starts is one of them | run `cache_both` |
| `ResultCacheProofs` | theorems about `ResultCache` | |
| `Sessions` | the table `cache`, `phrasea_conn` and the four session calls | `MCSessions`, `SessionsProofs` |
| `SessionsProofs` | theorems about `Sessions` | |
| `Selection` | the elements of a sequence that are in a set (`SelectSeq`, as a recursive function) | `ResultCache`, `Sessions`, `Highlight` |
| `RecursionLemmas` | induction on the naturals and on sequences, what a recursive function (course of values included) and a fold compute, the lemmas about `Selection` | `ResultCacheProofs`, `SessionsProofs`, `AnswerMergeProofs`, `HighlightProofs`, `AlgorithmsProofs` |
| `MCSessions` | instances for TLC | runs `sessions_*` |
| `AnswerAlgebra` | what AND, OR, EXCEPT, NEAR, BEFORE, AFTER make of the answers of two branches | `AnswerMerge` (as the specification), `QueryTree` (as the operator) |
| `AnswerMerge` | one operator: the merge of two ordered sets of answers, with the memory it moves and frees | `Algorithms`, `AnswerMergeProofs` |
| `AnswerMergeProofs` | theorems about `AnswerMerge` | |
| `QueryTree` | one `phrasea_query2`, from the tree to the list it writes | `MCQueryTree`, `QueryTreeProofs` |
| `MCQueryTree` | instance for TLC | runs `query_*` |
| `QueryTreeProofs` | theorems about the evaluation in `QueryTree` and the list it writes | |
| `QueryNodes` | the nodes `qtree2tree` makes of a PHP array and those `freetree` frees | `Algorithms` |
| `Databox` | the search of a databox for one leaf: the rights of the user, the SQL, the loop over the rows | `MCDatabox`, `DataboxProofs` |
| `MCDatabox` | instance for TLC | runs `databox*` |
| `DataboxProofs` | theorems about `Databox` | |
| `Highlight` | the marks of one record of a page | `Algorithms`, `HighlightProofs` |
| `HighlightProofs` | theorem about `Highlight` | |
| `Utf8Convert` | `phrasea_utf8_convert_to` | `Algorithms` |
| `SessionBlob` | `serialize_bin` and `unserialize_bin` of a session | `Algorithms` |
| `Algorithms` | the five that run alone in the memory of one call, one after the other: what starts is one of them | `MCAlgorithms`, `AlgorithmsProofs` |
| `MCAlgorithms` | instance for TLC | run `algorithms` |
| `AlgorithmsProofs` | theorems about `Algorithms`: the marks, the UTF-8 folding, the nodes of a query and the binary form of a session | |

The levels of a query fit together so: `Databox` says what a leaf may find, one
leaf at a time; `QueryTree` evaluates a tree of such leaves with `AnswerAlgebra`
and orders its result; `AnswerMerge` shows that the loops over pointers compute
what `AnswerAlgebra` says (`ImplementsAlgebra`); `ResultCache` takes the result as
one of its `Batches` and writes it; `Highlight` marks in a page the words whose
spots `ResultCache` has read back. `SessionBlob` is the form in which `Sessions`
saves and restores a session.

### `ResultCache`

One action per step of a call that other processes can tell apart.

* `phrasea_query2`: `BeginQuery` (the checks and the whole evaluation, which
  touches no shared state; what was found is any element of `Batches`),
  `OpenSpots` (`fopen`, `fseek`, `ftell`: the offset `spot_index`),
  `OpenAnswers`, `WriteAnswers` and `CloseAnswers`, `WriteSpots` and
  `CloseSpots`. A write comes in two steps because stdio hands whole blocks to
  the system during `fwrite` and the rest in `fclose`.
* `phrasea_fetch_results`: `BeginFetch` (the `UPDATE` of the row),
  `ReadAnswers`, `ReadSpots`, `Deliver`.
* `phrasea_clear_cache`, `phrasea_close_session`: `BeginClear` / `BeginClose`
  (the statement on the row), `RemoveAnswers`, `RemoveSpots`, `Restore`.
* `CreateSession`, `OpenSession`, `EndRequest`: what a request does with the
  session before and after.
* `Crash`: the worker dies in a call; what stdio still held is lost.

A file removed while open lives on for the worker that has it open, and no one
will read it: its handle is `"removed"` and writes to it go nowhere.

`Callers` states which calls the application lets overlap. The extension excludes
nothing, so `"free"` is what the code does by itself; `"one_writer"` and
`"serial"` are the assumptions under which the stronger properties hold.
`MayFail` names the files whose `fopen` may fail, `MayCrash` lets workers die.

Two early exits leave everything as it was and are not actions: `noCache = true`
(no file is touched) and a fetch whose databox does not answer.

### `Sessions`

Each SQL statement is a step; `phrasea_create_session` is `InsertSession`, one
`ListRow` per row of the list of published collections (with the connection and
the second attempt at the connection of that turn of the loop), `KeepSession`
(`global_session` assigned, `save()`), or `ListFails`. `OpenSession` and
`ClearCache` are followed by `Restore`. `ClearCache` without a connection ends in
the state `"segfault"`, which is what the code does with the null pointer. `Die` is
a worker that dies inside a call.

`up[s]` is a history variable: which databoxes answered when session `s` was
created. With `Flaky = FALSE` a databox keeps its answer during one creation,
which may still differ from one creation to the next.

### `AnswerAlgebra` and `AnswerMerge`

`AnswerMerge` is one call of `doOperatorAND`, `OR`, `PROX` or `EXCEPT`. The code's
`ll` and `lr` are copies of the children's sets; each turn of its loop is one
step: `TakeLeft` and `TakeRight` when the first answers are of different records,
`MatchAnd`, `MatchOr`, `MatchProx` or `MatchExcept` when they are of the same one.
`DrainLeft` and `DrainRight` are what follows the loop. The operators share a
shape and differ in what they keep (`KeepsLeft`, `KeepsRight`).

Memory is explicit. An answer, its `CSHA` and each of its hits are objects, named
after the answer they were made with; `heap[p]` is what the fields of answer `p`
point to, `Objects` what the destructor of `p` deletes at that moment, and `freed` all
that was deleted. `sha2` moves from the right answer to the left one in a match
(`ShaLeft`, `ShaRight`), hits are moved by OR, thrown away by AND, and replaced
by PROX. A list of hits is a set, since nothing reads its order; a list of spots is a
sequence, since `addSpot` searches it. `new` does not fail.

### `QueryTree`

The tree is given in postfix order, which is the order of the code: `querytree2`
calls itself for the left branch, then for the right one, then applies the
operator (threads are compiled out). `Leaf` and `Operator` consume it with a stack of
answers; a node that lacks a branch evaluates nothing and is a leaf `"none"`.

A leaf stands for its SQL: `"found"` (a word, a comparison, a date, `IN`: some
records with hits and spots), `"all"` and `"last"` with their limits, `"tuples"`
(`sha256=sha256`, which may return records the user cannot see: its outer join is on
`record` without mask). With a sort field each SQL but the last joins `prop`
(`Searched`); where the limit falls before or after that join is the difference
between `"all"` and `"last"`. `joined` is `*psortField`, which `"tuples"` sets to `NULL`
for the leaves after it; `sort` is the argument itself, which nobody changes. A
property has one value per record here; `Databox` has several. A leaf whose SQL
fails has no answers, as `"none"`.

`plain` is a history variable: the same tree evaluated without sort, which
`SortOnlyHides` compares with.

`Count` counts, chooses the comparator and, with `noCache`, stops. `Sort` inserts one
answer in the multiset; a comparison through a key or a sha2 that is `NULL` is the
state `"segfault"`. The first insertion compares with nothing. An answer without
numeric key has an uninitialised `sortkey.l`: `KeyValues` chooses any of `Garbage`.
Insertion puts an answer after those it is not before (`std::multiset` keeps the
order of insertion of equal elements), which stays defined when garbage makes the
order meaningless. `Write` is one turn of the loop that writes the answers, with
`current_bid` remembered from the one before.

### `QueryNodes`

The recursion of `qtree2tree` is a list of calls still to make (`todo`): `Qtree2tree` is
one call, which makes its node and asks for its branches, `AddLeaves` is the sum of
`nleaf` once both are there. A type the switch does not know makes the call
return `NULL`, and the sum is then the state `"segfault"`. At the top of the
array the tree is `NULL`: `querytree2` and `freetree` return at once, but `phrasea_query2`
counts its answers in between (`query.cpp:487`), unless `noCache` is set; `Evaluated` is these three. `Freetree` and `DeleteNode` are `freetree`, whose own
switch (`Freed`) does not name `COLON`. `Arrays` is any set of values that holds what its arrays
hold (`ArraysOK`).

### `Databox`

The steps of `phrasea_query2` before the tree, in their order: `TakeCollection`
(one turn of the loop over the caller's collections, which makes `t_cid2bid` and
`t_bid2cid`), `Connect`, `CreateTmpMask`, `ReadMask` (`use_mask`). Then one leaf:
`Execute` (the statement), `Fetch` (a row, in any order: MySQL promises none) and
`EndOfRows`.

* A statement is what it returns: `Reached` is the part every `SELECT` shares (record,
  `_tmpmask`, mode, mask), `Sorted` the join with `prop` that a sort field adds, and
  one operator for each kind of leaf (`AllRows`, `LastRows`, `WordRows`,
  `FieldRows`, `ColumnRows`, `SubdefRows`, `StatusRows`, `TupleRows`,
  `ThesaurusRows`) the rest. `Results` is a set of possible results, because of
  `LIMIT`; it is empty when MySQL refuses the statement.
* `CREATE TEMPORARY TABLE _tmpmask` may fail without anyone looking (`created`); the
  leaf then fails too, since it joins the table.
* `pc = "failed"` is a query without answers, `"aborted"` the exception
  `std::out_of_range` of `t_bid2cid.at()`, which `catch(int e)` does not catch: a
  base of `search_business` that is not among those searched ends the worker.
* `Means` is what a leaf should find, written apart from the statements: for words, an entry
  that spells one of them in the form of its own index (`EntriesOf`), in the index of the
  language or in the one without stemming, as the change log has it. `Expected` leaves out
  what the code leaves out there (`PlainOnly`, finding 6). A status mask
  longer than the 64 bits of a record is read as far as its 64th character
  (`qtree.cpp:1497`), so that `AllFound` speaks of masks that fit (`MaskFits`).
* `IsNumber` is `isnumber`: it takes the empty string and `"-"` for numbers, which are
  then written without quotes and make the statement wrong (`Wellformed`); it
  refuses every `"."`, although its comment speaks of one.
* A search with a language looks at the words of that language only (the part of
  `kwclause` that also looked in `lng=''` is commented out).
* A hit and its spot are one `place`: they come from the same row and are added
  together. No `SELECT` has a `DISTINCT`: each value of the sort field, be it the same as
  another, repeats the rows of a record, and so its places. A row keeps the rows of `idx`,
  `thit` and `prop` it is made of (`hit`, `prop`), so that a set of rows loses none, and
  `PlacesCounted` counts them: hits at a place times values of the sort field, in whatever order
  the rows come. Nothing is assumed of the tables but that they are finite. That repeated
  places do no harm is `MarksNest` of `Highlight`, whose spots may coincide.
* `BusinessHidden` is about what a leaf searches. The sort field is not looked at: a sort on a
  business field orders the records by it for everyone (`Sorted` has no condition on it).
* A key of 201 bytes or more makes `mysql_stmt_fetch` return something that is
  not 0: the loop ends there (`EndOfRows`, `TooLong`).

Left out: escaping, the record filter `srid` (always `NULL`), and the timings.

### `Highlight`, `Utf8Convert`, `SessionBlob`

`Highlight` is the end of a turn of the loop of `phrasea_fetch_results`: `Fill`
makes the marks of the spots, `Compare` is one comparison of the exchange sort,
`Insert` one turn of the loop of `memmove` and `memcpy`. `xmlsize - offset` is
unsigned: an offset after the end is the state `"fault"`. `Fresh` says that the
record has not become shorter since it was searched.

`Utf8Convert` has one action for the first byte of a character (`Lead`), one for each byte
that follows (`NextByte`, `EndOfChar`) and one for the output (`Emit`). Its tables are
constants (`TablesOK` is all that is known of them). The function also puts ASCII
letters of its *argument* in lower case, which its callers do not read again, and
`len << 3` overflows for strings of 2^28 bytes: neither is modelled.

`SessionBlob`: `get_binsize` and the size sent by `save`; `serialize_bin` as one step per
databox and per collection; `unserialize_bin` likewise, with each string's length
measured again (`strlen`). A string that does not end is the state `"lost"`. A
`NULL` string is restored as an empty one. `Saved` is any set of sessions whose fields are
those of `CACHE_SESSION`, `CACHE_BASE` and `CACHE_COLL`, with C strings (`SessionsOK`). The width of the column that holds the
blob is not in the repository.

## 3. Runs

Deadlock is not checked: every behaviour of these programs may stop, a
closed session offers nothing to do, a bound on the number of queries or of
sessions is reached, and a call of an operator or of `phrasea_query2` ends.

Liveness: nothing in this code waits for anything. There is no lock, no queue,
no thread and no retry loop, and for the cache and the sessions a "leads to"
property would only say that the scheduler runs a worker. The loops whose end
is not obvious are those that run alone in one call: the operators, which erase from
two sets on several paths, the conversion of a string, the reading of a blob, the
recursion on an array. `Termination` is checked for all of them under `MCSpec` of
`MCAlgorithms`, weak fairness of the next step: a call is a function of one thread
that nothing suspends for good.

| run | instance | shows |
|---|---|---|
| `cache_one_writer` | 2 workers, 3 queries of two kinds (no spots; more spots and answers than a block), pages of one answer, one writing call at a time, deaths, failing `fopen` of the answers | `TypeOK`, `OwnSpots`, the inductive invariant `CacheInv`, and the two files implement `ResultList` |
| `cache_both` | 2 workers, 3 queries of three kinds, one writing call at a time, deaths, readers that start anywhere, pages of 1 and 3 from answer 0, 2 and 3; and 2 workers, 2 queries, everything overlaps, every `fopen` may fail (4,304,081 states) | `PageOwnSpots`: a page read in two steps across queries, clears and deaths highlights the right words; `NoHeadlessBatch` with its inductive form `HeadInv` |
| `cache_overlap` | violated: `OwnSpots` when two queries of a session overlap | finding 1 |
| `cache_spotless` | violated: `EveryPageOwnSpots`, one worker alone | finding 2 |
| `sessions_steady` | 2 workers, 2 users, 2 sessions, 3 databoxes with 4 collections of which one has disappeared; lists, saves and restores may fail (705,606 states) | `ListedAsPublished`, `CollsInTheirBase`, `TypeOK` |
| `sessions_flaky` | violated: `CollsInTheirBase` when a databox comes back during a creation | finding 3 |
| `algorithms` | `AnswerMerge`: 3 records, every pair of branches of them, 3 contents of an answer, 6 operators; `Highlight`: up to 3 spots in any order in 3 bytes; `Utf8Convert`: every string of up to 4 of 10 bytes; `SessionBlob`: up to 2 databoxes with up to 2 collections; `QueryNodes`: arrays of up to 3 levels (364,826 states in all) | `ResultAsDefined`, `OneOwner`, `SpotsOfBoth`, `ImplementsAlgebra`, `MergeInv`, `HighlightInv`, `TextKept`, `MarksNest`, `Utf8Inv`, `FoldsText`, `RestoredAsSaved`, `TreeGivenBack`, `Termination` |
| `query_tree` | 5 records (one hidden, one without sort field), 10 leaves, trees of 1 to 3 leaves, the 7 sorts | `SortOnlyHides`, `SortHasKeys`, `NumericAsDocumented`, `WholeResult`, `OwnBase`, `SameTogether`, the inductive `HidesInv` |
| `query_alpha` | violated: `AlphaAsDocumented` | finding 4 |
| `databox` | 6 records in 3 collections, 4 users with and without masks, every kind of leaf, mode and sort, lists of collections with errors in them, every statement may fail, repeated rows in every table, with and without a language (178,941 states) | `OnlyVisible`, `BusinessHidden`, `AllFound`, `PlacesCounted`, `TypeOK`, the inductive `SearchInv` |
| `databox_duplicates` | violated: `DuplicatesVisible` | finding 5 |
| `databox_plain` | violated: `PlainSearched` | finding 6 |

Why the bounds are enough to see the interesting cases:

* Two workers: every hazard of the files is between one call and another one.
  A third query (`MaxQueries = 3`) lets a result follow two others, one of which
  may have been left incomplete by a death.
* Blocks hold two records and the largest batch has three answers and three
  spots, so that a write is split, with blocks flushed and a remainder buffered,
  and the smaller batches leave everything to `fclose`.
* Pages of one and three answers starting at 0 (which the code turns into 1),
  2 and 3 give pages inside one result, across two, past the end, and beginning with
  an answer of a query that died before the next one started.
* Three databoxes with four collections: a databox with two collections between
  two others with one, collection numbers that repeat from one databox to
  another, and a collection that its databox no longer knows.
* Three records and every pair of subsets of them as branches: each turn of an
  operator (left first, right first, both) comes before, after and between the
  others, and either side may be the one that is left over.
* Trees of up to three leaves put every operator of the run on a branch of another one,
  on the side where its answers are kept and on the side where they only exclude.
  A record without the sort field, two with the same one, two with the same sha2
  and a hidden one give every outcome of a comparison. The longest list has four
  answers, so that an insertion falls at both ends and in the middle.
* In the databox, words in the index without stemming only, in that of a language only, and in both;
  two rows of `idx`, of `thit` and of `prop` with the same columns; a user without masks, one with a mask in one of two collections, one
  with a mask of two bits and one without rights; a collection of another databox and one
  that the session lacks; a word found twice in a record and found under a business
  field only; values that compare differently as strings and as numbers.
* Three spots in three bytes touch, overlap, nest and coincide. Strings of four
  bytes cut a character of each length at each place, and hold a whole one of four. Strings
  of 0 to 3 bytes with a long of 2 leave every padding. Arrays of three levels put
  every kind of malformed value at the top, as a branch, and below a branch.

Every property of a passing run has a mutant in `PROJECT.json`: an
operator that stands just before the definition it replaces and that
makes the mistake a programmer could make there (no `fseek` before `ftell`, `"wb"`
for `"ab"`, `spot_index` not advanced, a new base for each collection, ...).
TLC finds the property violated when the mutant takes the definition's place.

## 4. Findings

1. `query.cpp:562`: the offset of the spots is taken before a concurrent query of
   the same session has written its own. Two overlapping queries take the same
   offset; the answers of one point for good to the words of the other.
2. `query.cpp:544`: a query without spots writes `spots_index = 0`. A page that
   begins with such an answer and continues with the next query's is read from
   the wrong place, and its highlights come from memory outside of what was read.
   A page that begins with an answer of a query that died before it wrote its spots
   has the same fault: the spots of the next query start where the dead one's should have
   been, before those the page begins with. `PageOwnSpots` leaves both out.
3. `session.cpp:174`: a databox that refuses the first connection and accepts the
   second gets its collection listed under the databox before it.
4. `query.cpp:513`: the change log says that `"FieldName"` sorts descending and
   `"+FieldName"` ascending, alphabetically. They sort the other way round, numbers
   as documented.
5. `qtree.cpp:1143`: the change log says that `sha256=sha256` searches duplicates "only on
   selected collections, respecting status bits (no duplicates found in another
   collection or on hidden doc)". The inner search does; the outer join is on
   `record` alone, and returns hidden records, and records of other collections, that
   have the sha256 of two visible ones.
6. `qtree.cpp:138`: the change log says of 1.22.2.0 "searching with stem (lng) searches also
   non-stem index". The condition that did so, `lng='' OR lng='..'`, is commented out
   (`qtree.cpp:136`), and what is written instead asks for the language alone: a record that has the words
   without stemming only is not found, even when each word is its own stem. The example
   the change log gives ("Echappées" found with `'fr'`, not without) fits both. `PlainSearched` is the
   sentence; `AllFound` says that these records, and no others, are what is missing.

Met while modelling, and not made a run of their own because no text of the
repository says what should happen, or because the run would only show a state:

* `session.cpp:36`: `RETVAL_FALSE` where the other functions have `RETURN_FALSE`.
  `phrasea_clear_cache` without a connection goes on with a null pointer
  (`"segfault"` in `Sessions`). The change log of 1.20.1.8 (`changelog.txt:119`) says "fix :
  segfault when calling some phrasea_*(...) functions and connection was not set": this is one
  that the fix left, but the sentence speaks of "some" functions and does not name them.
* `query.cpp:508`: the change log says that `sha256=sha256` disables sort. It only
  does when an answer of the result has a sha2. In `A EXCEPT (A EXCEPT same)`, or
  with OR, whose match drops the sha2 of its right operand, the answers are compared by the field
  anyway, and those of the leaves evaluated after the search have a `NULL` key:
  the model reaches `"segfault"`, and `SortHasKeys` only holds without such a leaf.
* `qtree.cpp:2474`: `freetree` does not know `COLON`; the two branches of every
  thesaurus search are lost (`Lost` in `QueryNodes`).
* `qtree.cpp:253`: `PHRASEA_KW_FIRST`, a constant PHP scripts are given, is a type that
  `qtree2tree` does not know: as a branch it ends the worker, and so it does at the top when
  the result is written (`query.cpp:487` reads the answers of a `NULL` tree).

## 5. Proofs

TLC checks the instances above; the following hold for every value of the
constants allowed by the assumptions of the modules.

`ResultCacheProofs`:

* `TypeCorrect`: `Spec => []TypeOK`.
* `HeadInvariant`, `NoBatchWithoutHead`: `Spec => []NoHeadlessBatch`, with no assumption on who
  overlaps or fails. `NoHeadlessBatch` alone is not inductive: `CloseAnswers`
  appends the tail of a result and needs the head to be there. `HeadInv` adds
  `TailHasHead`: a query with a handle on the present file has the
  last record of the flushed blocks in it. A remove turns the handle into
  `"removed"`, so the tail goes nowhere.
* `CacheInvariant`, `AnswersOwnTheirSpots`: under `Exclusive` (writing calls do not overlap and the
  spots file can be opened), `Spec => []OwnSpots`. The invariant is `CacheInv`:
  one writer (`OneWriter`), whose handles are on the present files (`FilesOpen`),
  whose `spot_index` is where its spots go (`OffsetIsRight`), whose answers
  already written point into its batch (`RunningAnswers`), whose number is
  its own (`Numbering`), and the answers removed before the spots they point to
  (`AnswersGoFirst`). Findings 1 and the hazard of `query.cpp:559` show that
  neither half of `Exclusive` can be dropped.
  The last part, `RunningTail`, says that what the running query has written of its
  answers is the end of the answers file, in order (`WrittenAtEnd`): the theorems that follow
  need it.
* `ListImplemented`: under `Exclusive`, `Spec => ImplementsResultList`: the two files
  implement the list. The mapping takes the answers of the queries that have returned, each
  with the spots it points to. `OwnSpots` makes these its own (`ListIsOwn`), so the list
  does not depend on the spots file any more (`OwnEntries`), and `RunningTail` makes of
  the last step of `phrasea_query2` an `Append` of the whole result (`SettledGrow`), whatever the
  answers of dead queries around it. The other steps map to a stutter or to the emptying.
* `PagesOwnTheirSpots`: if in addition the answers file can be opened, `Spec => []PageOwnSpots`.
  The page and the spots are two reads between which anything may happen, so the
  invariant is about the whole file: `LaidOut` says that an answer with spots starts no
  later than the one before it ends, and not before one of a query that has returned; `Reaches`
  that the last answer with spots ends where the file ends or after; `AllWritten` that
  the answers are all there when the spots come. A page inherits `LaidOut` (`LaidPage`), so the
  running total of its answers reaches the end of each of them (`WithinTotal`, by induction
  along the page), and what it reads holds the spots `OwnSpots` promises. The first attempt failed on the step of
  `ReadAnswers` after a death, where the property was false and TLC then found the page:
  hence its condition on the first answer. Without the assumption on the answers file a query
  may leave spots without answers between those of two others, and `LaidOut` is false.

`SessionsProofs`, for any workers, users, published collections and number of sessions:

* `SessionTypes`: `Spec => []TypeOK`.
* `CollectionsInPlace`: `~Flaky` implies `Spec => []CollsInTheirBase`. The invariant
  (`ListInv`) follows the loop of `phrasea_create_session`: for each creation in progress,
  `connok` says whether the databox of the last row answers, and if it does
  `cache_base` is its base (`ListedSoFar`). `RowListed` is one turn of the loop.
  Finding 3 shows that `~Flaky` cannot be dropped.
* `SessionsAsPublished`: `~Flaky` implies `Spec => []ListedAsPublished`. The invariant
  (`PublishInv`) says that the listing in progress is what `Published` gives for the rows
  gone through so far, filtered by the databoxes that answered, and that no session held or
  saved is any other. `RowPublished` is one turn of the loop: `Published` of one more row
  adds the collection to the last base, or a base. It rests on the lemmas about
  `Selection`.

`AnswerMergeProofs`, for any branches, records, contents and operator:

* `MergeTypes`: `Spec => []TypeOK`.
* `MergeInvariant`, `MergeFindsResult`, `NothingFreedTwice`: `MergeInv`, and from it
  `ResultAsDefined` and `OneOwner`. Neither is inductive alone: that comparing only
  the first answers of two sets misses no match needs `InStep` (every answer taken has a
  greater record_id than every answer ahead) and `SoFar`; that an object has one owner
  needs to know that what is ahead is `Untouched`, that every answer started with
  objects of its own (`OwnAtStart`) and that objects change hands only between the
  two answers of one record (`SameRecord`), so that what was freed belongs to
  records already passed. A third part, `AsMerged`, says what an answer of the result holds:
  its own hits, sha2 and spots and those of its match, as its operator makes them.
* `SpotsKept`, `AlgebraImplemented`: from it `SpotsOfBoth`, and `ImplementsAlgebra`: the sets
  and their memory give what `Combine` of `AnswerAlgebra` gives. `addSpot` looks for a
  spot before it adds it; that the fold over a list of them adds each once is an
  induction along the list (`FoldSteps`).

`QueryTreeProofs`, for any set of trees, leaves, databox and sort. The assumptions are
`QueryAssumption` (trees are made of known leaves and operators) and
`DataboxAssumption` (record_ids are numbers, the user sees a finite set of records, a property
has a rank and a number, `NoKey` is not a number, a local base is not 0, a sha2 is one number):

* `QueryTypes`: `Spec => []TypeOK`. `CombineOk` is its core: an answer of a node has the key
  of one of its branches and its own sha2 or none.
* `SortInvariant`, `SortIsSafe`: `Spec => []SortHasKeys`, by `SortInv`: without a
  duplicates search every answer on the stack has a key if a sort is asked for and
  none has a sha2 (`KeysOnTheWay`), and the order was chosen from the root that is
  being sorted (`ChosenForRoot`). `SortInv` is not in a run: its proof needs none.
* `HidesInvariant`, `SortHides`: `Spec => []SortOnlyHides`, by `HidesInv`, which adds
  that hidden or not an answer has the same hits: otherwise NEAR could lose records
  that have the sort field. `OneLast` shows that "the last n" is one set of records, so
  that the limit cannot fall differently with and without sort.
* `OwnBaseAlways`: `Spec => []OwnBase`, inductive with `TypeOK`.

* `OrderInvariant`: `Spec => []OrderInv`, for the loop that puts the answers of the root
  in the multiset. `Counted` says that the answers sorted and those pending are the
  root's, each once, and that those pending have smaller record_ids. `Ordered`
  says that the comparator puts greater weights first (`BeforeWeighs`) and, among equal
  weights, greater record_ids: the place of an insertion is the number of answers that are not after
  the new one, these are a beginning of the sequence (`Beginning`), and the new one,
  whose record_id is smaller than all of them, goes after its equals. `KeysAreOwn` says that the key an answer has on the
  way to the root is that of its own record. `OrderInv` is not in a run: its proof
  needs none.
* `WholeAlways`, `NumericAlways`, `SameAlways`: from it `WholeResult`,
  `NumericAsDocumented` and `SameTogether`.

`DataboxProofs`, for any tables, session and calls that satisfy `DataAssumption`
(record_ids are finitely many numbers and so are the rows of the tables, the key of `collusr`,
`NoKey` is no value and not a key that is cut, `NoPlace` is no place) and
`CallsAssumption` (the n of ALL and LAST is a number, the value compared a sequence of
characters):

* `SearchTypes`, `SearchInvariant`, `AnswersAreVisible`, `BusinessIsHidden`: `TypeOK`,
  `SearchInv`, `OnlyVisible`, `BusinessHidden`. The invariant follows a right through
  the call: the maps hold collections of the caller (`MapsInv`); a row of `_tmpmask` is a
  right of the user in one of them, and says where business fields may be searched
  (`TmpMaskInv`); the masks are left out of the SQL only when no row has one
  (`UseMaskInv`); so every row still to fetch is of a record the user may see and of
  an entry he may search (`RowsInv`). `OnlyVisible` excludes `sha256=sha256`, for which
  finding 5 shows that it is false.

* `FoundInvariant`, `NothingMissed`, `EachPlaceCounted`: `AllFound` and `PlacesCounted`, the
  other half: that nothing is lost. `FoundInv` says that every collection of the caller that
  the databox has is in the maps (`MapsFull`), that `_tmpmask` has every right of the
  user in them (`TmpMaskFull`), that the rows of the statement are those the leaf
  reads (`RowsRead`), and that what is not found yet is in the rows ahead, for the
  records (`RecordsAhead`) and for the places of one record (`PlacesAhead`: the occurrences of
  a place in the answer and the rows ahead with it are together its hits times the values of the sort
  field). The rows of a record are counted by the pairs of a hit and a value (`JoinRow`,
  `RowsSorted`), which is where repeated values matter; reading one moves it from one side
  to the other (`PlaceRead`). The limit of ALL and LAST, the n
  greatest record_ids, is compared with "fewer than n records follow" (`TopRecords`). They
  hold where their definitions say: for keys that fit their buffer (`SortKeysFit`),
  masks of at most 64 characters (`MaskFits`), limits that are not those of a sort by
  key, and not for `sha256=sha256`; and `AllFound` speaks of `Expected`, without the records
  that lack the sort field and those of finding 6. `FoundInv` is not in a run: its proof needs none.

`HighlightProofs`, for any text, spots and marks:

* `MarksInPlace`: `Spec => []HighlightInv`: the comparisons made so far order the marks
  (`SortedSoFar`), so what stands before the next mark is the text as it was searched
  (`PlaceKept`), and no `memmove` starts after its end (`InText`) if the record has
  not become shorter.
* `TextIsKept`: `Spec => []TextKept`. `HighlightInv` says where a mark goes, not what the
  buffer holds; `TextInv` says that it is a string with one NUL, at its end, whose bytes of
  the record are those of the record in their order (`StringKept`), and that its length is
  the record's and that of the marks already inserted (`Sized`). The room is enough
  because the sort loses none of the marks (`Permuted`), of which half open and half
  close (lemma `Halves`).
* `MarksAreNested`: `Spec => []MarksNest`. `NestInv` compares, for each beginning of the
  buffer, the marks that stand there with the spots: of the marks inserted, those that open
  before the next byte of the record stand there, no more close than end there, and at a byte
  of the record these and no other (`MarkedAt`). An insertion keeps it, because every
  mark inserted earlier stands no earlier in the record (`InsertedMarked`). At the end the
  marks inserted are two of each spot (`CountMarks`), so the depth at a byte is the
  number of spots that have started less that of those that have ended. `Worded` is
  needed: a spot without bytes would end before it starts. `NestInv` is not in a run: its
  proof needs none.

`AlgorithmsProofs`, for any inputs of `Algorithms`. What starts there is one of the
five algorithms, and the others stand still, so a behaviour of it is, seen through the variables of
each, one of that algorithm:

* `MarksInPlace`, `TextIsKept`, `MarksAreNested`: `AllSpec => []HighlightInv`,
  `AllSpec => []TextKept`, `AllSpec => []MarksNest`, from the theorems of those names in
  `HighlightProofs`.
* `WideEnough`: `AllSpec => []Utf8Inv`, for any tables with cells of three bytes at
  most (`TablesOK`). The length of the output is bounded by four bytes for each byte of the
  characters finished, so the eight that are allocated are enough and the loop never
  stops before the end of the input.
* `TextFolded`: `AllSpec => []FoldsText`. The definition folds a string from its front,
  one character after the other; the loop reads one byte at a time. `FoldInv` says
  that what is written, and then the fold of what is left, is the fold of the whole
  (`Reached`), and inside a character, which bytes of it were read and that `utf32` holds
  their bits (`InChar`, `CodeAt`, `Shifted`: shifting by six and masking is reading the code point).
  For a string that is not UTF-8 it says that the ASCII bytes read are still there or in
  what is written (`AsciiKept`). `FoldTurn` and `StuckTurn` give the two recursive
  definitions their equations, from `CourseExists`.
* `TreeIsGivenBack`: `AllSpec => []TreeGivenBack`, for any set of arrays that holds what its
  arrays hold (`ArraysOK`, the assumption `ArraysAssumption` that every run of `Algorithms`
  evaluates). `TreeGivenBack` speaks of the end; `NodesInv` of each step before it. While the
  tree is built (`Growing`): every node but the first hangs under exactly one earlier node
  (`Tree`), the calls still to make come in falling order of the node they are for
  (`Falling`, `Rank`), and `Sound` says what is missing: a branch that is not there has its call
  to come, or a type that `qtree2tree` does not know is in the array no deeper than
  there are nodes (`Strange`), and every value reached has been made a node, has its call or is
  strange (`Seen`). So a sum that reads a `NULL` proves a strange type, and a
  tree finished proves there is none. While it is freed (`Freeing`): the nodes met and the
  nodes due are apart, and closed under the branches `freetree` takes (`Walked`), and
  what was given back is each word and node met and no longer called (`Given`). At the end
  nothing is due and the nodes met are all but `Lost`. `Under`, `Lost` and `HasUnknown` are
  recursive functions; `UnderIs`, `LostIs` and `LevelsAre` give them their equations.
  The first attempt found the `CASE` of `NodeOf` with two guards true at once for a
  `LAST` or a proximity that has its number: TLC takes the first, TLA+ promises neither.
  They exclude each other now: the code sets the default and then overrides it (`qtree.cpp:198`, `:238`).
* `SessionIsRestored`: `AllSpec => []RestoredAsSaved`, for any sessions of the types of their
  fields and any `PAD` (`SessionsOK`, the assumption `SessionsAssumption`). `RestoredAsSaved`
  speaks of sizes while writing and of values at the end; `BlobInv` says where everything is. A field is
  at a place that is a sum of the widths of those before it (`AtHost` ... `AtCount` in
  a databox, `CollStart` and `BaseStart` in the buffer). While `serialize_bin` runs, each
  databox and collection already written is at its place (`HeadAt`, `CollAt`), the count of
  the last one is that of its collections written, and `counter` is where it stands
  (`Written`, `Count`): raising it later disturbs nothing else (`Agree`, `HeadKept`,
  `CollKept`). While `unserialize_bin` runs, `p` is the place of the next field and what is
  restored is the image of what is behind it (`MadeBases`). The three computations of a width meet in
  `WideIs` (what is added to the size is a whole number of longs), `LongsAre` (that many are
  written) and `StringRead`: `strlen` finds the first NUL where the string ends, so that
  the rounding of `LSTRPAD` finds the same width again. It needs strings without NUL bytes
  (`CString`), which those of the databases are once `addbase` and `addcoll` have copied them. `TimesIsLarger`,
  `Divided` and `Quotient` give the solver the products and quotients by `PAD`; sums along
  the lists are a recursive function (`TotalIs`). `BlobInv` held in TLC on every session of the run
  before it was proved; it is in no run, since the theorem needs none.

Only model-checked: `Termination`, which is liveness. `PageOwnSpots` with an answers file that
cannot be opened is neither proved nor checked. Nothing is said of the files that a query
leaves behind after the close of its session (`query.cpp:192`), nor of a number whose
`save()` failed (`session.cpp:200`): both happen in the models.

## 6. What is not modelled, and the plan

Not modelled: allocations that fail, the timings and the debug array of
`phrasea_query2`, `CACHE_SESSION::connect` and `dump`, the escaping of SQL, the PHP
registration code, the clock and the traces, and partial records of a full disk.

Most lines of the repository are no behaviour of it: `unicode.cpp` is 18,400 lines of
two tables and 110 of code, `libstemmer_c` (28,000 lines) is the vendored Snowball
stemmer, which `Databox` takes as the constant `Stems`, and `qtree3.cpp` and
`query3.cpp` are commented out from the first line to the last. What is left of the
extension's own code is about 8,000 lines, of which more than half of `qtree.cpp` is the text of SQL,
once in comments and once for each combination of options; `Databox` has one
operator for each kind of statement.

Next, in this order:

1. `QuerySession`: `QueryTree` composed with `ResultCache`, the page of a sorted
   result read back.
2. Records as bytes in `ResultCache`, for the disk that is full.

