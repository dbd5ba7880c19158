------------------------------- MODULE Databox -------------------------------
(***************************************************************************)
(* The search of a databox for one leaf of a query: what phrasea_query2     *)
(* does before the tree (the collections of the caller, the connection, the *)
(* temporary table _tmpmask and whether masks are needed), the SQL that     *)
(* querytree2 writes for each kind of leaf, with or without a sort field,   *)
(* and the loop of SQLCONN::phrasea_query that makes answers of its rows.   *)
(* QueryTree says what becomes of the answers of several leaves.            *)
(*                                                                         *)
(* A table is a set of records or a function on its key; a SELECT is the    *)
(* set of its rows, a LIMIT the choice of some of them.  No SELECT of a leaf *)
(* has a DISTINCT: a row keeps the rows of idx or thit and of prop it is     *)
(* made of, so that two with the same columns are two.  Bits are sets of     *)
(* positions, words, names and values are members of small sets.            *)
(***************************************************************************)
EXTENDS Integers, Sequences, FiniteSets

CONSTANTS
    Bases,     \* the session: base_id -> coll_id of the collection, in its databox
    Record,    \* table record: record_id -> coll, parent, status, sha, type
    CollUsr,   \* table collusr: site, usr, coll, mask_xor, mask_and
    Idx,       \* tables kword, idx and xpath: rid, word, lng, field, business, place, id
    Prop,      \* table prop: rid, name, value, business, id
    Thit,      \* table thit: rid, name, value, business, place, id; the id of a row
               \* tells it from another with the same columns
    Subdef,    \* table subdef: <<record_id, name>>
    Calls,     \* arguments of phrasea_query2, with one leaf for a tree
    Stems,     \* languages the stemmer knows: lng -> word -> stem
    Like,      \* words and values each pattern of the query is LIKE
    Text,      \* the characters of a value
    Alpha,     \* its rank as a string
    Number,    \* the number it starts with
    TooLong,   \* values of more than 201 bytes
    MayFail,   \* statements that may fail: subset of {"connect", "tmpmask", "leaf"}
    NoLong,    \* an element of an array argument that is not a number
    NoList,    \* search_business when it is not given
    NoSort, NoKey, NoPlace

Rids == DOMAIN Record

ASSUME DataAssumption ==
    /\ Rids \subseteq Int /\ IsFiniteSet(Rids)
    /\ IsFiniteSet(Idx) /\ IsFiniteSet(Prop) /\ IsFiniteSet(Thit)
    /\ \A t \in Prop \cup Thit \cup Idx : t.rid \in Rids /\ t.business \in BOOLEAN
    /\ \A m, n \in CollUsr :
          m.site = n.site /\ m.usr = n.usr /\ m.coll = n.coll => m = n
    /\ \A p \in Prop : p.value # NoKey
    /\ NoKey \notin TooLong
    /\ \A t \in Idx \cup Thit : t.place # NoPlace

Kinds == {"all", "last", "words", "in", "compare", "thesaurus"}

ASSUME CallsAssumption ==
    \A c \in Calls :
        /\ c.leaf.kind \in Kinds
        /\ c.leaf.kind \in {"all", "last"} => c.leaf.n \in Int
        /\ c.leaf.kind = "compare" => Text[c.leaf.value] \in Seq(STRING)
        /\ DOMAIN c = {"colls", "business", "site", "usr", "mode", "sort", "lng", "leaf"}
        /\ c.colls \in Seq(Int \cup {NoLong})
        /\ c.business = NoList \/ c.business \in Seq(Int \cup {NoLong})

VARIABLES
    call,       \* the arguments
    pc,         \* what the call does
    colls,      \* collections still to translate
    cid2bid,    \* t_cid2bid
    bid2cid,    \* t_bid2cid
    created,    \* there is a temporary table _tmpmask
    tmpmask,    \* its rows
    use_mask,
    rows,       \* rows of the leaf still to fetch
    answers     \* answers of the leaf, by record_id

vars == <<call, pc, colls, cid2bid, bid2cid, created, tmpmask, use_mask, rows, answers>>

Empty == [x \in {} |-> x]

\* f with f[x] = y.
Put(f, x, y) == [z \in DOMAIN f \cup {x} |-> IF z = x THEN y ELSE f[z]]

Init ==
    /\ call \in Calls
    /\ pc = "collections"
    /\ colls = call.colls
    /\ cid2bid = Empty
    /\ bid2cid = Empty
    /\ created = FALSE
    /\ tmpmask = {}
    /\ use_mask = TRUE
    /\ rows = {}
    /\ answers = Empty

-----------------------------------------------------------------------------
(* Before the tree                                                         *)

\* get_distant_coll_id: no collection of the session has this base_id.
Unknown(base) == base = NoLong \/ base \notin DOMAIN Bases

\* One turn of the loop over the collections of the caller.
TakeCollection ==
    /\ pc = "collections" /\ colls # << >>
    /\ colls' = Tail(colls)
    /\ IF Unknown(Head(colls))
       THEN UNCHANGED <<cid2bid, bid2cid>>
       ELSE /\ cid2bid' = Put(cid2bid, Bases[Head(colls)], Head(colls))
            /\ bid2cid' = Put(bid2cid, Head(colls), Bases[Head(colls)])
    /\ UNCHANGED <<call, pc, created, tmpmask, use_mask, rows, answers>>

\* The databox is looked up in sbas and connected to, if there is a
\* collection to search in.
Connect ==
    /\ pc = "collections" /\ colls = << >>
    /\ \/ pc' = "tmpmask" /\ DOMAIN cid2bid # {}
       \/ pc' = "failed" /\ (DOMAIN cid2bid = {} \/ "connect" \in MayFail)
    /\ UNCHANGED <<call, colls, cid2bid, bid2cid, created, tmpmask, use_mask, rows, answers>>

\* A base of search_business that is not among the collections of the query:
\* map::at throws std::out_of_range, which `catch(int e)' does not catch.
Throws ==
    /\ call.business # NoList
    /\ \E i \in DOMAIN call.business :
          call.business[i] # NoLong /\ call.business[i] \notin DOMAIN bid2cid

\* Mutant of OnlyBusiness: FIND_IN_SET without "=0".
OnlyBusinessInverted(cid) ==
    \/ call.business = NoList
    \/ \E i \in DOMAIN call.business :
          call.business[i] # NoLong /\ bid2cid[call.business[i]] = cid

\* FIND_IN_SET(coll_id, list)=0, or TRUE without a list.
OnlyBusiness(cid) ==
    \/ call.business = NoList
    \/ \A i \in DOMAIN call.business :
          call.business[i] # NoLong => bid2cid[call.business[i]] # cid

\* SELECT coll_id, mask_xor, mask_and, ... AS only_business FROM collusr.
TmpMask ==
    {[coll |-> m.coll, mask_xor |-> m.mask_xor, mask_and |-> m.mask_and,
      only_business |-> OnlyBusiness(m.coll)] :
        m \in {m \in CollUsr : /\ m.site = call.site /\ m.usr = call.usr
                               /\ m.coll \in DOMAIN cid2bid}}

\* CREATE TEMPORARY TABLE _tmpmask.  Whether it worked is not looked at.
CreateTmpMask ==
    /\ pc = "tmpmask"
    /\ IF Throws
       THEN pc' = "aborted" /\ UNCHANGED <<created, tmpmask>>
       ELSE /\ pc' = "mask"
            /\ \/ created' = TRUE /\ tmpmask' = TmpMask
               \/ "tmpmask" \in MayFail /\ UNCHANGED <<created, tmpmask>>
    /\ UNCHANGED <<call, colls, cid2bid, bid2cid, use_mask, rows, answers>>

\* BIT_COUNT(BIT_OR(mask_xor | mask_and)) is 0.
NoMask == created /\ \A m \in tmpmask : m.mask_xor \cup m.mask_and = {}

ReadMask ==
    /\ pc = "mask"
    /\ use_mask' = ~NoMask
    /\ pc' = "leaf"
    /\ UNCHANGED <<call, colls, cid2bid, bid2cid, created, tmpmask, rows, answers>>

-----------------------------------------------------------------------------
(* The SQL of a leaf                                                       *)

\* ((status ^ mask_xor) & mask_and) = 0
StatusLets(rid, xor, and) ==
    \A bit \in and : bit \in Record[rid].status <=> bit \in xor

\* The rows of _tmpmask joined with a record.
MasksOf(rid) == {m \in tmpmask : m.coll = Record[rid].coll}

\* parent_record_id=0, =1, or no condition.
ModeLets(rid) ==
    \/ call.mode = "all"
    \/ Record[rid].parent = IF call.mode = "doconly" THEN 0 ELSE 1

\* record STRAIGHT_JOIN _tmpmask, the mode and the mask: part of every SELECT.
Reached ==
    {rid \in Rids : /\ ModeLets(rid)
                    /\ \E m \in MasksOf(rid) :
                          use_mask => StatusLets(rid, m.mask_xor, m.mask_and)}

\* !business OR !only_business
BusinessLets(t) == t.business => \E m \in MasksOf(t.rid) : ~m.only_business

\* The columns record_id and coll_id, the others NULL; the row of the index or the
\* thesaurus and the one of the sort field that are joined: none.
RowOf(rid) == [rid |-> rid, cid |-> Record[rid].coll, key |-> NoKey, sha |-> {},
               place |-> NoPlace, hit |-> {}, prop |-> {}]

HitRow(t) == [RowOf(t.rid) EXCEPT !.place = t.place, !.hit = {t}]

KeysOf(rid) == {p \in Prop : p.rid = rid /\ p.name = call.sort}

\* INNER JOIN prop ... WHERE prop.name = the sort field, if there is one: a row for
\* each value, be they the same.
Sorted(found) ==
    IF call.sort = NoSort THEN found
    ELSE UNION {{[row EXCEPT !.key = p.value, !.prop = {p}] : p \in KeysOf(row.rid)} : row \in found}

RowsOf(S) == {RowOf(rid) : rid \in S}

\* The sets of n rows that ORDER BY ... DESC LIMIT n may return.
Tops(n, S, rank) ==
    {T \in SUBSET S :
        /\ Cardinality(T) = IF Cardinality(S) < n THEN Cardinality(S) ELSE n
        /\ \A t \in T, s \in S \ T : rank[t] >= rank[s]}

ByRid(S) == [row \in S |-> row.rid]
ByKey(S) == [row \in S |-> Alpha[row.key]]

\* Mutant of AllRows: the mode and the masks are left out when there is a sort.
AllRowsUnmasked(n) ==
    {Sorted(RowsOf(IF call.sort = NoSort THEN Reached
                   ELSE {rid \in Rids : MasksOf(rid) # {}}))}

\* ALL n: by the sort key if there is one; LIMIT refuses a negative number.
AllRows(n) ==
    LET S == Sorted(RowsOf(Reached))
    IN  IF n = 0 THEN {S}
        ELSE IF n < 0 THEN {}
        ELSE Tops(n, S, IF call.sort = NoSort THEN ByRid(S) ELSE ByKey(S))

\* LAST n: the join with the sort field comes after the limit.  No SQL is
\* written for n <= 0.
LastRows(n) ==
    LET S == RowsOf(Reached)
    IN  IF n <= 0 THEN {} ELSE {Sorted(T) : T \in Tops(n, S, ByRid(S))}

\* kwclause: the words are stemmed if the language has a stemmer, and looked for
\* in the index of that very language; "" is the index without stemming.
KwClause(words, t) ==
    /\ t.lng = call.lng
    /\ \E w \in words :
          LET stem == IF call.lng \in DOMAIN Stems THEN Stems[call.lng][w] ELSE w
          IN  t.word \in Like[stem]

\* A keyword list, anywhere or in one field.
WordRows(words, fields) ==
    {Sorted({HitRow(t) :
                t \in {t \in Idx : /\ t.rid \in Reached
                                   /\ KwClause(words, t)
                                   /\ t.field \in fields
                                   /\ BusinessLets(t)}})}

\* isnumber: a first "-", then digits; a "." is no digit.
IsNumber(v) ==
    \A i \in DOMAIN Text[v] :
        \/ Text[v][i] \in {"0", "1", "2", "3", "4", "5", "6", "7", "8", "9"}
        \/ i = 1 /\ Text[v][i] = "-"

\* A number is written without quotes, whatever isnumber takes for one.
Wellformed(v) == IsNumber(v) => \E i \in DOMAIN Text[v] : Text[v][i] # "-"

\* math2sql
Holds(op, a, b) ==
    CASE op = "=" -> a = b [] op = "<>" -> a # b
      [] op = ">" -> a > b [] op = "<" -> a < b
      [] op = ">=" -> a >= b [] op = "<=" -> a <= b

\* A column of strings against a value: as numbers if the value is one.
Compares(column, op, v) ==
    IF IsNumber(v) THEN Holds(op, Number[column], Number[v])
    ELSE Holds(op, Alpha[column], Alpha[v])

\* sha256=sha256: the records of the databox whose sha256 is that of two records
\* of the search.
TupleRows ==
    {{[RowOf(rid) EXCEPT !.sha = Record[rid].sha] :
        rid \in {rid \in Rids : \E a, b \in Reached :
                    /\ a # b /\ Record[rid].sha # {}
                    /\ Record[a].sha = Record[rid].sha
                    /\ Record[b].sha = Record[rid].sha}}}

\* Mutant of SubdefRows: an inner join.
SubdefRowsInner(name, v) ==
    {Sorted(RowsOf({rid \in Reached : <<rid, name>> \in Subdef /\ Text[v][1] # "0"}))}

\* LEFT JOIN subdef: the records without it for a value that starts with "0",
\* those with it for any other.
SubdefRows(name, v) ==
    LET missing == Text[v] # << >> /\ Text[v][1] = "0"
    IN  {Sorted(RowsOf({rid \in Reached : <<rid, name>> \in Subdef <=> ~missing}))}

\* The bits at which a status mask has one of these characters: the last one of
\* the first 64 is the lowest bit.
Bits(v, chars) ==
    LET l == IF Len(Text[v]) < 64 THEN Len(Text[v]) ELSE 64
    IN  {l - i : i \in {i \in 1..l : Text[v][i] \in chars}}

StatusRows(v) ==
    {Sorted(RowsOf({rid \in Reached : StatusLets(rid, Bits(v, {"1"}), Bits(v, {"0", "1"}))}))}

\* A field of the structure.  Two values of it give two rows, the second of which
\* changes nothing in an answer: they are one here, as the SELECT has no limit.
FieldRows(name, op, v) ==
    {Sorted(RowsOf({rid \in Reached : \E p \in Prop : /\ p.rid = rid /\ p.name = name
                                                      /\ Compares(p.value, op, v)
                                                      /\ BusinessLets(p)}))}

\* The fields that are columns of record.
ColumnRows(name, op, v) ==
    {Sorted(RowsOf({rid \in Reached :
        CASE name = "recordid" -> Holds(op, rid, Number[v])
          [] name = "recordtype" -> Compares(Record[rid].type, op, v)
          [] name = "sha256" -> \E x \in Record[rid].sha : Compares(x, op, v)}))}

\* field OPERATOR value.  recordstatus and the subdefs take any operator for "=".
CompareRows(name, op, v) ==
    CASE name = "sha256" /\ op = "=" /\ v = "sha256" -> TupleRows
      [] name \in {"thumbnail", "preview", "document"} -> SubdefRows(name, v)
      [] name = "recordstatus" -> StatusRows(v)
      [] name \in {"recordid", "recordtype"} \/ (name = "sha256" /\ ~(op = "=" /\ v = "sha256")) ->
            IF Wellformed(v) THEN ColumnRows(name, op, v) ELSE {}
      [] OTHER -> IF Wellformed(v) THEN FieldRows(name, op, v) ELSE {}

\* field : values, in the thesaurus; "*" is any field.
ThesaurusRows(names, values) ==
    {Sorted({HitRow(t) :
                t \in {t \in Thit : /\ t.rid \in Reached
                                    /\ t.name \in names
                                    /\ \E v \in values : t.value \in Like[v]
                                    /\ BusinessLets(t)}})}

IdxFields  == {t.field : t \in Idx}
ThitFields == {t.name : t \in Thit}

\* What the statement of the leaf may return: one of these sets of rows; none of
\* them if MySQL refuses it.
Results(leaf) ==
    CASE leaf.kind = "all" -> AllRows(leaf.n)
      [] leaf.kind = "last" -> LastRows(leaf.n)
      [] leaf.kind = "words" -> WordRows(leaf.words, IdxFields)
      [] leaf.kind = "in" -> WordRows(leaf.words, {leaf.field})
      [] leaf.kind = "compare" -> CompareRows(leaf.field, leaf.op, leaf.value)
      [] leaf.kind = "thesaurus" ->
            ThesaurusRows(IF leaf.field = "*" THEN ThitFields ELSE {leaf.field}, leaf.words)

Tuples == call.leaf.kind = "compare" /\ call.leaf.field = "sha256"
             /\ call.leaf.op = "=" /\ call.leaf.value = "sha256"

\* mysql_stmt_prepare, mysql_stmt_execute.
Execute ==
    /\ pc = "leaf"
    /\ \/ /\ created
          /\ \E result \in Results(call.leaf) : rows' = result
          /\ pc' = "fetch"
       \/ /\ "leaf" \in MayFail \/ (created => Results(call.leaf) = {})
          /\ pc' = "failed" /\ UNCHANGED rows
    /\ UNCHANGED <<call, colls, cid2bid, bid2cid, created, tmpmask, use_mask, answers>>

-----------------------------------------------------------------------------
(* The loop over the rows                                                  *)

\* Mutant of AnswerWith: a NULL place is a place.
AnswerWithNull(row) ==
    LET known == row.rid \in DOMAIN answers
    IN  [cid    |-> IF known THEN answers[row.rid].cid ELSE row.cid,
         key    |-> IF known THEN answers[row.rid].key ELSE row.key,
         sha    |-> IF known THEN answers[row.rid].sha ELSE row.sha,
         places |-> IF known THEN Append(answers[row.rid].places, row.place)
                    ELSE <<row.place>>]

\* Mutant of AnswerWith: a row of a known record is not looked at.
AnswerWithFirst(row) ==
    IF row.rid \in DOMAIN answers THEN answers[row.rid]
    ELSE [cid |-> row.cid, key |-> row.key, sha |-> row.sha,
          places |-> IF row.place = NoPlace THEN << >> ELSE <<row.place>>]

\* The answer of the record, found or new, with the hit and the spot of the row.
AnswerWith(row) ==
    LET known == row.rid \in DOMAIN answers
        place == IF row.place = NoPlace THEN << >> ELSE <<row.place>>
    IN  [cid    |-> IF known THEN answers[row.rid].cid ELSE row.cid,
         key    |-> IF known THEN answers[row.rid].key ELSE row.key,
         sha    |-> IF known THEN answers[row.rid].sha ELSE row.sha,
         places |-> IF known THEN answers[row.rid].places \o place ELSE place]

\* mysql_stmt_fetch: the rows come in any order.
Fetch ==
    /\ pc = "fetch"
    /\ \E row \in rows :
          /\ row.key \notin TooLong
          /\ rows' = rows \ {row}
          /\ answers' = Put(answers, row.rid, AnswerWith(row))
    /\ UNCHANGED <<call, pc, colls, cid2bid, bid2cid, created, tmpmask, use_mask>>

\* No more rows, or one whose key is cut: MYSQL_DATA_TRUNCATED is not 0 either.
EndOfRows ==
    /\ pc = "fetch"
    /\ rows = {} \/ \E row \in rows : row.key \in TooLong
    /\ pc' = "done"
    /\ UNCHANGED <<call, colls, cid2bid, bid2cid, created, tmpmask, use_mask, rows, answers>>

Next == TakeCollection \/ Connect \/ CreateTmpMask \/ ReadMask \/ Execute \/ Fetch \/ EndOfRows

Spec == Init /\ [][Next]_vars

-----------------------------------------------------------------------------
(* Properties                                                              *)

Places == {t.place : t \in Idx \cup Thit}
Keys   == {p.value : p \in Prop} \cup {NoKey}

\* A row of a SELECT on the records.
Row == [rid : Rids, cid : {Record[rid].coll : rid \in Rids}, key : Keys,
        sha : {{}} \cup {Record[rid].sha : rid \in Rids}, place : Places \cup {NoPlace},
        hit : SUBSET (Idx \cup Thit), prop : SUBSET Prop]

TypeOK ==
    /\ call \in Calls
    /\ pc \in {"collections", "tmpmask", "mask", "leaf", "fetch", "done", "failed", "aborted"}
    /\ colls \in Seq(Int \cup {NoLong})
    /\ DOMAIN cid2bid \subseteq {Bases[b] : b \in DOMAIN Bases}
    /\ \A cid \in DOMAIN cid2bid : Bases[cid2bid[cid]] = cid
    /\ \A b \in DOMAIN bid2cid : b \in DOMAIN Bases /\ bid2cid[b] = Bases[b]
    /\ created \in BOOLEAN /\ use_mask \in BOOLEAN
    /\ rows \subseteq Row
    /\ \A row \in rows :
          row.cid = Record[row.rid].coll /\ row.sha \in {{}, Record[row.rid].sha}
    /\ DOMAIN answers \subseteq Rids
    /\ \A rid \in DOMAIN answers :
          /\ answers[rid].cid = Record[rid].coll
          /\ answers[rid].key \in Keys
          /\ answers[rid].sha \in {{}, Record[rid].sha}
          /\ answers[rid].places \in Seq(Places)

CollsOf(bases) == {Bases[bases[i]] : i \in {i \in DOMAIN bases : ~Unknown(bases[i])}}

\* The user may see the record in this search: a row of collusr for its
\* collection, which the caller asked for, with a mask its status passes.
MaySee(rid) ==
    /\ ModeLets(rid)
    /\ Record[rid].coll \in CollsOf(call.colls)
    /\ \E m \in CollUsr : /\ m.site = call.site /\ m.usr = call.usr
                          /\ m.coll = Record[rid].coll
                          /\ StatusLets(rid, m.mask_xor, m.mask_and)

\* The user may search this word, property or term.
MayRead(t) ==
    t.business => call.business # NoList /\ Record[t.rid].coll \in CollsOf(call.business)

\* OnlyVisible: whatever leaf is searched, sorted or not and with or without masks
\* in its SQL, an answer is a record that the user may see, in a collection
\* asked for ("searching all with a sort returned records that user should not
\* see").  Duplicates are looked at apart, by DuplicatesVisible.
OnlyVisible == ~Tuples => \A rid \in DOMAIN answers : MaySee(rid)

\* DuplicatesVisible: "searching of duplicates search only on selected collections,
\* respecting status bits (no duplicates found in another collection or on
\* hidden doc)".
DuplicatesVisible == Tuples => \A rid \in DOMAIN answers : MaySee(rid)

\* The form a word has in the index of a language.
FormIn(lng, word) == IF lng \in DOMAIN Stems THEN Stems[lng][word] ELSE word

\* The entries of a record, in the indexes of some languages, that the user may search
\* and that spell a word of the leaf in the form of their own index.
EntriesOf(rid, lngs) ==
    {t \in Idx : /\ t.rid = rid /\ t.lng \in lngs /\ MayRead(t)
                 /\ \E word \in call.leaf.words : t.word \in Like[FormIn(t.lng, word)]
                 /\ call.leaf.kind = "in" => t.field = call.leaf.field}

TermsOf(rid) ==
    {t \in Thit : /\ t.rid = rid /\ MayRead(t)
                  /\ call.leaf.field \in {"*", t.name}
                  /\ \E v \in call.leaf.words : t.value \in Like[v]}

\* What the rows of such a leaf come from.
InText == call.leaf.kind \in {"words", "in", "thesaurus"}
HitsOf(rid) ==
    IF call.leaf.kind = "thesaurus" THEN TermsOf(rid) ELSE EntriesOf(rid, {call.lng})

ValuesOf(rid) == {p \in Prop : p.rid = rid /\ p.name = call.leaf.field /\ MayRead(p)}

Technical == {"sha256", "recordid", "recordtype", "recordstatus", "thumbnail", "preview",
              "document"}

\* BusinessHidden: a record is found, and a word of it shown, only by what the user
\* may search: a business field only in the collections of search_business.
BusinessHidden ==
    \A rid \in DOMAIN answers :
        /\ InText =>
              /\ HitsOf(rid) # {}
              /\ \A i \in DOMAIN answers[rid].places :
                    \E t \in HitsOf(rid) : t.place = answers[rid].places[i]
        /\ call.leaf.kind = "compare" /\ call.leaf.field \notin Technical =>
              ValuesOf(rid) # {}

\* A status mask, character by character: the last one is over the bit 0.
StatusIs(rid, v) ==
    \A i \in DOMAIN Text[v] :
        LET set == (Len(Text[v]) - i) \in Record[rid].status
        IN  /\ Text[v][i] = "0" => ~set
            /\ Text[v][i] = "1" => set

\* What the caller means by the leaf; words are looked for in the index of the language
\* and in the one without stemming.
Means(rid) ==
    LET leaf == call.leaf IN
    CASE leaf.kind \in {"all", "last"} ->
            \/ leaf.kind = "all" /\ leaf.n = 0
            \/ Cardinality({other \in Rids : MaySee(other) /\ other > rid}) < leaf.n
      [] leaf.kind \in {"words", "in"} -> EntriesOf(rid, {"", call.lng}) # {}
      [] leaf.kind = "thesaurus" -> TermsOf(rid) # {}
      [] leaf.kind = "compare" /\ leaf.field \notin Technical ->
            \E p \in ValuesOf(rid) : Compares(p.value, leaf.op, leaf.value)
      [] leaf.kind = "compare" /\ leaf.field = "recordid" -> Holds(leaf.op, rid, Number[leaf.value])
      [] leaf.kind = "compare" /\ leaf.field = "recordtype" ->
            Compares(Record[rid].type, leaf.op, leaf.value)
      [] leaf.kind = "compare" /\ leaf.field = "sha256" ->
            \E x \in Record[rid].sha : Compares(x, leaf.op, leaf.value)
      [] leaf.kind = "compare" /\ leaf.field = "recordstatus" -> StatusIs(rid, leaf.value)
      [] OTHER -> <<rid, leaf.field>> \in Subdef <=>
                    ~(Text[leaf.value] # << >> /\ Text[leaf.value][1] = "0")

\* ALL n with a sort takes the n records with the last sort keys.
LimitedByKey == call.sort # NoSort /\ call.leaf.kind = "all" /\ call.leaf.n # 0

SortKeysFit == \A p \in Prop : p.name = call.sort => p.value \notin TooLong

\* A record has 64 bits: the 65th character of a status mask, and those that follow,
\* are not looked at.
MaskFits == call.leaf.kind = "compare" /\ call.leaf.field = "recordstatus" =>
                Len(Text[call.leaf.value]) <= 64

\* What the caller should get: a sort leaves out the records without the field.
Wanted == {rid \in Rids : /\ MaySee(rid) /\ Means(rid)
                          /\ call.sort # NoSort => KeysOf(rid) # {}}

\* A record with the words of the leaf in the index without stemming only.
PlainOnly(rid) == call.leaf.kind \in {"words", "in"} /\ EntriesOf(rid, {call.lng}) = {}

Expected == {rid \in Wanted : ~PlainOnly(rid)}

\* AllFound: a leaf that MySQL runs finds exactly the records that the user may see
\* and that it means, less those without the sort field and those the words are
\* found in without stemming only: a sort, a mask that is left out because no
\* row has one, the form of a word, or the order of the rows change nothing.
AllFound ==
    pc = "done" /\ ~Tuples /\ ~LimitedByKey /\ SortKeysFit /\ MaskFits =>
        DOMAIN answers = Expected

\* PlainSearched: "searching with stem (lng) searches also non-stem index", said of words
\* that are their own stem, for which the form to look for there is the same.
PlainSearched ==
    /\ pc = "done" /\ SortKeysFit /\ call.leaf.kind \in {"words", "in"}
    /\ call.lng \in DOMAIN Stems
    /\ \A word \in call.leaf.words : FormIn(call.lng, word) = word
    => DOMAIN answers = Wanted

\* How often a place is among those of an answer; the entries or terms found there; the
\* rows each of them is in.
Count(places, place) == Cardinality({i \in DOMAIN places : places[i] = place})
HitsAt(rid, place)   == {t \in HitsOf(rid) : t.place = place}
Times(rid)           == IF call.sort = NoSort THEN 1 ELSE Cardinality(KeysOf(rid))

\* PlacesCounted: an answer keeps the place of each word and term found in its record, as
\* often as there are values of the sort field, however the rows of the records
\* are mixed: none is lost, and none comes from elsewhere.
PlacesCounted ==
    pc = "done" /\ InText /\ SortKeysFit =>
        \A rid \in DOMAIN answers : \A place \in Places :
            Count(answers[rid].places, place) = Times(rid) * Cardinality(HitsAt(rid, place))

-----------------------------------------------------------------------------
(* Why OnlyVisible and BusinessHidden hold.                                *)

\* The collections translated so far are among those of the caller.
MapsInv ==
    /\ \A i \in DOMAIN colls : \E j \in DOMAIN call.colls : colls[i] = call.colls[j]
    /\ DOMAIN cid2bid \subseteq CollsOf(call.colls)
    /\ \A b \in DOMAIN bid2cid : ~Unknown(b) /\ bid2cid[b] = Bases[b]

\* A row of _tmpmask is a right of the user, and says where business fields may
\* be searched.
TmpMaskInv ==
    /\ pc \in {"collections", "tmpmask"} => tmpmask = {}
    /\ \A m \in tmpmask :
          /\ m.coll \in CollsOf(call.colls)
          /\ \E n \in CollUsr : /\ n.site = call.site /\ n.usr = call.usr
                                /\ n.coll = m.coll
                                /\ n.mask_xor = m.mask_xor /\ n.mask_and = m.mask_and
          /\ ~m.only_business => call.business # NoList /\ m.coll \in CollsOf(call.business)

\* Masks are left out of the SQL only when no row has one.
UseMaskInv ==
    ~use_mask => /\ pc \notin {"collections", "tmpmask", "mask"}
                 /\ \A m \in tmpmask : m.mask_and = {}

\* The rows to fetch are of records and entries that the user may see.
RowsInv ==
    \A row \in rows :
        /\ ~Tuples => MaySee(row.rid)
        /\ InText => \E t \in HitsOf(row.rid) : t.place = row.place
        /\ call.leaf.kind = "compare" /\ call.leaf.field \notin Technical =>
              ValuesOf(row.rid) # {}

\* SearchInv: the inductive invariant for OnlyVisible and BusinessHidden.
SearchInv ==
    /\ TypeOK /\ MapsInv /\ TmpMaskInv /\ UseMaskInv /\ RowsInv
    /\ OnlyVisible /\ BusinessHidden

-----------------------------------------------------------------------------
(* Why AllFound and PlacesCounted hold.                                    *)

\* No collection of the caller is lost on the way to cid2bid.
MapsFull ==
    /\ CollsOf(call.colls) = DOMAIN cid2bid \cup CollsOf(colls)
    /\ pc # "collections" => colls = << >>

\* The rights of the user in the collections asked for.
Rights ==
    {[coll |-> m.coll, mask_xor |-> m.mask_xor, mask_and |-> m.mask_and,
      only_business |-> ~(call.business # NoList /\ m.coll \in CollsOf(call.business))] :
        m \in {m \in CollUsr : /\ m.site = call.site /\ m.usr = call.usr
                               /\ m.coll \in CollsOf(call.colls)}}

\* _tmpmask, if there is one, has them all.
TmpMaskFull ==
    /\ created => tmpmask = Rights
    /\ pc \in {"fetch", "done"} => created
    /\ pc \in {"collections", "tmpmask"} => ~created

\* No row is left at the end, but after a key that is cut.
RowsRead ==
    /\ pc \notin {"fetch", "done"} => rows = {} /\ DOMAIN answers = {}
    /\ \A row \in rows : row.key # NoKey => \E p \in KeysOf(row.rid) : row.key = p.value
    /\ pc = "done" /\ SortKeysFit => rows = {}

\* What is not found yet is in the rows to fetch.
RecordsAhead ==
    pc \in {"fetch", "done"} /\ ~Tuples /\ ~LimitedByKey /\ MaskFits =>
        DOMAIN answers \cup {row.rid : row \in rows} = Expected

\* Its places so far, and those of the rows to fetch.
PlacesOf(rid) == IF rid \in DOMAIN answers THEN answers[rid].places ELSE << >>
Ahead(rid)    == {row \in rows : row.rid = rid}

\* A place is found or ahead as often as it has to be in the end.
Counted(rid, places, ahead) ==
    /\ IsFiniteSet(ahead)
    /\ \A place \in Places :
          Count(places, place) + Cardinality({row \in ahead : row.place = place})
              = Times(rid) * Cardinality(HitsAt(rid, place))

PlacesAhead ==
    pc \in {"fetch", "done"} /\ InText =>
        \A rid \in DOMAIN answers \cup {row.rid : row \in rows} :
            Counted(rid, PlacesOf(rid), Ahead(rid))

\* FoundInv: the inductive invariant, with SearchInv, for the two.
FoundInv == MapsFull /\ TmpMaskFull /\ RowsRead /\ RecordsAhead /\ PlacesAhead
=============================================================================
