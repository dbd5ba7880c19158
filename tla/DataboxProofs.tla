---------------------------- MODULE DataboxProofs ----------------------------
(***************************************************************************)
(* Theorems about the search of a databox, for any session, rights, data,  *)
(* arguments and failures: whatever leaf is searched, an answer is a       *)
(* record the user may see, found by what the user may search.             *)
(***************************************************************************)
EXTENDS Databox, FiniteSetTheorems, SequenceTheorems, TLAPS

-----------------------------------------------------------------------------
(* What the SQL returns                                                    *)

\* A record the joins reach is one that the user may see.
LEMMA ReachedSeen ==
    ASSUME TmpMaskInv, UseMaskInv, NEW rid \in Reached
    PROVE  rid \in Rids /\ MaySee(rid)
<1>1. rid \in Rids /\ ModeLets(rid)
    BY DEF Reached
<1>2. PICK m \in MasksOf(rid) : use_mask => StatusLets(rid, m.mask_xor, m.mask_and)
    BY DEF Reached
<1>3. m \in tmpmask /\ m.coll = Record[rid].coll
    BY <1>2 DEF MasksOf
<1>4. StatusLets(rid, m.mask_xor, m.mask_and)
    <2>1. CASE use_mask
        BY <1>2, <2>1
    <2>2. CASE ~use_mask
        BY <1>3, <2>2 DEF UseMaskInv, StatusLets
    <2> QED
        BY <2>1, <2>2
<1>5. PICK n \in CollUsr : /\ n.site = call.site /\ n.usr = call.usr
                           /\ n.coll = m.coll
                           /\ n.mask_xor = m.mask_xor /\ n.mask_and = m.mask_and
    BY <1>3 DEF TmpMaskInv
<1>6. StatusLets(rid, n.mask_xor, n.mask_and)
    BY <1>4, <1>5
<1>7. Record[rid].coll \in CollsOf(call.colls)
    BY <1>3 DEF TmpMaskInv
<1> QED
    BY <1>1, <1>3, <1>5, <1>6, <1>7 DEF MaySee

\* An entry the condition on business fields lets through may be read.
LEMMA BusinessRead ==
    ASSUME TmpMaskInv, NEW t, BusinessLets(t)
    PROVE  MayRead(t)
BY DEF TmpMaskInv, BusinessLets, MasksOf, MayRead

\* The rows of a result: what Execute needs to know of each of them.
GoodRow(row) == row \in Row /\ row.cid = Record[row.rid].coll
                  /\ row.sha \in {{}, Record[row.rid].sha}

LEMMA RowOfGood ==
    ASSUME NEW rid \in Rids
    PROVE  GoodRow(RowOf(rid)) /\ RowOf(rid).rid = rid
BY DEF GoodRow, RowOf, Row, Keys

\* The join with the sort field changes nothing but the key.
LEMMA SortedRows ==
    ASSUME NEW found, \A row \in found : GoodRow(row), NEW row \in Sorted(found)
    PROVE  /\ GoodRow(row)
           /\ \E r \in found : row.rid = r.rid /\ row.place = r.place
<1>1. CASE call.sort = NoSort
    BY <1>1 DEF Sorted
<1>2. CASE call.sort # NoSort
    <2>1. PICK r \in found : row \in {[r EXCEPT !.key = p.value, !.prop = {p}] : p \in KeysOf(r.rid)}
        BY <1>2 DEF Sorted
    <2>2. PICK p \in KeysOf(r.rid) : row = [r EXCEPT !.key = p.value, !.prop = {p}]
        BY <2>1
    <2>3. p.value \in Keys /\ {p} \in SUBSET Prop
        BY <2>2 DEF KeysOf, Keys
    <2>4. r \in Row /\ GoodRow(r)
        BY <2>1 DEF GoodRow
    <2> QED
        BY <2>2, <2>3, <2>4 DEF Row, GoodRow
<1> QED
    BY <1>1, <1>2

\* The same for rows made of records.
LEMMA SortedRecords ==
    ASSUME NEW S \in SUBSET Rids, NEW row \in Sorted(RowsOf(S))
    PROVE  GoodRow(row) /\ row.rid \in S
<1>1. \A r \in RowsOf(S) : GoodRow(r) /\ r.rid \in S
    BY RowOfGood DEF RowsOf
<1> QED
    BY <1>1, SortedRows

LEMMA ReachedRids == Reached \subseteq Rids
BY DEF Reached

LEMMA AllGood ==
    ASSUME NEW n, NEW result \in AllRows(n), NEW row \in result
    PROVE  GoodRow(row) /\ row.rid \in Reached
<1> DEFINE S == Sorted(RowsOf(Reached))
<1>1. result \subseteq S
    BY DEF AllRows, Tops
<1> QED
    BY <1>1, ReachedRids, SortedRecords

LEMMA LastGood ==
    ASSUME NEW n, NEW result \in LastRows(n), NEW row \in result
    PROVE  GoodRow(row) /\ row.rid \in Reached
<1> DEFINE S == RowsOf(Reached)
<1>1. PICK T \in SUBSET S : result = Sorted(T)
    BY DEF LastRows, Tops
<1>2. \A r \in T : GoodRow(r) /\ r.rid \in Reached
    BY <1>1, ReachedRids, RowOfGood DEF RowsOf
<1> QED
    BY <1>1, <1>2, SortedRows

LEMMA WordsGood ==
    ASSUME NEW words, NEW fields, NEW result \in WordRows(words, fields), NEW row \in result
    PROVE  /\ GoodRow(row)
           /\ row.rid \in Reached
           /\ \E t \in Idx : /\ t.rid = row.rid /\ t.place = row.place
                             /\ KwClause(words, t) /\ t.field \in fields /\ BusinessLets(t)
<1> DEFINE E == {t \in Idx : /\ t.rid \in Reached
                             /\ KwClause(words, t)
                             /\ t.field \in fields
                             /\ BusinessLets(t)}
           found == {HitRow(t) : t \in E}
<1>1. result = Sorted(found)
    BY DEF WordRows
<1>2. ASSUME NEW r \in found
      PROVE  GoodRow(r) /\ \E t \in E : r.rid = t.rid /\ r.place = t.place
    <2>1. PICK t \in E : r = HitRow(t)
        BY <1>2
    <2>2. t.rid \in Rids /\ t.place \in Places
        BY <2>1, ReachedRids DEF Places
    <2>3. RowOf(t.rid) \in Row /\ GoodRow(RowOf(t.rid)) /\ RowOf(t.rid).rid = t.rid
        BY <2>2, RowOfGood DEF GoodRow
    <2>4. GoodRow(r) /\ r.rid = t.rid /\ r.place = t.place
        BY <2>1, <2>2, <2>3 DEF GoodRow, Row, HitRow
    <2> QED
        BY <2>4
<1>3. PICK r \in found : row.rid = r.rid /\ row.place = r.place
    BY <1>1, <1>2, SortedRows
<1>4. PICK t \in E : r.rid = t.rid /\ r.place = t.place
    BY <1>2
<1>5. GoodRow(row)
    BY <1>1, <1>2, SortedRows
<1> QED
    BY <1>3, <1>4, <1>5

LEMMA ThesaurusGood ==
    ASSUME NEW names, NEW values, NEW result \in ThesaurusRows(names, values), NEW row \in result
    PROVE  /\ GoodRow(row)
           /\ row.rid \in Reached
           /\ \E t \in Thit : /\ t.rid = row.rid /\ t.place = row.place
                             /\ t.name \in names /\ (\E v \in values : t.value \in Like[v])
                             /\ BusinessLets(t)
<1> DEFINE E == {t \in Thit : /\ t.rid \in Reached
                             /\ t.name \in names
                             /\ \E v \in values : t.value \in Like[v]
                             /\ BusinessLets(t)}
           found == {HitRow(t) : t \in E}
<1>1. result = Sorted(found)
    BY DEF ThesaurusRows
<1>2. ASSUME NEW r \in found
      PROVE  GoodRow(r) /\ \E t \in E : r.rid = t.rid /\ r.place = t.place
    <2>1. PICK t \in E : r = HitRow(t)
        BY <1>2
    <2>2. t.rid \in Rids /\ t.place \in Places
        BY <2>1, ReachedRids DEF Places
    <2>3. RowOf(t.rid) \in Row /\ GoodRow(RowOf(t.rid)) /\ RowOf(t.rid).rid = t.rid
        BY <2>2, RowOfGood DEF GoodRow
    <2>4. GoodRow(r) /\ r.rid = t.rid /\ r.place = t.place
        BY <2>1, <2>2, <2>3 DEF GoodRow, Row, HitRow
    <2> QED
        BY <2>4
<1>3. PICK r \in found : row.rid = r.rid /\ row.place = r.place
    BY <1>1, <1>2, SortedRows
<1>4. PICK t \in E : r.rid = t.rid /\ r.place = t.place
    BY <1>2
<1>5. GoodRow(row)
    BY <1>1, <1>2, SortedRows
<1> QED
    BY <1>3, <1>4, <1>5

IsTuples(name, op, v) == name = "sha256" /\ op = "=" /\ v = "sha256"

LEMMA CompareGood ==
    ASSUME NEW name, NEW op, NEW v, NEW result \in CompareRows(name, op, v), NEW row \in result
    PROVE  /\ GoodRow(row)
           /\ ~IsTuples(name, op, v) => row.rid \in Reached
           /\ name \notin Technical =>
                 \E p \in Prop : p.rid = row.rid /\ p.name = name /\ BusinessLets(p)
<1> DEFINE Record1(S) == S \in SUBSET Reached /\ result = Sorted(RowsOf(S))
<1>1. ASSUME NEW S, Record1(S)
      PROVE  GoodRow(row) /\ row.rid \in S /\ row.rid \in Reached
    BY <1>1, ReachedRids, SortedRecords
<1>2. CASE IsTuples(name, op, v)
    <2>1. result \in TupleRows
        BY <1>2 DEF CompareRows, IsTuples
    <2>2. PICK rid \in Rids : row = [RowOf(rid) EXCEPT !.sha = Record[rid].sha]
        BY <2>1 DEF TupleRows
    <2>3. GoodRow(RowOf(rid)) /\ RowOf(rid) \in Row /\ RowOf(rid).rid = rid
        BY <2>2, RowOfGood DEF GoodRow
    <2>4. Record[rid].sha \in {{}} \cup {Record[r].sha : r \in Rids}
        OBVIOUS
    <2>5. GoodRow(row)
        BY <2>2, <2>3, <2>4 DEF GoodRow, Row
    <2> QED
        BY <1>2, <2>5 DEF IsTuples, Technical
<1>3. CASE ~IsTuples(name, op, v) /\ name \in {"thumbnail", "preview", "document"}
    <2>1. result \in SubdefRows(name, v)
        BY <1>3 DEF CompareRows, IsTuples
    <2>2. PICK S \in SUBSET Reached : Record1(S)
        BY <2>1 DEF SubdefRows
    <2> QED
        BY <1>1, <1>3, <2>2 DEF Technical
<1>4. CASE name = "recordstatus"
    <2>1. result \in StatusRows(v)
        BY <1>4 DEF CompareRows
    <2>2. PICK S \in SUBSET Reached : Record1(S)
        BY <2>1 DEF StatusRows
    <2> QED
        BY <1>1, <1>4, <2>2 DEF Technical
<1>5. CASE ~IsTuples(name, op, v) /\ name \in {"recordid", "recordtype", "sha256"}
    <2>1. result \in ColumnRows(name, op, v)
        BY <1>5 DEF CompareRows, IsTuples
    <2>2. PICK S \in SUBSET Reached : Record1(S)
        BY <2>1 DEF ColumnRows
    <2> QED
        BY <1>1, <1>5, <2>2 DEF Technical
<1>6. CASE name \notin Technical
    <2>1. result \in FieldRows(name, op, v)
        BY <1>6 DEF CompareRows, Technical
    <2> DEFINE S == {rid \in Reached : \E p \in Prop : /\ p.rid = rid /\ p.name = name
                                                       /\ Compares(p.value, op, v)
                                                       /\ BusinessLets(p)}
    <2>2. Record1(S)
        BY <2>1 DEF FieldRows
    <2>3. GoodRow(row) /\ row.rid \in S
        BY <1>1, <2>2
    <2> QED
        BY <2>3
<1> QED
    BY <1>2, <1>3, <1>4, <1>5, <1>6 DEF Technical, IsTuples

\* Everything RowsInv says of the rows of a leaf.
LEMMA ResultsGood ==
    ASSUME TypeOK, TmpMaskInv, UseMaskInv,
           NEW result \in Results(call.leaf), NEW row \in result
    PROVE  /\ GoodRow(row)
           /\ ~Tuples => MaySee(row.rid)
           /\ InText => \E t \in HitsOf(row.rid) : t.place = row.place
           /\ call.leaf.kind = "compare" /\ call.leaf.field \notin Technical =>
                 ValuesOf(row.rid) # {}
<1> DEFINE leaf == call.leaf
<1>0. leaf.kind \in Kinds
    BY CallsAssumption DEF TypeOK
<1>1. CASE leaf.kind = "all"
    <2>1. GoodRow(row) /\ row.rid \in Reached
        BY <1>1, AllGood DEF Results
    <2> QED
        BY <1>1, <2>1, ReachedSeen DEF InText
<1>2. CASE leaf.kind = "last"
    <2>1. GoodRow(row) /\ row.rid \in Reached
        BY <1>2, LastGood DEF Results
    <2> QED
        BY <1>2, <2>1, ReachedSeen DEF InText
<1>3. CASE leaf.kind \in {"words", "in"}
    <2>1. PICK fields : result \in WordRows(leaf.words, fields)
                        /\ (leaf.kind = "in" => fields = {leaf.field})
        BY <1>3 DEF Results
    <2>2. GoodRow(row) /\ row.rid \in Reached
        BY <2>1, WordsGood
    <2>3. PICK t \in Idx : /\ t.rid = row.rid /\ t.place = row.place
                           /\ KwClause(leaf.words, t) /\ t.field \in fields /\ BusinessLets(t)
        BY <2>1, WordsGood
    <2>4. MayRead(t)
        BY <2>3, BusinessRead
    <2>5. t \in EntriesOf(row.rid, {call.lng})
        BY <2>1, <2>3, <2>4 DEF EntriesOf, KwClause, FormIn
    <2> QED
        BY <1>3, <2>2, <2>3, <2>5, ReachedSeen DEF HitsOf
<1>4. CASE leaf.kind = "thesaurus"
    <2>1. PICK names : result \in ThesaurusRows(names, leaf.words)
                       /\ (names = {leaf.field} \/ leaf.field = "*")
        BY <1>4 DEF Results
    <2>2. GoodRow(row) /\ row.rid \in Reached
        BY <2>1, ThesaurusGood
    <2>3. PICK t \in Thit : /\ t.rid = row.rid /\ t.place = row.place /\ t.name \in names
                            /\ \E v \in leaf.words : t.value \in Like[v]
                            /\ BusinessLets(t)
        BY <2>1, ThesaurusGood
    <2>4. MayRead(t)
        BY <2>3, BusinessRead
    <2>5. t \in TermsOf(row.rid)
        BY <2>1, <2>3, <2>4 DEF TermsOf
    <2> QED
        BY <1>4, <2>2, <2>3, <2>5, ReachedSeen DEF HitsOf
<1>5. CASE leaf.kind = "compare"
    <2>1. result \in CompareRows(leaf.field, leaf.op, leaf.value)
        BY <1>5 DEF Results
    <2>2. /\ GoodRow(row)
          /\ ~IsTuples(leaf.field, leaf.op, leaf.value) => row.rid \in Reached
          /\ leaf.field \notin Technical =>
                \E p \in Prop : p.rid = row.rid /\ p.name = leaf.field /\ BusinessLets(p)
        BY <2>1, CompareGood
    <2>3. IsTuples(leaf.field, leaf.op, leaf.value) <=> Tuples
        BY <1>5 DEF IsTuples, Tuples
    <2>4. ASSUME leaf.field \notin Technical
          PROVE  ValuesOf(row.rid) # {}
        <3>1. PICK p \in Prop : p.rid = row.rid /\ p.name = leaf.field /\ BusinessLets(p)
            BY <2>2, <2>4
        <3>2. MayRead(p)
            BY <3>1, BusinessRead
        <3>3. p \in ValuesOf(row.rid)
            BY <3>1, <3>2 DEF ValuesOf
        <3> QED
            BY <3>3
    <2> QED
        BY <1>5, <2>2, <2>3, <2>4, ReachedSeen DEF InText
<1> QED
    BY <1>0, <1>1, <1>2, <1>3, <1>4, <1>5 DEF Kinds

-----------------------------------------------------------------------------
(* The invariant                                                           *)

LEMMA InitSearch == Init => SearchInv
<1> SUFFICES ASSUME Init PROVE SearchInv
    OBVIOUS
<1>1. DOMAIN Empty = {}
    BY DEF Empty
<1>2. TypeOK
    BY <1>1, CallsAssumption DEF Init, TypeOK
<1>3. MapsInv
    BY <1>1 DEF Init, MapsInv
<1>4. TmpMaskInv /\ UseMaskInv /\ RowsInv
    BY DEF Init, TmpMaskInv, UseMaskInv, RowsInv
<1>5. OnlyVisible /\ BusinessHidden
    BY <1>1 DEF Init, OnlyVisible, BusinessHidden
<1> QED
    BY <1>2, <1>3, <1>4, <1>5 DEF SearchInv

\* What only depends on the arguments of the call.
LEMMA SameColls ==
    ASSUME call' = call
    PROVE  \A bases : CollsOf(bases)' = CollsOf(bases)
BY DEF CollsOf, Unknown

LEMMA SameEntries ==
    ASSUME call' = call
    PROVE  /\ \A rid : EntriesOf(rid, {call.lng})' = EntriesOf(rid, {call.lng})
           /\ \A rid : EntriesOf(rid, {"", call.lng})' = EntriesOf(rid, {"", call.lng})
           /\ \A rid : TermsOf(rid)' = TermsOf(rid)
<1>1. \A t : MayRead(t)' <=> MayRead(t)
    BY DEF MayRead, CollsOf, Unknown
<1>2. \A rid : EntriesOf(rid, {"", call.lng})' = EntriesOf(rid, {"", call.lng})
    BY <1>1 DEF EntriesOf, FormIn
<1>3. \A rid : TermsOf(rid)' = TermsOf(rid)
    BY <1>1 DEF TermsOf
<1>4. \A rid : EntriesOf(rid, {call.lng})' = EntriesOf(rid, {call.lng})
    BY <1>1 DEF EntriesOf, FormIn
<1> QED
    BY <1>2, <1>3, <1>4

LEMMA SameCall ==
    ASSUME call' = call
    PROVE  /\ \A bases : CollsOf(bases)' = CollsOf(bases)
           /\ \A rid : MaySee(rid)' <=> MaySee(rid)
           /\ InText' <=> InText
           /\ \A rid : HitsOf(rid)' = HitsOf(rid)
           /\ \A rid : ValuesOf(rid)' = ValuesOf(rid)
           /\ Tuples' <=> Tuples
<1>1. \A rid : MaySee(rid)' <=> MaySee(rid)
    BY DEF MaySee, ModeLets, CollsOf, Unknown, StatusLets
<1>2. \A t : MayRead(t)' <=> MayRead(t)
    BY DEF MayRead, CollsOf, Unknown
<1>3. \A rid : HitsOf(rid)' = HitsOf(rid)
    BY SameEntries DEF HitsOf
<1>4. \A rid : ValuesOf(rid)' = ValuesOf(rid)
    BY <1>2 DEF ValuesOf
<1> QED
    BY <1>1, <1>3, <1>4, SameColls DEF InText, Tuples

\* The answers stay as they are.
LEMMA SameAnswers ==
    ASSUME SearchInv, call' = call, answers' = answers
    PROVE  OnlyVisible' /\ BusinessHidden'
<1>1. OnlyVisible'
    BY SameCall DEF SearchInv, OnlyVisible
<1>2. BusinessHidden'
    BY SameCall DEF SearchInv, BusinessHidden
<1> QED
    BY <1>1, <1>2

LEMMA SameRows ==
    ASSUME SearchInv, call' = call, rows' = rows
    PROVE  RowsInv'
BY SameCall DEF SearchInv, RowsInv

LEMMA TakeCollectionSearch ==
    ASSUME SearchInv, TakeCollection
    PROVE  SearchInv'
<1>1. /\ call' = call /\ pc' = pc /\ rows' = rows /\ answers' = answers
      /\ created' = created /\ tmpmask' = tmpmask /\ use_mask' = use_mask
      /\ colls # << >> /\ colls' = Tail(colls)
    BY DEF TakeCollection
<1>2. colls \in Seq(Int \cup {NoLong})
    BY DEF SearchInv, TypeOK
<1>3. /\ colls' \in Seq(Int \cup {NoLong})
      /\ \A i \in DOMAIN colls' : \E j \in DOMAIN colls : colls'[i] = colls[j]
      /\ 1 \in DOMAIN colls /\ Head(colls) = colls[1]
    BY <1>1, <1>2
<1>4. \E j \in DOMAIN call.colls : Head(colls) = call.colls[j]
    BY <1>3 DEF SearchInv, MapsInv
<1> DEFINE base == Head(colls)
<1>5. ASSUME Unknown(base)
      PROVE  TypeOK' /\ MapsInv'
    <2>1. cid2bid' = cid2bid /\ bid2cid' = bid2cid
        BY <1>5 DEF TakeCollection
    <2>2. TypeOK'
        BY <1>1, <1>3, <2>1 DEF SearchInv, TypeOK
    <2>3. MapsInv'
        <3>1. \A i \in DOMAIN colls' : \E j \in DOMAIN call.colls : colls'[i] = call.colls[j]
            BY <1>3 DEF SearchInv, MapsInv
        <3> QED
            BY <1>1, <2>1, <3>1, SameCall DEF SearchInv, MapsInv, Unknown
    <2> QED
        BY <2>2, <2>3
<1>6. ASSUME ~Unknown(base)
      PROVE  TypeOK' /\ MapsInv'
    <2>1. /\ cid2bid' = Put(cid2bid, Bases[base], base)
          /\ bid2cid' = Put(bid2cid, base, Bases[base])
        BY <1>6 DEF TakeCollection
    <2>2. base \in DOMAIN Bases
        BY <1>6 DEF Unknown
    <2>3. /\ DOMAIN cid2bid' = DOMAIN cid2bid \cup {Bases[base]}
          /\ cid2bid'[Bases[base]] = base
          /\ \A cid \in DOMAIN cid2bid \ {Bases[base]} : cid2bid'[cid] = cid2bid[cid]
          /\ DOMAIN bid2cid' = DOMAIN bid2cid \cup {base}
          /\ bid2cid'[base] = Bases[base]
          /\ \A b \in DOMAIN bid2cid \ {base} : bid2cid'[b] = bid2cid[b]
        BY <2>1 DEF Put
    <2>4. TypeOK'
        BY <1>1, <1>3, <2>2, <2>3 DEF SearchInv, TypeOK
    <2>5. Bases[base] \in CollsOf(call.colls)
        BY <1>4, <1>6 DEF CollsOf
    <2>6. MapsInv'
        <3>1. \A i \in DOMAIN colls' : \E j \in DOMAIN call.colls : colls'[i] = call.colls[j]
            BY <1>3 DEF SearchInv, MapsInv
        <3>2. DOMAIN cid2bid' \subseteq CollsOf(call.colls)
            BY <2>3, <2>5 DEF SearchInv, MapsInv
        <3>3. \A b \in DOMAIN bid2cid' : ~Unknown(b) /\ bid2cid'[b] = Bases[b]
            BY <1>6, <2>3 DEF SearchInv, MapsInv
        <3>4. \A b : Unknown(b)' <=> Unknown(b)
            BY DEF Unknown
        <3> QED
            BY <1>1, <3>1, <3>2, <3>3, <3>4, SameCall DEF MapsInv
    <2> QED
        BY <2>4, <2>6
<1>7. TypeOK' /\ MapsInv'
    BY <1>5, <1>6
<1>8. TmpMaskInv'
    BY <1>1, SameCall DEF SearchInv, TmpMaskInv
<1>9. UseMaskInv'
    BY <1>1 DEF SearchInv, UseMaskInv
<1> QED
    BY <1>1, <1>7, <1>8, <1>9, SameRows, SameAnswers DEF SearchInv

LEMMA ConnectSearch ==
    ASSUME SearchInv, Connect
    PROVE  SearchInv'
<1>1. /\ pc = "collections" /\ pc' \in {"tmpmask", "failed"}
      /\ UNCHANGED <<call, colls, cid2bid, bid2cid, created, tmpmask, use_mask, rows, answers>>
    BY DEF Connect
<1>2. TypeOK'
    BY <1>1 DEF SearchInv, TypeOK
<1>3. MapsInv'
    BY <1>1, SameCall DEF SearchInv, MapsInv, Unknown
<1>4. TmpMaskInv'
    BY <1>1, SameCall DEF SearchInv, TmpMaskInv
<1>5. UseMaskInv'
    BY <1>1 DEF SearchInv, UseMaskInv
<1> QED
    BY <1>1, <1>2, <1>3, <1>4, <1>5, SameRows, SameAnswers DEF SearchInv

\* A collection that is not only_business is in search_business: no base was
\* missing from bid2cid, so each stands for the collection it names.
LEMMA TmpMaskGood ==
    ASSUME SearchInv, ~Throws, NEW m \in TmpMask
    PROVE  /\ m.coll \in CollsOf(call.colls)
           /\ \E n \in CollUsr : /\ n.site = call.site /\ n.usr = call.usr
                                 /\ n.coll = m.coll
                                 /\ n.mask_xor = m.mask_xor /\ n.mask_and = m.mask_and
           /\ ~m.only_business => call.business # NoList /\ m.coll \in CollsOf(call.business)
<1>1. PICK n \in CollUsr :
          /\ n.site = call.site /\ n.usr = call.usr /\ n.coll \in DOMAIN cid2bid
          /\ m = [coll |-> n.coll, mask_xor |-> n.mask_xor, mask_and |-> n.mask_and,
                  only_business |-> OnlyBusiness(n.coll)]
    BY DEF TmpMask
<1>2. n.coll \in CollsOf(call.colls)
    BY <1>1 DEF SearchInv, MapsInv
<1>3. ASSUME ~m.only_business
      PROVE  call.business # NoList /\ m.coll \in CollsOf(call.business)
    <2>1. ~OnlyBusiness(n.coll)
        BY <1>1, <1>3
    <2>2. PICK i \in DOMAIN call.business :
              call.business[i] # NoLong /\ bid2cid[call.business[i]] = n.coll
        BY <2>1 DEF OnlyBusiness
    <2>3. call.business # NoList
        BY <2>1 DEF OnlyBusiness
    <2>4. call.business[i] \in DOMAIN bid2cid
        BY <2>2, <2>3 DEF Throws
    <2>5. ~Unknown(call.business[i]) /\ bid2cid[call.business[i]] = Bases[call.business[i]]
        BY <2>4 DEF SearchInv, MapsInv
    <2>6. n.coll \in CollsOf(call.business)
        BY <2>2, <2>5 DEF CollsOf
    <2> QED
        BY <1>1, <2>3, <2>6
<1> QED
    BY <1>1, <1>2, <1>3

LEMMA CreateTmpMaskSearch ==
    ASSUME SearchInv, CreateTmpMask
    PROVE  SearchInv'
<1>1. /\ pc = "tmpmask" /\ pc' \in {"aborted", "mask"}
      /\ UNCHANGED <<call, colls, cid2bid, bid2cid, use_mask, rows, answers>>
    BY DEF CreateTmpMask
<1>2. created' \in BOOLEAN
    BY DEF CreateTmpMask, SearchInv, TypeOK
<1>3. \/ tmpmask' = tmpmask /\ tmpmask' = {}
      \/ ~Throws /\ tmpmask' = TmpMask
    BY <1>1 DEF CreateTmpMask, SearchInv, TmpMaskInv
<1>4. TypeOK'
    BY <1>1, <1>2 DEF SearchInv, TypeOK
<1>5. MapsInv'
    BY <1>1, SameCall DEF SearchInv, MapsInv, Unknown
<1>6. \A m \in tmpmask' :
          /\ m.coll \in CollsOf(call.colls)
          /\ \E n \in CollUsr : /\ n.site = call.site /\ n.usr = call.usr
                                /\ n.coll = m.coll
                                /\ n.mask_xor = m.mask_xor /\ n.mask_and = m.mask_and
          /\ ~m.only_business => call.business # NoList /\ m.coll \in CollsOf(call.business)
    BY <1>3, TmpMaskGood
<1>7. TmpMaskInv'
    BY <1>1, <1>6, SameCall DEF TmpMaskInv
<1>8. UseMaskInv'
    BY <1>1 DEF SearchInv, UseMaskInv
<1> QED
    BY <1>1, <1>4, <1>5, <1>7, <1>8, SameRows, SameAnswers DEF SearchInv

LEMMA ReadMaskSearch ==
    ASSUME SearchInv, ReadMask
    PROVE  SearchInv'
<1>1. /\ pc = "mask" /\ pc' = "leaf" /\ use_mask' = ~NoMask
      /\ UNCHANGED <<call, colls, cid2bid, bid2cid, created, tmpmask, rows, answers>>
    BY DEF ReadMask
<1>2. use_mask' \in BOOLEAN
    BY <1>1 DEF NoMask
<1>3. TypeOK'
    BY <1>1, <1>2 DEF SearchInv, TypeOK
<1>4. MapsInv'
    BY <1>1, SameCall DEF SearchInv, MapsInv, Unknown
<1>5. TmpMaskInv'
    BY <1>1, SameCall DEF SearchInv, TmpMaskInv
<1>6. UseMaskInv'
    BY <1>1 DEF NoMask, UseMaskInv
<1> QED
    BY <1>1, <1>3, <1>4, <1>5, <1>6, SameRows, SameAnswers DEF SearchInv

LEMMA ExecuteSearch ==
    ASSUME SearchInv, Execute
    PROVE  SearchInv'
<1>1. /\ pc = "leaf" /\ pc' \in {"fetch", "failed"}
      /\ UNCHANGED <<call, colls, cid2bid, bid2cid, created, tmpmask, use_mask, answers>>
    BY DEF Execute
<1>2. MapsInv'
    BY <1>1, SameCall DEF SearchInv, MapsInv, Unknown
<1>3. TmpMaskInv'
    BY <1>1, SameCall DEF SearchInv, TmpMaskInv
<1>4. UseMaskInv'
    BY <1>1 DEF SearchInv, UseMaskInv
<1>5. CASE rows' = rows
    <2>1. TypeOK'
        BY <1>1, <1>5 DEF SearchInv, TypeOK
    <2> QED
        BY <1>1, <1>2, <1>3, <1>4, <1>5, <2>1, SameRows, SameAnswers DEF SearchInv
<1>6. CASE rows' \in Results(call.leaf)
    <2>1. TypeOK /\ TmpMaskInv /\ UseMaskInv
        BY DEF SearchInv
    <2>2. \A row \in rows' :
              /\ GoodRow(row)
              /\ ~Tuples => MaySee(row.rid)
              /\ InText => \E t \in HitsOf(row.rid) : t.place = row.place
              /\ call.leaf.kind = "compare" /\ call.leaf.field \notin Technical =>
                    ValuesOf(row.rid) # {}
        BY <1>6, <2>1, ResultsGood
    <2>3. RowsInv'
        BY <1>1, <2>2, SameCall DEF RowsInv
    <2>4. TypeOK'
        BY <1>1, <2>1, <2>2 DEF TypeOK, GoodRow
    <2> QED
        BY <1>1, <1>2, <1>3, <1>4, <2>3, <2>4, SameAnswers DEF SearchInv
<1>7. rows' = rows \/ rows' \in Results(call.leaf)
    BY DEF Execute
<1> QED
    BY <1>5, <1>6, <1>7

LEMMA FetchSearch ==
    ASSUME SearchInv, Fetch
    PROVE  SearchInv'
<1>1. PICK row \in rows : /\ rows' = rows \ {row}
                          /\ answers' = Put(answers, row.rid, AnswerWith(row))
    BY DEF Fetch
<1>2. /\ UNCHANGED <<call, pc, colls, cid2bid, bid2cid, created, tmpmask, use_mask>>
    BY DEF Fetch
<1> DEFINE rid == row.rid
           new == AnswerWith(row)
<1>3. /\ DOMAIN answers' = DOMAIN answers \cup {rid}
      /\ answers'[rid] = new
      /\ \A r \in DOMAIN answers \ {rid} : answers'[r] = answers[r]
    <2> HIDE DEF new
    <2>1. answers' = Put(answers, rid, new)
        BY <1>1 DEF new
    <2> QED
        BY <2>1 DEF Put
<1>4. /\ row \in Row /\ row.cid = Record[rid].coll /\ row.sha \in {{}, Record[rid].sha}
    BY <1>1 DEF SearchInv, TypeOK
<1>5. rid \in Rids /\ row.key \in Keys /\ row.place \in Places \cup {NoPlace}
    BY <1>4 DEF Row
<1> DEFINE place == IF row.place = NoPlace THEN << >> ELSE <<row.place>>
<1>6. place \in Seq(Places) /\ \A i \in DOMAIN place : place[i] = row.place
    BY <1>5
<1>7. rid \in DOMAIN answers => answers[rid].places \in Seq(Places)
    BY DEF SearchInv, TypeOK
<1>8. /\ new.places \in Seq(Places)
      /\ \A i \in DOMAIN new.places :
            \/ new.places[i] = row.place
            \/ /\ rid \in DOMAIN answers
               /\ \E j \in DOMAIN answers[rid].places : new.places[i] = answers[rid].places[j]
    <2> HIDE DEF place
    <2>1. CASE rid \in DOMAIN answers
        <3> DEFINE old == answers[rid].places
        <3>1. new.places = old \o place
            BY <2>1 DEF AnswerWith, place
        <3>2. old \in Seq(Places)
            BY <1>7, <2>1
        <3>3. /\ old \o place \in Seq(Places)
              /\ \A i \in DOMAIN (old \o place) :
                    \/ \E j \in DOMAIN old : (old \o place)[i] = old[j]
                    \/ \E j \in DOMAIN place : (old \o place)[i] = place[j]
            BY <1>6, <3>2
        <3> QED
            BY <1>6, <2>1, <3>1, <3>3
    <2>2. CASE rid \notin DOMAIN answers
        <3>1. new.places = place
            BY <2>2 DEF AnswerWith, place
        <3> QED
            BY <1>6, <3>1
    <2> QED
        BY <2>1, <2>2
<1>9. /\ new.cid = Record[rid].coll /\ new.key \in Keys
      /\ new.sha \in {{}, Record[rid].sha}
    BY <1>4, <1>5 DEF SearchInv, TypeOK, AnswerWith
<1> HIDE DEF new
<1>10. TypeOK'
    BY <1>1, <1>2, <1>3, <1>5, <1>8, <1>9 DEF SearchInv, TypeOK
<1>11. OnlyVisible'
    BY <1>1, <1>2, <1>3, SameCall DEF SearchInv, OnlyVisible, RowsInv
<1>12. BusinessHidden'
    <2>1. ASSUME NEW r \in DOMAIN answers'
          PROVE  /\ InText =>
                       /\ HitsOf(r) # {}
                       /\ \A i \in DOMAIN answers'[r].places :
                             \E t \in HitsOf(r) : t.place = answers'[r].places[i]
                 /\ call.leaf.kind = "compare" /\ call.leaf.field \notin Technical =>
                       ValuesOf(r) # {}
        <3>1. CASE r # rid
            BY <1>3, <2>1, <3>1 DEF SearchInv, BusinessHidden
        <3>2. CASE r = rid
            <4>1. /\ InText => \E t \in HitsOf(rid) : t.place = row.place
                  /\ call.leaf.kind = "compare" /\ call.leaf.field \notin Technical =>
                        ValuesOf(rid) # {}
                BY <1>1 DEF SearchInv, RowsInv
            <4>2. ASSUME InText, NEW i \in DOMAIN new.places
                  PROVE  \E t \in HitsOf(rid) : t.place = new.places[i]
                <5>1. CASE new.places[i] = row.place
                    BY <4>1, <4>2, <5>1
                <5>2. CASE new.places[i] # row.place
                    BY <1>8, <4>2, <5>2 DEF SearchInv, BusinessHidden
                <5> QED
                    BY <5>1, <5>2
            <4> QED
                BY <1>3, <3>2, <4>1, <4>2
        <3> QED
            BY <3>1, <3>2
    <2> QED
        BY <1>2, <2>1, SameCall DEF BusinessHidden
<1>13. RowsInv'
    BY <1>1, <1>2, SameCall DEF SearchInv, RowsInv
<1>14. MapsInv'
    BY <1>2, SameCall DEF SearchInv, MapsInv, Unknown
<1>15. TmpMaskInv'
    BY <1>2, SameCall DEF SearchInv, TmpMaskInv
<1>16. UseMaskInv'
    BY <1>2 DEF SearchInv, UseMaskInv
<1> QED
    BY <1>10, <1>11, <1>12, <1>13, <1>14, <1>15, <1>16 DEF SearchInv

LEMMA EndOfRowsSearch ==
    ASSUME SearchInv, EndOfRows
    PROVE  SearchInv'
<1>1. /\ pc = "fetch" /\ pc' = "done"
      /\ UNCHANGED <<call, colls, cid2bid, bid2cid, created, tmpmask, use_mask, rows, answers>>
    BY DEF EndOfRows
<1>2. TypeOK'
    BY <1>1 DEF SearchInv, TypeOK
<1>3. MapsInv'
    BY <1>1, SameCall DEF SearchInv, MapsInv, Unknown
<1>4. TmpMaskInv'
    BY <1>1, SameCall DEF SearchInv, TmpMaskInv
<1>5. UseMaskInv'
    BY <1>1 DEF SearchInv, UseMaskInv
<1> QED
    BY <1>1, <1>2, <1>3, <1>4, <1>5, SameRows, SameAnswers DEF SearchInv

LEMMA StutterSearch ==
    ASSUME SearchInv, UNCHANGED vars
    PROVE  SearchInv'
<1>1. UNCHANGED <<call, pc, colls, cid2bid, bid2cid, created, tmpmask, use_mask, rows, answers>>
    BY DEF vars
<1>2. TypeOK'
    BY <1>1 DEF SearchInv, TypeOK
<1>3. MapsInv'
    BY <1>1, SameCall DEF SearchInv, MapsInv, Unknown
<1>4. TmpMaskInv'
    BY <1>1, SameCall DEF SearchInv, TmpMaskInv
<1>5. UseMaskInv'
    BY <1>1 DEF SearchInv, UseMaskInv
<1> QED
    BY <1>1, <1>2, <1>3, <1>4, <1>5, SameRows, SameAnswers DEF SearchInv

-----------------------------------------------------------------------------
(* Theorems                                                                *)

\* SearchInv is an invariant of the search: the collections, the rights and the
\* rows that are still to come are those of the caller at every step of
\* phrasea_query2 and phrasea_query.
THEOREM SearchInvariant == Spec => []SearchInv
<1>1. SearchInv /\ [Next]_vars => SearchInv'
    <2> SUFFICES ASSUME SearchInv, [Next]_vars PROVE SearchInv'
        OBVIOUS
    <2> QED
        BY TakeCollectionSearch, ConnectSearch, CreateTmpMaskSearch, ReadMaskSearch,
           ExecuteSearch, FetchSearch, EndOfRowsSearch, StutterSearch DEF Next
<1> QED
    BY InitSearch, <1>1, PTL DEF Spec

\* The types of the search of a databox, for any tables and arguments.
THEOREM SearchTypes == Spec => []TypeOK
<1>1. SearchInv => TypeOK
    BY DEF SearchInv
<1> QED
    BY <1>1, SearchInvariant, PTL

\* For any rights and data, sorted or not, and with the masks or without them in
\* the SQL, every answer of a leaf other than sha256=sha256 is a record the
\* user may see in a collection that was asked for.
THEOREM AnswersAreVisible == Spec => []OnlyVisible
<1>1. SearchInv => OnlyVisible
    BY DEF SearchInv
<1> QED
    BY <1>1, SearchInvariant, PTL

\* For any rights and data, a record is found, and a place of it kept to be
\* highlighted, only by a field that is not business or in a collection of
\* search_business.
THEOREM BusinessIsHidden == Spec => []BusinessHidden
<1>1. SearchInv => BusinessHidden
    BY DEF SearchInv
<1> QED
    BY <1>1, SearchInvariant, PTL
-----------------------------------------------------------------------------
(* Nothing is missed: what the SQL returns is all that is wanted           *)

\* The joins and the masks let through every record the user may see.
LEMMA ReachedExact ==
    ASSUME TmpMaskInv, UseMaskInv, TmpMaskFull, created
    PROVE  Reached = {rid \in Rids : MaySee(rid)}
<1>1. ASSUME NEW rid \in Rids, MaySee(rid)
      PROVE  rid \in Reached
    <2>1. PICK n \in CollUsr : /\ n.site = call.site /\ n.usr = call.usr
                               /\ n.coll = Record[rid].coll
                               /\ StatusLets(rid, n.mask_xor, n.mask_and)
        BY <1>1 DEF MaySee
    <2>2. n.coll \in CollsOf(call.colls) /\ ModeLets(rid)
        BY <1>1, <2>1 DEF MaySee
    <2> DEFINE m == [coll |-> n.coll, mask_xor |-> n.mask_xor, mask_and |-> n.mask_and,
                     only_business |-> ~(/\ call.business # NoList
                                         /\ n.coll \in CollsOf(call.business))]
    <2>3. m \in Rights
        BY <2>1, <2>2 DEF Rights
    <2>4. m \in tmpmask
        BY <2>3 DEF TmpMaskFull
    <2>5. m.coll = Record[rid].coll /\ StatusLets(rid, m.mask_xor, m.mask_and)
        BY <2>1
    <2> HIDE DEF m
    <2>6. m \in MasksOf(rid)
        BY <2>4, <2>5 DEF MasksOf
    <2> QED
        BY <2>2, <2>5, <2>6 DEF Reached
<1> QED
    BY <1>1, ReachedSeen

\* In a record that is reached, the condition on business fields is that of the caller.
LEMMA BusinessExact ==
    ASSUME TmpMaskInv, TmpMaskFull, created, NEW t, t.rid \in Reached
    PROVE  BusinessLets(t) <=> MayRead(t)
<1>1. ASSUME MayRead(t), t.business
      PROVE  \E m \in MasksOf(t.rid) : ~m.only_business
    <2>1. PICK m \in tmpmask : m \in MasksOf(t.rid) /\ m.coll = Record[t.rid].coll
        BY DEF Reached, MasksOf
    <2>2. PICK n \in CollUsr :
              m = [coll |-> n.coll, mask_xor |-> n.mask_xor, mask_and |-> n.mask_and,
                   only_business |-> ~(/\ call.business # NoList
                                       /\ n.coll \in CollsOf(call.business))]
        BY <2>1 DEF TmpMaskFull, Rights
    <2>3. call.business # NoList /\ Record[t.rid].coll \in CollsOf(call.business)
        BY <1>1 DEF MayRead
    <2>4. ~m.only_business
        BY <2>1, <2>2, <2>3
    <2> QED
        BY <2>1, <2>4
<1>2. MayRead(t) => BusinessLets(t)
    BY <1>1 DEF BusinessLets
<1> QED
    BY <1>2, BusinessRead

\* A record that the sort does not leave out.
HasSortField(rid) == call.sort # NoSort => KeysOf(rid) # {}

\* What the join with the sort field makes of a row.
JoinRows(row) == {[row EXCEPT !.key = p.value, !.prop = {p}] : p \in KeysOf(row.rid)}

\* It gives each row once for each value of the field.
LEMMA SortedKeeps ==
    ASSUME NEW found, \A r \in found : GoodRow(r), NEW r \in found, HasSortField(r.rid)
    PROVE  \E row \in Sorted(found) : row.rid = r.rid /\ row.place = r.place
<1>1. CASE call.sort = NoSort
    BY <1>1 DEF Sorted
<1>2. CASE call.sort # NoSort
    <2>1. PICK p \in KeysOf(r.rid) : TRUE
        BY <1>2 DEF HasSortField
    <2> DEFINE row == [r EXCEPT !.key = p.value, !.prop = {p}]
    <2>2. r \in Row
        BY DEF GoodRow
    <2>3. row.rid = r.rid /\ row.place = r.place
        BY <2>2 DEF Row
    <2>4. row \in JoinRows(r)
        BY <2>1 DEF JoinRows
    <2>5. Sorted(found) = UNION {JoinRows(s) : s \in found}
        BY <1>2 DEF Sorted, JoinRows
    <2>6. row \in Sorted(found)
        <3> HIDE DEF row
        <3> QED
            BY <2>4, <2>5
    <2> QED
        BY <2>3, <2>6
<1> QED
    BY <1>1, <1>2

\* And nothing else.
LEMMA SortedFrom ==
    ASSUME NEW found, \A r \in found : GoodRow(r), NEW row \in Sorted(found)
    PROVE  \E r \in found :
              /\ row.rid = r.rid /\ row.place = r.place /\ row.sha = r.sha
              /\ row.cid = r.cid /\ HasSortField(r.rid)
              /\ \/ call.sort = NoSort /\ row = r
                 \/ call.sort # NoSort /\ \E p \in KeysOf(r.rid) : row.key = p.value
<1>1. CASE call.sort = NoSort
    BY <1>1 DEF Sorted, HasSortField
<1>2. CASE call.sort # NoSort
    <2>1. PICK r \in found : row \in {[r EXCEPT !.key = p.value, !.prop = {p}] : p \in KeysOf(r.rid)}
        BY <1>2 DEF Sorted
    <2>2. PICK p \in KeysOf(r.rid) : row = [r EXCEPT !.key = p.value, !.prop = {p}]
        BY <2>1
    <2>3. r \in Row
        BY <2>1 DEF GoodRow
    <2>4. /\ row.rid = r.rid /\ row.place = r.place /\ row.sha = r.sha /\ row.cid = r.cid
          /\ row.key = p.value
        BY <2>2, <2>3 DEF Row
    <2>5. HasSortField(r.rid)
        BY <2>2 DEF HasSortField
    <2> QED
        BY <1>2, <2>1, <2>2, <2>4, <2>5
<1> QED
    BY <1>1, <1>2

\* The records of a set of rows.
RidsOf(S) == {row.rid : row \in S}

\* Rows made of a set of records.
LEMMA RecordsFound ==
    ASSUME NEW S \in SUBSET Rids
    PROVE  RidsOf(Sorted(RowsOf(S))) = {rid \in S : HasSortField(rid)}
<1> DEFINE found == RowsOf(S)
<1>1. \A r \in found : GoodRow(r) /\ r.rid \in S
    BY RowOfGood DEF RowsOf
<1>2. \A rid \in S : RowOf(rid) \in found /\ RowOf(rid).rid = rid
    BY RowOfGood DEF RowsOf
<1> HIDE DEF found
<1>3. ASSUME NEW row \in Sorted(found)
      PROVE  row.rid \in {rid \in S : HasSortField(rid)}
    BY <1>1, SortedFrom
<1>4. ASSUME NEW rid \in S, HasSortField(rid)
      PROVE  \E row \in Sorted(found) : row.rid = rid
    BY <1>1, <1>2, <1>4, SortedKeeps
<1> QED
    BY <1>3, <1>4 DEF RidsOf, found

\* The last n records: those that fewer than n others follow.
LEMMA TopRecords ==
    ASSUME NEW n \in Nat \ {0},
           NEW T \in Tops(n, RowsOf(Reached), ByRid(RowsOf(Reached)))
    PROVE  T = RowsOf({rid \in Reached :
                          Cardinality({other \in Reached : other > rid}) < n})
<1> DEFINE S    == RowsOf(Reached)
           R    == RidsOf(T)
           m    == Cardinality(Reached)
           G(rid) == {other \in Reached : other > rid}
<1>1. Reached \subseteq Int /\ IsFiniteSet(Reached) /\ Reached \subseteq Rids
    BY ReachedRids, DataAssumption, FS_Subset
<1>2. /\ T \subseteq S
      /\ Cardinality(T) = IF Cardinality(S) < n THEN Cardinality(S) ELSE n
      /\ \A t \in T, s \in S \ T : ByRid(S)[t] >= ByRid(S)[s]
    BY DEF Tops
<1>3. \A t \in T, s \in S \ T : t.rid >= s.rid
    BY <1>2 DEF ByRid
<1>4. \A rid \in Reached : RowOf(rid) \in S /\ RowOf(rid).rid = rid
    BY <1>1, RowOfGood DEF RowsOf
<1>5. \A s \in S : s.rid \in Reached /\ s = RowOf(s.rid)
    BY <1>1, RowOfGood DEF RowsOf
<1> HIDE DEF S
<1>6. R \subseteq Reached /\ T = RowsOf(R)
    <2>1. \A t \in T : t.rid \in R /\ t = RowOf(t.rid)
        BY <1>2, <1>5 DEF RidsOf
    <2>2. \A rid \in R : RowOf(rid) \in T
        BY <2>1 DEF RidsOf
    <2> QED
        BY <1>2, <1>5, <2>1, <2>2 DEF RidsOf, RowsOf
<1>7. Cardinality(S) = m /\ IsFiniteSet(S)
    <2> DEFINE f == [rid \in Reached |-> RowOf(rid)]
    <2>1. f \in Bijection(Reached, S)
        BY <1>4, <1>5 DEF Bijection, Injection, Surjection, IsInjective
    <2> QED
        BY <1>1, <2>1, FS_Bijection DEF ExistsBijection
<1>8. Cardinality(T) = Cardinality(R)
    <2> DEFINE f == [rid \in R |-> RowOf(rid)]
    <2>1. /\ \A rid \in R : RowOf(rid) \in T /\ RowOf(rid).rid = rid
          /\ \A t \in T : t.rid \in R /\ t = RowOf(t.rid)
        BY <1>2, <1>4, <1>5, <1>6 DEF RidsOf
    <2>2. f \in Bijection(R, T)
        BY <2>1 DEF Bijection, Injection, Surjection, IsInjective
    <2>3. IsFiniteSet(R)
        BY <1>1, <1>6, FS_Subset
    <2> QED
        BY <2>2, <2>3, FS_Bijection DEF ExistsBijection
<1>9. /\ Cardinality(R) = IF m < n THEN m ELSE n
      /\ \A t \in R, s \in Reached \ R : t >= s
    <2>1. \A s \in Reached \ R : RowOf(s) \in S \ T /\ RowOf(s).rid = s
        BY <1>4 DEF RidsOf
    <2> QED
        BY <1>2, <1>3, <1>7, <1>8, <2>1 DEF RidsOf
<1>10. m \in Nat /\ IsFiniteSet(R) /\ Cardinality(R) \in Nat
    BY <1>1, <1>6, FS_CardinalityType, FS_Subset
<1> HIDE DEF R, m
<1>11. ASSUME NEW t \in R PROVE Cardinality(G(t)) < n
    <2>1. G(t) \in SUBSET (R \ {t})
        <3>1. SUFFICES ASSUME NEW other \in Reached, other > t PROVE other \in R /\ other # t
            OBVIOUS
        <3>2. other \in Int /\ t \in Int
            BY <1>1, <1>6
        <3>3. other \notin R => t >= other
            BY <1>9
        <3> QED
            BY <3>1, <3>2, <3>3
    <2>2. IsFiniteSet(R \ {t}) /\ Cardinality(R \ {t}) = Cardinality(R) - 1
        BY <1>10, FS_RemoveElement
    <2>3. Cardinality(G(t)) <= Cardinality(R) - 1 /\ Cardinality(G(t)) \in Nat
        BY <2>1, <2>2, FS_Subset, FS_CardinalityType
    <2> QED
        BY <1>9, <1>10, <2>3
<1>12. ASSUME NEW s \in Reached \ R PROVE ~(Cardinality(G(s)) < n)
    <2>1. R \in SUBSET G(s)
        BY <1>1, <1>6, <1>9
    <2>2. IsFiniteSet(G(s)) /\ Cardinality(G(s)) \in Nat
        BY <1>1, FS_Subset, FS_CardinalityType
    <2>3. Cardinality(R) <= Cardinality(G(s))
        BY <2>1, <2>2, FS_Subset
    <2>4. Cardinality(R) = n
        <3>1. m # Cardinality(R)
            BY <1>1, <1>6, <1>12, FS_Subset DEF m
        <3> QED
            BY <1>9, <3>1
    <2> QED
        BY <2>2, <2>3, <2>4
<1>13. R = {rid \in Reached : Cardinality(G(rid)) < n}
    BY <1>6, <1>11, <1>12
<1> QED
    BY <1>6, <1>13

\* Every record of a limited search, without a sort, is one the caller means.
LEMMA RecordsMeant ==
    ASSUME TypeOK, Reached = {rid \in Rids : MaySee(rid)},
           call.leaf.kind \in {"all", "last"}, ~LimitedByKey,
           NEW result \in Results(call.leaf)
    PROVE  RidsOf(result) = Wanted
<1> DEFINE leaf == call.leaf
           n    == leaf.n
           L    == {rid \in Reached : Cardinality({other \in Reached : other > rid}) < n}
<1>1. n \in Int
    BY CallsAssumption DEF TypeOK
<1>2. \A rid : {other \in Rids : MaySee(other) /\ other > rid} = {other \in Reached : other > rid}
    OBVIOUS
<1>3. \A rid : Means(rid) <=> \/ leaf.kind = "all" /\ n = 0
                              \/ Cardinality({other \in Reached : other > rid}) < n
    BY <1>2 DEF Means
<1>4. Wanted = {rid \in Reached : Means(rid) /\ HasSortField(rid)}
    BY DEF Wanted, HasSortField
<1>5. Reached \subseteq Rids /\ L \subseteq Rids
    BY ReachedRids
<1>6. CASE leaf.kind = "all"
    <2>1. result \in AllRows(n)
        BY <1>6 DEF Results
    <2>2. CASE n = 0
        <3>1. result = Sorted(RowsOf(Reached))
            BY <2>1, <2>2 DEF AllRows
        <3> QED
            BY <1>3, <1>4, <1>5, <1>6, <2>2, <3>1, RecordsFound
    <2>3. CASE n # 0
        <3>1. call.sort = NoSort
            BY <1>6, <2>3 DEF LimitedByKey
        <3>2. n \in Nat \ {0} /\ result \in Tops(n, RowsOf(Reached), ByRid(RowsOf(Reached)))
            BY <1>1, <2>1, <2>3, <3>1 DEF AllRows, Sorted
        <3>3. result = RowsOf(L)
            BY <3>2, TopRecords
        <3>4. result = Sorted(RowsOf(L))
            BY <3>1, <3>3 DEF Sorted
        <3>5. RidsOf(result) = {rid \in L : HasSortField(rid)}
            BY <1>5, <3>4, RecordsFound
        <3> QED
            BY <1>3, <1>4, <2>3, <3>5
    <2> QED
        BY <2>2, <2>3
<1>7. CASE leaf.kind = "last"
    <2>1. n \in Nat \ {0}
        BY <1>1, <1>7 DEF Results, LastRows
    <2>2. PICK T \in Tops(n, RowsOf(Reached), ByRid(RowsOf(Reached))) : result = Sorted(T)
        BY <1>7, <2>1 DEF Results, LastRows
    <2>3. T = RowsOf(L)
        BY <2>1, <2>2, TopRecords
    <2>4. RidsOf(result) = {rid \in L : HasSortField(rid)}
        BY <1>5, <2>2, <2>3, RecordsFound
    <2> QED
        BY <1>3, <1>4, <1>7, <2>4
<1> QED
    BY <1>6, <1>7

\* The bits of a status mask of 64 characters at most are those it shows.
LEMMA BitsShown ==
    ASSUME NEW rid, NEW v, Text[v] \in Seq(STRING), Len(Text[v]) <= 64
    PROVE  StatusLets(rid, Bits(v, {"1"}), Bits(v, {"0", "1"})) <=> StatusIs(rid, v)
<1> DEFINE l == Len(Text[v])
           status == Record[rid].status
<1>1. l \in Nat /\ DOMAIN Text[v] = 1..l
    OBVIOUS
<1>2. \A chars : Bits(v, chars) = {l - i : i \in {i \in 1..l : Text[v][i] \in chars}}
    BY <1>1 DEF Bits
<1>3. ASSUME NEW i \in 1..l
      PROVE  /\ l - i \in Bits(v, {"0", "1"}) <=> Text[v][i] \in {"0", "1"}
             /\ l - i \in Bits(v, {"1"}) <=> Text[v][i] = "1"
    <2>1. \A j \in 1..l : l - j = l - i => j = i
        BY <1>1
    <2> QED
        BY <1>2, <2>1
<1>4. \A bit \in Bits(v, {"0", "1"}) : \E i \in 1..l : bit = l - i
    BY <1>2
<1>5. StatusLets(rid, Bits(v, {"1"}), Bits(v, {"0", "1"})) <=>
          \A i \in 1..l : Text[v][i] \in {"0", "1"} =>
              (l - i \in status <=> Text[v][i] = "1")
    BY <1>3, <1>4 DEF StatusLets
<1>6. StatusIs(rid, v) <=>
          \A i \in 1..l : /\ Text[v][i] = "0" => l - i \notin status
                          /\ Text[v][i] = "1" => l - i \in status
    BY <1>1 DEF StatusIs
<1> QED
    BY <1>5, <1>6

\* A comparison finds the records for which it holds.
LEMMA ComparedMeant ==
    ASSUME TypeOK, TmpMaskInv, TmpMaskFull, created,
           Reached = {rid \in Rids : MaySee(rid)},
           call.leaf.kind = "compare", ~Tuples, MaskFits,
           NEW result \in Results(call.leaf)
    PROVE  RidsOf(result) = Wanted
<1> DEFINE leaf == call.leaf
           name == leaf.field
           v    == leaf.value
           M    == {rid \in Reached : Means(rid)}
<1>1. Wanted = {rid \in M : HasSortField(rid)}
    BY DEF Wanted, HasSortField
<1>2. M \subseteq Rids
    BY ReachedRids
<1>3. SUFFICES result = Sorted(RowsOf(M))
    <2> HIDE DEF M
    <2> QED
        BY <1>1, <1>2, RecordsFound
<1>4. result \in CompareRows(name, leaf.op, v)
    BY DEF Results
<1>5. ~(name = "sha256" /\ leaf.op = "=" /\ v = "sha256")
    BY DEF Tuples
<1>6. ASSUME NEW S \in SUBSET Reached, result = Sorted(RowsOf(S)),
             \A rid \in Reached : rid \in S <=> Means(rid)
      PROVE  result = Sorted(RowsOf(M))
    <2>1. S = M
        BY <1>6
    <2> QED
        BY <1>6, <2>1
<1>7. CASE name \in {"thumbnail", "preview", "document"}
    <2> DEFINE missing == Text[v] # << >> /\ Text[v][1] = "0"
               S == {rid \in Reached : <<rid, name>> \in Subdef <=> ~missing}
    <2>1. result = Sorted(RowsOf(S))
        BY <1>4, <1>7 DEF CompareRows, SubdefRows
    <2>2. \A rid \in Reached : Means(rid) <=> (<<rid, name>> \in Subdef <=> ~missing)
        BY <1>7 DEF Means, Technical
    <2> QED
        BY <1>6, <2>1, <2>2
<1>8. CASE name = "recordstatus"
    <2> DEFINE S == {rid \in Reached : StatusLets(rid, Bits(v, {"1"}), Bits(v, {"0", "1"}))}
    <2>1. result = Sorted(RowsOf(S))
        BY <1>4, <1>8 DEF CompareRows, StatusRows
    <2>2. Text[v] \in Seq(STRING) /\ Len(Text[v]) <= 64
        BY <1>8, CallsAssumption DEF TypeOK, MaskFits
    <2>3. \A rid \in Reached : Means(rid) <=> StatusIs(rid, v)
        BY <1>8 DEF Means, Technical
    <2>4. \A rid \in Reached : rid \in S <=> Means(rid)
        BY <2>2, <2>3, BitsShown
    <2> QED
        BY <1>6, <2>1, <2>4
<1>9. CASE name \in {"recordid", "recordtype", "sha256"}
    <2>1. result \in ColumnRows(name, leaf.op, v)
        BY <1>4, <1>5, <1>9 DEF CompareRows
    <2> DEFINE S == {rid \in Reached :
                        CASE name = "recordid" -> Holds(leaf.op, rid, Number[v])
                          [] name = "recordtype" -> Compares(Record[rid].type, leaf.op, v)
                          [] name = "sha256" -> \E x \in Record[rid].sha : Compares(x, leaf.op, v)}
    <2>2. result = Sorted(RowsOf(S))
        BY <2>1 DEF ColumnRows
    <2>3. \A rid \in Reached : rid \in S <=> Means(rid)
        BY <1>9 DEF Means, Technical
    <2> QED
        BY <1>6, <2>2, <2>3
<1>10. CASE name \notin Technical
    <2> DEFINE S == {rid \in Reached : \E p \in Prop : /\ p.rid = rid /\ p.name = name
                                                       /\ Compares(p.value, leaf.op, v)
                                                       /\ BusinessLets(p)}
    <2>1. result = Sorted(RowsOf(S))
        BY <1>4, <1>10 DEF CompareRows, FieldRows, Technical
    <2>2. \A rid \in Reached : Means(rid) <=> \E p \in ValuesOf(rid) : Compares(p.value, leaf.op, v)
        BY <1>10 DEF Means, Technical
    <2>3. \A p \in Prop : p.rid \in Reached => (BusinessLets(p) <=> MayRead(p))
        BY BusinessExact
    <2>4. \A rid \in Reached : rid \in S <=> Means(rid)
        BY <2>2, <2>3 DEF ValuesOf
    <2> QED
        BY <1>6, <2>1, <2>4
<1> QED
    BY <1>7, <1>8, <1>9, <1>10 DEF Technical

-----------------------------------------------------------------------------
(* Words and terms                                                         *)

\* What a search in the text finds, with the row of each.
Hits == UNION {HitsOf(rid) : rid \in Reached}

LEMMA HitRowGood ==
    ASSUME NEW t \in Idx \cup Thit
    PROVE  /\ GoodRow(HitRow(t)) /\ HitRow(t).rid = t.rid /\ HitRow(t).place = t.place
           /\ HitRow(t).key = NoKey /\ HitRow(t).sha = {}
<1>1. t.rid \in Rids /\ t.place \in Places
    BY DataAssumption DEF Places
<1>2. RowOf(t.rid) \in Row /\ GoodRow(RowOf(t.rid)) /\ RowOf(t.rid).rid = t.rid
    BY <1>1, RowOfGood DEF GoodRow
<1>3. RowOf(t.rid).key = NoKey /\ RowOf(t.rid).sha = {}
    BY DEF RowOf
<1> QED
    BY <1>1, <1>2, <1>3 DEF GoodRow, Row, HitRow

\* The rows of a leaf of words are those of the entries the user may search, in
\* the records he may see.
LEMMA HitsFound ==
    ASSUME TypeOK, TmpMaskInv, TmpMaskFull, created, InText,
           NEW result \in Results(call.leaf)
    PROVE  result = Sorted({HitRow(t) : t \in Hits})
<1> DEFINE leaf == call.leaf
<1>1. \A t \in Idx \cup Thit : t.rid \in Reached => (BusinessLets(t) <=> MayRead(t))
    BY BusinessExact
<1>2. CASE leaf.kind \in {"words", "in"}
    <2>1. PICK fields : /\ result \in WordRows(leaf.words, fields)
                        /\ leaf.kind = "in" => fields = {leaf.field}
                        /\ leaf.kind = "words" => fields = IdxFields
        BY <1>2 DEF Results
    <2> DEFINE E == {t \in Idx : /\ t.rid \in Reached
                                 /\ KwClause(leaf.words, t)
                                 /\ t.field \in fields
                                 /\ BusinessLets(t)}
    <2>6. \A t : KwClause(leaf.words, t) <=>
              /\ t.lng \in {call.lng}
              /\ \E word \in leaf.words : t.word \in Like[FormIn(t.lng, word)]
        BY DEF KwClause, FormIn
    <2>2. \A t \in Idx : t.field \in fields <=> (leaf.kind = "in" => t.field = leaf.field)
        BY <1>2, <2>1 DEF IdxFields
    <2>3. \A rid : HitsOf(rid) = EntriesOf(rid, {call.lng})
        BY <1>2 DEF HitsOf
    <2>4. E = Hits
        BY <1>1, <2>2, <2>3, <2>6 DEF Hits, EntriesOf
    <2>5. result = Sorted({HitRow(t) : t \in E})
        BY <2>1 DEF WordRows, HitRow
    <2> QED
        BY <2>4, <2>5
<1>3. CASE leaf.kind = "thesaurus"
    <2>1. PICK names : /\ result \in ThesaurusRows(names, leaf.words)
                       /\ names = IF leaf.field = "*" THEN ThitFields ELSE {leaf.field}
        BY <1>3 DEF Results
    <2> DEFINE E == {t \in Thit : /\ t.rid \in Reached
                                  /\ t.name \in names
                                  /\ \E v \in leaf.words : t.value \in Like[v]
                                  /\ BusinessLets(t)}
    <2>2. \A t \in Thit : t.name \in names <=> leaf.field \in {"*", t.name}
        BY <2>1 DEF ThitFields
    <2>3. \A rid : HitsOf(rid) = TermsOf(rid)
        BY <1>3 DEF HitsOf
    <2>4. E = Hits
        BY <1>1, <2>2, <2>3 DEF Hits, TermsOf
    <2>5. result = Sorted({HitRow(t) : t \in E})
        BY <2>1 DEF ThesaurusRows, HitRow
    <2> QED
        BY <2>4, <2>5
<1> QED
    BY <1>2, <1>3 DEF InText

\* Each hit that is wanted has a row.
AllHits(result) ==
    \A rid \in Expected : \A t \in HitsOf(rid) :
        \E row \in result : row.rid = rid /\ row.place = t.place

\* What PlacesAhead needs of the rows of such a leaf.
LEMMA HitRows ==
    ASSUME TypeOK, InText, Reached = {rid \in Rids : MaySee(rid)},
           NEW result, result = Sorted({HitRow(t) : t \in Hits})
    PROVE  /\ RidsOf(result) = Expected
           /\ \A row \in result :
                 /\ GoodRow(row) /\ row.sha = {} /\ row.place # NoPlace
                 /\ row.rid \in Expected
                 /\ \E t \in HitsOf(row.rid) : t.place = row.place
                 /\ \/ call.sort = NoSort /\ row.key = NoKey
                    \/ call.sort # NoSort /\ \E p \in KeysOf(row.rid) : row.key = p.value
           /\ AllHits(result)
<1> DEFINE found == {HitRow(t) : t \in Hits}
<1>1. \A rid : \A t \in HitsOf(rid) : t \in Idx \cup Thit /\ t.rid = rid
    BY DEF HitsOf, EntriesOf, TermsOf
<1>2. \A t \in Hits : t \in Idx \cup Thit /\ t.rid \in Reached /\ t \in HitsOf(t.rid)
    BY <1>1 DEF Hits
<1>3. \A rid \in Reached : \A t \in HitsOf(rid) : t \in Hits
    BY DEF Hits
<1>4. \A rid : Means(rid) /\ ~PlainOnly(rid) <=> HitsOf(rid) # {}
    <2>1. \A rid : EntriesOf(rid, {call.lng}) \subseteq EntriesOf(rid, {"", call.lng})
        BY DEF EntriesOf
    <2>2. CASE call.leaf.kind \in {"words", "in"}
        BY <2>1, <2>2 DEF Means, HitsOf, PlainOnly
    <2>3. CASE call.leaf.kind = "thesaurus"
        BY <2>3 DEF Means, HitsOf, PlainOnly
    <2> QED
        BY <2>2, <2>3 DEF InText
<1>5. \A rid : rid \in Expected <=> rid \in Reached /\ HitsOf(rid) # {} /\ HasSortField(rid)
    BY <1>4 DEF Expected, Wanted, HasSortField
<1>6. ASSUME NEW r \in found
      PROVE  /\ GoodRow(r) /\ r.sha = {} /\ r.place # NoPlace /\ r.key = NoKey
             /\ r.rid \in Reached
             /\ \E t \in HitsOf(r.rid) : t.place = r.place
    <2>1. PICK t \in Hits : r = HitRow(t)
        BY <1>6
    <2>2. t.place # NoPlace
        BY <1>2, <2>1, DataAssumption
    <2> QED
        BY <1>2, <2>1, <2>2, HitRowGood
<1> HIDE DEF found
<1>7. ASSUME NEW row \in result
      PROVE  /\ GoodRow(row) /\ row.sha = {} /\ row.place # NoPlace
             /\ row.rid \in Expected
             /\ \E t \in HitsOf(row.rid) : t.place = row.place
             /\ \/ call.sort = NoSort /\ row.key = NoKey
                \/ call.sort # NoSort /\ \E p \in KeysOf(row.rid) : row.key = p.value
    <2>1. row \in Sorted(found) /\ \A r \in found : GoodRow(r)
        BY <1>6, <1>7 DEF found
    <2>2. GoodRow(row)
        BY <2>1, SortedRows
    <2>3. PICK r \in found :
              /\ row.rid = r.rid /\ row.place = r.place /\ row.sha = r.sha
              /\ row.cid = r.cid /\ HasSortField(r.rid)
              /\ \/ call.sort = NoSort /\ row = r
                 \/ call.sort # NoSort /\ \E p \in KeysOf(r.rid) : row.key = p.value
        BY <2>1, SortedFrom
    <2>4. row.rid \in Expected
        BY <1>5, <1>6, <2>3
    <2> QED
        BY <1>6, <2>2, <2>3, <2>4
<1>8. ASSUME NEW rid \in Expected, NEW t \in HitsOf(rid)
      PROVE  \E row \in result : row.rid = rid /\ row.place = t.place
    <2>1. t \in Hits /\ t \in Idx \cup Thit /\ t.rid = rid
        BY <1>1, <1>3, <1>5
    <2>2. HitRow(t) \in found
        BY <2>1 DEF found
    <2>3. HitRow(t).rid = rid /\ HitRow(t).place = t.place
        BY <2>1, HitRowGood
    <2>4. \E row \in Sorted(found) : row.rid = rid /\ row.place = t.place
        BY <1>5, <1>6, <2>2, <2>3, SortedKeeps
    <2> QED
        BY <2>4 DEF found
<1>9. RidsOf(result) = Expected
    BY <1>5, <1>7, <1>8 DEF RidsOf
<1>10. AllHits(result)
    BY <1>8 DEF AllHits
<1> QED
    BY <1>7, <1>9, <1>10

\* As many values of a function as arguments, if it has none twice.
LEMMA ImageSize ==
    ASSUME NEW S, IsFiniteSet(S), NEW f, \A x, y \in S : f[x] = f[y] => x = y,
           NEW T, \A z : z \in T <=> \E x \in S : z = f[x]
    PROVE  IsFiniteSet(T) /\ Cardinality(T) = Cardinality(S)
<1> DEFINE g == [x \in S |-> f[x]]
<1>1. g \in Bijection(S, T)
    <2>1. g \in [S -> T]
        OBVIOUS
    <2>2. IsInjective(g)
        BY DEF IsInjective
    <2>3. g \in Surjection(S, T)
        BY <2>1 DEF Surjection
    <2> QED
        BY <2>1, <2>2, <2>3 DEF Bijection, Injection
<1> QED
    BY <1>1, FS_Bijection DEF ExistsBijection

LEMMA HitsFinite ==
    ASSUME NEW rid
    PROVE  /\ IsFiniteSet(HitsOf(rid)) /\ IsFiniteSet(KeysOf(rid))
           /\ \A place : IsFiniteSet(HitsAt(rid, place))
<1>1. HitsOf(rid) \in SUBSET Idx \/ HitsOf(rid) \in SUBSET Thit
    BY DEF HitsOf, EntriesOf, TermsOf
<1>2. IsFiniteSet(HitsOf(rid))
    BY <1>1, DataAssumption, FS_Subset
<1>3. KeysOf(rid) \in SUBSET Prop
    BY DEF KeysOf
<1>4. IsFiniteSet(KeysOf(rid))
    BY <1>3, DataAssumption, FS_Subset
<1>5. \A place : HitsAt(rid, place) \in SUBSET HitsOf(rid)
    BY DEF HitsAt
<1> QED
    BY <1>2, <1>4, <1>5, FS_Subset

\* The row of a hit and a value of the sort field.
JoinRow(t, p) == [HitRow(t) EXCEPT !.key = p.value, !.prop = {p}]

LEMMA HitRowHit ==
    ASSUME NEW t
    PROVE  HitRow(t).rid = t.rid /\ HitRow(t).place = t.place /\ HitRow(t).hit = {t}
BY DEF HitRow, RowOf

LEMMA JoinRowHit ==
    ASSUME NEW t, NEW p
    PROVE  /\ JoinRow(t, p).rid = t.rid /\ JoinRow(t, p).place = t.place
           /\ JoinRow(t, p).hit = {t} /\ JoinRow(t, p).prop = {p}
BY DEF JoinRow, HitRow, RowOf

\* Without a sort, a row for each hit.
LEMMA RowsPlain ==
    ASSUME NEW rid \in Reached, call.sort = NoSort,
           NEW result, result = Sorted({HitRow(t) : t \in Hits})
    PROVE  Counted(rid, << >>, {row \in result : row.rid = rid})
<1> DEFINE ahead == {row \in result : row.rid = rid}
<1>1. \A r : \A t \in HitsOf(r) : t.rid = r
    BY DEF HitsOf, EntriesOf, TermsOf
<1>2. \A t : t \in Hits /\ t.rid = rid <=> t \in HitsOf(rid)
    BY <1>1 DEF Hits
<1>3. result = {HitRow(t) : t \in Hits}
    BY DEF Sorted
<1>4. \A row : row \in ahead <=> \E t \in HitsOf(rid) : row = HitRow(t)
    BY <1>2, <1>3, HitRowHit
<1> HIDE DEF ahead
<1>5. ASSUME NEW S, IsFiniteSet(S), NEW T, \A row : row \in T <=> \E t \in S : row = HitRow(t)
      PROVE  IsFiniteSet(T) /\ Cardinality(T) = Cardinality(S)
    <2>1. PICK f : f = [t \in S |-> HitRow(t)]
        OBVIOUS
    <2>2. \A x, y \in S : f[x] = f[y] => x = y
        <3>1. \A x, y \in S : HitRow(x) = HitRow(y) => {x} = {y}
            BY HitRowHit
        <3> QED
            BY <2>1, <3>1
    <2>3. \A row : row \in T <=> \E t \in S : row = f[t]
        BY <1>5, <2>1
    <2> QED
        BY <1>5, <2>2, <2>3, ImageSize
<1>6. IsFiniteSet(ahead)
    BY <1>4, <1>5, HitsFinite
<1>7. ASSUME NEW place
      PROVE  Count(<< >>, place) + Cardinality({row \in ahead : row.place = place})
                 = Times(rid) * Cardinality(HitsAt(rid, place))
    <2>1. PICK here : here = {row \in ahead : row.place = place}
        OBVIOUS
    <2>2. Cardinality(here) = Cardinality(HitsAt(rid, place))
        <3>1. \A row : row \in here <=> \E t \in HitsAt(rid, place) : row = HitRow(t)
            BY <1>4, <2>1, HitRowHit DEF HitsAt
        <3>2. IsFiniteSet(HitsAt(rid, place))
            BY HitsFinite
        <3> QED
            BY <1>5, <3>1, <3>2
    <2>3. Cardinality(HitsAt(rid, place)) \in Nat
        BY HitsFinite, FS_CardinalityType
    <2>4. Count(<< >>, place) = 0
        BY FS_EmptySet DEF Count
    <2>5. Times(rid) = 1
        BY DEF Times
    <2> QED
        BY <2>1, <2>2, <2>3, <2>4, <2>5
<1> QED
    BY <1>6, <1>7 DEF Counted, ahead

\* With one, a row for each hit and each value of the field.
LEMMA RowsSorted ==
    ASSUME NEW rid \in Reached, call.sort # NoSort,
           NEW result, result = Sorted({HitRow(t) : t \in Hits})
    PROVE  Counted(rid, << >>, {row \in result : row.rid = rid})
<1> DEFINE ahead == {row \in result : row.rid = rid}
           K     == KeysOf(rid)
<1>1. \A r : \A t \in HitsOf(r) : t.rid = r
    BY DEF HitsOf, EntriesOf, TermsOf
<1>2. \A t : t \in Hits /\ t.rid = rid <=> t \in HitsOf(rid)
    BY <1>1 DEF Hits
<1>3. \A row : row \in result <=> \E t \in Hits : \E p \in KeysOf(t.rid) : row = JoinRow(t, p)
    <2>1. PICK found : found = {HitRow(t) : t \in Hits} /\ result = Sorted(found)
        OBVIOUS
    <2>2. result = UNION {JoinRows(r) : r \in found}
        BY <2>1 DEF Sorted, JoinRows
    <2>3. \A row : row \in result <=> \E t \in Hits : row \in JoinRows(HitRow(t))
        BY <2>1, <2>2
    <2>4. \A t, row : row \in JoinRows(HitRow(t)) <=> \E p \in KeysOf(t.rid) : row = JoinRow(t, p)
        BY HitRowHit DEF JoinRow, JoinRows
    <2> QED
        BY <2>3, <2>4
<1>4. \A row : row \in ahead <=> \E t \in HitsOf(rid) : \E p \in K : row = JoinRow(t, p)
    BY <1>2, <1>3, JoinRowHit
<1> HIDE DEF ahead, K
<1>5. ASSUME NEW S, IsFiniteSet(S),
             NEW T, \A row : row \in T <=> \E t \in S : \E p \in K : row = JoinRow(t, p)
      PROVE  IsFiniteSet(T) /\ Cardinality(T) = Cardinality(S) * Cardinality(K)
    <2>1. PICK f : f = [x \in S \X K |-> JoinRow(x[1], x[2])]
        OBVIOUS
    <2>2. \A x, y \in S \X K : f[x] = f[y] => x = y
        <3>1. \A x, y \in S \X K : JoinRow(x[1], x[2]) = JoinRow(y[1], y[2]) => x[1] = y[1] /\ x[2] = y[2]
            <4>1. \A x, y \in S \X K : JoinRow(x[1], x[2]) = JoinRow(y[1], y[2]) =>
                      {x[1]} = {y[1]} /\ {x[2]} = {y[2]}
                BY JoinRowHit
            <4> QED
                BY <4>1
        <3>2. \A x, y \in S \X K : x[1] = y[1] /\ x[2] = y[2] => x = y
            OBVIOUS
        <3> QED
            BY <2>1, <3>1, <3>2
    <2>3. \A row : row \in T <=> \E x \in S \X K : row = f[x]
        <3>1. \A row : (\E t \in S : \E p \in K : row = JoinRow(t, p)) <=>
                  \E x \in S \X K : row = JoinRow(x[1], x[2])
            <4>1. ASSUME NEW t \in S, NEW p \in K
                  PROVE  \E x \in S \X K : JoinRow(t, p) = JoinRow(x[1], x[2])
                <5>1. <<t, p>> \in S \X K /\ <<t, p>>[1] = t /\ <<t, p>>[2] = p
                    OBVIOUS
                <5> QED
                    BY <5>1
            <4>2. ASSUME NEW x \in S \X K
                  PROVE  \E t \in S : \E p \in K : JoinRow(x[1], x[2]) = JoinRow(t, p)
                <5>1. x[1] \in S /\ x[2] \in K
                    OBVIOUS
                <5> QED
                    BY <5>1
            <4>3. ASSUME NEW row, NEW t \in S, NEW p \in K, row = JoinRow(t, p)
                  PROVE  \E x \in S \X K : row = JoinRow(x[1], x[2])
                BY <4>1, <4>3
            <4>4. ASSUME NEW row, NEW x \in S \X K, row = JoinRow(x[1], x[2])
                  PROVE  \E t \in S : \E p \in K : row = JoinRow(t, p)
                BY <4>2, <4>4
            <4> QED
                BY <4>3, <4>4
        <3>2. \A x \in S \X K : f[x] = JoinRow(x[1], x[2])
            BY <2>1
        <3> QED
            BY <1>5, <3>1, <3>2
    <2>4. IsFiniteSet(K)
        BY HitsFinite DEF K
    <2>5. PICK P : P = S \X K
        OBVIOUS
    <2>6. IsFiniteSet(P) /\ Cardinality(P) = Cardinality(S) * Cardinality(K)
        BY <1>5, <2>4, <2>5, FS_Product
    <2>7. IsFiniteSet(T) /\ Cardinality(T) = Cardinality(P)
        BY <2>2, <2>3, <2>5, <2>6, ImageSize
    <2> QED
        BY <2>6, <2>7
<1>6. IsFiniteSet(ahead)
    BY <1>4, <1>5, HitsFinite
<1>7. ASSUME NEW place
      PROVE  Count(<< >>, place) + Cardinality({row \in ahead : row.place = place})
                 = Times(rid) * Cardinality(HitsAt(rid, place))
    <2>1. PICK here : here = {row \in ahead : row.place = place}
        OBVIOUS
    <2>2. Cardinality(here) = Cardinality(HitsAt(rid, place)) * Cardinality(K)
        <3>1. \A row : row \in here <=> \E t \in HitsAt(rid, place) : \E p \in K : row = JoinRow(t, p)
            <4>1. \A t, p : JoinRow(t, p).place = t.place
                BY JoinRowHit
            <4> QED
                BY <1>4, <2>1, <4>1 DEF HitsAt
        <3>2. IsFiniteSet(HitsAt(rid, place))
            BY HitsFinite
        <3> QED
            BY <1>5, <3>1, <3>2
    <2>3. Cardinality(HitsAt(rid, place)) \in Nat /\ Cardinality(K) \in Nat
        BY HitsFinite, FS_CardinalityType DEF K
    <2>4. Count(<< >>, place) = 0
        BY FS_EmptySet DEF Count
    <2>5. Times(rid) = Cardinality(K)
        BY DEF Times, K
    <2>6. \A m, n \in Nat : 0 + m * n = n * m
        OBVIOUS
    <2> QED
        BY <2>1, <2>2, <2>3, <2>4, <2>5, <2>6
<1> QED
    BY <1>6, <1>7 DEF Counted, ahead

\* A place that is read goes from those ahead to those found.
LEMMA PlaceRead ==
    ASSUME NEW rid, NEW places \in Seq(Places), NEW ahead, NEW row \in ahead,
           row.place \in Places, Counted(rid, places, ahead)
    PROVE  Counted(rid, Append(places, row.place), ahead \ {row})
<1>1. PICK after \in Seq(Places) : after = Append(places, row.place)
    BY AppendProperties
<1>2. PICK n \in Nat : n = Len(places) /\ DOMAIN places = 1..n
    BY LenProperties
<1>3. PICK m \in Nat : m = n + 1 /\ m \notin 1..n /\ 1..m = (1..n) \cup {m}
    <2>1. PICK m \in Nat : m = n + 1
        OBVIOUS
    <2> QED
        BY <2>1
<1>4. DOMAIN after = 1..m /\ after[m] = row.place /\ \A i \in 1..n : after[i] = places[i]
    BY <1>1, <1>2, <1>3, AppendProperties
<1>5. IsFiniteSet(ahead) /\ IsFiniteSet(ahead \ {row})
    BY FS_RemoveElement DEF Counted
<1>6. ASSUME NEW place \in Places
      PROVE  Count(after, place) + Cardinality({r \in ahead \ {row} : r.place = place})
                 = Times(rid) * Cardinality(HitsAt(rid, place))
    <2> DEFINE old  == {i \in DOMAIN places : places[i] = place}
               new  == {i \in DOMAIN after : after[i] = place}
               here == {r \in ahead : r.place = place}
               left == {r \in ahead \ {row} : r.place = place}
    <2>1. IsFiniteSet(1..n)
        BY FS_Interval
    <2>2. IsFiniteSet(old) /\ m \notin old
        BY <1>2, <1>3, <2>1, FS_Subset
    <2>3. IsFiniteSet(here) /\ Cardinality(here) \in Nat /\ Cardinality(old) \in Nat
        BY <1>5, <2>2, FS_Subset, FS_CardinalityType
    <2>4. Cardinality(old) + Cardinality(here) = Times(rid) * Cardinality(HitsAt(rid, place))
        BY DEF Counted, Count
    <2>5. CASE row.place = place
        <3>1. new = old \cup {m} /\ left = here \ {row} /\ row \in here
            BY <1>2, <1>3, <1>4, <2>5
        <3>2. Cardinality(new) = Cardinality(old) + 1
            <4>1. PICK S : S = old /\ IsFiniteSet(S) /\ m \notin S
                BY <2>2
            <4>2. Cardinality(S \cup {m}) = Cardinality(S) + 1
                BY <4>1, FS_AddElement
            <4> QED
                BY <3>1, <4>1, <4>2
        <3>3. Cardinality(left) = Cardinality(here) - 1
            <4>1. PICK S : S = here /\ IsFiniteSet(S) /\ row \in S
                BY <2>3, <3>1
            <4>2. Cardinality(S \ {row}) = Cardinality(S) - 1
                BY <4>1, FS_RemoveElement
            <4> QED
                BY <3>1, <4>1, <4>2
        <3>4. Cardinality(new) + Cardinality(left) = Cardinality(old) + Cardinality(here)
            BY <2>3, <3>2, <3>3
        <3> QED
            BY <2>4, <3>4 DEF Count
    <2>6. CASE row.place # place
        <3>1. new = old /\ left = here
            BY <1>2, <1>3, <1>4, <2>6
        <3> QED
            BY <2>4, <3>1 DEF Count
    <2> QED
        BY <2>5, <2>6
<1> QED
    BY <1>1, <1>5, <1>6 DEF Counted

\* A leaf finds what is wanted, whatever its kind.
LEMMA ResultsWanted ==
    ASSUME TypeOK, TmpMaskInv, UseMaskInv, TmpMaskFull, created,
           ~Tuples, ~LimitedByKey, MaskFits, NEW result \in Results(call.leaf)
    PROVE  RidsOf(result) = Expected
<1>1. Reached = {rid \in Rids : MaySee(rid)}
    BY ReachedExact
<1>2. call.leaf.kind \in Kinds
    BY CallsAssumption DEF TypeOK
<1>6. call.leaf.kind \notin {"words", "in"} => Expected = Wanted
    BY DEF Expected, PlainOnly
<1>3. CASE call.leaf.kind \in {"all", "last"}
    BY <1>1, <1>3, <1>6, RecordsMeant
<1>4. CASE call.leaf.kind = "compare"
    BY <1>1, <1>4, <1>6, ComparedMeant
<1>5. CASE InText
    BY <1>1, <1>5, HitsFound, HitRows
<1> QED
    BY <1>2, <1>3, <1>4, <1>5 DEF Kinds, InText

\* The key of a row is that of its record in the sort field.
LEMMA ResultsKeys ==
    ASSUME TypeOK, NEW result \in Results(call.leaf), NEW row \in result, row.key # NoKey
    PROVE  \E p \in KeysOf(row.rid) : row.key = p.value
<1> DEFINE leaf == call.leaf
           Plain(found) == \A r \in found : GoodRow(r) /\ r.key = NoKey
<1>1. ASSUME NEW found, Plain(found), row \in Sorted(found)
      PROVE  \E p \in KeysOf(row.rid) : row.key = p.value
    BY <1>1, SortedFrom
<1>2. ASSUME NEW S \in SUBSET Rids PROVE Plain(RowsOf(S))
    BY RowOfGood DEF RowsOf, RowOf
<1>3. Reached \subseteq Rids
    BY ReachedRids
<1>4. SUFFICES \E found : Plain(found) /\ (row \in Sorted(found) \/ row \in found)
    BY <1>1
<1> HIDE DEF Plain
<1>5. CASE leaf.kind = "all"
    <2>1. result \in AllRows(leaf.n)
        BY <1>5 DEF Results
    <2>2. row \in Sorted(RowsOf(Reached))
        BY <2>1 DEF AllRows, Tops
    <2> QED
        BY <1>2, <1>3, <2>2
<1>6. CASE leaf.kind = "last"
    <2>1. PICK T \in SUBSET RowsOf(Reached) : result = Sorted(T)
        BY <1>6 DEF Results, LastRows, Tops
    <2>2. Plain(T)
        BY <1>2, <1>3, <2>1 DEF Plain
    <2> QED
        BY <2>1, <2>2
<1>7. CASE leaf.kind \in {"words", "in", "thesaurus"}
    <2>1. PICK E \in SUBSET (Idx \cup Thit) : result = Sorted({HitRow(t) : t \in E})
        BY <1>7 DEF Results, WordRows, ThesaurusRows, HitRow
    <2>2. Plain({HitRow(t) : t \in E})
        BY <2>1, HitRowGood DEF Plain
    <2> QED
        BY <2>1, <2>2
<1>8. CASE leaf.kind = "compare" /\ ~Tuples
    <2>1. result \in CompareRows(leaf.field, leaf.op, leaf.value)
        BY <1>8 DEF Results
    <2>2. PICK S \in SUBSET Reached : result = Sorted(RowsOf(S))
        BY <1>8, <2>1 DEF Tuples, CompareRows, SubdefRows, StatusRows, ColumnRows, FieldRows
    <2> QED
        BY <1>2, <1>3, <2>2
<1>9. CASE leaf.kind = "compare" /\ Tuples
    <2>1. result \in TupleRows
        BY <1>9 DEF Tuples, Results, CompareRows
    <2>2. PICK rid \in Rids : row = [RowOf(rid) EXCEPT !.sha = Record[rid].sha]
        BY <2>1 DEF TupleRows
    <2>3. row.key = NoKey
        BY <2>2 DEF RowOf
    <2> QED
        BY <2>3
<1>10. leaf.kind \in Kinds
    BY CallsAssumption DEF TypeOK
<1> QED
    BY <1>5, <1>6, <1>7, <1>8, <1>9, <1>10 DEF Kinds

-----------------------------------------------------------------------------
(* FoundInv                                                                *)

LEMMA InitFound == Init => FoundInv
<1> SUFFICES ASSUME Init PROVE FoundInv
    OBVIOUS
<1>1. DOMAIN Empty = {}
    BY DEF Empty
<1>2. MapsFull
    BY <1>1 DEF Init, MapsFull
<1>3. TmpMaskFull /\ RowsRead
    BY <1>1 DEF Init, TmpMaskFull, RowsRead
<1>4. RecordsAhead /\ PlacesAhead
    BY DEF Init, RecordsAhead, PlacesAhead
<1> QED
    BY <1>2, <1>3, <1>4 DEF FoundInv

\* What the caller wants does not change during the call.
LEMMA SameWants ==
    ASSUME call' = call
    PROVE  /\ Expected' = Expected /\ Rights' = Rights
           /\ \A rid : KeysOf(rid)' = KeysOf(rid)
           /\ \A rid, places, ahead : Counted(rid, places, ahead)' <=> Counted(rid, places, ahead)
           /\ LimitedByKey' <=> LimitedByKey
           /\ MaskFits' <=> MaskFits
           /\ SortKeysFit' <=> SortKeysFit
<1>1. /\ \A bases : CollsOf(bases)' = CollsOf(bases)
      /\ \A rid : MaySee(rid)' <=> MaySee(rid)
      /\ \A rid : HitsOf(rid)' = HitsOf(rid)
      /\ \A rid : ValuesOf(rid)' = ValuesOf(rid)
      /\ \A rid : EntriesOf(rid, {call.lng})' = EntriesOf(rid, {call.lng})
      /\ \A rid : EntriesOf(rid, {"", call.lng})' = EntriesOf(rid, {"", call.lng})
      /\ \A rid : TermsOf(rid)' = TermsOf(rid)
    BY SameCall, SameEntries
<1>2. \A rid : KeysOf(rid)' = KeysOf(rid)
    BY DEF KeysOf
<1>3. \A rid : Means(rid)' <=> Means(rid)
    BY <1>1 DEF Means
<1>4. Expected' = Expected
    <2>1. Wanted' = Wanted
        BY <1>1, <1>2, <1>3 DEF Wanted
    <2>2. \A rid : PlainOnly(rid)' <=> PlainOnly(rid)
        BY <1>1 DEF PlainOnly
    <2> QED
        BY <2>1, <2>2 DEF Expected
<1>5. Rights' = Rights
    BY <1>1 DEF Rights
<1>6. /\ LimitedByKey' <=> LimitedByKey
      /\ MaskFits' <=> MaskFits
      /\ SortKeysFit' <=> SortKeysFit
    BY DEF LimitedByKey, MaskFits, SortKeysFit
<1>7. \A rid : Times(rid)' = Times(rid)
    BY <1>2 DEF Times
<1>8. \A rid, place : HitsAt(rid, place)' = HitsAt(rid, place)
    BY <1>1 DEF HitsAt
<1>9. \A rid, places, ahead : Counted(rid, places, ahead)' <=> Counted(rid, places, ahead)
    BY <1>7, <1>8 DEF Counted, Count
<1> QED
    BY <1>2, <1>4, <1>5, <1>6, <1>9

\* Before the statement is executed there are no rows and no answers.
LEMMA NotYet ==
    ASSUME FoundInv, pc \notin {"fetch", "done"}, pc' \notin {"fetch", "done"},
           rows' = rows, answers' = answers
    PROVE  RowsRead' /\ RecordsAhead' /\ PlacesAhead'
<1>1. rows' = {} /\ DOMAIN answers' = {}
    BY DEF FoundInv, RowsRead
<1> QED
    BY <1>1 DEF RowsRead, RecordsAhead, PlacesAhead

LEMMA TakeCollectionFound ==
    ASSUME SearchInv, FoundInv, TakeCollection
    PROVE  FoundInv'
<1>1. /\ pc = "collections" /\ pc' = pc /\ call' = call
      /\ UNCHANGED <<created, tmpmask, rows, answers>>
      /\ colls # << >> /\ colls' = Tail(colls)
    BY DEF TakeCollection
<1>2. colls \in Seq(Int \cup {NoLong})
    BY DEF SearchInv, TypeOK
<1>3. /\ 1 \in DOMAIN colls /\ Head(colls) = colls[1]
      /\ \A i \in DOMAIN colls : i # 1 => i - 1 \in DOMAIN colls' /\ colls'[i - 1] = colls[i]
      /\ \A i \in DOMAIN colls' : i + 1 \in DOMAIN colls /\ colls'[i] = colls[i + 1]
    BY <1>1, <1>2
<1> DEFINE base == colls[1]
           rest == colls'
           head == IF Unknown(base) THEN {} ELSE {Bases[base]}
<1>4. CollsOf(colls) = head \cup CollsOf(rest)
    <2>1. \A i \in DOMAIN colls : ~Unknown(colls[i]) => Bases[colls[i]] \in head \cup CollsOf(rest)
        <3>1. TAKE i \in DOMAIN colls
        <3>2. HAVE ~Unknown(colls[i])
        <3>3. CASE i = 1
            BY <3>2, <3>3
        <3>4. CASE i # 1
            <4>1. i - 1 \in DOMAIN rest /\ rest[i - 1] = colls[i]
                BY <1>3, <3>4
            <4> HIDE DEF rest
            <4> QED
                BY <3>2, <4>1 DEF CollsOf
        <3> QED
            BY <3>3, <3>4
    <2>2. \A i \in DOMAIN rest : ~Unknown(rest[i]) => Bases[rest[i]] \in CollsOf(colls)
        BY <1>3 DEF CollsOf
    <2>3. head \subseteq CollsOf(colls)
        BY <1>3 DEF CollsOf
    <2> HIDE DEF head, rest
    <2> QED
        BY <2>1, <2>2, <2>3 DEF CollsOf
<1>5. DOMAIN cid2bid' = DOMAIN cid2bid \cup head
    BY <1>3 DEF TakeCollection, Put
<1>6. CollsOf(call.colls) = DOMAIN cid2bid \cup CollsOf(colls)
    BY DEF FoundInv, MapsFull
<1>7. MapsFull'
    <2>1. CollsOf(call.colls)' = CollsOf(call.colls) /\ CollsOf(colls)' = CollsOf(rest)
        BY <1>1, SameCall DEF CollsOf, Unknown
    <2> HIDE DEF head, rest
    <2> QED
        BY <1>1, <1>4, <1>5, <1>6, <2>1 DEF MapsFull
<1>8. TmpMaskFull'
    BY <1>1, SameWants DEF FoundInv, TmpMaskFull
<1> QED
    BY <1>1, <1>7, <1>8, NotYet DEF FoundInv

LEMMA ConnectFound ==
    ASSUME FoundInv, Connect
    PROVE  FoundInv'
<1>1. /\ pc = "collections" /\ colls = << >> /\ pc' \in {"tmpmask", "failed"}
      /\ UNCHANGED <<call, colls, cid2bid, created, tmpmask, rows, answers>>
    BY DEF Connect
<1>2. MapsFull'
    BY <1>1, SameColls DEF FoundInv, MapsFull, CollsOf, Unknown
<1>3. TmpMaskFull'
    BY <1>1, SameWants DEF FoundInv, TmpMaskFull
<1> QED
    BY <1>1, <1>2, <1>3, NotYet DEF FoundInv

\* _tmpmask is made of all the rights, and its only_business is what the caller asked.
LEMMA TmpMaskRights ==
    ASSUME SearchInv, FoundInv, pc = "tmpmask", ~Throws
    PROVE  TmpMask = Rights
<1>1. DOMAIN cid2bid = CollsOf(call.colls)
    <2>1. colls = << >>
        BY DEF FoundInv, MapsFull
    <2>2. CollsOf(colls) = {}
        BY <2>1 DEF CollsOf
    <2> QED
        BY <2>2 DEF FoundInv, MapsFull
<1>2. ASSUME NEW cid
      PROVE  OnlyBusiness(cid) <=> ~(call.business # NoList /\ cid \in CollsOf(call.business))
    <2>1. CASE call.business = NoList
        BY <2>1 DEF OnlyBusiness
    <2>2. CASE call.business # NoList
        <3>1. \A i \in DOMAIN call.business : call.business[i] # NoLong =>
                  /\ ~Unknown(call.business[i])
                  /\ bid2cid[call.business[i]] = Bases[call.business[i]]
            BY <2>2 DEF Throws, SearchInv, MapsInv
        <3>2. cid \in CollsOf(call.business) <=>
                  \E i \in DOMAIN call.business :
                      ~Unknown(call.business[i]) /\ Bases[call.business[i]] = cid
            BY DEF CollsOf
        <3>3. \A i \in DOMAIN call.business : Unknown(call.business[i]) => call.business[i] = NoLong
            BY <3>1
        <3>4. \A b : b = NoLong => Unknown(b)
            BY DEF Unknown
        <3> QED
            BY <2>2, <3>1, <3>2, <3>3, <3>4 DEF OnlyBusiness
    <2> QED
        BY <2>1, <2>2
<1>3. ASSUME NEW cid
      PROVE  OnlyBusiness(cid) = ~(call.business # NoList /\ cid \in CollsOf(call.business))
    BY <1>2 DEF OnlyBusiness
<1> QED
    BY <1>1, <1>3 DEF TmpMask, Rights

LEMMA CreateTmpMaskFound ==
    ASSUME SearchInv, FoundInv, CreateTmpMask
    PROVE  FoundInv'
<1>1. /\ pc = "tmpmask" /\ pc' \in {"aborted", "mask"}
      /\ UNCHANGED <<call, colls, cid2bid, rows, answers>>
    BY DEF CreateTmpMask
<1>2. MapsFull'
    BY <1>1, SameColls DEF FoundInv, MapsFull, CollsOf, Unknown
<1>3. created' => tmpmask' = Rights
    <2>1. ~created
        BY <1>1 DEF FoundInv, TmpMaskFull
    <2> QED
        BY <1>1, <2>1, TmpMaskRights DEF CreateTmpMask
<1>4. TmpMaskFull'
    BY <1>1, <1>3, SameWants DEF TmpMaskFull
<1> QED
    BY <1>1, <1>2, <1>4, NotYet DEF FoundInv

LEMMA ReadMaskFound ==
    ASSUME FoundInv, ReadMask
    PROVE  FoundInv'
<1>1. /\ pc = "mask" /\ pc' = "leaf"
      /\ UNCHANGED <<call, colls, cid2bid, created, tmpmask, rows, answers>>
    BY DEF ReadMask
<1>2. MapsFull'
    BY <1>1, SameColls DEF FoundInv, MapsFull, CollsOf, Unknown
<1>3. TmpMaskFull'
    BY <1>1, SameWants DEF FoundInv, TmpMaskFull
<1> QED
    BY <1>1, <1>2, <1>3, NotYet DEF FoundInv

LEMMA ExecuteFound ==
    ASSUME SearchInv, FoundInv, Execute
    PROVE  FoundInv'
<1>1. /\ pc = "leaf"
      /\ UNCHANGED <<call, colls, cid2bid, created, tmpmask, answers>>
    BY DEF Execute
<1>2. MapsFull'
    BY <1>1, SameColls DEF Execute, FoundInv, MapsFull, CollsOf, Unknown
<1>3. TmpMaskFull'
    BY <1>1, SameWants DEF Execute, FoundInv, TmpMaskFull
<1>4. CASE pc' = "failed"
    <2>1. rows' = rows
        BY <1>4 DEF Execute
    <2> QED
        BY <1>1, <1>2, <1>3, <1>4, <2>1, NotYet DEF FoundInv
<1>5. CASE pc' = "fetch"
    <2>1. created /\ rows' \in Results(call.leaf)
        BY <1>5 DEF Execute
    <2>2. TypeOK /\ TmpMaskInv /\ UseMaskInv /\ TmpMaskFull
        BY DEF SearchInv, FoundInv
    <2>3. DOMAIN answers = {}
        BY <1>1 DEF FoundInv, RowsRead
    <2>4. \A row \in rows' : row.key # NoKey => \E p \in KeysOf(row.rid) : row.key = p.value
        BY <2>1, <2>2, ResultsKeys
    <2>5. RowsRead'
        BY <1>1, <1>5, <2>4, SameWants DEF RowsRead
    <2>6. RecordsAhead'
        <3>1. SUFFICES ASSUME ~Tuples, ~LimitedByKey, MaskFits
                       PROVE  {row.rid : row \in rows'} = Expected
            BY <1>1, <2>3, SameWants, SameCall DEF RecordsAhead
        <3> QED
            BY <2>1, <2>2, <3>1, ResultsWanted DEF RidsOf
    <2>7. PlacesAhead'
        <3>1. SUFFICES ASSUME InText, NEW rid \in {row.rid : row \in rows'}
                       PROVE  Counted(rid, << >>, {row \in rows' : row.rid = rid})
            <4>1. /\ InText' <=> InText
                  /\ \A rid, places, ahead : Counted(rid, places, ahead)' <=> Counted(rid, places, ahead)
                BY <1>1, SameCall, SameWants
            <4>2. DOMAIN answers' = {}
                BY <1>1, <2>3
            <4>3. \A rid : PlacesOf(rid)' = << >>
                BY <4>2 DEF PlacesOf
            <4>4. \A rid : Ahead(rid)' = {row \in rows' : row.rid = rid}
                BY DEF Ahead
            <4> QED
                BY <3>1, <4>1, <4>2, <4>3, <4>4 DEF PlacesAhead
        <3>2. PICK result : result = rows'
            OBVIOUS
        <3>3. result = Sorted({HitRow(t) : t \in Hits})
            BY <2>1, <2>2, <3>1, <3>2, HitsFound
        <3>4. rid \in Reached
            <4>1. Reached = {r \in Rids : MaySee(r)}
                BY <2>1, <2>2, ReachedExact
            <4>2. RidsOf(result) = Expected
                BY <2>2, <3>1, <3>3, <4>1, HitRows
            <4> QED
                BY <3>1, <3>2, <4>1, <4>2 DEF RidsOf, Expected, Wanted
        <3>5. Counted(rid, << >>, {row \in result : row.rid = rid})
            BY <3>3, <3>4, RowsPlain, RowsSorted
        <3> QED
            BY <3>2, <3>5
    <2> QED
        BY <1>2, <1>3, <2>5, <2>6, <2>7 DEF FoundInv
<1> QED
    BY <1>4, <1>5 DEF Execute

\* One row more is read: its place goes from those ahead to those found.
LEMMA FetchFound ==
    ASSUME SearchInv, FoundInv, Fetch
    PROVE  FoundInv'
<1>1. PICK row \in rows : /\ rows' = rows \ {row}
                          /\ answers' = Put(answers, row.rid, AnswerWith(row))
    BY DEF Fetch
<1>2. /\ pc = "fetch"
      /\ UNCHANGED <<call, pc, colls, cid2bid, created, tmpmask>>
    BY DEF Fetch
<1> DEFINE rid == row.rid
           new == AnswerWith(row)
<1>3. /\ DOMAIN answers' = DOMAIN answers \cup {rid}
      /\ answers'[rid] = new
      /\ \A r \in DOMAIN answers \ {rid} : answers'[r] = answers[r]
    <2> HIDE DEF new
    <2>1. answers' = Put(answers, rid, new)
        BY <1>1 DEF new
    <2> QED
        BY <2>1 DEF Put
<1>4. MapsFull'
    BY <1>2, SameColls DEF FoundInv, MapsFull, CollsOf, Unknown
<1>5. TmpMaskFull'
    BY <1>2, SameWants DEF FoundInv, TmpMaskFull
<1>6. RowsRead'
    BY <1>1, <1>2, SameWants DEF FoundInv, RowsRead
<1>7. DOMAIN answers' \cup {r.rid : r \in rows'} = DOMAIN answers \cup {r.rid : r \in rows}
    BY <1>1, <1>3
<1>8. RecordsAhead'
    BY <1>2, <1>7, SameWants, SameCall DEF FoundInv, RecordsAhead
<1>9. PlacesAhead'
    <2>1. /\ InText' <=> InText
          /\ \A r, places, ahead : Counted(r, places, ahead)' <=> Counted(r, places, ahead)
        BY <1>2, SameCall, SameWants
    <2>2. SUFFICES ASSUME InText, NEW r \in DOMAIN answers \cup {s.rid : s \in rows}
                   PROVE  Counted(r, PlacesOf(r)', Ahead(r)')
        BY <1>2, <1>7, <2>1 DEF PlacesAhead
    <2>3. Counted(r, PlacesOf(r), Ahead(r))
        BY <1>2, <2>2 DEF FoundInv, PlacesAhead
    <2>4. CASE r # rid
        <3>1. PlacesOf(r)' = PlacesOf(r)
            BY <1>3, <2>4 DEF PlacesOf
        <3>2. Ahead(r)' = Ahead(r)
            BY <1>1, <2>4 DEF Ahead
        <3> QED
            BY <2>3, <3>1, <3>2
    <2>5. CASE r = rid
        <3>1. row.place # NoPlace
            <4>1. \E t \in HitsOf(rid) : t.place = row.place
                BY <1>1, <2>2 DEF SearchInv, RowsInv
            <4>2. \A t \in HitsOf(rid) : t \in Idx \cup Thit
                BY DEF HitsOf, EntriesOf, TermsOf
            <4> QED
                BY <4>1, <4>2, DataAssumption
        <3>2. Ahead(r)' = Ahead(r) \ {row} /\ row \in Ahead(r)
            BY <1>1, <2>5 DEF Ahead
        <3> DEFINE places == PlacesOf(r)
        <3>3. places \in Seq(Places)
            BY DEF PlacesOf, SearchInv, TypeOK
        <3>4. PlacesOf(r)' = Append(places, row.place)
            <4>1. new.places = places \o <<row.place>>
                <5>1. CASE rid \in DOMAIN answers
                    BY <2>5, <3>1, <5>1 DEF AnswerWith, PlacesOf
                <5>2. CASE rid \notin DOMAIN answers
                    BY <2>5, <3>1, <5>2 DEF AnswerWith, PlacesOf
                <5> QED
                    BY <5>1, <5>2
            <4>2. PlacesOf(r)' = new.places
                BY <1>3, <2>5 DEF PlacesOf
            <4> HIDE DEF places, new
            <4> QED
                BY <3>3, <4>1, <4>2
        <3>5. row.place \in Places
            BY <1>1, <3>1 DEF SearchInv, TypeOK, Row
        <3>6. PICK p, a : p \in Seq(Places) /\ p = PlacesOf(r) /\ a = Ahead(r)
            BY <3>3
        <3>7. Counted(r, Append(p, row.place), a \ {row})
            BY <2>3, <3>2, <3>5, <3>6, PlaceRead
        <3> QED
            BY <3>2, <3>4, <3>6, <3>7
    <2> QED
        BY <2>4, <2>5
<1> QED
    BY <1>4, <1>5, <1>6, <1>8, <1>9 DEF FoundInv

LEMMA SamePlaces ==
    ASSUME rows' = rows, answers' = answers
    PROVE  \A rid : PlacesOf(rid)' = PlacesOf(rid) /\ Ahead(rid)' = Ahead(rid)
BY DEF PlacesOf, Ahead

\* The loop only stops before the end of the rows on a key that is cut.
LEMMA EndOfRowsFound ==
    ASSUME FoundInv, EndOfRows
    PROVE  FoundInv'
<1>1. /\ pc = "fetch" /\ pc' = "done"
      /\ UNCHANGED <<call, colls, cid2bid, created, tmpmask, rows, answers>>
    BY DEF EndOfRows
<1>2. MapsFull'
    BY <1>1, SameColls DEF FoundInv, MapsFull, CollsOf, Unknown
<1>3. TmpMaskFull'
    BY <1>1, SameWants DEF FoundInv, TmpMaskFull
<1>4. ASSUME SortKeysFit PROVE rows = {}
    <2>1. SUFFICES ASSUME NEW row \in rows, row.key \in TooLong PROVE FALSE
        BY DEF EndOfRows
    <2>2. row.key # NoKey
        BY <2>1, DataAssumption
    <2>3. PICK p \in KeysOf(row.rid) : row.key = p.value
        BY <2>2 DEF FoundInv, RowsRead
    <2> QED
        BY <1>4, <2>1, <2>3 DEF SortKeysFit, KeysOf
<1>5. RowsRead'
    BY <1>1, <1>4, SameWants DEF FoundInv, RowsRead
<1>6. RecordsAhead'
    BY <1>1, SameWants, SameCall DEF FoundInv, RecordsAhead
<1>7. PlacesAhead'
    BY <1>1, SamePlaces, SameWants, SameCall DEF FoundInv, PlacesAhead
<1> QED
    BY <1>2, <1>3, <1>5, <1>6, <1>7 DEF FoundInv

LEMMA StutterFound ==
    ASSUME FoundInv, UNCHANGED vars
    PROVE  FoundInv'
<1>1. UNCHANGED <<call, pc, colls, cid2bid, bid2cid, created, tmpmask, use_mask, rows, answers>>
    BY DEF vars
<1>2. MapsFull'
    BY <1>1, SameColls DEF FoundInv, MapsFull, CollsOf, Unknown
<1>3. TmpMaskFull'
    BY <1>1, SameWants DEF FoundInv, TmpMaskFull
<1>4. RowsRead'
    BY <1>1, SameWants DEF FoundInv, RowsRead
<1>5. RecordsAhead'
    BY <1>1, SameWants, SameCall DEF FoundInv, RecordsAhead
<1>6. PlacesAhead'
    BY <1>1, SamePlaces, SameWants, SameCall DEF FoundInv, PlacesAhead
<1> QED
    BY <1>2, <1>3, <1>4, <1>5, <1>6 DEF FoundInv

\* FoundInv is an invariant of the search, for any data, repeated rows included: while
\* the rows are read, the records found and those of the rows to come are those expected,
\* and a place is found or ahead as often as it has to be in the end.
THEOREM FoundInvariant == Spec => []FoundInv
<1>1. SearchInv /\ FoundInv /\ [Next]_vars => FoundInv'
    <2> SUFFICES ASSUME SearchInv, FoundInv, [Next]_vars PROVE FoundInv'
        OBVIOUS
    <2> QED
        BY TakeCollectionFound, ConnectFound, CreateTmpMaskFound, ReadMaskFound,
           ExecuteFound, FetchFound, EndOfRowsFound, StutterFound DEF Next
<1> QED
    BY InitFound, <1>1, SearchInvariant, PTL DEF Spec

\* For any rights and data, a leaf that MySQL runs finds every record the user may
\* see and that it means, and no other, less those without the sort field and
\* those that only the index without stemming has.  Not said of sha256=sha256, of ALL n
\* with a sort, of status masks of more than 64 characters, and of sort keys that are cut.
THEOREM NothingMissed == Spec => []AllFound
<1>1. FoundInv => AllFound
    <2> SUFFICES ASSUME FoundInv, pc = "done", ~Tuples, ~LimitedByKey, SortKeysFit, MaskFits
                 PROVE  DOMAIN answers = Expected
        BY DEF AllFound
    <2>1. rows = {}
        BY DEF FoundInv, RowsRead
    <2> QED
        BY <2>1 DEF FoundInv, RecordsAhead
<1> QED
    BY <1>1, FoundInvariant, PTL

\* For any rights and data, an answer keeps each place as often as the words or terms
\* found there times the values of the sort field, if no sort key is cut.
THEOREM EachPlaceCounted == Spec => []PlacesCounted
<1>1. SearchInv /\ FoundInv => PlacesCounted
    <2> SUFFICES ASSUME SearchInv, FoundInv, pc = "done", InText, SortKeysFit,
                        NEW rid \in DOMAIN answers, NEW place \in Places
                 PROVE  Count(answers[rid].places, place)
                            = Times(rid) * Cardinality(HitsAt(rid, place))
        BY DEF PlacesCounted
    <2>1. rows = {}
        BY DEF FoundInv, RowsRead
    <2>2. PlacesOf(rid) = answers[rid].places /\ Ahead(rid) = {}
        BY <2>1 DEF PlacesOf, Ahead
    <2>3. Counted(rid, answers[rid].places, {})
        BY <2>2 DEF FoundInv, PlacesAhead
    <2>4. Count(answers[rid].places, place) + 0 = Times(rid) * Cardinality(HitsAt(rid, place))
        <3>1. {row \in {} : row.place = place} = {}
            OBVIOUS
        <3> QED
            BY <2>3, <3>1, FS_EmptySet DEF Counted
    <2>5. Count(answers[rid].places, place) \in Nat
        <3>1. PICK places : places = answers[rid].places /\ IsFiniteSet(DOMAIN places)
            <4>1. PICK places : places = answers[rid].places /\ places \in Seq(Places)
                BY DEF SearchInv, TypeOK
            <4>2. DOMAIN places = 1..Len(places) /\ Len(places) \in Nat
                BY <4>1, LenProperties
            <4>3. IsFiniteSet(1..Len(places))
                BY <4>2, FS_Interval
            <4> QED
                BY <4>1, <4>2, <4>3
        <3> QED
            BY <3>1, FS_Subset, FS_CardinalityType DEF Count
    <2> QED
        BY <2>4, <2>5
<1> QED
    BY <1>1, SearchInvariant, FoundInvariant, PTL
=============================================================================
