---------------------------- MODULE SessionsProofs ----------------------------
(***************************************************************************)
(* Theorems about Sessions, for any workers, users, published collections   *)
(* and number of sessions.                                                  *)
(***************************************************************************)
EXTENDS Sessions, RecursionLemmas

\* The locals of the loop over the rows, as TypeOK has them.
Listing == [row : 1..(Len(Rows) + 1), last_sbas_id : Sbas \cup {0}, connok : BOOLEAN,
            cache_base : Nat, bases : Seq(Base)]

ListingOK(c) == c \in Listing /\ c.cache_base \in 0..Len(c.bases)

\* Every collection of these bases is under its own databox.
InTheirBase(bases) ==
    \A b \in DOMAIN bases : \A i \in DOMAIN bases[b].colls :
        bases[b].colls[i].sbas_id = bases[b].sbas_id

\* In the middle of the list, when the databoxes `boxes' answer and no other: the
\* connection is that of the last row, and cache_base the base of its databox
\* if it answered.
ListedSoFar(c, boxes) ==
    /\ InTheirBase(c.bases)
    /\ c.last_sbas_id = 0 => ~c.connok
    /\ c.last_sbas_id # 0 => (c.connok <=> c.last_sbas_id \in boxes)
    /\ c.connok => c.cache_base # 0 /\ c.bases[c.cache_base].sbas_id = c.last_sbas_id

\* A worker's list, for a row inserted before.
ListOf(w) ==
    IF pc[w] = "list"
    THEN sesid[w] \in 1..inserted /\ ListedSoFar(creating[w], up[sesid[w]])
    ELSE creating[w] = NoListing

\* The inductive invariant of CollsInTheirBase.
ListInv ==
    /\ \A session \in Kept : InTheirBase(session.bases)
    /\ \A w \in Workers : ListOf(w)

-----------------------------------------------------------------------------
(* One turn of the loop over the rows                                      *)

LEMMA RowsTyped ==
    /\ Len(Rows) \in Nat
    /\ \A i \in DOMAIN Rows : /\ Rows[i] \in Row
                              /\ Rows[i].sbas_id \in Sbas
    /\ DOMAIN Rows = 1..Len(Rows)
    /\ 0 \notin Sbas
    /\ \A r \in Row : r.sbas_id \in Sbas
  <1> DEFINE PublishedRow == [base_id : Nat \ {0}, sbas_id : Nat \ {0}, coll_id : Nat]
  <1>1. Rows \in Seq(PublishedRow)
    BY RowsAssumption
  <1> HIDE DEF PublishedRow
  <1>2. Len(Rows) \in Nat /\ DOMAIN Rows = 1..Len(Rows)
        /\ \A i \in DOMAIN Rows : Rows[i] \in PublishedRow
    BY <1>1
  <1>3. \A r \in PublishedRow : r.sbas_id # 0
    BY DEF PublishedRow
  <1> QED
    BY <1>2, <1>3 DEF Row, Sbas

LEMMA NoListingOk == ListingOK(NoListing) /\ \A boxes : ListedSoFar(NoListing, boxes)
  <1>1. << >> \in Seq(Base) /\ Len(<< >>) = 0 /\ DOMAIN << >> = {}
    OBVIOUS
  <1> QED
    BY <1>1, RowsTyped DEF ListingOK, Listing, NoListing, ListedSoFar, InTheirBase

\* A row of another databox leaves a well-formed list.
LEMMA ChangeTyped ==
    ASSUME NEW c, ListingOK(c), NEW r \in Row, NEW ok \in BOOLEAN
    PROVE  /\ ListingOK(ChangeDatabox(c, r, ok))
           /\ ChangeDatabox(c, r, ok).row = c.row
           /\ ChangeDatabox(c, r, ok).last_sbas_id = r.sbas_id
  <1> DEFINE new == [sbas_id |-> r.sbas_id, colls |-> << >>]
  <1>1. new \in Base
    BY RowsTyped DEF Base
  <1>2. /\ Append(c.bases, new) \in Seq(Base)
        /\ Len(Append(c.bases, new)) = Len(c.bases) + 1
        /\ Len(c.bases) \in Nat
    BY <1>1 DEF ListingOK, Listing
  <1>3. r.sbas_id \in Sbas
    BY RowsTyped
  <1> HIDE DEF new
  <1>4. CASE r.sbas_id = c.last_sbas_id
    BY <1>4 DEF ChangeDatabox, ListingOK
  <1>5. CASE r.sbas_id # c.last_sbas_id
    <2>1. ChangeDatabox(c, r, ok) =
              [row |-> c.row, last_sbas_id |-> r.sbas_id, connok |-> ok,
               cache_base |-> IF ok THEN Len(c.bases) + 1 ELSE c.cache_base,
               bases |-> IF ok THEN Append(c.bases, new) ELSE c.bases]
      BY <1>5 DEF ChangeDatabox, ListingOK, Listing, new
    <2> QED
      BY <2>1, <1>2, <1>3 DEF ListingOK, Listing
  <1> QED
    BY <1>4, <1>5

\* Adding a collection leaves a well-formed list.
LEMMA AddTyped ==
    ASSUME NEW c, ListingOK(c), NEW r \in Row
    PROVE  /\ ListingOK(AddColl(c, r))
           /\ AddColl(c, r).row = c.row
           /\ AddColl(c, r).last_sbas_id = c.last_sbas_id
           /\ AddColl(c, r).connok = c.connok
           /\ AddColl(c, r).cache_base = c.cache_base
  <1> DEFINE k    == c.cache_base
             base == [c.bases[k] EXCEPT !.colls = Append(@, r)]
  <1>1. CASE AddColl(c, r) = c
    BY <1>1 DEF ListingOK
  <1>2. CASE AddColl(c, r) # c
    <2>1. AddColl(c, r) = [c EXCEPT !.bases = [c.bases EXCEPT ![k] = base]] /\ k # 0
      BY <1>2 DEF AddColl
    <2>2. k \in 1..Len(c.bases) /\ c.bases[k] \in Base /\ c.bases \in Seq(Base)
      BY <2>1 DEF ListingOK, Listing
    <2>3. Append(c.bases[k].colls, r) \in Seq(Row)
      BY <2>2 DEF Base
    <2>4. base \in Base
      BY <2>2, <2>3 DEF Base
    <2> HIDE DEF base
    <2>5. /\ [c.bases EXCEPT ![k] = base] \in Seq(Base)
          /\ Len([c.bases EXCEPT ![k] = base]) = Len(c.bases)
      BY <2>2, <2>4
    <2> QED
      BY <2>1, <2>5 DEF ListingOK, Listing
  <1> QED
    BY <1>1, <1>2

\* The connection may be made by the second attempt.
LEMMA AgainTyped ==
    ASSUME NEW c, ListingOK(c), NEW again \in BOOLEAN
    PROVE  /\ ListingOK([c EXCEPT !.connok = @ \/ again])
           /\ [c EXCEPT !.connok = @ \/ again].row = c.row
  <1>1. (c.connok \/ again) \in BOOLEAN
    OBVIOUS
  <1> QED
    BY <1>1 DEF ListingOK, Listing

\* When a databox answers both times or not at all, the loop keeps its place.
LEMMA RowListed ==
    ASSUME NEW c, ListingOK(c), NEW r \in Row, NEW boxes, ListedSoFar(c, boxes),
           NEW ok, ok = (r.sbas_id \in boxes)
    PROVE  ListedSoFar(AddColl([ChangeDatabox(c, r, ok) EXCEPT !.connok = @ \/ ok], r), boxes)
  <1> DEFINE d   == ChangeDatabox(c, r, ok)
             e   == [d EXCEPT !.connok = @ \/ ok]
             new == [sbas_id |-> r.sbas_id, colls |-> << >>]
  <1>0. ok \in BOOLEAN /\ r.sbas_id \in Sbas /\ r.sbas_id # 0
    BY RowsTyped
  <1>1. ListingOK(d) /\ d.last_sbas_id = r.sbas_id
    BY <1>0, ChangeTyped
  <1>2. InTheirBase(d.bases) /\ d.connok = ok
        /\ (ok => d.cache_base # 0 /\ d.bases[d.cache_base].sbas_id = r.sbas_id)
    <2>1. CASE r.sbas_id = c.last_sbas_id
      <3>1. d = c
        BY <2>1 DEF ChangeDatabox
      <3>2. c.connok \in BOOLEAN
        BY DEF ListingOK, Listing
      <3>3. c.connok = ok
        BY <3>2, <2>1, <1>0 DEF ListedSoFar
      <3> QED
        BY <3>1, <3>3, <2>1 DEF ListedSoFar
    <2>2. CASE r.sbas_id # c.last_sbas_id /\ ~ok
      <3>1. d.bases = c.bases /\ d.connok = FALSE
        BY <2>2 DEF ChangeDatabox, ListingOK, Listing
      <3> QED
        BY <3>1, <2>2, <1>0 DEF ListedSoFar
    <2>3. CASE r.sbas_id # c.last_sbas_id /\ ok
      <3>1. d.bases = Append(c.bases, new) /\ d.connok = TRUE
            /\ d.cache_base = Len(c.bases) + 1
        BY <2>3 DEF ChangeDatabox, ListingOK, Listing
      <3>2. c.bases \in Seq(Base) /\ Len(c.bases) \in Nat
        BY DEF ListingOK, Listing
      <3>3. /\ DOMAIN d.bases = 1..(Len(c.bases) + 1)
            /\ \A b \in 1..Len(c.bases) : d.bases[b] = c.bases[b]
            /\ d.bases[Len(c.bases) + 1] = new
        BY <3>1, <3>2
      <3>4. InTheirBase(d.bases)
        <4> SUFFICES ASSUME NEW b \in DOMAIN d.bases, NEW i \in DOMAIN d.bases[b].colls
                     PROVE  d.bases[b].colls[i].sbas_id = d.bases[b].sbas_id
          BY DEF InTheirBase
        <4>1. CASE b = Len(c.bases) + 1
          BY <4>1, <3>3
        <4>2. CASE b \in 1..Len(c.bases)
          BY <4>2, <3>2, <3>3 DEF ListedSoFar, InTheirBase
        <4>3. b \in 1..(Len(c.bases) + 1)
          BY <3>3
        <4>4. b = Len(c.bases) + 1 \/ b \in 1..Len(c.bases)
          BY <4>3, <3>2
        <4> QED
          BY <4>1, <4>2, <4>4
      <3> QED
        <4>1. d.cache_base # 0 /\ d.bases[d.cache_base].sbas_id = r.sbas_id
          BY <3>1, <3>2, <3>3
        <4> QED
          BY <3>1, <3>4, <4>1, <2>3
    <2> QED
      BY <2>1, <2>2, <2>3, <1>0
  <1>3. /\ e.bases = d.bases /\ e.connok = ok /\ e.cache_base = d.cache_base
        /\ e.last_sbas_id = r.sbas_id /\ ListingOK(e)
    BY <1>0, <1>1, <1>2, AgainTyped DEF ListingOK, Listing
  <1> HIDE DEF d, e
  <1> DEFINE f == AddColl(e, r)
  <1>4. /\ ListingOK(f) /\ f.last_sbas_id = r.sbas_id /\ f.connok = ok
        /\ f.cache_base = e.cache_base
    BY <1>3, AddTyped
  <1>5. InTheirBase(f.bases) /\ (ok => f.bases[f.cache_base].sbas_id = r.sbas_id)
    <2>1. CASE f = e
      BY <2>1, <1>2, <1>3
    <2>2. CASE f # e
      <3> DEFINE k    == e.cache_base
                 base == [e.bases[k] EXCEPT !.colls = Append(@, r)]
      <3>1. f = [e EXCEPT !.bases = [e.bases EXCEPT ![k] = base]] /\ e.connok /\ k # 0
        BY <2>2 DEF AddColl
      <3>2. k \in 1..Len(e.bases) /\ e.bases[k] \in Base /\ e.bases \in Seq(Base)
        BY <1>3, <3>1 DEF ListingOK, Listing
      <3>3. e.bases[k].sbas_id = r.sbas_id /\ e.bases[k].colls \in Seq(Row)
        BY <1>2, <1>3, <3>1, <3>2 DEF Base
      <3>4. base.sbas_id = r.sbas_id /\ base.colls = Append(e.bases[k].colls, r)
        BY <3>2, <3>3 DEF Base
      <3> HIDE DEF base
      <3>5. f.bases = [e.bases EXCEPT ![k] = base] /\ DOMAIN f.bases = DOMAIN e.bases
        BY <3>1, <1>3 DEF ListingOK, Listing
      <3>6. \A i \in DOMAIN base.colls : base.colls[i].sbas_id = r.sbas_id
        <4>1. \A i \in DOMAIN e.bases[k].colls : e.bases[k].colls[i].sbas_id = r.sbas_id
          BY <1>2, <1>3, <3>2, <3>3 DEF InTheirBase
        <4>2. /\ DOMAIN base.colls = 1..(Len(e.bases[k].colls) + 1)
              /\ Len(e.bases[k].colls) \in Nat
              /\ base.colls[Len(e.bases[k].colls) + 1] = r
              /\ \A i \in 1..Len(e.bases[k].colls) : base.colls[i] = e.bases[k].colls[i]
              /\ DOMAIN e.bases[k].colls = 1..Len(e.bases[k].colls)
          <5> DEFINE q == e.bases[k].colls
          <5>1. /\ DOMAIN Append(q, r) = 1..(Len(q) + 1)
                /\ Len(q) \in Nat /\ DOMAIN q = 1..Len(q)
                /\ Append(q, r)[Len(q) + 1] = r
                /\ \A i \in 1..Len(q) : Append(q, r)[i] = q[i]
            <6>1. q \in Seq(Row)
              BY <3>3
            <6> HIDE DEF q
            <6> QED
              BY <6>1
          <5> QED
            BY <5>1, <3>4
        <4>3. \A i \in 1..(Len(e.bases[k].colls) + 1) :
                i = Len(e.bases[k].colls) + 1 \/ i \in 1..Len(e.bases[k].colls)
          <5>1. Len(e.bases[k].colls) \in Nat
            BY <4>2
          <5> HIDE DEF k
          <5> QED
            BY <5>1
        <4> HIDE DEF k
        <4> QED
          BY <4>1, <4>2, <4>3
      <3>7. /\ DOMAIN f.bases = DOMAIN e.bases /\ f.bases[k] = base /\ f.cache_base = k
            /\ \A b \in DOMAIN e.bases \ {k} : f.bases[b] = e.bases[b]
        BY <3>2, <3>5, <1>4
      <3>8. \A b \in DOMAIN e.bases : \A i \in DOMAIN e.bases[b].colls :
                e.bases[b].colls[i].sbas_id = e.bases[b].sbas_id
        BY <1>2, <1>3 DEF InTheirBase
      <3> HIDE DEF f, k
      <3> QED
        BY <3>4, <3>6, <3>7, <3>8, ZenonT(30) DEF InTheirBase
    <2> QED
      BY <2>1, <2>2
  <1> QED
    BY <1>0, <1>2, <1>3, <1>4, <1>5 DEF ListedSoFar, d, e

-----------------------------------------------------------------------------
(* Types                                                                   *)

LEMMA SessionsTyped ==
    /\ NoSession \in Session
    /\ \A s \in SessionIds, bases \in Seq(Base) : [session_id |-> s, bases |-> bases] \in Session
    /\ NoRow \in [state : {"none", "live", "deleted"}, usr_id : Users \cup {0}, session : Session]
    /\ MaxSessions \in Nat
  <1>1. << >> \in Seq(Base)
    OBVIOUS
  <1> QED
    BY <1>1, BoundAssumption DEF NoSession, NoRow, Session, SessionIds

LEMMA InitType == Init => TypeOK
  BY SessionsTyped, NoListingOk DEF Init, TypeOK, ListingOK, Listing

\* What TypeOK says of the tables, of the requests, of the calls and of the history.
TableOK ==
    /\ cache \in [SessionIds -> [state : {"none", "live", "deleted"},
                                 usr_id : Users \cup {0}, session : Session]]
    /\ inserted \in 0..MaxSessions

RequestOK ==
    /\ epublisher \in [Workers -> BOOLEAN]
    /\ global_session \in [Workers -> Session]

StepOK ==
    /\ pc \in [Workers -> {"ready", "list", "open_restore", "clear_restore", "segfault"}]
    /\ sesid \in [Workers -> 0..MaxSessions]
    /\ \A w \in Workers :
          pc[w] \in {"list", "open_restore", "clear_restore"} => sesid[w] \in SessionIds

CreatingOK ==
    /\ creating \in [Workers -> Listing]
    /\ \A w \in Workers : creating[w].cache_base \in 0..Len(creating[w].bases)

HistoryOK == up \in [SessionIds -> SUBSET Sbas]

LEMMA TypeParts == TypeOK <=> TableOK /\ RequestOK /\ StepOK /\ CreatingOK /\ HistoryOK
  BY DEF TypeOK, TableOK, RequestOK, StepOK, CreatingOK, HistoryOK, Listing

LEMMA TypePartsNext ==
    TableOK' /\ RequestOK' /\ StepOK' /\ CreatingOK' /\ HistoryOK' => TypeOK'
  BY DEF TypeOK, TableOK, RequestOK, StepOK, CreatingOK, HistoryOK, Listing

LEMMA TableSame == TableOK /\ UNCHANGED table => TableOK'
  BY DEF TableOK, table
LEMMA RequestSame == RequestOK /\ UNCHANGED request => RequestOK'
  BY DEF RequestOK, request
LEMMA StepSame == StepOK /\ UNCHANGED <<pc, sesid>> => StepOK'
  BY DEF StepOK
LEMMA CreatingSame == CreatingOK /\ UNCHANGED creating => CreatingOK'
  BY DEF CreatingOK
LEMMA HistorySame == HistoryOK /\ UNCHANGED up => HistoryOK'
  BY DEF HistoryOK

\* The step a worker goes on with is about a session unless it is one of these.
LEMMA GotoType ==
    ASSUME StepOK, NEW w \in Workers,
           NEW label \in {"ready", "list", "open_restore", "clear_restore", "segfault"},
           NEW s \in 0..MaxSessions, Goto(w, label, s),
           s \in SessionIds \/ label \in {"ready", "segfault"}
    PROVE  StepOK'
  BY DEF StepOK, Goto

LEMMA ReturnType ==
    ASSUME StepOK, CreatingOK, NEW w \in Workers, Return(w)
    PROVE  StepOK' /\ CreatingOK'
  <1>1. StepOK'
    <2>1. 0 \in 0..MaxSessions
      BY SessionsTyped
    <2> QED
      BY <2>1, GotoType DEF Return
  <1>2. CreatingOK'
    BY NoListingOk DEF Return, CreatingOK, ListingOK
  <1> QED
    BY <1>1, <1>2

\* A session is saved in its row or is not.
LEMMA SaveType ==
    ASSUME TableOK, NEW s, NEW session \in Session, Save(s, session), UNCHANGED inserted
    PROVE  TableOK'
  <1>1. CASE UNCHANGED cache
    BY <1>1 DEF TableOK
  <1>2. CASE Live(s) /\ cache' = [cache EXCEPT ![s].session = session]
    BY <1>2 DEF TableOK, Live
  <1> QED
    BY <1>1, <1>2 DEF Save

LEMMA TypeNext == TypeOK /\ [Next]_vars => TypeOK'
  <1> SUFFICES ASSUME TypeOK, [Next]_vars PROVE TypeOK'
    OBVIOUS
  <1>0. TableOK /\ RequestOK /\ StepOK /\ CreatingOK /\ HistoryOK
    BY TypeParts
  <1>1. CASE UNCHANGED vars
    BY <1>0, <1>1, TableSame, RequestSame, StepSame, CreatingSame, HistorySame, TypePartsNext
    DEF vars, call
  <1>2. ASSUME NEW w \in Workers, Conn(w) \/ EndRequest(w) PROVE TypeOK'
    <2>1. RequestOK'
      BY <1>0, <1>2, SessionsTyped DEF Conn, EndRequest, RequestOK
    <2> QED
      BY <1>0, <1>2, <2>1, TableSame, StepSame, CreatingSame, HistorySame, TypePartsNext
      DEF Conn, EndRequest, call
  <1>3. ASSUME NEW w \in Workers, InsertSession(w) PROVE TypeOK'
    <2>1. inserted + 1 \in SessionIds /\ inserted + 1 \in 0..MaxSessions
      BY <1>0, <1>3, SessionsTyped DEF InsertSession, SessionIds, TableOK
    <2>2. TableOK'
      BY <1>0, <1>3, <2>1, SessionsTyped DEF InsertSession, TableOK
    <2>3. StepOK'
      BY <1>0, <1>3, <2>1, GotoType DEF InsertSession
    <2>4. HistoryOK'
      BY <1>0, <1>3, <2>1 DEF InsertSession, HistoryOK
    <2> QED
      BY <1>0, <1>3, <2>2, <2>3, <2>4, RequestSame, CreatingSame, TypePartsNext
      DEF InsertSession
  <1>4. ASSUME NEW w \in Workers, ListFails(w) PROVE TypeOK'
    BY <1>0, <1>4, ReturnType, TableSame, RequestSame, HistorySame, TypePartsNext DEF ListFails
  <1>5. ASSUME NEW w \in Workers, ListRow(w) PROVE TypeOK'
    <2> DEFINE c == creating[w]
               r == Rows[c.row]
    <2>1. PICK first \in BOOLEAN, again \in BOOLEAN :
              creating' = [creating EXCEPT ![w] =
                  [AddColl([ChangeDatabox(c, r, first) EXCEPT !.connok = @ \/ again], r)
                      EXCEPT !.row = @ + 1]]
      <3>1. Answers(w, r.sbas_id) \subseteq BOOLEAN
        BY DEF Answers
      <3> QED
        BY <1>5, <3>1 DEF ListRow
    <2> DEFINE d == ChangeDatabox(c, r, first)
               e == [d EXCEPT !.connok = @ \/ again]
               f == AddColl(e, r)
    <2>2. ListingOK(c) /\ c.row \in 1..Len(Rows) /\ r \in Row
      BY <1>0, <1>5, RowsTyped DEF ListRow, CreatingOK, ListingOK
    <2> HIDE DEF c, r
    <2>3. ListingOK(d) /\ d.row = c.row
      BY <2>2, ChangeTyped
    <2> HIDE DEF d
    <2>4. ListingOK(e) /\ e.row = c.row
      BY <2>3, AgainTyped
    <2> HIDE DEF e
    <2>5. ListingOK(f) /\ f.row = c.row
      BY <2>2, <2>4, AddTyped
    <2>6. creating' = [creating EXCEPT ![w] = [f EXCEPT !.row = @ + 1]]
      BY <2>1 DEF d, e
    <2> HIDE DEF f
    <2>7. c.row + 1 \in 1..(Len(Rows) + 1)
      BY <2>2, RowsTyped
    <2>8. ListingOK([f EXCEPT !.row = @ + 1])
      BY <2>5, <2>7 DEF ListingOK, Listing
    <2>9. CreatingOK'
      BY <1>0, <2>6, <2>8 DEF CreatingOK, ListingOK
    <2> QED
      BY <1>0, <1>5, <2>9, TableSame, RequestSame, StepSame, HistorySame, TypePartsNext
      DEF ListRow
  <1>6. ASSUME NEW w \in Workers, KeepSession(w) PROVE TypeOK'
    <2> DEFINE new == [session_id |-> sesid[w], bases |-> creating[w].bases]
    <2>1. sesid[w] \in SessionIds /\ creating[w].bases \in Seq(Base)
      BY <1>0, <1>6 DEF KeepSession, StepOK, CreatingOK, Listing
    <2>2. new \in Session
      BY <2>1, SessionsTyped
    <2>3. /\ global_session' = [global_session EXCEPT ![w] = new] /\ Save(sesid[w], new)
          /\ UNCHANGED <<inserted, epublisher, up>> /\ Return(w)
      BY <1>6 DEF KeepSession
    <2> HIDE DEF new
    <2>4. TableOK'
      BY <1>0, <2>2, <2>3, SaveType
    <2>5. RequestOK' /\ HistoryOK'
      BY <1>0, <2>1, <2>2, <2>3 DEF RequestOK, HistoryOK
    <2> QED
      BY <1>0, <2>3, <2>4, <2>5, ReturnType, TypePartsNext
  <1>7. ASSUME NEW w \in Workers, OpenSession(w) \/ ClearCache(w) PROVE TypeOK'
    <2>1. \E s \in SessionIds \cup {0}, label \in {"open_restore", "clear_restore", "segfault"} :
              (s \in SessionIds \/ label = "segfault") /\ Goto(w, label, s)
      BY <1>7 DEF OpenSession, ClearCache
    <2>2. SessionIds \cup {0} \subseteq 0..MaxSessions
      BY SessionsTyped DEF SessionIds
    <2>3. StepOK'
      BY <1>0, <2>1, <2>2, GotoType
    <2> QED
      BY <1>0, <1>7, <2>3, TableSame, RequestSame, CreatingSame, HistorySame, TypePartsNext
      DEF OpenSession, ClearCache
  <1>8. ASSUME NEW w \in Workers, Restore(w) PROVE TypeOK'
    <2>1. cache[sesid[w]].session \in Session
      BY <1>0, <1>8 DEF Restore, StepOK, TableOK
    <2>2. RequestOK'
      BY <1>0, <1>8, <2>1 DEF Restore, RequestOK
    <2> QED
      BY <1>0, <1>8, <2>2, ReturnType, TableSame, HistorySame, TypePartsNext DEF Restore
  <1>9. ASSUME NEW w \in Workers, CloseSession(w) PROVE TypeOK'
    <2>1. TableOK'
      <3>1. PICK s \in SessionIds :
                cache' = [cache EXCEPT ![s] = [@ EXCEPT !.state = "deleted", !.session = NoSession]]
        BY <1>9 DEF CloseSession
      <3>2. [cache[s] EXCEPT !.state = "deleted", !.session = NoSession] \in
                [state : {"none", "live", "deleted"}, usr_id : Users \cup {0}, session : Session]
        BY <1>0, SessionsTyped DEF TableOK
      <3> QED
        BY <1>0, <1>9, <3>1, <3>2 DEF CloseSession, TableOK
    <2> QED
      BY <1>0, <1>9, <2>1, RequestSame, StepSame, CreatingSame, HistorySame, TypePartsNext
      DEF CloseSession, call
  <1>10. ASSUME NEW w \in Workers, Die(w) PROVE TypeOK'
    <2>1. RequestOK'
      BY <1>0, <1>10, SessionsTyped DEF Die, RequestOK
    <2> QED
      BY <1>0, <1>10, <2>1, ReturnType, TableSame, HistorySame, TypePartsNext DEF Die
  <1> QED
    BY <1>1, <1>2, <1>3, <1>4, <1>5, <1>6, <1>7, <1>8, <1>9, <1>10 DEF Next, CreateSession

\* SessionTypes: the types of Sessions, whatever fails, dies, comes and goes:
\* cache_base is no base or one of those made so far, so that a collection
\* is never added past the end of the list.
THEOREM SessionTypes == Spec => []TypeOK
  BY InitType, TypeNext, PTL DEF Spec

-----------------------------------------------------------------------------
(* Collections under their databox                                         *)

LEMMA ListInit == Init => ListInv
  <1> SUFFICES ASSUME Init PROVE ListInv
    OBVIOUS
  <1>1. \A w \in Workers : ListOf(w)
    BY DEF Init, ListOf
  <1>2. \A session \in Kept : session = NoSession
    BY DEF Init, Kept, NoRow
  <1>3. InTheirBase(NoSession.bases)
    BY DEF InTheirBase, NoSession
  <1> QED
    BY <1>1, <1>2, <1>3 DEF ListInv

\* What the workers and the rows keep in the next state, and the lists in progress.
LEMMA ListParts ==
    ASSUME \A w \in Workers : InTheirBase(global_session'[w].bases),
           \A s \in SessionIds : InTheirBase(cache'[s].session.bases),
           \A w \in Workers : ListOf(w)'
    PROVE  ListInv'
  BY DEF ListInv, Kept

\* A worker whose locals do not change goes on with its list.
LEMMA ListSame ==
    ASSUME NEW v \in Workers, ListOf(v), pc'[v] = pc[v], sesid'[v] = sesid[v],
           creating'[v] = creating[v], inserted \in Nat, inserted' \in Nat,
           inserted' >= inserted, \A s \in 1..inserted : up'[s] = up[s]
    PROVE  ListOf(v)'
  BY DEF ListOf

\* One that returns has none any more; the others go on.
LEMMA ListReturn ==
    ASSUME StepOK, CreatingOK, NEW w \in Workers, Return(w), \A v \in Workers : ListOf(v),
           inserted \in Nat, UNCHANGED <<inserted, up>>
    PROVE  \A v \in Workers : ListOf(v)'
  <1> SUFFICES ASSUME NEW v \in Workers PROVE ListOf(v)'
    OBVIOUS
  <1>1. CASE v = w
    BY <1>1 DEF Return, Goto, StepOK, CreatingOK, ListOf
  <1>2. CASE v # w
    <2>1. pc'[v] = pc[v] /\ sesid'[v] = sesid[v] /\ creating'[v] = creating[v]
      BY <1>2 DEF Return, Goto, StepOK, CreatingOK
    <2> QED
      BY <2>1, ListSame
  <1> QED
    BY <1>1, <1>2

\* Every action keeps ListInv when a databox stays as it was during a creation.
LEMMA ListNext ==
    ASSUME ~Flaky, TypeOK, ListInv, [Next]_vars
    PROVE  ListInv'
  <1>0. TableOK /\ RequestOK /\ StepOK /\ CreatingOK /\ HistoryOK /\ inserted \in Nat
    BY TypeParts, SessionsTyped DEF TableOK
  <1>a. /\ \A w \in Workers : InTheirBase(global_session[w].bases)
        /\ \A s \in SessionIds : InTheirBase(cache[s].session.bases)
        /\ \A w \in Workers : ListOf(w)
    BY DEF ListInv, Kept
  <1>b. InTheirBase(NoSession.bases)
    BY DEF InTheirBase, NoSession
  <1>c. UNCHANGED <<call, inserted, up>> => \A v \in Workers : ListOf(v)'
    BY <1>a DEF call, ListOf
  <1>1. CASE UNCHANGED vars
    BY <1>a, <1>c, <1>1, ListParts DEF vars, table, request
  <1>2. ASSUME NEW w \in Workers, Conn(w) \/ EndRequest(w) PROVE ListInv'
    <2>1. \A v \in Workers : global_session'[v] \in {global_session[v], NoSession}
      BY <1>0, <1>2 DEF Conn, EndRequest, RequestOK
    <2>2. UNCHANGED <<call, inserted, up>> /\ UNCHANGED cache
      BY <1>2 DEF Conn, EndRequest, table
    <2> QED
      BY <1>a, <1>b, <1>c, <2>1, <2>2, ListParts
  <1>3. ASSUME NEW w \in Workers, InsertSession(w) PROVE ListInv'
    <2>1. /\ inserted' = inserted + 1 /\ inserted + 1 \in SessionIds
          /\ creating' = creating /\ global_session' = global_session
          /\ pc[w] = "ready" /\ Goto(w, "list", inserted + 1)
      BY <1>0, <1>3, SessionsTyped DEF InsertSession, TableOK, SessionIds, request
    <2>2. \A s \in SessionIds : InTheirBase(cache'[s].session.bases)
      BY <1>0, <1>3, <1>a, <1>b DEF InsertSession, TableOK
    <2>3. \A s \in 1..inserted : up'[s] = up[s]
      BY <1>0, <1>3, <2>1 DEF InsertSession, HistoryOK
    <2>4. ASSUME NEW v \in Workers PROVE ListOf(v)'
      <3>1. CASE v = w
        <4>1. creating[w] = NoListing
          BY <1>a, <2>1 DEF ListOf
        <4>2. pc'[w] = "list" /\ sesid'[w] = inserted + 1 /\ creating'[w] = NoListing
          BY <1>0, <2>1, <4>1 DEF Goto, StepOK
        <4> QED
          BY <1>0, <2>1, <3>1, <4>2, NoListingOk DEF ListOf
      <3>2. CASE v # w
        <4>1. pc'[v] = pc[v] /\ sesid'[v] = sesid[v] /\ creating'[v] = creating[v]
          BY <1>0, <2>1, <3>2 DEF Goto, StepOK
        <4> QED
          BY <1>0, <1>a, <2>1, <2>3, <4>1, ListSame
      <3> QED
        BY <3>1, <3>2
    <2> QED
      BY <1>a, <2>1, <2>2, <2>4, ListParts
  <1>4. ASSUME NEW w \in Workers, ListFails(w) PROVE ListInv'
    BY <1>0, <1>a, <1>4, ListReturn, ListParts DEF ListFails, table, request
  <1>5. ASSUME NEW w \in Workers, ListRow(w) PROVE ListInv'
    <2> DEFINE c     == creating[w]
               r     == Rows[c.row]
               boxes == up[sesid[w]]
               ok    == r.sbas_id \in boxes
               f     == AddColl([ChangeDatabox(c, r, ok) EXCEPT !.connok = @ \/ ok], r)
    <2>1. creating' = [creating EXCEPT ![w] = [f EXCEPT !.row = @ + 1]]
      BY <1>5 DEF ListRow, Answers
    <2>2. /\ ListingOK(c) /\ r \in Row /\ ListedSoFar(c, boxes)
          /\ sesid[w] \in 1..inserted /\ pc[w] = "list"
      BY <1>0, <1>a, <1>5, RowsTyped DEF ListRow, CreatingOK, ListingOK, ListOf
    <2>3. ListedSoFar(f, boxes)
      <3> HIDE DEF c, r, boxes
      <3> QED
        BY <2>2, RowListed
    <2>4. ListingOK(f)
      <3>1. ok \in BOOLEAN
        OBVIOUS
      <3> HIDE DEF c, r, ok
      <3> DEFINE d == ChangeDatabox(c, r, ok)
      <3>2. ListingOK(d)
        BY <2>2, <3>1, ChangeTyped
      <3> HIDE DEF d
      <3> DEFINE e == [d EXCEPT !.connok = @ \/ ok]
      <3>3. ListingOK(e)
        BY <3>1, <3>2, AgainTyped
      <3> HIDE DEF e
      <3>4. ListingOK(AddColl(e, r))
        BY <2>2, <3>3, AddTyped
      <3> QED
        BY <3>4 DEF e, d
    <2> HIDE DEF f, c, r, ok
    <2>5. ListedSoFar([f EXCEPT !.row = @ + 1], boxes)
      BY <2>3, <2>4 DEF ListedSoFar, ListingOK, Listing
    <2>6. UNCHANGED <<pc, sesid, inserted, up, cache, global_session>>
      BY <1>5 DEF ListRow, table, request
    <2>7. \A v \in Workers : creating'[v] = IF v = w THEN [f EXCEPT !.row = @ + 1] ELSE creating[v]
      BY <1>0, <2>1 DEF CreatingOK
    <2>8. \A v \in Workers : ListOf(v)'
      BY <1>a, <2>2, <2>5, <2>6, <2>7 DEF ListOf
    <2> QED
      BY <1>a, <2>6, <2>8, ListParts
  <1>6. ASSUME NEW w \in Workers, KeepSession(w) PROVE ListInv'
    <2> DEFINE new == [session_id |-> sesid[w], bases |-> creating[w].bases]
    <2>1. /\ global_session' = [global_session EXCEPT ![w] = new] /\ Save(sesid[w], new)
          /\ UNCHANGED <<inserted, epublisher, up>> /\ Return(w) /\ pc[w] = "list"
      BY <1>6 DEF KeepSession
    <2>2. InTheirBase(new.bases)
      BY <1>a, <2>1 DEF ListOf, ListedSoFar
    <2> HIDE DEF new
    <2>3. \A v \in Workers : InTheirBase(global_session'[v].bases)
      BY <1>0, <1>a, <2>1, <2>2 DEF RequestOK
    <2>4. \A s \in SessionIds : InTheirBase(cache'[s].session.bases)
      BY <1>0, <1>a, <2>1, <2>2 DEF Save, Live, TableOK
    <2> QED
      BY <1>0, <1>a, <2>1, <2>3, <2>4, ListReturn, ListParts
  <1>7. ASSUME NEW w \in Workers, OpenSession(w) \/ ClearCache(w) PROVE ListInv'
    <2>1. \E s : \E label \in {"open_restore", "clear_restore", "segfault"} : Goto(w, label, s)
      BY <1>7 DEF OpenSession, ClearCache
    <2>2. pc[w] = "ready" /\ UNCHANGED <<creating, inserted, up, cache, global_session>>
      BY <1>7 DEF OpenSession, ClearCache, table, request
    <2>3. \A v \in Workers : ListOf(v)'
      BY <1>0, <1>a, <2>1, <2>2 DEF ListOf, Goto, StepOK
    <2> QED
      BY <1>a, <2>2, <2>3, ListParts
  <1>8. ASSUME NEW w \in Workers, Restore(w) PROVE ListInv'
    <2>1. /\ UNCHANGED <<inserted, cache, up>> /\ Return(w) /\ sesid[w] \in SessionIds
          /\ \/ global_session' = [global_session EXCEPT ![w] = cache[sesid[w]].session]
             \/ UNCHANGED global_session
      BY <1>0, <1>8 DEF Restore, table, StepOK
    <2>2. \A v \in Workers : InTheirBase(global_session'[v].bases)
      BY <1>0, <1>a, <2>1 DEF RequestOK
    <2> QED
      BY <1>0, <1>a, <2>1, <2>2, ListReturn, ListParts
  <1>9. ASSUME NEW w \in Workers, CloseSession(w) PROVE ListInv'
    <2>1. \A s \in SessionIds : cache'[s].session \in {cache[s].session, NoSession}
      BY <1>0, <1>9 DEF CloseSession, TableOK
    <2>2. UNCHANGED <<call, inserted, up, global_session>>
      BY <1>9 DEF CloseSession, request
    <2> QED
      BY <1>a, <1>b, <1>c, <2>1, <2>2, ListParts
  <1>10. ASSUME NEW w \in Workers, Die(w) PROVE ListInv'
    <2>1. \A v \in Workers : global_session'[v] \in {global_session[v], NoSession}
      BY <1>0, <1>10 DEF Die, RequestOK
    <2>2. UNCHANGED <<inserted, cache, up>> /\ Return(w)
      BY <1>10 DEF Die, table
    <2> QED
      BY <1>0, <1>a, <1>b, <2>1, <2>2, ListReturn, ListParts
  <1> QED
    BY <1>1, <1>2, <1>3, <1>4, <1>5, <1>6, <1>7, <1>8, <1>9, <1>10 DEF Next, CreateSession

\* CollectionsInPlace: when a databox that answers at the start of a creation
\* answers to its end and no other begins to, a session lists every collection
\* under its own databox, whatever the order of the calls, the failures
\* and the deaths.
THEOREM CollectionsInPlace ==
    ASSUME ~Flaky
    PROVE  Spec => []CollsInTheirBase
  <1>1. ListInv => CollsInTheirBase
    BY DEF ListInv, CollsInTheirBase, InTheirBase
  <1>2. TypeOK /\ ListInv /\ [Next]_vars => ListInv'
    BY ListNext
  <1> QED
    BY <1>1, <1>2, SessionTypes, ListInit, PTL DEF Spec

-----------------------------------------------------------------------------
(* What a session lists                                                    *)

\* An entry of the list after one more row.
Grown(e, r) ==
    [sbas_id |-> e.sbas_id, colls |-> AppendIf(e.colls, r, KnownIn(e.sbas_id))]

NewEntry(r) ==
    [sbas_id |-> r.sbas_id, colls |-> AppendIf(<< >>, r, KnownIn(r.sbas_id))]

GrownAll(list, r) == [k \in DOMAIN list |-> Grown(list[k], r)]

\* No row before r is of its databox.
FirstOfItsBox(rows, r) == \A j \in DOMAIN rows : rows[j].sbas_id # r.sbas_id

\* The numbers of the rows, and the rows that open a databox.
Numbers(rows) == [i \in DOMAIN rows |-> i]
Opening(rows, boxes) == Only(Numbers(rows), Openings(rows, boxes))

LEMMA OpeningType ==
    ASSUME NEW rows \in Seq(Row), NEW boxes
    PROVE  /\ Numbers(rows) \in Seq(1..Len(rows)) /\ Len(Numbers(rows)) = Len(rows)
           /\ Opening(rows, boxes) \in Seq(1..Len(rows))
           /\ \A k \in DOMAIN Opening(rows, boxes) :
                 Opening(rows, boxes)[k] \in Openings(rows, boxes)
  <1>1. Len(rows) \in Nat /\ DOMAIN rows = 1..Len(rows)
    BY LenProperties
  <1>2. PICK X, s : X = 1..Len(rows) /\ s = Numbers(rows)
    OBVIOUS
  <1>3. s \in [1..Len(rows) -> X]
    BY <1>1, <1>2 DEF Numbers
  <1>4. s \in Seq(X)
    BY <1>1, <1>3, SeqDef
  <1>5. Len(s) = Len(rows)
    BY <1>1, <1>3, <1>4, LenProperties
  <1>6. PICK S, o : S = Openings(rows, boxes) /\ o = Opening(rows, boxes)
    OBVIOUS
  <1>7. o = Only(s, S)
    BY <1>2, <1>6 DEF Opening
  <1>8. o \in Seq(X \cap S)
    BY <1>4, <1>7, OnlyType
  <1>9. o \in Seq(X)
    <2>1. X \cap S \subseteq X
      OBVIOUS
    <2> QED
      BY <1>8, <2>1, SeqSubset
  <1>10. \A k \in DOMAIN o : o[k] \in S
    BY <1>8, LenProperties, ElementOfSeq
  <1> QED
    BY <1>2, <1>4, <1>5, <1>6, <1>9, <1>10

\* One more row opens its databox or not, and changes nothing for those before.
LEMMA OpeningGrows ==
    ASSUME NEW rows \in Seq(Row), NEW r \in Row, NEW boxes
    PROVE  Opening(Append(rows, r), boxes) =
              IF r.sbas_id \in boxes /\ FirstOfItsBox(rows, r)
              THEN Append(Opening(rows, boxes), Len(rows) + 1)
              ELSE Opening(rows, boxes)
  <1>1. PICK more, n : more = Append(rows, r) /\ n = Len(rows)
    OBVIOUS
  <1>2. /\ more \in Seq(Row) /\ Len(more) = n + 1 /\ n \in Nat
        /\ \A i \in 1..n : more[i] = rows[i]
        /\ more[n + 1] = r
    BY <1>1, AppendProperties, LenProperties
  <1>3. DOMAIN rows = 1..n /\ DOMAIN more = 1..(n + 1)
    BY <1>1, <1>2, LenProperties
  <1>4. PICK X, Y, s, t, S, T :
          /\ X = 1..n /\ Y = 1..(n + 1)
          /\ s = Numbers(rows) /\ t = Numbers(more)
          /\ S = Openings(rows, boxes) /\ T = Openings(more, boxes)
    OBVIOUS
  <1>5. s \in Seq(X) /\ Len(s) = n /\ t \in Seq(Y) /\ Len(t) = n + 1
    BY <1>1, <1>2, <1>4, OpeningType
  <1>6. X \subseteq Y /\ n + 1 \in Y
    BY <1>2, <1>4
  <1>7. s \in Seq(Y)
    BY <1>5, <1>6, SeqSubset
  <1>8. t = Append(s, n + 1)
    <2>1. PICK u : u = Append(s, n + 1)
      OBVIOUS
    <2>2. /\ u \in Seq(Y) /\ Len(u) = n + 1
          /\ \A i \in 1..n : u[i] = s[i]
          /\ u[n + 1] = n + 1
      BY <1>5, <1>6, <1>7, <2>1, AppendProperties
    <2>3. u = [i \in 1..(n + 1) |-> u[i]]
      BY <2>2, LenProperties
    <2>4. \A i \in 1..(n + 1) : u[i] = i
      <3>1. \A i \in 1..n : s[i] = i
        BY <1>3, <1>4 DEF Numbers
      <3>2. \A i \in 1..(n + 1) : i \in 1..n \/ i = n + 1
        BY <1>2
      <3> QED
        BY <2>2, <3>1, <3>2
    <2> QED
      BY <1>3, <1>4, <2>1, <2>3, <2>4 DEF Numbers
  <1>9. Only(t, T) = AppendIf(Only(s, T), n + 1, T)
    BY <1>6, <1>7, <1>8, OnlyAppend
  <1>10. \A i \in X : i \in S <=> i \in T
    <2> SUFFICES ASSUME NEW i \in 1..n PROVE i \in S <=> i \in T
      BY <1>4
    <2>1. i \in 1..(n + 1) /\ more[i] = rows[i]
      BY <1>2
    <2>2. \A j \in 1..(i - 1) : more[j] = rows[j]
      BY <1>2
    <2> QED
      BY <1>3, <1>4, <2>1, <2>2 DEF Openings
  <1>11. Only(s, T) = Only(s, S)
    BY <1>5, <1>10, OnlySame
  <1>12. n + 1 \in T <=> r.sbas_id \in boxes /\ FirstOfItsBox(rows, r)
    <2>1. (n + 1) - 1 = n /\ n + 1 \in 1..(n + 1)
      BY <1>2
    <2> QED
      BY <1>2, <1>3, <1>4, <2>1 DEF Openings, FirstOfItsBox
  <1> QED
    BY <1>1, <1>4, <1>9, <1>11, <1>12 DEF Opening, AppendIf

\* What is published, row by row.
LEMMA PublishedType ==
    ASSUME NEW rows \in Seq(Row), NEW boxes
    PROVE  /\ DOMAIN Published(rows, boxes) = 1..Len(Opening(rows, boxes))
           /\ Len(Opening(rows, boxes)) \in Nat
           /\ \A k \in 1..Len(Opening(rows, boxes)) :
                 LET i == Opening(rows, boxes)[k]
                 IN  /\ i \in DOMAIN rows /\ i \in Openings(rows, boxes)
                     /\ Published(rows, boxes)[k] =
                          [sbas_id |-> rows[i].sbas_id,
                           colls |-> Only(rows, KnownIn(rows[i].sbas_id))]
  <1>1. PICK o : o = Opening(rows, boxes)
    OBVIOUS
  <1>2. /\ o \in Seq(1..Len(rows))
        /\ \A k \in DOMAIN o : o[k] \in Openings(rows, boxes)
    BY <1>1, OpeningType
  <1>3. /\ Len(o) \in Nat /\ DOMAIN o = 1..Len(o)
        /\ \A k \in 1..Len(o) : o[k] \in 1..Len(rows)
    BY <1>2, LenProperties, ElementOfSeq
  <1>4. DOMAIN rows = 1..Len(rows)
    BY LenProperties
  <1>5. Published(rows, boxes) =
           [k \in DOMAIN o |-> [sbas_id |-> rows[o[k]].sbas_id,
                                colls |-> Only(rows, KnownIn(rows[o[k]].sbas_id))]]
    BY <1>1 DEF Published, Opening, Numbers
  <1> QED
    BY <1>1, <1>2, <1>3, <1>4, <1>5

\* They are bases, as CACHE_SESSION holds them.
LEMMA PublishedBases ==
    ASSUME NEW rows \in Seq(Row), NEW boxes
    PROVE  /\ Published(rows, boxes) \in Seq(Base)
           /\ Len(Published(rows, boxes)) = Len(Opening(rows, boxes))
           /\ \A k \in 1..Len(Published(rows, boxes)) :
                 /\ Published(rows, boxes)[k].sbas_id \in boxes
                 /\ ~FirstOfItsBox(rows, Published(rows, boxes)[k])
  <1>1. PICK o, pub : o = Opening(rows, boxes) /\ pub = Published(rows, boxes)
    OBVIOUS
  <1>2. /\ DOMAIN pub = 1..Len(o) /\ Len(o) \in Nat
        /\ \A k \in 1..Len(o) :
              /\ o[k] \in DOMAIN rows /\ o[k] \in Openings(rows, boxes)
              /\ pub[k] = [sbas_id |-> rows[o[k]].sbas_id,
                           colls |-> Only(rows, KnownIn(rows[o[k]].sbas_id))]
    BY <1>1, PublishedType
  <1>3. \A K : Only(rows, K) \in Seq(Row)
    <2> SUFFICES ASSUME NEW K PROVE Only(rows, K) \in Seq(Row)
      OBVIOUS
    <2>1. Only(rows, K) \in Seq(Row \cap K) /\ Row \cap K \subseteq Row
      BY OnlyType
    <2> QED
      BY <2>1, SeqSubset
  <1>4. \A i \in DOMAIN rows : rows[i] \in Row
    BY LenProperties, ElementOfSeq
  <1>5. ASSUME NEW k \in 1..Len(o)
        PROVE  /\ pub[k] \in Base /\ pub[k].sbas_id \in boxes
               /\ ~FirstOfItsBox(rows, pub[k])
    <2>1. rows[o[k]].sbas_id \in Sbas
      BY <1>2, <1>4, RowsTyped
    <2>2. pub[k] \in Base
      BY <1>2, <1>3, <2>1 DEF Base
    <2>3. pub[k].sbas_id = rows[o[k]].sbas_id
      BY <1>2
    <2>4. rows[o[k]].sbas_id \in boxes
      BY <1>2 DEF Openings
    <2> QED
      BY <1>2, <2>2, <2>3, <2>4 DEF FirstOfItsBox
  <1>6. pub = [k \in 1..Len(o) |-> pub[k]]
    BY <1>1, <1>2 DEF Published, Opening, Numbers
  <1>7. pub \in [1..Len(o) -> Base]
    BY <1>5, <1>6
  <1>8. pub \in Seq(Base)
    BY <1>2, <1>7, SeqDef
  <1>9. Len(pub) = Len(o)
    BY <1>2, <1>8, LenProperties
  <1> QED
    BY <1>1, <1>5, <1>8, <1>9

LEMMA GrownType ==
    ASSUME NEW list \in Seq(Base), NEW r \in Row
    PROVE  /\ GrownAll(list, r) \in Seq(Base) /\ Len(GrownAll(list, r)) = Len(list)
           /\ \A k \in 1..Len(list) : GrownAll(list, r)[k] = Grown(list[k], r)
           /\ NewEntry(r) \in Base
  <1>1. /\ Len(list) \in Nat /\ DOMAIN list = 1..Len(list)
        /\ \A k \in 1..Len(list) : list[k] \in Base
    BY LenProperties, ElementOfSeq
  <1>2. ASSUME NEW e \in Base PROVE Grown(e, r) \in Base
    <2>1. e.colls \in Seq(Row) /\ e.sbas_id \in Sbas
      BY DEF Base
    <2>2. AppendIf(e.colls, r, KnownIn(e.sbas_id)) \in Seq(Row)
      BY <2>1, TurnOk
    <2> QED
      BY <2>1, <2>2 DEF Grown, Base
  <1>3. NewEntry(r) \in Base
    <2>1. << >> \in Seq(Row)
      BY EmptySeq
    <2>2. AppendIf(<< >>, r, KnownIn(r.sbas_id)) \in Seq(Row)
      BY <2>1, TurnOk
    <2>3. r.sbas_id \in Sbas
      BY RowsTyped
    <2> QED
      BY <2>2, <2>3 DEF NewEntry, Base
  <1>4. GrownAll(list, r) \in [1..Len(list) -> Base]
    BY <1>1, <1>2 DEF GrownAll
  <1>5. GrownAll(list, r) \in Seq(Base)
    BY <1>1, <1>4, SeqDef
  <1>6. Len(GrownAll(list, r)) = Len(list)
    BY <1>1, <1>4, <1>5, LenProperties
  <1> QED
    BY <1>1, <1>3, <1>5, <1>6 DEF GrownAll

\* One more row: its collection goes to its databox, which it may open.
LEMMA PublishedGrows ==
    ASSUME NEW rows \in Seq(Row), NEW r \in Row, NEW boxes
    PROVE  Published(Append(rows, r), boxes) =
              IF r.sbas_id \in boxes /\ FirstOfItsBox(rows, r)
              THEN Append(GrownAll(Published(rows, boxes), r), NewEntry(r))
              ELSE GrownAll(Published(rows, boxes), r)
  <1>1. PICK more, n : more = Append(rows, r) /\ n = Len(rows)
    OBVIOUS
  <1>2. /\ more \in Seq(Row) /\ Len(more) = n + 1 /\ n \in Nat
        /\ \A i \in 1..n : more[i] = rows[i]
        /\ more[n + 1] = r
    BY <1>1, AppendProperties, LenProperties
  <1>3. DOMAIN rows = 1..n
    BY <1>1, LenProperties
  <1>4. PICK o, p, P, Q :
          /\ o = Opening(rows, boxes) /\ p = Opening(more, boxes)
          /\ P = Published(rows, boxes) /\ Q = Published(more, boxes)
    OBVIOUS
  <1>5. /\ P \in Seq(Base) /\ Len(P) = Len(o) /\ Len(o) \in Nat
        /\ Q \in Seq(Base) /\ Len(Q) = Len(p)
    BY <1>2, <1>4, PublishedBases, PublishedType
  <1>6. \A k \in 1..Len(o) :
              /\ o[k] \in 1..n
              /\ P[k] = [sbas_id |-> rows[o[k]].sbas_id,
                         colls |-> Only(rows, KnownIn(rows[o[k]].sbas_id))]
    BY <1>3, <1>4, PublishedType
  <1>7. \A k \in 1..Len(p) :
              Q[k] = [sbas_id |-> more[p[k]].sbas_id,
                      colls |-> Only(more, KnownIn(more[p[k]].sbas_id))]
    BY <1>2, <1>4, PublishedType
  <1>8. \A K : Only(more, K) = AppendIf(Only(rows, K), r, K)
    BY <1>1, OnlyAppend
  <1>9. ASSUME NEW k \in 1..Len(o), k \in 1..Len(p), p[k] = o[k]
        PROVE  Q[k] = Grown(P[k], r)
    <2>1. PICK box, K : box = rows[o[k]].sbas_id /\ K = KnownIn(box)
      OBVIOUS
    <2>2. more[o[k]] = rows[o[k]]
      <3>1. PICK i \in 1..n : i = o[k]
        BY <1>6
      <3> QED
        BY <1>2, <3>1
    <2>3. P[k].sbas_id = box /\ P[k].colls = Only(rows, K)
      <3>1. P[k] = [sbas_id |-> box, colls |-> Only(rows, K)]
        BY <1>6, <2>1
      <3> QED
        BY <3>1
    <2>4. Q[k] = [sbas_id |-> box, colls |-> Only(more, K)]
      BY <1>7, <1>9, <2>1, <2>2
    <2>5. Only(more, K) = AppendIf(Only(rows, K), r, K)
      BY <1>8
    <2> QED
      BY <2>1, <2>3, <2>4, <2>5 DEF Grown
  <1>10. PICK g : g = GrownAll(P, r)
    OBVIOUS
  <1>11. /\ g \in Seq(Base) /\ Len(g) = Len(o) /\ NewEntry(r) \in Base
         /\ \A k \in 1..Len(o) : g[k] = Grown(P[k], r)
    BY <1>5, <1>10, GrownType
  <1>12. CASE r.sbas_id \in boxes /\ FirstOfItsBox(rows, r)
    <2>1. p = Append(o, n + 1)
      BY <1>1, <1>4, <1>12, OpeningGrows
    <2>2. o \in Seq(1..n)
      BY <1>1, <1>4, OpeningType
    <2>3. o \in Seq(1..(n + 1)) /\ n + 1 \in 1..(n + 1)
      <3>1. 1..n \subseteq 1..(n + 1) /\ n + 1 \in 1..(n + 1)
        BY <1>2
      <3> QED
        BY <2>2, <3>1, SeqSubset
    <2>4. /\ Len(p) = Len(o) + 1
          /\ \A k \in 1..Len(o) : p[k] = o[k]
          /\ p[Len(o) + 1] = n + 1
      BY <2>1, <2>3, AppendProperties
    <2>5. PICK u : u = Append(g, NewEntry(r))
      OBVIOUS
    <2>6. /\ u \in Seq(Base) /\ Len(u) = Len(o) + 1
          /\ \A k \in 1..Len(o) : u[k] = g[k]
          /\ u[Len(o) + 1] = NewEntry(r)
      BY <1>11, <2>5, AppendProperties
    <2>7. Q[Len(o) + 1] = NewEntry(r)
      <3>1. Len(o) + 1 \in 1..Len(p)
        BY <1>5, <2>4
      <3>2. Only(rows, KnownIn(r.sbas_id)) = << >>
        <4>1. PICK X : X = {x \in Row : x.sbas_id # r.sbas_id}
          OBVIOUS
        <4>2. \A i \in 1..n : rows[i] \in X
          BY <1>1, <1>3, <1>12, <4>1, ElementOfSeq DEF FirstOfItsBox
        <4>3. rows = [i \in 1..n |-> rows[i]]
          BY <1>1, LenProperties
        <4>4. rows \in [1..n -> X]
          BY <4>2, <4>3
        <4>5. rows \in Seq(X)
          BY <1>2, <4>4, SeqDef
        <4>6. X \cap KnownIn(r.sbas_id) = {}
          BY <4>1 DEF KnownIn
        <4> QED
          BY <4>5, <4>6, OnlyNone
      <3> QED
        BY <1>2, <1>7, <1>8, <2>4, <3>1, <3>2 DEF NewEntry
    <2>8. \A k \in 1..Len(o) : Q[k] = g[k]
      <3>1. \A k \in 1..Len(o) : k \in 1..Len(p)
        BY <1>5, <2>4
      <3> QED
        BY <1>9, <1>11, <2>4, <3>1
    <2>9. \A k \in 1..Len(u) : Q[k] = u[k]
      <3>1. \A k \in 1..Len(u) : k \in 1..Len(o) \/ k = Len(o) + 1
        BY <1>5, <2>6
      <3> QED
        BY <2>6, <2>7, <2>8, <3>1
    <2>10. Q = u
      BY <1>5, <2>4, <2>6, <2>9, SeqEqual
    <2> QED
      BY <1>1, <1>4, <1>10, <1>12, <2>5, <2>10
  <1>13. CASE ~(r.sbas_id \in boxes /\ FirstOfItsBox(rows, r))
    <2>1. p = o
      BY <1>1, <1>4, <1>13, OpeningGrows
    <2>2. \A k \in 1..Len(o) : Q[k] = g[k]
      BY <1>9, <1>11, <2>1
    <2>3. Q = g
      BY <1>5, <1>11, <2>1, <2>2, SeqEqual
    <2> QED
      BY <1>1, <1>4, <1>10, <1>13, <2>3
  <1> QED
    BY <1>12, <1>13

\* The first n rows.
Prefix(n) == [i \in 1..n |-> Rows[i]]

LEMMA PrefixGrows ==
    /\ Prefix(Len(Rows)) = Rows /\ Prefix(0) = << >>
    /\ \A n \in 0..Len(Rows) :
          /\ Prefix(n) \in Seq(Row) /\ Len(Prefix(n)) = n
          /\ \A i \in 1..n : Prefix(n)[i] = Rows[i]
          /\ n + 1 <= Len(Rows) => Prefix(n + 1) = Append(Prefix(n), Rows[n + 1])
  <1>1. /\ Len(Rows) \in Nat /\ DOMAIN Rows = 1..Len(Rows)
        /\ \A i \in 1..Len(Rows) : Rows[i] \in Row
    BY RowsTyped
  <1>2. ASSUME NEW n \in 0..Len(Rows)
        PROVE  /\ Prefix(n) \in Seq(Row) /\ Len(Prefix(n)) = n
               /\ \A i \in 1..n : Prefix(n)[i] = Rows[i]
    <2>1. n \in Nat /\ \A i \in 1..n : Rows[i] \in Row
      BY <1>1
    <2>2. Prefix(n) \in [1..n -> Row]
      BY <2>1 DEF Prefix
    <2>3. Prefix(n) \in Seq(Row)
      BY <2>1, <2>2, SeqDef
    <2>4. Len(Prefix(n)) = n
      BY <2>1, <2>2, <2>3, LenProperties
    <2> QED
      BY <2>3, <2>4 DEF Prefix
  <1>3. ASSUME NEW n \in 0..Len(Rows), n + 1 <= Len(Rows)
        PROVE  Prefix(n + 1) = Append(Prefix(n), Rows[n + 1])
    <2>1. n \in Nat /\ n + 1 \in 0..Len(Rows) /\ Rows[n + 1] \in Row
      BY <1>1, <1>3
    <2>2. PICK p, q, r, u : /\ p = Prefix(n) /\ q = Prefix(n + 1) /\ r = Rows[n + 1]
                            /\ u = Append(p, r)
      OBVIOUS
    <2>3. /\ p \in Seq(Row) /\ Len(p) = n /\ \A i \in 1..n : p[i] = Rows[i]
          /\ q \in Seq(Row) /\ Len(q) = n + 1 /\ \A i \in 1..(n + 1) : q[i] = Rows[i]
      BY <1>2, <2>1, <2>2
    <2>4. /\ u \in Seq(Row) /\ Len(u) = n + 1
          /\ \A i \in 1..n : u[i] = p[i]
          /\ u[n + 1] = r
      BY <2>1, <2>2, <2>3, AppendProperties
    <2>5. \A i \in 1..(n + 1) : q[i] = u[i]
      <3>1. \A i \in 1..(n + 1) : i \in 1..n \/ i = n + 1
        BY <2>1
      <3> QED
        BY <2>2, <2>3, <2>4, <3>1
    <2> QED
      BY <2>2, <2>3, <2>4, <2>5, SeqEqual
  <1>4. Prefix(Len(Rows)) = Rows
    <2>1. Rows \in Seq([base_id : Nat \ {0}, sbas_id : Nat \ {0}, coll_id : Nat])
      BY RowsAssumption
    <2>2. Rows = [i \in 1..Len(Rows) |-> Rows[i]]
      BY <2>1, LenProperties
    <2> QED
      BY <2>2 DEF Prefix
  <1>5. Prefix(0) = << >>
    BY DEF Prefix
  <1> QED
    BY <1>2, <1>3, <1>4, <1>5

\* The databox of the last row has the last base, and no other.
LastBase(c) ==
    /\ c.cache_base = Len(c.bases) /\ Len(c.bases) > 0
    /\ \A k \in 1..Len(c.bases) :
          c.bases[k].sbas_id = c.last_sbas_id <=> k = Len(c.bases)

\* In the loop, with c.row the next row and `boxes' the databoxes that answer.
ListedUpTo(c, boxes) ==
    /\ c.bases = Published(Prefix(c.row - 1), boxes)
    /\ c.last_sbas_id = IF c.row = 1 THEN 0 ELSE Rows[c.row - 1].sbas_id
    /\ c.connok <=> c.last_sbas_id \in boxes
    /\ c.connok => LastBase(c)

LEMMA KnownRow ==
    ASSUME NEW r \in Row, NEW box
    PROVE  r \in KnownIn(box) <=> r.sbas_id = box /\ <<box, r.coll_id>> \in Colls
  BY DEF KnownIn

\* A collection goes to the last base, if that is its databox's.
LEMMA AddIsGrown ==
    ASSUME NEW e, ListingOK(e), NEW r \in Row,
           e.connok => LastBase(e) /\ e.last_sbas_id = r.sbas_id,
           ~e.connok => \A k \in 1..Len(e.bases) : e.bases[k].sbas_id # r.sbas_id
    PROVE  AddColl(e, r).bases = GrownAll(e.bases, r)
  <1>1. PICK P, f, g : P = e.bases /\ f = AddColl(e, r) /\ g = GrownAll(P, r)
    OBVIOUS
  <1>2. P \in Seq(Base) /\ Len(P) \in Nat /\ e.cache_base \in Nat
    BY <1>1, LenProperties DEF ListingOK, Listing
  <1>3. /\ g \in Seq(Base) /\ Len(g) = Len(P)
        /\ \A k \in 1..Len(P) : g[k] = Grown(P[k], r)
    BY <1>1, <1>2, GrownType
  <1>4. ASSUME NEW k \in 1..Len(P), r \notin KnownIn(P[k].sbas_id)
        PROVE  g[k] = P[k]
    <2>1. P[k] \in Base
      BY <1>2, ElementOfSeq
    <2>2. Grown(P[k], r) = [sbas_id |-> P[k].sbas_id, colls |-> P[k].colls]
      BY <1>4 DEF Grown, AppendIf
    <2> QED
      BY <1>3, <2>1, <2>2 DEF Base
  <1>5. CASE e.connok /\ <<r.sbas_id, r.coll_id>> \in Colls
    <2>1. PICK n : n = Len(P)
      OBVIOUS
    <2>2. /\ e.cache_base = n /\ n > 0 /\ n \in 1..n
          /\ \A k \in 1..n : P[k].sbas_id = r.sbas_id <=> k = n
      BY <1>1, <1>2, <1>5, <2>1 DEF LastBase
    <2>3. PICK x : x = [P[n] EXCEPT !.colls = Append(@, r)]
      OBVIOUS
    <2>4. f.bases = [P EXCEPT ![n] = x]
      <3>1. f = [e EXCEPT !.bases = [P EXCEPT ![n] = x]]
        BY <1>1, <1>5, <2>2, <2>3 DEF AddColl
      <3> QED
        BY <3>1 DEF ListingOK, Listing
    <2>5. P[n] \in Base
      BY <1>2, <2>1, <2>2, ElementOfSeq
    <2>6. Grown(P[n], r) = x
      <3>1. r \in KnownIn(P[n].sbas_id)
        BY <1>5, <2>2, KnownRow
      <3>2. Grown(P[n], r) = [sbas_id |-> P[n].sbas_id, colls |-> Append(P[n].colls, r)]
        BY <3>1 DEF Grown, AppendIf
      <3>3. PICK y, t : y = P[n] /\ t = Append(y.colls, r)
        OBVIOUS
      <3>4. y = [sbas_id |-> y.sbas_id, colls |-> y.colls]
        BY <2>5, <3>3 DEF Base
      <3>5. x = [y EXCEPT !.colls = t]
        BY <2>3, <3>3
      <3>6. x = [sbas_id |-> y.sbas_id, colls |-> t]
        BY <3>4, <3>5
      <3> QED
        BY <3>2, <3>3, <3>6
    <2>7. \A k \in 1..n : k # n => g[k] = P[k]
      BY <1>4, <2>1, <2>2, KnownRow
    <2>8. P = [k \in 1..n |-> P[k]] /\ g = [k \in 1..n |-> g[k]]
      BY <1>2, <1>3, <2>1, LenProperties
    <2>9. g[n] = x
      BY <1>3, <2>1, <2>2, <2>6
    <2> QED
      BY <1>1, <2>4, <2>7, <2>8, <2>9
  <1>6. CASE ~(e.connok /\ <<r.sbas_id, r.coll_id>> \in Colls)
    <2>1. f = e
      BY <1>1, <1>6 DEF AddColl
    <2>2. \A k \in 1..Len(P) : r \notin KnownIn(P[k].sbas_id)
      BY <1>1, <1>6, KnownRow
    <2>3. \A k \in 1..Len(P) : g[k] = P[k]
      BY <1>4, <2>2
    <2>4. g = P
      BY <1>2, <1>3, <2>3, SeqEqual
    <2> QED
      BY <1>1, <2>1, <2>4
  <1> QED
    BY <1>5, <1>6

\* Lists grow entry by entry, a base just opened included.
LEMMA GrownOpened ==
    ASSUME NEW list \in Seq(Base), NEW r \in Row, NEW new,
           new = [sbas_id |-> r.sbas_id, colls |-> << >>]
    PROVE  /\ Append(list, new) \in Seq(Base)
           /\ GrownAll(Append(list, new), r) = Append(GrownAll(list, r), NewEntry(r))
  <1>1. new \in Base /\ Grown(new, r) = NewEntry(r)
    <2>1. << >> \in Seq(Row) /\ r.sbas_id \in Sbas
      BY EmptySeq, RowsTyped
    <2> QED
      BY <2>1 DEF Base, Grown, NewEntry
  <1>2. PICK more, n, g, h, u :
          /\ more = Append(list, new) /\ n = Len(list) /\ g = GrownAll(list, r)
          /\ h = GrownAll(more, r) /\ u = Append(g, NewEntry(r))
    OBVIOUS
  <1>3. /\ more \in Seq(Base) /\ Len(more) = n + 1 /\ n \in Nat
        /\ \A k \in 1..n : more[k] = list[k]
        /\ more[n + 1] = new
    BY <1>1, <1>2, AppendProperties, LenProperties
  <1>4. /\ g \in Seq(Base) /\ Len(g) = n /\ NewEntry(r) \in Base
        /\ \A k \in 1..n : g[k] = Grown(list[k], r)
    BY <1>2, GrownType
  <1>5. /\ h \in Seq(Base) /\ Len(h) = n + 1
        /\ \A k \in 1..(n + 1) : h[k] = Grown(more[k], r)
    <2>1. /\ h \in Seq(Base) /\ Len(h) = Len(more)
          /\ \A k \in 1..Len(more) : h[k] = Grown(more[k], r)
      BY <1>2, <1>3, GrownType
    <2> QED
      BY <1>3, <2>1
  <1>6. /\ u \in Seq(Base) /\ Len(u) = n + 1
        /\ \A k \in 1..n : u[k] = g[k]
        /\ u[n + 1] = NewEntry(r)
    BY <1>2, <1>4, AppendProperties
  <1>7. \A k \in 1..(n + 1) : h[k] = u[k]
    <2>1. \A k \in 1..(n + 1) : k \in 1..n \/ k = n + 1
      BY <1>3
    <2> QED
      BY <1>1, <1>3, <1>4, <1>5, <1>6, <2>1
  <1>8. h = u
    BY <1>5, <1>6, <1>7, SeqEqual
  <1> QED
    BY <1>2, <1>3, <1>8

\* Adding a collection moves no base.
LEMMA LastBaseStays ==
    ASSUME NEW e, ListingOK(e), NEW r \in Row, LastBase(e),
           AddColl(e, r).bases = GrownAll(e.bases, r)
    PROVE  LastBase(AddColl(e, r))
  <1>1. PICK P, f, g : P = e.bases /\ f = AddColl(e, r) /\ g = GrownAll(P, r)
    OBVIOUS
  <1>2. P \in Seq(Base) /\ Len(P) \in Nat
    BY <1>1, LenProperties DEF ListingOK, Listing
  <1>3. f.bases = g /\ f.cache_base = e.cache_base /\ f.last_sbas_id = e.last_sbas_id
    BY <1>1, AddTyped
  <1>4. Len(g) = Len(P) /\ \A k \in 1..Len(P) : g[k] = Grown(P[k], r)
    BY <1>1, <1>2, GrownType
  <1>5. \A k \in 1..Len(P) : g[k].sbas_id = P[k].sbas_id
    <2>1. \A x : Grown(x, r).sbas_id = x.sbas_id
      BY DEF Grown
    <2> QED
      BY <1>4, <2>1
  <1>6. /\ e.cache_base = Len(P) /\ Len(P) > 0
        /\ \A k \in 1..Len(P) : P[k].sbas_id = e.last_sbas_id <=> k = Len(P)
    BY <1>1 DEF LastBase
  <1>7. LastBase(f)
    BY <1>3, <1>4, <1>5, <1>6 DEF LastBase
  <1> QED
    BY <1>1, <1>7

\* The databox of a row is that of the row before, or is met for the first time.
LEMMA RowsOfABox ==
    ASSUME NEW n \in Nat, n + 1 \in 1..Len(Rows)
    PROVE  /\ Rows[n + 1] \in Row
           /\ FirstOfItsBox(Prefix(n), Rows[n + 1]) <=>
                 n = 0 \/ Rows[n].sbas_id # Rows[n + 1].sbas_id
  <1>1. /\ Len(Rows) \in Nat /\ DOMAIN Rows = 1..Len(Rows)
        /\ \A i \in 1..Len(Rows) : Rows[i] \in Row
    BY RowsTyped
  <1>2. n \in 0..Len(Rows)
    BY <1>1
  <1>3. DOMAIN Prefix(n) = 1..n /\ \A i \in 1..n : Prefix(n)[i] = Rows[i]
    BY DEF Prefix
  <1>4. ASSUME NEW j \in 1..n, Rows[j].sbas_id = Rows[n + 1].sbas_id
        PROVE  n \in 1..n /\ Rows[n].sbas_id = Rows[n + 1].sbas_id
    <2>1. n \in j..(n + 1) /\ j \in DOMAIN Rows /\ n + 1 \in DOMAIN Rows /\ n \in 1..n
      BY <1>1
    <2> QED
      BY <1>4, <2>1, RowsAssumption
  <1>5. n # 0 => n \in 1..n
    OBVIOUS
  <1>6. n = 0 => 1..n = {}
    OBVIOUS
  <1> QED
    BY <1>1, <1>3, <1>4, <1>5, <1>6 DEF FirstOfItsBox

\* e is c after the connections of the turn for row r, ok if its databox answers.
Connected(c, r, ok, e) == e = [ChangeDatabox(c, r, ok) EXCEPT !.connok = @ \/ ok]

\* The base of a databox that is met for the first time.
NoColl(r) == [sbas_id |-> r.sbas_id, colls |-> << >>]

SameBox(c, ok, e) ==
    /\ e.bases = c.bases /\ e.cache_base = c.cache_base
    /\ e.connok = (c.connok \/ ok)

NextBox(c, r, ok, e) ==
    /\ e.connok = ok
    /\ ok => e.bases = Append(c.bases, NoColl(r)) /\ e.cache_base = Len(c.bases) + 1
    /\ ~ok => e.bases = c.bases

\* What ChangeDatabox and the second connect() leave, field by field.
LEMMA ChangedTo ==
    ASSUME NEW c, ListingOK(c), NEW r \in Row, NEW ok \in BOOLEAN,
           NEW e, Connected(c, r, ok, e)
    PROVE  /\ ListingOK(e) /\ e.row = c.row /\ e.last_sbas_id = r.sbas_id
           /\ r.sbas_id = c.last_sbas_id => SameBox(c, ok, e)
           /\ r.sbas_id # c.last_sbas_id => NextBox(c, r, ok, e)
  <1>1. PICK d : d = ChangeDatabox(c, r, ok)
    OBVIOUS
  <1>2. ListingOK(d) /\ d.row = c.row /\ d.last_sbas_id = r.sbas_id
    BY <1>1, ChangeTyped
  <1>3. e = [d EXCEPT !.connok = @ \/ ok]
    BY <1>1 DEF Connected
  <1>4. ListingOK(e) /\ e.row = d.row
    BY <1>2, <1>3, AgainTyped
  <1>5. /\ e.last_sbas_id = d.last_sbas_id /\ e.connok = (d.connok \/ ok)
        /\ e.cache_base = d.cache_base /\ e.bases = d.bases
    BY <1>2, <1>3 DEF ListingOK, Listing
  <1>6. CASE r.sbas_id = c.last_sbas_id
    BY <1>1, <1>2, <1>4, <1>5, <1>6 DEF ChangeDatabox, SameBox
  <1>7. CASE r.sbas_id # c.last_sbas_id
    <2>1. PICK more : more = Append(c.bases, NoColl(r))
      OBVIOUS
    <2>2. d = [row |-> c.row, last_sbas_id |-> r.sbas_id, connok |-> ok,
               cache_base |-> IF ok THEN Len(c.bases) + 1 ELSE c.cache_base,
               bases |-> IF ok THEN more ELSE c.bases]
      BY <1>1, <1>7, <2>1 DEF ChangeDatabox, ListingOK, Listing, NoColl
    <2>3. /\ d.connok = ok /\ d.cache_base = IF ok THEN Len(c.bases) + 1 ELSE c.cache_base
          /\ d.bases = IF ok THEN more ELSE c.bases
      BY <2>2
    <2> QED
      BY <1>2, <1>4, <1>5, <1>7, <2>1, <2>3 DEF NextBox
  <1> QED
    BY <1>6, <1>7

\* The loop keeps its place in the published list: after a row, the bases are
\* those published for the rows so far.
LEMMA RowPublished ==
    ASSUME NEW c, ListingOK(c), c.row \in 1..Len(Rows), NEW r, r = Rows[c.row],
           NEW boxes, ListedUpTo(c, boxes), NEW ok, ok = (r.sbas_id \in boxes),
           NEW e, Connected(c, r, ok, e)
    PROVE  ListedUpTo([AddColl(e, r) EXCEPT !.row = @ + 1], boxes)
  <1>1. PICK n, P, f, rows :
          /\ n = c.row - 1 /\ P = c.bases /\ f = AddColl(e, r) /\ rows = Prefix(n)
    OBVIOUS
  <1>2. n \in Nat /\ n + 1 = c.row /\ n + 1 \in 1..Len(Rows) /\ n \in 0..Len(Rows)
    <2>1. Len(Rows) \in Nat
      BY RowsTyped
    <2> QED
      BY <1>1, <2>1
  <1>3. /\ r \in Row /\ ok \in BOOLEAN
        /\ FirstOfItsBox(rows, r) <=> n = 0 \/ Rows[n].sbas_id # r.sbas_id
    BY <1>1, <1>2, RowsOfABox
  <1>4. /\ c.last_sbas_id = IF n = 0 THEN 0 ELSE Rows[n].sbas_id
        /\ r.sbas_id # 0
    <2>1. r.sbas_id # 0
      BY <1>3, RowsTyped
    <2> QED
      BY <1>1, <1>2, <2>1 DEF ListedUpTo
  <1>5. FirstOfItsBox(rows, r) <=> r.sbas_id # c.last_sbas_id
    BY <1>3, <1>4
  <1>6. P = Published(rows, boxes) /\ P \in Seq(Base) /\ Len(P) \in Nat
    <2>1. P = Published(rows, boxes)
      BY <1>1 DEF ListedUpTo
    <2> QED
      BY <1>1, <2>1, LenProperties DEF ListingOK, Listing
  <1>7. rows \in Seq(Row) /\ Prefix(n + 1) = Append(rows, r)
    <2>1. n + 1 <= Len(Rows)
      BY <1>2
    <2> QED
      BY <1>1, <1>2, <2>1, PrefixGrows
  <1>8. Published(Prefix(n + 1), boxes) =
           IF r.sbas_id \in boxes /\ FirstOfItsBox(rows, r)
           THEN Append(GrownAll(P, r), NewEntry(r))
           ELSE GrownAll(P, r)
    BY <1>3, <1>6, <1>7, PublishedGrows
  <1>9. \A k \in 1..Len(P) : P[k].sbas_id \in boxes /\ ~FirstOfItsBox(rows, P[k])
    BY <1>6, <1>7, PublishedBases
  <1>10. /\ ListingOK(e) /\ e.row = c.row /\ e.last_sbas_id = r.sbas_id
         /\ r.sbas_id = c.last_sbas_id => SameBox(c, ok, e)
         /\ r.sbas_id # c.last_sbas_id => NextBox(c, r, ok, e)
    <2>1. ListingOK(c) /\ r \in Row /\ ok \in BOOLEAN /\ Connected(c, r, ok, e)
      BY <1>3
    <2> QED
      BY ONLY <2>1, ChangedTo
  <1>11. e.connok = ok /\ (e.connok => LastBase(e))
    <2>1. CASE r.sbas_id = c.last_sbas_id
      <3>1. c.connok = ok
        BY <2>1 DEF ListedUpTo, ListingOK, Listing
      <3>2. ok => LastBase(c)
        BY <3>1 DEF ListedUpTo
      <3>3. SameBox(c, ok, e) /\ e.last_sbas_id = c.last_sbas_id
        BY <1>10, <2>1
      <3> QED
        BY <1>3, <3>1, <3>2, <3>3 DEF LastBase, SameBox
    <2>2. CASE r.sbas_id # c.last_sbas_id /\ ok
      <3>1. PICK new, more : new = NoColl(r) /\ more = Append(P, new)
        OBVIOUS
      <3>2. new \in Base /\ new.sbas_id = r.sbas_id
        <4>1. << >> \in Seq(Row) /\ r.sbas_id \in Sbas
          BY <1>3, EmptySeq, RowsTyped
        <4> QED
          BY <3>1, <4>1 DEF Base, NoColl
      <3>3. /\ Len(more) = Len(P) + 1 /\ \A k \in 1..Len(P) : more[k] = P[k]
            /\ more[Len(P) + 1] = new
        BY <1>6, <3>1, <3>2, AppendProperties
      <3>4. \A k \in 1..Len(P) : P[k].sbas_id # r.sbas_id
        BY <1>5, <1>9, <2>2 DEF FirstOfItsBox
      <3>5. \A k \in 1..(Len(P) + 1) : more[k].sbas_id = r.sbas_id <=> k = Len(P) + 1
        <4>1. \A k \in 1..(Len(P) + 1) : k \in 1..Len(P) \/ k = Len(P) + 1
          BY <1>6
        <4>2. \A k \in 1..Len(P) : k # Len(P) + 1
          BY <1>6
        <4> QED
          BY <3>2, <3>3, <3>4, <4>1, <4>2
      <3>6. e.bases = more /\ e.cache_base = Len(P) + 1 /\ e.connok = ok
        BY <1>1, <1>10, <2>2, <3>1 DEF NextBox
      <3>7. Len(P) + 1 > 0
        BY <1>6
      <3> QED
        BY <1>10, <3>3, <3>5, <3>6, <3>7 DEF LastBase
    <2>3. CASE r.sbas_id # c.last_sbas_id /\ ~ok
      BY <1>10, <2>3 DEF NextBox
    <2> QED
      BY <1>3, <2>1, <2>2, <2>3
  <1>12. f.bases = GrownAll(e.bases, r)
    <2>1. ASSUME ~e.connok, NEW k \in 1..Len(e.bases) PROVE e.bases[k].sbas_id # r.sbas_id
      <3>1. e.bases = P
        BY <1>1, <1>10, <1>11, <2>1 DEF SameBox, NextBox
      <3> QED
        BY <1>9, <1>11, <2>1, <3>1
    <2>2. e.connok => LastBase(e) /\ e.last_sbas_id = r.sbas_id
      BY <1>10, <1>11
    <2>3. AddColl(e, r).bases = GrownAll(e.bases, r)
      BY <1>3, <1>10, <2>1, <2>2, AddIsGrown
    <2> QED
      BY <1>1, <2>3
  <1>13. f.bases = Published(Prefix(n + 1), boxes)
    <2>1. CASE r.sbas_id # c.last_sbas_id /\ ok
      <3>1. PICK new : new = NoColl(r)
        OBVIOUS
      <3>2. e.bases = Append(P, new)
        BY <1>1, <1>10, <2>1, <3>1 DEF NextBox
      <3>3. GrownAll(Append(P, new), r) = Append(GrownAll(P, r), NewEntry(r))
        BY <1>3, <1>6, <3>1, GrownOpened DEF NoColl
      <3> QED
        BY <1>5, <1>8, <1>12, <2>1, <3>2, <3>3
    <2>2. CASE ~(r.sbas_id # c.last_sbas_id /\ ok)
      <3>1. e.bases = P
        BY <1>1, <1>10, <2>2 DEF SameBox, NextBox
      <3> QED
        BY <1>3, <1>5, <1>8, <1>12, <2>2, <3>1
    <2> QED
      BY <2>1, <2>2
  <1>14. /\ ListingOK(f) /\ f.row = c.row /\ f.last_sbas_id = r.sbas_id
         /\ f.connok = e.connok /\ (f.connok => LastBase(f))
    <2>1. /\ ListingOK(f) /\ f.row = e.row /\ f.last_sbas_id = e.last_sbas_id
          /\ f.connok = e.connok
      BY <1>1, <1>3, <1>10, AddTyped
    <2>2. e.connok => LastBase(f)
      BY <1>1, <1>3, <1>10, <1>11, <1>12, LastBaseStays
    <2> QED
      BY <1>10, <2>1, <2>2
  <1>15. PICK g : g = [f EXCEPT !.row = @ + 1]
    OBVIOUS
  <1>16. /\ g.row = n + 2 /\ g.bases = f.bases /\ g.last_sbas_id = f.last_sbas_id
         /\ g.connok = f.connok /\ g.cache_base = f.cache_base
    BY <1>2, <1>14, <1>15 DEF ListingOK, Listing
  <1>17. g.row - 1 = n + 1 /\ g.row # 1 /\ Rows[g.row - 1] = r
    BY <1>2, <1>16
  <1>18. ListedUpTo(g, boxes)
    <2>1. g.connok = ok /\ g.last_sbas_id = r.sbas_id
      BY <1>11, <1>14, <1>16
    <2>2. g.connok => LastBase(g)
      BY <1>14, <1>16 DEF LastBase
    <2>3. g.bases = Published(Prefix(g.row - 1), boxes)
      BY <1>13, <1>16, <1>17
    <2> QED
      BY <1>17, <2>1, <2>2, <2>3 DEF ListedUpTo
  <1> QED
    BY <1>1, <1>15, <1>18

LEMMA NothingPublished == \A boxes : Published(<< >>, boxes) = << >>
  <1> SUFFICES ASSUME NEW boxes PROVE Published(<< >>, boxes) = << >>
    OBVIOUS
  <1>1. << >> \in Seq(Row) /\ Len(<< >>) = 0
    BY EmptySeq
  <1>2. PICK rows, P : rows = << >> /\ P = Published(rows, boxes)
    OBVIOUS
  <1>3. P \in Seq(Base) /\ \A k \in 1..Len(P) : ~FirstOfItsBox(rows, P[k])
    BY <1>1, <1>2, PublishedBases
  <1>4. DOMAIN rows = {}
    BY <1>2
  <1>5. \A k \in 1..Len(P) : FALSE
    BY <1>3, <1>4 DEF FirstOfItsBox
  <1>6. Len(P) = 0
    BY <1>3, <1>5, LenProperties
  <1> QED
    BY <1>2, <1>3, <1>6, EmptySeq

LEMMA NoListingPublished ==
    ASSUME NEW boxes \in SUBSET Sbas
    PROVE  ListedUpTo(NoListing, boxes)
  <1>1. Published(Prefix(0), boxes) = << >>
    BY NothingPublished, PrefixGrows
  <1>2. 0 \notin boxes
    BY RowsTyped
  <1>3. PICK c : c = NoListing
    OBVIOUS
  <1>4. c.row = 1 /\ c.last_sbas_id = 0 /\ c.connok = FALSE /\ c.bases = << >>
    BY <1>3 DEF NoListing
  <1>5. c.row - 1 = 0
    BY <1>4
  <1> QED
    BY <1>1, <1>2, <1>3, <1>4, <1>5 DEF ListedUpTo

\* A session lists what was published when it was created; a call in progress
\* has listed what is published up to its row.
PublishedOf(session) ==
    session # NoSession =>
        /\ session.session_id \in 1..inserted
        /\ session.bases = Published(Rows, up[session.session_id])

PlaceOf(w) ==
    IF pc[w] = "list"
    THEN sesid[w] \in 1..inserted /\ ListedUpTo(creating[w], up[sesid[w]])
    ELSE creating[w] = NoListing

PublishInv ==
    /\ \A session \in Kept : PublishedOf(session)
    /\ \A s \in SessionIds : cache[s].session.session_id \in {0, s}
    /\ \A w \in Workers : PlaceOf(w)

LEMMA PublishInit == Init => PublishInv
  <1> SUFFICES ASSUME Init PROVE PublishInv
    OBVIOUS
  <1>1. \A w \in Workers : PlaceOf(w)
    BY DEF Init, PlaceOf
  <1>2. \A session \in Kept : session = NoSession
    BY DEF Init, Kept, NoRow
  <1>3. \A s \in SessionIds : cache[s].session.session_id = 0
    BY DEF Init, NoRow, NoSession
  <1> QED
    BY <1>1, <1>2, <1>3 DEF PublishInv, PublishedOf

\* The rows inserted before keep their databoxes.
SameBefore ==
    /\ inserted \in Nat /\ inserted' \in Nat /\ inserted' >= inserted
    /\ \A s \in 1..inserted : up'[s] = up[s]

\* What was listed stays so, whatever is inserted.
LEMMA PublishedStays ==
    ASSUME SameBefore, NEW session, PublishedOf(session)
    PROVE  PublishedOf(session)'
  BY DEF PublishedOf, SameBefore

LEMMA NoSessionPublished == PublishedOf(NoSession) /\ PublishedOf(NoSession)'
  BY DEF PublishedOf

\* Every session that is kept in the next state is one that was kept, none, or new.
LEMMA PublishParts ==
    ASSUME SameBefore, PublishInv, NEW new, PublishedOf(new)',
           \A w \in Workers : global_session'[w] \in Kept \cup {NoSession, new},
           \A s \in SessionIds :
              \/ cache'[s].session \in {cache[s].session, NoSession}
              \/ cache'[s].session = new /\ new.session_id = s,
           \A w \in Workers : PlaceOf(w)'
    PROVE  PublishInv'
  <1>1. \A session \in Kept : PublishedOf(session)'
    BY PublishedStays DEF PublishInv
  <1>2. PublishedOf(NoSession)'
    BY NoSessionPublished
  <1>3. \A s \in SessionIds : cache[s].session \in Kept
    BY DEF Kept
  <1>4. \A session \in Kept' : session \in Kept \cup {NoSession, new}
    BY <1>3 DEF Kept
  <1>5. \A s \in SessionIds : cache'[s].session.session_id \in {0, s}
    <2>1. NoSession.session_id = 0
      BY DEF NoSession
    <2> QED
      BY <2>1 DEF PublishInv
  <1>6. \A session \in Kept' : PublishedOf(session)'
    BY <1>1, <1>2, <1>4
  <1> QED
    BY <1>5, <1>6 DEF PublishInv

\* A worker whose locals do not change keeps its place in the list.
LEMMA PlaceSame ==
    ASSUME NEW v \in Workers, PlaceOf(v), SameBefore, pc'[v] = pc[v], sesid'[v] = sesid[v],
           creating'[v] = creating[v]
    PROVE  PlaceOf(v)'
  <1>1. CASE pc[v] = "list"
    <2>1. /\ sesid[v] \in 1..inserted /\ ListedUpTo(creating[v], up[sesid[v]])
          /\ sesid[v] \in 1..inserted' /\ up'[sesid[v]] = up[sesid[v]]
      BY <1>1 DEF PlaceOf, SameBefore
    <2> QED
      BY <1>1, <2>1 DEF PlaceOf
  <1>2. CASE pc[v] # "list"
    BY <1>2 DEF PlaceOf
  <1> QED
    BY <1>1, <1>2

LEMMA PlaceReturn ==
    ASSUME StepOK, CreatingOK, NEW w \in Workers, Return(w), \A v \in Workers : PlaceOf(v),
           SameBefore
    PROVE  \A v \in Workers : PlaceOf(v)'
  <1> SUFFICES ASSUME NEW v \in Workers PROVE PlaceOf(v)'
    OBVIOUS
  <1>1. CASE v = w
    BY <1>1 DEF Return, Goto, StepOK, CreatingOK, PlaceOf
  <1>2. CASE v # w
    <2>1. pc'[v] = pc[v] /\ sesid'[v] = sesid[v] /\ creating'[v] = creating[v]
      BY <1>2 DEF Return, Goto, StepOK, CreatingOK
    <2> QED
      BY <2>1, PlaceSame
  <1> QED
    BY <1>1, <1>2

\* Every action keeps PublishInv when a databox stays as it was during a creation.
LEMMA PublishNext ==
    ASSUME ~Flaky, TypeOK, PublishInv, [Next]_vars
    PROVE  PublishInv'
  <1>0. TableOK /\ RequestOK /\ StepOK /\ CreatingOK /\ HistoryOK /\ inserted \in Nat
    BY TypeParts, SessionsTyped DEF TableOK
  <1>a. /\ \A session \in Kept : PublishedOf(session)
        /\ \A w \in Workers : global_session[w] \in Kept
        /\ \A s \in SessionIds : cache[s].session \in Kept
        /\ \A w \in Workers : PlaceOf(w)
    BY DEF PublishInv, Kept
  <1>b. UNCHANGED <<inserted, up>> => SameBefore
    BY <1>0 DEF SameBefore
  <1>c. UNCHANGED <<call, inserted, up>> => \A v \in Workers : PlaceOf(v)'
    BY <1>a DEF call, PlaceOf
  <1>1. CASE UNCHANGED vars
    <2>1. UNCHANGED <<cache, inserted, up, global_session>> /\ UNCHANGED call
      BY <1>1 DEF vars, table, request
    <2> QED
      BY <1>a, <1>b, <1>c, <2>1, NoSessionPublished, PublishParts
  <1>2. ASSUME NEW w \in Workers, Conn(w) \/ EndRequest(w) PROVE PublishInv'
    <2>1. \A v \in Workers : global_session'[v] \in {global_session[v], NoSession}
      BY <1>0, <1>2 DEF Conn, EndRequest, RequestOK
    <2>2. UNCHANGED <<call, inserted, up>> /\ UNCHANGED cache
      BY <1>2 DEF Conn, EndRequest, table
    <2> QED
      BY <1>a, <1>b, <1>c, <2>1, <2>2, NoSessionPublished, PublishParts
  <1>3. ASSUME NEW w \in Workers, InsertSession(w) PROVE PublishInv'
    <2>1. /\ inserted' = inserted + 1 /\ inserted + 1 \in SessionIds
          /\ creating' = creating /\ global_session' = global_session
          /\ pc[w] = "ready" /\ Goto(w, "list", inserted + 1)
      BY <1>0, <1>3, SessionsTyped DEF InsertSession, TableOK, SessionIds, request
    <2>2. \A s \in SessionIds : cache'[s].session \in {cache[s].session, NoSession}
      BY <1>0, <1>3 DEF InsertSession, TableOK
    <2>3. \E boxes \in SUBSET Sbas : up' = [up EXCEPT ![inserted + 1] = boxes]
      BY <1>3 DEF InsertSession
    <2>4. up'[inserted + 1] \in SUBSET Sbas /\ \A s \in 1..inserted : up'[s] = up[s]
      BY <1>0, <2>1, <2>3 DEF HistoryOK
    <2>5. SameBefore
      BY <1>0, <2>1, <2>4 DEF SameBefore
    <2>6. ASSUME NEW v \in Workers PROVE PlaceOf(v)'
      <3>1. CASE v = w
        <4>1. creating[w] = NoListing
          BY <1>a, <2>1 DEF PlaceOf
        <4>2. pc'[w] = "list" /\ sesid'[w] = inserted + 1 /\ creating'[w] = NoListing
          BY <1>0, <2>1, <4>1 DEF Goto, StepOK
        <4>3. ListedUpTo(NoListing, up'[inserted + 1])
          BY <2>4, NoListingPublished
        <4>4. inserted + 1 \in 1..inserted'
          BY <1>0, <2>1
        <4>5. PlaceOf(w)' = (/\ sesid'[w] \in 1..inserted'
                             /\ ListedUpTo(creating'[w], up'[sesid'[w]]))
          BY <4>2 DEF PlaceOf, ListedUpTo, LastBase
        <4> QED
          BY <3>1, <4>2, <4>3, <4>4, <4>5
      <3>2. CASE v # w
        <4>1. pc'[v] = pc[v] /\ sesid'[v] = sesid[v] /\ creating'[v] = creating[v]
          BY <1>0, <2>1, <3>2 DEF Goto, StepOK
        <4> QED
          BY <1>a, <2>5, <4>1, PlaceSame
      <3> QED
        BY <3>1, <3>2
    <2> QED
      BY <1>a, <2>1, <2>2, <2>5, <2>6, NoSessionPublished, PublishParts
  <1>4. ASSUME NEW w \in Workers, ListFails(w) PROVE PublishInv'
    <2>1. UNCHANGED <<cache, inserted, up, global_session>> /\ Return(w)
      BY <1>4 DEF ListFails, table, request
    <2>2. \A v \in Workers : PlaceOf(v)'
      BY <1>0, <1>a, <1>b, <2>1, PlaceReturn
    <2> QED
      BY <1>a, <1>b, <2>1, <2>2, NoSessionPublished, PublishParts
  <1>5. ASSUME NEW w \in Workers, ListRow(w) PROVE PublishInv'
    <2>1. UNCHANGED <<pc, sesid, inserted, up, cache, global_session>>
      BY <1>5 DEF ListRow, table, request
    <2>2. PICK c, r, boxes, ok : /\ c = creating[w] /\ r = Rows[c.row]
                                 /\ boxes = up[sesid[w]] /\ ok = (r.sbas_id \in boxes)
      OBVIOUS
    <2>3. PICK e : Connected(c, r, ok, e)
      BY DEF Connected
    <2>4. PICK g : g = [AddColl(e, r) EXCEPT !.row = @ + 1]
      OBVIOUS
    <2>5. creating' = [creating EXCEPT ![w] = g]
      BY <1>5, <2>2, <2>3, <2>4 DEF ListRow, Answers, Connected
    <2>6. /\ ListingOK(c) /\ c.row \in 1..Len(Rows) /\ ListedUpTo(c, boxes)
          /\ sesid[w] \in 1..inserted /\ pc[w] = "list"
      BY <1>0, <1>a, <1>5, <2>2, RowsTyped DEF ListRow, CreatingOK, ListingOK, PlaceOf
    <2>7. ListedUpTo(g, boxes)
      BY <2>2, <2>3, <2>4, <2>6, RowPublished
    <2>8. ASSUME NEW v \in Workers PROVE PlaceOf(v)'
      <3>1. CASE v = w
        <4>1. creating'[w] = g
          BY <1>0, <2>5 DEF CreatingOK
        <4> QED
          BY <2>1, <2>2, <2>6, <2>7, <3>1, <4>1 DEF PlaceOf
      <3>2. CASE v # w
        <4>1. creating'[v] = creating[v]
          BY <1>0, <2>5, <3>2 DEF CreatingOK
        <4> QED
          BY <1>a, <1>b, <2>1, <4>1, PlaceSame
      <3> QED
        BY <3>1, <3>2
    <2> QED
      BY <1>a, <1>b, <2>1, <2>8, NoSessionPublished, PublishParts
  <1>6. ASSUME NEW w \in Workers, KeepSession(w) PROVE PublishInv'
    <2>1. PICK new : new = [session_id |-> sesid[w], bases |-> creating[w].bases]
      OBVIOUS
    <2>2. /\ global_session' = [global_session EXCEPT ![w] = new] /\ Save(sesid[w], new)
          /\ UNCHANGED <<inserted, up>> /\ Return(w) /\ pc[w] = "list"
          /\ creating[w].row \notin DOMAIN Rows
      BY <1>6, <2>1 DEF KeepSession
    <2>3. /\ sesid[w] \in 1..inserted /\ ListedUpTo(creating[w], up[sesid[w]])
          /\ creating[w].row \in 1..(Len(Rows) + 1)
      <3>1. PlaceOf(w) /\ pc[w] = "list"
        BY <1>a, <2>2
      <3>2. PICK c : c = creating[w]
        OBVIOUS
      <3>3. c \in Listing
        BY <1>0, <3>2 DEF CreatingOK, Listing
      <3>4. c.row \in 1..(Len(Rows) + 1)
        BY <3>3 DEF Listing
      <3> QED
        BY <3>1, <3>2, <3>4 DEF PlaceOf
    <2>4. creating[w].row - 1 = Len(Rows)
      BY <2>2, <2>3, RowsTyped
    <2>5. new.session_id = sesid[w] /\ new.bases = Published(Rows, up[sesid[w]])
      <3>1. creating[w].bases = Published(Rows, up[sesid[w]])
        BY <2>3, <2>4, PrefixGrows DEF ListedUpTo
      <3> QED
        BY <2>1, <3>1
    <2>6. PublishedOf(new)'
      BY <2>2, <2>3, <2>5 DEF PublishedOf
    <2>7. \A v \in Workers : global_session'[v] \in {global_session[v], new}
      BY <1>0, <2>2 DEF RequestOK
    <2>8. ASSUME NEW s \in SessionIds
          PROVE  \/ cache'[s].session = cache[s].session
                 \/ cache'[s].session = new /\ new.session_id = s
      <3>1. \/ cache' = [cache EXCEPT ![sesid[w]].session = new]
            \/ cache' = cache
        BY <2>2 DEF Save
      <3>2. CASE cache' = [cache EXCEPT ![sesid[w]].session = new]
        BY <1>0, <2>5, <3>2 DEF TableOK
      <3>3. CASE cache' = cache
        BY <3>3
      <3> QED
        BY <3>1, <3>2, <3>3
    <2>9. \A v \in Workers : PlaceOf(v)'
      BY <1>0, <1>a, <1>b, <2>2, PlaceReturn
    <2> QED
      BY <1>a, <1>b, <2>2, <2>6, <2>7, <2>8, <2>9, PublishParts
  <1>7. ASSUME NEW w \in Workers, OpenSession(w) \/ ClearCache(w) PROVE PublishInv'
    <2>1. \E s : \E label \in {"open_restore", "clear_restore", "segfault"} : Goto(w, label, s)
      BY <1>7 DEF OpenSession, ClearCache
    <2>2. pc[w] = "ready" /\ UNCHANGED <<creating, inserted, up, cache, global_session>>
      BY <1>7 DEF OpenSession, ClearCache, table, request
    <2>3. ASSUME NEW v \in Workers PROVE PlaceOf(v)'
      <3>1. CASE v = w
        BY <1>0, <1>a, <2>1, <2>2, <3>1 DEF PlaceOf, Goto, StepOK
      <3>2. CASE v # w
        <4>1. pc'[v] = pc[v] /\ sesid'[v] = sesid[v] /\ creating'[v] = creating[v]
          BY <1>0, <2>1, <2>2, <3>2 DEF Goto, StepOK
        <4> QED
          BY <1>a, <1>b, <2>2, <4>1, PlaceSame
      <3> QED
        BY <3>1, <3>2
    <2> QED
      BY <1>a, <1>b, <2>2, <2>3, NoSessionPublished, PublishParts
  <1>8. ASSUME NEW w \in Workers, Restore(w) PROVE PublishInv'
    <2>1. /\ UNCHANGED <<inserted, cache, up>> /\ Return(w) /\ sesid[w] \in SessionIds
          /\ \/ global_session' = [global_session EXCEPT ![w] = cache[sesid[w]].session]
             \/ UNCHANGED global_session
      BY <1>0, <1>8 DEF Restore, table, StepOK
    <2>2. \A v \in Workers : global_session'[v] \in Kept
      BY <1>0, <1>a, <2>1 DEF RequestOK
    <2>3. \A v \in Workers : PlaceOf(v)'
      BY <1>0, <1>a, <1>b, <2>1, PlaceReturn
    <2> QED
      BY <1>a, <1>b, <2>1, <2>2, <2>3, NoSessionPublished, PublishParts
  <1>9. ASSUME NEW w \in Workers, CloseSession(w) PROVE PublishInv'
    <2>1. \A s \in SessionIds : cache'[s].session \in {cache[s].session, NoSession}
      BY <1>0, <1>9 DEF CloseSession, TableOK
    <2>2. UNCHANGED <<call, inserted, up, global_session>>
      BY <1>9 DEF CloseSession, request
    <2> QED
      BY <1>a, <1>b, <1>c, <2>1, <2>2, NoSessionPublished, PublishParts
  <1>10. ASSUME NEW w \in Workers, Die(w) PROVE PublishInv'
    <2>1. \A v \in Workers : global_session'[v] \in {global_session[v], NoSession}
      BY <1>0, <1>10 DEF Die, RequestOK
    <2>2. UNCHANGED <<inserted, cache, up>> /\ Return(w)
      BY <1>10 DEF Die, table
    <2>3. \A v \in Workers : PlaceOf(v)'
      BY <1>0, <1>a, <1>b, <2>2, PlaceReturn
    <2> QED
      BY <1>a, <1>b, <2>1, <2>2, <2>3, NoSessionPublished, PublishParts
  <1> QED
    BY <1>1, <1>2, <1>3, <1>4, <1>5, <1>6, <1>7, <1>8, <1>9, <1>10 DEF Next, CreateSession

\* SessionsAsPublished: when a databox that answers at the start of a creation
\* answers to its end and no other begins to, every session a worker holds or
\* a row keeps lists the databoxes that answered, each once, in the order of
\* the rows and with the collections it knows; a row keeps its own session.
THEOREM SessionsAsPublished ==
    ASSUME ~Flaky
    PROVE  Spec => []ListedAsPublished
  <1>1. PublishInv => ListedAsPublished
    BY DEF PublishInv, ListedAsPublished, PublishedOf
  <1>2. TypeOK /\ PublishInv /\ [Next]_vars => PublishInv'
    BY PublishNext
  <1> QED
    BY <1>1, <1>2, SessionTypes, PublishInit, PTL DEF Spec
=============================================================================
