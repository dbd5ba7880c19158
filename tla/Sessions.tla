------------------------------ MODULE Sessions ------------------------------
(***************************************************************************)
(* The sessions of the extension: the table `cache' of the application box *)
(* and, in each PHP worker, the connection `epublisher' and the session    *)
(* `global_session'.                                                       *)
(*                                                                         *)
(* phrasea_create_session() inserts a row, lists the published databoxes   *)
(* with their collections, row by row, connecting to each databox as it    *)
(* goes, keeps the result as global_session and saves it in the row.       *)
(* phrasea_open_session() and phrasea_clear_cache() restore it from there, *)
(* phrasea_close_session() deletes the row.                                *)
(*                                                                         *)
(* Abstractions: each SQL statement is one step; the address of a databox  *)
(* is its sbas_id; the saved session is the session (its binary form is a  *)
(* subject of its own); the files removed by clear and close are in        *)
(* ResultCache.                                                            *)
(***************************************************************************)
EXTENDS Integers, Sequences, Selection

CONSTANTS
    Workers,      \* PHP worker processes
    Users,        \* values of usr_id
    Rows,         \* the published collections, ordered as the SELECT orders them
    Colls,        \* <<sbas_id, coll_id>> of the collections that exist
    MaxSessions,  \* bound: rows inserted in a behaviour
    Flaky,        \* may a databox come or go while a session is created ?
    MayFail,      \* SQL that may fail: subset of {"list", "save", "restore"}
    MayCrash      \* may a worker die inside a call ?

Sbas == {Rows[i].sbas_id : i \in DOMAIN Rows}

\* ORDER BY sbas.ord, sbas.sbas_id: the collections of a databox follow one
\* another; base_id is the primary key of the collections.
ASSUME RowsAssumption ==
    /\ Rows \in Seq([base_id : Nat \ {0}, sbas_id : Nat \ {0}, coll_id : Nat])
    /\ \A i, j \in DOMAIN Rows :
          /\ Rows[i].base_id = Rows[j].base_id => i = j
          /\ Rows[i].sbas_id = Rows[j].sbas_id =>
                \A k \in i..j : Rows[k].sbas_id = Rows[i].sbas_id

ASSUME BoundAssumption == MaxSessions \in Nat /\ 0 \notin Users

ASSUME FaultsAssumption ==
    /\ Flaky \in BOOLEAN /\ MayCrash \in BOOLEAN
    /\ MayFail \subseteq {"list", "save", "restore"}

VARIABLES
    cache,           \* table `cache', by session_id
    inserted,        \* rows inserted so far (AUTO_INCREMENT)
    epublisher,      \* epublisher[w]: connected to the application box
    global_session,  \* global_session[w]
    pc,              \* pc[w]: next step of w, "ready" between two calls
    sesid,           \* sesid[w]: the session the call is about
    creating,        \* creating[w]: locals of phrasea_create_session
    up               \* history: up[s]: databoxes that answered when s was created

table   == <<cache, inserted>>
request == <<epublisher, global_session>>
call    == <<pc, sesid, creating>>
vars    == <<table, request, call, up>>

SessionIds == 1..MaxSessions

\* A session as CACHE_SESSION holds it: its bases in order, each with its
\* collections in order.
NoSession == [session_id |-> 0, bases |-> << >>]
NoRow     == [state |-> "none", usr_id |-> 0, session |-> NoSession]

\* Before the loop over the rows: no connection, cache_base is NULL (0).
NoListing == [row |-> 1, last_sbas_id |-> 0, connok |-> FALSE, cache_base |-> 0,
              bases |-> << >>]

-----------------------------------------------------------------------------
Init ==
    /\ cache = [s \in SessionIds |-> NoRow]
    /\ inserted = 0
    /\ epublisher = [w \in Workers |-> FALSE]
    /\ global_session = [w \in Workers |-> NoSession]
    /\ pc = [w \in Workers |-> "ready"]
    /\ sesid = [w \in Workers |-> 0]
    /\ creating = [w \in Workers |-> NoListing]
    /\ up = [s \in SessionIds |-> {}]

Live(s) == s \in SessionIds /\ cache[s].state = "live"

\* The call goes on with step `label', about session s.
Goto(w, label, s) ==
    /\ pc' = [pc EXCEPT ![w] = label]
    /\ sesid' = [sesid EXCEPT ![w] = s]

Return(w) ==
    /\ Goto(w, "ready", 0)
    /\ creating' = [creating EXCEPT ![w] = NoListing]

-----------------------------------------------------------------------------
(* The request: phrasea_conn, and RSHUTDOWN at its end.                    *)

\* The previous connection is dropped, whether the new one works or not.
\* global_session stays.
Conn(w) ==
    /\ pc[w] = "ready"
    /\ \E ok \in BOOLEAN : epublisher' = [epublisher EXCEPT ![w] = ok]
    /\ UNCHANGED <<table, global_session, call, up>>

EndRequest(w) ==
    /\ pc[w] = "ready"
    /\ epublisher' = [epublisher EXCEPT ![w] = FALSE]
    /\ global_session' = [global_session EXCEPT ![w] = NoSession]
    /\ UNCHANGED <<table, call, up>>

-----------------------------------------------------------------------------
(* phrasea_create_session                                                  *)

\* INSERT INTO cache.  Which databoxes answer is settled here for the call,
\* unless they are flaky.
InsertSession(w) ==
    /\ pc[w] = "ready"
    /\ epublisher[w]
    /\ inserted < MaxSessions
    /\ LET s == inserted + 1 IN
          /\ inserted' = s
          /\ \E usrid \in Users :
                cache' = [cache EXCEPT ![s] = [state |-> "live", usr_id |-> usrid,
                                               session |-> NoSession]]
          /\ \E boxes \in SUBSET Sbas : up' = [up EXCEPT ![s] = boxes]
          /\ Goto(w, "list", s)
    /\ UNCHANGED <<request, creating>>

\* LAST_INSERT_ID() or the SELECT of the list fails: TRUE is returned, the
\* row stays.
ListFails(w) ==
    /\ pc[w] = "list"
    /\ creating[w] = NoListing
    /\ "list" \in MayFail
    /\ Return(w)
    /\ UNCHANGED <<table, request, up>>

\* What SQLCONN::connect may answer for a databox.
Answers(w, sbas_id) ==
    IF Flaky THEN BOOLEAN ELSE {sbas_id \in up[sesid[w]]}

\* Mutant of ChangeDatabox: a new base for each collection.
ChangeAtEachRow(c, r, connected) ==
    [c EXCEPT !.last_sbas_id = r.sbas_id,
              !.connok = connected,
              !.bases = IF connected
                        THEN Append(@, [sbas_id |-> r.sbas_id, colls |-> << >>])
                        ELSE @,
              !.cache_base = IF connected THEN Len(c.bases) + 1 ELSE @]

\* Mutant of ChangeDatabox: cache_base is assigned once only.
KeepFirstBase(c, r, connected) ==
    IF r.sbas_id = c.last_sbas_id THEN c
    ELSE [c EXCEPT !.last_sbas_id = r.sbas_id,
                   !.connok = connected,
                   !.bases = IF connected
                             THEN Append(@, [sbas_id |-> r.sbas_id, colls |-> << >>])
                             ELSE @,
                   !.cache_base = IF connected /\ @ = 0 THEN 1 ELSE @]

\* Mutant of ChangeDatabox: cache_base moves on even without a connection.
BaseOfNothing(c, r, connected) ==
    IF r.sbas_id = c.last_sbas_id THEN c
    ELSE [c EXCEPT !.last_sbas_id = r.sbas_id,
                   !.connok = connected,
                   !.bases = IF connected
                             THEN Append(@, [sbas_id |-> r.sbas_id, colls |-> << >>])
                             ELSE @,
                   !.cache_base = Len(c.bases) + 1]

\* The databox of row r is not that of the row before: a new connection, and
\* a new base if it works.
ChangeDatabox(c, r, connected) ==
    IF r.sbas_id = c.last_sbas_id THEN c
    ELSE [c EXCEPT !.last_sbas_id = r.sbas_id,
                   !.connok = connected,
                   !.bases = IF connected
                             THEN Append(@, [sbas_id |-> r.sbas_id, colls |-> << >>])
                             ELSE @,
                   !.cache_base = IF connected THEN Len(c.bases) + 1 ELSE @]

\* The collection of row r goes to cache_base if the databox knows it.
AddColl(c, r) ==
    IF c.connok /\ <<r.sbas_id, r.coll_id>> \in Colls /\ c.cache_base # 0
    THEN [c EXCEPT !.bases[c.cache_base].colls = Append(@, r)]
    ELSE c

\* One turn of the loop.  The second connect() of the turn tries again when
\* the databox is not connected.
ListRow(w) ==
    /\ pc[w] = "list"
    /\ creating[w].row \in DOMAIN Rows
    /\ LET r == Rows[creating[w].row] IN
       \E first, again \in Answers(w, r.sbas_id) :
          LET c  == ChangeDatabox(creating[w], r, first)
              c2 == AddColl([c EXCEPT !.connok = @ \/ again], r)
          IN  creating' = [creating EXCEPT ![w] = [c2 EXCEPT !.row = @ + 1]]
    /\ UNCHANGED <<table, request, pc, sesid, up>>

\* CACHE_SESSION::save: UPDATE cache SET session, if the row is still there.
Save(s, session) ==
    \/ Live(s) /\ cache' = [cache EXCEPT ![s].session = session]
    \/ (~Live(s) \/ "save" \in MayFail) /\ UNCHANGED cache

\* The end: global_session is the new session, saved in its row.  Whether
\* save() worked is not looked at.
KeepSession(w) ==
    /\ pc[w] = "list"
    /\ creating[w].row \notin DOMAIN Rows
    /\ LET s == sesid[w]
           new == [session_id |-> s, bases |-> creating[w].bases]
       IN  /\ global_session' = [global_session EXCEPT ![w] = new]
           /\ Save(s, new)
    /\ Return(w)
    /\ UNCHANGED <<inserted, epublisher, up>>

-----------------------------------------------------------------------------
(* phrasea_open_session, phrasea_clear_cache, phrasea_close_session        *)

\* UPDATE cache ... WHERE session_id AND usr_id: one row.
OpenSession(w) ==
    /\ pc[w] = "ready"
    /\ epublisher[w]
    /\ \E s \in SessionIds, usrid \in Users :
          /\ Live(s)
          /\ cache[s].usr_id = usrid
          /\ Goto(w, "open_restore", s)
    /\ UNCHANGED <<table, request, creating, up>>

\* UPDATE cache ... WHERE session_id: one row.  The files are removed.
\* Without phrasea_conn() the call goes on all the same, with a null pointer.
ClearCache(w) ==
    /\ pc[w] = "ready"
    /\ \/ /\ epublisher[w]
          /\ \E s \in SessionIds : Live(s) /\ Goto(w, "clear_restore", s)
       \/ /\ ~epublisher[w]
          /\ Goto(w, "segfault", 0)
    /\ UNCHANGED <<table, request, creating, up>>

\* CACHE_SESSION::restore: the row may be gone by now, or hold no session.
Restore(w) ==
    /\ pc[w] \in {"open_restore", "clear_restore"}
    /\ LET s == sesid[w]
           found == cache[s].session
       IN  \/ /\ Live(s) /\ found # NoSession
              /\ pc[w] = "open_restore" => found.session_id = s
              /\ global_session' = [global_session EXCEPT ![w] = found]
           \/ /\ ~Live(s) \/ found = NoSession \/ "restore" \in MayFail
              /\ UNCHANGED global_session
    /\ Return(w)
    /\ UNCHANGED <<table, epublisher, up>>

\* DELETE FROM cache.  global_session stays, in this worker and in others.
CloseSession(w) ==
    /\ pc[w] = "ready"
    /\ epublisher[w]
    /\ \E s \in SessionIds :
          /\ Live(s)
          /\ cache' = [cache EXCEPT ![s].state = "deleted", ![s].session = NoSession]
    /\ UNCHANGED <<inserted, request, call, up>>

-----------------------------------------------------------------------------
\* The worker dies inside a call; another takes its place.
Die(w) ==
    /\ MayCrash \/ pc[w] = "segfault"
    /\ pc[w] # "ready"
    /\ epublisher' = [epublisher EXCEPT ![w] = FALSE]
    /\ global_session' = [global_session EXCEPT ![w] = NoSession]
    /\ Return(w)
    /\ UNCHANGED <<table, up>>

CreateSession(w) == InsertSession(w) \/ ListFails(w) \/ ListRow(w) \/ KeepSession(w)

Next == \E w \in Workers :
            \/ Conn(w) \/ EndRequest(w) \/ CreateSession(w)
            \/ OpenSession(w) \/ ClearCache(w) \/ Restore(w) \/ CloseSession(w)
            \/ Die(w)

Spec == Init /\ [][Next]_vars
-----------------------------------------------------------------------------
(* Properties                                                              *)

Row     == {Rows[i] : i \in DOMAIN Rows}
Base    == [sbas_id : Sbas, colls : Seq(Row)]
Session == [session_id : 0..MaxSessions, bases : Seq(Base)]

TypeOK ==
    /\ cache \in [SessionIds -> [state : {"none", "live", "deleted"},
                                 usr_id : Users \cup {0}, session : Session]]
    /\ inserted \in 0..MaxSessions
    /\ epublisher \in [Workers -> BOOLEAN]
    /\ global_session \in [Workers -> Session]
    /\ pc \in [Workers -> {"ready", "list", "open_restore", "clear_restore", "segfault"}]
    /\ sesid \in [Workers -> 0..MaxSessions]
    /\ \A w \in Workers :
          pc[w] \in {"list", "open_restore", "clear_restore"} => sesid[w] \in SessionIds
    /\ creating \in [Workers -> [row : 1..(Len(Rows) + 1), last_sbas_id : Sbas \cup {0},
                                 connok : BOOLEAN, cache_base : Nat, bases : Seq(Base)]]
    /\ \A w \in Workers : creating[w].cache_base \in 0..Len(creating[w].bases)
    /\ up \in [SessionIds -> SUBSET Sbas]

\* The collections of a databox that it knows.
KnownIn(box) == {r \in Row : r.sbas_id = box /\ <<box, r.coll_id>> \in Colls}

\* The rows that are the first of a databox that answers.
Openings(rows, boxes) ==
    {i \in DOMAIN rows : /\ rows[i].sbas_id \in boxes
                         /\ \A j \in 1..(i - 1) : rows[j].sbas_id # rows[i].sbas_id}

\* What a session created while the databoxes `boxes' answered should list:
\* each of them once, in the order of the rows, with its known collections.
Published(rows, boxes) ==
    LET opening == Only([i \in DOMAIN rows |-> i], Openings(rows, boxes))
    IN  [k \in DOMAIN opening |->
            [sbas_id |-> rows[opening[k]].sbas_id,
             colls |-> Only(rows, KnownIn(rows[opening[k]].sbas_id))]]

\* Every session some worker holds or some row keeps.
Kept == {global_session[w] : w \in Workers} \cup {cache[s].session : s \in SessionIds}

\* ListedAsPublished: whoever created, opened or cleared it and whatever was
\* closed or died meanwhile, a session lists exactly the databoxes that
\* answered at its creation, each once and with its own collections, and a
\* row keeps the session of its own number.
ListedAsPublished ==
    /\ \A session \in Kept \ {NoSession} :
          session.bases = Published(Rows, up[session.session_id])
    /\ \A s \in SessionIds : cache[s].session.session_id \in {0, s}

\* CollsInTheirBase: a session lists a collection under its own databox:
\* CACHE_SESSION::connect() looks for a record where its collection is.
CollsInTheirBase ==
    \A session \in Kept :
        \A b \in DOMAIN session.bases :
            \A c \in DOMAIN session.bases[b].colls :
                session.bases[b].colls[c].sbas_id = session.bases[b].sbas_id
=============================================================================
