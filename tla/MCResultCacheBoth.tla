-------------------------- MODULE MCResultCacheBoth --------------------------
(***************************************************************************)
(* Two ways to call ResultCache in one instance.  Either one call at a time *)
(* writes, workers die and pages are read (the constants of the .cfg), or   *)
(* whatever writes overlaps, any fopen fails, and no page is read: the      *)
(* constants of Free.  The first step says which, and the invariants are    *)
(* those of both.                                                           *)
(***************************************************************************)
EXTENDS MCResultCache

VARIABLE calls

Free == INSTANCE ResultCache
            WITH Callers <- "free", MayFail <- {"answers", "spots"}, MaxQueries <- 2,
                 PageStarts <- NoStart

BothInit == Init /\ calls \in {"one_writer", "free"}

BothNext ==
    \/ calls = "one_writer" /\ Next /\ UNCHANGED calls
    \/ calls = "free" /\ Free!Next /\ UNCHANGED calls

BothSpec == BothInit /\ [][BothNext]_<<vars, calls>>
=============================================================================
