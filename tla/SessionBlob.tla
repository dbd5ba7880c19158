----------------------------- MODULE SessionBlob -----------------------------
(***************************************************************************)
(* The binary form in which CACHE_SESSION::save puts a session in the row   *)
(* of its number and from which CACHE_SESSION::restore makes it again:      *)
(* longs, and C strings padded with NULs up to a whole number of longs.     *)
(* get_binsize adds the sizes that the constructors computed, serialize_bin *)
(* moves by the sizes it wrote, unserialize_bin by those it recomputes with *)
(* strlen: the three must agree on every field.                             *)
(*                                                                         *)
(* The memory is a sequence of longs, each a number or PAD bytes of a       *)
(* string; a pointer is as long as a long.                                  *)
(***************************************************************************)
EXTENDS Integers, Sequences

CONSTANTS
    Saved,  \* sessions that may be saved
    PAD,    \* bytes of a pointer, and of a long
    NULL    \* a string that is not there

\* The strings of a databox and of a collection, in the order they are written.
BaseStrings == <<"viewname", "host", "user", "passwd", "dbname", "xmlstruct">>
CollStrings == <<"name", "prefs">>

\* What phrasea_open_session has read of the databases: C strings, or none.
CString == Seq(1..255) \cup {NULL}

CacheColl == [coll_id : Int, base_id : Int, name : CString, prefs : CString]

CacheBase == [base_id : Int, sbas_id : Int, viewname : CString, host : CString, port : Int,
              user : CString, passwd : CString, dbname : CString, xmlstruct : CString,
              colls : Seq(CacheColl)]

SessionsOK ==
    /\ PAD \in Nat \ {0}
    /\ Saved \subseteq [session_id : Int, bases : Seq(CacheBase)]

VARIABLES
    saved,     \* the session
    pc,        \* "size", "write", "read", "done"; "lost" if a string never ends
    binlen,    \* bytes of the buffer, all of which are sent
    bin,       \* the longs written
    base,      \* databoxes written or read
    coll,      \* collections of the last one written or read
    counter,   \* where the collections of the last one are counted
    p,         \* the next long to read
    toread,      \* collections of the last databox still to read
    restored   \* the session that is made again

vars == <<saved, pc, binlen, bin, base, coll, counter, p, toread, restored>>

Long(n)   == [n |-> n, bytes |-> << >>]
Text(seq) == [n |-> 0, bytes |-> seq]

\* LSTRPAD: room for the NUL, up to the next multiple of PAD.
LSTRPAD(l) == ((l + PAD) \div PAD) * PAD

\* The lengths in memory: PAD for a string that is not there.
lenPAD(s) == IF s = NULL THEN PAD ELSE LSTRPAD(Len(s))

\* The longs of a string.
LongsOf(s) ==
    LET l == IF s = NULL THEN 0 ELSE Len(s)
    IN  [k \in 1..(lenPAD(s) \div PAD) |->
            Text([i \in 1..PAD |-> LET n == (k - 1) * PAD + i IN IF n <= l THEN s[n] ELSE 0])]

Init ==
    /\ saved \in Saved
    /\ pc = "size"
    /\ binlen = 0
    /\ bin = << >>
    /\ base = 0 /\ coll = 0 /\ counter = 0
    /\ p = 1 /\ toread = 0
    /\ restored = [session_id |-> 0, bases |-> << >>]

-----------------------------------------------------------------------------
(* save                                                                    *)

\* The sum of f over 1..n.
Total(f, n) == LET upTo[k \in 0..n] == IF k = 0 THEN 0 ELSE upTo[k - 1] + f[k] IN upTo[n]

SizeOfStrings(x, names) ==
    Total([k \in DOMAIN names |-> lenPAD(x[names[k]])], Len(names))

\* CACHE_COLL, CACHE_BASE, CACHE_SESSION::get_binsize.
CollSize(c) == 2 * PAD + SizeOfStrings(c, CollStrings)

\* Mutant of BaseSize: the count of the collections is not counted.
BaseSizeShort(b) ==
    3 * PAD + SizeOfStrings(b, BaseStrings)
        + Total([j \in DOMAIN b.colls |-> CollSize(b.colls[j])], Len(b.colls))

BaseSize(b) ==
    4 * PAD + SizeOfStrings(b, BaseStrings)
        + Total([j \in DOMAIN b.colls |-> CollSize(b.colls[j])], Len(b.colls))

get_binsize(s) ==
    2 * PAD + Total([i \in DOMAIN s.bases |-> BaseSize(s.bases[i])], Len(s.bases))

\* The size is taken, then the number of the session and of databoxes written.
Size ==
    /\ pc = "size"
    /\ binlen' = get_binsize(saved)
    /\ bin' = <<Long(saved.session_id), Long(0)>>
    /\ pc' = "write"
    /\ UNCHANGED <<saved, base, coll, counter, p, toread, restored>>

AllCollsWritten == base > 0 => coll = Len(saved.bases[base].colls)

\* CACHE_BASE::serialize_bin.
WriteBase ==
    /\ pc = "write" /\ AllCollsWritten /\ base < Len(saved.bases)
    /\ LET b == saved.bases[base + 1]
           text(k) == LongsOf(b[BaseStrings[k]])
           more == <<Long(b.base_id), Long(b.sbas_id)>> \o text(1) \o text(2) \o <<Long(b.port)>>
                       \o text(3) \o text(4) \o text(5) \o text(6) \o <<Long(0)>>
       IN  /\ bin' = [bin EXCEPT ![2].n = @ + 1] \o more
           /\ counter' = Len(bin) + Len(more)
    /\ base' = base + 1
    /\ coll' = 0
    /\ UNCHANGED <<saved, pc, binlen, p, toread, restored>>

\* CACHE_COLL::serialize_bin, counted by the databox.
WriteColl ==
    /\ pc = "write" /\ ~AllCollsWritten
    /\ LET c == saved.bases[base].colls[coll + 1] IN
          bin' = [bin EXCEPT ![counter].n = @ + 1]
                     \o (<<Long(c.coll_id), Long(c.base_id)>> \o LongsOf(c.name) \o LongsOf(c.prefs))
    /\ coll' = coll + 1
    /\ UNCHANGED <<saved, pc, binlen, base, counter, p, toread, restored>>

\* What is sent is the buffer: what was written and the NULs that follow.
Send ==
    /\ pc = "write" /\ AllCollsWritten /\ base = Len(saved.bases)
    /\ pc' = "read"
    /\ base' = 0 /\ coll' = 0
    /\ p' = 3
    /\ restored' = [restored EXCEPT !.session_id = bin[1].n]
    /\ UNCHANGED <<saved, binlen, bin, counter, toread>>

-----------------------------------------------------------------------------
(* restore                                                                 *)

\* The bytes of a string before its NUL: up to PAD of them in each of its longs.
BytesBefore(long) ==
    CHOOSE l \in 0..PAD : /\ \A i \in 1..l : long.bytes[i] # 0
                          /\ l < PAD => long.bytes[l + 1] = 0

IsText(q) == q \in DOMAIN bin /\ bin[q].bytes # << >>

\* The last long of the string at q: the first with a NUL; 0 if there is none
\* before something else than a string.
LastLong(q) ==
    LET ends == {k \in DOMAIN bin : /\ k >= q /\ IsText(k) /\ BytesBefore(bin[k]) < PAD
                                    /\ \A j \in q..(k - 1) : IsText(j) /\ BytesBefore(bin[j]) = PAD}
    IN  IF ends = {} THEN 0 ELSE CHOOSE k \in ends : TRUE

\* strlen, or -1 if it leaves the strings.
strlen(q) ==
    LET k == LastLong(q) IN IF k = 0 THEN -1 ELSE (k - q) * PAD + BytesBefore(bin[k])

StringAt(q) ==
    [i \in 1..strlen(q) |-> bin[q + ((i - 1) \div PAD)].bytes[((i - 1) % PAD) + 1]]

\* Mutant of After: strlen is rounded up without the NUL.
AfterRounded(q) == q + ((strlen(q) + PAD - 1) \div PAD)

\* p after a string.
After(q) == q + (LSTRPAD(strlen(q)) \div PAD)

IsLong(q) == q \in DOMAIN bin /\ bin[q].bytes = << >>

\* One databox, up to the count of its collections.
ReadBase ==
    /\ pc = "read" /\ toread = 0 /\ base < bin[2].n
    /\ \E viewname \in {p + 2} :
       \E host     \in {After(viewname)} :
       \E port     \in {After(host)} :
       \E user     \in {port + 1} :
       \E passwd   \in {After(user)} :
       \E dbname   \in {After(passwd)} :
       \E xml      \in {After(dbname)} :
       \E ncoll    \in {After(xml)} :
           IF /\ \A q \in {viewname, host, user, passwd, dbname, xml} : strlen(q) >= 0
              /\ \A q \in {p, p + 1, port, ncoll} : IsLong(q)
           THEN /\ restored' = [restored EXCEPT !.bases = Append(@,
                        [base_id |-> bin[p].n, sbas_id |-> bin[p + 1].n,
                         viewname |-> StringAt(viewname), host |-> StringAt(host),
                         port |-> bin[port].n, user |-> StringAt(user),
                         passwd |-> StringAt(passwd), dbname |-> StringAt(dbname),
                         xmlstruct |-> StringAt(xml), colls |-> << >>])]
                /\ toread' = bin[ncoll].n
                /\ p' = ncoll + 1
                /\ UNCHANGED pc
           ELSE pc' = "lost" /\ UNCHANGED <<restored, toread, p>>
    /\ base' = base + 1
    /\ UNCHANGED <<saved, binlen, bin, coll, counter>>

ReadColl ==
    /\ pc = "read" /\ toread > 0
    /\ \E name \in {p + 2} : \E prefs \in {After(name)} :
           IF strlen(name) >= 0 /\ strlen(prefs) >= 0 /\ IsLong(p) /\ IsLong(p + 1)
           THEN /\ restored' = [restored EXCEPT !.bases[base].colls = Append(@,
                        [coll_id |-> bin[p].n, base_id |-> bin[p + 1].n,
                         name |-> StringAt(name), prefs |-> StringAt(prefs)])]
                /\ toread' = toread - 1
                /\ p' = After(prefs)
                /\ UNCHANGED pc
           ELSE pc' = "lost" /\ UNCHANGED <<restored, toread, p>>
    /\ UNCHANGED <<saved, binlen, bin, base, coll, counter>>

End ==
    /\ pc = "read" /\ toread = 0 /\ base = bin[2].n
    /\ pc' = "done"
    /\ UNCHANGED <<saved, binlen, bin, base, coll, counter, p, toread, restored>>

Next == Size \/ WriteBase \/ WriteColl \/ Send \/ ReadBase \/ ReadColl \/ End

Spec == Init /\ [][Next]_vars

-----------------------------------------------------------------------------
(* Properties                                                              *)

\* A string that was not there comes back empty.
Same(s) == IF s = NULL THEN << >> ELSE s

ImageOfColl(c) == [c EXCEPT !.name = Same(@), !.prefs = Same(@)]

ImageOfBase(b) ==
    [b EXCEPT !.viewname = Same(@), !.host = Same(@), !.user = Same(@), !.passwd = Same(@),
              !.dbname = Same(@), !.xmlstruct = Same(@),
              !.colls = [j \in DOMAIN b.colls |-> ImageOfColl(b.colls[j])]]

Image ==
    [saved EXCEPT !.bases = [i \in DOMAIN saved.bases |-> ImageOfBase(saved.bases[i])]]

\* RestoredAsSaved: get_binsize, serialize_bin and unserialize_bin agree: the buffer
\* holds what is written in it and nothing more is sent, and the session read
\* from the row is the one that was saved, to be saved again in as many bytes.
RestoredAsSaved ==
    /\ pc # "size" => Len(bin) * PAD <= binlen
    /\ pc \in {"read", "done"} => Len(bin) * PAD = binlen
    /\ pc # "lost"
    /\ pc = "done" => restored = Image /\ get_binsize(restored) = binlen
=============================================================================
