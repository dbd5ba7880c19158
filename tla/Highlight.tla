------------------------------ MODULE Highlight ------------------------------
(***************************************************************************)
(* The marks phrasea_fetch_results puts around the words found in the XML  *)
(* of a record.  Two marks are made of each spot of the answer (the       *)
(* records of the spots file: an offset and a length in bytes), sorted by   *)
(* exchanges from the last offset to the first, and inserted in this        *)
(* order, so that an insertion does not move the offsets still to come.     *)
(*                                                                         *)
(* The text is its positions 1..n, so that no two characters are taken for  *)
(* one another; the buffer ends with the NUL of the C string.  The bytes of  *)
(* the marks are negative: none is a NUL.                                    *)
(***************************************************************************)
EXTENDS Integers, Sequences, FiniteSets, Selection

CONSTANTS
    Inputs,   \* [length, spots, markin, markout]: the XML fetched, the spots
              \* found when it was searched, the arguments
    NoMark    \* a mark that was not given

NUL     == 0
Opening == -1
Closing == -2

MarkBytes == {b \in Int : b < 0}

\* What the arguments are.
IsInput(i) ==
    /\ i.length \in Nat
    /\ i.spots \in Seq([start : Nat, len : Nat])
    /\ i.markin = NoMark \/ i.markin \in Seq(MarkBytes)
    /\ i.markout = NoMark \/ i.markout \in Seq(MarkBytes)

VARIABLES
    input,
    pc,      \* "fill", "sort", "insert", "done"; "fault" for a wild memmove
    xml,     \* the buffer, xmlsize bytes of which are used
    h,       \* the marks (HBAL)
    s, ss    \* indices of the loops, from 1

vars == <<input, pc, xml, h, s, ss>>

nspots  == Len(input.spots)
xmlsize == Len(xml)

\* The text of a record and its NUL.
TextOf(n) == [k \in 1..(n + 1) |-> IF k <= n THEN k ELSE NUL]

Init ==
    /\ input \in Inputs /\ IsInput(input)
    /\ pc = "fill"
    /\ xml = TextOf(input.length)
    /\ h = << >>
    /\ s = 1
    /\ ss = 2

-----------------------------------------------------------------------------
\* Mutant of EndOf: the mark falls before the last byte of the word.
EndOfShort(spot) == spot.start + spot.len - 1

EndOf(spot) == spot.start + spot.len

\* h[s * 2] and h[s * 2 + 1].
MarksOf(spots) ==
    [k \in 1..(2 * Len(spots)) |->
        LET spot == spots[(k + 1) \div 2]
        IN  IF k % 2 = 1 THEN [offset |-> spot.start, closing |-> FALSE]
            ELSE [offset |-> EndOf(spot), closing |-> TRUE]]

\* There is something to mark, and both marks were given.
Fill ==
    /\ pc = "fill"
    /\ IF nspots > 0 /\ input.markin # NoMark /\ input.markout # NoMark
       THEN h' = MarksOf(input.spots) /\ pc' = "sort"
       ELSE UNCHANGED h /\ pc' = "done"
    /\ UNCHANGED <<input, xml, s, ss>>

\* Mutant of Later: the marks from the first to the last.
LaterAscending(a, b) == a.offset < b.offset

Later(a, b) == a.offset > b.offset

\* One comparison of the double loop: h[s] against h[ss], ss after s.
Compare ==
    /\ pc = "sort"
    /\ h' = IF Later(h[ss], h[s]) THEN [h EXCEPT ![s] = h[ss], ![ss] = h[s]] ELSE h
    /\ IF ss < 2 * nspots THEN ss' = ss + 1 /\ UNCHANGED <<s, pc>>
       ELSE IF s + 1 < 2 * nspots THEN s' = s + 1 /\ ss' = s + 2 /\ UNCHANGED pc
       ELSE s' = 1 /\ ss' = 2 /\ pc' = "insert"
    /\ UNCHANGED <<input, xml>>

\* Mutant of Splice: the tail that is moved is that of the text without marks.
SpliceStale(offset, mark) ==
    SubSeq(xml, 1, offset) \o mark \o SubSeq(xml, offset + 1, input.length + 1)

\* memmove of what follows the offset, memcpy of the mark.
Splice(offset, mark) ==
    SubSeq(xml, 1, offset) \o mark \o SubSeq(xml, offset + 1, xmlsize)

\* One turn of the loop over the marks.  xmlsize - offset is unsigned.
Insert ==
    /\ pc = "insert"
    /\ LET mark == IF h[s].closing THEN input.markout ELSE input.markin IN
          IF mark = << >> \/ h[s].offset <= xmlsize
          THEN /\ xml' = IF mark = << >> THEN xml ELSE Splice(h[s].offset, mark)
               /\ s' = s + 1
               /\ pc' = IF s = 2 * nspots THEN "done" ELSE "insert"
          ELSE pc' = "fault" /\ UNCHANGED <<xml, s>>
    /\ UNCHANGED <<input, h, ss>>

Next == Fill \/ Compare \/ Insert

Spec == Init /\ [][Next]_vars

-----------------------------------------------------------------------------
(* Properties                                                              *)

TypeOK ==
    /\ IsInput(input)
    /\ pc \in {"fill", "sort", "insert", "done", "fault"}
    /\ pc = "fill" => s = 1 /\ ss = 2
    /\ pc \in {"sort", "insert"} =>
          /\ input.markin # NoMark /\ input.markout # NoMark
          /\ h \in [1..(2 * nspots) -> [offset : Nat, closing : BOOLEAN]]
          /\ nspots > 0
    /\ pc = "sort" => s \in 1..(2 * nspots - 1) /\ ss \in (s + 1)..(2 * nspots)
    /\ pc = "insert" => s \in 1..(2 * nspots)
    /\ xml \in Seq(Int)

\* The record has not become shorter than its spots since the search.
Fresh == \A i \in DOMAIN input.spots :
             input.spots[i].start + input.spots[i].len <= input.length

\* The comparisons made so far: the marks before s are the last ones, in order.
SortedSoFar ==
    /\ pc = "sort" =>
          /\ \A i \in 1..(s - 1), j \in 1..(2 * nspots) : i < j => h[i].offset >= h[j].offset
          /\ \A j \in (s + 1)..(ss - 1) : h[s].offset >= h[j].offset
    /\ pc = "insert" =>
          \A i, j \in 1..(2 * nspots) : i < j => h[i].offset >= h[j].offset

InText == Fresh /\ pc \in {"sort", "insert"} =>
              \A i \in 1..(2 * nspots) : h[i].offset <= input.length

\* What stands before the place of the next mark is the text as it was indexed,
\* with nothing inserted: the mark goes where the spot says.
PlaceKept ==
    /\ xmlsize > input.length
    /\ pc \in {"fill", "sort"} => xml = TextOf(input.length)
    /\ Fresh /\ pc = "insert" => \A k \in 1..h[s].offset : xml[k] = k

\* HighlightInv: the marks are inserted from the last to the first, each at the
\* place its spot had in the text alone; while the record is not shorter than
\* it was, no memmove starts after the end of the text, where xmlsize -
\* offset would wrap around.
HighlightInv == TypeOK /\ SortedSoFar /\ InText /\ PlaceKept /\ (Fresh => pc # "fault")

\* The string given to PHP ends at the first NUL, if the buffer has one.
Shown ==
    LET nuls == {k \in DOMAIN xml : xml[k] = NUL /\ \A j \in 1..(k - 1) : xml[j] # NUL}
    IN  IF nuls = {} THEN xml ELSE SubSeq(xml, 1, (CHOOSE k \in nuls : TRUE) - 1)

Marked == input.markin # NoMark /\ input.markout # NoMark

\* The bytes the buffer has room for.
Room == input.length + 1 + IF Marked THEN nspots * (Len(input.markin) + Len(input.markout))
                           ELSE 0

\* TextKept: the buffer is large enough at each step, and the XML shown is,
\* without its marks, the XML of the record.
TextKept ==
    /\ xmlsize <= Room
    /\ Fresh /\ pc = "done" =>
          Only(Shown, Nat \ {0}) = [k \in 1..input.length |-> k]

\* The elements of a set among the first k.
Count(seq, k, S) == Cardinality({j \in 1..k : seq[j] \in S})

\* The marks open after k bytes of a text.
Depth(text, k) == Count(text, k, {Opening}) - Count(text, k, {Closing})

Holds(mark, byte) == Count(mark, Len(mark), {byte}) = 1

Lacks(mark, byte) == Count(mark, Len(mark), {byte}) = 0

\* The marks were given and are told from one another by the byte each has once.
ToldApart ==
    /\ Marked
    /\ Holds(input.markin, Opening) /\ Lacks(input.markin, Closing)
    /\ Holds(input.markout, Closing) /\ Lacks(input.markout, Opening)

\* A word has a byte.
Worded == \A i \in DOMAIN input.spots : input.spots[i].len > 0

\* MarksNest: whatever the order of the spots in the cache, and even if two of them
\* touch or overlap, every mark that opens is closed, none is closed before it is
\* opened, and the bytes between marks are those of the spots.
MarksNest ==
    pc = "done" /\ Fresh /\ ToldApart /\ Worded =>
        LET text == Shown IN
        /\ \A k \in 0..Len(text) : Depth(text, k) >= 0
        /\ Depth(text, Len(text)) = 0
        /\ \A k \in DOMAIN text : text[k] > 0 =>
              (Depth(text, k) > 0 <=> \E i \in DOMAIN input.spots :
                                         /\ input.spots[i].start < text[k]
                                         /\ text[k] <= EndOf(input.spots[i]))
=============================================================================
