---------------------------- MODULE HighlightProofs ----------------------------
(***************************************************************************)
(* Theorems about the marks of a page, for a text of any length, any spots  *)
(* and any marks: the sort by exchanges and the insertions keep              *)
(* HighlightInv, which is inductive, and with it the text.                   *)
(***************************************************************************)
EXTENDS Highlight, SequenceTheorems, FiniteSetTheorems, RecursionLemmas, TLAPS

-----------------------------------------------------------------------------
(* The operators                                                           *)

\* The buffer before anything is inserted.
LEMMA TextOfIs ==
    ASSUME NEW n \in Nat
    PROVE  /\ TextOf(n) \in Seq(Int)
           /\ Len(TextOf(n)) = n + 1
           /\ \A k \in 1..n : TextOf(n)[k] = k
<1>1. TextOf(n) \in [1..(n + 1) -> Int]
    BY DEF TextOf, NUL
<1> QED
    BY <1>1 DEF TextOf

\* Two marks of each spot; in a fresh text none is past the end.
LEMMA MarksOfIs ==
    ASSUME NEW spots \in Seq([start : Nat, len : Nat])
    PROVE  /\ MarksOf(spots) \in [1..(2 * Len(spots)) -> [offset : Nat, closing : BOOLEAN]]
           /\ \A n \in Nat : (\A i \in DOMAIN spots : spots[i].start + spots[i].len <= n) =>
                 \A k \in 1..(2 * Len(spots)) : MarksOf(spots)[k].offset <= n
<1>1. \A k \in 1..(2 * Len(spots)) : (k + 1) \div 2 \in 1..Len(spots)
    OBVIOUS
<1>2. DOMAIN spots = 1..Len(spots) /\ spots \in [1..Len(spots) -> [start : Nat, len : Nat]]
    BY LenProperties
<1>3. \A i \in 1..Len(spots) : spots[i].start \in Nat /\ spots[i].len \in Nat
    BY <1>2
<1>4. ASSUME NEW k \in 1..(2 * Len(spots))
      PROVE  /\ MarksOf(spots)[k] \in [offset : Nat, closing : BOOLEAN]
             /\ \A n \in Nat : (\A i \in DOMAIN spots : spots[i].start + spots[i].len <= n) =>
                   MarksOf(spots)[k].offset <= n
    <2> DEFINE spot == spots[(k + 1) \div 2]
    <2>1. spot.start \in Nat /\ spot.len \in Nat
        BY <1>1, <1>3
    <2>2. MarksOf(spots)[k] = IF k % 2 = 1 THEN [offset |-> spot.start, closing |-> FALSE]
                              ELSE [offset |-> spot.start + spot.len, closing |-> TRUE]
        BY DEF MarksOf, EndOf
    <2>3. (k + 1) \div 2 \in DOMAIN spots
        BY <1>1, <1>2
    <2> HIDE DEF spot
    <2>4. MarksOf(spots)[k] \in [offset : Nat, closing : BOOLEAN]
        BY <2>1, <2>2
    <2>5. MarksOf(spots)[k].offset <= spot.start + spot.len
        BY <2>1, <2>2
    <2>6. MarksOf(spots)[k].offset \in Nat
        BY <2>4
    <2>7. ASSUME NEW n \in Nat, \A i \in DOMAIN spots : spots[i].start + spots[i].len <= n
          PROVE  MarksOf(spots)[k].offset <= n
        <3>1. spot.start + spot.len <= n
            BY <2>3, <2>7 DEF spot
        <3> QED
            BY <2>1, <2>5, <2>6, <3>1
    <2> QED
        BY <2>4, <2>7
<1> QED
    BY <1>4 DEF MarksOf

LEMMA ThreeParts ==
    ASSUME NEW a \in Seq(Int), NEW b \in Seq(Int), NEW c \in Seq(Int)
    PROVE  /\ (a \o b) \o c \in Seq(Int)
           /\ Len((a \o b) \o c) = (Len(a) + Len(b)) + Len(c)
           /\ \A k \in 1..Len(a) : ((a \o b) \o c)[k] = a[k]
<1>1. /\ a \o b \in Seq(Int)
      /\ Len(a \o b) = Len(a) + Len(b)
      /\ \A k \in 1..(Len(a) + Len(b)) :
            (a \o b)[k] = IF k <= Len(a) THEN a[k] ELSE b[k - Len(a)]
    BY ConcatProperties
<1> DEFINE d == a \o b
<1>2. d \in Seq(Int)
    BY <1>1
<1> HIDE DEF d
<1>3. /\ d \o c \in Seq(Int)
      /\ Len(d \o c) = Len(d) + Len(c)
      /\ \A k \in 1..(Len(d) + Len(c)) :
            (d \o c)[k] = IF k <= Len(d) THEN d[k] ELSE c[k - Len(d)]
    BY <1>2, ConcatProperties
<1>4. Len(a) \in Nat /\ Len(b) \in Nat /\ Len(c) \in Nat
    OBVIOUS
<1> QED
    BY <1>1, <1>3, <1>4 DEF d

\* What memmove and memcpy make of the buffer.
LEMMA SpliceIs ==
    ASSUME xml \in Seq(Int), NEW offset \in Nat, offset <= xmlsize, NEW mark \in Seq(Int)
    PROVE  /\ Splice(offset, mark) \in Seq(Int)
           /\ Len(Splice(offset, mark)) = xmlsize + Len(mark)
           /\ \A k \in 1..offset : Splice(offset, mark)[k] = xml[k]
<1> DEFINE before == SubSeq(xml, 1, offset)
           after == SubSeq(xml, offset + 1, xmlsize)
<1>1. xmlsize = Len(xml) /\ xmlsize \in Nat
    BY DEF xmlsize
<1>2. before \in Seq(Int) /\ Len(before) = offset /\ \A k \in 1..offset : before[k] = xml[k]
    BY <1>1, SubSeqProperties
<1>3. after \in Seq(Int) /\ Len(after) = xmlsize - offset
    <2>1. \A i \in (offset + 1)..xmlsize : xml[i] \in Int
        BY <1>1
    <2>2. after \in Seq(Int) /\ Len(after) = IF offset + 1 <= xmlsize THEN xmlsize - (offset + 1) + 1 ELSE 0
        BY <1>1, <2>1, SubSeqProperties
    <2> QED
        BY <1>1, <2>2
<1> HIDE DEF before, after
<1>4. Splice(offset, mark) = (before \o mark) \o after
    BY DEF Splice, before, after
<1>5. Len(mark) \in Nat /\ Len(after) \in Nat
    BY <1>3
<1>6. /\ (before \o mark) \o after \in Seq(Int)
      /\ Len((before \o mark) \o after) = (offset + Len(mark)) + (xmlsize - offset)
      /\ \A k \in 1..offset : ((before \o mark) \o after)[k] = before[k]
    <2>1. before \in Seq(Int) /\ after \in Seq(Int)
        BY <1>2, <1>3
    <2>2. /\ (before \o mark) \o after \in Seq(Int)
          /\ Len((before \o mark) \o after) = (Len(before) + Len(mark)) + Len(after)
          /\ \A k \in 1..Len(before) : ((before \o mark) \o after)[k] = before[k]
        BY <2>1, ThreeParts
    <2> QED
        BY <1>2, <1>3, <2>2
<1> QED
    BY <1>1, <1>2, <1>4, <1>5, <1>6

-----------------------------------------------------------------------------
(* The steps                                                               *)

LEMMA InitHighlight == Init => HighlightInv
<1> SUFFICES ASSUME Init PROVE HighlightInv
    OBVIOUS
<1>1. input.length \in Nat
    BY DEF Init, IsInput
<1>2. xml = TextOf(input.length) /\ xml \in Seq(Int) /\ Len(xml) = input.length + 1
    BY <1>1, TextOfIs DEF Init
<1>3. TypeOK
    BY <1>2 DEF Init, TypeOK
<1>4. SortedSoFar /\ InText /\ (Fresh => pc # "fault")
    BY DEF Init, SortedSoFar, InText
<1>5. PlaceKept
    BY <1>1, <1>2 DEF Init, PlaceKept, xmlsize
<1> QED
    BY <1>3, <1>4, <1>5 DEF HighlightInv

LEMMA FillHighlight == HighlightInv /\ Fill => HighlightInv'
<1> SUFFICES ASSUME HighlightInv, Fill PROVE HighlightInv'
    OBVIOUS
<1>1. pc = "fill" /\ UNCHANGED <<input, xml, s, ss>> /\ s = 1 /\ ss = 2
    BY DEF Fill, HighlightInv, TypeOK
<1>2. input.spots \in Seq([start : Nat, len : Nat]) /\ input.length \in Nat
    BY DEF HighlightInv, TypeOK, IsInput
<1>3. nspots \in Nat /\ nspots' = nspots /\ nspots = Len(input.spots)
    BY <1>1, <1>2 DEF nspots
<1>4. CASE nspots > 0 /\ input.markin # NoMark /\ input.markout # NoMark
    <2>1. h' = MarksOf(input.spots) /\ pc' = "sort"
        BY <1>4 DEF Fill
    <2>2. h' \in [1..(2 * nspots) -> [offset : Nat, closing : BOOLEAN]]
        BY <1>2, <1>3, <2>1, MarksOfIs
    <2>3. TypeOK'
        BY <1>1, <1>3, <1>4, <2>1, <2>2 DEF HighlightInv, TypeOK, IsInput
    <2>4. SortedSoFar'
        BY <1>1, <2>1 DEF SortedSoFar
    <2>5. Fresh => \A k \in 1..(2 * nspots) : h'[k].offset <= input.length
        BY <1>2, <1>3, <2>1, MarksOfIs DEF Fresh
    <2>6. InText'
        BY <1>1, <1>3, <2>1, <2>5 DEF InText, Fresh
    <2>7. PlaceKept'
        BY <1>1, <2>1 DEF HighlightInv, PlaceKept, xmlsize
    <2> QED
        BY <2>1, <2>3, <2>4, <2>6, <2>7 DEF HighlightInv
<1>5. CASE ~(nspots > 0 /\ input.markin # NoMark /\ input.markout # NoMark)
    <2>1. h' = h /\ pc' = "done"
        BY <1>5 DEF Fill
    <2> QED
        BY <1>1, <2>1 DEF HighlightInv, TypeOK, IsInput, SortedSoFar, InText, PlaceKept, xmlsize
<1> QED
    BY <1>4, <1>5

\* Once the marks up to ss are compared with h[s], the loop may go on.
LEMMA SortStep ==
    ASSUME HighlightInv, Compare,
           h' \in [1..(2 * nspots) -> [offset : Nat, closing : BOOLEAN]],
           \A i \in 1..(s - 1), j \in 1..(2 * nspots) : i < j => h'[i].offset >= h'[j].offset,
           \A j \in (s + 1)..ss : h'[s].offset >= h'[j].offset,
           InText => (Fresh => \A i \in 1..(2 * nspots) : h'[i].offset <= input.length)
    PROVE  HighlightInv'
<1> DEFINE n == 2 * nspots
<1>1. /\ pc = "sort" /\ UNCHANGED <<input, xml>> /\ nspots > 0
      /\ s \in 1..(n - 1) /\ ss \in (s + 1)..n /\ s \in Int /\ ss \in Int
    BY DEF Compare, HighlightInv, TypeOK
<1>2. n \in Nat /\ nspots' = nspots /\ n = 2 * nspots
    BY <1>1 DEF nspots, HighlightInv, TypeOK, IsInput
<1>3. \A i \in 1..(s - 1), j \in 1..n : i < j => h'[i].offset >= h'[j].offset
    BY <1>2
<1>4. InText'
    BY <1>1, <1>2 DEF HighlightInv, InText, Fresh, n
<1> HIDE DEF n
<1>5. /\ pc' \in {"sort", "insert"}
      /\ pc' = "sort" => s' \in 1..(n - 1) /\ ss' \in (s' + 1)..n
      /\ pc' = "insert" => s' = 1
    BY <1>1, <1>2 DEF Compare
<1>8. TypeOK'
    <2>1. h' \in [1..n -> [offset : Nat, closing : BOOLEAN]] /\ 1 \in 1..n
        BY <1>1, <1>2
    <2> QED
        BY <1>1, <1>2, <1>5, <2>1 DEF HighlightInv, TypeOK, IsInput
<1>6. SortedSoFar'
    <2>1. CASE ss < n
        BY <1>1, <1>2, <1>3, <2>1, SMTT(30) DEF Compare, SortedSoFar
    <2>2. CASE ~(ss < n)
        <3>1. \A i \in 1..s, j \in 1..n : i < j => h'[i].offset >= h'[j].offset
            BY <1>1, <1>2, <1>3, <2>2
        <3> QED
            BY <1>1, <1>2, <2>2, <3>1, SMTT(30) DEF Compare, SortedSoFar
    <2> QED
        BY <2>1, <2>2
<1>7. PlaceKept'
    <2>1. xml = TextOf(input.length) /\ input.length \in Nat /\ xmlsize > input.length
        BY <1>1 DEF HighlightInv, TypeOK, PlaceKept, IsInput
    <2>2. ASSUME Fresh, pc' = "insert" PROVE \A k \in 1..h'[1].offset : xml[k] = k
        <3>1. 1 \in 1..n /\ h'[1] \in [offset : Nat, closing : BOOLEAN]
            BY <1>1, <1>2
        <3>2. h'[1].offset \in Nat
            BY <3>1
        <3>3. h'[1].offset <= input.length
            BY <1>2, <2>2, <3>1 DEF HighlightInv
        <3>4. \A k \in 1..input.length : xml[k] = k
            BY <2>1, TextOfIs
        <3> QED
            BY <2>1, <3>2, <3>3, <3>4
    <2> QED
        BY <1>1, <1>5, <2>1, <2>2 DEF PlaceKept, Fresh, xmlsize
<1>9. (Fresh => pc # "fault")'
    BY <1>5
<1> QED
    BY <1>4, <1>6, <1>7, <1>8, <1>9 DEF HighlightInv

\* An exchange keeps what stands before s, and makes h[s] no less than h[ss].
LEMMA CompareHighlight == HighlightInv /\ Compare => HighlightInv'
<1> SUFFICES ASSUME HighlightInv, Compare PROVE HighlightInv'
    OBVIOUS
<1> DEFINE n == 2 * nspots
<1>1. /\ pc = "sort" /\ UNCHANGED <<input, xml>>
      /\ s \in 1..(n - 1) /\ ss \in (s + 1)..n
      /\ h \in [1..n -> [offset : Nat, closing : BOOLEAN]]
    BY DEF Compare, HighlightInv, TypeOK
<1>2. n \in Nat /\ nspots' = nspots
    BY <1>1 DEF nspots, HighlightInv, TypeOK, IsInput
<1> HIDE DEF n
<1>3. \A i \in 1..n : h[i].offset \in Nat
    BY <1>1
<1>4. /\ \A i \in 1..(s - 1), j \in 1..n : i < j => h[i].offset >= h[j].offset
      /\ \A j \in (s + 1)..(ss - 1) : h[s].offset >= h[j].offset
    BY <1>1 DEF HighlightInv, SortedSoFar, n
<1>5. s \in 1..n /\ ss \in 1..n /\ s < ss
    BY <1>1, <1>2
<1>6. CASE h[ss].offset > h[s].offset
    <2>1. h' = [h EXCEPT ![s] = h[ss], ![ss] = h[s]]
        BY <1>6 DEF Compare, Later
    <2>2. h[s] \in [offset : Nat, closing : BOOLEAN] /\ h[ss] \in [offset : Nat, closing : BOOLEAN]
        BY <1>1, <1>5
    <2>3. h' \in [1..n -> [offset : Nat, closing : BOOLEAN]]
        BY <1>1, <1>5, <2>1, <2>2
    <2>4. /\ h'[s] = h[ss] /\ h'[ss] = h[s]
          /\ \A i \in 1..n : i # s /\ i # ss => h'[i] = h[i]
        BY <1>1, <1>5, <2>1
    <2>5. \A i \in 1..(s - 1), j \in 1..n : i < j => h'[i].offset >= h'[j].offset
        <3> SUFFICES ASSUME NEW i \in 1..(s - 1), NEW j \in 1..n, i < j
                     PROVE  h'[i].offset >= h'[j].offset
            OBVIOUS
        <3>1. h'[i] = h[i] /\ i < s /\ i < ss /\ i \in 1..n
            BY <1>2, <1>5, <2>4
        <3>2. h[i].offset >= h[s].offset /\ h[i].offset >= h[ss].offset /\ h[i].offset >= h[j].offset
            BY <1>4, <1>5, <3>1
        <3> QED
            BY <2>4, <3>1, <3>2
    <2>6. \A j \in (s + 1)..ss : h'[s].offset >= h'[j].offset
        <3> SUFFICES ASSUME NEW j \in (s + 1)..ss PROVE h'[s].offset >= h'[j].offset
            OBVIOUS
        <3>1. CASE j = ss
            BY <1>3, <1>5, <1>6, <2>4, <3>1
        <3>2. CASE j # ss
            <4>1. j \in (s + 1)..(ss - 1) /\ j \in 1..n /\ j # s
                BY <1>2, <1>5, <3>2
            <4>2. h[s].offset >= h[j].offset /\ h'[j] = h[j]
                BY <1>4, <2>4, <3>2, <4>1
            <4> QED
                BY <1>3, <1>5, <1>6, <2>4, <4>1, <4>2
        <3> QED
            BY <3>1, <3>2
    <2>7. InText => (Fresh => \A i \in 1..n : h'[i].offset <= input.length)
        BY <1>1, <1>5, <2>4 DEF InText, n
    <2> QED
        BY <2>3, <2>5, <2>6, <2>7, SortStep, <1>1 DEF n
<1>7. CASE ~(h[ss].offset > h[s].offset)
    <2>1. h' = h
        BY <1>7 DEF Compare, Later
    <2>2. \A j \in (s + 1)..ss : h[s].offset >= h[j].offset
        BY <1>3, <1>4, <1>5, <1>7
    <2>3. InText => (Fresh => \A i \in 1..n : h[i].offset <= input.length)
        BY <1>1 DEF InText, n
    <2> QED
        BY <1>1, <1>4, <2>1, <2>2, <2>3, SortStep DEF n
<1> QED
    BY <1>6, <1>7

\* The place of a mark stands before those of the marks already inserted.
LEMMA InsertHighlight == HighlightInv /\ Insert => HighlightInv'
<1> SUFFICES ASSUME HighlightInv, Insert PROVE HighlightInv'
    OBVIOUS
<1> DEFINE n == 2 * nspots
           mark == IF h[s].closing THEN input.markout ELSE input.markin
<1>1. /\ pc = "insert" /\ UNCHANGED <<input, h, ss>> /\ nspots > 0
      /\ s \in 1..n /\ xml \in Seq(Int)
      /\ h \in [1..n -> [offset : Nat, closing : BOOLEAN]]
    BY DEF Insert, HighlightInv, TypeOK
<1>2. n \in Nat /\ nspots' = nspots /\ n = 2 * nspots
    BY <1>1 DEF nspots, HighlightInv, TypeOK, IsInput
<1>3. input.length \in Nat /\ mark \in Seq(Int)
    <2>1. input.length \in Nat /\ mark \in Seq(MarkBytes)
        BY <1>1 DEF HighlightInv, TypeOK, IsInput
    <2>2. MarkBytes \subseteq Int
        BY DEF MarkBytes
    <2> QED
        BY <2>1, <2>2, SeqSubset
<1>4. h[s].offset \in Nat
    BY <1>1
<1>5. xmlsize \in Nat /\ xmlsize > input.length
    BY <1>1 DEF xmlsize, HighlightInv, PlaceKept
<1>6. /\ \A i, j \in 1..n : i < j => h[i].offset >= h[j].offset
      /\ Fresh => \A i \in 1..n : h[i].offset <= input.length
      /\ Fresh => \A k \in 1..h[s].offset : xml[k] = k
    BY <1>1 DEF HighlightInv, SortedSoFar, InText, PlaceKept
<1> HIDE DEF n, mark
<1>7. CASE mark = << >> \/ h[s].offset <= xmlsize
    <2>1. /\ xml' = IF mark = << >> THEN xml ELSE Splice(h[s].offset, mark)
          /\ s' = s + 1
          /\ pc' = IF s = n THEN "done" ELSE "insert"
        BY <1>7 DEF Insert, n, mark
    <2>2. /\ xml' \in Seq(Int) /\ Len(xml') >= xmlsize
          /\ \A k \in 1..h[s].offset : xml'[k] = xml[k]
        <3>1. CASE mark = << >>
            BY <1>1, <1>5, <2>1, <3>1 DEF xmlsize
        <3>2. CASE mark # << >>
            <4>1. /\ Splice(h[s].offset, mark) \in Seq(Int)
                  /\ Len(Splice(h[s].offset, mark)) = xmlsize + Len(mark)
                  /\ \A k \in 1..h[s].offset : Splice(h[s].offset, mark)[k] = xml[k]
                BY <1>1, <1>3, <1>4, <1>7, <3>2, SpliceIs
            <4>2. Len(mark) \in Nat
                BY <1>3
            <4> QED
                BY <1>5, <2>1, <3>2, <4>1, <4>2
        <3> QED
            BY <3>1, <3>2
    <2>3. ASSUME pc' = "insert"
          PROVE  s' \in 1..n /\ h[s'].offset <= h[s].offset /\ h[s'].offset \in Nat
        <3>1. s' \in 1..n /\ s < s'
            BY <1>1, <1>2, <2>1, <2>3
        <3>2. h[s'] \in [offset : Nat, closing : BOOLEAN]
            BY <1>1, <3>1
        <3>3. h[s'].offset \in Nat
            BY <3>2
        <3> QED
            BY <1>1, <1>4, <1>6, <3>1, <3>3
    <2>4. TypeOK'
        BY <1>1, <1>2, <2>1, <2>2, <2>3 DEF HighlightInv, TypeOK, IsInput
    <2>5. SortedSoFar' /\ InText'
        BY <1>1, <1>2, <1>6, <2>1 DEF SortedSoFar, InText, Fresh
    <2>6. PlaceKept'
        <3>1. (xmlsize > input.length)'
            BY <1>1, <1>3, <1>5, <2>2 DEF xmlsize
        <3>2. ASSUME Fresh, pc' = "insert" PROVE \A k \in 1..h[s'].offset : xml'[k] = k
            BY <1>4, <1>6, <2>2, <2>3, <3>2
        <3> QED
            BY <1>1, <2>1, <3>1, <3>2 DEF PlaceKept, Fresh
    <2> QED
        BY <2>1, <2>4, <2>5, <2>6 DEF HighlightInv
<1>8. CASE ~(mark = << >> \/ h[s].offset <= xmlsize)
    <2>1. pc' = "fault" /\ UNCHANGED <<xml, s>>
        BY <1>8 DEF Insert, mark
    <2>2. ~Fresh
        BY <1>1, <1>3, <1>4, <1>5, <1>6, <1>8
    <2> QED
        BY <1>1, <1>2, <1>5, <2>1, <2>2
        DEF HighlightInv, TypeOK, IsInput, SortedSoFar, InText, PlaceKept, Fresh, xmlsize
<1> QED
    BY <1>7, <1>8

LEMMA StutterHighlight == HighlightInv /\ UNCHANGED vars => HighlightInv'
BY DEF vars, HighlightInv, TypeOK, IsInput, SortedSoFar, InText, PlaceKept, Fresh, xmlsize, nspots

-----------------------------------------------------------------------------
(* TextKept                                                                *)

\* The bytes of the record, and those that do not end a string.
Kept   == Nat \ {0}
NonNul == Int \ {0}

Letters(n) == [k \in 1..n |-> k]

\* The marks, and those that open or close.
Mark   == [offset : Nat, closing : BOOLEAN]
Opens  == {m \in Mark : ~m.closing}
Closes == {m \in Mark : m.closing}

\* The buffer is a string, and that of the record but for the marks.
StringKept ==
    Fresh => \E t \in Seq(NonNul) : xml = t \o <<NUL>> /\ Only(t, Kept) = Letters(input.length)

\* The sort loses none of the marks.
Permuted ==
    pc \in {"sort", "insert"} =>
        \A S : Count(h, 2 * nspots, S) = Count(MarksOf(input.spots), 2 * nspots, S)

\* What the marks before the k-th take.
Taken(k) ==
    Count(h, k - 1, Opens) * Len(input.markin) + Count(h, k - 1, Closes) * Len(input.markout)

Sized == pc = "insert" => xmlsize = input.length + 1 + Taken(s)

TextInv == StringKept /\ Permuted /\ Sized /\ xmlsize <= Room

\* One element more.
Adds(x, S) == IF x \in S THEN 1 ELSE 0

LEMMA CountTurn ==
    ASSUME NEW f, NEW k \in Nat, NEW S
    PROVE  /\ Count(f, k, S) \in Nat
           /\ Count(f, 0, S) = 0
           /\ Count(f, k + 1, S) = Count(f, k, S) + Adds(f[k + 1], S)
<1>1. PICK a, b : a = {j \in 1..k : f[j] \in S} /\ b = {j \in 1..(k + 1) : f[j] \in S}
    OBVIOUS
<1>2. IsFiniteSet(a)
    <2>1. IsFiniteSet(1..k) /\ a \in SUBSET (1..k)
        BY <1>1, FS_Interval
    <2> QED
        BY <2>1, FS_Subset
<1>3. Count(f, k, S) = Cardinality(a) /\ Count(f, k + 1, S) = Cardinality(b)
    BY <1>1 DEF Count
<1>4. Count(f, 0, S) = 0
    <2>1. {j \in 1..0 : f[j] \in S} = {}
        OBVIOUS
    <2> QED
        BY <2>1, FS_EmptySet DEF Count
<1>5. CASE f[k + 1] \in S
    <2>1. b = a \cup {k + 1} /\ k + 1 \notin a
        BY <1>1, <1>5
    <2> QED
        BY <1>2, <1>3, <1>4, <1>5, <2>1, FS_AddElement, FS_CardinalityType DEF Adds
<1>6. CASE f[k + 1] \notin S
    <2>1. b = a
        BY <1>1, <1>6
    <2> QED
        BY <1>2, <1>3, <1>4, <1>6, <2>1, FS_CardinalityType DEF Adds
<1> QED
    BY <1>5, <1>6

\* After m elements of g, as many as k are those of f after n.
Alike(g, m, f, n, k) == \A i \in 1..k : g[m + i] = f[n + i]

\* What is counted in a part that stands elsewhere in another sequence.
LEMMA CountPart ==
    ASSUME NEW f, NEW g, NEW m \in Nat, NEW n \in Nat, NEW k \in Nat, NEW S,
           Alike(g, m, f, n, k)
    PROVE  Count(g, m + k, S) + Count(f, n, S) = Count(f, n + k, S) + Count(g, m, S)
<1> DEFINE D == {i \in 0..k : Count(g, m + i, S) + Count(f, n, S)
                                 = Count(f, n + i, S) + Count(g, m, S)}
<1>1. Count(g, m, S) \in Nat /\ Count(f, n, S) \in Nat
    BY CountTurn
<1>2. 0 \in D
    BY <1>1
<1>3. ASSUME NEW i \in 0..(k - 1), i \in D PROVE i + 1 \in D
    <2>1. PICK mi \in Nat, ni \in Nat : /\ mi = m + i /\ ni = n + i
                                        /\ mi + 1 = m + (i + 1) /\ ni + 1 = n + (i + 1)
        OBVIOUS
    <2>2. g[mi + 1] = f[ni + 1]
        <3>1. i + 1 \in 1..k
            OBVIOUS
        <3> QED
            BY <2>1, <3>1 DEF Alike
    <2>3. Count(g, mi, S) \in Nat /\ Count(g, mi + 1, S) = Count(g, mi, S) + Adds(g[mi + 1], S)
        BY CountTurn
    <2>4. Count(f, ni, S) \in Nat /\ Count(f, ni + 1, S) = Count(f, ni, S) + Adds(f[ni + 1], S)
        BY CountTurn
    <2>5. Adds(f[ni + 1], S) \in Nat
        BY DEF Adds
    <2>6. Count(g, mi, S) + Count(f, n, S) = Count(f, ni, S) + Count(g, m, S)
        BY <1>3, <2>1
    <2>7. Count(g, mi + 1, S) + Count(f, n, S) = Count(f, ni + 1, S) + Count(g, m, S)
        BY ONLY <1>1, <2>2, <2>3, <2>4, <2>5, <2>6
    <2> QED
        BY <2>1, <2>7
<1> HIDE DEF D
<1>4. 0..k \subseteq D
    BY <1>2, <1>3, UpTo
<1>5. k \in D
    BY <1>4
<1> QED
    BY <1>5 DEF D

\* What is counted grows.
LEMMA CountGrows ==
    ASSUME NEW f, NEW n \in Nat, NEW k \in 0..n, NEW S
    PROVE  Count(f, k, S) <= Count(f, n, S)
<1>1. PICK a, b : a = {j \in 1..k : f[j] \in S} /\ b = {j \in 1..n : f[j] \in S}
    OBVIOUS
<1>2. IsFiniteSet(b)
    <2>1. IsFiniteSet(1..n) /\ b \in SUBSET (1..n)
        BY <1>1, FS_Interval
    <2> QED
        BY <2>1, FS_Subset
<1>3. a \in SUBSET b
    BY <1>1
<1>4. Cardinality(a) <= Cardinality(b)
    BY <1>2, <1>3, FS_Subset
<1> QED
    BY <1>1, <1>4 DEF Count

LEMMA CountNone ==
    ASSUME NEW f, NEW k \in Nat, NEW S, \A j \in 1..k : f[j] \notin S
    PROVE  Count(f, k, S) = 0
<1>1. {j \in 1..k : f[j] \in S} = {}
    OBVIOUS
<1> QED
    BY <1>1, FS_EmptySet DEF Count

LEMMA CountAll ==
    ASSUME NEW f, NEW k \in Nat, NEW S, \A j \in 1..k : f[j] \in S
    PROVE  Count(f, k, S) = k
<1>1. {j \in 1..k : f[j] \in S} = 1..k
    OBVIOUS
<1>2. Cardinality(1..k) = k
    BY FS_Interval
<1> QED
    BY <1>1, <1>2 DEF Count

\* A set in which a takes the place of b.
LEMMA Replaced ==
    ASSUME NEW o, IsFiniteSet(o), NEW q, NEW a, NEW b, a \in o, b \notin o,
           q = (o \ {a}) \cup {b}
    PROVE  Cardinality(q) = Cardinality(o)
<1>1. PICK r : r = o \ {a}
    OBVIOUS
<1>2. IsFiniteSet(r) /\ Cardinality(r) = Cardinality(o) - 1 /\ b \notin r
    BY <1>1, FS_RemoveElement
<1>3. Cardinality(r \cup {b}) = Cardinality(r) + 1
    BY <1>2, FS_AddElement
<1>4. Cardinality(o) \in Nat
    BY FS_CardinalityType
<1> QED
    BY <1>1, <1>2, <1>3, <1>4

\* An exchange.
LEMMA CountSwap ==
    ASSUME NEW n \in Nat, NEW f, NEW g, NEW i \in 1..n, NEW j \in 1..n, i # j,
           g[i] = f[j], g[j] = f[i], \A k \in 1..n : k # i /\ k # j => g[k] = f[k],
           NEW S
    PROVE  Count(g, n, S) = Count(f, n, S)
<1>1. PICK o, q : o = {k \in 1..n : f[k] \in S} /\ q = {k \in 1..n : g[k] \in S}
    OBVIOUS
<1>2. Count(f, n, S) = Cardinality(o) /\ Count(g, n, S) = Cardinality(q)
    BY <1>1 DEF Count
<1>3. o \subseteq 1..n /\ q \subseteq 1..n /\ IsFiniteSet(o)
    <2>1. o \in SUBSET (1..n) /\ q \in SUBSET (1..n)
        BY ONLY <1>1
    <2>2. IsFiniteSet(1..n)
        BY ONLY n \in Nat, FS_Interval
    <2> QED
        BY <2>1, <2>2, FS_Subset
<1>4. /\ i \in q <=> j \in o
      /\ j \in q <=> i \in o
      /\ \A k \in 1..n : k # i /\ k # j => (k \in q <=> k \in o)
    BY ONLY <1>1, g[i] = f[j], g[j] = f[i], i \in 1..n, j \in 1..n,
            \A k \in 1..n : k # i /\ k # j => g[k] = f[k], Zenon
<1>5. CASE i \in o /\ j \notin o
    <2>1. q = (o \ {i}) \cup {j}
        BY ONLY <1>3, <1>4, <1>5, i \in 1..n, j \in 1..n, i # j
    <2> QED
        BY <1>2, <1>3, <1>5, <2>1, Replaced
<1>6. CASE j \in o /\ i \notin o
    <2>1. q = (o \ {j}) \cup {i}
        BY ONLY <1>3, <1>4, <1>6, i \in 1..n, j \in 1..n, i # j
    <2> QED
        BY <1>2, <1>3, <1>6, <2>1, Replaced
<1>7. CASE i \in o <=> j \in o
    <2>1. \A k \in 1..n : k \in q <=> k \in o
        BY ONLY <1>4, <1>7, Zenon
    <2>2. q = o
        BY ONLY <1>3, <2>1
    <2> QED
        BY <1>2, <2>2
<1> QED
    BY <1>5, <1>6, <1>7

\* The marks as they are made.
OpeningOf(spot) == [offset |-> spot.start, closing |-> FALSE]
ClosingOf(spot) == [offset |-> EndOf(spot), closing |-> TRUE]

\* The spots of which one of the marks is in a set.
LEMMA CountMarks ==
    ASSUME NEW spots \in Seq([start : Nat, len : Nat]), NEW S
    PROVE  Count(MarksOf(spots), 2 * Len(spots), S)
              = Cardinality({i \in 1..Len(spots) : OpeningOf(spots[i]) \in S})
                + Cardinality({i \in 1..Len(spots) : ClosingOf(spots[i]) \in S})
<1> DEFINE f == MarksOf(spots)
           n == Len(spots)
           o == [i \in 1..n |-> OpeningOf(spots[i])]
           c == [i \in 1..n |-> ClosingOf(spots[i])]
           D == {m \in 0..n : Count(f, 2 * m, S) = Count(o, m, S) + Count(c, m, S)}
<1>1. n \in Nat
    BY LenProperties
<1>2. ASSUME NEW m \in 0..(n - 1) PROVE f[2 * m + 1] = o[m + 1] /\ f[2 * m + 2] = c[m + 1]
    <2>1. 2 * m + 1 \in 1..(2 * Len(spots)) /\ 2 * m + 2 \in 1..(2 * Len(spots)) /\ m + 1 \in 1..n
        BY <1>1
    <2>2. /\ (2 * m + 1) % 2 = 1 /\ (2 * m + 2) % 2 = 0
          /\ ((2 * m + 1) + 1) \div 2 = m + 1 /\ ((2 * m + 2) + 1) \div 2 = m + 1
        OBVIOUS
    <2>3. PICK k, l, spot : k = 2 * m + 1 /\ l = 2 * m + 2 /\ spot = spots[m + 1]
        OBVIOUS
    <2>4. /\ k \in 1..(2 * Len(spots)) /\ k % 2 = 1 /\ (k + 1) \div 2 = m + 1
          /\ l \in 1..(2 * Len(spots)) /\ l % 2 = 0 /\ (l + 1) \div 2 = m + 1
        BY ONLY <2>1, <2>2, <2>3
    <2>5. f[k] = OpeningOf(spot) /\ f[l] = ClosingOf(spot)
        <3>1. \A i \in 1..(2 * Len(spots)) :
                  f[i] = IF i % 2 = 1 THEN OpeningOf(spots[(i + 1) \div 2])
                         ELSE ClosingOf(spots[(i + 1) \div 2])
            BY DEF MarksOf, OpeningOf, ClosingOf
        <3> HIDE DEF f
        <3>2. l % 2 # 1
            BY ONLY <2>4
        <3> QED
            BY ONLY <2>3, <2>4, <3>1, <3>2, Zenon
    <2>6. o[m + 1] = OpeningOf(spot) /\ c[m + 1] = ClosingOf(spot)
        BY <2>1, <2>3
    <2> QED
        BY ONLY <2>3, <2>5, <2>6
<1>3. /\ Cardinality({i \in 1..n : OpeningOf(spots[i]) \in S}) = Count(o, n, S)
      /\ Cardinality({i \in 1..n : ClosingOf(spots[i]) \in S}) = Count(c, n, S)
    <2>1. {i \in 1..n : OpeningOf(spots[i]) \in S} = {i \in 1..n : o[i] \in S}
        OBVIOUS
    <2>2. {i \in 1..n : ClosingOf(spots[i]) \in S} = {i \in 1..n : c[i] \in S}
        OBVIOUS
    <2> QED
        BY <2>1, <2>2 DEF Count
<1> HIDE DEF f, o, c
<1>4. 0 \in D
    <2>1. 0 \in 0..n /\ 2 * 0 = 0 /\ 0 \in Nat
        BY <1>1
    <2>2. \A g : Count(g, 0, S) = 0
        BY <2>1, CountTurn
    <2> QED
        BY <2>1, <2>2
<1>5. ASSUME NEW m \in 0..(n - 1), m \in D PROVE m + 1 \in D
    <2>1. PICK k \in Nat, l \in Nat : /\ k = 2 * m /\ l = k + 1
                                      /\ 2 * (m + 1) = l + 1 /\ k + 1 = 2 * m + 1 /\ l + 1 = 2 * m + 2
        BY <1>1
    <2>2. m \in Nat /\ m + 1 \in 0..n
        BY <1>1
    <2>3. Count(f, k + 1, S) = Count(f, k, S) + Adds(f[k + 1], S) /\ Count(f, k, S) \in Nat
        BY CountTurn
    <2>4. Count(f, l + 1, S) = Count(f, l, S) + Adds(f[l + 1], S)
        BY CountTurn
    <2>5. Count(o, m + 1, S) = Count(o, m, S) + Adds(o[m + 1], S) /\ Count(o, m, S) \in Nat
        BY <2>2, CountTurn
    <2>6. Count(c, m + 1, S) = Count(c, m, S) + Adds(c[m + 1], S) /\ Count(c, m, S) \in Nat
        BY <2>2, CountTurn
    <2>7. f[k + 1] = o[m + 1] /\ f[l + 1] = c[m + 1]
        BY <1>2, <2>1
    <2>8. Adds(o[m + 1], S) \in Nat /\ Adds(c[m + 1], S) \in Nat
        BY DEF Adds
    <2>9. Count(f, k, S) = Count(o, m, S) + Count(c, m, S)
        BY <1>5, <2>1
    <2>10. Count(f, l + 1, S) = Count(o, m + 1, S) + Count(c, m + 1, S)
        BY ONLY <2>1, <2>3, <2>4, <2>5, <2>6, <2>7, <2>8, <2>9
    <2> QED
        BY <2>1, <2>2, <2>10
<1> HIDE DEF D
<1>6. 0..n \subseteq D
    BY <1>1, <1>4, <1>5, UpTo
<1>7. n \in D
    BY <1>1, <1>6
<1> QED
    BY <1>3, <1>7 DEF D, f

\* Half of the marks open, the others close.
LEMMA Halves ==
    ASSUME NEW spots \in Seq([start : Nat, len : Nat])
    PROVE  /\ Count(MarksOf(spots), 2 * Len(spots), Opens) = Len(spots)
           /\ Count(MarksOf(spots), 2 * Len(spots), Closes) = Len(spots)
<1>1. PICK n \in Nat : n = Len(spots)
    BY LenProperties
<1>2. \A i \in 1..n : spots[i] \in [start : Nat, len : Nat]
    BY <1>1, ElementOfSeq
<1>3. \A i \in 1..n : OpeningOf(spots[i]) \in Opens /\ OpeningOf(spots[i]) \notin Closes
    BY <1>2 DEF OpeningOf, Opens, Closes, Mark
<1>4. \A i \in 1..n : ClosingOf(spots[i]) \in Closes /\ ClosingOf(spots[i]) \notin Opens
    BY <1>2 DEF ClosingOf, EndOf, Opens, Closes, Mark
<1>5. /\ {i \in 1..n : OpeningOf(spots[i]) \in Opens} = 1..n
      /\ {i \in 1..n : ClosingOf(spots[i]) \in Opens} = {}
      /\ {i \in 1..n : OpeningOf(spots[i]) \in Closes} = {}
      /\ {i \in 1..n : ClosingOf(spots[i]) \in Closes} = 1..n
    BY <1>3, <1>4
<1>6. Cardinality(1..n) = n /\ Cardinality({}) = 0
    BY FS_Interval, FS_EmptySet
<1>7. /\ Count(MarksOf(spots), 2 * Len(spots), Opens) = n + 0
      /\ Count(MarksOf(spots), 2 * Len(spots), Closes) = 0 + n
    <2>1. \A S : Count(MarksOf(spots), 2 * Len(spots), S)
                    = Cardinality({i \in 1..n : OpeningOf(spots[i]) \in S})
                        + Cardinality({i \in 1..n : ClosingOf(spots[i]) \in S})
        BY <1>1, CountMarks
    <2> QED
        BY ONLY <1>5, <1>6, <2>1, Zenon
<1> QED
    BY <1>1, <1>7

LEMMA OneMore ==
    ASSUME NEW a \in Nat, NEW x \in Nat
    PROVE  (a + 1) * x = a * x + x /\ (a + 0) * x = a * x /\ a * x \in Nat
OBVIOUS

LEMMA NoMoreThan ==
    ASSUME NEW a \in Nat, NEW b \in Nat, NEW n \in Nat, NEW x \in Nat, NEW y \in Nat,
           a <= n, b <= n
    PROVE  a * x + b * y <= n * (x + y)
<1>1. a * x <= n * x /\ b * y <= n * y
    OBVIOUS
<1>2. n * (x + y) = n * x + n * y
    OBVIOUS
<1>3. a * x \in Nat /\ b * y \in Nat /\ n * x \in Nat /\ n * y \in Nat
    OBVIOUS
<1> QED
    BY ONLY <1>1, <1>2, <1>3

\* A part of a sequence.
LEMMA PartIs ==
    ASSUME NEW S, NEW t \in Seq(S), NEW m \in 0..Len(t), NEW k \in m..Len(t)
    PROVE  /\ SubSeq(t, m + 1, k) \in Seq(S)
           /\ Len(SubSeq(t, m + 1, k)) = k - m
           /\ \A i \in 1..(k - m) : SubSeq(t, m + 1, k)[i] = t[m + i]
<1>1. Len(t) \in Nat
    BY LenProperties
<1>2. \A i \in (m + 1)..k : t[i] \in S
    BY <1>1, ElementOfSeq
<1>3. PICK a, p : a = m + 1 /\ p = SubSeq(t, a, k)
    OBVIOUS
<1>4. a \in Int /\ k \in Int /\ \A i \in a..k : t[i] \in S
    BY <1>1, <1>2, <1>3
<1>5. /\ p \in Seq(S) /\ Len(p) = IF a <= k THEN k - a + 1 ELSE 0
      /\ \A i \in 1..(k - a + 1) : p[i] = t[a + i - 1]
    BY ONLY <1>3, <1>4, SubSeqProperties
<1>6. Len(p) = k - m /\ k - a + 1 = k - m /\ \A i \in 1..(k - m) : a + i - 1 = m + i
    BY ONLY <1>1, <1>3, <1>5, m \in 0..Len(t), k \in m..Len(t)
<1> QED
    BY ONLY <1>3, <1>5, <1>6

\* A string and its NUL.
LEMMA StringIs ==
    ASSUME NEW t \in Seq(NonNul), NEW x, x = t \o <<NUL>>
    PROVE  /\ Len(t) \in Nat /\ t \in Seq(Int) /\ <<NUL>> \in Seq(Int)
           /\ x \in Seq(Int) /\ Len(x) = Len(t) + 1 /\ x[Len(t) + 1] = NUL
           /\ \A k \in 1..Len(t) : x[k] = t[k] /\ t[k] # NUL
<1>1. PICK nul, n : nul = <<NUL>> /\ n = Len(t)
    OBVIOUS
<1>2. n \in Nat /\ t \in Seq(Int)
    BY <1>1, LenProperties, SeqSubset DEF NonNul
<1>3. nul \in Seq(Int) /\ Len(nul) = 1 /\ nul[1] = NUL
    BY <1>1 DEF NUL
<1>4. x = t \o nul
    BY <1>1
<1>5. /\ x \in Seq(Int) /\ Len(x) = n + 1
      /\ \A k \in 1..(n + 1) : x[k] = IF k <= n THEN t[k] ELSE nul[k - n]
    <2>1. /\ t \o nul \in Seq(Int) /\ Len(t \o nul) = Len(t) + Len(nul)
          /\ \A k \in 1..(Len(t) + Len(nul)) :
                (t \o nul)[k] = IF k <= Len(t) THEN t[k] ELSE nul[k - Len(t)]
        BY ONLY <1>2, <1>3, ConcatProperties
    <2> QED
        BY ONLY <1>1, <1>3, <1>4, <2>1
<1>6. \A k \in 1..n : t[k] # NUL
    BY <1>1, ElementOfSeq DEF NonNul, NUL
<1>7. x[n + 1] = NUL
    <2>1. PICK m \in 1..(n + 1) : m = n + 1 /\ ~(m <= n) /\ m - n = 1
        BY ONLY <1>2
    <2>2. x[m] = nul[m - n]
        BY ONLY <1>5, <2>1
    <2> QED
        BY ONLY <1>3, <2>1, <2>2
<1>8. \A k \in 1..n : x[k] = t[k]
    BY ONLY <1>2, <1>5
<1> QED
    BY ONLY <1>1, <1>2, <1>3, <1>5, <1>6, <1>7, <1>8

LEMMA ThreeInOrder ==
    ASSUME NEW a \in Seq(Int), NEW b \in Seq(Int), NEW c \in Seq(Int)
    PROVE  (a \o b) \o c = a \o (b \o c)
<1>1. PICK S : S = Int
    OBVIOUS
<1>2. a \in Seq(S) /\ b \in Seq(S) /\ c \in Seq(S)
    BY ONLY <1>1, a \in Seq(Int), b \in Seq(Int), c \in Seq(Int)
<1>3. \A s1, s2, s3 \in Seq(S) : (s1 \o s2) \o s3 = s1 \o (s2 \o s3)
    BY ONLY ConcatAssociative, SMTT(30)
<1> QED
    BY ONLY <1>2, <1>3, Zenon

\* A mark inserted in a string.
LEMMA StringSpliced ==
    ASSUME NEW t \in Seq(NonNul), NEW x, x = t \o <<NUL>>,
           NEW o \in 0..Len(t), NEW mark \in Seq(MarkBytes)
    PROVE  \E v \in Seq(NonNul) :
              /\ SubSeq(x, 1, o) \o mark \o SubSeq(x, o + 1, Len(x)) = v \o <<NUL>>
              /\ Only(v, Kept) = Only(t, Kept)
<1>1. mark \in Seq(NonNul) /\ mark \in Seq(Int)
    <2>1. MarkBytes \subseteq NonNul /\ MarkBytes \subseteq Int
        BY DEF NonNul, MarkBytes
    <2> QED
        BY <2>1, SeqSubset
<1>2. PICK n, nul : n = Len(t) /\ nul = <<NUL>>
    OBVIOUS
<1>3. /\ n \in Nat /\ t \in Seq(Int) /\ nul \in Seq(Int) /\ x = t \o nul /\ o \in 0..n
      /\ x \in Seq(Int) /\ Len(x) = n + 1
    BY <1>2, StringIs
<1>4. PICK a, c : a = SubSeq(t, 1, o) /\ c = SubSeq(t, o + 1, n)
    OBVIOUS
<1>5. a \in Seq(NonNul) /\ c \in Seq(NonNul) /\ a \in Seq(Int) /\ c \in Seq(Int)
    <2>1. 0 \in 0..Len(t) /\ o \in 0..Len(t) /\ Len(t) \in o..Len(t) /\ 0 + 1 = 1
        BY <1>2, <1>3
    <2>2. a \in Seq(NonNul) /\ c \in Seq(NonNul)
        BY <1>2, <1>4, <2>1, PartIs
    <2>3. NonNul \subseteq Int
        BY DEF NonNul
    <2> QED
        BY <2>2, <2>3, SeqSubset
<1>6. a \o c = t
    <2>1. 1 \in 1..(Len(t) + 1) /\ o \in (1 - 1)..Len(t) /\ Len(t) \in o..Len(t)
        BY <1>2, <1>3
    <2>2. SubSeq(t, 1, o) \o SubSeq(t, o + 1, Len(t)) = SubSeq(t, 1, Len(t))
        BY <2>1, ConcatAdjacentSubSeq
    <2>3. SubSeq(t, 1, Len(t)) = t
        BY SubSeqFull
    <2> QED
        BY <1>2, <1>4, <2>2, <2>3
<1>7. SubSeq(x, 1, o) = a /\ SubSeq(x, o + 1, n + 1) = c \o nul
    <2>1. Len(a) = o
        BY <1>2, <1>3, <1>4, PartIs
    <2>2. PICK d : d = c \o nul
        OBVIOUS
    <2>3. d \in Seq(Int) /\ x = a \o d
        <3>1. c \o nul \in Seq(Int)
            BY <1>3, <1>5, ConcatProperties
        <3>2. (a \o c) \o nul = a \o (c \o nul)
            BY <1>3, <1>5, ThreeInOrder
        <3> QED
            BY ONLY <1>3, <1>6, <2>2, <3>1, <3>2
    <2>4. /\ Len(d) \in Nat /\ Len(d) = n + 1 - o
          /\ \A k \in 1..o : x[k] = a[k]
          /\ \A k \in 1..(n + 1 - o) : x[o + k] = d[k]
        <3>1. Len(a \o d) = Len(a) + Len(d)
              /\ \A k \in 1..(Len(a) + Len(d)) :
                    (a \o d)[k] = IF k <= Len(a) THEN a[k] ELSE d[k - Len(a)]
            BY <1>5, <2>3, ConcatProperties
        <3>2. Len(d) \in Nat
            BY <2>3, LenProperties
        <3>3. Len(d) = n + 1 - o
            BY ONLY <1>3, <2>1, <2>3, <3>1, <3>2
        <3>4. \A k \in 1..(n + 1) : x[k] = IF k <= o THEN a[k] ELSE d[k - o]
            BY ONLY <1>3, <2>1, <2>3, <3>1, <3>3
        <3>5. ASSUME NEW k \in 1..(n + 1 - o) PROVE x[o + k] = d[k]
            <4>1. PICK l \in 1..(n + 1) : l = o + k /\ ~(l <= o) /\ l - o = k
                BY <1>3
            <4> QED
                BY ONLY <3>4, <4>1
        <3>6. \A k \in 1..o : k \in 1..(n + 1) /\ k <= o
            BY ONLY <1>3
        <3> QED
            BY ONLY <3>2, <3>3, <3>4, <3>5, <3>6
    <2>5. PICK b, e : b = SubSeq(x, 1, o) /\ e = SubSeq(x, o + 1, n + 1)
        OBVIOUS
    <2>6. /\ b \in Seq(Int) /\ Len(b) = o /\ \A k \in 1..o : b[k] = x[k]
          /\ e \in Seq(Int) /\ Len(e) = n + 1 - o
          /\ \A k \in 1..(n + 1 - o) : e[k] = x[o + k]
        <3>1. 0 \in 0..Len(x) /\ o \in 0..Len(x) /\ n + 1 \in o..Len(x) /\ 0 + 1 = 1 /\ o - 0 = o
            BY ONLY <1>3
        <3>2. b \in Seq(Int) /\ Len(b) = o /\ \A k \in 1..o : b[k] = x[0 + k]
            BY ONLY <1>3, <2>5, <3>1, PartIs
        <3>3. \A k \in 1..o : 0 + k = k
            BY ONLY <1>3
        <3>4. e \in Seq(Int) /\ Len(e) = n + 1 - o /\ \A k \in 1..(n + 1 - o) : e[k] = x[o + k]
            BY ONLY <1>3, <2>5, <3>1, PartIs, SMTT(30)
        <3> QED
            BY ONLY <3>2, <3>3, <3>4
    <2>7. b = a
        <3>1. Len(b) = Len(a) /\ \A k \in 1..Len(b) : b[k] = a[k]
            BY ONLY <2>1, <2>4, <2>6
        <3> QED
            BY ONLY <1>5, <2>6, <3>1, SeqEqual
    <2>8. e = d
        <3>1. Len(e) = Len(d) /\ \A k \in 1..Len(e) : e[k] = d[k]
            BY ONLY <2>4, <2>6
        <3>2. e \in Seq(Int) /\ d \in Seq(Int)
            BY <2>3, <2>6
        <3> QED
            BY ONLY <3>1, <3>2, SeqEqual, Zenon
    <2> QED
        BY ONLY <2>2, <2>5, <2>7, <2>8
<1>8. PICK e, v : e = a \o mark /\ v = e \o c
    OBVIOUS
<1>9. e \in Seq(Int) /\ e \in Seq(NonNul) /\ v \in Seq(NonNul)
    <2>1. a \o mark \in Seq(Int) /\ a \o mark \in Seq(NonNul)
        BY <1>1, <1>5, ConcatProperties
    <2>2. e \in Seq(Int) /\ e \in Seq(NonNul)
        BY ONLY <1>8, <2>1
    <2>3. e \o c \in Seq(NonNul)
        BY <1>5, <2>2, ConcatProperties
    <2> QED
        BY ONLY <1>8, <2>2, <2>3
<1>10. SubSeq(x, 1, o) \o mark \o SubSeq(x, o + 1, Len(x)) = v \o nul
    <2>1. e \o (c \o nul) = (e \o c) \o nul
        <3>1. e \in Seq(Int) /\ c \in Seq(Int) /\ nul \in Seq(Int)
            BY <1>3, <1>5, <1>9
        <3> QED
            BY ONLY <3>1, ThreeInOrder, Zenon
    <2> QED
        BY ONLY <1>3, <1>7, <1>8, <2>1
<1>11. Only(v, Kept) = Only(t, Kept)
    <2>1. Only(v, Kept) = Only(e, Kept) \o Only(c, Kept)
        BY <1>5, <1>8, <1>9, OnlyConcat
    <2>2. Only(e, Kept) = Only(a, Kept) \o Only(mark, Kept)
        BY <1>1, <1>5, <1>8, OnlyConcat
    <2>3. Only(mark, Kept) = << >>
        <3>1. MarkBytes \cap Kept = {}
            BY DEF MarkBytes, Kept
        <3> QED
            BY <3>1, OnlyNone
    <2>4. Only(a, Kept) \o << >> = Only(a, Kept)
        <3>1. Only(a, Kept) \in Seq(NonNul \cap Kept)
            BY <1>5, OnlyType
        <3> QED
            BY <3>1, ConcatEmptySeq
    <2>5. Only(a \o c, Kept) = Only(a, Kept) \o Only(c, Kept)
        BY <1>5, OnlyConcat
    <2> QED
        BY ONLY <1>6, <2>1, <2>2, <2>3, <2>4, <2>5
<1> QED
    BY ONLY <1>2, <1>9, <1>10, <1>11

\* The text of the record.
LEMMA TextIsString ==
    ASSUME NEW n \in Nat
    PROVE  \E t \in Seq(NonNul) : TextOf(n) = t \o <<NUL>> /\ Only(t, Kept) = Letters(n)
<1>1. PICK t : t = Letters(n)
    OBVIOUS
<1>2. t \in Seq(Kept) /\ Len(t) = n /\ \A k \in 1..n : t[k] = k
    <2>1. t \in [1..n -> Kept] /\ \A k \in 1..n : t[k] = k
        BY <1>1 DEF Letters, Kept
    <2> QED
        BY <2>1
<1>3. t \in Seq(NonNul)
    <2>1. Kept \subseteq NonNul
        BY DEF Kept, NonNul
    <2> QED
        BY <1>2, <2>1, SeqSubset
<1>4. Only(t, Kept) = t
    BY <1>2, OnlyAll
<1>5. TextOf(n) = t \o <<NUL>>
    <2>1. PICK d : d = t \o <<NUL>>
        OBVIOUS
    <2>2. /\ d \in Seq(Int) /\ Len(d) = n + 1 /\ d[n + 1] = NUL
          /\ \A k \in 1..n : d[k] = t[k]
        BY <1>2, <1>3, <2>1, StringIs
    <2>3. PICK e : e = TextOf(n)
        OBVIOUS
    <2>4. e \in Seq(Int) /\ Len(e) = n + 1 /\ \A k \in 1..n : e[k] = k
        BY <2>3, TextOfIs
    <2>5. e[n + 1] = NUL
        BY <2>3 DEF TextOf
    <2>6. \A k \in 1..(n + 1) : d[k] = e[k]
        <3>1. \A k \in 1..(n + 1) : k \in 1..n \/ k = n + 1
            OBVIOUS
        <3> QED
            BY ONLY <1>2, <2>2, <2>4, <2>5, <3>1
    <2>7. d = e
        BY ONLY <2>2, <2>4, <2>6, SeqEqual
    <2> QED
        BY ONLY <2>1, <2>3, <2>7
<1> QED
    BY <1>1, <1>3, <1>4, <1>5

\* What PHP sees of a string.
LEMMA ShownIs ==
    ASSUME NEW t \in Seq(NonNul), xml = t \o <<NUL>>
    PROVE  Shown = t
<1>1. PICK n : n = Len(t)
    OBVIOUS
<1>2. /\ n \in Nat /\ xml \in Seq(Int) /\ Len(xml) = n + 1 /\ xml[n + 1] = NUL
      /\ \A k \in 1..n : xml[k] = t[k] /\ t[k] # NUL
    BY <1>1, StringIs
<1> DEFINE nuls == {k \in DOMAIN xml : xml[k] = NUL /\ \A j \in 1..(k - 1) : xml[j] # NUL}
           nul == CHOOSE k \in nuls : TRUE
<1>3. DOMAIN xml = 1..(n + 1)
    BY <1>2
<1>4. n + 1 \in nuls
    BY <1>2, <1>3
<1>5. ASSUME NEW k \in nuls PROVE k = n + 1
    BY <1>2, <1>3
<1> HIDE DEF nuls
<1>6. nul \in nuls /\ nuls # {}
    BY <1>4
<1>7. nul - 1 = n
    <2>1. nul = n + 1
        BY <1>5, <1>6
    <2> HIDE DEF nul
    <2> QED
        BY <1>2, <2>1
<1>8. Shown = SubSeq(xml, 1, nul - 1)
    BY <1>6 DEF Shown, nuls
<1> HIDE DEF nul
<1>9. SubSeq(xml, 1, n) = t
    <2>1. PICK b : b = SubSeq(xml, 1, n)
        OBVIOUS
    <2>2. 0 \in 0..Len(xml) /\ n \in 0..Len(xml) /\ 0 + 1 = 1 /\ n - 0 = n
        BY <1>2
    <2>3. b \in Seq(Int) /\ Len(b) = n /\ \A k \in 1..n : b[k] = xml[0 + k]
        BY <1>2, <2>1, <2>2, PartIs
    <2>4. \A k \in 1..n : b[k] = t[k]
        BY <1>2, <2>3
    <2>5. t \in Seq(Int)
        BY StringIs
    <2> QED
        BY <1>1, <2>1, <2>3, <2>4, <2>5, SeqEqual
<1> QED
    BY <1>7, <1>8, <1>9

\* The room: that of the text, and of the marks if there are any.
LEMMA RoomIs ==
    ASSUME TypeOK
    PROVE  /\ nspots \in Nat /\ input.length \in Nat
           /\ Marked => /\ Len(input.markin) \in Nat /\ Len(input.markout) \in Nat
                        /\ Room = input.length + 1
                                    + nspots * (Len(input.markin) + Len(input.markout))
           /\ Room \in Int /\ Room >= input.length + 1
<1>1. nspots \in Nat /\ input.length \in Nat
    BY LenProperties DEF TypeOK, IsInput, nspots
<1>2. CASE Marked
    <2>1. input.markin \in Seq(MarkBytes) /\ input.markout \in Seq(MarkBytes)
        BY <1>2 DEF TypeOK, IsInput, Marked
    <2>2. Len(input.markin) \in Nat /\ Len(input.markout) \in Nat
        BY <2>1, LenProperties
    <2>3. PICK i \in Nat, o \in Nat : i = Len(input.markin) /\ o = Len(input.markout)
        BY ONLY <2>2, Zenon
    <2>4. PICK l \in Nat, m \in Nat : l = i + o /\ m = nspots * l
        BY <1>1
    <2>5. PICK n \in Nat : n = input.length
        BY <1>1
    <2>6. Room = n + 1 + m
        BY ONLY <1>2, <2>3, <2>4, <2>5 DEF Room
    <2>7. n + 1 + m \in Int /\ n + 1 + m >= n + 1
        OBVIOUS
    <2>8. Room \in Int /\ Room >= input.length + 1
        BY ONLY <2>5, <2>6, <2>7
    <2>9. Room = input.length + 1 + nspots * (Len(input.markin) + Len(input.markout))
        BY <1>2 DEF Room
    <2> QED
        BY ONLY <1>1, <2>2, <2>8, <2>9, Zenon
<1>3. CASE ~Marked
    <2>1. Room = input.length + 1 + 0
        BY ONLY <1>3 DEF Room
    <2>2. PICK n \in Nat : n = input.length
        BY <1>1
    <2>3. Room = n + 1
        BY ONLY <2>1, <2>2
    <2>4. Room \in Int /\ Room >= input.length + 1
        BY ONLY <2>2, <2>3
    <2> QED
        BY ONLY <1>1, <1>3, <2>4, Zenon
<1> QED
    BY <1>1, <1>2, <1>3

LEMMA InitText == Init => TextInv
<1> SUFFICES ASSUME Init PROVE TextInv
    OBVIOUS
<1>1. TypeOK
    BY InitHighlight DEF HighlightInv
<1>2. xml = TextOf(input.length) /\ pc = "fill" /\ input.length \in Nat
    BY <1>1, RoomIs DEF Init
<1>3. StringKept
    BY <1>2, TextIsString DEF StringKept
<1>4. xmlsize <= Room
    <2>1. xmlsize = input.length + 1
        BY <1>2, TextOfIs DEF xmlsize
    <2>2. Room \in Int /\ Room >= input.length + 1
        BY <1>1, RoomIs
    <2> QED
        BY <1>2, <2>1, <2>2
<1>5. Permuted /\ Sized
    BY <1>2 DEF Permuted, Sized
<1> QED
    BY <1>3, <1>4, <1>5 DEF TextInv

LEMMA FillText == HighlightInv /\ TextInv /\ Fill => TextInv'
<1> SUFFICES ASSUME HighlightInv, TextInv, Fill PROVE TextInv'
    OBVIOUS
<1>1. pc = "fill" /\ UNCHANGED <<input, xml, s, ss>> /\ pc' \in {"sort", "done"}
    BY DEF Fill
<1>2. StringKept'
    BY <1>1 DEF TextInv, StringKept, Fresh
<1>3. (xmlsize <= Room)'
    BY <1>1 DEF TextInv, Room, Marked, nspots, xmlsize
<1>4. Sized'
    BY <1>1 DEF Sized
<1>5. Permuted'
    BY <1>1 DEF Fill, Permuted, nspots
<1> QED
    BY <1>2, <1>3, <1>4, <1>5 DEF TextInv

LEMMA CompareText == HighlightInv /\ TextInv /\ Compare => TextInv'
<1> SUFFICES ASSUME HighlightInv, TextInv, Compare PROVE TextInv'
    OBVIOUS
<1>1. pc = "sort" /\ UNCHANGED <<input, xml>> /\ pc' \in {"sort", "insert"}
    BY DEF Compare
<1>2. /\ TypeOK /\ nspots \in Nat /\ input.length \in Nat /\ nspots' = nspots
      /\ s \in 1..(2 * nspots - 1) /\ ss \in (s + 1)..(2 * nspots)
      /\ h \in [1..(2 * nspots) -> [offset : Nat, closing : BOOLEAN]]
    <2>1. TypeOK
        BY DEF HighlightInv
    <2>2. nspots \in Nat /\ input.length \in Nat
        BY <2>1, RoomIs
    <2> QED
        BY <1>1, <2>1, <2>2 DEF TypeOK, nspots
<1>3. StringKept'
    BY <1>1 DEF TextInv, StringKept, Fresh
<1>4. (xmlsize <= Room)'
    BY <1>1 DEF TextInv, Room, Marked, nspots, xmlsize
<1>5. PICK n \in Nat : n = 2 * nspots
    BY <1>2
<1>6. \A S : Count(h', n, S) = Count(h, n, S)
    <2>1. s \in 1..n /\ ss \in 1..n /\ s # ss
        BY ONLY <1>2, <1>5
    <2>2. h \in [1..n -> [offset : Nat, closing : BOOLEAN]]
        BY <1>2, <1>5
    <2>3. CASE Later(h[ss], h[s])
        <3>1. h' = [h EXCEPT ![s] = h[ss], ![ss] = h[s]]
            BY <2>3 DEF Compare
        <3>2. PICK f, g, i, j : f = h /\ g = h' /\ i = s /\ j = ss
            OBVIOUS
        <3>3. /\ i \in 1..n /\ j \in 1..n /\ i # j /\ g[i] = f[j] /\ g[j] = f[i]
              /\ \A k \in 1..n : k # i /\ k # j => g[k] = f[k]
            BY ONLY <2>1, <2>2, <3>1, <3>2
        <3>4. \A S : Count(g, n, S) = Count(f, n, S)
            BY <3>3, CountSwap, ZenonT(60)
        <3> QED
            BY ONLY <3>2, <3>4
    <2>4. CASE ~Later(h[ss], h[s])
        BY <2>4 DEF Compare
    <2> QED
        BY <2>3, <2>4
<1>7. Permuted'
    <2>1. \A S : Count(h, n, S) = Count(MarksOf(input.spots), n, S)
        BY <1>1, <1>5 DEF TextInv, Permuted
    <2>2. \A S : Count(h', n, S) = Count(MarksOf(input.spots), n, S)
        BY ONLY <1>6, <2>1, Zenon
    <2> QED
        BY <1>1, <1>2, <1>5, <2>2 DEF Permuted
<1>8. Sized'
    <2>1. SUFFICES ASSUME pc' = "insert"
                   PROVE  Len(xml) = input.length + 1
                            + (Count(h', s' - 1, Opens) * Len(input.markin)
                               + Count(h', s' - 1, Closes) * Len(input.markout))
        BY <1>1 DEF Sized, Taken, xmlsize
    <2>2. s' = 1 /\ s' - 1 = 0
        BY <1>1, <2>1 DEF Compare
    <2>3. Len(xml) = input.length + 1
        BY <1>1, <1>2, TextOfIs DEF HighlightInv, PlaceKept
    <2>4. Count(h', 0, Opens) = 0 /\ Count(h', 0, Closes) = 0
        BY 0 \in Nat, CountTurn
    <2>5. Len(input.markin) \in Nat /\ Len(input.markout) \in Nat
        BY <1>1, <1>2, RoomIs DEF TypeOK, Marked
    <2>6. 0 * Len(input.markin) + 0 * Len(input.markout) = 0
        <3>1. PICK i \in Nat, o \in Nat : i = Len(input.markin) /\ o = Len(input.markout)
            BY ONLY <2>5, Zenon
        <3>2. 0 * i + 0 * o = 0
            OBVIOUS
        <3> QED
            BY ONLY <3>1, <3>2, Zenon
    <2>7. Count(h', s' - 1, Opens) = 0 /\ Count(h', s' - 1, Closes) = 0
        BY ONLY <2>2, <2>4
    <2>8. PICK l \in Nat : l = input.length
        BY <1>2
    <2>9. l + 1 = l + 1 + 0
        OBVIOUS
    <2> QED
        BY ONLY <2>3, <2>6, <2>7, <2>8, <2>9, Zenon
<1> QED
    BY <1>3, <1>4, <1>7, <1>8 DEF TextInv

LEMMA InsertText == HighlightInv /\ TextInv /\ Insert => TextInv'
<1> SUFFICES ASSUME HighlightInv, TextInv, Insert PROVE TextInv'
    OBVIOUS
<1>1. /\ pc = "insert" /\ UNCHANGED <<input, h, ss>> /\ TypeOK /\ Marked
      /\ xml \in Seq(Int) /\ nspots' = nspots /\ s \in 1..(2 * nspots)
      /\ h \in [1..(2 * nspots) -> [offset : Nat, closing : BOOLEAN]]
    BY DEF Insert, HighlightInv, TypeOK, Marked, nspots
<1>2. PICK i \in Nat, o \in Nat, ending \in BOOLEAN :
          i = Len(input.markin) /\ o = Len(input.markout) /\ ending = h[s].closing
    <2>1. h[s].closing \in BOOLEAN
        BY <1>1
    <2> QED
        BY <1>1, <2>1, RoomIs
<1>3. PICK max, in, out : max = Room /\ in = input.markin /\ out = input.markout
    OBVIOUS
<1>4. /\ nspots \in Nat /\ input.length \in Nat /\ i \in Nat /\ o \in Nat
      /\ max = input.length + 1 + nspots * (i + o)
    BY <1>1, <1>2, <1>3, RoomIs
<1>5. PICK mark : mark = IF ending THEN out ELSE in
    OBVIOUS
<1>6. mark \in Seq(MarkBytes) /\ Len(mark) = IF ending THEN o ELSE i
    BY <1>1, <1>2, <1>3, <1>5 DEF TypeOK, IsInput, Marked
<1>7. Permuted'
    BY <1>1 DEF TextInv, Permuted, Insert
<1>8. Room' = Room
    BY <1>1 DEF Room, Marked
<1>9. CASE mark = << >> \/ h[s].offset <= xmlsize
    <2>1. /\ xml' = IF mark = << >> THEN xml ELSE Splice(h[s].offset, mark)
          /\ s' = s + 1
        BY <1>2, <1>3, <1>5, <1>9 DEF Insert
    <2>2. Len(xml') = xmlsize + Len(mark)
        <3>1. CASE mark = << >>
            <4>1. xmlsize \in Nat /\ Len(mark) = 0
                BY <1>1, <3>1, LenProperties DEF xmlsize
            <4> QED
                BY <2>1, <3>1, <4>1 DEF xmlsize
        <3>2. CASE mark # << >>
            <4>1. mark \in Seq(Int)
                <5>1. MarkBytes \subseteq Int
                    BY DEF MarkBytes
                <5> QED
                    BY <1>6, <5>1, SeqSubset
            <4>2. h[s].offset \in Nat /\ h[s].offset <= xmlsize
                BY <1>1, <1>9, <3>2
            <4>3. Len(Splice(h[s].offset, mark)) = xmlsize + Len(mark)
                BY <1>1, <4>1, <4>2, SpliceIs
            <4> QED
                BY <2>1, <3>2, <4>3
        <3> QED
            BY <3>1, <3>2
    <2>3. StringKept'
        <3>1. SUFFICES ASSUME Fresh
                       PROVE  \E t \in Seq(NonNul) : xml' = t \o <<NUL>>
                                                     /\ Only(t, Kept) = Letters(input.length)
            BY <1>1 DEF StringKept, Fresh
        <3>2. PICK t \in Seq(NonNul) : xml = t \o <<NUL>>
                                       /\ Only(t, Kept) = Letters(input.length)
            BY <3>1 DEF TextInv, StringKept
        <3>3. CASE mark = << >>
            BY <2>1, <3>2, <3>3
        <3>4. CASE mark # << >>
            <4>1. PICK k : k = h[s].offset
                OBVIOUS
            <4>2. xmlsize = Len(t) + 1 /\ Len(t) \in Nat
                BY <3>2, StringIs DEF xmlsize
            <4>3. k \in Nat /\ k <= input.length /\ xmlsize > input.length
                BY <1>1, <3>1, <4>1 DEF HighlightInv, InText, PlaceKept
            <4>4. k \in 0..Len(t)
                BY ONLY <1>4, <4>2, <4>3
            <4>5. \E v \in Seq(NonNul) :
                      /\ SubSeq(xml, 1, k) \o mark \o SubSeq(xml, k + 1, Len(xml)) = v \o <<NUL>>
                      /\ Only(v, Kept) = Only(t, Kept)
                BY ONLY <1>6, <3>2, <4>4, StringSpliced
            <4>6. xml' = SubSeq(xml, 1, k) \o mark \o SubSeq(xml, k + 1, Len(xml))
                BY <2>1, <3>4, <4>1 DEF Splice, xmlsize
            <4> QED
                BY ONLY <3>2, <4>5, <4>6
        <3> QED
            BY <3>3, <3>4
    <2>4. PICK a \in Nat, b \in Nat, aa \in Nat, bb \in Nat :
              /\ a = Count(h, s - 1, Opens) /\ b = Count(h, s - 1, Closes)
              /\ aa = Count(h, s, Opens) /\ bb = Count(h, s, Closes)
        <3>1. s - 1 \in Nat /\ s \in Nat
            BY <1>1
        <3> QED
            BY <3>1, CountTurn
    <2>5. xmlsize = input.length + 1 + (a * i + b * o)
        BY <1>1, <1>2, <2>4 DEF TextInv, Sized, Taken
    <2>6. aa = a + (IF ending THEN 0 ELSE 1) /\ bb = b + (IF ending THEN 1 ELSE 0)
        <3>1. PICK k \in Nat : k = s - 1 /\ k + 1 = s
            BY <1>1
        <3>2. Count(h, k + 1, Opens) = Count(h, k, Opens) + Adds(h[k + 1], Opens)
            BY CountTurn
        <3>3. Count(h, k + 1, Closes) = Count(h, k, Closes) + Adds(h[k + 1], Closes)
            BY CountTurn
        <3>4. /\ h[s] \in Opens <=> ~ending
              /\ h[s] \in Closes <=> ending
            BY <1>1, <1>2 DEF Opens, Closes, Mark
        <3> QED
            BY <2>4, <3>1, <3>2, <3>3, <3>4 DEF Adds
    <2>7. Len(xml') = input.length + 1 + (aa * i + bb * o)
        <3>1. /\ (a + 1) * i = a * i + i /\ (a + 0) * i = a * i /\ a * i \in Nat
              /\ (b + 1) * o = b * o + o /\ (b + 0) * o = b * o /\ b * o \in Nat
            BY OneMore
        <3>2. CASE ending
            <4>1. aa = a + 0 /\ bb = b + 1 /\ Len(mark) = o
                BY <1>6, <2>6, <3>2
            <4> QED
                BY ONLY <1>4, <2>2, <2>5, <3>1, <4>1
        <3>3. CASE ~ending
            <4>1. aa = a + 1 /\ bb = b + 0 /\ Len(mark) = i
                BY <1>6, <2>6, <3>3
            <4> QED
                BY ONLY <1>4, <2>2, <2>5, <3>1, <4>1
        <3> QED
            BY <3>2, <3>3
    <2>8. Sized'
        <3>1. s' - 1 = s
            BY <1>1, <2>1
        <3> QED
            BY <1>1, <1>2, <2>4, <2>7, <3>1 DEF Sized, Taken, xmlsize
    <2>9. Len(xml') <= max
        <3>1. aa <= nspots /\ bb <= nspots
            <4>1. PICK n \in Nat : n = 2 * nspots
                BY <1>4
            <4>2. s \in 0..n
                BY <1>1, <4>1
            <4>3. \A S : Count(h, s, S) <= Count(h, n, S)
                BY <4>2, CountGrows
            <4>4. Count(h, n, Opens) = nspots /\ Count(h, n, Closes) = nspots
                <5>1. input.spots \in Seq([start : Nat, len : Nat])
                    BY <1>1 DEF TypeOK, IsInput
                <5>2. \A S : Count(h, n, S) = Count(MarksOf(input.spots), n, S)
                    BY <1>1, <4>1 DEF TextInv, Permuted
                <5> QED
                    BY <4>1, <5>1, <5>2, Halves DEF nspots
            <4> QED
                BY ONLY <2>4, <4>3, <4>4
        <3>2. aa * i + bb * o <= nspots * (i + o)
            BY ONLY <1>4, <3>1, NoMoreThan, aa \in Nat, bb \in Nat
        <3>3. aa * i \in Nat /\ bb * o \in Nat /\ nspots * (i + o) \in Nat
            BY <1>4
        <3> QED
            BY ONLY <1>4, <2>7, <3>2, <3>3
    <2>10. (xmlsize <= Room)'
        BY <1>2, <1>3, <1>8, <2>9 DEF xmlsize
    <2> QED
        BY <1>7, <2>3, <2>8, <2>10 DEF TextInv
<1>10. CASE ~(mark = << >> \/ h[s].offset <= xmlsize)
    <2>1. pc' = "fault" /\ UNCHANGED xml
        BY <1>2, <1>3, <1>5, <1>10 DEF Insert
    <2>2. StringKept' /\ (xmlsize <= Room)'
        BY <1>1, <1>8, <2>1 DEF TextInv, StringKept, Fresh, xmlsize
    <2>3. Sized'
        BY <2>1 DEF Sized
    <2> QED
        BY <1>7, <2>2, <2>3 DEF TextInv
<1> QED
    BY <1>9, <1>10

LEMMA StutterText == TextInv /\ UNCHANGED vars => TextInv'
BY DEF vars, TextInv, StringKept, Permuted, Sized, Taken, Room, Marked, Fresh, xmlsize, nspots

\* The invariant says what is shown.
LEMMA InvText == TextInv => TextKept
<1> SUFFICES ASSUME TextInv, Fresh
             PROVE  Only(Shown, Nat \ {0}) = [k \in 1..input.length |-> k]
    BY DEF TextInv, TextKept
<1>1. PICK t \in Seq(NonNul) : xml = t \o <<NUL>> /\ Only(t, Kept) = Letters(input.length)
    BY DEF TextInv, StringKept
<1>2. Shown = t
    BY <1>1, ShownIs
<1> QED
    BY <1>1, <1>2 DEF Kept, Letters

-----------------------------------------------------------------------------
(* MarksNest                                                               *)

\* The marks that open before the byte o, and those that close before it or after it.
Starts(o)     == {m \in Mark : ~m.closing /\ m.offset < o}
EndsBefore(o) == {m \in Mark : m.closing /\ m.offset < o}
Ends(o)       == {m \in Mark : m.closing /\ m.offset <= o}

\* Among the first k bytes of x, o are the record's.  Of the first d marks of f, those
\* that open before the next byte stand there, and no more that close than those
\* before it; at a byte of the record, these and no other.
MarkedAt(x, f, d, k) ==
    LET o == Count(x, k, Kept) IN
    /\ Count(x, k, {Opening}) >= Count(f, d, Starts(o))
    /\ Count(x, k, {Closing}) <= Count(f, d, Ends(o))
    /\ k > 0 /\ x[k] \in Kept =>
          /\ x[k] = o
          /\ Count(x, k, {Opening}) = Count(f, d, Starts(o))
          /\ Count(x, k, {Closing}) = Count(f, d, EndsBefore(o))

\* In v, l bytes of mark stand in x after the first p.
Within(v, x, n, p, mark, l) ==
    /\ \A k \in 1..p : v[k] = x[k]
    /\ \A i \in 1..l : v[p + i] = mark[i]
    /\ \A k \in 1..(n - p) : v[p + l + k] = x[p + k]

LEMMA SplicedAt ==
    ASSUME NEW x \in Seq(Int), NEW p \in 0..Len(x), NEW mark \in Seq(Int),
           NEW v, v = SubSeq(x, 1, p) \o mark \o SubSeq(x, p + 1, Len(x))
    PROVE  /\ v \in Seq(Int) /\ Len(v) = Len(x) + Len(mark)
           /\ Within(v, x, Len(x), p, mark, Len(mark))
<1>1. PICK n \in Nat, l \in Nat : n = Len(x) /\ l = Len(mark)
    BY LenProperties
<1>2. PICK a, c : a = SubSeq(x, 1, p) /\ c = SubSeq(x, p + 1, n)
    OBVIOUS
<1>3. 0 \in 0..Len(x) /\ p \in 0..Len(x) /\ n \in p..Len(x) /\ 0 + 1 = 1 /\ p - 0 = p
    BY <1>1
<1>4. a \in Seq(Int) /\ Len(a) = p /\ \A k \in 1..p : a[k] = x[k]
    <2>1. a \in Seq(Int) /\ Len(a) = p /\ \A k \in 1..p : a[k] = x[0 + k]
        BY <1>2, <1>3, PartIs
    <2>2. \A k \in 1..p : 0 + k = k
        OBVIOUS
    <2> QED
        BY ONLY <2>1, <2>2
<1>5. c \in Seq(Int) /\ Len(c) = n - p /\ \A k \in 1..(n - p) : c[k] = x[p + k]
    BY <1>2, <1>3, PartIs
<1>6. PICK e : e = a \o mark
    OBVIOUS
<1>7. /\ e \in Seq(Int) /\ Len(e) = p + l
      /\ \A k \in 1..(p + l) : e[k] = IF k <= p THEN a[k] ELSE mark[k - p]
    <2>1. /\ a \o mark \in Seq(Int) /\ Len(a \o mark) = Len(a) + Len(mark)
          /\ \A k \in 1..(Len(a) + Len(mark)) :
                (a \o mark)[k] = IF k <= Len(a) THEN a[k] ELSE mark[k - Len(a)]
        BY <1>4, ConcatProperties
    <2> QED
        BY ONLY <1>1, <1>4, <1>6, <2>1
<1>8. v = e \o c
    BY <1>1, <1>2, <1>6
<1>9. /\ v \in Seq(Int) /\ Len(v) = n + l
      /\ \A k \in 1..(n + l) : v[k] = IF k <= p + l THEN e[k] ELSE c[k - (p + l)]
    <2>1. /\ e \o c \in Seq(Int) /\ Len(e \o c) = Len(e) + Len(c)
          /\ \A k \in 1..(Len(e) + Len(c)) :
                (e \o c)[k] = IF k <= Len(e) THEN e[k] ELSE c[k - Len(e)]
        BY <1>5, <1>7, ConcatProperties
    <2>2. (p + l) + (n - p) = n + l
        BY <1>1
    <2> QED
        BY ONLY <1>5, <1>7, <1>8, <2>1, <2>2
<1>10. ASSUME NEW k \in 1..p PROVE v[k] = x[k]
    <2>1. k \in 1..(n + l) /\ k <= p + l /\ k \in 1..(p + l) /\ k <= p
        BY <1>1
    <2> QED
        BY ONLY <1>4, <1>7, <1>9, <2>1, k \in 1..p
<1>11. ASSUME NEW i \in 1..l PROVE v[p + i] = mark[i]
    <2>1. PICK k \in 1..(n + l) : /\ k = p + i /\ k <= p + l /\ k \in 1..(p + l)
                                  /\ ~(k <= p) /\ k - p = i
        BY <1>1
    <2> QED
        BY ONLY <1>7, <1>9, <2>1
<1>12. ASSUME NEW i \in 1..(n - p) PROVE v[p + l + i] = x[p + i]
    <2>1. PICK k \in 1..(n + l) : k = p + l + i /\ ~(k <= p + l) /\ k - (p + l) = i
        <3>1. p \in Nat /\ p <= n
            BY ONLY <1>1, <1>3
        <3>2. p + l + i \in 1..(n + l) /\ ~(p + l + i <= p + l) /\ (p + l + i) - (p + l) = i
            BY ONLY n \in Nat, l \in Nat, <3>1, i \in 1..(n - p)
        <3> QED
            BY ONLY <3>2
    <2> QED
        BY ONLY <1>5, <1>9, <2>1, i \in 1..(n - p)
<1>13. Within(v, x, n, p, mark, l)
    BY <1>10, <1>11, <1>12 DEF Within
<1> QED
    BY ONLY <1>1, <1>9, <1>13

\* What is counted in it.
LEMMA CountWithin ==
    ASSUME NEW v, NEW x, NEW n \in Nat, NEW p \in 0..n, NEW mark, NEW l \in Nat,
           Within(v, x, n, p, mark, l), NEW S
    PROVE  /\ \A k \in 0..p : Count(v, k, S) = Count(x, k, S)
           /\ \A i \in 0..l : Count(v, p + i, S) = Count(x, p, S) + Count(mark, i, S)
           /\ \A k \in p..n : Count(v, k + l, S) = Count(x, k, S) + Count(mark, l, S)
<1>1. /\ \A k \in 1..p : v[k] = x[k]
      /\ \A i \in 1..l : v[p + i] = mark[i]
      /\ \A k \in 1..(n - p) : v[p + l + k] = x[p + k]
    BY DEF Within
<1>2. p \in Nat /\ p <= n
    OBVIOUS
<1>3. ASSUME NEW k \in Nat
      PROVE  /\ Count(v, k, S) \in Nat /\ Count(x, k, S) \in Nat /\ Count(mark, k, S) \in Nat
             /\ Count(v, 0, S) = 0 /\ Count(x, 0, S) = 0 /\ Count(mark, 0, S) = 0
    BY CountTurn
<1>4. ASSUME NEW k \in 0..p PROVE Count(v, k, S) = Count(x, k, S)
    <2>1. PICK a \in Nat, y \in Nat : a = 0 /\ y = k /\ a + y = k
        BY <1>2
    <2>2. Alike(v, a, x, a, y)
        BY ONLY <1>1, <1>2, <2>1, k \in 0..p DEF Alike
    <2>3. Count(v, a + y, S) + Count(x, a, S) = Count(x, a + y, S) + Count(v, a, S)
        BY ONLY a \in Nat, y \in Nat, <2>2, CountPart, SMT
    <2>4. /\ Count(v, k, S) \in Nat /\ Count(v, 0, S) = 0
          /\ Count(x, k, S) \in Nat /\ Count(x, 0, S) = 0
        BY <1>3, <2>1
    <2> QED
        BY ONLY <2>1, <2>3, <2>4
<1>5. ASSUME NEW i \in 0..l PROVE Count(v, p + i, S) = Count(x, p, S) + Count(mark, i, S)
    <2>1. PICK a \in Nat, y \in Nat : a = 0 /\ y = i /\ a + y = i
        OBVIOUS
    <2>2. Alike(v, p, mark, a, y)
        BY ONLY <1>1, <2>1, i \in 0..l, l \in Nat DEF Alike
    <2>3. Count(v, p + y, S) + Count(mark, a, S) = Count(mark, a + y, S) + Count(v, p, S)
        BY ONLY p \in Nat, a \in Nat, y \in Nat, <2>2, CountPart, SMT
    <2>4. Count(v, p, S) = Count(x, p, S)
        BY <1>4
    <2>5. /\ Count(v, p + y, S) \in Nat /\ Count(x, p, S) \in Nat
          /\ Count(mark, y, S) \in Nat /\ Count(mark, 0, S) = 0
        <3>1. p + y \in Nat
            BY <1>2
        <3> QED
            BY <1>2, <1>3, <3>1
    <2> QED
        BY ONLY <2>1, <2>3, <2>4, <2>5
<1>6. ASSUME NEW k \in p..n PROVE Count(v, k + l, S) = Count(x, k, S) + Count(mark, l, S)
    <2>1. PICK q \in Nat, y \in Nat : /\ q = p + l /\ y = k - p /\ q + y = k + l /\ p + y = k
        BY <1>2
    <2>2. Alike(v, q, x, p, y)
        BY ONLY <1>1, <1>2, <2>1, k \in p..n DEF Alike
    <2>3. Count(v, q + y, S) + Count(x, p, S) = Count(x, p + y, S) + Count(v, q, S)
        BY ONLY <1>2, <2>2, CountPart, q \in Nat, y \in Nat
    <2>4. Count(v, q, S) = Count(x, p, S) + Count(mark, l, S)
        BY <1>5, <2>1
    <2>5. /\ Count(v, q + y, S) \in Nat /\ Count(x, k, S) \in Nat
          /\ Count(x, p, S) \in Nat /\ Count(mark, l, S) \in Nat
        <3>1. q + y \in Nat /\ k \in Nat
            BY <1>2, <2>1
        <3> QED
            BY <1>2, <1>3, <3>1
    <2> QED
        BY ONLY <2>1, <2>3, <2>4, <2>5
<1> QED
    BY <1>4, <1>5, <1>6

LEMMA CountAround ==
    ASSUME NEW v, NEW x, NEW n \in Nat, NEW p \in 0..n, NEW mark, NEW l \in Nat,
           Within(v, x, n, p, mark, l), NEW S
    PROVE  Count(v, n + l, S) = Count(x, n, S) + Count(mark, l, S)
<1>1. n \in p..n
    OBVIOUS
<1>2. /\ \A i \in 0..l : Count(v, p + i, S) = Count(x, p, S) + Count(mark, i, S)
      /\ \A k \in p..n : Count(v, k + l, S) = Count(x, k, S) + Count(mark, l, S)
    BY CountWithin
<1> QED
    BY <1>1, <1>2

\* The first p bytes are the record's, and the first d marks stand after them.
LettersTo(x, p)     == \A k \in 1..p : x[k] = k
NoneBefore(f, d, p) == \A j \in 1..d : f[j] \in Mark /\ f[j].offset >= p

\* A mark of l bytes that opens, or closes.
Told(mark, l, c) ==
    /\ \A i \in 1..l : mark[i] \notin Kept
    /\ Count(mark, l, {Opening}) = IF c THEN 0 ELSE 1
    /\ Count(mark, l, {Closing}) = IF c THEN 1 ELSE 0

AllMarked(x, n, f, d) == \A k \in 0..n : MarkedAt(x, f, d, k)

LEMMA LettersCount ==
    ASSUME NEW x, NEW p \in Nat, LettersTo(x, p), NEW k \in 0..p
    PROVE  /\ Count(x, k, Kept) = k
           /\ Count(x, k, {Opening}) = 0 /\ Count(x, k, {Closing}) = 0
<1>1. k \in Nat
    OBVIOUS
<1>2. \A j \in 1..k : x[j] \in Kept /\ x[j] \notin {Opening} /\ x[j] \notin {Closing}
    BY DEF LettersTo, Kept, Opening, Closing
<1>3. Count(x, k, Kept) = k
    BY <1>1, <1>2, CountAll
<1>4. Count(x, k, {Opening}) = 0 /\ Count(x, k, {Closing}) = 0
    BY <1>1, <1>2, CountNone
<1> QED
    BY <1>3, <1>4

LEMMA NoneCounted ==
    ASSUME NEW f, NEW d \in Nat, NEW p \in Nat, NoneBefore(f, d, p), NEW k \in 0..p
    PROVE  Count(f, d, Starts(k)) = 0 /\ Count(f, d, EndsBefore(k)) = 0
<1>1. ASSUME NEW j \in 1..d PROVE f[j] \notin Starts(k) /\ f[j] \notin EndsBefore(k)
    <2>1. f[j] \in Mark /\ f[j].offset >= p
        BY DEF NoneBefore
    <2>2. f[j].offset \in Nat
        BY <2>1 DEF Mark
    <2>3. ~(f[j].offset < k)
        BY <2>1, <2>2
    <2> QED
        BY <2>3 DEF Starts, EndsBefore
<1> QED
    BY <1>1, CountNone

\* A mark inserted before those inserted already.
LEMMA InsertedMarked ==
    ASSUME NEW v, NEW x, NEW n \in Nat, NEW p \in 0..n, NEW mark, NEW l \in Nat,
           Within(v, x, n, p, mark, l),
           NEW f, NEW d \in Nat, NoneBefore(f, d + 1, p), f[d + 1].offset = p,
           LettersTo(x, p), Told(mark, l, f[d + 1].closing), AllMarked(x, n, f, d)
    PROVE  AllMarked(v, n + l, f, d + 1)
<1>1. PICK e \in Nat, c \in BOOLEAN : e = d + 1 /\ c = f[e].closing
    <2>1. d + 1 \in 1..(d + 1)
        OBVIOUS
    <2>2. f[d + 1] \in Mark
        BY <2>1 DEF NoneBefore
    <2>3. f[d + 1].closing \in BOOLEAN
        BY <2>2 DEF Mark
    <2> QED
        BY <2>3
<1>2. /\ p \in Nat /\ p <= n /\ NoneBefore(f, e, p) /\ f[e].offset = p /\ f[e] \in Mark
      /\ Told(mark, l, c) /\ e \in 1..e
    <2>1. e \in 1..e /\ p \in Nat /\ p <= n
        BY <1>1
    <2> QED
        BY <1>1, <2>1 DEF NoneBefore
\* What the next mark adds.
<1>3. ASSUME NEW S
      PROVE  /\ Count(f, d, S) \in Nat /\ Count(f, e, S) \in Nat
             /\ Count(f, e, S) = Count(f, d, S) + Adds(f[e], S)
    BY <1>1, CountTurn
<1>4. ASSUME NEW i \in 0..l
      PROVE  /\ Count(mark, i, Kept) = 0
             /\ Count(mark, i, {Opening}) \in 0..(IF c THEN 0 ELSE 1)
             /\ Count(mark, i, {Closing}) \in 0..(IF c THEN 1 ELSE 0)
    <2>1. \A j \in 1..i : mark[j] \notin Kept
        BY <1>2 DEF Told
    <2>2. Count(mark, i, {Opening}) \in Nat /\ Count(mark, i, {Closing}) \in Nat
        BY CountTurn
    <2>3. Count(mark, i, {Opening}) <= Count(mark, l, {Opening})
          /\ Count(mark, i, {Closing}) <= Count(mark, l, {Closing})
        BY CountGrows
    <2>4. i \in Nat
        OBVIOUS
    <2>5. Count(mark, i, Kept) = 0
        BY <2>1, <2>4, CountNone
    <2> QED
        BY <1>2, <2>2, <2>3, <2>5 DEF Told
<1>5. ASSUME NEW S
      PROVE  /\ \A i \in 0..l : Count(v, p + i, S) = Count(x, p, S) + Count(mark, i, S)
             /\ \A k \in p..n : Count(v, k + l, S) = Count(x, k, S) + Count(mark, l, S)
    BY CountWithin
<1>6. ASSUME NEW k \in 0..p PROVE MarkedAt(v, f, e, k)
    <2>1. /\ Count(v, k, Kept) = k /\ Count(v, k, {Opening}) = 0 /\ Count(v, k, {Closing}) = 0
        <3>1. LettersTo(v, p)
            BY DEF LettersTo, Within
        <3> QED
            BY <1>2, <3>1, LettersCount
    <2>2. Count(f, e, Starts(k)) = 0 /\ Count(f, e, EndsBefore(k)) = 0
        BY <1>2, NoneCounted
    <2>3. Count(f, e, Ends(k)) \in Nat
        BY <1>3
    <2>4. k > 0 => v[k] = k
        BY DEF Within, LettersTo
    <2> QED
        BY <2>1, <2>2, <2>3, <2>4 DEF MarkedAt
<1>7. ASSUME NEW i \in 1..l PROVE MarkedAt(v, f, e, p + i)
    <2>1. /\ Count(v, p + i, Kept) = Count(x, p, Kept) + Count(mark, i, Kept)
          /\ Count(v, p + i, {Opening}) = Count(x, p, {Opening}) + Count(mark, i, {Opening})
          /\ Count(v, p + i, {Closing}) = Count(x, p, {Closing}) + Count(mark, i, {Closing})
        <3>1. i \in 0..l
            OBVIOUS
        <3> QED
            BY <1>5, <3>1
    <2>2. /\ Count(x, p, Kept) = p /\ Count(x, p, {Opening}) = 0 /\ Count(x, p, {Closing}) = 0
        <3>1. p \in 0..p
            BY <1>2
        <3> QED
            BY <1>2, <3>1, LettersCount
    <2>3. PICK a \in Nat, b \in Nat : /\ a = Count(mark, i, {Opening}) /\ b = Count(mark, i, {Closing})
                                      /\ b <= IF c THEN 1 ELSE 0
        <3>1. i \in 0..l
            OBVIOUS
        <3> QED
            BY <1>4, <3>1
    <2>4. Count(mark, i, Kept) = 0
        <3>1. i \in 0..l
            OBVIOUS
        <3> QED
            BY <1>4, <3>1
    <2>5. /\ Count(v, p + i, Kept) = p /\ Count(v, p + i, {Opening}) = a
          /\ Count(v, p + i, {Closing}) = b
        BY ONLY <1>2, <2>1, <2>2, <2>3, <2>4
    <2>6. Count(f, e, Starts(p)) = 0
        <3>1. p \in 0..p
            BY <1>2
        <3> QED
            BY <1>2, <3>1, NoneCounted
    <2>7. b <= Count(f, e, Ends(p)) /\ Count(f, e, Ends(p)) \in Nat
        <3>1. ASSUME c PROVE f[e] \in Ends(p)
            <4>1. p <= p /\ f[e].closing
                BY <1>1, <1>2, <3>1
            <4> QED
                BY <1>2, <4>1 DEF Ends
        <3>2. /\ Count(f, d, Ends(p)) \in Nat /\ Count(f, e, Ends(p)) \in Nat
              /\ Count(f, e, Ends(p)) = Count(f, d, Ends(p)) + Adds(f[e], Ends(p))
            BY <1>3
        <3>3. Adds(f[e], Ends(p)) \in Nat /\ (c => Adds(f[e], Ends(p)) = 1)
            BY <3>1 DEF Adds
        <3> QED
            BY ONLY <2>3, <3>2, <3>3, b \in Nat
    <2>8. v[p + i] \notin Kept
        BY <1>2 DEF Within, Told
    <2> QED
        BY ONLY <2>3, <2>5, <2>6, <2>7, <2>8 DEF MarkedAt
<1>8. ASSUME NEW k \in (p + 1)..n PROVE MarkedAt(v, f, e, k + l)
    <2>1. k \in Nat /\ k > 0 /\ k \in p..n /\ k \in 0..n /\ p \in 0..k /\ p \in 0..(k - 1)
          /\ k - 1 \in Nat /\ (k - 1) + 1 = k /\ l \in 0..l
        BY <1>2
    <2>2. PICK o \in Nat, a \in Nat, b \in Nat :
              o = Count(x, k, Kept) /\ a = Count(x, k, {Opening}) /\ b = Count(x, k, {Closing})
        BY <2>1, CountTurn
    <2>3. /\ Count(v, k + l, Kept) = o
          /\ Count(v, k + l, {Opening}) = a + (IF c THEN 0 ELSE 1)
          /\ Count(v, k + l, {Closing}) = b + (IF c THEN 1 ELSE 0)
        <3>1. /\ Count(v, k + l, Kept) = Count(x, k, Kept) + Count(mark, l, Kept)
              /\ Count(v, k + l, {Opening}) = Count(x, k, {Opening}) + Count(mark, l, {Opening})
              /\ Count(v, k + l, {Closing}) = Count(x, k, {Closing}) + Count(mark, l, {Closing})
            BY <1>5, <2>1
        <3>2. Count(mark, l, Kept) = 0
            BY <1>4, <2>1
        <3>3. /\ Count(mark, l, {Opening}) = IF c THEN 0 ELSE 1
              /\ Count(mark, l, {Closing}) = IF c THEN 1 ELSE 0
            BY <1>2 DEF Told
        <3> QED
            BY ONLY <2>2, <3>1, <3>2, <3>3, c \in BOOLEAN
    <2>4. o >= p /\ (x[k] \in Kept => o >= p + 1)
        <3>1. Count(x, p, Kept) = p
            <4>1. p \in 0..p
                BY <1>2
            <4> QED
                BY <1>2, <4>1, LettersCount
        <3>2. Count(x, p, Kept) <= Count(x, k, Kept) /\ Count(x, p, Kept) <= Count(x, k - 1, Kept)
            BY <2>1, CountGrows
        <3>3. PICK m \in Nat : m = k - 1 /\ m + 1 = k
            BY <2>1
        <3>4. Count(x, m, Kept) \in Nat /\ Count(x, m + 1, Kept) = Count(x, m, Kept) + Adds(x[m + 1], Kept)
            BY CountTurn
        <3>5. x[k] \in Kept => Adds(x[m + 1], Kept) = 1
            BY <3>3 DEF Adds
        <3> QED
            BY ONLY <1>2, <2>2, <3>1, <3>2, <3>3, <3>4, <3>5
    <2>5. /\ a >= Count(f, d, Starts(o)) /\ b <= Count(f, d, Ends(o))
          /\ x[k] \in Kept => /\ x[k] = o /\ a = Count(f, d, Starts(o))
                              /\ b = Count(f, d, EndsBefore(o))
        <3>1. MarkedAt(x, f, d, k)
            BY <2>1 DEF AllMarked
        <3> QED
            BY <2>1, <2>2, <3>1 DEF MarkedAt
    <2>6. v[k + l] = x[k]
        <3>1. PICK i \in 1..(n - p) : k = p + i /\ p + l + i = k + l
            <4>1. k - p \in 1..(n - p) /\ k = p + (k - p) /\ p + l + (k - p) = k + l
                BY <1>2, <2>1
            <4> QED
                BY <4>1
        <3>2. v[p + l + i] = x[p + i]
            BY DEF Within
        <3> QED
            BY <3>1, <3>2
    <2>7. /\ f[e] \in Starts(o) <=> ~c /\ p < o
          /\ f[e] \in Ends(o) <=> c /\ p <= o
          /\ f[e] \in EndsBefore(o) <=> c /\ p < o
        BY <1>1, <1>2 DEF Starts, Ends, EndsBefore
    <2>8. ASSUME NEW S
          PROVE  Count(f, d, S) \in Nat /\ Count(f, e, S) = Count(f, d, S) + IF f[e] \in S THEN 1 ELSE 0
        BY <1>3 DEF Adds
    <2>9. PICK st \in Nat, en \in Nat, eb \in Nat :
              st = Count(f, d, Starts(o)) /\ en = Count(f, d, Ends(o)) /\ eb = Count(f, d, EndsBefore(o))
        BY <2>8
    <2>10. /\ Count(f, e, Starts(o)) = st + (IF ~c /\ p < o THEN 1 ELSE 0)
           /\ Count(f, e, Ends(o)) = en + (IF c /\ p <= o THEN 1 ELSE 0)
           /\ Count(f, e, EndsBefore(o)) = eb + (IF c /\ p < o THEN 1 ELSE 0)
        BY <2>7, <2>8, <2>9
    <2>11. /\ a + (IF c THEN 0 ELSE 1) >= Count(f, e, Starts(o))
           /\ b + (IF c THEN 1 ELSE 0) <= Count(f, e, Ends(o))
           /\ x[k] \in Kept => /\ x[k] = o
                               /\ a + (IF c THEN 0 ELSE 1) = Count(f, e, Starts(o))
                               /\ b + (IF c THEN 1 ELSE 0) = Count(f, e, EndsBefore(o))
        BY ONLY <1>2, <2>4, <2>5, <2>9, <2>10, o \in Nat, a \in Nat, b \in Nat, c \in BOOLEAN
    <2> QED
        BY ONLY <2>3, <2>6, <2>11 DEF MarkedAt
<1>9. ASSUME NEW k \in 0..(n + l) PROVE MarkedAt(v, f, e, k)
    <2>1. CASE k <= p
        <3>1. k \in 0..p
            BY <2>1
        <3> QED
            BY <1>6, <3>1
    <2>2. CASE k > p /\ k <= p + l
        <3>1. k - p \in 1..l /\ p + (k - p) = k
            BY <1>2, <2>2
        <3>2. MarkedAt(v, f, e, p + (k - p))
            BY <1>7, <3>1
        <3> QED
            BY <3>1, <3>2
    <2>3. CASE k > p + l
        <3>1. k - l \in (p + 1)..n /\ (k - l) + l = k
            BY <1>2, <2>3
        <3>2. MarkedAt(v, f, e, (k - l) + l)
            BY <1>8, <3>1
        <3> QED
            BY <3>1, <3>2
    <2> QED
        BY <1>2, <2>1, <2>2, <2>3
<1> QED
    BY <1>1, <1>9 DEF AllMarked

\* The marks that were inserted are those of the spots, and each byte of the buffer
\* stands between them as it stands between the spots.
NestInv ==
    /\ ToldApart /\ pc = "done" =>
          \A S : Count(h, s - 1, S) = Count(MarksOf(input.spots), 2 * nspots, S)
    /\ Fresh /\ ToldApart /\ pc \in {"insert", "done"} =>
          /\ AllMarked(xml, xmlsize, h, s - 1)
          /\ Count(xml, xmlsize, {Opening}) = Count(h, s - 1, Opens)
          /\ Count(xml, xmlsize, {Closing}) = Count(h, s - 1, Closes)

\* Nothing is inserted yet.
LEMMA NothingMarked ==
    ASSUME NEW n \in Nat, NEW f
    PROVE  /\ AllMarked(TextOf(n), n + 1, f, 0)
           /\ Count(TextOf(n), n + 1, {Opening}) = 0 /\ Count(f, 0, Opens) = 0
           /\ Count(TextOf(n), n + 1, {Closing}) = 0 /\ Count(f, 0, Closes) = 0
<1>1. PICK x, m : x = TextOf(n) /\ m = n + 1 /\ m \in Nat
    OBVIOUS
<1>2. /\ \A k \in 1..m : x[k] \notin {Opening} /\ x[k] \notin {Closing}
      /\ \A k \in 1..n : x[k] = k
      /\ x[m] = NUL
    BY <1>1 DEF TextOf, Opening, Closing, NUL
<1>3. ASSUME NEW S PROVE Count(f, 0, S) = 0
    BY 0 \in Nat, CountTurn
<1>4. ASSUME NEW k \in 0..m
      PROVE  Count(x, k, {Opening}) = 0 /\ Count(x, k, {Closing}) = 0
    <2>1. k \in Nat /\ \A j \in 1..k : x[j] \notin {Opening} /\ x[j] \notin {Closing}
        BY <1>1, <1>2
    <2> QED
        BY <2>1, CountNone
<1>5. ASSUME NEW k \in 0..m PROVE MarkedAt(x, f, 0, k)
    <2>1. CASE k <= n
        <3>1. LettersTo(x, n) /\ k \in 0..n
            BY <1>2, <2>1 DEF LettersTo
        <3>2. Count(x, k, Kept) = k
            BY <3>1, LettersCount
        <3>3. k > 0 => x[k] = k
            BY <1>2, <2>1
        <3> QED
            BY ONLY <1>3, <1>4, <3>2, <3>3, k \in 0..m DEF MarkedAt
    <2>2. CASE k = m
        <3>1. x[k] \notin Kept
            BY <1>2, <2>2 DEF Kept, NUL
        <3> QED
            BY ONLY <1>3, <1>4, <3>1, k \in 0..m DEF MarkedAt
    <2> QED
        BY <1>1, <2>1, <2>2
<1>6. m \in 0..m
    BY <1>1
<1> QED
    BY <1>1, <1>3, <1>4, <1>5, <1>6 DEF AllMarked

LEMMA InitNest == Init => NestInv
BY DEF Init, NestInv

LEMMA FillNest == HighlightInv /\ Fill => NestInv'
<1> SUFFICES ASSUME HighlightInv, Fill PROVE NestInv'
    OBVIOUS
<1>1. /\ pc = "fill" /\ UNCHANGED <<input, xml, s, ss>> /\ pc' \in {"sort", "done"} /\ s = 1
      /\ TypeOK
    BY DEF Fill, HighlightInv, TypeOK
<1>2. CASE pc' = "sort"
    BY <1>2 DEF NestInv
<1>3. CASE pc' = "done"
    <2>1. SUFFICES ASSUME ToldApart' PROVE NestInv'
        BY DEF NestInv
    <2>2. h' = h /\ nspots = 0 /\ nspots' = 0
        <3>1. Marked /\ nspots \in Nat
            BY <1>1, <2>1, RoomIs DEF ToldApart, Marked
        <3> QED
            BY <1>1, <1>3, <3>1 DEF Fill, Marked, nspots
    <2>3. xml = TextOf(input.length) /\ input.length \in Nat /\ xmlsize = input.length + 1
        BY <1>1, RoomIs, TextOfIs DEF HighlightInv, PlaceKept, xmlsize
    <2>4. /\ AllMarked(xml, xmlsize, h, 0)
          /\ Count(xml, xmlsize, {Opening}) = 0 /\ Count(h, 0, Opens) = 0
          /\ Count(xml, xmlsize, {Closing}) = 0 /\ Count(h, 0, Closes) = 0
        BY <2>3, NothingMarked
    <2>5. s' - 1 = 0 /\ 2 * nspots' = 0 /\ xmlsize' = xmlsize /\ xml' = xml
        BY <1>1, <2>2 DEF xmlsize
    <2>6. ASSUME NEW S PROVE Count(h, 0, S) = Count(MarksOf(input'.spots), 0, S)
        BY 0 \in Nat, CountTurn
    <2> QED
        BY <2>2, <2>4, <2>5, <2>6 DEF NestInv
<1> QED
    BY <1>1, <1>2, <1>3

LEMMA CompareNest == HighlightInv /\ Compare => NestInv'
<1> SUFFICES ASSUME HighlightInv, Compare, pc' = "insert" PROVE NestInv'
    BY DEF Compare, HighlightInv, TypeOK, NestInv
<1>1. pc = "sort" /\ UNCHANGED <<input, xml>> /\ s' = 1 /\ TypeOK
    BY DEF Compare, HighlightInv, TypeOK
<1>2. xml = TextOf(input.length) /\ input.length \in Nat /\ xmlsize = input.length + 1
    BY <1>1, RoomIs, TextOfIs DEF HighlightInv, PlaceKept, xmlsize
<1>3. /\ AllMarked(xml, xmlsize, h', 0)
      /\ Count(xml, xmlsize, {Opening}) = 0 /\ Count(h', 0, Opens) = 0
      /\ Count(xml, xmlsize, {Closing}) = 0 /\ Count(h', 0, Closes) = 0
    BY <1>2, NothingMarked
<1>4. s' - 1 = 0 /\ xmlsize' = xmlsize /\ xml' = xml
    BY <1>1 DEF xmlsize
<1> QED
    BY <1>3, <1>4 DEF NestInv

LEMMA InsertNest == HighlightInv /\ TextInv /\ NestInv /\ Insert => NestInv'
<1> SUFFICES ASSUME HighlightInv, TextInv, NestInv, Insert, ToldApart PROVE NestInv'
    BY DEF NestInv, Insert, ToldApart, Marked
<1>1. /\ pc = "insert" /\ UNCHANGED <<input, h, ss>> /\ TypeOK
      /\ xml \in Seq(Int) /\ nspots' = nspots /\ s \in 1..(2 * nspots) /\ nspots \in Nat
      /\ h \in [1..(2 * nspots) -> Mark]
    <2>1. TypeOK /\ pc = "insert" /\ UNCHANGED <<input, h, ss>>
        BY DEF HighlightInv, Insert
    <2>2. nspots \in Nat
        BY <2>1, RoomIs
    <2> QED
        BY <2>1, <2>2 DEF TypeOK, nspots, Mark
<1>2. PICK d \in Nat : d = s - 1 /\ d + 1 = s
    BY <1>1
<1>3. PICK mark : mark = IF h[s].closing THEN input.markout ELSE input.markin
    OBVIOUS
<1>4. h[s].closing \in BOOLEAN /\ h[s].offset \in Nat
    <2>1. h[s] \in Mark
        BY <1>1
    <2> QED
        BY <2>1 DEF Mark
<1>5. PICK l \in Nat : l = Len(mark) /\ mark \in Seq(Int) /\ Told(mark, l, h[s].closing)
    <2>1. mark \in Seq(MarkBytes)
        BY <1>1, <1>3, <1>4 DEF TypeOK, IsInput
    <2>2. MarkBytes \subseteq Int
        BY DEF MarkBytes
    <2>3. mark \in Seq(Int)
        BY <2>1, <2>2, SeqSubset
    <2>4. \A i \in 1..Len(mark) : mark[i] \notin Kept
        BY <2>1, ElementOfSeq DEF MarkBytes, Kept
    <2>5. Len(mark) \in Nat
        BY <2>3, LenProperties
    <2>6. /\ Count(mark, Len(mark), {Opening}) = IF h[s].closing THEN 0 ELSE 1
          /\ Count(mark, Len(mark), {Closing}) = IF h[s].closing THEN 1 ELSE 0
        BY <1>3, <1>4 DEF ToldApart, Holds, Lacks
    <2> QED
        BY <2>3, <2>4, <2>5, <2>6 DEF Told
<1>6. ASSUME pc' = "done"
      PROVE  \A S : Count(h, s' - 1, S) = Count(MarksOf(input.spots), 2 * nspots, S)
    <2>1. s' - 1 = 2 * nspots
        BY <1>1, <1>6 DEF Insert
    <2>2. \A S : Count(h, 2 * nspots, S) = Count(MarksOf(input.spots), 2 * nspots, S)
        BY <1>1 DEF TextInv, Permuted
    <2> QED
        BY ONLY <2>1, <2>2
<1>7. ASSUME Fresh, pc' \in {"insert", "done"}
      PROVE  /\ AllMarked(xml', Len(xml'), h, s' - 1)
             /\ Count(xml', Len(xml'), {Opening}) = Count(h, s' - 1, Opens)
             /\ Count(xml', Len(xml'), {Closing}) = Count(h, s' - 1, Closes)
    <2>1. mark # << >>
        <3>1. SUFFICES ASSUME mark = << >> PROVE FALSE
            OBVIOUS
        <3>2. l = 0
            BY <1>5, <3>1
        <3>3. Count(mark, 0, {Opening}) = 0 /\ Count(mark, 0, {Closing}) = 0
            BY 0 \in Nat, CountTurn
        <3> QED
            BY <1>5, <3>2, <3>3 DEF Told
    <2>2. PICK p \in Nat, n \in Nat : p = h[s].offset /\ n = Len(xml)
        BY <1>1, <1>4, LenProperties
    <2>3. s' - 1 = d + 1 /\ xml' = SubSeq(xml, 1, p) \o mark \o SubSeq(xml, p + 1, n) /\ p <= n
        <3>1. IF mark = << >> \/ h[s].offset <= xmlsize
              THEN /\ xml' = IF mark = << >> THEN xml ELSE Splice(h[s].offset, mark)
                   /\ s' = s + 1
              ELSE pc' = "fault"
            BY <1>3 DEF Insert
        <3>2. xmlsize = n
            BY <2>2 DEF xmlsize
        <3>3. h[s].offset <= xmlsize /\ xml' = Splice(h[s].offset, mark) /\ s' = s + 1
            BY <1>7, <2>1, <3>1
        <3>4. Splice(h[s].offset, mark) = SubSeq(xml, 1, p) \o mark \o SubSeq(xml, p + 1, n)
            BY ONLY <2>2, <3>2 DEF Splice
        <3>5. s' - 1 = d + 1 /\ p <= n
            BY <1>1, <1>2, <2>2, <3>2, <3>3
        <3> QED
            BY ONLY <3>3, <3>4, <3>5
    <2>4. Len(xml') = n + l /\ Within(xml', xml, n, p, mark, l)
        <3>1. p \in 0..Len(xml)
            BY <2>2, <2>3
        <3> QED
            BY ONLY <1>1, <1>5, <2>2, <2>3, <3>1, SplicedAt
    <2>5. LettersTo(xml, p) /\ NoneBefore(h, d + 1, p) /\ h[d + 1].offset = p
        <3>1. LettersTo(xml, p)
            BY <1>1, <1>7, <2>2 DEF HighlightInv, PlaceKept, LettersTo
        <3>2. ASSUME NEW j \in 1..(d + 1) PROVE h[j] \in Mark /\ h[j].offset >= p
            <4>1. j \in 1..(2 * nspots) /\ (j < s \/ j = s)
                BY <1>1, <1>2
            <4> QED
                BY <1>1, <1>4, <2>2, <4>1 DEF HighlightInv, SortedSoFar
        <3> QED
            BY <1>2, <2>2, <3>1, <3>2 DEF NoneBefore
    <2>6. /\ AllMarked(xml, n, h, d)
          /\ Count(xml, n, {Opening}) = Count(h, d, Opens)
          /\ Count(xml, n, {Closing}) = Count(h, d, Closes)
        BY <1>1, <1>2, <1>7, <2>2 DEF NestInv, xmlsize
    <2>7. AllMarked(xml', n + l, h, d + 1)
        <3>1. Told(mark, l, h[d + 1].closing) /\ p \in 0..n
            BY <1>2, <1>5, <2>3
        <3> QED
            BY <2>4, <2>5, <2>6, <3>1, InsertedMarked
    <2>8. ASSUME NEW S PROVE Count(xml', n + l, S) = Count(xml, n, S) + Count(mark, l, S)
        <3>1. p \in 0..n
            BY <2>3
        <3>2. PICK v : v = xml'
            OBVIOUS
        <3>3. Within(v, xml, n, p, mark, l)
            BY <2>4, <3>2
        <3>4. Count(v, n + l, S) = Count(xml, n, S) + Count(mark, l, S)
            BY ONLY <3>1, <3>3, n \in Nat, l \in Nat, CountAround
        <3> QED
            BY <3>2, <3>4
    <2>9. /\ Count(h, d + 1, Opens) = Count(h, d, Opens) + Count(mark, l, {Opening})
          /\ Count(h, d + 1, Closes) = Count(h, d, Closes) + Count(mark, l, {Closing})
        <3>1. /\ Count(h, d + 1, Opens) = Count(h, d, Opens) + Adds(h[d + 1], Opens)
              /\ Count(h, d + 1, Closes) = Count(h, d, Closes) + Adds(h[d + 1], Closes)
            BY CountTurn
        <3>2. /\ Adds(h[d + 1], Opens) = Count(mark, l, {Opening})
              /\ Adds(h[d + 1], Closes) = Count(mark, l, {Closing})
            <4>1. h[d + 1] \in Opens <=> ~h[s].closing
                BY <1>1, <1>2 DEF Opens
            <4>2. h[d + 1] \in Closes <=> h[s].closing
                BY <1>1, <1>2 DEF Closes
            <4> QED
                BY <1>4, <1>5, <4>1, <4>2 DEF Told, Adds
        <3> QED
            BY <3>1, <3>2
    <2> QED
        BY <2>3, <2>4, <2>6, <2>7, <2>8, <2>9
<1> QED
    BY <1>1, <1>6, <1>7 DEF NestInv, Fresh, xmlsize

LEMMA StutterNest == NestInv /\ UNCHANGED vars => NestInv'
BY DEF vars, NestInv, Fresh, ToldApart, Marked, xmlsize, nspots

\* What is counted in a string and its NUL.
LEMMA CountString ==
    ASSUME NEW t \in Seq(NonNul), NEW x, x = t \o <<NUL>>, NEW S
    PROVE  /\ \A k \in 0..Len(t) : Count(t, k, S) = Count(x, k, S)
           /\ NUL \notin S => Count(t, Len(t), S) = Count(x, Len(t) + 1, S)
<1>1. PICK n \in Nat : n = Len(t)
    BY LenProperties
<1>2. x[n + 1] = NUL /\ \A k \in 1..n : x[k] = t[k]
    BY <1>1, StringIs
<1>3. ASSUME NEW k \in 0..n PROVE Count(t, k, S) = Count(x, k, S)
    <2>1. {j \in 1..k : t[j] \in S} = {j \in 1..k : x[j] \in S}
        BY ONLY <1>2, n \in Nat, k \in 0..n
    <2> QED
        BY ONLY <2>1 DEF Count
<1>4. ASSUME NUL \notin S PROVE Count(t, n, S) = Count(x, n + 1, S)
    <2>1. Count(x, n + 1, S) = Count(x, n, S) + Adds(x[n + 1], S) /\ Count(x, n, S) \in Nat
        BY CountTurn
    <2>2. Adds(x[n + 1], S) = 0
        BY <1>2, <1>4 DEF Adds
    <2>3. n \in 0..n
        OBVIOUS
    <2>4. Count(t, n, S) = Count(x, n, S)
        BY <1>3, <2>3
    <2> QED
        BY ONLY <2>1, <2>2, <2>4
<1> QED
    BY <1>1, <1>3, <1>4

\* The spots that start before a byte, and those that end before it or at it.
StartSpots(spots, o)     == {i \in 1..Len(spots) : spots[i].start < o}
EndSpots(spots, o)       == {i \in 1..Len(spots) : EndOf(spots[i]) <= o}
EndBeforeSpots(spots, o) == {i \in 1..Len(spots) : EndOf(spots[i]) < o}

\* A mark for each.
LEMMA CountSpots ==
    ASSUME NEW spots \in Seq([start : Nat, len : Nat]), NEW o \in Nat
    PROVE  LET f == MarksOf(spots)
               d == 2 * Len(spots)
           IN  /\ Count(f, d, Starts(o)) = Cardinality(StartSpots(spots, o))
               /\ Count(f, d, Ends(o)) = Cardinality(EndSpots(spots, o))
               /\ Count(f, d, EndsBefore(o)) = Cardinality(EndBeforeSpots(spots, o))
<1>1. PICK n \in Nat : n = Len(spots)
    BY LenProperties
<1>2. \A i \in 1..n : spots[i].start \in Nat /\ EndOf(spots[i]) \in Nat
    <2>1. \A i \in 1..n : spots[i] \in [start : Nat, len : Nat]
        BY <1>1, ElementOfSeq
    <2>2. \A i \in 1..n : spots[i].start \in Nat /\ spots[i].len \in Nat
        BY <2>1
    <2> QED
        BY <2>2 DEF EndOf
<1>3. ASSUME NEW i \in 1..n
      PROVE  /\ OpeningOf(spots[i]) \in Starts(o) <=> spots[i].start < o
             /\ OpeningOf(spots[i]) \notin Ends(o) /\ OpeningOf(spots[i]) \notin EndsBefore(o)
             /\ ClosingOf(spots[i]) \notin Starts(o)
             /\ ClosingOf(spots[i]) \in Ends(o) <=> EndOf(spots[i]) <= o
             /\ ClosingOf(spots[i]) \in EndsBefore(o) <=> EndOf(spots[i]) < o
    <2>1. PICK a \in Nat, b \in Nat : a = spots[i].start /\ b = EndOf(spots[i])
        BY <1>2
    <2>2. PICK m, c : m = OpeningOf(spots[i]) /\ c = ClosingOf(spots[i])
        OBVIOUS
    <2>3. /\ m \in Mark /\ m.offset = a /\ m.closing = FALSE
          /\ c \in Mark /\ c.offset = b /\ c.closing = TRUE
        BY <2>1, <2>2 DEF OpeningOf, ClosingOf, Mark
    <2>4. /\ m \in Starts(o) <=> a < o
          /\ m \notin Ends(o) /\ m \notin EndsBefore(o)
          /\ c \notin Starts(o)
          /\ c \in Ends(o) <=> b <= o
          /\ c \in EndsBefore(o) <=> b < o
        BY ONLY <2>3 DEF Starts, Ends, EndsBefore
    <2> QED
        BY ONLY <2>1, <2>2, <2>4
<1>4. /\ {i \in 1..n : OpeningOf(spots[i]) \in Starts(o)} = StartSpots(spots, o)
      /\ {i \in 1..n : ClosingOf(spots[i]) \in Starts(o)} = {}
      /\ {i \in 1..n : OpeningOf(spots[i]) \in Ends(o)} = {}
      /\ {i \in 1..n : ClosingOf(spots[i]) \in Ends(o)} = EndSpots(spots, o)
      /\ {i \in 1..n : OpeningOf(spots[i]) \in EndsBefore(o)} = {}
      /\ {i \in 1..n : ClosingOf(spots[i]) \in EndsBefore(o)} = EndBeforeSpots(spots, o)
    BY ONLY <1>1, <1>3 DEF StartSpots, EndSpots, EndBeforeSpots
<1>5. /\ Cardinality({}) = 0
      /\ Cardinality(StartSpots(spots, o)) \in Nat
      /\ Cardinality(EndSpots(spots, o)) \in Nat
      /\ Cardinality(EndBeforeSpots(spots, o)) \in Nat
    <2>1. IsFiniteSet(1..n)
        BY ONLY n \in Nat, FS_Interval
    <2>2. /\ StartSpots(spots, o) \in SUBSET (1..n)
          /\ EndSpots(spots, o) \in SUBSET (1..n)
          /\ EndBeforeSpots(spots, o) \in SUBSET (1..n)
        BY <1>1 DEF StartSpots, EndSpots, EndBeforeSpots
    <2> QED
        BY <2>1, <2>2, FS_Subset, FS_CardinalityType, FS_EmptySet
<1>6. ASSUME NEW S
      PROVE  Count(MarksOf(spots), 2 * Len(spots), S)
                = Cardinality({i \in 1..n : OpeningOf(spots[i]) \in S})
                  + Cardinality({i \in 1..n : ClosingOf(spots[i]) \in S})
    BY <1>1, CountMarks
<1>7. /\ Count(MarksOf(spots), 2 * Len(spots), Starts(o)) = Cardinality(StartSpots(spots, o)) + 0
      /\ Count(MarksOf(spots), 2 * Len(spots), Ends(o)) = 0 + Cardinality(EndSpots(spots, o))
      /\ Count(MarksOf(spots), 2 * Len(spots), EndsBefore(o))
            = 0 + Cardinality(EndBeforeSpots(spots, o))
    BY ONLY <1>4, <1>5, <1>6, Zenon
<1> QED
    BY ONLY <1>5, <1>7

LEMMA InvNest == HighlightInv /\ TextInv /\ NestInv => MarksNest
<1> SUFFICES ASSUME HighlightInv, TextInv, NestInv, pc = "done", Fresh, ToldApart, Worded
             PROVE  /\ \A k \in 0..Len(Shown) : Depth(Shown, k) >= 0
                    /\ Depth(Shown, Len(Shown)) = 0
                    /\ \A k \in DOMAIN Shown : Shown[k] > 0 =>
                          (Depth(Shown, k) > 0 <=> \E i \in DOMAIN input.spots :
                                                     /\ input.spots[i].start < Shown[k]
                                                     /\ Shown[k] <= EndOf(input.spots[i]))
    BY DEF MarksNest
<1>1. PICK t \in Seq(NonNul) : xml = t \o <<NUL>>
    BY DEF TextInv, StringKept
<1>2. Shown = t
    BY <1>1, ShownIs
<1>3. PICK n \in Nat, spots \in Seq([start : Nat, len : Nat]) :
          n = Len(t) /\ spots = input.spots
    BY LenProperties DEF HighlightInv, TypeOK, IsInput
<1>4. PICK m \in Nat : m = Len(spots)
    BY <1>3, LenProperties
<1>5. xmlsize = n + 1 /\ DOMAIN t = 1..n /\ DOMAIN spots = 1..m /\ nspots = m
    BY <1>1, <1>3, <1>4, StringIs, LenProperties DEF xmlsize, nspots
<1>6. /\ AllMarked(xml, n + 1, h, s - 1)
      /\ Count(xml, n + 1, {Opening}) = Count(h, s - 1, Opens)
      /\ Count(xml, n + 1, {Closing}) = Count(h, s - 1, Closes)
      /\ \A S : Count(h, s - 1, S) = Count(MarksOf(spots), 2 * m, S)
    BY <1>3, <1>5 DEF NestInv
<1>7. \A i \in 1..m : /\ spots[i].start \in Nat /\ EndOf(spots[i]) \in Nat
                      /\ spots[i].start < EndOf(spots[i])
    <2>1. \A i \in 1..m : spots[i] \in [start : Nat, len : Nat]
        BY <1>4, ElementOfSeq
    <2>2. \A i \in 1..m : spots[i].start \in Nat /\ spots[i].len \in Nat
        BY <2>1
    <2>3. \A i \in 1..m : spots[i].len > 0
        BY <1>3, <1>5 DEF Worded
    <2>4. ASSUME NEW i \in 1..m
          PROVE  /\ spots[i].start \in Nat /\ EndOf(spots[i]) \in Nat
                 /\ spots[i].start < EndOf(spots[i])
        <3>1. PICK a \in Nat, b \in Nat : a = spots[i].start /\ b = spots[i].len /\ b > 0
            BY ONLY <2>2, <2>3, i \in 1..m
        <3>2. EndOf(spots[i]) = a + b
            <4>1. spots[i].start = a /\ spots[i].len = b
                BY ONLY <3>1
            <4> QED
                BY ONLY <4>1, Zenon DEF EndOf
        <3>3. a + b \in Nat /\ a < a + b
            <4>1. b > 0
                BY ONLY <3>1
            <4> QED
                BY ONLY <4>1, a \in Nat, b \in Nat
        <3>4. spots[i].start \in Nat
            BY ONLY <3>1, a \in Nat, Zenon
        <3> QED
            BY ONLY <3>1, <3>2, <3>3, <3>4
    <2> QED
        BY ONLY <2>4
\* As many as k bytes of the text: o of them are the record's.
<1>8. ASSUME NEW k \in 0..n
      PROVE  \E o \in Nat, a \in Nat, b \in Nat :
                /\ a = Count(t, k, {Opening}) /\ b = Count(t, k, {Closing})
                /\ a >= Cardinality(StartSpots(spots, o))
                /\ b <= Cardinality(EndSpots(spots, o))
                /\ k > 0 /\ t[k] \in Kept =>
                      /\ t[k] = o
                      /\ a = Cardinality(StartSpots(spots, o))
                      /\ b = Cardinality(EndBeforeSpots(spots, o))
    <2>1. PICK o \in Nat, a \in Nat, b \in Nat :
              o = Count(xml, k, Kept) /\ a = Count(xml, k, {Opening}) /\ b = Count(xml, k, {Closing})
        <3>1. k \in Nat
            OBVIOUS
        <3>2. ASSUME NEW S PROVE Count(xml, k, S) \in Nat
            BY ONLY <3>1, CountTurn
        <3> QED
            BY ONLY <3>2
    <2>2. ASSUME NEW S PROVE Count(t, k, S) = Count(xml, k, S)
        <3>1. k \in 0..Len(t)
            BY <1>3
        <3> QED
            BY ONLY <1>1, <3>1, t \in Seq(NonNul), CountString
    <2>3. MarkedAt(xml, h, s - 1, k)
        <3>1. k \in 0..(n + 1)
            OBVIOUS
        <3> QED
            BY <1>6, <3>1 DEF AllMarked
    <2>4. k > 0 => xml[k] = t[k]
        <3>1. \A j \in 1..n : xml[j] = t[j]
            BY <1>1, <1>3, StringIs
        <3> QED
            BY <3>1
    <2>5. /\ Count(h, s - 1, Starts(o)) = Cardinality(StartSpots(spots, o))
          /\ Count(h, s - 1, Ends(o)) = Cardinality(EndSpots(spots, o))
          /\ Count(h, s - 1, EndsBefore(o)) = Cardinality(EndBeforeSpots(spots, o))
        BY <1>4, <1>6, CountSpots
    <2>6. /\ a >= Count(h, s - 1, Starts(o)) /\ b <= Count(h, s - 1, Ends(o))
          /\ k > 0 /\ xml[k] \in Kept => /\ xml[k] = o
                                         /\ a = Count(h, s - 1, Starts(o))
                                         /\ b = Count(h, s - 1, EndsBefore(o))
        BY <2>1, <2>3 DEF MarkedAt
    <2>7. a = Count(t, k, {Opening}) /\ b = Count(t, k, {Closing})
        BY ONLY <2>1, <2>2
    <2>8. k > 0 /\ t[k] \in Kept => /\ t[k] = o
                                    /\ a = Cardinality(StartSpots(spots, o))
                                    /\ b = Cardinality(EndBeforeSpots(spots, o))
        BY ONLY <2>4, <2>5, <2>6
    <2>9. a >= Cardinality(StartSpots(spots, o)) /\ b <= Cardinality(EndSpots(spots, o))
        BY ONLY <2>5, <2>6
    <2> QED
        BY <2>7, <2>8, <2>9
\* What ends at or before a byte starts before it.
<1>9. ASSUME NEW o \in Nat
      PROVE  \E x \in Nat, y \in Nat, w \in Nat :
                /\ x = Cardinality(StartSpots(spots, o)) /\ y = Cardinality(EndSpots(spots, o))
                /\ w = Cardinality(EndBeforeSpots(spots, o))
                /\ y <= x /\ w <= x
                /\ x # w <=> \E i \in 1..m : spots[i].start < o /\ o <= EndOf(spots[i])
    <2>1. PICK A, B, C : /\ A = StartSpots(spots, o) /\ B = EndSpots(spots, o)
                         /\ C = EndBeforeSpots(spots, o)
        OBVIOUS
    <2>2. A \in SUBSET (1..m) /\ B \in SUBSET A /\ C \in SUBSET A
        BY <1>4, <1>7, <2>1 DEF StartSpots, EndSpots, EndBeforeSpots
    <2>3. A # C <=> \E i \in 1..m : spots[i].start < o /\ o <= EndOf(spots[i])
        BY <1>4, <1>7, <2>1 DEF StartSpots, EndBeforeSpots
    <2>4. IsFiniteSet(1..m)
        BY ONLY m \in Nat, FS_Interval
    <2>5. IsFiniteSet(A) /\ IsFiniteSet(B) /\ IsFiniteSet(C)
        BY ONLY <2>2, <2>4, FS_Subset
    <2>6. /\ Cardinality(B) <= Cardinality(A) /\ Cardinality(C) <= Cardinality(A)
          /\ Cardinality(A) = Cardinality(C) => A = C
        BY ONLY <2>2, <2>5, FS_Subset
    <2>7. Cardinality(A) \in Nat /\ Cardinality(B) \in Nat /\ Cardinality(C) \in Nat
        BY ONLY <2>5, FS_CardinalityType
    <2> QED
        BY <2>1, <2>3, <2>6, <2>7
<1>10. ASSUME NEW k \in 0..n PROVE Depth(t, k) >= 0
    <2>1. PICK o \in Nat, a \in Nat, b \in Nat :
              /\ a = Count(t, k, {Opening}) /\ b = Count(t, k, {Closing})
              /\ a >= Cardinality(StartSpots(spots, o))
              /\ b <= Cardinality(EndSpots(spots, o))
        BY <1>8
    <2>2. PICK x \in Nat, y \in Nat : /\ x = Cardinality(StartSpots(spots, o))
                                      /\ y = Cardinality(EndSpots(spots, o)) /\ y <= x
        BY <1>9
    <2>3. a - b >= 0
        BY ONLY <2>1, <2>2
    <2> QED
        BY ONLY <2>1, <2>3 DEF Depth
<1>11. Depth(t, n) = 0
    <2>1. /\ Count(t, n, {Opening}) = Count(xml, n + 1, {Opening})
          /\ Count(t, n, {Closing}) = Count(xml, n + 1, {Closing})
        <3>1. NUL \notin {Opening} /\ NUL \notin {Closing}
            BY DEF NUL, Opening, Closing
        <3>2. ASSUME NEW S, NUL \notin S PROVE Count(t, Len(t), S) = Count(xml, Len(t) + 1, S)
            BY ONLY <1>1, <3>2, t \in Seq(NonNul), CountString
        <3>3. /\ Count(t, Len(t), {Opening}) = Count(xml, Len(t) + 1, {Opening})
              /\ Count(t, Len(t), {Closing}) = Count(xml, Len(t) + 1, {Closing})
            BY ONLY <3>1, <3>2
        <3> QED
            BY ONLY <1>3, <3>3
    <2>2. Count(h, s - 1, Opens) = m /\ Count(h, s - 1, Closes) = m
        <3>1. Count(MarksOf(spots), 2 * m, Opens) = m /\ Count(MarksOf(spots), 2 * m, Closes) = m
            BY <1>4, Halves
        <3> QED
            BY ONLY <1>6, <3>1, Zenon
    <2>3. m - m = 0
        OBVIOUS
    <2> QED
        BY ONLY <1>6, <2>1, <2>2, <2>3 DEF Depth
<1>12. ASSUME NEW k \in 1..n, t[k] > 0
       PROVE  Depth(t, k) > 0 <=> \E i \in 1..m : spots[i].start < t[k] /\ t[k] <= EndOf(spots[i])
    <2>1. k \in 0..n /\ k > 0 /\ t[k] \in Kept
        <3>1. t[k] \in NonNul
            BY <1>3, ElementOfSeq
        <3> QED
            BY <1>12, <3>1 DEF NonNul, Kept
    <2>2. PICK o \in Nat, a \in Nat, b \in Nat :
              /\ a = Count(t, k, {Opening}) /\ b = Count(t, k, {Closing}) /\ t[k] = o
              /\ a = Cardinality(StartSpots(spots, o)) /\ b = Cardinality(EndBeforeSpots(spots, o))
        BY <1>8, <2>1
    <2>3. PICK x \in Nat, w \in Nat :
              /\ x = Cardinality(StartSpots(spots, o)) /\ w = Cardinality(EndBeforeSpots(spots, o))
              /\ w <= x
              /\ x # w <=> \E i \in 1..m : spots[i].start < o /\ o <= EndOf(spots[i])
        BY <1>9
    <2>4. a - b > 0 <=> \E i \in 1..m : spots[i].start < o /\ o <= EndOf(spots[i])
        BY ONLY <2>2, <2>3
    <2> QED
        BY ONLY <2>2, <2>4 DEF Depth
<1> QED
    BY <1>2, <1>3, <1>5, <1>10, <1>11, <1>12

-----------------------------------------------------------------------------
(* Theorems                                                                *)

\* HighlightInv for a text of any length, with any spots and marks: the exchanges
\* of phrasea_fetch_results sort the marks, each is inserted where the text
\* before it is untouched, and while the record is no shorter than it was, no
\* memmove starts past the end of the text.
THEOREM MarksInPlace == Spec => []HighlightInv
<1>1. HighlightInv /\ [Next]_vars => HighlightInv'
    BY FillHighlight, CompareHighlight, InsertHighlight, StutterHighlight DEF Next
<1> QED
    BY InitHighlight, <1>1, PTL DEF Spec

\* TextKept for any text, spots and marks: the room phrasea_fetch_results counts
\* before the insertions is enough at each of them, and what PHP is given is,
\* without the marks, the XML of the record.
THEOREM TextIsKept == Spec => []TextKept
<1>1. Init => HighlightInv /\ TextInv
    BY InitHighlight, InitText
<1>2. HighlightInv /\ TextInv /\ [Next]_vars => (HighlightInv /\ TextInv)'
    BY FillHighlight, CompareHighlight, InsertHighlight, StutterHighlight,
       FillText, CompareText, InsertText, StutterText DEF Next
<1> QED
    BY <1>1, <1>2, InvText, PTL DEF Spec

\* MarksNest for any text, spots and marks, if the marks are told apart and each spot
\* has a byte: whatever the order in which phrasea_fetch_results found the spots,
\* and even if they overlap, each mark that opens is closed, after it, and the bytes
\* between marks are those of the spots.
THEOREM MarksAreNested == Spec => []MarksNest
<1>1. Init => HighlightInv /\ TextInv /\ NestInv
    BY InitHighlight, InitText, InitNest
<1>2. HighlightInv /\ TextInv /\ NestInv /\ [Next]_vars => (HighlightInv /\ TextInv /\ NestInv)'
    BY FillHighlight, CompareHighlight, InsertHighlight, StutterHighlight,
       FillText, CompareText, InsertText, StutterText,
       FillNest, CompareNest, InsertNest, StutterNest DEF Next
<1> QED
    BY <1>1, <1>2, InvNest, PTL DEF Spec
=============================================================================
