--------------------------- MODULE AlgorithmsProofs ---------------------------
(***************************************************************************)
(* Theorems about the algorithms that run alone.  What runs is one of the   *)
(* parts or leaves it as it is, so that a behaviour of Algorithms is one of  *)
(* each part: what is proved of a part holds in Algorithms.  The proofs      *)
(* about AnswerMerge and Highlight have modules of their own.               *)
(***************************************************************************)
EXTENDS Algorithms, SequenceTheorems, FiniteSetTheorems, RecursionLemmas, TLAPS

HLP == INSTANCE HighlightProofs
          WITH input <- hl_input, pc <- hl_pc, xml <- hl_xml, h <- hl_h, s <- hl_s, ss <- hl_ss

-----------------------------------------------------------------------------
(* The parts                                                               *)

LEMMA RunsHighlight == AllSpec => HL!Spec
<1>1. AllInit => HL!Init
    BY DEF AllInit
<1>2. [AllNext]_allvars => [HL!Next]_(HL!vars)
    BY DEF AllNext, allvars, hlvars, HL!vars
<1> QED
    BY <1>1, <1>2, PTL DEF AllSpec, HL!Spec

LEMMA RunsUtf8 == AllSpec => U8!Spec
<1>1. AllInit => U8!Init
    BY DEF AllInit
<1>2. [AllNext]_allvars => [U8!Next]_(U8!vars)
    BY DEF AllNext, allvars, u8vars, U8!vars
<1> QED
    BY <1>1, <1>2, PTL DEF AllSpec, U8!Spec

LEMMA RunsBlob == AllSpec => SB!Spec
<1>1. AllInit => SB!Init
    BY DEF AllInit
<1>2. [AllNext]_allvars => [SB!Next]_(SB!vars)
    BY DEF AllNext, allvars, sbvars, SB!vars
<1> QED
    BY <1>1, <1>2, PTL DEF AllSpec, SB!Spec

LEMMA RunsNodes == AllSpec => QN!Spec
<1>1. AllInit => QN!Init
    BY DEF AllInit
<1>2. [AllNext]_allvars => [QN!Next]_(QN!vars)
    BY DEF AllNext, allvars, qnvars, QN!vars
<1> QED
    BY <1>1, <1>2, PTL DEF AllSpec, QN!Spec

-----------------------------------------------------------------------------
(* Highlight                                                               *)

LEMMA SameInit == HL!Init <=> HLP!Init
BY DEF HL!Init, HLP!Init, HL!IsInput, HLP!IsInput, HL!MarkBytes, HLP!MarkBytes,
       HL!TextOf, HLP!TextOf, HL!NUL, HLP!NUL

LEMMA SameNext == HL!Next <=> HLP!Next
<1>1. HL!Fill <=> HLP!Fill
    BY DEF HL!Fill, HLP!Fill, HL!nspots, HLP!nspots, HL!MarksOf, HLP!MarksOf, HL!EndOf, HLP!EndOf
<1>2. HL!Compare <=> HLP!Compare
    BY DEF HL!Compare, HLP!Compare, HL!nspots, HLP!nspots, HL!Later, HLP!Later
<1>3. HL!Insert <=> HLP!Insert
    BY DEF HL!Insert, HLP!Insert, HL!nspots, HLP!nspots, HL!xmlsize, HLP!xmlsize,
           HL!Splice, HLP!Splice
<1> QED
    BY <1>1, <1>2, <1>3 DEF HL!Next, HLP!Next

LEMMA SameSpec == HL!Spec => HLP!Spec
<1>1. [HL!Next]_(HL!vars) => [HLP!Next]_(HLP!vars)
    BY SameNext DEF HL!vars, HLP!vars
<1> QED
    BY SameInit, <1>1, PTL DEF HL!Spec, HLP!Spec

LEMMA SameHighlightInv == HLP!HighlightInv => HL!HighlightInv
BY DEF HL!HighlightInv, HLP!HighlightInv, HL!TypeOK, HLP!TypeOK, HL!IsInput, HLP!IsInput,
       HL!SortedSoFar, HLP!SortedSoFar, HL!InText, HLP!InText, HL!PlaceKept, HLP!PlaceKept,
       HL!Fresh, HLP!Fresh, HL!nspots, HLP!nspots, HL!xmlsize, HLP!xmlsize,
       HL!TextOf, HLP!TextOf, HL!NUL, HLP!NUL, HL!MarkBytes, HLP!MarkBytes

\* HighlightInv of a page whatever else runs: the marks of phrasea_fetch_results are
\* sorted and each is inserted where the text before it is untouched.
THEOREM MarksInPlace == AllSpec => []HighlightInv
<1>1. HLP!HighlightInv => HighlightInv
    BY SameHighlightInv DEF HighlightInv
<1> QED
    BY RunsHighlight, SameSpec, HLP!MarksInPlace, <1>1, PTL

LEMMA SameTextKept == HLP!TextKept => HL!TextKept
BY DEF HL!TextKept, HLP!TextKept, HL!Room, HLP!Room, HL!Marked, HLP!Marked,
       HL!Shown, HLP!Shown, HL!NUL, HLP!NUL, HL!Only, HLP!Only, HL!AppendIf, HLP!AppendIf,
       HL!Fresh, HLP!Fresh, HL!nspots, HLP!nspots, HL!xmlsize, HLP!xmlsize

\* TextKept of a page whatever else runs: the room phrasea_fetch_results counts is
\* enough at each insertion, and without its marks the XML given to PHP is the
\* XML of the record.
THEOREM TextIsKept == AllSpec => []TextKept
<1>1. HLP!TextKept => TextKept
    BY SameTextKept DEF TextKept
<1> QED
    BY RunsHighlight, SameSpec, HLP!TextIsKept, <1>1, PTL

LEMMA SameMarksNest == HLP!MarksNest => HL!MarksNest
<1>1. HL!Shown = HLP!Shown
    BY DEF HL!Shown, HLP!Shown, HL!NUL, HLP!NUL
<1>2. \A f, k, S : HL!Count(f, k, S) = HLP!Count(f, k, S)
    BY DEF HL!Count, HLP!Count, HL!Cardinality, HLP!Cardinality
<1>3. HL!Opening = HLP!Opening /\ HL!Closing = HLP!Closing
    BY DEF HL!Opening, HLP!Opening, HL!Closing, HLP!Closing
<1>4. \A t, k : HL!Depth(t, k) = HLP!Depth(t, k)
    BY <1>2, <1>3 DEF HL!Depth, HLP!Depth
<1>5. HL!ToldApart <=> HLP!ToldApart
    BY <1>2, <1>3 DEF HL!ToldApart, HLP!ToldApart, HL!Marked, HLP!Marked,
                      HL!Holds, HLP!Holds, HL!Lacks, HLP!Lacks
<1>6. (HL!Worded <=> HLP!Worded) /\ (HL!Fresh <=> HLP!Fresh)
    BY DEF HL!Worded, HLP!Worded, HL!Fresh, HLP!Fresh
<1> QED
    BY <1>1, <1>4, <1>5, <1>6, Zenon DEF HL!MarksNest, HLP!MarksNest, HL!EndOf, HLP!EndOf

\* MarksNest of a page whatever else runs: whatever the order of the spots, and even
\* if they overlap, the marks phrasea_fetch_results inserts nest, and the bytes between
\* them are those of the spots.
THEOREM MarksAreNested == AllSpec => []MarksNest
<1>1. HLP!MarksNest => MarksNest
    BY SameMarksNest DEF MarksNest
<1> QED
    BY RunsHighlight, SameSpec, HLP!MarksAreNested, <1>1, PTL

-----------------------------------------------------------------------------
(* Utf8Convert                                                             *)

\* The length of a character's output while it is being read: four bytes at most
\* for each byte read before it.
LEMMA InitUtf8 == U8!TablesOK /\ U8!Init => U8!Utf8Inv
<1> SUFFICES ASSUME U8!TablesOK, U8!Init PROVE U8!Utf8Inv
    OBVIOUS
<1>1. u8_str \in Seq(U8!Bytes)
    BY DEF U8!TablesOK, U8!Init
<1>2. Len(u8_str) \in Nat
    BY <1>1
<1> QED
    BY <1>1, <1>2 DEF U8!Init, U8!Utf8Inv, U8!TypeOK, U8!Bytes, U8!len_out

\* One character of one byte, or the start of a longer one.
LEMMA LeadUtf8 == U8!TablesOK /\ U8!Utf8Inv /\ U8!Lead => U8!Utf8Inv'
<1> SUFFICES ASSUME U8!TablesOK, U8!Utf8Inv, U8!Lead PROVE U8!Utf8Inv'
    OBVIOUS
<1> DEFINE c == u8_str[u8_read + 1]
<1>1. /\ u8_pc = "char" /\ u8_str' = u8_str /\ u8_read' = u8_read + 1
      /\ Len(u8_str) \in Nat /\ u8_read \in Nat /\ u8_read < Len(u8_str)
      /\ u8_str \in Seq(U8!Bytes) /\ u8_out \in Seq(U8!Bytes) /\ Len(u8_out) \in Nat
      /\ Len(u8_out) <= 4 * u8_read
    BY DEF U8!Lead, U8!Utf8Inv, U8!TypeOK, U8!len
<1>2. c \in U8!Bytes
    BY <1>1
<1>7. \/ /\ c < 128 /\ u8_out' = Append(u8_out, Cmap1[c]) /\ u8_c0' = c /\ u8_u' = c
         /\ u8_nBytes' = 1 /\ u8_pc' = u8_pc
      \/ /\ c \in 128..191 /\ u8_c0' = c /\ u8_pc' = u8_pc /\ u8_u' = u8_u
         /\ u8_nBytes' = u8_nBytes /\ u8_out' = u8_out
      \/ c >= 192 /\ u8_c0' = c /\ u8_u' = c % 32 /\ u8_nBytes' = 1 /\ u8_pc' = "next" /\ u8_out' = u8_out
    BY DEF U8!Lead
<1>8. c \in Int /\ 0 <= c /\ c <= 255
    BY <1>2 DEF U8!Bytes
<1> HIDE DEF c
<1>3. Len(u8_out) < Len(u8_str) * 8
    BY <1>1
<1>4. CASE c < 128
    <2>1. /\ u8_out' = Append(u8_out, Cmap1[c])
          /\ u8_c0' = c /\ u8_u' = c /\ u8_nBytes' = 1 /\ u8_pc' = u8_pc
        BY <1>4, <1>7, <1>8
    <2>4. c \in U8!OneByte
        BY <1>4, <1>8 DEF U8!OneByte
    <2>5. Cmap1[c] \in U8!OneByte
        BY <2>4 DEF U8!TablesOK
    <2>2. Cmap1[c] \in U8!Bytes
        BY <2>5 DEF U8!OneByte, U8!Bytes
    <2>3. u8_out' \in Seq(U8!Bytes) /\ Len(u8_out') = Len(u8_out) + 1
        BY <1>1, <2>1, <2>2
    <2> QED
        BY <1>1, <1>2, <1>3, <2>1, <2>3 DEF U8!Utf8Inv, U8!TypeOK, U8!Bytes, U8!len_out
<1>5. CASE c \in 128..191
    <2>1. u8_c0' = c /\ UNCHANGED <<u8_pc, u8_u, u8_nBytes, u8_out>>
        BY <1>5, <1>7, <1>8
    <2> QED
        BY <1>1, <1>2, <1>3, <2>1 DEF U8!Utf8Inv, U8!TypeOK, U8!Bytes, U8!len_out
<1>6. CASE c >= 192
    <2>1. u8_c0' = c /\ u8_u' = c % 32 /\ u8_nBytes' = 1 /\ u8_pc' = "next" /\ u8_out' = u8_out
        BY <1>6, <1>7, <1>8
    <2>2. c % 32 \in Nat
        BY <1>2 DEF U8!Bytes
    <2> QED
        BY <1>1, <1>2, <1>3, <2>1, <2>2 DEF U8!Utf8Inv, U8!TypeOK, U8!Bytes, U8!len_out
<1> QED
    BY <1>2, <1>4, <1>5, <1>6 DEF U8!Bytes

LEMMA ClearNat ==
    ASSUME NEW x \in Nat, NEW n \in 1..3
    PROVE  U8!Clear(x, U8!MaskBit(n)) \in Nat
<1>1. CASE U8!MaskBit(n) = 4096
    BY <1>1 DEF U8!Clear
<1>2. CASE U8!MaskBit(n) = 131072
    BY <1>2 DEF U8!Clear
<1>3. CASE U8!MaskBit(n) = 4194304
    BY <1>3 DEF U8!Clear
<1> QED
    BY <1>1, <1>2, <1>3 DEF U8!MaskBit

LEMMA NextByteUtf8 == U8!Utf8Inv /\ U8!NextByte => U8!Utf8Inv'
<1> SUFFICES ASSUME U8!Utf8Inv, U8!NextByte PROVE U8!Utf8Inv'
    OBVIOUS
<1>1. /\ u8_pc = "next" /\ UNCHANGED <<u8_str, u8_pc, u8_out>> /\ u8_read' = u8_read + 1
      /\ u8_nBytes \in 0..7 /\ u8_nBytes < 6 /\ u8_nBytes' = u8_nBytes + 1
      /\ Len(u8_str) \in Nat /\ u8_read \in Nat /\ u8_read < Len(u8_str)
      /\ u8_str \in Seq(U8!Bytes) /\ u8_out \in Seq(U8!Bytes) /\ u8_u \in Nat
    <2>1. /\ u8_nBytes \in 0..7 /\ u8_read \in Nat
          /\ u8_str \in Seq(U8!Bytes) /\ u8_out \in Seq(U8!Bytes) /\ u8_u \in Nat
        BY DEF U8!Utf8Inv, U8!TypeOK, U8!len
    <2>2. /\ u8_pc = "next" /\ UNCHANGED <<u8_str, u8_pc, u8_out>> /\ u8_read' = u8_read + 1
          /\ u8_nBytes < 6 /\ u8_nBytes' = u8_nBytes + 1 /\ u8_read < Len(u8_str)
        BY <2>1 DEF U8!NextByte, U8!Announced, U8!AnnouncedOnly, U8!len, U8!Utf8Inv
    <2>3. Len(u8_str) \in Nat
        BY <2>1, LenProperties
    <2> QED
        BY ONLY <2>1, <2>2, <2>3
<1>2. u8_str[u8_read + 1] \in U8!Bytes
    BY <1>1
<1>3. u8_str[u8_read + 1] % 64 \in Nat
    BY <1>2 DEF U8!Bytes
<1>4. u8_nBytes <= 3 => U8!Clear(u8_u * 64, U8!MaskBit(u8_nBytes)) \in Nat
    <2>1. u8_u * 64 \in Nat
        BY <1>1
    <2>2. u8_nBytes \in 1..7
        BY <1>1 DEF U8!Utf8Inv
    <2> QED
        BY <2>1, <2>2, ClearNat
<1>5. u8_u' \in Nat
    BY <1>1, <1>3, <1>4 DEF U8!NextByte
<1>6. u8_c0' \in U8!Bytes
    BY DEF U8!NextByte, U8!Utf8Inv, U8!TypeOK, U8!Bytes
<1> QED
    BY <1>1, <1>5, <1>6 DEF U8!Utf8Inv, U8!TypeOK, U8!len_out

LEMMA EndOfCharUtf8 == U8!Utf8Inv /\ U8!EndOfChar => U8!Utf8Inv'
<1> SUFFICES ASSUME U8!Utf8Inv, U8!EndOfChar PROVE U8!Utf8Inv'
    OBVIOUS
<1>1. /\ u8_pc = "next" /\ u8_pc' = "emit" /\ UNCHANGED <<u8_str, u8_read, u8_u, u8_out>>
      /\ u8_nBytes \in 0..7 /\ u8_read \in Nat
    BY DEF U8!EndOfChar, U8!Utf8Inv, U8!TypeOK
<1>2. u8_c0' \in U8!Bytes
    BY DEF U8!EndOfChar, U8!Utf8Inv, U8!TypeOK, U8!Bytes
<1>3. u8_nBytes' = u8_nBytes \/ (u8_nBytes >= 6 /\ u8_nBytes' = 7)
    BY <1>1 DEF U8!EndOfChar
<1> QED
    BY <1>1, <1>2, <1>3 DEF U8!Utf8Inv, U8!TypeOK, U8!len_out

\* What is known of a character that was read.
LEMMA EmitFacts ==
    ASSUME U8!Utf8Inv, u8_pc = "emit"
    PROVE  /\ u8_nBytes \in 1..7 /\ u8_read \in Nat /\ u8_read <= Len(u8_str) /\ Len(u8_str) \in Nat
           /\ u8_str \in Seq(U8!Bytes) /\ u8_out \in Seq(U8!Bytes) /\ Len(u8_out) \in Nat
           /\ u8_nBytes <= 6 => u8_nBytes <= u8_read
           /\ Len(u8_out) <= 4 * (u8_read - IF u8_nBytes = 7 THEN 6 ELSE u8_nBytes)
<1>1. u8_str \in Seq(U8!Bytes) /\ u8_out \in Seq(U8!Bytes)
    BY DEF U8!Utf8Inv, U8!TypeOK
<1>2. Len(u8_str) \in Nat /\ Len(u8_out) \in Nat
    BY <1>1
<1>3. u8_nBytes \in 0..7 /\ u8_read \in 0..Len(u8_str)
    BY DEF U8!Utf8Inv, U8!TypeOK
<1>4. u8_nBytes > 0 /\ (u8_nBytes <= 6 => u8_nBytes <= u8_read)
    BY DEF U8!Utf8Inv
<1>5. Len(u8_out) <= 4 * (u8_read - IF u8_nBytes = 7 THEN 6 ELSE u8_nBytes)
    BY DEF U8!Utf8Inv
<1> QED
    BY <1>1, <1>2, <1>3, <1>4, <1>5

\* The last n bytes that were read.
LEMMA LastBytes ==
    ASSUME NEW t \in Seq(U8!Bytes), NEW r \in Nat, r <= Len(t), NEW n \in 1..7, n <= r
    PROVE  SubSeq(t, r - n + 1, r) \in Seq(U8!Bytes) /\ Len(SubSeq(t, r - n + 1, r)) = n
<1> DEFINE m == r - n + 1
<1>1. m \in Int /\ 1 <= m /\ m <= r /\ r - m + 1 = n
    OBVIOUS
<1>2. t \in [1..Len(t) -> U8!Bytes] /\ Len(t) \in Nat
    BY LenProperties
<1> HIDE DEF m
<1>3. \A i \in m..r : t[i] \in U8!Bytes
    BY <1>1, <1>2
<1>4. SubSeq(t, m, r) \in Seq(U8!Bytes) /\ Len(SubSeq(t, m, r)) = IF m <= r THEN r - m + 1 ELSE 0
    BY <1>1, <1>3, SubSeqProperties
<1> QED
    BY <1>1, <1>4 DEF m

\* A character copied is as long as it was; a cell of the table has three bytes.
LEMMA EmitUtf8 == U8!TablesOK /\ U8!Utf8Inv /\ U8!Emit => U8!Utf8Inv'
<1> SUFFICES ASSUME U8!TablesOK, U8!Utf8Inv, U8!Emit PROVE U8!Utf8Inv'
    OBVIOUS
<1> DEFINE more == IF u8_nBytes > 4 THEN << >>
                   ELSE IF u8_u \in U8!TwoBytes THEN Cmap2[u8_u]
                   ELSE SubSeq(u8_str, u8_read - u8_nBytes + 1, u8_read)
<1>1. /\ u8_pc = "emit" /\ u8_pc' = "char" /\ UNCHANGED <<u8_str, u8_read, u8_c0, u8_u, u8_nBytes>>
      /\ u8_out' = u8_out \o more
    BY DEF U8!Emit
<1>2. /\ u8_nBytes \in 1..7 /\ u8_read \in Nat /\ u8_read <= Len(u8_str) /\ Len(u8_str) \in Nat
      /\ u8_str \in Seq(U8!Bytes) /\ u8_out \in Seq(U8!Bytes) /\ Len(u8_out) \in Nat
      /\ (u8_nBytes <= 6 => u8_nBytes <= u8_read)
      /\ Len(u8_out) <= 4 * (u8_read - IF u8_nBytes = 7 THEN 6 ELSE u8_nBytes)
    BY <1>1, EmitFacts
<1>3. CASE u8_nBytes > 4
    <2>1. more = << >> /\ << >> \in Seq(U8!Bytes) /\ Len(<< >>) = 0
        BY <1>3
    <2>2. u8_out' = u8_out
        BY <1>1, <1>2, <2>1, ConcatEmptySeq
    <2> QED
        BY <1>1, <1>2, <1>3, <2>2 DEF U8!Utf8Inv, U8!TypeOK, U8!len_out
<1>4. CASE u8_nBytes <= 4
    <2>1. more \in Seq(U8!Bytes) /\ Len(more) <= 4 * u8_nBytes
        <3>1. CASE u8_u \in U8!TwoBytes
            <4>1. more = Cmap2[u8_u]
                BY <1>2, <1>4, <3>1
            <4>2. Cmap2[u8_u] \in Seq(U8!Bytes) /\ Len(Cmap2[u8_u]) <= 3
                BY <3>1 DEF U8!TablesOK, U8!Cell
            <4>3. Len(Cmap2[u8_u]) <= 4 * u8_nBytes
                <5>1. Len(Cmap2[u8_u]) \in Nat
                    BY <4>2
                <5> QED
                    BY <1>2, <4>2, <5>1
            <4> QED
                BY <4>1, <4>2, <4>3
        <3>2. CASE u8_u \notin U8!TwoBytes
            <4>1. more = SubSeq(u8_str, u8_read - u8_nBytes + 1, u8_read)
                BY <1>2, <1>4, <3>2
            <4>2. u8_nBytes <= u8_read
                BY <1>2, <1>4
            <4>3. /\ SubSeq(u8_str, u8_read - u8_nBytes + 1, u8_read) \in Seq(U8!Bytes)
                  /\ Len(SubSeq(u8_str, u8_read - u8_nBytes + 1, u8_read)) = u8_nBytes
                BY <1>2, <4>2, LastBytes
            <4>4. u8_nBytes <= 4 * u8_nBytes
                BY <1>2
            <4> HIDE DEF more
            <4> QED
                BY <4>1, <4>3, <4>4
        <3> QED
            BY <3>1, <3>2
    <2> HIDE DEF more
    <2>2. u8_out' \in Seq(U8!Bytes) /\ Len(u8_out') = Len(u8_out) + Len(more)
        BY <1>1, <1>2, <2>1, ConcatProperties
    <2>3. Len(more) \in Nat
        BY <2>1
    <2>4. Len(u8_out') \in Nat /\ Len(u8_out') <= 4 * u8_read
        BY <1>2, <1>4, <2>1, <2>2, <2>3
    <2> QED
        BY <1>1, <1>2, <2>2, <2>4 DEF U8!Utf8Inv, U8!TypeOK, U8!len_out
<1> QED
    BY <1>2, <1>3, <1>4

\* If the loop stops for lack of room then nothing was to be read.
LEMMA EndUtf8 == U8!Utf8Inv /\ U8!End => U8!Utf8Inv'
<1> SUFFICES ASSUME U8!Utf8Inv, U8!End PROVE U8!Utf8Inv'
    OBVIOUS
<1>1. /\ u8_pc = "char" /\ u8_pc' = "done" /\ UNCHANGED <<u8_str, u8_read, u8_c0, u8_u, u8_nBytes, u8_out>>
      /\ u8_read \in 0..Len(u8_str) /\ Len(u8_str) \in Nat /\ u8_out \in Seq(U8!Bytes) /\ Len(u8_out) \in Nat
      /\ Len(u8_out) <= 4 * u8_read
    BY DEF U8!End, U8!Utf8Inv, U8!TypeOK
<1>2. u8_read = Len(u8_str)
    BY <1>1 DEF U8!End, U8!len, U8!len_out
<1> QED
    BY <1>1, <1>2 DEF U8!Utf8Inv, U8!TypeOK, U8!len_out

LEMMA StutterUtf8 == U8!Utf8Inv /\ UNCHANGED U8!vars => U8!Utf8Inv'
BY DEF U8!vars, U8!Utf8Inv, U8!TypeOK, U8!len_out

-----------------------------------------------------------------------------
\* Utf8Inv for any string and any tables as phrasea_utf8_convert_to has them: the
\* comment "hope it's wide enough !" is met, str_out[iout] included, and the test
\* of the room left never cuts the input short.
THEOREM WideEnough == AllSpec => []Utf8Inv
<1>1. U8!Init => U8!Utf8Inv
    BY InitUtf8, TablesAssumption
<1>2. U8!Utf8Inv /\ [U8!Next]_(U8!vars) => U8!Utf8Inv'
    BY TablesAssumption, LeadUtf8, NextByteUtf8, EndOfCharUtf8, EmitUtf8, EndUtf8, StutterUtf8 DEF U8!Next
<1>3. U8!Utf8Inv => Utf8Inv
    BY DEF Utf8Inv
<1> QED
    BY <1>1, <1>2, <1>3, RunsUtf8, PTL DEF U8!Spec

-----------------------------------------------------------------------------
(* What Utf8Convert writes                                                 *)

\* A continuation byte.
LEMMA ContinuationIs ==
    ASSUME NEW c \in U8!Bytes
    PROVE  U8!IsContinuation(c) <=> c \in 128..191
BY DEF U8!Bytes, U8!IsContinuation

\* What a character is made of.
LEMMA WidthIs ==
    ASSUME NEW t \in Seq(U8!Bytes), NEW i \in 1..Len(t), NEW w, w = U8!Width(t, i)
    PROVE  /\ w \in 0..4
           /\ w > 0 => i + w - 1 <= Len(t) /\ \A j \in 1..(w - 1) : t[i + j] \in 128..191
           /\ w = 1 => t[i] < 128
           /\ w = 2 => t[i] \in 194..223
           /\ w = 3 => t[i] \in 224..239 /\ (t[i] = 224 => t[i + 1] >= 160)
           /\ w = 4 => t[i] \in 240..244 /\ (t[i] = 240 => t[i + 1] >= 144)
<1>1. Len(t) \in Nat /\ \A j \in 1..Len(t) : t[j] \in U8!Bytes
    BY LenProperties
<1>2. PICK c \in U8!Bytes : c = t[i]
    BY <1>1
<1>3. PICK n \in 0..4 : n = CASE c < 128 -> 1 [] c \in 194..223 -> 2 [] c \in 224..239 -> 3
                               [] c \in 240..244 -> 4 [] OTHER -> 0
    BY DEF U8!Bytes
<1>4. w = IF i + n - 1 > Len(t) THEN 0
          ELSE IF \E j \in 1..(n - 1) : ~U8!IsContinuation(t[i + j]) THEN 0
          ELSE IF (c = 224 /\ t[i + 1] < 160) \/ (c = 240 /\ t[i + 1] < 144) THEN 0
          ELSE n
    BY <1>2, <1>3 DEF U8!Width
<1>5. CASE w = 0
    BY <1>5
<1>6. CASE w # 0
    <2>5. /\ w = n
          /\ ~(i + n - 1 > Len(t))
          /\ \A j \in 1..(n - 1) : U8!IsContinuation(t[i + j])
          /\ ~(c = 224 /\ t[i + 1] < 160) /\ ~(c = 240 /\ t[i + 1] < 144)
        BY <1>4, <1>6, Zenon
    <2>6. w \in 1..4 /\ i + n - 1 <= Len(t)
        BY <1>1, <1>6, <2>5
    <2>1. /\ w = n /\ w \in 1..4
          /\ i + n - 1 <= Len(t)
          /\ \A j \in 1..(n - 1) : U8!IsContinuation(t[i + j])
          /\ ~(c = 224 /\ t[i + 1] < 160) /\ ~(c = 240 /\ t[i + 1] < 144)
        BY <2>5, <2>6
    <2>2. ASSUME NEW j \in 1..(w - 1) PROVE t[i + j] \in 128..191
        <3>1. i + j \in 1..Len(t)
            BY <1>1, <2>1
        <3> QED
            BY <1>1, <2>1, <2>2, <3>1, ContinuationIs
    <2>3. /\ w = 1 => c < 128
          /\ w = 2 => c \in 194..223
          /\ w = 3 => c \in 224..239
          /\ w = 4 => c \in 240..244
        BY <1>2, <1>3, <2>1 DEF U8!Bytes
    <2>4. /\ w = 3 => (c = 224 => t[i + 1] >= 160)
          /\ w = 4 => (c = 240 => t[i + 1] >= 144)
        <3>1. ASSUME w \in 3..4 PROVE t[i + 1] \in 128..191
            <4>1. 1 \in 1..(w - 1)
                BY <3>1
            <4> QED
                BY <2>2, <4>1
        <3> SUFFICES ASSUME w \in 3..4
                     PROVE  (c = 224 => t[i + 1] >= 160) /\ (c = 240 => t[i + 1] >= 144)
            OBVIOUS
        <3>2. PICK d \in 128..191 : d = t[i + 1]
            BY <3>1
        <3> QED
            BY <2>1, <3>2
    <2> QED
        BY <1>2, <2>1, <2>2, <2>3, <2>4
<1> QED
    BY <1>5, <1>6

\* A character of the first kind is any byte below 128.
LEMMA WidthOne ==
    ASSUME NEW t \in Seq(U8!Bytes), NEW i \in 1..Len(t), t[i] < 128
    PROVE  U8!Width(t, i) = 1
<1>1. PICK c \in 0..127 : c = t[i]
    <2>1. \A j \in 1..Len(t) : t[j] \in U8!Bytes
        BY LenProperties
    <2>2. PICK c \in 0..255 : c = t[i]
        BY <2>1 DEF U8!Bytes
    <2>3. c < 128
        BY <2>2
    <2>4. c \in 0..127
        BY ONLY <2>3, c \in 0..255
    <2> QED
        BY <2>2, <2>4, Zenon
<1>2. PICK n : n = CASE c < 128 -> 1 [] c \in 194..223 -> 2 [] c \in 224..239 -> 3
                     [] c \in 240..244 -> 4 [] OTHER -> 0
    OBVIOUS
<1>3. n = 1
    <2>1. c < 128 /\ c \notin 194..223 /\ c \notin 224..239 /\ c \notin 240..244
        BY ONLY c \in 0..127
    <2> QED
        BY ONLY <1>2, <2>1
<1>4. i + 1 - 1 = i /\ ~(i + 1 - 1 > Len(t)) /\ 1..(1 - 1) = {}
    BY LenProperties
<1>5. c # 224 /\ c # 240
    BY <1>1
<1> QED
    BY <1>1, <1>2, <1>3, <1>4, <1>5, ZenonT(30) DEF U8!Width

\* The bytes a character is folded into.
LEMMA FoldedIs ==
    ASSUME U8!TablesOK, NEW t \in Seq(U8!Bytes), NEW i \in 1..Len(t), U8!Width(t, i) > 0
    PROVE  U8!Folded(t, i) \in Seq(U8!Bytes)
<1>1. PICK w : w = U8!Width(t, i)
    OBVIOUS
<1>2. /\ w \in 1..4 /\ i + w - 1 <= Len(t) /\ \A j \in 1..(w - 1) : t[i + j] \in 128..191
      /\ w = 1 => t[i] < 128
      /\ w = 2 => t[i] \in 194..223
    <2>1. w \in 0..4 /\ w > 0
        BY <1>1, WidthIs
    <2> QED
        BY <1>1, <2>1, WidthIs
<1>3. Len(t) \in Nat /\ \A j \in 1..Len(t) : t[j] \in U8!Bytes
    BY LenProperties
<1>4. U8!Folded(t, i) = CASE w = 1 -> <<Cmap1[t[i]]>>
                          [] w = 2 -> Cmap2[(t[i] % 32) * 64 + (t[i + 1] % 64)]
                          [] OTHER -> SubSeq(t, i, i + w - 1)
    BY <1>1 DEF U8!Folded
<1>5. CASE w = 1
    <2>1. PICK c \in U8!Bytes : c = t[i]
        BY <1>3
    <2>5. c < 128
        BY <1>2, <1>5, <2>1
    <2>3. c \in U8!OneByte
        BY ONLY <2>5, c \in U8!Bytes DEF U8!OneByte, U8!Bytes
    <2>4. Cmap1[c] \in U8!OneByte
        BY <2>3 DEF U8!TablesOK
    <2>2. Cmap1[t[i]] \in U8!Bytes
        BY <2>1, <2>4 DEF U8!OneByte, U8!Bytes
    <2> QED
        BY <1>4, <1>5, <2>2
<1>6. CASE w = 2
    <2>1. PICK c \in 194..223, d \in 128..191 : c = t[i] /\ d = t[i + 1]
        <3>1. 1 \in 1..(w - 1)
            BY <1>6
        <3>2. t[i] \in 194..223
            BY <1>2, <1>6
        <3>3. t[i + 1] \in 128..191
            BY <1>2, <3>1
        <3> QED
            BY <3>2, <3>3
    <2>5. (c % 32) * 64 + (d % 64) \in U8!TwoBytes
        BY DEF U8!TwoBytes
    <2>2. (t[i] % 32) * 64 + (t[i + 1] % 64) \in U8!TwoBytes
        BY <2>1, <2>5
    <2>3. PICK code \in U8!TwoBytes : code = (t[i] % 32) * 64 + (t[i + 1] % 64)
        BY <2>2
    <2>4. U8!Folded(t, i) = Cmap2[code]
        BY <1>4, <1>6, <2>3
    <2> QED
        <3>1. Cmap2[code] \in U8!Cell
            BY DEF U8!TablesOK
        <3> QED
            BY <2>4, <3>1 DEF U8!Cell
<1>7. CASE w \in 3..4
    <2>1. U8!Folded(t, i) = SubSeq(t, i, i + w - 1)
        <3>1. w # 1 /\ w # 2
            BY <1>7
        <3> QED
            BY <1>4, <3>1
    <2>2. PICK k \in Int : k = i + w - 1
        BY <1>2
    <2>3. \A j \in i..k : t[j] \in U8!Bytes
        BY <1>2, <1>3, <2>2
    <2>4. SubSeq(t, i, k) \in Seq(U8!Bytes)
        BY <2>3, SubSeqProperties
    <2> QED
        BY <2>1, <2>2, <2>4
<1> QED
    BY <1>2, <1>5, <1>6, <1>7

\* The place of a character n bytes before the end, and its width.
LEMMA PlaceIs ==
    ASSUME NEW t \in Seq(U8!Bytes), NEW n \in 1..Len(t), NEW i, i = Len(t) - n + 1,
           NEW w, w = U8!Width(t, i)
    PROVE  i \in 1..Len(t) /\ w \in 0..4 /\ w <= n
<1>1. Len(t) \in Nat
    OBVIOUS
<1>2. i \in 1..Len(t)
    BY <1>1
<1>3. w \in 0..4 /\ (w > 0 => i + w - 1 <= Len(t))
    BY <1>2, WidthIs
<1> QED
    BY <1>1, <1>2, <1>3

LEMMA StuckTurn ==
    ASSUME NEW t \in Seq(U8!Bytes)
    PROVE  /\ U8!StuckLast(t, 0) = 0
           /\ \A n \in 1..Len(t), w \in 0..4 : w = U8!Width(t, Len(t) - n + 1) =>
                 U8!StuckLast(t, n) = IF w = 0 THEN n ELSE U8!StuckLast(t, n - w)
<1> DEFINE L == Len(t)
           W(k) == U8!Width(t, Len(t) - k + 1)
           step == [p \in [0..L -> Nat] \X (0..L) |->
                       IF p[2] = 0 \/ W(p[2]) = 0 THEN p[2] ELSE p[1][p[2] - W(p[2])]]
           Def(g) == [k \in 0..L |-> IF k = 0 \/ W(k) = 0 THEN k ELSE g[k - W(k)]]
           f == CHOOSE g : g = Def(g)
<1>1. L \in Nat /\ \A k \in 1..L : W(k) \in 0..4 /\ W(k) <= k
    BY PlaceIs
<1>2. \A n : U8!StuckLast(t, n) = f[n]
    BY DEF U8!StuckLast
<1> HIDE DEF L, W
<1>3. \A g \in [0..L -> Nat], k \in 0..L :
         step[<<g, k>>] = IF k = 0 \/ W(k) = 0 THEN k ELSE g[k - W(k)]
    OBVIOUS
<1>4. \A k \in 0..L : k # 0 /\ W(k) # 0 => k - W(k) \in 0..(k - 1) /\ k - W(k) \in 0..L
    BY <1>1
<1>5. step \in [[0..L -> Nat] \X (0..L) -> Nat]
    BY <1>1, <1>4
<1>6. LooksBack(step, L, Nat)
    BY <1>3, <1>4, <1>5 DEF LooksBack
<1>7. PICK e : IsCourse(e, L, Nat, step)
    <2> HIDE DEF step
    <2> QED
        BY <1>1, <1>6, CourseExists
<1>8. e \in [0..L -> Nat] /\ \A k \in 0..L : e[k] = IF k = 0 \/ W(k) = 0 THEN k ELSE e[k - W(k)]
    BY <1>3, <1>7 DEF IsCourse
<1>9. e = Def(e)
    BY <1>8
<1>10. f = Def(f)
    <2> HIDE DEF Def
    <2> QED
        BY <1>9
<1>11. \A k \in 0..L : f[k] = IF k = 0 \/ W(k) = 0 THEN k ELSE f[k - W(k)]
    <2> HIDE DEF f
    <2> QED
        BY <1>10
<1> HIDE DEF f
<1> QED
    BY <1>1, <1>2, <1>11 DEF W, L

LEMMA FoldTurn ==
    ASSUME U8!TablesOK, NEW t \in Seq(U8!Bytes)
    PROVE  /\ U8!FoldLast(t, 0) = << >>
           /\ \A n \in 0..Len(t) : U8!FoldLast(t, n) \in Seq(U8!Bytes)
           /\ \A n \in 1..Len(t), w \in 1..4 : w = U8!Width(t, Len(t) - n + 1) =>
                 U8!FoldLast(t, n) = U8!Folded(t, Len(t) - n + 1) \o U8!FoldLast(t, n - w)
<1> DEFINE L == Len(t)
           T == Seq(U8!Bytes)
           W(k) == U8!Width(t, Len(t) - k + 1)
           F(k) == U8!Folded(t, Len(t) - k + 1)
           step == [p \in [0..L -> T] \X (0..L) |->
                       IF p[2] = 0 \/ W(p[2]) = 0 THEN << >> ELSE F(p[2]) \o p[1][p[2] - W(p[2])]]
           Def(g) == [k \in 0..L |-> IF k = 0 \/ W(k) = 0 THEN << >> ELSE F(k) \o g[k - W(k)]]
           f == CHOOSE g : g = Def(g)
<1>1. L \in Nat /\ \A k \in 1..L : W(k) \in 0..4 /\ W(k) <= k
    BY PlaceIs
<1>2. \A n : U8!FoldLast(t, n) = f[n]
    BY DEF U8!FoldLast
<1>12. \A k \in 1..L : W(k) # 0 => F(k) \in T
    <2> SUFFICES ASSUME NEW k \in 1..L, W(k) # 0 PROVE F(k) \in T
        OBVIOUS
    <2>1. PICK i : i = Len(t) - k + 1
        OBVIOUS
    <2>2. PICK w : w = U8!Width(t, i)
        OBVIOUS
    <2>3. i \in 1..Len(t) /\ w \in 0..4 /\ w # 0
        BY <2>1, <2>2, PlaceIs
    <2>4. U8!Width(t, i) > 0
        BY <2>2, <2>3
    <2> QED
        BY <2>1, <2>3, <2>4, FoldedIs
<1>13. << >> \in T /\ \A a, b \in T : a \o b \in T
    BY EmptySeq, ConcatProperties
<1> HIDE DEF L, W, F, T
<1>3. \A g \in [0..L -> T], k \in 0..L :
         step[<<g, k>>] = IF k = 0 \/ W(k) = 0 THEN << >> ELSE F(k) \o g[k - W(k)]
    OBVIOUS
<1>4. \A k \in 0..L : k # 0 /\ W(k) # 0 => k - W(k) \in 0..(k - 1) /\ k - W(k) \in 0..L
                                            /\ F(k) \in T
    BY <1>1, <1>12
<1>5. step \in [[0..L -> T] \X (0..L) -> T]
    BY <1>4, <1>13
<1>6. LooksBack(step, L, T)
    BY <1>3, <1>4, <1>5 DEF LooksBack
<1>7. PICK e : IsCourse(e, L, T, step)
    <2> HIDE DEF step
    <2> QED
        BY <1>1, <1>6, <1>13, CourseExists
<1>8. e \in [0..L -> T]
      /\ \A k \in 0..L : e[k] = IF k = 0 \/ W(k) = 0 THEN << >> ELSE F(k) \o e[k - W(k)]
    BY <1>3, <1>7 DEF IsCourse
<1>9. e = Def(e)
    BY <1>8
<1>10. f = Def(f)
    <2> HIDE DEF Def
    <2> QED
        BY <1>9
<1>11. \A k \in 0..L : f[k] = IF k = 0 \/ W(k) = 0 THEN << >> ELSE F(k) \o f[k - W(k)]
    <2> HIDE DEF f
    <2> QED
        BY <1>10
<1> HIDE DEF f
<1>14. \A k \in 0..L : f[k] \in T
    <2> DEFINE S == {m \in 0..L : \A k \in 0..m : f[k] \in T}
    <2>1. 0 \in S
        <3>1. f[0] = << >> /\ 0 \in 0..L
            BY <1>1, <1>11
        <3>2. \A k \in 0..0 : k = 0
            OBVIOUS
        <3> QED
            BY <1>13, <3>1, <3>2
    <2>2. ASSUME NEW m \in 0..(L - 1), m \in S PROVE m + 1 \in S
        <3>1. PICK l \in 0..L : l = m + 1
            BY <1>1
        <3>2. f[l] \in T
            <4>1. CASE l = 0 \/ W(l) = 0
                BY <1>11, <1>13, <4>1
            <4>2. CASE ~(l = 0 \/ W(l) = 0)
                <5>1. PICK r : r = l - W(l)
                    OBVIOUS
                <5>2. r \in 0..m /\ F(l) \in T
                    BY <1>1, <1>4, <3>1, <4>2, <5>1
                <5>3. f[r] \in T
                    BY <2>2, <5>2
                <5>4. f[l] = F(l) \o f[r]
                    BY <1>11, <4>2, <5>1
                <5> QED
                    BY <1>13, <5>2, <5>3, <5>4
            <4> QED
                BY <4>1, <4>2
        <3>3. \A k \in 0..l : k = l \/ k \in 0..m
            BY <3>1
        <3> QED
            BY <2>2, <3>1, <3>2, <3>3
    <2> HIDE DEF S
    <2>3. 0..L \subseteq S
        BY <1>1, <2>1, <2>2, UpTo
    <2>4. L \in S
        BY <1>1, <2>3
    <2> QED
        BY <2>4 DEF S
<1>15. f[0] = << >> /\ \A k \in 1..L : W(k) # 0 => f[k] = F(k) \o f[k - W(k)]
    <2>1. 0 \in 0..L /\ \A k \in 1..L : k \in 0..L /\ k # 0
        BY <1>1
    <2>2. f[0] = << >>
        BY <1>11, <2>1
    <2> QED
        BY <1>11, <2>1, <2>2
<1>16. ASSUME NEW n \in 1..Len(t), NEW w \in 1..4, w = U8!Width(t, Len(t) - n + 1)
       PROVE  U8!FoldLast(t, n) = U8!Folded(t, Len(t) - n + 1) \o U8!FoldLast(t, n - w)
    <2>1. n \in 1..L /\ w = W(n) /\ W(n) # 0
        BY <1>16 DEF L, W
    <2>2. f[n] = F(n) \o f[n - w]
        BY <1>15, <2>1
    <2> QED
        BY <1>2, <2>2 DEF F
<1> QED
    BY <1>2, <1>14, <1>15, <1>16 DEF L, T

\* c0 <<= 1 in a byte.
Shift(c) == (c * 2) % 256

\* The first byte of a character of which n bytes are read.
Shifted(c, n) ==
    IF n = 1 THEN c ELSE IF n = 2 THEN Shift(c) ELSE IF n = 3 THEN Shift(Shift(c))
    ELSE Shift(Shift(Shift(c)))

\* The first byte of a character of w bytes.
IsLead(c, w) ==
    \/ w = 2 /\ c \in 194..223
    \/ w = 3 /\ c \in 224..239
    \/ w = 4 /\ c \in 240..244

\* The bits of the first byte say how many bytes follow.
LEMMA ShiftedSays ==
    ASSUME NEW w \in 2..4, NEW c, IsLead(c, w), NEW n \in 1..w
    PROVE  /\ Shift(Shifted(c, n)) >= 128 <=> n < w
           /\ n < w => Shift(Shifted(c, n)) = Shifted(c, n + 1)
<1>1. \A y \in 128..255 : Shift(y) = 2 * y - 256
    BY DEF Shift
<1>2. CASE w = 2
    <2>1. PICK a \in 194..223 : a = c
        BY <1>2 DEF IsLead
    <2>2. PICK b : b = 2 * a - 256
        OBVIOUS
    <2>3. b \in 128..255 /\ b >= 128 /\ 2 * b - 256 < 128 /\ a \in 128..255
        BY <2>2
    <2>4. Shift(a) = b /\ Shift(b) = 2 * b - 256
        BY <1>1, <2>2, <2>3
    <2>5. CASE n = 1
        BY <1>2, <2>1, <2>3, <2>4, <2>5 DEF Shifted
    <2>6. CASE n = 2
        BY <1>2, <2>1, <2>3, <2>4, <2>6 DEF Shifted
    <2> QED
        BY <1>2, <2>5, <2>6
<1>3. CASE w = 3
    <2>1. PICK a \in 224..239 : a = c
        BY <1>3 DEF IsLead
    <2>2. PICK b, d : b = 2 * a - 256 /\ d = 2 * b - 256
        OBVIOUS
    <2>3. b \in 128..255 /\ b >= 128 /\ d \in 128..255 /\ d >= 128 /\ 2 * d - 256 < 128 /\ a \in 128..255
        BY <2>2
    <2>4. Shift(a) = b /\ Shift(b) = d /\ Shift(d) = 2 * d - 256
        BY <1>1, <2>2, <2>3
    <2>5. CASE n = 1
        BY <1>3, <2>1, <2>3, <2>4, <2>5 DEF Shifted
    <2>6. CASE n = 2
        BY <1>3, <2>1, <2>3, <2>4, <2>6 DEF Shifted
    <2>7. CASE n = 3
        BY <1>3, <2>1, <2>3, <2>4, <2>7 DEF Shifted
    <2> QED
        BY <1>3, <2>5, <2>6, <2>7
<1>4. CASE w = 4
    <2>1. PICK a \in 240..244 : a = c
        BY <1>4 DEF IsLead
    <2>2. PICK b, d, e : b = 2 * a - 256 /\ d = 2 * b - 256 /\ e = 2 * d - 256
        OBVIOUS
    <2>3. /\ b \in 128..255 /\ b >= 128 /\ d \in 128..255 /\ d >= 128 /\ e \in 128..255 /\ e >= 128
          /\ 2 * e - 256 < 128 /\ a \in 128..255
        BY <2>2
    <2>4. Shift(a) = b /\ Shift(b) = d /\ Shift(d) = e /\ Shift(e) = 2 * e - 256
        BY <1>1, <2>2, <2>3
    <2>5. CASE n = 1
        BY <1>4, <2>1, <2>3, <2>4, <2>5 DEF Shifted
    <2>6. CASE n = 2
        BY <1>4, <2>1, <2>3, <2>4, <2>6 DEF Shifted
    <2>7. CASE n = 3
        BY <1>4, <2>1, <2>3, <2>4, <2>7 DEF Shifted
    <2>8. CASE n = 4
        BY <1>4, <2>1, <2>3, <2>4, <2>8 DEF Shifted
    <2> QED
        BY <1>4, <2>5, <2>6, <2>7, <2>8
<1> QED
    BY <1>2, <1>3, <1>4

\* What u is after two, three and four bytes, of which x, y, z and t are the bits.
Code2(x, y) == U8!Clear(x * 64, U8!MaskBit(1)) + y
Code3(x, y, z) == U8!Clear(Code2(x, y) * 64, U8!MaskBit(2)) + z
Code4(x, y, z, t) == U8!Clear(Code3(x, y, z) * 64, U8!MaskBit(3)) + t

\* A bit that no bit of x reaches.
LEMMA ClearNothing == ASSUME NEW b \in Nat, NEW x \in Nat, x < b PROVE U8!Clear(x, b) = x
<1>1. b > 0 /\ x \div b = 0
    BY SMT
<1> QED
    BY <1>1, SMT DEF U8!Clear

LEMMA MaskBits == U8!MaskBit(1) = 4096 /\ U8!MaskBit(2) = 131072 /\ U8!MaskBit(3) = 4194304
BY SMT DEF U8!MaskBit

LEMMA CodeOfTwo ==
    ASSUME NEW x \in 0..31, NEW y \in 0..63
    PROVE  Code2(x, y) = x * 64 + y
<1>1. x * 64 < 4096 /\ x * 64 \in Nat
    BY SMT
<1>2. U8!Clear(x * 64, 4096) = x * 64
    BY <1>1, ClearNothing, SMT
<1> QED
    BY <1>2, MaskBits, SMT DEF Code2

LEMMA CodeOfThree ==
    ASSUME NEW x \in 0..31, NEW y \in 0..63, NEW z \in 0..63
    PROVE  Code3(x, y, z) = (x * 64 + y) * 64 + z
<1> DEFINE a == x * 64 + y
<1>1. a \in 0..2047
    OBVIOUS
<1>2. Code2(x, y) = a
    BY CodeOfTwo, SMT
<1> HIDE DEF a
<1>3. a * 64 < 131072 /\ a * 64 \in Nat
    BY <1>1, SMT
<1>4. U8!Clear(a * 64, 131072) = a * 64
    BY <1>3, ClearNothing, SMT
<1>5. Code3(x, y, z) = a * 64 + z
    BY <1>2, <1>4, MaskBits, SMT DEF Code3
<1> QED
    BY <1>5 DEF a

\* The bits of 65536, the first character of four bytes.
IsFour(x, y) == x * 64 + y >= 1040

LEMMA CodeOfFour ==
    ASSUME NEW x \in 0..31, NEW y \in 0..63, NEW z \in 0..63, NEW t \in 0..63, IsFour(x, y)
    PROVE  Code4(x, y, z, t) \notin U8!TwoBytes
<1> DEFINE a == (x * 64 + y) * 64 + z
<1>1. a \in Nat /\ a >= 66560 /\ a < 131072
    BY SMT DEF IsFour
<1>2. Code3(x, y, z) = a
    BY CodeOfThree, ZenonT(30)
<1> HIDE DEF a
<1>3. a * 64 >= 4194304 /\ a * 64 < 2 * 4194304 /\ a * 64 \in Nat
    BY ONLY <1>1, SMT
<1>4. (a * 64) \div 4194304 = 1
    BY ONLY <1>1, <1>3, SMT
<1>5. U8!Clear(a * 64, U8!MaskBit(3)) = a * 64 - 4194304
    BY ONLY <1>1, <1>4, MaskBits, SMT DEF U8!Clear
<1>6. Code4(x, y, z, t) = a * 64 - 4194304 + t
    BY <1>2, <1>5, SMT DEF Code4
<1>7. a * 64 - 4194304 + t >= 2048
    BY ONLY <1>1, t \in 0..63, SMT
<1> QED
    BY <1>1, <1>6, <1>7, SMT DEF U8!TwoBytes

\* cmap_2 has the characters of two bytes and no other.
LEMMA EndOfTwo ==
    ASSUME NEW c \in 194..223, NEW d \in 128..191
    PROVE  /\ Code2(c % 32, d % 64) = (c % 32) * 64 + (d % 64)
           /\ Code2(c % 32, d % 64) \in U8!TwoBytes
<1> DEFINE x == c % 32
           y == d % 64
<1>1. x \in 0..31 /\ y \in 0..63 /\ x * 64 + y \in U8!TwoBytes
    BY SMT DEF U8!TwoBytes
<1> HIDE DEF x, y
<1>2. Code2(x, y) = x * 64 + y
    BY <1>1, CodeOfTwo, SMT
<1> QED
    BY <1>1, <1>2 DEF x, y

LEMMA EndOfThree ==
    ASSUME NEW c \in 224..239, NEW d \in 128..191, NEW e \in 128..191, c = 224 => d >= 160
    PROVE  Code3(c % 32, d % 64, e % 64) \notin U8!TwoBytes
<1> DEFINE x == c % 32
           y == d % 64
           z == e % 64
<1>1. x \in 0..31 /\ y \in 0..63 /\ z \in 0..63 /\ x * 64 + y >= 32
    BY SMT
<1> HIDE DEF x, y, z
<1>2. Code3(x, y, z) = (x * 64 + y) * 64 + z
    BY ONLY <1>1, CodeOfThree, ZenonT(30)
<1>3. (x * 64 + y) * 64 + z \notin U8!TwoBytes
    <2>1. PICK b \in Nat : b = x * 64 + y /\ b >= 32
        BY ONLY <1>1, SMT
    <2>2. b * 64 + z >= 2048
        BY ONLY <1>1, <2>1, SMT
    <2>3. b * 64 + z \notin U8!TwoBytes
        BY ONLY <2>2, SMTT(20) DEF U8!TwoBytes
    <2> QED
        BY ONLY <2>1, <2>3
<1>4. Code3(x, y, z) \notin U8!TwoBytes
    BY ONLY <1>2, <1>3, SMT
<1> QED
    BY <1>4, SMT DEF x, y, z

LEMMA EndOfFour ==
    ASSUME NEW c \in 240..244, NEW d \in 128..191, NEW e \in 128..191, NEW f \in 128..191,
           c = 240 => d >= 144
    PROVE  Code4(c % 32, d % 64, e % 64, f % 64) \notin U8!TwoBytes
<1> DEFINE x == c % 32
           y == d % 64
           z == e % 64
           t == f % 64
<1>1. x \in 0..31 /\ y \in 0..63 /\ z \in 0..63 /\ t \in 0..63 /\ IsFour(x, y)
    BY SMT DEF IsFour
<1> HIDE DEF x, y, z, t
<1>2. Code4(x, y, z, t) \notin U8!TwoBytes
    BY ONLY <1>1, CodeOfFour, Zenon
<1> QED
    BY <1>2, SMT DEF x, y, z, t

\* The laws of the sequences, of sequences of bytes.
LEMMA SeqsOfBytes ==
    /\ \A o, a, b \in Seq(U8!Bytes) : (o \o a) \o b = o \o (a \o b)
    /\ \A o \in Seq(U8!Bytes), x \in U8!Bytes : Append(o, x) = o \o <<x>>
<1> DEFINE S == U8!Bytes
<1>1. \A o, a, b \in Seq(S) : (o \o a) \o b = o \o (a \o b)
    <2> HIDE DEF S
    <2> QED
        BY ConcatAssociative
<1>2. \A o \in Seq(S), x \in S : Append(o, x) = o \o <<x>>
    <2> HIDE DEF S
    <2> QED
        BY AppendIsConcat
<1> QED
    BY <1>1, <1>2

\* What a character folds to.
LEMMA FoldedOf ==
    ASSUME NEW t, NEW i
    PROVE  /\ U8!Width(t, i) = 1 => U8!Folded(t, i) = <<Cmap1[t[i]]>>
           /\ U8!Width(t, i) = 2 =>
                 U8!Folded(t, i) = Cmap2[(t[i] % 32) * 64 + (t[i + 1] % 64)]
           /\ U8!Width(t, i) \in 3..4 => U8!Folded(t, i) = SubSeq(t, i, i + U8!Width(t, i) - 1)
<1> DEFINE w == U8!Width(t, i)
<1>1. U8!Folded(t, i) = CASE w = 1 -> <<Cmap1[t[i]]>>
                          [] w = 2 -> Cmap2[(t[i] % 32) * 64 + (t[i + 1] % 64)]
                          [] OTHER -> SubSeq(t, i, i + w - 1)
    BY DEF U8!Folded
<1> HIDE DEF w
<1>2. w = 1 => U8!Folded(t, i) = <<Cmap1[t[i]]>>
    BY <1>1
<1>3. w = 2 => U8!Folded(t, i) = Cmap2[(t[i] % 32) * 64 + (t[i + 1] % 64)]
    BY <1>1
<1>4. w \in 3..4 => U8!Folded(t, i) = SubSeq(t, i, i + w - 1)
    <2>1. w \in 3..4 => w # 1 /\ w # 2
        OBVIOUS
    <2> QED
        BY <1>1, <2>1
<1> QED
    BY <1>2, <1>3, <1>4 DEF w

LEMMA FoldedOne ==
    ASSUME NEW t \in Seq(U8!Bytes), NEW i \in 1..Len(t), NEW c, c = t[i], U8!Width(t, i) = 1
    PROVE  U8!Folded(t, i) = <<Cmap1[c]>>
BY SMT DEF U8!Folded

-----------------------------------------------------------------------------
(* The characters of a string that is UTF-8                                *)

\* What u is after n bytes of the character at i.
CodeAt(t, i, n) ==
    IF n = 1 THEN t[i] % 32
    ELSE IF n = 2 THEN Code2(t[i] % 32, t[i + 1] % 64)
    ELSE IF n = 3 THEN Code3(t[i] % 32, t[i + 1] % 64, t[i + 2] % 64)
    ELSE Code4(t[i] % 32, t[i + 1] % 64, t[i + 2] % 64, t[i + 3] % 64)

\* The first r bytes are characters and o is what they fold to.
Reached(t, o, r) ==
    /\ U8!StuckLast(t, Len(t) - r) = 0
    /\ o \o U8!FoldLast(t, Len(t) - r) = U8!FoldLast(t, Len(t))

\* In the character of w bytes at i.
InChar(i, w) ==
    /\ w = U8!Width(u8_str, i)
    /\ Reached(u8_str, u8_out, i - 1)
    /\ u8_nBytes \in 1..w
    /\ u8_read = i + u8_nBytes - 1
    /\ u8_u = CodeAt(u8_str, i, u8_nBytes)
    /\ u8_pc = "next" => u8_c0 = Shifted(u8_str[i], u8_nBytes)
    /\ u8_pc = "emit" => u8_nBytes = w

FoldInv ==
    U8!StuckLast(u8_str, Len(u8_str)) = 0 =>
        /\ u8_pc \in {"char", "done"} => Reached(u8_str, u8_out, u8_read)
        /\ u8_pc \in {"next", "emit"} => \E i \in 1..Len(u8_str), w \in 2..4 : InChar(i, w)

\* There is a character after r bytes, and r + w bytes once it is written.
LEMMA CharAt ==
    ASSUME U8!TablesOK, NEW t \in Seq(U8!Bytes), NEW o \in Seq(U8!Bytes), NEW i \in 1..Len(t),
           Reached(t, o, i - 1), NEW w, w = U8!Width(t, i)
    PROVE  /\ w \in 1..4
           /\ Reached(t, o \o U8!Folded(t, i), i - 1 + w)
<1>1. PICK L \in Nat : L = Len(t)
    BY LenProperties
<1>2. PICK n \in 1..L : n = L - i + 1 /\ L - n + 1 = i /\ L - (i - 1) = n
    <2>1. i \in 1..L
        BY <1>1
    <2>2. L - i + 1 \in 1..L /\ L - (L - i + 1) + 1 = i /\ L - (i - 1) = L - i + 1
        BY <2>1
    <2> QED
        BY <2>2
<1>3. w \in 0..4 /\ w <= n
    BY <1>1, <1>2, PlaceIs
<1>4. w # 0
    <2>1. U8!StuckLast(t, n) = 0
        BY <1>1, <1>2 DEF Reached
    <2>2. U8!StuckLast(t, n) = IF w = 0 THEN n ELSE U8!StuckLast(t, n - w)
        BY <1>1, <1>2, <1>3, StuckTurn
    <2> QED
        BY <2>1, <2>2
<1>5. w \in 1..4
    BY <1>3, <1>4
<1>6. U8!StuckLast(t, n - w) = 0
    <2>1. U8!StuckLast(t, n) = 0
        BY <1>1, <1>2 DEF Reached
    <2>2. U8!StuckLast(t, n) = IF w = 0 THEN n ELSE U8!StuckLast(t, n - w)
        BY <1>1, <1>2, <1>3, StuckTurn
    <2> QED
        BY <1>4, <2>1, <2>2
<1>7. U8!FoldLast(t, n) = U8!Folded(t, i) \o U8!FoldLast(t, n - w)
    BY <1>1, <1>2, <1>5, FoldTurn
<1>8. L - (i - 1 + w) = n - w /\ n - w \in 0..L
    BY <1>2, <1>3, <1>5
<1>9. U8!Folded(t, i) \in Seq(U8!Bytes) /\ U8!FoldLast(t, n - w) \in Seq(U8!Bytes)
    <2>1. U8!Width(t, i) > 0
        BY <1>5
    <2>2. U8!Folded(t, i) \in Seq(U8!Bytes)
        BY <2>1, FoldedIs
    <2>3. \A k \in 0..L : U8!FoldLast(t, k) \in Seq(U8!Bytes)
        BY <1>1, FoldTurn
    <2> QED
        BY <1>8, <2>2, <2>3
<1>10. PICK a \in Seq(U8!Bytes), b \in Seq(U8!Bytes) : a = U8!Folded(t, i) /\ b = U8!FoldLast(t, n - w)
    BY <1>9, Zenon
<1>11. (o \o a) \o b = o \o (a \o b)
    BY SeqsOfBytes, Zenon
<1>12. o \o U8!FoldLast(t, n) = U8!FoldLast(t, L)
    BY <1>1, <1>2 DEF Reached
<1>13. (o \o U8!Folded(t, i)) \o U8!FoldLast(t, n - w) = U8!FoldLast(t, L)
    BY <1>7, <1>10, <1>11, <1>12, Zenon
<1> QED
    BY <1>1, <1>5, <1>6, <1>8, <1>13 DEF Reached

\* The second byte of a character that has no shorter form.
IsSecond(c, d) == (c = 224 => d >= 160) /\ (c = 240 => d >= 144)

\* The first byte of a character of several bytes.
LEMMA LeadOfWidth ==
    ASSUME NEW t \in Seq(U8!Bytes), NEW i \in 1..Len(t), NEW w \in 2..4, w = U8!Width(t, i)
    PROVE  IsLead(t[i], w) /\ IsSecond(t[i], t[i + 1])
<1>1. IsLead(t[i], w)
    BY WidthIs DEF IsLead
<1>2. /\ w = 3 => (t[i] = 224 => t[i + 1] >= 160)
      /\ w = 4 => (t[i] = 240 => t[i + 1] >= 144)
    BY WidthIs
<1>3. (t[i] = 224 => w = 3) /\ (t[i] = 240 => w = 4)
    <2>1. ASSUME NEW c, IsLead(c, w) PROVE (c = 224 => w = 3) /\ (c = 240 => w = 4)
        <3>1. ~IsLead(224, 2) /\ ~IsLead(224, 4) /\ ~IsLead(240, 2) /\ ~IsLead(240, 3)
            BY SMT DEF IsLead
        <3>2. w = 2 \/ w = 3 \/ w = 4
            OBVIOUS
        <3> QED
            BY <2>1, <3>1, <3>2
    <2> QED
        BY <1>1, <2>1, Zenon
<1> QED
    BY <1>1, <1>2, <1>3, Zenon DEF IsSecond

\* A byte and the character it begins.
IsAscii(c) == c < 128

LEMMA WidthAt ==
    ASSUME NEW t \in Seq(U8!Bytes), NEW i \in 1..Len(t), NEW c, c = t[i],
           NEW w, w = U8!Width(t, i)
    PROVE  /\ IsAscii(c) <=> w = 1
           /\ w \in 2..4 => IsLead(c, w)
<1>1. IsAscii(t[i]) => U8!Width(t, i) = 1
    BY WidthOne DEF IsAscii
<1>2. w = 1 => IsAscii(t[i])
    BY WidthIs, Zenon DEF IsAscii
<1>3. w \in 2..4 => IsLead(t[i], w)
    BY LeadOfWidth, Zenon
<1> QED
    BY <1>1, <1>2, <1>3, Zenon

LEMMA InitFold == U8!TablesOK /\ U8!Init => FoldInv
<1> SUFFICES ASSUME U8!TablesOK, U8!Init, U8!StuckLast(u8_str, Len(u8_str)) = 0 PROVE FoldInv
    BY DEF FoldInv
<1>1. u8_str \in Seq(U8!Bytes) /\ u8_pc = "char" /\ u8_read = 0 /\ u8_out = << >>
    BY DEF U8!Init, U8!TablesOK
<1>2. Len(u8_str) \in Nat /\ Len(u8_str) - 0 = Len(u8_str)
    BY <1>1
<1>3. PICK b \in Seq(U8!Bytes) : b = U8!FoldLast(u8_str, Len(u8_str))
    BY <1>1, <1>2, FoldTurn
<1>4. << >> \o b = b
    BY ConcatEmptySeq, Zenon
<1>5. Reached(u8_str, u8_out, u8_read)
    BY <1>1, <1>2, <1>3, <1>4 DEF Reached
<1> QED
    BY <1>1, <1>5 DEF FoldInv

\* What is known of the first byte.
LEMMA LeadFacts ==
    ASSUME U8!Utf8Inv, U8!Lead
    PROVE  /\ u8_pc = "char" /\ u8_str' = u8_str /\ u8_read' = u8_read + 1
           /\ u8_str \in Seq(U8!Bytes) /\ u8_out \in Seq(U8!Bytes)
           /\ u8_read \in 0..(Len(u8_str) - 1) /\ u8_read + 1 \in 1..Len(u8_str)
           /\ \E c \in U8!Bytes : c = u8_str[u8_read + 1] /\
                \/ c < 128 /\ u8_out' = Append(u8_out, Cmap1[c]) /\ u8_pc' = "char"
                \/ c \in 128..191 /\ u8_pc' = "char" /\ u8_out' = u8_out
                \/ /\ c >= 192 /\ u8_c0' = c /\ u8_u' = c % 32 /\ u8_nBytes' = 1
                   /\ u8_pc' = "next" /\ u8_out' = u8_out
<1>1. /\ u8_pc = "char" /\ u8_str' = u8_str /\ u8_read' = u8_read + 1
      /\ u8_str \in Seq(U8!Bytes) /\ u8_out \in Seq(U8!Bytes) /\ u8_read \in Nat /\ Len(u8_str) \in Nat
      /\ u8_read < Len(u8_str)
    BY DEF U8!Lead, U8!Utf8Inv, U8!TypeOK, U8!len
<1>2. u8_read \in 0..(Len(u8_str) - 1) /\ u8_read + 1 \in 1..Len(u8_str)
    BY <1>1
<1>3. u8_str[u8_read + 1] \in U8!Bytes
    BY <1>1, <1>2, LenProperties
<1>4. PICK c \in U8!Bytes : c = u8_str[u8_read + 1]
    BY <1>3
<1>5. \/ c < 128 /\ u8_out' = Append(u8_out, Cmap1[c]) /\ u8_pc' = "char"
      \/ c \in 128..191 /\ u8_pc' = "char" /\ u8_out' = u8_out
      \/ c >= 192 /\ u8_c0' = c /\ u8_u' = c % 32 /\ u8_nBytes' = 1 /\ u8_pc' = "next" /\ u8_out' = u8_out
    BY <1>1, <1>4 DEF U8!Lead
<1> QED
    BY <1>1, <1>2, <1>4, <1>5, Zenon

LEMMA LeadFold == U8!TablesOK /\ U8!Utf8Inv /\ FoldInv /\ U8!Lead => FoldInv'
<1> SUFFICES ASSUME U8!TablesOK, U8!Utf8Inv, FoldInv, U8!Lead,
                    U8!StuckLast(u8_str', Len(u8_str')) = 0
             PROVE  FoldInv'
    BY DEF FoldInv
<1>1. /\ u8_pc = "char" /\ u8_str' = u8_str /\ u8_read' = u8_read + 1
      /\ u8_str \in Seq(U8!Bytes) /\ u8_out \in Seq(U8!Bytes)
      /\ u8_read \in 0..(Len(u8_str) - 1) /\ u8_read + 1 \in 1..Len(u8_str)
    BY LeadFacts
<1>2. Reached(u8_str, u8_out, u8_read)
    BY <1>1 DEF FoldInv
<1>3. PICK i \in 1..Len(u8_str) : i = u8_read + 1 /\ i - 1 = u8_read
    BY <1>1
<1>4. PICK w : w = U8!Width(u8_str, i)
    OBVIOUS
<1>5. w \in 1..4 /\ Reached(u8_str, u8_out \o U8!Folded(u8_str, i), i - 1 + w)
    BY <1>1, <1>2, <1>3, <1>4, CharAt
<1>6. PICK c \in 0..255 : c = u8_str[i] /\
          \/ c < 128 /\ u8_out' = Append(u8_out, Cmap1[c]) /\ u8_pc' = "char"
          \/ c \in 128..191 /\ u8_pc' = "char" /\ u8_out' = u8_out
          \/ /\ c >= 192 /\ u8_c0' = c /\ u8_u' = c % 32 /\ u8_nBytes' = 1
             /\ u8_pc' = "next" /\ u8_out' = u8_out
    BY <1>3, LeadFacts, Zenon DEF U8!Bytes
<1>10. c = u8_str[i]
    BY <1>6, Zenon
<1>11. (IsAscii(c) <=> w = 1) /\ (w \in 2..4 => IsLead(c, w))
    BY <1>1, <1>4, <1>10, WidthAt
<1>12. /\ c < 128 => u8_out' = Append(u8_out, Cmap1[c]) /\ u8_pc' = "char"
       /\ c >= 192 => /\ u8_c0' = c /\ u8_u' = c % 32 /\ u8_nBytes' = 1
                      /\ u8_pc' = "next" /\ u8_out' = u8_out
    <2>1. (c < 128 => ~(c >= 192) /\ c \notin 128..191) /\ (c >= 192 => ~(c < 128) /\ c \notin 128..191)
        BY SMT
    <2> QED
        BY <1>6, <2>1, Zenon
<1>7. CASE c < 128
    <2>1. w = 1
        BY <1>7, <1>11 DEF IsAscii
    <2>2. Cmap1[c] \in U8!Bytes
        <3>1. c \in U8!OneByte
            BY <1>7 DEF U8!OneByte
        <3>2. Cmap1[c] \in U8!OneByte
            BY <3>1 DEF U8!TablesOK
        <3> QED
            BY <3>2 DEF U8!OneByte, U8!Bytes
    <2>4. U8!Folded(u8_str, i) = <<Cmap1[c]>>
        <3>2. U8!Width(u8_str, i) = 1
            BY <1>4, <2>1
        <3> QED
            BY <1>1, <1>10, <3>2, FoldedOne
    <2>5. Append(u8_out, Cmap1[c]) = u8_out \o <<Cmap1[c]>>
        BY <1>1, <2>2, SeqsOfBytes, Zenon
    <2>6. u8_out' = Append(u8_out, Cmap1[c]) /\ u8_pc' = "char"
        BY <1>7, <1>12, Zenon
    <2>7. i - 1 + w = u8_read + 1
        BY <1>3, <2>1
    <2>8. Reached(u8_str', u8_out', u8_read')
        BY <1>1, <1>5, <2>4, <2>5, <2>6, <2>7, Zenon
    <2> QED
        BY <2>6, <2>8 DEF FoldInv, Reached
<1>8. CASE c \in 128..191
    <2>1. w # 1
        BY <1>8, <1>11 DEF IsAscii
    <2> QED
        BY <1>5, <1>8, <1>11, <2>1 DEF IsLead, IsAscii
<1>9. CASE c >= 192
    <2>1. /\ u8_c0' = c /\ u8_u' = c % 32 /\ u8_nBytes' = 1
          /\ u8_pc' = "next" /\ u8_out' = u8_out
        BY <1>9, <1>12, Zenon
    <2>2. w # 1
        BY <1>9, <1>11 DEF IsAscii
    <2>3. w \in 2..4 /\ 1 \in 1..w
        BY <1>5, <2>2
    <2>4. CodeAt(u8_str, i, 1) = c % 32 /\ Shifted(u8_str[i], 1) = c
        BY <1>6 DEF CodeAt, Shifted
    <2>5. i + 1 - 1 = i /\ u8_read' = i
        BY <1>1, <1>3
    <2>6. InChar(i, w)'
        BY <1>1, <1>2, <1>3, <1>4, <2>1, <2>3, <2>4, <2>5 DEF InChar, Reached
    <2>7. i \in 1..Len(u8_str')
        BY <1>1
    <2> QED
        BY <2>1, <2>3, <2>6, <2>7 DEF FoldInv
<1> QED
    BY <1>6, <1>7, <1>8, <1>9

\* A byte of the character that is not the last: there is one more.
LEMMA InsideChar ==
    ASSUME U8!Utf8Inv, u8_pc = "next", NEW i \in 1..Len(u8_str), NEW w \in 2..4, InChar(i, w)
    PROVE  /\ U8!Announced /\ u8_nBytes < 6 <=> u8_nBytes < w
           /\ (u8_c0 * 2) % 256 = Shift(u8_c0)
           /\ u8_nBytes < w => Shift(u8_c0) = Shifted(u8_str[i], u8_nBytes + 1)
<1>1. /\ u8_str \in Seq(U8!Bytes) /\ Len(u8_str) \in Nat /\ u8_nBytes \in 1..w
      /\ w = U8!Width(u8_str, i) /\ u8_c0 = Shifted(u8_str[i], u8_nBytes)
      /\ u8_read = i + u8_nBytes - 1
    BY DEF U8!Utf8Inv, U8!TypeOK, InChar
<1>2. IsLead(u8_str[i], w)
    BY <1>1, LeadOfWidth, Zenon
<1>3. /\ Shift(u8_c0) >= 128 <=> u8_nBytes < w
      /\ u8_nBytes < w => Shift(u8_c0) = Shifted(u8_str[i], u8_nBytes + 1)
    <2>1. /\ Shift(Shifted(u8_str[i], u8_nBytes)) >= 128 <=> u8_nBytes < w
          /\ u8_nBytes < w => Shift(Shifted(u8_str[i], u8_nBytes)) = Shifted(u8_str[i], u8_nBytes + 1)
        BY <1>1, <1>2, ShiftedSays
    <2> QED
        BY <1>1, <2>1, Zenon
<1>4. (u8_c0 * 2) % 256 = Shift(u8_c0)
    BY DEF Shift
<1>5. u8_nBytes < w => u8_nBytes < 6 /\ U8!len > 0 /\ U8!IsContinuation(u8_str[u8_read + 1])
    <2> SUFFICES ASSUME u8_nBytes < w
                 PROVE  u8_nBytes < 6 /\ U8!len > 0 /\ U8!IsContinuation(u8_str[u8_read + 1])
        OBVIOUS
    <2>1. u8_nBytes \in 1..(w - 1) /\ u8_nBytes < 6 /\ u8_read + 1 = i + u8_nBytes
        BY <1>1
    <2>2. i + w - 1 <= Len(u8_str) /\ \A j \in 1..(w - 1) : u8_str[i + j] \in 128..191
        <3>1. w > 0
            OBVIOUS
        <3> QED
            BY <1>1, <3>1, WidthIs
    <2>3. U8!len > 0 /\ i + u8_nBytes \in 1..Len(u8_str)
        BY <1>1, <2>1, <2>2 DEF U8!len
    <2>4. u8_str[i + u8_nBytes] \in 128..191
        BY <2>1, <2>2
    <2>5. u8_str[i + u8_nBytes] \in U8!Bytes
        BY <2>4 DEF U8!Bytes
    <2>6. U8!IsContinuation(u8_str[i + u8_nBytes])
        BY <2>4, <2>5, ContinuationIs
    <2> QED
        BY <2>1, <2>3, <2>6
<1>6. U8!Announced => Shift(u8_c0) >= 128
    BY <1>4 DEF U8!Announced, U8!AnnouncedOnly
<1>7. Shift(u8_c0) >= 128 /\ U8!len > 0 /\ U8!IsContinuation(u8_str[u8_read + 1]) => U8!Announced
    BY <1>4 DEF U8!Announced, U8!AnnouncedOnly
<1> QED
    BY <1>3, <1>4, <1>5, <1>6, <1>7, Zenon

LEMMA NextByteFold == U8!Utf8Inv /\ FoldInv /\ U8!NextByte => FoldInv'
<1> SUFFICES ASSUME U8!Utf8Inv, FoldInv, U8!NextByte,
                    U8!StuckLast(u8_str', Len(u8_str')) = 0
             PROVE  FoldInv'
    BY DEF FoldInv
<1>1. /\ u8_pc = "next" /\ u8_str' = u8_str /\ u8_pc' = "next" /\ u8_out' = u8_out
      /\ u8_read' = u8_read + 1 /\ u8_nBytes' = u8_nBytes + 1 /\ U8!Announced /\ u8_nBytes < 6
      /\ u8_c0' = (u8_c0 * 2) % 256
    BY DEF U8!NextByte
<1>2. PICK i \in 1..Len(u8_str), w \in 2..4 : InChar(i, w)
    BY <1>1 DEF FoldInv
<1>3. /\ u8_nBytes \in 1..w /\ w = U8!Width(u8_str, i) /\ u8_read = i + u8_nBytes - 1
      /\ u8_u = CodeAt(u8_str, i, u8_nBytes) /\ Reached(u8_str, u8_out, i - 1)
    BY <1>2 DEF InChar
<1>4. /\ u8_nBytes < w
      /\ u8_c0' = Shifted(u8_str[i], u8_nBytes + 1)
    BY <1>1, <1>2, InsideChar
<1>5. u8_nBytes \in 1..3 /\ u8_nBytes + 1 \in 1..w /\ u8_read + 1 = i + u8_nBytes
    BY <1>3, <1>4
<1>6. PICK g : g = u8_str[i + u8_nBytes] % 64
    OBVIOUS
<1>7. u8_u' = U8!Clear(u8_u * 64, U8!MaskBit(u8_nBytes)) + g
    <2>1. u8_nBytes <= 3
        BY <1>5
    <2>2. u8_u' = U8!Clear(u8_u * 64, U8!MaskBit(u8_nBytes)) + (u8_str[u8_read + 1] % 64)
        BY <2>1 DEF U8!NextByte
    <2> QED
        BY <1>5, <1>6, <2>2, Zenon
<1>8. u8_u' = CodeAt(u8_str, i, u8_nBytes + 1)
    <2>1. CASE u8_nBytes = 1
        <3>1. u8_u = u8_str[i] % 32 /\ g = u8_str[i + 1] % 64
            BY <1>3, <1>6, <2>1 DEF CodeAt
        <3>2. CodeAt(u8_str, i, 2) = Code2(u8_str[i] % 32, u8_str[i + 1] % 64) /\ u8_nBytes + 1 = 2
            BY <2>1 DEF CodeAt
        <3> QED
            BY <1>7, <2>1, <3>1, <3>2, Zenon DEF Code2
    <2>2. CASE u8_nBytes = 2
        <3>1. u8_u = Code2(u8_str[i] % 32, u8_str[i + 1] % 64) /\ g = u8_str[i + 2] % 64
            BY <1>3, <1>6, <2>2 DEF CodeAt
        <3>2. /\ CodeAt(u8_str, i, 3) = Code3(u8_str[i] % 32, u8_str[i + 1] % 64, u8_str[i + 2] % 64)
              /\ u8_nBytes + 1 = 3
            BY <2>2 DEF CodeAt
        <3> QED
            BY <1>7, <2>2, <3>1, <3>2, Zenon DEF Code3
    <2>3. CASE u8_nBytes = 3
        <3>1. /\ u8_u = Code3(u8_str[i] % 32, u8_str[i + 1] % 64, u8_str[i + 2] % 64)
              /\ g = u8_str[i + 3] % 64
            BY <1>3, <1>6, <2>3 DEF CodeAt
        <3>2. /\ CodeAt(u8_str, i, 4) = Code4(u8_str[i] % 32, u8_str[i + 1] % 64, u8_str[i + 2] % 64,
                                              u8_str[i + 3] % 64)
              /\ u8_nBytes + 1 = 4
            BY <2>3 DEF CodeAt
        <3> QED
            BY <1>7, <2>3, <3>1, <3>2, Zenon DEF Code4
    <2> QED
        BY <1>5, <2>1, <2>2, <2>3
<1>9. u8_read' = i + u8_nBytes' - 1
    BY <1>1, <1>3, <1>5
<1>10. InChar(i, w)'
    BY <1>1, <1>3, <1>4, <1>5, <1>8, <1>9, Zenon DEF InChar, Reached
<1> QED
    BY <1>1, <1>10 DEF FoldInv

LEMMA EndOfCharFold == U8!Utf8Inv /\ FoldInv /\ U8!EndOfChar => FoldInv'
<1> SUFFICES ASSUME U8!Utf8Inv, FoldInv, U8!EndOfChar,
                    U8!StuckLast(u8_str', Len(u8_str')) = 0
             PROVE  FoldInv'
    BY DEF FoldInv
<1>1. /\ u8_pc = "next" /\ u8_str' = u8_str /\ u8_pc' = "emit" /\ u8_out' = u8_out
      /\ u8_read' = u8_read /\ u8_u' = u8_u /\ ~(U8!Announced /\ u8_nBytes < 6)
      /\ u8_nBytes' = IF U8!Announced THEN 7 ELSE u8_nBytes
    BY DEF U8!EndOfChar
<1>2. PICK i \in 1..Len(u8_str), w \in 2..4 : InChar(i, w)
    BY <1>1 DEF FoldInv
<1>3. /\ u8_nBytes \in 1..w /\ w = U8!Width(u8_str, i) /\ u8_read = i + u8_nBytes - 1
      /\ u8_u = CodeAt(u8_str, i, u8_nBytes) /\ Reached(u8_str, u8_out, i - 1)
    BY <1>2 DEF InChar
<1>4. ~(u8_nBytes < w)
    BY <1>1, <1>2, InsideChar
<1>5. u8_nBytes = w /\ u8_nBytes < 6
    BY <1>3, <1>4
<1>6. u8_nBytes' = u8_nBytes
    BY <1>1, <1>5
<1>7. InChar(i, w)'
    BY <1>1, <1>3, <1>5, <1>6, Zenon DEF InChar, Reached
<1> QED
    BY <1>1, <1>7 DEF FoldInv

\* What is written for a character is what it folds to.
LEMMA EmitIs ==
    ASSUME NEW t \in Seq(U8!Bytes), NEW i \in 1..Len(t), NEW w \in 2..4, w = U8!Width(t, i),
           NEW u, u = CodeAt(t, i, w)
    PROVE  U8!Folded(t, i) = IF u \in U8!TwoBytes THEN Cmap2[u] ELSE SubSeq(t, i, i + w - 1)
<1>1. \A j \in 1..(w - 1) : t[i + j] \in 128..191
    <2>1. w > 0
        OBVIOUS
    <2> QED
        BY <2>1, WidthIs
<1>6. IsLead(t[i], w) /\ IsSecond(t[i], t[i + 1])
    BY LeadOfWidth, Zenon
<1>2. CASE w = 2
    <2>1. t[i] \in 194..223 /\ t[i + 1] \in 128..191
        <3>1. 1 \in 1..(w - 1)
            BY <1>2
        <3>2. t[i] \in 194..223
            BY <1>2, <1>6 DEF IsLead
        <3> QED
            BY <1>1, <3>1, <3>2
    <2>2. PICK c \in 194..223, d \in 128..191 : c = t[i] /\ d = t[i + 1]
        BY <2>1
    <2>3. u = Code2(t[i] % 32, t[i + 1] % 64)
        BY <1>2 DEF CodeAt
    <2>4. u = Code2(c % 32, d % 64)
        BY <2>2, <2>3
    <2>5. u = (c % 32) * 64 + (d % 64) /\ u \in U8!TwoBytes
        <3>1. /\ Code2(c % 32, d % 64) = (c % 32) * 64 + (d % 64)
              /\ Code2(c % 32, d % 64) \in U8!TwoBytes
            BY EndOfTwo
        <3> QED
            BY <2>4, <3>1, Zenon
    <2>6. U8!Folded(t, i) = Cmap2[(t[i] % 32) * 64 + (t[i + 1] % 64)]
        <3>1. U8!Width(t, i) = 2
            BY <1>2
        <3> QED
            BY <3>1, FoldedOf, Zenon
    <2>7. U8!Folded(t, i) = Cmap2[u]
        BY <2>2, <2>5, <2>6
    <2> QED
        BY <2>5, <2>7
<1>3. ASSUME w \in 3..4 PROVE U8!Folded(t, i) = SubSeq(t, i, i + w - 1)
    <2>1. U8!Width(t, i) \in 3..4
        BY <1>3
    <2> QED
        BY <2>1, FoldedOf
<1>4. CASE w = 3
    <2>1. /\ t[i] \in 224..239 /\ (t[i] = 224 => t[i + 1] >= 160)
          /\ t[i + 1] \in 128..191 /\ t[i + 2] \in 128..191
        <3>1. 1 \in 1..(w - 1) /\ 2 \in 1..(w - 1)
            BY <1>4
        <3>2. t[i] \in 224..239 /\ (t[i] = 224 => t[i + 1] >= 160)
            BY <1>4, <1>6 DEF IsLead, IsSecond
        <3> QED
            BY <1>1, <3>1, <3>2
    <2>2. PICK c \in 224..239, d \in 128..191, e \in 128..191 :
             c = t[i] /\ d = t[i + 1] /\ e = t[i + 2]
        BY <2>1, Zenon
    <2>3. c = 224 => d >= 160
        BY <2>1, <2>2
    <2>4. u = Code3(t[i] % 32, t[i + 1] % 64, t[i + 2] % 64)
        BY <1>4 DEF CodeAt
    <2>5. u = Code3(c % 32, d % 64, e % 64)
        BY <2>2, <2>4
    <2>6. u \notin U8!TwoBytes
        <3>1. Code3(c % 32, d % 64, e % 64) \notin U8!TwoBytes
            BY <2>3, EndOfThree, Zenon
        <3> QED
            BY <2>5, <3>1, Zenon
    <2> QED
        BY <1>3, <1>4, <2>6
<1>5. CASE w = 4
    <2>1. /\ t[i] \in 240..244 /\ (t[i] = 240 => t[i + 1] >= 144)
          /\ t[i + 1] \in 128..191 /\ t[i + 2] \in 128..191 /\ t[i + 3] \in 128..191
        <3>1. 1 \in 1..(w - 1) /\ 2 \in 1..(w - 1) /\ 3 \in 1..(w - 1)
            BY <1>5
        <3>2. t[i] \in 240..244 /\ (t[i] = 240 => t[i + 1] >= 144)
            BY <1>5, <1>6 DEF IsLead, IsSecond
        <3> QED
            BY <1>1, <3>1, <3>2
    <2>2. PICK c \in 240..244, d \in 128..191, e \in 128..191, f \in 128..191 :
             c = t[i] /\ d = t[i + 1] /\ e = t[i + 2] /\ f = t[i + 3]
        BY <2>1, Zenon
    <2>3. c = 240 => d >= 144
        BY <2>1, <2>2
    <2>4. u = Code4(t[i] % 32, t[i + 1] % 64, t[i + 2] % 64, t[i + 3] % 64)
        BY <1>5 DEF CodeAt
    <2>5. u = Code4(c % 32, d % 64, e % 64, f % 64)
        BY <2>2, <2>4
    <2>6. u \notin U8!TwoBytes
        <3>1. Code4(c % 32, d % 64, e % 64, f % 64) \notin U8!TwoBytes
            BY <2>3, EndOfFour, Zenon
        <3> QED
            BY <2>5, <3>1, Zenon
    <2> QED
        BY <1>3, <1>5, <2>6
<1> QED
    BY <1>2, <1>4, <1>5

LEMMA EmitFold == U8!TablesOK /\ U8!Utf8Inv /\ FoldInv /\ U8!Emit => FoldInv'
<1> SUFFICES ASSUME U8!TablesOK, U8!Utf8Inv, FoldInv, U8!Emit,
                    U8!StuckLast(u8_str', Len(u8_str')) = 0
             PROVE  FoldInv'
    BY DEF FoldInv
<1>1. /\ u8_pc = "emit" /\ u8_str' = u8_str /\ u8_pc' = "char" /\ u8_read' = u8_read
      /\ u8_out' = u8_out \o IF u8_nBytes > 4 THEN << >>
                             ELSE IF u8_u \in U8!TwoBytes THEN Cmap2[u8_u]
                             ELSE SubSeq(u8_str, u8_read - u8_nBytes + 1, u8_read)
    BY DEF U8!Emit
<1>2. PICK i \in 1..Len(u8_str), w \in 2..4 : InChar(i, w)
    BY <1>1 DEF FoldInv
<1>3. /\ u8_nBytes = w /\ w = U8!Width(u8_str, i) /\ u8_read = i + w - 1
      /\ u8_u = CodeAt(u8_str, i, w) /\ Reached(u8_str, u8_out, i - 1)
    BY <1>1, <1>2 DEF InChar
<1>4. u8_str \in Seq(U8!Bytes) /\ u8_out \in Seq(U8!Bytes)
    BY DEF U8!Utf8Inv, U8!TypeOK
<1>5. u8_read - u8_nBytes + 1 = i /\ ~(u8_nBytes > 4) /\ i - 1 + w = u8_read
    <2>1. i \in Nat /\ u8_nBytes = w /\ u8_read = i + w - 1
        <3>1. Len(u8_str) \in Nat
            BY <1>4
        <3>2. i \in Nat
            BY <3>1
        <3> QED
            BY <1>3, <3>2, Zenon
    <2>2. ASSUME NEW x \in Nat, NEW y \in 2..4, NEW r, NEW n, n = y, r = x + y - 1
          PROVE  r - n + 1 = x /\ ~(n > 4) /\ x - 1 + y = r
        BY <2>2
    <2>3. w \in 2..4
        OBVIOUS
    <2> QED
        BY ONLY <2>1, <2>2, <2>3
<1>6. u8_out' = u8_out \o (IF u8_u \in U8!TwoBytes THEN Cmap2[u8_u] ELSE SubSeq(u8_str, i, i + w - 1))
    BY <1>1, <1>3, <1>5, ZenonT(40)
<1>7. U8!Folded(u8_str, i) = IF u8_u \in U8!TwoBytes THEN Cmap2[u8_u] ELSE SubSeq(u8_str, i, i + w - 1)
    <2>1. \A u : u = CodeAt(u8_str, i, w) =>
              U8!Folded(u8_str, i) = IF u \in U8!TwoBytes THEN Cmap2[u] ELSE SubSeq(u8_str, i, i + w - 1)
        BY <1>3, <1>4, EmitIs, ZenonT(60)
    <2> QED
        BY <1>3, <2>1, Zenon
<1>8. u8_out' = u8_out \o U8!Folded(u8_str, i)
    BY <1>6, <1>7, Zenon
<1>9. Reached(u8_str, u8_out \o U8!Folded(u8_str, i), i - 1 + w)
    BY <1>3, <1>4, CharAt
<1>10. Reached(u8_str', u8_out', u8_read')
    BY <1>1, <1>5, <1>8, <1>9, Zenon
<1> QED
    BY <1>1, <1>10 DEF FoldInv, Reached

LEMMA EndFold == U8!Utf8Inv /\ FoldInv /\ U8!End => FoldInv'
<1> SUFFICES ASSUME U8!Utf8Inv, FoldInv, U8!End,
                    U8!StuckLast(u8_str', Len(u8_str')) = 0
             PROVE  FoldInv'
    BY DEF FoldInv
<1>1. u8_pc = "char" /\ u8_pc' = "done" /\ u8_str' = u8_str /\ u8_read' = u8_read /\ u8_out' = u8_out
    BY DEF U8!End
<1> QED
    BY <1>1 DEF FoldInv, Reached

LEMMA StutterFold == FoldInv /\ UNCHANGED U8!vars => FoldInv'
BY DEF U8!vars, FoldInv, InChar, Reached

-----------------------------------------------------------------------------
(* The ASCII characters                                                    *)

\* As many of them as in what was read.
AsciiKept == Len(U8!Ascii(u8_out)) >= Len(U8!Ascii(SubSeq(u8_str, 1, u8_read)))

LEMMA SameOnly == \A q, S : U8!Only(q, S) = Only(q, S)
BY DEF U8!Only, Only, U8!AppendIf, AppendIf

\* Ascii of a string and of one byte more, or of two strings.
LEMMA AsciiIs ==
    ASSUME NEW q \in Seq(U8!Bytes)
    PROVE  /\ Len(U8!Ascii(q)) \in Nat
           /\ \A x \in U8!Bytes : Len(U8!Ascii(Append(q, x))) =
                 Len(U8!Ascii(q)) + IF x \in U8!OneByte THEN 1 ELSE 0
           /\ \A r \in Seq(U8!Bytes) : Len(U8!Ascii(q \o r)) = Len(U8!Ascii(q)) + Len(U8!Ascii(r))
<1> DEFINE B == U8!Bytes
           A == U8!OneByte
<1>1. \A r : U8!Ascii(r) = Only(r, A)
    BY SameOnly, Zenon DEF U8!Ascii
<1> HIDE DEF B, A
<1>2. ASSUME NEW r \in Seq(B) PROVE Only(r, A) \in Seq(B) /\ Len(Only(r, A)) \in Nat
    <2>1. Only(r, A) \in Seq(B \cap A)
        BY OnlyType
    <2>2. Only(r, A) \in Seq(B)
        BY <2>1, SeqSubset, Zenon
    <2> QED
        BY <2>2
<1>3. q \in Seq(B)
    BY DEF B
<1>4. ASSUME NEW x \in B PROVE Len(Only(Append(q, x), A)) = Len(Only(q, A)) + IF x \in A THEN 1 ELSE 0
    <2>1. Only(Append(q, x), A) = AppendIf(Only(q, A), x, A)
        BY <1>3, OnlyAppend
    <2>2. PICK o \in Seq(B) : o = Only(q, A)
        BY <1>2, <1>3
    <2>3. Len(AppendIf(o, x, A)) = Len(o) + IF x \in A THEN 1 ELSE 0
        BY AppendProperties DEF AppendIf
    <2> QED
        BY <2>1, <2>2, <2>3
<1>5. ASSUME NEW r \in Seq(B) PROVE Len(Only(q \o r, A)) = Len(Only(q, A)) + Len(Only(r, A))
    <2>1. Only(q \o r, A) = Only(q, A) \o Only(r, A)
        BY <1>3, OnlyConcat
    <2>2. PICK o \in Seq(B), p \in Seq(B) : o = Only(q, A) /\ p = Only(r, A)
        BY <1>2, <1>3
    <2> QED
        BY <2>1, <2>2, ConcatProperties
<1> QED
    BY <1>1, <1>2, <1>3, <1>4, <1>5, Zenon DEF B, A

\* What was read and a byte more.
LEMMA ReadMore ==
    ASSUME NEW t \in Seq(U8!Bytes), NEW r \in 0..(Len(t) - 1)
    PROVE  /\ SubSeq(t, 1, r) \in Seq(U8!Bytes)
           /\ t[r + 1] \in U8!Bytes
           /\ SubSeq(t, 1, r + 1) = Append(SubSeq(t, 1, r), t[r + 1])
<1> DEFINE B == U8!Bytes
<1>1. t \in Seq(B) /\ Len(t) \in Nat
    BY LenProperties
<1> HIDE DEF B
<1>2. /\ SubSeq(t, 1, r) \in Seq(B) /\ Len(SubSeq(t, 1, r)) = r /\ r \in Nat
      /\ \A i \in 1..r : SubSeq(t, 1, r)[i] = t[i]
      /\ SubSeq(t, 1, r + 1) \in Seq(B) /\ Len(SubSeq(t, 1, r + 1)) = r + 1
      /\ \A i \in 1..(r + 1) : SubSeq(t, 1, r + 1)[i] = t[i]
    BY <1>1
<1>3. t[r + 1] \in B
    BY <1>1, LenProperties
<1>4. PICK x \in B : x = t[r + 1]
    BY <1>3
<1>5. PICK a \in Seq(B), b \in Seq(B) : a = SubSeq(t, 1, r) /\ b = SubSeq(t, 1, r + 1)
    BY <1>2
<1>6. b = Append(a, x)
    <2>1. Len(Append(a, x)) = r + 1 /\ Append(a, x) \in Seq(B)
        BY <1>2, <1>5
    <2>2. \A i \in 1..(r + 1) : b[i] = Append(a, x)[i]
        BY <1>2, <1>4, <1>5
    <2>3. Len(b) = r + 1
        BY <1>2, <1>5
    <2> QED
        BY <2>1, <2>2, <2>3, SeqEqual
<1> QED
    BY <1>2, <1>3, <1>4, <1>5, <1>6 DEF B

LEMMA InitAscii == U8!TablesOK /\ U8!Init => AsciiKept
<1> SUFFICES ASSUME U8!TablesOK, U8!Init PROVE AsciiKept
    OBVIOUS
<1>1. u8_str \in Seq(U8!Bytes) /\ u8_read = 0 /\ u8_out = << >>
    BY DEF U8!Init, U8!TablesOK
<1>2. SubSeq(u8_str, 1, 0) = << >> /\ << >> \in Seq(U8!Bytes)
    BY <1>1
<1>3. PICK n \in Nat : n = Len(U8!Ascii(<< >>))
    BY <1>2, AsciiIs
<1>4. n >= n
    OBVIOUS
<1> QED
    BY <1>1, <1>2, <1>3, <1>4, Zenon DEF AsciiKept

LEMMA LeadAscii == U8!TablesOK /\ U8!Utf8Inv /\ AsciiKept /\ U8!Lead => AsciiKept'
<1> SUFFICES ASSUME U8!TablesOK, U8!Utf8Inv, AsciiKept, U8!Lead PROVE AsciiKept'
    OBVIOUS
<1>1. /\ u8_pc = "char" /\ u8_str' = u8_str /\ u8_read' = u8_read + 1
      /\ u8_str \in Seq(U8!Bytes) /\ u8_out \in Seq(U8!Bytes)
      /\ u8_read \in 0..(Len(u8_str) - 1) /\ u8_read + 1 \in 1..Len(u8_str)
    BY LeadFacts
<1>2. PICK c \in U8!Bytes : c = u8_str[u8_read + 1] /\
          \/ c < 128 /\ u8_out' = Append(u8_out, Cmap1[c]) /\ u8_pc' = "char"
          \/ c \in 128..191 /\ u8_pc' = "char" /\ u8_out' = u8_out
          \/ /\ c >= 192 /\ u8_c0' = c /\ u8_u' = c % 32 /\ u8_nBytes' = 1
             /\ u8_pc' = "next" /\ u8_out' = u8_out
    BY LeadFacts
<1>3. c \in U8!OneByte <=> c < 128
    BY DEF U8!Bytes, U8!OneByte
<1>4. PICK a \in Seq(U8!Bytes) : a = SubSeq(u8_str, 1, u8_read) /\
          SubSeq(u8_str', 1, u8_read') = Append(a, c)
    BY <1>1, <1>2, ReadMore
<1>5. Len(U8!Ascii(Append(a, c))) = Len(U8!Ascii(a)) + IF c \in U8!OneByte THEN 1 ELSE 0
    BY AsciiIs
<1>6. Len(U8!Ascii(a)) \in Nat /\ Len(U8!Ascii(u8_out)) \in Nat
    BY <1>1, AsciiIs
<1>7. PICK n \in Nat, m \in Nat : n = Len(U8!Ascii(u8_out)) /\ m = Len(U8!Ascii(a))
    BY <1>6, Zenon
<1>10. n >= m
    BY <1>4, <1>7, Zenon DEF AsciiKept
<1>8. CASE c \in U8!OneByte
    <2>1. u8_out' = Append(u8_out, Cmap1[c])
        <3>1. c \notin 128..191 /\ ~(c >= 192)
            BY <1>8 DEF U8!OneByte
        <3> QED
            BY <1>2, <3>1, Zenon
    <2>2. Cmap1[c] \in U8!OneByte
        BY <1>8 DEF U8!TablesOK
    <2>3. Cmap1[c] \in U8!Bytes
        BY <2>2 DEF U8!OneByte, U8!Bytes
    <2>4. Len(U8!Ascii(Append(u8_out, Cmap1[c]))) = Len(U8!Ascii(u8_out)) + 1
        BY <1>1, <2>2, <2>3, AsciiIs
    <2>5. Len(U8!Ascii(u8_out')) = n + 1 /\ Len(U8!Ascii(SubSeq(u8_str', 1, u8_read'))) = m + 1
        BY <1>4, <1>5, <1>7, <1>8, <2>1, <2>4, Zenon
    <2>6. n + 1 >= m + 1
        BY <1>10
    <2> QED
        BY <2>5, <2>6, Zenon DEF AsciiKept
<1>9. CASE c \notin U8!OneByte
    <2>1. u8_out' = u8_out
        BY <1>2, <1>3, <1>9, Zenon
    <2>2. Len(U8!Ascii(u8_out')) = n /\ Len(U8!Ascii(SubSeq(u8_str', 1, u8_read'))) = m + 0
        BY <1>4, <1>5, <1>7, <1>9, <2>1, Zenon
    <2>3. n >= m + 0
        BY <1>10
    <2> QED
        BY <2>2, <2>3, Zenon DEF AsciiKept
<1> QED
    BY <1>8, <1>9

LEMMA NextByteAscii == U8!Utf8Inv /\ AsciiKept /\ U8!NextByte => AsciiKept'
<1> SUFFICES ASSUME U8!Utf8Inv, AsciiKept, U8!NextByte PROVE AsciiKept'
    OBVIOUS
<1>1. /\ u8_str' = u8_str /\ u8_read' = u8_read + 1 /\ u8_out' = u8_out
      /\ u8_str \in Seq(U8!Bytes) /\ u8_out \in Seq(U8!Bytes) /\ u8_read \in Nat /\ Len(u8_str) \in Nat
      /\ u8_read < Len(u8_str) /\ U8!IsContinuation(u8_str[u8_read + 1])
    <2>1. u8_str' = u8_str /\ u8_read' = u8_read + 1 /\ u8_out' = u8_out
        BY DEF U8!NextByte
    <2>2. /\ u8_str \in Seq(U8!Bytes) /\ u8_out \in Seq(U8!Bytes) /\ u8_read \in Nat
          /\ Len(u8_str) \in Nat
        BY LenProperties DEF U8!Utf8Inv, U8!TypeOK
    <2>3. U8!len > 0 /\ U8!IsContinuation(u8_str[u8_read + 1])
        BY DEF U8!NextByte, U8!Announced, U8!AnnouncedOnly
    <2>4. u8_read < Len(u8_str)
        BY <2>2, <2>3 DEF U8!len
    <2> QED
        BY <2>1, <2>2, <2>3, <2>4
<1>2. u8_read \in 0..(Len(u8_str) - 1)
    BY <1>1
<1>3. PICK c \in U8!Bytes : c = u8_str[u8_read + 1]
    BY <1>1, <1>2, ReadMore
<1>4. c \notin U8!OneByte
    <2>1. U8!IsContinuation(c)
        BY <1>1, <1>3
    <2>2. c \in 128..191
        BY <2>1, ContinuationIs
    <2> QED
        BY <2>2 DEF U8!OneByte
<1>5. PICK a \in Seq(U8!Bytes) : a = SubSeq(u8_str, 1, u8_read) /\
          SubSeq(u8_str', 1, u8_read') = Append(a, c)
    BY <1>1, <1>2, <1>3, ReadMore
<1>6. Len(U8!Ascii(Append(a, c))) = Len(U8!Ascii(a)) + IF c \in U8!OneByte THEN 1 ELSE 0
    BY AsciiIs
<1>7. PICK m \in Nat : m = Len(U8!Ascii(a))
    BY AsciiIs
<1>9. m + 0 = m
    OBVIOUS
<1>8. Len(U8!Ascii(SubSeq(u8_str', 1, u8_read'))) = m
    BY <1>4, <1>5, <1>6, <1>7, <1>9, Zenon
<1> QED
    BY <1>1, <1>5, <1>7, <1>8, Zenon DEF AsciiKept

LEMMA EmitAscii == U8!TablesOK /\ U8!Utf8Inv /\ AsciiKept /\ U8!Emit => AsciiKept'
<1> SUFFICES ASSUME U8!TablesOK, U8!Utf8Inv, AsciiKept, U8!Emit PROVE AsciiKept'
    OBVIOUS
<1> DEFINE more == IF u8_nBytes > 4 THEN << >>
                   ELSE IF u8_u \in U8!TwoBytes THEN Cmap2[u8_u]
                   ELSE SubSeq(u8_str, u8_read - u8_nBytes + 1, u8_read)
<1>1. /\ u8_pc = "emit" /\ u8_str' = u8_str /\ u8_read' = u8_read /\ u8_out' = u8_out \o more
    BY DEF U8!Emit
<1>2. /\ u8_nBytes \in 1..7 /\ u8_read \in Nat /\ u8_read <= Len(u8_str)
      /\ u8_str \in Seq(U8!Bytes) /\ u8_out \in Seq(U8!Bytes)
      /\ (u8_nBytes <= 6 => u8_nBytes <= u8_read)
    BY <1>1, EmitFacts
<1>3. more \in Seq(U8!Bytes)
    <2>1. CASE u8_nBytes > 4
        BY <2>1
    <2>2. CASE ~(u8_nBytes > 4) /\ u8_u \in U8!TwoBytes
        <3>1. Cmap2[u8_u] \in U8!Cell
            BY <2>2 DEF U8!TablesOK
        <3> QED
            BY <2>2, <3>1 DEF U8!Cell
    <2>3. CASE ~(u8_nBytes > 4) /\ u8_u \notin U8!TwoBytes
        <3>1. u8_nBytes <= u8_read
            BY <1>2, <2>3
        <3>2. SubSeq(u8_str, u8_read - u8_nBytes + 1, u8_read) \in Seq(U8!Bytes)
            BY <1>2, <3>1, LastBytes
        <3> QED
            BY <2>3, <3>2, Zenon
    <2> QED
        BY <2>1, <2>2, <2>3, Zenon
<1> HIDE DEF more
<1>4. PICK a \in Seq(U8!Bytes) : a = SubSeq(u8_str, 1, u8_read)
    <2>1. \A j \in 1..u8_read : u8_str[j] \in U8!Bytes
        BY <1>2, LenProperties
    <2>2. 1 \in Int /\ u8_read \in Int
        BY <1>2
    <2>3. SubSeq(u8_str, 1, u8_read) \in Seq(U8!Bytes)
        BY <2>1, <2>2, SubSeqProperties, Zenon
    <2> QED
        BY <2>3, Zenon
<1>5. Len(U8!Ascii(u8_out \o more)) = Len(U8!Ascii(u8_out)) + Len(U8!Ascii(more))
    BY <1>2, <1>3, AsciiIs
<1>6. Len(U8!Ascii(u8_out)) \in Nat /\ Len(U8!Ascii(more)) \in Nat /\ Len(U8!Ascii(a)) \in Nat
    BY <1>2, <1>3, AsciiIs
<1>7. PICK n \in Nat, m \in Nat, l \in Nat :
         n = Len(U8!Ascii(u8_out)) /\ m = Len(U8!Ascii(a)) /\ l = Len(U8!Ascii(more))
    BY <1>6, Zenon
<1>8. n >= m
    BY <1>4, <1>7, Zenon DEF AsciiKept
<1>9. n + l >= m
    BY <1>8
<1>10. Len(U8!Ascii(u8_out')) = n + l /\ Len(U8!Ascii(SubSeq(u8_str', 1, u8_read'))) = m
    BY <1>1, <1>4, <1>5, <1>7, Zenon
<1> QED
    BY <1>9, <1>10, Zenon DEF AsciiKept

\* What the two invariants say at the end.
LEMMA FoldAtEnd ==
    ASSUME U8!TablesOK, U8!Utf8Inv, FoldInv, AsciiKept
    PROVE  FoldsText
<1> SUFFICES ASSUME u8_pc = "done"
             PROVE  /\ U8!StuckLast(u8_str, Len(u8_str)) = 0 => u8_out = U8!FoldLast(u8_str, Len(u8_str))
                    /\ Len(U8!Ascii(u8_out)) >= Len(U8!Ascii(u8_str))
    BY DEF FoldsText, U8!FoldsText
<1>1. u8_str \in Seq(U8!Bytes) /\ u8_out \in Seq(U8!Bytes) /\ u8_read = Len(u8_str)
    BY DEF U8!Utf8Inv, U8!TypeOK
<1>2. Len(u8_str) \in Nat
    BY <1>1
<1>3. SubSeq(u8_str, 1, Len(u8_str)) = u8_str
    BY <1>1
<1>4. Len(U8!Ascii(u8_out)) >= Len(U8!Ascii(u8_str))
    BY <1>1, <1>3 DEF AsciiKept
<1>5. ASSUME U8!StuckLast(u8_str, Len(u8_str)) = 0
      PROVE  u8_out = U8!FoldLast(u8_str, Len(u8_str))
    <2>1. Reached(u8_str, u8_out, Len(u8_str))
        BY <1>1, <1>5 DEF FoldInv
    <2>2. Len(u8_str) - Len(u8_str) = 0
        BY <1>2
    <2>3. u8_out \o U8!FoldLast(u8_str, 0) = U8!FoldLast(u8_str, Len(u8_str))
        BY <2>1, <2>2 DEF Reached
    <2>4. U8!FoldLast(u8_str, 0) = << >>
        BY <1>1, FoldTurn
    <2>5. u8_out \o << >> = u8_out
        BY <1>1, ConcatEmptySeq
    <2> QED
        BY <2>3, <2>4, <2>5
<1> QED
    BY <1>4, <1>5

\* FoldsText for any string and any tables: a string that is UTF-8 is folded character
\* by character, each by its table; whatever is wrong in one that is not, no ASCII
\* character of it is lost.
THEOREM TextFolded == AllSpec => []FoldsText
<1> DEFINE Inv == U8!Utf8Inv /\ FoldInv /\ AsciiKept
<1>1. U8!Init => Inv
    BY TablesAssumption, InitUtf8, InitFold, InitAscii
<1>2. Inv /\ [U8!Next]_(U8!vars) => Inv'
    <2> SUFFICES ASSUME U8!Utf8Inv, FoldInv, AsciiKept, [U8!Next]_(U8!vars) PROVE Inv'
        OBVIOUS
    <2>1. CASE U8!Lead
        BY <2>1, TablesAssumption, LeadUtf8, LeadFold, LeadAscii
    <2>2. CASE U8!NextByte
        BY <2>2, NextByteUtf8, NextByteFold, NextByteAscii
    <2>3. CASE U8!EndOfChar
        <3>1. AsciiKept'
            BY <2>3 DEF AsciiKept, U8!EndOfChar
        <3> QED
            BY <2>3, <3>1, EndOfCharUtf8, EndOfCharFold
    <2>4. CASE U8!Emit
        BY <2>4, TablesAssumption, EmitUtf8, EmitFold, EmitAscii
    <2>5. CASE U8!End
        <3>1. AsciiKept'
            BY <2>5 DEF AsciiKept, U8!End
        <3> QED
            BY <2>5, <3>1, EndUtf8, EndFold
    <2>6. CASE UNCHANGED U8!vars
        <3>1. AsciiKept'
            BY <2>6 DEF AsciiKept, U8!vars
        <3> QED
            BY <2>6, <3>1, StutterUtf8, StutterFold
    <2> QED
        BY <2>1, <2>2, <2>3, <2>4, <2>5, <2>6 DEF U8!Next
<1>3. Inv => FoldsText
    BY TablesAssumption, FoldAtEnd
<1> QED
    BY <1>1, <1>2, <1>3, RunsUtf8, PTL DEF U8!Spec

-----------------------------------------------------------------------------
(* The nodes of a query: lists                                             *)

Elems(q) == {q[i] : i \in 1..Len(q)}

\* The branch of a node on a side.
Sides == {"l", "r"}
Side(x, a) == IF a = "l" THEN x.l ELSE x.r

Node == [type : {value.type : value \in Arrays} \cup {"NULL"}, words : Nat,
         numparm : {value.n : value \in Arrays} \cup Nat, nleaf : Nat, l : Nat, r : Nat]

LEMMA TailElems ==
    ASSUME NEW C, NEW q \in Seq(C), q # << >>
    PROVE  /\ Head(q) \in C /\ Tail(q) \in Seq(C)
           /\ Len(q) \in Nat \ {0} /\ Len(Tail(q)) = Len(q) - 1 /\ Len(Tail(q)) \in Nat
           /\ Head(q) = q[1] /\ \A i \in 1..Len(Tail(q)) : i + 1 \in 1..Len(q) /\ Tail(q)[i] = q[i + 1]
           /\ Elems(q) = {Head(q)} \cup Elems(Tail(q))
           /\ Elems(Tail(q)) \subseteq C
<1>1. /\ Head(q) \in C /\ Tail(q) \in Seq(C) /\ Len(Tail(q)) = Len(q) - 1 /\ Head(q) = q[1]
      /\ \A i \in 1..Len(Tail(q)) : Tail(q)[i] = q[i + 1]
    BY HeadTailProperties
<1>2. Len(q) \in Nat \ {0}
    BY EmptySeq, LenProperties
<1>3. PICK t \in Seq(C) : t = Tail(q)
    BY <1>1
<1>7. PICK n \in Nat : n = Len(t) /\ n + 1 = Len(q)
    <2>1. Len(t) \in Nat
        BY ONLY t \in Seq(C), LenProperties
    <2>2. Len(t) + 1 = Len(q)
        BY <1>1, <1>2, <1>3
    <2> QED
        BY <2>1, <2>2
<1>4. \A i \in 1..n : i + 1 \in 1..(n + 1) /\ t[i] = q[i + 1] /\ t[i] \in C
    BY <1>1, <1>3, <1>7
<1>5. Elems(q) = {q[1]} \cup Elems(t)
    <2>1. ASSUME NEW i \in 1..(n + 1) PROVE q[i] = q[1] \/ \E j \in 1..n : q[i] = t[j]
        <3>1. CASE i # 1
            <4>1. i - 1 \in 1..n /\ (i - 1) + 1 = i
                BY <3>1
            <4> QED
                BY <1>4, <4>1
        <3> QED
            BY <3>1
    <2>2. 1 \in 1..(n + 1)
        OBVIOUS
    <2> QED
        BY <1>7, <1>4, <2>1, <2>2 DEF Elems
<1>6. Elems(t) \subseteq C
    BY <1>7, <1>4 DEF Elems
<1> QED
    BY <1>1, <1>2, <1>3, <1>7, <1>4, <1>5, <1>6

\* Three entries before the others.
LEMMA Pushed ==
    ASSUME NEW C, NEW a \in C, NEW b \in C, NEW c \in C, NEW t \in Seq(C)
    PROVE  /\ <<a, b, c>> \o t \in Seq(C) /\ Len(<<a, b, c>> \o t) = Len(t) + 3 /\ Len(t) \in Nat
           /\ (<<a, b, c>> \o t)[1] = a /\ (<<a, b, c>> \o t)[2] = b /\ (<<a, b, c>> \o t)[3] = c
           /\ \A i \in 1..Len(t) : (<<a, b, c>> \o t)[i + 3] = t[i]
           /\ Elems(<<a, b, c>> \o t) = {a, b, c} \cup Elems(t)
<1> DEFINE u == <<a, b, c>> \o t
<1>1. <<a, b, c>> \in Seq(C) /\ Len(<<a, b, c>>) = 3
    OBVIOUS
<1>2. PICK n \in Nat : n = Len(t)
    BY LenProperties
<1>3. u \in Seq(C) /\ Len(u) = n + 3
    BY <1>1, <1>2, ConcatProperties
<1>4. \A i \in 1..(n + 3) : u[i] = IF i <= 3 THEN <<a, b, c>>[i] ELSE t[i - 3]
    BY <1>1, <1>2, <1>3, ConcatProperties
<1>5. u[1] = a /\ u[2] = b /\ u[3] = c
    BY <1>4
<1> HIDE DEF u
<1>6. ASSUME NEW i \in 1..n PROVE u[i + 3] = t[i] /\ i + 3 \in 1..(n + 3)
    <2>1. i + 3 \in 1..(n + 3) /\ ~(i + 3 <= 3) /\ (i + 3) - 3 = i
        OBVIOUS
    <2> QED
        BY ONLY <1>4, <2>1
<1>7. Elems(u) = {a, b, c} \cup Elems(t)
    <2>1. ASSUME NEW i \in 1..(n + 3)
          PROVE  u[i] = a \/ u[i] = b \/ u[i] = c \/ \E j \in 1..n : u[i] = t[j]
        <3>1. CASE i > 3
            <4>1. i - 3 \in 1..n /\ (i - 3) + 3 = i
                BY <3>1
            <4> QED
                BY <1>6, <4>1
        <3>2. CASE i <= 3
            <4>1. i = 1 \/ i = 2 \/ i = 3
                BY <3>2
            <4> QED
                BY <1>5, <4>1
        <3>3. i > 3 \/ i <= 3
            OBVIOUS
        <3> QED
            BY ONLY <3>1, <3>2, <3>3
    <2>2. 1 \in 1..(n + 3) /\ 2 \in 1..(n + 3) /\ 3 \in 1..(n + 3)
        OBVIOUS
    <2> QED
        BY <1>2, <1>3, <1>5, <1>6, <2>1, <2>2 DEF Elems
<1> QED
    BY <1>2, <1>3, <1>5, <1>6, <1>7 DEF u

LEMMA PushedOne ==
    ASSUME NEW C, NEW a \in C, NEW t \in Seq(C)
    PROVE  /\ <<a>> \o t \in Seq(C) /\ Len(<<a>> \o t) = Len(t) + 1 /\ Len(t) \in Nat
           /\ (<<a>> \o t)[1] = a
           /\ \A i \in 1..Len(t) : (<<a>> \o t)[i + 1] = t[i]
           /\ Elems(<<a>> \o t) = {a} \cup Elems(t)
<1> DEFINE u == <<a>> \o t
<1>1. <<a>> \in Seq(C) /\ Len(<<a>>) = 1
    OBVIOUS
<1>2. PICK n \in Nat : n = Len(t)
    BY LenProperties
<1>3. u \in Seq(C) /\ Len(u) = n + 1
    BY <1>1, <1>2, ConcatProperties
<1>4. \A i \in 1..(n + 1) : u[i] = IF i <= 1 THEN <<a>>[i] ELSE t[i - 1]
    BY <1>1, <1>2, <1>3, ConcatProperties
<1>5. u[1] = a
    BY <1>4
<1> HIDE DEF u
<1>6. ASSUME NEW i \in 1..n PROVE u[i + 1] = t[i] /\ i + 1 \in 1..(n + 1)
    <2>1. i + 1 \in 1..(n + 1) /\ ~(i + 1 <= 1) /\ (i + 1) - 1 = i
        OBVIOUS
    <2> QED
        BY ONLY <1>4, <2>1
<1>7. Elems(u) = {a} \cup Elems(t)
    <2>1. ASSUME NEW i \in 1..(n + 1)
          PROVE  u[i] = a \/ \E j \in 1..n : u[i] = t[j]
        <3>1. CASE i > 1
            <4>1. i - 1 \in 1..n /\ (i - 1) + 1 = i
                BY <3>1
            <4> QED
                BY <1>6, <4>1
        <3>2. CASE i <= 1
            <4>1. i = 1
                BY <3>2
            <4> QED
                BY <1>5, <4>1
        <3>3. i > 1 \/ i <= 1
            OBVIOUS
        <3> QED
            BY ONLY <3>1, <3>2, <3>3
    <2>2. 1 \in 1..(n + 1)
        OBVIOUS
    <2> QED
        BY <1>2, <1>3, <1>5, <1>6, <2>1, <2>2 DEF Elems
<1> QED
    BY <1>2, <1>3, <1>5, <1>6, <1>7 DEF u

-----------------------------------------------------------------------------
(* The nodes of a query: the tree                                          *)

\* Each branch of a node is a later node, no other's branch, and only some types have any;
\* every node but the first is a branch.
Tree(t) ==
    /\ \A k \in 1..Len(t), a \in Sides :
          Side(t[k], a) # 0 => /\ Side(t[k], a) \in (k + 1)..Len(t)
                               /\ t[k].type \in QN!Binary \cup QN!Proximity
    /\ \A k, m \in 1..Len(t), a, b \in Sides :
          Side(t[k], a) # 0 /\ Side(t[k], a) = Side(t[m], b) => k = m /\ a = b
    /\ \A k \in 2..Len(t) : \E m \in 1..Len(t), a \in Sides : Side(t[m], a) = k

\* A node n more, the branch of node p on side a.
Grown(u, t, p, a, x) ==
    /\ u \in Seq(Node) /\ Len(u) = Len(t) + 1 /\ u[Len(t) + 1] = x
    /\ \A k \in 1..Len(t) : u[k].type = t[k].type
    /\ \A k \in 1..Len(t), b \in Sides :
          Side(u[k], b) = IF k = p /\ b = a THEN Len(t) + 1 ELSE Side(t[k], b)

LEMMA HangGrows ==
    ASSUME NEW t \in Seq(Node), NEW p \in 1..Len(t), NEW a \in Sides, NEW x \in Node,
           NEW call, call.node = p, call.side = a
    PROVE  Grown(QN!Hang(Append(t, x), call, Len(t) + 1), t, p, a, x)
<1> DEFINE n == Len(t) + 1
           s == Append(t, x)
           u == QN!Hang(s, call, n)
<1>1. Len(t) \in Nat /\ n \in Nat /\ n \notin 1..Len(t) /\ p # n /\ p \in 1..n /\ n \in 1..n
    BY LenProperties
<1>2. s \in Seq(Node) /\ Len(s) = n /\ s[n] = x /\ \A k \in 1..Len(t) : s[k] = t[k]
    BY AppendProperties
<1>3. s \in [1..n -> Node]
    BY <1>2, LenProperties
<1>4. a = "l" \/ a = "r"
    BY DEF Sides
<1> HIDE DEF n, s
<1>5. u = IF a = "l" THEN [s EXCEPT ![p].l = n] ELSE [s EXCEPT ![p].r = n]
    BY <1>1 DEF QN!Hang
<1>6. ASSUME NEW y \in Node
      PROVE  /\ [y EXCEPT !.l = n] \in Node /\ [y EXCEPT !.r = n] \in Node
             /\ [y EXCEPT !.l = n].l = n /\ [y EXCEPT !.l = n].r = y.r
             /\ [y EXCEPT !.r = n].r = n /\ [y EXCEPT !.r = n].l = y.l
             /\ [y EXCEPT !.l = n].type = y.type /\ [y EXCEPT !.r = n].type = y.type
    BY <1>1 DEF Node
<1>7. PICK y \in Node : y = s[p] /\ y = t[p]
    BY <1>1, <1>2, <1>3
<1>8. PICK z \in Node : /\ u = [s EXCEPT ![p] = z] /\ z.type = y.type
                        /\ \A b \in Sides : Side(z, b) = IF b = a THEN n ELSE Side(y, b)
    <2>1. CASE a = "l"
        <3>1. u = [s EXCEPT ![p] = [y EXCEPT !.l = n]]
            BY <1>5, <1>7, <2>1
        <3>2. PICK z \in Node : z = [y EXCEPT !.l = n]
            BY <1>6
        <3>3. z.l = n /\ z.r = y.r /\ z.type = y.type
            BY <1>6, <3>2
        <3>4. \A b \in Sides : Side(z, b) = IF b = a THEN n ELSE Side(y, b)
            BY <2>1, <3>3 DEF Side, Sides
        <3> QED
            BY <3>1, <3>2, <3>3, <3>4
    <2>2. CASE a = "r"
        <3>1. u = [s EXCEPT ![p] = [y EXCEPT !.r = n]]
            BY <1>5, <1>7, <2>2
        <3>2. PICK z \in Node : z = [y EXCEPT !.r = n]
            BY <1>6
        <3>3. z.r = n /\ z.l = y.l /\ z.type = y.type
            BY <1>6, <3>2
        <3>4. \A b \in Sides : Side(z, b) = IF b = a THEN n ELSE Side(y, b)
            BY <2>2, <3>3 DEF Side, Sides
        <3> QED
            BY <3>1, <3>2, <3>3, <3>4
    <2> QED
        BY <1>4, <2>1, <2>2
<1> HIDE DEF u
<1>9. u \in [1..n -> Node] /\ u[p] = z /\ \A k \in 1..n : k # p => u[k] = s[k]
    BY <1>1, <1>3, <1>8
<1>10. u \in Seq(Node) /\ Len(u) = n
    BY <1>1, <1>9, SeqDef, LenProperties
<1>11. \A k \in 1..Len(t) : k \in 1..n
    BY <1>1 DEF n
<1>12. \A k \in 1..Len(t) : u[k] = IF k = p THEN z ELSE t[k]
    BY <1>2, <1>9, <1>11
<1>13. \A k \in 1..Len(t), b \in Sides :
          Side(u[k], b) = IF k = p /\ b = a THEN n ELSE Side(t[k], b)
    BY <1>7, <1>8, <1>12
<1>14. \A k \in 1..Len(t) : u[k].type = t[k].type
    BY <1>7, <1>8, <1>12
<1>15. u[n] = x
    BY <1>1, <1>2, <1>9
<1> QED
    BY <1>10, <1>13, <1>14, <1>15 DEF Grown, n, s, u

LEMMA TreeGrows ==
    ASSUME NEW t \in Seq(Node), Tree(t), NEW p \in 1..Len(t), NEW a \in Sides, NEW x \in Node,
           NEW u, Grown(u, t, p, a, x), x.l = 0, x.r = 0, Side(t[p], a) = 0,
           t[p].type \in QN!Binary \cup QN!Proximity
    PROVE  Tree(u)
<1>1. PICK n \in Nat : n = Len(t)
    BY LenProperties
<1>2. /\ Len(u) = n + 1 /\ u[n + 1] = x
      /\ \A k \in 1..n : u[k].type = t[k].type
      /\ \A k \in 1..n, b \in Sides :
            Side(u[k], b) = IF k = p /\ b = a THEN n + 1 ELSE Side(t[k], b)
    BY <1>1 DEF Grown
<1>3. \A b \in Sides : Side(u[n + 1], b) = 0
    BY <1>2 DEF Side
<1>4. \A k \in 1..(n + 1) : k \in 1..n \/ k = n + 1
    OBVIOUS
<1>5. \A k \in 1..n, b \in Sides :
          Side(t[k], b) # 0 => /\ Side(t[k], b) \in (k + 1)..n
                               /\ t[k].type \in QN!Binary \cup QN!Proximity
    BY <1>1 DEF Tree
<1>6. ASSUME NEW k \in 1..(n + 1), NEW b \in Sides, Side(u[k], b) # 0
      PROVE  /\ k \in 1..n /\ Side(u[k], b) \in (k + 1)..(n + 1)
             /\ u[k].type \in QN!Binary \cup QN!Proximity
    <2>1. k \in 1..n
        BY <1>3, <1>4, <1>6
    <2>2. CASE k = p /\ b = a
        <3>1. Side(u[k], b) = n + 1 /\ u[k].type = t[p].type
            BY <1>2, <2>1, <2>2
        <3> QED
            BY <2>1, <3>1
    <2>3. CASE ~(k = p /\ b = a)
        <3>1. Side(u[k], b) = Side(t[k], b) /\ u[k].type = t[k].type
            BY <1>2, <2>1, <2>3
        <3>2. /\ Side(t[k], b) \in (k + 1)..n /\ t[k].type \in QN!Binary \cup QN!Proximity
            BY <1>5, <1>6, <2>1, <3>1
        <3> QED
            BY <2>1, <3>1, <3>2
    <2> QED
        BY <2>2, <2>3
<1>7. ASSUME NEW k \in 1..(n + 1), NEW m \in 1..(n + 1), NEW b \in Sides, NEW c \in Sides,
             Side(u[k], b) # 0, Side(u[k], b) = Side(u[m], c)
      PROVE  k = m /\ b = c
    <2>1. k \in 1..n /\ m \in 1..n
        BY <1>6, <1>7
    <2>2. /\ Side(u[k], b) = IF k = p /\ b = a THEN n + 1 ELSE Side(t[k], b)
          /\ Side(u[m], c) = IF m = p /\ c = a THEN n + 1 ELSE Side(t[m], c)
        BY <1>2, <2>1
    <2>3. (Side(t[k], b) # 0 => Side(t[k], b) # n + 1) /\ (Side(t[m], c) # 0 => Side(t[m], c) # n + 1)
        BY <1>5, <2>1
    <2>4. n + 1 # 0
        OBVIOUS
    <2>5. Side(t[k], b) # 0 /\ Side(t[k], b) = Side(t[m], c) => k = m /\ b = c
        BY <1>1, <2>1 DEF Tree
    <2> QED
        BY <1>7, <2>2, <2>3, <2>4, <2>5
<1>8. ASSUME NEW k \in 2..(n + 1) PROVE \E m \in 1..(n + 1), b \in Sides : Side(u[m], b) = k
    <2>1. p \in 1..(n + 1) /\ p \in 1..n
        BY <1>1
    <2>2. CASE k = n + 1
        BY <1>2, <2>1, <2>2
    <2>3. CASE k # n + 1
        <3>1. k \in 2..n /\ k # 0
            BY <2>3
        <3>2. PICK m \in 1..n, b \in Sides : Side(t[m], b) = k
            BY <1>1, <3>1 DEF Tree
        <3>3. ~(m = p /\ b = a)
            BY <3>1, <3>2
        <3>4. Side(u[m], b) = k /\ m \in 1..(n + 1)
            BY <1>2, <3>2, <3>3
        <3> QED
            BY <3>4
    <2> QED
        BY <2>2, <2>3
<1> QED
    BY <1>2, <1>6, <1>7, <1>8 DEF Tree

\* What is under a node: itself and the branches of what is.
LEMMA UnderIs ==
    ASSUME NEW x, Len(qn_nodes) \in Nat
    PROVE  \A k : k \in QN!Under(x) <=>
              /\ k \in 1..Len(qn_nodes)
              /\ k = x \/ \E m \in 1..(k - 1) : m \in QN!Under(x) /\ k \in {qn_nodes[m].l, qn_nodes[m].r}
<1> DEFINE N == Len(qn_nodes)
           Hangs(m, k) == k \in {qn_nodes[m].l, qn_nodes[m].r}
           step == [p \in [0..N -> BOOLEAN] \X (0..N) |->
                       p[2] = x \/ \E m \in 1..(p[2] - 1) : p[1][m] = TRUE /\ Hangs(m, p[2])]
           Def(g) == [k \in 1..N |->
                         k = x \/ \E m \in 1..(k - 1) : g[m] /\ k \in {qn_nodes[m].l, qn_nodes[m].r}]
           f == CHOOSE g : g = Def(g)
<1>1. QN!Under(x) = {k \in 1..N : f[k]}
    BY DEF QN!Under
<1>2. N \in Nat
    OBVIOUS
<1> HIDE DEF N, Hangs
<1>3. \A g \in [0..N -> BOOLEAN], k \in 0..N :
         step[<<g, k>>] = (k = x \/ \E m \in 1..(k - 1) : g[m] = TRUE /\ Hangs(m, k))
    OBVIOUS
<1>4. step \in [[0..N -> BOOLEAN] \X (0..N) -> BOOLEAN]
    OBVIOUS
<1> HIDE DEF step
<1>5. \A k \in 0..N : \A m \in 1..(k - 1) : m \in 0..(k - 1) /\ m \in 1..N /\ m \in 0..N
    BY <1>2
<1>6. ASSUME NEW g \in [0..N -> BOOLEAN], NEW h \in [0..N -> BOOLEAN], NEW k \in 0..N,
             \A j \in 0..(k - 1) : g[j] = h[j]
      PROVE  step[<<g, k>>] = step[<<h, k>>]
    <2>1. \A m \in 1..(k - 1) : g[m] = h[m]
        BY <1>5, <1>6
    <2> QED
        BY <1>3, <2>1
<1>7. LooksBack(step, N, BOOLEAN)
    BY <1>4, <1>6 DEF LooksBack
<1>8. PICK e : IsCourse(e, N, BOOLEAN, step)
    <2>1. TRUE \in BOOLEAN
        OBVIOUS
    <2> QED
        BY <1>2, <1>7, <2>1, CourseExists
<1>9. \A k \in 1..N : k \in 0..N
    BY <1>2
<1>10. PICK h : h = [k \in 1..N |-> e[k]]
    OBVIOUS
<1>11. \A k \in 1..N : h[k] \in BOOLEAN /\ h[k] = e[k]
    BY <1>8, <1>9, <1>10 DEF IsCourse
<1>12. ASSUME NEW k \in 1..N
       PROVE  h[k] = (k = x \/ \E m \in 1..(k - 1) : h[m] /\ k \in {qn_nodes[m].l, qn_nodes[m].r})
    <2>1. e[k] = (k = x \/ \E m \in 1..(k - 1) : e[m] = TRUE /\ Hangs(m, k))
        BY <1>3, <1>8, <1>9 DEF IsCourse
    <2>2. \A m \in 1..(k - 1) : (e[m] = TRUE) <=> h[m]
        BY <1>5, <1>9, <1>11
    <2> QED
        BY <1>11, <2>1, <2>2 DEF Hangs
<1>13. h = Def(h)
    BY <1>10, <1>12
<1>14. f = Def(f)
    <2> HIDE DEF Def
    <2> QED
        BY <1>13
<1> HIDE DEF f
<1>15. \A k \in 1..N :
          f[k] = (k = x \/ \E m \in 1..(k - 1) : f[m] /\ k \in {qn_nodes[m].l, qn_nodes[m].r})
    BY <1>14
<1>16. \A k \in 1..N : \A m \in 1..(k - 1) : m \in QN!Under(x) <=> f[m]
    BY <1>1, <1>5, <1>9
<1>17. ASSUME NEW k \in 1..N
       PROVE  k \in QN!Under(x) <=>
                 (k = x \/ \E m \in 1..(k - 1) : m \in QN!Under(x) /\ k \in {qn_nodes[m].l, qn_nodes[m].r})
    <2>1. k \in QN!Under(x) <=> f[k]
        BY <1>1
    <2> QED
        BY <1>15, <1>16, <2>1
<1> QED
    BY <1>1, <1>17 DEF N

\* What is lost hangs from a ":" or from what is lost.
LEMMA LostIs ==
    ASSUME qn_nodes \in Seq(Node), Tree(qn_nodes), NEW k \in 1..Len(qn_nodes)
    PROVE  k \in QN!Lost <=>
              \E m \in 1..(k - 1) : /\ \E a \in Sides : Side(qn_nodes[m], a) = k
                                    /\ qn_nodes[m].type = "COLON" \/ m \in QN!Lost
<1>1. PICK n \in Nat : n = Len(qn_nodes)
    BY LenProperties
<1> DEFINE Colons == {c \in 1..n : qn_nodes[c].type = "COLON"}
<1>2. \A m : (\E a \in Sides : Side(qn_nodes[m], a) = k) <=> k \in {qn_nodes[m].l, qn_nodes[m].r}
    BY DEF Side, Sides
<1>3. \A m \in 1..n : (\E a \in Sides : Side(qn_nodes[m], a) = k) => m \in 1..(k - 1)
    <2> SUFFICES ASSUME NEW m \in 1..n, NEW a \in Sides, Side(qn_nodes[m], a) = k
                 PROVE  m \in 1..(k - 1)
        OBVIOUS
    <2>1. k # 0 /\ k \in (m + 1)..n
        BY <1>1 DEF Tree
    <2> QED
        BY <2>1
<1>4. \A m : m \in QN!Lost <=> \E c \in Colons : m \in QN!Under(qn_nodes[c].l) \/ m \in QN!Under(qn_nodes[c].r)
    BY <1>1 DEF QN!Lost
<1>5. \A x, m : m \in QN!Under(x) <=>
          /\ m \in 1..n
          /\ m = x \/ \E j \in 1..(m - 1) : j \in QN!Under(x) /\ m \in {qn_nodes[j].l, qn_nodes[j].r}
    BY <1>1, UnderIs
<1>6. ASSUME NEW c \in Colons, k \in {qn_nodes[c].l, qn_nodes[c].r}
      PROVE  \E m \in 1..(k - 1) : k \in {qn_nodes[m].l, qn_nodes[m].r} /\ qn_nodes[m].type = "COLON"
    BY <1>2, <1>3, <1>6
<1>7. ASSUME k \in QN!Lost
      PROVE  \E m \in 1..(k - 1) : /\ k \in {qn_nodes[m].l, qn_nodes[m].r}
                                   /\ qn_nodes[m].type = "COLON" \/ m \in QN!Lost
    <2>0. PICK c \in Colons : \E x \in {qn_nodes[c].l, qn_nodes[c].r} : k \in QN!Under(x)
        BY <1>4, <1>7
    <2>1. PICK x \in {qn_nodes[c].l, qn_nodes[c].r} : k \in QN!Under(x)
        BY <2>0
    <2>2. CASE k = x
        BY <1>6, <2>1, <2>2
    <2>3. CASE k # x
        <3>1. PICK j \in 1..(k - 1) : j \in QN!Under(x) /\ k \in {qn_nodes[j].l, qn_nodes[j].r}
            BY <1>5, <2>1, <2>3
        <3>2. j \in QN!Lost
            BY <1>4, <2>1, <3>1
        <3> QED
            BY <3>1, <3>2
    <2> QED
        BY <2>2, <2>3
<1>8. ASSUME NEW m \in 1..(k - 1), k \in {qn_nodes[m].l, qn_nodes[m].r},
             qn_nodes[m].type = "COLON" \/ m \in QN!Lost
      PROVE  k \in QN!Lost
    <2>1. k \in 1..n /\ m \in 1..n
        BY <1>1
    <2>2. CASE qn_nodes[m].type = "COLON"
        <3>1. k \in QN!Under(k) /\ m \in Colons
            BY <1>5, <2>1, <2>2
        <3> QED
            BY <1>4, <1>8, <3>1
    <2>3. CASE m \in QN!Lost
        <3>0. PICK c \in Colons : \E x \in {qn_nodes[c].l, qn_nodes[c].r} : m \in QN!Under(x)
            BY <1>4, <2>3
        <3>1. PICK x \in {qn_nodes[c].l, qn_nodes[c].r} : m \in QN!Under(x)
            BY <3>0
        <3>2. k \in QN!Under(x)
            BY <1>5, <1>8, <2>1, <3>1
        <3> QED
            BY <1>4, <3>1, <3>2
    <2> QED
        BY <1>8, <2>2, <2>3
<1> HIDE DEF Colons
<1> QED
    BY <1>2, <1>7, <1>8

\* What is not lost: the root, and the branches of what is not, but of a ":".
LEMMA KeptAre ==
    ASSUME qn_nodes \in Seq(Node), Tree(qn_nodes), NEW V \in SUBSET (1..Len(qn_nodes)),
           qn_nodes # << >> => 1 \in V,
           \A k \in 2..Len(qn_nodes) :
              k \in V <=> \E m \in V, a \in Sides : /\ Side(qn_nodes[m], a) = k
                                                    /\ qn_nodes[m].type \in QN!Freed
    PROVE  V = (1..Len(qn_nodes)) \ QN!Lost
<1>1. PICK n \in Nat : n = Len(qn_nodes)
    BY LenProperties
<1> DEFINE S == {k \in 0..n : \A j \in 1..k : j \in V <=> j \notin QN!Lost}
<1>2. 0 \in S
    BY <1>1
<1>3. ASSUME NEW i \in 0..(n - 1), i \in S PROVE i + 1 \in S
    <2>1. PICK k \in 1..n : k = i + 1
        BY <1>1
    <2>2. k \in QN!Lost <=> \E m \in 1..(k - 1) : /\ \E a \in Sides : Side(qn_nodes[m], a) = k
                                                  /\ qn_nodes[m].type = "COLON" \/ m \in QN!Lost
        BY <1>1, LostIs
    <2>3. \A m \in 1..(k - 1) : m \in 1..n /\ (m \in V <=> m \notin QN!Lost)
        BY <1>1, <1>3, <2>1
    <2>4. k \in V <=> k \notin QN!Lost
        <3>1. CASE k = 1
            <4>1. qn_nodes # << >>
                BY <1>1
            <4>2. \A m \in 1..(k - 1) : FALSE
                BY <3>1
            <4> QED
                BY <2>2, <3>1, <4>1, <4>2
        <3>2. CASE k # 1
            <4>1. k \in 2..n /\ k # 0
                BY <3>2
            <4>2. PICK p \in 1..n, a \in Sides : Side(qn_nodes[p], a) = k
                BY <1>1, <4>1 DEF Tree
            <4>3. /\ k \in (p + 1)..n /\ qn_nodes[p].type \in QN!Binary \cup QN!Proximity
                BY <1>1, <4>1, <4>2 DEF Tree
            <4>4. p \in 1..(k - 1)
                BY <4>3
            <4>5. \A m \in 1..n, b \in Sides : Side(qn_nodes[m], b) = k => m = p
                <5>1. ASSUME NEW m \in 1..n, NEW b \in Sides, Side(qn_nodes[m], b) = k PROVE m = p
                    <6>1. Side(qn_nodes[p], a) # 0 /\ Side(qn_nodes[p], a) = Side(qn_nodes[m], b)
                        BY <4>1, <4>2, <5>1
                    <6> QED
                        BY <1>1, <6>1 DEF Tree
                <5> QED
                    BY <5>1
            <4>6. qn_nodes[p].type \in QN!Freed <=> qn_nodes[p].type # "COLON"
                BY <4>3 DEF QN!Freed, QN!Binary, QN!Proximity
            <4>7. k \in QN!Lost <=> qn_nodes[p].type = "COLON" \/ p \in QN!Lost
                BY <2>2, <2>3, <4>2, <4>4, <4>5
            <4>8. k \in V <=> p \in V /\ qn_nodes[p].type \in QN!Freed
                BY <1>1, <4>1, <4>2, <4>5
            <4> QED
                BY <2>3, <4>4, <4>6, <4>7, <4>8
        <3> QED
            BY <3>1, <3>2
    <2>5. \A j \in 1..k : j \in 1..(k - 1) \/ j = k
        OBVIOUS
    <2>6. \A j \in 1..k : j \in V <=> j \notin QN!Lost
        BY <2>3, <2>4, <2>5
    <2> QED
        BY <1>1, <2>1, <2>6
<1> HIDE DEF S
<1>4. 0..n \subseteq S
    BY <1>2, <1>3, UpTo
<1>5. n \in S
    BY <1>4
<1> QED
    BY <1>1, <1>5 DEF S

-----------------------------------------------------------------------------
(* The nodes of a query: the values of the array                           *)

LEMMA BranchesAre ==
    ASSUME NEW value \in Arrays
    PROVE  /\ QN!Branches(value) \subseteq Arrays
           /\ QN!HasBranches(value) =>
                 /\ value.args[QN!FirstBranch(value)] \in QN!Branches(value)
                 /\ value.args[QN!FirstBranch(value) + 1] \in QN!Branches(value)
                 /\ \A v \in QN!Branches(value) : \/ v = value.args[QN!FirstBranch(value)]
                                                  \/ v = value.args[QN!FirstBranch(value) + 1]
           /\ ~QN!HasBranches(value) => QN!Branches(value) = {}
<1>1. ASSUME QN!HasBranches(value)
      PROVE  /\ value.args[QN!FirstBranch(value)] \in Arrays
             /\ value.args[QN!FirstBranch(value) + 1] \in Arrays
    <2>1. PICK args \in Seq(Arrays) : args = value.args
        BY <1>1, ArraysAssumption DEF QN!HasBranches, QN!IsTyped, QN!ArraysOK
    <2>2. PICK i \in {1, 2} : i = QN!FirstBranch(value)
        BY DEF QN!FirstBranch
    <2>3. DOMAIN args = 1..Len(args) /\ Len(args) \in Nat /\ \A j \in 1..Len(args) : args[j] \in Arrays
        BY LenProperties
    <2>4. i + 1 \in 1..Len(args)
        BY <1>1, <2>1, <2>2, <2>3 DEF QN!HasBranches
    <2>5. i \in 1..Len(args)
        BY <2>2, <2>3, <2>4
    <2> QED
        BY <2>1, <2>2, <2>3, <2>4, <2>5
<1> QED
    BY <1>1 DEF QN!Branches

\* The values of each depth.
Levels(f, n) ==
    /\ f \in [0..n -> SUBSET Arrays]
    /\ f[0] = {qn_array}
    /\ \A d \in 1..n : f[d] = UNION {QN!Branches(value) : value \in f[d - 1]}

LEMMA LevelsAre ==
    ASSUME qn_array \in Arrays, Len(qn_nodes) \in Nat
    PROVE  \E f : /\ Levels(f, Len(qn_nodes))
                  /\ QN!HasUnknown <=> \E d \in 1..Len(qn_nodes) : \E value \in f[d] : QN!IsUnknown(value)
<1> DEFINE N == Len(qn_nodes)
           T == SUBSET Arrays
           Next1(s) == UNION {QN!Branches(value) : value \in s}
           step == [p \in [0..N -> T] \X (0..N) |->
                       IF p[2] = 0 THEN {qn_array} ELSE Next1(p[1][p[2] - 1])]
           Def(g) == [d \in 0..N |->
                         IF d = 0 THEN {qn_array} ELSE UNION {QN!Branches(value) : value \in g[d - 1]}]
           f == CHOOSE g : g = Def(g)
<1>1. QN!HasUnknown <=> \E d \in 1..N : \E value \in f[d] : QN!IsUnknown(value)
    BY DEF QN!HasUnknown
<1>2. N \in Nat
    OBVIOUS
<1>3. \A s \in T : Next1(s) \in T
    BY BranchesAre
<1> HIDE DEF N, Next1
<1>4. \A g \in [0..N -> T], k \in 0..N :
         step[<<g, k>>] = IF k = 0 THEN {qn_array} ELSE Next1(g[k - 1])
    OBVIOUS
<1>5. \A k \in 0..N : k # 0 => k - 1 \in 0..(k - 1) /\ k - 1 \in 0..N
    BY <1>2
<1>6. step \in [[0..N -> T] \X (0..N) -> T]
    BY <1>3, <1>5
<1> HIDE DEF step
<1>7. ASSUME NEW g \in [0..N -> T], NEW h \in [0..N -> T], NEW k \in 0..N,
             \A j \in 0..(k - 1) : g[j] = h[j]
      PROVE  step[<<g, k>>] = step[<<h, k>>]
    <2>1. k # 0 => g[k - 1] = h[k - 1]
        BY <1>5, <1>7
    <2> QED
        BY <1>4, <2>1
<1>8. LooksBack(step, N, T)
    BY <1>6, <1>7 DEF LooksBack
<1>9. PICK e : IsCourse(e, N, T, step)
    <2>1. {} \in T
        OBVIOUS
    <2> HIDE DEF T
    <2> QED
        BY <1>2, <1>8, <2>1, CourseExists
<1>10. /\ e \in [0..N -> T]
       /\ \A k \in 0..N : e[k] = IF k = 0 THEN {qn_array} ELSE Next1(e[k - 1])
    BY <1>4, <1>9 DEF IsCourse
<1>11. e = Def(e)
    BY <1>10 DEF Next1
<1>12. f = Def(f)
    <2> HIDE DEF Def
    <2> QED
        BY <1>11
<1> HIDE DEF f
<1>13. \A k \in 0..N : f[k] = IF k = 0 THEN {qn_array} ELSE Next1(f[k - 1])
    BY <1>12 DEF Next1
<1>14. \A k \in 1..N : k \in 0..N /\ k # 0
    BY <1>2
<1>15. f[0] = {qn_array} /\ 0 \in 0..N
    BY <1>2, <1>13
<1>16. \A k \in 0..N : f[k] \in T
    <2> DEFINE D == {k \in 0..N : f[k] \in T}
    <2>1. 0 \in D
        BY <1>15
    <2>2. ASSUME NEW k \in 0..(N - 1), k \in D PROVE k + 1 \in D
        <3>1. k + 1 \in 0..N /\ k + 1 # 0 /\ (k + 1) - 1 = k
            BY <1>2
        <3>2. f[k + 1] = Next1(f[k])
            BY <1>13, <3>1
        <3> QED
            BY <1>3, <2>2, <3>1, <3>2
    <2> HIDE DEF D
    <2>3. 0..N \subseteq D
        BY <1>2, <2>1, <2>2, UpTo
    <2> QED
        BY <2>3 DEF D
<1>17. f \in [0..N -> T]
    <2>1. DOMAIN f = 0..N /\ f = [k \in DOMAIN f |-> f[k]]
        BY <1>12
    <2> QED
        BY <2>1, <1>16
<1>18. \A d \in 1..N : f[d] = Next1(f[d - 1])
    BY <1>13, <1>14
<1>19. Levels(f, N)
    BY <1>15, <1>17, <1>18 DEF Levels, Next1
<1> QED
    BY <1>1, <1>19 DEF N

\* A value d branches below the array.
Path(top, v, d) ==
    \E p \in [0..d -> Arrays] : /\ p[0] = top /\ p[d] = v
                                /\ \A i \in 1..d : p[i] \in QN!Branches(p[i - 1])

LEMMA PathStep ==
    ASSUME NEW d \in Nat, NEW v \in Arrays, Path(qn_array, v, d), NEW w \in QN!Branches(v)
    PROVE  Path(qn_array, w, d + 1) /\ w \in Arrays
<1>1. w \in Arrays
    BY BranchesAre
<1>2. PICK p \in [0..d -> Arrays] : /\ p[0] = qn_array /\ p[d] = v
                                    /\ \A i \in 1..d : p[i] \in QN!Branches(p[i - 1])
    BY DEF Path
<1>3. PICK q \in [0..(d + 1) -> Arrays] : \A i \in 0..(d + 1) : q[i] = IF i = d + 1 THEN w ELSE p[i]
    <2>1. [i \in 0..(d + 1) |-> IF i = d + 1 THEN w ELSE p[i]] \in [0..(d + 1) -> Arrays]
        BY <1>1
    <2> QED
        BY <2>1
<1>4. q[0] = qn_array /\ q[d + 1] = w /\ q[d] = v
    BY <1>2, <1>3
<1>5. ASSUME NEW i \in 1..(d + 1) PROVE q[i] \in QN!Branches(q[i - 1])
    <2>1. CASE i = d + 1
        BY <1>4, <2>1
    <2>2. CASE i # d + 1
        <3>1. i \in 1..d /\ i \in 0..(d + 1) /\ i - 1 \in 0..(d + 1) /\ i - 1 # d + 1
            BY <2>2
        <3> QED
            BY <1>2, <1>3, <2>2, <3>1
    <2> QED
        BY <2>1, <2>2
<1> QED
    BY <1>1, <1>4, <1>5 DEF Path

LEMMA PathLevel ==
    ASSUME NEW n \in Nat, NEW f, Levels(f, n), NEW d \in 0..n, NEW v, Path(qn_array, v, d)
    PROVE  v \in f[d]
<1>1. PICK p \in [0..d -> Arrays] : /\ p[0] = qn_array /\ p[d] = v
                                    /\ \A i \in 1..d : p[i] \in QN!Branches(p[i - 1])
    BY DEF Path
<1> DEFINE S == {i \in 0..d : p[i] \in f[i]}
<1>2. 0 \in S
    BY <1>1 DEF Levels
<1>3. ASSUME NEW i \in 0..(d - 1), i \in S PROVE i + 1 \in S
    <2>1. i + 1 \in 1..d /\ i + 1 \in 0..d /\ i + 1 \in 1..n /\ (i + 1) - 1 = i
        OBVIOUS
    <2>2. p[i + 1] \in QN!Branches(p[i])
        BY <1>1, <2>1
    <2>3. f[i + 1] = UNION {QN!Branches(value) : value \in f[i]}
        BY <2>1 DEF Levels
    <2> QED
        BY <1>3, <2>1, <2>2, <2>3
<1> HIDE DEF S
<1>4. 0..d \subseteq S
    <2>1. d \in Nat
        OBVIOUS
    <2> QED
        BY <1>2, <1>3, <2>1, UpTo
<1>5. d \in S
    BY <1>4
<1> QED
    BY <1>1, <1>5 DEF S

LEMMA LevelPath ==
    ASSUME qn_array \in Arrays, NEW n \in Nat, NEW f, Levels(f, n), NEW d \in 0..n, NEW v \in f[d]
    PROVE  Path(qn_array, v, d)
<1> DEFINE S == {i \in 0..n : \A w \in f[i] : Path(qn_array, w, i)}
<1>1. 0 \in S
    <2>1. PICK p \in [0..0 -> Arrays] : p[0] = qn_array
        <3>1. [i \in 0..0 |-> qn_array] \in [0..0 -> Arrays]
            OBVIOUS
        <3>2. 0 \in 0..0
            OBVIOUS
        <3>3. [i \in 0..0 |-> qn_array][0] = qn_array
            BY <3>2
        <3> QED
            BY <3>1, <3>3
    <2>2. \A i \in 1..0 : FALSE
        OBVIOUS
    <2>3. Path(qn_array, qn_array, 0)
        BY <2>1, <2>2 DEF Path
    <2> QED
        BY <2>3 DEF Levels
<1>2. ASSUME NEW i \in 0..(n - 1), i \in S PROVE i + 1 \in S
    <2>1. i + 1 \in 1..n /\ i + 1 \in 0..n /\ (i + 1) - 1 = i /\ i \in Nat /\ i \in 0..n
        OBVIOUS
    <2>2. f[i + 1] = UNION {QN!Branches(value) : value \in f[i]} /\ f[i] \subseteq Arrays
        BY <2>1 DEF Levels
    <2>3. ASSUME NEW w \in f[i + 1] PROVE Path(qn_array, w, i + 1)
        <3>1. PICK value \in f[i] : w \in QN!Branches(value)
            BY <2>2
        <3>2. value \in Arrays /\ Path(qn_array, value, i)
            BY <1>2, <2>2
        <3> QED
            BY <2>1, <3>1, <3>2, PathStep
    <2> QED
        BY <2>1, <2>3
<1> HIDE DEF S
<1>3. 0..n \subseteq S
    BY <1>1, <1>2, UpTo
<1>4. d \in S
    BY <1>3
<1> QED
    BY <1>4 DEF S

\* Below top, a branch of an unknown type, no deeper than n.
Strange(top, n) == \E d \in 1..n : \E v : Path(top, v, d) /\ QN!IsUnknown(v)

LEMMA UnknownIs ==
    ASSUME qn_array \in Arrays, Len(qn_nodes) \in Nat
    PROVE  QN!HasUnknown <=> Strange(qn_array, Len(qn_nodes))
<1>1. PICK n \in Nat : n = Len(qn_nodes)
    OBVIOUS
<1>2. PICK f : Levels(f, n) /\ (QN!HasUnknown <=> \E d \in 1..n : \E value \in f[d] : QN!IsUnknown(value))
    BY <1>1, LevelsAre
<1>3. \A d \in 1..n : d \in 0..n
    OBVIOUS
<1>4. ASSUME NEW d \in 1..n, NEW v PROVE v \in f[d] <=> Path(qn_array, v, d)
    BY <1>2, <1>3, LevelPath, PathLevel
<1> QED
    BY <1>1, <1>2, <1>4 DEF Strange

\* A set of values that has the branches of its own.
LEMMA UnknownNone ==
    ASSUME NEW n \in Nat, NEW S, qn_array \in S,
           \A v \in S : QN!Branches(v) \subseteq S /\ ~QN!IsUnknown(v)
    PROVE  ~Strange(qn_array, n)
<1> SUFFICES ASSUME NEW d \in 1..n, NEW v, Path(qn_array, v, d), QN!IsUnknown(v) PROVE FALSE
    BY DEF Strange
<1>1. PICK p \in [0..d -> Arrays] : /\ p[0] = qn_array /\ p[d] = v
                                    /\ \A i \in 1..d : p[i] \in QN!Branches(p[i - 1])
    BY DEF Path
<1> DEFINE D == {i \in 0..d : p[i] \in S}
<1>3. 0 \in D
    BY <1>1
<1>4. ASSUME NEW i \in 0..(d - 1), i \in D PROVE i + 1 \in D
    <2>1. i + 1 \in 1..d /\ i + 1 \in 0..d /\ (i + 1) - 1 = i
        OBVIOUS
    <2>2. p[i + 1] \in QN!Branches(p[i])
        BY <1>1, <2>1
    <2> QED
        BY <1>4, <2>1, <2>2
<1> HIDE DEF D
<1>5. 0..d \subseteq D
    <2>1. d \in Nat
        OBVIOUS
    <2> QED
        BY <1>3, <1>4, <2>1, UpTo
<1>6. d \in D
    BY <1>5
<1> QED
    BY <1>1, <1>6 DEF D

-----------------------------------------------------------------------------
(* The nodes of a query: qtree2tree                                        *)

Call == [do : {"build"}, value : Arrays, node : Nat, side : Sides] \cup [do : {"join"}, node : Nat]

\* Calls for later nodes come first; for a node, its left branch, the right one, the sum.
Rank(c) == 3 * c.node + (IF c.do = "join" THEN 0 ELSE IF c.side = "l" THEN 2 ELSE 1)
Falling(q) == \A i, j \in 1..Len(q) : i < j => Rank(q[j]) < Rank(q[i])

\* Among the calls E: one that makes a branch of a node; its sum; a sum that will meet a
\* branch that is not there.
Pending(E, n, a) == \E c \in E : c.do = "build" /\ c.node = n /\ c.side = a
Joined(E, n) == \E c \in E : c.do = "join" /\ c.node = n
Doomed(E, t) ==
    \E c \in E : c.do = "join" /\ \E a \in Sides : Side(t[c.node], a) = 0 /\ ~Pending(E, c.node, a)

\* The values that were met; those to come are in the calls.
Seen(top, S, E, t) ==
    /\ top \in S
    /\ \A v \in S : \A w \in QN!Branches(v) : w \in S \/ \E c \in E : c.do = "build" /\ c.value = w
    /\ \A v \in S : QN!IsUnknown(v) => Doomed(E, t)

\* What the calls E say of the nodes t made so far.
Sound(top, E, t) ==
    /\ E \subseteq Call
    /\ \A c \in E : c.node \in 1..Len(t)
    /\ \A c \in E : c.do = "build" =>
          /\ Side(t[c.node], c.side) = 0
          /\ t[c.node].type \in QN!Binary \cup QN!Proximity
          /\ Joined(E, c.node)
          /\ \E d \in 1..c.node : Path(top, c.value, d)
    /\ \A c \in E : c.do = "join" =>
          \A a \in Sides : Side(t[c.node], a) # 0 \/ Pending(E, c.node, a) \/ Strange(top, Len(t))
    /\ \E S \in SUBSET Arrays : Seen(top, S, E, t)

LEMMA RankIs ==
    ASSUME NEW x \in Call, NEW y \in Call, Rank(y) < Rank(x)
    PROVE  /\ x.do = "build" /\ y.do = "build" => ~(y.node = x.node /\ y.side = x.side)
           /\ x.do = "join" /\ y.do = "build" => y.node # x.node
<1>1. /\ x.node \in Nat /\ y.node \in Nat
      /\ x.do = "build" => x.side \in Sides
      /\ y.do = "build" => y.side \in Sides
    BY DEF Call
<1> QED
    BY <1>1 DEF Rank, Sides

LEMMA StrangeGrows == ASSUME NEW n \in Nat, NEW m \in Nat, n <= m, Strange(qn_array, n) PROVE Strange(qn_array, m)
<1>1. \A d \in 1..n : d \in 1..m
    OBVIOUS
<1> QED
    BY <1>1 DEF Strange

\* A branch of a type that is not known.
LEMMA SoundUnknown ==
    ASSUME NEW t \in Seq(Node), NEW x \in Call, NEW T, Sound(qn_array, {x} \cup T, t),
           \A y \in T : Rank(y) < Rank(x), x.do = "build", QN!IsUnknown(x.value)
    PROVE  Sound(qn_array, T, t)
<1> DEFINE E == {x} \cup T
<1>1. PICK n \in Nat : n = Len(t)
    BY LenProperties
<1>2. PICK p \in 1..n, a \in Sides, v \in Arrays : p = x.node /\ a = x.side /\ v = x.value
    <2>1. x.value \in Arrays /\ x.side \in Sides
        BY DEF Call
    <2> QED
        BY <1>1, <2>1 DEF Sound
<1>3. E \subseteq Call /\ T \subseteq Call /\ T \subseteq E
    BY DEF Sound
<1>4. \A y \in T : y.do = "build" => ~(y.node = p /\ y.side = a)
    BY <1>2, <1>3, RankIs
<1>5. /\ Side(t[p], a) = 0 /\ Joined(E, p) /\ \E d \in 1..p : Path(qn_array, v, d)
    BY <1>2 DEF Sound
<1>6. Strange(qn_array, n)
    <2>1. \A d \in 1..p : d \in 1..n
        BY <1>1
    <2> QED
        BY <1>2, <1>5, <2>1 DEF Strange
<1>7. \A m : Joined(E, m) => Joined(T, m)
    BY DEF Joined
<1>8. \A m, b : Pending(T, m, b) => Pending(E, m, b)
    BY DEF Pending
<1>9. ~Pending(T, p, a)
    BY <1>4 DEF Pending
<1>10. Doomed(T, t)
    BY <1>5, <1>7, <1>9 DEF Doomed, Joined
<1>11. \E S \in SUBSET Arrays : Seen(qn_array, S, T, t)
    <2>1. PICK S \in SUBSET Arrays : Seen(qn_array, S, E, t)
        BY DEF Sound
    <2>2. PICK R \in SUBSET Arrays : R = S \cup {v}
        BY <1>2
    <2>3. QN!Branches(v) = {}
        BY <1>2 DEF QN!Branches, QN!HasBranches, QN!IsUnknown
    <2>4. ASSUME NEW z \in R, NEW w \in QN!Branches(z)
          PROVE  w \in R \/ \E c \in T : c.do = "build" /\ c.value = w
        <3>1. z \in S
            BY <2>2, <2>3, <2>4
        <3>2. w \in S \/ \E c \in E : c.do = "build" /\ c.value = w
            BY <2>1, <2>4, <3>1 DEF Seen
        <3> QED
            BY <1>2, <2>2, <3>2
    <2>5. qn_array \in R
        BY <2>1, <2>2 DEF Seen
    <2> QED
        BY <1>10, <2>4, <2>5 DEF Seen
<1> QED
    BY <1>1, <1>3, <1>6, <1>7, <1>11 DEF Sound

\* A branch that is made, with its own branches to make or with none.
LEMMA SoundMade ==
    ASSUME NEW t \in Seq(Node), NEW x \in Call, NEW T, Sound(qn_array, {x} \cup T, t),
           \A y \in T : Rank(y) < Rank(x), x.do = "build", ~QN!IsUnknown(x.value),
           NEW y \in Node, NEW u, Grown(u, t, x.node, x.side, y), y.l = 0, y.r = 0,
           NEW P \in SUBSET Call,
           \/ P = {} /\ QN!Branches(x.value) = {}
           \/ /\ y.type \in QN!Binary \cup QN!Proximity
              /\ \E w1, w2 \in QN!Branches(x.value) :
                    /\ P = {QN!Build(w1, Len(t) + 1, "l"), QN!Build(w2, Len(t) + 1, "r"), QN!Join(Len(t) + 1)}
                    /\ QN!Branches(x.value) \subseteq {w1, w2}
    PROVE  Sound(qn_array, P \cup T, u)
<1> DEFINE E == {x} \cup T
           F == P \cup T
<1>1. PICK n \in Nat : n = Len(t)
    BY LenProperties
<1>2. PICK p \in 1..n, a \in Sides, v \in Arrays : p = x.node /\ a = x.side /\ v = x.value
    <2>1. x.value \in Arrays /\ x.side \in Sides
        BY DEF Call
    <2> QED
        BY <1>1, <2>1 DEF Sound
<1>3. T \subseteq Call /\ F \subseteq Call
    BY DEF Sound
<1>4. \A c \in T : c.do = "build" => ~(c.node = p /\ c.side = a)
    BY <1>2, <1>3, RankIs
<1>5. \A c \in T : c.node \in 1..n /\ c.node # n + 1
    BY <1>1 DEF Sound
<1>6. /\ Len(u) = n + 1 /\ u[n + 1] = y
      /\ \A k \in 1..n : u[k].type = t[k].type
      /\ \A k \in 1..n, b \in Sides :
            Side(u[k], b) = IF k = p /\ b = a THEN n + 1 ELSE Side(t[k], b)
    BY <1>1, <1>2 DEF Grown
<1>7. \A b \in Sides : Side(u[n + 1], b) = 0
    BY <1>6 DEF Side
<1>8. PICK d \in 1..p : Path(qn_array, v, d)
    BY <1>2 DEF Sound
<1>9. ASSUME NEW c \in P
      PROVE  /\ c.node = n + 1 /\ Joined(F, n + 1)
             /\ c.do = "join" => \A b \in Sides : Pending(F, n + 1, b)
             /\ c.do = "build" => /\ y.type \in QN!Binary \cup QN!Proximity
                                  /\ Path(qn_array, c.value, d + 1)
    <2>1. PICK w1 \in QN!Branches(v), w2 \in QN!Branches(v) :
              P = {QN!Build(w1, n + 1, "l"), QN!Build(w2, n + 1, "r"), QN!Join(n + 1)}
        BY <1>1, <1>2
    <2>2. Path(qn_array, w1, d + 1) /\ Path(qn_array, w2, d + 1)
        BY <1>8, PathStep
    <2>3. Joined(F, n + 1)
        BY <2>1 DEF Joined, QN!Join
    <2>4. Pending(F, n + 1, "l") /\ Pending(F, n + 1, "r")
        BY <2>1 DEF Pending, QN!Build
    <2>5. y.type \in QN!Binary \cup QN!Proximity
        BY <1>9
    <2>6. c = QN!Build(w1, n + 1, "l") \/ c = QN!Build(w2, n + 1, "r") \/ c = QN!Join(n + 1)
        BY <2>1
    <2> QED
        BY <2>2, <2>3, <2>4, <2>5, <2>6 DEF QN!Build, QN!Join, Sides
<1>10. \A m \in 1..n : Joined(E, m) => Joined(F, m)
    BY DEF Joined
<1>11. \A m \in 1..n, b \in Sides : ~(m = p /\ b = a) => (Pending(F, m, b) <=> Pending(E, m, b))
    <2>1. \A m \in 1..n : m # n + 1
        OBVIOUS
    <2> QED
        BY <1>2, <1>9, <2>1 DEF Pending
<1>12. Strange(qn_array, n) => Strange(qn_array, n + 1)
    BY StrangeGrows
<1>13. ASSUME NEW c \in F PROVE c.node \in 1..(n + 1)
    BY <1>5, <1>9
<1>14. ASSUME NEW c \in F, c.do = "build"
       PROVE  /\ Side(u[c.node], c.side) = 0
              /\ u[c.node].type \in QN!Binary \cup QN!Proximity
              /\ Joined(F, c.node)
              /\ \E e \in 1..c.node : Path(qn_array, c.value, e)
    <2>1. c.side \in Sides
        BY <1>3, <1>14 DEF Call
    <2>2. CASE c \in P
        <3>1. d + 1 \in 1..(n + 1)
            OBVIOUS
        <3> QED
            BY <1>6, <1>7, <1>9, <1>14, <2>1, <2>2, <3>1
    <2>3. CASE c \in T
        <3>1. c.node \in 1..n /\ ~(c.node = p /\ c.side = a)
            BY <1>4, <1>5, <1>14, <2>3
        <3>2. /\ Side(t[c.node], c.side) = 0 /\ t[c.node].type \in QN!Binary \cup QN!Proximity
              /\ Joined(E, c.node) /\ \E e \in 1..c.node : Path(qn_array, c.value, e)
            BY <1>14, <2>3 DEF Sound
        <3> QED
            BY <1>6, <1>10, <2>1, <3>1, <3>2
    <2> QED
        BY <2>2, <2>3
<1>15. ASSUME NEW c \in F, c.do = "join", NEW b \in Sides
       PROVE  Side(u[c.node], b) # 0 \/ Pending(F, c.node, b) \/ Strange(qn_array, n + 1)
    <2>1. CASE c \in P
        BY <1>9, <1>15, <2>1
    <2>2. CASE c \in T
        <3>1. c.node \in 1..n
            BY <1>5, <2>2
        <3>2. Side(t[c.node], b) # 0 \/ Pending(E, c.node, b) \/ Strange(qn_array, n)
            BY <1>1, <1>15, <2>2 DEF Sound
        <3>3. CASE c.node = p /\ b = a
            <4>1. Side(u[c.node], b) = n + 1 /\ n + 1 # 0
                BY <1>6, <3>1, <3>3
            <4> QED
                BY <4>1
        <3>4. CASE ~(c.node = p /\ b = a)
            BY <1>6, <1>11, <1>12, <3>1, <3>2, <3>4
        <3> QED
            BY <3>3, <3>4
    <2> QED
        BY <2>1, <2>2
<1>16. Doomed(E, t) => Doomed(F, u)
    <2> SUFFICES ASSUME NEW c \in E, c.do = "join", NEW b \in Sides, Side(t[c.node], b) = 0,
                        ~Pending(E, c.node, b)
                 PROVE  Doomed(F, u)
        BY DEF Doomed
    <2>1. c \in T /\ c \in F
        OBVIOUS
    <2>2. Pending(E, p, a)
        BY <1>2 DEF Pending
    <2>3. c.node \in 1..n /\ ~(c.node = p /\ b = a)
        BY <1>5, <2>1, <2>2
    <2>4. Side(u[c.node], b) = 0 /\ ~Pending(F, c.node, b)
        BY <1>6, <1>11, <2>3
    <2> QED
        BY <2>1, <2>4 DEF Doomed
<1>17. \E S \in SUBSET Arrays : Seen(qn_array, S, F, u)
    <2>1. PICK S \in SUBSET Arrays : Seen(qn_array, S, E, t)
        BY DEF Sound
    <2>2. PICK R \in SUBSET Arrays : R = S \cup {v}
        BY <1>2
    <2>3. ASSUME NEW w \in QN!Branches(v) PROVE \E c \in P : c.do = "build" /\ c.value = w
        <3>1. PICK w1 \in QN!Branches(v), w2 \in QN!Branches(v) :
                  /\ P = {QN!Build(w1, n + 1, "l"), QN!Build(w2, n + 1, "r"), QN!Join(n + 1)}
                  /\ w \in {w1, w2}
            BY <1>1, <1>2, <2>3
        <3> QED
            BY <3>1 DEF QN!Build
    <2>4. ASSUME NEW z \in R, NEW w \in QN!Branches(z)
          PROVE  w \in R \/ \E c \in F : c.do = "build" /\ c.value = w
        <3>1. CASE z \in S
            <4>1. w \in S \/ \E c \in E : c.do = "build" /\ c.value = w
                BY <2>1, <2>4, <3>1 DEF Seen
            <4> QED
                BY <1>2, <2>2, <4>1
        <3>2. CASE z = v
            BY <2>3, <2>4, <3>2
        <3> QED
            BY <2>2, <3>1, <3>2
    <2>5. qn_array \in R
        BY <2>1, <2>2 DEF Seen
    <2>6. \A z \in R : QN!IsUnknown(z) => Doomed(F, u)
        BY <1>2, <1>16, <2>1, <2>2 DEF Seen
    <2> QED
        BY <2>4, <2>5, <2>6 DEF Seen
<1> HIDE DEF F
<1>18. F \subseteq Call
    BY <1>3
<1>19. Sound(qn_array, F, u)
    BY ONLY <1>6, <1>13, <1>14, <1>15, <1>17, <1>18 DEF Sound
<1> QED
    BY <1>19 DEF F

\* The sum of the leaves, and a change that touches no branch and no type.
LEMMA SoundJoined ==
    ASSUME NEW t \in Seq(Node), NEW x \in Call, NEW T, Sound(qn_array, {x} \cup T, t),
           \A y \in T : Rank(y) < Rank(x), x.do = "join",
           t[x.node].l # 0, t[x.node].r # 0,
           NEW u, Len(u) = Len(t),
           \A k \in 1..Len(t) : u[k].type = t[k].type /\ u[k].l = t[k].l /\ u[k].r = t[k].r
    PROVE  Sound(qn_array, T, u)
<1> DEFINE E == {x} \cup T
<1>1. T \subseteq Call
    BY DEF Sound
<1>2. \A c \in T : c.do = "build" => c.node # x.node
    BY <1>1, RankIs
<1>3. \A k \in 1..Len(t), b \in Sides : Side(u[k], b) = Side(t[k], b)
    BY DEF Side
<1>4. \A m, b : Pending(E, m, b) <=> Pending(T, m, b)
    BY DEF Pending
<1>5. \A m : m # x.node /\ Joined(E, m) => Joined(T, m)
    BY DEF Joined
<1>6. \A b \in Sides : Side(t[x.node], b) # 0
    BY DEF Side
<1>7. \A c \in T : c.node \in 1..Len(t)
    BY DEF Sound
<1>8. Doomed(E, t) => Doomed(T, u)
    BY <1>3, <1>4, <1>6, <1>7 DEF Doomed
<1>9. \E S \in SUBSET Arrays : Seen(qn_array, S, T, u)
    <2>1. PICK S \in SUBSET Arrays : Seen(qn_array, S, E, t)
        BY DEF Sound
    <2>2. Seen(qn_array, S, T, u)
        BY <1>8, <2>1 DEF Seen
    <2> QED
        BY <2>2
<1>10. ASSUME NEW c \in T, c.do = "build"
       PROVE  /\ Side(u[c.node], c.side) = 0
              /\ u[c.node].type \in QN!Binary \cup QN!Proximity
              /\ Joined(T, c.node)
              /\ \E e \in 1..c.node : Path(qn_array, c.value, e)
    <2>1. c.side \in Sides
        BY <1>1, <1>10 DEF Call
    <2>2. /\ Side(t[c.node], c.side) = 0
          /\ t[c.node].type \in QN!Binary \cup QN!Proximity
          /\ Joined(E, c.node)
          /\ \E e \in 1..c.node : Path(qn_array, c.value, e)
        BY <1>10 DEF Sound
    <2> QED
        BY <1>2, <1>3, <1>5, <1>7, <1>10, <2>1, <2>2
<1>11. ASSUME NEW c \in T, c.do = "join", NEW b \in Sides
       PROVE  Side(u[c.node], b) # 0 \/ Pending(T, c.node, b) \/ Strange(qn_array, Len(u))
    <2>1. Side(t[c.node], b) # 0 \/ Pending(E, c.node, b) \/ Strange(qn_array, Len(t))
        BY <1>11 DEF Sound
    <2> QED
        BY <1>3, <1>4, <1>7, <2>1
<1> QED
    BY <1>1, <1>7, <1>9, <1>10, <1>11 DEF Sound

-----------------------------------------------------------------------------
(* The nodes of a query: freetree                                          *)

\* No entry twice, but those of NULL.
Once(q) == \A i, j \in 1..Len(q) : q[i] = q[j] /\ q[i].node # 0 => i = j
Distinct(s) == \A i, j \in 1..Len(s) : s[i] = s[j] => i = j

LEMMA OnceTail ==
    ASSUME NEW C, NEW q \in Seq(C), q # << >>, Once(q)
    PROVE  /\ Once(Tail(q))
           /\ Head(q).node # 0 => Head(q) \notin Elems(Tail(q))
<1>1. PICK n \in Nat, t \in Seq(C) : n = Len(t) /\ t = Tail(q)
    BY TailElems
<1>2. /\ Len(q) = n + 1 /\ Head(q) = q[1]
      /\ \A i \in 1..n : i + 1 \in 1..(n + 1) /\ t[i] = q[i + 1]
    BY <1>1, TailElems
<1>3. ASSUME NEW i \in 1..n, NEW j \in 1..n, t[i] = t[j], t[i].node # 0 PROVE i = j
    <2>1. i + 1 = j + 1
        BY <1>2, <1>3 DEF Once
    <2> QED
        BY <2>1
<1>4. ASSUME NEW i \in 1..n, t[i] = q[1], q[1].node # 0 PROVE FALSE
    <2>1. 1 \in 1..(n + 1) /\ i + 1 # 1
        OBVIOUS
    <2>2. 1 = i + 1
        BY <1>2, <1>4, <2>1 DEF Once
    <2> QED
        BY <2>1, <2>2
<1> QED
    BY <1>1, <1>2, <1>3, <1>4 DEF Once, Elems

LEMMA OncePushed ==
    ASSUME NEW C, NEW a \in C, NEW b \in C, NEW c \in C, NEW t \in Seq(C), Once(t),
           \A x \in {a, b, c} : x.node # 0 => x \notin Elems(t),
           a.node # 0 => a # b, a # c, b # c
    PROVE  Once(<<a, b, c>> \o t)
<1>1. PICK n \in Nat, u \in Seq(C) : n = Len(t) /\ u = <<a, b, c>> \o t
    BY Pushed
<1>2. /\ Len(u) = n + 3 /\ u[1] = a /\ u[2] = b /\ u[3] = c
      /\ \A i \in 1..n : u[i + 3] = t[i]
    BY <1>1, Pushed
<1>3. \A i \in 1..n, x \in {a, b, c} : x.node # 0 => t[i] # x
    BY <1>1 DEF Elems
<1>4. ASSUME NEW i \in 1..(n + 3)
      PROVE  \/ i = 1 /\ u[i] = a
             \/ i = 2 /\ u[i] = b
             \/ i = 3 /\ u[i] = c
             \/ \E k \in 1..n : i = k + 3 /\ u[i] = t[k]
    <2>1. CASE i <= 3
        <3>1. i = 1 \/ i = 2 \/ i = 3
            BY <2>1
        <3> QED
            BY <1>2, <3>1
    <2>2. CASE i > 3
        <3>1. i - 3 \in 1..n /\ i = (i - 3) + 3
            BY <2>2
        <3> QED
            BY <1>2, <3>1
    <2>3. i <= 3 \/ i > 3
        OBVIOUS
    <2> QED
        BY ONLY <2>1, <2>2, <2>3
<1>5. \A k, m \in 1..n : t[k] = t[m] /\ t[k].node # 0 => k = m
    BY <1>1 DEF Once
<1>6. ASSUME NEW i \in 1..(n + 3), NEW j \in 1..(n + 3), u[i] = u[j], u[i].node # 0 PROVE i = j
    <2>1. (a.node # 0 => a # b) /\ a # c /\ b # c
        OBVIOUS
    <2>2. /\ a.node # 0 => \A k \in 1..n : t[k] # a
          /\ b.node # 0 => \A k \in 1..n : t[k] # b
          /\ c.node # 0 => \A k \in 1..n : t[k] # c
        BY <1>3
    <2>3. CASE i = 1 /\ u[i] = a
        BY ONLY <1>4, <1>6, <2>1, <2>2, <2>3
    <2>4. CASE i = 2 /\ u[i] = b
        BY ONLY <1>4, <1>6, <2>1, <2>2, <2>4
    <2>5. CASE i = 3 /\ u[i] = c
        BY ONLY <1>4, <1>6, <2>1, <2>2, <2>5
    <2>6. ASSUME NEW k \in 1..n, i = k + 3, u[i] = t[k] PROVE i = j
        BY ONLY <1>4, <1>5, <1>6, <2>1, <2>2, <2>6, k \in 1..n
    <2> QED
        BY ONLY <1>4, <2>3, <2>4, <2>5, <2>6
<1> QED
    BY <1>1, <1>2, <1>6 DEF Once

LEMMA OncePushedOne ==
    ASSUME NEW C, NEW a \in C, NEW t \in Seq(C), Once(t), a \notin Elems(t)
    PROVE  Once(<<a>> \o t)
<1>1. PICK n \in Nat, u \in Seq(C) : n = Len(t) /\ u = <<a>> \o t
    BY PushedOne
<1>2. Len(u) = n + 1 /\ u[1] = a /\ \A i \in 1..n : u[i + 1] = t[i]
    BY <1>1, PushedOne
<1>3. \A i \in 1..n : t[i] # a
    BY <1>1 DEF Elems
<1>4. ASSUME NEW i \in 1..(n + 1)
      PROVE  (i = 1 /\ u[i] = a) \/ \E k \in 1..n : i = k + 1 /\ u[i] = t[k]
    <2>1. CASE i = 1
        BY <1>2, <2>1
    <2>2. CASE i # 1
        <3>1. i - 1 \in 1..n /\ i = (i - 1) + 1
            BY <2>2
        <3> QED
            BY <1>2, <3>1
    <2> QED
        BY <2>1, <2>2
<1>5. \A k, m \in 1..n : t[k] = t[m] /\ t[k].node # 0 => k = m
    BY <1>1 DEF Once
<1>6. ASSUME NEW i \in 1..(n + 1), NEW j \in 1..(n + 1), u[i] = u[j], u[i].node # 0 PROVE i = j
    <2>1. CASE i = 1 /\ u[i] = a
        BY ONLY <1>3, <1>4, <1>6, <2>1
    <2>2. ASSUME NEW k \in 1..n, i = k + 1, u[i] = t[k] PROVE i = j
        BY ONLY <1>3, <1>4, <1>5, <1>6, <2>2, k \in 1..n
    <2> QED
        BY ONLY <1>4, <1>6, <2>1, <2>2
<1> QED
    BY <1>1, <1>2, <1>6 DEF Once

\* The words of a node.
LEMMA WordsFreed ==
    ASSUME NEW s \in Seq(Nat \X Nat), Distinct(s), NEW n \in Nat, NEW w \in Nat,
           \A i \in 1..w : <<n, i>> \notin Elems(s)
    PROVE  /\ s \o [i \in 1..w |-> <<n, i>>] \in Seq(Nat \X Nat)
           /\ Distinct(s \o [i \in 1..w |-> <<n, i>>])
           /\ Elems(s \o [i \in 1..w |-> <<n, i>>]) = Elems(s) \cup {<<n, i>> : i \in 1..w}
<1> DEFINE v == [i \in 1..w |-> <<n, i>>]
           u == s \o v
<1>1. PICK m \in Nat : m = Len(s)
    BY LenProperties
<1>2. v \in Seq(Nat \X Nat) /\ Len(v) = w /\ \A i \in 1..w : v[i] = <<n, i>>
    <2>1. v \in [1..w -> Nat \X Nat]
        OBVIOUS
    <2> QED
        BY <2>1, SeqDef, LenProperties
<1> HIDE DEF v
<1>3. u \in Seq(Nat \X Nat) /\ Len(u) = m + w
    BY <1>1, <1>2, ConcatProperties
<1>4. \A i \in 1..(m + w) : u[i] = IF i <= m THEN s[i] ELSE v[i - m]
    BY <1>1, <1>2, ConcatProperties
<1> HIDE DEF u
<1>5. ASSUME NEW i \in 1..(m + w)
      PROVE  \/ i \in 1..m /\ u[i] = s[i]
             \/ \E k \in 1..w : i = m + k /\ u[i] = <<n, k>>
    <2>1. CASE i <= m
        BY <1>4, <2>1
    <2>2. CASE i > m
        <3>1. i - m \in 1..w /\ i = m + (i - m) /\ ~(i <= m)
            BY <2>2
        <3> QED
            BY <1>2, <1>4, <3>1
    <2>3. i <= m \/ i > m
        OBVIOUS
    <2> QED
        BY ONLY <2>1, <2>2, <2>3
<1>6. \A i \in 1..m : i \in 1..(m + w) /\ u[i] = s[i]
    BY <1>4
<1>7. ASSUME NEW k \in 1..w PROVE m + k \in 1..(m + w) /\ u[m + k] = <<n, k>>
    <2>1. m + k \in 1..(m + w) /\ ~(m + k <= m) /\ (m + k) - m = k
        OBVIOUS
    <2> QED
        BY <1>2, <1>4, <2>1
<1>8. \A i \in 1..m, k \in 1..w : s[i] # <<n, k>>
    BY <1>1 DEF Elems
<1>9. ASSUME NEW i \in 1..(m + w), NEW j \in 1..(m + w), u[i] = u[j] PROVE i = j
    <2>1. CASE i \in 1..m /\ u[i] = s[i] /\ j \in 1..m /\ u[j] = s[j]
        BY <1>1, <1>9, <2>1 DEF Distinct
    <2>2. ASSUME NEW k \in 1..w, i = m + k, u[i] = <<n, k>>, j \in 1..m, u[j] = s[j] PROVE FALSE
        BY <1>8, <1>9, <2>2
    <2>3. ASSUME NEW k \in 1..w, j = m + k, u[j] = <<n, k>>, i \in 1..m, u[i] = s[i] PROVE FALSE
        BY <1>8, <1>9, <2>3
    <2>4. ASSUME NEW k \in 1..w, i = m + k, u[i] = <<n, k>>,
                 NEW l \in 1..w, j = m + l, u[j] = <<n, l>>
          PROVE  i = j
        BY <1>9, <2>4
    <2> QED
        BY <1>5, <2>1, <2>2, <2>3, <2>4
<1>10. Distinct(u)
    BY <1>3, <1>9 DEF Distinct
<1>11. Elems(u) = Elems(s) \cup {<<n, i>> : i \in 1..w}
    <2>1. ASSUME NEW x \in Elems(u) PROVE x \in Elems(s) \cup {<<n, i>> : i \in 1..w}
        <3>1. PICK i \in 1..(m + w) : x = u[i]
            BY <1>3 DEF Elems
        <3> QED
            BY <1>1, <1>5, <3>1 DEF Elems
    <2>2. ASSUME NEW x \in Elems(s) PROVE x \in Elems(u)
        BY <1>1, <1>3, <1>6 DEF Elems
    <2>3. ASSUME NEW k \in 1..w PROVE <<n, k>> \in Elems(u)
        <3>1. PICK i \in 1..(m + w) : u[i] = <<n, k>>
            BY <1>7
        <3> QED
            BY <1>3, <3>1 DEF Elems
    <2> QED
        BY <2>1, <2>2, <2>3
<1> QED
    BY <1>3, <1>10, <1>11 DEF u, v

LEMMA NodeFreed ==
    ASSUME NEW s \in Seq(Nat \X Nat), Distinct(s), NEW e \in Nat \X Nat, e \notin Elems(s)
    PROVE  /\ Append(s, e) \in Seq(Nat \X Nat) /\ Distinct(Append(s, e))
           /\ Elems(Append(s, e)) = Elems(s) \cup {e}
<1>1. PICK m \in Nat : m = Len(s)
    BY LenProperties
<1>2. PICK u \in Seq(Nat \X Nat) : /\ u = Append(s, e) /\ Len(u) = m + 1 /\ u[m + 1] = e
                                   /\ \A i \in 1..m : u[i] = s[i]
    <2>1. PICK X : X = Nat \X Nat
        OBVIOUS
    <2>2. /\ Append(s, e) \in Seq(X) /\ Len(Append(s, e)) = Len(s) + 1
          /\ Append(s, e)[Len(s) + 1] = e /\ \A i \in 1..Len(s) : Append(s, e)[i] = s[i]
        BY ONLY <2>1, s \in Seq(Nat \X Nat), e \in Nat \X Nat, AppendProperties
    <2> QED
        BY <1>1, <2>1, <2>2
<1>3. \A i \in 1..(m + 1) : i \in 1..m \/ i = m + 1
    OBVIOUS
<1>4. \A i \in 1..m : s[i] # e
    BY <1>1 DEF Elems
<1>5. \A i, j \in 1..m : s[i] = s[j] => i = j
    BY <1>1 DEF Distinct
<1>6. ASSUME NEW i \in 1..(m + 1), NEW j \in 1..(m + 1), u[i] = u[j] PROVE i = j
    BY <1>2, <1>3, <1>4, <1>5, <1>6
<1>7. m + 1 \in 1..(m + 1) /\ \A i \in 1..m : i \in 1..(m + 1)
    OBVIOUS
<1>8. Elems(u) = Elems(s) \cup {e}
    BY <1>1, <1>2, <1>3, <1>7 DEF Elems
<1> QED
    BY <1>2, <1>6, <1>8 DEF Distinct

FreeCalls == {QN!Free(n) : n \in 0..Len(qn_nodes)} \cup {QN!Delete(n) : n \in 1..Len(qn_nodes)}

\* With E the calls to come and G what was given back: the nodes that were met, and those
\* to be met.
Met(E, G) == {n \in 1..Len(qn_nodes) : <<n, 0>> \in G \/ QN!Delete(n) \in E}
Due(E) == {n \in 1..Len(qn_nodes) : QN!Free(n) \in E}

\* What is met or due: the root, and the branches of what was met, but of a ":".
Walked(V, D) ==
    /\ V \cap D = {}
    /\ qn_nodes # << >> => 1 \in V \cup D
    /\ \A n \in V, a \in Sides :
          qn_nodes[n].type \in QN!Freed /\ Side(qn_nodes[n], a) # 0 => Side(qn_nodes[n], a) \in V \cup D
    /\ \A k \in V \cup D :
          k = 1 \/ \E n \in V, a \in Sides : qn_nodes[n].type \in QN!Freed /\ Side(qn_nodes[n], a) = k

\* Of a node that was met the words are given back; the node once its delete is made.
Given(E, G) ==
    /\ \A n, i \in Nat : <<n, i>> \in G => n \in Met(E, G) /\ i \in 0..qn_nodes[n].words
    /\ \A n \in Met(E, G) : \A i \in 1..qn_nodes[n].words : <<n, i>> \in G
    /\ \A n : QN!Delete(n) \in E => <<n, 0>> \notin G

Freeing ==
    /\ qn_todo \in Seq(FreeCalls) /\ Once(qn_todo)
    /\ qn_freed \in Seq(Nat \X Nat) /\ Distinct(qn_freed)
    /\ Given(Elems(qn_todo), Elems(qn_freed))
    /\ Walked(Met(Elems(qn_todo), Elems(qn_freed)), Due(Elems(qn_todo)))

\* The branches of a node that freetree looks at.
Below(n) == IF qn_nodes[n].type \in QN!Freed THEN {qn_nodes[n].l, qn_nodes[n].r} \ {0} ELSE {}

\* A node is met, and its branches are due.
LEMMA WalkNode ==
    ASSUME qn_nodes \in Seq(Node), Tree(qn_nodes), NEW V, NEW D, V \subseteq 1..Len(qn_nodes),
           D \subseteq 1..Len(qn_nodes), Walked(V, D), NEW n, n \in D
    PROVE  /\ Walked(V \cup {n}, (D \ {n}) \cup Below(n))
           /\ Below(n) \subseteq 1..Len(qn_nodes) /\ Below(n) \cap (V \cup D) = {}
           /\ qn_nodes[n].type \in QN!Freed /\ qn_nodes[n].l # 0 => qn_nodes[n].l # qn_nodes[n].r
<1>0. PICK B : B = Below(n)
    OBVIOUS
<1>1. PICK m \in Nat : m = Len(qn_nodes)
    BY LenProperties
<1>2. \A k \in B : qn_nodes[n].type \in QN!Freed /\ k # 0 /\ \E a \in Sides : Side(qn_nodes[n], a) = k
    BY <1>0 DEF Side, Sides, Below
<1>3. \A k \in B : k \in (n + 1)..m /\ k \in 1..m /\ k # 1 /\ k # n
    <2> SUFFICES ASSUME NEW k \in B PROVE k \in (n + 1)..m /\ k \in 1..m /\ k # 1 /\ k # n
        OBVIOUS
    <2>0. PICK a \in Sides : Side(qn_nodes[n], a) = k /\ k # 0
        BY <1>2
    <2>1. k \in (n + 1)..m
        BY <1>1, <2>0 DEF Tree
    <2> QED
        BY <1>1, <2>1
<1>4. ASSUME NEW k \in B, k \in V \cup D PROVE FALSE
    <2>1. PICK j \in V, b \in Sides : Side(qn_nodes[j], b) = k
        BY <1>3, <1>4 DEF Walked
    <2>2. PICK a \in Sides : Side(qn_nodes[n], a) = k
        BY <1>2
    <2>3. n = j
        BY <1>2, <2>1, <2>2 DEF Tree
    <2> QED
        BY <2>1, <2>3 DEF Walked
<1>5. ASSUME qn_nodes[n].type \in QN!Freed, qn_nodes[n].l # 0 PROVE qn_nodes[n].l # qn_nodes[n].r
    <2>1. /\ Side(qn_nodes[n], "l") = qn_nodes[n].l /\ Side(qn_nodes[n], "r") = qn_nodes[n].r
          /\ "l" \in Sides /\ "r" \in Sides /\ "l" # "r"
        BY DEF Side, Sides
    <2> QED
        BY <1>5, <2>1 DEF Tree
<1>6. ASSUME NEW k \in V \cup {n}, NEW a \in Sides, qn_nodes[k].type \in QN!Freed, Side(qn_nodes[k], a) # 0
      PROVE  Side(qn_nodes[k], a) \in (V \cup {n}) \cup ((D \ {n}) \cup B)
    <2>1. CASE k = n
        BY <1>0, <1>6, <2>1 DEF Side, Below
    <2>2. CASE k \in V
        BY <1>6, <2>2 DEF Walked
    <2> QED
        BY <2>1, <2>2
<1>7. ASSUME NEW k \in (V \cup {n}) \cup ((D \ {n}) \cup B)
      PROVE  k = 1 \/ \E j \in V \cup {n}, a \in Sides :
                         qn_nodes[j].type \in QN!Freed /\ Side(qn_nodes[j], a) = k
    <2>1. CASE k \in B
        BY <1>2, <2>1
    <2>2. CASE k \in V \cup D
        BY <2>2 DEF Walked
    <2> QED
        BY <2>1, <2>2
<1>8. (V \cup {n}) \cap ((D \ {n}) \cup B) = {}
    <2>1. V \cap D = {}
        BY DEF Walked
    <2>2. \A k \in B : k # n /\ k \notin V
        BY <1>3, <1>4
    <2> QED
        BY ONLY <2>1, <2>2
<1>9. qn_nodes # << >> => 1 \in (V \cup {n}) \cup ((D \ {n}) \cup B)
    BY DEF Walked
<1>10. Walked(V \cup {n}, (D \ {n}) \cup B)
    BY ONLY <1>6, <1>7, <1>8, <1>9 DEF Walked
<1> QED
    BY <1>0, <1>1, <1>3, <1>4, <1>5, <1>10

-----------------------------------------------------------------------------
(* The nodes of a query: the steps                                         *)

LEMMA NodeIs ==
    ASSUME NEW value \in Arrays
    PROVE  /\ QN!NodeOf(value) \in Node /\ QN!NodeOf(value).l = 0 /\ QN!NodeOf(value).r = 0
           /\ QN!HasBranches(value) => QN!NodeOf(value).type \in QN!Binary \cup QN!Proximity
<1> DEFINE kind == IF QN!IsTyped(value) THEN value.type ELSE "NULL"
           words == IF kind = "KEYLIST" THEN QN!Words(value) ELSE 0
           numparm == CASE kind \in QN!Leaf \cup QN!Proximity /\ QN!LongAt(value, 1)
                             -> value.args[1].n
                        [] kind = "LAST" /\ ~QN!LongAt(value, 1) -> QN!DEFAULTLAST
                        [] kind \in QN!Proximity /\ ~QN!LongAt(value, 1) -> 12
                        [] OTHER -> 0
           nleaf == IF kind \in QN!Leaf THEN 1 ELSE 0
<1>1. ASSUME QN!IsTyped(value)
      PROVE  /\ value.args \in Seq(Arrays) /\ Len(value.args) \in Nat
             /\ DOMAIN value.args = 1..Len(value.args)
    <2>1. value.args \in Seq(Arrays)
        BY <1>1, ArraysAssumption DEF QN!IsTyped, QN!ArraysOK
    <2> QED
        BY <2>1, LenProperties
<1>2. QN!IsTyped(value) => QN!Words(value) \in Nat
    <2> SUFFICES ASSUME QN!IsTyped(value) PROVE QN!Words(value) \in Nat
        OBVIOUS
    <2> DEFINE S == {i \in DOMAIN value.args : \A j \in 1..i : value.args[j].is = "string"}
    <2>1. S \subseteq 1..Len(value.args) /\ Len(value.args) \in Nat
        BY <1>1
    <2>2. IsFiniteSet(1..Len(value.args))
        BY <2>1, FS_Interval
    <2> HIDE DEF S
    <2>3. Cardinality(S) \in Nat
        BY <2>1, <2>2, FS_Subset, FS_CardinalityType
    <2> QED
        BY <2>3 DEF QN!Words, QN!Cardinality, Cardinality, S
<1>3. kind \in {v.type : v \in Arrays} \cup {"NULL"}
    OBVIOUS
<1>4. words \in Nat
    BY <1>2
<1>5. numparm \in {v.n : v \in Arrays} \cup Nat
    <2>1. CASE kind \in QN!Leaf \cup QN!Proximity /\ QN!LongAt(value, 1)
        <3>1. QN!IsTyped(value)
            BY <2>1 DEF QN!Leaf, QN!Proximity
        <3>2. value.args[1] \in Arrays
            BY <1>1, <2>1, <3>1 DEF QN!LongAt
        <3>3. numparm = value.args[1].n
            <4> HIDE DEF kind
            <4> QED
                BY <2>1
        <3> QED
            BY <3>2, <3>3
    <2>2. CASE ~(kind \in QN!Leaf \cup QN!Proximity /\ QN!LongAt(value, 1))
        <3> HIDE DEF kind
        <3> QED
            BY <2>2 DEF QN!DEFAULTLAST
    <2> QED
        BY <2>1, <2>2
<1>6. nleaf \in Nat
    OBVIOUS
<1>7. QN!NodeOf(value) = [type |-> kind, words |-> words, numparm |-> numparm, nleaf |-> nleaf,
                       l |-> 0, r |-> 0]
    BY DEF QN!NodeOf
<1>8. QN!HasBranches(value) => kind \in QN!Binary \cup QN!Proximity
    BY DEF QN!HasBranches
<1> HIDE DEF kind, words, numparm, nleaf
<1> QED
    BY <1>3, <1>4, <1>5, <1>6, <1>7, <1>8 DEF Node

LEMMA FallingTail ==
    ASSUME NEW q \in Seq(Call), q # << >>, Falling(q)
    PROVE  Falling(Tail(q)) /\ \A y \in Elems(Tail(q)) : Rank(y) < Rank(Head(q))
<1>1. PICK n \in Nat, t \in Seq(Call) : n = Len(t) /\ t = Tail(q)
    BY TailElems
<1>2. /\ Len(q) = n + 1 /\ Head(q) = q[1]
      /\ \A i \in 1..n : i + 1 \in 1..(n + 1) /\ t[i] = q[i + 1]
    BY <1>1, TailElems
<1>3. ASSUME NEW i \in 1..n, NEW j \in 1..n, i < j PROVE Rank(t[j]) < Rank(t[i])
    <2>1. i + 1 < j + 1
        BY <1>3
    <2> QED
        BY <1>2, <2>1 DEF Falling
<1>4. ASSUME NEW i \in 1..n PROVE Rank(t[i]) < Rank(q[1])
    <2>1. 1 \in 1..(n + 1) /\ 1 < i + 1
        OBVIOUS
    <2> QED
        BY <1>2, <2>1 DEF Falling
<1> QED
    BY <1>1, <1>2, <1>3, <1>4 DEF Falling, Elems

LEMMA FallingPushed ==
    ASSUME NEW t \in Seq(Call), Falling(t), NEW n \in Nat, \A c \in Elems(t) : c.node < n,
           NEW v \in Arrays, NEW w \in Arrays
    PROVE  Falling(<<QN!Build(v, n, "l"), QN!Build(w, n, "r"), QN!Join(n)>> \o t)
<1> DEFINE a == QN!Build(v, n, "l")
           b == QN!Build(w, n, "r")
           c == QN!Join(n)
<1>1. a \in Call /\ b \in Call /\ c \in Call
    BY DEF Call, QN!Build, QN!Join, Sides
<1>2. Rank(a) = 3 * n + 2 /\ Rank(b) = 3 * n + 1 /\ Rank(c) = 3 * n
    BY DEF Rank, QN!Build, QN!Join
<1> HIDE DEF a, b, c
<1>3. PICK m \in Nat, u \in Seq(Call) : m = Len(t) /\ u = <<a, b, c>> \o t
    BY <1>1, Pushed
<1>4. /\ Len(u) = m + 3 /\ u[1] = a /\ u[2] = b /\ u[3] = c
      /\ \A i \in 1..m : u[i + 3] = t[i]
    BY <1>1, <1>3, Pushed
<1>5. ASSUME NEW i \in 1..m PROVE Rank(t[i]) \in Int /\ Rank(t[i]) < 3 * n
    <2>0. t[i] \in Call /\ t[i] \in Elems(t)
        BY <1>3 DEF Elems
    <2>1. t[i] \in Call /\ t[i].node < n
        BY <2>0
    <2>2. t[i].node \in Nat
        BY <2>1 DEF Call
    <2> QED
        BY <2>1, <2>2, SMTT(30) DEF Rank
<1> DEFINE At(i) == \/ i = 1 /\ Rank(u[i]) = 3 * n + 2
                    \/ i = 2 /\ Rank(u[i]) = 3 * n + 1
                    \/ i = 3 /\ Rank(u[i]) = 3 * n
                    \/ \E k \in 1..m : i = k + 3 /\ Rank(u[i]) = Rank(t[k])
<1>6. ASSUME NEW i \in 1..(m + 3) PROVE At(i)
    <2>1. CASE i <= 3
        <3>1. i = 1 \/ i = 2 \/ i = 3
            BY <2>1
        <3> QED
            BY <1>2, <1>4, <3>1
    <2>2. CASE i > 3
        <3>1. i - 3 \in 1..m /\ i = (i - 3) + 3
            BY <2>2
        <3>2. u[i] = t[i - 3]
            BY <1>4, <3>1
        <3> QED
            BY <3>1, <3>2
    <2>3. i <= 3 \/ i > 3
        OBVIOUS
    <2> QED
        BY ONLY <2>1, <2>2, <2>3
<1>7. \A k, l \in 1..m : k < l => Rank(t[l]) < Rank(t[k])
    BY <1>3 DEF Falling
<1>8. ASSUME NEW i \in 1..(m + 3), NEW j \in 1..(m + 3), i < j PROVE Rank(u[j]) < Rank(u[i])
    <2>1. At(i) /\ At(j)
        BY <1>6
    <2>2. \A k \in 1..m : Rank(t[k]) \in Int /\ Rank(t[k]) < 3 * n
        BY <1>5
    <2>3. ASSUME NEW k \in 1..m, j = k + 3, Rank(u[j]) = Rank(t[k]) PROVE Rank(u[j]) < Rank(u[i])
        <3>1. CASE i \in 1..3
            <4>1. Rank(u[i]) = 3 * n + 2 \/ Rank(u[i]) = 3 * n + 1 \/ Rank(u[i]) = 3 * n
                BY ONLY <2>1, <3>1, m \in Nat
            <4>2. Rank(t[k]) \in Int /\ Rank(t[k]) < 3 * n
                BY ONLY <2>2, k \in 1..m
            <4> QED
                BY ONLY <2>3, <4>1, <4>2, n \in Nat
        <3>2. CASE i \notin 1..3
            <4>1. PICK l \in 1..m : i = l + 3 /\ Rank(u[i]) = Rank(t[l])
                BY ONLY <2>1, <3>2
            <4>2. l < k
                BY ONLY <1>8, <2>3, <4>1, k \in 1..m, l \in 1..m, m \in Nat
            <4> QED
                BY ONLY <1>7, <2>3, <4>1, <4>2, k \in 1..m, l \in 1..m
        <3> QED
            BY <3>1, <3>2
    <2>4. CASE j \in 1..3
        <3>1. i \in 1..3 /\ i < j
            BY <1>8, <2>4
        <3> QED
            BY ONLY <2>1, <2>4, <3>1, m \in Nat, n \in Nat
    <2>5. j \in 1..3 \/ \E k \in 1..m : j = k + 3 /\ Rank(u[j]) = Rank(t[k])
        BY <2>1
    <2> QED
        BY <2>3, <2>4, <2>5
<1>9. Falling(u)
    BY <1>4, <1>8 DEF Falling
<1> QED
    BY <1>3, <1>9 DEF a, b, c

\* The first node.
LEMMA SoundFirst ==
    ASSUME NEW x \in Node, x.l = 0, x.r = 0, NEW P \in SUBSET Call, qn_array \in Arrays,
           ~QN!IsUnknown(qn_array),
           \/ P = {} /\ QN!Branches(qn_array) = {}
           \/ /\ x.type \in QN!Binary \cup QN!Proximity
              /\ \E w1, w2 \in QN!Branches(qn_array) :
                    /\ P = {QN!Build(w1, 1, "l"), QN!Build(w2, 1, "r"), QN!Join(1)}
                    /\ QN!Branches(qn_array) \subseteq {w1, w2}
    PROVE  Tree(<<x>>) /\ Sound(qn_array, P, <<x>>)
<1>1. PICK t \in Seq(Node) : t = <<x>>
    <2>1. PICK X : X = Node
        OBVIOUS
    <2>2. <<x>> \in Seq(X)
        BY ONLY <2>1, x \in Node
    <2> QED
        BY <2>1, <2>2
<1>2. Len(t) = 1 /\ t[1] = x
    BY <1>1
<1>3. \A b \in Sides : Side(x, b) = 0
    BY DEF Side
<1>4. \A k \in 1..1 : t[k] = x /\ k = 1
    BY <1>2
<1>5. Tree(t)
    <2>1. \A k \in 2..1 : FALSE
        OBVIOUS
    <2> QED
        BY <1>2, <1>3, <1>4, <2>1 DEF Tree
<1>6. Path(qn_array, qn_array, 0)
    <2>1. PICK p \in [0..0 -> Arrays] : p[0] = qn_array
        <3>1. [i \in 0..0 |-> qn_array] \in [0..0 -> Arrays]
            OBVIOUS
        <3>2. 0 \in 0..0
            OBVIOUS
        <3>3. [i \in 0..0 |-> qn_array][0] = qn_array
            BY <3>2
        <3> QED
            BY <3>1, <3>3
    <2>2. \A i \in 1..0 : FALSE
        OBVIOUS
    <2> QED
        BY <2>1, <2>2 DEF Path
<1>7. ASSUME NEW c \in P
      PROVE  /\ c.node = 1 /\ Joined(P, 1)
             /\ c.do = "join" => \A b \in Sides : Pending(P, 1, b)
             /\ c.do = "build" => /\ x.type \in QN!Binary \cup QN!Proximity
                                  /\ Path(qn_array, c.value, 1)
    <2>1. PICK w1 \in QN!Branches(qn_array), w2 \in QN!Branches(qn_array) :
              P = {QN!Build(w1, 1, "l"), QN!Build(w2, 1, "r"), QN!Join(1)}
        OBVIOUS
    <2>2. Path(qn_array, w1, 1) /\ Path(qn_array, w2, 1)
        <3>1. 0 \in Nat /\ 0 + 1 = 1
            OBVIOUS
        <3> QED
            BY <1>6, <3>1, PathStep
    <2>3. Joined(P, 1)
        BY <2>1 DEF Joined, QN!Join
    <2>4. Pending(P, 1, "l") /\ Pending(P, 1, "r")
        BY <2>1 DEF Pending, QN!Build
    <2>5. x.type \in QN!Binary \cup QN!Proximity
        BY <1>7
    <2>6. c = QN!Build(w1, 1, "l") \/ c = QN!Build(w2, 1, "r") \/ c = QN!Join(1)
        BY <2>1
    <2> QED
        BY <2>2, <2>3, <2>4, <2>5, <2>6 DEF QN!Build, QN!Join, Sides
<1>8. ASSUME NEW c \in P, c.do = "build"
      PROVE  /\ Side(t[c.node], c.side) = 0
             /\ t[c.node].type \in QN!Binary \cup QN!Proximity
             /\ Joined(P, c.node)
             /\ \E e \in 1..c.node : Path(qn_array, c.value, e)
    <2>1. c.side \in Sides
        BY <1>8 DEF Call
    <2>2. 1 \in 1..1
        OBVIOUS
    <2> QED
        BY <1>2, <1>3, <1>7, <1>8, <2>1, <2>2
<1>9. Seen(qn_array, {qn_array}, P, t)
    <2>1. ASSUME NEW w \in QN!Branches(qn_array) PROVE \E c \in P : c.do = "build" /\ c.value = w
        <3>1. PICK w1 \in QN!Branches(qn_array), w2 \in QN!Branches(qn_array) :
                  /\ P = {QN!Build(w1, 1, "l"), QN!Build(w2, 1, "r"), QN!Join(1)}
                  /\ w \in {w1, w2}
            BY <2>1
        <3> QED
            BY <3>1 DEF QN!Build
    <2> QED
        BY <2>1 DEF Seen
<1>10. {qn_array} \in SUBSET Arrays
    OBVIOUS
<1>11. Sound(qn_array, P, t)
    BY <1>2, <1>7, <1>8, <1>9, <1>10 DEF Sound
<1> QED
    BY <1>1, <1>5, <1>11

LEMMA TreeSame ==
    ASSUME NEW t, Tree(t), NEW u, Len(u) = Len(t),
           \A k \in 1..Len(t) : u[k].type = t[k].type /\ u[k].l = t[k].l /\ u[k].r = t[k].r
    PROVE  Tree(u)
<1>1. \A k \in 1..Len(t), b \in Sides : Side(u[k], b) = Side(t[k], b)
    BY DEF Side
<1>2. \A k \in 2..Len(t) : \E m \in 1..Len(t), a \in Sides : Side(u[m], a) = k
    BY <1>1 DEF Tree
<1>3. \A k \in 1..Len(t), a \in Sides :
          Side(u[k], a) # 0 => /\ Side(u[k], a) \in (k + 1)..Len(t)
                               /\ u[k].type \in QN!Binary \cup QN!Proximity
    BY <1>1 DEF Tree
<1>4. \A k, m \in 1..Len(t), a, b \in Sides :
          Side(u[k], a) # 0 /\ Side(u[k], a) = Side(u[m], b) => k = m /\ a = b
    BY <1>1 DEF Tree
<1> QED
    BY <1>2, <1>3, <1>4 DEF Tree

-----------------------------------------------------------------------------
(* The nodes of a query: the invariant                                     *)

Growing ==
    /\ qn_nodes # << >> /\ Tree(qn_nodes)
    /\ qn_root = 1
    /\ qn_todo \in Seq(Call) /\ Falling(qn_todo)
    /\ Sound(qn_array, Elems(qn_todo), qn_nodes)

\* What TreeGivenBack calls Fatal.
Deadly == Strange(qn_array, Len(qn_nodes)) \/ (QN!IsUnknown(qn_array) /\ ~qn_noCache)

NodesInv ==
    /\ qn_array \in Arrays /\ qn_nodes \in Seq(Node)
    /\ qn_pc \in {"build", "segfault", "free", "done"}
    /\ qn_pc = "build" =>
          /\ qn_freed = << >>
          /\ \/ qn_todo = <<QN!Build(qn_array, 0, "l")>> /\ qn_nodes = << >> /\ qn_root = 0
             \/ qn_todo = << >> /\ qn_nodes = << >> /\ qn_root = 0 /\ QN!IsUnknown(qn_array)
             \/ Growing /\ ~QN!IsUnknown(qn_array)
    /\ qn_pc = "segfault" => qn_freed = << >> /\ Deadly
    /\ qn_pc \in {"free", "done"} => Tree(qn_nodes) /\ ~Deadly /\ Freeing
    /\ qn_pc = "done" => qn_todo = << >>

LEMMA InitNodes == QN!Init => NodesInv
<1>1. << >> \in Seq(Node)
    BY EmptySeq
<1> QED
    BY <1>1 DEF QN!Init, NodesInv

\* The first call.
LEMMA FirstNodes ==
    ASSUME NodesInv, QN!Qtree2tree, qn_todo = <<QN!Build(qn_array, 0, "l")>>, qn_nodes = << >>, qn_root = 0
    PROVE  NodesInv'
<1>1. PICK call : call = QN!Build(qn_array, 0, "l") /\ call.value = qn_array /\ call.node = 0
    BY DEF QN!Build
<1>2. Head(qn_todo) = call /\ Tail(qn_todo) = << >> /\ Len(qn_nodes) = 0
    BY <1>1
<1>3. /\ qn_array \in Arrays /\ qn_array' = qn_array /\ qn_pc' = "build" /\ qn_freed' = << >>
      /\ qn_pc = "build"
    BY DEF NodesInv, QN!Qtree2tree
<1>8. QN!IsUnknown(qn_array)' <=> QN!IsUnknown(qn_array)
    BY <1>3 DEF QN!IsUnknown, QN!IsTyped
<1>4. CASE QN!IsUnknown(qn_array)
    <2>1. ~QN!HasBranches(qn_array)
        BY <1>4 DEF QN!HasBranches, QN!IsUnknown
    <2>2. qn_nodes' = << >> /\ qn_root' = 0 /\ qn_todo' = << >>
        BY <1>1, <1>2, <1>4, <2>1 DEF QN!Qtree2tree
    <2>3. << >> \in Seq(Node)
        BY EmptySeq
    <2> QED
        BY <1>3, <1>4, <1>8, <2>2, <2>3 DEF NodesInv
<1>5. CASE ~QN!IsUnknown(qn_array)
    <2>1. PICK x \in Node : /\ x = QN!NodeOf(qn_array) /\ x.l = 0 /\ x.r = 0
                            /\ QN!HasBranches(qn_array) => x.type \in QN!Binary \cup QN!Proximity
        BY <1>3, NodeIs
    <2>2. qn_nodes' = Append(qn_nodes, x) /\ qn_root' = 1
        BY <1>1, <1>2, <1>5, <2>1 DEF QN!Qtree2tree, QN!Hang
    <2>3. qn_nodes' = <<x>>
        BY <2>2
    <2>4. qn_nodes' \in Seq(Node) /\ qn_nodes' # << >>
        <3>1. << >> \in Seq(Node)
            BY EmptySeq
        <3>2. Append(qn_nodes, x) \in Seq(Node) /\ Len(Append(qn_nodes, x)) = 1
            BY <1>2, <3>1, AppendProperties
        <3> QED
            BY <2>2, <3>2
    <2>5. CASE QN!HasBranches(qn_array)
        <3>1. PICK w1 \in QN!Branches(qn_array), w2 \in QN!Branches(qn_array) :
                  /\ w1 = qn_array.args[QN!FirstBranch(qn_array)]
                  /\ w2 = qn_array.args[QN!FirstBranch(qn_array) + 1]
                  /\ QN!Branches(qn_array) \subseteq {w1, w2}
                  /\ w1 \in Arrays /\ w2 \in Arrays
            BY <1>3, <2>5, BranchesAre
        <3>2. PICK a \in Call, b \in Call, c \in Call :
                  a = QN!Build(w1, 1, "l") /\ b = QN!Build(w2, 1, "r") /\ c = QN!Join(1)
            BY <3>1 DEF Call, QN!Build, QN!Join, Sides
        <3>3. qn_todo' = <<a, b, c>> \o << >>
            <4>1. Len(qn_nodes) + 1 = 1
                BY <1>2
            <4>2. qn_todo' = <<QN!Build(w1, 1, "l"), QN!Build(w2, 1, "r"), QN!Join(1)>> \o << >>
                BY <1>1, <1>2, <1>5, <2>5, <3>1, <4>1 DEF QN!Qtree2tree
            <4> QED
                BY <3>2, <4>2
        <3>4. << >> \in Seq(Call) /\ Falling(<< >>) /\ Elems(<< >>) = {}
            BY EmptySeq DEF Falling, Elems
        <3>5. qn_todo' \in Seq(Call) /\ Elems(qn_todo') = {a, b, c}
            <4>1. PICK e \in Seq(Call) : e = << >> /\ Elems(e) = {}
                BY <3>4
            <4>2. <<a, b, c>> \o e \in Seq(Call) /\ Elems(<<a, b, c>> \o e) = {a, b, c} \cup Elems(e)
                BY Pushed
            <4> QED
                BY <3>3, <4>1, <4>2
        <3>6. Falling(qn_todo')
            BY <3>1, <3>2, <3>3, <3>4, FallingPushed
        <3>7. Tree(<<x>>) /\ Sound(qn_array, {a, b, c}, <<x>>)
            <4>1. {a, b, c} \in SUBSET Call
                OBVIOUS
            <4>2. {a, b, c} = {QN!Build(w1, 1, "l"), QN!Build(w2, 1, "r"), QN!Join(1)}
                BY <3>2
            <4>3. \E u1, u2 \in QN!Branches(qn_array) :
                      /\ {a, b, c} = {QN!Build(u1, 1, "l"), QN!Build(u2, 1, "r"), QN!Join(1)}
                      /\ QN!Branches(qn_array) \subseteq {u1, u2}
                BY <3>1, <4>2
            <4>4. x.l = 0 /\ x.r = 0 /\ x.type \in QN!Binary \cup QN!Proximity
                BY <2>1, <2>5
            <4> QED
                BY ONLY <1>3, <1>5, x \in Node, <4>1, <4>3, <4>4, SoundFirst
        <3>8. Growing'
            BY <1>3, <2>2, <2>3, <2>4, <3>5, <3>6, <3>7 DEF Growing
        <3> QED
            BY <1>3, <1>5, <1>8, <2>4, <3>8 DEF NodesInv
    <2>6. CASE ~QN!HasBranches(qn_array)
        <3>1. qn_todo' = << >>
            BY <1>1, <1>2, <2>6 DEF QN!Qtree2tree
        <3>2. << >> \in Seq(Call) /\ Falling(<< >>) /\ Elems(<< >>) = {}
            BY EmptySeq DEF Falling, Elems
        <3>3. Tree(<<x>>) /\ Sound(qn_array, {}, <<x>>)
            <4>1. QN!Branches(qn_array) = {}
                BY <2>6 DEF QN!Branches
            <4>2. x.l = 0 /\ x.r = 0 /\ {} \in SUBSET Call
                BY <2>1
            <4> QED
                BY ONLY <1>3, <1>5, x \in Node, <4>1, <4>2, SoundFirst
        <3>4. Growing'
            BY <1>3, <2>2, <2>3, <2>4, <3>1, <3>2, <3>3 DEF Growing
        <3> QED
            BY <1>3, <1>5, <1>8, <2>4, <3>4 DEF NodesInv
    <2> QED
        BY <2>5, <2>6
<1> QED
    BY <1>4, <1>5

\* A call for a branch.
LEMMA BranchNodes ==
    ASSUME NodesInv, QN!Qtree2tree, Growing, ~QN!IsUnknown(qn_array)
    PROVE  NodesInv'
<1>1. /\ qn_array \in Arrays /\ qn_array' = qn_array /\ qn_pc' = "build" /\ qn_freed' = << >>
      /\ qn_pc = "build" /\ qn_nodes \in Seq(Node) /\ qn_todo # << >>
    BY DEF NodesInv, QN!Qtree2tree
<1>9. ~QN!IsUnknown(qn_array)'
    BY <1>1 DEF QN!IsUnknown, QN!IsTyped
<1>2. PICK n \in Nat : n = Len(qn_nodes)
    BY <1>1, LenProperties
<1>3. PICK call \in Call, t \in Seq(Call) :
          call = Head(qn_todo) /\ t = Tail(qn_todo) /\ call.do = "build" /\ Elems(qn_todo) = {call} \cup Elems(t)
    <2>1. qn_todo \in Seq(Call) /\ qn_todo # << >> /\ Head(qn_todo).do = "build"
        BY <1>1 DEF Growing, QN!Qtree2tree
    <2>2. /\ Head(qn_todo) \in Call /\ Tail(qn_todo) \in Seq(Call)
          /\ Elems(qn_todo) = {Head(qn_todo)} \cup Elems(Tail(qn_todo))
        BY <2>1, TailElems
    <2> QED
        BY <2>1, <2>2
<1>4. /\ Tree(qn_nodes) /\ qn_root = 1 /\ Sound(qn_array, {call} \cup Elems(t), qn_nodes)
      /\ Falling(t) /\ \A y \in Elems(t) : Rank(y) < Rank(call)
    BY <1>1, <1>3, FallingTail DEF Growing
<1>5. PICK p \in 1..n, a \in Sides, v \in Arrays :
          /\ p = call.node /\ a = call.side /\ v = call.value
          /\ Side(qn_nodes[p], a) = 0 /\ qn_nodes[p].type \in QN!Binary \cup QN!Proximity
    <2>1. call.value \in Arrays /\ call.side \in Sides
        BY <1>3 DEF Call
    <2> QED
        BY <1>2, <1>3, <1>4, <2>1 DEF Sound
<1>6. p # 0 /\ qn_root' = 1
    <2>1. p # 0
        OBVIOUS
    <2> QED
        BY <1>3, <1>4, <1>5, <2>1 DEF QN!Qtree2tree
<1>7. CASE QN!IsUnknown(v)
    <2>1. ~QN!HasBranches(v)
        BY <1>7 DEF QN!HasBranches, QN!IsUnknown
    <2>2. qn_nodes' = qn_nodes /\ qn_todo' = t
        BY <1>3, <1>5, <1>7, <2>1 DEF QN!Qtree2tree
    <2>3. Sound(qn_array, Elems(t), qn_nodes)
        <3>1. qn_nodes \in Seq(Node) /\ call.do = "build" /\ QN!IsUnknown(call.value)
            BY <1>1, <1>3, <1>5, <1>7
        <3>2. Sound(qn_array, {call} \cup Elems(t), qn_nodes) /\ \A y \in Elems(t) : Rank(y) < Rank(call)
            BY <1>4
        <3> QED
            BY ONLY <3>1, <3>2, call \in Call, SoundUnknown
    <2>4. Growing'
        BY <1>1, <1>4, <1>6, <2>2, <2>3 DEF Growing
    <2> QED
        BY <1>1, <1>9, <2>2, <2>4 DEF NodesInv
<1>8. CASE ~QN!IsUnknown(v)
    <2>1. PICK x \in Node : /\ x = QN!NodeOf(v) /\ x.l = 0 /\ x.r = 0
                            /\ QN!HasBranches(v) => x.type \in QN!Binary \cup QN!Proximity
        BY NodeIs
    <2>2. qn_nodes' = QN!Hang(Append(qn_nodes, x), call, n + 1)
        <3>1. n + 1 # 0
            OBVIOUS
        <3> QED
            BY <1>2, <1>3, <1>5, <1>8, <2>1, <3>1 DEF QN!Qtree2tree
    <2>3. Grown(qn_nodes', qn_nodes, p, a, x)
        BY <1>1, <1>2, <1>5, <2>2, HangGrows
    <2>4. qn_nodes' \in Seq(Node) /\ Len(qn_nodes') = n + 1 /\ qn_nodes' # << >>
        BY <1>2, <2>3 DEF Grown
    <2>5. Tree(qn_nodes')
        BY <1>1, <1>2, <1>4, <1>5, <2>1, <2>3, TreeGrows
    <2>8. /\ qn_nodes \in Seq(Node) /\ call.do = "build" /\ ~QN!IsUnknown(call.value)
          /\ Sound(qn_array, {call} \cup Elems(t), qn_nodes) /\ \A y \in Elems(t) : Rank(y) < Rank(call)
          /\ Grown(qn_nodes', qn_nodes, call.node, call.side, x)
        BY <1>1, <1>3, <1>4, <1>5, <1>8, <2>3
    <2>6. CASE QN!HasBranches(v)
        <3>1. PICK w1 \in QN!Branches(v), w2 \in QN!Branches(v) :
                  /\ w1 = v.args[QN!FirstBranch(v)]
                  /\ w2 = v.args[QN!FirstBranch(v) + 1]
                  /\ QN!Branches(v) \subseteq {w1, w2}
                  /\ w1 \in Arrays /\ w2 \in Arrays
            BY <2>6, BranchesAre
        <3>2. PICK b \in Call, c \in Call, d \in Call :
                  b = QN!Build(w1, n + 1, "l") /\ c = QN!Build(w2, n + 1, "r") /\ d = QN!Join(n + 1)
            <4>1. PICK k \in Nat : k = n + 1
                OBVIOUS
            <4>2. QN!Build(w1, k, "l") \in Call /\ QN!Build(w2, k, "r") \in Call /\ QN!Join(k) \in Call
                BY <3>1 DEF Call, QN!Build, QN!Join, Sides
            <4> QED
                BY <4>1, <4>2
        <3>3. qn_todo' = <<b, c, d>> \o t
            BY <1>2, <1>3, <1>5, <1>8, <2>6, <3>1, <3>2, Zenon DEF QN!Qtree2tree
        <3>4. qn_todo' \in Seq(Call) /\ Elems(qn_todo') = {b, c, d} \cup Elems(t)
            BY <3>3, Pushed
        <3>5. Falling(qn_todo')
            <4>1. \A e \in Elems(t) : e.node < n + 1
                BY <1>2, <1>4 DEF Sound
            <4>2. n + 1 \in Nat
                OBVIOUS
            <4> QED
                BY <1>4, <3>1, <3>2, <3>3, <4>1, <4>2, FallingPushed
        <3>6. Sound(qn_array, {b, c, d} \cup Elems(t), qn_nodes')
            <4>1. {b, c, d} \in SUBSET Call
                OBVIOUS
            <4>2. {b, c, d} = {QN!Build(w1, n + 1, "l"), QN!Build(w2, n + 1, "r"), QN!Join(n + 1)}
                BY <3>2
            <4>3. \E u1, u2 \in QN!Branches(v) :
                      /\ {b, c, d} = {QN!Build(u1, n + 1, "l"), QN!Build(u2, n + 1, "r"), QN!Join(n + 1)}
                      /\ QN!Branches(v) \subseteq {u1, u2}
                BY <3>1, <4>2
            <4>4. \E u1, u2 \in QN!Branches(call.value) :
                      /\ {b, c, d} = {QN!Build(u1, Len(qn_nodes) + 1, "l"), QN!Build(u2, Len(qn_nodes) + 1, "r"),
                                      QN!Join(Len(qn_nodes) + 1)}
                      /\ QN!Branches(call.value) \subseteq {u1, u2}
                BY <1>2, <1>5, <4>3
            <4>5. x.l = 0 /\ x.r = 0 /\ x.type \in QN!Binary \cup QN!Proximity
                BY <2>1, <2>6
            <4> QED
                BY ONLY <2>8, <4>1, <4>4, <4>5, x \in Node, call \in Call, SoundMade
        <3>7. Growing'
            BY <1>1, <1>6, <2>4, <2>5, <3>4, <3>5, <3>6 DEF Growing
        <3> QED
            BY <1>1, <1>9, <2>4, <3>7 DEF NodesInv
    <2>7. CASE ~QN!HasBranches(v)
        <3>1. qn_todo' = t
            BY <1>3, <1>5, <2>7 DEF QN!Qtree2tree
        <3>2. QN!Branches(v) = {} /\ {} \in SUBSET Call
            BY <2>7 DEF QN!Branches
        <3>3. Sound(qn_array, {} \cup Elems(t), qn_nodes')
            <4>1. x.l = 0 /\ x.r = 0 /\ QN!Branches(call.value) = {}
                BY <1>5, <2>1, <3>2
            <4> QED
                BY ONLY <2>8, <3>2, <4>1, x \in Node, call \in Call, SoundMade
        <3>4. {} \cup Elems(t) = Elems(t)
            OBVIOUS
        <3>5. Growing'
            BY <1>1, <1>4, <1>6, <2>4, <2>5, <3>1, <3>3, <3>4 DEF Growing
        <3> QED
            BY <1>1, <1>9, <2>4, <3>5 DEF NodesInv
    <2> QED
        BY <2>6, <2>7
<1> QED
    BY <1>7, <1>8

LEMMA Qtree2treeNodes == NodesInv /\ QN!Qtree2tree => NodesInv'
<1> SUFFICES ASSUME NodesInv, QN!Qtree2tree PROVE NodesInv'
    OBVIOUS
<1>1. \/ qn_todo = <<QN!Build(qn_array, 0, "l")>> /\ qn_nodes = << >> /\ qn_root = 0
      \/ Growing /\ ~QN!IsUnknown(qn_array)
    BY DEF NodesInv, QN!Qtree2tree
<1> QED
    BY <1>1, FirstNodes, BranchNodes

LEMMA AddLeavesNodes == NodesInv /\ QN!AddLeaves => NodesInv'
<1> SUFFICES ASSUME NodesInv, QN!AddLeaves PROVE NodesInv'
    OBVIOUS
<1>1. /\ qn_array \in Arrays /\ qn_array' = qn_array /\ qn_freed' = << >> /\ qn_root' = qn_root
      /\ qn_pc = "build" /\ qn_nodes \in Seq(Node) /\ qn_todo # << >> /\ Head(qn_todo).do = "join"
    BY DEF NodesInv, QN!AddLeaves
<1>2. Growing /\ ~QN!IsUnknown(qn_array)
    <2>1. QN!Build(qn_array, 0, "l").do = "build"
        BY DEF QN!Build
    <2> QED
        BY <1>1, <2>1 DEF NodesInv
<1>10. ~QN!IsUnknown(qn_array)'
    BY <1>1, <1>2 DEF QN!IsUnknown, QN!IsTyped
<1>3. PICK m \in Nat : m = Len(qn_nodes)
    BY <1>1, LenProperties
<1>4. PICK call \in Call, t \in Seq(Call) :
          call = Head(qn_todo) /\ t = Tail(qn_todo) /\ call.do = "join" /\ Elems(qn_todo) = {call} \cup Elems(t)
    <2>1. qn_todo \in Seq(Call) /\ qn_todo # << >> /\ Head(qn_todo).do = "join"
        BY <1>1, <1>2 DEF Growing
    <2>2. /\ Head(qn_todo) \in Call /\ Tail(qn_todo) \in Seq(Call)
          /\ Elems(qn_todo) = {Head(qn_todo)} \cup Elems(Tail(qn_todo))
        BY <2>1, TailElems
    <2> QED
        BY <2>1, <2>2
<1>5. /\ Tree(qn_nodes) /\ qn_root = 1 /\ Sound(qn_array, {call} \cup Elems(t), qn_nodes)
      /\ Falling(t) /\ \A y \in Elems(t) : Rank(y) < Rank(call)
    BY <1>1, <1>2, <1>4, FallingTail DEF Growing
<1>6. PICK n \in 1..m : n = call.node
    <2>1. call.node \in 1..Len(qn_nodes)
        BY <1>5 DEF Sound
    <2> QED
        BY <1>3, <2>1
<1>7. qn_nodes[n] \in Node /\ qn_nodes[n].l \in Nat /\ qn_nodes[n].r \in Nat
    <2>1. qn_nodes[n] \in Node
        BY <1>1, <1>3
    <2> QED
        BY <2>1 DEF Node
<1>8. CASE qn_nodes[n].l = 0 \/ qn_nodes[n].r = 0
    <2>1. qn_pc' = "segfault" /\ qn_nodes' = qn_nodes
        BY <1>4, <1>6, <1>8 DEF QN!AddLeaves
    <2>2. PICK a \in Sides : Side(qn_nodes[n], a) = 0
        BY <1>8 DEF Side, Sides
    <2>3. Pending({call} \cup Elems(t), n, a) \/ Strange(qn_array, m)
        BY <1>3, <1>4, <1>5, <1>6, <2>2 DEF Sound
    <2>4. ~Pending({call} \cup Elems(t), n, a)
        <3>1. \A y \in Elems(t) : y \in Call
            BY <1>5 DEF Sound
        <3>2. \A y \in Elems(t) : y.do = "build" => y.node # n
            BY <1>4, <1>5, <1>6, <3>1, RankIs
        <3>3. call.do # "build"
            BY <1>4
        <3> QED
            BY <3>2, <3>3 DEF Pending
    <2>5. Strange(qn_array, Len(qn_nodes))
        BY <1>3, <2>3, <2>4
    <2>6. Deadly'
        BY <1>1, <2>1, <2>5 DEF Deadly
    <2> QED
        BY <1>1, <2>1, <2>6 DEF NodesInv
<1>9. CASE qn_nodes[n].l # 0 /\ qn_nodes[n].r # 0
    <2>1. PICK l \in 1..m, r \in 1..m : l = qn_nodes[n].l /\ r = qn_nodes[n].r
        <3>1. \A a \in Sides : Side(qn_nodes[n], a) # 0 => Side(qn_nodes[n], a) \in 1..m
            <4> SUFFICES ASSUME NEW a \in Sides, Side(qn_nodes[n], a) # 0
                         PROVE  Side(qn_nodes[n], a) \in 1..m
                OBVIOUS
            <4>1. Side(qn_nodes[n], a) \in (n + 1)..m
                BY <1>3, <1>5 DEF Tree
            <4> QED
                BY <4>1
        <3>2. "l" \in Sides /\ "r" \in Sides /\ Side(qn_nodes[n], "l") = qn_nodes[n].l
              /\ Side(qn_nodes[n], "r") = qn_nodes[n].r
            BY DEF Side, Sides
        <3> QED
            BY <1>9, <3>1, <3>2
    <2>2. PICK s \in Nat : s = qn_nodes[l].nleaf + qn_nodes[r].nleaf
        <3>1. qn_nodes[l] \in Node /\ qn_nodes[r] \in Node
            BY <1>1, <1>3
        <3>2. qn_nodes[l].nleaf \in Nat /\ qn_nodes[r].nleaf \in Nat
            BY <3>1 DEF Node
        <3> QED
            BY <3>2
    <2>3. qn_pc' = "build" /\ qn_todo' = t /\ qn_nodes' = [qn_nodes EXCEPT ![n].nleaf = s]
        BY <1>1, <1>4, <1>6, <1>9, <2>1, <2>2, Zenon DEF QN!AddLeaves
    <2>4. PICK z \in Node : /\ z = [qn_nodes[n] EXCEPT !.nleaf = s]
                            /\ z.type = qn_nodes[n].type /\ z.l = qn_nodes[n].l /\ z.r = qn_nodes[n].r
        <3>1. \A y \in Node :
                 /\ [y EXCEPT !.nleaf = s] \in Node
                 /\ [y EXCEPT !.nleaf = s].type = y.type
                 /\ [y EXCEPT !.nleaf = s].l = y.l /\ [y EXCEPT !.nleaf = s].r = y.r
            BY DEF Node
        <3> QED
            BY <1>7, <3>1
    <2>5. qn_nodes' = [qn_nodes EXCEPT ![n] = z]
        BY <2>3, <2>4
    <2>6. qn_nodes \in [1..m -> Node]
        BY <1>1, <1>3, LenProperties
    <2>7. qn_nodes' \in [1..m -> Node] /\ \A k \in 1..m : qn_nodes'[k] = IF k = n THEN z ELSE qn_nodes[k]
        BY <2>5, <2>6
    <2>8. qn_nodes' \in Seq(Node) /\ Len(qn_nodes') = m
        BY <2>7, SeqDef, LenProperties
    <2>9. \A k \in 1..m : /\ qn_nodes'[k].type = qn_nodes[k].type
                          /\ qn_nodes'[k].l = qn_nodes[k].l /\ qn_nodes'[k].r = qn_nodes[k].r
        BY <2>4, <2>7
    <2>10. Tree(qn_nodes')
        BY <1>3, <1>5, <2>8, <2>9, TreeSame
    <2>11. Sound(qn_array, Elems(t), qn_nodes')
        <3>1. qn_nodes[call.node].l # 0 /\ qn_nodes[call.node].r # 0
            BY <1>6, <1>9
        <3>2. PICK u : u = qn_nodes'
            OBVIOUS
        <3>3. /\ Len(u) = Len(qn_nodes)
              /\ \A k \in 1..Len(qn_nodes) : /\ u[k].type = qn_nodes[k].type
                                            /\ u[k].l = qn_nodes[k].l /\ u[k].r = qn_nodes[k].r
            BY <1>3, <2>8, <2>9, <3>2
        <3>4. Sound(qn_array, Elems(t), u)
            BY <1>1, <1>4, <1>5, <3>1, <3>3, SoundJoined
        <3> QED
            BY <3>2, <3>4
    <2>12. qn_nodes' # << >>
        BY <1>6, <2>8
    <2>13. Growing'
        BY <1>1, <1>5, <2>3, <2>10, <2>11, <2>12 DEF Growing
    <2> QED
        BY <1>1, <1>10, <2>3, <2>8, <2>13 DEF NodesInv
<1> QED
    BY <1>8, <1>9

\* What Freeing says of the next calls.
LEMMA FreeingNext ==
    ASSUME qn_nodes' = qn_nodes, NEW t \in Seq(FreeCalls), qn_todo' = t, Once(t),
           qn_freed' \in Seq(Nat \X Nat), Distinct(qn_freed'), Given(Elems(t), Elems(qn_freed')),
           Walked(Met(Elems(t), Elems(qn_freed')), Due(Elems(t)))
    PROVE  Freeing'
<1>1. FreeCalls' = FreeCalls
    BY DEF FreeCalls
<1>2. Met(Elems(qn_todo), Elems(qn_freed))' = Met(Elems(t), Elems(qn_freed'))
    BY DEF Met
<1>3. Due(Elems(qn_todo))' = Due(Elems(t))
    BY DEF Due
<1>4. Given(Elems(qn_todo), Elems(qn_freed))'
    BY <1>2 DEF Given
<1>5. Walked(Met(Elems(qn_todo), Elems(qn_freed)), Due(Elems(qn_todo)))'
    BY <1>2, <1>3 DEF Walked
<1> QED
    BY <1>1, <1>4, <1>5 DEF Freeing

\* The top was of an unknown type, and the answers of NULL are counted.
LEMMA NullRead ==
    ASSUME NodesInv, QN!Evaluated, qn_root = 0, ~qn_noCache
    PROVE  NodesInv'
<1>1. /\ qn_array \in Arrays /\ qn_array' = qn_array /\ qn_noCache' = qn_noCache /\ qn_freed' = << >>
      /\ qn_pc' = "segfault" /\ qn_nodes \in Seq(Node) /\ qn_nodes' = qn_nodes
    BY DEF NodesInv, QN!Evaluated
<1>2. QN!IsUnknown(qn_array)
    <2>1. qn_pc = "build" /\ qn_todo = << >> /\ qn_todo # <<QN!Build(qn_array, 0, "l")>>
        BY DEF QN!Evaluated
    <2> QED
        BY <2>1 DEF NodesInv, Growing
<1>3. Deadly'
    BY <1>1, <1>2 DEF Deadly, QN!IsUnknown, QN!IsTyped
<1> QED
    BY <1>1, <1>3 DEF NodesInv

\* The tree is freed.
LEMMA TreeFreed ==
    ASSUME NodesInv, QN!Evaluated, qn_root # 0 \/ qn_noCache
    PROVE  NodesInv'
<1>1. /\ qn_array \in Arrays /\ qn_array' = qn_array /\ qn_freed = << >> /\ qn_freed' = << >>
      /\ qn_pc = "build" /\ qn_pc' = "free" /\ qn_nodes \in Seq(Node) /\ qn_nodes' = qn_nodes
      /\ qn_todo = << >> /\ qn_todo' = <<QN!Free(qn_root)>> /\ qn_noCache' = qn_noCache
    BY DEF NodesInv, QN!Evaluated
<1>2. PICK n \in Nat : n = Len(qn_nodes)
    BY <1>1, LenProperties
<1>3. \/ qn_nodes = << >> /\ qn_root = 0 /\ n = 0
      \/ Growing /\ n # 0 /\ qn_root = 1 /\ ~QN!IsUnknown(qn_array)
    <2>1. << >> # <<QN!Build(qn_array, 0, "l")>>
        OBVIOUS
    <2>2. qn_nodes = << >> => n = 0
        BY <1>2
    <2>3. qn_nodes # << >> => n # 0
        BY <1>1, <1>2, EmptySeq
    <2> QED
        BY <1>1, <2>1, <2>2, <2>3 DEF NodesInv, Growing
<1>4. Tree(qn_nodes) /\ ~Strange(qn_array, n)
    <2>1. CASE n = 0
        <3>1. \A k \in 1..n : FALSE
            BY <2>1
        <3>2. \A k \in 2..n : FALSE
            BY <2>1
        <3> QED
            BY <1>2, <3>1, <3>2 DEF Tree, Strange
    <2>2. CASE Growing
        <3>1. Elems(qn_todo) = {}
            BY <1>1 DEF Elems
        <3>2. PICK S \in SUBSET Arrays : Seen(qn_array, S, {}, qn_nodes)
            BY <2>2, <3>1 DEF Growing, Sound
        <3>3. ~Doomed({}, qn_nodes)
            BY DEF Doomed
        <3>4. qn_array \in S /\ \A v \in S : QN!Branches(v) \subseteq S /\ ~QN!IsUnknown(v)
            BY <3>2, <3>3 DEF Seen
        <3>5. ~Strange(qn_array, n)
            BY <3>4, UnknownNone
        <3> QED
            BY <2>2, <3>5 DEF Growing
    <2> QED
        BY <1>3, <2>1, <2>2
<1>5. PICK t : t = qn_todo' /\ t = <<QN!Free(qn_root)>> /\ Len(t) = 1 /\ t[1] = QN!Free(qn_root)
    BY <1>1
<1>6. Elems(t) = {QN!Free(qn_root)}
    <2>1. \A i \in 1..1 : i = 1
        OBVIOUS
    <2>2. 1 \in 1..1
        OBVIOUS
    <2> QED
        BY <1>5, <2>1, <2>2 DEF Elems
<1>7. QN!Free(qn_root) \in FreeCalls
    <2>1. qn_root \in 0..Len(qn_nodes)
        BY <1>2, <1>3
    <2> QED
        BY <2>1 DEF FreeCalls
<1>8. t \in Seq(FreeCalls) /\ Once(t)
    <2>1. PICK X : X = FreeCalls
        OBVIOUS
    <2>2. <<QN!Free(qn_root)>> \in Seq(X)
        BY ONLY <1>7, <2>1
    <2>3. \A i \in 1..1 : i = 1
        OBVIOUS
    <2> QED
        BY <1>5, <2>1, <2>2, <2>3 DEF Once
<1>9. << >> \in Seq(Nat \X Nat) /\ Distinct(<< >>) /\ Elems(<< >>) = {}
    BY EmptySeq DEF Distinct, Elems
<1>10. Met({QN!Free(qn_root)}, {}) = {}
    BY DEF Met, QN!Free, QN!Delete
<1>11. Due({QN!Free(qn_root)}) = IF n = 0 THEN {} ELSE {1}
    <2>1. \A k : QN!Free(k) \in {QN!Free(qn_root)} <=> k = qn_root
        BY DEF QN!Free
    <2>2. n # 0 => 1 \in 1..n
        OBVIOUS
    <2>3. 0 \notin 1..n
        OBVIOUS
    <2> QED
        BY <1>2, <1>3, <2>1, <2>2, <2>3 DEF Due
<1>12. Walked({}, Due({QN!Free(qn_root)}))
    <2>1. qn_nodes # << >> => n # 0
        BY <1>1, <1>2, EmptySeq
    <2> QED
        BY <1>11, <2>1 DEF Walked
<1>13. Given({QN!Free(qn_root)}, {})
    <2>1. \A k : QN!Delete(k) \notin {QN!Free(qn_root)}
        BY DEF QN!Free, QN!Delete
    <2> QED
        BY <1>10, <2>1 DEF Given
<1>14. Freeing'
    BY <1>1, <1>5, <1>6, <1>8, <1>9, <1>10, <1>12, <1>13
       DEF Freeing, FreeCalls, Given, Walked, Met, Due
<1>15. ~Deadly'
    BY <1>1, <1>2, <1>3, <1>4 DEF Deadly, QN!IsUnknown, QN!IsTyped
<1> QED
    BY <1>1, <1>4, <1>14, <1>15 DEF NodesInv

LEMMA EvaluatedNodes == NodesInv /\ QN!Evaluated => NodesInv'
<1> SUFFICES ASSUME NodesInv, QN!Evaluated PROVE NodesInv'
    OBVIOUS
<1> QED
    BY NullRead, TreeFreed

\* A call for NULL.
LEMMA NothingFreed ==
    ASSUME NodesInv, QN!Freetree, Head(qn_todo).node = 0
    PROVE  NodesInv'
<1>1. /\ qn_array \in Arrays /\ qn_array' = qn_array /\ qn_freed' = qn_freed
      /\ qn_pc = "free" /\ qn_pc' = "free" /\ qn_nodes \in Seq(Node) /\ qn_nodes' = qn_nodes
      /\ qn_todo # << >> /\ Head(qn_todo).do = "free" /\ qn_todo' = Tail(qn_todo)
      /\ Freeing /\ Tree(qn_nodes) /\ ~Deadly /\ ~Deadly'
    BY DEF NodesInv, Deadly, QN!IsUnknown, QN!IsTyped, QN!Freetree
<1>2. PICK t \in Seq(FreeCalls) : /\ t = Tail(qn_todo) /\ Elems(qn_todo) = {Head(qn_todo)} \cup Elems(t)
                                  /\ Head(qn_todo) \in FreeCalls /\ Once(t)
    <2>1. qn_todo \in Seq(FreeCalls) /\ Once(qn_todo)
        BY <1>1 DEF Freeing
    <2>2. /\ Head(qn_todo) \in FreeCalls /\ Tail(qn_todo) \in Seq(FreeCalls)
          /\ Elems(qn_todo) = {Head(qn_todo)} \cup Elems(Tail(qn_todo))
        BY <1>1, <2>1, TailElems
    <2>3. Once(Tail(qn_todo))
        BY <1>1, <2>1, OnceTail
    <2> QED
        BY <2>2, <2>3
<1>3. Head(qn_todo) = QN!Free(0)
    BY <1>1, <1>2 DEF FreeCalls, QN!Free, QN!Delete
<1>4. \A k \in 1..Len(qn_nodes) : QN!Free(k) # QN!Free(0)
    <2>1. \A k \in 1..Len(qn_nodes) : k # 0
        OBVIOUS
    <2> QED
        BY <2>1 DEF QN!Free
<1>5. \A k : QN!Delete(k) # QN!Free(0)
    BY DEF QN!Free, QN!Delete
<1>6. Due(Elems(t)) = Due(Elems(qn_todo))
    BY <1>2, <1>3, <1>4 DEF Due
<1>7. Met(Elems(t), Elems(qn_freed)) = Met(Elems(qn_todo), Elems(qn_freed))
    BY <1>2, <1>3, <1>5 DEF Met
<1>8. Given(Elems(t), Elems(qn_freed))
    BY <1>1, <1>2, <1>7 DEF Given, Freeing
<1>9. Walked(Met(Elems(t), Elems(qn_freed)), Due(Elems(t)))
    BY <1>1, <1>6, <1>7 DEF Freeing
<1>10. qn_todo' = t /\ qn_freed \in Seq(Nat \X Nat) /\ Distinct(qn_freed)
    BY <1>1, <1>2 DEF Freeing
<1>11. Freeing'
    BY <1>1, <1>2, <1>8, <1>9, <1>10, FreeingNext
<1> QED
    BY <1>1, <1>11 DEF NodesInv

\* A call for a node.
LEMMA WordsGiven ==
    ASSUME NodesInv, QN!Freetree, Head(qn_todo).node # 0
    PROVE  NodesInv'
<1>1. /\ qn_array \in Arrays /\ qn_array' = qn_array
      /\ qn_pc = "free" /\ qn_pc' = "free" /\ qn_nodes \in Seq(Node) /\ qn_nodes' = qn_nodes
      /\ qn_todo # << >> /\ Head(qn_todo).do = "free"
      /\ Freeing /\ Tree(qn_nodes) /\ ~Deadly /\ ~Deadly'
    BY Zenon DEF NodesInv, Deadly, QN!IsUnknown, QN!IsTyped, QN!Freetree
<1>2. PICK t \in Seq(FreeCalls) : /\ t = Tail(qn_todo) /\ Elems(qn_todo) = {Head(qn_todo)} \cup Elems(t)
                                  /\ Head(qn_todo) \in FreeCalls /\ Once(t) /\ Head(qn_todo) \notin Elems(t)
    <2>1. qn_todo \in Seq(FreeCalls) /\ Once(qn_todo)
        BY <1>1 DEF Freeing
    <2>2. /\ Head(qn_todo) \in FreeCalls /\ Tail(qn_todo) \in Seq(FreeCalls)
          /\ Elems(qn_todo) = {Head(qn_todo)} \cup Elems(Tail(qn_todo))
        BY <1>1, <2>1, TailElems
    <2>3. Once(Tail(qn_todo)) /\ Head(qn_todo) \notin Elems(Tail(qn_todo))
        BY <1>1, <2>1, OnceTail
    <2> QED
        BY <2>2, <2>3
<1> DEFINE N == Len(qn_nodes)
           E == Elems(qn_todo)
           G == Elems(qn_freed)
           V == Met(E, G)
           D == Due(E)
<1>3. PICK n \in 1..N : Head(qn_todo) = QN!Free(n) /\ Head(qn_todo).node = n
    BY <1>1, <1>2 DEF FreeCalls, QN!Free, QN!Delete
<1>4. N \in Nat /\ n \in Nat /\ n # 0
    BY <1>1, LenProperties
<1>5. n \in D /\ V \in SUBSET (1..N) /\ D \in SUBSET (1..N) /\ Walked(V, D) /\ n \notin V
    BY <1>1, <1>2, <1>3 DEF Due, Met, Freeing, Walked
<1>6. PICK B : /\ B = IF qn_nodes[n].type \in QN!Freed THEN {qn_nodes[n].l, qn_nodes[n].r} \ {0} ELSE {}
               /\ B = Below(n)
    BY DEF Below
<1>7. /\ Walked(V \cup {n}, (D \ {n}) \cup B)
      /\ B \subseteq 1..N /\ B \cap (V \cup D) = {}
      /\ qn_nodes[n].type \in QN!Freed /\ qn_nodes[n].l # 0 => qn_nodes[n].l # qn_nodes[n].r
    <2>1. qn_nodes \in Seq(Node) /\ Tree(qn_nodes)
        BY <1>1
    <2>2. V \subseteq 1..Len(qn_nodes) /\ D \subseteq 1..Len(qn_nodes) /\ Walked(V, D) /\ n \in D
        BY <1>5
    <2> HIDE DEF V, D
    <2>3. /\ Walked(V \cup {n}, (D \ {n}) \cup Below(n))
          /\ Below(n) \subseteq 1..Len(qn_nodes) /\ Below(n) \cap (V \cup D) = {}
          /\ qn_nodes[n].type \in QN!Freed /\ qn_nodes[n].l # 0 => qn_nodes[n].l # qn_nodes[n].r
        BY ONLY <2>1, <2>2, WalkNode
    <2> QED
        BY <1>6, <2>3
<1>8. PICK w \in Nat, l \in Nat, r \in Nat : w = qn_nodes[n].words /\ l = qn_nodes[n].l /\ r = qn_nodes[n].r
    <2>1. qn_nodes[n] \in Node
        BY <1>1
    <2> QED
        BY <2>1 DEF Node
<1>9. /\ qn_freed' = qn_freed \o [i \in 1..w |-> <<n, i>>]
      /\ qn_todo' = (IF qn_nodes[n].type \in QN!Freed THEN <<QN!Free(l), QN!Free(r), QN!Delete(n)>>
                  ELSE <<QN!Delete(n)>>) \o t
    BY <1>2, <1>3, <1>4, <1>8, Zenon DEF QN!Freetree
<1>10. /\ \A i, j : QN!Free(i) = QN!Free(j) <=> i = j
       /\ \A i, j : QN!Delete(i) = QN!Delete(j) <=> i = j
       /\ \A i, j : QN!Free(i) # QN!Delete(j)
       /\ \A i : QN!Free(i).node = i /\ QN!Delete(i).node = i
    BY DEF QN!Free, QN!Delete
<1>11. Given(E, G)
    BY <1>1 DEF Freeing
<1>12. /\ qn_freed' \in Seq(Nat \X Nat) /\ Distinct(qn_freed')
       /\ Elems(qn_freed') = G \cup {<<n, i>> : i \in 1..w}
    <2>1. \A i \in 1..w : <<n, i>> \notin G
        <3> SUFFICES ASSUME NEW i \in 1..w, <<n, i>> \in G PROVE FALSE
            OBVIOUS
        <3>1. n \in Nat /\ i \in Nat
            BY <1>4
        <3> QED
            BY <1>5, <1>11, <3>1 DEF Given
    <2>2. qn_freed \in Seq(Nat \X Nat) /\ Distinct(qn_freed)
        BY <1>1 DEF Freeing
    <2> QED
        BY <1>4, <1>9, <2>1, <2>2, WordsFreed
<1> DEFINE P == {QN!Free(k) : k \in IF qn_nodes[n].type \in QN!Freed THEN {l, r} ELSE {}} \cup {QN!Delete(n)}
<1>13. QN!Delete(n) \in FreeCalls
    BY DEF FreeCalls
<1>14. QN!Delete(n) \notin Elems(t)
    BY <1>2, <1>5 DEF Met
<1>15. \A k \in B : QN!Free(k) \notin Elems(t)
    BY <1>2, <1>7 DEF Due
<1>16. qn_todo' \in Seq(FreeCalls) /\ Once(qn_todo') /\ Elems(qn_todo') = P \cup Elems(t)
    <2>1. CASE qn_nodes[n].type \in QN!Freed
        <3>1. (l # 0 => l \in B) /\ (r # 0 => r \in B)
            BY <1>6, <1>8, <2>1
        <3>2. l \in 0..N /\ r \in 0..N
            BY <1>4, <1>7, <3>1
        <3>3. PICK a \in FreeCalls, b \in FreeCalls, c \in FreeCalls :
                  a = QN!Free(l) /\ b = QN!Free(r) /\ c = QN!Delete(n)
            BY <1>13, <3>2 DEF FreeCalls
        <3>4. qn_todo' = <<a, b, c>> \o t
            BY <1>9, <2>1, <3>3
        <3>5. /\ a.node # 0 => a \notin Elems(t) /\ a # b
              /\ b.node # 0 => b \notin Elems(t)
              /\ c \notin Elems(t) /\ a # c /\ b # c
            BY <1>7, <1>8, <1>10, <1>14, <1>15, <2>1, <3>1, <3>3
        <3>6. \A x \in {a, b, c} : x.node # 0 => x \notin Elems(t)
            BY <3>5
        <3>7. Once(<<a, b, c>> \o t)
            BY <1>2, <3>5, <3>6, OncePushed
        <3>8. <<a, b, c>> \o t \in Seq(FreeCalls) /\ Elems(<<a, b, c>> \o t) = {a, b, c} \cup Elems(t)
            BY Pushed
        <3>9. {a, b, c} = P
            BY <2>1, <3>3
        <3> QED
            BY <3>4, <3>7, <3>8, <3>9
    <2>2. CASE qn_nodes[n].type \notin QN!Freed
        <3>1. PICK c \in FreeCalls : c = QN!Delete(n)
            BY <1>13
        <3>2. qn_todo' = <<c>> \o t
            BY <1>9, <2>2, <3>1
        <3>3. Once(<<c>> \o t)
            BY <1>2, <1>14, <3>1, OncePushedOne
        <3>4. <<c>> \o t \in Seq(FreeCalls) /\ Elems(<<c>> \o t) = {c} \cup Elems(t)
            BY PushedOne
        <3>5. {c} = P
            BY <2>2, <3>1
        <3> QED
            BY <3>2, <3>3, <3>4, <3>5
    <2> QED
        BY <2>1, <2>2
<1> DEFINE F == P \cup Elems(t)
           H == G \cup {<<n, i>> : i \in 1..w}
<1>17. \A k : QN!Delete(k) \in F <=> k = n \/ QN!Delete(k) \in E
    BY <1>2, <1>3, <1>10
<1>18. \A k : <<k, 0>> \in H <=> <<k, 0>> \in G
    <2>1. \A i \in 1..w : i # 0
        OBVIOUS
    <2> QED
        BY <2>1
<1>19. Met(F, H) = V \cup {n}
    BY <1>17, <1>18 DEF Met
<1>20. Due(F) = (D \ {n}) \cup B
    <2>1. \A k : QN!Free(k) \in Elems(t) <=> QN!Free(k) \in E /\ k # n
        BY <1>2, <1>3, <1>10
    <2>2. \A k \in 1..N : QN!Free(k) \in P <=> k \in B
        <3>1. \A k \in 1..N : k # 0
            OBVIOUS
        <3> QED
            BY <1>6, <1>8, <1>10, <3>1
    <2>3. \A k \in 1..N : QN!Free(k) \in F <=> (QN!Free(k) \in E /\ k # n) \/ k \in B
        BY <2>1, <2>2
    <2> HIDE DEF F
    <2> QED
        BY <1>7, <2>3 DEF Due
<1> HIDE DEF F, H, V, D, E, G, P
<1>21. Given(F, H)
    <2>1. ASSUME NEW k \in Nat, NEW i \in Nat, <<k, i>> \in H
          PROVE  k \in Met(F, H) /\ i \in 0..qn_nodes[k].words
        <3>1. CASE <<k, i>> \in G
            BY <1>11, <1>19, <3>1 DEF Given, V
        <3>2. CASE k = n /\ i \in 1..w
            BY <1>8, <1>19, <3>2
        <3> QED
            BY <2>1, <3>1, <3>2 DEF H
    <2>2. ASSUME NEW k \in Met(F, H), NEW i \in 1..qn_nodes[k].words PROVE <<k, i>> \in H
        <3>1. CASE k = n
            BY <1>8, <3>1 DEF H
        <3>2. CASE k \in V
            BY <1>11, <3>2 DEF Given, V, H
        <3> QED
            BY <1>19, <3>1, <3>2
    <2>3. ASSUME NEW k, QN!Delete(k) \in F PROVE <<k, 0>> \notin H
        <3>1. CASE k = n
            <4>1. <<n, 0>> \notin G
                BY <1>5 DEF V, Met
            <4> QED
                BY <1>18, <3>1, <4>1
        <3>2. CASE QN!Delete(k) \in E
            BY <1>11, <1>18, <3>2 DEF Given
        <3> QED
            BY <1>17, <2>3, <3>1, <3>2
    <2> QED
        BY <2>1, <2>2, <2>3 DEF Given
<1>22. Elems(qn_todo') = F /\ Elems(qn_freed') = H
    BY <1>12, <1>16 DEF F, H
<1>23. Walked(Met(F, H), Due(F))
    BY <1>7, <1>19, <1>20
<1>24. Freeing'
    BY <1>1, <1>12, <1>16, <1>21, <1>22, <1>23 DEF Freeing, FreeCalls, Given, Walked, Met, Due
<1> QED
    BY <1>1, <1>24 DEF NodesInv

LEMMA DeleteNodes == NodesInv /\ QN!DeleteNode => NodesInv'
<1> SUFFICES ASSUME NodesInv, QN!DeleteNode PROVE NodesInv'
    OBVIOUS
<1>1. /\ qn_array \in Arrays /\ qn_array' = qn_array
      /\ qn_pc = "free" /\ qn_pc' = "free" /\ qn_nodes \in Seq(Node) /\ qn_nodes' = qn_nodes
      /\ qn_todo # << >> /\ Head(qn_todo).do = "delete" /\ qn_todo' = Tail(qn_todo)
      /\ qn_freed' = Append(qn_freed, <<Head(qn_todo).node, 0>>)
      /\ Freeing /\ Tree(qn_nodes) /\ ~Deadly /\ ~Deadly'
    BY DEF NodesInv, Deadly, QN!IsUnknown, QN!IsTyped, QN!DeleteNode
<1>2. Head(qn_todo) \in FreeCalls /\ qn_todo \in Seq(FreeCalls) /\ Once(qn_todo)
    <2>1. qn_todo \in Seq(FreeCalls) /\ Once(qn_todo)
        BY <1>1 DEF Freeing
    <2> QED
        BY <1>1, <2>1, TailElems
<1>3. PICK n \in 1..Len(qn_nodes) : Head(qn_todo) = QN!Delete(n) /\ Head(qn_todo).node = n /\ n # 0
    <2>1. PICK x \in FreeCalls : x = Head(qn_todo) /\ x.do = "delete"
        BY <1>1, <1>2
    <2>2. \A k : QN!Free(k).do = "free" /\ QN!Delete(k).node = k
        BY DEF QN!Free, QN!Delete
    <2>3. PICK n \in 1..Len(qn_nodes) : x = QN!Delete(n)
        BY <2>1, <2>2 DEF FreeCalls
    <2>4. n # 0
        OBVIOUS
    <2> QED
        BY <2>1, <2>2, <2>3, <2>4
<1>4. PICK t \in Seq(FreeCalls) : /\ t = Tail(qn_todo) /\ Elems(qn_todo) = {QN!Delete(n)} \cup Elems(t)
                                  /\ Once(t) /\ QN!Delete(n) \notin Elems(t)
    <2>1. Tail(qn_todo) \in Seq(FreeCalls) /\ Elems(qn_todo) = {Head(qn_todo)} \cup Elems(Tail(qn_todo))
        BY <1>1, <1>2, TailElems
    <2>2. Once(Tail(qn_todo)) /\ Head(qn_todo) \notin Elems(Tail(qn_todo))
        BY <1>1, <1>2, <1>3, OnceTail
    <2> QED
        BY <1>3, <2>1, <2>2
<1> DEFINE E == Elems(qn_todo)
           G == Elems(qn_freed)
           F == Elems(t)
           H == G \cup {<<n, 0>>}
<1>5. Given(E, G) /\ Walked(Met(E, G), Due(E)) /\ <<n, 0>> \notin G
    BY <1>1, <1>4 DEF Freeing, Given
<1>6. qn_freed' \in Seq(Nat \X Nat) /\ Distinct(qn_freed') /\ Elems(qn_freed') = H
    <2>1. qn_freed \in Seq(Nat \X Nat) /\ Distinct(qn_freed)
        BY <1>1 DEF Freeing
    <2>2. PICK e \in Nat \X Nat : e = <<n, 0>>
        <3>1. Len(qn_nodes) \in Nat
            BY <1>1, LenProperties
        <3>2. n \in Nat
            BY <3>1
        <3> QED
            BY <3>2
    <2>3. qn_freed' = Append(qn_freed, e)
        BY <1>1, <1>3, <2>2
    <2> QED
        BY <1>5, <2>1, <2>2, <2>3, NodeFreed
<1>7. /\ \A i, j : QN!Delete(i) = QN!Delete(j) <=> i = j
      /\ \A i, j : QN!Free(i) # QN!Delete(j)
    BY DEF QN!Free, QN!Delete
<1>8. \A k : QN!Delete(k) \in F <=> k # n /\ QN!Delete(k) \in E
    BY <1>4, <1>7
<1>9. \A k : <<k, 0>> \in H <=> k = n \/ <<k, 0>> \in G
    OBVIOUS
<1>10. Met(F, H) = Met(E, G)
    <2>1. QN!Delete(n) \in E
        BY <1>4
    <2> HIDE DEF E, F, G, H
    <2> QED
        BY <1>8, <1>9, <2>1 DEF Met
<1>11. Due(F) = Due(E)
    BY <1>4, <1>7 DEF Due
<1>12. Given(F, H)
    <2> HIDE DEF E, F, G
    <2>1. ASSUME NEW k \in Nat, NEW i \in Nat, <<k, i>> \in H
          PROVE  k \in Met(F, H) /\ i \in 0..qn_nodes[k].words
        <3>1. CASE <<k, i>> \in G
            BY <1>5, <1>10, <3>1 DEF Given
        <3>2. CASE k = n /\ i = 0
            <4>1. qn_nodes[n].words \in Nat
                <5>1. qn_nodes[n] \in Node
                    BY <1>1
                <5> QED
                    BY <5>1 DEF Node
            <4>2. n \in Met(F, H)
                BY <1>9 DEF Met
            <4> QED
                BY <3>2, <4>1, <4>2
        <3> QED
            BY <2>1, <3>1, <3>2
    <2>2. ASSUME NEW k \in Met(F, H), NEW i \in 1..qn_nodes[k].words PROVE <<k, i>> \in H
        BY <1>5, <1>10 DEF Given
    <2>3. ASSUME NEW k, QN!Delete(k) \in F PROVE <<k, 0>> \notin H
        BY <1>5, <1>8, <1>9, <2>3 DEF Given
    <2> HIDE DEF H
    <2> QED
        BY <2>1, <2>2, <2>3 DEF Given
<1> HIDE DEF E, G, H
<1>13. Walked(Met(F, H), Due(F))
    BY <1>5, <1>10, <1>11
<1>14. qn_todo' = t /\ Once(t)
    BY <1>1, <1>4
<1>15. Freeing'
    BY <1>1, <1>6, <1>12, <1>13, <1>14, FreeingNext
<1> QED
    BY <1>1, <1>15 DEF NodesInv

LEMMA ReturnNodes == NodesInv /\ QN!Return => NodesInv'
<1> SUFFICES ASSUME NodesInv, QN!Return PROVE NodesInv'
    OBVIOUS
<1>1. /\ qn_array \in Arrays /\ qn_array' = qn_array /\ qn_freed' = qn_freed
      /\ qn_pc = "free" /\ qn_pc' = "done" /\ qn_nodes \in Seq(Node) /\ qn_nodes' = qn_nodes
      /\ qn_todo = << >> /\ qn_todo' = qn_todo
      /\ Freeing /\ Tree(qn_nodes) /\ ~Deadly /\ ~Deadly'
    BY DEF NodesInv, Deadly, QN!IsUnknown, QN!IsTyped, QN!Return
<1>2. Freeing'
    BY <1>1 DEF Freeing, FreeCalls, Given, Walked, Met, Due
<1> QED
    BY <1>1, <1>2 DEF NodesInv

LEMMA StutterNodes == NodesInv /\ UNCHANGED QN!vars => NodesInv'
<1> SUFFICES ASSUME NodesInv, UNCHANGED QN!vars PROVE NodesInv'
    OBVIOUS
<1>1. /\ qn_array' = qn_array /\ qn_noCache' = qn_noCache /\ qn_pc' = qn_pc /\ qn_todo' = qn_todo /\ qn_nodes' = qn_nodes /\ qn_root' = qn_root
      /\ qn_freed' = qn_freed
    BY DEF QN!vars
<1>2. Growing' <=> Growing
    BY <1>1 DEF Growing
<1>3. Freeing' <=> Freeing
    BY <1>1 DEF Freeing, FreeCalls, Given, Walked, Met, Due
<1>4. Deadly' <=> Deadly
    BY <1>1 DEF Deadly, QN!IsUnknown, QN!IsTyped
<1>5. QN!IsUnknown(qn_array)' <=> QN!IsUnknown(qn_array)
    BY <1>1 DEF QN!IsUnknown, QN!IsTyped
<1> QED
    BY <1>1, <1>2, <1>3, <1>4, <1>5 DEF NodesInv

LEMMA InvTree == NodesInv => QN!TreeGivenBack
<1> SUFFICES ASSUME NodesInv PROVE QN!TreeGivenBack
    OBVIOUS
<1>1. qn_array \in Arrays /\ qn_nodes \in Seq(Node) /\ Len(qn_nodes) \in Nat
    BY LenProperties DEF NodesInv
<1>2. QN!HasUnknown <=> Strange(qn_array, Len(qn_nodes))
    BY <1>1, UnknownIs
<1>3. qn_freed \in Seq(Nat \X Nat) /\ Distinct(qn_freed)
    <2>1. qn_freed = << >> => qn_freed \in Seq(Nat \X Nat) /\ Distinct(qn_freed)
        BY EmptySeq DEF Distinct
    <2> QED
        BY <2>1 DEF NodesInv, Freeing
<1>4. DOMAIN qn_freed = 1..Len(qn_freed)
    BY <1>3, LenProperties
<1>5. \A i, j \in DOMAIN qn_freed : qn_freed[i] = qn_freed[j] => i = j
    BY <1>3, <1>4 DEF Distinct
<1>6. ASSUME qn_pc = "done"
      PROVE  {qn_freed[i] : i \in DOMAIN qn_freed} = UNION {QN!Memory(n) : n \in (1..Len(qn_nodes)) \ QN!Lost}
    <2> DEFINE G == Elems(qn_freed)
               V == Met({}, G)
    <2>1. /\ Tree(qn_nodes) /\ Given({}, G) /\ Walked(V, Due({}))
        <3>1. Elems(<< >>) = {}
            BY DEF Elems
        <3> QED
            BY <1>6, <3>1 DEF NodesInv, Freeing
    <2>2. Due({}) = {}
        BY DEF Due
    <2>3. V = (1..Len(qn_nodes)) \ QN!Lost
        <3>1. V \in SUBSET (1..Len(qn_nodes))
            BY DEF Met
        <3>2. qn_nodes # << >> => 1 \in V
            BY <2>1, <2>2 DEF Walked
        <3>3. ASSUME NEW k \in 2..Len(qn_nodes)
              PROVE  k \in V <=> \E m \in V, a \in Sides : /\ Side(qn_nodes[m], a) = k
                                                           /\ qn_nodes[m].type \in QN!Freed
            <4>1. k # 0 /\ k # 1
                OBVIOUS
            <4> HIDE DEF V
            <4> QED
                BY <2>1, <2>2, <4>1 DEF Walked
        <3> HIDE DEF V
        <3> QED
            BY <1>1, <2>1, <3>1, <3>2, <3>3, KeptAre
    <2>4. {qn_freed[i] : i \in DOMAIN qn_freed} = G
        BY <1>4 DEF Elems
    <2>5. \A n \in V : n \in Nat /\ n \in 1..Len(qn_nodes) /\ qn_nodes[n].words \in Nat
        <3> SUFFICES ASSUME NEW n \in V PROVE n \in Nat /\ n \in 1..Len(qn_nodes) /\ qn_nodes[n].words \in Nat
            OBVIOUS
        <3>1. n \in 1..Len(qn_nodes)
            BY DEF Met
        <3>2. qn_nodes[n] \in Node
            BY <1>1, <3>1
        <3> QED
            BY <3>1, <3>2 DEF Node
    <2>6. ASSUME NEW g \in G PROVE \E n \in V : g \in QN!Memory(n)
        <3>1. PICK n \in Nat, i \in Nat : g = <<n, i>>
            <4>1. g \in Nat \X Nat
                BY <1>3, LenProperties DEF Elems
            <4> QED
                BY <4>1
        <3>2. n \in V /\ i \in 0..qn_nodes[n].words
            BY <2>1, <3>1 DEF Given
        <3> QED
            BY <3>1, <3>2 DEF QN!Memory
    <2>7. ASSUME NEW n \in V, NEW i \in 0..qn_nodes[n].words PROVE <<n, i>> \in G
        <3>1. CASE i = 0
            BY <3>1 DEF Met
        <3>2. CASE i # 0
            <4>1. i \in 1..qn_nodes[n].words
                BY <2>5, <3>2
            <4> QED
                BY <2>1, <4>1 DEF Given
        <3> QED
            BY <3>1, <3>2
    <2> HIDE DEF V, G
    <2>8. G = UNION {QN!Memory(n) : n \in V}
        <3>1. \A n \in V : QN!Memory(n) \subseteq G
            BY <2>7 DEF QN!Memory
        <3> QED
            BY <2>6, <3>1
    <2> QED
        BY <2>3, <2>4, <2>8
<1>7. (qn_pc = "segfault" => QN!Fatal) /\ (qn_pc = "done" => ~QN!Fatal)
    BY <1>2 DEF NodesInv, Deadly, QN!Fatal
<1> QED
    BY <1>5, <1>6, <1>7 DEF QN!TreeGivenBack

\* TreeGivenBack for any array, however deep, wide or malformed: what qtree2tree makes of it
\* is a tree, and freetree deletes each node and each word of it once, but for what hangs
\* under a ":"; the call dies for a branch of a type it does not know, or for such a type at
\* the top when the result is written, and for nothing else.
THEOREM TreeIsGivenBack == AllSpec => []TreeGivenBack
<1>1. NodesInv /\ [QN!Next]_(QN!vars) => NodesInv'
    <2>1. NodesInv /\ QN!Freetree => NodesInv'
        BY NothingFreed, WordsGiven
    <2> QED
        BY Qtree2treeNodes, AddLeavesNodes, EvaluatedNodes, <2>1, DeleteNodes, ReturnNodes, StutterNodes
           DEF QN!Next
<1>2. QN!TreeGivenBack => TreeGivenBack
    BY DEF TreeGivenBack
<1> QED
    BY InitNodes, <1>1, <1>2, InvTree, RunsNodes, PTL DEF QN!Spec

-----------------------------------------------------------------------------
(* The binary form of a session: numbers                                   *)

\* A product is as large as its factor.
LEMMA TimesIsLarger ==
    ASSUME NEW x \in Nat \ {0}, NEW n \in Nat
    PROVE  x * n >= n /\ x * n \in Nat
<1>1. \A i \in Nat, j \in Nat : i * j \in Nat
    OBVIOUS
<1>2. (x - 1) * n \in Nat
    BY <1>1
<1>3. x * n = (x - 1) * n + n
    OBVIOUS
<1> QED
    BY <1>1, <1>2, <1>3

LEMMA TimesGrows ==
    ASSUME NEW x \in Nat, NEW y \in Nat, x <= y, NEW n \in Nat
    PROVE  x * n <= y * n /\ x * n \in Nat
<1>1. PICK d \in Nat : y = x + d
    <2>1. y - x \in Nat /\ y = x + (y - x)
        OBVIOUS
    <2> QED
        BY <2>1
<1>2. \A i \in Nat, j \in Nat : i * j \in Nat
    OBVIOUS
<1>3. x * n \in Nat /\ d * n \in Nat
    BY <1>2
<1>4. y * n = x * n + d * n
    BY <1>1
<1> QED
    BY <1>3, <1>4

LEMMA Divided ==
    ASSUME NEW a \in Nat, NEW n \in Nat \ {0}
    PROVE  a \div n \in Nat /\ a % n \in 0..(n - 1) /\ a = (a \div n) * n + (a % n)
<1>1. a \div n \in Nat
    OBVIOUS
<1>2. a % n \in 0..(n - 1)
    OBVIOUS
<1>3. a = (a \div n) * n + (a % n)
    OBVIOUS
<1> QED
    BY <1>1, <1>2, <1>3

\* There is one quotient and one remainder.
LEMMA NotLarger ==
    ASSUME NEW n \in Nat \ {0}, NEW q \in Int, NEW x \in Int, q > x,
           NEW r \in 0..(n - 1), NEW y \in 0..(n - 1)
    PROVE  q * n + r # x * n + y
<1>1. PICK d \in Nat \ {0} : q = x + d
    <2>1. q - x \in Nat \ {0} /\ q = x + (q - x)
        OBVIOUS
    <2> QED
        BY <2>1
<1>2. d * n >= n
    BY TimesIsLarger
<1>3. q * n = x * n + d * n
    BY <1>1
<1> QED
    BY <1>2, <1>3

LEMMA Quotient ==
    ASSUME NEW n \in Nat \ {0}, NEW q \in Nat, NEW r \in 0..(n - 1)
    PROVE  (q * n + r) \div n = q /\ (q * n + r) % n = r
<1>1. PICK a \in Nat : a = q * n + r
    <2>1. \A i \in Nat, j \in Nat : i * j \in Nat
        OBVIOUS
    <2> QED
        BY <2>1
<1>2. a \div n \in Nat /\ a % n \in 0..(n - 1) /\ a = (a \div n) * n + (a % n)
    BY Divided
<1>3. PICK x \in Nat, y \in 0..(n - 1) : x = a \div n /\ y = a % n
    BY <1>2
<1>4. x * n + y = q * n + r
    BY <1>1, <1>2, <1>3
<1>5. ~(x > q) /\ ~(q > x)
    BY <1>4, NotLarger
<1>6. x = q
    BY <1>5
<1>7. y = r
    BY <1>4, <1>6
<1> QED
    BY <1>1, <1>3, <1>6, <1>7

\* The sums.
LEMMA TotalIs ==
    ASSUME NEW n \in Nat, NEW f \in [1..n -> Nat]
    PROVE  \E h \in [0..n -> Nat] :
              /\ h[0] = 0 /\ \A k \in 1..n : h[k] = h[k - 1] + f[k]
              /\ \A k \in 0..n : SB!Total(f, k) = h[k]
<1> DEFINE step == [w \in Nat \X (1..n) |-> w[1] + f[w[2]]]
<1>1. step \in [Nat \X (1..n) -> Nat]
    OBVIOUS
<1>2. PICK h \in [0..n -> Nat] : IsRun(h, n, 0, step)
    <2> HIDE DEF step
    <2> QED
        BY <1>1, RunExists
<1>3. h[0] = 0 /\ \A k \in 1..n : h[k] = h[k - 1] + f[k]
    <2>1. h[0] = 0 /\ \A k \in 1..n : h[k] = step[<<h[k - 1], k>>]
        BY <1>2 DEF IsRun
    <2>2. ASSUME NEW k \in 1..n PROVE h[k] = h[k - 1] + f[k]
        <3>1. <<h[k - 1], k>> \in Nat \X (1..n)
            OBVIOUS
        <3> QED
            BY <2>1, <3>1
    <2> QED
        BY <2>1, <2>2
<1>4. ASSUME NEW k \in 0..n PROVE SB!Total(f, k) = h[k]
    <2> DEFINE Def(g) == [j \in 0..k |-> IF j = 0 THEN 0 ELSE g[j - 1] + f[j]]
               upTo == CHOOSE g : g = Def(g)
    <2>1. PICK e : e = [j \in 0..k |-> h[j]]
        OBVIOUS
    <2>2. e = Def(e)
        BY <1>3, <2>1
    <2>3. upTo = Def(upTo)
        <3> HIDE DEF Def
        <3> QED
            BY <2>2
    <2>4. SB!Total(f, k) = upTo[k]
        BY DEF SB!Total
    <2>5. PICK g : g = upTo
        OBVIOUS
    <2>6. \A j \in 0..k : g[j] = IF j = 0 THEN 0 ELSE g[j - 1] + f[j]
        <3>1. g = [j \in 0..k |-> IF j = 0 THEN 0 ELSE g[j - 1] + f[j]]
            BY <2>3, <2>5
        <3> QED
            BY <3>1
    <2> HIDE DEF upTo, Def
    <2> DEFINE S == {j \in 0..k : g[j] = h[j]}
    <2>7. 0 \in S
        BY <1>3, <2>6
    <2>8. \A j \in 0..(k - 1) : j \in S => j + 1 \in S
        BY <1>3, <2>6
    <2>9. k \in S
        <3> HIDE DEF S
        <3>1. k \in Nat /\ k \in 0..k
            OBVIOUS
        <3> QED
            BY <2>7, <2>8, <3>1, UpTo
    <2> QED
        BY <2>4, <2>5, <2>9
<1> QED
    BY <1>3, <1>4

LEMMA TotalStep ==
    ASSUME NEW n \in Nat, NEW f \in [1..n -> Nat]
    PROVE  /\ SB!Total(f, 0) = 0
           /\ \A k \in 0..n : SB!Total(f, k) \in Nat
           /\ \A k \in 1..n : SB!Total(f, k) = SB!Total(f, k - 1) + f[k]
<1>1. PICK h \in [0..n -> Nat] :
              /\ h[0] = 0 /\ \A k \in 1..n : h[k] = h[k - 1] + f[k]
              /\ \A k \in 0..n : SB!Total(f, k) = h[k]
    BY TotalIs
<1> QED
    BY <1>1

LEMMA TotalGrows ==
    ASSUME NEW n \in Nat, NEW f \in [1..n -> Nat], NEW i \in 0..n, NEW m \in i..n
    PROVE  SB!Total(f, i) <= SB!Total(f, m)
<1>1. PICK h : h = [k \in 0..n |-> SB!Total(f, k)]
    OBVIOUS
<1>2. h \in [0..n -> Nat] /\ \A k \in 1..n : h[k] = h[k - 1] + f[k]
    <2>1. /\ \A k \in 0..n : SB!Total(f, k) \in Nat
          /\ \A k \in 1..n : SB!Total(f, k) = SB!Total(f, k - 1) + f[k]
        BY TotalStep
    <2> QED
        BY <1>1, <2>1
<1> DEFINE S == {k \in 0..n : i <= k => h[i] <= h[k]}
<1>3. 0 \in S
    BY <1>2
<1>4. \A k \in 0..(n - 1) : k \in S => k + 1 \in S
    BY <1>2
<1>5. m \in S
    <2> HIDE DEF S
    <2>1. m \in 0..n
        OBVIOUS
    <2> QED
        BY <1>3, <1>4, <2>1, UpTo
<1> QED
    BY <1>1, <1>5

LEMMA TotalTimes ==
    ASSUME NEW n \in Nat, NEW f \in [1..n -> Nat], NEW P \in Nat, NEW g \in [1..n -> Nat],
           \A k \in 1..n : g[k] = f[k] * P
    PROVE  SB!Total(g, n) = SB!Total(f, n) * P
<1>1. PICK h, e : h = [k \in 0..n |-> SB!Total(f, k)] /\ e = [k \in 0..n |-> SB!Total(g, k)]
    OBVIOUS
<1>2. h \in [0..n -> Nat] /\ h[0] = 0 /\ \A k \in 1..n : h[k] = h[k - 1] + f[k]
    <2>1. /\ SB!Total(f, 0) = 0 /\ \A k \in 0..n : SB!Total(f, k) \in Nat
          /\ \A k \in 1..n : SB!Total(f, k) = SB!Total(f, k - 1) + f[k]
        BY TotalStep
    <2> QED
        BY <1>1, <2>1
<1>3. e \in [0..n -> Nat] /\ e[0] = 0 /\ \A k \in 1..n : e[k] = e[k - 1] + g[k]
    <2>1. /\ SB!Total(g, 0) = 0 /\ \A k \in 0..n : SB!Total(g, k) \in Nat
          /\ \A k \in 1..n : SB!Total(g, k) = SB!Total(g, k - 1) + g[k]
        BY TotalStep
    <2> QED
        BY <1>1, <2>1
<1> DEFINE S == {k \in 0..n : e[k] = h[k] * P}
<1>4. 0 \in S
    <2>1. 0 * P = 0
        OBVIOUS
    <2> QED
        BY <1>2, <1>3, <2>1
<1>5. ASSUME NEW k \in 0..(n - 1), k \in S PROVE k + 1 \in S
    <2>1. PICK x \in Nat, y \in Nat : x = h[k] /\ y = f[k + 1]
        <3> HIDE DEF S
        <3>1. k \in 0..n /\ k + 1 \in 1..n
            OBVIOUS
        <3>2. h[k] \in Nat /\ f[k + 1] \in Nat
            BY <1>2, <3>1
        <3> QED
            BY <3>2
    <2>2. h[k + 1] = x + y /\ e[k + 1] = x * P + y * P
        <3>1. k + 1 \in 1..n /\ (k + 1) - 1 = k
            OBVIOUS
        <3>2. h[k + 1] = x + y /\ e[k + 1] = e[k] + g[k + 1] /\ g[k + 1] = y * P
            BY <1>2, <1>3, <2>1, <3>1
        <3>3. e[k] = x * P
            BY <1>5, <2>1
        <3> QED
            BY <3>2, <3>3
    <2>3. (x + y) * P = x * P + y * P
        OBVIOUS
    <2>4. e[k + 1] = h[k + 1] * P
        BY <2>2, <2>3
    <2> QED
        BY <2>4
<1>6. n \in S
    <2> HIDE DEF S
    <2>1. n \in 0..n
        OBVIOUS
    <2> QED
        BY <1>4, <1>5, <2>1, UpTo
<1> QED
    BY <1>1, <1>6

-----------------------------------------------------------------------------
(* The binary form of a session: strings                                   *)

Cell == [n : Int, bytes : Seq(0..255)]

Length(s) == IF s = NULL THEN 0 ELSE Len(s)

\* The longs of a string, and the string at q.
Wide(s) == SB!lenPAD(s) \div PAD

StrAt(z, q, s) ==
    /\ q \in Nat \ {0} /\ q + Wide(s) - 1 <= Len(z)
    /\ \A k \in 1..Wide(s) : z[q + k - 1] = SB!LongsOf(s)[k]

LEMMA StringIs ==
    ASSUME NEW s \in SB!CString
    PROVE  /\ Length(s) \in Nat
           /\ SB!Same(s) \in Seq(1..255) /\ Len(SB!Same(s)) = Length(s)
           /\ SB!Same(s) \in SB!CString
           /\ s # NULL => SB!Same(s) = s
<1>1. << >> \in Seq(1..255) /\ Len(<< >>) = 0
    BY EmptySeq
<1>2. CASE s = NULL
    BY <1>1, <1>2 DEF Length, SB!Same, SB!CString
<1>3. CASE s # NULL
    <2>1. s \in Seq(1..255)
        BY <1>3 DEF SB!CString
    <2>2. Len(s) \in Nat
        BY <2>1, LenProperties
    <2> QED
        BY <1>3, <2>1, <2>2 DEF Length, SB!Same, SB!CString
<1> QED
    BY <1>2, <1>3

LEMMA Rounded ==
    ASSUME NEW l \in Nat
    PROVE  \E w \in Nat \ {0} : /\ SB!LSTRPAD(l) = w * PAD /\ w * PAD \in Nat
                                /\ (w * PAD) \div PAD = w
                                /\ (w - 1) * PAD <= l /\ l < w * PAD
<1>1. PAD \in Nat \ {0}
    BY SessionsAssumption DEF SB!SessionsOK
<1>2. PICK w \in Nat, r \in 0..(PAD - 1) : w = (l + PAD) \div PAD /\ l + PAD = w * PAD + r
    <2>1. l + PAD \in Nat
        BY <1>1
    <2>2. /\ (l + PAD) \div PAD \in Nat /\ (l + PAD) % PAD \in 0..(PAD - 1)
          /\ l + PAD = ((l + PAD) \div PAD) * PAD + ((l + PAD) % PAD)
        BY <1>1, <2>1, Divided
    <2> QED
        BY <2>2
<1>3. w # 0
    <2>1. 0 * PAD = 0
        BY <1>1
    <2> QED
        BY <1>1, <1>2, <2>1
<1>4. w * PAD \in Nat
    BY <1>1, <1>3, TimesIsLarger
<1>5. (w - 1) * PAD = w * PAD - PAD
    BY <1>1
<1>6. (w * PAD) \div PAD = w
    <2>1. (w * PAD + 0) \div PAD = w
        BY <1>1, Quotient
    <2> QED
        BY <1>4, <2>1
<1>7. SB!LSTRPAD(l) = w * PAD
    BY <1>2 DEF SB!LSTRPAD
<1> QED
    BY <1>1, <1>2, <1>3, <1>4, <1>5, <1>6, <1>7

LEMMA WideIs ==
    ASSUME NEW s \in SB!CString
    PROVE  /\ Wide(s) \in Nat \ {0} /\ SB!lenPAD(s) = Wide(s) * PAD
           /\ (Wide(s) - 1) * PAD <= Length(s) /\ Length(s) < Wide(s) * PAD
           /\ SB!LSTRPAD(Length(s)) \div PAD = Wide(s)
           /\ SB!lenPAD(SB!Same(s)) = SB!lenPAD(s)
<1>1. PAD \in Nat \ {0}
    BY SessionsAssumption DEF SB!SessionsOK
<1>2. PICK l \in Nat : l = Length(s)
    BY StringIs
<1>3. PICK w \in Nat \ {0} : /\ SB!LSTRPAD(l) = w * PAD /\ w * PAD \in Nat
                             /\ (w * PAD) \div PAD = w
                             /\ (w - 1) * PAD <= l /\ l < w * PAD
    BY Rounded
<1>4. SB!LSTRPAD(0) = PAD
    <2>1. PICK x \in Nat \ {0} : SB!LSTRPAD(0) = x * PAD /\ (x - 1) * PAD <= 0
        BY Rounded
    <2>2. ASSUME x # 1 PROVE FALSE
        <3>1. x - 1 \in Nat \ {0}
            BY <2>2
        <3>2. (x - 1) * PAD >= PAD
            BY <1>1, <3>1, TimesIsLarger
        <3> QED
            BY <1>1, <2>1, <3>2
    <2> QED
        BY <1>1, <2>1, <2>2
<1>5. SB!lenPAD(s) = w * PAD
    BY <1>2, <1>3, <1>4 DEF SB!lenPAD, Length
<1>6. Wide(s) = w
    BY <1>3, <1>5 DEF Wide
<1>7. SB!lenPAD(SB!Same(s)) = SB!lenPAD(s)
    <2>1. Len(<< >>) = 0
        OBVIOUS
    <2> QED
        BY <1>4, <2>1 DEF SB!lenPAD, SB!Same
<1> QED
    BY <1>2, <1>3, <1>5, <1>6, <1>7

LEMMA LongsAre ==
    ASSUME NEW s \in SB!CString
    PROVE  /\ SB!LongsOf(s) \in Seq(Cell) /\ Len(SB!LongsOf(s)) = Wide(s)
           /\ \A k \in 1..Wide(s) :
                 /\ SB!LongsOf(s)[k].bytes # << >>
                 /\ \A i \in 1..PAD :
                       SB!LongsOf(s)[k].bytes[i] =
                           IF (k - 1) * PAD + i <= Length(s) THEN s[(k - 1) * PAD + i] ELSE 0
<1>1. PAD \in Nat \ {0}
    BY SessionsAssumption DEF SB!SessionsOK
<1>2. PICK w \in Nat \ {0} : w = Wide(s)
    BY WideIs
<1>3. Length(s) \in Nat /\ \A i \in 1..Length(s) : s[i] \in 1..255
    <2>1. CASE s = NULL
        BY <2>1 DEF Length
    <2>2. CASE s # NULL
        <3>1. s \in Seq(1..255) /\ Length(s) = Len(s)
            BY <2>2 DEF SB!CString, Length
        <3> QED
            BY <3>1, LenProperties
    <2> QED
        BY <2>1, <2>2
<1> DEFINE byte(j) == IF j <= Length(s) THEN s[j] ELSE 0
           bytes(k) == [i \in 1..PAD |-> byte((k - 1) * PAD + i)]
<1>4. SB!LongsOf(s) = [k \in 1..w |-> [n |-> 0, bytes |-> bytes(k)]]
    BY <1>2 DEF SB!LongsOf, SB!Text, Wide, Length
<1>5. ASSUME NEW k \in 1..w PROVE bytes(k) \in Seq(0..255) /\ bytes(k) # << >>
    <2>1. ASSUME NEW i \in 1..PAD PROVE byte((k - 1) * PAD + i) \in 0..255
        <3>1. PICK j \in Nat \ {0} : j = (k - 1) * PAD + i
            <4>1. \A a \in Nat, b \in Nat : a * b \in Nat
                OBVIOUS
            <4>2. (k - 1) * PAD \in Nat
                BY <1>1, <4>1
            <4> QED
                BY <4>2
        <3>2. byte(j) \in 0..255
            BY <1>3
        <3> QED
            BY <3>1, <3>2
    <2> HIDE DEF byte
    <2>2. bytes(k) \in [1..PAD -> 0..255]
        BY <2>1
    <2>3. bytes(k) \in Seq(0..255) /\ Len(bytes(k)) = PAD
        <3> HIDE DEF bytes
        <3> QED
            BY <1>1, <2>2, SeqDef, LenProperties
    <2>4. bytes(k) # << >>
        <3> HIDE DEF bytes
        <3> QED
            BY <1>1, <2>3, EmptySeq
    <2> QED
        BY <2>3, <2>4
<1>6. SB!LongsOf(s) \in [1..w -> Cell]
    <2> HIDE DEF bytes
    <2> QED
        BY <1>4, <1>5 DEF Cell
<1>7. SB!LongsOf(s) \in Seq(Cell) /\ Len(SB!LongsOf(s)) = w
    BY <1>6, SeqDef, LenProperties
<1>8. ASSUME NEW k \in 1..w, NEW i \in 1..PAD
      PROVE  SB!LongsOf(s)[k].bytes[i] = byte((k - 1) * PAD + i)
    <2> HIDE DEF byte
    <2>1. SB!LongsOf(s)[k].bytes = bytes(k)
        <3> HIDE DEF bytes
        <3> QED
            BY <1>4
    <2> QED
        BY <2>1
<1>9. \A k \in 1..w : SB!LongsOf(s)[k].bytes # << >>
    <2> HIDE DEF bytes
    <2> QED
        BY <1>4, <1>5
<1> QED
    BY <1>2, <1>7, <1>8, <1>9

LEMMA BytesBeforeIs ==
    ASSUME NEW x, NEW m \in 0..PAD, \A i \in 1..m : x.bytes[i] # 0, m < PAD => x.bytes[m + 1] = 0
    PROVE  SB!BytesBefore(x) = m
<1>1. PAD \in Nat \ {0}
    BY SessionsAssumption DEF SB!SessionsOK
<1> DEFINE Ends(l) == (\A i \in 1..l : x.bytes[i] # 0) /\ (l < PAD => x.bytes[l + 1] = 0)
<1>2. ASSUME NEW l \in 0..PAD, Ends(l) PROVE l = m
    <2>1. CASE l < m
        <3>1. l + 1 \in 1..m /\ l < PAD
            BY <1>1, <2>1
        <3> QED
            BY <1>2, <3>1
    <2>2. CASE m < l
        <3>1. m + 1 \in 1..l /\ m < PAD
            BY <1>1, <2>2
        <3> QED
            BY <1>2, <3>1
    <2> QED
        BY <1>1, <2>1, <2>2
<1>3. Ends(m)
    OBVIOUS
<1>4. SB!BytesBefore(x) = CHOOSE l \in 0..PAD : Ends(l)
    BY DEF SB!BytesBefore
<1>5. (CHOOSE l \in 0..PAD : Ends(l)) \in 0..PAD /\ Ends(CHOOSE l \in 0..PAD : Ends(l))
    <2> HIDE DEF Ends
    <2> QED
        BY <1>3
<1> QED
    BY <1>2, <1>4, <1>5

\* A string that is in the memory is read as it was written, and p moves past it.
LEMMA StringRead ==
    ASSUME NEW s \in SB!CString, NEW q \in Nat \ {0}, sb_bin \in Seq(Cell), StrAt(sb_bin, q, s)
    PROVE  /\ SB!strlen(q) \in Nat
           /\ SB!StringAt(q) = SB!Same(s)
           /\ SB!After(q) = q + Wide(s)
<1>1. PAD \in Nat \ {0}
    BY SessionsAssumption DEF SB!SessionsOK
<1>2. PICK w \in Nat \ {0}, l \in Nat :
          /\ w = Wide(s) /\ l = Length(s)
          /\ (w - 1) * PAD <= l /\ l < w * PAD /\ SB!LSTRPAD(l) \div PAD = w
    BY StringIs, WideIs
<1>3. DOMAIN sb_bin = 1..Len(sb_bin) /\ Len(sb_bin) \in Nat
    BY LenProperties
<1>4. \A k \in 1..w : q + k - 1 \in DOMAIN sb_bin /\ sb_bin[q + k - 1] = SB!LongsOf(s)[k]
    BY <1>2, <1>3 DEF StrAt
<1>5. \A k \in 1..w : SB!IsText(q + k - 1)
    BY <1>2, <1>4, LongsAre DEF SB!IsText
<1>6. \A j \in 1..l : s[j] # 0
    <2>1. CASE s = NULL
        BY <1>2, <2>1 DEF Length
    <2>2. CASE s # NULL
        <3>1. s \in Seq(1..255) /\ l = Len(s)
            BY <1>2, <2>2 DEF SB!CString, Length
        <3>2. \A j \in 1..l : s[j] \in 1..255
            BY <3>1, LenProperties
        <3>3. \A x \in 1..255 : x # 0
            OBVIOUS
        <3> QED
            BY <3>2, <3>3
    <2> QED
        BY <2>1, <2>2
<1>7. \A k \in 1..w, i \in 1..PAD :
          sb_bin[q + k - 1].bytes[i] = IF (k - 1) * PAD + i <= l THEN s[(k - 1) * PAD + i] ELSE 0
    BY <1>2, <1>4, LongsAre
<1>8. ASSUME NEW k \in 1..(w - 1) PROVE SB!BytesBefore(sb_bin[q + k - 1]) = PAD
    <2>1. PICK a \in Nat : a = (k - 1) * PAD
        <3>1. \A x \in Nat, y \in Nat : x * y \in Nat
            OBVIOUS
        <3> QED
            BY <1>1, <3>1
    <2>2. a + PAD <= l
        <3>1. a + PAD = k * PAD
            BY <1>1, <2>1
        <3>2. k * PAD <= (w - 1) * PAD
            <4>1. w - 1 \in Nat /\ k <= w - 1 /\ k \in Nat
                OBVIOUS
            <4> QED
                BY <1>1, <4>1, TimesGrows
        <3> QED
            BY <1>1, <1>2, <3>1, <3>2
    <2>3. \A i \in 1..PAD : sb_bin[q + k - 1].bytes[i] # 0
        <3> SUFFICES ASSUME NEW i \in 1..PAD PROVE sb_bin[q + k - 1].bytes[i] # 0
            OBVIOUS
        <3>1. k \in 1..w
            OBVIOUS
        <3>2. sb_bin[q + k - 1].bytes[i] =
                  IF (k - 1) * PAD + i <= l THEN s[(k - 1) * PAD + i] ELSE 0
            BY <1>7, <3>1
        <3>3. PICK j \in 1..l : j = (k - 1) * PAD + i
            BY <1>1, <2>1, <2>2
        <3>4. sb_bin[q + k - 1].bytes[i] = s[j]
            BY <3>2, <3>3
        <3> QED
            BY <1>6, <3>4
    <2>4. PAD \in 0..PAD /\ ~(PAD < PAD)
        BY <1>1
    <2>5. PICK x : x = sb_bin[q + k - 1]
        OBVIOUS
    <2>6. \A i \in 1..PAD : x.bytes[i] # 0
        BY <2>3, <2>5
    <2>7. SB!BytesBefore(x) = PAD
        BY <2>4, <2>6, BytesBeforeIs
    <2> QED
        BY <2>5, <2>7
<1>9. PICK m \in 0..(PAD - 1) : m = l - (w - 1) * PAD /\ l = (w - 1) * PAD + m
    <2>1. w * PAD = (w - 1) * PAD + PAD
        BY <1>1
    <2>2. (w - 1) * PAD \in Nat
        <3>1. \A x \in Nat, y \in Nat : x * y \in Nat
            OBVIOUS
        <3> QED
            BY <1>1, <3>1
    <2>3. PICK a \in Nat : a = (w - 1) * PAD /\ w * PAD = a + PAD
        BY <2>1, <2>2
    <2>4. a <= l /\ l < a + PAD
        BY ONLY <1>2, <2>3
    <2>5. PICK m \in Nat : m = l - a
        BY ONLY <1>2, <2>3, <2>4, SMTT(20)
    <2>6. m \in 0..(PAD - 1) /\ l = a + m
        BY ONLY <1>1, <1>2, <2>3, <2>4, <2>5, SMTT(20)
    <2> QED
        BY ONLY <2>3, <2>5, <2>6
<1>10. SB!BytesBefore(sb_bin[q + w - 1]) = m
    <2>1. PICK a \in Nat : a = (w - 1) * PAD
        <3>1. \A x \in Nat, y \in Nat : x * y \in Nat
            OBVIOUS
        <3> QED
            BY <1>1, <3>1
    <2>2. l = a + m
        BY <1>9, <2>1
    <2>3. ASSUME NEW i \in 1..PAD, NEW j \in Nat, j = a + i
          PROVE  sb_bin[q + w - 1].bytes[i] = IF j <= l THEN s[j] ELSE 0
        <3>1. w \in 1..w
            OBVIOUS
        <3>2. sb_bin[q + w - 1].bytes[i] =
                  IF (w - 1) * PAD + i <= l THEN s[(w - 1) * PAD + i] ELSE 0
            BY <1>7, <3>1
        <3>3. j = (w - 1) * PAD + i
            BY <2>1, <2>3
        <3> QED
            BY <3>2, <3>3
    <2>5. ASSUME NEW i \in 1..m PROVE sb_bin[q + w - 1].bytes[i] # 0
        <3>1. PICK j \in 1..l : j = a + i /\ i \in 1..PAD
            BY <1>1, <2>2
        <3>2. sb_bin[q + w - 1].bytes[i] = s[j]
            BY <2>3, <3>1
        <3> QED
            BY <1>6, <3>2
    <2>6. sb_bin[q + w - 1].bytes[m + 1] = 0
        <3>1. PICK j \in Nat : j = a + (m + 1) /\ m + 1 \in 1..PAD /\ ~(j <= l)
            BY <1>1, <2>2
        <3> QED
            BY <2>3, <3>1
    <2>7. m \in 0..PAD
        BY <1>1
    <2> QED
        <3>1. PICK x : x = sb_bin[q + w - 1]
            OBVIOUS
        <3>2. (\A i \in 1..m : x.bytes[i] # 0) /\ x.bytes[m + 1] = 0
            BY <2>5, <2>6, <3>1
        <3>3. SB!BytesBefore(x) = m
            BY <2>7, <3>2, BytesBeforeIs
        <3> QED
            BY <3>1, <3>3
<1> DEFINE ends == {k \in DOMAIN sb_bin :
                       /\ k >= q /\ SB!IsText(k) /\ SB!BytesBefore(sb_bin[k]) < PAD
                       /\ \A j \in q..(k - 1) : SB!IsText(j) /\ SB!BytesBefore(sb_bin[j]) = PAD}
<1>11. PICK e \in DOMAIN sb_bin : e = q + w - 1
    <2>1. w \in 1..w
        OBVIOUS
    <2>2. q + w - 1 \in DOMAIN sb_bin
        BY <1>4, <2>1
    <2> QED
        BY <2>2
<1>12. \A j \in q..(e - 1) : SB!IsText(j) /\ SB!BytesBefore(sb_bin[j]) = PAD
    <2> SUFFICES ASSUME NEW j \in q..(e - 1)
                 PROVE  SB!IsText(j) /\ SB!BytesBefore(sb_bin[j]) = PAD
        OBVIOUS
    <2>1. PICK k \in 1..(w - 1) : j = q + k - 1
        <3>1. j - q + 1 \in 1..(w - 1) /\ j = q + (j - q + 1) - 1
            BY <1>11
        <3> QED
            BY <3>1
    <2>2. k \in 1..w
        OBVIOUS
    <2> QED
        BY <1>5, <1>8, <2>1, <2>2
<1>13. ends = {e}
    <2>1. e \in ends
        <3>1. w \in 1..w
            OBVIOUS
        <3>2. e >= q /\ SB!IsText(e) /\ SB!BytesBefore(sb_bin[e]) < PAD
            BY <1>1, <1>5, <1>10, <1>11, <3>1
        <3> QED
            BY <1>12, <3>2
    <2>2. ASSUME NEW k \in ends PROVE k = e
        <3>1. k \in Nat /\ k >= q /\ e \in Nat
            BY <1>3
        <3>2. CASE k < e
            <4>1. k \in q..(e - 1)
                BY <1>11, <3>1, <3>2
            <4>2. SB!BytesBefore(sb_bin[k]) = PAD /\ SB!BytesBefore(sb_bin[k]) < PAD
                BY <1>12, <4>1
            <4> QED
                BY <1>1, <4>2
        <3>3. CASE k > e
            <4>1. e \in q..(k - 1)
                BY <1>11, <3>1, <3>3
            <4>2. SB!BytesBefore(sb_bin[e]) = PAD
                BY <4>1
            <4> QED
                BY <1>1, <1>10, <1>11, <4>2
        <3> QED
            BY <3>1, <3>2, <3>3
    <2> QED
        BY <2>1, <2>2
<1>14. SB!LastLong(q) = e
    <2>1. SB!LastLong(q) = IF ends = {} THEN 0 ELSE CHOOSE k \in ends : TRUE
        BY DEF SB!LastLong
    <2> HIDE DEF ends
    <2> QED
        BY <1>13, <2>1
<1>15. SB!strlen(q) = l
    <2>1. e # 0 /\ e - q = w - 1
        BY <1>11
    <2> QED
        BY <1>9, <1>10, <1>11, <1>14, <2>1 DEF SB!strlen
<1>16. SB!After(q) = q + w
    BY <1>2, <1>15 DEF SB!After
<1>17. SB!StringAt(q) = SB!Same(s)
    <2>1. SB!StringAt(q) =
              [i \in 1..l |-> sb_bin[q + ((i - 1) \div PAD)].bytes[((i - 1) % PAD) + 1]]
        BY <1>15 DEF SB!StringAt
    <2>2. ASSUME NEW i \in 1..l
          PROVE  sb_bin[q + ((i - 1) \div PAD)].bytes[((i - 1) % PAD) + 1] = s[i]
        <3>1. PICK d \in Nat, r \in 0..(PAD - 1) :
                  d = (i - 1) \div PAD /\ r = (i - 1) % PAD /\ i - 1 = d * PAD + r
            <4>1. i - 1 \in Nat
                OBVIOUS
            <4> QED
                BY <1>1, <4>1, Divided
        <3>2. d < w
            <4> SUFFICES ASSUME d >= w PROVE FALSE
                OBVIOUS
            <4>1. w * PAD <= d * PAD
                BY <1>1, TimesGrows
            <4>2. d * PAD <= i - 1 /\ i - 1 < l
                BY <1>1, <3>1
            <4>3. PICK u \in Nat, v \in Nat : u = w * PAD /\ v = d * PAD
                BY <1>1, TimesGrows
            <4>4. u <= v /\ v <= i - 1 /\ i - 1 < l /\ l < u
                BY <1>2, <4>1, <4>2, <4>3
            <4> QED
                BY <4>4
        <3>3. d + 1 \in 1..w /\ r + 1 \in 1..PAD /\ (d + 1) - 1 = d
            BY <1>1, <3>2
        <3>4. d * PAD + (r + 1) = i
            BY <1>1, <3>1
        <3>5. sb_bin[q + d].bytes[r + 1] = s[i]
            <4>1. q + (d + 1) - 1 = q + d
                OBVIOUS
            <4>2. sb_bin[q + (d + 1) - 1].bytes[r + 1] =
                      IF ((d + 1) - 1) * PAD + (r + 1) <= l
                      THEN s[((d + 1) - 1) * PAD + (r + 1)] ELSE 0
                BY <1>7, <3>3
            <4>3. ((d + 1) - 1) * PAD + (r + 1) = i
                BY <3>3, <3>4
            <4> QED
                BY <4>1, <4>2, <4>3
        <3> QED
            BY <3>1, <3>5
    <2>3. SB!StringAt(q) = [i \in 1..l |-> s[i]]
        BY <2>1, <2>2
    <2>4. CASE s = NULL
        <3>1. l = 0
            BY <1>2, <2>4 DEF Length
        <3>2. SB!StringAt(q) \in [1..0 -> {}]
            BY <2>3, <3>1
        <3>3. SB!StringAt(q) \in Seq({}) /\ Len(SB!StringAt(q)) = 0
            BY <3>2, SeqDef, LenProperties
        <3> QED
            BY <2>4, <3>3, EmptySeq DEF SB!Same
    <2>5. CASE s # NULL
        <3>1. s \in Seq(1..255) /\ l = Len(s)
            BY <1>2, <2>5 DEF SB!CString, Length
        <3>2. s = [i \in 1..l |-> s[i]]
            BY <3>1, LenProperties
        <3> QED
            BY <2>3, <2>5, <3>2 DEF SB!Same
    <2> QED
        BY <2>4, <2>5
<1> QED
    BY <1>2, <1>15, <1>16, <1>17

-----------------------------------------------------------------------------
(* The binary form of a session: places                                    *)

CollWide(c) == 2 + Wide(c.name) + Wide(c.prefs)

AtHost(b, q)   == q + 2 + Wide(b.viewname)
AtPort(b, q)   == AtHost(b, q) + Wide(b.host)
AtPasswd(b, q) == AtPort(b, q) + 1 + Wide(b.user)
AtDbname(b, q) == AtPasswd(b, q) + Wide(b.passwd)
AtXml(b, q)    == AtDbname(b, q) + Wide(b.dbname)
AtCount(b, q)  == AtXml(b, q) + Wide(b.xmlstruct)

HeadWide(b) == AtCount(b, 0) + 1

\* The first k collections of a databox, a databox, the first i databoxes.
CollsWide(b, k) == SB!Total([m \in DOMAIN b.colls |-> CollWide(b.colls[m])], k)
BaseWide(b)     == HeadWide(b) + CollsWide(b, Len(b.colls))
BasesWide(l, i) == SB!Total([m \in DOMAIN l |-> BaseWide(l[m])], i)

BaseStart(l, i)    == 3 + BasesWide(l, i - 1)
CollStart(l, i, k) == BaseStart(l, i) + HeadWide(l[i]) + CollsWide(l[i], k - 1)

LEMMA CollIs ==
    ASSUME NEW c \in SB!CacheColl
    PROVE  /\ c.coll_id \in Int /\ c.base_id \in Int
           /\ c.name \in SB!CString /\ c.prefs \in SB!CString
           /\ Wide(c.name) \in Nat \ {0} /\ Wide(c.prefs) \in Nat \ {0} /\ CollWide(c) \in Nat \ {0}
<1>1. c.coll_id \in Int /\ c.base_id \in Int /\ c.name \in SB!CString /\ c.prefs \in SB!CString
    BY DEF SB!CacheColl
<1>2. Wide(c.name) \in Nat \ {0} /\ Wide(c.prefs) \in Nat \ {0}
    BY <1>1, WideIs
<1> QED
    BY <1>1, <1>2 DEF CollWide

LEMMA BaseIs ==
    ASSUME NEW b \in SB!CacheBase
    PROVE  /\ b.base_id \in Int /\ b.sbas_id \in Int /\ b.port \in Int
           /\ b.viewname \in SB!CString /\ b.host \in SB!CString /\ b.user \in SB!CString
           /\ b.passwd \in SB!CString /\ b.dbname \in SB!CString /\ b.xmlstruct \in SB!CString
           /\ b.colls \in Seq(SB!CacheColl) /\ Len(b.colls) \in Nat
           /\ DOMAIN b.colls = 1..Len(b.colls)
           /\ \A k \in 1..Len(b.colls) : b.colls[k] \in SB!CacheColl
<1>1. /\ b.base_id \in Int /\ b.sbas_id \in Int /\ b.port \in Int
      /\ b.viewname \in SB!CString /\ b.host \in SB!CString /\ b.user \in SB!CString
      /\ b.passwd \in SB!CString /\ b.dbname \in SB!CString /\ b.xmlstruct \in SB!CString
      /\ b.colls \in Seq(SB!CacheColl)
    BY DEF SB!CacheBase
<1> QED
    BY <1>1, LenProperties

LEMMA HeadIs ==
    ASSUME NEW b \in SB!CacheBase
    PROVE  /\ Wide(b.viewname) \in Nat \ {0} /\ Wide(b.host) \in Nat \ {0}
           /\ Wide(b.user) \in Nat \ {0} /\ Wide(b.passwd) \in Nat \ {0}
           /\ Wide(b.dbname) \in Nat \ {0} /\ Wide(b.xmlstruct) \in Nat \ {0}
           /\ HeadWide(b) \in Nat \ {0}
           /\ HeadWide(b) = 4 + Wide(b.viewname) + Wide(b.host) + Wide(b.user) + Wide(b.passwd)
                              + Wide(b.dbname) + Wide(b.xmlstruct)
           /\ \A q \in Nat : AtCount(b, q) = q + HeadWide(b) - 1
<1>1. /\ Wide(b.viewname) \in Nat \ {0} /\ Wide(b.host) \in Nat \ {0}
      /\ Wide(b.user) \in Nat \ {0} /\ Wide(b.passwd) \in Nat \ {0}
      /\ Wide(b.dbname) \in Nat \ {0} /\ Wide(b.xmlstruct) \in Nat \ {0}
    BY BaseIs, WideIs
<1> QED
    BY <1>1 DEF HeadWide, AtCount, AtXml, AtDbname, AtPasswd, AtPort, AtHost

LEMMA CollsWideIs ==
    ASSUME NEW b \in SB!CacheBase
    PROVE  /\ CollsWide(b, 0) = 0
           /\ \A k \in 0..Len(b.colls) : CollsWide(b, k) \in Nat
           /\ \A k \in 1..Len(b.colls) : CollsWide(b, k) = CollsWide(b, k - 1) + CollWide(b.colls[k])
           /\ \A k \in 0..Len(b.colls) : CollsWide(b, k) <= CollsWide(b, Len(b.colls))
<1>1. PICK n, f : n \in Nat /\ n = Len(b.colls) /\ f = [m \in 1..n |-> CollWide(b.colls[m])]
    BY BaseIs
<1>2. f \in [1..n -> Nat] /\ f = [m \in DOMAIN b.colls |-> CollWide(b.colls[m])]
    <2>1. \A m \in 1..n : CollWide(b.colls[m]) \in Nat
        BY <1>1, BaseIs, CollIs
    <2> QED
        BY <1>1, <2>1, BaseIs
<1>3. \A k : CollsWide(b, k) = SB!Total(f, k)
    BY <1>2 DEF CollsWide
<1>4. /\ SB!Total(f, 0) = 0
      /\ \A k \in 0..n : SB!Total(f, k) \in Nat
      /\ \A k \in 1..n : SB!Total(f, k) = SB!Total(f, k - 1) + f[k]
    BY <1>1, <1>2, TotalStep
<1>5. \A k \in 0..n : SB!Total(f, k) <= SB!Total(f, n)
    <2> SUFFICES ASSUME NEW k \in 0..n PROVE SB!Total(f, k) <= SB!Total(f, n)
        OBVIOUS
    <2>1. n \in k..n /\ k \in 0..n /\ n \in Nat
        BY <1>1
    <2> QED
        BY <1>2, <2>1, TotalGrows
<1> QED
    BY <1>1, <1>3, <1>4, <1>5

LEMMA BaseWideIs ==
    ASSUME NEW b \in SB!CacheBase
    PROVE  BaseWide(b) \in Nat \ {0} /\ HeadWide(b) <= BaseWide(b)
<1>1. CollsWide(b, Len(b.colls)) \in Nat
    BY CollsWideIs, BaseIs
<1>2. PICK h \in Nat \ {0}, w \in Nat : h = HeadWide(b) /\ w = CollsWide(b, Len(b.colls))
    BY <1>1, HeadIs
<1>3. BaseWide(b) = h + w
    BY <1>2 DEF BaseWide
<1> QED
    BY <1>2, <1>3

LEMMA BasesWideIs ==
    ASSUME NEW l \in Seq(SB!CacheBase)
    PROVE  /\ BasesWide(l, 0) = 0
           /\ \A i \in 0..Len(l) : BasesWide(l, i) \in Nat
           /\ \A i \in 1..Len(l) : BasesWide(l, i) = BasesWide(l, i - 1) + BaseWide(l[i])
           /\ \A i \in 0..Len(l), m \in 0..Len(l) : i <= m => BasesWide(l, i) <= BasesWide(l, m)
<1>0. Len(l) \in Nat /\ DOMAIN l = 1..Len(l) /\ \A m \in 1..Len(l) : l[m] \in SB!CacheBase
    BY LenProperties
<1>1. PICK n, f : n \in Nat /\ n = Len(l) /\ f = [m \in 1..n |-> BaseWide(l[m])]
    BY <1>0
<1>2. f \in [1..n -> Nat] /\ f = [m \in DOMAIN l |-> BaseWide(l[m])]
    <2>1. \A m \in 1..n : BaseWide(l[m]) \in Nat
        BY <1>0, <1>1, BaseWideIs
    <2> QED
        BY <1>0, <1>1, <2>1
<1>3. \A k : BasesWide(l, k) = SB!Total(f, k)
    BY <1>2 DEF BasesWide
<1>4. /\ SB!Total(f, 0) = 0
      /\ \A k \in 0..n : SB!Total(f, k) \in Nat
      /\ \A k \in 1..n : SB!Total(f, k) = SB!Total(f, k - 1) + f[k]
    BY <1>1, <1>2, TotalStep
<1>5. \A i \in 0..n, m \in 0..n : i <= m => SB!Total(f, i) <= SB!Total(f, m)
    <2> SUFFICES ASSUME NEW i \in 0..n, NEW m \in 0..n, i <= m
                 PROVE  SB!Total(f, i) <= SB!Total(f, m)
        OBVIOUS
    <2>1. m \in i..n /\ n \in Nat
        BY <1>1
    <2> QED
        BY <1>2, <2>1, TotalGrows
<1> QED
    BY <1>1, <1>3, <1>4, <1>5

\* Where a databox and its collections are.
LEMMA Places ==
    ASSUME NEW l \in Seq(SB!CacheBase), NEW i \in 1..Len(l)
    PROVE  /\ BaseStart(l, 1) = 3
           /\ BaseStart(l, i) \in Nat /\ BaseStart(l, i) >= 3
           /\ BaseStart(l, i + 1) \in Nat
           /\ \A m \in 1..Len(l) : m < i => BaseStart(l, m + 1) <= BaseStart(l, i)
           /\ BaseStart(l, i + 1) <= BaseStart(l, Len(l) + 1)
           /\ CollStart(l, i, 1) = BaseStart(l, i) + HeadWide(l[i])
           /\ CollStart(l, i, Len(l[i].colls) + 1) = BaseStart(l, i + 1)
           /\ \A k \in 1..(Len(l[i].colls) + 1) :
                 /\ CollStart(l, i, k) \in Nat
                 /\ BaseStart(l, i) + HeadWide(l[i]) <= CollStart(l, i, k)
                 /\ CollStart(l, i, k) <= BaseStart(l, i + 1)
           /\ \A k \in 1..Len(l[i].colls) :
                 CollStart(l, i, k + 1) = CollStart(l, i, k) + CollWide(l[i].colls[k])
<1>1. Len(l) \in Nat /\ l[i] \in SB!CacheBase
    BY LenProperties
<1>2. PICK n \in Nat, N \in Nat : n = Len(l[i].colls) /\ N = Len(l)
    BY <1>1, BaseIs
<1>3. /\ BasesWide(l, 0) = 0
      /\ \A m \in 0..N : BasesWide(l, m) \in Nat
      /\ BasesWide(l, i) = BasesWide(l, i - 1) + BaseWide(l[i])
      /\ \A m \in 0..N, k \in 0..N : m <= k => BasesWide(l, m) <= BasesWide(l, k)
    BY <1>2, BasesWideIs
<1>4. /\ CollsWide(l[i], 0) = 0
      /\ \A k \in 0..n : CollsWide(l[i], k) \in Nat /\ CollsWide(l[i], k) <= CollsWide(l[i], n)
      /\ \A k \in 1..n : CollsWide(l[i], k) = CollsWide(l[i], k - 1) + CollWide(l[i].colls[k])
    BY <1>1, <1>2, CollsWideIs
<1>5. HeadWide(l[i]) \in Nat /\ BaseWide(l[i]) = HeadWide(l[i]) + CollsWide(l[i], n)
    BY <1>1, <1>2, HeadIs DEF BaseWide
<1>6. PICK s \in Nat, h \in Nat : s = BasesWide(l, i - 1) /\ h = HeadWide(l[i])
    BY <1>2, <1>3, <1>5
<1>7. BaseStart(l, i) = 3 + s /\ BaseStart(l, i + 1) = 3 + s + h + CollsWide(l[i], n)
    <2>1. CollsWide(l[i], n) \in Nat /\ (i + 1) - 1 = i
        BY <1>4
    <2> QED
        BY <1>3, <1>5, <1>6, <2>1 DEF BaseStart
<1>8. \A k \in 1..(n + 1) : CollStart(l, i, k) = 3 + s + h + CollsWide(l[i], k - 1)
    BY <1>6, <1>7 DEF CollStart
<1>9. BaseStart(l, 1) = 3
    BY <1>3 DEF BaseStart
<1>10. \A m \in 1..N : m < i => BaseStart(l, m + 1) <= BaseStart(l, i)
    <2> SUFFICES ASSUME NEW m \in 1..N, m < i PROVE BaseStart(l, m + 1) <= BaseStart(l, i)
        OBVIOUS
    <2>1. m \in 0..N /\ i - 1 \in 0..N /\ m <= i - 1 /\ (m + 1) - 1 = m
        BY <1>2
    <2> QED
        BY <1>3, <2>1 DEF BaseStart
<1>11. BaseStart(l, i + 1) <= BaseStart(l, N + 1)
    <2>1. i \in 0..N /\ N \in 0..N /\ i <= N /\ (i + 1) - 1 = i /\ (N + 1) - 1 = N
        BY <1>2
    <2> QED
        BY <1>3, <2>1 DEF BaseStart
<1>12. ASSUME NEW k \in 1..(n + 1)
       PROVE  /\ CollStart(l, i, k) \in Nat
              /\ BaseStart(l, i) + HeadWide(l[i]) <= CollStart(l, i, k)
              /\ CollStart(l, i, k) <= BaseStart(l, i + 1)
    <2>1. k - 1 \in 0..n
        OBVIOUS
    <2>2. CollsWide(l[i], k - 1) \in Nat /\ CollsWide(l[i], k - 1) <= CollsWide(l[i], n)
        BY <1>4, <2>1
    <2>3. CollsWide(l[i], n) \in Nat
        BY <1>4
    <2>4. PICK x \in Nat, y \in Nat : x = CollsWide(l[i], k - 1) /\ y = CollsWide(l[i], n) /\ x <= y
        BY <2>2, <2>3
    <2>5. CollStart(l, i, k) = 3 + s + h + x
        BY <1>8, <2>4
    <2>6. BaseStart(l, i) + HeadWide(l[i]) = 3 + s + h /\ BaseStart(l, i + 1) = 3 + s + h + y
        BY <1>6, <1>7, <2>4
    <2> QED
        BY <2>4, <2>5, <2>6
<1>13. ASSUME NEW k \in 1..n
       PROVE  CollStart(l, i, k + 1) = CollStart(l, i, k) + CollWide(l[i].colls[k])
    <2>1. k \in 1..(n + 1) /\ k + 1 \in 1..(n + 1) /\ (k + 1) - 1 = k /\ k \in 0..n /\ k - 1 \in 0..n
        OBVIOUS
    <2>2. l[i].colls[k] \in SB!CacheColl
        BY <1>1, <1>2, BaseIs
    <2>3. CollWide(l[i].colls[k]) \in Nat /\ CollsWide(l[i], k - 1) \in Nat
        BY <1>4, <2>1, <2>2, CollIs
    <2> QED
        BY <1>4, <1>8, <2>1, <2>3
<1>14. CollStart(l, i, 1) = BaseStart(l, i) + HeadWide(l[i])
    <2>1. 1 \in 1..(n + 1)
        OBVIOUS
    <2> QED
        BY <1>4, <1>6, <1>7, <1>8, <2>1
<1>15. CollStart(l, i, n + 1) = BaseStart(l, i + 1)
    <2>1. n + 1 \in 1..(n + 1) /\ (n + 1) - 1 = n
        OBVIOUS
    <2> QED
        BY <1>7, <1>8, <2>1
<1>16. BaseStart(l, i) \in Nat /\ BaseStart(l, i) >= 3 /\ BaseStart(l, i + 1) \in Nat
    <2>1. CollsWide(l[i], n) \in Nat
        BY <1>4
    <2> QED
        BY <1>7, <2>1
<1> QED
    BY <1>2, <1>9, <1>10, <1>11, <1>12, <1>13, <1>14, <1>15, <1>16

-----------------------------------------------------------------------------
(* The binary form of a session: what is in the memory                     *)

\* u holds what z holds, but at x.
Agree(z, u, x) == Len(z) <= Len(u) /\ \A k \in 1..Len(z) : k # x => u[k] = z[k]

HeadAt(z, q, b, n) ==
    /\ q \in Nat \ {0} /\ AtCount(b, q) <= Len(z)
    /\ z[q] = SB!Long(b.base_id) /\ z[q + 1] = SB!Long(b.sbas_id)
    /\ StrAt(z, q + 2, b.viewname) /\ StrAt(z, AtHost(b, q), b.host)
    /\ z[AtPort(b, q)] = SB!Long(b.port) /\ StrAt(z, AtPort(b, q) + 1, b.user)
    /\ StrAt(z, AtPasswd(b, q), b.passwd) /\ StrAt(z, AtDbname(b, q), b.dbname)
    /\ StrAt(z, AtXml(b, q), b.xmlstruct)
    /\ z[AtCount(b, q)] = SB!Long(n)

CollAt(z, q, c) ==
    /\ q \in Nat \ {0}
    /\ z[q] = SB!Long(c.coll_id) /\ z[q + 1] = SB!Long(c.base_id)
    /\ StrAt(z, q + 2, c.name) /\ StrAt(z, q + 2 + Wide(c.name), c.prefs)

LEMMA ConcatCells ==
    ASSUME NEW y \in Seq(Cell), NEW z \in Seq(Cell)
    PROVE  /\ y \o z \in Seq(Cell) /\ Len(y \o z) = Len(y) + Len(z)
           /\ Len(y) \in Nat /\ Len(z) \in Nat
           /\ \A k \in 1..Len(y) : (y \o z)[k] = y[k]
           /\ \A k \in 1..Len(z) : (y \o z)[Len(y) + k] = z[k]
           /\ Agree(y, y \o z, 0)
<1>1. /\ y \o z \in Seq(Cell) /\ Len(y \o z) = Len(y) + Len(z)
      /\ Len(y) \in Nat /\ Len(z) \in Nat
      /\ \A i \in 1..(Len(y) + Len(z)) : (y \o z)[i] = IF i <= Len(y) THEN y[i] ELSE z[i - Len(y)]
    BY ConcatProperties, LenProperties
<1>2. PICK m \in Nat, n \in Nat, u \in Seq(Cell) : m = Len(y) /\ n = Len(z) /\ u = y \o z
    BY <1>1
<1>3. /\ Len(u) = m + n
      /\ \A i \in 1..(m + n) : u[i] = IF i <= m THEN y[i] ELSE z[i - m]
    BY <1>1, <1>2
<1>4. \A k \in 1..m : u[k] = y[k]
    BY <1>3
<1>5. ASSUME NEW k \in 1..n PROVE u[m + k] = z[k]
    <2>1. m + k \in 1..(m + n) /\ ~(m + k <= m) /\ (m + k) - m = k
        OBVIOUS
    <2> QED
        BY <1>3, <2>1
<1> QED
    BY <1>1, <1>2, <1>3, <1>4, <1>5 DEF Agree

LEMMA StrKept ==
    ASSUME NEW z \in Seq(Cell), NEW u \in Seq(Cell), NEW x \in Nat, Agree(z, u, x),
           NEW s \in SB!CString, NEW q, StrAt(z, q, s), x < q \/ x >= q + Wide(s)
    PROVE  StrAt(u, q, s)
<1>1. PICK w \in Nat \ {0}, m \in Nat, n \in Nat : w = Wide(s) /\ m = Len(z) /\ n = Len(u)
    BY WideIs, LenProperties
<1>2. /\ q \in Nat \ {0} /\ q + w - 1 <= m
      /\ \A k \in 1..w : z[q + k - 1] = SB!LongsOf(s)[k]
    BY <1>1 DEF StrAt
<1>3. m <= n /\ \A k \in 1..m : k # x => u[k] = z[k]
    BY <1>1 DEF Agree
<1>4. ASSUME NEW k \in 1..w PROVE u[q + k - 1] = z[q + k - 1]
    <2>1. q + k - 1 \in 1..m /\ q + k - 1 # x
        BY <1>1, <1>2
    <2> QED
        BY <1>3, <2>1
<1>5. q + w - 1 <= n
    BY <1>2, <1>3
<1> QED
    BY <1>1, <1>2, <1>4, <1>5 DEF StrAt

LEMMA StrMade ==
    ASSUME NEW z \in Seq(Cell), NEW s \in SB!CString
    PROVE  LET u == z \o SB!LongsOf(s)
           IN  /\ u \in Seq(Cell) /\ Len(u) = Len(z) + Wide(s) /\ Len(z) \in Nat
               /\ StrAt(u, Len(z) + 1, s) /\ Agree(z, u, 0)
<1>1. PICK t \in Seq(Cell), w \in Nat \ {0} : t = SB!LongsOf(s) /\ w = Wide(s) /\ Len(t) = w
    BY LongsAre, WideIs
<1>2. PICK u \in Seq(Cell), m \in Nat : u = z \o t /\ m = Len(z)
    BY ConcatCells
<1>3. /\ u \in Seq(Cell) /\ Len(u) = m + w /\ Agree(z, u, 0)
      /\ \A k \in 1..w : u[m + k] = t[k]
    <2>1. /\ Len(z \o t) = Len(z) + Len(t) /\ Agree(z, z \o t, 0)
          /\ \A k \in 1..Len(t) : (z \o t)[Len(z) + k] = t[k]
        BY ConcatCells
    <2> QED
        BY <1>1, <1>2, <2>1
<1>4. \A k \in 1..w : u[(m + 1) + k - 1] = t[k]
    <2>1. \A k \in 1..w : (m + 1) + k - 1 = m + k
        OBVIOUS
    <2> QED
        BY <1>3, <2>1
<1>5. StrAt(u, m + 1, s)
    <2>1. m + 1 \in Nat \ {0} /\ (m + 1) + w - 1 <= m + w
        OBVIOUS
    <2> QED
        BY <1>1, <1>3, <1>4, <2>1 DEF StrAt
<1> QED
    BY <1>1, <1>2, <1>3, <1>5

LEMMA StrShifted ==
    ASSUME NEW y \in Seq(Cell), NEW z \in Seq(Cell), NEW s \in SB!CString, NEW q, StrAt(z, q, s)
    PROVE  StrAt(y \o z, Len(y) + q, s)
<1>1. PICK m \in Nat, n \in Nat, u \in Seq(Cell), w \in Nat \ {0} :
          m = Len(y) /\ n = Len(z) /\ u = y \o z /\ w = Wide(s)
    BY ConcatCells, WideIs
<1>2. Len(u) = m + n /\ \A k \in 1..n : u[m + k] = z[k]
    BY <1>1, ConcatCells
<1>3. /\ q \in Nat \ {0} /\ q + w - 1 <= n
      /\ \A k \in 1..w : z[q + k - 1] = SB!LongsOf(s)[k]
    BY <1>1 DEF StrAt
<1>4. ASSUME NEW k \in 1..w PROVE u[(m + q) + k - 1] = SB!LongsOf(s)[k]
    <2>1. q + k - 1 \in 1..n /\ (m + q) + k - 1 = m + (q + k - 1)
        BY <1>3
    <2> QED
        BY <1>2, <1>3, <2>1
<1>5. m + q \in Nat \ {0} /\ (m + q) + w - 1 <= m + n
    BY <1>3
<1> QED
    BY <1>1, <1>2, <1>4, <1>5 DEF StrAt

\* The places of a databox at q.
LEMMA HeadPlaces ==
    ASSUME NEW b \in SB!CacheBase, NEW q \in Nat \ {0}
    PROVE  /\ AtHost(b, q) = q + 2 + Wide(b.viewname)
           /\ AtPort(b, q) = AtHost(b, q) + Wide(b.host)
           /\ AtPasswd(b, q) = AtPort(b, q) + 1 + Wide(b.user)
           /\ AtDbname(b, q) = AtPasswd(b, q) + Wide(b.passwd)
           /\ AtXml(b, q) = AtDbname(b, q) + Wide(b.dbname)
           /\ AtCount(b, q) = AtXml(b, q) + Wide(b.xmlstruct)
           /\ AtCount(b, q) = q + HeadWide(b) - 1
           /\ AtHost(b, q) \in Nat /\ AtPort(b, q) \in Nat /\ AtPasswd(b, q) \in Nat
           /\ AtDbname(b, q) \in Nat /\ AtXml(b, q) \in Nat /\ AtCount(b, q) \in Nat
           /\ q + 2 < AtHost(b, q) /\ AtHost(b, q) < AtPort(b, q)
           /\ AtPort(b, q) + 1 < AtPasswd(b, q) /\ AtPasswd(b, q) < AtDbname(b, q)
           /\ AtDbname(b, q) < AtXml(b, q) /\ AtXml(b, q) < AtCount(b, q)
<1>1. PICK w1 \in Nat \ {0}, w2 \in Nat \ {0}, w3 \in Nat \ {0}, w4 \in Nat \ {0},
           w5 \in Nat \ {0}, w6 \in Nat \ {0} :
          /\ w1 = Wide(b.viewname) /\ w2 = Wide(b.host) /\ w3 = Wide(b.user)
          /\ w4 = Wide(b.passwd) /\ w5 = Wide(b.dbname) /\ w6 = Wide(b.xmlstruct)
    BY HeadIs
<1>2. /\ AtHost(b, q) = q + 2 + w1 /\ AtPort(b, q) = AtHost(b, q) + w2
      /\ AtPasswd(b, q) = AtPort(b, q) + 1 + w3 /\ AtDbname(b, q) = AtPasswd(b, q) + w4
      /\ AtXml(b, q) = AtDbname(b, q) + w5 /\ AtCount(b, q) = AtXml(b, q) + w6
    BY <1>1 DEF AtCount, AtXml, AtDbname, AtPasswd, AtPort, AtHost
<1>3. AtCount(b, q) = q + HeadWide(b) - 1
    BY HeadIs
<1> QED
    BY <1>1, <1>2, <1>3

\* The count of the collections may change.
LEMMA HeadSame ==
    ASSUME NEW z \in Seq(Cell), NEW u \in Seq(Cell), NEW x \in Nat, Agree(z, u, x),
           NEW b \in SB!CacheBase, NEW q \in Nat \ {0}, NEW n, NEW m, HeadAt(z, q, b, n),
           x < q \/ x >= AtCount(b, q), u[AtCount(b, q)] = SB!Long(m)
    PROVE  HeadAt(u, q, b, m)
<1>1. PICK j \in Nat, k \in Nat : j = Len(z) /\ k = Len(u)
    BY LenProperties
<1>2. AtCount(b, q) <= j /\ j <= k /\ \A i \in 1..j : i # x => u[i] = z[i]
    BY <1>1 DEF HeadAt, Agree
<1>3. PICK w1 \in Nat \ {0}, w2 \in Nat \ {0}, w3 \in Nat \ {0}, w4 \in Nat \ {0},
           w5 \in Nat \ {0}, w6 \in Nat \ {0} :
          /\ w1 = Wide(b.viewname) /\ w2 = Wide(b.host) /\ w3 = Wide(b.user)
          /\ w4 = Wide(b.passwd) /\ w5 = Wide(b.dbname) /\ w6 = Wide(b.xmlstruct)
    BY HeadIs
<1>4. PICK a1 \in Nat, a2 \in Nat, a3 \in Nat, a4 \in Nat, a5 \in Nat, a6 \in Nat :
          /\ a1 = AtHost(b, q) /\ a2 = AtPort(b, q) /\ a3 = AtPasswd(b, q)
          /\ a4 = AtDbname(b, q) /\ a5 = AtXml(b, q) /\ a6 = AtCount(b, q)
    BY HeadPlaces
<1>5. /\ a1 = q + 2 + w1 /\ a2 = a1 + w2 /\ a3 = a2 + 1 + w3 /\ a4 = a3 + w4
      /\ a5 = a4 + w5 /\ a6 = a5 + w6
    BY <1>3, <1>4, HeadPlaces
<1>6. \A i \in q..(a6 - 1) : u[i] = z[i]
    <2> SUFFICES ASSUME NEW i \in q..(a6 - 1) PROVE u[i] = z[i]
        OBVIOUS
    <2>1. a6 <= j /\ (x < q \/ x >= a6)
        BY <1>2, <1>4
    <2>2. i \in 1..j /\ i # x
        BY <2>1
    <2> QED
        BY <1>2, <2>2
<1>7. u[q] = z[q] /\ u[q + 1] = z[q + 1] /\ u[a2] = z[a2]
    <2>1. q \in q..(a6 - 1) /\ q + 1 \in q..(a6 - 1) /\ a2 \in q..(a6 - 1)
        BY <1>5
    <2> QED
        BY <1>6, <2>1
<1>8. /\ b.viewname \in SB!CString /\ b.host \in SB!CString /\ b.user \in SB!CString
      /\ b.passwd \in SB!CString /\ b.dbname \in SB!CString /\ b.xmlstruct \in SB!CString
    BY BaseIs
<1>9. /\ x < q + 2 \/ x >= (q + 2) + w1
      /\ x < a1 \/ x >= a1 + w2
      /\ x < a2 + 1 \/ x >= (a2 + 1) + w3
      /\ x < a3 \/ x >= a3 + w4
      /\ x < a4 \/ x >= a4 + w5
      /\ x < a5 \/ x >= a5 + w6
    BY <1>4, <1>5
<1>10. /\ StrAt(z, q + 2, b.viewname) /\ StrAt(z, a1, b.host) /\ StrAt(z, a2 + 1, b.user)
       /\ StrAt(z, a3, b.passwd) /\ StrAt(z, a4, b.dbname) /\ StrAt(z, a5, b.xmlstruct)
    BY <1>4 DEF HeadAt
<1>11. StrAt(u, q + 2, b.viewname) /\ StrAt(u, a1, b.host) /\ StrAt(u, a2 + 1, b.user)
    <2>1. StrAt(u, q + 2, b.viewname)
        <3>1. x < q + 2 \/ x >= (q + 2) + Wide(b.viewname)
            BY <1>3, <1>9
        <3>2. b.viewname \in SB!CString /\ StrAt(z, q + 2, b.viewname)
            BY <1>8, <1>10
        <3> QED
            BY <3>1, <3>2, StrKept
    <2>2. StrAt(u, a1, b.host)
        <3>1. x < a1 \/ x >= a1 + Wide(b.host)
            BY <1>3, <1>9
        <3>2. b.host \in SB!CString /\ StrAt(z, a1, b.host)
            BY <1>8, <1>10
        <3> QED
            BY <3>1, <3>2, StrKept
    <2>3. StrAt(u, a2 + 1, b.user)
        <3>1. x < a2 + 1 \/ x >= (a2 + 1) + Wide(b.user)
            BY <1>3, <1>9
        <3>2. b.user \in SB!CString /\ StrAt(z, a2 + 1, b.user)
            BY <1>8, <1>10
        <3> QED
            BY <3>1, <3>2, StrKept
    <2> QED
        BY <2>1, <2>2, <2>3
<1>12. StrAt(u, a3, b.passwd) /\ StrAt(u, a4, b.dbname) /\ StrAt(u, a5, b.xmlstruct)
    <2>1. StrAt(u, a3, b.passwd)
        <3>1. x < a3 \/ x >= a3 + Wide(b.passwd)
            BY <1>3, <1>9
        <3>2. b.passwd \in SB!CString /\ StrAt(z, a3, b.passwd)
            BY <1>8, <1>10
        <3> QED
            BY <3>1, <3>2, StrKept
    <2>2. StrAt(u, a4, b.dbname)
        <3>1. x < a4 \/ x >= a4 + Wide(b.dbname)
            BY <1>3, <1>9
        <3>2. b.dbname \in SB!CString /\ StrAt(z, a4, b.dbname)
            BY <1>8, <1>10
        <3> QED
            BY <3>1, <3>2, StrKept
    <2>3. StrAt(u, a5, b.xmlstruct)
        <3>1. x < a5 \/ x >= a5 + Wide(b.xmlstruct)
            BY <1>3, <1>9
        <3>2. b.xmlstruct \in SB!CString /\ StrAt(z, a5, b.xmlstruct)
            BY <1>8, <1>10
        <3> QED
            BY <3>1, <3>2, StrKept
    <2> QED
        BY <2>1, <2>2, <2>3
<1>13. /\ z[q] = SB!Long(b.base_id) /\ z[q + 1] = SB!Long(b.sbas_id) /\ z[a2] = SB!Long(b.port)
    BY <1>4 DEF HeadAt
<1>14. AtCount(b, q) <= Len(u)
    BY <1>1, <1>2, <1>4
<1> QED
    BY <1>4, <1>7, <1>11, <1>12, <1>13, <1>14 DEF HeadAt

LEMMA HeadKept ==
    ASSUME NEW z \in Seq(Cell), NEW u \in Seq(Cell), NEW x \in Nat, Agree(z, u, x),
           NEW b \in SB!CacheBase, NEW q \in Nat \ {0}, NEW n, HeadAt(z, q, b, n),
           x < q \/ x >= q + HeadWide(b)
    PROVE  HeadAt(u, q, b, n)
<1>1. PICK j \in Nat, a \in Nat, w \in Nat \ {0} :
          j = Len(z) /\ a = AtCount(b, q) /\ w = HeadWide(b) /\ a = q + w - 1
    <2>1. AtCount(b, q) \in Nat /\ AtCount(b, q) = q + HeadWide(b) - 1
        BY HeadPlaces
    <2>2. HeadWide(b) \in Nat \ {0} /\ Len(z) \in Nat
        BY HeadIs, LenProperties
    <2> QED
        BY <2>1, <2>2
<1>2. a <= j /\ z[a] = SB!Long(n) /\ \A i \in 1..j : i # x => u[i] = z[i]
    BY <1>1 DEF HeadAt, Agree
<1>3. u[a] = SB!Long(n)
    <2>1. a \in 1..j /\ a # x
        BY <1>1, <1>2
    <2> QED
        BY <1>2, <2>1
<1>4. x < q \/ x >= AtCount(b, q)
    BY <1>1
<1>5. u[AtCount(b, q)] = SB!Long(n)
    BY <1>1, <1>3
<1> QED
    BY <1>4, <1>5, HeadSame

LEMMA CollKept ==
    ASSUME NEW z \in Seq(Cell), NEW u \in Seq(Cell), NEW x \in Nat, Agree(z, u, x),
           NEW c \in SB!CacheColl, NEW q \in Nat \ {0}, CollAt(z, q, c), x < q \/ x >= q + CollWide(c)
    PROVE  CollAt(u, q, c)
<1>1. PICK m \in Nat, k \in Nat, w1 \in Nat \ {0}, w2 \in Nat \ {0} :
          m = Len(z) /\ k = Len(u) /\ w1 = Wide(c.name) /\ w2 = Wide(c.prefs)
    BY CollIs, LenProperties
<1>2. q + 2 + w1 + w2 - 1 <= m /\ \A i \in 1..m : i # x => u[i] = z[i]
    BY <1>1 DEF CollAt, StrAt, Agree
<1>3. x < q \/ x >= q + 2 + w1 + w2
    BY <1>1, <1>2 DEF CollWide
<1>4. u[q] = z[q] /\ u[q + 1] = z[q + 1]
    <2>1. q \in 1..m /\ q + 1 \in 1..m /\ q # x /\ q + 1 # x
        BY <1>2, <1>3
    <2> QED
        BY <1>2, <2>1
<1>5. c.name \in SB!CString /\ c.prefs \in SB!CString
    BY CollIs
<1>6. x < q + 2 \/ x >= (q + 2) + Wide(c.name)
    BY <1>1, <1>2, <1>3
<1>7. x < q + 2 + Wide(c.name) \/ x >= (q + 2 + Wide(c.name)) + Wide(c.prefs)
    BY <1>1, <1>2, <1>3
<1>8. StrAt(u, q + 2, c.name) /\ StrAt(u, q + 2 + Wide(c.name), c.prefs)
    BY <1>5, <1>6, <1>7, StrKept DEF CollAt
<1> QED
    BY <1>2, <1>4, <1>8 DEF CollAt

LEMMA LongIs ==
    ASSUME NEW n \in Int
    PROVE  /\ SB!Long(n) \in Cell /\ SB!Long(n).n = n /\ SB!Long(n).bytes = << >>
           /\ <<SB!Long(n)>> \in Seq(Cell) /\ Len(<<SB!Long(n)>>) = 1
           /\ <<SB!Long(n)>>[1] = SB!Long(n)
<1>1. << >> \in Seq(0..255)
    BY EmptySeq
<1>2. SB!Long(n) \in Cell /\ SB!Long(n).n = n /\ SB!Long(n).bytes = << >>
    BY <1>1 DEF SB!Long, Cell
<1>3. PICK c \in Cell : c = SB!Long(n)
    BY <1>2
<1>4. <<c>> \in Seq(Cell) /\ Len(<<c>>) = 1 /\ <<c>>[1] = c
    OBVIOUS
<1> QED
    BY <1>2, <1>3, <1>4

LEMMA TwoLongs ==
    ASSUME NEW m \in Int, NEW n \in Int
    PROVE  /\ <<SB!Long(m), SB!Long(n)>> \in Seq(Cell) /\ Len(<<SB!Long(m), SB!Long(n)>>) = 2
           /\ <<SB!Long(m), SB!Long(n)>>[1] = SB!Long(m)
           /\ <<SB!Long(m), SB!Long(n)>>[2] = SB!Long(n)
<1>1. PICK c \in Cell, d \in Cell : c = SB!Long(m) /\ d = SB!Long(n)
    BY LongIs
<1>2. <<c, d>> \in Seq(Cell) /\ Len(<<c, d>>) = 2 /\ <<c, d>>[1] = c /\ <<c, d>>[2] = d
    OBVIOUS
<1> QED
    BY <1>1, <1>2

LEMMA OneLong ==
    ASSUME NEW z \in Seq(Cell), NEW n \in Int
    PROVE  LET u == z \o <<SB!Long(n)>>
           IN  u \in Seq(Cell) /\ Len(u) = Len(z) + 1 /\ Agree(z, u, 0)
<1>1. PICK t \in Seq(Cell) : t = <<SB!Long(n)>> /\ Len(t) = 1
    BY LongIs
<1>2. z \o t \in Seq(Cell) /\ Len(z \o t) = Len(z) + Len(t) /\ Agree(z, z \o t, 0)
    BY ConcatCells
<1> QED
    BY <1>1, <1>2

LEMMA AgreeAgain ==
    ASSUME NEW y \in Seq(Cell), NEW z \in Seq(Cell), NEW u \in Seq(Cell),
           Agree(y, z, 0), Agree(z, u, 0)
    PROVE  Agree(y, u, 0)
<1>1. PICK k \in Nat, m \in Nat, n \in Nat : k = Len(y) /\ m = Len(z) /\ n = Len(u)
    BY LenProperties
<1>2. /\ k <= m /\ \A i \in 1..k : i # 0 => z[i] = y[i]
      /\ m <= n /\ \A i \in 1..m : i # 0 => u[i] = z[i]
    BY <1>1 DEF Agree
<1> QED
    BY <1>1, <1>2 DEF Agree

\* A string, or a long, written after z, and whatever is written then.
LEMMA StrWritten ==
    ASSUME NEW z \in Seq(Cell), NEW s \in SB!CString, NEW u \in Seq(Cell),
           Agree(z \o SB!LongsOf(s), u, 0)
    PROVE  StrAt(u, Len(z) + 1, s)
<1>1. PICK y \in Seq(Cell) : /\ y = z \o SB!LongsOf(s) /\ StrAt(y, Len(z) + 1, s)
                             /\ Len(z) \in Nat /\ Agree(y, u, 0)
    BY StrMade
<1>2. 0 < Len(z) + 1 /\ 0 \in Nat
    BY <1>1
<1> QED
    BY <1>1, <1>2, StrKept

LEMMA LongWritten ==
    ASSUME NEW z \in Seq(Cell), NEW n \in Int, NEW u \in Seq(Cell),
           Agree(z \o <<SB!Long(n)>>, u, 0)
    PROVE  u[Len(z) + 1] = SB!Long(n)
<1>1. PICK y \in Seq(Cell), t \in Seq(Cell) :
          t = <<SB!Long(n)>> /\ Len(t) = 1 /\ t[1] = SB!Long(n) /\ y = z \o t
    BY LongIs, ConcatCells
<1>2. Len(y) = Len(z) + 1 /\ Len(z) \in Nat /\ y[Len(z) + 1] = SB!Long(n)
    <2>1. /\ Len(z \o t) = Len(z) + Len(t) /\ Len(z) \in Nat
          /\ \A k \in 1..Len(t) : (z \o t)[Len(z) + k] = t[k]
        BY ConcatCells
    <2> QED
        BY <1>1, <2>1
<1>3. \A k \in 1..Len(y) : k # 0 => u[k] = y[k]
    BY <1>1 DEF Agree
<1>4. Len(z) + 1 \in 1..Len(y) /\ Len(z) + 1 # 0
    BY <1>2
<1> QED
    BY <1>2, <1>3, <1>4

HeadLongs(b) ==
    <<SB!Long(b.base_id), SB!Long(b.sbas_id)>> \o SB!LongsOf(b.viewname) \o SB!LongsOf(b.host)
        \o <<SB!Long(b.port)>> \o SB!LongsOf(b.user) \o SB!LongsOf(b.passwd) \o SB!LongsOf(b.dbname)
        \o SB!LongsOf(b.xmlstruct) \o <<SB!Long(0)>>

CollLongs(c) ==
    <<SB!Long(c.coll_id), SB!Long(c.base_id)>> \o SB!LongsOf(c.name) \o SB!LongsOf(c.prefs)

LEMMA HeadMade ==
    ASSUME NEW b \in SB!CacheBase
    PROVE  /\ HeadLongs(b) \in Seq(Cell) /\ Len(HeadLongs(b)) = HeadWide(b)
           /\ HeadAt(HeadLongs(b), 1, b, 0)
<1>1. /\ b.base_id \in Int /\ b.sbas_id \in Int /\ b.port \in Int
      /\ b.viewname \in SB!CString /\ b.host \in SB!CString /\ b.user \in SB!CString
      /\ b.passwd \in SB!CString /\ b.dbname \in SB!CString /\ b.xmlstruct \in SB!CString
    BY BaseIs
<1>2. PICK y0 \in Seq(Cell) :
          /\ y0 = <<SB!Long(b.base_id), SB!Long(b.sbas_id)>> /\ Len(y0) = 2
          /\ y0[1] = SB!Long(b.base_id) /\ y0[2] = SB!Long(b.sbas_id)
    BY <1>1, TwoLongs
<1>3. PICK y1 \in Seq(Cell) : /\ y1 = y0 \o SB!LongsOf(b.viewname) /\ Agree(y0, y1, 0)
                              /\ Len(y1) = 2 + Wide(b.viewname)
    BY <1>1, <1>2, StrMade
<1>4. PICK y2 \in Seq(Cell) : /\ y2 = y1 \o SB!LongsOf(b.host) /\ Agree(y1, y2, 0)
                              /\ Len(y2) = Len(y1) + Wide(b.host)
    BY <1>1, StrMade
<1>5. PICK y3 \in Seq(Cell) : /\ y3 = y2 \o <<SB!Long(b.port)>> /\ Agree(y2, y3, 0)
                              /\ Len(y3) = Len(y2) + 1
    BY <1>1, OneLong
<1>6. PICK y4 \in Seq(Cell) : /\ y4 = y3 \o SB!LongsOf(b.user) /\ Agree(y3, y4, 0)
                              /\ Len(y4) = Len(y3) + Wide(b.user)
    BY <1>1, StrMade
<1>7. PICK y5 \in Seq(Cell) : /\ y5 = y4 \o SB!LongsOf(b.passwd) /\ Agree(y4, y5, 0)
                              /\ Len(y5) = Len(y4) + Wide(b.passwd)
    BY <1>1, StrMade
<1>8. PICK y6 \in Seq(Cell) : /\ y6 = y5 \o SB!LongsOf(b.dbname) /\ Agree(y5, y6, 0)
                              /\ Len(y6) = Len(y5) + Wide(b.dbname)
    BY <1>1, StrMade
<1>9. PICK y7 \in Seq(Cell) : /\ y7 = y6 \o SB!LongsOf(b.xmlstruct) /\ Agree(y6, y7, 0)
                              /\ Len(y7) = Len(y6) + Wide(b.xmlstruct)
    BY <1>1, StrMade
<1>10. PICK z \in Seq(Cell) : /\ z = y7 \o <<SB!Long(0)>> /\ Agree(y7, z, 0)
                              /\ Len(z) = Len(y7) + 1
    <2>1. 0 \in Int
        OBVIOUS
    <2> QED
        BY <2>1, OneLong, Zenon
<1>11. HeadLongs(b) = z
    BY <1>2, <1>3, <1>4, <1>5, <1>6, <1>7, <1>8, <1>9, <1>10, Zenon DEF HeadLongs
<1>12. Agree(z, z, 0)
    <2>1. Len(z) \in Nat
        BY LenProperties
    <2> QED
        BY <2>1 DEF Agree
<1>13. Agree(y6, z, 0) /\ Agree(y5, z, 0) /\ Agree(y4, z, 0) /\ Agree(y3, z, 0)
    <2>1. Agree(y6, z, 0)
        BY <1>9, <1>10, AgreeAgain
    <2>2. Agree(y5, z, 0)
        BY <1>8, <2>1, AgreeAgain
    <2>3. Agree(y4, z, 0)
        BY <1>7, <2>2, AgreeAgain
    <2>4. Agree(y3, z, 0)
        BY <1>6, <2>3, AgreeAgain
    <2> QED
        BY <2>1, <2>2, <2>3, <2>4
<1>14. Agree(y2, z, 0) /\ Agree(y1, z, 0) /\ Agree(y0, z, 0)
    <2>1. Agree(y2, z, 0)
        BY <1>5, <1>13, AgreeAgain
    <2>2. Agree(y1, z, 0)
        BY <1>4, <2>1, AgreeAgain
    <2>3. Agree(y0, z, 0)
        BY <1>3, <2>2, AgreeAgain
    <2> QED
        BY <2>1, <2>2, <2>3
<1>15. /\ Len(y1) + 1 = AtHost(b, 1) /\ Len(y2) + 1 = AtPort(b, 1)
       /\ Len(y3) + 1 = AtPort(b, 1) + 1 /\ Len(y4) + 1 = AtPasswd(b, 1)
       /\ Len(y5) + 1 = AtDbname(b, 1) /\ Len(y6) + 1 = AtXml(b, 1)
       /\ Len(y7) + 1 = AtCount(b, 1) /\ Len(z) = AtCount(b, 1) /\ Len(z) = HeadWide(b)
    <2>1. PICK w1 \in Nat \ {0} : w1 = Wide(b.viewname)
        BY HeadIs
    <2>2. PICK w2 \in Nat \ {0} : w2 = Wide(b.host)
        BY HeadIs
    <2>3. PICK w3 \in Nat \ {0} : w3 = Wide(b.user)
        BY HeadIs
    <2>4. PICK w4 \in Nat \ {0} : w4 = Wide(b.passwd)
        BY HeadIs
    <2>5. PICK w5 \in Nat \ {0} : w5 = Wide(b.dbname)
        BY HeadIs
    <2>6. PICK w6 \in Nat \ {0} : w6 = Wide(b.xmlstruct)
        BY HeadIs
    <2>7. PICK c1 \in Nat : c1 = 3 + w1
        OBVIOUS
    <2>8. PICK c2 \in Nat : c2 = c1 + w2
        OBVIOUS
    <2>9. PICK c3 \in Nat : c3 = c2 + 1 + w3
        OBVIOUS
    <2>10. PICK c4 \in Nat : c4 = c3 + w4
        OBVIOUS
    <2>11. PICK c5 \in Nat : c5 = c4 + w5
        OBVIOUS
    <2>12. PICK c6 \in Nat : c6 = c5 + w6
        OBVIOUS
    <2>13. AtHost(b, 1) = c1
        BY <2>1, <2>7 DEF AtHost
    <2>14. AtPort(b, 1) = c2
        BY <2>2, <2>8, <2>13 DEF AtPort
    <2>15. AtPasswd(b, 1) = c3
        BY <2>3, <2>9, <2>14 DEF AtPasswd
    <2>16. AtDbname(b, 1) = c4
        BY <2>4, <2>10, <2>15 DEF AtDbname
    <2>17. AtXml(b, 1) = c5
        BY <2>5, <2>11, <2>16 DEF AtXml
    <2>18. AtCount(b, 1) = c6
        BY <2>6, <2>12, <2>17 DEF AtCount
    <2>19. PICK l1 \in Nat : l1 = Len(y1) /\ l1 + 1 = c1
        BY <1>3, <2>1, <2>7
    <2>20. PICK l2 \in Nat : l2 = Len(y2) /\ l2 + 1 = c2
        BY <1>4, <2>2, <2>8, <2>19
    <2>21. PICK l3 \in Nat : l3 = Len(y3) /\ l3 = c2
        BY <1>5, <2>20
    <2>22. PICK l4 \in Nat : l4 = Len(y4) /\ l4 + 1 = c3
        BY <1>6, <2>3, <2>9, <2>21
    <2>23. PICK l5 \in Nat : l5 = Len(y5) /\ l5 + 1 = c4
        BY <1>7, <2>4, <2>10, <2>22
    <2>24. PICK l6 \in Nat : l6 = Len(y6) /\ l6 + 1 = c5
        BY <1>8, <2>5, <2>11, <2>23
    <2>25. PICK l7 \in Nat : l7 = Len(y7) /\ l7 + 1 = c6
        BY <1>9, <2>6, <2>12, <2>24
    <2>26. Len(z) = c6
        BY <1>10, <2>25
    <2>27. HeadWide(b) = c6
        <3>1. 1 \in Nat \ {0} /\ HeadWide(b) \in Nat
            BY HeadIs
        <3>2. AtCount(b, 1) = 1 + HeadWide(b) - 1
            BY <3>1, HeadPlaces
        <3> QED
            BY <3>1, <3>2, <2>18
    <2>28. Len(y1) + 1 = AtHost(b, 1)
        BY <2>13, <2>19
    <2>29. Len(y2) + 1 = AtPort(b, 1)
        BY <2>14, <2>20
    <2>30. Len(y3) + 1 = AtPort(b, 1) + 1
        BY <2>14, <2>21
    <2>31. Len(y4) + 1 = AtPasswd(b, 1)
        BY <2>15, <2>22
    <2>32. Len(y5) + 1 = AtDbname(b, 1)
        BY <2>16, <2>23
    <2>33. Len(y6) + 1 = AtXml(b, 1)
        BY <2>17, <2>24
    <2>34. Len(y7) + 1 = AtCount(b, 1)
        BY <2>18, <2>25
    <2>35. Len(z) = AtCount(b, 1) /\ Len(z) = HeadWide(b)
        BY <2>18, <2>26, <2>27
    <2> QED
        BY <2>28, <2>29, <2>30, <2>31, <2>32, <2>33, <2>34, <2>35
<1>16. z[1] = SB!Long(b.base_id) /\ z[1 + 1] = SB!Long(b.sbas_id)
    <2>1. \A k \in 1..2 : k # 0 => z[k] = y0[k]
        BY <1>2, <1>14 DEF Agree
    <2> QED
        BY <1>2, <2>1
<1>17. StrAt(z, 1 + 2, b.viewname)
    <2>1. StrAt(z, Len(y0) + 1, b.viewname)
        BY <1>1, <1>3, <1>14, StrWritten
    <2> QED
        BY <1>2, <2>1
<1>18. StrAt(z, AtHost(b, 1), b.host)
    BY <1>1, <1>4, <1>14, <1>15, StrWritten
<1>19. z[AtPort(b, 1)] = SB!Long(b.port)
    <2>1. z[Len(y2) + 1] = SB!Long(b.port)
        BY <1>1, <1>5, <1>13, LongWritten
    <2> QED
        BY <1>15, <2>1
<1>20. StrAt(z, AtPort(b, 1) + 1, b.user)
    BY <1>1, <1>6, <1>13, <1>15, StrWritten
<1>21. StrAt(z, AtPasswd(b, 1), b.passwd)
    BY <1>1, <1>7, <1>13, <1>15, StrWritten
<1>22. StrAt(z, AtDbname(b, 1), b.dbname)
    BY <1>1, <1>8, <1>13, <1>15, StrWritten
<1>23. StrAt(z, AtXml(b, 1), b.xmlstruct)
    BY <1>1, <1>9, <1>10, <1>15, StrWritten
<1>24. z[AtCount(b, 1)] = SB!Long(0)
    <2>1. 0 \in Int
        OBVIOUS
    <2>2. z[Len(y7) + 1] = SB!Long(0)
        BY <1>10, <1>12, <2>1, LongWritten
    <2> QED
        BY <1>15, <2>2
<1>25. 1 \in Nat \ {0} /\ AtCount(b, 1) <= Len(z)
    BY <1>15, HeadPlaces
<1>26. HeadAt(z, 1, b, 0)
    BY <1>16, <1>17, <1>18, <1>19, <1>20, <1>21, <1>22, <1>23, <1>24, <1>25 DEF HeadAt
<1> QED
    BY <1>11, <1>15, <1>26

LEMMA CollMade ==
    ASSUME NEW c \in SB!CacheColl
    PROVE  /\ CollLongs(c) \in Seq(Cell) /\ Len(CollLongs(c)) = CollWide(c)
           /\ CollAt(CollLongs(c), 1, c)
<1>1. /\ c.coll_id \in Int /\ c.base_id \in Int /\ c.name \in SB!CString /\ c.prefs \in SB!CString
    BY CollIs
<1>2. PICK y0 \in Seq(Cell) :
          /\ y0 = <<SB!Long(c.coll_id), SB!Long(c.base_id)>> /\ Len(y0) = 2
          /\ y0[1] = SB!Long(c.coll_id) /\ y0[2] = SB!Long(c.base_id)
    BY <1>1, TwoLongs
<1>3. PICK y1 \in Seq(Cell) : /\ y1 = y0 \o SB!LongsOf(c.name) /\ Agree(y0, y1, 0)
                              /\ Len(y1) = 2 + Wide(c.name)
    BY <1>1, <1>2, StrMade
<1>4. PICK z \in Seq(Cell) : /\ z = y1 \o SB!LongsOf(c.prefs) /\ Agree(y1, z, 0)
                             /\ Len(z) = Len(y1) + Wide(c.prefs)
    BY <1>1, StrMade
<1>5. CollLongs(c) = z
    BY <1>2, <1>3, <1>4 DEF CollLongs
<1>6. Agree(y0, z, 0) /\ Agree(z, z, 0)
    <2>1. Len(z) \in Nat
        BY LenProperties
    <2> QED
        BY <1>3, <1>4, <2>1, AgreeAgain DEF Agree
<1>7. z[1] = SB!Long(c.coll_id) /\ z[1 + 1] = SB!Long(c.base_id)
    <2>1. \A k \in 1..2 : k # 0 => z[k] = y0[k]
        BY <1>2, <1>6 DEF Agree
    <2> QED
        BY <1>2, <2>1
<1>8. StrAt(z, 1 + 2, c.name)
    <2>1. StrAt(z, Len(y0) + 1, c.name)
        BY <1>1, <1>3, <1>4, StrWritten
    <2> QED
        BY <1>2, <2>1
<1>9. StrAt(z, 1 + 2 + Wide(c.name), c.prefs)
    <2>1. StrAt(z, Len(y1) + 1, c.prefs)
        BY <1>1, <1>4, <1>6, StrWritten
    <2>2. Len(y1) + 1 = 1 + 2 + Wide(c.name)
        BY <1>3, CollIs
    <2> QED
        BY <2>1, <2>2
<1>10. Len(z) = CollWide(c)
    BY <1>3, <1>4, CollIs DEF CollWide
<1>11. CollAt(z, 1, c)
    <2>1. 1 \in Nat \ {0}
        OBVIOUS
    <2> QED
        BY <1>7, <1>8, <1>9, <2>1 DEF CollAt
<1> QED
    BY <1>5, <1>10, <1>11

\* What is put after y is where it was, that much further.
LEMMA HeadShifted ==
    ASSUME NEW y \in Seq(Cell), NEW z \in Seq(Cell), NEW b \in SB!CacheBase, NEW n, HeadAt(z, 1, b, n)
    PROVE  HeadAt(y \o z, Len(y) + 1, b, n)
<1>1. PICK u \in Seq(Cell), m \in Nat, k \in Nat :
          /\ u = y \o z /\ m = Len(y) /\ k = Len(z) /\ Len(u) = m + k
          /\ \A i \in 1..Len(z) : u[m + i] = z[i]
    <2>1. /\ y \o z \in Seq(Cell) /\ Len(y \o z) = Len(y) + Len(z)
          /\ Len(y) \in Nat /\ Len(z) \in Nat
          /\ \A i \in 1..Len(z) : (y \o z)[Len(y) + i] = z[i]
        BY ConcatCells
    <2> QED
        BY <2>1
<1>2. \A i \in 1..k : u[m + i] = z[i]
    BY <1>1
<1>20. PICK w1 \in Nat \ {0} : w1 = Wide(b.viewname)
    BY HeadIs
<1>21. PICK w2 \in Nat \ {0} : w2 = Wide(b.host)
    BY HeadIs
<1>22. PICK w3 \in Nat \ {0} : w3 = Wide(b.user)
    BY HeadIs
<1>23. PICK w4 \in Nat \ {0} : w4 = Wide(b.passwd)
    BY HeadIs
<1>24. PICK w5 \in Nat \ {0} : w5 = Wide(b.dbname)
    BY HeadIs
<1>25. PICK w6 \in Nat \ {0} : w6 = Wide(b.xmlstruct)
    BY HeadIs
<1>26. PICK a1 \in Nat : a1 = 3 + w1
    OBVIOUS
<1>27. PICK a2 \in Nat : a2 = a1 + w2
    OBVIOUS
<1>28. PICK a3 \in Nat : a3 = a2 + 1 + w3
    OBVIOUS
<1>29. PICK a4 \in Nat : a4 = a3 + w4
    OBVIOUS
<1>30. PICK a5 \in Nat : a5 = a4 + w5
    OBVIOUS
<1>31. PICK a6 \in Nat : a6 = a5 + w6
    OBVIOUS
<1>5. /\ AtHost(b, m + 1) = m + a1 /\ AtPort(b, m + 1) = m + a2 /\ AtPasswd(b, m + 1) = m + a3
      /\ AtDbname(b, m + 1) = m + a4 /\ AtXml(b, m + 1) = m + a5 /\ AtCount(b, m + 1) = m + a6
    <2>1. AtHost(b, m + 1) = m + a1
        BY <1>20, <1>26 DEF AtHost
    <2>2. AtPort(b, m + 1) = m + a2
        BY <1>21, <1>27, <2>1 DEF AtPort
    <2>3. AtPasswd(b, m + 1) = m + a3
        BY <1>22, <1>28, <2>2 DEF AtPasswd
    <2>4. AtDbname(b, m + 1) = m + a4
        BY <1>23, <1>29, <2>3 DEF AtDbname
    <2>5. AtXml(b, m + 1) = m + a5
        BY <1>24, <1>30, <2>4 DEF AtXml
    <2>6. AtCount(b, m + 1) = m + a6
        BY <1>25, <1>31, <2>5 DEF AtCount
    <2> QED
        BY <2>1, <2>2, <2>3, <2>4, <2>5, <2>6
<1>14. /\ AtHost(b, 1) = a1 /\ AtPort(b, 1) = a2 /\ AtPasswd(b, 1) = a3
       /\ AtDbname(b, 1) = a4 /\ AtXml(b, 1) = a5 /\ AtCount(b, 1) = a6
    <2>1. AtHost(b, 1) = a1
        BY <1>20, <1>26 DEF AtHost
    <2>2. AtPort(b, 1) = a2
        BY <1>21, <1>27, <2>1 DEF AtPort
    <2>3. AtPasswd(b, 1) = a3
        BY <1>22, <1>28, <2>2 DEF AtPasswd
    <2>4. AtDbname(b, 1) = a4
        BY <1>23, <1>29, <2>3 DEF AtDbname
    <2>5. AtXml(b, 1) = a5
        BY <1>24, <1>30, <2>4 DEF AtXml
    <2>6. AtCount(b, 1) = a6
        BY <1>25, <1>31, <2>5 DEF AtCount
    <2> QED
        BY <2>1, <2>2, <2>3, <2>4, <2>5, <2>6
<1>6. /\ a6 <= k /\ z[1] = SB!Long(b.base_id) /\ z[1 + 1] = SB!Long(b.sbas_id)
      /\ z[a2] = SB!Long(b.port) /\ z[a6] = SB!Long(n)
    BY <1>1, <1>14 DEF HeadAt
<1>7. /\ u[m + 1] = SB!Long(b.base_id) /\ u[m + 1 + 1] = SB!Long(b.sbas_id)
      /\ u[m + a2] = SB!Long(b.port) /\ u[m + a6] = SB!Long(n)
    <2>1. 1 \in 1..k /\ 1 + 1 \in 1..k /\ a2 \in 1..k /\ a6 \in 1..k /\ m + 1 + 1 = m + (1 + 1)
        <3>1. a1 >= 4 /\ a2 >= a1
            BY <1>26, <1>27
        <3>2. a3 >= a2 /\ a4 >= a3
            BY <1>28, <1>29
        <3>3. a5 >= a4 /\ a6 >= a5
            BY <1>30, <1>31
        <3>4. a6 <= k
            BY <1>6
        <3>5. 4 <= a2 /\ a2 <= a6
            BY <3>1, <3>2, <3>3
        <3> QED
            BY <3>4, <3>5
    <2>2. u[m + 1] = z[1] /\ u[m + (1 + 1)] = z[1 + 1]
        BY <1>2, <2>1
    <2>3. u[m + a2] = z[a2] /\ u[m + a6] = z[a6]
        BY <1>2, <2>1
    <2> QED
        BY <1>6, <2>1, <2>2, <2>3
<1>8. /\ b.viewname \in SB!CString /\ b.host \in SB!CString /\ b.user \in SB!CString
      /\ b.passwd \in SB!CString /\ b.dbname \in SB!CString /\ b.xmlstruct \in SB!CString
    BY BaseIs
<1>9. /\ StrAt(z, 1 + 2, b.viewname) /\ StrAt(z, a1, b.host) /\ StrAt(z, a2 + 1, b.user)
      /\ StrAt(z, a3, b.passwd) /\ StrAt(z, a4, b.dbname) /\ StrAt(z, a5, b.xmlstruct)
    BY <1>14 DEF HeadAt
<1>10. /\ StrAt(u, m + (1 + 2), b.viewname) /\ StrAt(u, m + a1, b.host)
       /\ StrAt(u, m + (a2 + 1), b.user) /\ StrAt(u, m + a3, b.passwd)
       /\ StrAt(u, m + a4, b.dbname) /\ StrAt(u, m + a5, b.xmlstruct)
    BY <1>1, <1>8, <1>9, StrShifted
<1>11. m + (1 + 2) = (m + 1) + 2 /\ m + (a2 + 1) = (m + a2) + 1 /\ m + 1 \in Nat \ {0}
    OBVIOUS
<1>12. m + a6 <= Len(u)
    BY <1>1, <1>6
<1>13. HeadAt(u, m + 1, b, n)
    BY <1>5, <1>7, <1>10, <1>11, <1>12 DEF HeadAt
<1> QED
    BY <1>1, <1>13

LEMMA CollShifted ==
    ASSUME NEW y \in Seq(Cell), NEW z \in Seq(Cell), NEW c \in SB!CacheColl, CollAt(z, 1, c)
    PROVE  CollAt(y \o z, Len(y) + 1, c)
<1>1. PICK u \in Seq(Cell), m \in Nat, k \in Nat :
          /\ u = y \o z /\ m = Len(y) /\ k = Len(z) /\ Len(u) = m + k
          /\ \A i \in 1..Len(z) : u[m + i] = z[i]
    <2>1. /\ y \o z \in Seq(Cell) /\ Len(y \o z) = Len(y) + Len(z)
          /\ Len(y) \in Nat /\ Len(z) \in Nat
          /\ \A i \in 1..Len(z) : (y \o z)[Len(y) + i] = z[i]
        BY ConcatCells
    <2> QED
        BY <2>1
<1>2. \A i \in 1..k : u[m + i] = z[i]
    BY <1>1
<1>3. c.name \in SB!CString /\ c.prefs \in SB!CString
    BY CollIs
<1>4. PICK w1 \in Nat \ {0}, w2 \in Nat \ {0} : w1 = Wide(c.name) /\ w2 = Wide(c.prefs)
    BY CollIs
<1>5. /\ StrAt(z, 1 + 2, c.name) /\ StrAt(z, 1 + 2 + w1, c.prefs)
      /\ z[1] = SB!Long(c.coll_id) /\ z[1 + 1] = SB!Long(c.base_id)
    BY <1>4 DEF CollAt
<1>6. 3 <= k
    <2>1. 1 + 2 + w1 - 1 <= Len(z)
        BY <1>4, <1>5 DEF StrAt
    <2> QED
        BY <1>1, <2>1
<1>7. u[m + 1] = SB!Long(c.coll_id) /\ u[m + 1 + 1] = SB!Long(c.base_id)
    <2>1. 1 \in 1..k /\ 1 + 1 \in 1..k /\ m + 1 + 1 = m + (1 + 1)
        BY <1>6
    <2>2. u[m + 1] = z[1] /\ u[m + (1 + 1)] = z[1 + 1]
        BY <1>2, <2>1
    <2> QED
        BY <1>5, <2>1, <2>2
<1>8. StrAt(u, m + (1 + 2), c.name) /\ StrAt(u, m + (1 + 2 + w1), c.prefs)
    BY <1>1, <1>3, <1>5, StrShifted
<1>9. m + (1 + 2) = (m + 1) + 2 /\ m + (1 + 2 + w1) = (m + 1) + 2 + w1 /\ m + 1 \in Nat \ {0}
    OBVIOUS
<1>10. CollAt(u, m + 1, c)
    BY <1>4, <1>7, <1>8, <1>9 DEF CollAt
<1> QED
    BY <1>1, <1>10

-----------------------------------------------------------------------------
(* The binary form of a session: sizes                                     *)

LEMMA StringsOfColl ==
    ASSUME NEW c \in SB!CacheColl
    PROVE  SB!SizeOfStrings(c, SB!CollStrings) =
               (Wide(c.name) + Wide(c.prefs)) * PAD
<1>1. PAD \in Nat \ {0}
    BY SessionsAssumption DEF SB!SessionsOK
<1>2. PICK w1 \in Nat \ {0} : /\ w1 = Wide(c.name) /\ w1 * PAD \in Nat
                             /\ SB!lenPAD(c.name) = w1 * PAD
    <2>1. PICK s \in SB!CString : s = c.name
        BY CollIs
    <2>2. PICK x \in Nat \ {0} : x = Wide(s) /\ SB!lenPAD(s) = x * PAD
        BY WideIs
    <2>3. x * PAD \in Nat
        BY <1>1, TimesIsLarger
    <2> QED
        BY <2>1, <2>2, <2>3
<1>3. PICK w2 \in Nat \ {0} : /\ w2 = Wide(c.prefs) /\ w2 * PAD \in Nat
                             /\ SB!lenPAD(c.prefs) = w2 * PAD
    <2>1. PICK s \in SB!CString : s = c.prefs
        BY CollIs
    <2>2. PICK x \in Nat \ {0} : x = Wide(s) /\ SB!lenPAD(s) = x * PAD
        BY WideIs
    <2>3. x * PAD \in Nat
        BY <1>1, TimesIsLarger
    <2> QED
        BY <2>1, <2>2, <2>3
<1>4. PICK f : f = [m \in DOMAIN SB!CollStrings |-> SB!lenPAD(c[SB!CollStrings[m]])]
    OBVIOUS
<1>5. DOMAIN SB!CollStrings = 1..2 /\ Len(SB!CollStrings) = 2
    BY DEF SB!CollStrings
<1>6. f[1] = w1 * PAD
    <2>1. SB!CollStrings[1] = "name" /\ 1 \in 1..2
        BY DEF SB!CollStrings
    <2> QED
        BY <1>2, <1>4, <1>5, <2>1
<1>7. f[2] = w2 * PAD
    <2>1. SB!CollStrings[2] = "prefs" /\ 2 \in 1..2
        BY DEF SB!CollStrings
    <2> QED
        BY <1>3, <1>4, <1>5, <2>1
<1>8. f \in [1..2 -> Nat]
    <2>1. \A m \in 1..2 : f[m] \in Nat
        <3>1. \A m \in 1..2 : m = 1 \/ m = 2
            OBVIOUS
        <3> QED
            BY <1>2, <1>3, <1>6, <1>7, <3>1
    <2>2. f = [m \in 1..2 |-> f[m]]
        BY <1>4, <1>5
    <2> QED
        BY <2>1, <2>2
<1>9. /\ SB!Total(f, 0) = 0
      /\ \A m \in 0..2 : SB!Total(f, m) \in Nat
      /\ \A m \in 1..2 : SB!Total(f, m) = SB!Total(f, m - 1) + f[m]
    <2>1. 2 \in Nat
        OBVIOUS
    <2> QED
        BY <1>8, <2>1, TotalStep
<1>10. SB!Total(f, 1) = (w1) * PAD
    <2>1. 1 \in 1..2 /\ 1 - 1 = 0
        OBVIOUS
    <2>2. SB!Total(f, 1) = SB!Total(f, 0) + f[1]
        BY <1>9, <2>1
    <2> QED
        BY <1>1, <1>9, <1>6, <1>2, <2>2
<1>11. SB!Total(f, 2) = (w1 + w2) * PAD
    <2>1. 2 \in 1..2 /\ 2 - 1 = 1
        OBVIOUS
    <2>2. SB!Total(f, 2) = SB!Total(f, 1) + f[2]
        BY <1>9, <2>1
    <2>3. (w1 + w2) * PAD = (w1) * PAD + w2 * PAD
        BY <1>1
    <2> QED
        BY <1>10, <1>7, <2>2, <2>3
<1>12. SB!SizeOfStrings(c, SB!CollStrings) = SB!Total(f, 2)
    BY <1>4, <1>5 DEF SB!SizeOfStrings
<1> QED
    BY <1>2, <1>3, <1>11, <1>12

LEMMA StringsOfBase ==
    ASSUME NEW b \in SB!CacheBase
    PROVE  SB!SizeOfStrings(b, SB!BaseStrings) =
               (Wide(b.viewname) + Wide(b.host) + Wide(b.user) + Wide(b.passwd) + Wide(b.dbname) + Wide(b.xmlstruct)) * PAD
<1>1. PAD \in Nat \ {0}
    BY SessionsAssumption DEF SB!SessionsOK
<1>2. PICK w1 \in Nat \ {0} : /\ w1 = Wide(b.viewname) /\ w1 * PAD \in Nat
                             /\ SB!lenPAD(b.viewname) = w1 * PAD
    <2>1. PICK s \in SB!CString : s = b.viewname
        BY BaseIs
    <2>2. PICK x \in Nat \ {0} : x = Wide(s) /\ SB!lenPAD(s) = x * PAD
        BY WideIs
    <2>3. x * PAD \in Nat
        BY <1>1, TimesIsLarger
    <2> QED
        BY <2>1, <2>2, <2>3
<1>3. PICK w2 \in Nat \ {0} : /\ w2 = Wide(b.host) /\ w2 * PAD \in Nat
                             /\ SB!lenPAD(b.host) = w2 * PAD
    <2>1. PICK s \in SB!CString : s = b.host
        BY BaseIs
    <2>2. PICK x \in Nat \ {0} : x = Wide(s) /\ SB!lenPAD(s) = x * PAD
        BY WideIs
    <2>3. x * PAD \in Nat
        BY <1>1, TimesIsLarger
    <2> QED
        BY <2>1, <2>2, <2>3
<1>4. PICK w3 \in Nat \ {0} : /\ w3 = Wide(b.user) /\ w3 * PAD \in Nat
                             /\ SB!lenPAD(b.user) = w3 * PAD
    <2>1. PICK s \in SB!CString : s = b.user
        BY BaseIs
    <2>2. PICK x \in Nat \ {0} : x = Wide(s) /\ SB!lenPAD(s) = x * PAD
        BY WideIs
    <2>3. x * PAD \in Nat
        BY <1>1, TimesIsLarger
    <2> QED
        BY <2>1, <2>2, <2>3
<1>5. PICK w4 \in Nat \ {0} : /\ w4 = Wide(b.passwd) /\ w4 * PAD \in Nat
                             /\ SB!lenPAD(b.passwd) = w4 * PAD
    <2>1. PICK s \in SB!CString : s = b.passwd
        BY BaseIs
    <2>2. PICK x \in Nat \ {0} : x = Wide(s) /\ SB!lenPAD(s) = x * PAD
        BY WideIs
    <2>3. x * PAD \in Nat
        BY <1>1, TimesIsLarger
    <2> QED
        BY <2>1, <2>2, <2>3
<1>6. PICK w5 \in Nat \ {0} : /\ w5 = Wide(b.dbname) /\ w5 * PAD \in Nat
                             /\ SB!lenPAD(b.dbname) = w5 * PAD
    <2>1. PICK s \in SB!CString : s = b.dbname
        BY BaseIs
    <2>2. PICK x \in Nat \ {0} : x = Wide(s) /\ SB!lenPAD(s) = x * PAD
        BY WideIs
    <2>3. x * PAD \in Nat
        BY <1>1, TimesIsLarger
    <2> QED
        BY <2>1, <2>2, <2>3
<1>7. PICK w6 \in Nat \ {0} : /\ w6 = Wide(b.xmlstruct) /\ w6 * PAD \in Nat
                             /\ SB!lenPAD(b.xmlstruct) = w6 * PAD
    <2>1. PICK s \in SB!CString : s = b.xmlstruct
        BY BaseIs
    <2>2. PICK x \in Nat \ {0} : x = Wide(s) /\ SB!lenPAD(s) = x * PAD
        BY WideIs
    <2>3. x * PAD \in Nat
        BY <1>1, TimesIsLarger
    <2> QED
        BY <2>1, <2>2, <2>3
<1>8. PICK f : f = [m \in DOMAIN SB!BaseStrings |-> SB!lenPAD(b[SB!BaseStrings[m]])]
    OBVIOUS
<1>9. DOMAIN SB!BaseStrings = 1..6 /\ Len(SB!BaseStrings) = 6
    BY DEF SB!BaseStrings
<1>10. f[1] = w1 * PAD
    <2>1. SB!BaseStrings[1] = "viewname" /\ 1 \in 1..6
        BY DEF SB!BaseStrings
    <2> QED
        BY <1>2, <1>8, <1>9, <2>1
<1>11. f[2] = w2 * PAD
    <2>1. SB!BaseStrings[2] = "host" /\ 2 \in 1..6
        BY DEF SB!BaseStrings
    <2> QED
        BY <1>3, <1>8, <1>9, <2>1
<1>12. f[3] = w3 * PAD
    <2>1. SB!BaseStrings[3] = "user" /\ 3 \in 1..6
        BY DEF SB!BaseStrings
    <2> QED
        BY <1>4, <1>8, <1>9, <2>1
<1>13. f[4] = w4 * PAD
    <2>1. SB!BaseStrings[4] = "passwd" /\ 4 \in 1..6
        BY DEF SB!BaseStrings
    <2> QED
        BY <1>5, <1>8, <1>9, <2>1
<1>14. f[5] = w5 * PAD
    <2>1. SB!BaseStrings[5] = "dbname" /\ 5 \in 1..6
        BY DEF SB!BaseStrings
    <2> QED
        BY <1>6, <1>8, <1>9, <2>1
<1>15. f[6] = w6 * PAD
    <2>1. SB!BaseStrings[6] = "xmlstruct" /\ 6 \in 1..6
        BY DEF SB!BaseStrings
    <2> QED
        BY <1>7, <1>8, <1>9, <2>1
<1>16. f \in [1..6 -> Nat]
    <2>1. \A m \in 1..6 : f[m] \in Nat
        <3>1. \A m \in 1..6 : m = 1 \/ m = 2 \/ m = 3 \/ m = 4 \/ m = 5 \/ m = 6
            OBVIOUS
        <3> QED
            BY <1>2, <1>3, <1>4, <1>5, <1>6, <1>7, <1>10, <1>11, <1>12, <1>13, <1>14, <1>15, <3>1
    <2>2. f = [m \in 1..6 |-> f[m]]
        BY <1>8, <1>9
    <2> QED
        BY <2>1, <2>2
<1>17. /\ SB!Total(f, 0) = 0
       /\ \A m \in 0..6 : SB!Total(f, m) \in Nat
       /\ \A m \in 1..6 : SB!Total(f, m) = SB!Total(f, m - 1) + f[m]
    <2>1. 6 \in Nat
        OBVIOUS
    <2> QED
        BY <1>16, <2>1, TotalStep
<1>18. SB!Total(f, 1) = (w1) * PAD
    <2>1. 1 \in 1..6 /\ 1 - 1 = 0
        OBVIOUS
    <2>2. SB!Total(f, 1) = SB!Total(f, 0) + f[1]
        BY <1>17, <2>1
    <2> QED
        BY <1>1, <1>17, <1>10, <1>2, <2>2
<1>19. SB!Total(f, 2) = (w1 + w2) * PAD
    <2>1. 2 \in 1..6 /\ 2 - 1 = 1
        OBVIOUS
    <2>2. SB!Total(f, 2) = SB!Total(f, 1) + f[2]
        BY <1>17, <2>1
    <2>3. (w1 + w2) * PAD = (w1) * PAD + w2 * PAD
        BY <1>1
    <2> QED
        BY <1>18, <1>11, <2>2, <2>3
<1>20. SB!Total(f, 3) = (w1 + w2 + w3) * PAD
    <2>1. 3 \in 1..6 /\ 3 - 1 = 2
        OBVIOUS
    <2>2. SB!Total(f, 3) = SB!Total(f, 2) + f[3]
        BY <1>17, <2>1
    <2>3. (w1 + w2 + w3) * PAD = (w1 + w2) * PAD + w3 * PAD
        BY <1>1
    <2> QED
        BY <1>19, <1>12, <2>2, <2>3
<1>21. SB!Total(f, 4) = (w1 + w2 + w3 + w4) * PAD
    <2>1. 4 \in 1..6 /\ 4 - 1 = 3
        OBVIOUS
    <2>2. SB!Total(f, 4) = SB!Total(f, 3) + f[4]
        BY <1>17, <2>1
    <2>3. (w1 + w2 + w3 + w4) * PAD = (w1 + w2 + w3) * PAD + w4 * PAD
        BY <1>1
    <2> QED
        BY <1>20, <1>13, <2>2, <2>3
<1>22. SB!Total(f, 5) = (w1 + w2 + w3 + w4 + w5) * PAD
    <2>1. 5 \in 1..6 /\ 5 - 1 = 4
        OBVIOUS
    <2>2. SB!Total(f, 5) = SB!Total(f, 4) + f[5]
        BY <1>17, <2>1
    <2>3. (w1 + w2 + w3 + w4 + w5) * PAD = (w1 + w2 + w3 + w4) * PAD + w5 * PAD
        BY <1>1
    <2> QED
        BY <1>21, <1>14, <2>2, <2>3
<1>23. SB!Total(f, 6) = (w1 + w2 + w3 + w4 + w5 + w6) * PAD
    <2>1. 6 \in 1..6 /\ 6 - 1 = 5
        OBVIOUS
    <2>2. SB!Total(f, 6) = SB!Total(f, 5) + f[6]
        BY <1>17, <2>1
    <2>3. (w1 + w2 + w3 + w4 + w5 + w6) * PAD = (w1 + w2 + w3 + w4 + w5) * PAD + w6 * PAD
        BY <1>1
    <2> QED
        BY <1>22, <1>15, <2>2, <2>3
<1>24. SB!SizeOfStrings(b, SB!BaseStrings) = SB!Total(f, 6)
    BY <1>8, <1>9 DEF SB!SizeOfStrings
<1> QED
    BY <1>2, <1>3, <1>4, <1>5, <1>6, <1>7, <1>23, <1>24

LEMMA CollSizeIs ==
    ASSUME NEW c \in SB!CacheColl
    PROVE  SB!CollSize(c) = CollWide(c) * PAD
<1>1. PAD \in Nat \ {0}
    BY SessionsAssumption DEF SB!SessionsOK
<1>2. PICK w1 \in Nat \ {0}, w2 \in Nat \ {0} : w1 = Wide(c.name) /\ w2 = Wide(c.prefs)
    BY CollIs
<1>3. SB!SizeOfStrings(c, SB!CollStrings) = (w1 + w2) * PAD
    BY <1>2, StringsOfColl
<1>4. 2 * PAD + (w1 + w2) * PAD = (2 + w1 + w2) * PAD
    BY <1>1
<1> QED
    BY <1>2, <1>3, <1>4 DEF SB!CollSize, CollWide

LEMMA BaseSizeIs ==
    ASSUME NEW b \in SB!CacheBase
    PROVE  SB!BaseSize(b) = BaseWide(b) * PAD
<1>1. PAD \in Nat \ {0}
    BY SessionsAssumption DEF SB!SessionsOK
<1>2. PICK x \in Nat : x = Wide(b.viewname) + Wide(b.host) + Wide(b.user) + Wide(b.passwd)
                               + Wide(b.dbname) + Wide(b.xmlstruct)
    BY HeadIs
<1>3. SB!SizeOfStrings(b, SB!BaseStrings) = x * PAD
    BY <1>2, StringsOfBase
<1>4. HeadWide(b) = 4 + x
    BY <1>2, HeadIs
<1>5. PICK n, f, g : /\ n \in Nat /\ n = Len(b.colls)
                     /\ f = [j \in 1..n |-> CollWide(b.colls[j])]
                     /\ g = [j \in 1..n |-> SB!CollSize(b.colls[j])]
    BY BaseIs
<1>6. \A j \in 1..n : /\ f[j] \in Nat /\ g[j] = f[j] * PAD /\ g[j] \in Nat
    <2> SUFFICES ASSUME NEW j \in 1..n PROVE f[j] \in Nat /\ g[j] = f[j] * PAD /\ g[j] \in Nat
        OBVIOUS
    <2>1. PICK c \in SB!CacheColl : c = b.colls[j]
        BY <1>5, BaseIs
    <2>2. PICK w \in Nat \ {0} : w = CollWide(c)
        BY CollIs
    <2>3. SB!CollSize(c) = w * PAD
        BY <2>2, CollSizeIs
    <2>4. w * PAD \in Nat
        BY <1>1, TimesIsLarger
    <2>5. f[j] = w /\ g[j] = SB!CollSize(c)
        BY <1>5, <2>1, <2>2
    <2> QED
        BY <2>3, <2>4, <2>5
<1>7. f \in [1..n -> Nat] /\ g \in [1..n -> Nat]
    BY <1>5, <1>6
<1>8. PICK t \in Nat : t = SB!Total(f, n)
    <2>1. n \in 0..n
        BY <1>5
    <2> QED
        BY <1>5, <1>7, <2>1, TotalStep
<1>9. SB!Total(g, n) = t * PAD
    <2>1. PAD \in Nat /\ n \in Nat /\ \A j \in 1..n : g[j] = f[j] * PAD
        BY <1>1, <1>5, <1>6
    <2>2. SB!Total(g, n) = SB!Total(f, n) * PAD
        BY <1>7, <2>1, TotalTimes
    <2> QED
        BY <1>8, <2>2
<1>10. CollsWide(b, n) = t
    BY <1>5, <1>8, BaseIs DEF CollsWide
<1>11. SB!BaseSize(b) = 4 * PAD + x * PAD + t * PAD
    <2>1. DOMAIN b.colls = 1..n
        BY <1>5, BaseIs
    <2> QED
        BY <1>3, <1>5, <1>9, <2>1 DEF SB!BaseSize
<1>12. 4 * PAD + x * PAD + t * PAD = (4 + x + t) * PAD
    BY <1>1
<1>13. BaseWide(b) = 4 + x + t
    BY <1>4, <1>5, <1>10 DEF BaseWide
<1> QED
    BY <1>11, <1>12, <1>13

LEMMA SessionSizeIs ==
    ASSUME NEW s, s.bases \in Seq(SB!CacheBase)
    PROVE  SB!get_binsize(s) = (2 + BasesWide(s.bases, Len(s.bases))) * PAD
<1>1. PAD \in Nat \ {0}
    BY SessionsAssumption DEF SB!SessionsOK
<1>2. PICK l \in Seq(SB!CacheBase) : l = s.bases
    OBVIOUS
<1>3. Len(l) \in Nat /\ DOMAIN l = 1..Len(l) /\ \A i \in 1..Len(l) : l[i] \in SB!CacheBase
    BY LenProperties
<1>5. PICK n, f, g : /\ n \in Nat /\ n = Len(l)
                     /\ f = [j \in 1..n |-> BaseWide(l[j])]
                     /\ g = [j \in 1..n |-> SB!BaseSize(l[j])]
    BY <1>3
<1>6. \A j \in 1..n : /\ f[j] \in Nat /\ g[j] = f[j] * PAD /\ g[j] \in Nat
    <2> SUFFICES ASSUME NEW j \in 1..n PROVE f[j] \in Nat /\ g[j] = f[j] * PAD /\ g[j] \in Nat
        OBVIOUS
    <2>1. PICK b \in SB!CacheBase : b = l[j]
        BY <1>3, <1>5
    <2>2. PICK w \in Nat \ {0} : w = BaseWide(b)
        BY BaseWideIs
    <2>3. SB!BaseSize(b) = w * PAD
        BY <2>2, BaseSizeIs
    <2>4. w * PAD \in Nat
        BY <1>1, TimesIsLarger
    <2>5. f[j] = w /\ g[j] = SB!BaseSize(b)
        BY <1>5, <2>1, <2>2
    <2> QED
        BY <2>3, <2>4, <2>5
<1>7. f \in [1..n -> Nat] /\ g \in [1..n -> Nat]
    BY <1>5, <1>6
<1>8. PICK t \in Nat : t = SB!Total(f, n)
    <2>1. n \in 0..n
        BY <1>5
    <2> QED
        BY <1>5, <1>7, <2>1, TotalStep
<1>9. SB!Total(g, n) = t * PAD
    <2>1. PAD \in Nat /\ n \in Nat /\ \A j \in 1..n : g[j] = f[j] * PAD
        BY <1>1, <1>5, <1>6
    <2>2. SB!Total(g, n) = SB!Total(f, n) * PAD
        BY <1>7, <2>1, TotalTimes
    <2> QED
        BY <1>8, <2>2
<1>10. BasesWide(l, n) = t
    BY <1>3, <1>5, <1>8 DEF BasesWide
<1>11. SB!get_binsize(s) = 2 * PAD + t * PAD
    BY <1>2, <1>3, <1>5, <1>9 DEF SB!get_binsize
<1>12. 2 * PAD + t * PAD = (2 + t) * PAD
    BY <1>1
<1> QED
    BY <1>2, <1>5, <1>10, <1>11, <1>12

\* The session that is made again takes as many bytes.
LEMMA ImageOfCollIs ==
    ASSUME NEW c \in SB!CacheColl
    PROVE  /\ SB!ImageOfColl(c) = [coll_id |-> c.coll_id, base_id |-> c.base_id,
                                   name |-> SB!Same(c.name), prefs |-> SB!Same(c.prefs)]
           /\ SB!ImageOfColl(c) \in SB!CacheColl
           /\ CollWide(SB!ImageOfColl(c)) = CollWide(c)
<1>1. SB!Same(c.name) \in SB!CString /\ SB!Same(c.prefs) \in SB!CString
    BY CollIs, StringIs
<1>2. SB!ImageOfColl(c) = [coll_id |-> c.coll_id, base_id |-> c.base_id,
                           name |-> SB!Same(c.name), prefs |-> SB!Same(c.prefs)]
    <2>1. PICK i : i = SB!ImageOfColl(c)
        OBVIOUS
    <2>2. i = [coll_id |-> c.coll_id, base_id |-> c.base_id,
               name |-> SB!Same(c.name), prefs |-> SB!Same(c.prefs)]
        BY <2>1 DEF SB!ImageOfColl, SB!CacheColl
    <2> QED
        BY <2>1, <2>2
<1>3. SB!ImageOfColl(c) \in SB!CacheColl
    BY <1>1, <1>2, CollIs DEF SB!CacheColl
<1>4. Wide(SB!Same(c.name)) = Wide(c.name) /\ Wide(SB!Same(c.prefs)) = Wide(c.prefs)
    <2>1. /\ SB!lenPAD(SB!Same(c.name)) = SB!lenPAD(c.name)
          /\ SB!lenPAD(SB!Same(c.prefs)) = SB!lenPAD(c.prefs)
        BY CollIs, WideIs
    <2> QED
        BY <2>1 DEF Wide
<1>5. CollWide(SB!ImageOfColl(c)) = CollWide(c)
    BY <1>2, <1>4 DEF CollWide
<1> QED
    BY <1>2, <1>3, <1>5

LEMMA ImageOfBaseIs ==
    ASSUME NEW b \in SB!CacheBase
    PROVE  /\ SB!ImageOfBase(b) =
                 [base_id |-> b.base_id, sbas_id |-> b.sbas_id, viewname |-> SB!Same(b.viewname),
                  host |-> SB!Same(b.host), port |-> b.port, user |-> SB!Same(b.user),
                  passwd |-> SB!Same(b.passwd), dbname |-> SB!Same(b.dbname),
                  xmlstruct |-> SB!Same(b.xmlstruct),
                  colls |-> [j \in 1..Len(b.colls) |-> SB!ImageOfColl(b.colls[j])]]
           /\ SB!ImageOfBase(b) \in SB!CacheBase
           /\ BaseWide(SB!ImageOfBase(b)) = BaseWide(b)
<1>1. /\ SB!Same(b.viewname) \in SB!CString /\ SB!Same(b.host) \in SB!CString
      /\ SB!Same(b.user) \in SB!CString /\ SB!Same(b.passwd) \in SB!CString
      /\ SB!Same(b.dbname) \in SB!CString /\ SB!Same(b.xmlstruct) \in SB!CString
    BY BaseIs, StringIs
<1>2. PICK n, k : /\ n \in Nat /\ n = Len(b.colls) /\ DOMAIN b.colls = 1..n
                  /\ k = [j \in 1..n |-> SB!ImageOfColl(b.colls[j])]
    BY BaseIs
<1>3. PICK i : i = SB!ImageOfBase(b)
    OBVIOUS
<1>4. i = [base_id |-> b.base_id, sbas_id |-> b.sbas_id, viewname |-> SB!Same(b.viewname),
           host |-> SB!Same(b.host), port |-> b.port, user |-> SB!Same(b.user),
           passwd |-> SB!Same(b.passwd), dbname |-> SB!Same(b.dbname),
           xmlstruct |-> SB!Same(b.xmlstruct), colls |-> k]
    BY <1>2, <1>3 DEF SB!ImageOfBase, SB!CacheBase
<1>5. /\ k \in Seq(SB!CacheColl) /\ Len(k) = n
      /\ \A j \in 1..n : k[j] = SB!ImageOfColl(b.colls[j])
    <2>1. \A j \in 1..n : SB!ImageOfColl(b.colls[j]) \in SB!CacheColl
        BY <1>2, BaseIs, ImageOfCollIs
    <2>2. k \in [1..n -> SB!CacheColl]
        BY <1>2, <2>1
    <2> QED
        BY <1>2, <2>2, SeqDef, LenProperties
<1>6. i \in SB!CacheBase
    BY <1>1, <1>4, <1>5, BaseIs DEF SB!CacheBase
<1>7. /\ Wide(i.viewname) = Wide(b.viewname) /\ Wide(i.host) = Wide(b.host)
      /\ Wide(i.user) = Wide(b.user) /\ Wide(i.passwd) = Wide(b.passwd)
      /\ Wide(i.dbname) = Wide(b.dbname) /\ Wide(i.xmlstruct) = Wide(b.xmlstruct)
    <2>1. /\ SB!lenPAD(SB!Same(b.viewname)) = SB!lenPAD(b.viewname)
          /\ SB!lenPAD(SB!Same(b.host)) = SB!lenPAD(b.host)
          /\ SB!lenPAD(SB!Same(b.user)) = SB!lenPAD(b.user)
          /\ SB!lenPAD(SB!Same(b.passwd)) = SB!lenPAD(b.passwd)
          /\ SB!lenPAD(SB!Same(b.dbname)) = SB!lenPAD(b.dbname)
          /\ SB!lenPAD(SB!Same(b.xmlstruct)) = SB!lenPAD(b.xmlstruct)
        BY BaseIs, WideIs
    <2>2. /\ i.viewname = SB!Same(b.viewname) /\ i.host = SB!Same(b.host)
          /\ i.user = SB!Same(b.user) /\ i.passwd = SB!Same(b.passwd)
          /\ i.dbname = SB!Same(b.dbname) /\ i.xmlstruct = SB!Same(b.xmlstruct)
        BY <1>4
    <2> QED
        BY <2>1, <2>2 DEF Wide
<1>8. HeadWide(i) = HeadWide(b)
    <2>1. HeadWide(i) = 4 + Wide(i.viewname) + Wide(i.host) + Wide(i.user) + Wide(i.passwd)
                              + Wide(i.dbname) + Wide(i.xmlstruct)
        BY <1>6, HeadIs
    <2>2. HeadWide(b) = 4 + Wide(b.viewname) + Wide(b.host) + Wide(b.user) + Wide(b.passwd)
                              + Wide(b.dbname) + Wide(b.xmlstruct)
        BY HeadIs
    <2> QED
        BY <1>7, <2>1, <2>2
<1>9. CollsWide(i, n) = CollsWide(b, n)
    <2>1. \A j \in 1..n : CollWide(k[j]) = CollWide(b.colls[j])
        <3> SUFFICES ASSUME NEW j \in 1..n PROVE CollWide(k[j]) = CollWide(b.colls[j])
            OBVIOUS
        <3>1. b.colls[j] \in SB!CacheColl
            BY <1>2, BaseIs
        <3> QED
            BY <1>5, <3>1, ImageOfCollIs
    <2>2. i.colls = k /\ DOMAIN k = 1..n
        BY <1>2, <1>4
    <2>3. [m \in DOMAIN i.colls |-> CollWide(i.colls[m])] =
              [m \in DOMAIN b.colls |-> CollWide(b.colls[m])]
        BY <1>2, <2>1, <2>2
    <2> QED
        BY <2>3 DEF CollsWide
<1>10. BaseWide(i) = BaseWide(b)
    <2>1. Len(i.colls) = n
        BY <1>4, <1>5
    <2> QED
        BY <1>2, <1>8, <1>9, <2>1 DEF BaseWide
<1> QED
    BY <1>2, <1>3, <1>4, <1>6, <1>10

-----------------------------------------------------------------------------
(* The binary form of a session: what is written                           *)

\* Where the next long goes, once j collections of the ith databox are written.
EndAt(l, i, j) == IF i = 0 THEN 3 ELSE CollStart(l, i, j + 1)

\* The collections of databox m that are written.
Count(l, i, j, m) == IF m = i THEN j ELSE Len(l[m].colls)

Written(z, l, id, i, j) ==
    /\ z \in Seq(Cell) /\ Len(z) = EndAt(l, i, j) - 1
    /\ z[1] = SB!Long(id) /\ z[2] = SB!Long(i)
    /\ \A m \in 1..i :
          /\ HeadAt(z, BaseStart(l, m), l[m], Count(l, i, j, m))
          /\ \A k \in 1..Count(l, i, j, m) : CollAt(z, CollStart(l, m, k), l[m].colls[k])

\* A count is raised and t is written at the end.
Raised(z, x, t) == [z EXCEPT ![x].n = @ + 1] \o t

LEMMA Outside ==
    ASSUME NEW q \in Nat, NEW h \in Nat, NEW a \in Nat, NEW w \in Nat, NEW e \in Nat, NEW x \in Nat,
           q >= 3, q + h <= a, a + w <= e, x < 3 \/ e <= x
    PROVE  a \in Nat \ {0} /\ (x < a \/ x >= a + w)
OBVIOUS

LEMMA AtTheCount ==
    ASSUME NEW s \in Nat, NEW h \in Nat \ {0}, NEW e \in Nat, NEW x \in Nat,
           s >= 3, s + h <= e, x = s + h - 1
    PROVE  /\ x \in 1..(e - 1) /\ x # 1 /\ x # 2 /\ 1 \in 1..(e - 1) /\ 2 \in 1..(e - 1)
           /\ \A a \in Nat : s + h <= a => a \in Nat \ {0} /\ x < a
OBVIOUS

\* A databox that ends before x, or starts after it.
LEMMA BaseKept ==
    ASSUME NEW l \in Seq(SB!CacheBase), NEW m \in 1..Len(l), NEW z \in Seq(Cell), NEW u \in Seq(Cell),
           NEW x \in Nat, Agree(z, u, x), x < 3 \/ BaseStart(l, m + 1) <= x
    PROVE  /\ \A n : HeadAt(z, BaseStart(l, m), l[m], n) => HeadAt(u, BaseStart(l, m), l[m], n)
           /\ \A k \in 1..Len(l[m].colls) :
                 CollAt(z, CollStart(l, m, k), l[m].colls[k]) => CollAt(u, CollStart(l, m, k), l[m].colls[k])
<1>1. PICK b \in SB!CacheBase : b = l[m]
    BY LenProperties
<1>2. PICK n \in Nat : n = Len(b.colls)
    BY BaseIs
<1>3. /\ BaseStart(l, m) \in Nat /\ BaseStart(l, m) >= 3 /\ BaseStart(l, m + 1) \in Nat
      /\ \A k \in 1..(n + 1) :
            /\ CollStart(l, m, k) \in Nat
            /\ BaseStart(l, m) + HeadWide(b) <= CollStart(l, m, k)
            /\ CollStart(l, m, k) <= BaseStart(l, m + 1)
      /\ \A k \in 1..n : CollStart(l, m, k + 1) = CollStart(l, m, k) + CollWide(b.colls[k])
    BY <1>1, <1>2, Places
<1>4. PICK q \in Nat \ {0}, e \in Nat, h \in Nat \ {0} :
          q = BaseStart(l, m) /\ q >= 3 /\ e = BaseStart(l, m + 1) /\ h = HeadWide(b)
    <2>1. BaseStart(l, m) \in Nat \ {0}
        BY <1>3
    <2>2. HeadWide(b) \in Nat \ {0}
        BY HeadIs
    <2> QED
        BY <1>3, <2>1, <2>2
<1>5. q + h <= e
    <2>1. 1 \in 1..(n + 1)
        OBVIOUS
    <2>2. q + h <= CollStart(l, m, 1) /\ CollStart(l, m, 1) <= e /\ CollStart(l, m, 1) \in Nat
        BY <1>3, <1>4, <2>1
    <2> QED
        BY <2>2
<1>6. x < 3 \/ e <= x
    BY <1>4
<1>7. ASSUME NEW c, HeadAt(z, q, b, c) PROVE HeadAt(u, q, b, c)
    <2>1. x < q \/ x >= q + HeadWide(b)
        BY <1>4, <1>5, <1>6
    <2> QED
        BY <1>7, <2>1, HeadKept
<1>8. ASSUME NEW k \in 1..n, CollAt(z, CollStart(l, m, k), b.colls[k])
      PROVE  CollAt(u, CollStart(l, m, k), b.colls[k])
    <2>1. PICK c \in SB!CacheColl, w \in Nat \ {0} : c = b.colls[k] /\ w = CollWide(c)
        BY <1>2, BaseIs, CollIs
    <2>2. k \in 1..(n + 1) /\ k + 1 \in 1..(n + 1)
        OBVIOUS
    <2>3. PICK a \in Nat : a = CollStart(l, m, k) /\ q + h <= a
        BY <1>3, <1>4, <2>2
    <2>4. CollStart(l, m, k + 1) = a + w
        BY <1>3, <2>1, <2>3
    <2>5. a + w <= e
        BY <1>3, <1>4, <2>2, <2>4
    <2>6. a \in Nat \ {0} /\ (x < a \/ x >= a + CollWide(c))
        <3>1. a \in Nat \ {0} /\ (x < a \/ x >= a + w)
            <4>1. q >= 3 /\ q \in Nat /\ h \in Nat /\ w \in Nat
                BY <1>4
            <4>2. q + h <= a
                BY <2>3
            <4> QED
                BY <1>6, <2>5, <4>1, <4>2, Outside
        <3> QED
            BY <2>1, <3>1
    <2>7. CollAt(z, a, c)
        BY <1>8, <2>1, <2>3
    <2>8. CollAt(u, a, c)
        BY <2>6, <2>7, CollKept
    <2> QED
        BY <2>1, <2>3, <2>8
<1> QED
    BY <1>1, <1>2, <1>4, <1>7, <1>8

LEMMA Appended ==
    ASSUME NEW z \in Seq(Cell), NEW x \in 1..Len(z), NEW n \in Int, z[x] = SB!Long(n),
           NEW t \in Seq(Cell), NEW y, y = Raised(z, x, t)
    PROVE  /\ y \in Seq(Cell) /\ Len(y) = Len(z) + Len(t)
           /\ y[x] = SB!Long(n + 1) /\ Agree(z, y, x)
           /\ \A b \in SB!CacheBase : \A k : HeadAt(t, 1, b, k) => HeadAt(y, Len(z) + 1, b, k)
           /\ \A c \in SB!CacheColl : CollAt(t, 1, c) => CollAt(y, Len(z) + 1, c)
<1>1. PICK u : u = [z EXCEPT ![x].n = @ + 1]
    OBVIOUS
<1>2. PICK m \in Nat : m = Len(z) /\ DOMAIN z = 1..m
    BY LenProperties
<1>3. u = [i \in 1..m |-> IF i = x THEN SB!Long(n + 1) ELSE z[i]]
    <2>1. [z[x] EXCEPT !.n = @ + 1] = SB!Long(n + 1)
        <3>1. [SB!Long(n) EXCEPT !.n = @ + 1] = SB!Long(n + 1)
            BY DEF SB!Long
        <3> QED
            BY <3>1
    <2>2. u = [z EXCEPT ![x] = [z[x] EXCEPT !.n = @ + 1]]
        BY <1>1
    <2>3. z = [i \in 1..m |-> z[i]]
        BY <1>2, LenProperties
    <2>4. u = [z EXCEPT ![x] = SB!Long(n + 1)]
        BY <2>1, <2>2
    <2> QED
        BY <1>2, <2>3, <2>4
<1>4. /\ u \in Seq(Cell) /\ Len(u) = m /\ u[x] = SB!Long(n + 1)
      /\ \A i \in 1..m : i # x => u[i] = z[i]
    <2>1. SB!Long(n + 1) \in Cell
        BY LongIs
    <2>2. \A i \in 1..m : z[i] \in Cell
        BY <1>2, LenProperties
    <2>3. u \in [1..m -> Cell]
        BY <1>3, <2>1, <2>2
    <2>4. u \in Seq(Cell) /\ Len(u) = m
        BY <2>3, SeqDef, LenProperties
    <2> QED
        BY <1>2, <1>3, <2>4
<1>5. PICK v \in Seq(Cell) : v = u \o t
    BY <1>4, ConcatCells
<1>6. Len(v) = m + Len(t) /\ Len(t) \in Nat /\ \A i \in 1..m : v[i] = u[i]
    <2>1. /\ Len(u \o t) = Len(u) + Len(t) /\ Len(t) \in Nat
          /\ \A i \in 1..Len(u) : (u \o t)[i] = u[i]
        BY <1>4, ConcatCells
    <2> QED
        BY <1>4, <1>5, <2>1
<1>7. v[x] = SB!Long(n + 1) /\ \A i \in 1..m : i # x => v[i] = z[i]
    BY <1>2, <1>4, <1>6
<1>8. Agree(z, v, x)
    <2>1. m <= Len(v)
        BY <1>6
    <2> QED
        BY <1>2, <1>7, <2>1 DEF Agree
<1>9. ASSUME NEW b \in SB!CacheBase, NEW k, HeadAt(t, 1, b, k) PROVE HeadAt(v, m + 1, b, k)
    <2>1. HeadAt(u \o t, Len(u) + 1, b, k)
        BY <1>4, <1>9, HeadShifted
    <2> QED
        BY <1>4, <1>5, <2>1
<1>10. ASSUME NEW c \in SB!CacheColl, CollAt(t, 1, c) PROVE CollAt(v, m + 1, c)
    <2>1. CollAt(u \o t, Len(u) + 1, c)
        BY <1>4, <1>10, CollShifted
    <2> QED
        BY <1>4, <1>5, <2>1
<1> QED
    <2>1. y = v
        BY <1>1, <1>5 DEF Raised
    <2>2. v \in Seq(Cell) /\ Len(v) = Len(z) + Len(t)
        BY <1>2, <1>6
    <2>3. v[x] = SB!Long(n + 1) /\ Agree(z, v, x)
        BY <1>7, <1>8
    <2>4. \A b \in SB!CacheBase : \A k : HeadAt(t, 1, b, k) => HeadAt(v, Len(z) + 1, b, k)
        BY <1>2, <1>9
    <2>5. \A c \in SB!CacheColl : CollAt(t, 1, c) => CollAt(v, Len(z) + 1, c)
        BY <1>2, <1>10
    <2> QED
        BY <2>1, <2>2, <2>3, <2>4, <2>5

LEMMA RaisedCount ==
    ASSUME NEW z \in Seq(Cell), NEW x \in 1..Len(z), NEW n \in Int, z[x] = SB!Long(n),
           NEW t \in Seq(Cell), NEW y, y = Raised(z, x, t)
    PROVE  y[x] = SB!Long(n + 1)
BY Appended, SMTT(30)

\* Where the next databox goes.
LEMMA NextBase ==
    ASSUME NEW l \in Seq(SB!CacheBase), NEW i \in 0..Len(l), NEW j,
           i > 0 => j = Len(l[i].colls)
    PROVE  /\ EndAt(l, i, j) = BaseStart(l, i + 1) /\ BaseStart(l, i + 1) \in Nat
           /\ BaseStart(l, i + 1) >= 3
           /\ i < Len(l) => EndAt(l, i + 1, 0) = BaseStart(l, i + 1) + HeadWide(l[i + 1])
<1>1. ASSUME i = 0
      PROVE  EndAt(l, i, j) = BaseStart(l, i + 1) /\ BaseStart(l, i + 1) \in Nat
             /\ BaseStart(l, i + 1) >= 3
    <2>1. BaseStart(l, 1) = 3
        <3>1. BasesWide(l, 0) = 0 /\ 1 - 1 = 0
            BY BasesWideIs
        <3> QED
            BY <3>1 DEF BaseStart
    <2> QED
        <3>1. i + 1 = 1 /\ EndAt(l, i, j) = 3
            BY <1>1 DEF EndAt
        <3> QED
            BY <2>1, <3>1
<1>2. ASSUME i > 0
      PROVE  EndAt(l, i, j) = BaseStart(l, i + 1) /\ BaseStart(l, i + 1) \in Nat
             /\ BaseStart(l, i + 1) >= 3
    <2>1. i \in 1..Len(l)
        BY <1>2
    <2>2. /\ BaseStart(l, i + 1) \in Nat /\ BaseStart(l, i) \in Nat /\ BaseStart(l, i) >= 3
          /\ CollStart(l, i, Len(l[i].colls) + 1) = BaseStart(l, i + 1)
        BY <2>1, Places
    <2>3. BaseStart(l, i + 1) >= 3
        <3>1. l[i] \in SB!CacheBase
            BY <2>1, LenProperties
        <3>2. PICK n \in Nat : n = Len(l[i].colls) /\ 1 \in 1..(n + 1)
            BY <3>1, BaseIs
        <3>3. /\ CollStart(l, i, 1) = BaseStart(l, i) + HeadWide(l[i])
              /\ CollStart(l, i, 1) <= BaseStart(l, i + 1) /\ CollStart(l, i, 1) \in Nat
            BY <2>1, <3>2, Places
        <3>4. HeadWide(l[i]) \in Nat
            BY <3>1, HeadIs
        <3> QED
            BY <2>2, <3>3, <3>4
    <2>4. EndAt(l, i, j) = CollStart(l, i, Len(l[i].colls) + 1)
        <3>1. i # 0 /\ j = Len(l[i].colls)
            BY <1>2
        <3> QED
            BY <3>1 DEF EndAt
    <2> QED
        BY <2>2, <2>3, <2>4
<1>3. ASSUME i < Len(l) PROVE EndAt(l, i + 1, 0) = BaseStart(l, i + 1) + HeadWide(l[i + 1])
    <2>1. i + 1 \in 1..Len(l) /\ i + 1 # 0
        BY <1>3, LenProperties
    <2>2. CollStart(l, i + 1, 1) = BaseStart(l, i + 1) + HeadWide(l[i + 1])
        BY <2>1, Places
    <2>3. 0 + 1 = 1
        OBVIOUS
    <2> QED
        BY <2>1, <2>2, <2>3 DEF EndAt
<1> QED
    <2>1. i = 0 \/ i > 0
        OBVIOUS
    <2> QED
        BY <1>1, <1>2, <1>3, <2>1

LEMMA WrittenFirst ==
    ASSUME NEW l, NEW id \in Int
    PROVE  Written(<<SB!Long(id), SB!Long(0)>>, l, id, 0, 0)
<1>1. PICK z \in Seq(Cell) : /\ z = <<SB!Long(id), SB!Long(0)>> /\ Len(z) = 2
                             /\ z[1] = SB!Long(id) /\ z[2] = SB!Long(0)
    <2>1. 0 \in Int
        OBVIOUS
    <2> QED
        BY <2>1, TwoLongs
<1>2. EndAt(l, 0, 0) = 3
    BY DEF EndAt
<1> QED
    BY <1>1, <1>2 DEF Written

LEMMA WrittenBase ==
    ASSUME NEW l \in Seq(SB!CacheBase), NEW id \in Int, NEW i \in 0..Len(l), i < Len(l), NEW j,
           i > 0 => j = Len(l[i].colls), NEW z, Written(z, l, id, i, j)
    PROVE  LET v == Raised(z, 2, HeadLongs(l[i + 1]))
           IN  /\ Written(v, l, id, i + 1, 0)
               /\ Len(z) + Len(HeadLongs(l[i + 1])) = AtCount(l[i + 1], BaseStart(l, i + 1))
<1>1. PICK b \in SB!CacheBase : b = l[i + 1] /\ i + 1 \in 1..Len(l)
    <2>1. Len(l) \in Nat
        BY LenProperties
    <2>2. i + 1 \in 1..Len(l)
        BY <2>1
    <2> QED
        BY <2>2, LenProperties
<1>2. PICK t \in Seq(Cell), h \in Nat \ {0} :
          t = HeadLongs(b) /\ h = HeadWide(b) /\ Len(t) = h /\ HeadAt(t, 1, b, 0)
    BY HeadMade, HeadIs
<1>3. PICK s \in Nat : /\ s = BaseStart(l, i + 1) /\ s >= 3 /\ EndAt(l, i, j) = s
                       /\ EndAt(l, i + 1, 0) = s + h
    BY <1>1, <1>2, NextBase
<1>4. /\ z \in Seq(Cell) /\ Len(z) = s - 1 /\ z[1] = SB!Long(id) /\ z[2] = SB!Long(i)
    BY <1>3 DEF Written
<1>5. 2 \in 1..Len(z) /\ i \in Int /\ 2 \in Nat
    BY <1>3, <1>4
<1>13. PICK v : v = Raised(z, 2, t)
    OBVIOUS
<1>6. /\ v \in Seq(Cell) /\ Len(v) = Len(z) + Len(t)
      /\ v[2] = SB!Long(i + 1) /\ Agree(z, v, 2) /\ HeadAt(v, Len(z) + 1, b, 0)
    <2>1. 2 \in 1..Len(z) /\ i \in Int /\ z[2] = SB!Long(i) /\ z \in Seq(Cell)
        BY <1>4, <1>5
    <2>2. /\ v \in Seq(Cell) /\ Len(v) = Len(z) + Len(t)
          /\ v[2] = SB!Long(i + 1) /\ Agree(z, v, 2)
        <3>1. v \in Seq(Cell)
            BY <1>13, <2>1, Appended
        <3>2. Len(v) = Len(z) + Len(t)
            BY <1>13, <2>1, Appended
        <3>3. v[2] = SB!Long(i + 1)
            BY <1>13, <2>1, RaisedCount
        <3>4. Agree(z, v, 2)
            BY <1>13, <2>1, Appended
        <3> QED
            BY <3>1, <3>2, <3>3, <3>4
    <2>3. HeadAt(t, 1, b, 0) => HeadAt(v, Len(z) + 1, b, 0)
        BY <1>13, <2>1, Appended
    <2> QED
        BY <1>2, <2>2, <2>3
<1>7. Len(v) = EndAt(l, i + 1, 0) - 1
    BY <1>2, <1>3, <1>4, <1>6
<1>8. v[1] = SB!Long(id)
    <2>1. \A k \in 1..Len(z) : k # 2 => v[k] = z[k]
        BY <1>6 DEF Agree
    <2>2. 1 \in 1..Len(z) /\ 1 # 2
        BY <1>3, <1>4
    <2>3. v[1] = z[1]
        BY <2>1, <2>2
    <2> QED
        BY <1>4, <2>3
<1>9. ASSUME NEW m \in 1..(i + 1)
      PROVE  /\ HeadAt(v, BaseStart(l, m), l[m], Count(l, i + 1, 0, m))
             /\ \A k \in 1..Count(l, i + 1, 0, m) : CollAt(v, CollStart(l, m, k), l[m].colls[k])
    <2>1. CASE m = i + 1
        <3>1. Count(l, i + 1, 0, m) = 0
            BY <2>1 DEF Count
        <3>2. Len(z) + 1 = BaseStart(l, m) /\ l[m] = b
            BY <1>1, <1>3, <1>4, <2>1
        <3> QED
            BY <1>6, <3>1, <3>2
    <2>2. CASE m # i + 1
        <3>1. m \in 1..i /\ m \in 1..Len(l)
            BY <1>1, <2>2
        <3>2. Count(l, i, j, m) = Len(l[m].colls) /\ Count(l, i + 1, 0, m) = Len(l[m].colls)
            BY <2>2, <3>1 DEF Count
        <3>3. /\ HeadAt(z, BaseStart(l, m), l[m], Len(l[m].colls))
              /\ \A k \in 1..Len(l[m].colls) : CollAt(z, CollStart(l, m, k), l[m].colls[k])
            BY <3>1, <3>2 DEF Written
        <3>4. 2 < 3
            OBVIOUS
        <3>5. /\ HeadAt(v, BaseStart(l, m), l[m], Len(l[m].colls))
              /\ \A k \in 1..Len(l[m].colls) : CollAt(v, CollStart(l, m, k), l[m].colls[k])
            BY <1>4, <1>5, <1>6, <3>1, <3>3, <3>4, BaseKept
        <3> QED
            BY <3>2, <3>5
    <2> QED
        BY <2>1, <2>2
<1>10. Written(v, l, id, i + 1, 0)
    BY <1>6, <1>7, <1>8, <1>9 DEF Written
<1>11. Len(z) + Len(t) = AtCount(b, s)
    <2>1. AtCount(b, s) = s + h - 1
        BY <1>2, <1>3, HeadPlaces
    <2> QED
        BY <1>2, <1>3, <1>4, <2>1
<1> QED
    BY <1>1, <1>2, <1>3, <1>10, <1>11, <1>13

LEMMA WrittenColl ==
    ASSUME NEW l \in Seq(SB!CacheBase), NEW id \in Int, NEW i \in 1..Len(l), NEW j \in Nat,
           j < Len(l[i].colls), NEW z, Written(z, l, id, i, j)
    PROVE  Written(Raised(z, AtCount(l[i], BaseStart(l, i)), CollLongs(l[i].colls[j + 1])), l, id, i, j + 1)
<1>1. PICK b \in SB!CacheBase : b = l[i]
    BY LenProperties
<1>2. PICK n \in Nat : n = Len(b.colls) /\ j < n /\ j + 1 \in 1..n
    <2>1. Len(b.colls) \in Nat
        BY BaseIs
    <2> QED
        BY <1>1, <2>1
<1>3. PICK c \in SB!CacheColl, w \in Nat \ {0} : c = b.colls[j + 1] /\ w = CollWide(c)
    BY <1>2, BaseIs, CollIs
<1>4. PICK t \in Seq(Cell) : t = CollLongs(c) /\ Len(t) = w /\ CollAt(t, 1, c)
    BY <1>3, CollMade
<1>5. PICK s \in Nat \ {0}, h \in Nat \ {0} : s = BaseStart(l, i) /\ s >= 3 /\ h = HeadWide(b)
    <2>1. BaseStart(l, i) \in Nat /\ BaseStart(l, i) >= 3 /\ HeadWide(b) \in Nat \ {0}
        BY Places, HeadIs
    <2> QED
        BY <2>1
<1>6. \A k \in 1..(n + 1) : CollStart(l, i, k) \in Nat /\ s + h <= CollStart(l, i, k)
    BY <1>1, <1>2, <1>5, Places
<1>7. PICK e \in Nat : e = CollStart(l, i, j + 1) /\ s + h <= e
    <2>1. j + 1 \in 1..(n + 1)
        BY <1>2
    <2> QED
        BY <1>6, <2>1
<1>8. CollStart(l, i, j + 2) = e + w
    <2>1. (j + 1) + 1 = j + 2
        OBVIOUS
    <2>2. CollStart(l, i, (j + 1) + 1) = CollStart(l, i, j + 1) + CollWide(b.colls[j + 1])
        BY <1>1, <1>2, Places
    <2> QED
        BY <1>3, <1>7, <2>1, <2>2
<1>9. EndAt(l, i, j) = e /\ EndAt(l, i, j + 1) = e + w
    <2>1. i # 0 /\ (j + 1) + 1 = j + 2
        OBVIOUS
    <2> QED
        BY <1>7, <1>8, <2>1 DEF EndAt
<1>10. PICK x \in Nat : x = s + h - 1 /\ x = AtCount(b, s)
    <2>1. AtCount(b, s) = s + h - 1 /\ s + h - 1 \in Nat
        BY <1>5, HeadPlaces
    <2> QED
        BY <2>1
<1>21. /\ x \in 1..(e - 1) /\ x # 1 /\ x # 2 /\ 1 \in 1..(e - 1) /\ 2 \in 1..(e - 1)
       /\ \A a \in Nat : s + h <= a => a \in Nat \ {0} /\ x < a
    BY <1>5, <1>7, <1>10, AtTheCount
<1>11. z \in Seq(Cell) /\ Len(z) = e - 1 /\ z[1] = SB!Long(id) /\ z[2] = SB!Long(i)
    BY <1>9 DEF Written
<1>12. /\ HeadAt(z, s, b, j)
       /\ \A k \in 1..j : CollAt(z, CollStart(l, i, k), b.colls[k])
    <2>1. i \in 1..i /\ Count(l, i, j, i) = j
        BY DEF Count
    <2> QED
        BY <1>1, <1>5, <2>1 DEF Written
<1>13. x \in 1..Len(z) /\ z[x] = SB!Long(j) /\ j \in Int
    <2>1. z[x] = SB!Long(j)
        BY <1>10, <1>12 DEF HeadAt
    <2> QED
        BY <1>11, <1>21, <2>1
<1>22. PICK v : v = Raised(z, x, t)
    OBVIOUS
<1>14. /\ v \in Seq(Cell) /\ Len(v) = Len(z) + Len(t)
       /\ v[x] = SB!Long(j + 1) /\ Agree(z, v, x) /\ CollAt(v, Len(z) + 1, c)
    <2>1. x \in 1..Len(z) /\ j \in Int /\ z[x] = SB!Long(j) /\ z \in Seq(Cell)
        BY <1>11, <1>13
    <2>2. /\ v \in Seq(Cell) /\ Len(v) = Len(z) + Len(t)
          /\ v[x] = SB!Long(j + 1) /\ Agree(z, v, x)
        <3>1. v \in Seq(Cell)
            BY <1>22, <2>1, Appended
        <3>2. Len(v) = Len(z) + Len(t)
            BY <1>22, <2>1, Appended
        <3>3. v[x] = SB!Long(j + 1)
            BY <1>22, <2>1, RaisedCount
        <3>4. Agree(z, v, x)
            BY <1>22, <2>1, Appended
        <3> QED
            BY <3>1, <3>2, <3>3, <3>4
    <2>3. CollAt(t, 1, c) => CollAt(v, Len(z) + 1, c)
        BY <1>22, <2>1, Appended
    <2> QED
        BY <1>4, <2>2, <2>3
<1>15. Len(v) = EndAt(l, i, j + 1) - 1
    BY <1>4, <1>9, <1>11, <1>14
<1>16. v[1] = SB!Long(id) /\ v[2] = SB!Long(i)
    <2>1. \A k \in 1..Len(z) : k # x => v[k] = z[k]
        BY <1>14 DEF Agree
    <2>2. 1 \in 1..Len(z) /\ 2 \in 1..Len(z) /\ 1 # x /\ 2 # x
        BY <1>11, <1>21
    <2> QED
        BY <1>11, <2>1, <2>2
<1>17. HeadAt(v, s, b, j + 1)
    <2>1. x >= AtCount(b, s) /\ v[AtCount(b, s)] = SB!Long(j + 1)
        <3>1. v[x] = SB!Long(j + 1)
            BY <1>14
        <3> QED
            BY <1>10, <3>1
    <2> QED
        BY <1>11, <1>12, <1>14, <2>1, HeadSame
<1>18. ASSUME NEW k \in 1..(j + 1) PROVE CollAt(v, CollStart(l, i, k), b.colls[k])
    <2>1. CASE k = j + 1
        <3>1. Len(z) + 1 = CollStart(l, i, k)
            BY <1>7, <1>11, <2>1
        <3> QED
            BY <1>3, <1>14, <2>1, <3>1
    <2>2. CASE k # j + 1
        <3>1. k \in 1..j /\ k \in 1..n /\ k \in 1..(n + 1)
            BY <1>2, <2>2
        <3>2. PICK d \in SB!CacheColl : d = b.colls[k]
            BY <1>2, <3>1, BaseIs
        <3>3. PICK a \in Nat \ {0} : a = CollStart(l, i, k) /\ x < a
            <4>1. CollStart(l, i, k) \in Nat /\ s + h <= CollStart(l, i, k)
                BY <1>6, <3>1
            <4>2. PICK a \in Nat : a = CollStart(l, i, k) /\ s + h <= a
                BY <4>1
            <4>3. a \in Nat \ {0} /\ x < a
                BY <1>21, <4>2
            <4> QED
                BY <4>2, <4>3
        <3>4. CollAt(z, a, d)
            BY <1>12, <3>1, <3>2, <3>3
        <3>5. CollAt(v, a, d)
            BY <1>11, <1>14, <3>3, <3>4, CollKept
        <3> QED
            BY <3>2, <3>3, <3>5
    <2> QED
        BY <2>1, <2>2
<1>19. ASSUME NEW m \in 1..i
       PROVE  /\ HeadAt(v, BaseStart(l, m), l[m], Count(l, i, j + 1, m))
              /\ \A k \in 1..Count(l, i, j + 1, m) : CollAt(v, CollStart(l, m, k), l[m].colls[k])
    <2>1. CASE m = i
        <3>1. Count(l, i, j + 1, m) = j + 1
            BY <2>1 DEF Count
        <3> QED
            BY <1>1, <1>5, <1>17, <1>18, <2>1, <3>1
    <2>2. CASE m # i
        <3>1. m \in 1..Len(l) /\ m < i
            BY <2>2
        <3>2. Count(l, i, j, m) = Len(l[m].colls) /\ Count(l, i, j + 1, m) = Len(l[m].colls)
            BY <2>2 DEF Count
        <3>3. /\ HeadAt(z, BaseStart(l, m), l[m], Len(l[m].colls))
              /\ \A k \in 1..Len(l[m].colls) : CollAt(z, CollStart(l, m, k), l[m].colls[k])
            BY <3>2 DEF Written
        <3>4. BaseStart(l, m + 1) <= x
            <4>1. BaseStart(l, m + 1) <= s /\ BaseStart(l, m + 1) \in Nat
                BY <1>5, <3>1, Places
            <4>2. s <= x
                BY <1>5, <1>10
            <4> QED
                BY <4>1, <4>2
        <3>5. /\ HeadAt(v, BaseStart(l, m), l[m], Len(l[m].colls))
              /\ \A k \in 1..Len(l[m].colls) : CollAt(v, CollStart(l, m, k), l[m].colls[k])
            <4>1. z \in Seq(Cell) /\ v \in Seq(Cell) /\ Agree(z, v, x)
                BY <1>11, <1>14
            <4> QED
                BY <3>1, <3>3, <3>4, <4>1, BaseKept
        <3> QED
            BY <3>2, <3>5
    <2> QED
        BY <2>1, <2>2
<1>20. Written(v, l, id, i, j + 1)
    BY <1>14, <1>15, <1>16, <1>19 DEF Written
<1> QED
    BY <1>1, <1>3, <1>4, <1>5, <1>10, <1>20, <1>22

-----------------------------------------------------------------------------
(* The binary form of a session: the invariant                             *)

\* Everything is written.
AllWritten(z, l, id) ==
    /\ z \in Seq(Cell) /\ Len(z) = BaseStart(l, Len(l) + 1) - 1
    /\ z[1] = SB!Long(id) /\ z[2] = SB!Long(Len(l))
    /\ \A m \in 1..Len(l) :
          /\ HeadAt(z, BaseStart(l, m), l[m], Len(l[m].colls))
          /\ \A k \in 1..Len(l[m].colls) : CollAt(z, CollStart(l, m, k), l[m].colls[k])

\* A databox of which n collections are read.
Made(b, n) ==
    [base_id |-> b.base_id, sbas_id |-> b.sbas_id, viewname |-> SB!Same(b.viewname),
     host |-> SB!Same(b.host), port |-> b.port, user |-> SB!Same(b.user),
     passwd |-> SB!Same(b.passwd), dbname |-> SB!Same(b.dbname), xmlstruct |-> SB!Same(b.xmlstruct),
     colls |-> [j \in 1..n |-> SB!ImageOfColl(b.colls[j])]]

\* The first i databoxes, without the last r collections of the ith.
MadeBases(l, i, r) ==
    [m \in 1..i |-> Made(l[m], IF m = i THEN Len(l[m].colls) - r ELSE Len(l[m].colls))]

SavedType ==
    /\ sb_saved \in [session_id : Int, bases : Seq(SB!CacheBase)]
    /\ sb_pc \in {"size", "write", "read", "done"}

BlobInit ==
    sb_pc = "size" => /\ sb_base = 0 /\ sb_coll = 0 /\ sb_toread = 0
                      /\ sb_restored = [session_id |-> 0, bases |-> << >>]

BlobWriting ==
    sb_pc = "write" =>
        /\ sb_binlen = SB!get_binsize(sb_saved)
        /\ sb_base \in 0..Len(sb_saved.bases) /\ sb_coll \in Nat
        /\ sb_base = 0 => sb_coll = 0
        /\ sb_base > 0 =>
              /\ sb_coll <= Len(sb_saved.bases[sb_base].colls)
              /\ sb_counter = AtCount(sb_saved.bases[sb_base], BaseStart(sb_saved.bases, sb_base))
        /\ Written(sb_bin, sb_saved.bases, sb_saved.session_id, sb_base, sb_coll)
        /\ sb_toread = 0
        /\ sb_restored = [session_id |-> 0, bases |-> << >>]

BlobReading ==
    sb_pc \in {"read", "done"} =>
        /\ sb_binlen = SB!get_binsize(sb_saved)
        /\ AllWritten(sb_bin, sb_saved.bases, sb_saved.session_id)
        /\ sb_base \in 0..Len(sb_saved.bases) /\ sb_toread \in Nat
        /\ sb_base = 0 => sb_toread = 0
        /\ sb_base > 0 => sb_toread <= Len(sb_saved.bases[sb_base].colls)
        /\ sb_p = EndAt(sb_saved.bases, sb_base, Len(sb_saved.bases[sb_base].colls) - sb_toread)
        /\ sb_restored = [session_id |-> sb_saved.session_id,
                          bases |-> MadeBases(sb_saved.bases, sb_base, sb_toread)]
        /\ sb_pc = "done" => sb_toread = 0 /\ sb_base = Len(sb_saved.bases)

BlobInv == SavedType /\ BlobInit /\ BlobWriting /\ BlobReading

LEMMA Fits ==
    ASSUME NEW l \in Seq(SB!CacheBase), NEW i \in 0..Len(l), NEW j \in Nat,
           i > 0 => j <= Len(l[i].colls)
    PROVE  /\ BaseStart(l, Len(l) + 1) \in Nat /\ EndAt(l, i, j) \in Nat /\ EndAt(l, i, j) >= 3
           /\ EndAt(l, i, j) <= BaseStart(l, Len(l) + 1)
           /\ BaseStart(l, Len(l) + 1) = 3 + BasesWide(l, Len(l)) /\ BasesWide(l, Len(l)) \in Nat
<1>1. PICK n \in Nat : n = Len(l)
    BY LenProperties
<1>2. BasesWide(l, n) \in Nat /\ BaseStart(l, n + 1) = 3 + BasesWide(l, n)
    <2>1. n \in 0..Len(l) /\ (n + 1) - 1 = n
        BY <1>1
    <2> QED
        BY <2>1, BasesWideIs DEF BaseStart
<1>3. BaseStart(l, n + 1) \in Nat /\ BaseStart(l, n + 1) >= 3
    BY <1>2
<1>4. ASSUME i = 0
      PROVE  EndAt(l, i, j) \in Nat /\ EndAt(l, i, j) >= 3 /\ EndAt(l, i, j) <= BaseStart(l, n + 1)
    <2>1. EndAt(l, i, j) = 3
        BY <1>4 DEF EndAt
    <2> QED
        BY <1>3, <2>1
<1>5. ASSUME i > 0
      PROVE  EndAt(l, i, j) \in Nat /\ EndAt(l, i, j) >= 3 /\ EndAt(l, i, j) <= BaseStart(l, n + 1)
    <2>1. i \in 1..Len(l) /\ i # 0 /\ l[i] \in SB!CacheBase
        BY <1>5, LenProperties
    <2>2. PICK k \in Nat : k = Len(l[i].colls) /\ j <= k
        <3>1. Len(l[i].colls) \in Nat
            BY <2>1, BaseIs
        <3> QED
            BY <1>5, <3>1
    <2>3. j + 1 \in 1..(k + 1)
        BY <2>2
    <2>4. PICK s \in Nat, h \in Nat : s = BaseStart(l, i) /\ h = HeadWide(l[i]) /\ s >= 3
        <3>1. BaseStart(l, i) \in Nat /\ BaseStart(l, i) >= 3
            BY <2>1, Places
        <3>2. HeadWide(l[i]) \in Nat
            BY <2>1, HeadIs
        <3> QED
            BY <3>1, <3>2
    <2>5. CollStart(l, i, j + 1) \in Nat /\ s + h <= CollStart(l, i, j + 1)
        BY <2>1, <2>2, <2>3, <2>4, Places
    <2>6. CollStart(l, i, j + 1) <= BaseStart(l, i + 1) /\ BaseStart(l, i + 1) \in Nat
        BY <2>1, <2>2, <2>3, Places
    <2>7. BaseStart(l, i + 1) <= BaseStart(l, n + 1)
        BY <1>1, <2>1, Places
    <2>8. EndAt(l, i, j) = CollStart(l, i, j + 1)
        BY <2>1 DEF EndAt
    <2>9. PICK x \in Nat : x = EndAt(l, i, j) /\ s + h <= x /\ x <= BaseStart(l, i + 1)
        BY <2>5, <2>6, <2>8
    <2>10. x >= 3
        BY <2>4, <2>9
    <2>11. x <= BaseStart(l, n + 1)
        BY <1>3, <2>6, <2>7, <2>9
    <2> QED
        BY <2>9, <2>10, <2>11
<1>6. i = 0 \/ i > 0
    OBVIOUS
<1> QED
    BY <1>1, <1>2, <1>3, <1>4, <1>5, <1>6

\* The buffer is as long as what is written in it, at the end.
LEMMA SizeFits ==
    ASSUME NEW s, s.bases \in Seq(SB!CacheBase), NEW n \in Nat, n <= BaseStart(s.bases, Len(s.bases) + 1) - 1
    PROVE  /\ n * PAD <= SB!get_binsize(s)
           /\ n = BaseStart(s.bases, Len(s.bases) + 1) - 1 => n * PAD = SB!get_binsize(s)
<1>1. PAD \in Nat
    BY SessionsAssumption DEF SB!SessionsOK
<1>2. PICK l \in Seq(SB!CacheBase) : l = s.bases
    OBVIOUS
<1>3. PICK w \in Nat : w = BasesWide(l, Len(l)) /\ BaseStart(l, Len(l) + 1) = 3 + w
    <2>1. BasesWide(l, Len(l)) \in Nat
        <3>1. Len(l) \in 0..Len(l)
            BY LenProperties
        <3> QED
            BY <3>1, BasesWideIs
    <2>2. (Len(l) + 1) - 1 = Len(l)
        BY LenProperties
    <2> QED
        BY <2>1, <2>2 DEF BaseStart
<1>4. SB!get_binsize(s) = (2 + w) * PAD
    BY <1>2, <1>3, SessionSizeIs
<1>5. n <= 2 + w /\ (n = BaseStart(s.bases, Len(s.bases) + 1) - 1 => n = 2 + w)
    BY <1>2, <1>3
<1>6. n * PAD <= (2 + w) * PAD
    <2>1. 2 + w \in Nat /\ n <= 2 + w
        BY <1>5
    <2> QED
        BY <1>1, <2>1, TimesGrows
<1> QED
    BY <1>4, <1>5, <1>6

LEMMA BlobStarts == SB!Init => BlobInv
<1> SUFFICES ASSUME SB!Init PROVE BlobInv
    OBVIOUS
<1>1. SavedType
    BY SessionsAssumption DEF SB!SessionsOK, SB!Init, SavedType
<1> QED
    BY <1>1 DEF SB!Init, BlobInv, BlobInit, BlobWriting, BlobReading

LEMMA SavedIs ==
    ASSUME SavedType
    PROVE  /\ sb_saved.session_id \in Int /\ sb_saved.bases \in Seq(SB!CacheBase)
           /\ Len(sb_saved.bases) \in Nat
           /\ sb_saved = [session_id |-> sb_saved.session_id, bases |-> sb_saved.bases]
<1>1. /\ sb_saved.session_id \in Int /\ sb_saved.bases \in Seq(SB!CacheBase)
      /\ sb_saved = [session_id |-> sb_saved.session_id, bases |-> sb_saved.bases]
    BY DEF SavedType
<1> QED
    BY <1>1, LenProperties

LEMMA SizeKeeps == BlobInv /\ SB!Size => BlobInv'
<1> SUFFICES ASSUME BlobInv, SB!Size PROVE BlobInv'
    OBVIOUS
<1>1. SavedType /\ SavedType'
    BY DEF BlobInv, SB!Size, SavedType
<1>2. /\ sb_saved' = sb_saved /\ sb_base' = 0 /\ sb_coll' = 0 /\ sb_toread' = 0
      /\ sb_restored' = [session_id |-> 0, bases |-> << >>] /\ sb_pc' = "write"
      /\ sb_binlen' = SB!get_binsize(sb_saved)
      /\ sb_bin' = <<SB!Long(sb_saved.session_id), SB!Long(0)>>
    BY DEF BlobInv, BlobInit, SB!Size
<1>3. Written(sb_bin', sb_saved.bases, sb_saved.session_id, 0, 0)
    BY <1>1, <1>2, SavedIs, WrittenFirst
<1>4. 0 \in 0..Len(sb_saved.bases) /\ 0 \in Nat /\ ~(0 > 0)
    BY <1>1, SavedIs
<1>5. SB!get_binsize(sb_saved)' = SB!get_binsize(sb_saved')
    OBVIOUS
<1>6. BlobWriting'
    BY <1>2, <1>3, <1>4 DEF BlobWriting
<1>7. BlobInit' /\ BlobReading'
    BY <1>2 DEF BlobInit, BlobReading
<1> QED
    BY <1>1, <1>6, <1>7 DEF BlobInv

LEMMA WriteBaseKeeps == BlobInv /\ SB!WriteBase => BlobInv'
<1> SUFFICES ASSUME BlobInv, SB!WriteBase PROVE BlobInv'
    OBVIOUS
<1>1. SavedType /\ SavedType'
    BY Zenon DEF BlobInv, SB!WriteBase, SavedType
<1>2. PICK l \in Seq(SB!CacheBase), id \in Int :
          l = sb_saved.bases /\ id = sb_saved.session_id /\ Len(l) \in Nat
    BY <1>1, SavedIs
<1>3. sb_pc = "write" /\ sb_pc' = "write"
    BY Zenon DEF SB!WriteBase
<1>4. /\ sb_binlen = SB!get_binsize(sb_saved)
      /\ sb_base \in 0..Len(l) /\ sb_coll \in Nat
      /\ Written(sb_bin, l, id, sb_base, sb_coll)
      /\ sb_toread = 0
      /\ sb_restored = [session_id |-> 0, bases |-> << >>]
    BY <1>2, <1>3 DEF BlobInv, BlobWriting
<1>5. /\ sb_base > 0 => sb_coll = Len(l[sb_base].colls)
      /\ sb_base < Len(l)
    BY <1>2, Zenon DEF SB!WriteBase, SB!AllCollsWritten
<1>6. PICK i \in Nat, b \in SB!CacheBase : i = sb_base /\ b = l[i + 1] /\ i + 1 \in 1..Len(l)
    <2>1. sb_base + 1 \in 1..Len(l) /\ sb_base \in Nat
        BY <1>2, <1>4, <1>5
    <2> QED
        BY <2>1, LenProperties
<1>7. /\ sb_bin' = Raised(sb_bin, 2, HeadLongs(b))
      /\ sb_counter' = Len(sb_bin) + Len(HeadLongs(b))
    BY <1>2, <1>6, Zenon DEF SB!WriteBase, SB!BaseStrings, HeadLongs, Raised
<1>8. /\ sb_base' = i + 1 /\ sb_coll' = 0 /\ sb_saved' = sb_saved /\ sb_binlen' = sb_binlen
      /\ sb_toread' = sb_toread /\ sb_restored' = sb_restored
    BY <1>6, Zenon DEF SB!WriteBase
<1>9. /\ Written(Raised(sb_bin, 2, HeadLongs(b)), l, id, i + 1, 0)
      /\ Len(sb_bin) + Len(HeadLongs(b)) = AtCount(b, BaseStart(l, i + 1))
    BY <1>4, <1>5, <1>6, WrittenBase
<1>10. 0 <= Len(b.colls) /\ 0 \in Nat /\ i + 1 \in 0..Len(l) /\ i + 1 # 0
    <2>1. Len(b.colls) \in Nat
        BY BaseIs
    <2> QED
        BY <1>2, <1>6, <2>1
<1>11. BlobWriting'
    BY <1>2, <1>4, <1>6, <1>7, <1>8, <1>9, <1>10 DEF BlobWriting
<1>12. BlobInit' /\ BlobReading'
    BY <1>3 DEF BlobInit, BlobReading
<1> QED
    BY <1>1, <1>11, <1>12 DEF BlobInv

LEMMA WriteCollKeeps == BlobInv /\ SB!WriteColl => BlobInv'
<1> SUFFICES ASSUME BlobInv, SB!WriteColl PROVE BlobInv'
    OBVIOUS
<1>1. SavedType /\ SavedType'
    BY Zenon DEF BlobInv, SB!WriteColl, SavedType
<1>2. PICK l \in Seq(SB!CacheBase), id \in Int :
          l = sb_saved.bases /\ id = sb_saved.session_id /\ Len(l) \in Nat
    BY <1>1, SavedIs
<1>3. sb_pc = "write" /\ sb_pc' = "write"
    BY Zenon DEF SB!WriteColl
<1>4. /\ sb_binlen = SB!get_binsize(sb_saved)
      /\ sb_base \in 0..Len(l) /\ sb_coll \in Nat
      /\ sb_base > 0 => /\ sb_coll <= Len(l[sb_base].colls)
                        /\ sb_counter = AtCount(l[sb_base], BaseStart(l, sb_base))
      /\ Written(sb_bin, l, id, sb_base, sb_coll)
      /\ sb_toread = 0
      /\ sb_restored = [session_id |-> 0, bases |-> << >>]
    BY <1>2, <1>3 DEF BlobInv, BlobWriting
<1>5. sb_base > 0 /\ sb_coll # Len(l[sb_base].colls)
    BY <1>2, Zenon DEF SB!WriteColl, SB!AllCollsWritten
<1>6. PICK i \in 1..Len(l), b \in SB!CacheBase : i = sb_base /\ b = l[i]
    <2>1. sb_base \in 1..Len(l)
        BY <1>2, <1>4, <1>5
    <2> QED
        BY <2>1, LenProperties
<1>7. PICK j \in Nat : j = sb_coll /\ j < Len(b.colls) /\ j + 1 <= Len(b.colls)
    <2>1. Len(b.colls) \in Nat
        BY BaseIs
    <2> QED
        BY <1>4, <1>5, <1>6, <2>1
<1>8. sb_bin' = Raised(sb_bin, AtCount(b, BaseStart(l, i)), CollLongs(b.colls[j + 1]))
    <2>1. sb_counter = AtCount(b, BaseStart(l, i))
        BY <1>4, <1>5, <1>6
    <2>2. PICK c : c = sb_saved.bases[sb_base].colls[sb_coll + 1]
        OBVIOUS
    <2>3. c = b.colls[j + 1]
        BY <1>2, <1>6, <1>7, <2>2
    <2>4. sb_bin' = Raised(sb_bin, sb_counter, CollLongs(c))
        BY <2>2, Zenon DEF SB!WriteColl, CollLongs, Raised
    <2> QED
        BY <2>1, <2>3, <2>4
<1>9. /\ sb_base' = i /\ sb_coll' = j + 1 /\ sb_saved' = sb_saved /\ sb_binlen' = sb_binlen
      /\ sb_counter' = sb_counter /\ sb_toread' = sb_toread /\ sb_restored' = sb_restored
    BY <1>6, <1>7, Zenon DEF SB!WriteColl
<1>10. Written(Raised(sb_bin, AtCount(b, BaseStart(l, i)), CollLongs(b.colls[j + 1])), l, id, i, j + 1)
    BY <1>4, <1>6, <1>7, WrittenColl
<1>11. i \in 0..Len(l) /\ j + 1 \in Nat /\ i # 0
    BY <1>2
<1>12. BlobWriting'
    BY <1>2, <1>4, <1>5, <1>6, <1>7, <1>8, <1>9, <1>10, <1>11 DEF BlobWriting
<1>13. BlobInit' /\ BlobReading'
    BY <1>3 DEF BlobInit, BlobReading
<1> QED
    BY <1>1, <1>12, <1>13 DEF BlobInv

LEMMA SendKeeps == BlobInv /\ SB!Send => BlobInv'
<1> SUFFICES ASSUME BlobInv, SB!Send PROVE BlobInv'
    OBVIOUS
<1>1. SavedType /\ SavedType'
    BY DEF BlobInv, SB!Send, SavedType
<1>2. PICK l \in Seq(SB!CacheBase), id \in Int, n \in Nat :
          l = sb_saved.bases /\ id = sb_saved.session_id /\ n = Len(l)
    BY <1>1, SavedIs
<1>3. sb_pc = "write" /\ sb_pc' = "read"
    BY DEF SB!Send
<1>4. /\ sb_binlen = SB!get_binsize(sb_saved)
      /\ Written(sb_bin, l, id, sb_base, sb_coll)
      /\ sb_toread = 0
      /\ sb_restored = [session_id |-> 0, bases |-> << >>]
    BY <1>2, <1>3 DEF BlobInv, BlobWriting
<1>5. sb_base = n /\ (n > 0 => sb_coll = Len(l[n].colls))
    BY <1>2 DEF SB!Send, SB!AllCollsWritten
<1>6. /\ sb_base' = 0 /\ sb_p' = 3 /\ sb_saved' = sb_saved /\ sb_binlen' = sb_binlen
      /\ sb_bin' = sb_bin /\ sb_toread' = sb_toread
      /\ sb_restored' = [session_id |-> sb_bin[1].n, bases |-> << >>]
    BY <1>4 DEF SB!Send
<1>7. AllWritten(sb_bin, l, id)
    <2>1. /\ sb_bin \in Seq(Cell) /\ Len(sb_bin) = EndAt(l, n, sb_coll) - 1
          /\ sb_bin[1] = SB!Long(id) /\ sb_bin[2] = SB!Long(n)
          /\ \A m \in 1..n :
                /\ HeadAt(sb_bin, BaseStart(l, m), l[m], Count(l, n, sb_coll, m))
                /\ \A k \in 1..Count(l, n, sb_coll, m) :
                      CollAt(sb_bin, CollStart(l, m, k), l[m].colls[k])
        BY <1>4, <1>5 DEF Written
    <2>2. EndAt(l, n, sb_coll) = BaseStart(l, n + 1)
        <3>1. n \in 0..Len(l)
            BY <1>2
        <3> QED
            BY <1>5, <3>1, NextBase
    <2>3. \A m \in 1..n : Count(l, n, sb_coll, m) = Len(l[m].colls)
        <3>1. \A m \in 1..n : m = n => n > 0
            OBVIOUS
        <3> QED
            BY <1>5, <3>1 DEF Count
    <2> QED
        BY <1>2, <2>1, <2>2, <2>3 DEF AllWritten
<1>8. sb_bin[1].n = id
    BY <1>7, LongIs DEF AllWritten
<1>9. MadeBases(l, 0, 0) = << >>
    <2>1. MadeBases(l, 0, 0) \in [1..0 -> {}]
        BY DEF MadeBases
    <2>2. MadeBases(l, 0, 0) \in Seq({}) /\ Len(MadeBases(l, 0, 0)) = 0
        BY <2>1, SeqDef, LenProperties
    <2> QED
        BY <2>2, EmptySeq
<1>10. EndAt(l, 0, Len(l[0].colls) - 0) = 3 /\ 0 \in 0..Len(l) /\ 0 \in Nat
    BY <1>2 DEF EndAt
<1>11. BlobReading'
    BY <1>2, <1>3, <1>4, <1>6, <1>7, <1>8, <1>9, <1>10 DEF BlobReading
<1>12. BlobInit' /\ BlobWriting'
    BY <1>3 DEF BlobInit, BlobWriting
<1> QED
    BY <1>1, <1>11, <1>12 DEF BlobInv

-----------------------------------------------------------------------------
(* The binary form of a session: what is read                              *)

LEMMA LongRead ==
    ASSUME NEW q \in 1..Len(sb_bin), NEW n \in Int, sb_bin \in Seq(Cell), sb_bin[q] = SB!Long(n)
    PROVE  SB!IsLong(q) /\ sb_bin[q].n = n
<1>1. q \in DOMAIN sb_bin
    BY LenProperties
<1> QED
    BY <1>1, LongIs DEF SB!IsLong

LEMMA HeadRead ==
    ASSUME sb_bin \in Seq(Cell), NEW b \in SB!CacheBase, NEW q \in Nat \ {0}, NEW n \in Int,
           HeadAt(sb_bin, q, b, n)
    PROVE  /\ SB!IsLong(q) /\ sb_bin[q].n = b.base_id
           /\ SB!IsLong(q + 1) /\ sb_bin[q + 1].n = b.sbas_id
           /\ SB!IsLong(AtPort(b, q)) /\ sb_bin[AtPort(b, q)].n = b.port
           /\ SB!IsLong(AtCount(b, q)) /\ sb_bin[AtCount(b, q)].n = n
           /\ SB!strlen(q + 2) >= 0 /\ SB!After(q + 2) = AtHost(b, q)
           /\ SB!StringAt(q + 2) = SB!Same(b.viewname)
           /\ SB!strlen(AtHost(b, q)) >= 0 /\ SB!After(AtHost(b, q)) = AtPort(b, q)
           /\ SB!StringAt(AtHost(b, q)) = SB!Same(b.host)
           /\ SB!strlen(AtPort(b, q) + 1) >= 0 /\ SB!After(AtPort(b, q) + 1) = AtPasswd(b, q)
           /\ SB!StringAt(AtPort(b, q) + 1) = SB!Same(b.user)
           /\ SB!strlen(AtPasswd(b, q)) >= 0 /\ SB!After(AtPasswd(b, q)) = AtDbname(b, q)
           /\ SB!StringAt(AtPasswd(b, q)) = SB!Same(b.passwd)
           /\ SB!strlen(AtDbname(b, q)) >= 0 /\ SB!After(AtDbname(b, q)) = AtXml(b, q)
           /\ SB!StringAt(AtDbname(b, q)) = SB!Same(b.dbname)
           /\ SB!strlen(AtXml(b, q)) >= 0 /\ SB!After(AtXml(b, q)) = AtCount(b, q)
           /\ SB!StringAt(AtXml(b, q)) = SB!Same(b.xmlstruct)
<1>1. PICK m \in Nat : m = Len(sb_bin) /\ AtCount(b, q) <= m
    BY LenProperties DEF HeadAt
<1>2. /\ q \in 1..m /\ q + 1 \in 1..m /\ AtPort(b, q) \in 1..m /\ AtCount(b, q) \in 1..m
      /\ q + 2 \in Nat \ {0} /\ AtHost(b, q) \in Nat \ {0} /\ AtPort(b, q) + 1 \in Nat \ {0}
      /\ AtPasswd(b, q) \in Nat \ {0} /\ AtDbname(b, q) \in Nat \ {0} /\ AtXml(b, q) \in Nat \ {0}
    <2>1. PICK a1 \in Nat, a2 \in Nat, a3 \in Nat, a4 \in Nat, a5 \in Nat, a6 \in Nat :
              /\ a1 = AtHost(b, q) /\ a2 = AtPort(b, q) /\ a3 = AtPasswd(b, q)
              /\ a4 = AtDbname(b, q) /\ a5 = AtXml(b, q) /\ a6 = AtCount(b, q)
        BY HeadPlaces
    <2>2. q + 2 < a1 /\ a1 < a2 /\ a2 + 1 < a3 /\ a3 < a4 /\ a4 < a5 /\ a5 < a6 /\ a6 <= m
        BY <1>1, <2>1, HeadPlaces
    <2>3. /\ q \in 1..m /\ q + 1 \in 1..m /\ a2 \in 1..m /\ a6 \in 1..m
          /\ q + 2 \in Nat \ {0} /\ a1 \in Nat \ {0} /\ a2 + 1 \in Nat \ {0}
          /\ a3 \in Nat \ {0} /\ a4 \in Nat \ {0} /\ a5 \in Nat \ {0}
        BY <2>2
    <2> QED
        BY <2>1, <2>3
<1>3. b.base_id \in Int /\ b.sbas_id \in Int /\ b.port \in Int
    BY BaseIs
<1>4. SB!IsLong(q) /\ sb_bin[q].n = b.base_id
    <2>1. sb_bin[q] = SB!Long(b.base_id)
        BY DEF HeadAt
    <2> QED
        BY <1>1, <1>2, <1>3, <2>1, LongRead
<1>5. SB!IsLong(q + 1) /\ sb_bin[q + 1].n = b.sbas_id
    <2>1. sb_bin[q + 1] = SB!Long(b.sbas_id)
        BY DEF HeadAt
    <2> QED
        BY <1>1, <1>2, <1>3, <2>1, LongRead
<1>6. SB!IsLong(AtPort(b, q)) /\ sb_bin[AtPort(b, q)].n = b.port
    <2>1. sb_bin[AtPort(b, q)] = SB!Long(b.port)
        BY DEF HeadAt
    <2> QED
        BY <1>1, <1>2, <1>3, <2>1, LongRead
<1>7. SB!IsLong(AtCount(b, q)) /\ sb_bin[AtCount(b, q)].n = n
    <2>1. sb_bin[AtCount(b, q)] = SB!Long(n)
        BY DEF HeadAt
    <2> QED
        BY <1>1, <1>2, <2>1, LongRead
<1>8. /\ SB!strlen(q + 2) >= 0 /\ SB!After(q + 2) = AtHost(b, q)
      /\ SB!StringAt(q + 2) = SB!Same(b.viewname)
    <2>1. PICK s \in SB!CString : s = b.viewname
        BY BaseIs
    <2>2. q + 2 \in Nat \ {0}
        BY <1>2
    <2>3. StrAt(sb_bin, q + 2, s)
        BY <2>1 DEF HeadAt
    <2>4. /\ SB!strlen(q + 2) \in Nat /\ SB!After(q + 2) = q + 2 + Wide(s)
          /\ SB!StringAt(q + 2) = SB!Same(s)
        BY <2>2, <2>3, StringRead
    <2>5. AtHost(b, q) = q + 2 + Wide(b.viewname)
        BY HeadPlaces
    <2> QED
        BY <2>1, <2>4, <2>5
<1>9. /\ SB!strlen(AtHost(b, q)) >= 0 /\ SB!After(AtHost(b, q)) = AtPort(b, q)
      /\ SB!StringAt(AtHost(b, q)) = SB!Same(b.host)
    <2>1. PICK s \in SB!CString : s = b.host
        BY BaseIs
    <2>2. AtHost(b, q) \in Nat \ {0}
        BY <1>2
    <2>3. StrAt(sb_bin, AtHost(b, q), s)
        BY <2>1 DEF HeadAt
    <2>4. /\ SB!strlen(AtHost(b, q)) \in Nat /\ SB!After(AtHost(b, q)) = AtHost(b, q) + Wide(s)
          /\ SB!StringAt(AtHost(b, q)) = SB!Same(s)
        BY <2>2, <2>3, StringRead
    <2>5. AtPort(b, q) = AtHost(b, q) + Wide(b.host)
        BY HeadPlaces
    <2> QED
        BY <2>1, <2>4, <2>5
<1>10. /\ SB!strlen(AtPort(b, q) + 1) >= 0 /\ SB!After(AtPort(b, q) + 1) = AtPasswd(b, q)
       /\ SB!StringAt(AtPort(b, q) + 1) = SB!Same(b.user)
    <2>1. PICK s \in SB!CString : s = b.user
        BY BaseIs
    <2>2. AtPort(b, q) + 1 \in Nat \ {0}
        BY <1>2
    <2>3. StrAt(sb_bin, AtPort(b, q) + 1, s)
        BY <2>1 DEF HeadAt
    <2>4. /\ SB!strlen(AtPort(b, q) + 1) \in Nat /\ SB!After(AtPort(b, q) + 1) = AtPort(b, q) + 1 + Wide(s)
          /\ SB!StringAt(AtPort(b, q) + 1) = SB!Same(s)
        BY <2>2, <2>3, StringRead
    <2>5. AtPasswd(b, q) = AtPort(b, q) + 1 + Wide(b.user)
        BY HeadPlaces
    <2> QED
        BY <2>1, <2>4, <2>5
<1>11. /\ SB!strlen(AtPasswd(b, q)) >= 0 /\ SB!After(AtPasswd(b, q)) = AtDbname(b, q)
       /\ SB!StringAt(AtPasswd(b, q)) = SB!Same(b.passwd)
    <2>1. PICK s \in SB!CString : s = b.passwd
        BY BaseIs
    <2>2. AtPasswd(b, q) \in Nat \ {0}
        BY <1>2
    <2>3. StrAt(sb_bin, AtPasswd(b, q), s)
        BY <2>1 DEF HeadAt
    <2>4. /\ SB!strlen(AtPasswd(b, q)) \in Nat /\ SB!After(AtPasswd(b, q)) = AtPasswd(b, q) + Wide(s)
          /\ SB!StringAt(AtPasswd(b, q)) = SB!Same(s)
        BY <2>2, <2>3, StringRead
    <2>5. AtDbname(b, q) = AtPasswd(b, q) + Wide(b.passwd)
        BY HeadPlaces
    <2> QED
        BY <2>1, <2>4, <2>5
<1>12. /\ SB!strlen(AtDbname(b, q)) >= 0 /\ SB!After(AtDbname(b, q)) = AtXml(b, q)
       /\ SB!StringAt(AtDbname(b, q)) = SB!Same(b.dbname)
    <2>1. PICK s \in SB!CString : s = b.dbname
        BY BaseIs
    <2>2. AtDbname(b, q) \in Nat \ {0}
        BY <1>2
    <2>3. StrAt(sb_bin, AtDbname(b, q), s)
        BY <2>1 DEF HeadAt
    <2>4. /\ SB!strlen(AtDbname(b, q)) \in Nat /\ SB!After(AtDbname(b, q)) = AtDbname(b, q) + Wide(s)
          /\ SB!StringAt(AtDbname(b, q)) = SB!Same(s)
        BY <2>2, <2>3, StringRead
    <2>5. AtXml(b, q) = AtDbname(b, q) + Wide(b.dbname)
        BY HeadPlaces
    <2> QED
        BY <2>1, <2>4, <2>5
<1>13. /\ SB!strlen(AtXml(b, q)) >= 0 /\ SB!After(AtXml(b, q)) = AtCount(b, q)
       /\ SB!StringAt(AtXml(b, q)) = SB!Same(b.xmlstruct)
    <2>1. PICK s \in SB!CString : s = b.xmlstruct
        BY BaseIs
    <2>2. AtXml(b, q) \in Nat \ {0}
        BY <1>2
    <2>3. StrAt(sb_bin, AtXml(b, q), s)
        BY <2>1 DEF HeadAt
    <2>4. /\ SB!strlen(AtXml(b, q)) \in Nat /\ SB!After(AtXml(b, q)) = AtXml(b, q) + Wide(s)
          /\ SB!StringAt(AtXml(b, q)) = SB!Same(s)
        BY <2>2, <2>3, StringRead
    <2>5. AtCount(b, q) = AtXml(b, q) + Wide(b.xmlstruct)
        BY HeadPlaces
    <2> QED
        BY <2>1, <2>4, <2>5
<1> QED
    BY <1>4, <1>5, <1>6, <1>7, <1>8, <1>9, <1>10, <1>11, <1>12, <1>13

LEMMA CollRead ==
    ASSUME sb_bin \in Seq(Cell), NEW c \in SB!CacheColl, NEW q \in Nat \ {0}, CollAt(sb_bin, q, c)
    PROVE  /\ SB!IsLong(q) /\ sb_bin[q].n = c.coll_id
           /\ SB!IsLong(q + 1) /\ sb_bin[q + 1].n = c.base_id
           /\ SB!strlen(q + 2) >= 0 /\ SB!StringAt(q + 2) = SB!Same(c.name)
           /\ SB!strlen(SB!After(q + 2)) >= 0
           /\ SB!StringAt(SB!After(q + 2)) = SB!Same(c.prefs)
           /\ SB!After(SB!After(q + 2)) = q + CollWide(c)
<1>1. PICK m \in Nat, w1 \in Nat \ {0}, w2 \in Nat \ {0} :
          m = Len(sb_bin) /\ w1 = Wide(c.name) /\ w2 = Wide(c.prefs)
    BY CollIs, LenProperties
<1>2. /\ sb_bin[q] = SB!Long(c.coll_id) /\ sb_bin[q + 1] = SB!Long(c.base_id)
      /\ StrAt(sb_bin, q + 2, c.name) /\ StrAt(sb_bin, q + 2 + w1, c.prefs)
    BY <1>1 DEF CollAt
<1>3. q \in 1..m /\ q + 1 \in 1..m
    <2>1. q + 2 + w1 - 1 <= m
        BY <1>1, <1>2 DEF StrAt
    <2> QED
        BY <2>1
<1>4. SB!IsLong(q) /\ sb_bin[q].n = c.coll_id
    BY <1>1, <1>2, <1>3, CollIs, LongRead
<1>5. SB!IsLong(q + 1) /\ sb_bin[q + 1].n = c.base_id
    BY <1>1, <1>2, <1>3, CollIs, LongRead
<1>6. PICK x \in Nat \ {0}, y \in Nat \ {0} : x = q + 2 /\ y = x + w1
    OBVIOUS
<1>7. SB!strlen(x) \in Nat /\ SB!StringAt(x) = SB!Same(c.name) /\ SB!After(x) = x + Wide(c.name)
    <2>1. StrAt(sb_bin, x, c.name) /\ c.name \in SB!CString
        BY <1>2, <1>6, CollIs
    <2> QED
        BY <2>1, StringRead
<1>8. SB!strlen(y) \in Nat /\ SB!StringAt(y) = SB!Same(c.prefs) /\ SB!After(y) = y + Wide(c.prefs)
    <2>1. StrAt(sb_bin, y, c.prefs) /\ c.prefs \in SB!CString
        BY <1>2, <1>6, CollIs
    <2> QED
        BY <2>1, StringRead
<1>9. SB!After(x) = y
    BY <1>1, <1>6, <1>7
<1>10. SB!After(y) = q + CollWide(c)
    <2>1. CollWide(c) = 2 + w1 + w2
        BY <1>1 DEF CollWide
    <2>2. SB!After(y) = y + w2
        BY <1>1, <1>8
    <2> QED
        BY <1>6, <2>1, <2>2
<1>11. SB!strlen(x) >= 0 /\ SB!strlen(y) >= 0
    BY <1>7, <1>8
<1> QED
    BY <1>4, <1>5, <1>6, <1>7, <1>8, <1>9, <1>10, <1>11

LEMMA AppendIs ==
    ASSUME NEW n \in Nat, NEW f, f = [m \in 1..n |-> f[m]], NEW v
    PROVE  Append(f, v) = [m \in 1..(n + 1) |-> IF m = n + 1 THEN v ELSE f[m]]
<1>1. PICK V : V = {f[m] : m \in 1..n} \cup {v}
    OBVIOUS
<1>2. f \in [1..n -> V] /\ v \in V
    <2>1. \A m \in 1..n : f[m] \in V
        BY <1>1
    <2> QED
        BY <1>1, <2>1
<1>3. f \in Seq(V) /\ Len(f) = n
    BY <1>2, SeqDef, LenProperties
<1>4. PICK u : u = Append(f, v)
    OBVIOUS
<1>9. u \in Seq(V) /\ Len(u) = n + 1 /\ u[n + 1] = v
    BY <1>2, <1>3, <1>4, AppendProperties
<1>5. \A m \in 1..n : u[m] = f[m]
    BY <1>2, <1>3, <1>4, AppendProperties
<1>6. u = [m \in 1..(n + 1) |-> u[m]]
    BY <1>9, LenProperties
<1>7. \A m \in 1..(n + 1) : m # n + 1 => m \in 1..n
    OBVIOUS
<1>8. \A m \in 1..(n + 1) : u[m] = IF m = n + 1 THEN v ELSE f[m]
    BY <1>5, <1>7, <1>9
<1> QED
    BY <1>4, <1>6, <1>8

\* One more databox, one more collection.
LEMMA MoreBases ==
    ASSUME NEW l \in Seq(SB!CacheBase), NEW i \in Nat, i < Len(l)
    PROVE  MadeBases(l, i + 1, Len(l[i + 1].colls)) = Append(MadeBases(l, i, 0), Made(l[i + 1], 0))
<1>1. \A m \in 1..Len(l) : Len(l[m].colls) \in Nat
    BY LenProperties, BaseIs
<1>2. Len(l) \in Nat
    BY LenProperties
<1>3. PICK old, new : old = MadeBases(l, i, 0) /\ new = MadeBases(l, i + 1, Len(l[i + 1].colls))
    OBVIOUS
<1>4. \A m \in 1..i : new[m] = old[m]
    <2> SUFFICES ASSUME NEW m \in 1..i PROVE new[m] = old[m]
        OBVIOUS
    <2>1. m \in 1..(i + 1) /\ m # i + 1 /\ m \in 1..Len(l)
        BY <1>2
    <2>2. Len(l[m].colls) - 0 = Len(l[m].colls)
        BY <1>1, <2>1
    <2>3. old[m] = Made(l[m], Len(l[m].colls))
        BY <1>3, <2>2 DEF MadeBases
    <2>4. new[m] = Made(l[m], Len(l[m].colls))
        BY <1>3, <2>1 DEF MadeBases
    <2> QED
        BY <2>3, <2>4
<1>5. new[i + 1] = Made(l[i + 1], 0)
    <2>1. i + 1 \in 1..(i + 1) /\ i + 1 \in 1..Len(l)
        BY <1>2
    <2>2. Len(l[i + 1].colls) - Len(l[i + 1].colls) = 0
        BY <1>1, <2>1
    <2> QED
        BY <1>3, <2>1, <2>2 DEF MadeBases
<1>6. old = [m \in 1..i |-> old[m]] /\ new = [m \in 1..(i + 1) |-> new[m]]
    BY <1>3 DEF MadeBases
<1>7. Append(old, new[i + 1]) = [m \in 1..(i + 1) |-> IF m = i + 1 THEN new[i + 1] ELSE old[m]]
    BY <1>6, AppendIs
<1>8. \A m \in 1..(i + 1) : new[m] = IF m = i + 1 THEN new[i + 1] ELSE old[m]
    <2>1. \A m \in 1..(i + 1) : m # i + 1 => m \in 1..i
        OBVIOUS
    <2> QED
        BY <1>4, <2>1
<1>9. Append(old, new[i + 1]) = new
    BY <1>6, <1>7, <1>8
<1> QED
    BY <1>3, <1>5, <1>9

\* A base that has been read one collection further.
Longer(bases, i, c) == [bases EXCEPT ![i].colls = Append(@, c)]

LEMMA MoreColls ==
    ASSUME NEW l \in Seq(SB!CacheBase), NEW i \in 1..Len(l), NEW r \in Nat \ {0}, NEW n \in Nat,
           n + r = Len(l[i].colls), NEW s \in Nat, s = r - 1, NEW k \in Nat, k = n + 1,
           NEW old, old = MadeBases(l, i, r), NEW new, new = MadeBases(l, i, s),
           NEW v, v = SB!ImageOfColl(l[i].colls[k])
    PROVE  Longer(old, i, v) = new
<1>1. PICK b \in SB!CacheBase : b = l[i]
    BY LenProperties
<1>2. old = MadeBases(l, i, r) /\ new = MadeBases(l, i, r - 1)
    OBVIOUS
<1>10. v = SB!ImageOfColl(b.colls[n + 1])
    BY <1>1
<1>3. /\ i \in 1..i /\ Len(b.colls) - r = n /\ Len(b.colls) - (r - 1) = n + 1
    BY <1>1
<1>4. old[i] = Made(b, n) /\ new[i] = Made(b, n + 1)
    <2>1. old[i] = Made(l[i], Len(l[i].colls) - r)
        BY <1>2, <1>3 DEF MadeBases
    <2>2. new[i] = Made(l[i], Len(l[i].colls) - (r - 1))
        BY <1>2, <1>3 DEF MadeBases
    <2> QED
        BY <1>1, <1>3, <2>1, <2>2
<1>5. \A m \in 1..i : m # i => new[m] = old[m]
    BY <1>2 DEF MadeBases
<1>6. old = [m \in 1..i |-> old[m]] /\ new = [m \in 1..i |-> new[m]]
    BY <1>2 DEF MadeBases
<1>7. [old[i] EXCEPT !.colls = Append(@, v)] = new[i]
    <2>1. PICK f, g : /\ f = [j \in 1..n |-> SB!ImageOfColl(b.colls[j])]
                      /\ g = [j \in 1..(n + 1) |-> SB!ImageOfColl(b.colls[j])]
        OBVIOUS
    <2>2. f = [j \in 1..n |-> f[j]]
        BY <2>1
    <2>3. Append(f, v) = [j \in 1..(n + 1) |-> IF j = n + 1 THEN v ELSE f[j]]
        BY <2>2, AppendIs
    <2>4. \A j \in 1..(n + 1) : SB!ImageOfColl(b.colls[j]) = IF j = n + 1 THEN v ELSE f[j]
        <3>1. \A j \in 1..(n + 1) : j # n + 1 => j \in 1..n
            OBVIOUS
        <3> QED
            BY <1>10, <2>1, <3>1
    <2>5. Append(f, v) = g
        <3>1. g = [j \in 1..(n + 1) |-> IF j = n + 1 THEN v ELSE f[j]]
            BY <2>1, <2>4
        <3> QED
            BY <2>3, <3>1
    <2>6. PICK e : e = [base_id |-> b.base_id, sbas_id |-> b.sbas_id,
                        viewname |-> SB!Same(b.viewname), host |-> SB!Same(b.host),
                        port |-> b.port, user |-> SB!Same(b.user), passwd |-> SB!Same(b.passwd),
                        dbname |-> SB!Same(b.dbname), xmlstruct |-> SB!Same(b.xmlstruct),
                        colls |-> f]
        OBVIOUS
    <2>9. e = Made(b, n) /\ e.colls = f
        <3>1. e = Made(b, n)
            BY <2>1, <2>6 DEF Made
        <3>2. e.colls = f
            BY <2>6
        <3> QED
            BY <3>1, <3>2
    <2>7. [e EXCEPT !.colls = g] = Made(b, n + 1)
        <3>1. PICK y : y = [e EXCEPT !.colls = g]
            OBVIOUS
        <3>2. y = [base_id |-> b.base_id, sbas_id |-> b.sbas_id,
                   viewname |-> SB!Same(b.viewname), host |-> SB!Same(b.host),
                   port |-> b.port, user |-> SB!Same(b.user), passwd |-> SB!Same(b.passwd),
                   dbname |-> SB!Same(b.dbname), xmlstruct |-> SB!Same(b.xmlstruct), colls |-> g]
            BY <2>6, <3>1
        <3>3. y = Made(b, n + 1)
            BY <2>1, <3>2 DEF Made
        <3> QED
            BY <3>1, <3>3
    <2>8. [e EXCEPT !.colls = Append(@, v)] = [e EXCEPT !.colls = g]
        BY <2>5, <2>9
    <2> QED
        BY <1>4, <2>7, <2>8, <2>9
<1>8. [old EXCEPT ![i].colls = Append(@, v)] = [old EXCEPT ![i] = new[i]]
    BY <1>7
<1>9. [old EXCEPT ![i] = new[i]] = new
    BY <1>5, <1>6
<1> QED
    BY <1>8, <1>9 DEF Longer

LEMMA RestoredPut ==
    ASSUME NEW id, NEW l, NEW x, x = [session_id |-> id, bases |-> l], NEW v
    PROVE  x.bases = l /\ [x EXCEPT !.bases = v] = [session_id |-> id, bases |-> v]
<1>1. x.bases = l
    OBVIOUS
<1>2. PICK y : y = [x EXCEPT !.bases = v]
    OBVIOUS
<1>3. y = [session_id |-> id, bases |-> v]
    BY <1>2
<1> QED
    BY <1>1, <1>2, <1>3

LEMMA ReadBaseDoes ==
    ASSUME SB!ReadBase, sb_bin \in Seq(Cell), NEW b \in SB!CacheBase, NEW q \in Nat \ {0}, q = sb_p,
           NEW n \in Int, HeadAt(sb_bin, q, b, n),
           NEW id, NEW l, sb_restored = [session_id |-> id, bases |-> l]
    PROVE  /\ sb_pc' = sb_pc /\ sb_toread' = n /\ sb_p' = AtCount(b, q) + 1
           /\ sb_restored' = [session_id |-> id, bases |-> Append(l, Made(b, 0))]
           /\ sb_base' = sb_base + 1
           /\ sb_saved' = sb_saved /\ sb_binlen' = sb_binlen /\ sb_bin' = sb_bin
<1>1. PICK c : c = [base_id |-> sb_bin[q].n, sbas_id |-> sb_bin[q + 1].n,
                    viewname |-> SB!StringAt(q + 2), host |-> SB!StringAt(AtHost(b, q)),
                    port |-> sb_bin[AtPort(b, q)].n, user |-> SB!StringAt(AtPort(b, q) + 1),
                    passwd |-> SB!StringAt(AtPasswd(b, q)), dbname |-> SB!StringAt(AtDbname(b, q)),
                    xmlstruct |-> SB!StringAt(AtXml(b, q)), colls |-> << >>]
    OBVIOUS
<1>2. /\ SB!After(q + 2) = AtHost(b, q) /\ SB!After(AtHost(b, q)) = AtPort(b, q)
      /\ SB!After(AtPort(b, q) + 1) = AtPasswd(b, q) /\ SB!After(AtPasswd(b, q)) = AtDbname(b, q)
      /\ SB!After(AtDbname(b, q)) = AtXml(b, q) /\ SB!After(AtXml(b, q)) = AtCount(b, q)
    BY HeadRead
<1>3. /\ SB!strlen(q + 2) >= 0 /\ SB!strlen(AtHost(b, q)) >= 0
      /\ SB!strlen(AtPort(b, q) + 1) >= 0 /\ SB!strlen(AtPasswd(b, q)) >= 0
      /\ SB!strlen(AtDbname(b, q)) >= 0 /\ SB!strlen(AtXml(b, q)) >= 0
    BY HeadRead
<1>4. SB!IsLong(q) /\ SB!IsLong(q + 1) /\ SB!IsLong(AtPort(b, q)) /\ SB!IsLong(AtCount(b, q))
    BY HeadRead
<1>5. /\ sb_restored' = [sb_restored EXCEPT !.bases = Append(@, c)]
      /\ sb_toread' = sb_bin[AtCount(b, q)].n /\ sb_p' = AtCount(b, q) + 1 /\ sb_pc' = sb_pc
    <2>1. /\ \A x \in {q + 2, AtHost(b, q), AtPort(b, q) + 1, AtPasswd(b, q), AtDbname(b, q),
                       AtXml(b, q)} : SB!strlen(x) >= 0
          /\ \A x \in {q, q + 1, AtPort(b, q), AtCount(b, q)} : SB!IsLong(x)
        BY <1>3, <1>4
    <2> QED
        BY <1>1, <1>2, <2>1, SMTT(20) DEF SB!ReadBase
<1>6. c = Made(b, 0)
    <2>1. /\ sb_bin[q].n = b.base_id /\ sb_bin[q + 1].n = b.sbas_id
          /\ sb_bin[AtPort(b, q)].n = b.port
        BY HeadRead
    <2>2. /\ SB!StringAt(q + 2) = SB!Same(b.viewname) /\ SB!StringAt(AtHost(b, q)) = SB!Same(b.host)
          /\ SB!StringAt(AtPort(b, q) + 1) = SB!Same(b.user)
          /\ SB!StringAt(AtPasswd(b, q)) = SB!Same(b.passwd)
          /\ SB!StringAt(AtDbname(b, q)) = SB!Same(b.dbname)
          /\ SB!StringAt(AtXml(b, q)) = SB!Same(b.xmlstruct)
        BY HeadRead
    <2>3. [j \in 1..0 |-> SB!ImageOfColl(b.colls[j])] = << >>
        <3>1. PICK f : f = [j \in 1..0 |-> SB!ImageOfColl(b.colls[j])]
            OBVIOUS
        <3>2. f \in [1..0 -> {}]
            BY <3>1
        <3>3. f \in Seq({}) /\ Len(f) = 0
            BY <3>2, SeqDef, LenProperties
        <3> QED
            BY <3>1, <3>3, EmptySeq
    <2> QED
        BY <1>1, <2>1, <2>2, <2>3 DEF Made
<1>7. sb_bin[AtCount(b, q)].n = n
    BY HeadRead
<1>8. [sb_restored EXCEPT !.bases = Append(@, c)] = [session_id |-> id, bases |-> Append(l, c)]
    <2>1. sb_restored.bases = l
        BY RestoredPut
    <2>2. [sb_restored EXCEPT !.bases = Append(@, c)] = [sb_restored EXCEPT !.bases = Append(l, c)]
        BY <2>1
    <2>3. PICK x, v : x = sb_restored /\ v = Append(l, c)
        OBVIOUS
    <2>4. x = [session_id |-> id, bases |-> l]
        BY <2>3
    <2>5. [x EXCEPT !.bases = v] = [session_id |-> id, bases |-> v]
        BY <2>4, RestoredPut
    <2> QED
        BY <2>2, <2>3, <2>5
<1>9. /\ sb_base' = sb_base + 1
      /\ sb_saved' = sb_saved /\ sb_binlen' = sb_binlen /\ sb_bin' = sb_bin
    BY DEF SB!ReadBase
<1> QED
    BY <1>5, <1>6, <1>7, <1>8, <1>9

LEMMA ReadCollDoes ==
    ASSUME SB!ReadColl, sb_bin \in Seq(Cell), NEW c \in SB!CacheColl, NEW q \in Nat \ {0}, q = sb_p,
           CollAt(sb_bin, q, c), NEW id, NEW l, sb_restored = [session_id |-> id, bases |-> l],
           NEW i, i = sb_base
    PROVE  /\ sb_pc' = sb_pc /\ sb_toread' = sb_toread - 1 /\ sb_p' = q + CollWide(c)
           /\ sb_restored' = [session_id |-> id,
                              bases |-> [l EXCEPT ![i].colls = Append(@, SB!ImageOfColl(c))]]
           /\ sb_base' = sb_base
           /\ sb_saved' = sb_saved /\ sb_binlen' = sb_binlen /\ sb_bin' = sb_bin
<1>1. PICK d : d = [coll_id |-> sb_bin[q].n, base_id |-> sb_bin[q + 1].n,
                    name |-> SB!StringAt(q + 2), prefs |-> SB!StringAt(SB!After(q + 2))]
    OBVIOUS
<1>2. /\ SB!strlen(q + 2) >= 0 /\ SB!strlen(SB!After(q + 2)) >= 0
      /\ SB!IsLong(q) /\ SB!IsLong(q + 1)
    BY CollRead
<1>3. /\ sb_restored' = [sb_restored EXCEPT !.bases[i].colls = Append(@, d)]
      /\ sb_toread' = sb_toread - 1 /\ sb_p' = SB!After(SB!After(q + 2)) /\ sb_pc' = sb_pc
    BY <1>1, <1>2 DEF SB!ReadColl
<1>4. d = SB!ImageOfColl(c)
    <2>1. /\ sb_bin[q].n = c.coll_id /\ sb_bin[q + 1].n = c.base_id
          /\ SB!StringAt(q + 2) = SB!Same(c.name)
          /\ SB!StringAt(SB!After(q + 2)) = SB!Same(c.prefs)
        BY CollRead
    <2> QED
        BY <1>1, <2>1, ImageOfCollIs
<1>5. SB!After(SB!After(q + 2)) = q + CollWide(c)
    BY CollRead
<1>6. [sb_restored EXCEPT !.bases[i].colls = Append(@, d)] =
          [session_id |-> id, bases |-> [l EXCEPT ![i].colls = Append(@, d)]]
    <2>1. sb_restored.bases = l
        BY RestoredPut
    <2>2. [sb_restored EXCEPT !.bases[i].colls = Append(@, d)] =
              [sb_restored EXCEPT !.bases = [l EXCEPT ![i].colls = Append(@, d)]]
        BY <2>1
    <2>3. PICK x, v : x = sb_restored /\ v = [l EXCEPT ![i].colls = Append(@, d)]
        OBVIOUS
    <2>4. x = [session_id |-> id, bases |-> l]
        BY <2>3
    <2>5. [x EXCEPT !.bases = v] = [session_id |-> id, bases |-> v]
        BY <2>4, RestoredPut
    <2> QED
        BY <2>2, <2>3, <2>5
<1>7. /\ sb_base' = sb_base
      /\ sb_saved' = sb_saved /\ sb_binlen' = sb_binlen /\ sb_bin' = sb_bin
    BY DEF SB!ReadColl
<1> QED
    BY <1>3, <1>4, <1>5, <1>6, <1>7

LEMMA ReadBaseKeeps == BlobInv /\ SB!ReadBase => BlobInv'
<1> SUFFICES ASSUME BlobInv, SB!ReadBase PROVE BlobInv'
    OBVIOUS
<1>1. SavedType
    BY DEF BlobInv
<1>2. PICK l \in Seq(SB!CacheBase), id \in Int :
          l = sb_saved.bases /\ id = sb_saved.session_id /\ Len(l) \in Nat
    BY <1>1, SavedIs
<1>3. sb_pc = "read" /\ sb_toread = 0 /\ sb_base < sb_bin[2].n
    BY DEF SB!ReadBase
<1>4. /\ sb_binlen = SB!get_binsize(sb_saved)
      /\ AllWritten(sb_bin, l, id)
      /\ sb_base \in 0..Len(l)
      /\ sb_p = EndAt(l, sb_base, Len(l[sb_base].colls) - sb_toread)
      /\ sb_restored = [session_id |-> id, bases |-> MadeBases(l, sb_base, sb_toread)]
    BY <1>2, <1>3 DEF BlobInv, BlobReading
<1>5. PICK i \in Nat, b \in SB!CacheBase :
          /\ i = sb_base /\ i < Len(l) /\ i + 1 \in 1..Len(l) /\ i \in 0..Len(l) /\ b = l[i + 1]
    <2>1. sb_bin[2].n = Len(l)
        BY <1>2, <1>4, LongIs DEF AllWritten
    <2>2. sb_base + 1 \in 1..Len(l) /\ sb_base \in Nat /\ sb_base < Len(l)
        BY <1>2, <1>3, <1>4, <2>1
    <2> QED
        BY <1>4, <2>2, LenProperties
<1>6. PICK q \in Nat \ {0} : q = sb_p /\ q = BaseStart(l, i + 1)
    <2>1. sb_p = EndAt(l, i, Len(l[i].colls) - 0)
        BY <1>3, <1>4, <1>5
    <2>2. i > 0 => Len(l[i].colls) - 0 = Len(l[i].colls)
        <3>1. ASSUME i > 0 PROVE Len(l[i].colls) \in Nat
            <4>1. i \in 1..Len(l)
                BY <1>2, <1>5, <3>1
            <4> QED
                BY <4>1, LenProperties, BaseIs
        <3> QED
            BY <3>1
    <2>3. EndAt(l, i, Len(l[i].colls) - 0) = BaseStart(l, i + 1)
        BY <1>5, <2>2, NextBase
    <2>4. BaseStart(l, i + 1) \in Nat \ {0}
        <3>1. BaseStart(l, i + 1) \in Nat /\ BaseStart(l, i + 1) >= 3
            BY <1>5, Places
        <3> QED
            BY <3>1
    <2> QED
        BY <2>1, <2>3, <2>4
<1>7. PICK n \in Nat : n = Len(b.colls)
    BY BaseIs
<1>8. HeadAt(sb_bin, q, b, n) /\ sb_bin \in Seq(Cell)
    BY <1>4, <1>5, <1>6, <1>7 DEF AllWritten
<1>9. sb_restored = [session_id |-> id, bases |-> MadeBases(l, i, 0)]
    BY <1>3, <1>4, <1>5
<1>10. /\ sb_pc' = sb_pc /\ sb_toread' = n /\ sb_p' = AtCount(b, q) + 1
       /\ sb_restored' = [session_id |-> id, bases |-> Append(MadeBases(l, i, 0), Made(b, 0))]
       /\ sb_base' = i + 1
       /\ sb_saved' = sb_saved /\ sb_binlen' = sb_binlen /\ sb_bin' = sb_bin
    <2>1. n \in Int
        OBVIOUS
    <2> QED
        BY <1>5, <1>6, <1>8, <1>9, <2>1, ReadBaseDoes
<1>11. sb_restored' = [session_id |-> id, bases |-> MadeBases(l, i + 1, n)]
    <2>1. MadeBases(l, i + 1, n) = Append(MadeBases(l, i, 0), Made(b, 0))
        BY <1>5, <1>7, MoreBases
    <2> QED
        BY <1>10, <2>1
<1>12. sb_p' = EndAt(l, i + 1, n - n)
    <2>1. EndAt(l, i + 1, 0) = q + HeadWide(b)
        <3>1. i > 0 => Len(l[i].colls) = Len(l[i].colls)
            OBVIOUS
        <3> QED
            BY <1>5, <1>6, <3>1, NextBase
    <2>2. AtCount(b, q) = q + HeadWide(b) - 1 /\ HeadWide(b) \in Nat
        BY HeadPlaces, HeadIs
    <2>3. AtCount(b, q) + 1 = q + HeadWide(b)
        BY <2>2
    <2>4. n - n = 0
        OBVIOUS
    <2> QED
        BY <1>10, <2>1, <2>3, <2>4
<1>13. SavedType'
    BY <1>1, <1>10 DEF SavedType
<1>14. i + 1 \in 0..Len(l) /\ i + 1 # 0 /\ n <= n
    BY <1>2, <1>5
<1>15. BlobReading'
    BY <1>2, <1>3, <1>4, <1>5, <1>7, <1>10, <1>11, <1>12, <1>14 DEF BlobReading
<1>16. BlobInit' /\ BlobWriting'
    BY <1>3, <1>10 DEF BlobInit, BlobWriting
<1> QED
    BY <1>13, <1>15, <1>16 DEF BlobInv

LEMMA ReadCollKeeps == BlobInv /\ SB!ReadColl => BlobInv'
<1> SUFFICES ASSUME BlobInv, SB!ReadColl PROVE BlobInv'
    OBVIOUS
<1>1. SavedType
    BY DEF BlobInv
<1>2. PICK l \in Seq(SB!CacheBase), id \in Int :
          l = sb_saved.bases /\ id = sb_saved.session_id /\ Len(l) \in Nat
    BY <1>1, SavedIs
<1>3. sb_pc = "read" /\ sb_toread > 0
    BY DEF SB!ReadColl
<1>4. /\ sb_binlen = SB!get_binsize(sb_saved)
      /\ AllWritten(sb_bin, l, id)
      /\ sb_base \in 0..Len(l) /\ sb_toread \in Nat
      /\ sb_base = 0 => sb_toread = 0
      /\ sb_base > 0 => sb_toread <= Len(l[sb_base].colls)
      /\ sb_p = EndAt(l, sb_base, Len(l[sb_base].colls) - sb_toread)
      /\ sb_restored = [session_id |-> id, bases |-> MadeBases(l, sb_base, sb_toread)]
    BY <1>2, <1>3 DEF BlobInv, BlobReading
<1>5. PICK i \in 1..Len(l), b \in SB!CacheBase : i = sb_base /\ b = l[i] /\ i > 0 /\ i # 0
    <2>1. sb_base \in 1..Len(l) /\ sb_base > 0 /\ sb_base # 0
        BY <1>2, <1>3, <1>4
    <2> QED
        BY <2>1, LenProperties
<1>6. PICK r \in Nat \ {0}, n \in Nat : r = sb_toread /\ n + r = Len(b.colls) /\ Len(b.colls) - r = n
    <2>1. Len(b.colls) \in Nat
        BY BaseIs
    <2>2. sb_toread \in Nat \ {0} /\ sb_toread <= Len(b.colls)
        BY <1>3, <1>4, <1>5
    <2>3. Len(b.colls) - sb_toread \in Nat /\ (Len(b.colls) - sb_toread) + sb_toread = Len(b.colls)
        BY <2>1, <2>2
    <2> QED
        BY <2>2, <2>3
<1>7. n + 1 \in 1..Len(b.colls) /\ n + 1 \in 1..(Len(b.colls) + 1)
    BY <1>6
<1>8. PICK c \in SB!CacheColl : c = b.colls[n + 1]
    BY <1>7, BaseIs
<1>9. PICK q \in Nat \ {0} : q = sb_p /\ q = CollStart(l, i, n + 1)
    <2>1. sb_p = CollStart(l, i, n + 1)
        BY <1>4, <1>5, <1>6 DEF EndAt
    <2>2. /\ CollStart(l, i, n + 1) \in Nat /\ BaseStart(l, i) \in Nat /\ BaseStart(l, i) >= 3
          /\ BaseStart(l, i) + HeadWide(b) <= CollStart(l, i, n + 1)
        BY <1>5, <1>7, Places
    <2>3. HeadWide(b) \in Nat
        BY HeadIs
    <2>4. CollStart(l, i, n + 1) \in Nat \ {0}
        BY <2>2, <2>3
    <2> QED
        BY <2>1, <2>4
<1>10. CollAt(sb_bin, q, c) /\ sb_bin \in Seq(Cell)
    BY <1>4, <1>5, <1>7, <1>8, <1>9 DEF AllWritten
<1>11. sb_restored = [session_id |-> id, bases |-> MadeBases(l, i, r)]
    BY <1>4, <1>5, <1>6
<1>12. /\ sb_pc' = sb_pc /\ sb_toread' = sb_toread - 1 /\ sb_p' = q + CollWide(c)
       /\ sb_restored' = [session_id |-> id,
                          bases |-> [MadeBases(l, i, r) EXCEPT ![i].colls =
                                        Append(@, SB!ImageOfColl(c))]]
       /\ sb_base' = sb_base
       /\ sb_saved' = sb_saved /\ sb_binlen' = sb_binlen /\ sb_bin' = sb_bin
    BY <1>5, <1>9, <1>10, <1>11, ReadCollDoes
<1>13. sb_restored' = [session_id |-> id, bases |-> MadeBases(l, i, r - 1)]
    <2>1. PICK old, new, v : /\ old = MadeBases(l, i, r) /\ new = MadeBases(l, i, r - 1)
                             /\ v = SB!ImageOfColl(l[i].colls[n + 1])
        OBVIOUS
    <2>2. n + r = Len(l[i].colls)
        BY <1>5, <1>6
    <2>6. PICK s \in Nat, k \in Nat : s = r - 1 /\ k = n + 1
        OBVIOUS
    <2>7. new = MadeBases(l, i, s) /\ v = SB!ImageOfColl(l[i].colls[k])
        BY <2>1, <2>6
    <2>3. new = [old EXCEPT ![i].colls = Append(@, v)]
        <3>1. Longer(old, i, v) = new
            BY <2>1, <2>2, <2>6, <2>7, MoreColls
        <3> QED
            BY <3>1 DEF Longer
    <2>4. v = SB!ImageOfColl(c)
        BY <1>5, <1>8, <2>1
    <2>5. sb_restored' = [session_id |-> id, bases |-> [old EXCEPT ![i].colls = Append(@, v)]]
        BY <1>12, <2>1, <2>4
    <2> QED
        BY <2>1, <2>3, <2>5
<1>14. sb_p' = EndAt(l, i, Len(b.colls) - (r - 1))
    <2>1. Len(b.colls) - (r - 1) = n + 1 /\ (n + 1) + 1 = n + 2
        BY <1>6
    <2>2. EndAt(l, i, n + 1) = CollStart(l, i, (n + 1) + 1)
        BY <1>5 DEF EndAt
    <2>3. CollStart(l, i, (n + 1) + 1) = CollStart(l, i, n + 1) + CollWide(c)
        BY <1>5, <1>7, <1>8, Places
    <2> QED
        BY <1>9, <1>12, <2>1, <2>2, <2>3
<1>15. SavedType'
    BY <1>1, <1>12 DEF SavedType
<1>16. r - 1 \in Nat /\ r - 1 <= Len(b.colls) /\ i \in 0..Len(l)
    BY <1>2, <1>6
<1>17. BlobReading'
    BY <1>2, <1>3, <1>4, <1>5, <1>6, <1>12, <1>13, <1>14, <1>16 DEF BlobReading
<1>18. BlobInit' /\ BlobWriting'
    BY <1>3, <1>12 DEF BlobInit, BlobWriting
<1> QED
    BY <1>15, <1>17, <1>18 DEF BlobInv

LEMMA EndKeeps == BlobInv /\ SB!End => BlobInv'
<1> SUFFICES ASSUME BlobInv, SB!End PROVE BlobInv'
    OBVIOUS
<1>1. /\ sb_pc = "read" /\ sb_pc' = "done" /\ sb_toread = 0 /\ sb_base = sb_bin[2].n
      /\ sb_saved' = sb_saved /\ sb_binlen' = sb_binlen /\ sb_bin' = sb_bin
      /\ sb_base' = sb_base /\ sb_p' = sb_p /\ sb_toread' = sb_toread
      /\ sb_restored' = sb_restored
    BY DEF SB!End
<1>2. SavedType /\ SavedType'
    BY <1>1 DEF BlobInv, SavedType
<1>3. sb_base = Len(sb_saved.bases)
    <2>1. sb_bin[2] = SB!Long(Len(sb_saved.bases))
        BY <1>1 DEF BlobInv, BlobReading, AllWritten
    <2> QED
        BY <1>1, <1>2, <2>1, SavedIs, LongIs
<1>4. BlobReading'
    BY <1>1, <1>3 DEF BlobInv, BlobReading
<1>5. BlobInit' /\ BlobWriting'
    BY <1>1 DEF BlobInit, BlobWriting
<1> QED
    BY <1>2, <1>4, <1>5 DEF BlobInv

LEMMA BlobStutters == BlobInv /\ UNCHANGED SB!vars => BlobInv'
BY DEF BlobInv, SavedType, BlobInit, BlobWriting, BlobReading, SB!vars

LEMMA BlobKeeps == BlobInv /\ [SB!Next]_SB!vars => BlobInv'
BY SizeKeeps, WriteBaseKeeps, WriteCollKeeps, SendKeeps, ReadBaseKeeps, ReadCollKeeps, EndKeeps,
   BlobStutters DEF SB!Next

\* The session that is made again is the image of the one that was saved.
LEMMA ImageIs ==
    ASSUME SavedType
    PROVE  /\ SB!Image = [session_id |-> sb_saved.session_id,
                          bases |-> MadeBases(sb_saved.bases, Len(sb_saved.bases), 0)]
           /\ SB!get_binsize(SB!Image) = SB!get_binsize(sb_saved)
<1>1. PICK l \in Seq(SB!CacheBase), id \in Int, n \in Nat :
          /\ l = sb_saved.bases /\ id = sb_saved.session_id /\ n = Len(l)
          /\ sb_saved = [session_id |-> id, bases |-> l]
    BY SavedIs
<1>2. DOMAIN l = 1..n /\ \A i \in 1..n : l[i] \in SB!CacheBase
    BY <1>1, LenProperties
<1>3. PICK k : k = [i \in 1..n |-> SB!ImageOfBase(l[i])]
    OBVIOUS
<1>4. SB!Image = [session_id |-> id, bases |-> k]
    <2>1. [i \in DOMAIN sb_saved.bases |-> SB!ImageOfBase(sb_saved.bases[i])] = k
        BY <1>1, <1>2, <1>3
    <2>2. SB!Image = [sb_saved EXCEPT !.bases = k]
        BY <2>1 DEF SB!Image
    <2> QED
        BY <1>1, <2>2
<1>5. k = MadeBases(l, n, 0)
    <2>1. \A i \in 1..n : SB!ImageOfBase(l[i]) = Made(l[i], Len(l[i].colls))
        BY <1>2, ImageOfBaseIs DEF Made
    <2>2. \A i \in 1..n : Len(l[i].colls) - 0 = Len(l[i].colls)
        <3>1. \A i \in 1..n : Len(l[i].colls) \in Nat
            BY <1>2, BaseIs
        <3> QED
            BY <3>1
    <2> QED
        BY <1>3, <2>1, <2>2 DEF MadeBases
<1>6. k \in Seq(SB!CacheBase) /\ Len(k) = n /\ DOMAIN k = 1..n
    <2>1. k \in [1..n -> SB!CacheBase]
        BY <1>2, <1>3, ImageOfBaseIs
    <2> QED
        BY <1>3, <2>1, SeqDef, LenProperties
<1>7. BasesWide(k, n) = BasesWide(l, n)
    <2>1. \A m \in 1..n : BaseWide(k[m]) = BaseWide(l[m])
        BY <1>2, <1>3, ImageOfBaseIs
    <2>2. [m \in DOMAIN k |-> BaseWide(k[m])] = [m \in DOMAIN l |-> BaseWide(l[m])]
        BY <1>2, <1>6, <2>1
    <2> QED
        BY <2>2 DEF BasesWide
<1>8. SB!get_binsize(sb_saved) = (2 + BasesWide(l, n)) * PAD
    BY <1>1, SessionSizeIs
<1>9. SB!get_binsize(SB!Image) = (2 + BasesWide(k, n)) * PAD
    <2>1. PICK s : s = SB!Image
        OBVIOUS
    <2>2. s.bases = k
        BY <1>4, <2>1
    <2>3. SB!get_binsize(s) = (2 + BasesWide(k, n)) * PAD
        BY <1>6, <2>2, SessionSizeIs
    <2> QED
        BY <2>1, <2>3
<1> QED
    BY <1>1, <1>4, <1>5, <1>7, <1>8, <1>9

LEMMA BlobHolds == BlobInv => SB!RestoredAsSaved
<1> SUFFICES ASSUME BlobInv PROVE SB!RestoredAsSaved
    OBVIOUS
<1>1. SavedType
    BY DEF BlobInv
<1>2. PICK l \in Seq(SB!CacheBase), id \in Int, n \in Nat :
          l = sb_saved.bases /\ id = sb_saved.session_id /\ n = Len(l)
    BY <1>1, SavedIs
<1>3. ASSUME sb_pc = "write" PROVE Len(sb_bin) * PAD <= sb_binlen
    <2>1. /\ sb_base \in 0..Len(l) /\ sb_coll \in Nat
          /\ sb_base > 0 => sb_coll <= Len(l[sb_base].colls)
          /\ Len(sb_bin) = EndAt(l, sb_base, sb_coll) - 1
          /\ sb_binlen = SB!get_binsize(sb_saved)
        BY <1>2, <1>3 DEF BlobInv, BlobWriting, Written
    <2>2. /\ EndAt(l, sb_base, sb_coll) \in Nat /\ EndAt(l, sb_base, sb_coll) >= 3
          /\ EndAt(l, sb_base, sb_coll) <= BaseStart(l, Len(l) + 1)
          /\ BaseStart(l, Len(l) + 1) \in Nat
        BY <2>1, Fits
    <2>3. Len(sb_bin) \in Nat /\ Len(sb_bin) <= BaseStart(l, Len(l) + 1) - 1
        BY <2>1, <2>2
    <2> QED
        BY <1>2, <2>1, <2>3, SizeFits
<1>4. ASSUME sb_pc \in {"read", "done"} PROVE Len(sb_bin) * PAD = sb_binlen
    <2>1. /\ Len(sb_bin) = BaseStart(l, Len(l) + 1) - 1 /\ sb_bin \in Seq(Cell)
          /\ sb_binlen = SB!get_binsize(sb_saved)
        BY <1>2, <1>4 DEF BlobInv, BlobReading, AllWritten
    <2>2. PICK m \in Nat : m = Len(sb_bin)
        BY <2>1, LenProperties
    <2>3. m <= BaseStart(l, Len(l) + 1) - 1
        BY <2>1, <2>2
    <2> QED
        BY <1>2, <2>1, <2>2, <2>3, SizeFits
<1>5. sb_pc \in {"read", "done"} => Len(sb_bin) * PAD <= sb_binlen
    <2>1. ASSUME sb_pc \in {"read", "done"} PROVE Len(sb_bin) * PAD <= sb_binlen
        <3>1. Len(sb_bin) \in Nat /\ PAD \in Nat
            BY <2>1, SessionsAssumption, LenProperties
               DEF BlobInv, BlobReading, AllWritten, SB!SessionsOK
        <3>2. Len(sb_bin) * PAD \in Nat
            BY <3>1, TimesGrows
        <3> QED
            BY <1>4, <2>1, <3>2
    <2> QED
        BY <2>1
<1>6. ASSUME sb_pc = "done"
      PROVE  sb_restored = SB!Image /\ SB!get_binsize(sb_restored) = sb_binlen
    <2>1. /\ sb_restored = [session_id |-> sb_saved.session_id,
                            bases |-> MadeBases(sb_saved.bases, Len(sb_saved.bases), 0)]
          /\ sb_binlen = SB!get_binsize(sb_saved)
        BY <1>6 DEF BlobInv, BlobReading
    <2> QED
        BY <1>1, <2>1, ImageIs
<1>7. sb_pc \in {"size", "write", "read", "done"}
    BY <1>1 DEF SavedType
<1> QED
    BY <1>3, <1>4, <1>5, <1>6, <1>7 DEF SB!RestoredAsSaved

\* RestoredAsSaved for any session, however many databoxes and collections it has and whatever
\* their names hold: what load() makes again of the block is the session save() wrote, empty
\* strings in place of none, and save() never writes past the size that was allocated.
THEOREM SessionIsRestored == AllSpec => []RestoredAsSaved
<1>1. SB!RestoredAsSaved => RestoredAsSaved
    BY DEF RestoredAsSaved
<1> QED
    BY BlobStarts, BlobKeeps, BlobHolds, <1>1, RunsBlob, PTL DEF SB!Spec
=============================================================================
