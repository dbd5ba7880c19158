----------------------------- MODULE Utf8Convert -----------------------------
(***************************************************************************)
(* phrasea_utf8_convert_to: the lower case and the removal of diacritics of *)
(* a UTF-8 string, through a table for the characters of one byte and one   *)
(* for those of two; longer characters are copied, those of five bytes and  *)
(* more are dropped.  The input is a string of bytes of a PHP script: it    *)
(* may be cut in the middle of a character or not be UTF-8 at all.          *)
(***************************************************************************)
EXTENDS Integers, Sequences, Selection

CONSTANTS
    Strings,  \* strings of bytes
    Cmap1,    \* cmap_1: a byte for each character of one byte
    Cmap2     \* cmap_2: bytes for each character of two bytes

Bytes == 0..255

\* The characters of one byte and those of two.
OneByte  == 0..127
TwoBytes == 128..2047

\* No string of cmap_2 has more than three bytes.
Cell == {b \in Seq(Bytes) : Len(b) <= 3}

\* What the tables are.
TablesOK ==
    /\ Strings \subseteq Seq(Bytes)
    /\ Cmap1 \in [OneByte -> OneByte]
    /\ Cmap2 \in [TwoBytes -> Cell]

VARIABLES
    str,     \* the argument
    pc,      \* "char": before a character; "next": in one; "emit"; "done"
    read,    \* bytes read: s - str
    c0,      \* the first byte of the character, shifted at each byte
    u,       \* what is known of its code, while it has four bytes at most
    nBytes,  \* its length
    out      \* str_out

vars == <<str, pc, read, c0, u, nBytes, out>>

len == Len(str) - read

\* Mutant of len_out: as many bytes of output as of input.
len_outNarrow == Len(str) + 6

len_out == Len(str) * 8 + 6

Init ==
    /\ str \in Strings
    /\ pc = "char"
    /\ read = 0
    /\ c0 = 0
    /\ u = 0
    /\ nBytes = 0
    /\ out = << >>

-----------------------------------------------------------------------------
\* The bit that msk clears when the n-th byte is followed by another: 12, 17 and 22.
MaskBit(n) == <<4096, 131072, 4194304>>[n]

\* x & msk: without that bit.
Clear(x, bit) == IF (x \div bit) % 2 = 1 THEN x - bit ELSE x

IsContinuation(c) == c \div 64 = 2

\* The first byte: a character of one byte, a lead byte, or a continuation out of
\* place, which is dropped.
Lead ==
    /\ pc = "char"
    /\ len > 0 /\ Len(out) < len_out - 6
    /\ LET c == str[read + 1] IN
          \/ /\ c < 128
             /\ out' = Append(out, Cmap1[c])
             /\ c0' = c /\ u' = c /\ nBytes' = 1
             /\ UNCHANGED pc
          \/ /\ c \in 128..191
             /\ c0' = c
             /\ UNCHANGED <<pc, u, nBytes, out>>
          \/ /\ c >= 192
             /\ c0' = c /\ u' = c % 32 /\ nBytes' = 1
             /\ pc' = "next"
             /\ UNCHANGED out
    /\ read' = read + 1
    /\ UNCHANGED str

\* Mutant of Announced: the byte is not looked at.
AnnouncedOnly == len > 0 /\ (c0 * 2) % 256 >= 128

\* The lead byte announces one more byte and there is a continuation byte.
Announced == AnnouncedOnly /\ IsContinuation(str[read + 1])

\* One turn of the inner loop.
NextByte ==
    /\ pc = "next"
    /\ Announced /\ nBytes < 6
    /\ u' = IF nBytes <= 3 THEN Clear(u * 64, MaskBit(nBytes)) + (str[read + 1] % 64) ELSE u
    /\ nBytes' = nBytes + 1
    /\ read' = read + 1
    /\ c0' = (c0 * 2) % 256
    /\ UNCHANGED <<str, pc, out>>

\* The end of the inner loop; a seventh byte is counted and not read.
EndOfChar ==
    /\ pc = "next"
    /\ ~(Announced /\ nBytes < 6)
    /\ nBytes' = IF Announced THEN 7 ELSE nBytes
    /\ c0' = IF len > 0 THEN (c0 * 2) % 256 ELSE c0
    /\ pc' = "emit"
    /\ UNCHANGED <<str, read, u, out>>

\* Two bytes by the table, three and four as they are, more not at all.
Emit ==
    /\ pc = "emit"
    /\ out' = out \o IF nBytes > 4 THEN << >>
                     ELSE IF u \in TwoBytes THEN Cmap2[u]
                     ELSE SubSeq(str, read - nBytes + 1, read)
    /\ pc' = "char"
    /\ UNCHANGED <<str, read, c0, u, nBytes>>

\* The end of the input, or no room left.
End ==
    /\ pc = "char"
    /\ len = 0 \/ Len(out) >= len_out - 6
    /\ pc' = "done"
    /\ UNCHANGED <<str, read, c0, u, nBytes, out>>

Next == Lead \/ NextByte \/ EndOfChar \/ Emit \/ End

Spec == Init /\ [][Next]_vars

-----------------------------------------------------------------------------
(* Properties                                                              *)

TypeOK ==
    /\ str \in Seq(Bytes)
    /\ pc \in {"char", "next", "emit", "done"}
    /\ read \in 0..Len(str)
    /\ c0 \in Bytes
    /\ u \in Nat
    /\ nBytes \in 0..7
    /\ out \in Seq(Bytes)

\* Utf8Inv: eight bytes of output for one of input, "hope it's wide enough !", are:
\* the output never reaches the end of its buffer, and the loop never stops before
\* the end of the input for lack of room.
Utf8Inv ==
    /\ TypeOK
    /\ Len(out) < len_out
    /\ pc \in {"next", "emit"} => nBytes > 0 /\ (nBytes <= 6 => nBytes <= read)
    /\ pc \in {"char", "done"} => Len(out) <= 4 * read
    /\ pc \in {"next", "emit"} =>
          Len(out) <= 4 * (read - IF nBytes = 7 THEN 6 ELSE nBytes)
    /\ pc = "done" => read = Len(str)

\* The bytes of the character that starts at byte i of a text, 0 if it is not UTF-8.
Width(text, i) ==
    LET c == text[i]
        n == CASE c < 128 -> 1 [] c \in 194..223 -> 2 [] c \in 224..239 -> 3
               [] c \in 240..244 -> 4 [] OTHER -> 0
    IN  IF i + n - 1 > Len(text) THEN 0
        ELSE IF \E j \in 1..(n - 1) : ~IsContinuation(text[i + j]) THEN 0
        ELSE IF (c = 224 /\ text[i + 1] < 160) \/ (c = 240 /\ text[i + 1] < 144) THEN 0
        ELSE n

\* What is left of the last n bytes of a text once the characters they begin with
\* are taken: nothing if they are UTF-8.
StuckLast(text, n) ==
    LET stuck[k \in 0..Len(text)] ==
            LET w == Width(text, Len(text) - k + 1)
            IN  IF k = 0 \/ w = 0 THEN k ELSE stuck[k - w]
    IN  stuck[n]

Folded(text, i) ==
    CASE Width(text, i) = 1 -> <<Cmap1[text[i]]>>
      [] Width(text, i) = 2 -> Cmap2[(text[i] % 32) * 64 + (text[i + 1] % 64)]
      [] OTHER -> SubSeq(text, i, i + Width(text, i) - 1)

\* What the function is for, on the last n bytes of a text: each character in its place.
FoldLast(text, n) ==
    LET fold[k \in 0..Len(text)] ==
            LET i == Len(text) - k + 1
                w == Width(text, i)
            IN  IF k = 0 \/ w = 0 THEN << >> ELSE Folded(text, i) \o fold[k - w]
    IN  fold[n]

Ascii(bytes) == Only(bytes, OneByte)

\* FoldsText: a string that is UTF-8 is folded character by character; in one that
\* is not, whatever is wrong takes no ASCII character with it.
FoldsText ==
    pc = "done" =>
        /\ StuckLast(str, Len(str)) = 0 => out = FoldLast(str, Len(str))
        /\ Len(Ascii(out)) >= Len(Ascii(str))
=============================================================================
