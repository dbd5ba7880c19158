------------------------------ MODULE Algorithms ------------------------------
(***************************************************************************)
(* The algorithms that run alone, in the memory of one call: the merge of   *)
(* two branches of a query (AnswerMerge), the marks of a page of results     *)
(* (Highlight), the folding of a string (Utf8Convert), the binary form of a *)
(* session (SessionBlob) and the nodes of a query (QueryNodes).  A behaviour *)
(* runs one of them; the others stay at their start.                        *)
(***************************************************************************)
EXTENDS AnswerMerge

CONSTANTS
    Inputs, NoMark,         \* Highlight
    Strings, Cmap1, Cmap2,  \* Utf8Convert
    Saved, PAD, NULL,       \* SessionBlob
    Arrays, NoType          \* QueryNodes

VARIABLES
    unit,                                                   \* the one that runs
    hl_input, hl_pc, hl_xml, hl_h, hl_s, hl_ss,             \* Highlight
    u8_str, u8_pc, u8_read, u8_c0, u8_u, u8_nBytes, u8_out, \* Utf8Convert
    sb_saved, sb_pc, sb_binlen, sb_bin, sb_base, sb_coll, sb_counter, sb_p,
    sb_toread, sb_restored,                                 \* SessionBlob
    qn_array, qn_noCache, qn_pc, qn_todo, qn_nodes, qn_root, qn_freed \* QueryNodes

HL == INSTANCE Highlight
          WITH input <- hl_input, pc <- hl_pc, xml <- hl_xml, h <- hl_h, s <- hl_s, ss <- hl_ss

U8 == INSTANCE Utf8Convert
          WITH str <- u8_str, pc <- u8_pc, read <- u8_read, c0 <- u8_c0, u <- u8_u,
               nBytes <- u8_nBytes, out <- u8_out

SB == INSTANCE SessionBlob
          WITH saved <- sb_saved, pc <- sb_pc, binlen <- sb_binlen, bin <- sb_bin,
               base <- sb_base, coll <- sb_coll, counter <- sb_counter, p <- sb_p,
               toread <- sb_toread, restored <- sb_restored

QN == INSTANCE QueryNodes
          WITH array <- qn_array, noCache <- qn_noCache, pc <- qn_pc, todo <- qn_todo,
               nodes <- qn_nodes, root <- qn_root, freed <- qn_freed

ASSUME TablesAssumption == U8!TablesOK
ASSUME ArraysAssumption == QN!ArraysOK
ASSUME SessionsAssumption == SB!SessionsOK

hlvars == <<hl_input, hl_pc, hl_xml, hl_h, hl_s, hl_ss>>
u8vars == <<u8_str, u8_pc, u8_read, u8_c0, u8_u, u8_nBytes, u8_out>>
sbvars == <<sb_saved, sb_pc, sb_binlen, sb_bin, sb_base, sb_coll, sb_counter, sb_p, sb_toread,
            sb_restored>>
qnvars == <<qn_array, qn_noCache, qn_pc, qn_todo, qn_nodes, qn_root, qn_freed>>
allvars == <<unit, vars, hlvars, u8vars, sbvars, qnvars>>

Units == {"merge", "highlight", "utf8", "blob", "nodes"}

AllInit ==
    /\ unit \in Units
    /\ Init /\ HL!Init /\ U8!Init /\ SB!Init /\ QN!Init

AllNext ==
    \/ unit = "merge" /\ Next /\ UNCHANGED <<unit, hlvars, u8vars, sbvars, qnvars>>
    \/ unit = "highlight" /\ HL!Next /\ UNCHANGED <<unit, vars, u8vars, sbvars, qnvars>>
    \/ unit = "utf8" /\ U8!Next /\ UNCHANGED <<unit, vars, hlvars, sbvars, qnvars>>
    \/ unit = "blob" /\ SB!Next /\ UNCHANGED <<unit, vars, hlvars, u8vars, qnvars>>
    \/ unit = "nodes" /\ QN!Next /\ UNCHANGED <<unit, vars, hlvars, u8vars, sbvars>>

AllSpec == AllInit /\ [][AllNext]_allvars

-----------------------------------------------------------------------------
(* The properties of the one that runs                                     *)

HighlightInv == unit = "highlight" => HL!HighlightInv
TextKept     == unit = "highlight" => HL!TextKept
MarksNest    == unit = "highlight" => HL!MarksNest

Utf8Inv   == unit = "utf8" => U8!Utf8Inv
FoldsText == unit = "utf8" => U8!FoldsText

RestoredAsSaved == unit = "blob" => SB!RestoredAsSaved

TreeGivenBack == unit = "nodes" => QN!TreeGivenBack
=============================================================================
