---------------------------- MODULE MCParentWindow ----------------------------
(***************************************************************************)
(* Texts of up to five characters; ids of two hex digits, longs of three,  *)
(* so that a number may be too large for either.                           *)
(***************************************************************************)
EXTENDS ParentWindow, SequencesExt

MCValue == [c \in {"0", "1", "f"} |-> CASE c = "0" -> 0 [] c = "1" -> 1 [] c = "f" -> 15]
MCTexts == SeqOf(DOMAIN MCValue \cup {"x", "+", "-", " ", "g"}, 5)
=============================================================================
