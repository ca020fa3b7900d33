----------------------------- MODULE MCChipTune -----------------------------
(***************************************************************************)
(* Chips for the run of ChipTune: all on one board.                        *)
(***************************************************************************)
EXTENDS ChipTune

OneBoard == [c \in Chips |-> 1]
=============================================================================
