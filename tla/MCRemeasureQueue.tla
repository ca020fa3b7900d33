-------------------------- MODULE MCRemeasureQueue --------------------------
(***************************************************************************)
(* Two cells for the runs of RemeasureQueue, one of them in a fine grid.   *)
(***************************************************************************)
EXTENDS RemeasureQueue

CONSTANTS c, f

CoarseAndFine == {c, f}
OnlyFine      == {f}
=============================================================================
