----------------------------- MODULE MCPerpetual -----------------------------
(***************************************************************************)
(* The scenarios of the runs of Perpetual: every fault while no operator   *)
(* interferes, refused commands while an operator selects a profile        *)
(* whatever the worker does, and neither.                                  *)
(***************************************************************************)
EXTENDS Perpetual

Faulty == [faults |-> AllFaults, select |-> {}]
Racing == [faults |-> {"command"}, select |-> Places]
Calm   == [faults |-> {}, select |-> {}]

FaultyOrRacing == {Faulty, Racing}
Quiet          == {Calm}
=============================================================================
