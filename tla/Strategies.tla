------------------------------ MODULE Strategies ------------------------------
(***************************************************************************)
(* The worker after Phase 0 (_run_inner's dispatch): one of the three      *)
(* strategies, which the miner's firmware decides.  They share the worker  *)
(* and no more: one runs, the others stand still.  When none does, a V/F   *)
(* point is applied, by whoever asks for it (VoltageApply); for the loops  *)
(* a point is applied in one step.                                         *)
(***************************************************************************)
EXTENDS Exploration, Braiins, Whatsminer, VoltageApply

vars == <<worker, exploration, braiins, whatsminer, applyVars>>

TuningStrategies == {"voltage_chip_tune", "wattage_search", "power_limit_freq_search"}

Runs(s) == strategy = s

\* What does not run has one initial state.
Init ==
  /\ WorkerInit /\ strategy \in TuningStrategies \cup {None}
  /\ ExplorationInit /\ (Runs("voltage_chip_tune") \/ scene = CHOOSE s \in Scenes : TRUE)
  /\ BraiinsInit
  /\ \/ Runs("wattage_search")
     \/ /\ market = CHOOSE m \in Markets : TRUE
        /\ limits = CHOOSE l \in market.limits : TRUE
        /\ curve = CHOOSE c \in market.curves : TRUE
  /\ WhatsminerInit
  /\ \/ Runs("power_limit_freq_search")
     \/ miner = (CHOOSE m \in Miners : TRUE) /\ land = CHOOSE l \in miner.lands : TRUE
  /\ ApplyInit /\ (Runs(None) \/ aim = CHOOSE p \in AskedPoints : TRUE)

Explores ==
  /\ Runs("voltage_chip_tune") /\ ExplorationNext
  /\ UNCHANGED <<braiins, whatsminer, applyVars>>

SearchesWatts ==
  /\ Runs("wattage_search") /\ BraiinsNext
  /\ UNCHANGED <<exploration, whatsminer, applyVars>>

SearchesCells ==
  /\ Runs("power_limit_freq_search") /\ WhatsminerNext
  /\ UNCHANGED <<exploration, braiins, applyVars>>

AppliesPoints ==
  /\ Runs(None) /\ ApplyNext
  /\ UNCHANGED <<worker, exploration, braiins, whatsminer>>

Next == Explores \/ SearchesWatts \/ SearchesCells \/ AppliesPoints

exploring      == <<worker, exploration>>
searchingWatts == <<worker, braiins>>
searchingCells == <<worker, whatsminer>>

\* The worker goes on; not every answer of the miner is lost, and not every
\* measurement and tune is cut short.
Fairness ==
  /\ WF_searchingWatts(Runs("wattage_search") /\ BraiinsWorker)
  /\ SF_searchingWatts(Runs("wattage_search") /\ Enter)
  /\ SF_searchingWatts(Runs("wattage_search") /\ Sampled)
  /\ WF_searchingCells(Runs("power_limit_freq_search") /\ WhatsminerWorker)
  /\ SF_searchingCells(Runs("power_limit_freq_search") /\ Measured)
  /\ SF_searchingCells(Runs("power_limit_freq_search") /\ GiveUpRefused)
  /\ WF_exploring(Runs("voltage_chip_tune") /\ ExplorationStep)
  /\ SF_exploring(Runs("voltage_chip_tune") /\ CellMeasured)
  /\ SF_exploring(Runs("voltage_chip_tune") /\ CellTuned)
  /\ []<>(pc # "loop" \/ ~running)  \* WF_exploring(Turn): a turn is always possible

Spec == Init /\ [][Next]_vars /\ Fairness

\* The type invariants of the parts.
TypeOK ==
  /\ strategy \in TuningStrategies \cup {None} /\ running \in BOOLEAN
  /\ ExplorationTypeOK /\ BraiinsTypeOK /\ WhatsminerTypeOK /\ ApplyTypeOK
-----------------------------------------------------------------------------
(* Each strategy as a Tuner.  A point is what it is measured under: the    *)
(* wattage, the power limit with the frequency, the position.              *)
Holds ==
  \/ pc \in {"monitor", "hold", "resampling", "recheck"}
  \/ pc \in Knobs \cup {"sample"} /\ Holding

Mode == IF pc = "off" THEN "off" ELSE IF Holds THEN "hold" ELSE "search"

Known == CASE Runs("voltage_chip_tune") -> Positions(surface)
           [] Runs("wattage_search") -> {wattageResults[i].watt : i \in 1..Len(wattageResults)}
           [] Runs("power_limit_freq_search") -> {<<c.pl, c.f>> : c \in cells}
           [] OTHER -> {}

Choice == CASE Runs("voltage_chip_tune") -> tunedCells
            [] Runs("wattage_search") -> {best} \ {None}
            [] Runs("power_limit_freq_search") -> IF bestCell = None THEN {} ELSE {<<bestCell.pl, bestCell.f>>}
            [] OTHER -> {}

T == INSTANCE Tuner WITH mode <- Mode, known <- Known, choice <- Choice

(* Each of the three loops implements a tuner: it measures one point at a  *)
(* time and forgets none, chooses only among the points it has measured,   *)
(* holds what it chose until it searches again, and comes back from a      *)
(* crash with no choice whose measurement is lost.                         *)
ImplementsTuner == T!Spec

\* Two of the cells to be tuned have one voltage and clocks that differ: each
\* tune takes the other's result away.
Contended ==
  /\ Runs("voltage_chip_tune") /\ pc = "tune"
  /\ LET c == Candidates(surface)
     IN \E r, q \in 1..Len(c) :
          /\ surface[c[r]].at[1] = surface[c[q]].at[1]
          /\ surface[c[r]].at[2] - surface[c[q]].at[2] > SearchTolerance

(* Every search that goes on comes to an end, however often the miner is   *)
(* unreachable, cells and tunes fail, prices, limits or the weather change *)
(* and the process is killed, but for one that has two cells of one        *)
(* voltage to tune: it goes on until a change of the settings takes one of *)
(* the two off the list, and then ends like any other.                     *)
Settles == Mode = "search" ~> (Mode # "search" \/ Contended)
=============================================================================
