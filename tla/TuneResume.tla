------------------------------ MODULE TuneResume ------------------------------
(***************************************************************************)
(* The dynamic main loop of a tuning engine (_run_inner), the chip-tune it *)
(* runs on one cell after another (Phases 3, 3b and 4), and what a stop, a *)
(* recoverable failure or a killed process leaves to be resumed from the   *)
(* checkpoint and the profile file.                                        *)
(*                                                                         *)
(* A cell is a pair <<voltage, frequency>>.  A per-chip frequency array is *)
(* described by where it came from: the cell it was last brought to and    *)
(* how far ("uniform" at that cell's frequency, "grown" by a complete      *)
(* Phase 3, "polished" by at least one complete round of Phase 3b), and    *)
(* whether a thermal throttle has pushed it past the spread cap.  The      *)
(* chips themselves are in ChipTune.  Every measured cell is a candidate   *)
(* for a chip-tune: VF_EXPLORE_TOP_K is at least the number of cells.      *)
(*                                                                         *)
(* RetryLoop describes how a failure is recovered from; here it is a jump  *)
(* back to the top of _run_inner.  RemeasureQueue has the queue of the     *)
(* cells to be measured again, which the main loop or a runner of its own  *)
(* drains; here a request is any wanted cell, at any moment, and one that  *)
(* failed may be cleared by the operator before it is taken up again.  A   *)
(* selection of a profile, whose steps are in Perpetual, is one step.      *)
(***************************************************************************)
EXTENDS Integers, FiniteSets

CONSTANTS
  Cells,        \* the coarse grid, pairs <<voltage_mv, freq_mhz>>
  Rounds,       \* MAX_PROFILING_ROUNDS
  PolishRounds, \* STABILITY_POLISH_ROUNDS
  Scenes,       \* [kills, asks, trouble]: how often the process may be killed, what
                \* the operator may ask for once, and what may fail (bound)
  None

Arrays  == [cell : Cells, stage : {"uniform", "grown", "polished"}, bent : BOOLEAN]
Entries == [cell : Cells, arrays : Arrays]

\* What a file may hold.
Files == [surface : SUBSET Cells, failed : SUBSET Cells, results : SUBSET Entries,
          inflight : Cells \cup {None}, arrays : Arrays \cup {None},
          round : Int, p3active : BOOLEAN, polish : Int, polishActive : BOOLEAN]

Asks    == {"request", "drain", "select"}
Trouble == {"cells", "tunes"} \* measurements; chip-tunes, the monitor, selections

ASSUME TuneResumeAssumption ==
  /\ IsFiniteSet(Cells)
  /\ Rounds \in Nat \ {0}
  /\ PolishRounds \in Nat
  /\ Scenes \subseteq [kills : Nat, asks : SUBSET Asks, trouble : SUBSET Trouble]
  /\ None \notin Cells \cup Arrays \cup Files

VARIABLES
  \* engine attributes that are saved
  surface,      \* measured cells of vf_surface
  failed,       \* those of them marked thermal_failed
  results,      \* voltage_results
  inflight,     \* in_flight_chip_tune_target
  arrays,       \* stable_freq_arrays: [cell, stage, bent], or None
  round,        \* profiling_round
  p3active,     \* phase3_active
  polish,       \* polish_round
  polishActive, \* polish_active
  \* engine attributes that are not
  complete,     \* tuning_complete
  running,
  \* the worker thread
  pc,
  target,       \* the cell it works on
  \* the two files
  checkpoint,
  profile,
  \* the outside
  wanted,       \* cells the settings ask for
  trouble,      \* where the miner still fails or overheats
  kills, asks,  \* what is left of both
  \* history
  since         \* who has changed surface or results since the profile was saved

saved  == <<surface, failed, results, inflight, arrays, round, p3active, polish, polishActive>>
thread == <<pc, target>>
disk   == <<checkpoint, profile>>
env    == <<wanted, trouble, kills, asks>>
vars   == <<saved, complete, running, thread, disk, env, since>>

Volt(c) == c[1]

\* Inside _do_chip_tune_atomic.
ChipPlaces == {"resume", "fresh", "phases", "p3", "steady", "sample", "p3end",
               "polish", "psteady", "psample", "pend", "p4"}

\* The attributes a checkpoint holds.
Snapshot ==
  [surface |-> surface, failed |-> failed, results |-> results, inflight |-> inflight,
   arrays |-> arrays, round |-> round, p3active |-> p3active,
   polish |-> polish, polishActive |-> polishActive]

-----------------------------------------------------------------------------
(* Persistence.  _atomic_json_write replaces the whole file or nothing.    *)
SaveCheckpoint == checkpoint' = Snapshot'

\* The profile has no place for the counters of a chip-tune in progress.
SaveProfile ==
  /\ profile' = [Snapshot' EXCEPT !.round = 0, !.p3active = FALSE,
                                  !.polish = 0, !.polishActive = FALSE]
  /\ since' = {}

Changed(who) == since' = since \cup {who}

Blank == [surface |-> {}, failed |-> {}, results |-> {}, inflight |-> None, arrays |-> None,
          round |-> 0, p3active |-> FALSE, polish |-> 0, polishActive |-> FALSE]

(* restore_saved_state: the profile if there is one, else the checkpoint.  *)
Restorable ==
  IF profile # None THEN profile ELSE IF checkpoint # None THEN checkpoint ELSE Blank

Restore(f) ==
  /\ surface' = f.surface /\ failed' = f.failed /\ results' = f.results
  /\ inflight' = f.inflight /\ arrays' = f.arrays
  /\ round' = f.round /\ p3active' = f.p3active
  /\ polish' = f.polish /\ polishActive' = f.polishActive
-----------------------------------------------------------------------------
(* What the main loop looks for.                                           *)

(* chip_tune_already_done_for: an entry at this voltage seeded from this   *)
(* frequency.                                                              *)
Done(c) == \E e \in results : e.cell = c

Unmeasured == wanted \ surface
Untuned    == {c \in surface \ failed : ~Done(c)}

(* The entry of a cell takes the place of any other at its voltage.        *)
Record(c) ==
  results' = {e \in results : Volt(e.cell) # Volt(c)} \cup {[cell |-> c, arrays |-> arrays]}

Uniform(c) == [cell |-> c, stage |-> "uniform", bent |-> FALSE]

\* A thermal throttle lowers some chips; it may widen a board's spread past the cap.
Throttled == {arrays} \cup {[a EXCEPT !.bent = TRUE] : a \in {arrays} \ {None}}

Unsound == "tunes" \in trouble

Goto(p) == pc' = p /\ UNCHANGED target
Exit    == pc' = "dead" /\ target' = None
-----------------------------------------------------------------------------
(* Operator, process and miner.                                            *)
Start ==
  /\ pc = "dead" /\ running' = TRUE /\ Goto("top")
  /\ UNCHANGED <<saved, complete, disk, env, since>>

Stop ==
  /\ running /\ running' = FALSE
  /\ UNCHANGED <<saved, complete, thread, disk, env, since>>

(* The process is killed at any point and started again.                   *)
Kill ==
  /\ kills > 0 /\ kills' = kills - 1
  /\ Restore(Restorable)
  /\ complete' = (profile # None)
  /\ running' = FALSE /\ pc' = "dead" /\ target' = None
  /\ since' = IF profile # None THEN {} ELSE since
  /\ UNCHANGED <<disk, wanted, trouble, asks>>

\* Wider settings expose another cell of the grid.
Widen ==
  /\ \E c \in Cells \ wanted : wanted' = wanted \cup {c}
  /\ UNCHANGED <<saved, complete, running, thread, disk, trouble, kills, asks, since>>

CalmDown ==
  /\ trouble # {} /\ trouble' = {}
  /\ UNCHANGED <<saved, complete, running, thread, disk, wanted, kills, asks, since>>

Ask(for) == for \in asks /\ asks' = asks \ {for}

(* select_voltage_profile on an HTTP thread, whatever the worker is doing. *)
Select ==
  /\ Ask("select")
  /\ \E e \in results : arrays' = e.arrays
  /\ UNCHANGED <<surface, failed, results, inflight, round, p3active, polish, polishActive>>
  /\ SaveProfile \/ (Unsound /\ UNCHANGED <<profile, since>>)
  /\ UNCHANGED <<complete, running, thread, checkpoint, wanted, trouble, kills>>
-----------------------------------------------------------------------------
(* A MinerOfflineError, MinerNotReady, MinerCommandError or                *)
(* MinerCommandPending leaves _run_inner; _run waits or recovers and       *)
(* enters it again, having saved a checkpoint unless the miner was offline.*)
Blocking == {"resume", "fresh", "steady", "sample", "p3end", "psteady", "psample",
             "pend", "p4", "monitor"}

Fault ==
  /\ pc \in Blocking /\ Unsound
  /\ Goto("top") /\ UNCHANGED saved
  /\ SaveCheckpoint \/ UNCHANGED checkpoint
  /\ UNCHANGED <<complete, running, profile, env, since>>

-----------------------------------------------------------------------------
(* _run_inner after Phase 0.                                               *)
Enter ==
  /\ pc = "top"
  /\ IF ~running THEN Exit
     ELSE IF inflight # None
     THEN pc' = "resume" /\ target' = inflight
     ELSE Goto("loop")
  /\ UNCHANGED <<saved, complete, running, disk, env, since>>

LoopExits ==
  /\ pc = "loop" /\ ~running /\ Exit
  /\ UNCHANGED <<saved, complete, running, disk, env, since>>

PickCell ==
  /\ pc = "loop" /\ running
  /\ \E c \in Unmeasured : target' = c
  /\ pc' = "measure" /\ complete' = FALSE
  /\ UNCHANGED <<saved, running, disk, env, since>>

(* measure_vf_point and what its callers make of the outcome: a result     *)
(* (an overheated cell is kept as thermal_failed), nothing after a stop, a *)
(* mark for a cell the PSU cannot reach, or nothing but the exception.     *)
(* The arrays follow the uniform frequency as soon as it is set.           *)
Mark(c) == surface' = surface \cup {c} /\ failed' = failed \cup {c}

Sampled ==
  /\ running /\ arrays' = Uniform(target)
  /\ \/ surface' = surface \cup {target} /\ UNCHANGED failed
     \/ "cells" \in trouble /\ Mark(target)

Reached     == arrays' \in {arrays, Uniform(target)}
CutShort    == ~running /\ Reached /\ UNCHANGED <<surface, failed>>
Unreachable == "cells" \in trouble /\ Reached /\ Mark(target)
Offline     == "cells" \in trouble /\ Reached /\ UNCHANGED <<surface, failed>>

OnlyTheCell == UNCHANGED <<results, inflight, round, p3active, polish, polishActive>>

Measure ==
  /\ pc = "measure" /\ (Sampled \/ CutShort) /\ OnlyTheCell
  /\ SaveCheckpoint /\ Goto("loop") /\ Changed("loop")
  /\ UNCHANGED <<complete, running, profile, env>>

MeasureFails ==
  /\ pc = "measure" /\ OnlyTheCell
  /\ \/ Unreachable /\ SaveCheckpoint
     \/ Offline /\ (SaveCheckpoint \/ UNCHANGED checkpoint)
  /\ Goto("top") /\ Changed("loop")
  /\ UNCHANGED <<complete, running, profile, env>>
-----------------------------------------------------------------------------
(* The operator's requests.  An entry is dropped before it is measured     *)
(* again.                                                                  *)
Drop(c) ==
  /\ target' = c
  /\ surface' = surface \ {c} /\ failed' = failed \ {c} /\ UNCHANGED arrays
  /\ OnlyTheCell

TakeRequest ==
  /\ pc = "loop" /\ running
  /\ Ask("request") /\ \E c \in wanted : Drop(c)
  /\ pc' = "remeasure" /\ Changed("dropped")
  /\ UNCHANGED <<complete, running, disk, wanted, trouble, kills>>

Remeasure_StaysComplete ==
  /\ pc = "remeasure" /\ (Sampled \/ CutShort) /\ OnlyTheCell
  /\ SaveCheckpoint /\ Goto("loop") /\ Changed("loop")
  /\ UNCHANGED <<complete, running, profile, env>>

(* A request the main loop has drained, measured or not, takes back        *)
(* tuning_complete; one that fails does not.                               *)
Remeasure ==
  /\ pc = "remeasure" /\ (Sampled \/ CutShort) /\ OnlyTheCell
  /\ SaveCheckpoint /\ Goto("loop") /\ complete' = FALSE /\ Changed("loop")
  /\ UNCHANGED <<running, profile, env>>

RemeasureFails ==
  /\ pc = "remeasure" /\ (Unreachable \/ Offline) /\ OnlyTheCell
  /\ SaveCheckpoint /\ Goto("top") /\ Changed("dropped")
  /\ UNCHANGED <<complete, running, profile, env>>

(* remeasure_runner has the thread to itself, saves checkpoints only and   *)
(* leaves tuning_complete as it is.                                        *)
StartDrain ==
  /\ pc = "dead" /\ "drain" \in asks
  /\ running' = TRUE /\ Goto("drain")
  /\ UNCHANGED <<saved, complete, disk, env, since>>

DrainTakes ==
  /\ pc = "drain" /\ running
  /\ Ask("drain") /\ \E c \in wanted : Drop(c)
  /\ pc' = "flight" /\ Changed("drained")
  /\ UNCHANGED <<complete, running, disk, wanted, trouble, kills>>

DrainMeasures ==
  /\ pc = "flight" /\ (Sampled \/ CutShort) /\ OnlyTheCell
  /\ SaveCheckpoint /\ Goto("drain") /\ Changed("drained")
  /\ UNCHANGED <<complete, running, profile, env>>

DrainFails ==
  /\ pc = "flight" /\ OnlyTheCell
  /\ (Unreachable /\ SaveCheckpoint) \/ (Offline /\ UNCHANGED checkpoint)
  /\ running' = FALSE /\ Exit /\ Changed("drained")
  /\ UNCHANGED <<complete, profile, env>>

DrainEnds ==
  /\ pc = "drain" /\ running' = FALSE /\ Exit
  /\ UNCHANGED <<saved, complete, disk, env, since>>
-----------------------------------------------------------------------------
PickChip_Unsaved ==
  /\ pc = "loop" /\ running /\ Unmeasured = {}
  /\ \E c \in Untuned : inflight' = c /\ target' = c
  /\ pc' = "fresh" /\ complete' = FALSE
  /\ UNCHANGED <<surface, failed, results, arrays, round, p3active, polish, polishActive>>
  /\ UNCHANGED <<running, disk, env, since>>

\* The marker is on disk before the chip-tune begins.
PickChip ==
  /\ pc = "loop" /\ running /\ Unmeasured = {}
  /\ \E c \in Untuned : inflight' = c /\ target' = c
  /\ pc' = "fresh" /\ complete' = FALSE
  /\ UNCHANGED <<surface, failed, results, arrays, round, p3active, polish, polishActive>>
  /\ SaveCheckpoint
  /\ UNCHANGED <<running, profile, env, since>>

Settle_DeletesFirst ==
  /\ pc = "loop" /\ running /\ Unmeasured = {} /\ Untuned = {}
  /\ IF complete THEN Goto("monitor") /\ UNCHANGED <<complete, disk>>
     ELSE /\ complete' = TRUE /\ Goto("cleanup")
          /\ checkpoint' = None /\ UNCHANGED profile
  /\ UNCHANGED <<saved, running, env, since>>

(* _mark_tune_complete, once: the profile is saved, then the checkpoint    *)
(* removed (DeleteCheckpoint).                                             *)
Settle ==
  /\ pc = "loop" /\ running /\ Unmeasured = {} /\ Untuned = {}
  /\ UNCHANGED saved
  /\ IF complete THEN Goto("monitor") /\ UNCHANGED <<complete, disk, since>>
     ELSE /\ complete' = TRUE /\ Goto("cleanup")
          /\ SaveProfile /\ UNCHANGED checkpoint
  /\ UNCHANGED <<running, env>>

DeleteCheckpoint ==
  /\ pc = "cleanup" /\ checkpoint' = None /\ Goto("monitor")
  /\ UNCHANGED <<saved, complete, running, profile, env, since>>

(* One monitor cycle, of which only its saves matter here: a thermal       *)
(* throttle or a voltage step saves the profile.  See Perpetual.           *)
Monitor ==
  /\ pc = "monitor" /\ Goto("loop")
  /\ UNCHANGED <<surface, failed, results, inflight, round, p3active, polish, polishActive>>
  /\ \/ UNCHANGED <<arrays, profile, since>>
     \/ Unsound /\ running /\ arrays' \in Throttled /\ SaveProfile
  /\ UNCHANGED <<complete, running, checkpoint, env>>
-----------------------------------------------------------------------------
(* _do_chip_tune_atomic.                                                   *)

(* fresh_start=False: voltage applied again, arrays reseeded if they       *)
(* cannot be a Phase 3 state.                                              *)
Incoherent == arrays = None \/ arrays.bent

Resume ==
  /\ pc = "resume"
  /\ IF ~running THEN Goto("after") /\ UNCHANGED saved
     ELSE /\ Goto("phases")
          /\ IF Incoherent
             THEN /\ arrays' = Uniform(target) /\ round' = 0 /\ p3active' = FALSE
                  /\ UNCHANGED <<surface, failed, results, inflight, polish, polishActive>>
             ELSE UNCHANGED saved
  /\ UNCHANGED <<complete, running, disk, env, since>>

(* fresh_start=True: nothing of the previous cell is reset before Phase 1  *)
(* has reached the new voltage.                                            *)
FreshStart ==
  /\ pc = "fresh"
  /\ IF ~running THEN Goto("after") /\ UNCHANGED saved
     ELSE /\ Goto("phases")
          /\ arrays' = Uniform(target) /\ round' = 0 /\ p3active' = FALSE
          /\ polish' = 0 /\ polishActive' = FALSE
          /\ UNCHANGED <<surface, failed, results, inflight>>
  /\ UNCHANGED <<complete, running, disk, env, since>>

PolishStarted == polishActive \/ polish > 0

SkipPhase3 ==
  /\ pc = "phases" /\ PolishStarted /\ Goto("polish")
  /\ UNCHANGED <<saved, complete, running, disk, env, since>>

EnterPhase3 ==
  /\ pc = "phases" /\ ~PolishStarted /\ Goto("p3")
  /\ round' = IF p3active /\ round > 0 THEN round ELSE 0
  /\ p3active' = TRUE
  /\ UNCHANGED <<surface, failed, results, inflight, arrays, polish, polishActive>>
  /\ UNCHANGED <<complete, running, disk, env, since>>

RoundBegins_NotCounted ==
  /\ pc = "p3"
  /\ IF running /\ round < Rounds
     THEN UNCHANGED round /\ Goto("steady")
     ELSE UNCHANGED round /\ Goto("p3end")
  /\ UNCHANGED <<surface, failed, results, inflight, arrays, p3active, polish, polishActive>>
  /\ UNCHANGED <<complete, running, disk, env, since>>

RoundBegins ==
  /\ pc = "p3"
  /\ IF running /\ round < Rounds
     THEN round' = round + 1 /\ Goto("steady")
     ELSE UNCHANGED round /\ Goto("p3end")
  /\ UNCHANGED <<surface, failed, results, inflight, arrays, p3active, polish, polishActive>>
  /\ UNCHANGED <<complete, running, disk, env, since>>

(* Frequencies applied, chips stabilised (an emergency is throttled and    *)
(* saved on the spot), checkpoint before sampling.                         *)
RoundSteady ==
  /\ pc = "steady"
  /\ arrays' \in IF Unsound THEN Throttled ELSE {arrays}
  /\ UNCHANGED <<surface, failed, results, inflight, round, p3active, polish, polishActive>>
  /\ IF running THEN SaveCheckpoint /\ Goto("sample")
                ELSE (UNCHANGED checkpoint \/ (Unsound /\ SaveCheckpoint)) /\ Goto("p3end")
  /\ UNCHANGED <<complete, running, profile, env, since>>

(* An emergency or a hashing break while sampling: the round is repeated.  *)
(* The thermal handler saves before the round is taken back.               *)
RoundRepeats ==
  /\ pc = "sample" /\ Unsound
  /\ arrays' \in Throttled /\ round' = round - 1 /\ Goto("p3")
  /\ UNCHANGED <<surface, failed, results, inflight, p3active, polish, polishActive>>
  /\ checkpoint' \in {checkpoint, [Snapshot' EXCEPT !.round = round]}
  /\ UNCHANGED <<complete, running, profile, env, since>>

\* The health scores decide; "still" is the end of a streak without moves.
RoundEnds ==
  /\ pc = "sample" /\ UNCHANGED saved
  /\ IF running THEN SaveCheckpoint /\ \E p \in {"p3", "p3end"} : Goto(p)
                ELSE UNCHANGED checkpoint /\ Goto("p3end")
  /\ UNCHANGED <<complete, running, profile, env, since>>

(* Phase 3 is over.  A stop returns from the chip-tune, with phase3_active *)
(* cleared all the same.                                                   *)
Phase3Ends ==
  /\ pc = "p3end"
  /\ p3active' = FALSE
  /\ IF running
     THEN /\ Goto("polish")
          /\ arrays' = [cell |-> target, stage |-> "grown", bent |-> arrays.bent]
     ELSE Goto("after") /\ UNCHANGED arrays
  /\ UNCHANGED <<surface, failed, results, inflight, round, polish, polishActive>>
  /\ UNCHANGED <<complete, running, disk, env, since>>

PolishBegins ==
  /\ pc = "polish"
  /\ polishActive' = (PolishRounds > 0)
  /\ IF running /\ polish < PolishRounds
     THEN polish' = polish + 1 /\ Goto("psteady")
     ELSE UNCHANGED polish /\ Goto("pend")
  /\ UNCHANGED <<surface, failed, results, inflight, arrays, round, p3active>>
  /\ UNCHANGED <<complete, running, disk, env, since>>

PolishSteady ==
  /\ pc = "psteady"
  /\ arrays' \in IF Unsound THEN Throttled ELSE {arrays}
  /\ UNCHANGED <<surface, failed, results, inflight, round, p3active, polish, polishActive>>
  /\ IF running THEN SaveCheckpoint /\ Goto("psample")
                ELSE (UNCHANGED checkpoint \/ (Unsound /\ SaveCheckpoint)) /\ Goto("pend")
  /\ UNCHANGED <<complete, running, profile, env, since>>

PolishRepeats ==
  /\ pc = "psample" /\ Unsound
  /\ arrays' \in Throttled /\ polish' = polish - 1 /\ Goto("polish")
  /\ UNCHANGED <<surface, failed, results, inflight, round, p3active, polishActive>>
  /\ checkpoint' \in {checkpoint, [Snapshot' EXCEPT !.polish = polish]}
  /\ UNCHANGED <<complete, running, profile, env, since>>

PolishEnds ==
  /\ pc = "psample"
  /\ IF running
     THEN /\ arrays' = [arrays EXCEPT !.stage = "polished"]
          /\ UNCHANGED <<surface, failed, results, inflight, round, p3active, polish, polishActive>>
          /\ SaveCheckpoint
          /\ \E p \in {"polish", "pend"} : Goto(p)
     ELSE UNCHANGED <<saved, checkpoint>> /\ Goto("pend")
  /\ UNCHANGED <<complete, running, profile, env, since>>

Phase3bEnds ==
  /\ pc = "pend"
  /\ polishActive' = FALSE
  /\ IF running THEN Goto("p4") ELSE Goto("after")
  /\ UNCHANGED <<surface, failed, results, inflight, arrays, round, p3active, polish>>
  /\ UNCHANGED <<complete, running, disk, env, since>>

(* Phase 4: the result is recorded and saved; an overheated cell is marked *)
(* instead; without readings nothing is.  A tune is complete here only if  *)
(* its marker was restored from a profile that a selection had saved.      *)
Phase4 ==
  /\ pc = "p4" /\ Goto("after")
  /\ \/ /\ running
        /\ \/ Record(target) /\ UNCHANGED failed
           \/ Unsound /\ failed' = failed \cup {target} /\ UNCHANGED results
        /\ UNCHANGED <<surface, inflight, arrays, round, p3active, polish, polishActive>>
        /\ SaveCheckpoint /\ Changed(IF complete THEN "resumed" ELSE "loop")
     \/ (~running \/ Unsound) /\ UNCHANGED <<saved, checkpoint, since>>
  /\ UNCHANGED <<complete, running, profile, env>>

(* Back in _run_inner: only a chip-tune that was not stopped gives up its  *)
(* marker.                                                                 *)
ChipTuneReturns ==
  /\ pc = "after"
  /\ inflight' = IF running THEN None ELSE inflight
  /\ UNCHANGED <<surface, failed, results, arrays, round, p3active, polish, polishActive>>
  /\ SaveCheckpoint /\ Goto("loop")
  /\ UNCHANGED <<complete, running, profile, env, since>>
-----------------------------------------------------------------------------
Init ==
  /\ surface = {} /\ failed = {} /\ results = {} /\ inflight = None /\ arrays = None
  /\ round = 0 /\ p3active = FALSE /\ polish = 0 /\ polishActive = FALSE
  /\ complete = FALSE /\ running = FALSE
  /\ pc = "dead" /\ target = None
  /\ checkpoint = None /\ profile = None
  /\ wanted \in (SUBSET Cells) \ {{}}
  /\ \E s \in Scenes : kills = s.kills /\ asks = s.asks /\ trouble = s.trouble
  /\ since = {}

ChipTune ==
  \/ Resume \/ FreshStart \/ SkipPhase3 \/ EnterPhase3
  \/ RoundBegins \/ RoundSteady \/ RoundRepeats \/ RoundEnds \/ Phase3Ends
  \/ PolishBegins \/ PolishSteady \/ PolishRepeats \/ PolishEnds \/ Phase3bEnds
  \/ Phase4 \/ ChipTuneReturns

Worker ==
  \/ Enter \/ LoopExits \/ PickCell \/ Measure \/ MeasureFails
  \/ TakeRequest \/ Remeasure \/ RemeasureFails
  \/ DrainTakes \/ DrainMeasures \/ DrainFails \/ DrainEnds
  \/ PickChip \/ Settle \/ DeleteCheckpoint \/ Monitor \/ ChipTune

Outside == Start \/ StartDrain \/ Stop \/ Kill \/ Widen \/ CalmDown \/ Select

Next == Worker \/ Fault \/ Outside

Spec == Init /\ [][Next]_vars

(* The worker is scheduled and its calls return.                           *)
FairSpec == Spec /\ WF_vars(Worker)
-----------------------------------------------------------------------------
(* Until a first profile is saved, a process killed in the middle of a     *)
(* chip-tune comes back to that very cell: the marker reaches the disk     *)
(* before the cell is touched and stays there until the cell is given up.  *)
CrashResumesCell ==
  profile = None /\ pc \in ChipPlaces => Restorable.inflight = target

(* The monitor works with the surface and the results a restart would     *)
(* show: the profile holds whatever the main loop has measured, measured   *)
(* again at the operator's request or tuned.  What it may lack is what     *)
(* left tuning_complete set: a cell the drain runner took, one whose       *)
(* request failed in the main loop and was cleared, and a tune resumed     *)
(* from a profile that a selection had saved in the middle of it.          *)
MonitoredIsSaved ==
  pc = "monitor" =>
    /\ profile # None /\ since \subseteq {"drained", "dropped", "resumed"}
    /\ since \cap {"drained", "dropped"} = {} => profile.surface = surface
    /\ "resumed" \notin since => profile.results = results

(* Once a voltage has a result that a restart would restore, no step, kill *)
(* or stop ever leaves that voltage without one.                           *)
TunedVoltages(f) == {Volt(e.cell) : e \in f.results}
TunedVoltagesStay == [][TunedVoltages(Restorable) \subseteq TunedVoltages(Restorable')]_vars

(* A worker that is never stopped for good, on a miner that has stopped    *)
(* failing, ends with every wanted cell measured and every usable one      *)
(* tuned.                                                                  *)
TuneSettles == <>[](trouble = {} /\ running) => <>[]complete
-----------------------------------------------------------------------------
(* What the code says of itself and does not keep.                         *)

(* "polish_round = 0 when the phase hasn't started or has finished": a     *)
(* cell's recorded arrays were brought up at that cell.                    *)
ResultIsTheCellsOwn == \A e \in results : e.arrays.cell = e.cell

=============================================================================
