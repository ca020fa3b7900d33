-------------------------- MODULE TuneResumeProofs --------------------------
(***************************************************************************)
(* Theorems about TuneResume, for any grid of cells, any number of rounds  *)
(* and of kills: what a restart would find, at every moment.               *)
(***************************************************************************)
EXTENDS TuneResume, TLAPS

(* What the engine holds can be saved, and what is saved restored.         *)
SavedOK  == Snapshot \in Files
DiskOK   == checkpoint \in Files \cup {None} /\ profile \in Files \cup {None}
Flights  == {"measure", "remeasure", "flight"}
ThreadOK ==
  /\ complete \in BOOLEAN /\ running \in BOOLEAN /\ wanted \subseteq Cells
  /\ pc \in ChipPlaces \cup Flights \cup {"after"} => target \in Cells
  /\ pc \in ChipPlaces \ {"resume", "fresh"} => arrays \in Arrays
  /\ since \subseteq {"loop", "drained", "dropped", "resumed"}

TypeOK == SavedOK /\ DiskOK /\ ThreadOK

(* Without a profile the disk has the engine's own marker.                 *)
Marked == profile = None => Restorable.inflight = inflight

(* The marker names the cell a chip-tune works on, and is gone wherever    *)
(* the loop measures, settles or monitors.                                 *)
Working ==
  /\ pc \in ChipPlaces \cup {"after"} => inflight = target
  /\ pc \in {"measure", "remeasure", "cleanup", "monitor"} => inflight = None
  /\ pc = "loop" /\ running => inflight = None

(* A complete tune is the one in the profile, but for what was changed     *)
(* aside; no work of the main loop's own is unsaved.                       *)
Completed ==
  /\ pc \in {"cleanup", "monitor"} => complete
  /\ pc = "measure" => ~complete
  /\ complete =>
       /\ profile # None /\ "loop" \notin since
       /\ since \cap {"drained", "dropped"} = {} => profile.surface = surface
       /\ "resumed" \notin since => profile.results = results

(* What is on disk is never ahead of the engine.                           *)
EngineVolts == {Volt(e.cell) : e \in results}
Behind      == TunedVoltages(Restorable) \subseteq EngineVolts

IInv == TypeOK /\ Marked /\ Working /\ Completed /\ Behind
-----------------------------------------------------------------------------
LEMMA Initial == Init => IInv
<1> SUFFICES ASSUME Init PROVE IInv
  OBVIOUS
<1>1. Restorable = Blank
  BY DEF Init, Restorable
<1>2. TypeOK
  <2>1. SavedOK
    <3>1. Snapshot = Blank
      BY DEF Init, Snapshot, Blank
    <3>2. Blank \in Files
      BY DEF Blank, Files
    <3> QED
      BY <3>1, <3>2 DEF SavedOK
  <2>2. DiskOK
    BY DEF Init, DiskOK
  <2>3. ThreadOK
    <3>1. wanted \subseteq Cells
      BY DEF Init
    <3> QED
      BY <3>1 DEF Init, ThreadOK, ChipPlaces, Flights
  <2> QED
    BY <2>1, <2>2, <2>3 DEF TypeOK
<1>3. Marked /\ Working /\ Completed
  BY <1>1 DEF Init, Marked, Working, Completed, Blank, ChipPlaces
<1>4. Behind
  BY <1>1 DEF Init, Behind, TunedVoltages, Blank
<1> QED
  BY <1>2, <1>3, <1>4 DEF IInv

LEMMA RestorableIsAFile == TypeOK => Restorable \in Files
<1>1. Blank \in Files
  BY DEF Blank, Files
<1> QED
  BY <1>1 DEF TypeOK, DiskOK, Restorable

(* What the engine holds, part by part.                                    *)
LEMMA SavedParts ==
  SavedOK <=> /\ surface \subseteq Cells /\ failed \subseteq Cells /\ results \subseteq Entries
              /\ inflight \in Cells \cup {None} /\ arrays \in Arrays \cup {None}
              /\ round \in Int /\ p3active \in BOOLEAN
              /\ polish \in Int /\ polishActive \in BOOLEAN
BY DEF SavedOK, Snapshot, Files

(* A throttle leaves arrays that are arrays.                               *)
LEMMA ThrottledArrays ==
  /\ arrays \in Arrays => Throttled \subseteq Arrays
  /\ arrays \in Arrays \cup {None} => Throttled \subseteq Arrays \cup {None}
<1>1. \A a \in Arrays : [a EXCEPT !.bent = TRUE] \in Arrays
  BY DEF Arrays
<1> QED
  BY <1>1 DEF Throttled
-----------------------------------------------------------------------------
(* Whoever measures a cell touches no more than the cell and the arrays,   *)
(* and saves no more than a checkpoint.                                    *)
MeasureStep == \/ Measure \/ MeasureFails \/ Remeasure \/ RemeasureFails
               \/ DrainMeasures \/ DrainFails
TakeStep    == TakeRequest \/ DrainTakes

LEMMA Measuring ==
  ASSUME MeasureStep
  PROVE  /\ pc \in Flights /\ pc' \in {"loop", "top", "drain", "dead"}
         /\ pc' = "loop" => pc # "flight"
         /\ target' \in {target, None} /\ arrays' \in {arrays, Uniform(target)}
         /\ surface' \in {surface, surface \cup {target}}
         /\ failed' \in {failed, failed \cup {target}}
         /\ UNCHANGED <<results, inflight, round, p3active, polish, polishActive>>
         /\ UNCHANGED <<profile, wanted>> /\ (SaveCheckpoint \/ UNCHANGED checkpoint)
         /\ complete' \in {complete, FALSE} /\ running' \in {running, FALSE}
         /\ complete' => Changed("dropped") \/ Changed("drained") \/ pc = "measure"
         /\ Changed("loop") \/ Changed("dropped") \/ Changed("drained")
<1>1. MeasureStep => pc \in Flights /\ OnlyTheCell /\ UNCHANGED <<profile, env>>
                     /\ (Sampled \/ CutShort \/ Unreachable \/ Offline)
  BY Zenon DEF MeasureStep, Measure, MeasureFails, Remeasure, RemeasureFails, DrainMeasures,
               DrainFails, Flights
<1>2. /\ arrays' \in {arrays, Uniform(target)}
      /\ surface' \in {surface, surface \cup {target}}
      /\ failed' \in {failed, failed \cup {target}}
  BY <1>1 DEF Sampled, CutShort, Unreachable, Offline, Reached, Mark
<1>3. /\ pc' \in {"loop", "top", "drain", "dead"} /\ (pc' = "loop" => pc # "flight")
      /\ target' \in {target, None}
      /\ complete' \in {complete, FALSE} /\ running' \in {running, FALSE}
      /\ (SaveCheckpoint \/ UNCHANGED checkpoint)
      /\ complete' => Changed("dropped") \/ Changed("drained") \/ pc = "measure"
      /\ Changed("loop") \/ Changed("dropped") \/ Changed("drained")
  BY DEF MeasureStep, Measure, MeasureFails, Remeasure, RemeasureFails, DrainMeasures,
         DrainFails, Goto, Exit
<1> QED
  BY <1>1, <1>2, <1>3 DEF OnlyTheCell, env

LEMMA Taking ==
  ASSUME TypeOK, TakeStep
  PROVE  /\ pc' \in {"remeasure", "flight"} /\ pc \in {"loop", "drain"}
         /\ pc' = "remeasure" => pc = "loop" /\ running
         /\ target' \in Cells /\ surface' \subseteq surface /\ failed' \subseteq failed
         /\ UNCHANGED <<arrays, results, inflight, round, p3active, polish, polishActive>>
         /\ UNCHANGED <<complete, running, disk, wanted>>
         /\ Changed("dropped") \/ Changed("drained")
<1>1. PICK c \in wanted : Drop(c)
  BY DEF TakeStep, TakeRequest, DrainTakes
<1>2. /\ target' \in Cells /\ surface' \subseteq surface /\ failed' \subseteq failed
      /\ UNCHANGED <<arrays, results, inflight, round, p3active, polish, polishActive>>
  BY <1>1 DEF Drop, OnlyTheCell, TypeOK, ThreadOK
<1> QED
  BY <1>2 DEF TakeStep, TakeRequest, DrainTakes

(* A selection saves what the engine holds, if anything.                   *)
LEMMA Selecting ==
  ASSUME TypeOK, Select
  PROVE  /\ arrays' \in Arrays
         /\ UNCHANGED <<surface, failed, results, inflight, round, p3active, polish, polishActive>>
         /\ UNCHANGED <<complete, running, thread, checkpoint, wanted>>
         /\ SaveProfile \/ UNCHANGED <<profile, since>>
<1>1. results \subseteq Entries
  BY SavedParts DEF TypeOK
<1> QED
  BY <1>1 DEF Select, Entries

-----------------------------------------------------------------------------
LEMMA SavedPartsNext ==
  SavedOK' <=> (/\ surface \subseteq Cells /\ failed \subseteq Cells /\ results \subseteq Entries
                /\ inflight \in Cells \cup {None} /\ arrays \in Arrays \cup {None}
                /\ round \in Int /\ p3active \in BOOLEAN
                /\ polish \in Int /\ polishActive \in BOOLEAN)'
BY DEF SavedOK, Snapshot, Files

(* Every step leaves the engine with what can be saved.                    *)
LEMMA SavedStep == TypeOK /\ [Next]_vars => SavedOK'
<1> SUFFICES ASSUME TypeOK, [Next]_vars PROVE SavedOK'
  OBVIOUS
<1> USE SavedParts, SavedPartsNext
<1>1. CASE UNCHANGED saved
  BY <1>1 DEF TypeOK, saved
<1>2. CASE Kill
  <2>1. Restorable \in Files /\ Restore(Restorable)
    BY <1>2, RestorableIsAFile DEF Kill
  <2>2. Snapshot' = Restorable
    BY <2>1 DEF Restore, Snapshot, Files
  <2> QED
    BY <2>1, <2>2 DEF SavedOK
<1>3. CASE MeasureStep
  <2>1. target \in Cells
    BY <1>3, Measuring DEF TypeOK, ThreadOK
  <2>2. Uniform(target) \in Arrays
    BY <2>1 DEF Uniform, Arrays
  <2> QED
    BY <1>3, <2>1, <2>2, Measuring DEF TypeOK
<1>11. CASE TakeStep \/ Select
  BY <1>11, Taking, Selecting DEF TypeOK
<1>4. CASE PickChip
  BY <1>4 DEF PickChip, Untuned, TypeOK
<1>5. CASE Monitor \/ RoundSteady \/ PolishSteady
  BY <1>5, ThrottledArrays DEF Monitor, RoundSteady, PolishSteady, TypeOK
<1>6. CASE RoundRepeats \/ PolishRepeats
  BY <1>6, ThrottledArrays DEF RoundRepeats, PolishRepeats, TypeOK
<1>7. CASE Resume \/ FreshStart
  <2>1. target \in Cells
    BY <1>7 DEF TypeOK, ThreadOK, Resume, FreshStart, ChipPlaces
  <2>2. Uniform(target) \in Arrays
    BY <2>1 DEF Uniform, Arrays
  <2>3. CASE UNCHANGED saved
    BY <2>3, <1>1
  <2>4. ASSUME ~UNCHANGED saved
        PROVE /\ arrays' = Uniform(target) /\ round' = 0
              /\ polish' \in {polish, 0}
              /\ UNCHANGED <<surface, failed, results, inflight>>
    BY <1>7, <2>4 DEF Resume, FreshStart
  <2>5. p3active' \in BOOLEAN /\ polishActive' \in BOOLEAN
    BY <1>7, <1>1, Zenon DEF Resume, FreshStart, TypeOK
  <2> QED
    BY <2>2, <2>3, <2>4, <2>5 DEF TypeOK
<1>8. CASE EnterPhase3 \/ RoundBegins \/ PolishBegins \/ Phase3bEnds
  <2>1. p3active' \in BOOLEAN /\ polishActive' \in BOOLEAN
    <3>1. p3active \in BOOLEAN /\ polishActive \in BOOLEAN /\ (PolishRounds > 0) \in BOOLEAN
      BY DEF TypeOK
    <3> QED
      BY <1>8, <3>1, Zenon DEF EnterPhase3, RoundBegins, PolishBegins, Phase3bEnds
  <2>2. round' \in Int /\ polish' \in Int
    BY <1>8 DEF EnterPhase3, RoundBegins, PolishBegins, Phase3bEnds, TypeOK
  <2>3. UNCHANGED <<surface, failed, results, inflight, arrays>>
    BY <1>8 DEF EnterPhase3, RoundBegins, PolishBegins, Phase3bEnds
  <2> QED
    BY <2>1, <2>2, <2>3 DEF TypeOK
<1>9. CASE Phase3Ends \/ PolishEnds
  <2>1. target \in Cells /\ arrays \in Arrays
    BY <1>9 DEF TypeOK, ThreadOK, Phase3Ends, PolishEnds, ChipPlaces
  <2>2. /\ [cell |-> target, stage |-> "grown", bent |-> arrays.bent] \in Arrays
        /\ [arrays EXCEPT !.stage = "polished"] \in Arrays
    BY <2>1 DEF Arrays
  <2>3. CASE UNCHANGED saved
    BY <2>3, <1>1
  <2> QED
    BY <1>9, <2>2, <2>3 DEF Phase3Ends, PolishEnds, TypeOK
<1>10. CASE Phase4 \/ ChipTuneReturns
  <2>1. target \in Cells /\ (Phase4 => arrays \in Arrays)
    BY <1>10 DEF TypeOK, ThreadOK, Phase4, ChipTuneReturns, ChipPlaces
  <2>2. Phase4 => [cell |-> target, arrays |-> arrays] \in Entries
    BY <2>1 DEF Entries
  <2>3. CASE UNCHANGED saved
    BY <2>3, <1>1
  <2> QED
    BY <1>10, <2>1, <2>2, <2>3 DEF Phase4, ChipTuneReturns, Record, TypeOK
<1> QED
  BY <1>1, <1>2, <1>3, <1>4, <1>5, <1>6, <1>7, <1>8, <1>9, <1>10, <1>11
  DEF Next, Worker, ChipTune, Outside, vars, Start, Stop, Widen, CalmDown, Fault, Enter,
      LoopExits, PickCell, Settle, DeleteCheckpoint, SkipPhase3, RoundEnds, StartDrain,
      DrainEnds, MeasureStep, TakeStep

(* A profile without the counters is a file like any other.                *)
LEMMA CountersCleared ==
  ASSUME NEW f \in Files
  PROVE  [f EXCEPT !.round = 0, !.p3active = FALSE,
                   !.polish = 0, !.polishActive = FALSE] \in Files
<1>1. FALSE \in BOOLEAN /\ 0 \in Int
  OBVIOUS
<1> QED
  BY <1>1, Zenon DEF Files

(* What it writes can be restored.                                         *)
LEMMA DiskStep == TypeOK /\ SavedOK' /\ [Next]_vars => DiskOK'
<1> SUFFICES ASSUME TypeOK, SavedOK', [Next]_vars PROVE DiskOK'
  OBVIOUS
<1>1. CASE UNCHANGED disk
  BY <1>1 DEF disk, DiskOK, TypeOK
<1>2. CASE UNCHANGED profile /\ (SaveCheckpoint \/ UNCHANGED checkpoint)
  BY <1>2 DEF SaveCheckpoint, DiskOK, TypeOK, SavedOK
<1>3. CASE UNCHANGED checkpoint /\ SaveProfile
  <2>1. profile' \in Files
    BY <1>3, CountersCleared DEF SaveProfile, SavedOK
  <2> QED
    BY <1>3, <2>1 DEF DiskOK, TypeOK
<1>4. CASE RoundRepeats \/ PolishRepeats
  <2>1. /\ [Snapshot' EXCEPT !.round = round] \in Files
        /\ [Snapshot' EXCEPT !.polish = polish] \in Files
    BY SavedParts DEF TypeOK, SavedOK, Files
  <2> QED
    BY <1>4, <2>1 DEF RoundRepeats, PolishRepeats, DiskOK, TypeOK
<1>5. CASE DeleteCheckpoint
  BY <1>5 DEF DeleteCheckpoint, DiskOK, TypeOK
<1>6. CASE MeasureStep \/ TakeStep \/ Select
  BY <1>6, <1>1, <1>2, <1>3, Measuring, Taking, Selecting DEF disk
<1> QED
  BY <1>1, <1>2, <1>3, <1>4, <1>5, <1>6
  DEF Next, Worker, ChipTune, Outside, vars, disk, Start, Stop, Kill, Widen, CalmDown, Fault,
      Enter, LoopExits, PickCell, MeasureStep, TakeStep, StartDrain, DrainEnds, PickChip, Settle, Monitor,
      Resume, FreshStart, SkipPhase3, EnterPhase3, RoundBegins, RoundSteady, RoundEnds,
      Phase3Ends, PolishBegins, PolishSteady, PolishEnds, Phase3bEnds, Phase4, ChipTuneReturns

(* Wherever a step leaves the worker, it has the cell and the arrays its   *)
(* place needs.                                                            *)
LEMMA ThreadStep == TypeOK /\ SavedOK' /\ [Next]_vars => ThreadOK'
<1> SUFFICES ASSUME TypeOK, SavedOK', [Next]_vars PROVE ThreadOK'
  OBVIOUS
<1> USE SavedParts, SavedPartsNext
<1>1. complete' \in BOOLEAN /\ running' \in BOOLEAN
  <2>1. complete \in BOOLEAN /\ running \in BOOLEAN /\ (profile # None) \in BOOLEAN
    BY DEF TypeOK, ThreadOK
  <2>0. MeasureStep \/ TakeStep \/ Select =>
          complete' \in {complete, FALSE} /\ running' \in {running, FALSE}
    BY Measuring, Taking, Selecting
  <2>2. complete' \in {complete, TRUE, FALSE, profile # None}
    BY <2>0, Zenon DEF Next, Worker, ChipTune, Outside, vars, Start, Stop, Kill, Widen, CalmDown,
      Fault, Enter, LoopExits, PickCell, StartDrain, DrainEnds, MeasureStep, TakeStep,
      PickChip, Settle,
      DeleteCheckpoint, Monitor, Resume, FreshStart, SkipPhase3, EnterPhase3, RoundBegins,
      RoundSteady, RoundRepeats, RoundEnds, Phase3Ends, PolishBegins, PolishSteady,
      PolishRepeats, PolishEnds, Phase3bEnds, Phase4, ChipTuneReturns
  <2>3. running' \in {running, TRUE, FALSE}
    BY <2>0, Zenon DEF Next, Worker, ChipTune, Outside, vars, Start, Stop, Kill, Widen, CalmDown,
      Fault, Enter, LoopExits, PickCell, StartDrain, DrainEnds, MeasureStep, TakeStep,
      PickChip, Settle,
      DeleteCheckpoint, Monitor, Resume, FreshStart, SkipPhase3, EnterPhase3, RoundBegins,
      RoundSteady, RoundRepeats, RoundEnds, Phase3Ends, PolishBegins, PolishSteady,
      PolishRepeats, PolishEnds, Phase3bEnds, Phase4, ChipTuneReturns
  <2> QED
    BY <2>1, <2>2, <2>3, Zenon
<1>2. wanted' \subseteq Cells
  <2>1. CASE Widen
    BY <2>1 DEF Widen, TypeOK, ThreadOK
  <2>2. CASE UNCHANGED wanted
    BY <2>2 DEF TypeOK, ThreadOK
  <2>3. CASE MeasureStep \/ TakeStep \/ Select
    BY <2>3, <2>2, Measuring, Taking, Selecting
  <2> QED
    BY <2>1, <2>2, <2>3 DEF Next, Worker, ChipTune, Outside, vars, env, Start, Stop, Kill, CalmDown,
      Fault, Enter, LoopExits, PickCell, StartDrain, DrainEnds, MeasureStep, TakeStep,
      PickChip, Settle,
      DeleteCheckpoint, Monitor, Resume, FreshStart, SkipPhase3, EnterPhase3, RoundBegins,
      RoundSteady, RoundRepeats, RoundEnds, Phase3Ends, PolishBegins, PolishSteady,
      PolishRepeats, PolishEnds, Phase3bEnds, Phase4, ChipTuneReturns
<1>3. pc' \in ChipPlaces \cup Flights \cup {"after"} => target' \in Cells
  <2>1. CASE UNCHANGED thread
    BY <2>1 DEF thread, TypeOK, ThreadOK
  <2>2. CASE Enter \/ PickCell \/ PickChip
    BY <2>2 DEF Enter, PickCell, PickChip, Unmeasured, Untuned, Goto, Exit, ChipPlaces,
                Flights, TypeOK, ThreadOK
  <2>3. CASE pc' \notin ChipPlaces \cup Flights \cup {"after"}
    BY <2>3
  <2>4. CASE target' = target /\ pc \in ChipPlaces \cup Flights \cup {"after"}
    BY <2>4 DEF TypeOK, ThreadOK
  <2>5. CASE MeasureStep \/ TakeStep \/ Select
    BY <2>5, <2>1, Measuring, Taking, Selecting DEF ChipPlaces, Flights
  <2> QED
    BY <2>1, <2>2, <2>3, <2>4, <2>5
    DEF Flights, Next, Worker, ChipTune, Outside, vars, thread, Goto, Exit, ChipPlaces, Start, Stop,
      Kill, Widen, CalmDown, Fault, LoopExits, StartDrain, DrainEnds, MeasureStep, TakeStep,
      Settle,
      DeleteCheckpoint, Monitor, Resume, FreshStart, SkipPhase3, EnterPhase3, RoundBegins,
      RoundSteady, RoundRepeats, RoundEnds, Phase3Ends, PolishBegins, PolishSteady,
      PolishRepeats, PolishEnds, Phase3bEnds, Phase4, ChipTuneReturns
<1>4. pc' \in ChipPlaces \ {"resume", "fresh"} => arrays' \in Arrays
  <2>1. CASE UNCHANGED <<pc, arrays>>
    BY <2>1 DEF TypeOK, ThreadOK
  <2>2. CASE pc' \notin ChipPlaces \ {"resume", "fresh"}
    BY <2>2
  <2>3. CASE arrays' = arrays /\ pc \in ChipPlaces \ {"resume", "fresh"}
    BY <2>3 DEF TypeOK, ThreadOK
  <2>4. CASE Resume \/ FreshStart
    <3>1. target \in Cells
      BY <2>4 DEF TypeOK, ThreadOK, Resume, FreshStart, ChipPlaces
    <3>2. Uniform(target) \in Arrays
      BY <3>1 DEF Uniform, Arrays
    <3> QED
      BY <2>4, <3>2 DEF Resume, FreshStart, Incoherent, Goto, ChipPlaces, TypeOK, saved
  <2>5. CASE RoundSteady \/ RoundRepeats \/ PolishSteady \/ PolishRepeats
    <3>1. arrays \in Arrays
      BY <2>5 DEF TypeOK, ThreadOK, RoundSteady, RoundRepeats, PolishSteady, PolishRepeats,
                  ChipPlaces
    <3> QED
      BY <2>5, <3>1, ThrottledArrays DEF RoundSteady, RoundRepeats, PolishSteady, PolishRepeats
  <2>6. CASE Phase3Ends \/ PolishEnds
    <3>1. target \in Cells /\ arrays \in Arrays
      BY <2>6 DEF TypeOK, ThreadOK, Phase3Ends, PolishEnds, ChipPlaces
    <3>2. /\ [cell |-> target, stage |-> "grown", bent |-> arrays.bent] \in Arrays
          /\ [arrays EXCEPT !.stage = "polished"] \in Arrays
      BY <3>1 DEF Arrays
    <3> QED
      BY <2>6, <3>1, <3>2 DEF Phase3Ends, PolishEnds, saved
  <2>7. CASE MeasureStep \/ TakeStep
    BY <2>7, Measuring, Taking DEF ChipPlaces
  <2>8. CASE Select
    BY <2>8, Selecting
  <2> QED
    BY <2>1, <2>2, <2>3, <2>4, <2>5, <2>6, <2>7, <2>8
    DEF Next, Worker, ChipTune, Outside, vars, thread, saved, Goto, Exit, ChipPlaces, Start,
      Stop, Kill, Widen, CalmDown, Fault, Enter, LoopExits, PickCell, StartDrain,
      DrainEnds, MeasureStep, TakeStep, PickChip, Settle, DeleteCheckpoint, Monitor, SkipPhase3,
      EnterPhase3, RoundBegins, RoundEnds, PolishBegins, Phase3bEnds, Phase4, ChipTuneReturns
<1>5. since' \subseteq {"loop", "drained", "dropped", "resumed"}
  <2>1. CASE UNCHANGED since \/ (\E who \in {"loop", "drained", "dropped", "resumed"} : Changed(who))
             \/ since' = {}
    BY <2>1 DEF TypeOK, ThreadOK, Changed
  <2>2. CASE MeasureStep \/ TakeStep
    BY <2>1, <2>2, Measuring, Taking
  <2>3. CASE Select \/ Settle \/ Monitor \/ Kill
    BY <2>1, <2>3 DEF Select, Settle, Monitor, Kill, SaveProfile
  <2> QED
    BY <2>1, <2>2, <2>3
    DEF Next, Worker, ChipTune, Outside, vars, Start, Stop, Widen, CalmDown, Fault, Enter,
      LoopExits, PickCell, StartDrain, DrainEnds, MeasureStep, TakeStep, PickChip,
      DeleteCheckpoint, Resume, FreshStart, SkipPhase3, EnterPhase3, RoundBegins, RoundSteady,
      RoundRepeats, RoundEnds, Phase3Ends, PolishBegins, PolishSteady, PolishRepeats,
      PolishEnds, Phase3bEnds, Phase4, ChipTuneReturns
<1> QED
  BY <1>1, <1>2, <1>3, <1>4, <1>5 DEF ThreadOK

LEMMA TypeStep == TypeOK /\ [Next]_vars => TypeOK'
BY SavedStep, DiskStep, ThreadStep DEF TypeOK
-----------------------------------------------------------------------------
(* A step leaves alone what a restart would find, or makes it what the     *)
(* engine now holds.                                                       *)
LEMMA Writes ==
  ASSUME TypeOK, TypeOK', Completed, [Next]_vars
  PROVE  \/ Restorable' = Restorable
         \/ Restorable'.results = results' /\ Restorable'.inflight = inflight'
<1>1. CASE UNCHANGED disk
  BY <1>1 DEF disk, Restorable, Blank
<1>2. Snapshot' \in Files /\ None \notin Files
  BY TuneResumeAssumption DEF TypeOK, SavedOK
<1>3. CASE UNCHANGED profile /\ SaveCheckpoint
  <2>1. checkpoint' = Snapshot' /\ checkpoint' # None
    BY <1>2, <1>3 DEF SaveCheckpoint
  <2>2. CASE profile = None
    BY <1>3, <2>1, <2>2 DEF Restorable, Snapshot
  <2>3. CASE profile # None
    BY <1>3, <2>3 DEF Restorable
  <2> QED
    BY <2>2, <2>3
<1>4. CASE UNCHANGED checkpoint /\ SaveProfile
  <2>1. /\ profile' \in Files \cup {None}
        /\ profile'.results = results' /\ profile'.inflight = inflight'
    BY <1>4 DEF SaveProfile, Snapshot, TypeOK, DiskOK
  <2>2. profile' # None
    BY <1>2, <1>4, CountersCleared DEF SaveProfile
  <2> QED
    BY <2>1, <2>2 DEF Restorable
<1>5. CASE RoundRepeats \/ PolishRepeats
  <2>1. profile' = profile
    BY <1>5 DEF RoundRepeats, PolishRepeats
  <2>2. CASE checkpoint' = checkpoint
    BY <2>1, <2>2, <1>1 DEF disk
  <2>3. CASE checkpoint' # checkpoint
    <3>1. \/ checkpoint' = [Snapshot' EXCEPT !.round = round]
          \/ checkpoint' = [Snapshot' EXCEPT !.polish = polish]
      BY <1>5, <2>3 DEF RoundRepeats, PolishRepeats
    <3>2. /\ checkpoint'.results = results' /\ checkpoint'.inflight = inflight'
          /\ checkpoint' # None
      BY <1>2, <3>1 DEF Snapshot, Files, TypeOK, SavedOK
    <3> QED
      BY <2>1, <3>2 DEF Restorable
  <2> QED
    BY <2>2, <2>3
<1>6. CASE DeleteCheckpoint
  <2>1. profile # None /\ profile' = profile
    BY <1>6 DEF DeleteCheckpoint, Completed
  <2> QED
    BY <2>1 DEF Restorable
<1>7. CASE MeasureStep \/ TakeStep \/ Select
  BY <1>7, <1>1, <1>3, <1>4, Measuring, Taking, Selecting DEF disk
<1> QED
  BY <1>1, <1>3, <1>4, <1>5, <1>6, <1>7
  DEF Next, Worker, ChipTune, Outside, vars, disk, Start, Stop, Kill, Widen, CalmDown, Fault,
      Enter, LoopExits, PickCell, StartDrain, DrainEnds, MeasureStep, TakeStep, PickChip, Settle, Monitor,
      Resume, FreshStart, SkipPhase3, EnterPhase3, RoundBegins, RoundSteady, RoundEnds,
      Phase3Ends, PolishBegins, PolishSteady, PolishEnds, Phase3bEnds, Phase4, ChipTuneReturns

(* A kill brings the engine back to what is on disk.                       *)
LEMMA Killed ==
  ASSUME TypeOK, Kill
  PROVE  /\ results' = Restorable.results /\ inflight' = Restorable.inflight
         /\ surface' = Restorable.surface /\ Restorable' = Restorable
BY DEF Kill, Restore, disk, Restorable, Blank

(* Nothing else takes a voltage's result from the engine.                  *)
LEMMA VoltagesKept ==
  ASSUME TypeOK, [Next]_vars, ~Kill
  PROVE  EngineVolts \subseteq EngineVolts'
<1>1. CASE UNCHANGED results
  BY <1>1 DEF EngineVolts
<1>2. CASE Record(target)
  <2> DEFINE new == [cell |-> target, arrays |-> arrays]
  <2>1. results' = {e \in results : Volt(e.cell) # Volt(target)} \cup {new}
    BY <1>2 DEF Record
  <2>2. new \in results' /\ new.cell = target
    BY <2>1
  <2>3. SUFFICES ASSUME NEW e \in results PROVE Volt(e.cell) \in EngineVolts'
    BY DEF EngineVolts
  <2>4. CASE Volt(e.cell) = Volt(target)
    BY <2>2, <2>4 DEF EngineVolts, Volt
  <2>5. CASE Volt(e.cell) # Volt(target)
    BY <2>1, <2>5 DEF EngineVolts, Volt
  <2> QED
    BY <2>4, <2>5
<1>3. CASE MeasureStep \/ TakeStep \/ Select
  BY <1>3, <1>1, Measuring, Taking, Selecting
<1> QED
  BY <1>1, <1>2, <1>3
  DEF Next, Worker, ChipTune, Outside, vars, saved, Start, Stop, Widen, CalmDown, Fault,
      Enter, LoopExits, PickCell, StartDrain, DrainEnds, MeasureStep, TakeStep,
      PickChip, Settle,
      DeleteCheckpoint, Monitor, Resume, FreshStart, SkipPhase3, EnterPhase3, RoundBegins,
      RoundSteady, RoundRepeats, RoundEnds, Phase3Ends, PolishBegins, PolishSteady,
      PolishRepeats, PolishEnds, Phase3bEnds, Phase4, ChipTuneReturns

LEMMA BehindStep ==
  ASSUME IInv, TypeOK', [Next]_vars PROVE Behind'
<1>1. CASE Kill
  BY <1>1, Killed DEF IInv, Behind, EngineVolts, TunedVoltages
<1>2. CASE ~Kill
  <2>1. EngineVolts \subseteq EngineVolts'
    BY <1>2, VoltagesKept DEF IInv
  <2>2. CASE Restorable' = Restorable
    BY <2>1, <2>2 DEF IInv, Behind, TunedVoltages
  <2>3. CASE Restorable'.results = results'
    BY <2>3 DEF Behind, EngineVolts, TunedVoltages
  <2> QED
    BY <2>2, <2>3, Writes DEF IInv
<1> QED
  BY <1>1, <1>2

(* The marker changes with the disk: chip-tunes that begin or end save it. *)
LEMMA MarkedStep ==
  ASSUME IInv, TypeOK', [Next]_vars PROVE Marked'
<1> SUFFICES ASSUME profile' = None PROVE Restorable'.inflight = inflight'
  BY DEF Marked
<1>1. CASE Kill
  BY <1>1, Killed DEF IInv
<1>2. CASE PickChip \/ ChipTuneReturns
  <2>1. checkpoint' = Snapshot' /\ checkpoint' # None
    BY <1>2, TuneResumeAssumption
    DEF PickChip, ChipTuneReturns, SaveCheckpoint, TypeOK, SavedOK
  <2> QED
    BY <2>1 DEF Restorable, Snapshot
<1>3. CASE inflight' = inflight /\ profile' = profile
  BY <1>3, Writes DEF IInv, Marked
<1>4. CASE Settle \/ Monitor \/ Select
  <2>1. CASE profile' = profile
    BY <1>4, <2>1, <1>3 DEF Settle, Monitor, Select, saved
  <2>2. CASE SaveProfile
    <3>1. profile' \in Files
      BY <2>2, CountersCleared DEF SaveProfile, TypeOK, SavedOK
    <3> QED
      BY <3>1, TuneResumeAssumption
  <2> QED
    BY <1>4, <2>1, <2>2 DEF Settle, Monitor, Select, disk
<1>5. CASE MeasureStep \/ TakeStep
  BY <1>5, <1>3, Measuring, Taking DEF IInv, disk
<1> QED
  BY <1>1, <1>2, <1>3, <1>4, <1>5
  DEF Next, Worker, ChipTune, Outside, vars, saved, disk, Start, Stop, Widen, CalmDown, Fault,
      Enter, LoopExits, PickCell, StartDrain, DrainEnds, MeasureStep, TakeStep,
      DeleteCheckpoint, Resume,
      FreshStart, SkipPhase3, EnterPhase3, RoundBegins, RoundSteady, RoundRepeats, RoundEnds,
      Phase3Ends, PolishBegins, PolishSteady, PolishRepeats, PolishEnds, Phase3bEnds, Phase4

LEMMA WorkingStep ==
  ASSUME IInv, TypeOK', [Next]_vars PROVE Working'
<1>1. CASE UNCHANGED <<pc, target, inflight, running>> \/ Stop \/ Kill \/ Start \/ Fault
  BY <1>1 DEF IInv, Working, Stop, Kill, Start, Fault, Goto, thread, saved, ChipPlaces, Blocking
<1>2. CASE Enter \/ LoopExits \/ PickCell \/ PickChip \/ StartDrain \/ DrainEnds
  BY <1>2 DEF IInv, Working, Enter, LoopExits, PickCell, PickChip, StartDrain, DrainEnds,
              Goto, Exit, saved, ChipPlaces
<1>5. CASE MeasureStep \/ TakeStep
  BY <1>5, Measuring, Taking DEF IInv, Working, ChipPlaces, Flights
<1>6. CASE Select
  BY <1>6, <1>1, Selecting DEF IInv, thread
<1>3. CASE Settle \/ DeleteCheckpoint \/ Monitor \/ ChipTuneReturns
  BY <1>3 DEF IInv, Working, Settle, DeleteCheckpoint, Monitor, ChipTuneReturns, Goto, saved,
              ChipPlaces
<1>4. CASE /\ UNCHANGED <<target, inflight>> /\ pc \in ChipPlaces
           /\ pc' \in ChipPlaces \cup {"after"}
  BY <1>4 DEF IInv, Working, ChipPlaces
<1> QED
  BY <1>1, <1>2, <1>3, <1>4, <1>5, <1>6
  DEF MeasureStep, TakeStep, Next, Worker, ChipTune, Outside, vars, saved, thread, Goto,
      ChipPlaces, Widen, CalmDown, Resume, FreshStart, SkipPhase3, EnterPhase3, RoundBegins, RoundSteady, RoundRepeats,
      RoundEnds, Phase3Ends, PolishBegins, PolishSteady, PolishRepeats, PolishEnds,
      Phase3bEnds, Phase4

LEMMA CompletedStep ==
  ASSUME IInv, TypeOK', [Next]_vars PROVE Completed'
<1> USE DEF IInv
<1>1. CASE Kill
  <2>1. /\ pc' = "dead" /\ complete' = (profile # None) /\ profile' = profile
        /\ profile # None => since' = {}
    BY <1>1 DEF Kill, disk
  <2>2. profile # None => results' = profile.results /\ surface' = profile.surface
    BY <1>1, Killed DEF Restorable
  <2> QED
    BY <2>1, <2>2 DEF Completed
<1>2. CASE /\ UNCHANGED <<complete, profile, results, surface, since>>
           /\ pc' \notin {"measure", "cleanup", "monitor"} \/ pc' = pc
  BY <1>2 DEF Completed
<1>3. CASE PickCell \/ PickChip
  BY <1>3 DEF Completed, PickCell, PickChip
<1>4. CASE Settle \/ Monitor \/ Select
  <2>1. UNCHANGED <<results, surface>>
    BY <1>4, Selecting DEF Settle, Monitor, saved
  <2>2. /\ complete' \in {complete, TRUE} /\ (pc' = "measure" => complete' = complete /\ pc' = pc)
        /\ pc' \in {"cleanup", "monitor"} => complete' \/ (complete' = complete /\ pc' = pc)
    BY <1>4, Selecting DEF Settle, Monitor, Goto, thread
  <2>3. CASE UNCHANGED <<profile, since>> /\ (complete' => complete)
    BY <2>1, <2>2, <2>3 DEF Completed
  <2>4. CASE SaveProfile
    <3>1. profile' \in Files
      BY <2>4, CountersCleared DEF SaveProfile, TypeOK, SavedOK
    <3>2. /\ profile'.results = results' /\ profile'.surface = surface' /\ since' = {}
      BY <2>4 DEF SaveProfile, Snapshot
    <3> QED
      BY <2>2, <3>1, <3>2, TuneResumeAssumption DEF Completed
  <2> QED
    BY <1>4, <2>3, <2>4, Selecting DEF Settle, Monitor, disk
<1>5. CASE MeasureStep
  <2>1. pc' \notin {"measure", "cleanup", "monitor"} /\ UNCHANGED <<results, profile>>
    BY <1>5, Measuring
  <2>2. complete' => complete /\ (Changed("dropped") \/ Changed("drained"))
    BY <1>5, Measuring DEF Completed
  <2> QED
    BY <2>1, <2>2 DEF Completed, Changed
<1>6. CASE TakeStep
  <2>1. /\ pc' \notin {"measure", "cleanup", "monitor"}
        /\ UNCHANGED <<results, profile, complete>>
        /\ Changed("dropped") \/ Changed("drained")
    BY <1>6, Taking DEF disk
  <2> QED
    BY <2>1 DEF Completed, Changed
<1>7. CASE DeleteCheckpoint
  BY <1>7 DEF Completed, DeleteCheckpoint, Goto, saved
<1>8. CASE Phase4
  <2>1. /\ pc' = "after" /\ UNCHANGED <<surface, profile, complete>>
        /\ \/ Changed(IF complete THEN "resumed" ELSE "loop")
           \/ UNCHANGED <<results, since>>
    BY <1>8 DEF Phase4, Goto, saved
  <2> QED
    BY <2>1 DEF Completed, Changed
<1> QED
  BY <1>1, <1>2, <1>3, <1>4, <1>5, <1>6, <1>7, <1>8
  DEF Next, Worker, ChipTune, Outside, vars, saved, disk, thread, Goto, Exit, Start, Stop, Widen,
      CalmDown, Fault, Enter, LoopExits, StartDrain, DrainEnds, MeasureStep, TakeStep, Resume,
      FreshStart, SkipPhase3, EnterPhase3, RoundBegins, RoundSteady, RoundRepeats, RoundEnds,
      Phase3Ends, PolishBegins, PolishSteady, PolishRepeats, PolishEnds, Phase3bEnds,
      ChipTuneReturns

LEMMA Inductive == IInv /\ [Next]_vars => IInv'
BY TypeStep, BehindStep, MarkedStep, WorkingStep, CompletedStep DEF IInv

LEMMA Invariance == Spec => []IInv
<1>1. IInv /\ [Next]_vars => IInv'
  BY Inductive
<1> QED
  BY Initial, <1>1, PTL DEF Spec
-----------------------------------------------------------------------------
(* Whatever is saved can be restored: both files, and the engine's own     *)
(* attributes, are always of the form restore_saved_state reads back.      *)
THEOREM TypeCorrect == Spec => []TypeOK
<1>1. IInv => TypeOK
  BY DEF IInv
<1> QED
  BY Invariance, <1>1, PTL

(* A kill in the middle of a chip-tune, before there is a profile, comes   *)
(* back to the cell in hand.                                               *)
THEOREM CellIsResumed == Spec => []CrashResumesCell
<1>1. IInv => CrashResumesCell
  BY DEF IInv, Marked, Working, CrashResumesCell
<1> QED
  BY Invariance, <1>1, PTL

(* The monitor works on what the profile says, but for what a drain, a     *)
(* failed request or a tune resumed out of a selection's profile changed.  *)
THEOREM MonitoredSaved == Spec => []MonitoredIsSaved
<1>1. IInv => MonitoredIsSaved
  BY DEF IInv, TypeOK, ThreadOK, Completed, MonitoredIsSaved
<1> QED
  BY Invariance, <1>1, PTL

(* No step takes its result from a voltage that a restart would restore.   *)
THEOREM VoltagesStay == Spec => TunedVoltagesStay
<1>1. IInv /\ IInv' /\ [Next]_vars => TunedVoltages(Restorable) \subseteq TunedVoltages(Restorable')
  <2> SUFFICES ASSUME IInv, IInv', [Next]_vars
               PROVE TunedVoltages(Restorable) \subseteq TunedVoltages(Restorable')
    OBVIOUS
  <2>1. CASE Restorable' = Restorable
    BY <2>1 DEF TunedVoltages
  <2>2. CASE Restorable' # Restorable
    <3>1. ~Kill
      BY <2>2, Killed DEF IInv
    <3>2. TunedVoltages(Restorable) \subseteq EngineVolts /\ EngineVolts \subseteq EngineVolts'
      BY <3>1, VoltagesKept DEF IInv, Behind
    <3>3. Restorable'.results = results'
      BY <2>2, Writes DEF IInv
    <3> QED
      BY <3>2, <3>3 DEF TunedVoltages, EngineVolts
  <2> QED
    BY <2>1, <2>2
<1> QED
  BY Invariance, <1>1, PTL DEF Spec, TunedVoltagesStay
=============================================================================
