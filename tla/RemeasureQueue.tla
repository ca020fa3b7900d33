---------------------------- MODULE RemeasureQueue ----------------------------
(***************************************************************************)
(* The operator's queue of cells to be measured again.  HTTP threads append*)
(* to it and clear it; it is drained either by the main loop of a tune, one*)
(* cell per turn, or by a worker of its own.  A cell's old entry is dropped*)
(* from vf_surface before the new one exists, so the queue, the surface and*)
(* the two files have to agree about who still remembers the cell.         *)
(*                                                                         *)
(* An entry is abstracted to its place in the fine grid: `fine', and       *)
(* whether it names its coarse_anchor.  The readings are data.  FineCells  *)
(* are cells the fine stage measures; the conversion of a coarse anchor to *)
(* fine is left out, an anchor is a coarse cell here.  What the main loop  *)
(* does besides measuring is in TuneResume, what follows an exception in   *)
(* RetryLoop.  A definition X_Variant is a wrong version of X that shows   *)
(* what a property tells apart; no run uses it.                            *)
(***************************************************************************)
EXTENDS Integers, SequencesExt

CONSTANTS
  Cells,     \* the cells of the grid
  FineCells, \* those of the fine sub-grids
  None

ASSUME RemeasureAssumption == IsFiniteSet(Cells) /\ FineCells \subseteq Cells /\ None \notin Cells

VARIABLES
  \* engine attributes
  queue,    \* remeasure_queue
  surface,  \* vf_surface: the entries of each cell
  complete, \* tuning_complete
  running,
  \* the worker thread: of _run, of remeasure_runner, or none
  worker, pc,
  item,     \* the cell it measures
  prior,    \* prior_fine, prior_anchor
  \* the file a restart restores: a checkpoint, or a profile once there is one
  file, tuned,
  \* the outside
  calm,     \* the miner has stopped failing
  \* history
  gone,     \* cells given up by a stop, by a clear or by a save in mid-flight
  spoilt    \* cells once remeasured without a sound entry to go by, or not settled at

memory == <<queue, surface>>
thread == <<worker, pc, item, prior>>
files  == <<file, tuned>>
past   == <<gone, spoilt>>
vars   == <<memory, complete, running, thread, files, calm, past>>

Entries == [fine : BOOLEAN, anchored : BOOLEAN]
Coarse  == [fine |-> FALSE, anchored |-> FALSE]
InGrid(c) == [fine |-> c \in FineCells, anchored |-> c \in FineCells]

\* A cell is queued once, and once more when it fails after it was requested in flight.
TypeOK ==
  /\ queue \in Seq(Cells) /\ Len(queue) <= Cardinality(Cells) + 1
  /\ surface \in [Cells -> Seq(Entries)]
  /\ complete \in BOOLEAN /\ running \in BOOLEAN
  /\ worker \in {"none", "tune", "drain"}
  /\ pc \in {"dead", "loop", "flight", "raised", "explore", "retry"}
  /\ item \in Cells \cup {None} /\ prior \in Entries
  /\ file \in [queue : Seq(Cells), surface : [Cells -> Seq(Entries)]] /\ tuned \in BOOLEAN
  /\ calm \in BOOLEAN /\ gone \subseteq Cells /\ spoilt \subseteq Cells
-----------------------------------------------------------------------------
Queued      == Range(queue)
Measured(s) == {c \in Cells : s[c] # <<>>}

(* Beside a profile a checkpoint is written too, and never read.           *)
Snapshot       == [queue |-> queue', surface |-> surface']
SaveCheckpoint == IF tuned THEN UNCHANGED files ELSE file' = Snapshot /\ UNCHANGED tuned
SaveProfile    == file' = Snapshot /\ tuned' = TRUE

\* The cells a file still knows of: a measurement or a request for one.
Held(f) == Range(f.queue) \cup Measured(f.surface)

Goto(p) == pc' = p /\ UNCHANGED <<worker, item, prior>>
Exit    == worker' = "none" /\ pc' = "dead" /\ item' = None /\ prior' = Coarse
Loop    == pc' = "loop" /\ item' = None /\ prior' = Coarse /\ UNCHANGED worker
-----------------------------------------------------------------------------
(* HTTP threads; the queue is not saved until the worker saves next.       *)
Enqueue_Again(c) ==
  /\ queue' = Append(queue, c)
  /\ UNCHANGED <<surface, complete, running, thread, files, calm, past>>

Enqueue_AtHead(c) ==
  /\ c \notin Queued /\ queue' = <<c>> \o queue
  /\ UNCHANGED <<surface, complete, running, thread, files, calm, past>>

Enqueue(c) ==
  /\ c \notin Queued /\ queue' = Append(queue, c)
  /\ UNCHANGED <<surface, complete, running, thread, files, calm, past>>

Clear ==
  /\ queue' = <<>> /\ gone' = gone \cup (Queued \ Measured(surface))
  /\ UNCHANGED <<surface, complete, running, thread, files, calm, spoilt>>

Spawn(w) == worker = "none" /\ worker' = w /\ running' = TRUE /\ pc' = "loop"
            /\ UNCHANGED <<memory, complete, item, prior, files, calm, past>>

Start      == Spawn("tune")
StartDrain == queue # <<>> /\ Spawn("drain")

Stop ==
  /\ running /\ running' = FALSE
  /\ UNCHANGED <<memory, complete, thread, files, calm, past>>

(* select_voltage_profile saves the profile whatever the worker is doing.  *)
SelectProfile ==
  /\ tuned /\ UNCHANGED memory /\ SaveProfile
  /\ gone' = IF pc \in {"flight", "raised"} THEN gone \cup {item} ELSE gone
  /\ UNCHANGED <<complete, running, thread, calm, spoilt>>

(* The process dies and is started again; a restored profile is complete.  *)
Kill ==
  /\ queue' = file.queue /\ surface' = file.surface
  /\ complete' = tuned /\ running' = FALSE /\ Exit
  /\ UNCHANGED <<files, calm, past>>

CalmDown ==
  /\ ~calm /\ calm' = TRUE
  /\ UNCHANGED <<memory, complete, running, thread, files, past>>
-----------------------------------------------------------------------------
(* The head of the loop.                                                   *)
LoopExits ==
  /\ pc = "loop" /\ ~running /\ Exit
  /\ UNCHANGED <<memory, complete, running, files, calm, past>>

DrainDone ==
  /\ pc = "loop" /\ worker = "drain" /\ queue = <<>>
  /\ running' = FALSE /\ Exit
  /\ UNCHANGED <<memory, complete, files, calm, past>>

Sniffed_Never(c) == Coarse

\* The main loop sniffs the classification of the entry it is about to drop.
Sniffed(c) ==
  IF worker = "tune" /\ surface[c] # <<>> /\ surface[c][1].fine THEN surface[c][1] ELSE Coarse

Dropped_Kept(c) == surface

Dropped(c) == [surface EXCEPT ![c] = <<>>]

TakeOne ==
  /\ pc = "loop" /\ running /\ queue # <<>>
  /\ item' = Head(queue) /\ queue' = Tail(queue)
  /\ prior' = Sniffed(item') /\ surface' = Dropped(item')
  /\ spoilt' = IF worker = "drain" \/ surface[item'] = <<>>
               THEN spoilt \cup {item'} ELSE spoilt
  /\ pc' = "flight"
  /\ UNCHANGED <<worker, complete, running, files, calm, gone>>
-----------------------------------------------------------------------------
(* The new entry takes the old one's place: measured, out of reach of the  *)
(* samples, or too hot.  A stop may come after the last look at running.   *)
Record(e) ==
  /\ surface' = [surface EXCEPT ![item] = Append(@, e)] /\ UNCHANGED queue
  /\ SaveCheckpoint

MeasuredAgain ==
  /\ pc = "flight" /\ Loop /\ Record(prior)
  /\ complete' = (complete /\ worker = "drain")
  /\ gone' = gone \ {item}
  /\ UNCHANGED <<running, calm, spoilt>>

\* The measurement was cut short by a stop: there is no result to record.
Abandoned ==
  /\ pc = "flight" /\ ~running /\ Loop
  /\ UNCHANGED memory /\ SaveCheckpoint
  /\ complete' = (complete /\ worker = "drain")
  /\ gone' = gone \cup {item}
  /\ UNCHANGED <<running, calm, spoilt>>

(* measure_vf_point: a cell the miner does not settle at leaves a sentinel *)
(* on the surface, which is saved before the exception goes on.            *)
NotReady(next) ==
  /\ ~calm /\ Record([fine |-> prior.fine, anchored |-> FALSE])
  /\ gone' = gone \ {item} /\ spoilt' = spoilt \cup {item}
  /\ Goto(next)
  /\ UNCHANGED <<complete, running, calm>>

Offline(next) ==
  /\ ~calm /\ Goto(next)
  /\ UNCHANGED <<memory, complete, running, files, calm, past>>

FlightFails == pc = "flight" /\ (NotReady("raised") \/ Offline("raised"))

Reinsert_Forgets ==
  /\ pc = "raised" /\ UNCHANGED memory
  /\ \/ worker = "tune" /\ SaveCheckpoint /\ Goto("retry") /\ UNCHANGED running
     \/ worker = "drain" /\ Exit /\ running' = FALSE /\ UNCHANGED files
  /\ UNCHANGED <<complete, calm, past>>

(* The request goes back to the head of the queue.  A tune saves that and  *)
(* leaves the exception to the retry loop; the drain runner ends with it.  *)
Reinsert ==
  /\ pc = "raised" /\ queue' = <<item>> \o queue /\ UNCHANGED surface
  /\ \/ worker = "tune" /\ SaveCheckpoint /\ Goto("retry") /\ UNCHANGED running
     \/ worker = "drain" /\ Exit /\ running' = FALSE /\ UNCHANGED files
  /\ UNCHANGED <<complete, calm, past>>

\* The retry loop, or its end.
Retried ==
  /\ pc = "retry" /\ Loop
  /\ UNCHANGED <<memory, complete, running, files, calm, past>>

GivenUp ==
  /\ pc = "retry" /\ Exit
  /\ UNCHANGED <<memory, complete, running, files, calm, past>>
-----------------------------------------------------------------------------
(* The other stages of the main loop come when the queue is empty.         *)
Explore ==
  /\ pc = "loop" /\ worker = "tune" /\ running /\ queue = <<>>
  /\ item' \in Cells \ Measured(surface) /\ prior' = InGrid(item')
  /\ pc' = "explore" /\ complete' = FALSE
  /\ UNCHANGED <<memory, running, worker, files, calm, past>>

Explored ==
  /\ pc = "explore" /\ Loop /\ Record(prior)
  /\ gone' = gone \ {item}
  /\ UNCHANGED <<complete, running, calm, spoilt>>

ExploreStops ==
  /\ pc = "explore" /\ ~running /\ Loop
  /\ UNCHANGED memory /\ SaveCheckpoint
  /\ UNCHANGED <<complete, running, calm, past>>

ExploreFails == pc = "explore" /\ (NotReady("retry") \/ Offline("retry"))

(* _mark_tune_complete *)
Settle ==
  /\ pc = "loop" /\ worker = "tune" /\ running /\ queue = <<>>
  /\ Measured(surface) = Cells /\ ~complete /\ complete' = TRUE
  /\ UNCHANGED memory /\ SaveProfile
  /\ UNCHANGED <<running, thread, calm, past>>
-----------------------------------------------------------------------------
Init ==
  /\ queue = <<>> /\ surface = [c \in Cells |-> <<>>]
  /\ complete = FALSE /\ running = FALSE
  /\ worker = "none" /\ pc = "dead" /\ item = None /\ prior = Coarse
  /\ file = [queue |-> queue, surface |-> surface] /\ tuned = FALSE
  /\ calm = FALSE /\ gone = {} /\ spoilt = {}

Worker ==
  \/ LoopExits \/ DrainDone \/ TakeOne \/ MeasuredAgain \/ Abandoned \/ FlightFails
  \/ Reinsert \/ Retried \/ GivenUp
  \/ Explore \/ Explored \/ ExploreStops \/ ExploreFails \/ Settle

Operator == (\E c \in Cells : Enqueue(c)) \/ Clear \/ Start \/ StartDrain \/ Stop
            \/ SelectProfile

Next == Worker \/ Operator \/ Kill \/ CalmDown

Spec == Init /\ [][Next]_vars

(* The worker is scheduled and each measurement ends.                      *)
FairSpec == Spec /\ WF_vars(Worker)
-----------------------------------------------------------------------------
(* The surface is keyed by cell: through sentinels, re-insertions, a cell  *)
(* requested again while it is in flight, and restarts, no cell has two    *)
(* entries.                                                                *)
OneEntryPerCell == \A c \in Cells : Len(surface[c]) <= 1

(* A kill at any moment comes back with a measurement of, or a request     *)
(* for, every cell an earlier restart would have known of, unless the      *)
(* operator stopped the measurement, cleared the request or had the        *)
(* profile saved in the middle of it.                                      *)
KillLosesNothing == [][Held(file) \ gone' \subseteq Held(file')]_vars

(* A remeasured cell of the fine grid keeps its place in it, as long as    *)
(* the main loop remeasures it and finds a sound entry to go by.           *)
FineStaysFine ==
  \A c \in FineCells \ spoilt : \A i \in DOMAIN surface[c] : surface[c][i] = InGrid(c)

(* On a miner that has stopped failing, a worker left running gets round   *)
(* to every request, however many others keep coming in.                   *)
QueueMoves ==
  \A c \in Cells : <>[](calm /\ running /\ worker # "none") => []<>(c \notin Queued)
-----------------------------------------------------------------------------
(* What the code says of itself and does not keep.                         *)

(* "Safe to call mid-Phase-V; each cell's measurement + checkpoint is      *)
(* atomic": when the drain runner is done with a cell, a restart still     *)
(* knows of every cell that was measured before.                           *)
MeasurementIsAtomic ==
  [][worker = "drain" /\ pc = "flight" => Measured(file.surface) \subseteq Held(file')]_vars
=============================================================================
