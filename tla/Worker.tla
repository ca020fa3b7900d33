------------------------------- MODULE Worker -------------------------------
(***************************************************************************)
(* What the three tuning strategies share: the engine's running flag and   *)
(* the worker thread, once Phase 0 has succeeded.  The firmware decides    *)
(* which strategy the worker runs; each is a loop of its own.  The retry   *)
(* loop around it (RetryLoop) brings a strategy that raised back to its    *)
(* entry.                                                                  *)
(***************************************************************************)
EXTENDS Integers, FiniteSets, Sequences

CONSTANT None

VARIABLES
  strategy,  \* api.tuning_strategy()
  running,   \* engine.running
  pc         \* where the worker is: "off" when there is no thread

worker == <<strategy, running, pc>>

WorkerInit == running = FALSE /\ pc = "off"

\* A stopped worker that has not ended yet keeps a start from taking effect.
StartWorker ==
  /\ pc = "off"
  /\ running' = TRUE /\ pc' = "entry" /\ UNCHANGED strategy

StopWorker ==
  /\ running /\ pc # "off"
  /\ running' = FALSE /\ UNCHANGED <<pc, strategy>>

\* The process ends; the next start of the process restores the files.
KillWorker ==
  /\ pc # "off"
  /\ running' = FALSE /\ pc' = "off" /\ UNCHANGED strategy

At(place)  == pc = place /\ UNCHANGED <<strategy, running>>
Goto(next) == pc' = next

\* The heads of the loops ask for running.
Looping(place) == At(place) /\ running
Leaves(place)  == At(place) /\ ~running /\ Goto("off")
=============================================================================
