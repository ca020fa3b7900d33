--------------------------- MODULE RetryLoopProofs ---------------------------
(***************************************************************************)
(* The safety properties of RetryLoop for every retry budget, offline      *)
(* threshold and breaker threshold.  Each is carried by the part of IInv   *)
(* named after it.                                                         *)
(***************************************************************************)
EXTENDS RetryLoop, TLAPS

\* Below the offline threshold everywhere but in offline mode itself.
OfflineFilter == pc # "poll" => offlineHits < OfflineThreshold

\* Every failure since the miner was last good has been paid for.
BudgetPaid == worker = "run" /\ goodAt = "never" => failures <= retries

(* The recovery flag covers every suspect miner, and no stage after the    *)
(* reset is reached with the flag up, except by a worker that has been     *)
(* stopped, or by a retune, which applies a V/F of its own.                *)
ResetComesFirst ==
  /\ vf = "suspect" => recovered
  /\ pc = "main" => ~recovered
  /\ pc \in {"contact", "disable", "await"} /\ worker # "retune" /\ running => ~recovered

IInv == TypeOK /\ OfflineFilter /\ BudgetPaid /\ ResetComesFirst

Operations ==
  \/ Operator \/ MinerChanges \/ TimePasses

LEMMA InitInv == Init => IInv
<1> SUFFICES ASSUME Init PROVE IInv
  OBVIOUS
<1>1. running \in BOOLEAN /\ recovered \in BOOLEAN
  BY DEF Init
<1>2. TypeOK
  BY <1>1, RetryLoopAssumption DEF Init, TypeOK, Phases, Faults, Workers, Places, Conditions
<1>3. OfflineFilter /\ BudgetPaid
  BY RetryLoopAssumption DEF Init, OfflineFilter, BudgetPaid
<1>4. ResetComesFirst
  BY Zenon DEF Init, ResetComesFirst
<1> QED
  BY <1>2, <1>3, <1>4 DEF IInv

\* Operator calls, a killed process, the miner and the clock keep IInv.
LEMMA EnvironmentKeepsInv == IInv /\ Operations => IInv'
<1> USE RetryLoopAssumption
    DEF IInv, TypeOK, OfflineFilter, BudgetPaid, ResetComesFirst,
        Phases, Faults, Workers, Places, Conditions, attrs, thread
<1> SUFFICES ASSUME IInv, Operations PROVE IInv'
  OBVIOUS
<1>1. CASE Start
  BY <1>1 DEF Start, Spawn, NoWorker
<1>2. CASE StartRetune
  BY <1>2 DEF StartRetune, Spawn, NoWorker
<1>3. CASE StartRemeasure
  BY <1>3 DEF StartRemeasure, Spawn, NoWorker
<1>4. CASE Stop
  <2>1. running' \in BOOLEAN
    BY <1>4 DEF Stop
  <2>2. ResetComesFirst'
    BY <1>4, Zenon DEF Stop
  <2> QED
    BY <1>4, <2>1, <2>2 DEF Stop
<1>5. CASE ProcessRestart
  <2>1. running' \in BOOLEAN /\ recovered' \in BOOLEAN
    BY <1>5 DEF ProcessRestart
  <2>2. ResetComesFirst'
    BY <1>5, Zenon DEF ProcessRestart, Exit
  <2> QED
    BY <1>5, <2>1, <2>2 DEF ProcessRestart, Exit
<1>6. CASE MinerChanges
  BY <1>6 DEF MinerChanges
<1>7. CASE TimePasses
  BY <1>7 DEF TimePasses
<1> QED
  BY <1>1, <1>2, <1>3, <1>4, <1>5, <1>6, <1>7 DEF Operations, Operator

\* From the top of the loop to the end of the tuning.
RunStage ==
  \/ LoopTop \/ SkipReset \/ ResetRefused \/ ResetSafeVf
  \/ Contact \/ DisablePerpetualTune \/ AwaitMining
  \/ Tune \/ TuneFails \/ TuneStopped

LEMMA RunStageKeepsInv == IInv /\ RunStage => IInv'
<1> USE RetryLoopAssumption
    DEF IInv, TypeOK, OfflineFilter, BudgetPaid, ResetComesFirst,
        Phases, Faults, Workers, Places, Conditions, attrs, thread,
        Goto, Raise, Exit
<1> SUFFICES ASSUME IInv, RunStage PROVE IInv'
  OBVIOUS
<1>1. CASE LoopTop
  BY <1>1 DEF LoopTop
<1>2. CASE SkipReset
  BY <1>2 DEF SkipReset, ResetDue
<1>3. CASE ResetRefused
  BY <1>3 DEF ResetRefused
<1>4. CASE ResetSafeVf
  <2>1. recovered' \in BOOLEAN /\ ResetComesFirst'
    <3>1. (recovered' = FALSE /\ vf' = "trusted") \/ UNCHANGED <<recovered, vf>>
      BY <1>4 DEF ResetSafeVf
    <3>2. pc' \in {"contact", "handle"}
      BY <1>4 DEF ResetSafeVf
    <3>3. pc' = "contact" => recovered' = FALSE
      BY <1>4 DEF ResetSafeVf
    <3> QED
      BY <3>1, <3>2, <3>3, Zenon
  <2>2. retries' = retries /\ offlineHits' = offlineHits
    BY <1>4 DEF ResetSafeVf
  <2> QED
    BY <1>4, <2>1, <2>2 DEF ResetSafeVf, ConfirmGood
<1>5. CASE Contact
  BY <1>5 DEF Contact
<1>6. CASE DisablePerpetualTune
  BY <1>6 DEF DisablePerpetualTune
<1>7. CASE AwaitMining
  BY <1>7 DEF AwaitMining, ConfirmGood
<1>8. CASE Tune
  BY <1>8 DEF Tune
<1>9. CASE TuneFails
  BY <1>9 DEF TuneFails
<1>10. CASE TuneStopped
  BY <1>10 DEF TuneStopped
<1> QED
  BY <1>1, <1>2, <1>3, <1>4, <1>5, <1>6, <1>7, <1>8, <1>9, <1>10 DEF RunStage

\* The except clauses and the waits they end in, and the other runners.
Aftermath ==
  \/ HandleTerminal \/ HandleOffline \/ HandlePending \/ HandleRetryable
  \/ Nap \/ StopPolling \/ BackOnline
  \/ RetuneDone \/ RetuneFails \/ RemeasureEnds \/ RunnerFails

LEMMA AftermathKeepsInv == IInv /\ Aftermath => IInv'
<1> USE RetryLoopAssumption
    DEF IInv, TypeOK, OfflineFilter, BudgetPaid, ResetComesFirst,
        Phases, Faults, Workers, Places, Conditions, attrs, thread,
        Goto, Raise, Exit, GiveUp, Handling, Incr
<1> SUFFICES ASSUME IInv, Aftermath PROVE IInv'
  OBVIOUS
<1>1. CASE HandleTerminal
  BY <1>1 DEF HandleTerminal
<1>2. CASE HandleOffline
  BY <1>2 DEF HandleOffline, Phase0Hits, EnterOfflineMode
<1>3. CASE HandlePending
  BY <1>3 DEF HandlePending
<1>4. CASE HandleRetryable
  <2>1. recovered' \in BOOLEAN /\ ResetComesFirst'
    <3>1. recovered' = TRUE \/ UNCHANGED <<recovered, vf>>
      BY <1>4 DEF HandleRetryable, AttemptRecovery
    <3>2. pc' \in {"dead", "nap"}
      BY <1>4 DEF HandleRetryable
    <3> QED
      BY <3>1, <3>2, Zenon
  <2>2. retries' \in 0..MaxRetries /\ BudgetPaid'
    BY <1>4 DEF HandleRetryable, OutOfBudget, BudgetUsed
  <2> QED
    BY <1>4, <2>1, <2>2 DEF HandleRetryable, AttemptRecovery
<1>5. CASE Nap
  BY <1>5 DEF Nap
<1>6. CASE StopPolling
  BY <1>6 DEF StopPolling
<1>7. CASE BackOnline
  BY <1>7 DEF BackOnline
<1>8. CASE RetuneDone
  BY <1>8 DEF RetuneDone
<1>9. CASE RetuneFails
  BY <1>9 DEF RetuneFails
<1>10. CASE RemeasureEnds
  <2>1. running' \in BOOLEAN
    BY <1>10 DEF RemeasureEnds
  <2>2. ResetComesFirst'
    <3>1. pc' = "dead" /\ recovered' = recovered
      BY <1>10 DEF RemeasureEnds
    <3>2. vf' = vf \/ vf' = "trusted"
      BY <1>10 DEF RemeasureEnds
    <3> QED
      BY <3>1, <3>2, Zenon
  <2> QED
    BY <1>10, <2>1, <2>2 DEF RemeasureEnds
<1>11. CASE RunnerFails
  BY <1>11 DEF RunnerFails
<1> QED
  BY <1>1, <1>2, <1>3, <1>4, <1>5, <1>6, <1>7, <1>8, <1>9, <1>10, <1>11 DEF Aftermath

(* IInv is inductive: it holds at the start and no step of the worker, the *)
(* operator, the miner or the clock leaves it.                             *)
THEOREM Inductive == Spec => []IInv
<1>1. IInv /\ [Next]_vars => IInv'
  <2> SUFFICES ASSUME IInv, [Next]_vars PROVE IInv'
    OBVIOUS
  <2>1. CASE Operations
    BY <2>1, EnvironmentKeepsInv
  <2>2. CASE RunStage
    BY <2>2, RunStageKeepsInv
  <2>3. CASE Aftermath
    BY <2>3, AftermathKeepsInv
  <2>4. CASE UNCHANGED vars
    BY <2>4 DEF vars, attrs, thread, IInv, TypeOK, OfflineFilter, BudgetPaid, ResetComesFirst
  <2> QED
    BY <2>1, <2>2, <2>3, <2>4 DEF Next, Worker, Operations, RunStage, Aftermath
<1> QED
  BY InitInv, <1>1, PTL DEF Spec

(* Every attribute keeps its type; in particular no retry counter exceeds  *)
(* its bound.                                                              *)
THEOREM TypeCorrect == Spec => []TypeOK
<1>1. IInv => TypeOK
  BY DEF IInv
<1> QED
  BY Inductive, <1>1, PTL

(* A miner that was never good costs at most MaxRetries recoveries.        *)
THEOREM BudgetHolds == Spec => []GivesUpWhenNeverGood
<1>1. IInv => GivesUpWhenNeverGood
  BY RetryLoopAssumption DEF IInv, TypeOK, BudgetPaid, GivesUpWhenNeverGood
<1> QED
  BY Inductive, <1>1, PTL

(* Tuning never starts on a miner a recovery left at an unknown V/F.       *)
THEOREM SafeVfHolds == Spec => []SafeVfBeforeTuning
<1>1. IInv => SafeVfBeforeTuning
  BY DEF IInv, ResetComesFirst, SafeVfBeforeTuning
<1> QED
  BY Inductive, <1>1, PTL

(* The retry loop ends by itself only with an error shown.                 *)
THEOREM DeathReported == Spec => DeathIsReported
<1> DEFINE Reported == worker = "run" /\ worker' = "none" /\ running' => Bucket' = "error"
<1>1. [Next]_vars => [Reported]_vars
  <2> USE DEF Goto, Raise, Exit, attrs, thread
  <2>0. phase' = "error" => Bucket' = "error"
    BY DEF Bucket
  <2> SUFFICES ASSUME Next, worker = "run", worker' = "none", running' PROVE phase' = "error"
    BY <2>0
  <2>1. CASE Operations
    BY <2>1 DEF Operations, Operator, Start, StartRetune, StartRemeasure, Spawn, NoWorker,
       Stop, ProcessRestart, MinerChanges, TimePasses
  <2>2. CASE RunStage
    BY <2>2 DEF RunStage, LoopTop, SkipReset, ResetRefused, ResetSafeVf, Contact,
       DisablePerpetualTune, AwaitMining, Tune, TuneFails, TuneStopped
  <2>3. CASE Aftermath
    BY <2>3 DEF Aftermath, HandleTerminal, HandleOffline, HandlePending, HandleRetryable,
       GiveUp, Nap, StopPolling, BackOnline, RetuneDone, RetuneFails, RemeasureEnds, RunnerFails
  <2> QED
    BY <2>1, <2>2, <2>3 DEF Next, Worker, Operations, RunStage, Aftermath
<1> QED
  BY <1>1, PTL DEF Spec, DeathIsReported
=============================================================================
