------------------------------ MODULE RetryLoop ------------------------------
(***************************************************************************)
(* One tuning engine's worker thread, the retry loop it runs (_run), the   *)
(* Phase 0 it enters through, and the operator calls that race with it     *)
(* (start, stop, start_retune, start_remeasure_queue).                     *)
(*                                                                         *)
(* A step of the worker is one blocking call to the miner with the code    *)
(* that follows it up to the next blocking call; operator calls and the    *)
(* passage of time fall between any two of them.  An exception is raised   *)
(* by one step and handled by the next, because stop() may run in between. *)
(* The tuning itself (what happens once Phase 0 is done) is one stage,     *)
(* "main", which may raise anything; TuneResume describes it.              *)
(*                                                                         *)
(* A definition named X_Variant is a wrong version of X, kept to show that *)
(* a property of this module tells the two apart; no action uses it.       *)
(***************************************************************************)
EXTENDS Naturals

CONSTANTS
  MaxRetries,        \* MAX_CONSECUTIVE_RETRIES
  OfflineThreshold,  \* OFFLINE_FAILURE_THRESHOLD
  Phase0Threshold,   \* PHASE0_CIRCUIT_BREAKER_THRESHOLD
  MinerKinds         \* the conditions the miner may be in, see Conditions

Conditions == {"ok", "stuck", "storming", "gone"}

ASSUME RetryLoopAssumption ==
  /\ MaxRetries \in Nat \ {0}
  /\ OfflineThreshold \in Nat \ {0}
  /\ Phase0Threshold \in Nat \ {0}
  /\ MinerKinds \subseteq Conditions

VARIABLES
  \* engine attributes
  running,     \* self.running
  phase,       \* self.phase; the phases of the tuning proper are "tuning"
  detail,      \* which failure self.phase_detail reports with PHASE_ERROR
  preOffline,  \* self.pre_offline_phase
  p0Hits,      \* self._phase0_consecutive_offline_hits, saturating
  recovered,   \* self.last_exit_was_recovery
  goodAt,      \* age of self._iteration_confirmed_good_at
  topology,    \* self.voltage_topology: unread, verified or unverified bounds
  \* the worker thread and its locals
  worker,      \* target of the live thread: "none", "run", "retune", "tail", "remeasure"
  pc,          \* where it is
  fault,       \* the exception in flight while pc = "handle"
  retries,
  offlineHits,
  \* the miner
  miner,       \* its condition, which changes on its own
  vf,          \* "suspect" after a recovery, until a known V/F has been applied
  \* history
  failures     \* recoverable failures since the miner was last seen good

attrs  == <<running, phase, detail, preOffline, p0Hits, recovered, goodAt, topology>>
thread == <<worker, pc, fault, retries, offlineHits>>
vars   == <<attrs, thread, miner, vf, failures>>

Phases  == {"idle", "discovery", "tuning", "offline", "error", "stopped"}
Faults  == {"offline", "pending", "retryable", "unsafe", "fatal"}
Workers == {"none", "run", "retune", "tail", "remeasure"}
Places  == {"top", "reset", "contact", "disable", "await", "main", "retune",
            "remeasure", "handle", "nap", "poll", "dead"}

TypeOK ==
  /\ running \in BOOLEAN
  /\ phase \in Phases
  /\ detail \in {"none", "unsafe", "breaker", "budget", "fatal", "runner"}
  /\ preOffline \in Phases \cup {"none"}
  /\ p0Hits \in 0..Phase0Threshold
  /\ recovered \in BOOLEAN
  /\ goodAt \in {"never", "recent", "old"}
  /\ topology \in {"unread", "verified", "unverified"}
  /\ worker \in Workers
  /\ pc \in Places
  /\ fault \in Faults \cup {"none"}
  /\ retries \in 0..MaxRetries
  /\ offlineHits \in 0..OfflineThreshold
  /\ miner \in Conditions
  /\ vf \in {"trusted", "suspect", "inherited"}
  /\ failures \in 0..MaxRetries + 1
-----------------------------------------------------------------------------
(* What the miner lets a call do.  An "ok" miner may still fail any call   *)
(* once; a "stuck" one answers but never reaches Mining; a "storming" one  *)
(* answers the liveness probe and refuses the burst of Phase 0; a "gone"   *)
(* one answers nothing.                                                    *)
MayRaise(f) ==
  CASE miner = "ok"    -> f \in Faults \ {"unsafe"}
    [] miner = "stuck" -> f = "retryable"
    [] OTHER           -> f = "offline"

Reaches == miner \in {"ok", "stuck"}
Mines   == miner = "ok"

Answers_OnlyWhenMining == Mines

Answers == miner # "gone"

Incr(n, cap) == IF n < cap THEN n + 1 ELSE cap

Goto(p)  == pc' = p /\ UNCHANGED <<worker, fault, retries, offlineHits>>
Raise(f) == pc' = "handle" /\ fault' = f /\ UNCHANGED <<worker, retries, offlineHits>>
Exit     == /\ worker' = "none" /\ pc' = "dead" /\ fault' = "none"
            /\ retries' = 0 /\ offlineHits' = 0

(* The two places of _run_inner that stamp _iteration_confirmed_good_at.   *)
ConfirmGood == goodAt' = "recent" /\ failures' = 0
-----------------------------------------------------------------------------
(* Operator calls.  _control_lock makes each one atomic: a worker is only  *)
(* spawned while no thread is alive.                                       *)
NoWorker == worker = "none"

Spawn(w, p) ==
  /\ NoWorker
  /\ running' = TRUE
  /\ worker' = w /\ pc' = p /\ fault' = "none"
  /\ retries' = 0 /\ offlineHits' = 0 /\ failures' = 0
  /\ UNCHANGED <<phase, detail, preOffline, p0Hits, recovered, goodAt, topology, miner, vf>>

Start == Spawn("run", "top")

\* start_fine_then_retune also enters through Phase 0 and ends in the retune.
StartRetune == Spawn("retune", "contact")

StartRemeasure == Spawn("remeasure", "remeasure")

Stop ==
  /\ running' = FALSE
  /\ phase' = "stopped" /\ detail' = "none"
  /\ UNCHANGED <<preOffline, p0Hits, recovered, goodAt, topology, thread, miner, vf, failures>>

(* The tuner process is killed and started again: a new engine object,     *)
(* whose phase is "offline" if the checkpoint was saved while waiting for  *)
(* the miner.  Nothing else of this module's state is persisted.           *)
ProcessRestart ==
  /\ running' = FALSE
  /\ \E p \in {"idle", "offline"} :
       /\ phase' = p
       /\ preOffline' \in IF p = "idle" THEN {"none"} ELSE {"discovery", "tuning"}
  /\ detail' = "none" /\ p0Hits' = 0 /\ recovered' = FALSE
  /\ goodAt' = "never" /\ topology' = "unread"
  /\ Exit
  /\ failures' = 0
  /\ vf' = IF vf = "suspect" THEN "inherited" ELSE vf
  /\ UNCHANGED miner
-----------------------------------------------------------------------------
(* The environment.                                                        *)
MinerChanges ==
  /\ miner' \in MinerKinds \ {miner}
  /\ UNCHANGED <<attrs, thread, vf, failures>>

\* SUCCESSFUL_RUN_SEC have passed since the miner was confirmed good.
TimePasses ==
  /\ goodAt = "recent" /\ goodAt' = "old"
  /\ UNCHANGED <<running, phase, detail, preOffline, p0Hits, recovered, topology,
                 thread, miner, vf, failures>>
-----------------------------------------------------------------------------
(* _run: one turn of "while self.running".                                 *)
LoopTop ==
  /\ pc = "top"
  /\ IF running THEN Goto("reset") ELSE Exit
  /\ UNCHANGED <<attrs, miner, vf, failures>>

(* _run_inner, the post-recovery reset to BASELINE_VOLTAGE_MV /            *)
(* BASELINE_FREQ.  _phase1_set_voltage refuses to write a voltage before   *)
(* this process has read the PSU bounds.                                   *)
ResetDue == recovered /\ running

SkipReset ==
  /\ pc = "reset" /\ ~ResetDue
  /\ Goto("contact")
  /\ UNCHANGED <<attrs, miner, vf, failures>>

ResetRefused ==
  /\ pc = "reset" /\ ResetDue
  /\ topology # "verified"
  /\ Raise("unsafe")
  /\ UNCHANGED <<attrs, miner, vf, failures>>

ResetSafeVf ==
  /\ pc = "reset" /\ ResetDue
  /\ topology = "verified"
  /\ phase' = "tuning"
  /\ \/ /\ Mines
        /\ recovered' = FALSE /\ vf' = "trusted"
        /\ ConfirmGood
        /\ Goto("contact")
     \/ /\ \E f \in Faults : MayRaise(f) /\ Raise(f)
        /\ UNCHANGED <<recovered, vf, goodAt, failures>>
  /\ UNCHANGED <<running, detail, preOffline, p0Hits, topology, miner>>

(* Phase 0, first stretch: the summary, the stock baseline, the topology   *)
(* and the provenance gate, all before anything on the miner is changed.   *)
Contact ==
  /\ pc = "contact"
  /\ phase' = "discovery"
  /\ \/ /\ Reaches
        /\ \/ topology' = "verified" /\ Goto("disable")
           \/ topology' = "unverified" /\ Raise("unsafe")
     \/ /\ \E f \in Faults : MayRaise(f) /\ Raise(f)
        /\ UNCHANGED topology
  /\ UNCHANGED <<running, detail, preOffline, p0Hits, recovered, goodAt, miner, vf, failures>>

(* Phase 0, set_perpetualtune(False): the burst is survived.               *)
DisablePerpetualTune ==
  /\ pc = "disable"
  /\ \/ Reaches /\ p0Hits' = 0 /\ Goto("await")
     \/ (\E f \in Faults : MayRaise(f) /\ Raise(f)) /\ UNCHANGED p0Hits
  /\ UNCHANGED <<running, phase, detail, preOffline, recovered, goodAt, topology,
                 miner, vf, failures>>

(* Phase 0, the state refresh, start_mining and _wait_for_mining_state,    *)
(* which raises MinerNotReady on timeout and returns early when stopped.   *)
(* Control goes back to the caller: _run_inner stamps the time, retune     *)
(* goes on to its own phases.                                              *)
AwaitMining ==
  /\ pc = "await"
  /\ \/ ~running /\ Exit /\ UNCHANGED <<goodAt, failures>>
     \/ /\ running /\ Mines
        /\ IF worker = "retune"
           THEN Goto("retune") /\ UNCHANGED <<goodAt, failures>>
           ELSE Goto("main") /\ ConfirmGood
     \/ /\ running
        /\ \/ Raise("retryable")
           \/ \E f \in Faults : MayRaise(f) /\ Raise(f)
        /\ UNCHANGED <<goodAt, failures>>
  /\ UNCHANGED <<running, phase, detail, preOffline, p0Hits, recovered, topology, miner, vf>>

(* The tuning proper.  Every phase of it names itself before its first     *)
(* call to the miner.                                                      *)
Tune ==
  /\ pc = "main" /\ running
  /\ phase # "tuning" /\ phase' = "tuning"
  /\ UNCHANGED <<running, detail, preOffline, p0Hits, recovered, goodAt, topology,
                 thread, miner, vf, failures>>

TuneFails ==
  /\ pc = "main" /\ phase \in {"tuning", "stopped"}
  /\ \E f \in Faults : MayRaise(f) /\ Raise(f)
  /\ UNCHANGED <<attrs, miner, vf, failures>>

TuneStopped ==
  /\ pc = "main" /\ ~running
  /\ Exit
  /\ UNCHANGED <<attrs, miner, vf, failures>>
-----------------------------------------------------------------------------
(* The except clauses of _run.                                             *)
Handling(f) == worker = "run" /\ pc = "handle" /\ fault = f

GiveUp_Silently(why) == detail' = why /\ UNCHANGED phase /\ Exit

GiveUp(why) == phase' = "error" /\ detail' = why /\ Exit

HandleTerminal ==
  /\ \E f \in {"unsafe", "fatal"} : Handling(f) /\ GiveUp(f)
  /\ UNCHANGED <<running, preOffline, p0Hits, recovered, goodAt, topology, miner, vf, failures>>

Phase0Hits_WrongPhase ==
  IF phase = "tuning" THEN Incr(p0Hits, Phase0Threshold) ELSE p0Hits

Phase0Hits ==
  IF phase = "discovery" THEN Incr(p0Hits, Phase0Threshold) ELSE p0Hits

EnterOfflineMode ==
  /\ preOffline' = IF phase # "offline" THEN phase ELSE preOffline
  /\ phase' = "offline"

HandleOffline ==
  /\ Handling("offline")
  /\ p0Hits' = Phase0Hits
  /\ IF p0Hits' >= Phase0Threshold
     THEN GiveUp("breaker") /\ UNCHANGED preOffline
     ELSE /\ offlineHits' = offlineHits + 1
          /\ IF offlineHits' < OfflineThreshold
             THEN pc' = "nap" /\ UNCHANGED <<phase, preOffline>>
             ELSE pc' = "poll" /\ EnterOfflineMode
          /\ fault' = "none"
          /\ UNCHANGED <<worker, retries, detail>>
  /\ UNCHANGED <<running, recovered, goodAt, topology, miner, vf, failures>>

HandlePending ==
  /\ Handling("pending")
  /\ offlineHits' = 0 /\ pc' = "nap" /\ fault' = "none"
  /\ UNCHANGED <<attrs, worker, retries, miner, vf, failures>>

BudgetUsed_NoneIsOld == IF retries > 0 /\ goodAt # "recent" THEN 0 ELSE retries

\* The retry counter once the last recovery is taken to have succeeded.
BudgetUsed == IF retries > 0 /\ goodAt = "old" THEN 0 ELSE retries

OutOfBudget == BudgetUsed + 1 > MaxRetries

AttemptRecovery_NoFlag == vf' = "suspect" /\ UNCHANGED recovered

(* _attempt_miner_recovery restarts mining or reboots the miner, which is  *)
(* then at whatever V/F its firmware carries.                              *)
AttemptRecovery == recovered' = TRUE /\ vf' = "suspect"

HandleRetryable ==
  /\ Handling("retryable")
  /\ failures' = Incr(failures, MaxRetries + 1)
  /\ IF OutOfBudget
     THEN GiveUp("budget") /\ UNCHANGED <<recovered, vf>>
     ELSE /\ retries' = BudgetUsed + 1
          /\ AttemptRecovery
          /\ offlineHits' = 0 /\ pc' = "nap" /\ fault' = "none"
          /\ UNCHANGED <<worker, phase, detail>>
  /\ UNCHANGED <<running, preOffline, p0Hits, goodAt, topology, miner>>

(* The 10 s, 30 s and back-off sleeps, each cut short by a stop.           *)
Nap ==
  /\ pc = "nap"
  /\ Goto("top")
  /\ UNCHANGED <<attrs, miner, vf, failures>>

StopPolling_OnlyIfAnswered ==
  /\ pc = "poll" /\ ~running /\ Answers
  /\ offlineHits' = 0 /\ pc' = "top"
  /\ UNCHANGED <<attrs, worker, fault, retries, miner, vf, failures>>

(* _wait_for_miner_online: the sleep sees the stop, or a probe is answered *)
(* (running was checked before it was sent).                               *)
StopPolling ==
  /\ pc = "poll" /\ ~running
  /\ offlineHits' = 0 /\ pc' = "top"
  /\ UNCHANGED <<attrs, worker, fault, retries, miner, vf, failures>>

BackOnline ==
  /\ pc = "poll" /\ Answers
  /\ phase' = IF preOffline # "none" THEN preOffline ELSE phase
  /\ preOffline' = "none"
  /\ offlineHits' = 0 /\ pc' = "top"
  /\ UNCHANGED <<running, detail, p0Hits, recovered, goodAt, topology,
                 worker, fault, retries, miner, vf, failures>>
-----------------------------------------------------------------------------
(* The runners that are not the retry loop.                                *)

(* retune_voltage after its Phase 0: voltage, Phases 3, 3b and 4, all of   *)
(* which apply a V/F of their own.  Then _run_inner, with no retry loop    *)
(* around it: "tail".                                                      *)
RetuneDone ==
  /\ pc = "retune"
  /\ phase' = "tuning" /\ vf' = "trusted"
  /\ IF running
     THEN worker' = "tail" /\ pc' = "reset" /\ UNCHANGED <<fault, retries, offlineHits>>
     ELSE Exit
  /\ UNCHANGED <<running, detail, preOffline, p0Hits, recovered, goodAt, topology, miner, failures>>

RetuneFails ==
  /\ pc = "retune"
  /\ phase' = "tuning"
  /\ \E f \in Faults : (MayRaise(f) \/ (f = "fatal" /\ ~running)) /\ Raise(f)
  /\ UNCHANGED <<running, detail, preOffline, p0Hits, recovered, goodAt, topology,
                 miner, vf, failures>>

\* remeasure_runner over the whole queue; its finally clause clears running.
RemeasureEnds ==
  /\ pc = "remeasure"
  /\ \/ \* drained, or left at a stop
        /\ phase' = IF running THEN "stopped" ELSE phase
        /\ UNCHANGED detail
     \/ phase' = "error" /\ detail' = "runner"
  /\ running' = FALSE
  /\ Exit
  /\ vf' \in IF topology = "verified" THEN {vf, "trusted"} ELSE {vf}
  /\ UNCHANGED <<preOffline, p0Hits, recovered, goodAt, topology, miner, failures>>

(* Any exception ends retune_runner; one out of the _run_inner it ends in  *)
(* is only logged.                                                         *)
RunnerFails ==
  /\ worker \in {"retune", "tail"} /\ pc = "handle"
  /\ IF worker = "retune"
     THEN phase' = "error" /\ detail' = "runner"
     ELSE UNCHANGED <<phase, detail>>
  /\ Exit
  /\ UNCHANGED <<running, preOffline, p0Hits, recovered, goodAt, topology, miner, vf, failures>>
-----------------------------------------------------------------------------
(* compute_tuner_bucket; "busy" stands for tuning, maintaining and offline *)
Bucket ==
  CASE phase \in {"idle", "error"} -> phase
    [] phase = "stopped"           -> IF worker # "none" THEN "stopping" ELSE "stopped"
    [] OTHER                       -> IF worker = "none" THEN "stopped" ELSE "busy"
-----------------------------------------------------------------------------
Init ==
  /\ running = FALSE /\ phase = "idle" /\ detail = "none" /\ preOffline = "none"
  /\ p0Hits = 0 /\ recovered = FALSE /\ goodAt = "never" /\ topology = "unread"
  /\ worker = "none" /\ pc = "dead" /\ fault = "none" /\ retries = 0 /\ offlineHits = 0
  /\ miner \in MinerKinds /\ vf = "trusted" /\ failures = 0

Operator == Start \/ StartRetune \/ StartRemeasure \/ Stop \/ ProcessRestart

Worker ==
  \/ LoopTop \/ SkipReset \/ ResetRefused \/ ResetSafeVf
  \/ Contact \/ DisablePerpetualTune \/ AwaitMining
  \/ Tune \/ TuneFails \/ TuneStopped
  \/ HandleTerminal \/ HandleOffline \/ HandlePending \/ HandleRetryable
  \/ Nap \/ StopPolling \/ BackOnline
  \/ RetuneDone \/ RetuneFails \/ RemeasureEnds \/ RunnerFails

Next == Operator \/ Worker \/ MinerChanges \/ TimePasses

Spec == Init /\ [][Next]_vars

(* The worker thread is scheduled and every call it makes returns or times *)
(* out; the operator, the miner and the clock owe nothing.  TuneStopped    *)
(* and StopPolling are fair on their own: the running check comes back     *)
(* however often the worker or the operator touches the phase.             *)
FairSpec == Spec /\ WF_vars(Worker) /\ WF_vars(TuneStopped) /\ WF_vars(StopPolling)
-----------------------------------------------------------------------------
(* Properties.                                                             *)

(* An engine that has never seen its miner good gives up within the retry  *)
(* budget: it neither loops for ever nor spends a recovery more than       *)
(* MAX_CONSECUTIVE_RETRIES, however the failures are spread over offline   *)
(* spells, busy firmware and clock time.                                   *)
GivesUpWhenNeverGood ==
  worker = "run" /\ goodAt = "never" => failures <= MaxRetries

(* The same for every engine: the comment above the reset in _run_inner    *)
(* says a failure before the miner is confirmed good again counts toward   *)
(* FATAL.                                                                  *)
RetryBudgetRespected ==
  worker = "run" => failures <= MaxRetries

(* No tuning command reaches a miner that was restarted by a recovery and  *)
(* not yet brought back to a known V/F, through stops, starts, offline     *)
(* spells and failed resets.  (A process restart forgets the recovery.)    *)
SafeVfBeforeTuning ==
  pc = "main" => vf # "suspect"

(* A worker of _run that ended without being told to is shown as an error, *)
(* not as stopped: the bucket reads any phase of a dead worker but ERROR   *)
(* as a stop the operator asked for.                                       *)
DeathIsReported ==
  [][worker = "run" /\ worker' = "none" /\ running' => Bucket' = "error"]_vars

(* Stop ends the worker, wherever it is.                                   *)
StopEndsWorker ==
  (worker # "none" /\ ~running) ~> (worker = "none")

(* A miner that answers probes but dies in every Phase 0 cannot keep the   *)
(* engine cycling through offline mode: the breaker trips.                 *)
StormTripsBreaker ==
  []<>~(worker = "run" /\ running /\ miner = "storming" /\ ~recovered)

(* Offline mode is left once the miner answers.                            *)
OfflineModeEnds ==
  <>[](miner # "gone") => []<>(pc # "poll")
=============================================================================
