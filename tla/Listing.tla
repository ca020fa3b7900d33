------------------------------- MODULE Listing -------------------------------
(***************************************************************************)
(* Whether a miner's rig is offered for rent: the worker and the callers   *)
(* of the HTTP server publish it as enabled or disabled at MiningRig-      *)
(* Rentals.  A publication asks whether the rig is rented and then tells   *)
(* the new status; each of the two requests may fail, also because another *)
(* thread's request, signed later, has come in first (Nonce).  What the    *)
(* worker tunes, and what it applies, is in the other modules.             *)
(* A definition X_Variant is a wrong version of X that the properties are  *)
(* tested with; no run uses it.                                            *)
(***************************************************************************)
EXTENDS Integers, FiniteSets, Absent

CONSTANT Callers  \* the HTTP threads

Threads == {"worker"} \cup Callers
Intents == {"tuning", "maintaining", "stopped", "error"}

ASSUME ListingAssumption ==
  /\ None \notin {"killed", "destroyed", "safety stop", "runner", "skipped", "rented", "failed", "late",
                   "crossed"}
  /\ None \notin [intent : Intents, asked : BOOLEAN] /\ "worker" \notin Callers

VARIABLES
  \* the engine
  running, phase,
  stage,     \* where the worker is: "off" when there is no thread
  runner,    \* it was started as a retune, outside _run's retry loop
  announced, \* _mrr_phase6_announced
  polished,  \* _mrr_polish_announced
  hashrate,  \* sweep_hashrate_ths > 0
  publishing,\* each thread's mrr_sync: [intent, asked], or None
  \* the rig
  ready,     \* MRR is enabled, with a rig and credentials
  listed, rented,
  \* history
  latest,    \* who began to publish last
  excuse     \* why the rig may not be what the engine's state asks for, or None

engine  == <<running, phase, stage, runner>>
flags   == <<announced, polished>>
rig     == <<ready, listed, rented>>
history == <<latest, excuse>>
listing == <<engine, flags, hashrate, publishing, rig, history>>

ListingInit ==
  /\ running = FALSE /\ phase = "idle" /\ stage = "off" /\ runner = FALSE
  /\ announced = FALSE /\ polished = FALSE /\ hashrate \in BOOLEAN
  /\ publishing = [t \in Threads |-> None] /\ latest = "worker"
  /\ ready \in BOOLEAN /\ listed \in BOOLEAN /\ rented = FALSE
  /\ excuse = "killed"

ListingTypeOK ==
  /\ phase \in {"idle", "tuning", "perpetual", "stopped", "error", "offline"}
  /\ stage \in {"off", "entry", "reset", "phase0", "work", "polish", "enter", "entered", "hold",
                "retune", "dying"}
  /\ \A t \in Threads : publishing[t] = None \/ publishing[t].intent \in Intents
  /\ stage = "off" => publishing["worker"] = None
-----------------------------------------------------------------------------
(* mrr_sync                                                                *)

\* Without a rig or credentials it returns at once.
Publish(t, intent) ==
  /\ publishing[t] = None
  /\ latest' = t
  /\ publishing' = [publishing EXCEPT ![t] = IF ready THEN [intent |-> intent, asked |-> FALSE]
                                                      ELSE None]
  /\ excuse' = IF ready THEN excuse ELSE "skipped"

Ends(t, why) ==
  /\ publishing' = [publishing EXCEPT ![t] = None]
  /\ excuse' = why
  /\ UNCHANGED <<engine, flags, hashrate, rig, latest>>

\* A status is not announced without a hash rate.
NotRented(t) ==
  /\ publishing[t] # None /\ ~publishing[t].asked /\ ~rented
  /\ \/ publishing[t].intent = "maintaining" /\ ~hashrate /\ Ends(t, "skipped")
     \/ /\ publishing[t].intent = "maintaining" => hashrate
        /\ publishing' = [publishing EXCEPT ![t].asked = TRUE]
        /\ UNCHANGED <<engine, flags, hashrate, rig, history>>

Rented(t) ==
  /\ publishing[t] # None /\ ~publishing[t].asked /\ rented
  /\ Ends(t, "rented")

\* The tuner is never told; it has only its own record of the last answer.
RequestFails(t) ==
  /\ publishing[t] # None
  /\ Ends(t, "failed")

\* The status arrives, whether or not its answer does.
Told(t) ==
  /\ publishing[t] # None /\ publishing[t].asked
  /\ listed' = (publishing[t].intent = "maintaining")
  /\ publishing' = [publishing EXCEPT ![t] = None]
  /\ excuse' = IF listed' /\ (~running \/ stage = "off") THEN "late"
               ELSE IF t = latest THEN None
               ELSE IF publishing[latest] = None THEN "crossed" ELSE excuse
  /\ UNCHANGED <<engine, flags, hashrate, ready, rented, latest>>
-----------------------------------------------------------------------------
(* The worker, which waits for its own publications.                       *)

AtStage_NoWait(s) == stage = s

AtStage(s) == stage = s /\ publishing["worker"] = None
Goto(s)    == stage' = s

Clear == announced' = FALSE /\ polished' = FALSE

Silent == UNCHANGED <<publishing, history>>

Start ==
  /\ AtStage("off") /\ Goto("entry")
  /\ running' = TRUE /\ runner' = FALSE
  /\ UNCHANGED <<phase, flags, hashrate, rig>> /\ Silent

StartRetune ==
  /\ AtStage("off") /\ Goto("retune")
  /\ running' = TRUE /\ runner' = TRUE /\ Clear /\ Publish("worker", "tuning")
  /\ UNCHANGED <<phase, hashrate, rig>>

StartFineThenRetune ==
  /\ AtStage("off") /\ Goto("reset")
  /\ running' = TRUE /\ runner' = TRUE
  /\ UNCHANGED <<phase, flags, hashrate, rig>> /\ Silent

Retuned ==
  /\ AtStage("retune") /\ running /\ Goto("reset")
  /\ UNCHANGED <<running, phase, runner, flags, hashrate, rig>> /\ Silent

Enter ==
  /\ AtStage("entry") /\ running /\ Goto("reset")
  /\ UNCHANGED <<running, phase, runner, flags, hashrate, rig>> /\ Silent

\* A stop during the reset does not keep Phase 0 from starting.
BeginPhase0 ==
  /\ AtStage("reset") /\ Goto("phase0") /\ phase' = "tuning"
  /\ UNCHANGED <<running, runner, flags, hashrate, rig>> /\ Silent

Phase0 ==
  /\ AtStage("phase0") /\ Goto("work")
  /\ Clear /\ Publish("worker", "tuning")
  /\ UNCHANGED <<running, phase, runner, hashrate, rig>>

\* Measures and tunes; the tune of another cell clears the polish's mark.
Works ==
  /\ AtStage("work") /\ running /\ phase' = "tuning"
  /\ polished' \in {polished, FALSE}
  /\ UNCHANGED <<running, stage, runner, announced, hashrate, rig>> /\ Silent

PublishPolish ==
  /\ AtStage("work") /\ running /\ ~polished /\ Goto("polish") /\ phase' = "tuning"
  /\ Publish("worker", "maintaining")
  /\ UNCHANGED <<running, runner, flags, hashrate, rig>>

Polish ==
  /\ AtStage("polish") /\ Goto("work") /\ polished' = TRUE
  /\ UNCHANGED <<running, phase, runner, announced, hashrate, rig>> /\ Silent

\* A monitor without a profile waits; nothing below it looks at running again
\* before the rig is published.
EnterMonitor ==
  /\ AtStage("work") /\ running /\ phase' = "perpetual"
  /\ \/ Goto("work") /\ UNCHANGED hashrate
     \/ Goto("enter") /\ hashrate' \in BOOLEAN
  /\ UNCHANGED <<running, runner, flags, rig>> /\ Silent

PublishEntry ==
  /\ AtStage("enter") /\ Goto("entered") /\ Publish("worker", "maintaining")
  /\ UNCHANGED <<running, phase, runner, flags, hashrate, rig>>

\* Whatever became of the publication, and whatever stop() has just cleared.
Announce ==
  /\ AtStage("entered") /\ Goto("hold")
  /\ announced' = TRUE /\ phase' = "perpetual"
  /\ UNCHANGED <<running, runner, polished, hashrate, rig>> /\ Silent

\* re_rank_active_voltage, at the start of a cycle.
ReRank ==
  /\ AtStage("hold") /\ running
  /\ hashrate' \in BOOLEAN
  /\ \/ announced /\ Publish("worker", "maintaining")
     \/ ~announced /\ Silent
  /\ UNCHANGED <<engine, flags, rig>>

\* New work ends a tune that was complete, and is not published.
NewWork ==
  /\ AtStage("hold") /\ running /\ Goto("work") /\ phase' = "tuning" /\ Clear
  /\ UNCHANGED <<running, runner, hashrate, rig>> /\ Silent

Leave ==
  /\ ~running /\ \E s \in {"entry", "work", "hold", "retune"} : AtStage(s)
  /\ Goto("off")
  /\ UNCHANGED <<running, phase, runner, flags, hashrate, rig>> /\ Silent

Failing == \E s \in {"reset", "phase0", "work", "enter", "hold"} : AtStage(s)

Retry ==
  /\ Failing /\ ~runner /\ Goto("entry") /\ phase' \in {phase, "offline"}
  /\ UNCHANGED <<running, runner, flags, hashrate, rig>> /\ Silent

GiveUp_Unheard ==
  /\ Failing /\ ~runner /\ Goto("dying") /\ phase' = "error" /\ Clear /\ Silent
  /\ UNCHANGED <<running, runner, hashrate, rig>>

\* Out of retries, a storm in Phase 0, or anything unexpected.
GiveUp ==
  /\ Failing /\ ~runner /\ Goto("dying") /\ phase' = "error" /\ Clear
  /\ Publish("worker", "error")
  /\ UNCHANGED <<running, runner, hashrate, rig>>

Die ==
  /\ AtStage("dying") /\ Goto("off")
  /\ UNCHANGED <<running, phase, runner, flags, hashrate, rig>> /\ Silent

\* The voltage bounds have no provenance.
SafetyStop ==
  /\ Failing /\ ~runner /\ Goto("off") /\ phase' = "error" /\ Clear
  /\ excuse' = "safety stop"
  /\ UNCHANGED <<running, runner, hashrate, publishing, rig, latest>>

\* Before the retune is over, and after it has gone on to the main loop.
RunnerFails ==
  /\ runner /\ (Failing \/ AtStage("retune")) /\ Goto("off") /\ phase' \in {phase, "error"}
  /\ excuse' = "runner"
  /\ UNCHANGED <<running, runner, flags, hashrate, publishing, rig, latest>>

ListingWorker ==
  \/ Retuned \/ Enter \/ BeginPhase0 \/ Phase0 \/ Works \/ PublishPolish \/ Polish
  \/ EnterMonitor \/ PublishEntry \/ Announce \/ ReRank \/ NewWork \/ Leave
  \/ Retry \/ GiveUp \/ Die \/ SafetyStop \/ RunnerFails
-----------------------------------------------------------------------------
(* The callers.                                                            *)

Stop(c) ==
  /\ running' = FALSE /\ phase' = "stopped" /\ Clear
  /\ Publish(c, "stopped")
  /\ UNCHANGED <<stage, runner, hashrate, rig>>

Intent == IF phase = "perpetual" THEN "maintaining"
          ELSE IF phase \in {"stopped", "idle"} THEN "stopped"
          ELSE IF phase = "error" THEN "error" ELSE "tuning"

Resync(c) ==
  /\ Publish(c, Intent)
  /\ UNCHANGED <<engine, flags, hashrate, rig>>

SelectProfile(c) ==
  /\ announced /\ Publish(c, "maintaining") /\ hashrate' \in BOOLEAN
  /\ UNCHANGED <<engine, flags, rig>>

\* The engine is thrown away; its rig stays as it is.
DestroyEngine ==
  /\ running' = FALSE /\ phase' = "stopped" /\ Clear /\ excuse' = "destroyed"
  /\ UNCHANGED <<stage, runner, hashrate, publishing, rig, latest>>

\* A request on its way may still arrive.
ListingKill ==
  /\ listed' \in {listed} \cup {publishing[t].intent = "maintaining" :
                                  t \in {u \in Threads : publishing[u] # None}}
  /\ running' = FALSE /\ phase' \in {"idle", "offline"} /\ stage' = "off" /\ runner' = FALSE
  /\ Clear /\ hashrate' \in BOOLEAN
  /\ publishing' = [t \in Threads |-> None] /\ excuse' = "killed"
  /\ UNCHANGED <<ready, rented, latest>>

SetUp ==
  /\ ready' = ~ready
  /\ UNCHANGED <<engine, flags, hashrate, publishing, listed, rented, history>>

Rent ==
  /\ rented' \in BOOLEAN \ {rented} /\ (rented' => listed)
  /\ UNCHANGED <<engine, flags, hashrate, publishing, ready, listed, history>>

ListingNext ==
  \/ ListingWorker \/ Start \/ StartRetune \/ StartFineThenRetune
  \/ \E t \in Threads : NotRented(t) \/ Rented(t) \/ RequestFails(t) \/ Told(t)
  \/ \E c \in Callers : Stop(c) \/ Resync(c) \/ SelectProfile(c)
  \/ DestroyEngine \/ ListingKill \/ SetUp \/ Rent
-----------------------------------------------------------------------------
(* With no publication under way, the rig of an engine without a worker is *)
(* not offered, and that of an announced monitor is, unless the publication*)
(* that should have seen to it failed or was skipped, was overtaken by an  *)
(* older one or came in when there was no worker to speak for, or the      *)
(* engine ended without one: killed, destroyed, at a safety stop or in a   *)
(* retune.                                                                 *)
Truthful ==
  (\A t \in Threads : publishing[t] = None) /\ excuse = None =>
    /\ stage = "off" => ~listed
    /\ stage = "hold" /\ announced /\ running => listed
=============================================================================
