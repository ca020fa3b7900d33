------------------------------ MODULE Perpetual ------------------------------
(***************************************************************************)
(* The monitor of a settled tune (Phase 6): once per cycle the worker      *)
(* re-ranks the tuned profiles, on first entry applies the active one,     *)
(* chooses between its chip-tuned and uniform arrays, sleeps, and nudges   *)
(* the voltage towards the profile's hash rate.  An HTTP thread may select *)
(* another profile at any moment.                                          *)
(*                                                                         *)
(* A profile is named by its voltage.  Voltages are small integers.  A     *)
(* per-chip array is described by the profile it belongs to (None for the  *)
(* arrays of a measured cell or of the safe reset): the chip-tuned and the *)
(* uniform array of a profile are not told apart, nor is an array some     *)
(* chips of which a thermal throttle has lowered.                          *)
(* TuneResume has the tune that comes before, RetryLoop what happens       *)
(* between leaving the monitor and entering it again.                      *)
(***************************************************************************)
EXTENDS Integers

CONSTANTS
  Profiles,   \* the voltages in voltage_results
  PsuMin, PsuMax,
  Step,       \* PERPETUAL_VOLTAGE_STEP_MV
  MaxDelta,   \* PERPETUAL_VOLTAGE_MAX_DELTA_MV
  Close,      \* a rise this small is not written by _apply_stable_freqs (50 mV)
  Safe,       \* BASELINE_VOLTAGE_MV, to which a recovery resets
  Threshold,  \* PHASE6_OFFLINE_THRESHOLD
  Scenarios,  \* [faults, select]: what may happen to this engine, and where
              \* the worker may be when an operator selects a profile
  None

AllFaults == {"offline", "command", "notready", "recover", "measure", "kill"}

\* Where the worker is.
Places == {"stopped", "top", "switch", "announce", "fallback", "sleep", "wake", "set", "settle",
           "restart", "away", "broken"}

ASSUME PerpetualAssumption ==
  /\ PsuMin \in Nat /\ PsuMax \in Nat /\ PsuMin <= PsuMax
  /\ Profiles \subseteq PsuMin..PsuMax /\ Profiles # {}
  /\ Safe \in PsuMin..PsuMax
  /\ Step \in Nat \ {0} /\ MaxDelta \in Nat /\ Close \in Nat
  /\ Threshold \in Nat \ {0}
  /\ Scenarios \subseteq [faults : SUBSET AllFaults, select : SUBSET Places]
  /\ None \notin Profiles

VARIABLES
  \* engine attributes
  running,
  active,     \* active_sweep_voltage_mv
  sweep,      \* sweep_voltage_mv; sweep_freq_arrays are its chip-tuned arrays
  adj,        \* voltage_adjustment_mv
  minV,       \* min_voltage_mv, the voltage _apply_stable_freqs aims at
  stable,     \* stable_freq_arrays
  announced,  \* _mrr_phase6_announced
  hits,       \* _monitor_offline_hits
  \* the worker thread
  pc,
  aim,        \* target_mv and proposed inside _adjust_voltage
  \* the HTTP thread in select_voltage_profile
  op, opV,
  \* the profile file
  disk,
  \* the miner
  liveV, liveA, reach,
  \* the outside
  rested,     \* PERPETUAL_RESTART_MIN_HOURS have passed
  given,      \* the scenario of this behaviour
  \* history
  doubt       \* what may differ from the engine's belief since a failed, pending or crossed step

refs   == <<active, sweep, adj, minV, stable>>
http   == <<op, opV>>
live   == <<liveV, liveA>>
world  == <<reach, rested>>
vars   == <<running, refs, announced, hits, pc, aim, http, disk, live, world, doubt, given>>

Faults     == given.faults
SelectWhen == given.select

Deltas   == -MaxDelta..MaxDelta
Voltages == PsuMin..PsuMax
-----------------------------------------------------------------------------
SaveProfile == disk' = [active |-> active', adj |-> adj', stable |-> stable']

Doubt(what) == doubt' = doubt \cup what
Sure(what)  == doubt' = doubt \ what

\* A step that takes its aim from the references and carries it out settles what a
\* selection before it has left, unless one is still under way.
Alone(what) == Sure(what \cup (IF op = "idle" THEN {"operator"} ELSE {}))

Allowed_Any(v) == TRUE

\* require_voltage_mutation_allowed, on the bounds the connected PSU reported.
Allowed(v) == v \in Voltages

(* _apply_stable_freqs: towards more voltage the voltage goes first, and a *)
(* small rise is not written at all; towards less the frequencies do.      *)
Written(v) == IF v >= liveV /\ v - liveV <= Close THEN liveV ELSE v

Apply(v, a) == Allowed(v) /\ liveV' = Written(v) /\ liveA' = a

\* It may fail anywhere on the way.
PartlyApply(v, a) ==
  \/ UNCHANGED live
  \/ Allowed(v) /\ v >= liveV /\ liveV' = Written(v) /\ UNCHANGED liveA
  \/ Allowed(v) /\ v < liveV /\ liveA' = a /\ UNCHANGED liveV
  \/ Apply(v, a)

\* The references select_voltage_profile sets before it touches the miner.
Refer(p) == active' = p /\ sweep' = p /\ adj' = 0 /\ minV' = p /\ stable' = p

AtMost(n, bound) == IF n > bound THEN bound ELSE n

Offline_Forgets ==
  /\ hits' = 0
  /\ pc' = IF hits + 1 >= Threshold THEN "away" ELSE "top"

(* do_monitor_cycle: an offline error is absorbed until it is the last     *)
(* straw.  Counting past the threshold makes no difference.                *)
Offline ==
  /\ hits' = AtMost(hits + 1, Threshold)
  /\ pc' = IF hits + 1 >= Threshold THEN "away" ELSE "top"

\* The cycle went through.
Clean == pc' = "top" /\ hits' = 0
\* It returned before the counter is reset.
EarlyReturn == pc' = "top" /\ UNCHANGED hits
Goto(p) == pc' = p /\ UNCHANGED hits
-----------------------------------------------------------------------------
(* Operator, process and network.                                          *)
Stop ==
  /\ running /\ running' = FALSE /\ announced' = FALSE
  /\ UNCHANGED <<refs, hits, pc, aim, http, disk, live, world, doubt>>

\* Phase 0 of the new worker.
Start ==
  /\ pc = "stopped" /\ reach
  /\ running' = TRUE /\ announced' = FALSE /\ minV' = Safe /\ Goto("top")
  /\ UNCHANGED <<active, sweep, adj, stable, aim, http, disk, live, world, doubt>>

Kill ==
  /\ "kill" \in Faults
  /\ running' = FALSE /\ announced' = FALSE /\ hits' = 0 /\ pc' = "stopped"
  /\ active' = disk.active /\ sweep' = disk.active /\ adj' = disk.adj
  /\ stable' = disk.stable
  /\ op' = "idle" /\ opV' = Safe /\ aim' = None /\ Sure({"file"})
  /\ UNCHANGED <<minV, disk, live, world>>

Network ==
  /\ "offline" \in Faults /\ reach' = ~reach
  /\ UNCHANGED <<running, refs, announced, hits, pc, aim, http, disk, live, rested, doubt>>

HoursPass ==
  /\ ~rested /\ rested' = TRUE
  /\ UNCHANGED <<running, refs, announced, hits, pc, aim, http, disk, live, reach, doubt>>
-----------------------------------------------------------------------------
(* select_voltage_profile on an HTTP thread.                               *)
OpBegins ==
  /\ pc \in SelectWhen /\ op = "idle" /\ op' = "read"
  /\ \E p \in Profiles : Refer(p)
  /\ Doubt({"operator", "crossed", "file"})
  /\ UNCHANGED <<running, announced, hits, pc, aim, opV, disk, live, world>>

OpReads ==
  /\ op = "read" /\ op' = "apply" /\ opV' = minV
  /\ UNCHANGED <<running, refs, announced, hits, pc, aim, disk, live, world, doubt>>

OpApplies ==
  /\ op = "apply" /\ op' = "idle" /\ opV' = Safe /\ UNCHANGED refs
  /\ \/ reach /\ Apply(opV, stable) /\ SaveProfile /\ Sure({"file"})
     \/ (~reach \/ "command" \in Faults) /\ PartlyApply(opV, stable)
        /\ UNCHANGED <<disk, doubt>>
     \/ reach /\ ~Allowed(opV) /\ UNCHANGED <<live, disk, doubt>>
  /\ UNCHANGED <<running, announced, hits, pc, aim, world>>
-----------------------------------------------------------------------------
(* The main loop finds a cell to measure or to tune: it leaves the arrays  *)
(* of that cell in the engine and on the miner, and announces again.       *)
Measure ==
  /\ "measure" \in Faults /\ pc = "top" /\ running /\ reach
  /\ stable' = None /\ liveA' = None
  /\ liveV' \in Profiles /\ minV' = liveV'
  /\ announced' = FALSE
  /\ UNCHANGED <<active, sweep, adj>> /\ SaveProfile /\ Sure({"file"})
  /\ UNCHANGED <<running, hits, pc, aim, http, world>>

LoopExits ==
  /\ pc = "top" /\ ~running /\ Goto("stopped")
  /\ UNCHANGED <<running, refs, announced, aim, http, disk, live, world, doubt>>

(* re_rank_active_voltage: by the scores of the moment any profile may win. *)
ReRank ==
  /\ pc = "top" /\ running
  /\ \/ \E winner \in Profiles \ {active} : Refer(winner) /\ Goto("switch")
     \/ UNCHANGED refs /\ Goto("announce")
  /\ UNCHANGED <<running, announced, aim, http, disk, live, world, doubt>>

\* Whatever goes wrong is logged as non-fatal.
Switch ==
  /\ pc = "switch" /\ Goto("announce") /\ UNCHANGED refs
  /\ \/ reach /\ Apply(minV, stable) /\ SaveProfile /\ Alone({"voltage", "file"})
     \/ (~reach \/ "command" \in Faults) /\ PartlyApply(minV, stable) /\ UNCHANGED disk
        /\ Doubt({"voltage", "file"})
  /\ UNCHANGED <<running, announced, aim, http, world>>
-----------------------------------------------------------------------------
(* do_monitor_cycle_body: the first entry.  A refused command, a voltage   *)
(* outside the verified range among them, is logged and passed over.       *)
Announce ==
  /\ pc = "announce"
  /\ \/ announced /\ UNCHANGED <<sweep, minV, announced, doubt, live>> /\ Goto("fallback")
     \/ /\ ~announced /\ sweep' = active /\ minV' = active + adj
        /\ \/ reach /\ Apply(minV', stable)
              /\ announced' = TRUE /\ Alone({"voltage"}) /\ Goto("fallback")
           \/ "command" \in Faults /\ PartlyApply(minV', stable)
              /\ announced' = TRUE /\ Doubt({"voltage"}) /\ Goto("fallback")
           \/ reach /\ ~Allowed(minV') /\ UNCHANGED live
              /\ announced' = TRUE /\ Doubt({"voltage"}) /\ Goto("fallback")
           \/ ~reach /\ PartlyApply(minV', stable)
              /\ UNCHANGED <<announced, doubt>> /\ Offline
  /\ UNCHANGED <<running, active, adj, stable, aim, http, disk, world>>

(* evaluate_chip_tune_fallback: the scores prefer one of the two arrays.   *)
(* A voltage outside the verified range is a safety stop here.             *)
Keep ==
  /\ pc = "fallback" /\ Goto("sleep")
  /\ UNCHANGED <<running, refs, announced, aim, http, disk, live, world, doubt>>

Flip ==
  /\ pc = "fallback"
  /\ stable' = active
  /\ UNCHANGED <<active, sweep, adj, minV>>
  /\ \/ reach /\ Apply(minV, stable') /\ SaveProfile /\ Goto("sleep")
           /\ Sure({"file"}) /\ UNCHANGED announced
     \/ reach /\ ~Allowed(minV) /\ UNCHANGED <<live, disk, doubt>> /\ Goto("stopped")
           /\ announced' = FALSE
     \/ "recover" \in Faults /\ PartlyApply(minV, stable')
           /\ UNCHANGED <<disk, announced, doubt>> /\ Goto("broken")
     \/ ~reach /\ PartlyApply(minV, stable') /\ UNCHANGED <<disk, announced, doubt>> /\ Offline
  /\ UNCHANGED <<running, aim, http, world>>
-----------------------------------------------------------------------------
Sleep ==
  /\ pc = "sleep" /\ reach
  /\ IF running THEN Goto("wake") ELSE EarlyReturn
  /\ UNCHANGED <<running, refs, announced, aim, http, disk, live, world, doubt>>

SleepOffline ==
  /\ pc = "sleep" /\ ~reach /\ Offline
  /\ UNCHANGED <<running, refs, announced, aim, http, disk, live, world, doubt>>

\* The miner is not hashing and does not come back in time.
NotReady ==
  /\ pc = "wake" /\ ("notready" \in Faults \/ ~reach) /\ EarlyReturn
  /\ UNCHANGED <<running, refs, announced, aim, http, disk, live, world, doubt>>

SampleOffline ==
  /\ pc = "wake" /\ ~reach /\ Offline
  /\ UNCHANGED <<running, refs, announced, aim, http, disk, live, world, doubt>>

\* Within the deadband, or at a cap; a thermal throttle saves the profile all the same.
NoNudge ==
  /\ pc = "wake" /\ reach /\ Clean
  /\ UNCHANGED <<running, refs, announced, aim, http, live, world>>
  /\ \/ SaveProfile /\ Sure({"file"})
     \/ UNCHANGED <<disk, doubt>>

\* Saturated upwards and long enough since the last one.
NeedRestart ==
  /\ pc = "wake" /\ reach /\ adj + Step > MaxDelta /\ rested /\ Goto("restart")
  /\ UNCHANGED <<running, refs, announced, aim, http, disk, live, world, doubt>>

Clamped(v) == IF v < PsuMin THEN PsuMin ELSE IF v > PsuMax THEN PsuMax ELSE v

Proposed_Unclamped(d) == adj + d

\* The adjustment a nudge proposes; beyond the lower cap it is the cap.
Proposed(d) == IF adj + d < -MaxDelta THEN -MaxDelta ELSE adj + d

Nudge ==
  /\ pc = "wake" /\ reach
  /\ \E d \in {Step, -Step} :
       /\ adj + d <= MaxDelta
       /\ adj + d < -MaxDelta => adj > -MaxDelta
       /\ LET v == Clamped(sweep + Proposed(d)) IN aim' = [v |-> v, adj |-> v - sweep]
  /\ Goto("set") /\ Sure(IF op = "idle" THEN {"crossed"} ELSE {})
  /\ UNCHANGED <<running, refs, announced, http, disk, live, world>>

SetVoltage ==
  /\ pc = "set"
  /\ \/ /\ reach /\ Allowed(aim.v) /\ liveV' = aim.v /\ minV' = aim.v
        /\ UNCHANGED <<aim, doubt>> /\ Goto("settle")
     \/ "command" \in Faults /\ UNCHANGED <<liveV, minV, doubt>> /\ aim' = None /\ Clean
     \/ ~reach /\ liveV' \in {liveV, aim.v} /\ UNCHANGED minV /\ aim' = None /\ Offline
        /\ Doubt({"voltage"})
  /\ UNCHANGED <<running, active, sweep, adj, stable, announced, http, disk, liveA,
                 world>>

Settle_Unsaved ==
  /\ pc = "settle" /\ aim' = None
  /\ UNCHANGED <<active, sweep, minV, stable>>
  /\ \/ reach /\ adj' = aim.adj /\ UNCHANGED disk /\ Clean
        /\ Sure({"voltage", "file"})
     \/ ~reach /\ UNCHANGED <<adj, disk>> /\ Offline /\ Doubt({"voltage"})
  /\ UNCHANGED <<running, announced, http, live, world>>

\* The adjustment is taken over only when the voltage has settled.
Settle ==
  /\ pc = "settle" /\ aim' = None
  /\ UNCHANGED <<active, sweep, minV, stable>>
  /\ \/ reach /\ adj' = aim.adj /\ SaveProfile /\ Clean
        /\ Sure({"voltage", "file"} \cup (IF "crossed" \in doubt THEN {} ELSE {"operator"}))
     \/ "command" \in Faults /\ UNCHANGED <<adj, disk>> /\ Clean /\ Doubt({"voltage"})
     \/ ~reach /\ UNCHANGED <<adj, disk>> /\ Offline /\ Doubt({"voltage"})
  /\ UNCHANGED <<running, announced, http, live, world>>

PerpetualRestart_KeepsAdjustment ==
  /\ pc = "restart"
  /\ minV' = sweep /\ stable' = sweep
  /\ UNCHANGED <<active, sweep>>
  /\ \/ reach /\ Apply(minV', stable') /\ UNCHANGED adj /\ rested' = FALSE /\ SaveProfile
        /\ Clean /\ Sure({"voltage", "file"})
     \/ ~reach /\ PartlyApply(minV', stable')
        /\ UNCHANGED <<adj, rested, disk>> /\ Offline /\ Doubt({"voltage"})
  /\ UNCHANGED <<running, announced, aim, http, reach>>

(* do_perpetual_restart *)
PerpetualRestart ==
  /\ pc = "restart"
  /\ minV' = sweep /\ stable' = sweep
  /\ UNCHANGED <<active, sweep>>
  /\ \/ reach /\ Apply(minV', stable') /\ adj' = 0 /\ rested' = FALSE /\ SaveProfile
        /\ Clean /\ Alone({"voltage", "file"})
     \/ "command" \in Faults /\ PartlyApply(minV', stable')
        /\ UNCHANGED <<adj, rested, disk>> /\ Clean /\ Doubt({"voltage"})
     \/ ~reach /\ PartlyApply(minV', stable')
        /\ UNCHANGED <<adj, rested, disk>> /\ Offline /\ Doubt({"voltage"})
  /\ UNCHANGED <<running, announced, aim, http, reach>>
-----------------------------------------------------------------------------
(* Back in the main loop after an outage: Phase 0 announces again and aims *)
(* at its own starting voltage.                                            *)
Return ==
  /\ pc = "away"
  /\ \/ ~running /\ Goto("stopped") /\ UNCHANGED <<announced, minV>>
     \/ running /\ reach /\ announced' = FALSE /\ minV' = Safe
        /\ Goto("top")
  /\ UNCHANGED <<running, active, sweep, adj, stable, aim, http, disk, live, world, doubt>>

\* A recovery, the safe reset, Phase 0.
Recover ==
  /\ pc = "broken"
  /\ \/ ~running /\ Goto("stopped") /\ UNCHANGED <<announced, minV, live>>
     \/ /\ running /\ reach /\ announced' = FALSE
        /\ minV' = Safe /\ liveV' = Safe /\ liveA' = None
        /\ Goto("top")
  /\ UNCHANGED <<running, active, sweep, adj, stable, aim, http, disk, world, doubt>>
-----------------------------------------------------------------------------
(* A tune has just settled: the best profile is active, the arrays of the  *)
(* last tuned one are still in the engine and on the miner.                *)
Init ==
  /\ running = TRUE
  /\ active \in Profiles /\ sweep = active /\ adj = 0
  /\ \E last \in Profiles : stable = last /\ liveV = last /\ minV = last
  /\ liveA = stable
  /\ announced = FALSE /\ hits = 0
  /\ pc = "top" /\ aim = None /\ op = "idle" /\ opV = Safe
  /\ disk = [active |-> active, adj |-> 0, stable |-> stable]
  /\ reach = TRUE /\ rested = TRUE /\ doubt = {} /\ given \in Scenarios

Worker ==
  \/ LoopExits \/ ReRank \/ Switch \/ Announce \/ Keep \/ Flip
  \/ Sleep \/ SleepOffline \/ NotReady \/ SampleOffline \/ NoNudge \/ NeedRestart \/ Nudge
  \/ SetVoltage \/ Settle \/ PerpetualRestart \/ Return \/ Recover

Outside == Stop \/ Start \/ Kill \/ Network \/ HoursPass \/ Measure
           \/ OpBegins \/ OpReads \/ OpApplies

Next == (Worker \/ Outside) /\ UNCHANGED given

Spec == Init /\ [][Next]_vars

(* The worker is scheduled and its calls return or time out.               *)
FairSpec == Spec /\ WF_vars(Worker /\ UNCHANGED given)
-----------------------------------------------------------------------------
(* Whatever the worker and an HTTP thread do to each other's references,   *)
(* the PSU is never told a voltage outside its verified range.             *)
VoltageInPsuRange == liveV \in Voltages

(* Over any number of nudges, cap hits, clamps and restarts the adjustment *)
(* stays within its cap.                                                   *)
AdjustmentCapped == adj \in Deltas /\ disk.adj \in Deltas

(* Once the latest first entry, switch, nudge or restart went through with *)
(* no selection under way, a monitored miner runs at the active profile's  *)
(* voltage plus the adjustment the engine believes in, up to a rise too    *)
(* small to be written, whatever failed and was swallowed before and       *)
(* whatever selections and nudges had crossed: the next step of the worker *)
(* alone makes up for them.                                                *)
Near(v, target) == v - target \in -Close..Close
Maintained ==
  announced /\ pc = "sleep" /\ doubt \cap {"operator", "voltage"} = {}
    => Near(liveV, sweep + adj)

(* A killed process comes back to the profile and the adjustment it had:   *)
(* at every rest of the monitor they are on disk, but for a switch or a    *)
(* selection whose application failed or is not over, until the next save. *)
AdjustmentIsSaved ==
  announced /\ pc = "sleep" /\ "file" \notin doubt => disk.active = active /\ disk.adj = adj

(* A miner that goes away while it is monitored is not monitored for ever: *)
(* again and again it answers, is stopped, or the worker has left.         *)
OutageLeavesMonitor == []<>(reach \/ ~running \/ pc \in {"away", "broken", "stopped"})
-----------------------------------------------------------------------------
(* What the code says of itself and does not keep.                         *)

(* "First entry into monitor [...]: refresh sweep reference, apply active  *)
(* profile": what was applied are the active profile's arrays.             *)
FirstEntryAppliesActive == pc = "fallback" /\ doubt = {} => liveA = active
=============================================================================
