--------------------------- MODULE PerpetualProofs ---------------------------
(***************************************************************************)
(* Theorems about Perpetual, for any profiles, any range of the PSU, any   *)
(* step and cap, every fault and selections at any place: what the monitor *)
(* tells the PSU, what it believes and what it saves.                      *)
(***************************************************************************)
EXTENDS Perpetual, TLAPS

(* The engine's references are profiles and its adjustments are capped, in *)
(* memory, on disk and in the nudge under way.                             *)
RefsOK ==
  /\ active \in Profiles /\ sweep \in Profiles /\ adj \in Deltas
  /\ minV \in Int /\ opV \in Int
  /\ disk.active \in Profiles /\ disk.adj \in Deltas

AimOK == pc \in {"set", "settle"} => aim.v \in Voltages /\ aim.adj \in Deltas

(* No selection has been under way since the worker last carried out a     *)
(* step alone, or since it began its last nudge.                           *)
Quiet     == "operator" \notin doubt
Uncrossed == "crossed" \notin doubt
NoOther ==
  /\ Quiet \/ Uncrossed => op = "idle"
  /\ Quiet /\ pc \in {"set", "settle"} => Uncrossed

(* A nudge that nothing crosses is relative to the profile it began with,  *)
(* and it has changed the voltage when it settles; a profile that won the  *)
(* ranking or was selected since comes without an adjustment.              *)
Underway ==
  /\ Uncrossed => /\ pc \in {"set", "settle"} => aim.v = sweep + aim.adj
                  /\ pc = "settle" => minV = aim.v /\ liveV = aim.v
  /\ pc = "switch" => minV = sweep /\ adj = 0

(* Everywhere else the engine aims at what it believes in, and the miner   *)
(* runs there.                                                             *)
Held ==
  /\ Quiet /\ "voltage" \notin doubt /\ announced
  /\ pc \in {"top", "announce", "fallback", "sleep", "wake", "restart", "set"}
  => minV = sweep + adj /\ Near(liveV, sweep + adj)

(* The file agrees with the engine but for a switch not yet carried out.   *)
Saved ==
  "file" \notin doubt /\ pc # "switch" => disk.active = active /\ disk.adj = adj

IInv ==
  RefsOK /\ VoltageInPsuRange /\ AimOK /\ NoOther /\ Underway /\ Held /\ Saved
-----------------------------------------------------------------------------
(* Voltages are integers, profiles are within the PSU's range.             *)
LEMMA Ranges ==
  /\ PsuMin \in Int /\ PsuMax \in Int /\ PsuMin <= PsuMax /\ Voltages \subseteq Int
  /\ Profiles \subseteq Voltages /\ Safe \in Voltages
  /\ Step \in Int /\ MaxDelta \in Int /\ MaxDelta >= 0 /\ Deltas \subseteq Int /\ 0 \in Deltas
  /\ Close \in Int /\ Close >= 0
BY PerpetualAssumption DEF Voltages, Deltas

(* An application writes nothing but an allowed voltage, or the one there. *)
LEMMA AppliedInRange ==
  ASSUME VoltageInPsuRange, NEW v, NEW a, Apply(v, a) \/ PartlyApply(v, a)
  PROVE  liveV' \in Voltages
BY DEF VoltageInPsuRange, Apply, PartlyApply, Written, Allowed, live

(* One that goes through leaves the voltage close to what it should be,    *)
(* and one that does not leaves it there if it was.                        *)
LEMMA AppliedNear ==
  ASSUME liveV \in Int, NEW v \in Int, NEW a,
         Apply(v, a) \/ (PartlyApply(v, a) /\ Near(liveV, v))
  PROVE  Near(liveV', v)
BY Ranges DEF Apply, PartlyApply, Written, Near, live

(* Clamping never takes a proposal further from the profile.               *)
LEMMA Nudged ==
  ASSUME sweep \in Profiles, NEW d \in Deltas
  PROVE  /\ Clamped(sweep + d) \in Voltages
         /\ Clamped(sweep + d) - sweep \in Deltas
<1>1. sweep \in Int /\ PsuMin <= sweep /\ sweep <= PsuMax
  BY Ranges DEF Voltages
<1>2. d \in Int /\ -MaxDelta <= d /\ d <= MaxDelta
  BY Ranges DEF Deltas
<1> QED
  BY <1>1, <1>2, Ranges DEF Clamped, Voltages, Deltas

LEMMA SavedRefs ==
  ASSUME SaveProfile PROVE disk'.active = active' /\ disk'.adj = adj'
BY DEF SaveProfile

LEMMA Initial == Init => IInv
<1> SUFFICES ASSUME Init PROVE IInv
  OBVIOUS
<1>1. RefsOK
  BY Ranges DEF Init, RefsOK
<1>2. VoltageInPsuRange
  BY Ranges DEF Init, VoltageInPsuRange
<1>3. AimOK /\ NoOther /\ Underway /\ Held
  BY DEF Init, AimOK, NoOther, Underway, Held
<1>4. Saved
  BY DEF Init, Saved
<1> QED
  BY <1>1, <1>2, <1>3, <1>4 DEF IInv
-----------------------------------------------------------------------------
LEMMA RefsStep == IInv /\ [Next]_vars => RefsOK'
<1> SUFFICES ASSUME IInv, [Next]_vars PROVE RefsOK'
  OBVIOUS
<1> USE Ranges DEF IInv, RefsOK
<1>1. CASE UNCHANGED <<refs, opV, disk>>
  BY <1>1 DEF refs
<1>2. CASE Kill
  BY <1>2 DEF Kill
<1>3. CASE OpBegins \/ ReRank
  BY <1>3 DEF OpBegins, ReRank, Refer, refs, http
<1>4. CASE OpReads \/ Start \/ Return \/ Recover \/ SetVoltage
  <2>1. SetVoltage => minV' \in Int
    BY DEF SetVoltage, AimOK
  <2> QED
    BY <1>4, <2>1 DEF OpReads, Start, Return, Recover, SetVoltage, refs, http
<1>5. CASE OpApplies \/ Measure \/ Switch \/ NoNudge \/ Flip \/ Announce
  <2>1. UNCHANGED disk \/ SaveProfile
    BY <1>5 DEF OpApplies, Measure, Switch, NoNudge, Flip, Announce
  <2>2. active' \in Profiles /\ sweep' \in Profiles /\ adj' \in Deltas
        /\ minV' \in Int /\ opV' \in Int
    <3>1. Announce => minV' \in Int
      BY DEF Announce
    <3>2. Measure => minV' \in Int
      BY DEF Measure
    <3> QED
      BY <1>5, <3>1, <3>2 DEF OpApplies, Measure, Switch, NoNudge, Flip, Announce, refs, http
  <2> QED
    BY <2>1, <2>2, SavedRefs
<1>6. CASE Settle \/ PerpetualRestart
  <2>1. UNCHANGED disk \/ SaveProfile
    BY <1>6 DEF Settle, PerpetualRestart
  <2>2. active' \in Profiles /\ sweep' \in Profiles /\ adj' \in Deltas
        /\ minV' \in Int /\ opV' \in Int
    BY <1>6 DEF Settle, PerpetualRestart, AimOK, http
  <2> QED
    BY <2>1, <2>2, SavedRefs
<1> QED
  BY <1>1, <1>2, <1>3, <1>4, <1>5, <1>6
  DEF Next, Worker, Outside, vars, http, Stop, Network, HoursPass, LoopExits, Keep, Sleep,
      SleepOffline, NotReady, SampleOffline, NeedRestart, Nudge

(* Every write of a voltage is gated or clamped.                           *)
LEMMA RangeStep == IInv /\ [Next]_vars => VoltageInPsuRange'
<1> SUFFICES ASSUME IInv, [Next]_vars PROVE liveV' \in Voltages
  BY DEF VoltageInPsuRange
<1>1. CASE UNCHANGED liveV
  BY <1>1 DEF IInv, VoltageInPsuRange
<1>2. CASE \E v, a : Apply(v, a) \/ PartlyApply(v, a)
  BY <1>2, AppliedInRange DEF IInv
<1>3. CASE SetVoltage
  BY <1>3, <1>1 DEF SetVoltage, IInv, AimOK
<1>4. CASE Measure \/ Recover
  BY <1>4, <1>1, Ranges DEF Measure, Recover, live
<1>5. CASE OpApplies \/ Switch
  BY <1>5, <1>1, <1>2 DEF OpApplies, Switch, live
<1>6. CASE Announce \/ Flip \/ PerpetualRestart
  BY <1>6, <1>1, <1>2 DEF Announce, Flip, PerpetualRestart, live
<1> QED
  BY <1>1, <1>3, <1>4, <1>5, <1>6
  DEF Next, Worker, Outside, vars, live, Stop, Start, Kill, Network, HoursPass, OpBegins,
      OpReads, LoopExits, ReRank, Keep, Sleep, SleepOffline, NotReady, SampleOffline, NoNudge,
      NeedRestart, Nudge, Settle, Return
-----------------------------------------------------------------------------
(* A nudge proposes a capped adjustment.                                   *)
LEMMA NudgeAims ==
  ASSUME IInv, Nudge
  PROVE  aim'.v \in Voltages /\ aim'.adj \in Deltas /\ aim'.v = sweep + aim'.adj
<1>1. PICK d \in {Step, -Step} :
        /\ adj + d <= MaxDelta
        /\ LET v == Clamped(sweep + Proposed(d)) IN aim' = [v |-> v, adj |-> v - sweep]
  BY DEF Nudge
<1>2. Proposed(d) \in Deltas
  BY <1>1, Ranges DEF Proposed, IInv, RefsOK, Deltas
<1>3. sweep \in Profiles /\ sweep \in Int
  BY Ranges DEF IInv, RefsOK
<1>4. /\ Clamped(sweep + Proposed(d)) \in Voltages
      /\ Clamped(sweep + Proposed(d)) - sweep \in Deltas
  BY <1>2, <1>3, Nudged
<1>5. Clamped(sweep + Proposed(d)) \in Int
  BY <1>4, Ranges
<1> QED
  BY <1>1, <1>3, <1>4, <1>5

LEMMA AimStep == IInv /\ [Next]_vars => AimOK'
<1> SUFFICES ASSUME IInv, [Next]_vars, pc' \in {"set", "settle"}
             PROVE aim'.v \in Voltages /\ aim'.adj \in Deltas
  BY DEF AimOK
<1>1. CASE Nudge
  BY <1>1, NudgeAims
<1>2. CASE pc \in {"set", "settle"} /\ UNCHANGED aim
  BY <1>2 DEF IInv, AimOK
<1> QED
  BY <1>1, <1>2
  DEF Next, Worker, Outside, vars, Goto, Clean, EarlyReturn, Offline, Stop, Start, Kill,
      Network, HoursPass, Measure, OpBegins, OpReads, OpApplies, LoopExits, ReRank,
      Switch, Announce, Keep, Flip, Sleep, SleepOffline, NotReady, SampleOffline, NoNudge,
      NeedRestart, SetVoltage, Settle, PerpetualRestart, Return, Recover

(* The steps that no selection, nudge or application is part of.           *)
OtherSteps ==
  \/ Stop \/ Start \/ Network \/ HoursPass \/ Measure \/ LoopExits \/ ReRank \/ Keep \/ Flip \/ Sleep
  \/ SleepOffline \/ NotReady \/ SampleOffline \/ NoNudge \/ NeedRestart \/ SetVoltage \/ Return
  \/ Recover \/ UNCHANGED vars

(* They leave open what was open about selections.                         *)
LEMMA Unsettling ==
  ASSUME OtherSteps
  PROVE  UNCHANGED op /\ (Quiet' => Quiet) /\ (Uncrossed' => Uncrossed)
BY DEF OtherSteps, Quiet, Uncrossed, Doubt, Sure, Stop, Start, Network, HoursPass, Measure,
       LoopExits, ReRank, Keep, Flip, Sleep, SleepOffline, NotReady, SampleOffline, NoNudge,
       NeedRestart, SetVoltage, Return, Recover, vars, http

(* Only a step that the worker carries out alone makes up for a selection, *)
(* and only a nudge that begins alone is uncrossed.                        *)
LEMMA Remembered ==
  ASSUME [Next]_vars
  PROVE  /\ ~OpBegins /\ Quiet' /\ ~Quiet =>
              \/ op = "idle" /\ (Switch \/ Announce \/ PerpetualRestart)
              \/ Uncrossed /\ Settle
         /\ ~OpBegins /\ Uncrossed' /\ ~Uncrossed => op = "idle" /\ Nudge
         /\ OpBegins => ~Quiet' /\ ~Uncrossed'
         /\ OpReads \/ OpApplies => op # "idle"
         /\ OpReads \/ OpApplies \/ OpBegins \/ Kill \/ UNCHANGED op
<1> USE DEF Quiet, Uncrossed, Doubt, Sure, Alone
<1>1. OpBegins => ~Quiet' /\ ~Uncrossed'
  BY DEF OpBegins
<1>2. OpReads \/ OpApplies => op # "idle" /\ (Quiet' => Quiet) /\ (Uncrossed' => Uncrossed)
  BY DEF OpReads, OpApplies
<1>3. Switch \/ Announce \/ PerpetualRestart =>
        /\ UNCHANGED op /\ (Uncrossed' => Uncrossed)
        /\ Quiet' /\ ~Quiet => op = "idle"
  BY DEF Switch, Announce, PerpetualRestart, http
<1>4. Settle => UNCHANGED op /\ (Uncrossed' => Uncrossed) /\ (Quiet' /\ ~Quiet => Uncrossed)
  BY DEF Settle, http
<1>5. Nudge => UNCHANGED op /\ (Quiet' => Quiet) /\ (Uncrossed' /\ ~Uncrossed => op = "idle")
  BY DEF Nudge, http
<1>6. Kill => (Quiet' => Quiet) /\ (Uncrossed' => Uncrossed)
  BY DEF Kill
<1>7. OtherSteps => UNCHANGED op /\ (Quiet' => Quiet) /\ (Uncrossed' => Uncrossed)
  BY Unsettling
<1> QED
  BY <1>1, <1>2, <1>3, <1>4, <1>5, <1>6, <1>7 DEF Next, Worker, Outside, OtherSteps

LEMMA NoOtherStep == IInv /\ [Next]_vars => NoOther'
<1> SUFFICES ASSUME IInv, [Next]_vars PROVE NoOther'
  OBVIOUS
<1>1. (Quiet \/ Uncrossed => op = "idle") /\ (Quiet /\ pc \in {"set", "settle"} => Uncrossed)
  BY DEF IInv, NoOther
<1>2. Quiet' \/ Uncrossed' => op' = "idle"
  <2>1. Quiet' \/ Uncrossed' => op = "idle"
    BY <1>1, Remembered
  <2>2. Kill => op' = "idle"
    BY DEF Kill
  <2> QED
    BY <2>1, <2>2, Remembered
<1>3. Quiet' /\ pc' \in {"set", "settle"} => Uncrossed'
  <2> SUFFICES ASSUME Quiet', pc' \in {"set", "settle"} PROVE Uncrossed'
    OBVIOUS
  <2>1. CASE Nudge
    <3>1. Quiet /\ op = "idle"
      BY <1>1, <2>1, Remembered DEF Nudge, Sure, Quiet
    <3> QED
      BY <2>1, <3>1 DEF Nudge, Sure, Uncrossed
  <2>2. CASE SetVoltage
    BY <1>1, <2>2 DEF SetVoltage, Goto, Clean, Offline, Quiet, Uncrossed, Doubt
  <2>3. CASE UNCHANGED <<pc, doubt>>
    BY <1>1, <2>3 DEF Quiet, Uncrossed
  <2>4. CASE OpApplies
    BY <1>1, <2>4 DEF OpApplies, Quiet, Uncrossed, Sure
  <2>5. ~OpBegins
    BY Remembered
  <2> QED
    BY <2>1, <2>2, <2>3, <2>4, <2>5
    DEF Next, Worker, Outside, vars, Goto, Clean, EarlyReturn, Offline, Stop, Start, Kill,
        Network, HoursPass, Measure, OpReads, LoopExits, ReRank, Switch, Announce, Keep,
        Flip, Sleep, SleepOffline, NotReady, SampleOffline, NoNudge, NeedRestart, Settle,
        PerpetualRestart, Return, Recover
<1> QED
  BY <1>2, <1>3 DEF NoOther

LEMMA UnderwayStep == IInv /\ [Next]_vars => Underway'
<1> SUFFICES ASSUME IInv, [Next]_vars PROVE Underway'
  OBVIOUS
<1>1. (pc = "switch" => minV = sweep /\ adj = 0)'
  <2>1. CASE ReRank \/ OpBegins
    BY <2>1 DEF ReRank, OpBegins, Refer, Goto
  <2>2. CASE UNCHANGED <<pc, refs>>
    BY <2>2 DEF refs, IInv, Underway
  <2> QED
    BY <2>1, <2>2
    DEF Next, Worker, Outside, vars, Goto, Clean, EarlyReturn, Offline, Stop, Start, Kill,
        Network, HoursPass, Measure, OpReads, OpApplies, LoopExits, Switch, Announce, Keep,
        Flip, Sleep, SleepOffline, NotReady, SampleOffline, NoNudge, NeedRestart, Nudge,
        SetVoltage, Settle, PerpetualRestart, Return, Recover
<1>2. SUFFICES ASSUME Uncrossed'
      PROVE (/\ pc \in {"set", "settle"} => aim.v = sweep + aim.adj
             /\ pc = "settle" => minV = aim.v /\ liveV = aim.v)'
  BY <1>1 DEF Underway
<1>3. CASE Nudge
  BY <1>3, NudgeAims DEF Nudge, Goto, refs
<1>4. Uncrossed \/ Nudge
  BY <1>2, Remembered
<1>5. CASE SetVoltage
  BY <1>3, <1>4, <1>5 DEF SetVoltage, Goto, Clean, Offline, IInv, Underway
<1>6. CASE UNCHANGED <<pc, aim, refs, liveV>>
  BY <1>3, <1>4, <1>6 DEF IInv, Underway, refs
<1>7. CASE pc' \notin {"set", "settle"}
  BY <1>7
<1>8. (~OpBegins /\ ~OpReads /\ ~OpApplies) \/ Nudge
  BY <1>2, <1>4, Remembered DEF IInv, NoOther
<1> QED
  BY <1>3, <1>5, <1>6, <1>7, <1>8
  DEF Next, Worker, Outside, vars, live, Goto, Clean, EarlyReturn, Offline, Stop, Start,
      Kill, Network, HoursPass, Measure, LoopExits, ReRank, Switch, Announce, Keep, Flip,
      Sleep, SleepOffline, NotReady, SampleOffline, NoNudge, NeedRestart, Settle,
      PerpetualRestart, Return, Recover

LEMMA SavedStep == IInv /\ [Next]_vars => Saved'
<1> SUFFICES ASSUME IInv, [Next]_vars, "file" \notin doubt', pc' # "switch"
             PROVE disk'.active = active' /\ disk'.adj = adj'
  BY DEF Saved
<1>1. CASE SaveProfile
  BY <1>1, SavedRefs
<1>2. CASE UNCHANGED <<active, adj, disk>> /\ "file" \notin doubt /\ pc # "switch"
  BY <1>2 DEF IInv, Saved
<1>3. CASE Kill
  BY <1>3 DEF Kill
<1>4. CASE Switch
  BY <1>1, <1>4 DEF Switch, Doubt
<1>5. CASE ReRank
  BY <1>2, <1>5 DEF ReRank, Goto, refs
<1>6. CASE Announce
  BY <1>2, <1>6 DEF Announce, Doubt, Sure, Alone
<1>7. CASE Nudge
  BY <1>2, <1>7 DEF Nudge, Sure, refs
<1>8. CASE OpApplies
  BY <1>1, <1>2, <1>8 DEF OpApplies, refs
<1>9. ~OpBegins
  BY DEF OpBegins, Doubt
<1>10. CASE Settle \/ PerpetualRestart
  BY <1>1, <1>2, <1>10 DEF Settle, PerpetualRestart, Doubt
<1>11. CASE OpReads \/ Stop \/ Start \/ Network \/ HoursPass \/ Return \/ Recover \/ UNCHANGED vars
  BY <1>2, <1>11
  DEF OpReads, Stop, Start, Network, HoursPass, Return, Recover, Goto, vars, refs
<1>12. CASE Measure \/ NoNudge \/ Flip
  BY <1>1, <1>2, <1>12 DEF Measure, NoNudge, Flip, refs, Doubt, Sure
<1>13. CASE LoopExits \/ Keep \/ Sleep \/ SleepOffline \/ NotReady \/ SampleOffline \/ NeedRestart
  BY <1>2, <1>13
  DEF LoopExits, Keep, Sleep, SleepOffline, NotReady, SampleOffline, NeedRestart, Goto,
      EarlyReturn, refs
<1>14. CASE SetVoltage
  BY <1>2, <1>14 DEF SetVoltage, Doubt
<1> QED
  BY <1>3, <1>4, <1>5, <1>6, <1>7, <1>8, <1>9, <1>10, <1>11, <1>12, <1>13, <1>14
  DEF Next, Worker, Outside

(* Whatever step comes, where the engine is sure of the voltage it is the  *)
(* one it believes in.                                                     *)
LEMMA HeldStep == IInv /\ [Next]_vars => Held'
<1> DEFINE At == {"top", "announce", "fallback", "sleep", "wake", "restart", "set"}
<1> SUFFICES ASSUME IInv, [Next]_vars, Quiet', "voltage" \notin doubt', announced', pc' \in At
             PROVE minV' = sweep' + adj' /\ Near(liveV', sweep' + adj')
  BY DEF Held
<1>1. (OtherSteps \/ Nudge => Quiet) /\ (Settle => Uncrossed)
  <2>1. Nudge => Quiet
    BY DEF Nudge, Sure, Quiet
  <2>2. Settle => Uncrossed
    BY Remembered DEF Settle, IInv, NoOther, Quiet, Uncrossed, Doubt, Sure
  <2> QED
    BY <2>1, <2>2, Unsettling
<1>2. /\ active \in Int /\ sweep \in Int /\ adj \in Int /\ minV \in Int /\ liveV \in Int
  BY Ranges DEF IInv, RefsOK, VoltageInPsuRange
<1>3. Quiet /\ "voltage" \notin doubt /\ announced /\ pc \in At
      => minV = sweep + adj /\ Near(liveV, sweep + adj)
  BY DEF IInv, Held
<1>4. CASE /\ Quiet /\ UNCHANGED <<active, sweep, adj, minV, liveV>> /\ "voltage" \notin doubt
           /\ announced /\ pc \in At
  BY <1>3, <1>4
<1>5. CASE Switch
  <2>1. minV = sweep /\ adj = 0
    BY <1>5 DEF IInv, Underway, Switch
  <2>2. Apply(minV, stable) /\ UNCHANGED refs
    BY <1>5 DEF Switch, Doubt
  <2> QED
    BY <1>2, <2>1, <2>2, AppliedNear DEF refs
<1>6. CASE Announce /\ ~announced
  <2>1. /\ sweep' = active /\ minV' = active + adj /\ adj' = adj
        /\ Apply(minV', stable)
    BY <1>6 DEF Announce, Doubt
  <2>2. minV' \in Int
    BY <1>2, <2>1
  <2> QED
    BY <1>2, <2>1, <2>2, AppliedNear
<1>7. CASE Flip
  <2>1. UNCHANGED <<sweep, adj, minV>> /\ announced /\ pc = "fallback" /\ "voltage" \notin doubt /\ Quiet
    BY <1>1, <1>7 DEF Flip, Sure, OtherSteps
  <2>2. minV = sweep + adj /\ Near(liveV, minV)
    BY <1>3, <2>1
  <2>3. Apply(minV, stable') \/ PartlyApply(minV, stable')
    BY <1>7 DEF Flip, Goto
  <2> QED
    BY <1>2, <2>1, <2>2, <2>3, AppliedNear
<1>8. CASE SetVoltage
  BY <1>1, <1>3, <1>8 DEF SetVoltage, Goto, Clean, Offline, Doubt, OtherSteps
<1>9. CASE Settle
  <2>1. aim.v = sweep + aim.adj /\ minV = aim.v /\ liveV = aim.v
    BY <1>1, <1>9 DEF IInv, Underway, Settle
  <2>2. adj' = aim.adj /\ UNCHANGED <<sweep, minV, liveV>>
    BY <1>9 DEF Settle, Doubt, live
  <2> QED
    BY <1>2, <2>1, <2>2, Ranges DEF Near
<1>10. CASE PerpetualRestart
  <2>1. sweep' = sweep /\ minV' = sweep /\ adj' = 0 /\ Apply(minV', stable')
    BY <1>10 DEF PerpetualRestart, Doubt
  <2> QED
    BY <1>2, <2>1, AppliedNear
<1>11. ~OpBegins /\ ~OpReads /\ ~OpApplies
  <2>1. OpReads \/ OpApplies => Quiet
    BY DEF OpReads, OpApplies, Sure, Quiet
  <2> QED
    BY <2>1, Remembered DEF IInv, NoOther
<1>12. CASE ReRank \/ (Announce /\ announced)
  <2>1. Quiet
    BY <1>1, <1>12 DEF OtherSteps, Announce, Quiet
  <2> QED
    BY <2>1, <1>4, <1>12 DEF ReRank, Announce, Goto, refs, live
<1>13. CASE LoopExits \/ Keep \/ Sleep \/ SleepOffline \/ NotReady \/ SampleOffline
  BY <1>1, <1>4, <1>13
  DEF OtherSteps, LoopExits, Keep, Sleep, SleepOffline, NotReady, SampleOffline, Goto, EarlyReturn,
      refs, live
<1>14. CASE NoNudge \/ NeedRestart \/ Nudge
  BY <1>1, <1>4, <1>14 DEF OtherSteps, NoNudge, NeedRestart, Nudge, Goto, Clean, Sure, refs, live
<1>15. CASE Return \/ Recover \/ Stop \/ Start \/ Kill \/ Measure
  BY <1>15 DEF Return, Recover, Stop, Start, Kill, Measure, Goto
<1>16. CASE Network \/ HoursPass \/ UNCHANGED vars
  BY <1>1, <1>4, <1>16 DEF OtherSteps, Network, HoursPass, vars, refs, live
<1> QED
  BY <1>5, <1>6, <1>7, <1>8, <1>9, <1>10, <1>11, <1>12, <1>13, <1>14, <1>15, <1>16
  DEF Next, Worker, Outside
-----------------------------------------------------------------------------
LEMMA Inductive == IInv /\ [Next]_vars => IInv'
BY RefsStep, RangeStep, AimStep, NoOtherStep, UnderwayStep, HeldStep, SavedStep DEF IInv

LEMMA Invariance == Spec => []IInv
BY Initial, Inductive, PTL DEF Spec

(* The PSU is told nothing outside its verified range, whoever writes: the *)
(* monitor's nudges are clamped, every other path goes through the gate.   *)
THEOREM VoltageInRange == Spec => []VoltageInPsuRange
<1>1. IInv => VoltageInPsuRange
  BY DEF IInv
<1> QED
  BY <1>1, Invariance, PTL

(* Over any number of nudges, clamps, cap hits, restarts and reloads the   *)
(* adjustment stays within its cap, in memory and on disk.                 *)
THEOREM Capped == Spec => []AdjustmentCapped
<1>1. IInv => AdjustmentCapped
  BY DEF IInv, RefsOK, AdjustmentCapped
<1> QED
  BY <1>1, Invariance, PTL

(* Once the latest application went through with no selection under way, a *)
(* monitored miner runs at the active profile's voltage plus the           *)
(* adjustment the engine believes in, whatever selections went before.     *)
THEOREM MaintainedHolds == Spec => []Maintained
<1>1. IInv => Maintained
  BY DEF IInv, Held, Quiet, Maintained
<1> QED
  BY <1>1, Invariance, PTL

(* At every rest of the monitor the profile and its adjustment are on      *)
(* disk, but for a switch or a selection whose application failed or is    *)
(* not over, until the next save: whatever selections went before.         *)
THEOREM AdjustmentSaved == Spec => []AdjustmentIsSaved
<1>1. IInv => AdjustmentIsSaved
  BY DEF IInv, Saved, AdjustmentIsSaved
<1> QED
  BY <1>1, Invariance, PTL
=============================================================================
