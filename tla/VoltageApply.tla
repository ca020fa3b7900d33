----------------------------- MODULE VoltageApply -----------------------------
(***************************************************************************)
(* Bringing the miner from one V/F point to another: _phase1_set_voltage   *)
(* (a voltage and one frequency for all chips) and _apply_stable_freqs     *)
(* (a voltage and an array of frequencies, board by board).  A command is  *)
(* accepted at once and carried out later: the PSU's output and the clocks *)
(* of each board follow at their own pace, and the waits between the       *)
(* commands may end before they have, at a stop or on a timeout.           *)
(*                                                                         *)
(* Voltages and frequencies are levels: a clock of level n is stable at a  *)
(* voltage of level n or more, and every point asked for is stable.  The   *)
(* chips of a board are one clock; the 5 MHz that a board's mean may be    *)
(* off are none.  Who asks for which point is in the other modules, and so *)
(* is the gate on the PSU's range; here the levels are that range.  The    *)
(* nudges of the monitor write a voltage alone and are in Perpetual.       *)
(* A definition X_Variant is a wrong version of X that shows what a        *)
(* property tells apart; no run uses it.                                   *)
(***************************************************************************)
EXTENDS Integers

CONSTANTS
  BoardCount,   \* num_boards: boards are 1..BoardCount
  MaxLevel,
  Close,      \* a rise this small is not written by _apply_stable_freqs (50 mV)
  SettleTolerance,  \* SETTLE_VOLTAGE_TOLERANCE_MV: an output less than this far off has settled
  AskedPoints       \* the points that are asked for

VARIABLES
  \* the miner
  setV, volt,    \* target_voltage_mv, output_voltage_mv
  setF, clock,   \* per board: what was written last, what /clocks reports
  \* the thread that applies a point
  place,
  aim,           \* the point asked for, and by which of the two functions
  startV,        \* current_voltage, 0 if the summary had none
  nextBoard,     \* the board to be written next
  \* history
  blind          \* what the application of this point did not see

psu   == <<setV, volt>>
chain == <<setF, clock>>
applyJob   == <<place, aim, startV, nextBoard>>
applyVars  == <<psu, chain, applyJob, blind>>

Board    == 1..BoardCount
Voltages == 1..MaxLevel
Clocks   == [Board -> 1..MaxLevel]
Points   == [v : Voltages, f : Clocks, uniform : BOOLEAN]
Places   == {"idle", "ready", "raise", "vwait", "clocks", "cwait", "lower", "end"}

Stable(f, v) == \A b \in Board : f[b] <= v

Uniform(f) == \A b \in Board : f[b] = f[1]

ASSUME VoltageApplyAssumption ==
  /\ BoardCount \in Nat \ {0} /\ MaxLevel \in Nat \ {0} /\ Close \in Nat
  /\ SettleTolerance \in Nat \ {0}
  /\ AskedPoints \subseteq {p \in Points : Stable(p.f, p.v) /\ (p.uniform => Uniform(p.f))}

ApplyTypeOK ==
  /\ setV \in Voltages /\ volt \in Voltages /\ setF \in Clocks /\ clock \in Clocks
  /\ place \in Places /\ aim \in Points /\ startV \in 0..MaxLevel /\ nextBoard \in 1..BoardCount + 1
  /\ blind \subseteq {"unread", "ramping", "cut"}
-----------------------------------------------------------------------------
\* A voltage that was not written may be a small rise short.
Covers(v, f) == Stable(f, v + Close)

\* What the waits let pass: an output that is still, or for good, short of the command.
CoversNearly(v, f) == Covers(v + SettleTolerance - 1, f)

Safe == Covers(setV, clock) /\ Covers(setV, setF)

VoltageSettled == volt - setV < SettleTolerance /\ setV - volt < SettleTolerance

ClocksSettled_FirstOnly == clock[1] = setF[1]

ClocksSettled == clock = setF

\* A wait that ends without what it waits for, at a stop or after SETTLE_MAX_ATTEMPTS.
Waited(settled) == blind' = IF settled THEN blind ELSE blind \cup {"cut"}

ApplyGoto(p) == place' = p /\ UNCHANGED <<aim, startV, nextBoard>>
-----------------------------------------------------------------------------
(* The miner: the PSU and the boards.                                      *)
Towards(v) == {w \in Voltages \ {v} : (v < w /\ w <= setV) \/ (setV <= w /\ w < v)}

VoltageFollows ==
  /\ volt' \in Towards(volt)
  /\ UNCHANGED <<setV, chain, applyJob, blind>>

ClockFollows ==
  /\ \E b \in Board : clock[b] # setF[b] /\ clock' = [clock EXCEPT ![b] = setF[b]]
  /\ UNCHANGED <<psu, setF, applyJob, blind>>
-----------------------------------------------------------------------------
(* A point is asked for, and the voltage it starts from is read: the one   *)
(* that was commanded, whether or not the output has reached it.           *)
BeginApply ==
  /\ place = "idle" /\ place' = "ready" /\ aim' \in AskedPoints /\ startV' \in {0, setV} /\ nextBoard' = 1
  /\ blind' = (IF Safe THEN {} ELSE blind)
                \cup (IF startV' = 0 THEN {"unread"} ELSE {})
                \cup (IF VoltageSettled THEN {} ELSE {"ramping"})
  /\ UNCHANGED <<psu, chain>>

\* voltage_increasing
Rises == startV = 0 \/ aim.v >= startV

Written_Never == aim.uniform

\* voltage_changed; _phase1_set_voltage always writes.
Written == aim.uniform \/ startV = 0 \/ aim.v - startV > Close

\* _wait_for_mining_state has returned: the miner is mining, or there has been a stop.
ReadyToApply ==
  /\ place = "ready" /\ ApplyGoto(IF Rises /\ Written THEN "raise" ELSE "clocks")
  /\ UNCHANGED <<psu, chain, blind>>

Raise ==
  /\ place = "raise" /\ setV' = aim.v /\ ApplyGoto("vwait")
  /\ UNCHANGED <<volt, chain, blind>>

AwaitVoltage ==
  /\ place = "vwait" /\ Waited(VoltageSettled) /\ ApplyGoto("clocks")
  /\ UNCHANGED <<psu, chain>>

\* set_clock_all, or set_clock_chip with the array of one board.
Cover(b) == IF aim.uniform THEN aim.f ELSE [setF EXCEPT ![b] = aim.f[b]]

AfterClocks == IF Rises THEN "end" ELSE "cwait"

WriteClocks_OneTooMany ==
  /\ place = "clocks" /\ nextBoard \in 1..BoardCount + 1
  /\ setF' = IF nextBoard \in Board THEN Cover(nextBoard) ELSE setF
  /\ nextBoard' = nextBoard + 1
  /\ place' = IF nextBoard = BoardCount + 1 THEN AfterClocks ELSE place
  /\ UNCHANGED <<psu, clock, aim, startV, blind>>

WriteClocks ==
  /\ place = "clocks" /\ nextBoard \in Board
  /\ setF' = Cover(nextBoard)
  /\ nextBoard' = IF aim.uniform THEN BoardCount + 1 ELSE nextBoard + 1
  /\ place' = IF nextBoard' = BoardCount + 1 THEN AfterClocks ELSE place
  /\ UNCHANGED <<psu, clock, aim, startV, blind>>

AwaitClocks ==
  /\ place = "cwait" /\ Waited(ClocksSettled) /\ ApplyGoto("lower")
  /\ UNCHANGED <<psu, chain>>

Lower ==
  /\ place = "lower" /\ setV' = aim.v /\ ApplyGoto("end")
  /\ UNCHANGED <<volt, chain, blind>>

(* The last wait: settled, out of attempts, or stopped.                    *)
EndApply ==
  /\ place = "end" /\ ApplyGoto("idle")
  /\ UNCHANGED <<psu, chain, blind>>

(* Any call may fail, a wait for mining may run out, or the process may    *)
(* die; a command whose answer is lost may have been carried out.          *)
FailApply ==
  /\ place # "idle" /\ ApplyGoto("idle")
  /\ setV' = setV \/ (place \in {"raise", "lower"} /\ setV' = aim.v)
  /\ setF' = setF \/ (place = "clocks" /\ nextBoard \in Board /\ setF' = Cover(nextBoard))
  /\ UNCHANGED <<volt, clock, blind>>
-----------------------------------------------------------------------------
ApplyInit ==
  /\ aim \in AskedPoints
  /\ setV = aim.v /\ volt = setV /\ setF = aim.f /\ clock = setF
  /\ place = "idle" /\ startV = 0 /\ nextBoard = 1 /\ blind = {}

ApplyStep ==
  \/ BeginApply \/ ReadyToApply \/ Raise \/ AwaitVoltage \/ WriteClocks \/ AwaitClocks \/ Lower
  \/ EndApply

ApplyNext == ApplyStep \/ FailApply \/ VoltageFollows \/ ClockFollows

ApplySpec == ApplyInit /\ [][ApplyNext]_applyVars
-----------------------------------------------------------------------------
(* Whatever fails, is cut short or stopped on the way, and whatever point  *)
(* was left behind before, the miner has never been told to run a clock    *)
(* that the voltage it was told does not carry, once the voltage it starts *)
(* from could be read.                                                     *)
CommandsInOrder == "unread" \notin blind => Covers(setV, setF)

(* "This prevents chips from entering a crashed state": as long as every   *)
(* wait ended because it saw what it waits for, no clock is at any moment  *)
(* of the way further above what the output carries than the settle        *)
(* tolerance lets the output be short and a small rise go unwritten,       *)
(* however often and late both follow: shortfalls do not add up over the   *)
(* points applied one after the other.                                     *)
ShortfallBounded == blind = {} => CoversNearly(volt, clock)
=============================================================================
