-------------------------- MODULE VoltageApplyProofs --------------------------
(***************************************************************************)
(* For any number of boards, any range of levels, any points asked for,    *)
(* any voltage rise that may go unwritten and any settle tolerance, the    *)
(* commands keep their order, and while the waits see what they wait for   *)
(* no clock runs above what the PSU's output carries by more than the two  *)
(* together.                                                               *)
(*                                                                         *)
(* The invariant says of every place of an application what it relies on   *)
(* there: which voltage it read, which of the two directions it goes in,   *)
(* which boards have the new clocks and what has been waited for.          *)
(***************************************************************************)
EXTENDS VoltageApply, TLAPS

\* The point asked for can be run, and a uniform one is the same on all boards.
AimOK == aim \in AskedPoints

\* The voltage read is still the one commanded until this application writes it.
SeenOK ==
  /\ place # "idle" /\ startV = 0 => "unread" \in blind
  /\ place \in {"ready", "raise", "cwait", "lower"} /\ startV # 0 => startV = setV

\* Which way an application goes, and what that has done to the commanded voltage.
WayOK ==
  /\ place \in {"raise", "vwait"} => Rises
  /\ place \in {"cwait", "lower"} => ~Rises
  /\ place = "vwait" => setV = aim.v
  /\ place = "clocks" /\ Rises /\ "unread" \notin blind => setV + Close >= aim.v
  /\ place = "clocks" /\ ~Rises => startV = setV

\* The boards written so far have the clocks of the point.
WrittenOK ==
  /\ place \in {"ready", "raise", "vwait"} => nextBoard = 1
  /\ place \in {"cwait", "lower"} => setF = aim.f
  /\ place = "clocks" /\ nextBoard # BoardCount + 1 => \A b \in Board : b < nextBoard => setF[b] = aim.f[b]

\* The output has settled at the command until this application commands another.
OutputOK ==
  /\ blind = {} /\ place \in {"ready", "raise", "clocks", "cwait", "lower"} => VoltageSettled
  /\ blind = {} /\ place = "lower" => clock = setF

\* Every clock that may be running fits every voltage that may be there.
RoomOK ==
  /\ "unread" \notin blind => Covers(setV, setF)
  /\ blind = {} => /\ Covers(setV, clock)
                   /\ CoversNearly(volt, clock) /\ CoversNearly(volt, setF)

IInv == ApplyTypeOK /\ AimOK /\ SeenOK /\ WayOK /\ WrittenOK /\ OutputOK /\ RoomOK
-----------------------------------------------------------------------------
(* A voltage that is no lower covers what a lower one covered.             *)
LEMMA MoreCovers ==
  ASSUME NEW f \in Clocks, NEW v \in Voltages, NEW w \in Voltages, v <= w, Covers(v, f)
  PROVE  Covers(w, f)
BY VoltageApplyAssumption DEF Clocks, Voltages, Board, Covers, Stable

(* A settled output carries nearly what the command carries.               *)
LEMMA SettledCovers ==
  ASSUME NEW f \in Clocks, volt \in Voltages, setV \in Voltages, VoltageSettled, Covers(setV, f)
  PROVE  CoversNearly(volt, f)
<1> SUFFICES ASSUME NEW b \in Board PROVE f[b] <= volt + SettleTolerance - 1 + Close
  BY DEF CoversNearly, Covers, Stable
<1>1. f[b] <= setV + Close /\ setV - volt < SettleTolerance
  BY DEF Covers, Stable, VoltageSettled
<1>2. f[b] \in Int /\ setV \in Int /\ volt \in Int /\ SettleTolerance \in Int /\ Close \in Int
  BY VoltageApplyAssumption DEF Clocks, Voltages
<1> QED BY <1>1, <1>2

(* What is asked for can be run.                                           *)
LEMMA Asked ==
  ASSUME NEW p \in AskedPoints
  PROVE  /\ p \in Points /\ p.f \in Clocks /\ p.v \in Voltages /\ p.uniform \in BOOLEAN
         /\ Stable(p.f, p.v) /\ Covers(p.v, p.f)
<1>1. p \in Points /\ p.f \in Clocks /\ p.v \in Voltages /\ p.uniform \in BOOLEAN /\ Stable(p.f, p.v)
  BY VoltageApplyAssumption DEF Points
<1>2. Covers(p.v, p.f)
  BY <1>1, VoltageApplyAssumption DEF Covers, Stable, Clocks, Voltages, Board
<1> QED BY <1>1, <1>2

(* apply_freqs_direct and set_clock_all: what they write nextBoard fits the     *)
(* voltage, whichever way the application goes.                            *)
LEMMA WriteFits ==
  ASSUME IInv, place = "clocks", nextBoard \in Board
  PROVE  /\ Cover(nextBoard) \in Clocks
         /\ \A b \in Board : b # nextBoard /\ ~aim.uniform => Cover(nextBoard)[b] = setF[b]
         /\ ~aim.uniform => Cover(nextBoard)[nextBoard] = aim.f[nextBoard]
         /\ aim.uniform => Cover(nextBoard) = aim.f
         /\ "unread" \notin blind => Covers(setV, Cover(nextBoard))
         /\ blind = {} => CoversNearly(volt, Cover(nextBoard))
<1> USE VoltageApplyAssumption
<1>1. /\ aim.f \in Clocks /\ aim.v \in Voltages /\ aim.uniform \in BOOLEAN
      /\ Stable(aim.f, aim.v)
  BY Asked DEF IInv, AimOK
<1>2. setF \in Clocks /\ setV \in Voltages /\ volt \in Voltages /\ startV \in 0..MaxLevel
  BY DEF IInv, ApplyTypeOK
<1>3. /\ Cover(nextBoard) \in Clocks
      /\ \A b \in Board : b # nextBoard /\ ~aim.uniform => Cover(nextBoard)[b] = setF[b]
      /\ ~aim.uniform => Cover(nextBoard)[nextBoard] = aim.f[nextBoard]
      /\ aim.uniform => Cover(nextBoard) = aim.f
  BY <1>1, <1>2 DEF Cover, Clocks
<1>4. \A b \in Board : Cover(nextBoard)[b] \in {aim.f[b], setF[b]}
  BY <1>1, <1>2 DEF Cover, Clocks
<1>5. "unread" \notin blind => setV + Close >= aim.v
  <2>1. CASE Rises
    BY <2>1 DEF IInv, WayOK
  <2>2. CASE ~Rises
    BY <1>1, <1>2, <2>2 DEF IInv, WayOK, Rises, Voltages
  <2> QED BY <2>1, <2>2
<1>6. "unread" \notin blind => Covers(setV, Cover(nextBoard))
  <2> SUFFICES ASSUME "unread" \notin blind, NEW b \in Board
               PROVE  Cover(nextBoard)[b] <= setV + Close
    BY DEF Covers, Stable
  <2>1. aim.f[b] <= setV + Close
    BY <1>1, <1>2, <1>5 DEF Stable, Clocks, Voltages
  <2>2. setF[b] <= setV + Close
    BY DEF IInv, RoomOK, Covers, Stable
  <2> QED BY <1>4, <2>1, <2>2
<1>7. blind = {} => CoversNearly(volt, Cover(nextBoard))
  BY <1>2, <1>3, <1>6, SettledCovers DEF IInv, OutputOK
<1> QED BY <1>3, <1>6, <1>7

-----------------------------------------------------------------------------
THEOREM Begins == ApplyInit => IInv
<1> SUFFICES ASSUME ApplyInit PROVE IInv
  OBVIOUS
<1> USE VoltageApplyAssumption
<1>1. /\ aim \in Points /\ setV \in Voltages /\ setF \in Clocks /\ Covers(setV, setF)
      /\ volt = setV /\ clock = setF
  BY Asked DEF ApplyInit
<1>2. ApplyTypeOK /\ AimOK
  BY <1>1 DEF ApplyInit, ApplyTypeOK, AimOK, Places, Voltages, Board
<1>3. SeenOK /\ WayOK /\ WrittenOK /\ OutputOK
  BY DEF ApplyInit, SeenOK, WayOK, WrittenOK, OutputOK
<1>4. VoltageSettled
  BY <1>1 DEF VoltageSettled, Voltages
<1>5. RoomOK
  BY <1>1, <1>4, SettledCovers DEF RoomOK
<1> QED BY <1>2, <1>3, <1>5 DEF IInv

-----------------------------------------------------------------------------
(* An output on its way to the command does not unsettle.                  *)
LEMMA StaysSettled ==
  ASSUME NEW v \in Int, NEW w \in Int, NEW c \in Int, NEW t \in Int, t > 0,
         v - c < t, c - v < t, (v < w /\ w <= c) \/ (c <= w /\ w < v)
  PROVE  w - c < t /\ c - w < t
OBVIOUS

(* Each step of the miner, of the thread and of a failure keeps IInv.      *)
LEMMA VoltageFollowsKeeps == IInv /\ VoltageFollows => IInv'
<1> SUFFICES ASSUME IInv, VoltageFollows PROVE IInv'
  OBVIOUS
<1> USE VoltageApplyAssumption
<1>1. /\ volt \in Voltages /\ setV \in Voltages /\ volt' \in Voltages /\ setF \in Clocks /\ clock \in Clocks
      /\ (volt < volt' /\ volt' <= setV) \/ (setV <= volt' /\ volt' < volt)
      /\ UNCHANGED <<setV, setF, clock>>
  BY DEF IInv, ApplyTypeOK, VoltageFollows, Towards, chain
<1>2. ApplyTypeOK' /\ AimOK' /\ SeenOK' /\ WayOK' /\ WrittenOK'
  BY <1>1 DEF IInv, VoltageFollows, chain, applyJob, ApplyTypeOK, AimOK, SeenOK, WayOK, WrittenOK, Rises
<1>3. VoltageSettled => VoltageSettled'
  <2>1. volt \in Int /\ setV \in Int /\ volt' \in Int /\ SettleTolerance \in Int /\ SettleTolerance > 0
    BY <1>1 DEF Voltages
  <2>2. setV' = setV
    BY <1>1
  <2> QED BY <1>1, <2>1, <2>2, StaysSettled DEF VoltageSettled
<1>4. OutputOK'
  BY <1>3 DEF IInv, VoltageFollows, chain, applyJob, OutputOK
<1>5. ASSUME NEW f \in Clocks, Covers(setV, f), CoversNearly(volt, f)
      PROVE  CoversNearly(volt', f)
  BY <1>1, <1>5 DEF CoversNearly, Covers, Stable, Clocks, Voltages
<1>6. RoomOK'
  BY <1>1, <1>5 DEF IInv, VoltageFollows, chain, applyJob, RoomOK, CoversNearly, Covers, Stable
<1> QED BY <1>2, <1>4, <1>6 DEF IInv

LEMMA ClockFollowsKeeps == IInv /\ ClockFollows => IInv'
<1> SUFFICES ASSUME IInv, ClockFollows PROVE IInv'
  OBVIOUS
<1>1. PICK b \in Board : clock[b] # setF[b] /\ clock' = [clock EXCEPT ![b] = setF[b]]
  BY DEF ClockFollows
<1>2. setF \in Clocks /\ clock \in Clocks
  BY DEF IInv, ApplyTypeOK
<1>3. clock' \in Clocks /\ \A c \in Board : clock'[c] \in {clock[c], setF[c]}
  BY <1>1, <1>2 DEF Clocks
<1>4. ApplyTypeOK' /\ AimOK' /\ SeenOK' /\ WayOK' /\ WrittenOK'
  BY <1>3 DEF IInv, ClockFollows, psu, applyJob, ApplyTypeOK, AimOK, SeenOK, WayOK, WrittenOK, Rises
<1>5. OutputOK'
  BY <1>1 DEF IInv, ClockFollows, psu, applyJob, OutputOK, VoltageSettled
<1>6. RoomOK'
  BY <1>3 DEF IInv, ClockFollows, psu, applyJob, RoomOK, CoversNearly, Covers, Stable
<1> QED BY <1>4, <1>5, <1>6 DEF IInv

LEMMA BeginKeeps == IInv /\ BeginApply => IInv'
<1> SUFFICES ASSUME IInv, BeginApply PROVE IInv'
  OBVIOUS
<1> USE VoltageApplyAssumption
<1>1. /\ place' = "ready" /\ aim' \in AskedPoints /\ startV' \in {0, setV} /\ nextBoard' = 1
      /\ UNCHANGED <<setV, volt, setF, clock>>
  BY DEF BeginApply, psu, chain
<1>2. ApplyTypeOK' /\ AimOK'
  <2>1. blind' \subseteq {"unread", "ramping", "cut"}
    BY DEF BeginApply, IInv, ApplyTypeOK
  <2>2. aim' \in Points /\ aim' \in AskedPoints
    BY <1>1, Asked
  <2>3. startV' \in 0..MaxLevel /\ nextBoard' \in 1..BoardCount + 1
    BY <1>1 DEF IInv, ApplyTypeOK, Voltages
  <2> QED BY <1>1, <2>1, <2>2, <2>3 DEF IInv, ApplyTypeOK, Places, AimOK
<1>3. SeenOK' /\ WayOK' /\ WrittenOK'
  BY <1>1 DEF BeginApply, SeenOK, WayOK, WrittenOK
<1>4. blind' = {} => VoltageSettled
  BY DEF BeginApply
<1>5. OutputOK'
  BY <1>1, <1>4 DEF OutputOK, VoltageSettled
<1>6. RoomOK'
  <2>1. CASE Safe
    <3>1. blind' = {} => CoversNearly(volt, clock) /\ CoversNearly(volt, setF)
      BY <1>4, <2>1, SettledCovers DEF Safe, IInv, ApplyTypeOK
    <3> QED BY <1>1, <2>1, <3>1 DEF Safe, RoomOK, CoversNearly, Covers, Stable
  <2>2. CASE ~Safe
    <3>1. blind \subseteq blind'
      BY <2>2 DEF BeginApply
    <3> QED BY <1>1, <3>1 DEF IInv, RoomOK, CoversNearly, Covers, Stable
  <2> QED BY <2>1, <2>2
<1> QED BY <1>2, <1>3, <1>5, <1>6 DEF IInv

LEMMA ReadyKeeps == IInv /\ ReadyToApply => IInv'
<1> SUFFICES ASSUME IInv, ReadyToApply PROVE IInv'
  OBVIOUS
<1> USE VoltageApplyAssumption
<1>1. /\ place = "ready" /\ place' = IF Rises /\ Written THEN "raise" ELSE "clocks"
      /\ UNCHANGED <<setV, volt, setF, clock, aim, startV, nextBoard, blind>>
  BY DEF ReadyToApply, ApplyGoto, psu, chain
<1>2. nextBoard = 1 /\ (startV = 0 => "unread" \in blind) /\ (startV # 0 => startV = setV)
  BY <1>1 DEF IInv, SeenOK, WrittenOK
<1>3. setV \in Voltages /\ aim.v \in Voltages /\ Rises' = Rises
  BY <1>1 DEF IInv, ApplyTypeOK, Points, Rises
<1>4. ApplyTypeOK' /\ AimOK'
  BY <1>1 DEF IInv, ApplyTypeOK, Places, AimOK
<1>5. SeenOK' /\ WrittenOK'
  BY <1>1, <1>2 DEF SeenOK, WrittenOK, Board
<1>6. WayOK'
  <2>1. CASE Rises /\ Written
    BY <1>1, <1>3, <2>1 DEF WayOK
  <2>2. CASE Rises /\ ~Written
    <3>1. startV # 0 /\ aim.v - startV <= Close
      BY <1>2, <1>3, <2>2 DEF Written, Voltages
    <3>2. setV + Close >= aim.v
      BY <1>2, <1>3, <3>1 DEF Voltages
    <3> QED BY <1>1, <1>3, <2>2, <3>2 DEF WayOK
  <2>3. CASE ~Rises
    BY <1>1, <1>2, <1>3, <2>3 DEF WayOK, Rises
  <2> QED BY <2>1, <2>2, <2>3
<1>7. OutputOK' /\ RoomOK'
  BY <1>1 DEF IInv, OutputOK, VoltageSettled, RoomOK, CoversNearly, Covers, Stable
<1> QED BY <1>4, <1>5, <1>6, <1>7 DEF IInv

LEMMA RaiseKeeps == IInv /\ Raise => IInv'
<1> SUFFICES ASSUME IInv, Raise PROVE IInv'
  OBVIOUS
<1> USE VoltageApplyAssumption
<1>1. /\ place = "raise" /\ place' = "vwait" /\ setV' = aim.v
      /\ UNCHANGED <<volt, setF, clock, aim, startV, nextBoard, blind>>
  BY DEF Raise, ApplyGoto, chain
<1>2. /\ setV \in Voltages /\ aim.v \in Voltages /\ Rises' = Rises /\ Rises
      /\ setF \in Clocks /\ clock \in Clocks
  BY <1>1 DEF IInv, ApplyTypeOK, Points, Rises, WayOK
<1>3. "unread" \notin blind => setV <= aim.v
  BY <1>1, <1>2 DEF IInv, SeenOK, Rises, Voltages
<1>4. ApplyTypeOK' /\ AimOK'
  BY <1>1, <1>2 DEF IInv, ApplyTypeOK, Places, AimOK
<1>5. SeenOK' /\ WayOK' /\ WrittenOK' /\ OutputOK'
  BY <1>1, <1>2 DEF IInv, SeenOK, WayOK, WrittenOK, OutputOK
<1>6. "unread" \notin blind => Covers(aim.v, setF)
  BY <1>2, <1>3, MoreCovers DEF IInv, RoomOK
<1>7. blind = {} => Covers(aim.v, clock)
  BY <1>2, <1>3, MoreCovers DEF IInv, RoomOK
<1>8. RoomOK'
  BY <1>1, <1>6, <1>7 DEF IInv, RoomOK, CoversNearly, Covers, Stable
<1> QED BY <1>4, <1>5, <1>8 DEF IInv

LEMMA AwaitVoltageKeeps == IInv /\ AwaitVoltage => IInv'
<1> SUFFICES ASSUME IInv, AwaitVoltage PROVE IInv'
  OBVIOUS
<1> USE VoltageApplyAssumption
<1>1. /\ place = "vwait" /\ place' = "clocks" /\ Waited(VoltageSettled)
      /\ UNCHANGED <<setV, volt, setF, clock, aim, startV, nextBoard>>
  BY DEF AwaitVoltage, ApplyGoto, psu, chain
<1>2. /\ blind \subseteq blind' /\ blind' \subseteq blind \cup {"cut"}
      /\ blind' = {} => VoltageSettled
  BY <1>1 DEF Waited
<1>3. Rises /\ Rises' = Rises /\ setV = aim.v /\ nextBoard = 1 /\ setV \in Voltages
  BY <1>1 DEF IInv, WayOK, WrittenOK, Rises, ApplyTypeOK
<1>4. ApplyTypeOK' /\ AimOK'
  BY <1>1, <1>2 DEF IInv, ApplyTypeOK, Places, AimOK
<1>5. SeenOK' /\ WayOK' /\ WrittenOK'
  BY <1>1, <1>2, <1>3 DEF IInv, SeenOK, WayOK, WrittenOK, Board, Voltages
<1>6. OutputOK' /\ RoomOK'
  BY <1>1, <1>2 DEF IInv, OutputOK, VoltageSettled, RoomOK, CoversNearly, Covers, Stable
<1> QED BY <1>4, <1>5, <1>6 DEF IInv

LEMMA WriteClocksKeeps == IInv /\ WriteClocks => IInv'
<1> SUFFICES ASSUME IInv, WriteClocks PROVE IInv'
  OBVIOUS
<1> USE VoltageApplyAssumption
<1>1. /\ place = "clocks" /\ nextBoard \in Board /\ setF' = Cover(nextBoard)
      /\ nextBoard' = IF aim.uniform THEN BoardCount + 1 ELSE nextBoard + 1
      /\ place' = IF nextBoard' = BoardCount + 1 THEN AfterClocks ELSE place
      /\ UNCHANGED <<setV, volt, clock, aim, startV, blind>>
  BY DEF WriteClocks, psu
<1>2. /\ aim.f \in Clocks /\ aim.v \in Voltages /\ aim.uniform \in BOOLEAN
      /\ setF' \in Clocks /\ setV \in Voltages /\ Rises' = Rises
  BY <1>1, WriteFits DEF IInv, ApplyTypeOK, Points, Rises
<1>3. place' \in {"clocks", "cwait", "end"} /\ nextBoard' \in 1..BoardCount + 1
  BY <1>1, <1>2 DEF AfterClocks, Board
<1>4. ApplyTypeOK' /\ AimOK'
  BY <1>1, <1>2, <1>3 DEF IInv, ApplyTypeOK, Places, AimOK
<1>5. place' = "cwait" => ~Rises
  BY <1>1 DEF AfterClocks
<1>6. SeenOK' /\ WayOK'
  BY <1>1, <1>2, <1>3, <1>5 DEF IInv, SeenOK, WayOK, Rises, Voltages
<1>7. WrittenOK'
  <2>1. CASE aim.uniform
    BY <1>1, <1>3, <2>1, WriteFits DEF WrittenOK, AfterClocks
  <2>2. CASE ~aim.uniform
    <3>1. \A b \in Board : b < nextBoard + 1 => setF'[b] = aim.f[b]
      <4> SUFFICES ASSUME NEW b \in Board, b < nextBoard + 1 PROVE setF'[b] = aim.f[b]
        OBVIOUS
      <4>1. CASE b = nextBoard
        BY <1>1, <2>2, <4>1, WriteFits
      <4>2. CASE b # nextBoard
        <5>1. b < nextBoard /\ nextBoard # BoardCount + 1
          BY <1>1, <4>2 DEF Board
        <5> QED BY <1>1, <2>2, <4>2, <5>1, WriteFits DEF IInv, WrittenOK
      <4> QED BY <4>1, <4>2
    <3>2. nextBoard = BoardCount => setF' = aim.f
      <4> SUFFICES ASSUME nextBoard = BoardCount PROVE setF' = aim.f
        OBVIOUS
      <4>1. \A b \in Board : setF'[b] = aim.f[b]
        BY <3>1 DEF Board
      <4> QED BY <1>2, <4>1 DEF Clocks
    <3> QED BY <1>1, <1>3, <2>2, <3>1, <3>2 DEF WrittenOK, AfterClocks, Board
  <2> QED BY <2>1, <2>2
<1>8. OutputOK'
  BY <1>1, <1>3 DEF IInv, OutputOK, VoltageSettled
<1>9. RoomOK'
  BY <1>1, WriteFits DEF IInv, RoomOK, CoversNearly, Covers, Stable
<1> QED BY <1>4, <1>6, <1>7, <1>8, <1>9 DEF IInv

LEMMA AwaitClocksKeeps == IInv /\ AwaitClocks => IInv'
<1> SUFFICES ASSUME IInv, AwaitClocks PROVE IInv'
  OBVIOUS
<1>1. /\ place = "cwait" /\ place' = "lower" /\ Waited(ClocksSettled)
      /\ UNCHANGED <<setV, volt, setF, clock, aim, startV, nextBoard>>
  BY DEF AwaitClocks, ApplyGoto, psu, chain
<1>2. /\ blind \subseteq blind' /\ blind' \subseteq blind \cup {"cut"}
      /\ blind' = {} => clock = setF
  BY <1>1 DEF Waited, ClocksSettled
<1>3. ApplyTypeOK' /\ AimOK'
  BY <1>1, <1>2 DEF IInv, ApplyTypeOK, Places, AimOK
<1>4. SeenOK' /\ WayOK' /\ WrittenOK'
  BY <1>1, <1>2 DEF IInv, SeenOK, WayOK, WrittenOK, Rises
<1>5. OutputOK' /\ RoomOK'
  BY <1>1, <1>2 DEF IInv, OutputOK, VoltageSettled, RoomOK, CoversNearly, Covers, Stable
<1> QED BY <1>3, <1>4, <1>5 DEF IInv

(* What a point asks for can be run at the voltage it asks for.            *)
LEMMA AimCovers == IInv => Covers(aim.v, aim.f)
BY Asked DEF IInv, AimOK

LEMMA LowerKeeps == IInv /\ Lower => IInv'
<1> SUFFICES ASSUME IInv, Lower PROVE IInv'
  OBVIOUS
<1>1. /\ place = "lower" /\ place' = "end" /\ setV' = aim.v
      /\ UNCHANGED <<volt, setF, clock, aim, startV, nextBoard, blind>>
  BY DEF Lower, ApplyGoto, chain
<1>2. ApplyTypeOK' /\ AimOK'
  BY <1>1 DEF IInv, ApplyTypeOK, Places, Points, AimOK
<1>3. SeenOK' /\ WayOK' /\ WrittenOK' /\ OutputOK'
  BY <1>1 DEF IInv, SeenOK, WayOK, WrittenOK, OutputOK
<1>4. setF = aim.f /\ (blind = {} => clock = setF)
  BY <1>1 DEF IInv, WrittenOK, OutputOK
<1>5. RoomOK'
  BY <1>1, <1>4, AimCovers DEF IInv, RoomOK, CoversNearly, Covers, Stable
<1> QED BY <1>2, <1>3, <1>5 DEF IInv

LEMMA EndKeeps == IInv /\ EndApply => IInv'
<1> SUFFICES ASSUME IInv, EndApply PROVE IInv'
  OBVIOUS
<1>1. place' = "idle" /\ UNCHANGED <<setV, volt, setF, clock, aim, startV, nextBoard, blind>>
  BY DEF EndApply, ApplyGoto, psu, chain
<1>2. ApplyTypeOK' /\ AimOK' /\ SeenOK' /\ WayOK' /\ WrittenOK' /\ OutputOK' /\ RoomOK'
  BY <1>1 DEF IInv, ApplyTypeOK, Places, AimOK, SeenOK, WayOK, WrittenOK, OutputOK,
              RoomOK, CoversNearly, Covers, Stable
<1> QED BY <1>2 DEF IInv

LEMMA FailKeeps == IInv /\ FailApply => IInv'
<1> SUFFICES ASSUME IInv, FailApply PROVE IInv'
  OBVIOUS
<1> USE VoltageApplyAssumption
<1>1. place' = "idle" /\ UNCHANGED <<volt, clock, aim, startV, nextBoard, blind>>
  BY DEF FailApply, ApplyGoto
<1>2. /\ setV \in Voltages /\ aim.v \in Voltages /\ setF \in Clocks /\ clock \in Clocks
  BY DEF IInv, ApplyTypeOK, Points
<1>3. SeenOK' /\ WayOK' /\ WrittenOK' /\ OutputOK' /\ AimOK'
  BY <1>1 DEF IInv, SeenOK, WayOK, WrittenOK, OutputOK, AimOK
<1>4. CASE UNCHANGED <<setV, setF>>
  BY <1>1, <1>3, <1>4 DEF IInv, ApplyTypeOK, Places, RoomOK, CoversNearly, Covers, Stable
<1>5. CASE place = "raise" /\ setV' = aim.v /\ setF' = setF
  <2>1. "unread" \notin blind => setV <= aim.v
    BY <1>2, <1>5 DEF IInv, SeenOK, WayOK, Rises, Voltages
  <2>2. "unread" \notin blind => Covers(aim.v, setF)
    BY <1>2, <2>1, MoreCovers DEF IInv, RoomOK
  <2>3. blind = {} => Covers(aim.v, clock)
    BY <1>2, <2>1, MoreCovers DEF IInv, RoomOK
  <2>4. RoomOK'
    BY <1>1, <1>5, <2>2, <2>3 DEF IInv, RoomOK, CoversNearly, Covers, Stable
  <2> QED BY <1>1, <1>2, <1>3, <1>5, <2>4 DEF IInv, ApplyTypeOK, Places
<1>6. CASE place = "lower" /\ setV' = aim.v /\ setF' = setF
  <2>1. setF = aim.f /\ (blind = {} => clock = setF)
    BY <1>6 DEF IInv, WrittenOK, OutputOK
  <2>2. RoomOK'
    BY <1>1, <1>6, <2>1, AimCovers DEF IInv, RoomOK, CoversNearly, Covers, Stable
  <2> QED BY <1>1, <1>2, <1>3, <1>6, <2>2 DEF IInv, ApplyTypeOK, Places
<1>7. CASE place = "clocks" /\ nextBoard \in Board /\ setF' = Cover(nextBoard) /\ setV' = setV
  <2>1. RoomOK'
    BY <1>1, <1>7, WriteFits DEF IInv, RoomOK, CoversNearly, Covers, Stable
  <2> QED BY <1>1, <1>2, <1>3, <1>7, <2>1, WriteFits DEF IInv, ApplyTypeOK, Places
<1> QED BY <1>4, <1>5, <1>6, <1>7 DEF FailApply

-----------------------------------------------------------------------------
(* The invariant that the theorems below are read off.                     *)
THEOREM Inductive == ApplySpec => []IInv
<1>1. IInv /\ [ApplyNext]_applyVars => IInv'
  <2>1. IInv /\ UNCHANGED applyVars => IInv'
    BY DEF applyVars, psu, chain, applyJob, IInv, ApplyTypeOK, AimOK, SeenOK, WayOK, Rises, WrittenOK,
           OutputOK, VoltageSettled, RoomOK, CoversNearly, Covers, Stable
  <2> QED BY <2>1, VoltageFollowsKeeps, ClockFollowsKeeps, BeginKeeps, ReadyKeeps, RaiseKeeps,
             AwaitVoltageKeeps, WriteClocksKeeps, AwaitClocksKeeps, LowerKeeps, EndKeeps,
             FailKeeps DEF ApplyNext, ApplyStep
<1> QED BY Begins, <1>1, PTL DEF ApplySpec

(* Every state of an application is well formed.                           *)
THEOREM TypeCorrect == ApplySpec => []ApplyTypeOK
<1>1. IInv => ApplyTypeOK
  BY DEF IInv
<1> QED BY Inductive, <1>1, PTL

(* phase1_set_voltage and apply_stable_freqs never leave the miner told to *)
(* run a clock its commanded voltage does not carry, at whatever point     *)
(* they fail, if they could read the voltage they started from.            *)
THEOREM OrderHolds == ApplySpec => []CommandsInOrder
<1>1. IInv => CommandsInOrder
  BY DEF IInv, RoomOK, CommandsInOrder
<1> QED BY Inductive, <1>1, PTL

(* With every wait seeing what it waits for, no clock is ever further      *)
(* above what the output carries than the settle tolerance and the rise    *)
(* that goes unwritten, however late output and boards follow and however  *)
(* many points came before.                                                *)
THEOREM BoundedShortfall == ApplySpec => []ShortfallBounded
<1>1. IInv => ShortfallBounded
  BY DEF IInv, RoomOK, ShortfallBounded
<1> QED BY Inductive, <1>1, PTL
=============================================================================
