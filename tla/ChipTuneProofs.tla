---------------------------- MODULE ChipTuneProofs ----------------------------
(***************************************************************************)
(* What ChipTune promises for any number of chips and boards, any clock    *)
(* grid, range, spread and steps, and any number of emergencies.           *)
(*                                                                         *)
(* BoardsWithinBounds is inductive with TypeOK and Counting.  NeverRetriesBad  *)
(* needs Remembered: chip_max has not forgotten a bad frequency.           *)
(* ConvergedStays and ResumeKeepsProgress need two facts more about boards *)
(* that were not throttled: their chips are on the clock grid (OnGrid) and *)
(* until the polish those with a chip_max stay below it (Climbing).        *)
(***************************************************************************)
EXTENDS ChipTune, TLAPS

\* chip_max is at or below every frequency the chip was bad at.
Remembered == \A c \in Chips : chipMax[c] <= bad[c]

\* The counters leave room for what may happen to them next.
Counting ==
  /\ pc \in {"round", "steady", "sample", "judge"} => streak < Still
  /\ pc \in {"steady", "sample"} => round >= 1
  /\ pc \in {"psteady", "psample"} => polish >= 1

IInv == TypeOK /\ Counting /\ BoardsWithinBounds /\ Remembered
-----------------------------------------------------------------------------
(* The clock grid.                                                         *)
LEMMA DivAtLeast ==
  ASSUME NEW d \in Nat \ {0}, NEW y \in Int, NEW k \in Int, y >= d * k
  PROVE  y \div d >= k
<1> DEFINE q == y \div d
           r == y % d
<1>1. q \in Int /\ r \in Int /\ y = d * q + r /\ r < d
  OBVIOUS
<1> HIDE DEF q, r
<1>2. d * (k - q) < d
  BY <1>1
<1>3. ~(k - q >= 1)
  <2> SUFFICES ASSUME k - q >= 1 PROVE FALSE
    OBVIOUS
  <2>1. d * (k - q) >= d
    BY <1>1
  <2> QED
    BY <1>1, <1>2, <2>1
<1> QED
  BY <1>1, <1>3 DEF q

LEMMA SnapIsInt == ASSUME NEW x \in Int PROVE Snap(x) \in Int
BY ChipTuneAssumption DEF Snap

\* Rounding does not cross a multiple of the grid downwards.
LEMMA SnapAtLeast ==
  ASSUME NEW x \in Int, NEW k \in Int, x >= Grid * k
  PROVE  Snap(x) >= Grid * k
<1>1. 2 * Grid \in Nat \ {0} /\ Grid \in Nat \ {0}
  BY ChipTuneAssumption
<1>2. 2 * x + Grid >= (2 * Grid) * k
  BY <1>1
<1>3. (2 * x + Grid) \div (2 * Grid) >= k
  BY <1>1, <1>2, DivAtLeast
<1> QED
  BY <1>1, <1>3 DEF Snap

LEMMA ClockRange == FMin \in Int /\ FMax \in Int /\ Floor \in Nat /\ Floor <= FMin /\ FMin <= FMax
<1>1. Snap(FMinCfg) \in Int /\ Snap(FMaxCfg) \in Int
  BY ChipTuneAssumption, SnapIsInt
<1> QED
  BY <1>1, ChipTuneAssumption DEF FMin, FMax, Larger

\* FMin is on the grid: a polish step that is cut off at FMin ends there.
LEMMA SnapAboveFMin == ASSUME NEW x \in Int, x >= FMin PROVE Snap(x) >= FMin
<1>1. PICK k \in Int : FMin = Grid * k
  <2>1. Snap(FMinCfg) = Grid * ((2 * FMinCfg + Grid) \div (2 * Grid))
    BY DEF Snap
  <2>2. (2 * FMinCfg + Grid) \div (2 * Grid) \in Int
    BY ChipTuneAssumption
  <2>3. Floor = Grid * (Floor \div Grid) /\ Floor \div Grid \in Int
    BY ChipTuneAssumption
  <2> QED
    BY <2>1, <2>2, <2>3 DEF FMin, Larger
<1> QED
  BY <1>1, SnapAtLeast
-----------------------------------------------------------------------------
(* Moving one chip within the spread keeps every board within its bounds,  *)
(* if a chip of a board that was not throttled stays within the range.     *)
InRange(c, target) ==
  /\ target \in Floor..FMax
  /\ BoardOf[c] \notin bent => target >= FMin

LEMMA MoveKeepsBounds ==
  ASSUME TypeOK, BoardsWithinBounds, NEW c \in Alive, NEW target, InRange(c, target),
         Fits(c, target), freq' = [freq EXCEPT ![c] = target], bent' = bent
  PROVE  freq' \in [Chips -> Floor..FMax] /\ BoardsWithinBounds'
<1>1. freq' \in [Chips -> Floor..FMax]
  BY DEF TypeOK, Alive, InRange
<1>2. ASSUME NEW b \in Boards \ bent PROVE HealthyBoard(b)'
  <2> DEFINE chips == {d \in Alive : BoardOf[d] = b}
  <2>1. HealthyBoard(b)
    BY DEF BoardsWithinBounds
  <2>2. \A d \in chips : freq'[d] \in FMin..FMax
    BY <2>1, ClockRange DEF HealthyBoard, TypeOK, Alive, InRange
  <2>3. WithinSpread(freq', chips)
    <3>1. CASE BoardOf[c] = b
      BY <3>1 DEF Fits, Mates
    <3>2. CASE BoardOf[c] # b
      BY <2>1, <3>2 DEF HealthyBoard, WithinSpread, TypeOK, Alive
    <3> QED
      BY <3>1, <3>2
  <2> QED
    BY <2>2, <2>3 DEF HealthyBoard, WithinSpread
<1> QED
  BY <1>1, <1>2 DEF BoardsWithinBounds

\* What does not touch the frequencies keeps them within bounds.
LEMMA BoundsUnchanged ==
  ASSUME BoardsWithinBounds, UNCHANGED <<freq, bent>>
  PROVE  BoardsWithinBounds'
BY DEF BoardsWithinBounds, HealthyBoard, WithinSpread
-----------------------------------------------------------------------------
LEMMA SeededInRange ==
  Seeded \in [Chips -> Floor..FMax] /\ \A c \in Alive : Seeded[c] = Seed
BY ClockRange, ChipTuneAssumption DEF Seeded, Alive

\* Chips that share the cell's frequency are within bounds.
LEMMA UniformIsHealthy ==
  ASSUME NEW f, \A c \in Alive : f[c] = Seed, NEW b \in Boards
  PROVE  LET chips == {c \in Alive : BoardOf[c] = b} IN
           WithinSpread(f, chips) /\ \A c \in chips : f[c] \in FMin..FMax
BY ClockRange, ChipTuneAssumption DEF WithinSpread

LEMMA InitInv == Init => IInv
<1> SUFFICES ASSUME Init PROVE IInv
  OBVIOUS
<1>1. Seeded \in [Chips -> Floor..FMax] /\ \A c \in Alive : Seeded[c] = Seed
  BY SeededInRange
<1>2. moved \in BOOLEAN
  BY DEF Init
<1>3. TypeOK /\ Counting
  BY <1>1, <1>2, ClockRange, ChipTuneAssumption DEF Init, TypeOK, Counting, Places, Unbounded
<1>4. BoardsWithinBounds
  <2>1. \A c \in Alive : freq[c] = Seed
    BY <1>1 DEF Init
  <2> QED
    BY <2>1, UniformIsHealthy DEF BoardsWithinBounds, HealthyBoard
<1>5. Remembered
  BY ClockRange DEF Init, Remembered, Unbounded
<1> QED
  BY <1>3, <1>4, <1>5 DEF IInv

LEMMA JudgingGoesOn ==
  ASSUME TypeOK, NEW c \in Chips, JudgeNext(c)
  PROVE  next' \in 1..N + 1 /\ UNCHANGED <<round, streak, polish, pc, troubles>>
BY ChipTuneAssumption DEF TypeOK, JudgeNext, Chips, counts
-----------------------------------------------------------------------------
(* Steps that move no chip.                                                *)
Waiting ==
  \/ RoundBegins \/ Steady \/ Sampled \/ JudgeHold \/ Tally
  \/ PolishBegins \/ PolishSteady \/ PolishSampled \/ PolishTally
  \/ HashingBreak \/ Stop \/ Done

LEMMA WaitingKeepsInv == IInv /\ Waiting => IInv'
<1> SUFFICES ASSUME IInv, Waiting PROVE IInv'
  OBVIOUS
<1> USE DEF Goto, Judge, Stay, counts, judging, history
<1>1. UNCHANGED <<freq, chipMax, history>>
  BY DEF Waiting, RoundBegins, Steady, Sampled, JudgeHold, Tally, PolishBegins,
         PolishSteady, PolishSampled, PolishTally, HashingBreak, Stop, Done, vars
<1>2. BoardsWithinBounds' /\ Remembered'
  BY <1>1, BoundsUnchanged DEF IInv, Remembered
<1>3. moved' \in BOOLEAN
  BY DEF Waiting, RoundBegins, Steady, Sampled, JudgeHold, Tally, PolishBegins, IInv, TypeOK,
         PolishSteady, PolishSampled, PolishTally, HashingBreak, Repeat, Stop, Done, vars
<1>4. TypeOK' /\ Counting'
  <2> USE ChipTuneAssumption DEF IInv, TypeOK, Counting, Places
  <2>1. CASE RoundBegins
    BY <1>1, <2>1 DEF RoundBegins
  <2>2. CASE Steady
    BY <1>1, <2>2 DEF Steady
  <2>3. CASE Sampled
    BY <1>1, <1>3, <2>3 DEF Sampled
  <2>4. CASE JudgeHold
    BY <1>1, <1>3, <2>4, JudgingGoesOn DEF JudgeHold
  <2>5. CASE Tally
    BY <1>1, <2>5 DEF Tally
  <2>6. CASE PolishBegins
    BY <1>1, <2>6 DEF PolishBegins
  <2>7. CASE PolishSteady
    BY <1>1, <2>7 DEF PolishSteady
  <2>8. CASE PolishSampled
    BY <1>1, <1>3, <2>8 DEF PolishSampled
  <2>9. CASE PolishTally
    BY <1>1, <2>9 DEF PolishTally
  <2>10. CASE HashingBreak
    BY <1>1, <2>10 DEF HashingBreak, Repeat
  <2>11. CASE Stop
    BY <1>1, <2>11 DEF Stop
  <2>12. CASE Done
    BY <1>1, <2>12 DEF Done, vars
  <2> QED
    BY <2>1, <2>2, <2>3, <2>4, <2>5, <2>6, <2>7, <2>8, <2>9, <2>10, <2>11, <2>12
       DEF Waiting
<1> QED
  BY <1>2, <1>4 DEF IInv
-----------------------------------------------------------------------------
(* Steps that judge one chip.                                              *)

\* An unstable chip's frequency is remembered in chip_max as it is in bad.
LEMMA LowerBoth ==
  ASSUME TypeOK, Remembered, NEW c \in Alive, Unstable(c),
         bad' = [bad EXCEPT ![c] = Smaller(bad[c], freq[c])]
  PROVE  /\ chipMax' \in [Chips -> Floor..Unbounded]
         /\ bad' \in [Chips -> Floor..Unbounded]
         /\ Remembered'
BY ClockRange DEF TypeOK, Remembered, Unstable, Smaller, Alive, Unbounded

\* Judging one chip: it stays, or moves within the range and the spread.
LEMMA JudgedKeepsInv ==
  ASSUME IInv, NEW c \in Alive, JudgeNext(c),
         \/ Stay
         \/ \E target : InRange(c, target) /\ Fits(c, target) /\ Move(c, target),
         UNCHANGED bent,
         chipMax' \in [Chips -> Floor..Unbounded], bad' \in [Chips -> Floor..Unbounded],
         Remembered'
  PROVE  IInv'
<1>1. freq' \in [Chips -> Floor..FMax] /\ BoardsWithinBounds'
  <2>1. CASE Stay
    BY <2>1, BoundsUnchanged DEF Stay, IInv, TypeOK
  <2>2. CASE \E target : InRange(c, target) /\ Fits(c, target) /\ Move(c, target)
    BY <2>2, MoveKeepsBounds DEF Move, IInv
  <2> QED
    BY <2>1, <2>2
<1>2. moved' \in BOOLEAN
  BY DEF Stay, Move, IInv, TypeOK
<1>3. next' \in 1..N + 1 /\ UNCHANGED <<round, streak, polish, pc, troubles>>
  BY JudgingGoesOn DEF IInv, Alive
<1> QED
  BY <1>1, <1>2, <1>3 DEF IInv, TypeOK, Counting

LEMMA AtLeastFMin ==
  ASSUME IInv, NEW c \in Alive, BoardOf[c] \notin bent
  PROVE  freq[c] >= FMin
<1>1. HealthyBoard(BoardOf[c])
  BY DEF IInv, BoardsWithinBounds, Boards, Alive
<1> QED
  BY <1>1, ClockRange DEF HealthyBoard

LEMMA JudgeUpKeepsInv == IInv /\ JudgeUp => IInv'
<1> SUFFICES ASSUME IInv, JudgeUp PROVE IInv'
  OBVIOUS
<1> DEFINE Target(c) == Snap(freq[c] + Step)
<1>1. PICK c \in Alive :
        /\ JudgeNext(c)
        /\ IF /\ Target(c) <= FMax /\ Target(c) > freq[c]
              /\ Target(c) < chipMax[c] /\ Fits(c, Target(c))
           THEN Move(c, Target(c)) ELSE Stay
  BY DEF JudgeUp
<1>2. UNCHANGED <<chipMax, bent, bad>>
  BY DEF JudgeUp, history
<1>3. freq[c] \in Int /\ Target(c) \in Int
  BY ClockRange, SnapIsInt, ChipTuneAssumption DEF IInv, TypeOK, Alive
<1> HIDE DEF Target
<1>4. Stay \/ \E target : InRange(c, target) /\ Fits(c, target) /\ Move(c, target)
  BY <1>1, <1>3, AtLeastFMin, ClockRange DEF InRange, IInv, TypeOK, Alive
<1> QED
  BY <1>1, <1>2, <1>4, JudgedKeepsInv DEF IInv, TypeOK, Remembered

LEMMA JudgeDownKeepsInv == IInv /\ JudgeDown => IInv'
<1> SUFFICES ASSUME IInv, JudgeDown PROVE IInv'
  OBVIOUS
<1> DEFINE Target(c) == Snap(freq[c] - Step)
<1>1. PICK c \in Alive :
        /\ JudgeNext(c)
        /\ Unstable(c) /\ bad' = [bad EXCEPT ![c] = Smaller(bad[c], freq[c])]
        /\ IF Target(c) >= FMin /\ Target(c) < freq[c] /\ Fits(c, Target(c))
           THEN Move(c, Target(c)) ELSE Stay
  BY DEF JudgeDown
<1>2. UNCHANGED bent
  BY DEF JudgeDown
<1>3. freq[c] \in Floor..FMax /\ Target(c) \in Int
  BY ClockRange, SnapIsInt, ChipTuneAssumption DEF IInv, TypeOK, Alive
<1> HIDE DEF Target
<1>4. Stay \/ \E target : InRange(c, target) /\ Fits(c, target) /\ Move(c, target)
  BY <1>1, <1>3, ClockRange DEF InRange
<1> QED
  BY <1>1, <1>2, <1>4, LowerBoth, JudgedKeepsInv DEF IInv

LEMMA PolishDownKeepsInv == IInv /\ PolishDown => IInv'
<1> SUFFICES ASSUME IInv, PolishDown PROVE IInv'
  OBVIOUS
<1> DEFINE Target(c) == Snap(Larger(FMin, freq[c] - PolishStep))
<1>1. PICK c \in Alive :
        /\ JudgeNext(c)
        /\ IF Target(c) < freq[c] /\ Fits(c, Target(c)) THEN Move(c, Target(c)) ELSE Stay
  BY DEF PolishDown
<1>2. UNCHANGED <<chipMax, bent, bad>>
  BY DEF PolishDown, history
<1>3. freq[c] \in Floor..FMax
  BY DEF IInv, TypeOK, Alive
<1>4. Target(c) \in Int /\ Target(c) >= FMin
  <2>1. /\ Larger(FMin, freq[c] - PolishStep) \in Int
        /\ Larger(FMin, freq[c] - PolishStep) >= FMin
    BY <1>3, ClockRange, ChipTuneAssumption DEF Larger
  <2> QED
    BY <2>1, SnapIsInt, SnapAboveFMin
<1> HIDE DEF Target
<1>5. Stay \/ \E target : InRange(c, target) /\ Fits(c, target) /\ Move(c, target)
  BY <1>1, <1>3, <1>4, ClockRange DEF InRange
<1> QED
  BY <1>1, <1>2, <1>5, JudgedKeepsInv DEF IInv, TypeOK, Remembered
-----------------------------------------------------------------------------
(* Emergencies, and the resume.                                            *)

LEMMA ThrottleKeepsBounds ==
  ASSUME TypeOK, BoardsWithinBounds, Remembered, NEW hot \in SUBSET Chips, Throttle(hot)
  PROVE  /\ freq' \in [Chips -> Floor..FMax]
         /\ chipMax' \in [Chips -> Floor..Unbounded]
         /\ bad' \in [Chips -> Floor..Unbounded]
         /\ bent' \subseteq Boards /\ troubles' \in 0..Troubles
         /\ BoardsWithinBounds' /\ Remembered'
<1>1. freq' \in [Chips -> Floor..FMax]
  BY ClockRange, ChipTuneAssumption DEF Throttle, TypeOK, Larger
<1>2. /\ chipMax' \in [Chips -> Floor..Unbounded]
      /\ bad' \in [Chips -> Floor..Unbounded]
  BY ClockRange DEF Throttle, TypeOK, Smaller, Unbounded
<1>3. bent' \subseteq Boards /\ troubles' \in 0..Troubles
  BY ChipTuneAssumption DEF Throttle, TypeOK, Boards
<1>4. Remembered'
  BY ClockRange DEF Throttle, TypeOK, Remembered, Smaller, Unbounded
<1>5. BoardsWithinBounds'
  <2> SUFFICES ASSUME NEW b \in Boards \ bent' PROVE HealthyBoard(b)'
    BY DEF BoardsWithinBounds
  <2>1. HealthyBoard(b)
    BY DEF Throttle, BoardsWithinBounds
  <2>2. \A c \in Alive : BoardOf[c] = b => freq'[c] = freq[c]
    BY DEF Throttle, Alive
  <2> QED
    BY <2>1, <2>2 DEF HealthyBoard, WithinSpread
<1> QED
  BY <1>1, <1>2, <1>3, <1>4, <1>5

LEMMA ThrottlingKeepsInv == IInv /\ (ThrottleSteady \/ ThrottleSampling) => IInv'
<1> SUFFICES ASSUME IInv, ThrottleSteady \/ ThrottleSampling PROVE IInv'
  OBVIOUS
<1>1. PICK hot \in SUBSET Chips : Throttle(hot)
  BY DEF ThrottleSteady, ThrottleSampling
<1>2. UNCHANGED <<next, moved>>
  BY <1>1 DEF ThrottleSteady, ThrottleSampling, Repeat, Goto, judging
<1>3. /\ round' \in 0..Rounds /\ streak' \in 0..Still /\ polish' \in 0..PolishRounds
      /\ pc' \in Places /\ Counting'
  <2>1. CASE ThrottleSteady
    BY <2>1 DEF ThrottleSteady, counts, IInv, TypeOK, Counting
  <2>2. CASE ThrottleSampling
    BY <2>2, ChipTuneAssumption DEF ThrottleSampling, Repeat, Goto, IInv, TypeOK, Counting, Places
  <2> QED
    BY <2>1, <2>2
<1> QED
  BY <1>1, <1>2, <1>3, ThrottleKeepsBounds DEF IInv, TypeOK

LEMMA ResumeKeepsInv == IInv /\ Resume => IInv'
<1> SUFFICES ASSUME IInv, Resume PROVE IInv'
  OBVIOUS
<1>1. /\ round' \in 0..Rounds /\ streak' \in 0..Still /\ pc' \in Places /\ Counting'
      /\ UNCHANGED <<polish, next, moved, troubles>>
  BY ChipTuneAssumption
     DEF Resume, IInv, TypeOK, Counting, Goto, judging, Places, history
<1>2. CASE Incoherent
  <2>1. /\ freq' = Seeded /\ chipMax' = [c \in Chips |-> Unbounded]
        /\ bent' = {} /\ bad' = [c \in Chips |-> Unbounded]
    BY <1>2 DEF Resume
  <2>2. freq' \in [Chips -> Floor..FMax] /\ \A c \in Alive : freq'[c] = Seed
    BY <2>1, SeededInRange
  <2>3. /\ chipMax' \in [Chips -> Floor..Unbounded] /\ bad' \in [Chips -> Floor..Unbounded]
        /\ bent' \subseteq Boards /\ Remembered'
    BY <2>1, ClockRange DEF Unbounded, Remembered
  <2>4. BoardsWithinBounds'
    BY <2>2, UniformIsHealthy DEF BoardsWithinBounds, HealthyBoard
  <2> QED
    BY <1>1, <2>2, <2>3, <2>4 DEF IInv, TypeOK
<1>3. CASE ~Incoherent
  <2>1. UNCHANGED <<freq, chipMax, bent, bad>>
    BY <1>3 DEF Resume, history
  <2> QED
    BY <1>1, <2>1, BoundsUnchanged DEF IInv, TypeOK, Remembered
<1> QED
  BY <1>2, <1>3
-----------------------------------------------------------------------------
\* IInv is inductive.
LEMMA NextKeepsInv == IInv /\ [Next]_vars => IInv'
<1> SUFFICES ASSUME IInv, [Next]_vars PROVE IInv'
  OBVIOUS
<1>1. CASE Waiting
  BY <1>1, WaitingKeepsInv
<1>2. CASE JudgeUp
  BY <1>2, JudgeUpKeepsInv
<1>3. CASE JudgeDown
  BY <1>3, JudgeDownKeepsInv
<1>4. CASE PolishDown
  BY <1>4, PolishDownKeepsInv
<1>5. CASE ThrottleSteady \/ ThrottleSampling
  BY <1>5, ThrottlingKeepsInv
<1>6. CASE Resume
  BY <1>6, ResumeKeepsInv
<1>7. CASE UNCHANGED vars
  <2>1. BoardsWithinBounds'
    BY <1>7, BoundsUnchanged DEF vars, history, IInv
  <2> QED
    BY <1>7, <2>1
       DEF vars, counts, judging, history, IInv, TypeOK, Counting, Remembered
<1> QED
  BY <1>1, <1>2, <1>3, <1>4, <1>5, <1>6, <1>7
     DEF Next, Phase3, Phase3b, Trouble, Waiting

(* IInv holds in every state the chip-tune reaches.                        *)
THEOREM Inductive == Spec => []IInv
BY InitInv, NextKeepsInv, PTL DEF Spec

(* TypeOK for every instance: no clock leaves Floor..FMax, no counter its  *)
(* range.                                                                  *)
THEOREM TypeCorrect == Spec => []TypeOK
<1>1. IInv => TypeOK
  BY DEF IInv
<1> QED
  BY <1>1, Inductive, PTL

(* A board that was not throttled stays within the range and the spread,   *)
(* for any number of chips judged one after the other on the live array.   *)
THEOREM BoundsHold == Spec => []BoardsWithinBounds
<1>1. IInv => BoardsWithinBounds
  BY DEF IInv
<1> QED
  BY <1>1, Inductive, PTL

LEMMA OnlyTheJudged ==
  ASSUME TypeOK, NEW d \in Alive, NEW target, Move(d, target),
         NEW c \in Alive, freq'[c] # freq[c]
  PROVE  d = c /\ freq'[c] = target
BY DEF TypeOK, Move, Alive

(* A chip climbs only below what it was bad at, and only in JudgeUp: every *)
(* other step lowers chips, leaves them, or throws the cell's state away.  *)
LEMMA ClimbsBelowBad ==
  ASSUME IInv, [Next]_vars, NEW c \in Alive, freq'[c] > freq[c]
  PROVE  (pc = "stopped" /\ Incoherent) \/ freq'[c] < bad[c]
<1>1. \A d \in Chips : freq[d] \in Int /\ chipMax[d] \in Int /\ bad[d] \in Int
  BY ClockRange DEF IInv, TypeOK, Unbounded
<1>2. c \in Chips
  BY DEF Alive
<1>3. freq'[c] # freq[c] /\ ~UNCHANGED freq
  BY <1>1, <1>2
<1>4. ~Waiting /\ ~UNCHANGED vars
  BY <1>3 DEF Waiting, RoundBegins, Steady, Sampled, JudgeHold, Tally, PolishBegins, Stay,
              PolishSteady, PolishSampled, PolishTally, HashingBreak, Stop, Done, vars
<1>5. CASE JudgeUp
  <2> DEFINE Target(d) == Snap(freq[d] + Step)
  <2>1. PICK d \in Alive :
          IF /\ Target(d) <= FMax /\ Target(d) > freq[d]
             /\ Target(d) < chipMax[d] /\ Fits(d, Target(d))
          THEN Move(d, Target(d)) ELSE Stay
    BY <1>5 DEF JudgeUp
  <2>2. Target(d) \in Int
    BY <1>1, SnapIsInt, ChipTuneAssumption DEF Alive
  <2> HIDE DEF Target
  <2>3. d = c /\ freq'[c] = Target(d) /\ Target(d) < chipMax[d]
    BY <1>3, <2>1, OnlyTheJudged DEF IInv, Stay
  <2>4. chipMax[c] <= bad[c]
    BY <1>2, <1>5 DEF IInv, Remembered, JudgeUp, history
  <2> QED
    BY <1>1, <1>2, <2>2, <2>3, <2>4
<1>6. CASE JudgeDown
  <2> DEFINE Target(d) == Snap(freq[d] - Step)
  <2>1. PICK d \in Alive :
          IF Target(d) >= FMin /\ Target(d) < freq[d] /\ Fits(d, Target(d))
          THEN Move(d, Target(d)) ELSE Stay
    BY <1>6 DEF JudgeDown
  <2>2. Target(d) \in Int
    BY <1>1, SnapIsInt, ChipTuneAssumption DEF Alive
  <2> HIDE DEF Target
  <2>3. d = c /\ freq'[c] = Target(d) /\ Target(d) < freq[d]
    BY <1>3, <2>1, OnlyTheJudged DEF IInv, Stay
  <2> QED
    BY <1>1, <1>2, <2>2, <2>3
<1>7. CASE PolishDown
  <2> DEFINE Target(d) == Snap(Larger(FMin, freq[d] - PolishStep))
  <2>1. PICK d \in Alive :
          IF Target(d) < freq[d] /\ Fits(d, Target(d)) THEN Move(d, Target(d)) ELSE Stay
    BY <1>7 DEF PolishDown
  <2>2. Target(d) \in Int
    <3>1. Larger(FMin, freq[d] - PolishStep) \in Int
      BY <1>1, ClockRange, ChipTuneAssumption DEF Larger, Alive
    <3> QED
      BY <3>1, SnapIsInt
  <2> HIDE DEF Target
  <2>3. d = c /\ freq'[c] = Target(d) /\ Target(d) < freq[d]
    BY <1>3, <2>1, OnlyTheJudged DEF IInv, Stay
  <2> QED
    BY <1>1, <1>2, <2>2, <2>3
<1>8. CASE ThrottleSteady \/ ThrottleSampling
  <2>1. PICK hot \in SUBSET Chips : Throttle(hot)
    BY <1>8 DEF ThrottleSteady, ThrottleSampling
  <2>2. freq'[c] <= freq[c]
    BY <1>2, <2>1, ClockRange, ChipTuneAssumption DEF Throttle, Larger, IInv, TypeOK
  <2> QED
    BY <1>1, <1>2, <2>1, <2>2, ClockRange, ChipTuneAssumption DEF Throttle, Larger, IInv, TypeOK
<1>9. CASE Resume
  BY <1>3, <1>9 DEF Resume
<1> QED
  BY <1>4, <1>5, <1>6, <1>7, <1>8, <1>9 DEF Next, Phase3, Phase3b, Trouble, Waiting

(* No chip climbs back to a frequency it was found unstable or too hot at, *)
(* unless a resume throws the cell's state away.                           *)
THEOREM BadIsNotRetried == Spec => NeverRetriesBad
<1>1. IInv /\ [Next]_vars =>
        [\A c \in Alive :
           freq'[c] > freq[c] => (pc = "stopped" /\ Incoherent) \/ freq'[c] < bad[c]]_vars
  BY ClimbsBelowBad
<1> QED
  BY <1>1, Inductive, PTL DEF Spec, NeverRetriesBad

-----------------------------------------------------------------------------
(* On the clock grid.                                                      *)
LEMMA DivExact ==
  ASSUME NEW d \in Nat \ {0}, NEW k \in Int, NEW r \in 0..d - 1
  PROVE  (d * k + r) \div d = k
<1> DEFINE q == (d * k + r) \div d
           m == (d * k + r) % d
<1>1. q \in Int /\ m \in 0..d - 1 /\ d * k + r = d * q + m
  <2>1. d * k + r \in Int
    OBVIOUS
  <2> QED
    BY <2>1
<1> HIDE DEF q, m
<1>2. d * (k - q) = m - r
  BY <1>1
<1>3. ~(k - q >= 1)
  <2> SUFFICES ASSUME k - q >= 1 PROVE FALSE
    OBVIOUS
  <2>1. d * (k - q) >= d
    BY <1>1
  <2> QED
    BY <1>1, <1>2, <2>1
<1>4. ~(q - k >= 1)
  <2> SUFFICES ASSUME q - k >= 1 PROVE FALSE
    OBVIOUS
  <2>1. d * (q - k) >= d
    BY <1>1
  <2>2. d * (q - k) = r - m
    BY <1>1
  <2> QED
    BY <1>1, <2>1, <2>2
<1> QED
  BY <1>1, <1>3, <1>4 DEF q

LEMMA SnapMultiple == ASSUME NEW k \in Int PROVE Snap(Grid * k) = Grid * k
<1>1. 2 * Grid \in Nat \ {0} /\ Grid \in 0..(2 * Grid) - 1
  BY ChipTuneAssumption
<1>2. ((2 * Grid) * k + Grid) \div (2 * Grid) = k
  BY <1>1, DivExact
<1>3. 2 * (Grid * k) = (2 * Grid) * k
  BY ChipTuneAssumption
<1> QED
  BY <1>2, <1>3 DEF Snap

\* A step from the clock grid stays on it.
LEMMA StepOnGrid ==
  ASSUME NEW x \in Int, Snap(x) = x
  PROVE  Snap(x + Step) = x + Step /\ Snap(x - Step) = x - Step
<1>1. Grid \in Nat \ {0} /\ Step \in Nat
  BY ChipTuneAssumption
<1>2. PICK a \in Int : x = Grid * a
  <2>1. (2 * x + Grid) \div (2 * Grid) \in Int
    BY <1>1
  <2> QED
    BY <2>1 DEF Snap
<1>3. PICK b \in Int : Step = Grid * b
  <2>1. Step \div Grid \in Int /\ Step = Grid * (Step \div Grid)
    BY <1>1, SnappedAssumption
  <2> QED
    BY <2>1
<1>4. x + Step = Grid * (a + b) /\ x - Step = Grid * (a - b)
  BY <1>1, <1>2, <1>3
<1> QED
  BY <1>4, SnapMultiple

LEMMA SeedOnGrid == Snap(Seed) = Seed
<1>1. Grid \in Nat \ {0} /\ Seed \in Int
  BY ClockRange, ChipTuneAssumption
<1>2. Seed \div Grid \in Int /\ Seed = Grid * (Seed \div Grid)
  BY <1>1, SnappedAssumption
<1> QED
  BY <1>2, SnapMultiple

\* What is rounded is on the grid.
LEMMA SnapOnGrid == ASSUME NEW x \in Int PROVE Snap(Snap(x)) = Snap(x)
<1>1. (2 * x + Grid) \div (2 * Grid) \in Int
  BY ChipTuneAssumption
<1> QED
  BY <1>1, SnapMultiple DEF Snap

\* Rounding moves by less than a grid step.
LEMMA SnapIsNear ==
  ASSUME NEW x \in Int PROVE Snap(x) > x - Grid /\ Snap(x) < x + Grid
<1> DEFINE y == 2 * x + Grid
           g == 2 * Grid
<1>1. y \in Int /\ g \in Nat \ {0} /\ Grid \in Nat \ {0}
  BY ChipTuneAssumption
<1>2. y \div g \in Int /\ y % g \in 0..g - 1 /\ y = g * (y \div g) + (y % g)
  <2> HIDE DEF y, g
  <2> QED
    BY <1>1
<1>3. PICK q \in Int : q = y \div g /\ g * q <= y /\ y < g * q + g
  <2> HIDE DEF y
  <2> QED
    BY <1>1, <1>2
<1>4. Snap(x) = Grid * q /\ Grid * q \in Int /\ g * q = 2 * (Grid * q)
  BY <1>1, <1>3 DEF Snap
<1> QED
  BY <1>1, <1>3, <1>4

\* A clock on the grid lies a whole step beyond another or not at all.
LEMMA GridApart ==
  ASSUME NEW x \in Int, NEW y \in Int, Snap(x) = x, Snap(y) = y, x > y
  PROVE  x >= y + Grid
<1>1. Grid \in Nat \ {0}
  BY ChipTuneAssumption
<1>2. PICK a \in Int : x = Grid * a
  <2>1. (2 * x + Grid) \div (2 * Grid) \in Int
    BY <1>1
  <2> QED
    BY <2>1 DEF Snap
<1>3. PICK b \in Int : y = Grid * b
  <2>1. (2 * y + Grid) \div (2 * Grid) \in Int
    BY <1>1
  <2> QED
    BY <2>1 DEF Snap
<1>4. a >= b + 1
  <2> SUFFICES ASSUME a <= b PROVE FALSE
    OBVIOUS
  <2>1. Grid * (b - a) >= 0
    BY <1>1
  <2> QED
    BY <1>1, <1>2, <1>3, <2>1
<1>5. Grid * (a - b - 1) >= 0
  BY <1>1, <1>4
<1> QED
  BY <1>1, <1>2, <1>3, <1>5

LEMMA RangeOnGrid == Snap(FMin) = FMin /\ Snap(FMax) = FMax
<1>1. Snap(Floor) = Floor
  <2>1. Grid \in Nat \ {0} /\ Floor \in Int
    BY ChipTuneAssumption
  <2>2. Floor \div Grid \in Int /\ Floor = Grid * (Floor \div Grid)
    BY <2>1, ChipTuneAssumption
  <2> QED
    BY <2>2, SnapMultiple
<1> QED
  BY <1>1, SnapOnGrid, ChipTuneAssumption DEF FMin, FMax, Larger

\* Within the rounded range, only its limits may be outside of the configured.
LEMMA OnlyLimitsBeyond ==
  ASSUME NEW x \in FMin..FMax, Snap(x) = x
  PROVE  /\ x < FMinCfg => x = FMin /\ FMin < FMinCfg
         /\ x > FMaxCfg => x = FMax /\ FMax > FMaxCfg
<1>1. x \in Int /\ FMin \in Int /\ FMax \in Int /\ FMinCfg \in Int /\ FMaxCfg \in Int
  BY ClockRange, ChipTuneAssumption
<1>2. FMin > FMinCfg - Grid
  BY <1>1, SnapIsInt, SnapIsNear, ChipTuneAssumption DEF FMin, Larger
<1>3. FMax < FMaxCfg + Grid
  BY <1>1, SnapIsNear DEF FMax
<1>4. x > FMin => x >= FMin + Grid
  BY <1>1, RangeOnGrid, GridApart
<1>5. x < FMax => FMax >= x + Grid
  BY <1>1, RangeOnGrid, GridApart
<1> QED
  BY <1>1, <1>2, <1>3, <1>4, <1>5, ChipTuneAssumption
-----------------------------------------------------------------------------
(* Chips of boards that were not throttled.                                *)

\* Nothing has been polished.
Unpolished == polish = 0 \/ (polish = 1 /\ pc \in {"psteady", "psample"})

InPhase3 == pc \in {"round", "steady", "sample", "judge"}

Phases == (InPhase3 => polish = 0) /\ (pc = "pjudge" => polish >= 1)

OnGrid == bent = {} => \A c \in Alive : Snap(freq[c]) = freq[c]

\* Up to chip_max and once down never up again.
Climbing ==
  bent = {} /\ Unpolished =>
    \A c \in Alive : chipMax[c] = Unbounded \/ freq[c] + Step >= chipMax[c]

ClimbInv == IInv /\ Phases /\ OnGrid /\ Climbing

\* Every chip of a board that was not throttled is within the range.
LEMMA AllInRange ==
  ASSUME IInv, bent = {}, NEW c \in Alive
  PROVE  freq[c] \in FMin..FMax /\ freq[c] \in Int /\ chipMax[c] \in Int
<1>1. HealthyBoard(BoardOf[c])
  BY DEF IInv, BoardsWithinBounds, Boards, Alive
<1> QED
  BY <1>1, ClockRange DEF HealthyBoard, IInv, TypeOK, Alive, Unbounded

LEMMA JudgeUpKeepsClimbing ==
  ASSUME IInv, OnGrid, Climbing, bent = {}, Unpolished, JudgeUp
  PROVE  OnGrid' /\ Climbing'
<1> DEFINE Target(c) == Snap(freq[c] + Step)
<1>1. PICK c \in Alive :
        /\ JudgeNext(c)
        /\ IF /\ Target(c) <= FMax /\ Target(c) > freq[c]
              /\ Target(c) < chipMax[c] /\ Fits(c, Target(c))
           THEN Move(c, Target(c)) ELSE Stay
  BY DEF JudgeUp
<1>2. UNCHANGED <<chipMax, bent, polish, pc>>
  BY <1>1 DEF JudgeUp, history, JudgeNext, counts
<1>3. freq[c] \in FMin..FMax /\ freq[c] \in Int /\ chipMax[c] \in Int /\ Snap(freq[c]) = freq[c]
  BY AllInRange DEF OnGrid
<1>4. Target(c) = freq[c] + Step
  BY <1>3, StepOnGrid
<1> HIDE DEF Target
<1>5. CASE Stay
  BY <1>2, <1>5 DEF Stay, OnGrid, Climbing, Unpolished, Snap
<1>6. CASE Move(c, Target(c)) /\ Target(c) < chipMax[c]
  <2> DEFINE t == freq[c] + Step
  <2>1. freq' = [freq EXCEPT ![c] = t] /\ t \in Int /\ t < chipMax[c]
    BY <1>3, <1>4, <1>6, ChipTuneAssumption DEF Move
  <2>2. chipMax[c] = Unbounded
    BY <1>3, <2>1 DEF Climbing
  <2>3. Snap(t) = t
    BY <1>3, StepOnGrid
  <2> HIDE DEF t
  <2>4. freq'[c] = t /\ \A d \in Alive \ {c} : freq'[d] = freq[d]
    BY <2>1 DEF IInv, TypeOK, Alive
  <2>5. \A d \in Alive : /\ Snap(freq'[d]) = freq'[d]
                         /\ chipMax'[d] = Unbounded \/ freq'[d] + Step >= chipMax'[d]
    BY <1>2, <2>2, <2>3, <2>4 DEF OnGrid, Climbing
  <2> QED
    BY <2>5 DEF OnGrid, Climbing, Snap
<1> QED
  BY <1>1, <1>5, <1>6

LEMMA JudgeDownKeepsClimbing ==
  ASSUME IInv, OnGrid, Climbing, bent = {}, Unpolished, JudgeDown
  PROVE  OnGrid' /\ Climbing'
<1> DEFINE Target(c) == Snap(freq[c] - Step)
<1>1. PICK c \in Alive :
        /\ JudgeNext(c) /\ Unstable(c)
        /\ IF Target(c) >= FMin /\ Target(c) < freq[c] /\ Fits(c, Target(c))
           THEN Move(c, Target(c)) ELSE Stay
  BY DEF JudgeDown
<1>2. freq[c] \in FMin..FMax /\ freq[c] \in Int /\ chipMax[c] \in Int /\ Snap(freq[c]) = freq[c]
  BY AllInRange DEF OnGrid
<1>3. Target(c) = freq[c] - Step
  BY <1>2, StepOnGrid
<1> HIDE DEF Target
<1>4. /\ chipMax'[c] <= freq[c] /\ chipMax'[c] \in Int
      /\ \A d \in Alive \ {c} : chipMax'[d] = chipMax[d]
  <2>1. chipMax' = [chipMax EXCEPT ![c] = Smaller(chipMax[c], freq[c])] /\ c \in Chips
    BY <1>1 DEF Unstable, Alive
  <2> QED
    BY <1>2, <2>1, ClockRange DEF IInv, TypeOK, Alive, Smaller, Unbounded
<1>5. /\ freq'[c] \in Int /\ freq'[c] >= freq[c] - Step
      /\ Snap(freq'[c]) = freq'[c] /\ \A d \in Alive \ {c} : freq'[d] = freq[d]
  <2>1. CASE Stay
    BY <1>2, <2>1, ChipTuneAssumption DEF Stay
  <2>2. CASE Move(c, Target(c))
    <3> DEFINE t == freq[c] - Step
    <3>1. freq' = [freq EXCEPT ![c] = t] /\ t \in Int /\ Snap(t) = t /\ t >= freq[c] - Step
      BY <1>2, <1>3, <2>2, StepOnGrid, ChipTuneAssumption DEF Move
    <3> HIDE DEF t
    <3>2. freq'[c] = t /\ \A d \in Alive \ {c} : freq'[d] = freq[d]
      BY <3>1 DEF IInv, TypeOK, Alive
    <3> QED
      BY <3>1, <3>2
  <2> QED
    BY <1>1, <2>1, <2>2
<1>6. \A d \in Alive : /\ Snap(freq'[d]) = freq'[d]
                       /\ chipMax'[d] = Unbounded \/ freq'[d] + Step >= chipMax'[d]
  <2> SUFFICES ASSUME NEW d \in Alive
               PROVE  /\ Snap(freq'[d]) = freq'[d]
                      /\ chipMax'[d] = Unbounded \/ freq'[d] + Step >= chipMax'[d]
    OBVIOUS
  <2>1. CASE d = c
    BY <1>2, <1>4, <1>5, <2>1, ChipTuneAssumption
  <2>2. CASE d # c
    BY <1>4, <1>5, <2>2 DEF OnGrid, Climbing
  <2> QED
    BY <2>1, <2>2
<1> QED
  BY <1>6 DEF OnGrid, Climbing, Snap

LEMMA PolishKeepsGrid ==
  ASSUME IInv, OnGrid, PolishDown
  PROVE  OnGrid'
<1> DEFINE Target(d) == Snap(Larger(FMin, freq[d] - PolishStep))
<1>1. PICK c \in Alive :
        IF Target(c) < freq[c] /\ Fits(c, Target(c)) THEN Move(c, Target(c)) ELSE Stay
  BY DEF PolishDown
<1>2. Snap(Target(c)) = Target(c)
  <2>1. Larger(FMin, freq[c] - PolishStep) \in Int
    BY ClockRange, ChipTuneAssumption DEF Larger, Alive, IInv, TypeOK
  <2> QED
    BY <2>1, SnapOnGrid
<1>3. bent' = bent
  BY DEF PolishDown, history
<1> HIDE DEF Target
<1>4. \A d \in Alive : freq'[d] = freq[d] \/ freq'[d] = Target(c)
  BY <1>1, OnlyTheJudged DEF Stay, IInv
<1> QED
  BY <1>2, <1>3, <1>4 DEF OnGrid, Snap
-----------------------------------------------------------------------------
LEMMA ClimbInit == Init => ClimbInv
<1> SUFFICES ASSUME Init PROVE ClimbInv
  OBVIOUS
<1>1. IInv
  BY InitInv
<1> QED
  BY <1>1, SeededInRange, SeedOnGrid DEF Init, ClimbInv, Phases, OnGrid, Climbing, Alive

LEMMA WaitingKeepsClimb ==
  ASSUME ClimbInv, Waiting
  PROVE  Phases' /\ OnGrid' /\ Climbing' /\ UNCHANGED <<freq, chipMax, bent>>
<1> USE DEF Goto, Judge, Stay, counts, judging, history
<1>1. UNCHANGED <<freq, chipMax, bent>>
  BY DEF Waiting, RoundBegins, Steady, Sampled, JudgeHold, Tally, PolishBegins,
         PolishSteady, PolishSampled, PolishTally, HashingBreak, Stop, Done, vars
<1>2. round \in Nat /\ streak \in Nat /\ polish \in Nat
  BY DEF ClimbInv, IInv, TypeOK
<1>3. Phases'
  BY DEF Waiting, RoundBegins, Steady, Sampled, JudgeHold, Tally, PolishBegins, JudgeNext,
         PolishSteady, PolishSampled, PolishTally, HashingBreak, Repeat, Stop, Done, vars,
         Phases, InPhase3, ClimbInv, IInv, Counting, TypeOK
<1>4. Unpolished' => Unpolished
  BY <1>2 DEF Waiting, RoundBegins, Steady, Sampled, JudgeHold, Tally, PolishBegins, JudgeNext,
              PolishSteady, PolishSampled, PolishTally, HashingBreak, Repeat, Stop, Done, vars,
              Unpolished
<1>5. OnGrid' /\ Climbing'
  BY <1>1, <1>4 DEF OnGrid, Climbing, ClimbInv, Snap
<1> QED
  BY <1>1, <1>3, <1>5

LEMMA JudgingKeepsClimb ==
  ASSUME ClimbInv, JudgeUp \/ JudgeDown
  PROVE  Phases' /\ OnGrid' /\ Climbing'
<1>1. /\ pc = "judge" /\ polish = 0 /\ Unpolished
      /\ UNCHANGED <<pc, polish, bent>>
  BY DEF JudgeUp, JudgeDown, JudgeNext, counts, history, ClimbInv, Phases, InPhase3, Unpolished
<1>2. Phases'
  BY <1>1 DEF Phases, InPhase3
<1>3. CASE bent # {}
  BY <1>1, <1>2, <1>3 DEF OnGrid, Climbing
<1>4. CASE bent = {}
  BY <1>1, <1>2, <1>4, JudgeUpKeepsClimbing, JudgeDownKeepsClimbing DEF ClimbInv
<1> QED
  BY <1>3, <1>4

LEMMA ResumeKeepsClimb ==
  ASSUME ClimbInv, Resume
  PROVE  Phases' /\ OnGrid' /\ Climbing'
<1>1. /\ polish' = polish /\ polish \in Nat
      /\ IF polish > 0 THEN pc' = "polish" ELSE pc' = "round"
  BY DEF Resume, Goto, ClimbInv, IInv, TypeOK
<1>2. Phases'
  BY <1>1 DEF Phases, InPhase3
<1>3. Unpolished' => Unpolished
  BY <1>1 DEF Unpolished
<1>4. OnGrid' /\ Climbing'
  <2>1. CASE Incoherent
    <3>1. \A c \in Alive : freq'[c] = Seed /\ chipMax'[c] = Unbounded
      BY <2>1, SeededInRange DEF Resume, Alive
    <3> QED
      BY <3>1, SeedOnGrid DEF OnGrid, Climbing, Snap
  <2>2. CASE ~Incoherent
    <3>1. UNCHANGED <<freq, chipMax, bent>>
      BY <2>2 DEF Resume, history
    <3> QED
      BY <1>3, <3>1 DEF OnGrid, Climbing, ClimbInv, Snap
  <2> QED
    BY <2>1, <2>2
<1> QED
  BY <1>2, <1>4

LEMMA ClimbInductive == ClimbInv /\ [Next]_vars => ClimbInv'
<1> SUFFICES ASSUME ClimbInv, [Next]_vars PROVE ClimbInv'
  OBVIOUS
<1>1. IInv'
  BY NextKeepsInv DEF ClimbInv
<1>2. CASE Waiting
  BY <1>1, <1>2, WaitingKeepsClimb DEF ClimbInv
<1>3. CASE JudgeUp \/ JudgeDown
  BY <1>1, <1>3, JudgingKeepsClimb DEF ClimbInv
<1>4. CASE PolishDown
  <2>1. pc = "pjudge" /\ polish >= 1 /\ polish \in Nat /\ UNCHANGED <<pc, polish>>
    BY <1>4 DEF PolishDown, JudgeNext, counts, ClimbInv, Phases, IInv, TypeOK
  <2> QED
    BY <1>1, <1>4, <2>1, PolishKeepsGrid DEF ClimbInv, Phases, InPhase3, Climbing, Unpolished
<1>5. CASE ThrottleSteady \/ ThrottleSampling
  <2>1. bent' # {}
    BY <1>5 DEF ThrottleSteady, ThrottleSampling, Throttle
  <2>2. Phases'
    BY <1>5 DEF ThrottleSteady, ThrottleSampling, Repeat, Goto, counts,
                ClimbInv, Phases, InPhase3
  <2> QED
    BY <1>1, <2>1, <2>2 DEF ClimbInv, OnGrid, Climbing
<1>6. CASE Resume
  BY <1>1, <1>6, ResumeKeepsClimb DEF ClimbInv
<1>7. CASE UNCHANGED vars
  <2>1. UNCHANGED <<freq, chipMax, polish, pc, bent>>
    BY <1>7 DEF vars, counts, history
  <2> QED
    BY <1>1, <2>1 DEF ClimbInv, Phases, InPhase3, OnGrid, Climbing, Unpolished, Snap
<1> QED
  BY <1>2, <1>3, <1>4, <1>5, <1>6, <1>7 DEF Next, Phase3, Phase3b, Trouble, Waiting
-----------------------------------------------------------------------------
LEMMA JudgingKeepsConverged ==
  ASSUME ClimbInv, JudgeUp \/ JudgeDown, bent' = {}, NEW c \in Alive, Converged(c)
  PROVE  Converged(c)'
<1>1. bent = {} /\ Unpolished
  BY DEF JudgeUp, JudgeDown, history, ClimbInv, Phases, InPhase3, Unpolished
<1>2. /\ freq[c] \in Int /\ chipMax[c] \in Int /\ Step \in Nat \ {0}
      /\ Snap(freq[c] + Step) = freq[c] + Step
  <2>1. Snap(freq[c]) = freq[c]
    BY <1>1 DEF ClimbInv, OnGrid
  <2> QED
    BY <1>1, <2>1, AllInRange, StepOnGrid, ChipTuneAssumption DEF ClimbInv
<1>3. freq[c] + Step > FMax \/ freq[c] + Step >= chipMax[c]
  BY <1>2 DEF Converged
<1>4. CASE JudgeUp
  <2>1. UNCHANGED chipMax
    BY <1>4 DEF JudgeUp
  <2>2. freq'[c] = freq[c]
    <3> DEFINE Target(d) == Snap(freq[d] + Step)
    <3>1. PICK d \in Alive :
            IF /\ Target(d) <= FMax /\ Target(d) > freq[d]
               /\ Target(d) < chipMax[d] /\ Fits(d, Target(d))
            THEN Move(d, Target(d)) ELSE Stay
      BY <1>4 DEF JudgeUp
    <3>2. d = c => ~(Target(d) <= FMax /\ Target(d) < chipMax[d])
      BY <1>2, <1>3, ClockRange
    <3> HIDE DEF Target
    <3>3. Stay \/ (d # c /\ Move(d, Target(d)))
      BY <3>1, <3>2
    <3> QED
      BY <3>3, OnlyTheJudged DEF Stay, ClimbInv, IInv
  <2> QED
    BY <1>2, <1>3, <2>1, <2>2 DEF Converged, Snap
<1>5. CASE JudgeDown
  <2> DEFINE Target(d) == Snap(freq[d] - Step)
  <2>1. PICK d \in Alive :
          /\ Unstable(d)
          /\ IF Target(d) >= FMin /\ Target(d) < freq[d] /\ Fits(d, Target(d))
             THEN Move(d, Target(d)) ELSE Stay
    BY <1>5 DEF JudgeDown
  <2>2. OnGrid' /\ Climbing'
    BY <1>1, <1>5, JudgeDownKeepsClimbing DEF ClimbInv
  <2> HIDE DEF Target
  <2>3. CASE d = c
    <3>1. chipMax'[c] <= FMax /\ chipMax'[c] \in Int
      <4>1. chipMax' = [chipMax EXCEPT ![c] = Smaller(chipMax[c], freq[c])] /\ c \in Chips
        BY <2>1, <2>3 DEF Unstable, Alive
      <4> QED
        BY <1>1, <1>2, <4>1, AllInRange, ClockRange DEF ClimbInv, IInv, TypeOK, Smaller
    <3>2. Snap(freq'[c]) = freq'[c] /\ freq'[c] + Step >= chipMax'[c] /\ freq'[c] \in Int
      <4>1. Unpolished' /\ IInv'
        BY <1>1, <1>5, JudgeDownKeepsInv DEF JudgeDown, JudgeNext, counts, Unpolished, ClimbInv
      <4>2. freq'[c] \in Int
        BY <4>1, ClockRange DEF IInv, TypeOK, Alive
      <4>3. Snap(freq'[c]) = freq'[c] /\ (chipMax'[c] = Unbounded \/ freq'[c] + Step >= chipMax'[c])
        BY <2>2, <4>1 DEF OnGrid, Climbing, Snap
      <4> QED
        BY <3>1, <4>2, <4>3, ClockRange DEF Unbounded
    <3>3. Snap(freq'[c] + Step) = freq'[c] + Step
      BY <3>2, StepOnGrid
    <3> QED
      BY <3>2, <3>3 DEF Converged, Snap
  <2>4. CASE d # c
    <3>1. chipMax'[c] = chipMax[c]
      BY <2>1, <2>4 DEF Unstable, ClimbInv, IInv, TypeOK, Alive
    <3>2. freq'[c] = freq[c]
      BY <2>1, <2>4, OnlyTheJudged DEF Stay, ClimbInv, IInv
    <3> QED
      BY <1>2, <1>3, <3>1, <3>2 DEF Converged, Snap
  <2> QED
    BY <2>3, <2>4
<1> QED
  BY <1>4, <1>5

(* The completion that is shown never falls, whatever the scores do and    *)
(* however many rounds there are: a chip that can no longer step up stays  *)
(* so until a throttle, the polish or a resume that starts again.          *)
THEOREM ProgressDoesNotFall == Spec => ConvergedStays
<1>1. ClimbInv /\ [Next]_vars =>
        [\A c \in Alive :
           /\ pc # "pjudge" /\ bent' = {} /\ ~(pc = "stopped" /\ Incoherent)
           /\ Converged(c)
           => Converged(c)']_vars
  <2> SUFFICES ASSUME ClimbInv, Next, pc # "pjudge", bent' = {},
                      ~(pc = "stopped" /\ Incoherent), NEW c \in Alive, Converged(c)
               PROVE  Converged(c)'
    OBVIOUS
  <2>1. CASE JudgeUp \/ JudgeDown
    BY <2>1, JudgingKeepsConverged
  <2>2. CASE Waiting
    BY <2>2, WaitingKeepsClimb DEF Converged, Snap
  <2>3. CASE Resume
    BY <2>3 DEF Resume, Converged, Snap
  <2>4. ~PolishDown
    BY DEF PolishDown
  <2>5. ~(ThrottleSteady \/ ThrottleSampling)
    BY DEF ThrottleSteady, ThrottleSampling, Throttle
  <2> QED
    BY <2>1, <2>2, <2>3, <2>4, <2>5 DEF Next, Phase3, Phase3b, Trouble, Waiting
<1> QED
  BY <1>1, ClimbInit, ClimbInductive, PTL DEF Spec, ConvergedStays

(* Without a throttle a resume discards the cell's state exactly when a    *)
(* chip is at a limit that rounding has moved out of the configured range, *)
(* whatever the range, the grid and the steps are.                         *)
THEOREM ProgressIsKept == Spec => ResumeKeepsProgress
<1> DEFINE Kept == IF \E c \in Alive : Beyond(c)
                   THEN freq' = Seeded /\ chipMax' = [c \in Chips |-> Unbounded]
                   ELSE UNCHANGED <<freq, chipMax>>
<1>1. ClimbInv /\ [Next]_vars => [pc = "stopped" /\ bent = {} => Kept]_vars
  <2> SUFFICES ASSUME ClimbInv, Next, pc = "stopped", bent = {}
               PROVE  Kept
    OBVIOUS
  <2>1. Resume
    BY DEF Next, Phase3, Phase3b, Trouble, RoundBegins, Steady, Sampled, JudgeHold, JudgeUp,
           JudgeDown, Tally, PolishBegins, PolishSteady, PolishSampled, PolishDown,
           PolishTally, ThrottleSteady, ThrottleSampling, HashingBreak, Repeat, Stop, Done
  <2>2. \A c \in Alive : WithinSpread(freq, Mates(c))
    BY DEF ClimbInv, IInv, BoardsWithinBounds, HealthyBoard, Boards, Mates, Alive
  <2>3. \A c \in Alive : (freq[c] < FMinCfg \/ freq[c] > FMaxCfg) <=> Beyond(c)
    <3> SUFFICES ASSUME NEW c \in Alive
                 PROVE  (freq[c] < FMinCfg \/ freq[c] > FMaxCfg) <=> Beyond(c)
      OBVIOUS
    <3>1. freq[c] \in FMin..FMax /\ Snap(freq[c]) = freq[c]
      BY AllInRange DEF ClimbInv, OnGrid
    <3>2. /\ freq[c] < FMinCfg => freq[c] = FMin /\ FMin < FMinCfg
          /\ freq[c] > FMaxCfg => freq[c] = FMax /\ FMax > FMaxCfg
      BY <3>1, OnlyLimitsBeyond
    <3> QED
      BY <3>2 DEF Beyond
  <2>4. Incoherent <=> \E c \in Alive : Beyond(c)
    BY <2>2, <2>3 DEF Incoherent
  <2> QED
    BY <2>1, <2>4 DEF Resume
<1> QED
  BY <1>1, ClimbInit, ClimbInductive, PTL DEF Spec, ResumeKeepsProgress
=============================================================================
