------------------------------- MODULE ChipTune -------------------------------
(***************************************************************************)
(* The chips of one cell's chip-tune: the iterative health loop (Phase 3), *)
(* the decrement-only polish (Phase 3b), the thermal handler that throttles*)
(* chips between them, and the resume of a chip-tune that was stopped.     *)
(*                                                                         *)
(* Frequencies are integers in a unit small enough for every setting; the  *)
(* firmware quantises clocks to multiples of Grid (3.125 MHz).  A chip's   *)
(* health score matters only by the branch it selects: "up" (within        *)
(* UP_TOLERANCE of its baseline), "down" (below DOWN_TOLERANCE) or "hold". *)
(* The chips are judged one after the other on the live array, so a move   *)
(* of an earlier chip counts for a later one.                              *)
(*                                                                         *)
(* TuneResume has the same chip-tune as one cell among others, its         *)
(* checkpoints and its crashes.  A definition X_Variant is a wrong version *)
(* of X that shows what a property tells apart; no run uses it.            *)
(***************************************************************************)
EXTENDS Integers

CONSTANTS
  N,            \* chips, in the order they are judged
  BoardOf,      \* the board of each chip
  Parked,       \* parked_chips
  Grid,
  FMinCfg,      \* VF_EXPLORE_F_MIN and VF_EXPLORE_F_MAX as configured
  FMaxCfg,
  Floor,        \* FIRMWARE_FREQ_MIN_MHZ
  DeadFreq,     \* DEAD_CHIP_FREQ
  Spread,       \* CHIP_FREQ_SPREAD_MHZ
  Step,         \* CHIP_TUNE_STEP_MHZ, snapped
  PolishStep,   \* STABILITY_POLISH_STEP_MHZ, snapped
  Drop,         \* FREQ_STEP_EMERGENCY
  Rounds,       \* MAX_PROFILING_ROUNDS
  PolishRounds, \* STABILITY_POLISH_ROUNDS
  Still,        \* CHIP_TUNE_STILLNESS_STREAK
  Seed,         \* the cell's frequency, snapped
  Troubles      \* how many emergencies and hashing breaks there are (bound)

Chips  == 1..N
Alive  == Chips \ Parked
Boards == {BoardOf[c] : c \in Chips}

Larger(a, b)  == IF a >= b THEN a ELSE b
Smaller(a, b) == IF a <= b THEN a ELSE b

\* round(x / grid) * grid.  Grid is odd: there are no ties.
Snap(x) == Grid * ((2 * x + Grid) \div (2 * Grid))

FMin == Larger(Snap(FMinCfg), Floor)
FMax == Snap(FMaxCfg)
\* chip_max of a chip that has not been found unstable yet.
Unbounded == FMax + 1

ASSUME ChipTuneAssumption ==
  /\ N \in Nat \ {0} /\ BoardOf \in [Chips -> Nat] /\ Parked \subseteq Chips
  /\ Grid \in Nat /\ Grid % 2 = 1
  /\ FMinCfg \in Nat /\ FMaxCfg \in Nat
  /\ Floor \in Nat /\ Floor % Grid = 0
  /\ DeadFreq \in Floor..FMax
  /\ Spread \in Nat /\ Step \in Nat \ {0} /\ PolishStep \in Nat \ {0} /\ Drop \in Nat
  /\ Rounds \in Nat /\ PolishRounds \in Nat /\ Still \in Nat \ {0} /\ Troubles \in Nat
  /\ Seed \in FMin..FMax

ASSUME SnappedAssumption == Step % Grid = 0 /\ Seed % Grid = 0

VARIABLES
  freq,     \* stable_freq_arrays
  chipMax,  \* chip_max
  round,    \* profiling_round
  streak,   \* stillness_streak
  polish,   \* polish_round
  pc,
  next,     \* the chip to be judged next
  moved,    \* chips_moved > 0, any_changed
  troubles, \* emergencies and breaks so far
  \* history
  bent,     \* boards throttled since the cell was last seeded
  bad       \* the lowest frequency a chip was found unstable or hot at since then

history == <<bent, bad>>
judging == <<next, moved>>
counts  == <<round, streak, polish>>
vars    == <<freq, chipMax, counts, pc, judging, troubles, history>>

Places == {"round", "steady", "sample", "judge", "polish", "psteady", "psample", "pjudge",
           "done", "stopped"}

TypeOK ==
  /\ freq \in [Chips -> Floor..FMax]
  /\ chipMax \in [Chips -> Floor..Unbounded]
  /\ round \in 0..Rounds /\ streak \in 0..Still /\ polish \in 0..PolishRounds
  /\ pc \in Places /\ next \in 1..N + 1 /\ moved \in BOOLEAN
  /\ troubles \in 0..Troubles
  /\ bent \subseteq Boards
  /\ bad \in [Chips -> Floor..Unbounded]
-----------------------------------------------------------------------------
Mates(c) == {d \in Alive : BoardOf[d] = BoardOf[c]}

WithinSpread(f, chips) == \A d, e \in chips : f[d] - f[e] <= Spread

Fits_Unmoved(c, target) == WithinSpread(freq, Mates(c))

\* The spread of the board with this chip moved.
Fits(c, target) == WithinSpread([freq EXCEPT ![c] = target], Mates(c))

Goto(p) == pc' = p /\ UNCHANGED judging

\* Everything is judged anew.
Judge(p) == pc' = p /\ next' = 1 /\ moved' = FALSE

Move(c, target) == freq' = [freq EXCEPT ![c] = target] /\ moved' = TRUE
Stay            == UNCHANGED <<freq, moved>>
-----------------------------------------------------------------------------
(* Thermal emergencies.  Hot boards lose frequency on every chip, parked   *)
(* ones included, hot chips on their own.  A polish that a resume seeded   *)
(* again has no chip_max to write to, and nothing reads it any more.       *)
Throttle_NoFloor(hot) ==
  /\ troubles < Troubles /\ troubles' = troubles + 1
  /\ freq' = [c \in Chips |-> IF c \in hot THEN freq[c] - Drop ELSE freq[c]]
  /\ UNCHANGED <<chipMax, bad>>
  /\ bent' = bent \cup {BoardOf[c] : c \in hot}

Throttle(hot) ==
  /\ troubles < Troubles /\ troubles' = troubles + 1
  /\ freq' = [c \in Chips |-> IF c \in hot THEN Larger(freq[c] - Drop, Floor) ELSE freq[c]]
  /\ chipMax' = [c \in Chips |-> IF c \in hot THEN Smaller(chipMax[c], freq[c]) ELSE chipMax[c]]
  /\ bad' = [c \in Chips |-> IF c \in hot THEN Smaller(bad[c], freq[c]) ELSE bad[c]]
  /\ bent' = bent \cup {BoardOf[c] : c \in hot}

\* While the chips stabilise: the round goes on.
ThrottleSteady ==
  /\ pc \in {"steady", "psteady"}
  /\ \E hot \in (SUBSET Chips) \ {{}} : Throttle(hot)
  /\ UNCHANGED <<counts, pc, judging>>

\* While they are sampled: the round is repeated.
Repeat ==
  \/ pc = "sample"  /\ round' = round - 1 /\ Goto("round") /\ UNCHANGED <<streak, polish>>
  \/ pc = "psample" /\ polish' = polish - 1 /\ Goto("polish") /\ UNCHANGED <<round, streak>>

ThrottleSampling == Repeat /\ \E hot \in (SUBSET Chips) \ {{}} : Throttle(hot)

HashingBreak ==
  /\ Repeat
  /\ troubles < Troubles /\ troubles' = troubles + 1
  /\ UNCHANGED <<freq, chipMax, history>>
-----------------------------------------------------------------------------
(* Phase 3.                                                                *)
RoundBegins ==
  /\ pc = "round"
  /\ IF round < Rounds THEN round' = round + 1 /\ Goto("steady")
                       ELSE UNCHANGED round /\ Goto("polish")
  /\ UNCHANGED <<freq, chipMax, streak, polish, troubles, history>>

Steady ==
  /\ pc = "steady" /\ Goto("sample")
  /\ UNCHANGED <<freq, chipMax, counts, troubles, history>>

Sampled ==
  /\ pc = "sample" /\ Judge("judge")
  /\ UNCHANGED <<freq, chipMax, counts, troubles, history>>

JudgeNext(c) == next = c /\ next' = next + 1 /\ UNCHANGED <<counts, pc, troubles>>

\* Parked, or neither well nor unwell.
JudgeHold ==
  /\ pc \in {"judge", "pjudge"}
  /\ \E c \in Chips : JudgeNext(c)
  /\ Stay /\ UNCHANGED <<chipMax, history>>

JudgeUp ==
  /\ pc = "judge"
  /\ \E c \in Alive :
       /\ JudgeNext(c)
       /\ LET target == Snap(freq[c] + Step) IN
            IF target <= FMax /\ target > freq[c] /\ target < chipMax[c] /\ Fits(c, target)
            THEN Move(c, target) ELSE Stay
  /\ UNCHANGED <<chipMax, history>>

Unstable_Never(c) == UNCHANGED chipMax

\* The frequency a chip was unstable at bounds its moves from now on.
Unstable(c) == chipMax' = [chipMax EXCEPT ![c] = Smaller(chipMax[c], freq[c])]

JudgeDown ==
  /\ pc = "judge"
  /\ \E c \in Alive :
       /\ JudgeNext(c)
       /\ Unstable(c) /\ bad' = [bad EXCEPT ![c] = Smaller(bad[c], freq[c])]
       /\ LET target == Snap(freq[c] - Step) IN
            IF target >= FMin /\ target < freq[c] /\ Fits(c, target)
            THEN Move(c, target) ELSE Stay
  /\ UNCHANGED bent

(* All chips judged: enough rounds without a move end the phase.           *)
Tally ==
  /\ pc = "judge" /\ next = N + 1
  /\ streak' = IF moved THEN 0 ELSE streak + 1
  /\ Goto(IF streak' >= Still THEN "polish" ELSE "round")
  /\ UNCHANGED <<freq, chipMax, round, polish, troubles, history>>
-----------------------------------------------------------------------------
(* Phase 3b.                                                               *)
PolishBegins ==
  /\ pc = "polish"
  /\ IF polish < PolishRounds THEN polish' = polish + 1 /\ Goto("psteady")
                              ELSE UNCHANGED polish /\ Goto("done")
  /\ UNCHANGED <<freq, chipMax, round, streak, troubles, history>>

PolishSteady ==
  /\ pc = "psteady" /\ Goto("psample")
  /\ UNCHANGED <<freq, chipMax, counts, troubles, history>>

PolishSampled ==
  /\ pc = "psample" /\ Judge("pjudge")
  /\ UNCHANGED <<freq, chipMax, counts, troubles, history>>

PolishDown ==
  /\ pc = "pjudge"
  /\ \E c \in Alive :
       /\ JudgeNext(c)
       /\ LET target == Snap(Larger(FMin, freq[c] - PolishStep)) IN
            IF target < freq[c] /\ Fits(c, target) THEN Move(c, target) ELSE Stay
  /\ UNCHANGED <<chipMax, history>>

\* A round that changes nothing is the last.
PolishTally ==
  /\ pc = "pjudge" /\ next = N + 1
  /\ Goto(IF moved THEN "polish" ELSE "done")
  /\ UNCHANGED <<freq, chipMax, counts, troubles, history>>
-----------------------------------------------------------------------------
(* The operator stops the tune, which sees it between rounds, while it     *)
(* waits and while it samples, and starts it again: phase3_active is       *)
(* cleared, so Phase 3 begins at round 1.                                  *)
Stop ==
  /\ pc \in {"round", "steady", "sample", "polish", "psteady", "psample"}
  /\ Goto("stopped")
  /\ UNCHANGED <<freq, chipMax, counts, troubles, history>>

Incoherent_DeadToo == \E c \in Chips : freq[c] < FMinCfg \/ freq[c] > FMaxCfg

Incoherent ==
  \/ \E c \in Alive : ~WithinSpread(freq, Mates(c))
  \/ \E c \in Alive : freq[c] < FMinCfg \/ freq[c] > FMaxCfg

Seeded == [c \in Chips |-> IF c \in Parked THEN DeadFreq ELSE Seed]

Resume ==
  /\ pc = "stopped"
  /\ IF Incoherent
     THEN /\ freq' = Seeded /\ chipMax' = [c \in Chips |-> Unbounded]
          /\ bent' = {} /\ bad' = [c \in Chips |-> Unbounded]
     ELSE UNCHANGED <<freq, chipMax, history>>
  /\ IF polish > 0 THEN Goto("polish") /\ UNCHANGED <<round, streak>>
                   ELSE Goto("round") /\ round' = 0 /\ streak' = 0
  /\ UNCHANGED <<polish, troubles>>
-----------------------------------------------------------------------------
(* A fresh start at the cell.                                              *)
Init ==
  /\ freq = Seeded /\ chipMax = [c \in Chips |-> Unbounded]
  /\ round = 0 /\ streak = 0 /\ polish = 0
  /\ pc = "round" /\ next = 1 /\ moved = FALSE /\ troubles = 0
  /\ bent = {} /\ bad = [c \in Chips |-> Unbounded]

Done == pc = "done" /\ UNCHANGED vars

Phase3  == RoundBegins \/ Steady \/ Sampled \/ JudgeHold \/ JudgeUp \/ JudgeDown \/ Tally
Phase3b == PolishBegins \/ PolishSteady \/ PolishSampled \/ PolishDown \/ PolishTally
Trouble == ThrottleSteady \/ ThrottleSampling \/ HashingBreak

Next == Phase3 \/ Phase3b \/ Trouble \/ Stop \/ Resume \/ Done

Spec == Init /\ [][Next]_vars
-----------------------------------------------------------------------------
(* However the moves of a round interleave on the live array, the alive    *)
(* chips of a board that was not throttled stay within the frequency range *)
(* and within the spread cap of one another.                               *)
HealthyBoard(b) ==
  LET chips == {c \in Alive : BoardOf[c] = b} IN
    WithinSpread(freq, chips) /\ \A c \in chips : freq[c] \in FMin..FMax
BoardsWithinBounds == \A b \in Boards \ bent : HealthyBoard(b)

(* A chip never climbs back to a frequency it was found unstable or too    *)
(* hot at, through repeated rounds, stops and resumes.  Only the resume    *)
(* that throws the cell's state away may raise it.                         *)
NeverRetriesBad ==
  [][\A c \in Alive :
       freq'[c] > freq[c] => (pc = "stopped" /\ Incoherent) \/ freq'[c] < bad[c]]_vars

\* The step up is blocked by chip_max or by the range (chips_converged).
Converged(c) ==
  LET target == Snap(freq[c] + Step) IN target > FMax \/ target >= chipMax[c]

(* The completion shown is "monotonic within a tune because chip_max only  *)
(* narrows": whatever the scores do, a chip that can no longer step up     *)
(* stays so, so that none goes up and down for ever, whether stillness or  *)
(* the round cap ends the phase.  It holds until a throttle, the polish or *)
(* a resume that starts the cell again.                                    *)
ConvergedStays ==
  [][\A c \in Alive :
       /\ pc # "pjudge" /\ bent' = {} /\ ~(pc = "stopped" /\ Incoherent)
       /\ Converged(c)
       => Converged(c)']_vars

\* The loop rounds the limits to the clock grid, the resume does not: a chip
\* the loop led to a limit may be outside of the configured range.
Beyond(c) ==
  \/ freq[c] = FMin /\ FMin < FMinCfg
  \/ freq[c] = FMax /\ FMax > FMaxCfg

(* Without a throttle a resume keeps every frequency and every chip_max of *)
(* the cell, unless a chip is at a limit that the rounding has moved out   *)
(* of the configured range; then it throws all of them away.               *)
ResumeKeepsProgress ==
  [][pc = "stopped" /\ bent = {} =>
       IF \E c \in Alive : Beyond(c)
       THEN freq' = Seeded /\ chipMax' = [c \in Chips |-> Unbounded]
       ELSE UNCHANGED <<freq, chipMax>>]_vars
=============================================================================
