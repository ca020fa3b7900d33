----------------------------- MODULE Whatsminer -----------------------------
(***************************************************************************)
(* The grid search of a stock Whatsminer: discover the power modes, then   *)
(* measure every (power limit, frequency) cell, a finer grid around the    *)
(* best one, and hold the best cell ever measured, measuring it again      *)
(* every cycle and searching anew after two drifted samples.               *)
(*                                                                         *)
(* The frequency is set as a mode and a percentage of a mode's baseline.   *)
(* The engine remembers what it has set and sends only what differs.  What *)
(* it remembers of a percentage is the pair <<frequency, baseline>>; what  *)
(* it sends is the whole part of it.  The baselines are what discovery     *)
(* read, or one and the same fallback where the miner tells no frequency.  *)
(* Of the measurements of one cell only the lowest J/TH is kept, and none   *)
(* without hash rate: nothing else is ever chosen.                         *)
(* A definition X_Variant is a wrong version of X that the properties are   *)
(* tested with; no run uses it.                                            *)
(***************************************************************************)
EXTENDS Worker

CONSTANTS
  Miners,   \* [native, supports, anchor, tells, says132, fine, faults, lands]: the
            \* frequency of each mode, the modes the hardware has, what a percentage
            \* refers to, whether a summary tells the frequency and a refusal its
            \* code, the pair <<WHATSMINER_FINE_COUNT, WHATSMINER_FINE_TOP_K>>, how
            \* many commands and processes may fail (a bound), and the J/TH of
            \* every <<power limit, frequency>> at different times
  Fallback,               \* the baseline of a mode whose frequency is not told (500 MHz)
  PlMin, PlMax, PlCount,  \* WHATSMINER_PL_MIN_W, POWER_LIMIT_W, WHATSMINER_PL_COUNT
  FMin, FMax, FCount,     \* WHATSMINER_FREQ_...
  Drift                   \* the change of J/TH that counts as drift

Modes == <<"low", "normal", "high">>
Knobs == {"mode", "percent", "limit"}

ModeNames == {"low", "normal", "high"}

ASSUME WhatsminerAssumption ==
  /\ PlMin \in Nat /\ PlMax \in Nat /\ PlMin < PlMax /\ PlCount \in Nat /\ PlCount >= 2
  /\ FMin \in Nat /\ FMax \in Nat /\ FMin < FMax /\ FCount \in Nat /\ FCount >= 2
  /\ Drift \in Nat /\ Fallback \in Nat \ {0}
  /\ \A m \in Miners :
       /\ m.native \in [ModeNames -> Nat \ {0}] /\ m.supports \subseteq ModeNames
       /\ m.anchor \in {"current_mode", "normal_only"}
       /\ m.tells \in BOOLEAN /\ m.says132 \in BOOLEAN
       /\ m.fine \in Nat \X Nat /\ m.faults \in Nat
       /\ m.lands \subseteq [(PlMin..PlMax) \X (FMin..FMax) -> Nat]

\* Nothing that is set or found is None.
ASSUME NoneAssumption ==
  /\ None \notin Int /\ None \notin Nat \X Nat
  /\ None \notin ModeNames /\ \A s \in SUBSET ModeNames : None \notin [s -> Nat]
  /\ None \notin {"current_mode", "normal_only"}

VARIABLES
  baselines,   \* the frequency discovery read of every mode it found, or None
  pctAnchor,   \* whatsminer_freq_pct_anchor, or None
  cache,       \* _wm_current_mode, _wm_current_percent, _wm_current_power_limit
  cells,       \* vf_surface and whatsminer_results
  bestCell, streak,
  \* the worker
  found,       \* what discovery has read of the modes it has been through
  plan, cell,  \* cells still to measure, and the one being measured
  \* the files
  cellProfile, cellDisk,
  \* the miner
  miner, liveWm, land, faults,
  \* history
  doubt        \* why the miner may not be set as the engine believes

wmEngine == <<baselines, pctAnchor, cache, cells, bestCell, streak>>
wmTask   == <<found, plan, cell>>
wmFiles  == <<cellProfile, cellDisk>>
wmWorld  == <<miner, liveWm, land, faults, doubt>>
whatsminer == <<wmEngine, wmTask, wmFiles, wmWorld>>
-----------------------------------------------------------------------------
(* whatsminer_grid.py                                                      *)

PlAxis == [i \in 1..PlCount |-> PlMax - ((i - 1) * (PlMax - PlMin)) \div (PlCount - 1)]
FAxis  == [i \in 1..FCount |-> FMax - ((i - 1) * (FMax - FMin)) \div (FCount - 1)]

Gap(a, b) == IF a > b THEN a - b ELSE b - a

Place(m) == CHOOSE r \in 1..3 : Modes[r] = m

Anchor == IF pctAnchor = None THEN "current_mode" ELSE pctAnchor

\* What the engine takes a percentage in a mode to refer to.
Base(m) == IF Anchor = "current_mode" THEN baselines[m] ELSE baselines["normal"]

Found == IF baselines = None THEN {} ELSE DOMAIN baselines

\* The supported modes a frequency is within a doubling of.
InReach(f) == {m \in Found : f <= 2 * Base(m)}

\* Of two modes as near, the one that discovery tried first.
Nearer(f, m, n) ==
  \/ Gap(f, baselines[m]) < Gap(f, baselines[n])
  \/ Gap(f, baselines[m]) = Gap(f, baselines[n]) /\ Place(m) <= Place(n)

NearestMode(f) ==
  LET choice == IF InReach(f) = {} THEN Found ELSE InReach(f)
  IN CHOOSE m \in choice : \A n \in choice : Nearer(f, m, n)

Percent(f, base) == <<IF f <= 2 * base THEN f ELSE 2 * base, base>>

\* No mode at all, or percentages of the baseline of a normal mode that has none.
NoMode == Found = {} \/ (Anchor = "normal_only" /\ "normal" \notin Found)

ModeAndPercent_OfMode(f) ==
  IF NoMode THEN None
  ELSE <<NearestMode(f), Percent(f, baselines[NearestMode(f)])>>

\* <<mode, percent>>, of the nearest mode in reach, or of the nearest with the
\* percentage capped; None when it raises.
ModeAndPercent(f) ==
  IF NoMode THEN None ELSE <<NearestMode(f), Percent(f, Base(NearestMode(f)))>>

\* Percentages that differ by no more than 0.01 are the same.
SamePercent(p, q) ==
  p # None /\ q # None /\ 10000 * Gap(p[1] * q[2], q[1] * p[2]) <= p[2] * q[2]

\* set_target_freq sends int(percent), which is cut towards zero.
Whole(p) == IF p[1] >= p[2] THEN (100 * (p[1] - p[2])) \div p[2] ELSE -((100 * (p[2] - p[1])) \div p[2])

Wire(k, x) == IF k = "percent" THEN Whole(x) ELSE x

\* The miner: what its percentages refer to, and the frequency it runs at.
TrueBase(m) == IF miner.anchor = "current_mode" THEN miner.native[m] ELSE miner.native["normal"]

Clock(m, percent) ==
  IF percent = None THEN miner.native[m] ELSE (TrueBase(m) * (100 + percent)) \div 100

\* The percentage in the miner, of a baseline, is a frequency to within what is cut off.
Gives(base, f) == 100 * Gap(100 * f, base * (100 + liveWm.percent)) < 101 * base

RunsAt(f) == IF liveWm.percent = None THEN miner.native[liveWm.mode] = f
             ELSE Gives(TrueBase(liveWm.mode), f)
-----------------------------------------------------------------------------
\* Outer mode, then frequency, then power limit, each axis from its top.
Rank(f) ==
  LET mp == ModeAndPercent(f)
      mode == IF mp = None THEN "normal" ELSE mp[1]
  IN Place(mode)

CoarsePlan ==
  {[key |-> <<Rank(FAxis[i]), i, j>>, pl |-> PlAxis[j], f |-> FAxis[i], fine |-> FALSE] :
     i \in 1..FCount, j \in 1..PlCount}

Clamp(lo, x, hi) == IF x > hi THEN hi ELSE IF x < lo THEN lo ELSE x
HalfStep(lo, hi, n) == LET s == (hi - lo) \div n IN (IF s > 1 THEN s ELSE 1) \div 2

FinePlan(anchors) ==
  LET half == miner.fine[1] \div 2
  IN {[key |-> <<r, i, j>>, fine |-> TRUE,
       pl |-> Clamp(PlMin, anchors[r].pl + i * HalfStep(PlMin, PlMax, PlCount), PlMax),
       f  |-> Clamp(FMin, anchors[r].f + j * HalfStep(FMin, FMax, FCount), FMax)] :
        r \in DOMAIN anchors, i \in -half..half, j \in -half..half}

Before(k, l) ==
  \/ k[1] < l[1]
  \/ k[1] = l[1] /\ k[2] < l[2]
  \/ k[1] = l[1] /\ k[2] = l[2] /\ k[3] < l[3]

First(todo) == CHOOSE c \in todo : \A d \in todo : c = d \/ Before(c.key, d.key)

SameCell(c, d) == c.pl = d.pl /\ c.f = d.f /\ c.fine = d.fine

Lowest(s) == {c \in s : \A d \in s : c.eff <= d.eff}
-----------------------------------------------------------------------------
CellNow == [baselines |-> baselines', pctAnchor |-> pctAnchor', cache |-> cache',
            cells |-> cells', bestCell |-> bestCell', streak |-> streak']

CellCheckpoint ==
  /\ cellDisk' = IF cellProfile THEN cellDisk ELSE CellNow
  /\ UNCHANGED cellProfile

CellProfile == cellDisk' = CellNow /\ cellProfile' = TRUE

NothingSet == [mode |-> None, percent |-> None, limit |-> None]

WhatsminerInit ==
  /\ baselines = None /\ pctAnchor = None /\ cache = NothingSet
  /\ cells = {} /\ bestCell = None /\ streak = 0
  /\ found = <<>> /\ plan = {} /\ cell = None
  /\ miner \in Miners /\ land \in miner.lands /\ faults = miner.faults
  /\ liveWm = [mode |-> "normal", percent |-> None, limit |-> None]
  /\ doubt = {} /\ cellProfile = FALSE
  /\ cellDisk = [baselines |-> None, pctAnchor |-> None, cache |-> NothingSet, cells |-> {},
                 bestCell |-> None, streak |-> 0]

WhatsminerTypeOK ==
  /\ baselines = None \/ \E s \in SUBSET miner.supports : baselines \in [s -> Nat \ {0}]
  /\ pctAnchor \in {"current_mode", "normal_only", None}
  /\ \A c \in cells : /\ c.pl \in PlMin..PlMax /\ c.f \in FMin..FMax
                      /\ c.eff \in Nat
  /\ bestCell = None \/ \E c \in cells : SameCell(c, bestCell)
  /\ streak \in 0..1
  /\ cache.mode \in miner.supports \cup {None} /\ liveWm.mode \in miner.supports \cup {"normal"}
  /\ faults \in 0..miner.faults /\ doubt \subseteq Knobs
  /\ liveWm.percent \in -100..100 \cup {None}
  /\ pc \in {"mode", "percent", "limit", "sample"} =>
       baselines # None /\ cell.pl \in PlMin..PlMax /\ cell.f \in FMin..FMax
-----------------------------------------------------------------------------
Fault == faults > 0 /\ faults' = faults - 1

(* _phase_whatsminer_discovery                                             *)

BeginPass ==
  /\ Looping("entry")
  /\ \/ baselines = None /\ found' = <<>> /\ plan' = {} /\ Goto("discover")
     \/ baselines # None /\ found' = <<>> /\ plan' = CoarsePlan /\ Goto("coarse")
  /\ UNCHANGED <<wmEngine, cell, wmFiles, wmWorld>>

NextMode == Modes[Len(found) + 1]

\* set_power_mode reaches the miner; the waits after it never raise.  No summary of
\* btminer that from_whatsminer knows tells a frequency.
FindMode ==
  /\ Looping("discover") /\ Len(found) < 3 /\ NextMode \in miner.supports
  /\ LET told == IF miner.tells THEN Clock(NextMode, liveWm.percent) ELSE 0
     IN found' = Append(found, IF told = 0 THEN Fallback ELSE told)
  /\ Goto("discover")
  /\ cache' = [cache EXCEPT !.mode = NextMode]
  /\ liveWm' = [liveWm EXCEPT !.mode = NextMode] /\ doubt' = doubt \ {"mode"}
  /\ UNCHANGED <<baselines, pctAnchor, cells, bestCell, streak, plan, cell, wmFiles, miner, land, faults>>

\* A refusal that says 132; or the miner is unreachable, before or after it has
\* switched: the mode counts as unsupported from now on.
MissMode ==
  /\ Looping("discover") /\ Len(found) < 3
  /\ found' = Append(found, None) /\ Goto("discover")
  /\ \/ NextMode \notin miner.supports /\ miner.says132 /\ UNCHANGED <<liveWm, doubt, faults>>
     \/ /\ Fault /\ doubt' = doubt \cup {"mode"}
        /\ \/ UNCHANGED liveWm
           \/ NextMode \in miner.supports /\ liveWm' = [liveWm EXCEPT !.mode = NextMode]
  /\ UNCHANGED <<wmEngine, plan, cell, wmFiles, miner, land>>

\* What raises ends the strategy; nothing is kept but the mode in the cache.
Raises ==
  /\ Looping("discover") /\ Len(found) < 3 /\ found' = <<>>
  /\ UNCHANGED <<wmEngine, plan, cell, wmFiles, miner, land>>

DiscoveryRaises ==
  /\ Raises /\ Fault /\ Goto("entry")
  /\ \/ UNCHANGED <<liveWm, doubt>>
     \/ /\ NextMode \in miner.supports
        /\ liveWm' = [liveWm EXCEPT !.mode = NextMode] /\ doubt' = doubt \cup {"mode"}

\* A refusal without the code is not taken for one, and comes again at every retry.
Refused ==
  /\ Raises /\ NextMode \notin miner.supports /\ ~miner.says132
  /\ UNCHANGED <<liveWm, faults, doubt>>

RetryRefused == Refused /\ Goto("entry")

GiveUpRefused == Refused /\ Goto("off")

Supported == {Modes[i] : i \in {j \in 1..3 : found[j] # None}}

\* The first supported mode.
Probe == CHOOSE m \in Supported : \A n \in Supported : Place(m) <= Place(n)

\* What ten percent of the probe's and of the normal mode's baseline would give.
OwnBase    == found[Place(Probe)]
NormalBase == found[Place("normal")]

Inconclusive ==
  /\ NormalBase # None
  /\ \/ 50 * (OwnBase - NormalBase) < OwnBase /\ OwnBase >= NormalBase
     \/ 50 * (NormalBase - OwnBase) < NormalBase /\ NormalBase > OwnBase

\* The nearer of the two to what the miner runs at.
Told(clock) ==
  IF NormalBase = None \/ Gap(10 * clock, 11 * OwnBase) < Gap(10 * clock, 11 * NormalBase)
  THEN "current_mode" ELSE "normal_only"

\* The probe leaves the first supported mode and ten percent in the miner, and
\* the cache as it was.  With expectations that are too close the search goes on
\* without an anchor, and nothing is saved.
ProbeAnchor ==
  /\ At("discover") /\ Len(found) = 3
  /\ baselines' = [m \in Supported |-> found[Place(m)]] /\ found' = <<>> /\ Goto("start")
  /\ UNCHANGED <<cache, cells, bestCell, streak, plan, cell, miner, land>>
  /\ LET left == [liveWm EXCEPT !.mode = Probe, !.percent = 10]
     IN \/ /\ Supported = {} /\ pctAnchor' = "current_mode" /\ UNCHANGED <<liveWm, faults, doubt>>
           /\ CellCheckpoint
        \/ /\ Supported # {} /\ miner.tells /\ Inconclusive
           /\ liveWm' = left /\ doubt' = doubt \cup {"mode", "percent"}
           /\ UNCHANGED <<pctAnchor, faults, wmFiles>>
        \/ /\ Supported # {} /\ ~(miner.tells /\ Inconclusive)
           /\ liveWm' = left /\ doubt' = doubt \cup {"mode", "percent"}
           /\ pctAnchor' = IF miner.tells THEN Told(Clock(Probe, 10)) ELSE "current_mode"
           /\ UNCHANGED faults /\ CellCheckpoint
        \/ /\ Supported # {} /\ Fault
           /\ liveWm' \in {liveWm, [liveWm EXCEPT !.mode = Probe], left}
           /\ doubt' = doubt \cup {"mode", "percent"}
           /\ pctAnchor' = "current_mode" /\ CellCheckpoint

StartGrid ==
  /\ Looping("start") /\ plan' = CoarsePlan /\ Goto("coarse")
  /\ UNCHANGED <<wmEngine, found, cell, wmFiles, wmWorld>>
-----------------------------------------------------------------------------
(* _run_whatsminer_pass, _measure_pl_freq_cell                             *)

Take_Again(place) ==
  /\ Looping(place) /\ plan # {}
  /\ cell' = First(plan) /\ plan' = plan /\ Goto("mode")
  /\ UNCHANGED <<wmEngine, found, wmFiles, wmWorld>>

Take(place) ==
  /\ Looping(place) /\ plan # {}
  /\ cell' = First(plan) /\ plan' = plan \ {First(plan)} /\ Goto("mode")
  /\ UNCHANGED <<wmEngine, found, wmFiles, wmWorld>>

TakeCoarse == Take("coarse")
TakeFine   == Take("fine")

\* What the cell needs of a knob, and whether it is sent.
Wanted(k) ==
  LET mp == ModeAndPercent(cell.f)
  IN IF k = "limit" THEN cell.pl
     ELSE IF mp = None THEN None ELSE IF k = "mode" THEN mp[1] ELSE mp[2]

Differs(k) ==
  /\ Wanted(k) # None
  /\ IF k = "percent" THEN ~SamePercent(cache[k], Wanted(k)) ELSE cache[k] # Wanted(k)

After == [mode |-> "percent", percent |-> "limit", limit |-> "sample"]

\* None of the three looks at running.
SetKnob(k) ==
  /\ At(k) /\ Differs(k) /\ Goto(After[k])
  /\ liveWm' = [liveWm EXCEPT ![k] = Wire(k, Wanted(k))] /\ cache' = [cache EXCEPT ![k] = Wanted(k)]
  /\ doubt' = doubt \ {k}
  /\ UNCHANGED <<baselines, pctAnchor, cells, bestCell, streak, wmTask, wmFiles, miner, land,
                 faults>>

\* A failure is logged; the miner may have taken the command.
SetFails(k) ==
  /\ At(k) /\ Differs(k) /\ Fault /\ Goto(After[k])
  /\ liveWm' \in {liveWm, [liveWm EXCEPT ![k] = Wire(k, Wanted(k))]}
  /\ doubt' = doubt \cup {k}
  /\ UNCHANGED <<wmEngine, wmTask, wmFiles, miner, land>>

KeepKnob(k) ==
  /\ At(k) /\ ~Differs(k) /\ Goto(After[k])
  /\ UNCHANGED whatsminer

BestIn(l)  == CHOOSE e \in {l[p] : p \in DOMAIN l} : \A p \in DOMAIN l : e <= l[p]
WorstIn(l) == CHOOSE e \in {l[p] : p \in DOMAIN l} : \A p \in DOMAIN l : l[p] <= e

\* A wait that times out or is stopped measures the cell as it is.  A cell that is not
\* what its label says may seem better or worse than it is.
AsLabelled == RunsAt(cell.f) /\ liveWm.limit = cell.pl

Efficiencies == IF AsLabelled THEN {land[<<cell.pl, cell.f>>]}
                ELSE {BestIn(land), WorstIn(land)}

\* A hold differs from the search in that its cell is the best one.
Holding == cell.key = <<0, 0, 0>>

Noted(eff) ==
  LET new == [pl |-> cell.pl, f |-> cell.f, fine |-> cell.fine, eff |-> eff]
      old == {c \in cells : SameCell(c, new)}
  IN IF eff = None \/ \E c \in old : c.eff <= eff THEN cells ELSE (cells \ old) \cup {new}

Drifted(e) ==
  /\ e # None
  /\ \/ e > bestCell.eff + Drift
     \/ bestCell.eff > e + Drift

Measure(eff) ==
  /\ cells' = Noted(eff)
  /\ UNCHANGED <<baselines, pctAnchor, cache, bestCell, wmTask, miner, liveWm, land, doubt>>
  /\ \/ ~Holding /\ Goto(IF cell.fine THEN "fine" ELSE "coarse") /\ UNCHANGED streak /\ CellCheckpoint
     \/ /\ Holding
        /\ LET s == IF eff = None THEN streak ELSE IF Drifted(eff) THEN streak + 1 ELSE 0
           IN /\ streak' = IF s >= 2 THEN 0 ELSE s
              /\ Goto(IF s >= 2 THEN "entry" ELSE "hold")
        /\ cellDisk' = IF cellProfile THEN cellDisk ELSE [CellNow EXCEPT !.streak = streak]
        /\ UNCHANGED cellProfile

Measured == At("sample") /\ UNCHANGED faults /\ \E eff \in Efficiencies : Measure(eff)

\* No summary could be read, or the worker was stopped before the first.
Unmeasured == At("sample") /\ Measure(None) /\ (Fault \/ (~running /\ UNCHANGED faults))

Coarse   == {c \in cells : ~c.fine}
FineWork == miner.fine[1] > 0 /\ miner.fine[2] > 0 /\ Coarse # {}

\* The fine grids lie around the coarse cells with the lowest J/TH so far, the
\* lowest first.
GoFine ==
  /\ At("coarse") /\ plan = {} /\ FineWork
  /\ LET n == IF Cardinality(Coarse) < miner.fine[2] THEN Cardinality(Coarse) ELSE miner.fine[2]
     IN \E anchors \in [1..n -> Coarse] :
          /\ \A r \in 1..n :
               anchors[r] \in Lowest(Coarse \ {anchors[q] : q \in 1..r - 1})
          /\ plan' = FinePlan(anchors)
  /\ Goto("fine")
  /\ UNCHANGED <<wmEngine, found, cell, wmFiles, wmWorld>>

\* min over everything ever measured.
PickBest ==
  /\ \/ At("fine") /\ plan = {}
     \/ At("coarse") /\ plan = {} /\ ~FineWork
  /\ \/ bestCell' \in Lowest(cells)
     \/ cells = {} /\ bestCell' = None
  /\ Goto(IF running THEN "hold" ELSE "off")
  /\ UNCHANGED <<baselines, pctAnchor, cache, cells, streak, wmTask, wmWorld>>
  /\ CellProfile

Remeasure ==
  /\ Looping("hold") /\ bestCell # None
  /\ cell' = [key |-> <<0, 0, 0>>, pl |-> bestCell.pl, f |-> bestCell.f, fine |-> FALSE]
  /\ Goto("mode")
  /\ UNCHANGED <<wmEngine, found, plan, wmFiles, wmWorld>>

NothingToHold ==
  /\ Looping("hold") /\ bestCell = None /\ Goto("entry")
  /\ UNCHANGED whatsminer

\* With cells left to take the loops return; the last cell does not.
LeaveWhatsminer ==
  /\ \/ \E place \in {"entry", "start", "hold"} : Leaves(place)
     \/ Len(found) < 3 /\ Leaves("discover")
     \/ plan # {} /\ (Leaves("coarse") \/ Leaves("fine"))
  /\ UNCHANGED whatsminer
-----------------------------------------------------------------------------
\* restore_saved_state; a cache older than the miner's settings is one doubt more.
WhatsminerKill ==
  /\ KillWorker /\ Fault
  /\ baselines' = cellDisk.baselines /\ pctAnchor' = cellDisk.pctAnchor
  /\ cache' = cellDisk.cache /\ cells' = cellDisk.cells
  /\ bestCell' = cellDisk.bestCell /\ streak' = cellDisk.streak
  /\ doubt' = doubt \cup {k \in Knobs : cache[k] # cellDisk.cache[k]}
  /\ found' = <<>> /\ plan' = {} /\ cell' = None
  /\ UNCHANGED <<wmFiles, miner, liveWm, land>>

WhatsminerControl == (StartWorker \/ StopWorker) /\ UNCHANGED whatsminer

\* The room gets warmer or colder.
WeatherTurns ==
  /\ land' \in miner.lands \ {land}
  /\ UNCHANGED <<worker, wmEngine, wmTask, wmFiles, miner, liveWm, faults, doubt>>

WhatsminerWorker ==
  \/ BeginPass \/ FindMode \/ MissMode \/ DiscoveryRaises \/ RetryRefused \/ GiveUpRefused
  \/ ProbeAnchor \/ StartGrid
  \/ TakeCoarse \/ TakeFine \/ GoFine \/ PickBest \/ Remeasure \/ NothingToHold
  \/ (\E k \in Knobs : SetKnob(k)) \/ (\E k \in Knobs : SetFails(k)) \/ (\E k \in Knobs : KeepKnob(k))
  \/ Measured \/ Unmeasured \/ LeaveWhatsminer

WhatsminerNext == WhatsminerWorker \/ WhatsminerControl \/ WhatsminerKill \/ WeatherTurns
-----------------------------------------------------------------------------
(* A cell that some mode can reach is measured with the power limit of its *)
(* label and with a mode and a percentage that mean its frequency, to the   *)
(* whole percent that is sent, whatever order the cells come in and         *)
(* whatever is left unsent, unless a command failed, or the probe or a kill *)
(* left something in the miner that the cache does not know.  The miner     *)
(* runs at that frequency where discovery has read what a percentage in     *)
(* that mode refers to.                                                     *)
MeasuredAsLabelled ==
  pc = "sample" /\ doubt = {} /\ ModeAndPercent(cell.f) # None /\ InReach(cell.f) # {}
    => /\ liveWm.mode \in InReach(cell.f) /\ liveWm.limit = cell.pl
       /\ liveWm.percent # None /\ Gives(Base(liveWm.mode), cell.f)
       /\ Base(liveWm.mode) = TrueBase(liveWm.mode) => AsLabelled
=============================================================================
