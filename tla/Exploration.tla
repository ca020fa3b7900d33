----------------------------- MODULE Exploration -----------------------------
(***************************************************************************)
(* The dynamic loop of a LuxOS, ePIC or Bixbit miner, from Phase 0's       *)
(* success on: measure coarse cells along rays from the best ones, then    *)
(* the fine grids of the best, then tune the best of those, then monitor;  *)
(* every turn of the loop decides anew from the surface and the settings.  *)
(*                                                                         *)
(* A position is a pair <<voltage, frequency>> in steps of the hardware    *)
(* (the frequency's is 3.125 MHz).  What a cell is worth depends on its    *)
(* position and on how the operator ranks cells; an entry without usable   *)
(* data (no samples, too hot, out of reach) is worth nothing.  The result  *)
(* of tuning a cell is the cell's position.  The baseline, the remeasure   *)
(* queue, the rounds of a tune and the monitor's cycle are in the modules  *)
(* of their own: TuneResume, RemeasureQueue, ChipTune, Perpetual.          *)
(* A definition X_Variant is a wrong version of X that the properties are   *)
(* tested with; no run uses it.                                            *)
(***************************************************************************)
EXTENDS Worker

CONSTANTS
  Score(_, _),    \* the score of a position (lower is better) under a ranking, or None
  Scenes,         \* [eras, faults]: the settings the operator goes through, and
                  \* how many measurements and tunes may fail (a bound)
  SearchTolerance \* FREQ_SEARCH_TOLERANCE_MHZ, in steps

\* An era: [rank, v, f, fine, fineK, rays, topK, trend], that is TARGET_MODE with
\* the prices, [lo, hi, n] of each axis, VF_EXPLORE_FINE_COUNT, VF_FINE_TOP_K,
\* VF_COARSE_TOP_K_RAYS, VF_EXPLORE_TOP_K, VF_EXPLORE_TREND_CONFIRM.
Axes(era) == {era.v, era.f}

\* An axis has as many points as it is asked for: the grid is not finer than a step.
ASSUME ExplorationAssumption ==
  /\ SearchTolerance \in Nat
  /\ \A s \in Scenes :
       /\ s.faults \in Nat /\ Len(s.eras) \in Nat \ {0}
       /\ \A i \in 1..Len(s.eras) :
            /\ \A a \in Axes(s.eras[i]) :
                 a.lo \in Nat /\ a.hi \in Nat /\ a.n \in Nat /\ a.n >= 2 /\ a.hi - a.lo >= a.n - 1
            /\ s.eras[i].fine \in Nat /\ s.eras[i].fineK \in Nat \ {0}
            /\ s.eras[i].rays \in Nat \ {0} /\ s.eras[i].topK \in Nat \ {0}
            /\ s.eras[i].trend \in Nat \ {0}

VARIABLES
  surface,    \* vf_surface, as [at, fine, anchor, ok]
  tunedCells, \* voltage_results: the position each was tuned from, one per voltage
  inFlight,   \* in_flight_chip_tune_target
  complete,   \* tuning_complete
  picked,     \* the cell being measured
  vfProfile, vfDisk, \* whether the profile file exists; what a restart restores
  scene, eraNo, mishaps

grid    == <<surface, tunedCells, inFlight, complete>>
vfFiles == <<vfProfile, vfDisk>>
plans   == <<scene, eraNo, mishaps>>
exploration == <<grid, picked, vfFiles, plans>>

Era == scene.eras[eraNo]
-----------------------------------------------------------------------------
(* grid.py                                                                 *)

\* Python's round of a / b, for b > 0.
RoundDiv(a, b) ==
  LET q == a \div b
      r == a % b
  IN IF 2 * r < b \/ (2 * r = b /\ q % 2 = 0) THEN q ELSE q + 1

\* vf_grid_axes, ascending, from 0.
Point(axis, i) == RoundDiv(axis.hi * (axis.n - 1) - (axis.n - 1 - i) * (axis.hi - axis.lo), axis.n - 1)
Indices == (0..Era.v.n - 1) \X (0..Era.f.n - 1)
Cell(i, j) == <<Point(Era.v, i), Point(Era.f, j)>>
Grid == {Cell(i, j) : i \in 0..Era.v.n - 1, j \in 0..Era.f.n - 1}

Positions(s) == {s[i].at : i \in 1..Len(s)}
WorthOf(e) == IF e.ok THEN Score(Era.rank, e.at) ELSE None
Worth(s, i) == WorthOf(s[i])

Scored(s) == {i \in 1..Len(s) : Worth(s, i) # None}
ScoredCoarse(s) == {i \in Scored(s) : ~s[i].fine}

\* The k best of the indices S, best first, equals in the order of the surface.
BestOf(s, S, k) ==
  LET better(i, j) == Worth(s, i) < Worth(s, j) \/ (Worth(s, i) = Worth(s, j) /\ i < j)
  IN [r \in 1..(IF k < Cardinality(S) THEN k ELSE Cardinality(S)) |->
        CHOOSE i \in S : Cardinality({j \in S : better(j, i)}) = r - 1]

FirstK(seq, k) == SubSeq(seq, 1, IF k < Len(seq) THEN k ELSE Len(seq))

InOrder(S) == [r \in 1..Cardinality(S) |-> CHOOSE i \in S : Cardinality({j \in S : j < i}) = r - 1]

\* Converted anchors first, in the order of the surface, whatever they are worth.
RayOrigins(s) ==
  LET flying == {i \in Scored(s) : s[i].fine /\ s[i].anchor = s[i].at}
  IN FirstK(InOrder(flying) \o BestOf(s, ScoredCoarse(s), Era.rays), Era.rays)

\* fine_axis_offsets around a position, whose room on either side is held
\* exactly: in units of 1 / (2 * fine * (n - 1)) of a step.
FineAxis(x, axis) ==
  LET n     == Era.fine
      unit  == 2 * n * (axis.n - 1)
      reach == (n - 1) * (axis.hi - axis.lo)
      Room(to) == IF reach < unit * to THEN reach ELSE unit * to
      below == Room(x - axis.lo)
      above == Room(axis.hi - x)
      part  == IF below + above > 0 THEN RoundDiv((n - 1) * below, below + above)
                                    ELSE RoundDiv(n - 1, 2)
      nBelow == IF part < 0 THEN 0 ELSE IF part > n - 1 THEN n - 1 ELSE part
      nAbove == n - 1 - nBelow
      spacing == IF nAbove = 0 \/ (nBelow > 0 /\ below * nAbove <= above * nBelow)
                 THEN <<below, nBelow>> ELSE <<above, nAbove>>
  IN IF below <= 0 /\ above <= 0 THEN {x}
     ELSE {RoundDiv(x * unit * spacing[2] + (i - nBelow) * spacing[1], unit * spacing[2]) :
             i \in 0..n - 1}

\* The anchors of the fine entries, oldest first, then the best coarse cells.
FineAnchors(s) ==
  LET oldest == {i \in 1..Len(s) :
                   /\ s[i].fine /\ s[i].anchor # None
                   /\ \A j \in 1..i - 1 : ~(s[j].fine /\ s[j].anchor = s[i].anchor)}
      fresh == {i \in ScoredCoarse(s) : \A j \in oldest : s[j].anchor # s[i].at}
      order == InOrder(oldest)
      new == BestOf(s, fresh, Era.fineK)
  IN FirstK([r \in 1..Len(order) |-> s[order[r]].anchor] \o [r \in 1..Len(new) |-> s[new[r]].at],
            Era.fineK)
-----------------------------------------------------------------------------
(* exploration.py                                                          *)

RAY_DIRECTIONS_Straight == <<<<1, 0>>, <<-1, 0>>, <<0, 1>>, <<0, -1>>>>

RAY_DIRECTIONS == <<<<1, 1>>, <<-1, -1>>, <<1, 0>>, <<-1, 0>>, <<0, 1>>, <<0, -1>>, <<1, -1>>, <<-1, 1>>>>

\* The cells no scored cell is better than; every other scored cell is worse.
Best(s) == {i \in Scored(s) : \A j \in Scored(s) : Worth(s, i) <= Worth(s, j)}

\* Cells without data neither count nor break the row of worse cells.
NextOnRay(measured, scored, best, from, d) ==
  LET steps == {k \in 1..Era.v.n + Era.f.n : <<from[1] + k * d[1], from[2] + k * d[2]>> \in Indices}
      Ray(k) == Cell(from[1] + k * d[1], from[2] + k * d[2])
      new == {k \in steps : Ray(k) \notin measured}
      first == CHOOSE k \in new : \A l \in new : k <= l
      Row(k) == {l \in 1..k : /\ Ray(l) \in scored
                              /\ \A g \in l..k : Ray(g) \notin best}
  IN IF new = {} \/ \E k \in 1..first - 1 : Cardinality(Row(k)) >= Era.trend
     THEN None ELSE Ray(first)

TopCorner(S) == CHOOSE c \in S : \A x \in S : x[1] < c[1] \/ (x[1] = c[1] /\ x[2] <= c[2])

\* The centre, then downwards from the top corner.
Bootstrap(s) ==
  LET centre == Cell(Era.v.n \div 2, Era.f.n \div 2)
      new == Grid \ Positions(s)
  IN IF centre \in new THEN centre ELSE IF new = {} THEN None ELSE TopCorner(new)

\* An origin off today's grid has no rays.
NextCoarse(s) ==
  LET origins == RayOrigins(s)
      measured == Positions(s)
      scored == {s[i].at : i \in Scored(s)}
      best == {s[i].at : i \in Best(s)}
      Walk(r, d) == NextOnRay(measured, scored, best,
                              CHOOSE ij \in Indices : Cell(ij[1], ij[2]) = s[origins[r]].at,
                              RAY_DIRECTIONS[d])
      walks == {<<r, d, Walk(r, d)>> : r \in {q \in 1..Len(origins) : s[origins[q]].at \in Grid},
                                       d \in 1..Len(RAY_DIRECTIONS)}
      open == {w \in walks : w[3] # None}
      w0 == CHOOSE w \in open : \A x \in open : w[1] < x[1] \/ (w[1] = x[1] /\ w[2] <= x[2])
  IN IF ScoredCoarse(s) = {} THEN Bootstrap(s)
     ELSE IF open = {} THEN None ELSE w0[3]

FineGrid(anchor) == FineAxis(anchor[1], Era.v) \X FineAxis(anchor[2], Era.f)

\* A grid that its axes shrink to a point is none.
Spreads(anchor) == Cardinality(FineGrid(anchor)) > 1

OpenAnchors(s) ==
  LET anchors == FineAnchors(s)
  IN {a \in {anchors[r] : r \in 1..Len(anchors)} :
        Spreads(a) /\ ~(FineGrid(a) \subseteq Positions(s))}

\* The anchors up to the first that has a cell left.
Visited(s) ==
  LET anchors == FineAnchors(s)
      open == OpenAnchors(s)
  IN {anchors[r] : r \in {i \in 1..Len(anchors) : \A q \in 1..i - 1 : anchors[q] \notin open}}

\* A visited anchor becomes a fine cell, and so is a ray's origin for ever.
Converted(s) ==
  IF Era.fine < 2 THEN s
  ELSE LET turned == {a \in Visited(s) : Spreads(a)}
       IN [i \in 1..Len(s) |-> IF ~s[i].fine /\ s[i].at \in turned
                               THEN [s[i] EXCEPT !.fine = TRUE, !.anchor = s[i].at] ELSE s[i]]

\* {<<cell, anchor>>}, or nothing.
NextFine(s) ==
  IF Era.fine < 2 THEN {}
  ELSE {<<TopCorner(FineGrid(a) \ Positions(s)), a>> : a \in Visited(s) \cap OpenAnchors(s)}

TuneDone(at) ==
  \E t \in tunedCells : t[1] = at[1] /\ t[2] - at[2] \in -SearchTolerance..SearchTolerance

ChipTopK == IF Era.topK < Era.fineK THEN Era.topK ELSE Era.fineK

\* Of the fine cells around the anchors, or of the coarse cells, the best few.
Candidates(s) ==
  LET anchors == FineAnchors(s)
      pool == {i \in Scored(s) : s[i].fine /\ \E r \in 1..Len(anchors) : s[i].anchor = anchors[r]}
  IN BestOf(s, IF Era.fine < 2 THEN ScoredCoarse(s) ELSE pool, ChipTopK)

NextChip(s) ==
  LET c == Candidates(s)
      open == {r \in 1..Len(c) : ~TuneDone(s[c[r]].at)}
  IN IF open = {} THEN None ELSE s[c[CHOOSE r \in open : \A q \in open : r <= q]].at
-----------------------------------------------------------------------------
(* The files, and the engine's start and end.                              *)

GridNow == [surface |-> surface', tuned |-> tunedCells', inFlight |-> inFlight']

GridCheckpoint_TunesOnly ==
  /\ vfDisk' = IF vfProfile THEN vfDisk ELSE [GridNow EXCEPT !.surface = vfDisk.surface]
  /\ UNCHANGED vfProfile

\* A restart reads the profile if there is one, and no checkpoint then.
GridCheckpoint ==
  /\ vfDisk' = IF vfProfile THEN vfDisk ELSE GridNow
  /\ UNCHANGED vfProfile

GridProfile == vfDisk' = GridNow /\ vfProfile' = TRUE

ExplorationInit ==
  /\ surface = <<>> /\ tunedCells = {} /\ inFlight = None /\ complete = FALSE /\ picked = None
  /\ vfProfile = FALSE
  /\ vfDisk = [surface |-> <<>>, tuned |-> {}, inFlight |-> None]
  /\ scene \in Scenes /\ eraNo = 1 /\ mishaps = scene.faults

\* No position is measured twice, and no voltage has two tunes.
ExplorationTypeOK ==
  /\ scene \in Scenes /\ eraNo \in 1..Len(scene.eras) /\ mishaps \in 0..scene.faults
  /\ \A i, j \in 1..Len(surface) : surface[i].at = surface[j].at => i = j
  /\ \A i \in 1..Len(surface) : surface[i].anchor # None => surface[i].fine
  /\ \A t, u \in tunedCells : t[1] = u[1] => t = u
  /\ complete \in BOOLEAN /\ vfProfile \in BOOLEAN
  /\ pc = "measure" => picked.at \notin Positions(surface)
-----------------------------------------------------------------------------
(* The turns of _run_inner's loop.                                         *)

EnterLoop ==
  /\ Looping("entry") /\ Goto(IF inFlight = None THEN "loop" ELSE "tune")
  /\ UNCHANGED exploration

Pick(at, fine, anchor) ==
  /\ picked' = [at |-> at, fine |-> fine, anchor |-> anchor]
  /\ complete' = FALSE /\ Goto("measure")

PickCoarse(coarse) ==
  /\ coarse # None
  /\ Pick(coarse, FALSE, None)
  /\ UNCHANGED <<surface, tunedCells, inFlight, vfFiles, plans>>

\* The checkpoint is saved with the converted cells, before the turn goes on.
SaveConverted ==
  IF surface' = surface THEN UNCHANGED vfFiles ELSE GridCheckpoint

PickFine(fine) ==
  /\ surface' = Converted(surface)
  /\ Pick(fine[1], TRUE, fine[2])
  /\ UNCHANGED <<tunedCells, inFlight, plans>>
  /\ SaveConverted

PickTune(chip) ==
  /\ chip # None
  /\ inFlight' = chip /\ complete' = FALSE /\ Goto("tune")
  /\ UNCHANGED <<tunedCells, picked, plans>>
  /\ GridCheckpoint

SettleGrid(chip) ==
  /\ chip = None
  /\ complete' = TRUE /\ Goto("monitor")
  /\ UNCHANGED <<tunedCells, inFlight, picked, plans>>
  /\ IF complete THEN SaveConverted ELSE GridProfile

\* What is left to do: one else-if.
Turn ==
  /\ Looping("loop")
  /\ \E coarse \in {NextCoarse(surface)} :
       \/ PickCoarse(coarse)
       \/ /\ coarse = None
          /\ \E fine \in {NextFine(surface)} :
               \/ \E f \in fine : PickFine(f)
               \/ /\ fine = {} /\ surface' = Converted(surface)
                  /\ \E chip \in {NextChip(surface')} : PickTune(chip) \/ SettleGrid(chip)

Monitored ==
  /\ At("monitor") /\ Goto("loop")
  /\ UNCHANGED exploration

LeaveLoop ==
  /\ Leaves("entry") \/ Leaves("loop")
  /\ UNCHANGED exploration
-----------------------------------------------------------------------------
(* measure_vf_point                                                        *)

Mishap == mishaps > 0 /\ mishaps' = mishaps - 1

Entry(ok, anchor) == [at |-> picked.at, fine |-> picked.fine, anchor |-> anchor, ok |-> ok]

CellMeasured ==
  /\ Looping("measure") /\ Goto("loop")
  /\ surface' = Append(surface, Entry(TRUE, picked.anchor))
  /\ UNCHANGED <<tunedCells, inFlight, complete, picked, plans>>
  /\ GridCheckpoint

\* Too hot, not hashing as it should, or no usable sample.
CellWithoutData ==
  /\ Looping("measure") /\ Mishap /\ Goto("loop")
  /\ surface' = Append(surface, Entry(FALSE, picked.anchor))
  /\ UNCHANGED <<tunedCells, inFlight, complete, picked, scene, eraNo>>
  /\ GridCheckpoint

\* MinerNotReady: the cell is marked, without an anchor, and the retry loop takes over.
CellNotReady ==
  /\ At("measure") /\ Mishap /\ Goto("entry")
  /\ surface' = Append(surface, Entry(FALSE, None))
  /\ UNCHANGED <<tunedCells, inFlight, complete, picked, scene, eraNo>>
  /\ GridCheckpoint

\* Any other failure of a command; nothing is kept.
CellFails ==
  /\ At("measure") /\ Mishap /\ Goto("entry")
  /\ UNCHANGED <<grid, picked, vfFiles, scene, eraNo>>

CellStopped ==
  /\ At("measure") /\ ~running /\ Goto("loop")
  /\ UNCHANGED <<grid, picked, plans>>
  /\ GridCheckpoint
-----------------------------------------------------------------------------
(* _do_chip_tune_atomic, and the resume of a tune that was cut short.      *)

EndsTune == inFlight' = None /\ UNCHANGED <<complete, picked, scene, eraNo>> /\ GridCheckpoint

\* The voltage's entry is replaced.
CellTuned ==
  /\ Looping("tune") /\ Goto("loop")
  /\ tunedCells' = {t \in tunedCells : t[1] # inFlight[1]} \cup {inFlight}
  /\ UNCHANGED <<surface, mishaps>> /\ EndsTune

\* Phase 4 was too hot: the first cell near the target is no longer a candidate.
TuneTooHot ==
  /\ Looping("tune") /\ Mishap /\ Goto("loop")
  /\ LET near == {i \in 1..Len(surface) :
                    /\ surface[i].at[1] = inFlight[1]
                    /\ surface[i].at[2] - inFlight[2] \in -SearchTolerance..SearchTolerance}
         hit == CHOOSE i \in near : \A j \in near : i <= j
     IN surface' = IF near = {} THEN surface ELSE [surface EXCEPT ![hit].ok = FALSE]
  /\ UNCHANGED tunedCells /\ EndsTune

\* Phase 4 measured nothing: the cell is tuned again at the next turn.
TuneWithoutResult ==
  /\ Looping("tune") /\ Mishap /\ Goto("loop")
  /\ UNCHANGED <<surface, tunedCells>> /\ EndsTune

\* A stop keeps the target, and so does a call that fails.
TuneCut ==
  /\ At("tune") /\ ~running /\ Goto("off")
  /\ UNCHANGED <<grid, picked, plans>> /\ GridCheckpoint

TuneRaises ==
  /\ At("tune") /\ Mishap /\ Goto("entry")
  /\ UNCHANGED <<grid, picked, vfFiles, scene, eraNo>>
-----------------------------------------------------------------------------
\* restore_saved_state: whoever finds a profile has settled.
ExplorationKill ==
  /\ KillWorker
  /\ surface' = vfDisk.surface /\ tunedCells' = vfDisk.tuned
  /\ inFlight' = vfDisk.inFlight /\ complete' = vfProfile /\ picked' = None
  /\ UNCHANGED <<vfFiles, plans>>

ExplorationControl == (StartWorker \/ StopWorker) /\ UNCHANGED exploration

\* The operator changes settings, or prices the ranking.
NewEra ==
  /\ eraNo < Len(scene.eras) /\ eraNo' = eraNo + 1
  /\ UNCHANGED <<worker, grid, picked, vfFiles, scene, mishaps>>

\* All but the turns of the loop.
ExplorationStep ==
  \/ EnterLoop \/ Monitored \/ LeaveLoop
  \/ CellMeasured \/ CellWithoutData \/ CellNotReady \/ CellFails \/ CellStopped
  \/ CellTuned \/ TuneTooHot \/ TuneWithoutResult \/ TuneCut \/ TuneRaises

ExplorationNext == Turn \/ ExplorationStep \/ ExplorationControl \/ ExplorationKill \/ NewEra
-----------------------------------------------------------------------------
(* Where the score has a single valley over the coarse grid and nothing    *)
(* fails, a settled tune has tuned a cell that no coarse cell beats, with  *)
(* a fraction of the grid measured, and wherever it was stopped or killed  *)
(* on the way; without fine grids also once more after the operator has    *)
(* changed the ranking or the grid.                                        *)
SingleValley ==
  LET Value(ij) == Score(Era.rank, Cell(ij[1], ij[2]))
  IN \A c \in Indices :
       \/ \A d \in Indices : Value(c) <= Value(d)
       \/ \E i, j \in -1..1 : LET d == <<c[1] + i, c[2] + j>>
                             IN d \in Indices /\ Value(d) < Value(c)

Undisturbed ==
  mishaps = scene.faults /\ Era.fineK <= Era.rays /\ (Len(scene.eras) = 1 \/ Era.fine < 2)

SettledInValley ==
  [][pc = "loop" /\ pc' = "monitor" /\ Undisturbed /\ SingleValley =>
       \E t \in tunedCells : \A c \in Grid : Score(Era.rank, t) <= Score(Era.rank, c)
    ]_<<worker, exploration>>
=============================================================================
