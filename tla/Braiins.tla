------------------------------- MODULE Braiins -------------------------------
(***************************************************************************)
(* The wattage search of a Braiins miner: sample both ends and the middle  *)
(* of the window, shrink it towards the best of the three, and once it is  *)
(* no wider than the tolerance hold the best target ever sampled, sampling *)
(* it again every cycle.                                                   *)
(*                                                                         *)
(* A sample's profit is a number (0 when the miner does not hash), fixed   *)
(* when it is taken: ranking it again with a later price is not modelled.  *)
(* A definition X_Variant is a wrong version of X that the properties are   *)
(* tested with; no run uses it.                                            *)
(***************************************************************************)
EXTENDS Worker

CONSTANTS
  Markets,   \* [curves, limits]: what the miner may earn at each target (functions
             \* to Nat), and the pairs <<BRAIINS_POWER_MIN_W, BRAIINS_POWER_MAX_W>>
             \* the operator may set
  Tolerance  \* BRAIINS_BINARY_SEARCH_TOLERANCE_W; the schema asks for 10 at least

ASSUME BraiinsAssumption ==
  /\ \A m \in Markets :
       /\ m.limits \subseteq Nat \X Nat /\ m.curves # {} /\ m.limits # {}
       /\ \A c \in m.curves, a, b \in m.limits : \A w \in a[1]..b[2] \cup a[1]..a[1] + 1 :
            c[w] \in Nat
  /\ Tolerance \in Nat /\ Tolerance >= 2

VARIABLES
  wattageResults, low, high, best, \* the engine's fields
  target,                          \* the target being sampled
  wattProfile,                     \* whether the profile file exists
  wattDisk,                        \* what a restart restores
  limits, curve,                   \* the operator's settings, the world
  market

search  == <<wattageResults, low, high, best, target>>
wattage == <<wattProfile, wattDisk>>
outside == <<limits, curve, market>>
braiins == <<search, wattage, outside>>

\* Inverted or equal limits are one watt apart.
Upper == IF limits[2] <= limits[1] THEN limits[1] + 1 ELSE limits[2]

InitBounds == low' = limits[1] /\ high' = Upper

Middle == (low + high) \div 2

Near(w) == {i \in 1..Len(wattageResults) :
              wattageResults[i].watt - w \in -Tolerance..Tolerance}

RecentProfit(w) ==
  wattageResults[CHOOSE i \in Near(w) : \A j \in Near(w) : j <= i].profit

\* The first of the best samples of all times, whatever the window is now.
SelectBest(results) ==
  IF results = <<>> THEN None
  ELSE results[CHOOSE i \in 1..Len(results) :
                 \A j \in 1..Len(results) :
                   \/ results[j].profit < results[i].profit
                   \/ results[j].profit = results[i].profit /\ i <= j].watt

Without(s, k) == [i \in 1..Len(s) - 1 |-> IF i < k THEN s[i] ELSE s[i + 1]]

\* Of equal samples only the first and the last are kept: SelectBest looks
\* for the first, RecentProfit for the last.
Appended(s) ==
  LET r == wattageResults
      spare == {i \in 1..Len(r) : r[i] = s /\ \E j \in 1..i - 1 : r[j] = s}
  IN Append(IF spare = {} THEN r ELSE Without(r, CHOOSE i \in spare : TRUE), s)

Now == [results |-> wattageResults', best |-> best']

\* A restart reads the profile if there is one, and no checkpoint then.
WattCheckpoint ==
  /\ wattDisk' = IF wattProfile THEN wattDisk ELSE Now
  /\ UNCHANGED wattProfile

WattProfile == wattDisk' = Now /\ wattProfile' = TRUE

BraiinsInit ==
  /\ wattageResults = <<>> /\ low = None /\ high = None /\ best = None /\ target = None
  /\ wattProfile = FALSE /\ wattDisk = [results |-> <<>>, best |-> None]
  /\ market \in Markets /\ limits \in market.limits /\ curve \in market.curves

\* Every narrowing and every limit keeps the window open and within the limits
\* ever set, and no file is ahead of the engine.
BraiinsTypeOK ==
  /\ market \in Markets /\ limits \in market.limits /\ curve \in market.curves
  /\ \A i \in 1..Len(wattageResults) :
       wattageResults[i].watt \in Nat /\ wattageResults[i].profit \in Nat
  /\ best \in Nat \cup {None} /\ target \in Nat \cup {None} /\ wattProfile \in BOOLEAN
  /\ low # None =>
       /\ low < high
       /\ \E a, b \in market.limits : a[1] <= low /\ (high <= b[2] \/ high <= a[1] + 1)
-----------------------------------------------------------------------------
\* start_mining: a refusal is ignored.
Enter ==
  /\ Looping("entry") /\ InitBounds /\ Goto("search")
  /\ UNCHANGED <<wattageResults, best, target, wattage, outside>>

\* An unreachable miner raises: the retry loop comes back to the entry.
EnterOffline ==
  /\ Looping("entry") /\ InitBounds /\ Goto("entry")
  /\ UNCHANGED <<wattageResults, best, target, wattage, outside>>

Missing == {w \in {low, Middle, high} : Near(w) = {}}

Narrowing == high - low > Tolerance

\* Low before the middle before high.  A refused target is tried again at once.
SampleMissing ==
  /\ Looping("search") /\ Narrowing /\ Missing # {}
  /\ target' = CHOOSE w \in Missing : \A v \in Missing : w <= v
  /\ Goto("settling")
  /\ UNCHANGED <<wattageResults, low, high, best, wattage, outside>>

\* The window settles, the summary is read, the sample is appended and saved.
Sample(place, next) ==
  /\ Looping(place) /\ Goto(next)
  /\ wattageResults' = Appended([watt |-> target, profit |-> curve[target]])
  /\ UNCHANGED <<low, high, best, target, outside>>
  /\ WattCheckpoint

\* Stopped while settling, or the summary cannot be read.
NoSample(place, next) == At(place) /\ Goto(next) /\ UNCHANGED braiins

Sampled   == Sample("settling", "search")
Unsampled == NoSample("settling", "search")

NarrowBounds_FallingSide ==
  LET pLow == RecentProfit(low)
      pMid == RecentProfit(Middle)
      pHigh == RecentProfit(high)
      quarter == (high - low) \div 4
      delta == IF quarter > 1 THEN quarter ELSE 1
  IN IF pMid >= pLow /\ pMid >= pHigh
     THEN /\ low'  = IF Middle - delta > low THEN Middle - delta ELSE low
          /\ high' = IF Middle + delta < high THEN Middle + delta ELSE high
     ELSE IF pLow > pHigh THEN low' = Middle /\ high' = high
                          ELSE low' = low /\ high' = Middle

NarrowBounds ==
  LET pLow == RecentProfit(low)
      pMid == RecentProfit(Middle)
      pHigh == RecentProfit(high)
      quarter == (high - low) \div 4
      delta == IF quarter > 1 THEN quarter ELSE 1
  IN IF pMid >= pLow /\ pMid >= pHigh
     THEN /\ low'  = IF Middle - delta > low THEN Middle - delta ELSE low
          /\ high' = IF Middle + delta < high THEN Middle + delta ELSE high
     ELSE IF pHigh > pLow THEN low' = Middle /\ high' = high
                          ELSE low' = low /\ high' = Middle

Narrow ==
  /\ Looping("search") /\ Narrowing /\ Missing = {}
  /\ NarrowBounds
  /\ best' = SelectBest(wattageResults)
  /\ Goto("search")
  /\ UNCHANGED <<wattageResults, target, outside>>
  /\ WattProfile

\* The best target is set once more; a refusal is logged only.
Converge ==
  /\ Looping("search") /\ ~Narrowing
  /\ best' = SelectBest(wattageResults)
  /\ Goto("hold")
  /\ UNCHANGED <<wattageResults, low, high, target, outside>>
  /\ WattProfile

Resample ==
  /\ Looping("hold") /\ best # None
  /\ target' = best /\ Goto("resampling")
  /\ UNCHANGED <<wattageResults, low, high, best, wattage, outside>>

\* There is nothing to sample, or the target was refused.
NoResample == Looping("hold") /\ Goto("recheck") /\ UNCHANGED braiins

Resampled   == Sample("resampling", "recheck")
Unresampled == NoSample("resampling", "recheck")

\* prev_low and prev_high are the converged window: any limit further than the
\* tolerance from the best counts as new.
Unexplored ==
  LET b == IF best = None THEN 0 ELSE best
  IN \/ b - limits[1] > Tolerance /\ limits[1] < low
     \/ Upper - b > Tolerance /\ Upper > high

SaveHeld == IF best = None THEN UNCHANGED wattage ELSE WattProfile

Reenter ==
  /\ At("recheck") /\ Unexplored
  /\ InitBounds /\ Goto("entry")
  /\ UNCHANGED <<wattageResults, best, target, outside>>
  /\ SaveHeld

KeepHolding ==
  /\ At("recheck") /\ ~Unexplored
  /\ Goto("hold")
  /\ UNCHANGED <<search, outside>>
  /\ SaveHeld

LeaveBraiins ==
  /\ \E place \in {"entry", "search", "hold"} : Leaves(place)
  /\ UNCHANGED braiins
-----------------------------------------------------------------------------
\* restore_saved_state
BraiinsKill ==
  /\ KillWorker
  /\ wattageResults' = wattDisk.results /\ best' = wattDisk.best
  /\ low' = None /\ high' = None /\ target' = None
  /\ UNCHANGED <<wattage, outside>>

BraiinsControl == (StartWorker \/ StopWorker) /\ UNCHANGED braiins

MarketMoves ==
  /\ curve' \in market.curves \ {curve}
  /\ UNCHANGED <<worker, search, wattage, limits, market>>

SetLimits ==
  /\ limits' \in market.limits \ {limits}
  /\ UNCHANGED <<worker, search, wattage, curve, market>>

BraiinsWorker ==
  \/ Enter \/ EnterOffline \/ SampleMissing \/ Sampled \/ Unsampled \/ Narrow \/ Converge
  \/ Resample \/ NoResample \/ Resampled \/ Unresampled \/ Reenter \/ KeepHolding \/ LeaveBraiins

BraiinsNext == BraiinsWorker \/ BraiinsControl \/ BraiinsKill \/ MarketMoves \/ SetLimits
-----------------------------------------------------------------------------
(* With profits that fall evenly on both sides of a peak, and neither      *)
(* prices nor limits that change, what is held is within the tolerance of  *)
(* the peak, but for a watt that the division into quarters may cost,      *)
(* wherever the search was stopped or killed and started again.            *)
Steady == market.curves = {curve} /\ market.limits = {limits}

Peak(p) ==
  \A v, w \in limits[1]..Upper :
    (v - p) * (v - p) < (w - p) * (w - p) => curve[w] < curve[v]

PeakHeld ==
  pc = "hold" /\ Steady /\ best # None =>
    \A p \in limits[1]..Upper : Peak(p) => best - p \in -(Tolerance + 1)..Tolerance + 1
=============================================================================
