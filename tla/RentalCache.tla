----------------------------- MODULE RentalCache -----------------------------
(***************************************************************************)
(* The dashboard's cache of rental states: a daemon takes a snapshot of    *)
(* the configuration once a minute and writes an entry for every rig in    *)
(* it, one request after another; an HTTP thread that has changed a        *)
(* miner's rig writes that miner's entry itself.                           *)
(* A definition X_Variant is a wrong version of X that the properties are  *)
(* tested with; no run uses it.                                            *)
(***************************************************************************)
EXTENDS Integers, FiniteSets, Absent

CONSTANTS
  Macs, Rigs,
  Edits       \* how often the operator changes something (a bound)

ASSUME RentalCacheAssumption == Edits \in Nat /\ None \notin Rigs

VARIABLES
  rigOf,      \* the rig each miner is configured for, or None; none without an entry
  service,    \* "disabled", "no_creds", "live": the fleet's MRR settings
  cached,     \* _cache: [rig, state], or None
  cycle,      \* the daemon's: [rigs, state, todo], or None between two cycles
  refreshing, \* the HTTP threads in refresh_one: a set of [mac, rig, state]
  edits

cache == <<rigOf, service, cached, cycle, refreshing, edits>>

CacheInit ==
  /\ rigOf \in [Macs -> Rigs \cup {None}] /\ service \in {"disabled", "live"}
  /\ cached = [m \in Macs |-> None] /\ cycle = None /\ refreshing = {} /\ edits = 0

CacheTypeOK ==
  /\ \A m \in Macs : cached[m] # None =>
       cached[m].rig \in Rigs /\ cached[m].state \in {"disabled", "no_creds", "live", "error"}
  /\ cycle # None => cycle.todo \subseteq Macs
-----------------------------------------------------------------------------
(* _refresh_cycle                                                          *)

Configured(rigs) == {m \in Macs : rigs[m] # None}

\* Under config_lock; the entries of other miners go under the cache's own lock.
Snapshot ==
  /\ cycle = None
  /\ cycle' = [rigs |-> rigOf, state |-> service, todo |-> Macs]
  /\ UNCHANGED <<rigOf, service, cached, refreshing, edits>>

DropStale_Keeps ==
  /\ cycle # None /\ cycle.todo = Macs /\ Configured(cycle.rigs) # Macs
  /\ cycle' = [cycle EXCEPT !.todo = Configured(cycle.rigs)]
  /\ UNCHANGED <<rigOf, service, cached, refreshing, edits>>

DropStale ==
  /\ cycle # None /\ cycle.todo = Macs /\ Configured(cycle.rigs) # Macs
  /\ cycle' = [cycle EXCEPT !.todo = Configured(cycle.rigs)]
  /\ cached' = [m \in Macs |-> IF cycle.rigs[m] = None THEN None ELSE cached[m]]
  /\ UNCHANGED <<rigOf, service, refreshing, edits>>

Tracking == cycle # None /\ cycle.todo \subseteq Configured(cycle.rigs)

\* MRR is off or has no credentials: every entry says so.
Diagnose ==
  /\ Tracking /\ cycle.state # "live" /\ cycle' = None
  /\ cached' = [m \in Macs |-> IF m \in cycle.todo THEN [rig |-> cycle.rigs[m], state |-> cycle.state]
                               ELSE cached[m]]
  /\ UNCHANGED <<rigOf, service, refreshing, edits>>

\* One rig after another, a second at least apart.
Fetch ==
  /\ Tracking /\ cycle.state = "live"
  /\ \E m \in cycle.todo, state \in {"live", "error"} :
       /\ cached' = [cached EXCEPT ![m] = [rig |-> cycle.rigs[m], state |-> state]]
       /\ cycle' = [cycle EXCEPT !.todo = @ \ {m}]
  /\ UNCHANGED <<rigOf, service, refreshing, edits>>

EndCycle ==
  /\ Tracking /\ cycle.state = "live" /\ cycle.todo = {} /\ cycle' = None
  /\ UNCHANGED <<rigOf, service, cached, refreshing, edits>>

\* The process ends, and with it the cache; the daemon starts with the next.
CacheRestart ==
  /\ cached' = [m \in Macs |-> None] /\ cycle' = None /\ refreshing' = {}
  /\ edits < Edits /\ edits' = edits + 1
  /\ UNCHANGED <<rigOf, service>>

Daemon == Snapshot \/ DropStale \/ Diagnose \/ Fetch \/ EndCycle
-----------------------------------------------------------------------------
(* The operator's changes, and refresh_one.                                *)

Edit == edits < Edits /\ edits' = edits + 1

\* config_miner saves the rig and then refreshes its entry.
AssignRig ==
  /\ Edit
  /\ \E m \in Macs, r \in Rigs \cup {None} :
       /\ r # rigOf[m] /\ rigOf' = [rigOf EXCEPT ![m] = r]
       /\ refreshing' = refreshing \cup {[mac |-> m, rig |-> r, state |-> None]}
  /\ UNCHANGED <<service, cached, cycle>>

\* Nothing tells the cache of a miner that is removed.
RemoveMiner ==
  /\ Edit
  /\ \E m \in Configured(rigOf) : rigOf' = [rigOf EXCEPT ![m] = None]
  /\ UNCHANGED <<service, cached, cycle, refreshing>>

SetService ==
  /\ Edit
  /\ service' \in {"disabled", "no_creds", "live"} \ {service}
  /\ UNCHANGED <<rigOf, cached, cycle, refreshing>>

\* The settings are read first; a live rig is asked for then.
RefreshReads ==
  /\ \E r \in refreshing :
       /\ r.rig # None /\ r.state = None
       /\ refreshing' = (refreshing \ {r}) \cup {[r EXCEPT !.state = service]}
  /\ UNCHANGED <<rigOf, service, cached, cycle, edits>>

RefreshOne ==
  /\ \E r \in refreshing :
       /\ refreshing' = refreshing \ {r}
       /\ \/ r.rig = None /\ cached' = [cached EXCEPT ![r.mac] = None]
          \/ /\ r.state # None
             /\ \E state \in IF r.state = "live" THEN {"live", "error"} ELSE {r.state} :
                  cached' = [cached EXCEPT ![r.mac] = [rig |-> r.rig, state |-> state]]
  /\ UNCHANGED <<rigOf, service, cycle, edits>>

CacheNext ==
  \/ Daemon \/ CacheRestart \/ AssignRig \/ RemoveMiner \/ SetService \/ RefreshReads \/ RefreshOne

CacheFairness == WF_cache(Daemon) /\ WF_cache(RefreshReads \/ RefreshOne)

CacheSpec == CacheInit /\ [][CacheNext]_cache /\ CacheFairness
-----------------------------------------------------------------------------
Matches(m) ==
  IF rigOf[m] = None THEN cached[m] = None
  ELSE /\ cached[m] # None /\ cached[m].rig = rigOf[m]
       /\ cached[m].state = service \/ (service = "live" /\ cached[m].state = "error")

(* Once the operator leaves the configuration alone the cache comes to     *)
(* show it and no other, whatever snapshot the daemon was still working    *)
(* off and in whatever order the HTTP threads wrote.                       *)
CacheCatchesUp == <>[](\A m \in Macs : Matches(m))
=============================================================================
