-------------------------------- MODULE Server --------------------------------
(***************************************************************************)
(* What the process has beside the workers: the fleet and its scanner, the *)
(* publication of a miner's rig, the nonces the requests to MiningRigRen-  *)
(* tals are signed with, the cache of rental states and the migration of   *)
(* the configuration when it starts.  They share no state but the          *)
(* configuration, of which each has its own part; one runs, the others     *)
(* stand still.                                                            *)
(***************************************************************************)
EXTENDS Nonce, Listing, RentalCache, Scanner, Migration

VARIABLE part  \* the one that runs

Parts == {"nonce", "listing", "cache", "fleet", "migration"}

vars == <<nonce, listing, cache, fleet, scan, left, migration, part>>

\* What does not run has one initial state.
Init ==
  /\ part \in Parts
  /\ NonceInit /\ (part = "nonce" \/ clock = 0)
  /\ ListingInit /\ (part = "listing" \/ (~hashrate /\ ~ready /\ ~listed))
  /\ CacheInit
  /\ part = "cache" \/ (service = "live" /\ \A m \in Macs : rigOf[m] = None)
  /\ ScannerInit /\ (part = "fleet" \/ (files = {} /\ \A i \in Ids : roster[i] = None))
  /\ MigrationInit /\ (part = "migration" \/ (fleetIps = {} /\ \A h \in Hosts : saved[h] = None))

DrawsNonces ==
  part = "nonce" /\ NonceNext /\ UNCHANGED <<listing, cache, fleet, scan, left, migration, part>>

ListsRigs ==
  part = "listing" /\ ListingNext /\ UNCHANGED <<nonce, cache, fleet, scan, left, migration, part>>

CachesRentals ==
  part = "cache" /\ CacheNext /\ UNCHANGED <<nonce, listing, fleet, scan, left, migration, part>>

KeepsFleet ==
  part = "fleet" /\ ScannerNext /\ UNCHANGED <<nonce, listing, cache, migration, part>>

Migrates ==
  part = "migration" /\ MigrationNext /\ UNCHANGED <<nonce, listing, cache, fleet, scan, left, part>>

Next == DrawsNonces \/ ListsRigs \/ CachesRentals \/ KeepsFleet \/ Migrates

\* The cache's daemon goes on, and so do the requests it and the HTTP threads
\* have begun.
Fairness ==
  /\ WF_cache(part = "cache" /\ Daemon)
  /\ WF_cache(part = "cache" /\ (RefreshReads \/ RefreshOne))

Spec == Init /\ [][Next]_vars /\ Fairness
-----------------------------------------------------------------------------
(* The type invariants of the parts: no entry, task or registry refers to  *)
(* what is not there, and a worker is gone only when its publication is.   *)
TypeOK ==
  /\ NonceTypeOK /\ ListingTypeOK /\ CacheTypeOK /\ FleetTypeOK /\ ScannerTypeOK
  /\ MigrationTypeOK
=============================================================================
