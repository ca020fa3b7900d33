------------------------------ MODULE Migration ------------------------------
(***************************************************************************)
(* Loading a configuration whose miners are keyed by address (schema v3):  *)
(* each entry gets an id, its files are renamed to the id, and then the    *)
(* configuration is saved.  The process may die between any two steps and  *)
(* starts again from what is on the disk.                                  *)
(* A definition X_Variant is a wrong version of X that the properties are  *)
(* tested with; no run uses it.                                            *)
(***************************************************************************)
EXTENDS Integers, Sequences, FiniteSets, Absent

CONSTANTS
  Hosts,   \* the addresses of the entries
  MadeUp   \* the ids that synthesize_mac_id makes up, each once

ASSUME MigrationAssumption ==
  /\ IsFiniteSet(MadeUp)
  /\ None \notin [host : Hosts, done : 0..1]

VARIABLES
  saved,     \* the file: the key of a host's entry, its address or an id, or None
  entries,   \* MINER_CONFIGS, likewise
  boot,      \* "down", "migrate" or "up"
  renaming,  \* the host whose files are being renamed, and how many are done
  tune,      \* a host's file of a kind: the name it has, its host or an id
  taken,     \* the files written under an id since: <<id, kind>>
  fleetIps,  \* MINER_IPS
  \* history
  resolved,  \* the ids that a host has been given
  unrenamed  \* the files that could not be renamed

migration == <<saved, entries, boot, renaming, tune, taken, fleetIps, resolved, unrenamed>>

Kinds == <<"profile", "checkpoint">>
Files == {Kinds[i] : i \in DOMAIN Kinds}

MacOf(h) == <<"mac", h>>
Keys(h)  == {h, MacOf(h), None} \cup MadeUp

MigrationInit ==
  /\ saved \in [Hosts -> Hosts \cup {None}] /\ (\A h \in Hosts : saved[h] \in {h, None})
  /\ entries = [h \in Hosts |-> None]
  /\ boot = "down" /\ renaming = None
  /\ tune = [h \in Hosts |-> [k \in Files |-> h]]
  /\ taken = {} /\ fleetIps \in SUBSET Hosts
  /\ resolved = [h \in Hosts |-> {}] /\ unrenamed = {}

MigrationTypeOK ==
  /\ \A h \in Hosts : saved[h] \in Keys(h) /\ entries[h] \in Keys(h)
  /\ \A h \in Hosts, k \in Files : tune[h][k] \in Keys(h)
  /\ boot \in {"down", "migrate", "up"} /\ (renaming # None => boot # "down")
-----------------------------------------------------------------------------
\* load_config_from_disk reads the file.  Entries with a MAC or a made-up id
\* are migrated, and so is everything when no entry is left to do.
Boot ==
  /\ boot = "down"
  /\ entries' = saved
  /\ boot' = "migrate"
  /\ UNCHANGED <<saved, renaming, tune, taken, fleetIps, resolved, unrenamed>>

\* The vendor's API, else ARP, else an id made up.
Identify(h) ==
  /\ boot = "migrate" /\ renaming = None /\ entries[h] = h
  /\ \E id \in {MacOf(h)} \cup {m \in MadeUp : \A g \in Hosts : m \notin resolved[g]} :
       /\ entries' = [entries EXCEPT ![h] = id]
       /\ resolved' = [resolved EXCEPT ![h] = @ \cup {id}]
  /\ renaming' = [host |-> h, done |-> 0]
  /\ UNCHANGED <<saved, boot, tune, taken, fleetIps, unrenamed>>

\* A file that is missing, or whose new name is taken, is skipped; a rename
\* that fails is not tried again.
Rename ==
  LET h == renaming.host  k == Kinds[renaming.done + 1]  id == entries[h] IN
  /\ renaming # None
  /\ renaming' = IF renaming.done + 1 = Len(Kinds) THEN None ELSE [renaming EXCEPT !.done = @ + 1]
  /\ \/ /\ tune[h][k] = h /\ <<id, k>> \notin taken
        /\ tune' = [tune EXCEPT ![h][k] = id] /\ UNCHANGED unrenamed
     \/ tune[h][k] = h /\ unrenamed' = unrenamed \cup {<<h, k>>} /\ UNCHANGED tune
     \/ tune[h][k] # h /\ UNCHANGED <<tune, unrenamed>>
  /\ UNCHANGED <<saved, entries, boot, taken, fleetIps, resolved>>

Migrated == \A h \in Hosts : entries[h] # h

\* An entry whose address is not in MINER_IPS is dropped.
Kept == [h \in Hosts |-> IF h \in fleetIps THEN entries[h] ELSE None]

\* The configuration is saved when an entry was migrated; a save that fails
\* leaves the old file.
Save_BeforeRenames ==
  /\ boot = "migrate" /\ Migrated
  /\ entries' = Kept /\ boot' = "up"
  /\ IF \E h \in Hosts : saved[h] = h THEN saved' \in {saved, Kept} ELSE UNCHANGED saved
  /\ UNCHANGED <<renaming, tune, taken, fleetIps, resolved, unrenamed>>

SaveMigrated ==
  /\ boot = "migrate" /\ Migrated /\ renaming = None
  /\ entries' = Kept /\ boot' = "up"
  /\ IF \E h \in Hosts : saved[h] = h THEN saved' \in {saved, Kept} ELSE UNCHANGED saved
  /\ UNCHANGED <<renaming, tune, taken, fleetIps, resolved, unrenamed>>

\* The program runs: an engine writes a file, an edit saves the configuration.
EngineWrites(h, k) ==
  /\ boot = "up" /\ entries[h] # None
  /\ taken' = taken \cup {<<entries[h], k>>}
  /\ UNCHANGED <<saved, entries, boot, renaming, tune, fleetIps, resolved, unrenamed>>

EditSaves ==
  /\ boot = "up" /\ saved' = entries
  /\ UNCHANGED <<entries, boot, renaming, tune, taken, fleetIps, resolved, unrenamed>>

Dies ==
  /\ boot # "down" /\ boot' = "down" /\ renaming' = None
  /\ entries' = [h \in Hosts |-> None]
  /\ UNCHANGED <<saved, tune, taken, fleetIps, resolved, unrenamed>>

MigrationNext ==
  \/ Boot \/ Rename \/ SaveMigrated \/ EditSaves \/ Dies
  \/ \E h \in Hosts : Identify(h) \/ \E k \in Files : EngineWrites(h, k)

MigrationSpec == MigrationInit /\ [][MigrationNext]_migration
-----------------------------------------------------------------------------
(* However often the process dies while it migrates, a miner that is up    *)
(* has its files under the id of its entry, as long as it was given no     *)
(* other id before: one made up in a migration that was not saved is made  *)
(* up anew, and the files keep the first.                                  *)
MigrationLosesNoFile ==
  boot = "up" =>
    \A h \in Hosts, k \in Files :
      entries[h] # None /\ resolved[h] = {entries[h]}
        => tune[h][k] = entries[h] \/ <<h, k>> \in unrenamed
=============================================================================
