----------------------------- MODULE ServerProofs -----------------------------
(***************************************************************************)
(* Theorems about Server, for any fleet, configuration, clock and number   *)
(* of HTTP threads.  The parts share no state and each invariant is kept   *)
(* by every step of its part, so that it is one of the whole.              *)
(***************************************************************************)
EXTENDS Server, TLAPS

(* Nonces.  As long as the file is as good as the history, so is the       *)
(* engine's value.                                                         *)
Unspoiled == ~spoiled => value = highest /\ file = highest

NonceInv == NonceTypeOK /\ Unspoiled

(* Publication.  What the latest publication asks for, and what the rig    *)
(* then shows, unless something went wrong.                                *)
Publications == [intent : Intents, asked : BOOLEAN]

ListingTyped ==
  /\ publishing \in [Threads -> Publications \cup {None}] /\ latest \in Threads
  /\ running \in BOOLEAN /\ listed \in BOOLEAN /\ announced \in BOOLEAN

Pending == publishing[latest] # None

\* Without a worker the rig is off the market, or is being taken off it.
Withdrawn ==
  ~running \/ stage \in {"off", "dying"} => excuse # None \/ ~listed \/ Pending

\* A worker that gives up says so last, and nobody speaks for it any more.
Dying ==
  stage = "dying" =>
    /\ ~announced /\ phase \in {"error", "stopped"}
    /\ Pending => publishing[latest].intent # "maintaining"

\* On its way into the monitor and there, the rig is offered or about to be.
Monitoring == stage \in {"enter", "entered", "hold"} /\ running => phase = "perpetual"

Offered ==
  stage \in {"entered", "hold"} /\ running =>
    /\ excuse # None \/ listed \/ Pending
    /\ Pending => publishing[latest].intent = "maintaining"

ListingInv == ListingTyped /\ ListingTypeOK /\ Withdrawn /\ Dying /\ Monitoring /\ Offered

(* The cache of rental states: what a cycle and a thread still hold.       *)
States == {"disabled", "no_creds", "live"}

Snapshots == [rigs : [Macs -> Rigs \cup {None}], state : States, todo : SUBSET Macs]

CacheInv ==
  /\ CacheTypeOK
  /\ rigOf \in [Macs -> Rigs \cup {None}] /\ service \in States /\ DOMAIN cached = Macs
  /\ cycle = None \/ cycle \in Snapshots
  /\ refreshing \subseteq [mac : Macs, rig : Rigs \cup {None}, state : States \cup {None}]
  /\ \A r \in refreshing : r.rig = None => r.state = None

(* The migration.  The ids of entries and files are ones their host was    *)
(* given; an entry with an id has its files renamed, but for those whose   *)
(* turn is to come.                                                        *)
Given(h, key) == key \in {h, None} \cup resolved[h]

GivenIds ==
  /\ \A h \in Hosts : Given(h, saved[h]) /\ Given(h, entries[h])
  /\ \A h \in Hosts, k \in Files : tune[h][k] \in {h} \cup resolved[h]

ToCome(h, k) ==
  /\ renaming # None /\ renaming.host = h
  /\ \E i \in DOMAIN Kinds : Kinds[i] = k /\ i > renaming.done

HasFiles(h, k) == tune[h][k] # h \/ <<h, k>> \in unrenamed

Renamed ==
  \A h \in Hosts, k \in Files :
    /\ saved[h] \notin {h, None} => HasFiles(h, k)
    /\ entries[h] \notin {h, None} => HasFiles(h, k) \/ ToCome(h, k)

InTurn ==
  /\ boot # "migrate" => renaming = None
  /\ renaming # None => /\ renaming \in [host : Hosts, done : 0..1]
                        /\ entries[renaming.host] \in resolved[renaming.host]
  /\ boot = "up" => \A h \in Hosts : entries[h] # h \/ entries[h] = None

AllKeys == Hosts \cup {MacOf(h) : h \in Hosts} \cup MadeUp \cup {None}

MigrationTyped ==
  /\ saved \in [Hosts -> AllKeys] /\ entries \in [Hosts -> AllKeys]
  /\ tune \in [Hosts -> [Files -> AllKeys]]
  /\ DOMAIN resolved = Hosts /\ \A h \in Hosts : resolved[h] \subseteq {MacOf(h)} \cup MadeUp

MigrationInv == MigrationTyped /\ MigrationTypeOK /\ GivenIds /\ Renamed /\ InTurn

(* The fleet, for given objects, registry, tasks, roster, files and        *)
(* standing.  A task that has begun to remove an id goes on to delete.     *)
Doings(tasks, t, steps, id) == tasks[t] # None /\ tasks[t].does \in steps /\ tasks[t].id = id

Removing(tasks, id) == \E t \in Workers : Doings(tasks, t, {"remove"}, id)
Deleting(tasks, id) == \E t \in Workers : Doings(tasks, t, {"remove", "destroy", "delete"}, id)
Rekeying(tasks, id) == \E t \in Workers : Doings(tasks, t, {"rekey"}, id)
Taken(tasks, id, e) == \E t \in Workers : Doings(tasks, t, {"destroy"}, id) /\ tasks[t].engine = e

Removed(status, id) == status[id] \in {"leaving", "gone"}

\* They refer to one another.
Fitting(objects, registered, tasks) ==
  /\ \A e \in Engines : objects[e] \in Objects \cup {None}
  /\ registered \in [Ids -> Engines \cup {None}]
  /\ \A i \in Ids : registered[i] # None => objects[registered[i]] # None
  /\ DOMAIN tasks = Workers /\ \A t \in Workers : tasks[t] \in Tasks \cup {None}
  /\ \A t \in Workers : tasks[t] # None /\ tasks[t].engine # None => objects[tasks[t].engine] # None
  /\ \A t \in Workers : tasks[t] # None /\ tasks[t].does \in {"start", "partial"} => tasks[t].engine # None

\* A removed id has no entry; what it still has, a removal is about to take.
Unlisted(entered, status) == \A id \in Ids : Removed(status, id) => entered[id] = None

Emptied(registered, tasks, written, status) ==
  \A id \in Ids : Removed(status, id) =>
    /\ registered[id] # None => Removing(tasks, id)
    /\ id \in written => Deleting(tasks, id)

\* An engine that may write its files is the registered one, or is about to
\* be destroyed, or the registry has lost it.
Writers(objects, registered, tasks) ==
  \A e \in Engines :
    objects[e] # None /\ ~objects[e].destroyed /\ ~objects[e].lost
      => registered[objects[e].mac] = e \/ Taken(tasks, objects[e].mac, e)

\* A re-keying takes an engine from a made-up id, whose settings it reads, to
\* a MAC.
Rekeyed(objects, registered, tasks) ==
  /\ \A t \in Workers : tasks[t] # None /\ tasks[t].does \in {"rekey", "put", "rename"}
                          => tasks[t].id \in Synths /\ tasks[t].to \in Miners
  /\ \A id \in Synths : registered[id] # None => objects[registered[id]].reads \in Synths
  /\ \A t \in Workers : tasks[t] # None /\ tasks[t].does = "put" /\ tasks[t].engine # None
                          => objects[tasks[t].engine].reads \in Synths

\* No two ids, or re-keyings, have the same engine.
Single(registered, tasks) ==
  /\ \A i, j \in Ids : registered[i] # None /\ registered[i] = registered[j] => i = j
  /\ \A t \in Workers : tasks[t] # None /\ tasks[t].does = "put" /\ tasks[t].engine # None =>
       /\ \A i \in Ids : registered[i] # tasks[t].engine
       /\ \A u \in Workers : tasks[u] # None /\ tasks[u].does = "put" /\ tasks[u].engine = tasks[t].engine => u = t

(* The scanner.  A registered engine is at its address, or reads no entry  *)
(* of its id, or a task is about to take it away, or the registration is   *)
(* about to tell it its new address.                                       *)
Telling(id) ==
  Registering("refresh") /\ scan.entry.id = id /\ scan.entry.prior \notin {None, Nowhere, scan.entry.ip}

Followed(objects, registered, tasks, entered) ==
  \A id \in Ids :
    registered[id] # None =>
      \/ objects[registered[id]].stray \/ objects[registered[id]].reads # id
      \/ Removing(tasks, id) \/ Rekeying(tasks, id) \/ Telling(id)
      \/ entered[id] \in Ips /\ objects[registered[id]].ip = entered[id]

FleetFits(objects, registered, tasks, entered, written, status) ==
  /\ Fitting(objects, registered, tasks) /\ Unlisted(entered, status)
  /\ Emptied(registered, tasks, written, status) /\ Writers(objects, registered, tasks)
  /\ Rekeyed(objects, registered, tasks) /\ Single(registered, tasks)
  /\ Followed(objects, registered, tasks, entered)

FleetInv ==
  /\ FleetTypeOK /\ DOMAIN object = Engines /\ DOMAIN standing = Ids
  /\ FleetFits(object, registry, task, roster, files, standing)

ScannerInv ==
  /\ ScannerTypeOK
  /\ scan # None /\ scan.entry # None => scan.entry.id \in Miners \/ scan.entry.old = {}
  /\ Registering("refresh") \/ Registering("engine") => task["scanner"] = None

ServerInv ==
  /\ part \in Parts
  /\ NonceInv /\ ListingInv /\ CacheInv /\ FleetInv /\ ScannerInv /\ MigrationInv

-----------------------------------------------------------------------------
(* Nonces                                                                  *)

LEMMA NonceInitial == NonceInit => NonceInv
<1> SUFFICES ASSUME NonceInit PROVE NonceInv
  OBVIOUS
<1>1. clock \in Nat /\ value \in Nat /\ file \in Nat /\ highest \in Nat
  BY NonceAssumption DEF NonceInit
<1>2. spoiled \in BOOLEAN /\ value = highest /\ file = highest
  BY Zenon DEF NonceInit
<1> QED
  BY <1>1, <1>2, Zenon DEF NonceInv, NonceTypeOK, Unspoiled

LEMMA NonceSteps == NonceInv /\ [NonceNext]_nonce => NonceInv'
<1> SUFFICES ASSUME NonceInv, [NonceNext]_nonce PROVE NonceInv'
  OBVIOUS
<1>0. value \in Nat /\ file \in Nat /\ clock \in Nat /\ highest \in Nat
  BY Zenon DEF NonceInv, NonceTypeOK
<1>1. CASE Draw
  <2>1. NextNonce \in Nat
    BY <1>0 DEF NextNonce
  <2>2. value' \in Nat /\ clock' \in Nat /\ highest' \in Nat
    BY <1>0, <1>1, <2>1 DEF Draw
  <2>3. file' \in Nat /\ spoiled' \in BOOLEAN
    BY <1>0, <1>1, <2>2, Zenon DEF Draw
  <2>4. ASSUME ~spoiled' PROVE value' = highest' /\ file' = highest'
    <3>1. file' = value' /\ ~(spoiled /\ value' < highest)
      BY <1>1, <2>4, Zenon DEF Draw
    <3>2. CASE spoiled
      <4>1. ~(value' < highest) /\ highest' = (IF value' > highest THEN value' ELSE highest)
        BY <1>1, <3>1, <3>2, Zenon DEF Draw
      <4> QED
        BY <1>0, <2>2, <3>1, <4>1
    <3>3. CASE ~spoiled
      <4>1. value = highest
        BY <3>3, Zenon DEF NonceInv, Unspoiled
      <4>2. value' > value /\ highest' = (IF value' > highest THEN value' ELSE highest)
        BY <1>0, <1>1 DEF Draw, NextNonce
      <4> QED
        BY <1>0, <2>2, <3>1, <4>1, <4>2
    <3> QED
      BY <3>2, <3>3
  <2> QED
    BY <2>2, <2>3, <2>4, Zenon DEF NonceInv, NonceTypeOK, Unspoiled
<1>2. CASE Load
  <2>1. value' \in Nat
    BY <1>0, <1>2 DEF Load
  <2> QED
    BY <1>2, <2>1, Zenon DEF Load, NonceInv, NonceTypeOK, Unspoiled
<1>3. CASE ClockTicks
  <2>1. clock' \in Nat
    BY <1>0, <1>3 DEF ClockTicks
  <2> QED
    BY <1>3, <2>1, Zenon DEF ClockTicks, NonceInv, NonceTypeOK, Unspoiled
<1>4. CASE ClockSet
  <2>1. clock' \in Nat
    BY <1>0, <1>4 DEF ClockSet
  <2> QED
    BY <1>4, <2>1, Zenon DEF ClockSet, NonceInv, NonceTypeOK, Unspoiled
<1>5. CASE UNCHANGED nonce
  BY <1>5, Zenon DEF nonce, NonceInv, NonceTypeOK, Unspoiled
<1> QED
  BY <1>1, <1>2, <1>3, <1>4, <1>5 DEF NonceNext

-----------------------------------------------------------------------------
(* The publication of a rig                                                *)

Asking(i) ==
  /\ publishing' \in [Threads -> Publications \cup {None}] /\ latest' \in Threads
  /\ excuse' # None \/ publishing'[latest'] # None
  /\ publishing'[latest'] # None => publishing'[latest'].intent = i

(* What mrr_sync leaves to be done, and who is to do it.                   *)
LEMMA Publishing ==
  ASSUME ListingTyped, NEW t \in Threads, NEW i \in Intents, Publish(t, i)
  PROVE  Asking(i) /\ \A u \in Threads \ {t} : publishing'[u] = publishing[u]
<1>1. latest' = t /\ \A u \in Threads \ {t} : publishing'[u] = publishing[u]
  BY DEF Publish, ListingTyped
<1>2. CASE ready
  <2>1. publishing'[t] = [intent |-> i, asked |-> FALSE]
    BY <1>2 DEF Publish, ListingTyped
  <2>2. publishing'[t] \in Publications /\ publishing'[t].intent = i
    BY <2>1 DEF Publications
  <2>3. publishing'[t] # None
    BY <2>2, ListingAssumption DEF Publications
  <2>4. publishing' = [publishing EXCEPT ![t] = publishing'[t]]
    BY <1>2, <2>1 DEF Publish
  <2> QED
    BY <1>1, <2>2, <2>3, <2>4 DEF ListingTyped, Asking
<1>3. CASE ~ready
  <2>1. publishing' = [publishing EXCEPT ![t] = None] /\ excuse' = "skipped"
    BY <1>3 DEF Publish
  <2> QED
    BY <1>1, <2>1, ListingAssumption DEF ListingTyped, Asking
<1> QED
  BY <1>2, <1>3

LEMMA ListingInitial == ListingInit => ListingInv
<1> SUFFICES ASSUME ListingInit PROVE ListingInv
  OBVIOUS
<1>1. \A t \in Threads : publishing[t] = None
  BY DEF ListingInit
<1>2. "worker" \in Threads
  BY DEF Threads
<1> QED
  BY <1>1, <1>2, ListingAssumption DEF ListingInit, ListingInv, ListingTyped, ListingTypeOK, Withdrawn,
                                            Dying, Monitoring, Offered, Pending

(* A publication ends, and why is noted.                                   *)
LEMMA ListingEnds ==
  ASSUME ListingInv, NEW t \in Threads, NEW why, why # None, Ends(t, why)
  PROVE  ListingInv'
<1>1. publishing' = [publishing EXCEPT ![t] = None] /\ excuse' # None
  BY DEF Ends
<1>2. publishing'[latest] = None \/ publishing'[latest] = publishing[latest]
  BY <1>1 DEF ListingInv, ListingTyped
<1>3. publishing'["worker"] = None \/ publishing'["worker"] = publishing["worker"]
  BY <1>1 DEF ListingInv, ListingTyped, Threads
<1>4. ListingTyped'
  BY <1>1 DEF Ends, engine, flags, rig, ListingInv, ListingTyped
<1>5. ListingTypeOK'
  BY <1>3, <1>4 DEF Ends, engine, flags, rig, ListingInv, ListingTypeOK, ListingTyped, Publications
<1> QED
  BY <1>1, <1>2, <1>4, <1>5 DEF Ends, engine, flags, rig, ListingInv, Withdrawn, Dying, Monitoring, Offered, Pending

LEMMA ListingTells ==
  ASSUME ListingInv, NEW t \in Threads, NotRented(t) \/ Rented(t) \/ RequestFails(t) \/ Told(t)
  PROVE  ListingInv'
<1>1. CASE Rented(t)
  BY <1>1, ListingEnds, ListingAssumption DEF Rented
<1>2. CASE RequestFails(t)
  BY <1>2, ListingEnds, ListingAssumption DEF RequestFails
<1>3. CASE NotRented(t)
  <2>1. CASE Ends(t, "skipped")
    BY <2>1, ListingEnds, ListingAssumption
  <2>2. CASE /\ publishing' = [publishing EXCEPT ![t].asked = TRUE]
             /\ UNCHANGED <<engine, flags, hashrate, rig, history>>
    <3>1. publishing[t] \in Publications
      BY <1>3 DEF NotRented, ListingInv, ListingTyped
    <3>2. /\ publishing'[t] \in Publications /\ publishing'[t].intent = publishing[t].intent
          /\ \A u \in Threads \ {t} : publishing'[u] = publishing[u]
          /\ publishing' \in [Threads -> Publications \cup {None}]
      BY <2>2, <3>1 DEF ListingInv, ListingTyped, Publications
    <3>3. publishing'[t] # None
      BY <3>2, ListingAssumption DEF Publications
    <3>4. publishing[t] # None
      BY <1>3 DEF NotRented
    <3>5. /\ Pending' <=> Pending
          /\ Pending => publishing'[latest].intent = publishing[latest].intent
          /\ publishing["worker"] = None => publishing'["worker"] = None
      BY <2>2, <3>2, <3>3, <3>4 DEF Pending, history, ListingInv, ListingTyped, Threads
    <3>6. ListingTypeOK'
      BY <2>2, <3>2, <3>5 DEF engine, ListingInv, ListingTypeOK, Publications
    <3> QED
      BY <2>2, <3>2, <3>5, <3>6
      DEF engine, flags, rig, history, ListingInv, ListingTyped, Withdrawn, Dying, Monitoring, Offered
  <2> QED
    BY <1>3, <2>1, <2>2 DEF NotRented
<1>4. CASE Told(t)
  <2>1. /\ publishing' = [publishing EXCEPT ![t] = None] /\ listed' = (publishing[t].intent = "maintaining")
        /\ UNCHANGED <<engine, flags, latest>> /\ publishing[t] # None
        /\ excuse' = IF listed' /\ (~running \/ stage = "off") THEN "late"
                     ELSE IF t = latest THEN None
                     ELSE IF publishing[latest] = None THEN "crossed" ELSE excuse
    BY <1>4 DEF Told
  <2>2. "late" # None /\ "crossed" # None
    BY ListingAssumption
  <2>3. publishing'[t] = None /\ \A u \in Threads \ {t} : publishing'[u] = publishing[u]
    BY <2>1 DEF ListingInv, ListingTyped
  <2>4. ListingTyped' /\ (publishing["worker"] = None => publishing'["worker"] = None)
    BY <2>1 DEF engine, flags, ListingInv, ListingTyped, Threads
  <2>5. ListingTypeOK'
    BY <2>1, <2>4 DEF engine, ListingInv, ListingTypeOK, ListingTyped, Publications
  <2>6. Dying' /\ Monitoring'
    BY <2>1, <2>3, <2>4 DEF engine, flags, ListingInv, ListingTyped, Dying, Monitoring, Pending
  <2>7. CASE t = latest
    <3>1. Pending /\ ~Pending'
      BY <2>1, <2>3, <2>7 DEF Pending
    <3>2. Withdrawn' /\ Offered'
      BY <2>1, <2>2, <2>7, <3>1 DEF engine, flags, ListingInv, Withdrawn, Dying, Offered
    <3> QED
      BY <2>4, <2>5, <2>6, <3>2 DEF ListingInv
  <2>8. CASE t # latest
    <3>1. publishing'[latest] = publishing[latest] /\ latest' = latest
      BY <2>1, <2>3, <2>8 DEF ListingInv, ListingTyped
    <3>2. Withdrawn' /\ Offered'
      BY <2>1, <2>2, <2>8, <3>1 DEF engine, flags, ListingInv, Withdrawn, Offered, Pending
    <3> QED
      BY <2>4, <2>5, <2>6, <3>2 DEF ListingInv
  <2> QED
    BY <2>7, <2>8
<1> QED
  BY <1>1, <1>2, <1>3, <1>4

(* Steps of the worker that publish nothing.                               *)
LEMMA ListingSilent ==
  ASSUME ListingInv,
         Start \/ StartFineThenRetune \/ Retuned \/ Enter \/ BeginPhase0 \/ Works \/ Polish \/ EnterMonitor
         \/ Announce \/ NewWork \/ Leave \/ Retry \/ Die
  PROVE  ListingInv'
<1>1. UNCHANGED <<publishing, latest, excuse, listed>> /\ publishing["worker"] = None
  BY DEF Start, StartFineThenRetune, Retuned, Enter, BeginPhase0, Works, Polish, EnterMonitor, Announce,
         NewWork, Leave, Retry, Die, Failing, AtStage, Silent, history, rig
<1>2. ListingTyped'
  BY <1>1 DEF Start, StartFineThenRetune, Retuned, Enter, BeginPhase0, Works, Polish, EnterMonitor, Announce,
              NewWork, Leave, Retry, Die, flags, Clear, ListingInv, ListingTyped
<1>3. ListingTypeOK'
  BY <1>1 DEF Start, StartFineThenRetune, Retuned, Enter, BeginPhase0, Works, Polish, EnterMonitor, Announce,
              NewWork, Leave, Retry, Die, Goto, ListingInv, ListingTypeOK
<1>4. Pending' = Pending
  BY <1>1 DEF Pending
<1>5. Withdrawn'
  BY <1>1, <1>4 DEF Start, StartFineThenRetune, Retuned, Enter, BeginPhase0, Works, Polish, EnterMonitor,
              Announce, NewWork, Leave, Retry, Die, Goto, AtStage, ListingInv, Withdrawn
<1>6. Dying'
  BY <1>1, <1>4 DEF Start, StartFineThenRetune, Retuned, Enter, BeginPhase0, Works, Polish, EnterMonitor,
              Announce, NewWork, Leave, Retry, Die, Goto, AtStage, ListingInv, Dying
<1>7. Monitoring'
  BY <1>1 DEF Start, StartFineThenRetune, Retuned, Enter, BeginPhase0, Works, Polish, EnterMonitor,
              Announce, NewWork, Leave, Retry, Die, Goto, AtStage, ListingInv, Monitoring
<1>8. Offered'
  BY <1>1, <1>4 DEF Start, StartFineThenRetune, Retuned, Enter, BeginPhase0, Works, Polish, EnterMonitor,
              Announce, NewWork, Leave, Retry, Die, Goto, AtStage, ListingInv, Offered
<1> QED
  BY <1>2, <1>3, <1>5, <1>6, <1>7, <1>8 DEF ListingInv

(* Steps of the worker that begin to publish.                              *)
LEMMA ListingPublishes ==
  ASSUME ListingInv, StartRetune \/ Phase0 \/ PublishPolish \/ PublishEntry \/ GiveUp
                     \/ (ReRank /\ announced)
  PROVE  ListingInv'
<1>1. PICK i \in Intents :
        /\ Publish("worker", i)
        /\ stage' = "dying" => i = "error"
        /\ stage' \in {"entered", "hold"} => i = "maintaining"
  <2>1. CASE StartRetune \/ Phase0
    <3>1. Publish("worker", "tuning") /\ stage' \in {"retune", "work"} /\ "tuning" \in Intents
      BY <2>1 DEF StartRetune, Phase0, Goto, Intents
    <3> QED
      BY <3>1
  <2>2. CASE PublishPolish \/ PublishEntry \/ (ReRank /\ announced)
    <3>1. /\ Publish("worker", "maintaining") /\ stage' \in {"polish", "entered", "hold"}
          /\ "maintaining" \in Intents
      BY <2>2 DEF PublishPolish, PublishEntry, ReRank, Goto, AtStage, engine, Intents
    <3> QED
      BY <3>1
  <2>3. CASE GiveUp
    <3>1. Publish("worker", "error") /\ stage' = "dying" /\ "error" \in Intents
      BY <2>3 DEF GiveUp, Goto, Intents
    <3> QED
      BY <3>1
  <2> QED
    BY <2>1, <2>2, <2>3
<1>2. Asking(i)
  BY <1>1, Publishing DEF ListingInv, Threads
<1>3. UNCHANGED listed
  BY DEF StartRetune, Phase0, PublishPolish, PublishEntry, GiveUp, ReRank, rig
<1>4. ListingTyped'
  BY <1>2, <1>3 DEF StartRetune, Phase0, PublishPolish, PublishEntry, GiveUp, ReRank, Clear, engine, flags,
                    Asking, ListingInv, ListingTyped
<1>5. stage' \in {"retune", "work", "polish", "entered", "dying", "hold"}
  BY DEF StartRetune, Phase0, PublishPolish, PublishEntry, GiveUp, ReRank, Goto, AtStage, engine
<1>6. ListingTypeOK'
  BY <1>4, <1>5 DEF StartRetune, Phase0, PublishPolish, PublishEntry, GiveUp, ReRank, engine,
                    ListingInv, ListingTypeOK, ListingTyped, Publications
<1>7. Withdrawn'
  BY <1>2 DEF Asking, Withdrawn, Pending
<1>8. Dying'
  BY <1>1, <1>2 DEF StartRetune, Phase0, PublishPolish, PublishEntry, GiveUp, ReRank, Goto, AtStage, engine,
                    Clear, Asking, Dying, Pending
<1>9. Monitoring' /\ Offered'
  BY <1>1, <1>2 DEF StartRetune, Phase0, PublishPolish, PublishEntry, GiveUp, ReRank, Goto, AtStage, engine,
                    Asking, ListingInv, Monitoring, Offered, Pending
<1> QED
  BY <1>4, <1>6, <1>7, <1>8, <1>9 DEF ListingInv

(* The callers.                                                            *)
LEMMA ListingCallers ==
  ASSUME ListingInv, NEW c \in Callers, Stop(c) \/ Resync(c) \/ SelectProfile(c)
  PROVE  ListingInv'
<1>1. PICK i \in Intents :
        /\ Publish(c, i)
        /\ \/ Stop(c) /\ i = "stopped"
           \/ Resync(c) /\ i = Intent
           \/ SelectProfile(c) /\ i = "maintaining"
  <2>1. {"stopped", "maintaining", Intent} \subseteq Intents
    BY DEF Intents, Intent
  <2>2. /\ Stop(c) => Publish(c, "stopped")
        /\ Resync(c) => Publish(c, Intent)
        /\ SelectProfile(c) => Publish(c, "maintaining")
    BY DEF Stop, Resync, SelectProfile
  <2> QED
    BY <2>1, <2>2
<1>2. Asking(i) /\ \A u \in Threads \ {c} : publishing'[u] = publishing[u]
  BY <1>1, Publishing DEF ListingInv, Threads
<1>3. UNCHANGED <<listed, stage>>
  BY DEF Stop, Resync, SelectProfile, rig, engine
<1>4. ListingTyped'
  BY <1>2, <1>3 DEF Stop, Resync, SelectProfile, Clear, engine, flags, Asking, ListingInv, ListingTyped
<1>5. stage = "off" => publishing'["worker"] = None
  <2>1. c # "worker"
    BY ListingAssumption
  <2> QED
    BY <1>2, <2>1 DEF ListingInv, ListingTypeOK, Threads
<1>6. ListingTypeOK'
  BY <1>3, <1>4, <1>5 DEF Stop, Resync, SelectProfile, engine, ListingInv, ListingTypeOK, ListingTyped, Publications
<1>7. Withdrawn'
  BY <1>2 DEF Asking, Withdrawn, Pending
<1>8. Dying'
  BY <1>1, <1>2, <1>3 DEF Stop, Resync, SelectProfile, Intent, engine, flags, Clear, Asking, ListingInv, Dying, Pending
<1>9. Monitoring' /\ Offered'
  BY <1>1, <1>2, <1>3 DEF Stop, Resync, SelectProfile, Intent, engine, Asking, ListingInv, Monitoring, Offered, Pending
<1> QED
  BY <1>4, <1>6, <1>7, <1>8, <1>9 DEF ListingInv

(* An engine that ends without a word, and what changes by itself.         *)
LEMMA ListingElsewhere ==
  ASSUME ListingInv,
         SafetyStop \/ RunnerFails \/ DestroyEngine \/ ListingKill \/ SetUp \/ Rent
         \/ (ReRank /\ ~announced) \/ UNCHANGED listing
  PROVE  ListingInv'
<1>1. CASE SafetyStop \/ RunnerFails \/ DestroyEngine
  <2>1. UNCHANGED <<publishing, latest, listed>> /\ excuse' # None
    BY <1>1, ListingAssumption DEF SafetyStop, RunnerFails, DestroyEngine, rig
  <2>2. Pending' = Pending
    BY <2>1 DEF Pending
  <2>3. stage' = "off" \/ (DestroyEngine /\ UNCHANGED stage)
    BY <1>1 DEF SafetyStop, RunnerFails, DestroyEngine, Goto
  <2>4. ListingTyped'
    BY <1>1, <2>1 DEF SafetyStop, RunnerFails, DestroyEngine, Clear, flags, ListingInv, ListingTyped
  <2>5. ListingTypeOK'
    BY <1>1, <2>1, <2>3 DEF SafetyStop, RunnerFails, DestroyEngine, Failing, AtStage, ListingInv, ListingTypeOK
  <2>6. Dying' /\ Monitoring' /\ Offered' /\ Withdrawn'
    BY <1>1, <2>1, <2>2, <2>3 DEF DestroyEngine, Clear, ListingInv, Dying, Monitoring, Offered, Withdrawn
  <2> QED
    BY <2>4, <2>5, <2>6 DEF ListingInv
<1>2. CASE ListingKill
  <2>1. /\ running' = FALSE /\ stage' = "off" /\ excuse' # None /\ UNCHANGED latest /\ announced' = FALSE
        /\ phase' \in {"idle", "offline"} /\ publishing' = [t \in Threads |-> None]
    BY <1>2, ListingAssumption DEF ListingKill, Clear
  <2>2. listed' \in BOOLEAN
    BY <1>2 DEF ListingKill, ListingInv, ListingTyped
  <2>3. publishing'["worker"] = None
    BY <2>1 DEF Threads
  <2> QED
    BY <2>1, <2>2, <2>3
    DEF ListingInv, ListingTyped, ListingTypeOK, Withdrawn, Dying, Monitoring, Offered
<1>3. CASE SetUp \/ Rent \/ (ReRank /\ ~announced) \/ UNCHANGED listing
  <2>1. UNCHANGED <<engine, flags, publishing, listed, latest, excuse>>
    BY <1>3 DEF SetUp, Rent, ReRank, listing, rig, history, Silent
  <2> QED
    BY <2>1 DEF engine, flags, ListingInv, ListingTyped, ListingTypeOK, Withdrawn, Dying, Monitoring, Offered, Pending
<1> QED
  BY <1>1, <1>2, <1>3

LEMMA ListingSteps == ListingInv /\ [ListingNext]_listing => ListingInv'
<1> SUFFICES ASSUME ListingInv, [ListingNext]_listing PROVE ListingInv'
  OBVIOUS
<1>1. ListingWorker => ListingInv'
  BY ListingSilent, ListingPublishes, ListingElsewhere DEF ListingWorker
<1> QED
  BY <1>1, ListingSilent, ListingPublishes, ListingElsewhere, ListingTells, ListingCallers DEF ListingNext

(* With nothing under way and no excuse, the rig shows what it should.     *)
LEMMA RigShows == ListingInv => Truthful
<1> SUFFICES ASSUME ListingInv, \A t \in Threads : publishing[t] = None, excuse = None
             PROVE  /\ stage = "off" => ~listed
                    /\ stage = "hold" /\ announced /\ running => listed
  BY DEF Truthful
<1>1. ~Pending
  BY DEF Pending, ListingInv, ListingTyped
<1> QED
  BY <1>1 DEF ListingInv, Withdrawn, Offered
-----------------------------------------------------------------------------
(* The cache of rental states                                              *)

LEMMA CacheInitial == CacheInit => CacheInv
<1> SUFFICES ASSUME CacheInit PROVE CacheInv
  OBVIOUS
<1>1. \A m \in Macs : cached[m] = None
  BY DEF CacheInit
<1> QED
  BY <1>1 DEF CacheInit, CacheInv, CacheTypeOK, States

LEMMA CacheSteps == CacheInv /\ [CacheNext]_cache => CacheInv'
<1> SUFFICES ASSUME CacheInv, [CacheNext]_cache PROVE CacheInv'
  OBVIOUS
<1> USE DEF CacheInv, CacheTypeOK, States
<1>1. CASE Snapshot
  BY <1>1 DEF Snapshot, Snapshots
<1>2. CASE DropStale
  <2>1. cycle' \in Snapshots /\ cycle'.todo \subseteq Macs
    BY <1>2 DEF DropStale, Snapshots, Configured
  <2> QED
    BY <1>2, <2>1 DEF DropStale
<1>3. CASE Diagnose
  <2>1. \A m \in Macs : cached'[m] = IF m \in cycle.todo THEN [rig |-> cycle.rigs[m], state |-> cycle.state]
                                     ELSE cached[m]
    BY <1>3 DEF Diagnose
  <2>2. \A m \in cycle.todo : cycle.rigs[m] \in Rigs /\ cycle.state \in States
    BY <1>3 DEF Diagnose, Tracking, Configured, Snapshots
  <2> QED
    BY <1>3, <2>1, <2>2 DEF Diagnose
<1>4. CASE Fetch
  <2>1. PICK m \in cycle.todo, state \in {"live", "error"} :
          /\ cached' = [cached EXCEPT ![m] = [rig |-> cycle.rigs[m], state |-> state]]
          /\ cycle' = [cycle EXCEPT !.todo = @ \ {m}]
    BY <1>4 DEF Fetch
  <2>2. cycle.rigs[m] \in Rigs
    BY <1>4 DEF Fetch, Tracking, Configured, Snapshots
  <2>3. cycle' \in Snapshots
    BY <1>4, <2>1 DEF Fetch, Tracking, Snapshots
  <2>4. \A n \in Macs : cached'[n] = IF n = m THEN [rig |-> cycle.rigs[m], state |-> state] ELSE cached[n]
    BY <2>1
  <2> QED
    BY <1>4, <2>1, <2>2, <2>3, <2>4 DEF Fetch, Snapshots
<1>5. CASE EndCycle
  BY <1>5 DEF EndCycle
<1>6. CASE CacheRestart
  BY <1>6 DEF CacheRestart
<1>7. CASE AssignRig
  BY <1>7 DEF AssignRig, Edit
<1>8. CASE RemoveMiner
  BY <1>8 DEF RemoveMiner, Edit, Configured
<1>9. CASE SetService
  BY <1>9 DEF SetService, Edit
<1>10. CASE RefreshReads
  BY <1>10 DEF RefreshReads
<1>11. CASE RefreshOne
  <2>1. PICK r \in refreshing :
          /\ refreshing' = refreshing \ {r}
          /\ \/ r.rig = None /\ cached' = [cached EXCEPT ![r.mac] = None]
             \/ /\ r.state # None
                /\ \E state \in IF r.state = "live" THEN {"live", "error"} ELSE {r.state} :
                     cached' = [cached EXCEPT ![r.mac] = [rig |-> r.rig, state |-> state]]
    BY <1>11 DEF RefreshOne
  <2>2. UNCHANGED <<rigOf, service, cycle>> /\ refreshing' \subseteq refreshing
    BY <1>11, <2>1 DEF RefreshOne
  <2>3. CASE r.rig = None /\ cached' = [cached EXCEPT ![r.mac] = None]
    BY <2>2, <2>3
  <2>4. CASE r.rig = None
    BY <2>1, <2>3, <2>4
  <2>5. ASSUME NEW state, cached' = [cached EXCEPT ![r.mac] = [rig |-> r.rig, state |-> state]],
               state \in {"live", "error", "disabled", "no_creds"}, r.rig # None
        PROVE  CacheInv'
    BY <2>2, <2>5
  <2>6. CASE r.rig # None
    <3>1. PICK state \in IF r.state = "live" THEN {"live", "error"} ELSE {r.state} :
            r.state # None /\ cached' = [cached EXCEPT ![r.mac] = [rig |-> r.rig, state |-> state]]
      BY <2>1, <2>6
    <3>2. state \in {"live", "error", "disabled", "no_creds"}
      BY <3>1
    <3> QED
      BY <2>5, <2>6, <3>1, <3>2
  <2> QED
    BY <2>4, <2>6
<1>12. CASE UNCHANGED cache
  BY <1>12 DEF cache
<1> QED
  BY <1>1, <1>2, <1>3, <1>4, <1>5, <1>6, <1>7, <1>8, <1>9, <1>10, <1>11, <1>12
  DEF CacheNext, Daemon
-----------------------------------------------------------------------------
(* The migration                                                           *)

LEMMA MigrationInitial == MigrationInit => MigrationInv
<1> SUFFICES ASSUME MigrationInit PROVE MigrationInv
  OBVIOUS
<1>1. \A h \in Hosts : h \in Keys(h) /\ None \in Keys(h) /\ h \in AllKeys /\ None \in AllKeys
  BY DEF Keys, AllKeys
<1>2. /\ \A h \in Hosts : saved[h] \in {h, None} /\ entries[h] = None /\ resolved[h] = {}
      /\ \A h \in Hosts, k \in Files : tune[h][k] = h
  BY DEF MigrationInit
<1>3. MigrationTyped
  BY <1>1, <1>2 DEF MigrationInit, MigrationTyped
<1>4. MigrationTypeOK
  BY <1>1, <1>2 DEF MigrationInit, MigrationTypeOK
<1>5. GivenIds
  BY <1>2 DEF GivenIds, Given
<1>6. Renamed /\ InTurn
  BY <1>2 DEF MigrationInit, Renamed, InTurn
<1> QED
  BY <1>3, <1>4, <1>5, <1>6 DEF MigrationInv

(* The file that is renamed now is the one whose turn it is.               *)
LEMMA NextTurn ==
  ASSUME MigrationInv, Rename, NEW h \in Hosts, h = renaming.host, NEW j, j = Kinds[renaming.done + 1],
         NEW k \in Files, ToCome(h, k)
  PROVE  k = j \/ ToCome(h, k)'
<1>1. renaming # None /\ renaming.done \in 0..1 /\ renaming.host \in Hosts
  BY DEF MigrationInv, InTurn, Rename
<1>2. PICK i \in DOMAIN Kinds : Kinds[i] = k /\ i > renaming.done
  BY DEF ToCome
<1>3. DOMAIN Kinds = 1..2 /\ Len(Kinds) = 2
  BY DEF Kinds
<1>4. CASE i = renaming.done + 1
  BY <1>2, <1>4
<1>5. CASE i # renaming.done + 1
  <2>1. renaming.done = 0 /\ i = 2
    BY <1>1, <1>2, <1>3, <1>5
  <2>2. renaming' = [renaming EXCEPT !.done = 1]
    BY <1>3, <2>1 DEF Rename
  <2>3. renaming \in [host : Hosts, done : 0..1]
    BY <1>1 DEF MigrationInv, InTurn
  <2>4. renaming' \in [host : Hosts, done : 0..1] /\ renaming'.host = renaming.host /\ renaming'.done = 1
    BY <2>2, <2>3
  <2>5. renaming' # None
    BY <2>4, MigrationAssumption
  <2> QED
    BY <1>2, <2>1, <2>4, <2>5 DEF ToCome
<1> QED
  BY <1>4, <1>5

LEMMA MigrationSteps == MigrationInv /\ [MigrationNext]_migration => MigrationInv'
<1> SUFFICES ASSUME MigrationInv, [MigrationNext]_migration PROVE MigrationInv'
  OBVIOUS
<1>0. \A h \in Hosts : /\ None \in Keys(h) /\ h \in Keys(h) /\ {MacOf(h)} \cup MadeUp \subseteq Keys(h)
                      /\ Keys(h) \subseteq AllKeys /\ None \in AllKeys
  BY DEF Keys, AllKeys
<1>1. CASE Boot
  <2>1. renaming = None /\ ~(boot' = "up")
    BY <1>1 DEF Boot, MigrationInv, InTurn
  <2> QED
    BY <1>1, <2>1
    DEF Boot, MigrationInv, MigrationTyped, MigrationTypeOK, GivenIds, Given, Renamed, HasFiles, ToCome, InTurn
<1>2. ASSUME NEW h \in Hosts, Identify(h) PROVE MigrationInv'
  <2>1. PICK id \in {MacOf(h)} \cup MadeUp :
          entries' = [entries EXCEPT ![h] = id] /\ resolved' = [resolved EXCEPT ![h] = @ \cup {id}]
    BY <1>2 DEF Identify
  <2>2. /\ renaming' \in [host : Hosts, done : 0..1] /\ renaming'.host = h /\ renaming'.done = 0
        /\ renaming' # None
    BY <1>2, MigrationAssumption DEF Identify
  <2>3. /\ boot = "migrate" /\ renaming = None
        /\ UNCHANGED <<saved, boot, tune, taken, fleetIps, unrenamed>>
    BY <1>2 DEF Identify
  <2>4. /\ entries'[h] = id /\ \A g \in Hosts \ {h} : entries'[g] = entries[g]
        /\ resolved'[h] = resolved[h] \cup {id} /\ \A g \in Hosts \ {h} : resolved'[g] = resolved[g]
    BY <2>1 DEF MigrationInv, MigrationTyped
  <2>5. MigrationTyped' /\ MigrationTypeOK'
    <3>1. id \in Keys(h) /\ id \in AllKeys
      BY <1>0
    <3> QED
      BY <2>1, <2>2, <2>3, <2>4, <3>1 DEF MigrationInv, MigrationTyped, MigrationTypeOK
  <2>6. GivenIds'
    BY <2>3, <2>4 DEF MigrationInv, GivenIds, Given
  <2>7. \A k \in Files : ToCome(h, k)'
    <3>1. \A i \in DOMAIN Kinds : i > 0
      BY DEF Kinds
    <3> QED
      BY <2>2, <3>1 DEF ToCome, Files
  <2>8. \A g \in Hosts, k \in Files : ~ToCome(g, k)
    BY <2>3 DEF ToCome
  <2>9. Renamed'
    BY <2>3, <2>4, <2>7, <2>8 DEF MigrationInv, Renamed, HasFiles
  <2>10. InTurn'
    BY <2>2, <2>3, <2>4 DEF InTurn
  <2> QED
    BY <2>5, <2>6, <2>9, <2>10 DEF MigrationInv
<1>3. CASE Rename
  <2>0. PICK h, j, id : h \in Hosts /\ h = renaming.host /\ j = Kinds[renaming.done + 1] /\ id = entries[h]
    BY <1>3 DEF Rename, MigrationInv, InTurn
  <2>1. /\ renaming # None /\ renaming \in [host : Hosts, done : 0..1] /\ h \in Hosts
        /\ id \in resolved[h] /\ boot = "migrate"
    BY <1>3, <2>0 DEF Rename, MigrationInv, InTurn
  <2>2. j \in Files
    <3>1. renaming.done + 1 \in DOMAIN Kinds
      BY <2>1 DEF Kinds
    <3> QED
      BY <2>0, <3>1 DEF Files
  <2>3. UNCHANGED <<saved, entries, boot, taken, fleetIps, resolved>>
    BY <1>3 DEF Rename
  <2>4. \/ tune' = [tune EXCEPT ![h][j] = id] /\ tune[h][j] = h /\ UNCHANGED unrenamed
        \/ tune[h][j] = h /\ unrenamed' = unrenamed \cup {<<h, j>>} /\ UNCHANGED tune
        \/ tune[h][j] # h /\ UNCHANGED <<tune, unrenamed>>
    BY <1>3, <2>0 DEF Rename
  <2>5. \A g \in Hosts, k \in Files :
          \/ tune'[g][k] = tune[g][k]
          \/ g = h /\ k = j /\ tune[g][k] = h /\ tune'[g][k] = id
    <3> QED
      BY <2>1, <2>2, <2>4 DEF MigrationInv, MigrationTyped
  <2>6. \A i \in {id} : i \in {MacOf(h)} \cup MadeUp
    BY <2>1 DEF MigrationInv, MigrationTyped
  <2>7. renaming' = None \/ (renaming' \in [host : Hosts, done : 0..1] /\ renaming'.host = h)
    <3>1. CASE renaming.done + 1 = Len(Kinds)
      BY <1>3, <3>1 DEF Rename
    <3>2. CASE renaming.done + 1 # Len(Kinds)
      <4>1. renaming.done = 0
        BY <2>1, <3>2 DEF Kinds
      <4>2. renaming' = [renaming EXCEPT !.done = 1]
        BY <1>3, <3>2, <4>1 DEF Rename
      <4> QED
        BY <2>0, <2>1, <4>2
    <3> QED
      BY <3>1, <3>2
  <2>8. MigrationTyped'
    <3>1. tune' \in [Hosts -> [Files -> AllKeys]]
      <4>1. id \in AllKeys
        BY <1>0, <2>1, <2>6
      <4> QED
        BY <2>1, <2>2, <2>4, <4>1 DEF MigrationInv, MigrationTyped
    <3> QED
      BY <2>3, <3>1 DEF MigrationInv, MigrationTyped
  <2>9. MigrationTypeOK'
    <3>1. id \in Keys(h)
      BY <1>0, <2>1, <2>6
    <3> QED
      BY <2>1, <2>3, <2>5, <3>1 DEF MigrationInv, MigrationTypeOK
  <2>10. GivenIds'
    <3> QED
      BY <2>1, <2>3, <2>5 DEF MigrationInv, GivenIds, Given
  <2>11. InTurn'
    BY <2>0, <2>1, <2>3, <2>7 DEF InTurn, MigrationInv
  <2>12. HasFiles(h, j)' \/ id = h
    <3> QED
      BY <2>1, <2>2, <2>4 DEF HasFiles, MigrationInv, MigrationTyped
  <2>13. ASSUME NEW g \in Hosts, NEW k \in Files, HasFiles(g, k)
         PROVE  HasFiles(g, k)' \/ (g = h /\ id = h)
    <3> QED
      BY <2>4, <2>5, <2>13 DEF HasFiles
  <2>14. Renamed'
    <3>1. ASSUME id # h PROVE Renamed'
      <4>1. \A g \in Hosts, k \in Files : HasFiles(g, k) => HasFiles(g, k)'
        BY <2>13, <3>1
      <4>2. ASSUME NEW g \in Hosts, NEW k \in Files, entries'[g] \notin {g, None}
            PROVE  HasFiles(g, k)' \/ ToCome(g, k)'
        <5>1. HasFiles(g, k) \/ ToCome(g, k)
          BY <2>3, <4>2 DEF MigrationInv, Renamed
        <5>2. CASE HasFiles(g, k)
          BY <4>1, <5>2
        <5>3. CASE ToCome(g, k)
          <6>1. g = h
            BY <2>0, <5>3 DEF ToCome
          <6>2. k = j \/ ToCome(g, k)'
            BY <1>3, <2>0, <5>3, <6>1, NextTurn
          <6> QED
            BY <2>12, <3>1, <6>1, <6>2
        <5> QED
          BY <5>1, <5>2, <5>3
      <4> QED
        BY <2>3, <4>1, <4>2 DEF MigrationInv, Renamed
    <3>2. ASSUME id = h PROVE Renamed'
      <4>2. \A g \in Hosts, k \in Files : tune'[g][k] = tune[g][k]
        BY <2>5, <3>2
      <4>3. \A g \in Hosts, k \in Files : HasFiles(g, k) => HasFiles(g, k)'
        BY <2>4, <4>2 DEF HasFiles
      <4>4. ASSUME NEW g \in Hosts, NEW k \in Files, entries'[g] \notin {g, None}
            PROVE  HasFiles(g, k)'
        <5>1. g # h
          BY <2>0, <2>3, <3>2, <4>4
        <5>2. ~ToCome(g, k)
          BY <2>0, <5>1 DEF ToCome
        <5> QED
          BY <2>3, <4>3, <4>4, <5>2 DEF MigrationInv, Renamed
      <4> QED
        BY <2>3, <4>3, <4>4 DEF MigrationInv, Renamed
    <3> QED
      BY <3>1, <3>2
  <2> QED
    BY <2>8, <2>9, <2>10, <2>11, <2>14 DEF MigrationInv
<1>4. CASE SaveMigrated
  <2>1. /\ \A h \in Hosts : entries'[h] = entries[h] \/ entries'[h] = None
        /\ \A h \in Hosts : saved'[h] = saved[h] \/ saved'[h] = entries[h] \/ saved'[h] = None
        /\ entries' \in [Hosts -> AllKeys]
        /\ saved' \in [Hosts -> AllKeys]
    <3>1. /\ \A h \in Hosts : Kept[h] = entries[h] \/ Kept[h] = None
          /\ Kept \in [Hosts -> AllKeys]
      BY <1>0 DEF Kept, MigrationInv, MigrationTyped
    <3>2. entries' = Kept /\ saved' \in {saved, Kept}
      BY <1>4 DEF SaveMigrated
    <3> QED
      BY <3>1, <3>2 DEF MigrationInv, MigrationTyped
  <2>2. \A h \in Hosts : entries[h] # h
    BY <1>4 DEF SaveMigrated, Migrated
  <2>3. renaming = None /\ boot' = "up" /\ UNCHANGED <<renaming, tune, taken, fleetIps, resolved, unrenamed>>
    BY <1>4 DEF SaveMigrated
  <2>4. MigrationTyped' /\ MigrationTypeOK'
    BY <1>0, <2>1, <2>3 DEF MigrationInv, MigrationTyped, MigrationTypeOK
  <2>5. GivenIds'
    BY <2>1, <2>3 DEF MigrationInv, GivenIds, Given
  <2>6. Renamed'
    BY <2>1, <2>3 DEF MigrationInv, Renamed, HasFiles, ToCome
  <2>7. InTurn'
    BY <2>1, <2>2, <2>3 DEF InTurn
  <2> QED
    BY <2>4, <2>5, <2>6, <2>7 DEF MigrationInv
<1>5. CASE EditSaves
  <2>1. renaming = None
    BY <1>5 DEF EditSaves, MigrationInv, InTurn
  <2> QED
    BY <1>5, <2>1
    DEF EditSaves, MigrationInv, MigrationTyped, MigrationTypeOK, GivenIds, Given, Renamed, HasFiles, ToCome, InTurn
<1>6. CASE Dies
  <2>1. \A h \in Hosts : entries'[h] = None
    BY <1>6 DEF Dies
  <2>2. renaming' = None /\ boot' = "down" /\ UNCHANGED <<saved, tune, taken, fleetIps, resolved, unrenamed>>
    BY <1>6 DEF Dies
  <2>3. entries' \in [Hosts -> AllKeys]
    BY <1>0, <1>6 DEF Dies
  <2> QED
    BY <1>0, <2>1, <2>2, <2>3
    DEF MigrationInv, MigrationTyped, MigrationTypeOK, GivenIds, Given, Renamed, HasFiles, InTurn
<1>7. ASSUME NEW h \in Hosts, NEW k \in Files, EngineWrites(h, k) PROVE MigrationInv'
  BY <1>7
  DEF EngineWrites, MigrationInv, MigrationTyped, MigrationTypeOK, GivenIds, Given, Renamed, HasFiles, ToCome, InTurn
<1>8. CASE UNCHANGED migration
  BY <1>8
  DEF migration, MigrationInv, MigrationTyped, MigrationTypeOK, GivenIds, Given, Renamed, HasFiles, ToCome, InTurn
<1> QED
  BY <1>1, <1>2, <1>3, <1>4, <1>5, <1>6, <1>7, <1>8 DEF MigrationNext

(* At an entry with the only id its host was given, the files have no      *)
(* other name than that id.                                                *)
LEMMA FilesFollow == MigrationInv => MigrationLosesNoFile
<1> SUFFICES ASSUME MigrationInv, boot = "up", NEW h \in Hosts, NEW k \in Files,
                    entries[h] # None, resolved[h] = {entries[h]}
             PROVE  tune[h][k] = entries[h] \/ <<h, k>> \in unrenamed
  BY DEF MigrationLosesNoFile
<1>1. entries[h] \notin {h, None} /\ ~ToCome(h, k)
  BY DEF MigrationInv, InTurn, ToCome
<1>2. HasFiles(h, k)
  BY <1>1 DEF MigrationInv, Renamed
<1>3. tune[h][k] \in {h} \cup resolved[h]
  BY DEF MigrationInv, GivenIds
<1> QED
  BY <1>2, <1>3 DEF HasFiles
-----------------------------------------------------------------------------
(* The fleet                                                               *)

\* What the steps of the fleet leave to those around them.
Around == left' \in 0..Requests /\ \A id \in Ids : Telling(id) => Telling(id)'

\* Garbage is what nothing refers to.
SweptTo(objects, registered, tasks) ==
  /\ registry' = registered /\ task' = tasks /\ DOMAIN object' = Engines
  /\ \A e \in Engines : object'[e] \in {objects[e], None}
  /\ \A i \in Ids : registered[i] \in Engines => object'[registered[i]] = objects[registered[i]]
  /\ \A t \in Workers : tasks[t] # None /\ tasks[t].engine \in Engines
                          => object'[tasks[t].engine] = objects[tasks[t].engine]

LEMMA Sweeping ==
  ASSUME NEW objects, NEW registered, NEW tasks, Becomes(objects, registered, tasks)
  PROVE  SweptTo(objects, registered, tasks)
BY DEF Becomes, Swept, SweptTo

LEMMA NotSweeping ==
  ASSUME FleetInv, UNCHANGED <<registry, object>>
  PROVE  SweptTo(object, registry, task')
BY DEF FleetInv, SweptTo

\* The rest of the fleet's variables.
RestOK ==
  /\ roster' \in [Ids -> Ips \cup {Nowhere, None}] /\ minerIps' \subseteq Ips /\ files' \subseteq Ids
  /\ DOMAIN standing' = Ids

(* What fits one another does so when the garbage is gone.                 *)
LEMMA FleetMoves ==
  ASSUME NEW objects, NEW registered, NEW tasks, SweptTo(objects, registered, tasks), Around, RestOK,
         FleetFits(objects, registered, tasks, roster', files', standing')
  PROVE  FleetInv'
<1>1. \A t \in Workers : tasks[t] # None => tasks[t].engine \in Engines \cup {None}
  BY DEF FleetFits, Fitting, Tasks
<1>2. registered \in [Ids -> Engines \cup {None}]
  BY DEF FleetFits, Fitting
<1>3. FleetTypeOK'
  BY <1>1, <1>2 DEF FleetFits, Fitting, SweptTo, Around, RestOK, FleetTypeOK
<1>4. Fitting(object, registry, task)'
  BY <1>1, <1>2 DEF FleetFits, Fitting, SweptTo
<1>5. Unlisted(roster, standing)' /\ Emptied(registry, task, files, standing)'
  BY DEF FleetFits, SweptTo, Unlisted, Emptied
<1>6. Writers(object, registry, task)'
  BY DEF FleetFits, SweptTo, Writers
<1>7. Rekeyed(object, registry, task)'
  <2>1. Synths \subseteq Ids
    BY DEF Ids
  <2> QED
    BY <1>1, <1>2, <2>1 DEF FleetFits, SweptTo, Rekeyed
<1>8. Followed(object, registry, task, roster)'
  BY <1>2 DEF FleetFits, SweptTo, Followed, Around
<1>9. Single(registry, task)'
  BY DEF FleetFits, SweptTo, Single
<1> QED
  BY <1>3, <1>4, <1>5, <1>6, <1>7, <1>8, <1>9 DEF FleetFits, FleetInv, SweptTo, RestOK

(* The engine of an id that has an address talks to it.                    *)
LEMMA NewObject ==
  ASSUME FleetInv, NEW id \in Ids
  PROVE  /\ New(id) \in Objects /\ New(id) # None
         /\ New(id).mac = id /\ New(id).reads = id /\ ~New(id).destroyed /\ ~New(id).lost
         /\ New(id).stray \/ (roster[id] \in Ips /\ New(id).ip = roster[id])
<1>1. roster[id] \in Ips \cup {Nowhere, None}
  BY DEF FleetInv, FleetTypeOK
<1>2. New(id) \in Objects
  BY <1>1 DEF New, Objects
<1> QED
  BY <1>1, <1>2, FleetAssumption DEF New

(* An engine the registry lets go of is destroyed or lost.                 *)
LEMMA Losing ==
  ASSUME FleetInv, NEW e \in Engines \cup {None}, e # None => object[e] # None
  PROVE  /\ DOMAIN Lose(object, e) = Engines
         /\ \A f \in Engines \ {e} : Lose(object, e)[f] = object[f]
         /\ e # None => /\ Lose(object, e)[e] \in Objects /\ Lose(object, e)[e] # None
                        /\ Lose(object, e)[e].destroyed \/ Lose(object, e)[e].lost
                        /\ Lose(object, e)[e].mac = object[e].mac
                        /\ Lose(object, e)[e].reads = object[e].reads
                        /\ Lose(object, e)[e].stray = object[e].stray
                        /\ Lose(object, e)[e].ip = object[e].ip
                        /\ Lose(object, e)[e].destroyed = object[e].destroyed
<1>1. CASE e = None
  BY <1>1, FleetAssumption DEF Lose, FleetInv
<1>2. CASE e # None
  <2>1. object[e] \in Objects /\ Lose(object, e) = [object EXCEPT ![e].lost = ~object[e].destroyed]
    BY <1>2 DEF Lose, FleetInv, FleetTypeOK
  <2>2. Lose(object, e)[e] = [object[e] EXCEPT !.lost = ~object[e].destroyed]
    BY <1>2, <2>1 DEF FleetInv
  <2>3. Lose(object, e)[e] \in Objects
    BY <2>1, <2>2 DEF Objects
  <2> QED
    BY <1>2, <2>1, <2>2, <2>3, FleetAssumption DEF FleetInv, Objects
<1> QED
  BY <1>1, <1>2

\* What tasks were about to do, they still are; no re-keying begins.
TasksKept(tasks) ==
  /\ \A i \in Ids :
       /\ Removing(task, i) => Removing(tasks, i)
       /\ Deleting(task, i) => Deleting(tasks, i)
       /\ Rekeying(task, i) => Rekeying(tasks, i)
       /\ \A e \in Engines : Taken(task, i, e) => Taken(tasks, i, e)
  /\ \A t \in Workers : tasks[t] # None /\ tasks[t].does \in {"rekey", "put", "rename"} => tasks[t] = task[t]

LEMMA OtherTasks ==
  ASSUME NEW t \in Workers, NEW tasks, \A u \in Workers \ {t} : tasks[u] = task[u],
         task[t] = None \/ task[t].does \notin {"remove", "destroy", "delete", "rekey"},
         tasks[t] = None \/ tasks[t].does \notin {"rekey", "put", "rename"}
  PROVE  TasksKept(tasks)
BY DEF TasksKept, Removing, Deleting, Rekeying, Taken, Doings

\* Objects that differ in nothing but whether their thread lives.
Alike(objects) ==
  \A e \in Engines :
    /\ (objects[e] = None) = (object[e] = None)
    /\ object[e] # None => /\ objects[e].mac = object[e].mac /\ objects[e].reads = object[e].reads
                           /\ objects[e].ip = object[e].ip /\ objects[e].stray = object[e].stray
                           /\ objects[e].destroyed = object[e].destroyed /\ objects[e].lost = object[e].lost

(* A step that leaves entries and registry alone, and of engines everything*)
(* but their threads; the files it writes a removal will still delete.     *)
LEMMA Quietly ==
  ASSUME FleetInv, Around, NEW objects, NEW tasks, SweptTo(objects, registry, tasks),
         Fitting(objects, registry, tasks), Alike(objects), TasksKept(tasks), UNCHANGED roster,
         minerIps' \subseteq Ips, files' \subseteq Ids, DOMAIN standing' = Ids,
         \A i \in Ids : Removed(standing', i) =>
           Removed(standing, i) /\ (i \in files' => i \in files \/ Deleting(task, i))
  PROVE  FleetInv'
<1>1. Unlisted(roster', standing')
  BY DEF FleetInv, FleetFits, Unlisted
<1>2. Emptied(registry, tasks, files', standing')
  BY DEF FleetInv, FleetFits, Emptied, TasksKept
<1>3. Writers(objects, registry, tasks)
  <2>1. \A e \in Engines : object[e] # None => object[e].mac \in Ids
    BY DEF FleetInv, FleetTypeOK, Objects
  <2> QED
    BY <2>1 DEF FleetInv, FleetFits, Writers, TasksKept, Alike
<1>4. \A i \in Ids : registry[i] # None => registry[i] \in Engines /\ object[registry[i]] # None
  BY DEF FleetInv, FleetTypeOK
<1>5. Rekeyed(objects, registry, tasks)
  <2>1. \A t \in Workers : tasks[t] # None /\ tasks[t].does = "put" /\ tasks[t].engine # None
                             => tasks[t].engine \in Engines
    BY DEF Fitting, Tasks
  <2>2. \A t \in Workers : tasks[t] # None /\ tasks[t].does = "put" /\ tasks[t].engine # None
                             => /\ tasks[t].engine \in Engines /\ object[tasks[t].engine] # None
                                /\ object[tasks[t].engine].reads \in Synths
    BY <2>1 DEF FleetInv, FleetFits, Fitting, Rekeyed, TasksKept
  <2> QED
    BY <1>4, <2>2 DEF FleetInv, FleetFits, Rekeyed, TasksKept, Alike, Ids
<1>6. Followed(objects, registry, tasks, roster')
  BY <1>4 DEF FleetInv, FleetFits, Followed, TasksKept, Alike
<1>7. RestOK
  BY DEF FleetInv, FleetTypeOK, RestOK
<1>8. Single(registry, tasks)
  BY DEF FleetInv, FleetFits, Single, TasksKept
<1> QED
  BY <1>1, <1>2, <1>3, <1>5, <1>6, <1>7, <1>8, FleetMoves DEF FleetFits

(* A thread of the engine begins or ends.                                  *)
LEMMA ThreadsAlike ==
  ASSUME FleetInv, NEW e \in Engines, object[e] # None, NEW b \in BOOLEAN
  PROVE  /\ Alike([object EXCEPT ![e].alive = b])
         /\ \A f \in Engines : [object EXCEPT ![e].alive = b][f] \in Objects \cup {None}
<1>1. object[e] \in Objects
  BY DEF FleetInv, FleetTypeOK
<1>2. /\ [object EXCEPT ![e].alive = b][e] = [object[e] EXCEPT !.alive = b]
      /\ \A f \in Engines \ {e} : [object EXCEPT ![e].alive = b][f] = object[f]
  BY DEF FleetInv
<1>3. [object[e] EXCEPT !.alive = b] \in Objects
  BY <1>1 DEF Objects
<1>4. /\ [object[e] EXCEPT !.alive = b] # None
      /\ [object[e] EXCEPT !.alive = b].mac = object[e].mac
      /\ [object[e] EXCEPT !.alive = b].reads = object[e].reads
      /\ [object[e] EXCEPT !.alive = b].ip = object[e].ip
      /\ [object[e] EXCEPT !.alive = b].stray = object[e].stray
      /\ [object[e] EXCEPT !.alive = b].destroyed = object[e].destroyed
      /\ [object[e] EXCEPT !.alive = b].lost = object[e].lost
  BY <1>1, <1>3, FleetAssumption DEF Objects
<1> HIDE DEF Objects
<1> QED
  BY <1>2, <1>3, <1>4 DEF Alike, FleetInv, FleetTypeOK

LEMMA OneTask ==
  ASSUME FleetInv, NEW t \in Workers, NEW n, NEW tasks, tasks = [task EXCEPT ![t] = n]
  PROVE  DOMAIN tasks = Workers /\ tasks[t] = n /\ \A u \in Workers \ {t} : tasks[u] = task[u]
BY DEF FleetInv, FleetFits, Fitting

LEMMA OneTaskFits ==
  ASSUME FleetInv, NEW t \in Workers, NEW n \in Tasks \cup {None},
         n = None \/ n.engine = None \/ object[n.engine] # None,
         n = None \/ n.does \notin {"start", "partial"} \/ n.engine # None,
         NEW tasks, tasks = [task EXCEPT ![t] = n]
  PROVE  Fitting(object, registry, tasks)
<1>1. DOMAIN tasks = Workers /\ tasks[t] = n /\ \A u \in Workers \ {t} : tasks[u] = task[u]
  BY OneTask
<1> QED
  BY <1>1 DEF FleetInv, FleetFits, Fitting

LEMMA TaskTyped ==
  ASSUME FleetInv, NEW t \in Workers, task[t] # None
  PROVE  /\ task[t] \in Tasks /\ task[t].id \in Ids /\ task[t].to \in Ids \cup {None}
         /\ task[t].engine \in Engines \cup {None}
         /\ task[t].engine # None => object[task[t].engine] # None
BY DEF FleetInv, FleetFits, Fitting, Tasks

(* start(), also of an engine destroyed meanwhile.                         *)
LEMMA StartsEngine ==
  ASSUME FleetInv, Around, NEW t \in Workers, StartEngine(t)
  PROVE  FleetInv'
<1>1. PICK e, objects, tasks :
        /\ e = task[t].engine /\ objects = [object EXCEPT ![e].alive = TRUE] /\ tasks = [task EXCEPT ![t] = None]
        /\ Becomes(objects, registry, tasks)
  BY DEF StartEngine
<1>2. task[t] # None /\ task[t].does = "start" /\ UNCHANGED <<roster, minerIps, files, standing>>
  BY DEF StartEngine
<1>3. e \in Engines /\ object[e] # None
  BY <1>1, <1>2, TaskTyped DEF FleetInv, FleetFits, Fitting
<1>4. SweptTo(objects, registry, tasks)
  BY <1>1, Sweeping
<1>5. Fitting(object, registry, tasks)
  BY <1>1, OneTaskFits
<1>6. Alike(objects) /\ \A f \in Engines : objects[f] \in Objects \cup {None}
  BY <1>1, <1>3, ThreadsAlike
<1>7. Fitting(objects, registry, tasks)
  <2>1. \A u \in Workers : tasks[u] # None => tasks[u].engine \in Engines \cup {None}
    BY <1>5 DEF Fitting, Tasks
  <2> QED
    BY <1>5, <1>6, <2>1 DEF Fitting, Alike
<1>8. TasksKept(tasks)
  <2>1. tasks[t] = None /\ \A u \in Workers \ {t} : tasks[u] = task[u]
    BY <1>1, OneTask
  <2> QED
    BY <1>2, <2>1, OtherTasks
<1> QED
  BY <1>2, <1>4, <1>6, <1>7, <1>8, Quietly DEF FleetInv, FleetTypeOK

LEMMA EndsThread ==
  ASSUME FleetInv, Around, NEW e \in Engines, ThreadEnds(e)
  PROVE  FleetInv'
<1> DEFINE objects == [object EXCEPT ![e].alive = FALSE]
<1>1. object[e] # None /\ Becomes(objects, registry, task) /\ UNCHANGED <<roster, minerIps, files, standing>>
  BY DEF ThreadEnds
<1>2. SweptTo(objects, registry, task)
  BY <1>1, Sweeping
<1>3. Alike(objects) /\ \A f \in Engines : objects[f] \in Objects \cup {None}
  BY <1>1, ThreadsAlike
<1>4. Fitting(objects, registry, task)
  <2>1. \A u \in Workers : task[u] # None => task[u].engine \in Engines \cup {None}
    BY TaskTyped
  <2> HIDE DEF objects
  <2> QED
    BY <1>3, <2>1 DEF FleetInv, FleetFits, Fitting, Alike
<1>5. TasksKept(task)
  BY DEF TasksKept
<1> HIDE DEF objects
<1> QED
  BY <1>1, <1>2, <1>3, <1>4, <1>5, Quietly DEF FleetInv, FleetTypeOK

(* Tasks that begin, or write, without touching engines or entries.        *)
LEMMA QuietTask ==
  ASSUME FleetInv, Around, NEW t \in Workers, NEW n \in Tasks \cup {None}, task' = [task EXCEPT ![t] = n],
         n = None \/ n.engine = None \/ object[n.engine] # None,
         n = None \/ n.does \notin {"start", "partial"} \/ n.engine # None,
         SweptTo(object, registry, task'), UNCHANGED <<roster, minerIps>>,
         task[t] = None \/ task[t].does \notin {"remove", "destroy", "delete", "rekey"},
         n = None \/ n.does \notin {"rekey", "put", "rename"},
         files' \subseteq Ids, DOMAIN standing' = Ids,
         \A i \in Ids : Removed(standing', i) =>
           Removed(standing, i) /\ (i \in files' => i \in files \/ Deleting(task, i))
  PROVE  FleetInv'
<1>1. PICK tasks : tasks = task'
  OBVIOUS
<1>0. Fitting(object, registry, tasks)
  BY <1>1, OneTaskFits
<1>2. TasksKept(tasks)
  <2>1. tasks[t] = n /\ \A u \in Workers \ {t} : tasks[u] = task[u]
    BY <1>1, OneTask
  <2> QED
    BY <2>1, OtherTasks
<1>3. Alike(object)
  BY DEF Alike
<1> QED
  BY <1>0, <1>1, <1>2, <1>3, Quietly DEF FleetInv, FleetTypeOK

LEMMA BeginsQuietly ==
  ASSUME FleetInv, Around, NEW t \in Workers, NEW id \in Ids,
         Poll(t, id) \/ Reset(t, id) \/ PartialReset(t, id) \/ ResetDelete(t)
  PROVE  FleetInv'
<1>1. UNCHANGED <<roster, minerIps, registry, object, standing>>
  BY DEF Poll, Reset, PartialReset, ResetDelete
<1>2. SweptTo(object, registry, task')
  BY <1>1, NotSweeping
<1>3. registry[id] = None \/ object[registry[id]] # None
  BY DEF FleetInv, FleetTypeOK
<1>4. CASE Poll(t, id) \/ Reset(t, id) \/ PartialReset(t, id)
  <2>1. PICK n \in Tasks :
          /\ task' = [task EXCEPT ![t] = n] /\ task[t] = None /\ n.does \in {"poll", "reset", "partial"}
          /\ n.engine = None \/ n.engine = registry[id]
          /\ n.does = "partial" => n.engine # None
    <3>1. registry[id] \in Engines \cup {None}
      BY DEF FleetInv, FleetTypeOK
    <3>2. /\ Doing("poll", id, None, None) \in Tasks /\ Doing("reset", id, registry[id], None) \in Tasks
          /\ Doing("partial", id, registry[id], None) \in Tasks
      BY <3>1 DEF Doing, Tasks
    <3> QED
      BY <1>4, <3>2 DEF Doing, Poll, Reset, PartialReset
  <2>2. UNCHANGED files
    BY <1>4 DEF Poll, Reset, PartialReset
  <2> QED
    BY <1>1, <1>2, <1>3, <2>1, <2>2, QuietTask DEF FleetInv, FleetTypeOK
<1>5. CASE ResetDelete(t)
  <2>1. /\ task[t] # None /\ task[t].does = "wipe" /\ task' = [task EXCEPT ![t].does = "renew"]
        /\ files' \subseteq files
    BY <1>5 DEF ResetDelete, At
  <2>2. task[t] \in Tasks /\ (task[t].engine = None \/ object[task[t].engine] # None)
    BY <2>1, TaskTyped
  <2>3. PICK n \in Tasks : n = [task[t] EXCEPT !.does = "renew"]
    BY <2>2 DEF Tasks
  <2>4. n.engine = task[t].engine /\ n.does = "renew"
    BY <2>2, <2>3 DEF Tasks
  <2>5. task' = [task EXCEPT ![t] = n]
    BY <2>1, <2>3
  <2>6. n \in Tasks \cup {None} /\ UNCHANGED <<roster, minerIps>>
    BY <1>1
  <2>7. /\ files' \subseteq Ids /\ DOMAIN standing' = Ids
        /\ \A i \in Ids : Removed(standing', i) =>
             Removed(standing, i) /\ (i \in files' => i \in files \/ Deleting(task, i))
    BY <1>1, <2>1 DEF FleetInv, FleetTypeOK
  <2> QED
    BY <1>2, <2>1, <2>2, <2>4, <2>5, <2>6, <2>7, QuietTask
<1> QED
  BY <1>4, <1>5

(* A worker writes its files: the engine is registered under the id whose  *)
(* files they are, or is about to be destroyed, or brings the id back.     *)
LEMMA WritesFiles ==
  ASSUME FleetInv, NEW e \in Engines, object[e] # None, ~object[e].destroyed,
         standing' = IF object[e].lost THEN [standing EXCEPT ![object[e].mac] = "revived"] ELSE standing
  PROVE  /\ object[e].mac \in Ids /\ DOMAIN standing' = Ids
         /\ \A i \in Ids : Removed(standing', i) => Removed(standing, i)
         /\ Removed(standing', object[e].mac) => Deleting(task, object[e].mac)
<1>1. object[e].mac \in Ids
  BY DEF FleetInv, FleetTypeOK, Objects
<1>2. DOMAIN standing = Ids
  BY DEF FleetInv
<1>3. CASE object[e].lost
  BY <1>1, <1>2, <1>3 DEF Removed
<1>4. CASE ~object[e].lost
  <2>1. registry[object[e].mac] = e \/ Taken(task, object[e].mac, e)
    BY <1>4 DEF FleetInv, FleetFits, Writers
  <2>2. Taken(task, object[e].mac, e) \/ Removing(task, object[e].mac) => Deleting(task, object[e].mac)
    BY DEF Taken, Removing, Deleting, Doings
  <2>3. Removed(standing, object[e].mac) => Deleting(task, object[e].mac)
    BY <1>1, <2>1, <2>2, FleetAssumption DEF FleetInv, FleetFits, Emptied
  <2> QED
    BY <1>1, <1>2, <1>4, <2>3
<1> QED
  BY <1>3, <1>4

LEMMA SavesFiles ==
  ASSUME FleetInv, Around, NEW e \in Engines, Save(e)
  PROVE  FleetInv'
<1>1. /\ object[e] # None /\ ~object[e].destroyed /\ files' = files \cup {object[e].mac}
      /\ standing' = IF object[e].lost THEN [standing EXCEPT ![object[e].mac] = "revived"] ELSE standing
      /\ UNCHANGED <<roster, minerIps, registry, object, task>>
  BY DEF Save
<1>2. SweptTo(object, registry, task)
  BY <1>1, NotSweeping
<1>3. /\ object[e].mac \in Ids /\ DOMAIN standing' = Ids
      /\ \A i \in Ids : Removed(standing', i) => Removed(standing, i)
      /\ Removed(standing', object[e].mac) => Deleting(task, object[e].mac)
  BY <1>1, WritesFiles
<1>4. Alike(object) /\ TasksKept(task)
  BY DEF Alike, TasksKept
<1>5. Fitting(object, registry, task)
  BY DEF FleetInv, FleetFits
<1> QED
  BY <1>1, <1>2, <1>3, <1>4, <1>5, Quietly DEF FleetInv, FleetTypeOK

LEMMA SavesPartly ==
  ASSUME FleetInv, Around, NEW t \in Workers, PartialSave(t)
  PROVE  FleetInv'
<1>1. PICK e, tasks :
        /\ e = task[t].engine /\ tasks = [task EXCEPT ![t] = None] /\ Becomes(object, registry, tasks)
        /\ files' = IF object[e].destroyed THEN files ELSE files \cup {object[e].mac}
        /\ standing' = IF object[e].lost THEN [standing EXCEPT ![object[e].mac] = "revived"] ELSE standing
  BY DEF PartialSave, At
<1>2. task[t] # None /\ task[t].does = "partial" /\ UNCHANGED <<roster, minerIps>>
  BY DEF PartialSave, At
<1>3. e \in Engines /\ object[e] # None
  BY <1>1, <1>2, TaskTyped DEF FleetInv, FleetFits, Fitting
<1>4. SweptTo(object, registry, tasks) /\ task' = tasks
  <2>1. SweptTo(object, registry, tasks)
    BY <1>1, Sweeping
  <2> QED
    BY <2>1 DEF SweptTo
<1>5. UNCHANGED <<roster, minerIps>> /\ SweptTo(object, registry, task') /\ task' = [task EXCEPT ![t] = None]
  BY <1>1, <1>2, <1>4
<1>6. object[e].mac \in Ids /\ files \subseteq Ids /\ DOMAIN standing = Ids
  BY <1>3 DEF FleetInv, FleetTypeOK, Objects
<1>7. /\ files' \subseteq Ids /\ DOMAIN standing' = Ids
      /\ \A i \in Ids : Removed(standing', i) =>
           Removed(standing, i) /\ (i \in files' => i \in files \/ Deleting(task, i))
  <2>1. CASE object[e].destroyed
    <3>1. \A i \in Ids : Removed(standing', i) => Removed(standing, i)
      BY <1>1, <1>6 DEF Removed
    <3> QED
      BY <1>1, <1>6, <2>1, <3>1
  <2>2. CASE ~object[e].destroyed
    BY <1>1, <1>3, <1>6, <2>2, WritesFiles
  <2> QED
    BY <2>1, <2>2
<1> QED
  BY <1>2, <1>5, <1>7, QuietTask

(* _remove_miner.                                                          *)
LEMMA Removes ==
  ASSUME FleetInv, Around, NEW t \in Workers, NEW id \in Ids, Remove(t, id)
  PROVE  FleetInv'
<1>1. PICK n, tasks :
        /\ n = Doing("remove", id, None, None) /\ tasks = [task EXCEPT ![t] = n] /\ task' = tasks
        /\ roster' = [roster EXCEPT ![id] = None] /\ standing' = [standing EXCEPT ![id] = "leaving"]
  BY DEF Remove
<1>2. task[t] = None /\ UNCHANGED <<registry, object, files>> /\ minerIps' \subseteq minerIps
  BY DEF Remove
<1>3. n \in Tasks /\ n.does = "remove" /\ n.id = id /\ n.engine = None
  BY <1>1 DEF Doing, Tasks
<1>4. Fitting(object, registry, tasks)
  BY <1>1, <1>3, OneTaskFits
<1>5. tasks[t] = n /\ \A u \in Workers \ {t} : tasks[u] = task[u]
  BY <1>1, OneTask
<1>6. TasksKept(tasks)
  BY <1>2, <1>3, <1>5, OtherTasks
<1>7. SweptTo(object, registry, tasks)
  <2>1. SweptTo(object, registry, task')
    BY <1>2, NotSweeping
  <2> QED
    BY <1>1, <2>1
<1>8. Removing(tasks, id) /\ Deleting(tasks, id)
  BY <1>3, <1>5, FleetAssumption DEF Removing, Deleting, Doings
<1>9. /\ RestOK /\ roster'[id] = None /\ \A i \in Ids \ {id} : roster'[i] = roster[i] /\ standing'[i] = standing[i]
  BY <1>1, <1>2 DEF FleetInv, FleetTypeOK, RestOK
<1>10. Unlisted(roster', standing')
  BY <1>9 DEF FleetInv, FleetFits, Unlisted, Removed
<1>11. Emptied(registry, tasks, files', standing')
  BY <1>2, <1>6, <1>8, <1>9 DEF FleetInv, FleetFits, Emptied, Removed, TasksKept
<1>12. Writers(object, registry, tasks)
  <2>1. \A e \in Engines : object[e] # None => object[e].mac \in Ids
    BY DEF FleetInv, FleetTypeOK, Objects
  <2> QED
    BY <1>6, <2>1 DEF FleetInv, FleetFits, Writers, TasksKept
<1>13. Rekeyed(object, registry, tasks)
  BY <1>3, <1>5 DEF FleetInv, FleetFits, Rekeyed
<1>14. Followed(object, registry, tasks, roster')
  BY <1>6, <1>8, <1>9 DEF FleetInv, FleetFits, Followed, TasksKept
<1>15. Single(registry, tasks)
  BY <1>3, <1>5 DEF FleetInv, FleetFits, Single
<1> QED
  BY <1>2, <1>4, <1>7, <1>9, <1>10, <1>11, <1>12, <1>13, <1>14, <1>15, FleetMoves DEF FleetFits

LEMMA RemovesFiles ==
  ASSUME FleetInv, Around, NEW t \in Workers, RemoveDelete(t)
  PROVE  FleetInv'
<1>1. PICK id, tasks :
        /\ id = task[t].id /\ tasks = [task EXCEPT ![t] = None] /\ Becomes(object, registry, tasks)
        /\ files' = files \ {id}
        /\ standing' = IF standing[id] = "leaving" THEN [standing EXCEPT ![id] = "gone"] ELSE standing
  BY DEF RemoveDelete
<1>2. task[t] # None /\ task[t].does = "delete" /\ UNCHANGED <<roster, minerIps>>
  BY DEF RemoveDelete, At
<1>3. SweptTo(object, registry, tasks)
  BY <1>1, Sweeping
<1>4. Fitting(object, registry, tasks)
  BY <1>1, OneTaskFits
<1>5. tasks[t] = None /\ \A u \in Workers \ {t} : tasks[u] = task[u]
  BY <1>1, OneTask
<1>6. DOMAIN standing' = Ids /\ \A i \in Ids : Removed(standing', i) = Removed(standing, i)
  BY <1>1 DEF FleetInv, Removed
<1>7. RestOK
  BY <1>1, <1>2, <1>6 DEF FleetInv, FleetTypeOK, RestOK
<1>8. \A i \in Ids : /\ Removing(task, i) => Removing(tasks, i)
                     /\ Deleting(task, i) => Deleting(tasks, i) \/ i = id
                     /\ Rekeying(task, i) => Rekeying(tasks, i)
                     /\ \A e \in Engines : Taken(task, i, e) => Taken(tasks, i, e)
  BY <1>1, <1>2, <1>5 DEF Removing, Deleting, Rekeying, Taken, Doings
<1>9. Unlisted(roster', standing')
  BY <1>2, <1>6 DEF FleetInv, FleetFits, Unlisted
<1>10. Emptied(registry, tasks, files', standing')
  BY <1>1, <1>6, <1>8 DEF FleetInv, FleetFits, Emptied
<1>11. Writers(object, registry, tasks)
  <2>1. \A e \in Engines : object[e] # None => object[e].mac \in Ids
    BY DEF FleetInv, FleetTypeOK, Objects
  <2> QED
    BY <1>8, <2>1 DEF FleetInv, FleetFits, Writers
<1>12. Rekeyed(object, registry, tasks)
  BY <1>5 DEF FleetInv, FleetFits, Rekeyed
<1>13. Followed(object, registry, tasks, roster')
  BY <1>2, <1>8 DEF FleetInv, FleetFits, Followed
<1>14. Single(registry, tasks)
  BY <1>5 DEF FleetInv, FleetFits, Single
<1> QED
  BY <1>3, <1>4, <1>7, <1>9, <1>10, <1>11, <1>12, <1>13, <1>14, FleetMoves DEF FleetFits

(* An id's engine is taken out of the registry: by a removal, which will   *)
(* destroy it, or by a request that says it is lost.                       *)
LEMMA Pops ==
  ASSUME FleetInv, Around, NEW t \in Workers,
         RemovePop(t) \/ ReflashPop(t) \/ RekeyPop(t)
  PROVE  FleetInv'
<1>1. PICK id, e, next, n, objects, registered, tasks :
        /\ id = task[t].id /\ e = registry[id] /\ n = [task[t] EXCEPT !.does = next, !.engine = e]
        /\ registered = [registry EXCEPT ![id] = None]
        /\ tasks = [task EXCEPT ![t] = n] /\ Becomes(objects, registered, tasks)
        /\ task[t] # None
        /\ \/ task[t].does = "remove" /\ next = "destroy" /\ objects = object
           \/ task[t].does = "reflash" /\ next = "drop" /\ objects = Lose(object, e)
           \/ task[t].does = "rekey" /\ next = "put" /\ objects = Lose(object, e)
  BY DEF RemovePop, ReflashPop, RekeyPop, Popped, At
<1>2. UNCHANGED <<roster, minerIps, files, standing>>
  BY DEF RemovePop, ReflashPop, RekeyPop, Popped
<1>3. task[t] \in Tasks /\ id \in Ids /\ task[t].to \in Ids \cup {None}
  BY <1>1, TaskTyped
<1>4. e \in Engines \cup {None} /\ (e # None => object[e] # None)
  BY <1>1, <1>3 DEF FleetInv, FleetTypeOK
<1>5. n \in Tasks /\ n.does = next /\ n.engine = e /\ n.id = id /\ n.to = task[t].to
  BY <1>1, <1>3, <1>4 DEF Tasks
<1>6. DOMAIN tasks = Workers /\ tasks[t] = n /\ \A u \in Workers \ {t} : tasks[u] = task[u]
  <2>1. tasks = [task EXCEPT ![t] = n]
    BY <1>1
  <2> QED
    BY <2>1 DEF FleetInv, FleetFits, Fitting
<1>7. Fitting(object, registry, tasks)
  <2>1. /\ n \in Tasks \cup {None} /\ (n = None \/ n.engine = None \/ object[n.engine] # None)
        /\ n = None \/ n.does \notin {"start", "partial"} \/ n.engine # None
        /\ tasks = [task EXCEPT ![t] = n]
    BY <1>1, <1>4, <1>5
  <2> QED
    BY <2>1, <1>6 DEF FleetInv, FleetFits, Fitting
<1>8. registered \in [Ids -> Engines \cup {None}] /\ registered[id] = None
      /\ \A i \in Ids \ {id} : registered[i] = registry[i]
  BY <1>1, <1>3 DEF FleetInv, FleetTypeOK
<1>9. /\ \A f \in Engines : (objects[f] = None) = (object[f] = None) /\ objects[f] \in Objects \cup {None}
      /\ \A f \in Engines : f # e => objects[f] = object[f]
      /\ \A f \in Engines : object[f] # None =>
           /\ objects[f].mac = object[f].mac /\ objects[f].reads = object[f].reads
      /\ e # None /\ next # "destroy" => objects[e].destroyed \/ objects[e].lost
      /\ next = "destroy" => objects = object
  <2>1. \A f \in Engines : object[f] \in Objects \cup {None}
    BY DEF FleetInv, FleetTypeOK
  <2>2. CASE objects = object /\ next = "destroy"
    BY <2>1, <2>2
  <2>3. CASE objects = Lose(object, e) /\ next # "destroy"
    <3>1. CASE e = None
      BY <2>1, <2>3, <3>1, Losing, FleetAssumption
    <3>2. CASE e # None
      BY <1>4, <2>1, <2>3, <3>2, Losing
    <3> QED
      BY <3>1, <3>2
  <2> QED
    BY <1>1, <2>2, <2>3
<1>10. SweptTo(objects, registered, tasks)
  BY <1>1, Sweeping
<1>11. RestOK
  BY <1>2 DEF FleetInv, FleetTypeOK, RestOK
<1>12. Fitting(objects, registered, tasks)
  <2>1. \A u \in Workers : tasks[u] # None => tasks[u].engine \in Engines \cup {None}
    BY <1>7 DEF Fitting, Tasks
  <2> QED
    BY <1>7, <1>8, <1>9, <2>1 DEF Fitting
<1>13. \A i \in Ids : /\ Removing(task, i) => Removing(tasks, i) \/ i = id
                      /\ Deleting(task, i) => Deleting(tasks, i)
                      /\ Rekeying(task, i) => Rekeying(tasks, i) \/ i = id
                      /\ \A f \in Engines : Taken(task, i, f) => Taken(tasks, i, f)
  BY <1>1, <1>5, <1>6, FleetAssumption DEF Removing, Deleting, Rekeying, Taken, Doings
<1>14. Unlisted(roster', standing')
  BY <1>2 DEF FleetInv, FleetFits, Unlisted
<1>15. Emptied(registered, tasks, files', standing')
  BY <1>2, <1>8, <1>13 DEF FleetInv, FleetFits, Emptied
<1>16. Writers(objects, registered, tasks)
  <2> SUFFICES ASSUME NEW f \in Engines, objects[f] # None, ~objects[f].destroyed, ~objects[f].lost
               PROVE  registered[objects[f].mac] = f \/ Taken(tasks, objects[f].mac, f)
    BY DEF Writers
  <2>1. object[f] # None /\ objects[f].mac = object[f].mac /\ object[f].mac \in Ids
    BY <1>9 DEF FleetInv, FleetTypeOK, Objects
  <2>2. CASE f = e
    <3>1. next = "destroy" /\ objects = object
      BY <1>1, <1>9, <2>2, FleetAssumption
    <3>2. CASE object[f].mac = id
      BY <1>5, <1>6, <2>1, <2>2, <3>1, <3>2, FleetAssumption DEF Taken, Doings
    <3>3. CASE object[f].mac # id
      BY <1>8, <1>13, <2>1, <3>1, <3>3 DEF FleetInv, FleetFits, Writers
    <3> QED
      BY <3>2, <3>3
  <2>3. CASE f # e
    <3>1. registry[object[f].mac] = f \/ Taken(task, object[f].mac, f)
      BY <1>9, <2>1, <2>3 DEF FleetInv, FleetFits, Writers
    <3> QED
      BY <1>1, <1>8, <1>13, <2>1, <2>3, <3>1
  <2> QED
    BY <2>2, <2>3
<1>17. Rekeyed(objects, registered, tasks)
  <2>1. \A u \in Workers : tasks[u] # None /\ tasks[u].does \in {"rekey", "put", "rename"}
                             => tasks[u].id \in Synths /\ tasks[u].to \in Miners
    BY <1>1, <1>5, <1>6 DEF FleetInv, FleetFits, Rekeyed
  <2>2. \A i \in Synths : registered[i] # None => objects[registered[i]].reads \in Synths
    BY <1>8, <1>9 DEF FleetInv, FleetFits, FleetTypeOK, Rekeyed, Ids
  <2>3. ASSUME NEW u \in Workers, tasks[u] # None, tasks[u].does = "put", tasks[u].engine # None
        PROVE  objects[tasks[u].engine].reads \in Synths
    <3>1. CASE u = t
      <4>1. id \in Synths /\ e # None
        BY <1>1, <1>5, <1>6, <2>1, <2>3, <3>1
      <4>2. object[e].reads \in Synths
        BY <1>1, <4>1 DEF FleetInv, FleetFits, Rekeyed
      <4> QED
        BY <1>4, <1>5, <1>6, <1>9, <3>1, <4>1, <4>2
    <3>2. CASE u # t
      <4>1. task[u] = tasks[u] /\ task[u].engine \in Engines /\ object[task[u].engine] # None
        BY <1>6, <2>3, <3>2, TaskTyped
      <4>2. object[task[u].engine].reads \in Synths
        BY <2>3, <4>1 DEF FleetInv, FleetFits, Rekeyed
      <4> QED
        BY <1>9, <4>1, <4>2
    <3> QED
      BY <3>1, <3>2
  <2> QED
    BY <2>1, <2>2, <2>3 DEF Rekeyed
<1>18. Followed(objects, registered, tasks, roster')
  <2>1. \A f \in Engines : object[f] # None => objects[f].stray = object[f].stray /\ objects[f].ip = object[f].ip
    BY <1>1, <1>4, <1>9 DEF Lose, FleetInv, FleetTypeOK, Objects
  <2> SUFFICES ASSUME NEW i \in Ids, registered[i] # None
               PROVE  \/ objects[registered[i]].stray \/ objects[registered[i]].reads # i
                      \/ Removing(tasks, i) \/ Rekeying(tasks, i) \/ Telling(i)
                      \/ roster'[i] \in Ips /\ objects[registered[i]].ip = roster'[i]
    BY DEF Followed
  <2>2. i # id /\ registered[i] = registry[i] /\ registry[i] \in Engines /\ object[registry[i]] # None
    BY <1>8 DEF FleetInv, FleetTypeOK
  <2> QED
    BY <1>2, <1>9, <1>13, <2>1, <2>2 DEF FleetInv, FleetFits, Followed
<1>19. Single(registered, tasks)
  <2>1. \A i, j \in Ids : registry[i] # None /\ registry[i] = registry[j] => i = j
    BY DEF FleetInv, FleetFits, Single
  <2>2. \A i, j \in Ids : registered[i] # None /\ registered[i] = registered[j] => i = j
    BY <1>8, <2>1
  <2>3. \A u \in Workers \ {t} : tasks[u] # None /\ tasks[u].does = "put" /\ tasks[u].engine # None =>
          /\ \A i \in Ids : registry[i] # tasks[u].engine
          /\ \A v \in Workers \ {t} : tasks[v] # None /\ tasks[v].does = "put" /\ tasks[v].engine = tasks[u].engine => v = u
    BY <1>6 DEF FleetInv, FleetFits, Single
  <2>4. e # None => \A i \in Ids : registered[i] # e
    BY <1>1, <1>3, <1>8, <2>1
  <2> QED
    BY <1>1, <1>3, <1>5, <1>6, <1>8, <2>2, <2>3, <2>4 DEF Single
<1> QED
  BY <1>10, <1>11, <1>12, <1>14, <1>15, <1>16, <1>17, <1>18, <1>19, FleetMoves DEF FleetFits

(* An engine is destroyed, by a removal, a reset or a reflash.             *)
LEMMA Destroys ==
  ASSUME FleetInv, Around, NEW t \in Workers,
         RemoveDestroy(t) \/ ResetDestroy(t) \/ ReflashDestroy(t)
  PROVE  FleetInv'
<1>1. PICK e, n, objects, tasks :
        /\ e = task[t].engine /\ tasks = [task EXCEPT ![t] = n] /\ Becomes(objects, registry, tasks)
        /\ objects = IF e = None THEN object ELSE [object EXCEPT ![e].destroyed = TRUE]
        /\ task[t] # None
        /\ \/ task[t].does = "destroy" /\ n = [task[t] EXCEPT !.does = "delete"]
           \/ task[t].does = "reset" /\ n = [task[t] EXCEPT !.does = "wipe"]
           \/ task[t].does = "drop" /\ n = None
  BY DEF RemoveDestroy, ResetDestroy, ReflashDestroy, Destroy, At
<1>2. UNCHANGED <<roster, minerIps, files, standing>>
  BY DEF RemoveDestroy, ResetDestroy, ReflashDestroy, Destroy
<1>3. task[t] \in Tasks /\ e \in Engines \cup {None} /\ (e # None => object[e] # None)
  BY <1>1, TaskTyped
<1>4. /\ n \in Tasks \cup {None} /\ (n # None => n.engine = e /\ n.id = task[t].id)
      /\ n # None => n.does \in {"delete", "wipe"}
      /\ task[t].does = "destroy" => n # None /\ n.does = "delete"
  BY <1>1, <1>3, FleetAssumption DEF Tasks
<1>5. DOMAIN tasks = Workers /\ tasks[t] = n /\ \A u \in Workers \ {t} : tasks[u] = task[u]
  BY <1>1, OneTask
<1>6. Fitting(object, registry, tasks)
  BY <1>3, <1>4, <1>5 DEF FleetInv, FleetFits, Fitting
<1>7. /\ \A f \in Engines : (objects[f] = None) = (object[f] = None) /\ objects[f] \in Objects \cup {None}
      /\ \A f \in Engines : f # e => objects[f] = object[f]
      /\ e # None => objects[e].destroyed
      /\ \A f \in Engines : object[f] # None =>
           /\ objects[f].mac = object[f].mac /\ objects[f].reads = object[f].reads
           /\ objects[f].stray = object[f].stray /\ objects[f].ip = object[f].ip
           /\ objects[f].lost = object[f].lost
  <2>1. \A f \in Engines : object[f] \in Objects \cup {None}
    BY DEF FleetInv, FleetTypeOK
  <2>2. CASE e = None
    BY <1>1, <2>1, <2>2, FleetAssumption
  <2>3. CASE e # None
    <3>1. object[e] \in Objects /\ objects = [object EXCEPT ![e].destroyed = TRUE] /\ e \in Engines
      BY <1>1, <1>3, <2>1, <2>3
    <3>2. /\ objects[e] = [object[e] EXCEPT !.destroyed = TRUE]
          /\ \A f \in Engines : f # e => objects[f] = object[f]
      BY <3>1 DEF FleetInv
    <3>3. PICK o \in Objects : o = object[e]
      BY <3>1
    <3>4. /\ [o EXCEPT !.destroyed = TRUE] \in Objects /\ [o EXCEPT !.destroyed = TRUE].destroyed
          /\ [o EXCEPT !.destroyed = TRUE].mac = o.mac /\ [o EXCEPT !.destroyed = TRUE].reads = o.reads
          /\ [o EXCEPT !.destroyed = TRUE].stray = o.stray /\ [o EXCEPT !.destroyed = TRUE].ip = o.ip
          /\ [o EXCEPT !.destroyed = TRUE].lost = o.lost
      BY DEF Objects
    <3> QED
      BY <1>3, <2>1, <2>3, <3>2, <3>3, <3>4, FleetAssumption
  <2> QED
    BY <2>2, <2>3
<1>8. SweptTo(objects, registry, tasks)
  BY <1>1, Sweeping
<1>9. RestOK
  BY <1>2 DEF FleetInv, FleetTypeOK, RestOK
<1>10. Fitting(objects, registry, tasks)
  <2>1. \A u \in Workers : tasks[u] # None => tasks[u].engine \in Engines \cup {None}
    BY <1>6 DEF Fitting, Tasks
  <2> QED
    BY <1>6, <1>7, <2>1 DEF Fitting
<1>11. \A i \in Ids : /\ Removing(task, i) => Removing(tasks, i)
                      /\ Deleting(task, i) => Deleting(tasks, i)
                      /\ Rekeying(task, i) => Rekeying(tasks, i)
                      /\ \A f \in Engines : f # e /\ Taken(task, i, f) => Taken(tasks, i, f)
  BY <1>1, <1>4, <1>5 DEF Removing, Deleting, Rekeying, Taken, Doings
<1>12. Unlisted(roster', standing')
  BY <1>2 DEF FleetInv, FleetFits, Unlisted
<1>13. Emptied(registry, tasks, files', standing')
  BY <1>2, <1>11 DEF FleetInv, FleetFits, Emptied
<1>14. Writers(objects, registry, tasks)
  <2>1. \A f \in Engines : object[f] # None => object[f].mac \in Ids
    BY DEF FleetInv, FleetTypeOK, Objects
  <2> SUFFICES ASSUME NEW f \in Engines, objects[f] # None, ~objects[f].destroyed, ~objects[f].lost
               PROVE  registry[objects[f].mac] = f \/ Taken(tasks, objects[f].mac, f)
    BY DEF Writers
  <2>2. f # e /\ objects[f] = object[f]
    BY <1>7, FleetAssumption
  <2> QED
    BY <1>11, <2>1, <2>2 DEF FleetInv, FleetFits, Writers
<1>15. \A i \in Ids : registry[i] # None => registry[i] \in Engines /\ object[registry[i]] # None
  BY DEF FleetInv, FleetTypeOK
<1>16. Rekeyed(objects, registry, tasks)
  <2>1. \A u \in Workers : tasks[u] # None /\ tasks[u].does \in {"rekey", "put", "rename"} => tasks[u] = task[u]
    BY <1>4, <1>5
  <2>2. \A u \in Workers : tasks[u] # None /\ tasks[u].does = "put" /\ tasks[u].engine # None
                             => /\ tasks[u].engine \in Engines /\ object[tasks[u].engine] # None
                                /\ object[tasks[u].engine].reads \in Synths
    BY <2>1, <1>6 DEF FleetInv, FleetFits, Fitting, Rekeyed, Tasks
  <2> QED
    BY <1>7, <1>15, <2>1, <2>2 DEF FleetInv, FleetFits, Rekeyed, Ids
<1>17. Followed(objects, registry, tasks, roster')
  BY <1>2, <1>7, <1>11, <1>15 DEF FleetInv, FleetFits, Followed
<1>18. Single(registry, tasks)
  BY <1>4, <1>5 DEF FleetInv, FleetFits, Single
<1> QED
  BY <1>8, <1>9, <1>10, <1>12, <1>13, <1>14, <1>16, <1>17, <1>18, FleetMoves DEF FleetFits

(* A new engine for an id, which is not removed, or has one already.       *)
LEMMA Creates ==
  ASSUME FleetInv, Around, NEW t \in Workers, NEW id \in Ids, NEW g, NEW n, NEW objects, NEW registered, NEW tasks,
         g \in Engines, object[g] = None,
         n \in Tasks \cup {None}, n # None => n.engine \in {None, g} /\ n.does = "start" /\ n.engine = g,
         objects = [Lose(object, registry[id]) EXCEPT ![g] = New(id)],
         registered = [registry EXCEPT ![id] = g], tasks = [task EXCEPT ![t] = n],
         Becomes(objects, registered, tasks),
         task[t] = None \/ task[t].does \notin {"remove", "destroy", "delete", "rekey"},
         UNCHANGED <<roster, minerIps, files>>, DOMAIN standing' = Ids,
         \A i \in Ids : Removed(standing', i) => Removed(standing, i),
         Removed(standing', id) => registry[id] # None
  PROVE  FleetInv'
<1> DEFINE b == registry[id]
<1>1. b \in Engines \cup {None} /\ (b # None => object[b] # None)
  BY DEF FleetInv, FleetTypeOK
<1>2. /\ registered \in [Ids -> Engines \cup {None}] /\ registered[id] = g
      /\ \A i \in Ids \ {id} : registered[i] = registry[i]
  BY DEF FleetInv, FleetTypeOK
<1>3. DOMAIN tasks = Workers /\ tasks[t] = n /\ \A u \in Workers \ {t} : tasks[u] = task[u]
  BY OneTask
<1>4. /\ New(id) \in Objects /\ New(id) # None
      /\ New(id).mac = id /\ New(id).reads = id
      /\ New(id).stray \/ (roster[id] \in Ips /\ New(id).ip = roster[id])
  BY NewObject
<1>5. objects[g] = New(id) /\ \A f \in Engines : f # g => objects[f] = Lose(object, b)[f]
  BY <1>1, Losing
<1>6. /\ \A f \in Engines : f # g => (objects[f] = None) = (object[f] = None)
      /\ \A f \in Engines : objects[f] \in Objects \cup {None}
      /\ \A f \in Engines : f # b /\ f # g => objects[f] = object[f]
      /\ b # None => objects[b].destroyed \/ objects[b].lost
      /\ \A f \in Engines : object[f] # None =>
           /\ objects[f].mac = object[f].mac /\ objects[f].reads = object[f].reads
  <2>1. \A f \in Engines : object[f] \in Objects \cup {None}
    BY DEF FleetInv, FleetTypeOK
  <2>2. CASE b = None
    BY <1>1, <1>4, <1>5, <2>1, <2>2, FleetAssumption DEF Lose
  <2>3. CASE b # None
    <3>1. b # g /\ b \in Engines
      BY <1>1, <2>3
    <3>2. /\ \A f \in Engines \ {b} : Lose(object, b)[f] = object[f]
          /\ Lose(object, b)[b] \in Objects /\ Lose(object, b)[b] # None
          /\ Lose(object, b)[b].destroyed \/ Lose(object, b)[b].lost
          /\ Lose(object, b)[b].mac = object[b].mac
          /\ Lose(object, b)[b].reads = object[b].reads
      BY <1>1, <2>3, Losing
    <3> HIDE DEF b
    <3> QED
      BY <1>1, <1>4, <1>5, <2>1, <2>3, <3>1, <3>2
  <2> QED
    BY <2>2, <2>3
<1>7. SweptTo(objects, registered, tasks)
  BY Sweeping
<1>8. RestOK
  BY DEF FleetInv, FleetTypeOK, RestOK
<1> HIDE DEF b
<1>9. Fitting(objects, registered, tasks)
  <2>1. \A u \in Workers : tasks[u] \in Tasks \cup {None}
    BY <1>3, FleetAssumption DEF FleetInv, FleetFits, Fitting
  <2>2. \A u \in Workers : tasks[u] # None /\ tasks[u].does \in {"start", "partial"} => tasks[u].engine # None
    BY <1>3, FleetAssumption DEF FleetInv, FleetFits, Fitting
  <2>3. ASSUME NEW u \in Workers, tasks[u] # None, tasks[u].engine # None
        PROVE  objects[tasks[u].engine] # None
    <3>1. CASE u = t
      BY <1>3, <1>4, <1>5, <2>3, <3>1
    <3>2. CASE u # t
      <4>1. tasks[u] = task[u] /\ task[u].engine \in Engines /\ object[task[u].engine] # None
        BY <1>3, <2>3, <3>2, TaskTyped
      <4> QED
        BY <1>6, <4>1
    <3> QED
      BY <3>1, <3>2
  <2>4. \A i \in Ids : registered[i] # None => objects[registered[i]] # None
    BY <1>2, <1>4, <1>5, <1>6 DEF FleetInv, FleetTypeOK
  <2> QED
    BY <1>2, <1>3, <1>6, <2>1, <2>2, <2>3, <2>4 DEF Fitting
<1>10. TasksKept(tasks)
  BY <1>3, OtherTasks
<1>11. Unlisted(roster', standing')
  BY DEF FleetInv, FleetFits, Unlisted
<1>12. Emptied(registered, tasks, files', standing')
  BY <1>2, <1>10 DEF FleetInv, FleetFits, Emptied, TasksKept
<1>13. Writers(objects, registered, tasks)
  <2> SUFFICES ASSUME NEW f \in Engines, objects[f] # None, ~objects[f].destroyed, ~objects[f].lost
               PROVE  registered[objects[f].mac] = f \/ Taken(tasks, objects[f].mac, f)
    BY DEF Writers
  <2>1. CASE f = g
    BY <1>2, <1>4, <1>5, <2>1
  <2>2. CASE f # g
    <3>1. f # b /\ objects[f] = object[f]
      BY <1>6, <2>2, FleetAssumption
    <3>2. object[f].mac \in Ids
      BY <3>1 DEF FleetInv, FleetTypeOK, Objects
    <3>3. registry[object[f].mac] = f \/ Taken(task, object[f].mac, f)
      BY <3>1 DEF FleetInv, FleetFits, Writers
    <3> QED
      BY <1>2, <1>10, <3>1, <3>2, <3>3 DEF TasksKept, b
  <2> QED
    BY <2>1, <2>2
<1>14. Rekeyed(objects, registered, tasks)
  <2>1. \A u \in Workers : tasks[u] # None /\ tasks[u].does \in {"rekey", "put", "rename"} => tasks[u] = task[u]
    BY <1>3
  <2>2. \A u \in Workers : tasks[u] # None /\ tasks[u].does = "put" /\ tasks[u].engine # None
                             => /\ tasks[u].engine \in Engines /\ object[tasks[u].engine] # None
                                /\ object[tasks[u].engine].reads \in Synths
    BY <2>1 DEF FleetInv, FleetFits, Fitting, Rekeyed, Tasks
  <2>3. \A i \in Synths : registered[i] # None => objects[registered[i]].reads \in Synths
    BY <1>2, <1>4, <1>5, <1>6 DEF FleetInv, FleetFits, FleetTypeOK, Rekeyed, Ids
  <2> QED
    BY <1>6, <2>1, <2>2, <2>3 DEF FleetInv, FleetFits, Rekeyed
<1>15. Followed(objects, registered, tasks, roster')
  <2> SUFFICES ASSUME NEW i \in Ids, registered[i] # None
               PROVE  \/ objects[registered[i]].stray \/ objects[registered[i]].reads # i
                      \/ Removing(tasks, i) \/ Rekeying(tasks, i) \/ Telling(i)
                      \/ roster'[i] \in Ips /\ objects[registered[i]].ip = roster'[i]
    BY DEF Followed
  <2>1. CASE i = id
    BY <1>2, <1>4, <1>5, <2>1
  <2>2. CASE i # id
    <3>1. registered[i] = registry[i] /\ registry[i] \in Engines /\ object[registry[i]] # None
      BY <1>2, <2>2 DEF FleetInv, FleetTypeOK
    <3>2. registry[i] # g
      BY <3>1
    <3>3. /\ objects[registry[i]].stray = object[registry[i]].stray
          /\ objects[registry[i]].ip = object[registry[i]].ip
          /\ objects[registry[i]].reads = object[registry[i]].reads
      <4>1. CASE registry[i] = b
        BY <1>1, <1>5, <3>1, <3>2, <4>1, Losing, FleetAssumption
      <4>2. CASE registry[i] # b
        BY <1>6, <3>1, <3>2, <4>2
      <4> QED
        BY <4>1, <4>2
    <3>4. \/ object[registry[i]].stray \/ object[registry[i]].reads # i
          \/ Removing(task, i) \/ Rekeying(task, i) \/ Telling(i)
          \/ roster[i] \in Ips /\ object[registry[i]].ip = roster[i]
      BY <3>1, FleetAssumption DEF FleetInv, FleetFits, Followed
    <3>5. (Removing(task, i) => Removing(tasks, i)) /\ (Rekeying(task, i) => Rekeying(tasks, i))
      BY <1>10 DEF TasksKept
    <3> QED
      BY <3>1, <3>3, <3>4, <3>5
  <2> QED
    BY <2>1, <2>2
<1>16. Single(registered, tasks)
  <2>1. \A i \in Ids : registry[i] # g
    BY FleetAssumption DEF FleetInv, FleetTypeOK
  <2>2. \A i, j \in Ids : registered[i] # None /\ registered[i] = registered[j] => i = j
    BY <1>2, <2>1 DEF FleetInv, FleetFits, Single
  <2>3. \A u \in Workers : tasks[u] # None /\ tasks[u].does = "put" => tasks[u] = task[u] /\ tasks[u].engine # g
    BY <1>3, FleetAssumption DEF FleetInv, FleetFits, Fitting
  <2> QED
    BY <1>2, <2>2, <2>3 DEF FleetInv, FleetFits, Single
<1> QED
  BY <1>7, <1>8, <1>9, <1>11, <1>12, <1>13, <1>14, <1>15, <1>16, FleetMoves DEF FleetFits

(* reset_engine replaces an engine that is registered.                     *)
LEMMA Renews ==
  ASSUME FleetInv, Around, NEW t \in Workers, ResetRenew(t)
  PROVE  FleetInv'
<1>1. PICK id, tasks :
        /\ id = task[t].id /\ tasks = [task EXCEPT ![t] = None] /\ task[t] # None /\ task[t].does = "renew"
        /\ UNCHANGED <<roster, minerIps, files, standing>>
        /\ IF registry[id] = None
           THEN Becomes(object, registry, tasks)
           ELSE Memory /\ Becomes([Lose(object, registry[id]) EXCEPT ![NewEngine] = New(id)],
                                  [registry EXCEPT ![id] = NewEngine], tasks)
  BY DEF ResetRenew, At
<1>2. id \in Ids
  BY <1>1, TaskTyped
<1>3. CASE registry[id] = None
  <2>1. SweptTo(object, registry, tasks)
    BY <1>1, <1>3, Sweeping
  <2>2. SweptTo(object, registry, task')
    BY <2>1 DEF SweptTo
  <2>3. /\ task' = [task EXCEPT ![t] = None] /\ UNCHANGED <<roster, minerIps>>
        /\ task[t] = None \/ task[t].does \notin {"remove", "destroy", "delete", "rekey"}
        /\ files' \subseteq Ids /\ DOMAIN standing' = Ids
        /\ \A i \in Ids : Removed(standing', i) =>
             Removed(standing, i) /\ (i \in files' => i \in files \/ Deleting(task, i))
    BY <1>1, <2>1 DEF SweptTo, FleetInv, FleetTypeOK
  <2> QED
    BY <2>2, <2>3, QuietTask
<1>4. CASE registry[id] # None
  <2>1. PICK g, objects, registered :
          /\ g = NewEngine /\ objects = [Lose(object, registry[id]) EXCEPT ![g] = New(id)]
          /\ registered = [registry EXCEPT ![id] = g] /\ Becomes(objects, registered, tasks)
    BY <1>1, <1>4
  <2>2. g \in Engines /\ object[g] = None
    BY <1>1, <1>4, <2>1 DEF Memory, NewEngine
  <2>3. /\ tasks = [task EXCEPT ![t] = None] /\ UNCHANGED <<roster, minerIps, files>> /\ DOMAIN standing' = Ids
        /\ task[t] = None \/ task[t].does \notin {"remove", "destroy", "delete", "rekey"}
        /\ \A i \in Ids : Removed(standing', i) => Removed(standing, i)
    BY <1>1 DEF FleetInv
  <2>4. PICK n : n = None
    OBVIOUS
  <2>5. /\ n \in Tasks \cup {None} /\ (n # None => n.engine \in {None, g} /\ n.does = "start" /\ n.engine = g)
        /\ tasks = [task EXCEPT ![t] = n] /\ (Removed(standing', id) => registry[id] # None)
    BY <1>4, <2>3, <2>4
  <2> QED
    BY <1>2, <2>1, <2>2, <2>3, <2>5, Creates
<1> QED
  BY <1>3, <1>4

(* get_engine, called by a request or the scanner, which then goes on to n,*)
(* the start of the engine, or to nothing.                                 *)
LEMMA Reviving ==
  ASSUME FleetInv, NEW id \in Ids, Revives(id), UNCHANGED roster
  PROVE  /\ DOMAIN standing' = Ids /\ ~Removed(standing', id)
         /\ \A i \in Ids : Removed(standing', i) => Removed(standing, i)
<1>1. DOMAIN standing = Ids /\ (Removed(standing, id) => roster[id] = None)
  BY DEF FleetInv, FleetFits, Unlisted
<1> QED
  BY <1>1 DEF Revives, Removed

LEMMA Gets ==
  ASSUME FleetInv, Around, NEW t \in Workers, NEW id \in Ids, NEW e, NEW n, NEW tasks,
         tasks = [task EXCEPT ![t] = n],
         \/ /\ registry[id] # None /\ e = registry[id] /\ Becomes(object, registry, tasks) /\ UNCHANGED standing
         \/ /\ registry[id] = None /\ Memory /\ e = NewEngine /\ Revives(id)
            /\ Becomes([object EXCEPT ![e] = New(id)], [registry EXCEPT ![id] = e], tasks),
         UNCHANGED <<roster, minerIps, files>>,
         n = None \/ (n.does = "start" /\ n.engine = e /\ (e \in Engines => n \in Tasks)),
         task[t] = None \/ task[t].does \notin {"remove", "destroy", "delete", "rekey"}
  PROVE  FleetInv'
<1>1. CASE registry[id] # None
  <2>1. e = registry[id] /\ Becomes(object, registry, tasks) /\ UNCHANGED standing
    BY <1>1
  <2>2. e \in Engines /\ object[e] # None
    BY <1>1, <2>1 DEF FleetInv, FleetTypeOK
  <2>3. SweptTo(object, registry, tasks)
    BY <2>1, Sweeping
  <2>4. SweptTo(object, registry, task')
    BY <2>3 DEF SweptTo
  <2>5. /\ n \in Tasks \cup {None} /\ task' = [task EXCEPT ![t] = n]
        /\ n = None \/ n.engine = None \/ object[n.engine] # None
        /\ n = None \/ n.does \notin {"start", "partial"} \/ n.engine # None
        /\ n = None \/ n.does \notin {"rekey", "put", "rename"}
    BY <2>2, <2>3, FleetAssumption DEF SweptTo
  <2>6. /\ files' \subseteq Ids /\ DOMAIN standing' = Ids
        /\ \A i \in Ids : Removed(standing', i) =>
             Removed(standing, i) /\ (i \in files' => i \in files \/ Deleting(task, i))
    BY <2>1 DEF FleetInv, FleetTypeOK
  <2> QED
    BY <2>4, <2>5, <2>6, QuietTask
<1>2. CASE registry[id] = None
  <2>1. PICK objects, registered :
          /\ e = NewEngine /\ objects = [object EXCEPT ![e] = New(id)] /\ registered = [registry EXCEPT ![id] = e]
          /\ Becomes(objects, registered, tasks) /\ Memory /\ Revives(id)
    BY <1>2
  <2>2. e \in Engines /\ object[e] = None
    BY <2>1 DEF Memory, NewEngine
  <2>3. n \in Tasks \cup {None} /\ (n # None => n.engine \in {None, e} /\ n.does = "start" /\ n.engine = e)
    BY <2>2
  <2>4. objects = [Lose(object, registry[id]) EXCEPT ![e] = New(id)]
    BY <1>2, <2>1 DEF Lose
  <2>5. /\ DOMAIN standing' = Ids /\ ~Removed(standing', id)
        /\ \A i \in Ids : Removed(standing', i) => Removed(standing, i)
    BY <2>1, Reviving
  <2> QED
    BY <2>1, <2>2, <2>3, <2>4, <2>5, Creates
<1> QED
  BY <1>1, <1>2

LEMMA AsksForEngines ==
  ASSUME FleetInv, Around, NEW t \in Workers, NEW id \in Ids, AskStart(t, id) \/ PollEngine(t)
  PROVE  FleetInv'
<1>1. CASE AskStart(t, id)
  <2>1. PICK e, n, tasks :
          /\ n = Doing("start", id, e, None) /\ tasks = [task EXCEPT ![t] = n] /\ task[t] = None
          /\ UNCHANGED <<roster, minerIps, files>>
          /\ \/ /\ registry[id] # None /\ e = registry[id] /\ Becomes(object, registry, tasks) /\ UNCHANGED standing
             \/ /\ registry[id] = None /\ Memory /\ e = NewEngine /\ Revives(id)
                /\ Becomes([object EXCEPT ![e] = New(id)], [registry EXCEPT ![id] = e], tasks)
    <3>1. CASE registry[id] # None
      BY <1>1, <3>1 DEF AskStart, Got
    <3>2. CASE registry[id] = None
      BY <1>1, <3>2 DEF AskStart, Got
    <3> QED
      BY <3>1, <3>2
  <2>2. n.does = "start" /\ n.engine = e /\ (e \in Engines => n \in Tasks)
    BY <2>1 DEF Doing, Tasks
  <2> QED
    BY <2>1, <2>2, Gets
<1>2. CASE PollEngine(t)
  <2>1. PICK i, e, n, tasks :
          /\ i = task[t].id /\ n = None /\ tasks = [task EXCEPT ![t] = n] /\ task[t] # None /\ task[t].does = "poll"
          /\ UNCHANGED <<roster, minerIps, files>>
          /\ \/ /\ registry[i] # None /\ e = registry[i] /\ Becomes(object, registry, tasks) /\ UNCHANGED standing
             \/ /\ registry[i] = None /\ Memory /\ e = NewEngine /\ Revives(i)
                /\ Becomes([object EXCEPT ![e] = New(i)], [registry EXCEPT ![i] = e], tasks)
    <3>1. CASE registry[task[t].id] # None
      BY <1>2, <3>1 DEF PollEngine, Got, At
    <3>2. CASE registry[task[t].id] = None
      BY <1>2, <3>2 DEF PollEngine, Got, At
    <3> QED
      BY <3>1, <3>2
  <2>2. i \in Ids
    BY <2>1, TaskTyped
  <2> QED
    BY <2>1, <2>2, Gets
<1> QED
  BY <1>1, <1>2

(* Steps of an idle thread that change the roster, but no engine and no    *)
(* file: the ids they enter are listed again.                              *)
LEMMA Enters ==
  ASSUME FleetInv, Around, NEW t \in Workers, NEW n \in Tasks, NEW tasks, tasks = [task EXCEPT ![t] = n],
         task' = tasks, task[t] = None, n.engine = None, n.does \in {"reflash", "rekey"},
         n.does = "rekey" => n.id \in Synths /\ n.to \in Miners,
         UNCHANGED <<minerIps, registry, object, files>>,
         roster' \in [Ids -> Ips \cup {Nowhere, None}], DOMAIN standing' = Ids,
         \A i \in Ids : Removed(standing', i) => Removed(standing, i) /\ roster'[i] = roster[i],
         \A i \in Ids : \/ roster[i] = None \/ roster'[i] = roster[i]
                        \/ n.does = "rekey" /\ n.id = i
  PROVE  FleetInv'
<1>1. tasks[t] = n /\ \A u \in Workers \ {t} : tasks[u] = task[u]
  BY OneTask
<1>2. Fitting(object, registry, tasks)
  BY OneTaskFits
<1>3. /\ \A i \in Ids :
           /\ Removing(task, i) => Removing(tasks, i)
           /\ Deleting(task, i) => Deleting(tasks, i)
           /\ Rekeying(task, i) => Rekeying(tasks, i)
           /\ \A e \in Engines : Taken(task, i, e) => Taken(tasks, i, e)
      /\ n.does = "rekey" => Rekeying(tasks, n.id)
  BY <1>1, FleetAssumption DEF Removing, Deleting, Rekeying, Taken, Doings
<1>4. SweptTo(object, registry, tasks)
  <2>1. SweptTo(object, registry, task')
    BY NotSweeping
  <2> QED
    BY <2>1
<1>5. RestOK
  BY DEF FleetInv, FleetTypeOK, RestOK
<1>6. Unlisted(roster', standing')
  BY DEF FleetInv, FleetFits, Unlisted
<1>7. Emptied(registry, tasks, files', standing')
  BY <1>3 DEF FleetInv, FleetFits, Emptied
<1>8. Writers(object, registry, tasks)
  <2>1. \A e \in Engines : object[e] # None => object[e].mac \in Ids
    BY DEF FleetInv, FleetTypeOK, Objects
  <2> QED
    BY <1>3, <2>1 DEF FleetInv, FleetFits, Writers
<1>9. Rekeyed(object, registry, tasks)
  <2>1. \A u \in Workers : tasks[u] # None /\ tasks[u].does \in {"rekey", "put", "rename"}
                             => tasks[u].id \in Synths /\ tasks[u].to \in Miners
    BY <1>1 DEF FleetInv, FleetFits, Rekeyed
  <2>2. \A u \in Workers : tasks[u] # None /\ tasks[u].does = "put" => tasks[u] = task[u]
    BY <1>1
  <2> QED
    BY <2>1, <2>2 DEF FleetInv, FleetFits, Rekeyed
<1>10. Followed(object, registry, tasks, roster')
  <2>1. None \notin Ips
    BY FleetAssumption
  <2> QED
    BY <1>3, <2>1 DEF FleetInv, FleetFits, Followed
<1>11. Single(registry, tasks)
  BY <1>1 DEF FleetInv, FleetFits, Single
<1> QED
  BY <1>2, <1>4, <1>5, <1>6, <1>7, <1>8, <1>9, <1>10, <1>11, FleetMoves DEF FleetFits

LEMMA Reflashes ==
  ASSUME FleetInv, Around, NEW t \in Workers, NEW id \in Ids, Reflash(t, id)
  PROVE  FleetInv'
<1>1. PICK n, tasks : n = Doing("reflash", id, None, None) /\ tasks = [task EXCEPT ![t] = n] /\ task' = tasks
  BY DEF Reflash
<1>2. n \in Tasks /\ n.engine = None /\ n.does = "reflash"
  BY <1>1 DEF Doing, Tasks
<1>3. /\ task[t] = None /\ UNCHANGED <<minerIps, registry, object, files>>
      /\ roster' = IF roster[id] = None THEN [roster EXCEPT ![id] = Nowhere] ELSE roster
      /\ standing' = [standing EXCEPT ![id] = "listed"]
  BY DEF Reflash
<1>4. roster \in [Ids -> Ips \cup {Nowhere, None}] /\ DOMAIN standing = Ids
  BY DEF FleetInv, FleetTypeOK
<1>5. /\ roster' \in [Ids -> Ips \cup {Nowhere, None}] /\ DOMAIN standing' = Ids
      /\ \A i \in Ids : Removed(standing', i) => Removed(standing, i) /\ roster'[i] = roster[i]
      /\ \A i \in Ids : roster[i] = None \/ roster'[i] = roster[i]
  BY <1>3, <1>4 DEF Removed
<1> QED
  BY <1>1, <1>2, <1>3, <1>5, Enters

LEMMA Rekeys ==
  ASSUME FleetInv, Around, NEW t \in Workers, NEW old \in Synths, NEW new \in Miners, Rekey(t, old, new)
  PROVE  FleetInv'
<1>1. PICK n, tasks : n = Doing("rekey", old, None, new) /\ tasks = [task EXCEPT ![t] = n] /\ task' = tasks
  BY DEF Rekey
<1>2. old \in Ids /\ new \in Ids /\ old # new
  BY DEF Rekey, Ids
<1>3. n \in Tasks /\ n.engine = None /\ n.does = "rekey" /\ n.id = old /\ n.to = new
  BY <1>1, <1>2 DEF Doing, Tasks
<1>4. /\ task[t] = None /\ UNCHANGED <<minerIps, registry, object, files>>
      /\ roster[old] # None /\ roster[new] = None
      /\ roster' = [roster EXCEPT ![new] = roster[old], ![old] = None]
      /\ standing' = [standing EXCEPT ![new] = "listed"]
  BY DEF Rekey
<1>5. roster \in [Ids -> Ips \cup {Nowhere, None}] /\ DOMAIN standing = Ids /\ ~Removed(standing, old)
  BY <1>2, <1>4 DEF FleetInv, FleetTypeOK, FleetFits, Unlisted
<1>6. /\ roster' \in [Ids -> Ips \cup {Nowhere, None}] /\ DOMAIN standing' = Ids
      /\ \A i \in Ids : Removed(standing', i) => Removed(standing, i) /\ roster'[i] = roster[i]
      /\ \A i \in Ids : roster[i] = None \/ roster'[i] = roster[i] \/ (n.does = "rekey" /\ n.id = i)
  BY <1>2, <1>3, <1>4, <1>5 DEF Removed
<1>7. n.does = "rekey" => n.id \in Synths /\ n.to \in Miners
  BY <1>3
<1>8. /\ n \in Tasks /\ tasks = [task EXCEPT ![t] = n] /\ task' = tasks /\ task[t] = None
      /\ n.engine = None /\ n.does \in {"reflash", "rekey"} /\ UNCHANGED <<minerIps, registry, object, files>>
  BY <1>1, <1>3, <1>4
<1> QED
  BY <1>6, <1>7, <1>8, Enters

LEMMA RenamesFiles ==
  ASSUME FleetInv, Around, NEW t \in Workers, RekeyRename(t)
  PROVE  FleetInv'
<1>1. PICK old, new :
        /\ old = task[t].id /\ new = task[t].to /\ task[t] # None /\ task[t].does = "rename"
        /\ IF old \in files THEN files' = (files \ {old}) \cup {new} /\ Revives(new)
                            ELSE UNCHANGED <<files, standing>>
        /\ task' = [task EXCEPT ![t] = None] /\ UNCHANGED <<roster, minerIps, registry, object>>
  BY DEF RekeyRename, At
<1>2. new \in Ids /\ files \subseteq Ids
  BY <1>1 DEF FleetInv, FleetTypeOK, FleetFits, Rekeyed, Ids
<1>3. SweptTo(object, registry, task')
  BY <1>1, NotSweeping
<1>4. /\ files' \subseteq Ids /\ DOMAIN standing' = Ids
      /\ \A i \in Ids : Removed(standing', i) =>
           Removed(standing, i) /\ (i \in files' => i \in files \/ Deleting(task, i))
  <2>1. CASE old \in files
    <3>1. /\ DOMAIN standing' = Ids /\ ~Removed(standing', new)
          /\ \A i \in Ids : Removed(standing', i) => Removed(standing, i)
      BY <1>1, <1>2, <2>1, Reviving
    <3> QED
      BY <1>1, <1>2, <2>1, <3>1
  <2>2. CASE old \notin files
    BY <1>1, <1>2, <2>2 DEF FleetInv
  <2> QED
    BY <2>1, <2>2
<1> QED
  BY <1>1, <1>3, <1>4, QuietTask

(* The engine enters the registry under the MAC: it goes on reading the    *)
(* settings of its made-up id, and an engine the MAC had is lost.          *)
LEMMA PutsEngine ==
  ASSUME FleetInv, Around, NEW t \in Workers, RekeyPut(t)
  PROVE  FleetInv'
<1>1. PICK new, e, n, tasks :
        /\ new = task[t].to /\ e = task[t].engine /\ n = [task[t] EXCEPT !.does = "rename", !.engine = None]
        /\ tasks = [task EXCEPT ![t] = n]
  OBVIOUS
<1>2. /\ task[t] # None /\ task[t].does = "put"
      /\ IF e = None THEN UNCHANGED standing ELSE Revives(new)
      /\ UNCHANGED <<roster, minerIps, files>>
  BY <1>1 DEF RekeyPut, At
<1>3. Becomes(IF e = None THEN object ELSE [Lose(object, registry[new]) EXCEPT ![e].mac = new, ![e].lost = FALSE],
              IF e = None THEN registry ELSE [registry EXCEPT ![new] = e], tasks)
  BY <1>1 DEF RekeyPut
<1>4. PICK objects, registered :
        /\ objects = IF e = None THEN object ELSE [Lose(object, registry[new]) EXCEPT ![e].mac = new, ![e].lost = FALSE]
        /\ registered = IF e = None THEN registry ELSE [registry EXCEPT ![new] = e]
        /\ Becomes(objects, registered, tasks)
  BY <1>3
<1>5. /\ task[t] \in Tasks /\ task[t].id \in Synths /\ new \in Miners /\ new \in Ids /\ new \notin Synths
      /\ e \in Engines \cup {None}
      /\ e # None => object[e] # None /\ object[e].reads \in Synths
  BY <1>1, <1>2, TaskTyped, FleetAssumption DEF FleetInv, FleetFits, Rekeyed, Ids
<1>6. n \in Tasks /\ n.does = "rename" /\ n.engine = None /\ n.id = task[t].id /\ n.to = new
  BY <1>1, <1>5 DEF Tasks
<1>7. DOMAIN tasks = Workers /\ tasks[t] = n /\ \A u \in Workers \ {t} : tasks[u] = task[u]
  BY <1>1, <1>6 DEF FleetInv, FleetFits, Fitting
<1>8. Fitting(object, registry, tasks)
  BY <1>6, <1>7 DEF FleetInv, FleetFits, Fitting
<1>9. \A i \in Ids :
        /\ Removing(task, i) => Removing(tasks, i)
        /\ Deleting(task, i) => Deleting(tasks, i)
        /\ Rekeying(task, i) => Rekeying(tasks, i)
        /\ \A f \in Engines : Taken(task, i, f) => Taken(tasks, i, f)
  BY <1>2, <1>7 DEF Removing, Deleting, Rekeying, Taken, Doings
<1>10. SweptTo(objects, registered, tasks)
  BY <1>4, Sweeping
<1>11. /\ DOMAIN standing' = Ids /\ (e # None => ~Removed(standing', new))
       /\ \A i \in Ids : Removed(standing', i) => Removed(standing, i)
  <2>1. CASE e = None
    BY <1>2, <2>1 DEF FleetInv
  <2>2. CASE e # None
    BY <1>2, <1>5, <2>2, Reviving
  <2> QED
    BY <2>1, <2>2
<1>12. RestOK
  BY <1>2, <1>11 DEF FleetInv, FleetTypeOK, RestOK
<1>13. /\ registered \in [Ids -> Engines \cup {None}]
       /\ \A i \in Ids \ {new} : registered[i] = registry[i]
       /\ registered[new] = IF e = None THEN registry[new] ELSE e
  BY <1>4, <1>5 DEF FleetInv, FleetTypeOK
<1>14. \A f \in Engines : object[f] \in Objects \cup {None}
  BY DEF FleetInv, FleetTypeOK
<1>15. /\ \A f \in Engines :
            /\ (objects[f] = None) = (object[f] = None) /\ objects[f] \in Objects \cup {None}
            /\ object[f] # None =>
                 /\ objects[f].reads = object[f].reads /\ objects[f].ip = object[f].ip
                 /\ objects[f].stray = object[f].stray /\ objects[f].destroyed = object[f].destroyed
                 /\ f # e => /\ objects[f].mac = object[f].mac
                             /\ ~objects[f].destroyed /\ ~objects[f].lost
                                  => ~object[f].lost /\ (e = None \/ f # registry[new])
       /\ e # None => objects[e].mac = new
  <2>1. CASE e = None
    BY <1>4, <1>5, <1>14, <2>1, FleetAssumption
  <2>2. CASE e # None
    <3>1. PICK b, lost : b = registry[new] /\ lost = Lose(object, b)
      OBVIOUS
    <3>2. b \in Engines \cup {None} /\ (b # None => object[b] # None)
      BY <1>5, <3>1 DEF FleetInv, FleetTypeOK
    <3>3. /\ DOMAIN lost = Engines
          /\ \A f \in Engines :
               /\ (lost[f] = None) = (object[f] = None) /\ lost[f] \in Objects \cup {None}
               /\ object[f] # None =>
                    /\ lost[f].reads = object[f].reads /\ lost[f].ip = object[f].ip /\ lost[f].mac = object[f].mac
                    /\ lost[f].stray = object[f].stray /\ lost[f].destroyed = object[f].destroyed
                    /\ ~lost[f].destroyed /\ ~lost[f].lost => ~object[f].lost /\ f # b
      <4>1. CASE b = None
        BY <1>14, <3>1, <4>1, FleetAssumption DEF Lose, FleetInv
      <4>2. CASE b # None
        BY <1>14, <3>1, <3>2, <4>2, Losing
      <4> QED
        BY <4>1, <4>2
    <3>4. /\ objects = [lost EXCEPT ![e] = [[lost[e] EXCEPT !.mac = new] EXCEPT !.lost = FALSE]]
          /\ e \in Engines /\ lost[e] \in Objects
      BY <1>4, <1>5, <2>2, <3>1, <3>3
    <3>5. PICK o \in Objects : o = lost[e]
      BY <3>4
    <3>6. PICK p \in Objects : p = [[o EXCEPT !.mac = new] EXCEPT !.lost = FALSE]
      BY <1>5 DEF Objects
    <3>7. /\ p.mac = new /\ p.reads = o.reads /\ p.ip = o.ip /\ p.stray = o.stray
          /\ p.destroyed = o.destroyed
      BY <3>6 DEF Objects
    <3>8. objects[e] = p /\ \A f \in Engines : f # e => objects[f] = lost[f]
      BY <3>3, <3>4, <3>5, <3>6
    <3> QED
      BY <1>5, <2>2, <3>1, <3>3, <3>5, <3>7, <3>8, FleetAssumption
  <2> QED
    BY <2>1, <2>2
<1>16. Fitting(objects, registered, tasks)
  <2>1. \A u \in Workers : tasks[u] # None => tasks[u].engine \in Engines \cup {None}
    BY <1>8 DEF Fitting, Tasks
  <2> QED
    BY <1>5, <1>8, <1>13, <1>15, <2>1 DEF Fitting
<1>17. Unlisted(roster', standing')
  BY <1>2, <1>11 DEF FleetInv, FleetFits, Unlisted
<1>18. Emptied(registered, tasks, files', standing')
  BY <1>2, <1>9, <1>11, <1>13 DEF FleetInv, FleetFits, Emptied
<1>19. Writers(objects, registered, tasks)
  <2> SUFFICES ASSUME NEW f \in Engines, objects[f] # None, ~objects[f].destroyed, ~objects[f].lost
               PROVE  registered[objects[f].mac] = f \/ Taken(tasks, objects[f].mac, f)
    BY DEF Writers
  <2>1. object[f] # None
    BY <1>15
  <2>2. CASE f = e
    BY <1>13, <1>15, <2>2, FleetAssumption
  <2>3. CASE f # e
    <3>1. objects[f].mac = object[f].mac /\ ~object[f].destroyed /\ ~object[f].lost /\ (e = None \/ f # registry[new])
      BY <1>15, <2>1, <2>3
    <3>2. object[f].mac \in Ids
      BY <1>14, <2>1 DEF Objects
    <3>3. registry[object[f].mac] = f \/ Taken(task, object[f].mac, f)
      BY <2>1, <3>1 DEF FleetInv, FleetFits, Writers
    <3> QED
      BY <1>9, <1>13, <3>1, <3>2, <3>3
  <2> QED
    BY <2>2, <2>3
<1>20. \A i \in Ids : registered[i] # None => registered[i] \in Engines /\ object[registered[i]] # None
  BY <1>5, <1>13 DEF FleetInv, FleetTypeOK
<1>21. Rekeyed(objects, registered, tasks)
  <2>1. \A u \in Workers : tasks[u] # None /\ tasks[u].does \in {"rekey", "put", "rename"}
                             => tasks[u].id \in Synths /\ tasks[u].to \in Miners
    BY <1>2, <1>5, <1>6, <1>7 DEF FleetInv, FleetFits, Rekeyed
  <2>2. \A u \in Workers : tasks[u] # None /\ tasks[u].does = "put" /\ tasks[u].engine # None
                             => /\ tasks[u].engine \in Engines /\ object[tasks[u].engine] # None
                                /\ object[tasks[u].engine].reads \in Synths
    BY <1>6, <1>7, <1>8 DEF FleetInv, FleetFits, Fitting, Rekeyed, Tasks
  <2>3. \A i \in Synths : i \in Ids /\ registered[i] = registry[i]
    BY <1>5, <1>13 DEF Ids
  <2>4. \A i \in Synths : registered[i] # None => objects[registered[i]].reads \in Synths
    BY <1>15, <1>20, <2>3 DEF FleetInv, FleetFits, Rekeyed
  <2> QED
    BY <1>15, <2>1, <2>2, <2>4 DEF Rekeyed
<1>22. Followed(objects, registered, tasks, roster')
  <2> SUFFICES ASSUME NEW i \in Ids, registered[i] # None
               PROVE  \/ objects[registered[i]].stray \/ objects[registered[i]].reads # i
                      \/ Removing(tasks, i) \/ Rekeying(tasks, i) \/ Telling(i)
                      \/ roster'[i] \in Ips /\ objects[registered[i]].ip = roster'[i]
    BY DEF Followed
  <2>1. CASE i = new /\ e # None
    BY <1>5, <1>13, <1>15, <2>1
  <2>2. CASE i # new \/ e = None
    <3>1. registered[i] = registry[i] /\ registry[i] \in Engines /\ object[registry[i]] # None
      BY <1>13, <1>20, <2>2
    <3> QED
      BY <1>2, <1>9, <1>15, <3>1 DEF FleetInv, FleetFits, Followed
  <2> QED
    BY <2>1, <2>2
<1>23. Single(registered, tasks)
  <2>1. e # None => /\ \A i \in Ids : registry[i] # e
                    /\ \A u \in Workers : task[u] # None /\ task[u].does = "put" /\ task[u].engine = e => u = t
    BY <1>1, <1>2 DEF FleetInv, FleetFits, Single
  <2>2. \A i, j \in Ids : registered[i] # None /\ registered[i] = registered[j] => i = j
    BY <1>13, <2>1 DEF FleetInv, FleetFits, Single
  <2>3. \A u \in Workers : tasks[u] # None /\ tasks[u].does = "put" => u # t /\ tasks[u] = task[u]
    BY <1>6, <1>7
  <2>4. \A u \in Workers : tasks[u] # None /\ tasks[u].does = "put" /\ tasks[u].engine # None =>
          \A i \in Ids : registered[i] # tasks[u].engine
    BY <1>13, <2>1, <2>3 DEF FleetInv, FleetFits, Single
  <2> QED
    BY <2>2, <2>3, <2>4 DEF FleetInv, FleetFits, Single
<1> QED
  BY <1>10, <1>12, <1>16, <1>17, <1>18, <1>19, <1>21, <1>22, <1>23, FleetMoves DEF FleetFits

LEMMA FleetInitial ==
  ASSUME ScannerInit
  PROVE  FleetInv
<1>1. /\ roster \in [Ids -> Ips \cup {None}] /\ minerIps = {roster[i] : i \in Ids} \ {None}
      /\ registry = [i \in Ids |-> None] /\ object = [e \in Engines |-> None]
      /\ files \subseteq Ids /\ task = [t \in Workers |-> None] /\ left = Requests
      /\ standing = [i \in Ids |-> IF roster[i] = None THEN "unknown" ELSE "listed"]
  BY DEF ScannerInit, FleetInit
<1>2. FleetTypeOK /\ DOMAIN object = Engines /\ DOMAIN standing = Ids
  BY <1>1, FleetAssumption DEF FleetTypeOK
<1>3. \A i \in Ids : registry[i] = None /\ ~Removed(standing, i)
  BY <1>1 DEF Removed
<1>4. /\ Fitting(object, registry, task) /\ Unlisted(roster, standing) /\ Emptied(registry, task, files, standing)
      /\ Writers(object, registry, task) /\ Followed(object, registry, task, roster)
      /\ Single(registry, task)
  BY <1>1, <1>3 DEF Fitting, Unlisted, Emptied, Writers, Followed, Single
<1>5. Rekeyed(object, registry, task)
  BY <1>1, <1>3 DEF Rekeyed, Ids
<1> QED
  BY <1>2, <1>4, <1>5 DEF FleetInv, FleetFits

\* Every request, and every step of a task or of a worker.
LEMMA FleetSteps ==
  ASSUME FleetInv, FleetNext, UNCHANGED scan
  PROVE  FleetInv'
<1>1. Around
  <2>1. left' \in 0..Requests
    BY FleetAssumption DEF FleetNext, Asked, FleetInv, FleetTypeOK
  <2>2. \A id \in Ids : Telling(id) => Telling(id)'
    BY DEF Telling, Registering
  <2> QED
    BY <2>1, <2>2 DEF Around
<1>2. ASSUME NEW t \in Clients, NEW id \in Ids,
             AskStart(t, id) \/ Poll(t, id) \/ Remove(t, id) \/ Reset(t, id) \/ PartialReset(t, id) \/ Reflash(t, id)
      PROVE  FleetInv'
  <2>1. t \in Workers
    BY DEF Workers
  <2> QED
    BY <1>1, <1>2, <2>1, AsksForEngines, BeginsQuietly, Removes, Reflashes
<1>3. ASSUME NEW t \in Clients, NEW old \in Synths, NEW new \in Miners, Rekey(t, old, new)
      PROVE  FleetInv'
  <2>1. t \in Workers
    BY DEF Workers
  <2> QED
    BY <1>1, <1>3, <2>1, Rekeys
<1>4. ASSUME NEW t \in Workers,
             \/ StartEngine(t) \/ PollEngine(t) \/ RemovePop(t) \/ RemoveDestroy(t) \/ RemoveDelete(t)
             \/ ResetDestroy(t) \/ ResetDelete(t) \/ ResetRenew(t) \/ PartialSave(t)
             \/ ReflashPop(t) \/ ReflashDestroy(t) \/ RekeyPop(t) \/ RekeyPut(t) \/ RekeyRename(t)
      PROVE  FleetInv'
  <2>1. CASE PollEngine(t) \/ ResetDelete(t)
    <3>1. PICK id \in Ids : id = task[t].id
      BY <2>1, TaskTyped DEF PollEngine, ResetDelete, At
    <3> QED
      BY <1>1, <2>1, <3>1, AsksForEngines, BeginsQuietly
  <2>2. CASE StartEngine(t) \/ RemoveDelete(t) \/ ResetRenew(t) \/ PartialSave(t) \/ RekeyPut(t) \/ RekeyRename(t)
    BY <1>1, <2>2, StartsEngine, RemovesFiles, Renews, SavesPartly, PutsEngine, RenamesFiles
  <2>3. CASE RemovePop(t) \/ ReflashPop(t) \/ RekeyPop(t)
    BY <1>1, <2>3, Pops
  <2>4. CASE RemoveDestroy(t) \/ ResetDestroy(t) \/ ReflashDestroy(t)
    BY <1>1, <2>4, Destroys
  <2> QED
    BY <1>4, <2>1, <2>2, <2>3, <2>4
<1>5. ASSUME NEW e \in Engines, ThreadEnds(e) \/ Save(e)
      PROVE  FleetInv'
  BY <1>1, <1>5, EndsThread, SavesFiles
<1> QED
  BY <1>2, <1>3, <1>4, <1>5 DEF FleetNext, ClientNext, TaskNext

\* Nobody gives the scanner a task.
LEMMA ScannerIdle ==
  ASSUME FleetInv, FleetNext, task["scanner"] = None
  PROVE  task'["scanner"] = None
<1>1. DOMAIN task = Workers /\ "scanner" \in Workers
  BY DEF FleetInv, FleetFits, Fitting, Workers
<1>2. ASSUME NEW t, t # "scanner", NEW n, task' = [task EXCEPT ![t] = n]
      PROVE  task'["scanner"] = None
  BY <1>1, <1>2
<1>3. ASSUME NEW t \in Clients, NEW id \in Ids,
             AskStart(t, id) \/ Poll(t, id) \/ Remove(t, id) \/ Reset(t, id) \/ PartialReset(t, id) \/ Reflash(t, id)
      PROVE  task'["scanner"] = None
  <2>1. t # "scanner"
    BY FleetAssumption
  <2>2. \E n : task' = [task EXCEPT ![t] = n]
    BY <1>3 DEF AskStart, Got, Becomes, Poll, Remove, Reset, PartialReset, Reflash
  <2> QED
    BY <1>2, <2>1, <2>2
<1>4. ASSUME NEW t \in Clients, NEW old \in Synths, NEW new \in Miners, Rekey(t, old, new)
      PROVE  task'["scanner"] = None
  <2>1. t # "scanner"
    BY FleetAssumption
  <2>2. \E n : task' = [task EXCEPT ![t] = n]
    BY <1>4 DEF Rekey
  <2> QED
    BY <1>2, <2>1, <2>2
<1>5. ASSUME NEW t \in Workers,
             \/ StartEngine(t) \/ PollEngine(t) \/ RemovePop(t) \/ RemoveDestroy(t) \/ RemoveDelete(t)
             \/ ResetDestroy(t) \/ ResetDelete(t) \/ ResetRenew(t) \/ PartialSave(t)
             \/ ReflashPop(t) \/ ReflashDestroy(t) \/ RekeyPop(t) \/ RekeyPut(t) \/ RekeyRename(t)
      PROVE  task'["scanner"] = None
  <2>1. task[t] # None
    BY <1>5 DEF StartEngine, PollEngine, RemovePop, RemoveDestroy, RemoveDelete, ResetDestroy, ResetDelete,
                ResetRenew, PartialSave, ReflashPop, ReflashDestroy, RekeyPop, RekeyPut, RekeyRename, At
  <2>2. \E n : task' = [task EXCEPT ![t] = n]
    <3>1. CASE StartEngine(t) \/ PollEngine(t) \/ RemoveDelete(t) \/ ResetRenew(t) \/ PartialSave(t) \/ RekeyRename(t)
      BY <3>1 DEF StartEngine, PollEngine, Got, Becomes, RemoveDelete, ResetRenew, PartialSave, RekeyRename
    <3>2. CASE RemovePop(t) \/ ReflashPop(t) \/ RekeyPop(t) \/ RekeyPut(t) \/ ResetDelete(t)
      BY <3>2 DEF RemovePop, ReflashPop, RekeyPop, Popped, Becomes, RekeyPut, ResetDelete
    <3>3. CASE RemoveDestroy(t) \/ ResetDestroy(t) \/ ReflashDestroy(t)
      BY <3>3 DEF RemoveDestroy, ResetDestroy, ReflashDestroy, Destroy, Becomes
    <3> QED
      BY <1>5, <3>1, <3>2, <3>3
  <2> QED
    BY <1>2, <2>1, <2>2
<1>6. ASSUME NEW e \in Engines, ThreadEnds(e) \/ Save(e)
      PROVE  task'["scanner"] = None
  BY <1>6 DEF ThreadEnds, Save, Becomes
<1> QED
  BY <1>3, <1>4, <1>5, <1>6 DEF FleetNext, ClientNext, TaskNext

(* The scanner's own steps.                                                *)
LEMMA ScanTyped ==
  ASSUME ScannerInv, scan # None
  PROVE  /\ scan = [skip |-> scan.skip, entry |-> scan.entry] /\ scan.skip \subseteq Ips
         /\ scan.entry # None =>
              /\ scan.entry \in Entries
              /\ scan.entry.id \in Miners \/ scan.entry.old = {}
              /\ scan.entry = [ip |-> scan.entry.ip, id |-> scan.entry.id, prior |-> scan.entry.prior,
                               step |-> scan.entry.step, old |-> scan.entry.old]
<1>1. scan \in [skip : SUBSET Ips, entry : Entries \cup {None}]
  BY DEF ScannerInv, ScannerTypeOK, Scans
<1>2. scan = [skip |-> scan.skip, entry |-> scan.entry] /\ scan.skip \subseteq Ips /\ scan.entry \in Entries \cup {None}
  BY <1>1
<1>3. ASSUME scan.entry # None
      PROVE  scan.entry = [ip |-> scan.entry.ip, id |-> scan.entry.id, prior |-> scan.entry.prior,
                           step |-> scan.entry.step, old |-> scan.entry.old]
  BY <1>2, <1>3 DEF Entries
<1> QED
  BY <1>2, <1>3 DEF ScannerInv

\* Steps that touch nothing of the fleet but MINER_IPS, while no engine is
\* about to be told.
LEMMA FleetStands ==
  ASSUME FleetInv, UNCHANGED <<roster, registry, object, files, task, standing>>, minerIps' \subseteq minerIps,
         left' \in 0..Requests, \A id \in Ids : Telling(id) => Telling(id)'
  PROVE  FleetInv'
<1>1. SweptTo(object, registry, task)
  BY DEF FleetInv, SweptTo
<1>2. Fitting(object, registry, task) /\ Alike(object) /\ TasksKept(task)
  BY DEF FleetInv, FleetFits, Alike, TasksKept
<1> QED
  BY <1>1, <1>2, Quietly DEF Around, FleetInv, FleetTypeOK

LEMMA ScansStart ==
  ASSUME FleetInv, ScannerInv, StartScan \/ EndScan, UNCHANGED left
  PROVE  FleetInv' /\ ScannerInv'
<1>1. \A id \in Ids : ~Telling(id)
  BY DEF StartScan, EndScan, Telling, Registering
<1>2. FleetInv'
  BY <1>1, FleetStands DEF StartScan, EndScan, fleet, FleetInv, FleetTypeOK
<1>3. minerIps \subseteq Ips
  BY DEF FleetInv, FleetTypeOK
<1>4. scan' = None \/ scan' = [skip |-> minerIps, entry |-> None]
  BY DEF StartScan, EndScan
<1>5. ScannerInv'
  BY <1>3, <1>4 DEF ScannerInv, ScannerTypeOK, Scans, Registering
<1> QED
  BY <1>2, <1>5

LEMMA Forgets ==
  ASSUME FleetInv, ScannerInv, NEW ip \in Ips, ForgetIp(ip), Asked
  PROVE  FleetInv' /\ ScannerInv'
<1>1. left' \in 0..Requests
  BY FleetAssumption DEF Asked, FleetInv, FleetTypeOK
<1>2. UNCHANGED <<roster, registry, object, files, task, standing, scan>> /\ minerIps' \subseteq minerIps
  BY DEF ForgetIp
<1>3. \A id \in Ids : Telling(id) => Telling(id)'
  BY <1>2 DEF Telling, Registering
<1>4. ScannerInv'
  BY <1>2 DEF ScannerInv, ScannerTypeOK, Registering
<1> QED
  BY <1>1, <1>2, <1>3, <1>4, FleetStands

LEMMA Finds ==
  ASSUME FleetInv, ScannerInv, NEW ip \in Ips, NEW id \in Ids, Register(ip, id), Asked
  PROVE  FleetInv' /\ ScannerInv'
<1>1. left' \in 0..Requests
  BY FleetAssumption DEF Asked, FleetInv, FleetTypeOK
<1>2. \A i \in Ids : ~Telling(i)
  BY DEF Register, Telling, Registering
<1>3. FleetInv'
  BY <1>1, <1>2, FleetStands DEF Register, fleet
<1>4. PICK r : /\ scan' = [skip |-> scan.skip \cup {ip}, entry |-> r]
               /\ r = [ip |-> ip, id |-> id, prior |-> None, step |-> "rekey",
                       old |-> IF id \in Synths THEN {} ELSE {s \in Synths : roster[s] = ip}]
  BY DEF Register
<1>5. r \in Entries /\ (r.id \in Miners \/ r.old = {}) /\ r.step = "rekey"
  BY <1>4 DEF Entries, Ids
<1>6. scan.skip \subseteq Ips
  BY ScanTyped DEF Register
<1>7. /\ scan' \in Scans /\ scan'.entry = r
  BY <1>4, <1>5, <1>6 DEF Scans
<1>8. ScannerInv'
  BY <1>5, <1>7 DEF ScannerInv, ScannerTypeOK, Registering
<1> QED
  BY <1>3, <1>8

LEMMA RekeysFound ==
  ASSUME FleetInv, ScannerInv, NEW s \in Synths, RekeySynth(s), UNCHANGED left
  PROVE  FleetInv' /\ ScannerInv'
<1>1. scan # None /\ scan.entry # None /\ scan.entry.step = "rekey" /\ s \in scan.entry.old
  BY DEF RekeySynth, Registering
<1>2. PICK r, q : r = scan.entry /\ q = [r EXCEPT !.old = @ \ {s}]
  OBVIOUS
<1>3. r \in Entries /\ r.id \in Miners
  BY <1>1, <1>2, ScanTyped
<1>4. q \in Entries /\ q.id \in Miners /\ q.step = "rekey"
  BY <1>1, <1>2, <1>3 DEF Entries
<1>5. scan' = [skip |-> scan.skip, entry |-> q]
  BY <1>1, <1>2, ScanTyped DEF RekeySynth
<1>6. scan' \in Scans /\ scan'.entry = q
  BY <1>1, <1>4, <1>5, ScanTyped DEF Scans
<1>7. ScannerInv'
  BY <1>4, <1>6 DEF ScannerInv, ScannerTypeOK, Registering
<1>8. \A id \in Ids : ~Telling(id)
  BY <1>1 DEF Telling, Registering
<1>9. Around
  BY <1>8 DEF Around, FleetInv, FleetTypeOK
<1>10. CASE Rekey("scanner", s, scan.entry.id)
  <2>1. "scanner" \in Workers
    BY DEF Workers
  <2> QED
    BY <1>2, <1>3, <1>7, <1>9, <1>10, <2>1, Rekeys
<1>11. CASE UNCHANGED fleet
  BY <1>7, <1>8, <1>11, FleetStands DEF fleet, FleetInv, FleetTypeOK
<1> QED
  BY <1>10, <1>11 DEF RekeySynth

\* The entry has the new address; an engine that has another one is told.
LEMMA EntersFound ==
  ASSUME FleetInv, ScannerInv, RegisterEntry, UNCHANGED left
  PROVE  FleetInv' /\ ScannerInv'
<1>1. scan # None /\ scan.entry # None /\ scan.entry.step = "rekey" /\ task["scanner"] = None
  BY DEF RegisterEntry, Registering
<1>2. PICK r, q : r = scan.entry /\ q = [r EXCEPT !.step = "refresh", !.prior = roster[r.id]]
  OBVIOUS
<1>3. r \in Entries /\ r.old = {} /\ r.id \in Ids /\ r.ip \in Ips
  <2>1. r \in Entries
    BY <1>1, <1>2, ScanTyped
  <2> QED
    BY <1>2, <2>1 DEF Entries, RegisterEntry
<1>4. roster[r.id] \in Ips \cup {Nowhere, None}
  BY <1>3 DEF FleetInv, FleetTypeOK
<1>5. /\ q \in Entries /\ q.step = "refresh" /\ q.id = r.id /\ q.ip = r.ip
      /\ q.prior = roster[r.id] /\ q.old = {}
  BY <1>2, <1>3, <1>4 DEF Entries
<1>6. scan' = [skip |-> scan.skip, entry |-> q]
  BY <1>1, <1>2, ScanTyped DEF RegisterEntry
<1>7. scan' \in Scans /\ scan'.entry = q
  BY <1>1, <1>5, <1>6, ScanTyped DEF Scans
<1>8. /\ roster' = [roster EXCEPT ![r.id] = r.ip] /\ minerIps' = minerIps \cup {r.ip}
      /\ standing' = [standing EXCEPT ![r.id] = "listed"] /\ UNCHANGED <<registry, object, files, task>>
  BY <1>2 DEF RegisterEntry
<1>9. ScannerInv'
  BY <1>1, <1>5, <1>7, <1>8 DEF ScannerInv, ScannerTypeOK, Registering
<1>10. /\ DOMAIN standing' = Ids /\ ~Removed(standing', r.id) /\ roster'[r.id] = r.ip
       /\ \A i \in Ids \ {r.id} : standing'[i] = standing[i] /\ roster'[i] = roster[i]
       /\ roster' \in [Ids -> Ips \cup {Nowhere, None}] /\ minerIps' \subseteq Ips
  BY <1>3, <1>8 DEF FleetInv, FleetTypeOK, Removed
<1>11. FleetTypeOK' /\ (DOMAIN object = Engines)'
  BY <1>8, <1>10 DEF FleetInv, FleetTypeOK
<1>12. \A i \in Ids : ~Telling(i)
  BY <1>1 DEF Telling, Registering
<1>13. q.prior \notin {None, Nowhere, r.ip} => Telling(r.id)'
  <2>1. scan' # None /\ q # None
    BY <1>5, <1>7, ScannerAssumption
  <2> QED
    BY <1>5, <1>7, <2>1 DEF Telling, Registering
<1>14. Followed(object, registry, task, roster)'
  <2> SUFFICES ASSUME NEW i \in Ids, registry[i] # None
               PROVE  \/ object[registry[i]].stray \/ object[registry[i]].reads # i
                      \/ Removing(task, i) \/ Rekeying(task, i) \/ Telling(i)'
                      \/ roster'[i] \in Ips /\ object[registry[i]].ip = roster'[i]
    BY <1>8 DEF Followed
  <2>1. \/ object[registry[i]].stray \/ object[registry[i]].reads # i
        \/ Removing(task, i) \/ Rekeying(task, i)
        \/ roster[i] \in Ips /\ object[registry[i]].ip = roster[i]
    BY <1>12 DEF FleetInv, FleetFits, Followed
  <2>2. None \notin Ips /\ Nowhere \notin Ips
    BY FleetAssumption
  <2> QED
    BY <1>3, <1>5, <1>10, <1>13, <2>1, <2>2
<1>15. /\ Unlisted(roster, standing)' /\ Emptied(registry, task, files, standing)'
       /\ Fitting(object, registry, task)' /\ Writers(object, registry, task)'
       /\ Rekeyed(object, registry, task)' /\ Single(registry, task)'
  <2>1. \A i \in Ids : Removed(standing', i) => Removed(standing, i) /\ roster'[i] = roster[i]
    BY <1>10 DEF Removed
  <2>2. Unlisted(roster, standing)' /\ Emptied(registry, task, files, standing)'
    BY <1>8, <2>1 DEF FleetInv, FleetFits, Unlisted, Emptied
  <2>3. Fitting(object, registry, task)'
    BY <1>8 DEF FleetInv, FleetFits
  <2>4. Writers(object, registry, task)' /\ Rekeyed(object, registry, task)' /\ Single(registry, task)'
    BY <1>8 DEF FleetInv, FleetFits
  <2> QED
    BY <2>2, <2>3, <2>4
<1> QED
  BY <1>9, <1>10, <1>11, <1>14, <1>15 DEF FleetInv, FleetFits

LEMMA TellsEngine ==
  ASSUME FleetInv, ScannerInv, RefreshIp, UNCHANGED left
  PROVE  FleetInv' /\ ScannerInv'
<1>1. scan # None /\ scan.entry # None /\ scan.entry.step = "refresh" /\ task["scanner"] = None
  BY DEF RefreshIp, Registering, ScannerInv
<1>2. PICK r, q, e : r = scan.entry /\ q = [r EXCEPT !.step = "engine"] /\ e = registry[r.id]
  OBVIOUS
<1>3. r \in Entries /\ r.id \in Ids /\ r.ip \in Ips /\ (r.id \in Miners \/ r.old = {})
  <2>1. r \in Entries /\ (r.id \in Miners \/ r.old = {})
    BY <1>1, <1>2, ScanTyped
  <2> QED
    BY <2>1 DEF Entries
<1>4. q \in Entries /\ q.step = "engine" /\ (q.id \in Miners \/ q.old = {})
  BY <1>2, <1>3 DEF Entries
<1>5. scan' = [skip |-> scan.skip, entry |-> q]
  BY <1>1, <1>2, ScanTyped DEF RefreshIp
<1>6. scan' \in Scans /\ scan'.entry = q
  BY <1>1, <1>4, <1>5, ScanTyped DEF Scans
<1>7. /\ UNCHANGED <<roster, minerIps, registry, files, task, standing>>
      /\ object' = IF r.prior \in {None, Nowhere, r.ip} \/ e = None THEN object
                   ELSE [object EXCEPT ![e].ip = r.ip, ![e].stray = @ \/ roster[r.id] # r.ip]
  BY <1>2 DEF RefreshIp
<1>8. ScannerInv'
  BY <1>1, <1>4, <1>6, <1>7 DEF ScannerInv, ScannerTypeOK, Registering
<1>9. e \in Engines \cup {None} /\ (e # None => object[e] # None) /\ \A f \in Engines : object[f] \in Objects \cup {None}
  BY <1>2, <1>3 DEF FleetInv, FleetTypeOK
<1>10. /\ DOMAIN object' = Engines
       /\ \A f \in Engines :
            /\ (object'[f] = None) = (object[f] = None) /\ object'[f] \in Objects \cup {None}
            /\ object[f] # None =>
                 /\ object'[f].reads = object[f].reads /\ object'[f].mac = object[f].mac
                 /\ object'[f].destroyed = object[f].destroyed /\ object'[f].lost = object[f].lost
                 /\ f # e => object'[f] = object[f]
       /\ e # None /\ r.prior \notin {None, Nowhere, r.ip} =>
            object'[e].ip = r.ip /\ (object'[e].stray \/ roster[r.id] = r.ip)
       /\ r.prior \in {None, Nowhere, r.ip} => object' = object
  <2>1. CASE r.prior \in {None, Nowhere, r.ip} \/ e = None
    BY <1>7, <1>9, <2>1 DEF FleetInv
  <2>2. CASE r.prior \notin {None, Nowhere, r.ip} /\ e # None
    <3>1. PICK o \in Objects : o = object[e]
      BY <1>9, <2>2
    <3>2. PICK p \in Objects : p = [[o EXCEPT !.ip = r.ip] EXCEPT !.stray = o.stray \/ roster[r.id] # r.ip]
      BY <1>3 DEF Objects
    <3>3. /\ p.reads = o.reads /\ p.mac = o.mac /\ p.destroyed = o.destroyed /\ p.lost = o.lost
          /\ p.ip = r.ip /\ (p.stray \/ roster[r.id] = r.ip)
      BY <3>2 DEF Objects
    <3>4. object' = [object EXCEPT ![e] = p]
      BY <1>7, <1>9, <2>2, <3>1, <3>2
    <3> QED
      BY <1>9, <2>2, <3>1, <3>3, <3>4, FleetAssumption DEF FleetInv
  <2> QED
    BY <2>1, <2>2
<1>11. \A i \in Ids : registry[i] # None => registry[i] \in Engines /\ object[registry[i]] # None
  BY DEF FleetInv, FleetTypeOK
<1>12. FleetTypeOK' /\ (DOMAIN standing = Ids)'
  BY <1>7, <1>10, <1>11 DEF FleetInv, FleetTypeOK
<1>13. Followed(object, registry, task, roster)'
  <2> SUFFICES ASSUME NEW i \in Ids, registry[i] # None
               PROVE  \/ object'[registry[i]].stray \/ object'[registry[i]].reads # i
                      \/ Removing(task, i) \/ Rekeying(task, i)
                      \/ roster[i] \in Ips /\ object'[registry[i]].ip = roster[i]
    BY <1>7 DEF Followed
  <2>1. \/ object[registry[i]].stray \/ object[registry[i]].reads # i
        \/ Removing(task, i) \/ Rekeying(task, i) \/ Telling(i)
        \/ roster[i] \in Ips /\ object[registry[i]].ip = roster[i]
    BY DEF FleetInv, FleetFits, Followed
  <2>2. CASE i = r.id /\ r.prior \notin {None, Nowhere, r.ip}
    BY <1>2, <1>3, <1>10, <2>2
  <2>3. CASE i # r.id \/ r.prior \in {None, Nowhere, r.ip}
    <3>1. ~Telling(i)
      BY <1>2, <2>3 DEF Telling
    <3>2. i # r.id => registry[i] # e
      BY <1>2, <1>3 DEF FleetInv, FleetFits, Single
    <3> QED
      BY <1>10, <1>11, <2>1, <2>3, <3>1, <3>2
  <2> QED
    BY <2>2, <2>3
<1>14. Unlisted(roster, standing)' /\ Emptied(registry, task, files, standing)' /\ Single(registry, task)'
  BY <1>7 DEF FleetInv, FleetFits, Unlisted, Emptied, Single
<1>15. \A u \in Workers : task[u] # None => task[u].engine \in Engines \cup {None}
  BY TaskTyped
<1>16. Fitting(object, registry, task)'
  BY <1>7, <1>10, <1>11, <1>15 DEF FleetInv, FleetFits, Fitting
<1>17. Writers(object, registry, task)'
  BY <1>7, <1>10 DEF FleetInv, FleetFits, Writers
<1>18. Rekeyed(object, registry, task)'
  <2>1. \A u \in Workers : task[u] # None /\ task[u].engine # None
                             => task[u].engine \in Engines /\ object[task[u].engine] # None
    BY TaskTyped
  <2> QED
    BY <1>7, <1>10, <1>11, <2>1 DEF FleetInv, FleetFits, Rekeyed, Ids
<1> QED
  BY <1>8, <1>10, <1>12, <1>13, <1>14, <1>16, <1>17, <1>18 DEF FleetInv, FleetFits

LEMMA RegistersEngine ==
  ASSUME FleetInv, ScannerInv, RegisterEngine, UNCHANGED left
  PROVE  FleetInv' /\ ScannerInv'
<1>1. scan # None /\ scan.entry # None /\ scan.entry.step = "engine" /\ task["scanner"] = None
  BY DEF RegisterEngine, Registering, ScannerInv
<1>2. scan' = [skip |-> scan.skip, entry |-> None] /\ scan.skip \subseteq Ips /\ scan.entry.id \in Ids
  <2>1. scan.entry \in Entries /\ scan = [skip |-> scan.skip, entry |-> scan.entry] /\ scan.skip \subseteq Ips
    BY <1>1, ScanTyped
  <2>2. scan.entry.id \in Ids
    BY <2>1 DEF Entries
  <2>3. scan' = [scan EXCEPT !.entry = None]
    BY DEF RegisterEngine
  <2> QED
    BY <2>1, <2>2, <2>3
<1>3. ScannerInv'
  BY <1>2 DEF ScannerInv, ScannerTypeOK, Scans, Registering
<1>4. Around
  BY <1>1 DEF Around, Telling, Registering, FleetInv, FleetTypeOK
<1>5. PICK i, e, n, tasks :
        /\ i = scan.entry.id /\ n = None /\ tasks = [task EXCEPT !["scanner"] = n]
        /\ UNCHANGED <<roster, minerIps, files>>
        /\ \/ /\ registry[i] # None /\ e = registry[i] /\ Becomes(object, registry, tasks) /\ UNCHANGED standing
           \/ /\ registry[i] = None /\ Memory /\ e = NewEngine /\ Revives(i)
              /\ Becomes([object EXCEPT ![e] = New(i)], [registry EXCEPT ![i] = e], tasks)
  <2>1. CASE registry[scan.entry.id] # None
    BY <2>1 DEF RegisterEngine, Got
  <2>2. CASE registry[scan.entry.id] = None
    BY <2>2 DEF RegisterEngine, Got
  <2> QED
    BY <2>1, <2>2
<1>6. i \in Ids /\ "scanner" \in Workers
  BY <1>2, <1>5 DEF Workers
<1> QED
  BY <1>1, <1>3, <1>4, <1>5, <1>6, Gets

LEMMA ScannerSteps ==
  ASSUME FleetInv, ScannerInv, ScannerNext
  PROVE  FleetInv' /\ ScannerInv'
<1>1. CASE FleetNext /\ UNCHANGED scan
  <2>1. FleetInv'
    BY <1>1, FleetSteps
  <2>2. task["scanner"] = None => task'["scanner"] = None
    BY <1>1, ScannerIdle
  <2>3. ScannerInv'
    BY <1>1, <2>2 DEF ScannerInv, ScannerTypeOK, Registering
  <2> QED
    BY <2>1, <2>3
<1>2. ASSUME Asked, NEW ip \in Ips, ForgetIp(ip) \/ \E id \in Ids : Register(ip, id)
      PROVE  FleetInv' /\ ScannerInv'
  BY <1>2, Forgets, Finds
<1>3. ASSUME UNCHANGED left,
             StartScan \/ EndScan \/ (\E s \in Synths : RekeySynth(s)) \/ RegisterEntry \/ RefreshIp \/ RegisterEngine
      PROVE  FleetInv' /\ ScannerInv'
  BY <1>3, ScansStart, RekeysFound, EntersFound, TellsEngine, RegistersEngine
<1> QED
  BY <1>1, <1>2, <1>3 DEF ScannerNext

LEMMA ScannerInitial ==
  ASSUME ScannerInit
  PROVE  ScannerInv
BY DEF ScannerInit, ScannerInv, ScannerTypeOK, Registering
-----------------------------------------------------------------------------
(* The whole: one part runs, the others stand still.                       *)

\* The fleet's invariants are about its own variables.
LEMMA FleetUnchanged ==
  ASSUME FleetInv, ScannerInv, UNCHANGED <<fleet, scan, left>>
  PROVE  FleetInv' /\ ScannerInv'
<1>1. UNCHANGED <<roster, minerIps, registry, object, files, task, standing, scan, left>>
  BY DEF fleet
<1>2. \A id \in Ids : Telling(id) => Telling(id)'
  BY <1>1 DEF Telling, Registering
<1>3. FleetInv'
  BY <1>1, <1>2, FleetStands DEF FleetInv, FleetTypeOK
<1>4. ScannerInv'
  BY <1>1 DEF ScannerInv, ScannerTypeOK, Registering
<1> QED
  BY <1>3, <1>4

LEMMA ServerInitial == Init => ServerInv
BY NonceInitial, ListingInitial, CacheInitial, FleetInitial, ScannerInitial, MigrationInitial DEF Init, ServerInv

LEMMA ServerSteps == ServerInv /\ [Next]_vars => ServerInv'
<1> SUFFICES ASSUME ServerInv, [Next]_vars PROVE ServerInv'
  OBVIOUS
<1>1. UNCHANGED nonce => NonceInv'
  BY NonceSteps DEF ServerInv
<1>2. UNCHANGED listing => ListingInv'
  BY ListingSteps DEF ServerInv
<1>3. UNCHANGED cache => CacheInv'
  BY CacheSteps DEF ServerInv
<1>4. UNCHANGED <<fleet, scan, left>> => FleetInv' /\ ScannerInv'
  BY FleetUnchanged DEF ServerInv
<1>5. UNCHANGED migration => MigrationInv'
  BY MigrationSteps DEF ServerInv
<1>6. CASE DrawsNonces
  <2>1. NonceInv'
    BY <1>6, NonceSteps DEF ServerInv, DrawsNonces
  <2> QED
    BY <1>2, <1>3, <1>4, <1>5, <1>6, <2>1 DEF ServerInv, DrawsNonces
<1>7. CASE ListsRigs
  <2>1. ListingInv'
    BY <1>7, ListingSteps DEF ServerInv, ListsRigs
  <2> QED
    BY <1>1, <1>3, <1>4, <1>5, <1>7, <2>1 DEF ServerInv, ListsRigs
<1>8. CASE CachesRentals
  <2>1. CacheInv'
    BY <1>8, CacheSteps DEF ServerInv, CachesRentals
  <2> QED
    BY <1>1, <1>2, <1>4, <1>5, <1>8, <2>1 DEF ServerInv, CachesRentals
<1>9. CASE KeepsFleet
  <2>1. FleetInv' /\ ScannerInv'
    BY <1>9, ScannerSteps DEF ServerInv, KeepsFleet
  <2> QED
    BY <1>1, <1>2, <1>3, <1>5, <1>9, <2>1 DEF ServerInv, KeepsFleet
<1>10. CASE Migrates
  <2>1. MigrationInv'
    BY <1>10, MigrationSteps DEF ServerInv, Migrates
  <2> QED
    BY <1>1, <1>2, <1>3, <1>4, <1>10, <2>1 DEF ServerInv, Migrates
<1>11. CASE UNCHANGED vars
  BY <1>1, <1>2, <1>3, <1>4, <1>5, <1>11 DEF ServerInv, vars
<1> QED
  BY <1>6, <1>7, <1>8, <1>9, <1>10, <1>11 DEF Next

(* Whatever the parts do, in any order, their invariants hold.             *)
THEOREM ServerInductive == Spec => []ServerInv
BY ServerInitial, ServerSteps, PTL DEF Spec

(* No entry, task or registry refers to an engine that is not there; the   *)
(* cache, the nonces, the publications, the cycle of the scanner and the   *)
(* migration stay among the values the code gives them.                    *)
THEOREM ServerTyped == Spec => []TypeOK
<1>1. ServerInv => TypeOK
  BY DEF ServerInv, NonceInv, ListingInv, CacheInv, FleetInv, ScannerInv, MigrationInv, TypeOK
<1> QED
  BY <1>1, ServerInductive, PTL

(* A nonce drawn is above all that were drawn before it, unless the file   *)
(* has missed one of them and the clock is not past it either.             *)
THEOREM NoncesGrowHolds == Spec => NoncesGrow
<1>1. ServerInv /\ [Next]_vars => [Draw => value' > highest \/ (spoiled /\ clock <= highest)]_nonce
  <2> SUFFICES ASSUME NonceInv, Draw PROVE value' > highest \/ (spoiled /\ clock <= highest)
    BY Zenon DEF nonce, ServerInv
  <2>1. value \in Nat /\ clock \in Nat /\ highest \in Nat
    BY Zenon DEF NonceInv, NonceTypeOK
  <2>2. value' > value /\ value' >= clock /\ value' \in Nat
    BY <2>1 DEF Draw, NextNonce
  <2>3. CASE ~spoiled
    <3>1. value = highest
      BY <2>3, Zenon DEF NonceInv, Unspoiled
    <3> QED
      BY <2>2, <3>1
  <2>4. CASE spoiled
    <3>1. value' > highest \/ clock <= highest
      BY <2>1, <2>2
    <3> QED
      BY <2>4, <3>1, Zenon
  <2> QED
    BY <2>3, <2>4
<1> QED
  BY <1>1, ServerInductive, PTL DEF Spec, NoncesGrow

(* With no publication under way, the rig of an engine without a worker is *)
(* not offered and that of an announced monitor is, unless a publication   *)
(* failed, was skipped or was overtaken, for any number of HTTP threads    *)
(* that publish.                                                           *)
THEOREM RigsShown == Spec => []Truthful
<1>1. ServerInv => Truthful
  BY RigShows DEF ServerInv
<1> QED
  BY <1>1, ServerInductive, PTL

(* A miner whose removal is over, and which no task that had begun before  *)
(* it brings back, has no engine and no files, however many requests, and  *)
(* registrations of the scanner, run at the same time.                     *)
THEOREM RemovedStay == Spec => []RemovedStaysRemoved
<1>1. ServerInv => RemovedStaysRemoved
  <2> SUFFICES ASSUME FleetInv, NEW id \in Ids, standing[id] = "gone", ~Busy(id)
               PROVE  id \notin files /\ registry[id] = None
    BY DEF RemovedStaysRemoved, ServerInv
  <2>1. Emptied(registry, task, files, standing) /\ Removed(standing, id)
    BY DEF FleetInv, FleetFits, Removed
  <2>2. ~Removing(task, id) /\ ~Deleting(task, id)
    BY DEF Busy, Removing, Deleting, Doings
  <2> QED
    BY <2>1, <2>2 DEF Emptied
<1> QED
  BY <1>1, ServerInductive, PTL

(* An engine talks to the address of its miner's entry as soon as the      *)
(* scanner has registered it, whatever the requests do in between.         *)
THEOREM EnginesFollow == Spec => []EngineAtItsAddress
<1>1. ServerInv => EngineAtItsAddress
  <2> SUFFICES ASSUME FleetInv, NEW id \in Ids, registry[id] # None, roster[id] \in Ips, ~Busy(id),
                      ~(Registering("refresh") /\ scan.entry.id = id)
               PROVE  \/ object[registry[id]].ip = roster[id] \/ object[registry[id]].stray
                      \/ object[registry[id]].reads # id
    BY DEF EngineAtItsAddress, ServerInv
  <2>1. ~Removing(task, id) /\ ~Rekeying(task, id) /\ ~Telling(id)
    BY DEF Busy, Removing, Rekeying, Doings, Telling
  <2> QED
    BY <2>1 DEF FleetInv, FleetFits, Followed
<1> QED
  BY <1>1, ServerInductive, PTL

(* However often the process dies while it migrates, a miner that is up    *)
(* and was given no other id before has its files under the id of its      *)
(* entry, but for those that could not be renamed.                         *)
THEOREM FilesKept == Spec => []MigrationLosesNoFile
<1>1. ServerInv => MigrationLosesNoFile
  BY FilesFollow DEF ServerInv
<1> QED
  BY <1>1, ServerInductive, PTL
=============================================================================
