-------------------------------- MODULE Fleet --------------------------------
(***************************************************************************)
(* The fleet: the roster of miners, the registry of their engines and the  *)
(* files of their tunes, changed by the threads of the HTTP server and by  *)
(* the scanner (Scanner).  A thread holds a lock only for one step below;  *)
(* between two steps of its task the others run, and so do the workers of  *)
(* the engines, which write their files as long as they live.              *)
(* A definition X_Variant is a wrong version of X that the properties are  *)
(* tested with; no run uses it.                                            *)
(***************************************************************************)
EXTENDS Integers, FiniteSets, Absent

CONSTANTS
  Miners,   \* the MACs
  Synths,   \* the ids made up for miners whose MAC is not known
  Ips,
  Nowhere,  \* the address of an engine, or an entry, without one
  Engines,  \* the engine objects there is memory for
  Clients,  \* the HTTP threads
  Requests  \* a bound: the requests and the registrations of a run

Ids     == Miners \cup Synths
Workers == Clients \cup {"scanner"}

Objects == [mac : Ids, reads : Ids, ip : Ips \cup {Nowhere}, alive : BOOLEAN, destroyed : BOOLEAN,
            lost : BOOLEAN, stray : BOOLEAN]
Tasks   == [does : {"start", "poll", "remove", "destroy", "delete", "reset", "wipe", "renew", "partial",
                    "reflash", "drop", "rekey", "put", "rename"},
            id : Ids, engine : Engines \cup {None}, to : Ids \cup {None}]

ASSUME FleetAssumption ==
  /\ Requests \in Nat /\ Miners \cap Synths = {} /\ Nowhere \notin Ips
  /\ None \notin Engines \cup Ips \cup Objects \cup Tasks /\ None # Nowhere
  /\ "scanner" \notin Clients

VARIABLES
  roster,    \* MINER_CONFIGS: an id's address, or None
  minerIps,  \* MINER_IPS
  registry,  \* TunerManager.engines: an id's engine, or None
  object,    \* an engine's [mac, reads, ip, alive, destroyed, lost, stray], or None
  files,     \* the ids with a profile, a checkpoint or a log on the disk
  task,      \* what a thread is doing, or None
  standing,  \* history: an id is "unknown", "listed", "leaving", "gone", or
             \* "revived" when a race has brought it back
  left       \* the requests that may still come

fleet == <<roster, minerIps, registry, object, files, task, standing>>

\* The configuration and the files of an earlier process, addresses of its
\* entries included.
FleetInit ==
  /\ roster \in [Ids -> Ips \cup {None}] /\ minerIps = {roster[i] : i \in Ids} \ {None}
  /\ registry = [i \in Ids |-> None] /\ object = [e \in Engines |-> None]
  /\ files \in SUBSET {i \in Ids : roster[i] # None} /\ task = [t \in Workers |-> None]
  /\ standing = [i \in Ids |-> IF roster[i] = None THEN "unknown" ELSE "listed"]
  /\ left = Requests

FleetTypeOK ==
  /\ roster \in [Ids -> Ips \cup {Nowhere, None}] /\ minerIps \subseteq Ips
  /\ registry \in [Ids -> Engines \cup {None}]
  /\ \A i \in Ids : registry[i] # None => object[registry[i]] # None
  /\ \A e \in Engines : object[e] = None \/ object[e] \in Objects
  /\ \A t \in Workers : task[t] = None \/ task[t] \in Tasks
  /\ files \subseteq Ids /\ left \in 0..Requests
-----------------------------------------------------------------------------
(* Engines                                                                 *)

\* What no thread, task or registry refers to is garbage; so is, for what is
\* said here, what is only left to the thread of a destroyed engine.
Swept(objects, registered, tasks) ==
  [e \in Engines |->
     IF /\ objects[e] # None /\ (objects[e].alive => objects[e].destroyed)
        /\ \A i \in Ids : registered[i] # e
        /\ \A t \in Workers : tasks[t] = None \/ tasks[t].engine # e
     THEN None ELSE objects[e]]

Becomes(objects, registered, tasks) ==
  /\ registry' = registered /\ task' = tasks /\ object' = Swept(objects, registered, tasks)

\* config.ip or mac: without an entry there is no address.
New(id) == [mac |-> id, reads |-> id, alive |-> FALSE, destroyed |-> FALSE, lost |-> FALSE,
            stray |-> roster[id] \in {None, Nowhere},
            ip |-> IF roster[id] = None THEN Nowhere ELSE roster[id]]

\* An engine which the registry lets go of and nobody has destroyed.
Lose(objects, e) ==
  IF e = None THEN objects ELSE [objects EXCEPT ![e].lost = ~objects[e].destroyed]

\* An engine of an id that is not in the roster brings the id back.
Revives(id) ==
  standing' = IF roster[id] = None /\ standing[id] # "unknown"
              THEN [standing EXCEPT ![id] = "revived"] ELSE standing

\* get_engine creates the engine of whatever id it is given.
Memory    == \E e \in Engines : object[e] = None
NewEngine == CHOOSE e \in Engines : object[e] = None

Got(t, id, Then(_)) ==
  /\ IF registry[id] # None
     THEN Becomes(object, registry, [task EXCEPT ![t] = Then(registry[id])]) /\ UNCHANGED standing
     ELSE /\ Memory
          /\ Becomes([object EXCEPT ![NewEngine] = New(id)], [registry EXCEPT ![id] = NewEngine],
                     [task EXCEPT ![t] = Then(NewEngine)])
          /\ Revives(id)
  /\ UNCHANGED <<roster, minerIps, files>>

\* start(), in a request that holds the engine: also one destroyed meanwhile.
StartEngine(t) ==
  /\ task[t] # None /\ task[t].does = "start"
  /\ Becomes([object EXCEPT ![task[t].engine].alive = TRUE], registry, [task EXCEPT ![t] = None])
  /\ UNCHANGED <<roster, minerIps, files, standing>>

ThreadEnds(e) ==
  /\ object[e] # None /\ object[e].alive
  /\ Becomes([object EXCEPT ![e].alive = FALSE], registry, task)
  /\ UNCHANGED <<roster, minerIps, files, standing>>

\* save_profile, save_checkpoint and log look at _destroyed and then write;
\* one write takes less than the five seconds that a removal waits.
Save(e) ==
  /\ object[e] # None /\ object[e].alive /\ ~object[e].destroyed
  /\ files' = files \cup {object[e].mac}
  /\ standing' = IF object[e].lost THEN [standing EXCEPT ![object[e].mac] = "revived"] ELSE standing
  /\ UNCHANGED <<roster, minerIps, registry, object, task>>

Doing(does, id, e, to) == [does |-> does, id |-> id, engine |-> e, to |-> to]

At(t, does) == task[t] # None /\ task[t].does = does

Known(id) == standing[id] # "unknown"

Busy(id) == \E t \in Workers : task[t] # None /\ id \in {task[t].id, task[t].to}

\* A request for a miner: /tuner/start, and a status poll, which takes the
\* ids from the roster and gets their engines afterwards.
AskStart(t, id) == task[t] = None /\ Known(id) /\ Got(t, id, LAMBDA e : Doing("start", id, e, None))

Poll(t, id) ==
  /\ task[t] = None /\ roster[id] # None
  /\ task' = [task EXCEPT ![t] = Doing("poll", id, None, None)]
  /\ UNCHANGED <<roster, minerIps, registry, object, files, standing>>

PollEngine(t) == At(t, "poll") /\ Got(t, task[t].id, LAMBDA e : None)
-----------------------------------------------------------------------------
(* _remove_miner                                                           *)

Remove(t, id) ==
  /\ task[t] = None /\ Known(id)
  /\ roster' = [roster EXCEPT ![id] = None]
  /\ minerIps' = minerIps \ {roster[id]}
  /\ standing' = [standing EXCEPT ![id] = "leaving"]
  /\ task' = [task EXCEPT ![t] = Doing("remove", id, None, None)]
  /\ UNCHANGED <<registry, object, files>>

Popped(t, objects, next) ==
  /\ Becomes(objects, [registry EXCEPT ![task[t].id] = None],
             [task EXCEPT ![t].does = next, ![t].engine = registry[task[t].id]])
  /\ UNCHANGED <<roster, minerIps, files, standing>>

RemovePop(t) == At(t, "remove") /\ Popped(t, object, "destroy")

Destroy_Stops(t, next) ==
  /\ task' = [task EXCEPT ![t] = next]
  /\ UNCHANGED <<roster, minerIps, registry, object, files, standing>>

\* destroy, and the join, which ends with the thread or after five seconds.
Destroy(t, next) ==
  /\ Becomes(IF task[t].engine = None THEN object
             ELSE [object EXCEPT ![task[t].engine].destroyed = TRUE],
             registry, [task EXCEPT ![t] = next])
  /\ UNCHANGED <<roster, minerIps, files, standing>>

RemoveDestroy(t) == At(t, "destroy") /\ Destroy(t, [task[t] EXCEPT !.does = "delete"])

RemoveDelete(t) ==
  /\ At(t, "delete")
  /\ files' = files \ {task[t].id}
  /\ standing' = IF standing[task[t].id] = "leaving"
                 THEN [standing EXCEPT ![task[t].id] = "gone"] ELSE standing
  /\ Becomes(object, registry, [task EXCEPT ![t] = None])
  /\ UNCHANGED <<roster, minerIps>>

(* _delete_profile_for_ip: the whole tune, and parts of it                 *)

Reset(t, id) ==
  /\ task[t] = None /\ Known(id)
  /\ task' = [task EXCEPT ![t] = Doing("reset", id, registry[id], None)]
  /\ UNCHANGED <<roster, minerIps, registry, object, files, standing>>

ResetDestroy(t) == At(t, "reset") /\ Destroy(t, [task[t] EXCEPT !.does = "wipe"])

ResetDelete(t) ==
  /\ At(t, "wipe")
  /\ files' = files \ {IF task[t].engine = None THEN task[t].id ELSE object[task[t].engine].mac}
  /\ task' = [task EXCEPT ![t].does = "renew"]
  /\ UNCHANGED <<roster, minerIps, registry, object, standing>>

\* reset_engine replaces the engine if the registry has one.
ResetRenew_Always(t) ==
  LET id == task[t].id IN
  /\ At(t, "renew") /\ Memory
  /\ Becomes([Lose(object, registry[id]) EXCEPT ![NewEngine] = New(id)],
             [registry EXCEPT ![id] = NewEngine], [task EXCEPT ![t] = None])
  /\ UNCHANGED <<roster, minerIps, files, standing>>

ResetRenew(t) ==
  LET id == task[t].id IN
  /\ At(t, "renew")
  /\ IF registry[id] = None
     THEN Becomes(object, registry, [task EXCEPT ![t] = None])
     ELSE Memory /\ Becomes([Lose(object, registry[id]) EXCEPT ![NewEngine] = New(id)],
                            [registry EXCEPT ![id] = NewEngine], [task EXCEPT ![t] = None])
  /\ UNCHANGED <<roster, minerIps, files, standing>>

\* A partial reset stops and keeps the engine, and writes its checkpoint.
PartialReset(t, id) ==
  /\ task[t] = None /\ registry[id] # None
  /\ task' = [task EXCEPT ![t] = Doing("partial", id, registry[id], None)]
  /\ UNCHANGED <<roster, minerIps, registry, object, files, standing>>

PartialSave(t) ==
  /\ At(t, "partial")
  /\ LET o == object[task[t].engine] IN
     /\ files' = IF o.destroyed THEN files ELSE files \cup {o.mac}
     /\ standing' = IF o.lost THEN [standing EXCEPT ![o.mac] = "revived"] ELSE standing
  /\ Becomes(object, registry, [task EXCEPT ![t] = None])
  /\ UNCHANGED <<roster, minerIps>>

(* config_miner with another current_firmware, which also enters an id     *)
(* that is not in the roster                                               *)

Reflash(t, id) ==
  /\ task[t] = None /\ Known(id)
  /\ roster' = IF roster[id] = None THEN [roster EXCEPT ![id] = Nowhere] ELSE roster
  /\ standing' = [standing EXCEPT ![id] = "listed"]
  /\ task' = [task EXCEPT ![t] = Doing("reflash", id, None, None)]
  /\ UNCHANGED <<minerIps, registry, object, files>>

ReflashPop(t)     == At(t, "reflash") /\ Popped(t, Lose(object, registry[task[t].id]), "drop")
ReflashDestroy(t) == At(t, "drop") /\ Destroy(t, None)
-----------------------------------------------------------------------------
(* _rekey_miner: an id's entry, engine and files go to another id.  It is  *)
(* called by set_mac, by the scanner, and by whoever reads the MAC of a    *)
(* miner under a made-up id: its worker or a status poll.                  *)

Rekey(t, old, new) ==
  /\ task[t] = None /\ old # new /\ roster[old] # None /\ roster[new] = None
  /\ roster' = [roster EXCEPT ![new] = roster[old], ![old] = None]
  /\ standing' = [standing EXCEPT ![new] = "listed"]
  /\ task' = [task EXCEPT ![t] = Doing("rekey", old, None, new)]
  /\ UNCHANGED <<minerIps, registry, object, files>>

RekeyPop(t) == At(t, "rekey") /\ Popped(t, Lose(object, registry[task[t].id]), "put")

RekeyPut(t) ==
  LET new == task[t].to  e == task[t].engine IN
  /\ At(t, "put")
  /\ Becomes(IF e = None THEN object ELSE [Lose(object, registry[new]) EXCEPT ![e].mac = new, ![e].lost = FALSE],
             IF e = None THEN registry ELSE [registry EXCEPT ![new] = e],
             [task EXCEPT ![t].does = "rename", ![t].engine = None])
  /\ IF e = None THEN UNCHANGED standing ELSE Revives(new)
  /\ UNCHANGED <<roster, minerIps, files>>

RekeyRename(t) ==
  LET old == task[t].id  new == task[t].to IN
  /\ At(t, "rename")
  /\ IF old \in files THEN files' = (files \ {old}) \cup {new} /\ Revives(new)
                      ELSE UNCHANGED <<files, standing>>
  /\ task' = [task EXCEPT ![t] = None]
  /\ UNCHANGED <<roster, minerIps, registry, object>>
-----------------------------------------------------------------------------
Asked == left > 0 /\ left' = left - 1

ClientNext ==
  \E t \in Clients :
    \/ \E id \in Ids : AskStart(t, id) \/ Poll(t, id) \/ Remove(t, id) \/ Reset(t, id)
                       \/ PartialReset(t, id) \/ Reflash(t, id)
    \/ \E old \in Synths, new \in Miners : Rekey(t, old, new)

TaskNext ==
  \E t \in Workers :
    \/ StartEngine(t) \/ PollEngine(t) \/ RemovePop(t) \/ RemoveDestroy(t) \/ RemoveDelete(t)
    \/ ResetDestroy(t) \/ ResetDelete(t) \/ ResetRenew(t) \/ PartialSave(t)
    \/ ReflashPop(t) \/ ReflashDestroy(t) \/ RekeyPop(t) \/ RekeyPut(t) \/ RekeyRename(t)

FleetNext ==
  \/ ClientNext /\ Asked
  \/ (TaskNext \/ \E e \in Engines : ThreadEnds(e) \/ Save(e)) /\ UNCHANGED left
-----------------------------------------------------------------------------
(* A miner whose removal is over has no engine and no files until it is    *)
(* registered again: the threads that outlive the removal write nothing.   *)
(* Left out are the ids that a task has brought back which was half done   *)
(* when the removal began: a look-up that creates an engine for an id no   *)
(* longer in the roster, a re-keying that goes on after its new id is      *)
(* removed, and an engine replaced in the registry without being destroyed.*)
RemovedStaysRemoved ==
  \A id \in Ids :
    standing[id] = "gone" /\ ~Busy(id) => id \notin files /\ registry[id] = None
=============================================================================
