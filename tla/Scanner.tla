------------------------------- MODULE Scanner -------------------------------
(***************************************************************************)
(* The scanner: it probes the addresses that are not in MINER_IPS and      *)
(* registers the miners it finds, also those that have moved.  The requests*)
(* of the HTTP server go on meanwhile (Fleet).                             *)
(* A definition X_Variant is a wrong version of X that the properties are  *)
(* tested with; no run uses it.                                            *)
(***************************************************************************)
EXTENDS Fleet, Discovery

Entries == [ip : Ips, id : Ids, prior : Ips \cup {Nowhere, None}, step : {"rekey", "refresh", "engine"},
            old : SUBSET Synths]
Scans   == [skip : SUBSET Ips, entry : Entries \cup {None}]

ASSUME ScannerAssumption == None \notin Entries \cup Scans

VARIABLE scan  \* the cycle under way: [skip, entry], or None

ScannerInit == FleetInit /\ scan = None

ScannerTypeOK == scan = None \/ scan \in Scans

\* The operator edits MINER_IPS.
ForgetIp(ip) ==
  /\ ip \in minerIps /\ minerIps' = minerIps \ {ip}
  /\ UNCHANGED <<roster, registry, object, files, task, standing, scan>>
-----------------------------------------------------------------------------
(* _scan_cycle                                                             *)

\* One look at the configuration; the addresses that are known now are not
\* probed in this cycle.
StartScan == scan = None /\ scan' = [skip |-> minerIps, entry |-> None] /\ UNCHANGED fleet

\* The cycle ends; the addresses not registered had no miner, or are outside
\* the ranges or on the blacklist, or told no password or firmware.
EndScan == scan # None /\ scan.entry = None /\ scan' = None /\ UNCHANGED fleet

(* _register_locked                                                        *)

\* A probe has found a miner, and its MAC, or an id has been made up, which
\* is a new one.  The made-up ids that have the address are noted.
Register(ip, id) ==
  /\ scan # None /\ scan.entry = None /\ ip \notin scan.skip
  /\ \E real \in Registrations : IF real THEN id \in Miners ELSE id \in Synths /\ ~Known(id)
  /\ scan' = [skip |-> scan.skip \cup {ip},
              entry |-> [ip |-> ip, id |-> id, prior |-> None, step |-> "rekey",
                         old |-> IF id \in Synths THEN {} ELSE {s \in Synths : roster[s] = ip}]]
  /\ UNCHANGED fleet

Registering(step) == scan # None /\ scan.entry # None /\ scan.entry.step = step

\* Each of them is re-keyed, unless it or the MAC has changed meanwhile.
RekeySynth(s) ==
  /\ Registering("rekey") /\ s \in scan.entry.old /\ task["scanner"] = None
  /\ scan' = [scan EXCEPT !.entry.old = @ \ {s}]
  /\ \/ Rekey("scanner", s, scan.entry.id)
     \/ (roster[s] = None \/ roster[scan.entry.id] # None) /\ UNCHANGED fleet

RegisterEntry ==
  LET r == scan.entry IN
  /\ Registering("rekey") /\ r.old = {} /\ task["scanner"] = None
  /\ roster' = [roster EXCEPT ![r.id] = r.ip]
  /\ minerIps' = minerIps \cup {r.ip}
  /\ standing' = [standing EXCEPT ![r.id] = "listed"]
  /\ scan' = [scan EXCEPT !.entry.step = "refresh", !.entry.prior = roster[r.id]]
  /\ UNCHANGED <<registry, object, files, task>>

RefreshIp_First ==
  /\ Registering("refresh")
  /\ scan' = [scan EXCEPT !.entry.step = "engine"]
  /\ UNCHANGED fleet

\* refresh_engine_ip, when the entry had another address
RefreshIp ==
  LET r == scan.entry  e == registry[r.id] IN
  /\ Registering("refresh")
  /\ scan' = [scan EXCEPT !.entry.step = "engine"]
  /\ object' = IF r.prior \in {None, Nowhere, r.ip} \/ e = None THEN object
               ELSE [object EXCEPT ![e].ip = r.ip, ![e].stray = @ \/ roster[r.id] # r.ip]
  /\ UNCHANGED <<roster, minerIps, registry, files, task, standing>>

RegisterEngine ==
  /\ Registering("engine")
  /\ Got("scanner", scan.entry.id, LAMBDA e : None)
  /\ scan' = [scan EXCEPT !.entry = None]

ScannerNext ==
  \/ FleetNext /\ UNCHANGED scan
  \/ Asked /\ \E ip \in Ips : ForgetIp(ip) \/ \E id \in Ids : Register(ip, id)
  \/ /\ \/ StartScan \/ EndScan
        \/ \E s \in Synths : RekeySynth(s)
        \/ RegisterEntry \/ RefreshIp \/ RegisterEngine
     /\ UNCHANGED left

ScannerSpec == ScannerInit /\ [][ScannerNext]_<<fleet, scan, left>>
-----------------------------------------------------------------------------
(* An engine talks to the address its miner's entry has, as soon as the    *)
(* scanner has registered the new address, whatever the requests do in     *)
(* between.  Left out are an engine created for an id without an entry     *)
(* or an address, and one that was re-keyed, which goes on reading the     *)
(* settings of its old id: no registration puts these right.               *)
EngineAtItsAddress ==
  \A id \in Ids :
    LET e == registry[id] IN
    /\ e # None /\ roster[id] \in Ips /\ ~Busy(id)
    /\ ~(Registering("refresh") /\ scan.entry.id = id)
    => object[e].ip = roster[id] \/ object[e].stray \/ object[e].reads # id
=============================================================================
