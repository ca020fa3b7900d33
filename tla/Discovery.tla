------------------------------ MODULE Discovery ------------------------------
(***************************************************************************)
(* What the scanner learns of an address: which firmware answers there,    *)
(* the first of the operator's passwords it accepts and the id its miner   *)
(* is to be registered under.                                              *)
(***************************************************************************)
EXTENDS Integers, Absent

Firmwares == {"epic", "whatsminer", "bixbit", "luxos", "braiins"}

\* The fingerprints in the order in which they are tried.
Tried == <<"epic", "whatsminer", "bixbit", "luxos", "braiins">>

Passwords == 1..2  \* SCAN_PASSWORDS, in the operator's order

\* What a probe may meet at an address: the fingerprints that match, each
\* looked for with a request of its own, and the passwords that are accepted.
Fingerprints == SUBSET Firmwares
Openings     == SUBSET Passwords

\* It also matters whether the firmware tells a MAC when it is asked for one
\* and whether the kernel's ARP table has one.  No request of a probe raises.
Answers == [speaks : Fingerprints, opens : Openings, tells : BOOLEAN, resolves : BOOLEAN]

First(S) == IF S = {} THEN None ELSE CHOOSE i \in S : \A j \in S : i <= j

\* The first fingerprint that matches decides, whatever else would match.
Firmware(a) ==
  LET matching == {i \in DOMAIN Tried : Tried[i] \in a.speaks} IN
  IF matching = {} THEN None ELSE Tried[First(matching)]

\* Before a password is known only these three are asked for their MAC.
VendorMac(a) == a.tells /\ Firmware(a) \in {"epic", "bixbit", "luxos"}

\* The miner's own MAC, else the ARP table's, else an id that is made up.
Resolved(a) == VendorMac(a) \/ a.resolves

Probe(a) == [firmware |-> Firmware(a), real |-> Resolved(a),
             password |-> IF Firmware(a) = None THEN None ELSE First(a.opens)]

\* Braiins tells its MAC once a password is known, when it is registered.
RealMac(a) ==
  LET p == Probe(a) IN p.real \/ (p.firmware = "braiins" /\ a.tells)

\* Without a password nothing is registered.  The registrations there are:
\* under a MAC, or under an id made up.
Registrations == {RealMac(a) : a \in {b \in Answers : Probe(b).password # None}}
=============================================================================
