-------------------------------- MODULE Tuner --------------------------------
(***************************************************************************)
(* What the three strategies have in common, seen from outside: a tuner    *)
(* that learns about operating points, chooses among those it knows, and   *)
(* holds its choice until it searches again.                               *)
(***************************************************************************)
VARIABLES
  mode,    \* "off", "search", "hold"
  known,   \* the points that have been measured
  choice   \* the points chosen to run at

tuner == <<mode, known, choice>>

Init == mode = "off" /\ known = {} /\ choice = {}

Begin ==
  /\ mode = "off" /\ mode' = "search"
  /\ UNCHANGED <<known, choice>>

\* One point at a time, and none is forgotten.
Learn ==
  /\ mode = "search" /\ mode' = "search"
  /\ known' = known \/ \E p \in known' : known' = known \cup {p}
  /\ UNCHANGED choice

\* A search may choose before it is over, and a stop may find it choosing.
Choose ==
  /\ mode = "search" /\ mode' \in {"search", "hold", "off"}
  /\ choice' \in SUBSET known
  /\ UNCHANGED known

\* Neither another choice nor a new point.
Hold ==
  /\ mode = "hold" /\ mode' \in {"search", "hold", "off"}
  /\ UNCHANGED <<known, choice>>

\* What is on disk may be old, but a choice never comes without its point.
Crash ==
  /\ mode # "off" /\ mode' = "off"
  /\ known' \in SUBSET known /\ choice' \in SUBSET known'

Next == Begin \/ Learn \/ Choose \/ Hold \/ Crash

Spec == Init /\ [][Next]_tuner
=============================================================================
