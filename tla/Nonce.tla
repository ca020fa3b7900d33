-------------------------------- MODULE Nonce --------------------------------
(***************************************************************************)
(* The nonce every request to MiningRigRentals is signed with: drawn under *)
(* a lock, written to a file at best, floored at the clock.                *)
(* A definition X_Variant is a wrong version of X that the properties are  *)
(* tested with; no run uses it.                                            *)
(***************************************************************************)
EXTENDS Integers

CONSTANT MaxTime  \* a bound on the clock, and on the nonces drawn ahead of it

ASSUME NonceAssumption == MaxTime \in Nat

VARIABLES
  value,    \* MRRNonce._value
  file,     \* the file's nonce, 0 when there is none
  clock,    \* time.time(), in microseconds
  \* history
  highest,  \* the highest nonce ever drawn
  spoiled   \* a save has failed, or the file could not be read, since the
            \* highest was last saved

nonce == <<value, file, clock, highest, spoiled>>

NonceInit == value = 0 /\ file = 0 /\ clock \in 0..MaxTime /\ highest = 0 /\ spoiled = FALSE

NonceTypeOK ==
  /\ value \in Nat /\ file \in Nat /\ clock \in Nat /\ highest \in Nat /\ spoiled \in BOOLEAN

Next_WithoutStep == IF clock > value THEN clock ELSE value

\* max(self._value + 1, now_us)
NextNonce == IF clock > value + 1 THEN clock ELSE value + 1

\* The caller gets its nonce whether or not it could be written.
Draw ==
  /\ value < MaxTime + 1
  /\ value' = NextNonce
  /\ highest' = IF value' > highest THEN value' ELSE highest
  /\ \/ file' = value' /\ spoiled' = (spoiled /\ value' < highest)
     \/ file' = file /\ spoiled' = TRUE
  /\ UNCHANGED clock

\* A new process loads the file, or starts from 0 when it cannot.
Load ==
  /\ \/ value' = file /\ UNCHANGED spoiled
     \/ value' = 0 /\ spoiled' = TRUE
  /\ UNCHANGED <<file, clock, highest>>

\* The clock goes on, and is set back by its corrections.
ClockTicks == clock < MaxTime /\ clock' = clock + 1 /\ UNCHANGED <<value, file, highest, spoiled>>
ClockSet   == clock' \in 0..clock /\ UNCHANGED <<value, file, highest, spoiled>>

NonceNext == Draw \/ Load \/ ClockTicks \/ ClockSet

NonceSpec == NonceInit /\ [][NonceNext]_nonce
-----------------------------------------------------------------------------
(* Every nonce is above all that were drawn before it, whatever the clock  *)
(* does and however often the process restarts, unless the file was lost   *)
(* or not written and the clock stands at or behind the highest of them.   *)
NoncesGrow ==
  [][Draw => value' > highest \/ (spoiled /\ clock <= highest)]_nonce
=============================================================================
