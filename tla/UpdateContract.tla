---------------------------- MODULE UpdateContract ----------------------------
(***************************************************************************)
(* What the node promises about firmware updates: it always has a firmware *)
(* that has proved itself, a newer one is tried only from there, and the   *)
(* trial ends with the newer one taking its place or with a return to it.  *)
(* Versions are ordered as ota_service.c orders them, by strcmp.           *)
(***************************************************************************)
EXTENDS Integers

CONSTANTS Versions, ShippedVersion, Broken

VARIABLES
    confirmed,   \* the version that has proved itself
    trial        \* the version on trial, 0 if there is none

vars == <<confirmed, trial>>

Init == confirmed = ShippedVersion /\ trial = 0

Try(v) ==
    /\ trial = 0
    /\ v > confirmed
    /\ trial' = v
    /\ UNCHANGED confirmed

Confirm ==
    /\ trial \notin {0} \cup Broken
    /\ confirmed' = trial
    /\ trial' = 0

RollBack ==
    /\ trial # 0
    /\ trial' = 0
    /\ UNCHANGED confirmed

Next == (\E v \in Versions : Try(v)) \/ Confirm \/ RollBack

Spec == Init /\ [][Next]_vars
===============================================================================
