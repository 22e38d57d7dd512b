---------------------------- MODULE ChangeControl ----------------------------
(***************************************************************************)
(* What SWE-Forge promises about a change, whatever the graph inside looks *)
(* like: the change is drafted once, altered afterwards only by one of a   *)
(* bounded number of repairs, and delivered only in a version that was     *)
(* checked and found green; everything else is handed to a human.          *)
(***************************************************************************)
EXTENDS Integers

CONSTANT MaxRepairs

VARIABLES
    change,    \* version of the change; 0 is the untouched repository
    repairs,   \* repair attempts spent
    verified,  \* the last check was green and the change is as it was checked
    outcome    \* "open", "delivered" or "held"

vars == <<change, repairs, verified, outcome>>

Init ==
    /\ change = 0
    /\ repairs = 0
    /\ verified = FALSE
    /\ outcome = "open"

Draft ==
    /\ outcome = "open" /\ change = 0 /\ repairs = 0 /\ ~verified
    /\ change' = 1
    /\ UNCHANGED <<repairs, verified, outcome>>

Check ==
    /\ outcome = "open"
    /\ verified' \in BOOLEAN
    /\ UNCHANGED <<change, repairs, outcome>>

Repair ==
    /\ outcome = "open" /\ repairs < MaxRepairs
    /\ repairs' = repairs + 1
    /\ \/ UNCHANGED <<change, verified>>
       \/ change' = change + 1 /\ verified' = FALSE
    /\ UNCHANGED outcome

Deliver ==
    /\ outcome = "open" /\ verified
    /\ outcome' = "delivered"
    /\ UNCHANGED <<change, repairs, verified>>

HandOver ==
    /\ outcome = "open"
    /\ outcome' = "held"
    /\ UNCHANGED <<change, repairs, verified>>

Next == Draft \/ Check \/ Repair \/ Deliver \/ HandOver

Spec == Init /\ [][Next]_vars
=============================================================================
