----------------------------- MODULE OneRequest -----------------------------
(***************************************************************************)
(* What an in-flight flag of the page promises (custom.js: "Prevents a     *)
(* double-POST"; "prevents double-fire"): of the requests that a page      *)
(* sends with one of its buttons at most one is under way, and none        *)
(* follows one that succeeded.  Another page starts afresh.                *)
(***************************************************************************)
EXTENDS Naturals

VARIABLES
    pending,   \* requests of this page under way
    succeeded  \* one was answered with success

Init == pending = 0 /\ succeeded = FALSE

Begin ==
    /\ pending = 0 /\ ~succeeded
    /\ pending' = 1
    /\ UNCHANGED succeeded

Fail ==
    /\ pending = 1
    /\ pending' = 0
    /\ UNCHANGED succeeded

Succeed ==
    /\ pending = 1
    /\ pending' = 0
    /\ succeeded' = TRUE

NewPage == pending' = 0 /\ succeeded' = FALSE

Next == Begin \/ Fail \/ Succeed \/ NewPage

Spec == Init /\ [][Next]_<<pending, succeeded>>
=============================================================================
