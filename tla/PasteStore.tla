----------------------------- MODULE PasteStore -----------------------------
(***************************************************************************)
(* What the paste service promises, whatever the backend: a paste is saved *)
(* once, is there until it goes, and does not come back.  Any number of    *)
(* requests may read it while it is not one to be burned; a paste that is  *)
(* to be burned goes in the very step in which one request is handed it.   *)
(***************************************************************************)
EXTENDS Naturals

CONSTANTS Pastes, Readers

VARIABLES
    status,   \* each paste: "none" yet, "kept" or "gone"
    burning,  \* the pastes to be burned after reading
    readers   \* the requests each paste has been handed to

Init ==
    /\ status = [p \in Pastes |-> "none"]
    /\ burning = {}
    /\ readers = [p \in Pastes |-> {}]

Save(p) ==
    /\ status[p] = "none"
    /\ status' = [status EXCEPT ![p] = "kept"]
    /\ burning' \in {burning, burning \cup {p}}
    /\ UNCHANGED readers

Hand(p, r) == readers' = [readers EXCEPT ![p] = @ \cup {r}]

(* A request may return what it read just before the paste went. *)
Read(p, r) ==
    /\ p \notin burning /\ status[p] # "none"
    /\ Hand(p, r)
    /\ UNCHANGED <<status, burning>>

Burn(p, r) ==
    /\ p \in burning /\ status[p] = "kept"
    /\ status' = [status EXCEPT ![p] = "gone"]
    /\ Hand(p, r)
    /\ UNCHANGED burning

(* Expiry, deletion, or a paste lost with a reply. *)
Vanish(S) ==
    /\ \A p \in S : status[p] = "kept"
    /\ status' = [p \in Pastes |-> IF p \in S THEN "gone" ELSE status[p]]
    /\ UNCHANGED <<burning, readers>>

Next ==
    \/ \E p \in Pastes : Save(p) \/ \E r \in Readers : Read(p, r) \/ Burn(p, r)
    \/ \E S \in SUBSET Pastes : Vanish(S)

Spec == Init /\ [][Next]_<<status, burning, readers>>
=============================================================================
