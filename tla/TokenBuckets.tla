---------------------------- MODULE TokenBuckets ----------------------------
(***************************************************************************)
(* What rate limiting promises: one token bucket per key, for ever.  A     *)
(* bucket holds Full units at most, gains Rate units a second, and a       *)
(* request is let through if it finds Cost units, which it takes.          *)
(***************************************************************************)
EXTENDS Integers

CONSTANTS Keys, Conns, KeyOf(_), Rate, Full, Cost

VARIABLES level, answer

Init ==
    /\ level = [k \in Keys |-> Full]
    /\ answer = [c \in Conns |-> "none"]

Capped(x) == IF x > Full THEN Full ELSE x

Ask(c) ==
    IF level[KeyOf(c)] >= Cost
    THEN /\ level' = [level EXCEPT ![KeyOf(c)] = @ - Cost]
         /\ answer' = [answer EXCEPT ![c] = "ok"]
    ELSE /\ answer' = [answer EXCEPT ![c] = "429"]
         /\ UNCHANGED level

Second ==
    /\ level' = [k \in Keys |-> Capped(level[k] + Rate)]
    /\ UNCHANGED answer

Next == Second \/ \E c \in Conns : Ask(c)

Spec == Init /\ [][Next]_<<level, answer>>
=============================================================================
