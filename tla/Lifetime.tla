------------------------------ MODULE Lifetime ------------------------------
(***************************************************************************)
(* How long a paste may be read: ?ttl= of a POST, the operator's limits,   *)
(* the nanosecond arithmetic of time.Duration and the whole seconds of the *)
(* expire_at column (SQLite), on a machine whose integers have a width.    *)
(* Time and durations count ticks, Second of them in a second.             *)
(***************************************************************************)
EXTENDS Ttl

CONSTANTS
    Second,    \* ticks per second (10^9 in the code)
    Half,      \* integers range over -Half .. Half - 1 (2^63 in the code)
    Asked,     \* values of ?ttl= that parse, in seconds; Absent when missing
    Absent,
    Limits,    \* [max]: PASTEBIN_MAX_TTL in ticks, 0 when not set
    NoPaste,
    MaxNow     \* bound: the clock stops here

ASSUME Widths == Second \in Nat \ {0} /\ Half \in Nat \ {0} /\ MaxNow \in Nat
ASSUME Inputs ==
    /\ Asked \subseteq Nat \cup {Absent} /\ Absent \notin Nat
    /\ Limits \subseteq [max : Nat]

VARIABLES
    now,     \* the clock
    limits,  \* Settings of the process
    paste    \* the paste looked at: the query it came with, when, its expire_at

vars == <<now, limits, paste>>

Paste == [asked : Asked, at : Nat, expire : Int]

TypeOK ==
    /\ now \in Nat /\ limits \in Limits
    /\ paste \in Paste \cup {NoPaste}

Init ==
    /\ now = 0
    /\ limits \in Limits
    /\ paste = NoPaste

(* handleCreatePaste: an absent ttl leaves the duration at 0. *)
Requested(n) == IF n = Absent THEN 0 ELSE ToDuration(n, Second, Half)

(* Save: time.Now().Add(ttl).Unix() drops the fraction of the second. *)
Column(t, ttl) ==
    LET e == ExpireAt(t, ttl) IN IF e = Never THEN Never ELSE e \div Second

Upload(n) ==
    /\ paste = NoPaste
    /\ paste' = [asked |-> n, at |-> now,
                 expire |-> Column(now, ResolveTTL(limits.max, Requested(n)))]
    /\ UNCHANGED <<now, limits>>

Tick == now < MaxNow /\ now' = now + 1 /\ UNCHANGED <<limits, paste>>

Next == Tick \/ \E n \in Asked : Upload(n)

Spec == Init /\ [][Next]_vars

(* What PeekMeta, Get and GetAndDelete say of the paste now. *)
Readable == ~ExpiredAt(paste.expire, now \div Second)

-----------------------------------------------------------------------------
(* With PASTEBIN_MAX_TTL set no paste outlives it, whatever was asked for: *)
(* "caps user-provided TTL, used when no TTL is provided" (README.md).     *)
Capped ==
    paste # NoPaste /\ limits.max # 0 =>
        /\ paste.expire # Never
        /\ now >= paste.at + limits.max => ~Readable

(* A ttl of n seconds within the limit is kept to the second: the paste is *)
(* never readable n seconds after the upload, and always until a second    *)
(* less has passed.                                                        *)
Honoured ==
    paste # NoPaste /\ paste.asked # Absent /\ paste.asked > 0
    /\ (limits.max = 0 \/ paste.asked * Second <= limits.max) =>
        /\ now >= paste.at + paste.asked * Second => ~Readable
        /\ now <= paste.at + (paste.asked - 1) * Second => Readable
=============================================================================
