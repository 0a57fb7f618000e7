-------------------------------- MODULE Ttl --------------------------------
(***************************************************************************)
(* The lifetime arithmetic of a paste: how the number in ?ttl= and the     *)
(* operator's PASTEBIN_MAX_TTL become the lifetime handed to Storage.Save. *)
(* Operators only; the modules that use them choose the unit and the width *)
(* of an integer.                                                          *)
(***************************************************************************)
EXTENDS Integers

(* "No expiry": the nil *int64 / NULL expire_at column.  *)
Never == -1

(* x as a signed machine integer that ranges over -half .. half - 1. *)
Signed(x, half) == ((x + half) % (2 * half)) - half

(* time.Duration(n) * time.Second: the product wraps silently. *)
ToDuration(n, second, half) == Signed(n * second, half)

(* Settings.resolveTTL: 0 means "no limit" for max and "no wish" for       *)
(* requested; every other request is cut down to max.                      *)
(* mutants: the case requested = 0 is missing; the comparison is reversed  *)
ResolveTTLKeepsZero(max, requested) ==
    IF max # 0 /\ requested > max THEN max ELSE requested
ResolveTTLReversed(max, requested) ==
    IF max # 0 /\ (requested = 0 \/ requested < max) THEN max ELSE requested
ResolveTTL(max, requested) ==
    IF max # 0 /\ (requested = 0 \/ requested > max) THEN max ELSE requested

(* The expire_at column Save writes at time t: NULL unless ttl > 0. *)
ExpireAt(t, ttl) == IF ttl > 0 THEN t + ttl ELSE Never

(* The test of PeekMeta, Get and (negated) GetAndDelete. *)
ExpiredAt(expireAt, t) == expireAt # Never /\ t >= expireAt
=============================================================================
