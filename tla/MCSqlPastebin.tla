--------------------------- MODULE MCSqlPastebin ---------------------------
(* Constants and symmetry for model checking SqlPastebin. *)
EXTENDS SqlPastebin, TLC

CONSTANTS c1, c2, c3, r1, r2, d1, s1, s2, s3, k1, k2

F(body, burn, prot, ttl) == [body |-> body, burn |-> burn, prot |-> prot, ttl |-> ttl]
C(protect, key) == [protect |-> protect, key |-> key]

(* Every way out of the handler, with and without a row; one to burn, one  *)
(* that expires.                                                           *)
UploadForms == {F("fits", "", FALSE, 0), F("fits", "false", TRUE, 1), F("fits", "true", FALSE, -1),
                F("over", "", FALSE, 0), F("empty", "", FALSE, 0)}
(* Readable once or for ever, with and without expiry, two of them protected. *)
ReadForms == {F("fits", "true", FALSE, 1), F("fits", "true", TRUE, 0),
              F("fits", "false", TRUE, 1), F("fits", "false", FALSE, 0)}
(* One to burn, one protected; both expire. *)
FleetingForms == {F("fits", "true", FALSE, 1), F("fits", "false", TRUE, 1)}

Guarded   == {C(TRUE, NoKey)}
Encrypted == {C(TRUE, k1)}
Unguarded == {C(FALSE, k1)}

(* Without the history, which no step reads while slugs are drawn again:   *)
(* what was stored, answered and found on arrival, and a paste served.     *)
Working == <<rows, now, cfg, restarts, slots, pc, loc,
             [r \in Readers |-> IF pc[r] = "decrypt" THEN got[r] ELSE NoRow]>>

Symmetric == Permutations(Creators) \cup Permutations(Readers) \cup Permutations(Slugs)
=============================================================================
