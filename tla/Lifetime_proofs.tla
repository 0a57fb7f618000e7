-------------------------- MODULE Lifetime_proofs ---------------------------
(***************************************************************************)
(* Theorems about Lifetime, for every width of an integer, every length of *)
(* a second and every setting, as long as no requested duration overflows. *)
(***************************************************************************)
EXTENDS Lifetime, TLAPS

(* Every ?ttl= fits into a time.Duration. *)
NoOverflow == \A n \in Asked : n # Absent => n * Second < Half

(* A number in range is not changed by the machine's arithmetic. *)
LEMMA SignedInRange ==
    ASSUME NEW half \in Nat \ {0}, NEW x \in Nat, x < half
    PROVE  Signed(x, half) = x
<1>1. x + half \in 0 .. 2 * half - 1
  OBVIOUS
<1>2. (x + half) % (2 * half) = x + half
  BY <1>1
<1> QED
  BY <1>2 DEF Signed

(* Rounding down to a multiple of d. *)
LEMMA DivBounds ==
    ASSUME NEW d \in Nat \ {0}, NEW x \in Nat
    PROVE  /\ x \div d \in Nat
           /\ (x \div d) * d <= x /\ x < (x \div d + 1) * d
OBVIOUS

LEMMA DivMonotone ==
    ASSUME NEW d \in Nat \ {0}, NEW x \in Nat, NEW y \in Nat, x <= y
    PROVE  x \div d <= y \div d
OBVIOUS

LEMMA DivStep ==
    ASSUME NEW d \in Nat \ {0}, NEW x \in Nat
    PROVE  (x + d) \div d = x \div d + 1
OBVIOUS

-----------------------------------------------------------------------------
(* The duration handed to Save for the query n under the limit max. *)
Granted(max, n) == ResolveTTL(max, Requested(n))

LEMMA GrantedBounds ==
    ASSUME NoOverflow, NEW max \in Nat, NEW n \in Asked
    PROVE  /\ Granted(max, n) \in Nat
           /\ max # 0 => Granted(max, n) > 0 /\ Granted(max, n) <= max
           /\ n # Absent /\ n > 0 /\ (max = 0 \/ n * Second <= max)
                 => Granted(max, n) = n * Second /\ Granted(max, n) > 0
<1>1. n = Absent \/ n \in Nat
  BY Inputs
<1>2. Second \in Nat \ {0} /\ Half \in Nat \ {0}
  BY Widths
<1>3. CASE n = Absent
  BY <1>3 DEF Granted, Requested, ResolveTTL
<1>4. CASE n # Absent
  <2>1. n * Second \in Nat /\ n * Second < Half /\ (n > 0 => n * Second > 0)
    BY <1>1, <1>2, <1>4 DEF NoOverflow
  <2>2. Requested(n) = n * Second
    BY <1>2, <1>4, <2>1, SignedInRange DEF Requested, ToDuration
  <2> QED
    BY <1>1, <1>4, <2>1, <2>2 DEF Granted, ResolveTTL
<1> QED
  BY <1>3, <1>4

(* The paste's expire_at is what Save computed at its upload. *)
PasteInv ==
    /\ now \in Nat /\ limits \in Limits
    /\ paste # NoPaste =>
          /\ paste.asked \in Asked /\ paste.at \in Nat
          /\ paste.expire = Column(paste.at, Granted(limits.max, paste.asked))

LEMMA PasteInvariant == Spec => []PasteInv
<1>1. Init => PasteInv
  BY DEF Init, PasteInv
<1>2. PasteInv /\ [Next]_vars => PasteInv'
  <2> SUFFICES ASSUME PasteInv, [Next]_vars PROVE PasteInv'
    OBVIOUS
  <2>1. CASE Tick
    BY <2>1 DEF Tick, PasteInv
  <2>2. ASSUME NEW n \in Asked, Upload(n) PROVE PasteInv'
    BY <2>2 DEF Upload, PasteInv, Granted
  <2>3. CASE UNCHANGED vars
    BY <2>3 DEF vars, PasteInv
  <2> QED
    BY <2>1, <2>2, <2>3 DEF Next
<1> QED
  BY <1>1, <1>2, PTL DEF Spec

(* A paste that was granted a lifetime has an expiry, and reads compare    *)
(* whole seconds with whole seconds.                                       *)
LEMMA ColumnValue ==
    ASSUME NEW t \in Nat, NEW ttl \in Nat, ttl > 0
    PROVE  Column(t, ttl) = (t + ttl) \div Second /\ Column(t, ttl) \in Nat
<1>1. ExpireAt(t, ttl) = t + ttl /\ t + ttl \in Nat /\ t + ttl # Never
  BY DEF ExpireAt, Never
<1>2. (t + ttl) \div Second \in Nat
  BY <1>1, Widths, DivBounds
<1> QED
  BY <1>1, <1>2 DEF Column

LEMMA CappedFromInv == ASSUME NoOverflow PROVE PasteInv => Capped
<1> SUFFICES ASSUME PasteInv, paste # NoPaste, limits.max # 0
             PROVE  /\ paste.expire # Never
                    /\ now >= paste.at + limits.max => ~Readable
  BY DEF Capped
<1> DEFINE ttl == Granted(limits.max, paste.asked)
<1>1. limits.max \in Nat /\ now \in Nat /\ paste.at \in Nat
  BY Inputs DEF PasteInv
<1>2. ttl \in Nat /\ ttl > 0 /\ ttl <= limits.max
  BY <1>1, GrantedBounds DEF PasteInv
<1> HIDE DEF ttl
<1>3. paste.expire = Column(paste.at, ttl)
  BY DEF PasteInv, ttl
<1>4. paste.expire = (paste.at + ttl) \div Second /\ paste.expire \in Nat
  BY <1>1, <1>2, <1>3, ColumnValue
<1>5. ASSUME now >= paste.at + limits.max PROVE now \div Second >= paste.expire
  <2>1. paste.at + ttl \in Nat /\ paste.at + ttl <= now
    BY <1>1, <1>2, <1>5
  <2>2. (paste.at + ttl) \div Second <= now \div Second
    BY <1>1, <2>1, Widths, DivMonotone
  <2>3. now \div Second \in Nat
    BY <1>1, Widths, DivBounds
  <2> QED
    BY <1>4, <2>2, <2>3
<1> QED
  BY <1>4, <1>5 DEF Readable, ExpiredAt, Never

LEMMA HonouredFromInv == ASSUME NoOverflow PROVE PasteInv => Honoured
<1> SUFFICES ASSUME PasteInv, paste # NoPaste, paste.asked # Absent, paste.asked > 0,
                    limits.max = 0 \/ paste.asked * Second <= limits.max
             PROVE  /\ now >= paste.at + paste.asked * Second => ~Readable
                    /\ now <= paste.at + (paste.asked - 1) * Second => Readable
  BY DEF Honoured
<1> DEFINE ttl == paste.asked * Second
<1>1. /\ limits.max \in Nat /\ now \in Nat /\ paste.at \in Nat /\ paste.asked \in Asked
      /\ paste.asked \in Nat /\ Second \in Nat \ {0}
  BY Inputs, Widths DEF PasteInv
<1>2. ttl \in Nat /\ ttl > 0 /\ Granted(limits.max, paste.asked) = ttl
  BY <1>1, GrantedBounds
<1>3. (paste.asked - 1) * Second + Second = ttl
  BY <1>1
<1> HIDE DEF ttl
<1>4. paste.expire = (paste.at + ttl) \div Second /\ paste.expire \in Nat
  BY <1>1, <1>2, ColumnValue DEF PasteInv
<1>5. now \div Second \in Nat /\ (now + Second) \div Second = now \div Second + 1
  BY <1>1, DivBounds, DivStep
<1>6. now >= paste.at + ttl => now \div Second >= paste.expire
  BY <1>1, <1>2, <1>4, DivMonotone
<1>7. ASSUME now <= paste.at + (paste.asked - 1) * Second
      PROVE  now \div Second < paste.expire
  <2>1. (paste.asked - 1) * Second \in Int
    BY <1>1
  <2>2. now + Second \in Nat /\ paste.at + ttl \in Nat /\ now + Second <= paste.at + ttl
    BY <1>1, <1>2, <1>3, <1>7, <2>1
  <2>3. (now + Second) \div Second <= (paste.at + ttl) \div Second
    BY <1>1, <2>2, DivMonotone
  <2> QED
    BY <1>4, <1>5, <2>3
<1>8. Readable <=> now \div Second < paste.expire
  BY <1>4, <1>5 DEF Readable, ExpiredAt, Never
<1>9. now >= paste.at + ttl => ~Readable
  BY <1>4, <1>5, <1>6, <1>8
<1>10. now <= paste.at + (paste.asked - 1) * Second => Readable
  BY <1>7, <1>8
<1> QED
  BY <1>9, <1>10 DEF ttl

(* PASTEBIN_MAX_TTL bounds the life of every paste, whatever ?ttl= says,   *)
(* provided that no duration overflows.                                    *)
THEOREM AlwaysCapped == ASSUME NoOverflow PROVE Spec => []Capped
<1>1. PasteInv => Capped
  BY CappedFromInv
<1> QED
  BY <1>1, PasteInvariant, PTL

(* A ttl of n seconds within the limit is kept to the second.              *)
THEOREM AlwaysHonoured == ASSUME NoOverflow PROVE Spec => []Honoured
<1>1. PasteInv => Honoured
  BY HonouredFromInv
<1> QED
  BY <1>1, PasteInvariant, PTL
=============================================================================
