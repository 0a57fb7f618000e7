------------------------- MODULE RateLimiter_proofs -------------------------
(***************************************************************************)
(* For any connections, addresses and settings: the limiter with eviction  *)
(* answers like one bucket per key that is never thrown away, and where    *)
(* keys are hosts no host gets more than the burst and the rate.           *)
(***************************************************************************)
EXTENDS RateLimiter, TLAPS

(* Multiplication, which the SMT solver takes in small doses only. *)
LEMMA TimesRate ==
    /\ Full \in Nat /\ Rate \in Nat /\ Cost = 2
    /\ \A d \in Nat : d * Rate \in Nat /\ (d + 1) * Rate = d * Rate + Rate
    /\ \A d, e \in Nat : d >= e => d * Rate >= e * Rate
<1>1. Full \in Nat /\ Rate \in Nat /\ Cost = 2
  BY Bounds DEF Full, Rate, Cost
<1>2. \A r, d \in Nat : d * r \in Nat /\ (d + 1) * r = d * r + r
  BY SMT
<1>3. \A r, d, e \in Nat : d >= e => d * r >= e * r
  BY SMT
<1>4. QED
  BY <1>1, <1>2, <1>3

(* What a bucket offers lies between 0 and Full; a second adds Rate to it. *)
LEMMA AvailBounds ==
    ASSUME now \in Nat, NEW b \in Bucket, b.tokens <= Full, b.last <= now
    PROVE  /\ Avail(b) \in Nat /\ Avail(b) <= Full
           /\ b.last = now => Avail(b) = b.tokens
           /\ now - b.last >= Ttl - MaxStall => Avail(b) = Full
<1>1. now - b.last \in Nat /\ b.tokens \in Nat
  BY DEF Bucket
<1>2. (now - b.last) * Rate \in Nat
  BY <1>1, TimesRate
<1>3. Avail(b) \in Nat /\ Avail(b) <= Full
  BY <1>1, <1>2, TimesRate DEF Avail
<1>4. ASSUME b.last = now PROVE Avail(b) = b.tokens
  <2>1. (now - b.last) * Rate = 0
    BY <1>4, TimesRate
  <2>2. QED
    BY <1>1, <2>1, TimesRate DEF Avail
<1>5. ASSUME now - b.last >= Ttl - MaxStall PROVE Avail(b) = Full
  <2>1. Ttl - MaxStall \in Nat
    BY Bounds, Refilled
  <2>2. (now - b.last) * Rate >= (Ttl - MaxStall) * Rate
    BY <1>1, <1>5, <2>1, TimesRate
  <2>3. (Ttl - MaxStall) * Rate = Rate * (Ttl - MaxStall)
    BY <2>1, TimesRate
  <2>4. (now - b.last) * Rate >= Full
    BY <1>2, <2>1, <2>2, <2>3, TimesRate, Refilled
  <2>5. QED
    BY <1>1, <1>2, <2>4, TimesRate DEF Avail
<1>6. QED
  BY <1>3, <1>4, <1>5

-----------------------------------------------------------------------------
LEMMA KeyOfConn == ASSUME NEW c \in Conns PROVE realIP(c) \in Keys
BY DEF Keys

LEMMA EntryFields ==
    ASSUME LimiterTypes
    PROVE  /\ \A k \in Keys : entries[k] # None =>
                 entries[k].lim \in Lims /\ entries[k].seen \in Nat
           /\ \A c \in Conns : request[c] # None =>
                 request[c].lim \in Lims /\ request[c].since \in Nat
           /\ \A l \in Lims : bucket[l].tokens \in Nat /\ bucket[l].last \in Nat
BY DEF LimiterTypes, Entry, Asking, Bucket

(* What Get does, with the limiter it found or made. *)
Found(c, l) ==
    /\ \/ /\ entries[realIP(c)] = None /\ Unused(l)
          /\ bucket' = [bucket EXCEPT ![l] = [tokens |-> Full, last |-> now]]
       \/ entries[realIP(c)] # None /\ entries[realIP(c)].lim = l /\ UNCHANGED bucket
    /\ entries' = [entries EXCEPT ![realIP(c)] = [lim |-> l, seen |-> now]]
    /\ request' = [request EXCEPT ![c] = [lim |-> l, since |-> now]]
    /\ UNCHANGED <<now, answer, admitted>>

LEMMA InitInv == Init => LimiterInv
<1> SUFFICES ASSUME Init PROVE LimiterInv
  OBVIOUS
<1>1. bucket = [l \in Lims |-> [tokens |-> Full, last |-> 0]]
  BY DEF Init
<1>2. \A k \in Keys : entries[k] = None
  BY DEF Init
<1>3. \A c \in Conns : request[c] = None
  BY DEF Init
<1>4. LimiterTypes /\ WithinBurst
  BY <1>1, TimesRate DEF Init, LimiterTypes, WithinBurst, Bucket
<1>5. OwnLimiter /\ SeenWhenUsed /\ AsksMapped
  BY <1>2, <1>3, KeyOfConn DEF OwnLimiter, SeenWhenUsed, AsksMapped
<1>6. QED
  BY <1>4, <1>5 DEF LimiterInv

(* LimiterInv is inductive. *)
LEMMA GetInv == ASSUME LimiterInv, NEW c \in Conns, Get(c) PROVE LimiterInv'
<1> DEFINE k == realIP(c)
<1> USE DEF LimiterInv
<1>1. PICK l \in Lims : Found(c, l)
  BY DEF Get, Found
<1>2. k \in Keys
  BY KeyOfConn
<1>3. /\ entries' \in [Keys -> Entry \cup {None}]
      /\ entries'[k] = [lim |-> l, seen |-> now]
      /\ \A j \in Keys \ {k} : entries'[j] = entries[j]
  BY <1>1, <1>2 DEF Found, LimiterTypes, Entry
<1>4. /\ request' \in [Conns -> Asking \cup {None}]
      /\ request'[c] = [lim |-> l, since |-> now]
      /\ \A d \in Conns \ {c} : request'[d] = request[d]
  BY <1>1 DEF Found, LimiterTypes, Asking
<1>5. now' = now /\ now \in Nat
  BY <1>1 DEF Found, LimiterTypes
<1>6. /\ bucket' \in [Lims -> Bucket]
      /\ \A m \in Lims \ {l} : bucket'[m] = bucket[m]
      /\ bucket'[l].tokens <= Full /\ bucket'[l].last <= now
  BY <1>1, TimesRate DEF Found, LimiterTypes, WithinBurst, Bucket
<1>7. \A j \in Keys \ {k} : entries[j] # None => entries[j].lim # l
  BY <1>1, <1>2 DEF Found, Unused, OwnLimiter
<1>8. bucket'[l].last <= now + MaxStall
  BY <1>5, <1>6, Bounds DEF Bucket
<1>9. LimiterTypes' /\ WithinBurst'
  BY <1>1, <1>3, <1>4, <1>5, <1>6 DEF Found, LimiterTypes, WithinBurst
<1>10. OwnLimiter'
  BY <1>2, <1>3, <1>7 DEF OwnLimiter
<1>11. SeenWhenUsed'
  BY <1>2, <1>3, <1>5, <1>6, <1>7, <1>8, EntryFields DEF SeenWhenUsed
<1>12. AsksMapped'
  <2> SUFFICES ASSUME NEW d \in Conns, request'[d] # None
               PROVE  /\ entries'[realIP(d)] # None
                      /\ request'[d].lim = entries'[realIP(d)].lim
                      /\ request'[d].since <= entries'[realIP(d)].seen
                      /\ now' <= request'[d].since + MaxStall
    BY DEF AsksMapped
  <2>1. entries'[k] # None
    BY <1>1, <1>3, <1>5, NotARecord DEF Entry
  <2>2. CASE d = c
    BY <1>3, <1>4, <1>5, <2>1, <2>2, Bounds
  <2>3. CASE d # c /\ realIP(d) = k
    <3>1. /\ entries[k] # None /\ request[d].lim = entries[k].lim
          /\ request[d].since <= entries[k].seen
          /\ now <= request[d].since + MaxStall
          /\ request'[d] = request[d]
      BY <1>4, <2>3 DEF AsksMapped
    <3>2. entries[k].lim = l
      BY <1>1, <3>1 DEF Found
    <3>3. entries[k].seen <= now /\ entries[k].seen \in Nat /\ request[d].since \in Nat
      BY <1>2, <1>4, <2>3, <3>1, EntryFields DEF SeenWhenUsed
    <3>4. QED
      BY <1>3, <1>5, <2>1, <2>3, <3>1, <3>2, <3>3
  <2>4. CASE d # c /\ realIP(d) # k
    <3>1. entries'[realIP(d)] = entries[realIP(d)] /\ request'[d] = request[d]
      BY <1>3, <1>4, <2>4, KeyOfConn
    <3>2. QED
      BY <1>5, <3>1 DEF AsksMapped
  <2>5. QED
    BY <2>2, <2>3, <2>4
<1>13. QED
  BY <1>9, <1>10, <1>11, <1>12

LEMMA AllowInv == ASSUME LimiterInv, NEW c \in Conns, Allow(c) PROVE LimiterInv'
<1> DEFINE k == realIP(c)
           l == request[c].lim
           a == Avail(bucket[l])
<1> USE DEF LimiterInv
<1>1. k \in Keys /\ request[c] # None
  BY KeyOfConn DEF Allow
<1>2. entries[k] # None /\ entries[k].lim = l /\ l \in Lims
  BY <1>1, EntryFields DEF AsksMapped
<1>3. now \in Nat /\ now' = now /\ entries' = entries
  BY DEF Allow, LimiterTypes
<1>4. /\ request' \in [Conns -> Asking \cup {None}]
      /\ request'[c] = None
      /\ \A d \in Conns \ {c} : request'[d] = request[d]
  BY DEF Allow, LimiterTypes
<1>5. a \in Nat /\ a <= Full
  BY <1>2, <1>3, AvailBounds DEF LimiterTypes, WithinBurst
<1>6. /\ bucket' \in [Lims -> Bucket]
      /\ \A m \in Lims \ {l} : bucket'[m] = bucket[m]
      /\ bucket'[l] # bucket[l] =>
            bucket'[l].tokens <= Full /\ bucket'[l].last = now
  BY <1>2, <1>3, <1>5, TimesRate DEF Allow, LimiterTypes, Bucket
<1>7. Client(c) \in Hosts
  BY Addresses DEF Client, ViaProxy
<1>8. answer' \in [Conns -> {"none", "ok", "429"}] /\ admitted' \in [Hosts -> Nat]
  BY <1>7 DEF Allow, LimiterTypes
<1>9. LimiterTypes'
  BY <1>3, <1>4, <1>6, <1>8 DEF LimiterTypes
<1>10. WithinBurst'
  BY <1>2, <1>3, <1>6 DEF WithinBurst
<1>11. OwnLimiter'
  BY <1>3 DEF OwnLimiter
<1>12. AsksMapped'
  BY <1>3, <1>4 DEF AsksMapped
<1>13. SeenWhenUsed'
  <2>1. now <= entries[k].seen + MaxStall
    BY <1>1, <1>2, <1>3, EntryFields, Bounds DEF AsksMapped
  <2>2. bucket'[l].last <= entries[k].seen + MaxStall
    BY <1>1, <1>2, <1>6, <2>1 DEF SeenWhenUsed
  <2>3. \A j \in Keys : entries[j] # None =>
           bucket'[entries[j].lim].last <= entries[j].seen + MaxStall
    <3> TAKE j \in Keys
    <3> HAVE entries[j] # None
    <3>1. CASE entries[j].lim = l
      BY <1>1, <1>2, <2>2, <3>1 DEF OwnLimiter
    <3>2. CASE entries[j].lim # l
      BY <1>6, <3>2, EntryFields DEF SeenWhenUsed
    <3>3. QED
      BY <3>1, <3>2
  <2>4. QED
    BY <1>3, <2>3 DEF SeenWhenUsed
<1>14. QED
  BY <1>9, <1>10, <1>11, <1>12, <1>13

(* The entry of a request between get and Allow is not stale. *)
LEMMA AskedIsFresh ==
    ASSUME LimiterInv, NEW c \in Conns, request[c] # None
    PROVE  ~Stale(realIP(c))
<1>1. /\ entries[realIP(c)] # None /\ request[c].since <= entries[realIP(c)].seen
      /\ now <= request[c].since + MaxStall
  BY DEF LimiterInv, AsksMapped
<1>2. now \in Nat /\ entries[realIP(c)].seen \in Nat /\ request[c].since \in Nat
  BY <1>1, KeyOfConn, EntryFields DEF LimiterInv, LimiterTypes
<1>3. MaxStall <= Ttl /\ MaxStall \in Nat /\ Ttl \in Nat
  BY Bounds, Refilled
<1>4. QED
  BY <1>1, <1>2, <1>3 DEF Stale

LEMMA SweepInv == ASSUME LimiterInv, Sweep PROVE LimiterInv'
<1> USE DEF LimiterInv
<1>1. /\ entries' = [k \in Keys |-> IF Stale(k) THEN None ELSE entries[k]]
      /\ UNCHANGED <<now, bucket, request, answer, admitted>>
  BY DEF Sweep
<1>2. \A k \in Keys : entries'[k] # None => entries'[k] = entries[k]
  BY <1>1
<1>3. LimiterTypes' /\ WithinBurst'
  BY <1>1 DEF LimiterTypes, WithinBurst
<1>4. OwnLimiter'
  BY <1>2 DEF OwnLimiter
<1>5. SeenWhenUsed'
  BY <1>1, <1>2 DEF SeenWhenUsed
<1>6. \A c \in Conns : request[c] # None => entries'[realIP(c)] = entries[realIP(c)]
  BY <1>1, KeyOfConn, AskedIsFresh
<1>7. AsksMapped'
  BY <1>1, <1>6 DEF AsksMapped
<1>8. QED
  BY <1>3, <1>4, <1>5, <1>7

LEMMA TickInv == ASSUME LimiterInv, Tick PROVE LimiterInv'
<1> USE DEF LimiterInv
<1>1. /\ \A c \in Conns : request[c] # None => now - request[c].since < MaxStall
      /\ now' = now + 1 /\ now \in Nat
      /\ UNCHANGED <<entries, bucket, request, answer, admitted>>
  BY DEF Tick, LimiterTypes
<1>2. LimiterTypes'
  BY <1>1 DEF LimiterTypes
<1>3. WithinBurst'
  BY <1>1, EntryFields DEF WithinBurst
<1>4. OwnLimiter'
  BY <1>1 DEF OwnLimiter
<1>5. SeenWhenUsed'
  BY <1>1, EntryFields DEF SeenWhenUsed
<1>6. AsksMapped'
  BY <1>1, EntryFields, Bounds DEF AsksMapped
<1>7. QED
  BY <1>2, <1>3, <1>4, <1>5, <1>6

LEMMA NextInv == LimiterInv /\ [Next]_vars => LimiterInv'
<1> SUFFICES ASSUME LimiterInv, [Next]_vars PROVE LimiterInv'
  OBVIOUS
<1>1. CASE UNCHANGED vars
  BY <1>1 DEF vars, LimiterInv, LimiterTypes, WithinBurst, OwnLimiter,
              SeenWhenUsed, AsksMapped
<1>2. QED
  BY <1>1, GetInv, AllowInv, SweepInv, TickInv DEF Next

(* Requests between get and Allow always hold the limiter in the map, and  *)
(* no two keys share one: the lock need not cover Allow.                   *)
THEOREM LimiterSafe == Spec => []LimiterInv
<1>1. Init => LimiterInv
  BY InitInv
<1>2. LimiterInv /\ [Next]_vars => LimiterInv'
  BY NextInv
<1>3. QED
  BY <1>1, <1>2, PTL DEF Spec

-----------------------------------------------------------------------------
(* Avail at the next moment, for a bucket left alone. *)
LEMMA AvailNext ==
    ASSUME now \in Nat, now' = now + 1,
           NEW b \in Bucket, b.tokens <= Full, b.last <= now,
           NEW n, n = (IF b.tokens + (now' - b.last) * Rate > Full
                       THEN Full ELSE b.tokens + (now' - b.last) * Rate)
    PROVE  n = Ideal!Capped(Avail(b) + Rate)
<1>1. now - b.last \in Nat /\ b.tokens \in Nat
  BY DEF Bucket
<1>2. now' - b.last = (now - b.last) + 1
  BY DEF Bucket
<1>3. (now' - b.last) * Rate = (now - b.last) * Rate + Rate
  BY <1>1, <1>2, TimesRate
<1>4. (now - b.last) * Rate \in Nat
  BY <1>1, TimesRate
<1>5. QED
  BY <1>1, <1>3, <1>4, TimesRate DEF Avail, Ideal!Capped

LEMMA GetStutters ==
    ASSUME LimiterInv, NEW c \in Conns, Get(c)
    PROVE  \A k \in Keys : Level(k)' = Level(k)
<1> USE DEF LimiterInv
<1>1. PICK l \in Lims : Found(c, l)
  BY DEF Get, Found
<1>2. now' = now /\ now \in Nat
  BY <1>1 DEF Found, LimiterTypes
<1> SUFFICES ASSUME NEW k \in Keys PROVE Level(k)' = Level(k)
  OBVIOUS
<1>3. CASE k # realIP(c)
  <2>1. entries'[k] = entries[k]
    BY <1>1, <1>3 DEF Found, LimiterTypes
  <2>2. entries[k] # None => bucket'[entries[k].lim] = bucket[entries[k].lim]
    BY <1>1, <1>3, EntryFields DEF Found, Unused, LimiterTypes
  <2>3. QED
    BY <1>2, <2>1, <2>2 DEF Level, Avail
<1>4. CASE k = realIP(c)
  <2>1. entries'[k] = [lim |-> l, seen |-> now] /\ entries'[k] # None
    BY <1>1, <1>2, <1>4, NotARecord DEF Found, LimiterTypes, Entry
  <2>2. CASE entries[k] # None
    BY <1>1, <1>2, <1>4, <2>1, <2>2 DEF Found, Level, Avail
  <2>3. CASE entries[k] = None
    <3>1. bucket'[l] = [tokens |-> Full, last |-> now]
      BY <1>1, <1>4, <2>3 DEF Found, LimiterTypes
    <3>2. (now' - bucket'[l].last) * Rate = 0
      BY <1>2, <3>1, TimesRate
    <3>3. Avail(bucket[l])' = Full
      BY <3>1, <3>2, TimesRate DEF Avail
    <3>4. QED
      BY <2>1, <2>3, <3>3 DEF Level, Avail
  <2>4. QED
    BY <2>2, <2>3
<1>5. QED
  BY <1>3, <1>4

(* A stale entry's bucket is full. *)
LEMMA StaleIsFull ==
    ASSUME LimiterInv, NEW k \in Keys, Stale(k)
    PROVE  Level(k) = Full
<1> DEFINE b == bucket[entries[k].lim]
<1>1. entries[k] # None /\ entries[k].seen < now - Ttl
  BY DEF Stale
<1>2. b \in Bucket /\ b.tokens <= Full /\ b.last <= now
      /\ b.last \in Nat /\ entries[k].seen \in Nat /\ now \in Nat
  BY <1>1, EntryFields DEF LimiterInv, LimiterTypes, WithinBurst
<1>3. b.last <= entries[k].seen + MaxStall
  BY <1>1 DEF LimiterInv, SeenWhenUsed
<1>4. now - b.last >= Ttl - MaxStall
  BY <1>1, <1>2, <1>3, Bounds
<1>5. Avail(b) = Full
  BY <1>2, <1>4, AvailBounds
<1>6. QED
  BY <1>1, <1>5 DEF Level

LEMMA SweepStutters ==
    ASSUME LimiterInv, Sweep
    PROVE  \A k \in Keys : Level(k)' = Level(k)
<1> SUFFICES ASSUME NEW k \in Keys PROVE Level(k)' = Level(k)
  OBVIOUS
<1>1. /\ entries'[k] = IF Stale(k) THEN None ELSE entries[k]
      /\ UNCHANGED <<now, bucket>>
  BY DEF Sweep
<1>2. CASE Stale(k)
  BY <1>1, <1>2, StaleIsFull DEF Level
<1>3. CASE ~Stale(k)
  BY <1>1, <1>3 DEF Level, Avail
<1>4. QED
  BY <1>2, <1>3

(* What Allow does to the levels: it takes Cost from the level of its key. *)
LEMMA AllowTakes ==
    ASSUME LimiterInv, NEW c \in Conns, Allow(c)
    PROVE  /\ Level(realIP(c)) \in Nat
           /\ \A j \in Keys \ {realIP(c)} : Level(j)' = Level(j)
           /\ \/ /\ Level(realIP(c)) >= Cost
                 /\ Level(realIP(c))' = Level(realIP(c)) - Cost
                 /\ answer' = [answer EXCEPT ![c] = "ok"]
                 /\ admitted' = [admitted EXCEPT ![Client(c)] = @ + 1]
              \/ /\ ~(Level(realIP(c)) >= Cost)
                 /\ Level(realIP(c))' = Level(realIP(c))
                 /\ answer' = [answer EXCEPT ![c] = "429"]
                 /\ UNCHANGED admitted
<1> DEFINE k == realIP(c)
           l == request[c].lim
           a == Avail(bucket[l])
<1> USE DEF LimiterInv
<1>1. k \in Keys /\ request[c] # None
  BY KeyOfConn DEF Allow
<1>2. entries[k] # None /\ entries[k].lim = l /\ l \in Lims
  BY <1>1, EntryFields DEF AsksMapped
<1>3. now \in Nat /\ now' = now /\ entries' = entries
  BY DEF Allow, LimiterTypes
<1>4. a \in Nat /\ a <= Full
  BY <1>2, <1>3, AvailBounds DEF LimiterTypes, WithinBurst
<1>5. Level(k) = a
  BY <1>2 DEF Level
<1>6. \A j \in Keys \ {k} : entries[j] # None => entries[j].lim # l
  BY <1>1, <1>2 DEF OwnLimiter
<1>7. CASE a >= Cost
  <2>1. /\ bucket' = [bucket EXCEPT ![l] = [tokens |-> a - Cost, last |-> now]]
        /\ answer' = [answer EXCEPT ![c] = "ok"]
        /\ admitted' = [admitted EXCEPT ![Client(c)] = @ + 1]
    BY <1>4, <1>7, TimesRate DEF Allow
  <2>2. \A j \in Keys \ {k} : Level(j)' = Level(j)
    BY <1>3, <1>6, <2>1, EntryFields DEF Level, Avail, LimiterTypes
  <2>3. bucket'[l] = [tokens |-> a - Cost, last |-> now]
    BY <1>2, <2>1 DEF LimiterTypes
  <2>4. (now' - bucket'[l].last) * Rate = 0
    BY <1>3, <2>3, TimesRate
  <2>5. Level(k)' = a - Cost
    BY <1>2, <1>3, <1>4, <2>3, <2>4, TimesRate DEF Level, Avail
  <2>6. QED
    BY <1>4, <1>5, <1>7, <2>1, <2>2, <2>5
<1>8. CASE ~(a >= Cost)
  <2>1. UNCHANGED <<bucket, admitted>> /\ answer' = [answer EXCEPT ![c] = "429"]
    BY <1>4, <1>8, TimesRate DEF Allow
  <2>2. \A j \in Keys : Level(j)' = Level(j)
    BY <1>3, <2>1 DEF Level, Avail
  <2>3. QED
    BY <1>1, <1>4, <1>5, <1>8, <2>1, <2>2
<1>9. QED
  BY <1>7, <1>8

LEMMA AllowAsks ==
    ASSUME LimiterInv, NEW c \in Conns, Allow(c)
    PROVE  Ideal!Ask(c)
<1> DEFINE levels == [k \in Keys |-> Level(k)]
<1>1. realIP(c) \in Keys
  BY KeyOfConn
<1>2. CASE Level(realIP(c)) >= Cost
  <2>1. levels' = [levels EXCEPT ![realIP(c)] = @ - Cost]
    BY <1>1, <1>2, AllowTakes
  <2>2. QED
    BY <1>1, <1>2, <2>1, AllowTakes DEF Ideal!Ask
<1>3. CASE ~(Level(realIP(c)) >= Cost)
  <2>1. levels' = levels
    BY <1>1, <1>3, AllowTakes
  <2>2. QED
    BY <1>1, <1>3, <2>1, AllowTakes DEF Ideal!Ask
<1>4. QED
  BY <1>2, <1>3

LEMMA TickAdds ==
    ASSUME LimiterInv, Tick
    PROVE  \A k \in Keys : Level(k)' = Ideal!Capped(Level(k) + Rate)
<1>1. now \in Nat /\ now' = now + 1 /\ UNCHANGED <<entries, bucket>>
  BY DEF Tick, LimiterInv, LimiterTypes
<1> SUFFICES ASSUME NEW k \in Keys PROVE Level(k)' = Ideal!Capped(Level(k) + Rate)
  OBVIOUS
<1>2. CASE entries[k] = None
  BY <1>1, <1>2, TimesRate DEF Level, Ideal!Capped
<1>3. CASE entries[k] # None
  <2> DEFINE b == bucket[entries[k].lim]
  <2>1. b \in Bucket /\ b.tokens <= Full /\ b.last <= now
    BY <1>3, EntryFields DEF LimiterInv, LimiterTypes, WithinBurst
  <2>2. Level(k)' = IF b.tokens + (now' - b.last) * Rate > Full
                    THEN Full ELSE b.tokens + (now' - b.last) * Rate
    BY <1>1, <1>3 DEF Level, Avail
  <2>3. QED
    BY <1>1, <1>3, <2>1, <2>2, AvailNext DEF Level
<1>4. QED
  BY <1>2, <1>3

LEMMA TickIsSecond == ASSUME LimiterInv, Tick PROVE Ideal!Second
<1> DEFINE levels == [k \in Keys |-> Level(k)]
<1>1. levels' = [k \in Keys |-> Ideal!Capped(levels[k] + Rate)]
  BY TickAdds
<1>2. QED
  BY <1>1 DEF Ideal!Second, Tick

(* Evicting idle entries does not show: every step is one of the ideal     *)
(* buckets or changes nothing that a client could see.                     *)
THEOREM LimiterIsIdeal == Spec => LikeIdeal
<1>1. Init => Ideal!Init
  BY DEF Init, Ideal!Init, Level
<1>2. LimiterInv /\ [Next]_vars => [Ideal!Next]_<<[k \in Keys |-> Level(k)], answer>>
  <2> DEFINE levels == [k \in Keys |-> Level(k)]
  <2> SUFFICES ASSUME LimiterInv, [Next]_vars
               PROVE  Ideal!Next \/ UNCHANGED <<levels, answer>>
    OBVIOUS
  <2>1. ASSUME NEW c \in Conns, Get(c) PROVE UNCHANGED <<levels, answer>>
    <3>1. levels' = levels
      BY <2>1, GetStutters
    <3>2. QED
      BY <2>1, <3>1 DEF Get
  <2>2. ASSUME NEW c \in Conns, Allow(c) PROVE Ideal!Next
    BY <2>2, AllowAsks DEF Ideal!Next
  <2>3. CASE Sweep
    <3>1. levels' = levels
      BY <2>3, SweepStutters
    <3>2. QED
      BY <2>3, <3>1 DEF Sweep
  <2>4. CASE Tick
    BY <2>4, TickIsSecond DEF Ideal!Next
  <2>5. CASE UNCHANGED vars
    BY <2>5 DEF vars, Level, Avail
  <2>6. QED
    BY <2>1, <2>2, <2>3, <2>4, <2>5 DEF Next
<1>3. Init => LimiterInv
  BY InitInv
<1>4. LimiterInv /\ [Next]_vars => LimiterInv'
  BY NextInv
<1>5. QED
  BY <1>1, <1>2, <1>3, <1>4, PTL DEF Spec, LikeIdeal, Ideal!Spec

-----------------------------------------------------------------------------
(* The keys are the hosts: so it is when every connection comes through a  *)
(* trusted proxy that names the client.                                    *)
KeysAreHosts ==
    \A c, d \in Conns : realIP(c) = realIP(d) <=> Client(c) = Client(d)

(* What a host has had and what its bucket still holds come from the burst *)
(* and the rate.                                                           *)
HostInv ==
    /\ \A h \in Hosts : (\A c \in Conns : Client(c) # h) => admitted[h] = 0
    /\ \A c \in Conns :
          admitted[Client(c)] * Cost + Level(realIP(c)) <= Full + now * Rate

LEMMA LevelBounds ==
    ASSUME LimiterInv
    PROVE  \A k \in Keys : Level(k) \in Nat /\ Level(k) <= Full
<1> TAKE k \in Keys
<1>1. CASE entries[k] = None
  BY <1>1, TimesRate DEF Level
<1>2. CASE entries[k] # None
  BY <1>2, EntryFields, AvailBounds DEF Level, LimiterInv, LimiterTypes, WithinBurst
<1>3. QED
  BY <1>1, <1>2

LEMMA ClientIsHost == ASSUME NEW c \in Conns PROVE Client(c) \in Hosts
BY Addresses DEF Client, ViaProxy

LEMMA HostStep ==
    ASSUME KeysAreHosts, LimiterInv, HostInv, [Next]_vars
    PROVE  HostInv'
<1>1. ASSUME UNCHANGED <<now, admitted>>, \A k \in Keys : Level(k)' = Level(k)
      PROVE  HostInv'
  BY <1>1, KeyOfConn DEF HostInv
<1>2. ASSUME NEW c \in Conns, Allow(c) PROVE HostInv'
  <2>1. now' = now /\ now * Rate \in Nat
    BY <1>2, TimesRate DEF Allow, LimiterInv, LimiterTypes
  <2>2. CASE UNCHANGED admitted /\ \A k \in Keys : Level(k)' = Level(k)
    BY <1>1, <2>1, <2>2
  <2>3. CASE /\ Level(realIP(c))' = Level(realIP(c)) - Cost
             /\ admitted' = [admitted EXCEPT ![Client(c)] = @ + 1]
    <3>1. ASSUME NEW h \in Hosts, \A d \in Conns : Client(d) # h
          PROVE  admitted'[h] = 0
      BY <2>3, <3>1 DEF HostInv, LimiterInv, LimiterTypes
    <3>2. ASSUME NEW d \in Conns
          PROVE  admitted'[Client(d)] * Cost + Level(realIP(d))' <= Full + now' * Rate
      <4>1. admitted[Client(d)] * Cost + Level(realIP(d)) <= Full + now * Rate
        BY DEF HostInv
      <4>2. CASE Client(d) = Client(c)
        <5>1. realIP(d) = realIP(c)
          BY <4>2 DEF KeysAreHosts
        <5>2. admitted'[Client(d)] = admitted[Client(d)] + 1
              /\ admitted[Client(d)] \in Nat
          BY <2>3, <4>2, ClientIsHost DEF LimiterInv, LimiterTypes
        <5>3. Level(realIP(d)) \in Nat
          BY KeyOfConn, LevelBounds
        <5>4. QED
          BY <2>1, <2>3, <4>1, <5>1, <5>2, <5>3, TimesRate
      <4>3. CASE Client(d) # Client(c)
        <5>1. realIP(d) # realIP(c)
          BY <4>3 DEF KeysAreHosts
        <5>2. Level(realIP(d))' = Level(realIP(d))
          BY <1>2, <5>1, KeyOfConn, AllowTakes
        <5>3. admitted'[Client(d)] = admitted[Client(d)]
          BY <2>3, <4>3, ClientIsHost DEF LimiterInv, LimiterTypes
        <5>4. QED
          BY <2>1, <4>1, <5>2, <5>3
      <4>4. QED
        BY <4>2, <4>3
    <3>3. QED
      BY <3>1, <3>2 DEF HostInv
  <2>4. QED
    BY <1>2, <2>2, <2>3, AllowTakes
<1>3. CASE Tick
  <2>1. now \in Nat /\ now' = now + 1 /\ UNCHANGED admitted
    BY <1>3 DEF Tick, LimiterInv, LimiterTypes
  <2>2. now' * Rate = now * Rate + Rate /\ now * Rate \in Nat
    BY <2>1, TimesRate
  <2>3. ASSUME NEW c \in Conns
        PROVE  admitted[Client(c)] * Cost + Level(realIP(c))' <= Full + now' * Rate
    <3>1. Level(realIP(c))' = Ideal!Capped(Level(realIP(c)) + Rate)
      BY <1>3, KeyOfConn, TickAdds
    <3>2. Level(realIP(c)) \in Nat /\ admitted[Client(c)] \in Nat
      BY KeyOfConn, LevelBounds, ClientIsHost DEF LimiterInv, LimiterTypes
    <3>3. Level(realIP(c))' \in Nat /\ Level(realIP(c))' <= Level(realIP(c)) + Rate
      BY <3>1, <3>2, TimesRate DEF Ideal!Capped
    <3>4. admitted[Client(c)] * Cost + Level(realIP(c)) <= Full + now * Rate
      BY DEF HostInv
    <3>5. QED
      BY <2>2, <3>2, <3>3, <3>4, TimesRate
  <2>4. QED
    BY <2>1, <2>3 DEF HostInv
<1>4. ASSUME NEW c \in Conns, Get(c) PROVE HostInv'
  BY <1>1, <1>4, GetStutters DEF Get
<1>5. CASE Sweep
  BY <1>1, <1>5, SweepStutters DEF Sweep
<1>6. CASE UNCHANGED vars
  BY <1>1, <1>6 DEF vars, Level, Avail
<1>7. QED
  BY <1>2, <1>3, <1>4, <1>5, <1>6 DEF Next

(* Where keys are hosts, no host gets more requests through than the burst *)
(* and the rate allow, eviction or not.                                    *)
THEOREM HostsLimited == KeysAreHosts /\ Spec => []PerHost
<1>1. Init => HostInv
  <2> SUFFICES ASSUME Init PROVE HostInv
    OBVIOUS
  <2>1. now = 0 /\ \A h \in Hosts : admitted[h] = 0
    BY DEF Init
  <2>2. \A c \in Conns : Level(realIP(c)) = Full
    BY KeyOfConn DEF Init, Level
  <2>3. QED
    BY <2>1, <2>2, ClientIsHost, TimesRate DEF HostInv
<1>2. KeysAreHosts /\ LimiterInv /\ HostInv /\ [Next]_vars => HostInv'
  BY HostStep
<1>3. LimiterInv /\ HostInv => PerHost
  <2> SUFFICES ASSUME LimiterInv, HostInv, NEW h \in Hosts
               PROVE  admitted[h] * Cost <= Full + now * Rate
    BY DEF PerHost
  <2>1. now * Rate \in Nat /\ admitted[h] \in Nat
    BY TimesRate DEF LimiterInv, LimiterTypes
  <2>2. CASE \A c \in Conns : Client(c) # h
    BY <2>1, <2>2, TimesRate DEF HostInv
  <2>3. CASE \E c \in Conns : Client(c) = h
    <3>1. PICK c \in Conns : Client(c) = h
      BY <2>3
    <3>2. Level(realIP(c)) \in Nat
      BY KeyOfConn, LevelBounds
    <3>3. QED
      BY <2>1, <3>1, <3>2, TimesRate DEF HostInv
  <2>4. QED
    BY <2>2, <2>3
<1>4. KeysAreHosts => []KeysAreHosts
  <2>1. KeysAreHosts => KeysAreHosts'
    BY DEF KeysAreHosts, realIP, Client, ViaProxy
  <2>2. QED
    BY <2>1, PTL
<1>5. QED
  BY <1>1, <1>2, <1>3, <1>4, LimiterSafe, PTL DEF Spec
=============================================================================
