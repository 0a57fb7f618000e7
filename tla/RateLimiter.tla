---------------------------- MODULE RateLimiter ----------------------------
(***************************************************************************)
(* The per-IP rate limiter of internal/middleware.go: a map from client    *)
(* address to a token bucket, whose idle entries a background goroutine    *)
(* evicts.  A process is a connection, which sends one request after the   *)
(* other.  A request looks its bucket up under the mutex (get) and asks it *)
(* later (Allow); others, the eviction too, may run in between.            *)
(*                                                                         *)
(* Tokens are counted in halves, time in seconds.                          *)
(***************************************************************************)
EXTENDS Integers

CONSTANTS
    Conns,               \* client connections, each with a port of its own
    Hosts,               \* IP addresses
    Peer,                \* the address each connection comes from
    XForwardedFor,       \* the left-most X-Forwarded-For address, or NoHeader
    NoHeader,
    TrustedProxy,        \* addresses whose header is believed
    MaxParallelUploads,  \* the setting the limits are derived from
    Ttl,                 \* seconds an entry may be idle (300 in the code)
    Lims,                \* names for the rate.Limiter objects in memory
    None,                \* no entry, no request
    MaxStall,  \* bound: seconds a request is held up between get and Allow
    MaxNow     \* bound: the clock stops here

ASSUME Addresses ==
    /\ Peer \in [Conns -> Hosts]
    /\ XForwardedFor \in [Conns -> Hosts \cup {NoHeader}]
    /\ NoHeader \notin Hosts /\ TrustedProxy \subseteq Hosts
ASSUME Bounds ==
    MaxParallelUploads \in Nat /\ Ttl \in Nat /\ MaxStall \in Nat /\ MaxNow \in Nat

(* computeLimiterParams: N tokens, N/2 a second but at least one. *)
Cost == 2
Full == 2 * MaxParallelUploads
Rate == IF MaxParallelUploads < 2 THEN 2 ELSE MaxParallelUploads

(* An idle entry's bucket has filled up before it is evicted. *)
ASSUME Refilled == MaxStall <= Ttl /\ Rate * (Ttl - MaxStall) >= Full

ViaProxy(c) == Peer[c] \in TrustedProxy /\ XForwardedFor[c] # NoHeader

(* The key of the map: an address from the header, or host and port.      *)
realIP(c) == IF ViaProxy(c) THEN <<XForwardedFor[c]>> ELSE <<Peer[c], c>>
Keys == {realIP(c) : c \in Conns}

(* Whose request it is. *)
Client(c) == IF ViaProxy(c) THEN XForwardedFor[c] ELSE Peer[c]

Entry  == [lim : Lims, seen : Nat]
Bucket == [tokens : Nat, last : Nat]
Asking == [lim : Lims, since : Nat]
ASSUME NotARecord == None \notin Entry \cup Asking

VARIABLES
    now,
    entries,  \* key -> entry of the map or None
    bucket,   \* the rate.Limiter objects
    request,  \* between get and Allow: its limiter, and when it looked that up
    answer,   \* the verdict on a connection's last request
    admitted  \* history: requests of each host let through so far

vars == <<now, entries, bucket, request, answer, admitted>>

Init ==
    /\ now = 0
    /\ entries = [k \in Keys |-> None]
    /\ bucket \in [Lims -> {[tokens |-> Full, last |-> 0]}]
    /\ request = [c \in Conns |-> None]
    /\ answer = [c \in Conns |-> "none"]
    /\ admitted = [h \in Hosts |-> 0]

(* Not in the map, and no request has a reference to it. *)
Unused(l) ==
    /\ \A k \in Keys : entries[k] # None => entries[k].lim # l
    /\ \A c \in Conns : request[c] # None => request[c].lim # l

(* The map is locked for the whole of get. *)
Get(c) ==
    LET k == realIP(c)
    IN  /\ request[c] = None
        /\ \E l \in Lims :
              /\ \/ entries[k] = None /\ Unused(l)
                    /\ bucket' = [bucket EXCEPT ![l] = [tokens |-> Full, last |-> now]]
                 \/ entries[k] # None /\ entries[k].lim = l
                    /\ UNCHANGED bucket
              /\ entries' = [entries EXCEPT ![k] = [lim |-> l, seen |-> now]]
              /\ request' = [request EXCEPT ![c] = [lim |-> l, since |-> now]]
        /\ UNCHANGED <<now, answer, admitted>>

(* rate.Limiter: what has come in since the last token was taken. *)
AvailUncapped(b) == b.tokens + (now - b.last) * Rate  \* mutant: no burst
Avail(b) ==
    LET x == b.tokens + (now - b.last) * Rate IN IF x > Full THEN Full ELSE x

(* Allow, then 429 or the handler. *)
Allow(c) ==
    LET l == request[c].lim
        a == Avail(bucket[l])
    IN  /\ request[c] # None
        /\ \/ /\ a >= Cost
              /\ bucket' = [bucket EXCEPT ![l] = [tokens |-> a - Cost, last |-> now]]
              /\ answer' = [answer EXCEPT ![c] = "ok"]
              /\ admitted' = [admitted EXCEPT ![Client(c)] = @ + 1]
           \/ /\ a < Cost
              /\ answer' = [answer EXCEPT ![c] = "429"]
              /\ UNCHANGED <<bucket, admitted>>
        /\ request' = [request EXCEPT ![c] = None]
        /\ UNCHANGED <<now, entries>>

(* Idle for more than Ttl. *)
StaleEarly(k) == entries[k] # None /\ entries[k].seen < now  \* mutant: cutoff is now
Stale(k) == entries[k] # None /\ entries[k].seen < now - Ttl

(* cleanupLoop, at some of the ticks of its ticker. *)
Sweep ==
    /\ \E k \in Keys : Stale(k)
    /\ entries' = [k \in Keys |-> IF Stale(k) THEN None ELSE entries[k]]
    /\ UNCHANGED <<now, bucket, request, answer, admitted>>

Tick ==
    /\ now < MaxNow
    /\ \A c \in Conns : request[c] # None => now - request[c].since < MaxStall
    /\ now' = now + 1
    /\ UNCHANGED <<entries, bucket, request, answer, admitted>>

Next == (\E c \in Conns : Get(c) \/ Allow(c)) \/ Sweep \/ Tick

Spec == Init /\ [][Next]_vars

-----------------------------------------------------------------------------
(* The level of the bucket that a request with key k would find. *)
Level(k) == IF entries[k] = None THEN Full ELSE Avail(bucket[entries[k].lim])

Ideal == INSTANCE TokenBuckets WITH
            KeyOf <- realIP, level <- [k \in Keys |-> Level(k)]

(* Eviction does not show: the limiter answers like one bucket per key     *)
(* that is never thrown away.  A bucket is forgotten only when it is full, *)
(* and no request still asks a forgotten one.                              *)
LikeIdeal == Ideal!Spec

(* "one token-bucket limiter per remote IP" (middleware.go): in the first  *)
(* t seconds a host gets the burst and t seconds of rate, no more.         *)
PerHost == \A h \in Hosts : admitted[h] * Cost <= Full + now * Rate

LimiterTypes ==
    /\ now \in Nat
    /\ entries \in [Keys -> Entry \cup {None}]
    /\ bucket \in [Lims -> Bucket]
    /\ request \in [Conns -> Asking \cup {None}]
    /\ answer \in [Conns -> {"none", "ok", "429"}]
    /\ admitted \in [Hosts -> Nat]

(* No bucket is over-full or used in the future. *)
WithinBurst == \A l \in Lims : bucket[l].tokens <= Full /\ bucket[l].last <= now

(* No two keys share a limiter. *)
OwnLimiter ==
    \A j, k \in Keys :
        entries[j] # None /\ entries[k] # None /\ entries[j].lim = entries[k].lim
            => j = k

(* A limiter was last used not much later than its entry was last seen. *)
SeenWhenUsed ==
    \A k \in Keys : entries[k] # None =>
        /\ entries[k].seen <= now
        /\ bucket[entries[k].lim].last <= entries[k].seen + MaxStall

(* A request between get and Allow holds the limiter that is in the map.   *)
AsksMapped ==
    \A c \in Conns : request[c] # None =>
        /\ entries[realIP(c)] # None
        /\ request[c].lim = entries[realIP(c)].lim
        /\ request[c].since <= entries[realIP(c)].seen
        /\ now <= request[c].since + MaxStall

(* The inductive invariant behind LikeIdeal: get, Allow and the eviction   *)
(* of cleanupLoop never leave a request with a limiter of another key or   *)
(* with one that has been forgotten.                                       *)
LimiterInv ==
    LimiterTypes /\ WithinBurst /\ OwnLimiter /\ SeenWhenUsed /\ AsksMapped
=============================================================================
