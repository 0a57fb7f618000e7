---------------------------- MODULE SqlPastebin ----------------------------
(***************************************************************************)
(* The paste service over a SQL backend (SQLite or PostgreSQL): the HTTP   *)
(* handlers of internal/routes.go as concurrent request processes, each    *)
(* SQL statement of internal/storage.go as one atomic step on the table    *)
(* "pastes", the hourly cleanup, the clock and the restart of the process. *)
(* Between two statements of one request every other process may run.      *)
(*                                                                         *)
(* A paste's content is represented by the POST request that uploaded it,  *)
(* so two rows hold the same content exactly if one request stored both.   *)
(***************************************************************************)
EXTENDS Ttl, FiniteSets

CONSTANTS
    Creators, Readers, Deleters,  \* POST /, GET of a paste, DELETE requests
    Slugs,                        \* identifiers gonanoid may draw
    Keys, NoKey,                  \* server-side keys; NoKey: encryption off
    Forms,                        \* parameters a POST may carry (see Form)
    Configs,                      \* settings a (re)start may load (see Config)
    Backend,                      \* "sqlite", "postgres"; RedisPastebin: "redis"
    MaxUploads, MaxTTL, DefaultBurn,
    Reuse,        \* may a slug be drawn again after its paste has gone?
    Faults,       \* may a storage or crypto call fail?
    MaxNow,       \* bound: the clock stops here
    MaxRestarts,  \* bound: restarts of the process
    NoRow, NoSlug, NoForm

Requests == Creators \cup Readers \cup Deleters
Clients  == Readers \cup Deleters

(* body: nothing, something the limit admits, or a Content-Length over it; *)
(* a chunked body has no Content-Length and is read up to the limit, so it *)
(* always fits                                                             *)
(* ttl: the parsed number, 0 when absent, negative when it is rejected     *)
Form == [body : {"empty", "fits", "over"},
         burn : {"", "true", "false"}, prot : BOOLEAN, ttl : Int]

Config == [protect : BOOLEAN, key : Keys \cup {NoKey}]

(* One row of the table "pastes"; key stands for the column "encrypted"    *)
(* together with the key the content is encrypted under.                   *)
Row == [content : Creators, burn : BOOLEAN, prot : BOOLEAN, expire : Int,
        key : Keys \cup {NoKey}]

ASSUME Disjoint ==
    /\ Creators \cap Readers = {}
    /\ Creators \cap Deleters = {}
    /\ Readers \cap Deleters = {}
ASSUME Parameters ==
    /\ Forms \subseteq Form /\ Configs \subseteq Config
    /\ Backend \in {"sqlite", "postgres", "redis"}
    /\ MaxUploads \in Nat /\ MaxTTL \in Nat
    /\ DefaultBurn \in BOOLEAN /\ Reuse \in BOOLEAN /\ Faults \in BOOLEAN
    /\ MaxNow \in Nat /\ MaxRestarts \in Nat
ASSUME Absent ==
    NoRow \notin Row /\ NoSlug \notin Slugs /\ NoForm \notin Forms

VARIABLES
    rows,      \* the table: slug -> row or NoRow
    now,       \* wall clock, whole seconds
    cfg,       \* Settings of the running process
    restarts,  \* restarts so far
    slots,     \* len(uploadSem)
    pc,        \* where each request's goroutine is
    loc,       \* its local variables
    got,       \* the paste fetchPaste returned to a reader
    ans,       \* status code answered
    (* History, read by no code: *)
    retired,   \* slugs whose paste has left the table
    saves,     \* what each POST has stored, and where
    wit        \* a client's paste and the time when its request arrived

store   == <<rows, retired>>
process == <<now, cfg, restarts>>
vars  == <<rows, now, cfg, restarts, slots, pc, loc, got, ans,
           retired, saves, wit>>

maxSlugRetries == 3

Local   == [form : Forms \cup {NoForm}, slug : Slugs \cup {NoSlug},
            seen : Row \cup {NoRow}, stamp : Nat, tries : 0 .. maxSlugRetries - 1]
Witness == [found : Row \cup {NoRow}, since : Nat]

NoLocal   == [form |-> NoForm, slug |-> NoSlug, seen |-> NoRow,
              stamp |-> 0, tries |-> 0]
NoWitness == [found |-> NoRow, since |-> 0]

CreatorLabels == {"idle", "gate", "encode", "save", "insert", "created", "done"}
ClientLabels  == {"idle", "peek", "peeked", "get", "got", "fallback", "fellback",
                  "take", "taking", "decrypt", "failed", "erase", "done"}
Codes == {"none", "lost", "200", "201", "400", "403", "404", "413", "500", "503"}

Holding(c) == pc[c] \in {"encode", "save", "insert", "created"}

(* Where a request is and what its goroutine holds. *)
PlacesOK ==
    /\ pc \in [Requests -> CreatorLabels \cup ClientLabels]
    /\ \A c \in Creators : pc[c] \in CreatorLabels
    /\ \A r \in Clients : pc[r] \in ClientLabels
    /\ loc \in [Requests -> Local]
    /\ \A c \in Creators : pc[c] \notin {"idle", "done"} => loc[c].form \in Forms
    /\ \A r \in Clients : pc[r] \notin {"idle", "done"} => loc[r].slug \in Slugs

TableOK == rows \in [Slugs -> Row \cup {NoRow}] /\ retired \subseteq Slugs

ProcessOK == now \in Nat /\ cfg \in Configs /\ restarts \in Nat

TypeOK ==
    /\ PlacesOK /\ TableOK /\ ProcessOK
    /\ slots \in Int
    /\ got \in [Readers -> Row \cup {NoRow}]
    /\ ans \in [Requests -> Codes]
    /\ saves \in [Creators -> SUBSET (Slugs \X Row)]
    /\ wit \in [Requests -> Witness]

Init ==
    /\ rows = [s \in Slugs |-> NoRow]
    /\ now = 0 /\ restarts = 0 /\ slots = 0
    /\ cfg \in Configs
    /\ pc = [r \in Requests |-> "idle"]
    /\ loc = [r \in Requests |-> NoLocal]
    /\ got = [r \in Readers |-> NoRow]
    /\ ans = [r \in Requests |-> "none"]
    /\ retired = {}
    /\ saves = [c \in Creators |-> {}]
    /\ wit = [r \in Requests |-> NoWitness]

-----------------------------------------------------------------------------
(* Steps of a goroutine.                                                   *)

Goto(r, label) == pc' = [pc EXCEPT ![r] = label]

(* The handler returns with a status code; its locals are gone. *)
Finish(r, code) ==
    /\ Goto(r, "done")
    /\ ans' = [ans EXCEPT ![r] = code]
    /\ loc' = [loc EXCEPT ![r] = NoLocal]
    /\ wit' = [wit EXCEPT ![r] = NoWitness]

(* The same for a POST that holds an upload slot: the deferred release. *)
(* mutant: the slot is given back on success only *)
ReleaseOnSuccess(c, code) ==
    Finish(c, code) /\ slots' = IF code = "201" THEN slots - 1 ELSE slots
Release(c, code) == Finish(c, code) /\ slots' = slots - 1

(* DELETE FROM pastes WHERE id = s, for every s in S. *)
Remove(S) ==
    /\ rows' = [s \in Slugs |-> IF s \in S THEN NoRow ELSE rows[s]]
    /\ retired' = retired \cup {s \in S : rows[s] # NoRow}

Expired(row) == row # NoRow /\ ExpiredAt(row.expire, now)

(* SELECT ... WHERE id = s; PostgreSQL filters expired rows in the query. *)
SelectUnfiltered(s) == rows[s]  \* mutant: no condition on expire_at
Select(s) ==
    IF Backend = "postgres" /\ Expired(rows[s]) THEN NoRow ELSE rows[s]

(* SQLite checks the expiry itself, on the row read before. *)
(* mutant: > for >= *)
LapsedLate(r) ==
    LET row == loc[r].seen
    IN  Backend = "sqlite" /\ row # NoRow /\ row.expire # Never /\ now > row.expire
Lapsed(r) == Backend = "sqlite" /\ Expired(loc[r].seen)

-----------------------------------------------------------------------------
(* POST /                                                                  *)

(* Size check and reading of the body, before any slot is taken. *)
CreateArrive(c) ==
    /\ pc[c] = "idle"
    /\ \E f \in Forms :
          \/ f.body = "over" /\ Finish(c, "413")
          \/ f.body = "empty" /\ Finish(c, "400")
          \/ f.body # "over" /\ Faults /\ Finish(c, "500")
          \/ /\ f.body = "fits"
             /\ loc' = [loc EXCEPT ![c].form = f]
             /\ Goto(c, "gate")
             /\ UNCHANGED <<ans, wit>>
    /\ UNCHANGED <<store, process, slots, got, saves>>

(* The non-blocking send on uploadSem. *)
CreateGate(c) ==
    /\ pc[c] = "gate"
    /\ \/ /\ slots < MaxUploads
          /\ slots' = slots + 1
          /\ Goto(c, "encode")
          /\ UNCHANGED <<loc, ans, wit>>
       \/ slots >= MaxUploads /\ Finish(c, "503") /\ UNCHANGED slots
    /\ UNCHANGED <<store, process, got, saves>>

(* Encryption, then the query parameters. *)
CreateEncode(c) ==
    /\ pc[c] = "encode"
    /\ \/ cfg.key # NoKey /\ Faults /\ Release(c, "500")
       \/ loc[c].form.ttl < 0 /\ Release(c, "400")
       \/ loc[c].form.ttl >= 0 /\ Goto(c, "save") /\ UNCHANGED <<slots, loc, ans, wit>>
    /\ UNCHANGED <<store, process, got, saves>>

(* A fresh id, then Save reads the clock for expire_at before its INSERT. *)
CreateStamp(c) ==
    /\ pc[c] = "save"
    /\ \/ Faults /\ Release(c, "500")
       \/ /\ loc' = [loc EXCEPT ![c].stamp = now]
          /\ Goto(c, "insert")
          /\ UNCHANGED <<slots, ans, wit>>
    /\ UNCHANGED <<store, process, got, saves>>

(* The row a POST inserts. *)
NewRow(c) ==
    LET f == loc[c].form
    IN  [content |-> c,
         burn    |-> IF f.burn = "" THEN DefaultBurn ELSE f.burn = "true",
         prot    |-> cfg.protect /\ f.prot,
         expire  |-> ExpireAt(loc[c].stamp, ResolveTTL(MaxTTL, f.ttl)),
         key     |-> cfg.key]

(* INSERT OR IGNORE, ON CONFLICT DO NOTHING: only an id nobody holds. *)
VacantAlways(s) == TRUE  \* mutant: INSERT OR REPLACE
Vacant(s) == rows[s] = NoRow

Drawable(s) == Reuse \/ s \notin retired

Store(c, s) ==
    /\ rows' = [rows EXCEPT ![s] = NewRow(c)]
    /\ saves' = [saves EXCEPT ![c] = @ \cup {<<s, NewRow(c)>>}]
    /\ UNCHANGED retired

CreateInsert(c) ==
    /\ pc[c] = "insert"
    /\ \E s \in Slugs :
          /\ Drawable(s) /\ Vacant(s)
          /\ Store(c, s)
    /\ Goto(c, "created")
    /\ UNCHANGED <<process, slots, loc, got, ans, wit>>

(* The counter i of the retry loop. *)
NextTryStuck(c) == loc[c].tries                  \* mutant: i never advances
NextTry(c) == loc[c].tries + 1
LastTryLate(c) == loc[c].tries = maxSlugRetries  \* mutant: off by one
LastTry(c) == loc[c].tries = maxSlugRetries - 1

(* ErrSlugConflict: another id unless this was the last try. *)
TryAgain(c) ==
    \/ /\ ~LastTry(c)
       /\ loc' = [loc EXCEPT ![c].tries = NextTry(c)]
       /\ Goto(c, "save")
       /\ UNCHANGED <<slots, ans, wit>>
    \/ LastTry(c) /\ Release(c, "500")

(* mutant: a conflict is taken for success *)
CreateConflictIgnored(c) ==
    /\ pc[c] = "insert"
    /\ \E s \in Slugs : Drawable(s) /\ ~Vacant(s)
    /\ Goto(c, "created")
    /\ UNCHANGED <<store, process, slots, loc, got, ans, saves, wit>>

(* The id is taken. *)
CreateConflict(c) ==
    /\ pc[c] = "insert"
    /\ \E s \in Slugs : Drawable(s) /\ ~Vacant(s)
    /\ TryAgain(c)
    /\ UNCHANGED <<store, process, got, saves>>

(* Any other error of the INSERT.  PostgreSQL may have committed the row   *)
(* when its reply is lost.                                                 *)
CreateInsertFails(c) ==
    /\ pc[c] = "insert" /\ Faults
    /\ \/ UNCHANGED <<rows, retired, saves>>
       \/ /\ Backend = "postgres"
          /\ \E s \in Slugs : Drawable(s) /\ Vacant(s) /\ Store(c, s)
    /\ Release(c, "500")
    /\ UNCHANGED <<process, got>>

CreateReply(c) ==
    /\ pc[c] = "created"
    /\ Release(c, "201")
    /\ UNCHANGED <<store, process, got, saves>>

CreateStep(c) ==
    \/ CreateGate(c)   \/ CreateEncode(c)   \/ CreateStamp(c)
    \/ CreateInsert(c) \/ CreateConflict(c) \/ CreateInsertFails(c)
    \/ CreateReply(c)

-----------------------------------------------------------------------------
(* The SELECTs and the SQLite expiry check, shared by GET and DELETE.      *)

Arrive(r, s, label) ==
    /\ pc[r] = "idle"
    /\ loc' = [loc EXCEPT ![r] = [NoLocal EXCEPT !.slug = s]]
    /\ wit' = [wit EXCEPT ![r] = [found |-> rows[s], since |-> now]]
    /\ Goto(r, label)
    /\ UNCHANGED <<store, process, slots, got, ans, saves>>

Query(r, from, to) ==
    /\ pc[r] = from
    /\ loc' = [loc EXCEPT ![r].seen = Select(loc[r].slug)]
    /\ Goto(r, to)
    /\ UNCHANGED <<store, process, slots, got, ans, saves, wit>>

PeekMeta(r) == Query(r, "peek", "peeked")
Get(r)      == Query(r, "get", "got") \/ Query(r, "fallback", "fellback")

(* The row read has expired: it is deleted by its id, whatever the id      *)
(* holds by now, and "no such paste" is reported.  An error of the DELETE  *)
(* is ignored.                                                             *)
LazyDelete(r) ==
    /\ pc[r] \in {"peeked", "got", "fellback"} /\ Lapsed(r)
    /\ \/ Remove({loc[r].slug})
       \/ Faults /\ UNCHANGED store
    /\ loc' = [loc EXCEPT ![r].seen = NoRow]
    /\ UNCHANGED <<process, slots, pc, got, ans, saves, wit>>

(* Where the handler goes when one of its calls has returned without error. *)
Returned(r, label) == pc[r] = label /\ ~Lapsed(r)

-----------------------------------------------------------------------------
(* GET /{id}, /raw/{id}, /download/{id}: fetchPaste and decryptIfNeeded.   *)

FetchArrive(r, s) == Arrive(r, s, "peek")

(* After PeekMeta: burn pastes are taken, others read; with no metadata,   *)
(* or an error, Get decides.                                               *)
FetchDecide(r) ==
    /\ \/ /\ Returned(r, "peeked")
          /\ Goto(r, IF loc[r].seen = NoRow THEN "fallback"
                     ELSE IF loc[r].seen.burn THEN "take" ELSE "get")
       \/ pc[r] = "peek" /\ Faults /\ Goto(r, "fallback")
    /\ UNCHANGED <<store, process, slots, loc, got, ans, saves, wit>>

(* fetchPaste has its answer. *)
Deliver(r, row) ==
    IF row = NoRow THEN Finish(r, "404") /\ UNCHANGED got
    ELSE /\ got' = [got EXCEPT ![r] = row]
         /\ Goto(r, "decrypt")
         /\ UNCHANGED <<loc, ans, wit>>

(* Get after metadata that said "no burn": its row is served as it is. *)
FetchGot(r) ==
    /\ Returned(r, "got")
    /\ Deliver(r, loc[r].seen)
    /\ UNCHANGED <<store, process, slots, saves>>

(* Get without metadata: a burn paste is taken, anything else served. *)
FetchFellBack(r) ==
    /\ Returned(r, "fellback")
    /\ IF loc[r].seen # NoRow /\ loc[r].seen.burn
       THEN Goto(r, "take") /\ UNCHANGED <<loc, got, ans, wit>>
       ELSE Deliver(r, loc[r].seen)
    /\ UNCHANGED <<store, process, slots, saves>>

(* GetAndDelete: SQLite is given the clock as it was before the statement. *)
TakeStamp(r) ==
    /\ pc[r] = "take"
    /\ loc' = [loc EXCEPT ![r].stamp = now]
    /\ Goto(r, "taking")
    /\ UNCHANGED <<store, process, slots, got, ans, saves, wit>>

(* The row DELETE ... RETURNING matches, if any. *)
(* mutant: the condition on expire_at forgets IS NULL *)
TakeableUnlessForever(r) ==
    LET row == rows[loc[r].slug]
    IN  IF row # NoRow /\ row.expire > now THEN row ELSE NoRow
Takeable(r) ==
    LET row   == rows[loc[r].slug]
        clock == IF Backend = "sqlite" THEN loc[r].stamp ELSE now
    IN  IF row # NoRow /\ ~ExpiredAt(row.expire, clock) THEN row ELSE NoRow

(* What it does to the table. *)
TakeRowKeeps(r) == UNCHANGED store  \* mutant: read, but not deleted
TakeRow(r) == IF Takeable(r) = NoRow THEN UNCHANGED store ELSE Remove({loc[r].slug})

GetAndDelete(r) ==
    /\ pc[r] = "taking"
    /\ TakeRow(r)
    /\ Deliver(r, Takeable(r))
    /\ UNCHANGED <<process, slots, saves>>

(* Get or GetAndDelete fails.  PostgreSQL may have committed the DELETE    *)
(* when its reply is lost.                                                 *)
FetchFails(r) ==
    /\ Faults /\ pc[r] \in {"get", "fallback", "taking"}
    /\ \/ UNCHANGED store
       \/ pc[r] = "taking" /\ Backend = "postgres" /\ TakeRow(r)
    /\ Goto(r, "failed")
    /\ UNCHANGED <<process, slots, loc, got, ans, saves, wit>>

(* The handlers answer an error of fetchPaste like a missing paste. *)
FetchFailed(r) ==
    /\ pc[r] = "failed"
    /\ Finish(r, "404")
    /\ UNCHANGED <<store, process, slots, got, saves>>

(* Without crypto the stored bytes go out as they are; with it, a paste    *)
(* encrypted under another key does not decrypt.                           *)
Decrypt(r) ==
    /\ pc[r] = "decrypt"
    /\ Finish(r, IF got[r].key = NoKey \/ cfg.key \in {NoKey, got[r].key}
                 THEN "200" ELSE "500")
    /\ UNCHANGED <<store, process, slots, got, saves>>

FetchStep(r) ==
    \/ PeekMeta(r)    \/ Get(r)       \/ LazyDelete(r)
    \/ FetchDecide(r) \/ FetchGot(r)  \/ FetchFellBack(r)
    \/ TakeStamp(r)   \/ GetAndDelete(r)
    \/ FetchFails(r)  \/ FetchFailed(r) \/ Decrypt(r)

-----------------------------------------------------------------------------
(* DELETE /{id}                                                            *)

(* The metadata is looked at only when the feature is on. *)
DeleteArrive(d, s) == Arrive(d, s, IF cfg.protect THEN "peek" ELSE "erase")

ForbidsBurn(d) == loc[d].seen # NoRow /\ loc[d].seen.burn  \* mutant: wrong flag
Forbids(d) == loc[d].seen # NoRow /\ loc[d].seen.prot

DeleteDecide(d) ==
    /\ \/ /\ Returned(d, "peeked")
          /\ IF Forbids(d)
             THEN Finish(d, "403")
             ELSE Goto(d, "erase") /\ UNCHANGED <<loc, ans, wit>>
       \/ pc[d] = "peek" /\ Faults /\ Finish(d, "500")
    /\ UNCHANGED <<store, process, slots, got, saves>>

(* Storage.Delete; PostgreSQL may have committed when its reply is lost. *)
Delete(d) ==
    /\ pc[d] = "erase"
    /\ \/ Remove({loc[d].slug}) /\ Finish(d, "200")
       \/ Faults /\ UNCHANGED store /\ Finish(d, "500")
       \/ /\ Faults /\ Backend = "postgres"
          /\ Remove({loc[d].slug}) /\ Finish(d, "500")
    /\ UNCHANGED <<process, slots, got, saves>>

DeleteStep(d) == PeekMeta(d) \/ LazyDelete(d) \/ DeleteDecide(d) \/ Delete(d)

-----------------------------------------------------------------------------
(* The environment of the requests.                                        *)

(* The hourly DELETE ... WHERE expire_at < now of cleanupLoop. *)
(* mutant: protected pastes are left out *)
OutdatedUnprotected(s) ==
    /\ rows[s] # NoRow /\ ~rows[s].prot
    /\ rows[s].expire # Never /\ rows[s].expire < now
(* mutant: "no expiry" is compared like a time *)
OutdatedForever(s) == rows[s] # NoRow /\ rows[s].expire < now
Outdated(s) == rows[s] # NoRow /\ rows[s].expire # Never /\ rows[s].expire < now

Cleanup ==
    /\ \E s \in Slugs : Outdated(s)
    /\ Remove({s \in Slugs : Outdated(s)})
    /\ UNCHANGED <<process, slots, pc, loc, got, ans, saves, wit>>

Tick ==
    /\ now < MaxNow
    /\ now' = now + 1
    /\ UNCHANGED <<store, cfg, restarts, slots, pc, loc, got, ans, saves, wit>>

(* The process dies at any point and comes up with any of the settings:    *)
(* requests in flight are lost, the table stays.                           *)
Restart ==
    /\ restarts < MaxRestarts
    /\ restarts' = restarts + 1
    /\ cfg' \in Configs
    /\ slots' = 0
    /\ pc'  = [r \in Requests |-> IF pc[r] = "idle" THEN "idle" ELSE "done"]
    /\ ans' = [r \in Requests |-> IF pc[r] \in {"idle", "done"} THEN ans[r] ELSE "lost"]
    /\ loc' = [r \in Requests |-> NoLocal]
    /\ wit' = [r \in Requests |-> NoWitness]
    /\ UNCHANGED <<store, now, got, saves>>

Next ==
    \/ \E c \in Creators : CreateArrive(c) \/ CreateStep(c)
    \/ \E r \in Readers : FetchStep(r) \/ \E s \in Slugs : FetchArrive(r, s)
    \/ \E d \in Deleters : DeleteStep(d) \/ \E s \in Slugs : DeleteArrive(d, s)
    \/ Cleanup \/ Tick \/ Restart

Spec == Init /\ [][Next]_vars

(* A handler that was started is scheduled until it returns, and the       *)
(* cleanup loop, started with the storage, comes round again.  No client   *)
(* has to send anything, the clock may stand still, no restart has to come. *)
Fairness ==
    /\ \A c \in Creators : WF_vars(CreateStep(c))
    /\ \A r \in Readers  : WF_vars(FetchStep(r))
    /\ \A d \in Deleters : WF_vars(DeleteStep(d))
    /\ WF_vars(Cleanup)

FairSpec == Spec /\ Fairness

-----------------------------------------------------------------------------
(* Safety.                                                                 *)

(* Burn after reading: fetchPaste never returns the same burn paste to two *)
(* requests, whatever reads, deletes, cleanups and restarts interleave.    *)
(* The guard is DELETE ... RETURNING, not the burn flag PeekMeta read.     *)
BurnOnce ==
    \A r1, r2 \in Readers :
        r1 # r2 /\ got[r1] # NoRow /\ got[r2] # NoRow /\ got[r1].burn
            => got[r1].content # got[r2].content

(* uploadSem: the slots taken are exactly those of the handlers between    *)
(* the gate and their return, on every path out of handleCreatePaste; so   *)
(* none leaks and at most MaxUploads encrypt and save at a time.           *)
SlotsExact ==
    /\ slots = Cardinality({c \in Creators : Holding(c)})
    /\ slots <= MaxUploads

(* What a POST answers is what it did: 201 has stored its paste, once, in  *)
(* spite of the slug retries, and a refused upload has stored nothing.     *)
(* Behind PostgreSQL a 500 may hide a committed row.                       *)
AnswerMatchesStore ==
    \A c \in Creators :
        /\ \A p, q \in saves[c] : p = q
        /\ ans[c] = "201" => saves[c] # {}
        /\ ans[c] \in {"400", "413", "503"} => saves[c] = {}
        /\ ans[c] = "500" /\ Backend = "sqlite" => saves[c] = {}

(* A row of the table is never overwritten, and it leaves the table only   *)
(* because it has expired, because it is a burn paste that is handed to a  *)
(* reader in that step, or because a DELETE for its id is carried out.     *)
(* (SQLite: a PostgreSQL reply may be lost after the row.)                 *)
JustifiedRemoval ==
    [][\A s \in Slugs :
         rows[s] # NoRow /\ rows'[s] # rows[s] =>
            /\ rows'[s] = NoRow
            /\ \/ Expired(rows[s])
               \/ rows[s].burn /\ \E r \in Readers : got[r] = NoRow /\ got'[r] = rows[s]
               \/ \E d \in Deleters : pc[d] = "erase" /\ loc[d].slug = s]_vars

(* A protected paste leaves the table by expiry or by being read as a burn *)
(* paste; a DELETE sent once the paste was there does not remove it.       *)
ProtectedOutlives ==
    [][\A s \in Slugs :
         rows[s] # NoRow /\ rows[s].prot /\ rows'[s] # rows[s] =>
            \/ Expired(rows[s])
            \/ rows[s].burn /\ \E r \in Readers : loc[r].slug = s /\ pc[r] = "taking"
            \/ \E d \in Deleters : /\ pc[d] = "erase" /\ loc[d].slug = s
                                   /\ wit[d].found # rows[s]]_vars

(* No paste is served to a request that arrived at or after its expiry,    *)
(* although the expiry is checked against clocks read at other moments.    *)
ServedWasLive ==
    [][\A r \in Readers :
         ans[r] # "200" /\ ans'[r] = "200" =>
            ~ExpiredAt(got[r].expire, wit[r].since)]_vars

(* If no storage call failed, a reader gets 404 only if there was no paste *)
(* under the id when it arrived, or that paste has expired or is gone: the *)
(* detour by PeekMeta, Get and GetAndDelete loses no paste.                *)
NotFoundJustified ==
    [][\A r \in Readers :
         ans[r] # "404" /\ ans'[r] = "404" /\ pc[r] # "failed" =>
            \/ wit[r].found = NoRow \/ Expired(wit[r].found)
            \/ rows[loc[r].slug] # wit[r].found]_vars

(* A paste as PasteStore sees it: the paste of a POST is there from the    *)
(* moment its row was stored until no row of the table has its content.    *)
Status(c) ==
    IF saves[c] = {} THEN "none"
    ELSE IF \E s \in Slugs : rows[s] # NoRow /\ rows[s].content = c
         THEN "kept" ELSE "gone"

ReadersOf(c) == {r \in Readers : got[r] # NoRow /\ got[r].content = c}

Promise == INSTANCE PasteStore WITH
              Pastes  <- Creators,
              status  <- [c \in Creators |-> Status(c)],
              burning <- {c \in Creators : \E p \in saves[c] : p[2].burn},
              readers <- [c \in Creators |-> ReadersOf(c)]

(* The handlers and the backend together implement PasteStore: in spite of *)
(* two to four statements per request, retries, lost replies and restarts  *)
(* no paste comes back once it has gone, none changes its burn flag, and a *)
(* burn paste is handed out only by the step that removes it.              *)
KeepsPromise == Promise!Spec

-----------------------------------------------------------------------------
(* Why BurnOnce holds as long as no slug is drawn twice: an inductive      *)
(* invariant.                                                              *)

(* A POST stores at most one row, and none before its INSERT. *)
StoredOnce ==
    \A c \in Creators :
        /\ pc[c] \in {"idle", "gate", "encode", "save", "insert"} => saves[c] = {}
        /\ \A p, q \in saves[c] : p = q

(* What a slug was given stays there until the slug is retired.            *)
SlugHolds ==
    \A c \in Creators : \A p \in saves[c] :
        rows[p[1]] = p[2] \/ p[1] \in retired

(* No slug was given to two pastes. *)
SlugOnce ==
    \A c, d \in Creators : \A p \in saves[c], q \in saves[d] :
        p[1] = q[1] => p[2] = q[2]

(* Every row in the table or in the hands of a request was stored once. *)
Traced ==
    /\ \A s \in Slugs :
          rows[s] # NoRow => <<s, rows[s]>> \in saves[rows[s].content]
    /\ \A r \in Clients : loc[r].seen # NoRow =>
          <<loc[r].slug, loc[r].seen>> \in saves[loc[r].seen.content]
    /\ \A r \in Readers : got[r] # NoRow =>
          \E s \in Slugs : <<s, got[r]>> \in saves[got[r].content]

(* Only a paste that is not to be burned is on its way through Get alone. *)
GetSparesBurn ==
    \A r \in Readers :
        /\ pc[r] = "get" => loc[r].seen # NoRow
        /\ pc[r] \in {"get", "got"} /\ loc[r].seen # NoRow => ~loc[r].seen.burn

(* A burn paste that was handed out is no longer in the table. *)
Consumed ==
    \A r \in Readers : \A s \in Slugs :
        got[r] # NoRow /\ got[r].burn /\ rows[s] # NoRow
            => rows[s].content # got[r].content

(* The inductive invariant: each burn paste is in one place, the table or  *)
(* one reader's hands, and reaches a reader only by leaving the table.     *)
BurnInv ==
    /\ TypeOK /\ StoredOnce /\ SlugHolds /\ SlugOnce
    /\ Traced /\ GetSparesBurn /\ Consumed /\ BurnOnce

-----------------------------------------------------------------------------
(* Liveness, under FairSpec.                                               *)

(* Every request that was taken up is answered (or lost in a restart): no  *)
(* path through retries, fall-backs, burning, deletion and failing calls   *)
(* runs forever or gets stuck.  (A request is taken up once, so this is    *)
(* that it is never on its way for good.)                                  *)
Answered == \A r \in Requests : []<>(pc[r] \in {"idle", "done"})

(* A paste that nobody asks for leaves the table after its expiry.         *)
ExpiredGoes ==
    \A s \in Slugs :
        (rows[s] # NoRow /\ rows[s].expire # Never /\ now > rows[s].expire)
            ~> rows[s] = NoRow

=============================================================================
