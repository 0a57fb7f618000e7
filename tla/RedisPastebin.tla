--------------------------- MODULE RedisPastebin ---------------------------
(***************************************************************************)
(* The paste service over Redis: the handlers of SqlPastebin, with the     *)
(* storage calls of RedisStorage.  A paste is a hash; Save writes it in    *)
(* two pipelines, first the content (HSETNX, the gate against conflicts),  *)
(* then the flags and the expiry, and anything may run in between.         *)
(*                                                                         *)
(* rows[s] is what the fields of the hash read as, a missing flag as 0 (so *)
(* a paste without "enc" counts as not encrypted), and expire is the TTL   *)
(* of the key.  The label "insert" of a POST is here the second pipeline.  *)
(***************************************************************************)
EXTENDS SqlPastebin

CONSTANT Guess  \* may a client ask for an id nobody was told?
ASSUME RedisParameters == Guess \in BOOLEAN /\ Backend = "redis"

VARIABLE fields  \* which fields each hash has: "content", "meta" (the flags)

redisVars == <<vars, fields>>

HasContent(s) == "content" \in fields[s]
HasMeta(s)    == "meta" \in fields[s]

RedisTypeOK ==
    /\ TypeOK
    /\ fields \in [Slugs -> SUBSET {"content", "meta"}]
    /\ \A s \in Slugs : rows[s] = NoRow <=> fields[s] = {}

RedisInit == Init /\ fields = [s \in Slugs |-> {}]

(* DEL, and what Redis does to a key when its time has come. *)
Drop(S) ==
    /\ Remove(S)
    /\ fields' = [s \in Slugs |-> IF s \in S THEN {} ELSE fields[s]]

(* Save answers 201 with the id; before, only a guess hits it. *)
Announced(s) ==
    \E c \in Creators : ans[c] = "201" /\ \E p \in saves[c] : p[1] = s

-----------------------------------------------------------------------------
(* Save.                                                                   *)

(* The hash after HSETNX: flags that an earlier writer left stay. *)
WithContent(c, s) ==
    IF HasMeta(s) THEN [rows[s] EXCEPT !.content = c]
    ELSE [NewRow(c) EXCEPT !.burn = FALSE, !.prot = FALSE,
                           !.expire = Never, !.key = NoKey]

(* What the POST means the paste to be; EXPIRE counts from now. *)
Sent(c) == [NewRow(c) EXCEPT
              !.expire = ExpireAt(now, ResolveTTL(MaxTTL, loc[c].form.ttl))]

(* The hash after HSET and, for a ttl, EXPIRE. *)
(* mutant: HSET without "enc" *)
WithMetaUnflagged(c, s) ==
    [Sent(c) EXCEPT !.content = IF rows[s] = NoRow THEN c ELSE rows[s].content,
                    !.key = NoKey]
WithMeta(c, s) ==
    LET old == rows[s]
    IN  IF old = NoRow THEN Sent(c)
        ELSE [Sent(c) EXCEPT !.content = old.content,
                             !.expire = IF @ = Never THEN old.expire ELSE @]

SetContent(c, s) ==
    /\ rows' = [rows EXCEPT ![s] = WithContent(c, s)]
    /\ fields' = [fields EXCEPT ![s] = @ \cup {"content"}]
    /\ UNCHANGED <<retired, saves>>

(* mutant: HSETNX on a field that only a complete paste has *)
FreeUntilMeta(s) == ~HasMeta(s)
Free(s) == ~HasContent(s)

Gate(c) ==
    /\ pc[c] = "save"
    /\ \E s \in Slugs :
          /\ Drawable(s) /\ Free(s)
          /\ SetContent(c, s)
          /\ loc' = [loc EXCEPT ![c].slug = s]
    /\ Goto(c, "insert")
    /\ UNCHANGED <<process, slots, got, ans, wit>>

GateConflict(c) ==
    /\ pc[c] = "save"
    /\ \E s \in Slugs : Drawable(s) /\ ~Free(s)
    /\ TryAgain(c)
    /\ UNCHANGED <<store, process, got, saves, fields>>

(* No id, or no reply of the first pipeline. *)
GateFails(c) ==
    /\ pc[c] = "save" /\ Faults
    /\ \/ UNCHANGED <<rows, retired, saves, fields>>
       \/ \E s \in Slugs : Drawable(s) /\ Free(s) /\ SetContent(c, s)
    /\ Release(c, "500")
    /\ UNCHANGED <<process, got>>

SetMeta(c) ==
    LET s == loc[c].slug
    IN  /\ rows' = [rows EXCEPT ![s] = WithMeta(c, s)]
        /\ fields' = [fields EXCEPT ![s] = @ \cup {"meta"}]
        /\ saves' = [saves EXCEPT ![c] = @ \cup {<<s, Sent(c)>>}]
        /\ UNCHANGED retired

Fill(c) ==
    /\ pc[c] = "insert"
    /\ SetMeta(c)
    /\ Goto(c, "created")
    /\ UNCHANGED <<process, slots, loc, got, ans, wit>>

(* The half-written hash is left as it is. *)
FillFails(c) ==
    /\ pc[c] = "insert" /\ Faults
    /\ \/ UNCHANGED <<rows, retired, saves, fields>>
       \/ SetMeta(c)
    /\ Release(c, "500")
    /\ UNCHANGED <<process, got>>

RedisCreateStep(c) ==
    \/ (CreateGate(c) \/ CreateEncode(c) \/ CreateReply(c)) /\ UNCHANGED fields
    \/ Gate(c) \/ GateConflict(c) \/ GateFails(c) \/ Fill(c) \/ FillFails(c)

-----------------------------------------------------------------------------
(* Reading and deleting.  The TTL command that follows each HMGET serves   *)
(* the display of the expiry only.                                         *)

Look(r, row, to) ==
    /\ loc' = [loc EXCEPT ![r].seen = row]
    /\ Goto(r, to)
    /\ UNCHANGED <<store, process, slots, got, ans, saves, wit, fields>>

RedisPeekMeta(r) ==
    LET s == loc[r].slug
    IN  pc[r] = "peek" /\ Look(r, IF HasMeta(s) THEN rows[s] ELSE NoRow, "peeked")

RedisGet(r) ==
    LET s == loc[r].slug
    IN  /\ pc[r] \in {"get", "fallback"}
        /\ Look(r, IF HasContent(s) THEN rows[s] ELSE NoRow,
                IF pc[r] = "get" THEN "got" ELSE "fellback")

(* mutant: the pipeline of HGETs without the DEL *)
TakeHashKeeps(s) == UNCHANGED <<store, fields>>
TakeHash(s) == Drop({s})

RedisGetAndDelete(r) ==
    LET s == loc[r].slug
    IN  /\ pc[r] = "taking"
        /\ TakeHash(s)
        /\ Deliver(r, IF HasContent(s) THEN rows[s] ELSE NoRow)
        /\ UNCHANGED <<process, slots, saves>>

(* The reply of MULTI may be lost after the DEL. *)
RedisFetchFails(r) ==
    /\ Faults /\ pc[r] \in {"get", "fallback", "taking"}
    /\ \/ UNCHANGED <<store, fields>>
       \/ pc[r] = "taking" /\ TakeHash(loc[r].slug)
    /\ Goto(r, "failed")
    /\ UNCHANGED <<process, slots, loc, got, ans, saves, wit>>

RedisFetchStep(r) ==
    \/ RedisPeekMeta(r) \/ RedisGet(r) \/ RedisGetAndDelete(r) \/ RedisFetchFails(r)
    \/ /\ FetchDecide(r) \/ FetchGot(r) \/ FetchFellBack(r)
          \/ TakeStamp(r) \/ FetchFailed(r) \/ Decrypt(r)
       /\ UNCHANGED fields

RedisDelete(d) ==
    /\ pc[d] = "erase"
    /\ \/ Drop({loc[d].slug}) /\ Finish(d, "200")
       \/ Faults /\ UNCHANGED <<store, fields>> /\ Finish(d, "500")
       \/ Faults /\ Drop({loc[d].slug}) /\ Finish(d, "500")
    /\ UNCHANGED <<process, slots, got, saves>>

RedisDeleteStep(d) ==
    RedisPeekMeta(d) \/ RedisDelete(d) \/ (DeleteDecide(d) /\ UNCHANGED fields)

-----------------------------------------------------------------------------
(* Redis removes a key itself when its time has come; it outlives the      *)
(* process.                                                                *)
RedisTick ==
    /\ now < MaxNow
    /\ now' = now + 1
    /\ Drop({s \in Slugs : rows[s] # NoRow /\ ExpiredAt(rows[s].expire, now + 1)})
    /\ UNCHANGED <<cfg, restarts, slots, pc, loc, got, ans, saves, wit>>

RedisNext ==
    \/ \E c \in Creators : RedisCreateStep(c) \/ (CreateArrive(c) /\ UNCHANGED fields)
    \/ \E r \in Readers : RedisFetchStep(r)
    \/ \E d \in Deleters : RedisDeleteStep(d)
    \/ \E s \in Slugs :
          /\ Guess \/ Announced(s)
          /\ \/ \E r \in Readers : FetchArrive(r, s)
             \/ \E d \in Deleters : DeleteArrive(d, s)
          /\ UNCHANGED fields
    \/ RedisTick
    \/ (Restart /\ UNCHANGED fields)

RedisSpec == RedisInit /\ [][RedisNext]_redisVars

-----------------------------------------------------------------------------
(* A reader is handed a paste with the flags its POST asked for, never the *)
(* half of it that Save has written so far.                                *)
HandedAsSent ==
    \A r \in Readers : got[r] # NoRow =>
        \E p \in saves[got[r].content] :
            /\ p[2].burn = got[r].burn /\ p[2].prot = got[r].prot
            /\ p[2].key = got[r].key

(* The hash of a paste that was announced stays as its POST meant it,      *)
(* expiry included, until it goes: no other POST, failed or retried, and   *)
(* no leftover of one, shows in it.                                        *)
AnnouncedStays ==
    \A c \in Creators : ans[c] = "201" =>
        \A p \in saves[c] :
            \/ p[1] \in retired
            \/ rows[p[1]] = p[2] /\ fields[p[1]] = {"content", "meta"}
=============================================================================
