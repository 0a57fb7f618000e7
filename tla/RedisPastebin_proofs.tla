------------------------ MODULE RedisPastebin_proofs ------------------------
(***************************************************************************)
(* Theorems about RedisPastebin, for every number of requests, slugs and   *)
(* settings and every form.                                                *)
(***************************************************************************)
EXTENDS RedisPastebin, SqlPastebin_proofs

-----------------------------------------------------------------------------
(* Type correctness.                                                       *)

(* Only an id that was drawn is written to. *)
Placed == \A c \in Creators : pc[c] = "insert" => loc[c].slug \in Slugs

RedisTypeInv == RedisTypeOK /\ Placed

LEMMA RedisTypeInit == RedisInit => RedisTypeInv
<1> SUFFICES ASSUME RedisInit PROVE RedisTypeInv
  OBVIOUS
<1>1. TypeOK /\ Init
  BY TypeInit DEF RedisInit
<1>2. Placed
  BY <1>1, ClientsCreators DEF Init, Placed
<1> QED
  BY <1>1, <1>2 DEF RedisInit, Init, RedisTypeInv, RedisTypeOK

(* What Save writes. *)
LEMMA SentType ==
    ASSUME TypeOK, NEW c \in Creators, pc[c] \notin {"idle", "done"}
    PROVE  NewRow(c) \in Row /\ Sent(c) \in Row /\ Sent(c).content = c
<1> DEFINE f == loc[c].form
<1>1. f \in Form /\ f.ttl \in Int
  BY Parameters DEF TypeOK, PlacesOK, Form
<1>2. loc[c].stamp \in Int /\ now \in Int /\ MaxTTL \in Int
  BY Parameters DEF TypeOK, ProcessOK, PlacesOK, Local, Requests
<1>3. /\ ExpireAt(loc[c].stamp, ResolveTTL(MaxTTL, f.ttl)) \in Int
      /\ ExpireAt(now, ResolveTTL(MaxTTL, f.ttl)) \in Int
  <2> HIDE DEF f
  <2> QED
    BY <1>1, <1>2, TtlType
<1>4. cfg \in Config
  BY Parameters DEF TypeOK, ProcessOK
<1>5. NewRow(c) \in Row /\ NewRow(c).content = c
  BY <1>1, <1>3, <1>4, Parameters DEF NewRow, Row, Form, Config
<1> QED
  BY <1>3, <1>5 DEF Sent, Row

LEMMA WrittenType ==
    ASSUME TypeOK, NEW c \in Creators, pc[c] \notin {"idle", "done"}, NEW s \in Slugs,
           HasMeta(s) => rows[s] # NoRow
    PROVE  WithContent(c, s) \in Row /\ WithMeta(c, s) \in Row
<1>1. NewRow(c) \in Row /\ Sent(c) \in Row /\ rows[s] \in Row \cup {NoRow}
  BY SentType, Types
<1>2. WithContent(c, s) \in Row
  <2>1. CASE HasMeta(s)
    BY <1>1, <2>1 DEF WithContent, Row
  <2>2. CASE ~HasMeta(s)
    <3>1. ASSUME NEW row \in Row
          PROVE  [row EXCEPT !.burn = FALSE, !.prot = FALSE,
                             !.expire = Never, !.key = NoKey] \in Row
      <4>1. \A r1 \in Row : [r1 EXCEPT !.burn = FALSE] \in Row /\ [r1 EXCEPT !.prot = FALSE] \in Row
        BY DEF Row
      <4>2. \A r1 \in Row : [r1 EXCEPT !.expire = Never] \in Row
        BY DEF Row, Never
      <4>3. \A r1 \in Row : [r1 EXCEPT !.key = NoKey] \in Row
        BY DEF Row
      <4> QED
        BY <4>1, <4>2, <4>3
    <3> QED
      BY <1>1, <2>2, <3>1 DEF WithContent
  <2> QED
    BY <2>1, <2>2
<1>3. WithMeta(c, s) \in Row
  <2>1. CASE rows[s] = NoRow
    BY <1>1, <2>1 DEF WithMeta
  <2>2. CASE rows[s] # NoRow
    BY <1>1, <2>2 DEF WithMeta, Row
  <2> QED
    BY <2>1, <2>2
<1> QED
  BY <1>2, <1>3

(* The table and the fields of the hashes agree. *)
HashesOK ==
    /\ fields \in [Slugs -> SUBSET {"content", "meta"}]
    /\ \A s \in Slugs : rows[s] = NoRow <=> fields[s] = {}

LEMMA SetContentType ==
    ASSUME RedisTypeOK, NEW c \in Creators, pc[c] = "save", NEW s \in Slugs, SetContent(c, s)
    PROVE  TableOK' /\ HashesOK'
<1>1. WithContent(c, s) \in Row
  BY WrittenType DEF RedisTypeOK, HasMeta
<1>2. /\ rows' = [rows EXCEPT ![s] = WithContent(c, s)] /\ retired' = retired
      /\ fields' = [fields EXCEPT ![s] = @ \cup {"content"}]
  BY DEF SetContent
<1> QED
  BY <1>1, <1>2, Absent DEF RedisTypeOK, TypeOK, TableOK, HashesOK

LEMMA SetMetaType ==
    ASSUME RedisTypeOK, NEW c \in Creators, pc[c] = "insert", loc[c].slug \in Slugs, SetMeta(c)
    PROVE  TableOK' /\ HashesOK' /\ saves' \in [Creators -> SUBSET (Slugs \X Row)]
<1> DEFINE s == loc[c].slug
<1>1. WithMeta(c, s) \in Row /\ Sent(c) \in Row
  BY WrittenType, SentType DEF RedisTypeOK, HasMeta
<1>2. /\ rows' = [rows EXCEPT ![s] = WithMeta(c, s)] /\ retired' = retired
      /\ fields' = [fields EXCEPT ![s] = @ \cup {"meta"}]
      /\ saves' = [saves EXCEPT ![c] = @ \cup {<<s, Sent(c)>>}]
  BY DEF SetMeta
<1> QED
  BY <1>1, <1>2, Absent DEF RedisTypeOK, TypeOK, TableOK, HashesOK

LEMMA DropType ==
    ASSUME RedisTypeOK, NEW S \in SUBSET Slugs, Drop(S)
    PROVE  TableOK' /\ HashesOK'
<1>1. TableOK'
  BY RemoveType DEF RedisTypeOK, Drop
<1>2. HashesOK'
  BY DEF RedisTypeOK, HashesOK, Drop, Remove
<1> QED
  BY <1>1, <1>2

LEMMA SameType ==
    ASSUME RedisTypeOK, UNCHANGED <<rows, retired, fields>>
    PROVE  TableOK' /\ HashesOK'
BY DEF RedisTypeOK, TypeOK, TableOK, HashesOK

LEMMA RedisCreateType ==
    ASSUME RedisTypeInv, NEW c \in Creators,
           RedisCreateStep(c) \/ (CreateArrive(c) /\ UNCHANGED fields)
    PROVE  RedisTypeInv'
<1>1. /\ c \in Requests /\ c \notin Clients /\ loc[c] \in Local /\ TypeOK
      /\ DOMAIN pc = Requests /\ loc \in [Requests -> Local] /\ RedisTypeOK
  BY ClientsCreators DEF RedisTypeInv, RedisTypeOK, TypeOK, PlacesOK
<1>2. ASSUME NEW label, Goto(c, label), label # "insert",
             UNCHANGED loc \/ \E l : loc' = [loc EXCEPT ![c] = l]
      PROVE  Placed'
  <2>1. ASSUME NEW d \in Creators, pc'[d] = "insert" PROVE loc'[d].slug \in Slugs
    BY <1>1, <1>2, <2>1, ClientsCreators DEF Goto, RedisTypeInv, Placed
  <2> QED
    BY <2>1 DEF Placed
<1>3. ASSUME NEW code, Finish(c, code) PROVE Placed'
  BY <1>2, <1>3 DEF Finish
<1>4. ASSUME TypeOK', HashesOK', Placed' PROVE RedisTypeInv'
  BY <1>4 DEF RedisTypeInv, RedisTypeOK, HashesOK
(* A POST ends. *)
<1>5. ASSUME Release(c, "500"), UNCHANGED <<process, got>>, TableOK', HashesOK',
             saves' \in [Creators -> SUBSET (Slugs \X Row)]
      PROVE  RedisTypeInv'
  <2>1. Finish(c, "500") /\ slots' \in Int /\ "500" \in Codes
    BY <1>1, <1>5 DEF Release, TypeOK, Codes
  <2>2. TypeOK'
    BY <1>1, <1>5, <2>1, FinishType DEF process, TypeOK, ProcessOK
  <2> QED
    BY <1>3, <1>4, <1>5, <2>1, <2>2
(* It goes on. *)
<1>6. ASSUME NEW label \in CreatorLabels, Goto(c, label), label \notin {"idle", "done"},
             pc[c] \notin {"idle", "done"},
             NEW l \in Local, loc' = [loc EXCEPT ![c] = l], l.form = loc[c].form,
             label = "insert" => l.slug \in Slugs,
             UNCHANGED <<process, slots, got, ans, wit>>, TableOK', HashesOK',
             saves' \in [Creators -> SUBSET (Slugs \X Row)]
      PROVE  RedisTypeInv'
  <2>1. loc[c].form \in Forms
    BY <1>1, <1>6 DEF TypeOK, PlacesOK
  <2>2. PlacesOK'
    BY <1>1, <1>6, <2>1, GotoType DEF TypeOK
  <2>3. TypeOK'
    BY <1>1, <1>6, <2>2 DEF TypeOK, ProcessOK, process
  <2>4. Placed'
    <3>1. ASSUME NEW d \in Creators, pc'[d] = "insert" PROVE loc'[d].slug \in Slugs
      BY <1>1, <1>6, <3>1, ClientsCreators DEF Goto, RedisTypeInv, Placed
    <3> QED
      BY <3>1 DEF Placed
  <2> QED
    BY <1>4, <1>6, <2>3, <2>4
<1>7. UNCHANGED saves => saves' \in [Creators -> SUBSET (Slugs \X Row)]
  BY <1>1 DEF TypeOK
<1>8. UNCHANGED store /\ UNCHANGED fields => TableOK' /\ HashesOK'
  BY <1>1, SameType DEF store
<1>a. CASE (CreateGate(c) \/ CreateEncode(c) \/ CreateReply(c) \/ CreateArrive(c))
           /\ UNCHANGED fields
  <2>1. TypeOK'
    BY <1>1, <1>a, CreateType DEF CreateStep
  <2>2. HashesOK'
    BY <1>8, <1>a DEF CreateGate, CreateEncode, CreateReply, CreateArrive
  <2>3. Placed'
    BY <1>2, <1>3, <1>a DEF CreateGate, CreateEncode, CreateReply, CreateArrive, Release
  <2> QED
    BY <1>4, <2>1, <2>2, <2>3
<1>b. CASE Gate(c)
  <2>1. PICK s \in Slugs : SetContent(c, s) /\ loc' = [loc EXCEPT ![c].slug = s]
    BY <1>b DEF Gate
  <2>2. pc[c] = "save" /\ Goto(c, "insert") /\ UNCHANGED <<process, slots, got, ans, wit>>
    BY <1>b DEF Gate
  <2> DEFINE l == [loc[c] EXCEPT !.slug = s]
  <2>3. l \in Local /\ l.form = loc[c].form /\ l.slug \in Slugs
    BY <1>1, LocalUpdate DEF Local
  <2>4. loc' = [loc EXCEPT ![c] = l] /\ UNCHANGED saves
    BY <2>1 DEF SetContent
  <2>5. "insert" \in CreatorLabels
    BY DEF CreatorLabels
  <2>6. TableOK' /\ HashesOK'
    BY <1>1, <2>1, <2>2, SetContentType
  <2> QED
    BY <1>6, <1>7, <2>2, <2>3, <2>4, <2>5, <2>6
<1>c. CASE GateConflict(c)
  <2>1. pc[c] = "save" /\ UNCHANGED <<store, process, got, saves, fields>> /\ TryAgain(c)
    BY <1>c DEF GateConflict
  <2>2. CASE ~LastTry(c) /\ loc' = [loc EXCEPT ![c].tries = NextTry(c)]
             /\ Goto(c, "save") /\ UNCHANGED <<slots, ans, wit>>
    <3> DEFINE l == [loc[c] EXCEPT !.tries = NextTry(c)]
    <3>1. NextTry(c) \in 0 .. maxSlugRetries - 1
      BY <1>1, <2>2 DEF Local, NextTry, LastTry, maxSlugRetries
    <3>2. l \in Local /\ l.form = loc[c].form
      BY <1>1, <3>1, LocalUpdate DEF Local
    <3>3. loc' = [loc EXCEPT ![c] = l] /\ "save" \in CreatorLabels
      BY <2>2 DEF CreatorLabels
    <3> QED
      BY <1>6, <1>7, <1>8, <2>1, <2>2, <3>2, <3>3
  <2>3. CASE Release(c, "500")
    BY <1>5, <1>7, <1>8, <2>1, <2>3
  <2> QED
    BY <2>1, <2>2, <2>3 DEF TryAgain
<1>d. CASE GateFails(c)
  <2>1. pc[c] = "save" /\ UNCHANGED <<process, got>> /\ Release(c, "500")
    BY <1>d DEF GateFails
  <2>2. CASE UNCHANGED <<rows, retired, saves, fields>>
    BY <1>1, <1>5, <1>7, <2>1, <2>2, SameType
  <2>3. CASE \E s \in Slugs : SetContent(c, s)
    <3>1. TableOK' /\ HashesOK' /\ UNCHANGED saves
      BY <1>1, <2>1, <2>3, SetContentType DEF SetContent
    <3> QED
      BY <1>5, <1>7, <2>1, <3>1
  <2> QED
    BY <1>d, <2>2, <2>3 DEF GateFails
<1>e. CASE Fill(c)
  <2>1. /\ pc[c] = "insert" /\ SetMeta(c) /\ Goto(c, "created")
        /\ UNCHANGED <<process, slots, loc, got, ans, wit>>
    BY <1>e DEF Fill
  <2>2. loc' = [loc EXCEPT ![c] = loc[c]] /\ loc[c].slug \in Slugs
    BY <1>1, <2>1 DEF RedisTypeInv, Placed
  <2>3. TableOK' /\ HashesOK' /\ saves' \in [Creators -> SUBSET (Slugs \X Row)]
    BY <1>1, <2>1, <2>2, SetMetaType
  <2>4. "created" \in CreatorLabels
    BY DEF CreatorLabels
  <2> QED
    BY <1>1, <1>6, <2>1, <2>2, <2>3, <2>4
<1>f. CASE FillFails(c)
  <2>1. pc[c] = "insert" /\ UNCHANGED <<process, got>> /\ Release(c, "500")
    BY <1>f DEF FillFails
  <2>2. CASE UNCHANGED <<rows, retired, saves, fields>>
    BY <1>1, <1>5, <1>7, <2>1, <2>2, SameType
  <2>3. CASE SetMeta(c)
    <3>1. loc[c].slug \in Slugs
      BY <2>1 DEF RedisTypeInv, Placed
    <3>2. TableOK' /\ HashesOK' /\ saves' \in [Creators -> SUBSET (Slugs \X Row)]
      BY <1>1, <2>1, <2>3, <3>1, SetMetaType
    <3> QED
      BY <1>5, <2>1, <3>2
  <2> QED
    BY <1>f, <2>2, <2>3 DEF FillFails
<1> QED
  BY <1>a, <1>b, <1>c, <1>d, <1>e, <1>f DEF RedisCreateStep

(* A client's step leaves the POSTs where they are. *)
LEMMA ClientPlaces ==
    ASSUME TypeOK, NEW r \in Clients,
           UNCHANGED pc \/ \E label : Goto(r, label),
           UNCHANGED loc \/ \E l : loc' = [loc EXCEPT ![r] = l]
    PROVE  \A c \in Creators : pc'[c] = pc[c] /\ loc'[c] = loc[c]
BY ClientsCreators DEF TypeOK, PlacesOK, Goto

LEMMA RedisClientType ==
    ASSUME RedisTypeInv, NEW r \in Clients,
           \/ \E s \in Slugs, label \in {"peek", "erase"} :
                 Arrive(r, s, label) /\ UNCHANGED fields
           \/ RedisPeekMeta(r)
           \/ r \in Readers /\ RedisFetchStep(r)
           \/ r \in Deleters /\ RedisDeleteStep(r)
    PROVE  RedisTypeInv'
<1>1. /\ r \in Requests /\ r \notin Creators /\ loc[r] \in Local /\ TypeOK /\ RedisTypeOK
      /\ loc \in [Requests -> Local]
  BY ClientsCreators DEF RedisTypeInv, RedisTypeOK, TypeOK, PlacesOK
<1>2. ASSUME UNCHANGED pc \/ \E label : Goto(r, label),
             UNCHANGED loc \/ \E l : loc' = [loc EXCEPT ![r] = l]
      PROVE  Placed'
  BY <1>1, <1>2, ClientPlaces DEF RedisTypeInv, Placed
<1>3. ASSUME TypeOK', HashesOK', Placed' PROVE RedisTypeInv'
  BY <1>3 DEF RedisTypeInv, RedisTypeOK, HashesOK
<1>4. ASSUME pc[r] \notin {"idle", "done"}
      PROVE  loc[r].slug \in Slugs /\ rows[loc[r].slug] \in Row \cup {NoRow}
  BY <1>1, <1>4, Types DEF TypeOK, PlacesOK
<1>5. UNCHANGED store /\ UNCHANGED fields => TableOK' /\ HashesOK'
  BY <1>1, SameType DEF store
<1>6. ASSUME NEW s \in Slugs, Drop({s}) PROVE TableOK' /\ HashesOK'
  BY <1>1, <1>6, DropType
<1>7. {"200", "403", "404", "500"} \subseteq Codes
  BY DEF Codes
<1>8. {"peek", "peeked", "get", "got", "fallback", "fellback", "take", "taking",
       "decrypt", "failed", "erase"} \subseteq ClientLabels
  BY DEF ClientLabels
(* The request ends. *)
<1>9. ASSUME NEW code \in {"200", "404", "500"}, Finish(r, code),
             UNCHANGED <<process, slots, got, saves>>, TableOK', HashesOK'
      PROVE  RedisTypeInv'
  <2>1. TypeOK'
    BY <1>1, <1>7, <1>9, FinishType DEF process, TypeOK, ProcessOK
  <2>2. Placed'
    BY <1>2, <1>9 DEF Finish
  <2> QED
    BY <1>3, <1>9, <2>1, <2>2
(* It goes on. *)
<1>10. ASSUME NEW label \in ClientLabels, Goto(r, label), pc[r] \notin {"idle", "done"},
              NEW l \in Local, loc' = [loc EXCEPT ![r] = l], l.slug = loc[r].slug,
              UNCHANGED <<process, slots, ans, saves, wit>>,
              got' \in [Readers -> Row \cup {NoRow}], TableOK', HashesOK'
       PROVE  RedisTypeInv'
  <2>1. PlacesOK'
    BY <1>1, <1>4, <1>10, GotoType DEF TypeOK
  <2>2. TypeOK'
    BY <1>1, <1>10, <2>1 DEF TypeOK, ProcessOK, process
  <2>3. Placed'
    BY <1>2, <1>10
  <2> QED
    BY <1>3, <1>10, <2>2, <2>3
<1>11. UNCHANGED got => got' \in [Readers -> Row \cup {NoRow}]
  BY <1>1 DEF TypeOK
<1>12. UNCHANGED loc => loc' = [loc EXCEPT ![r] = loc[r]]
  BY <1>1
<1>13. ASSUME NEW row \in Row \cup {NoRow}, NEW to \in ClientLabels, Look(r, row, to),
              pc[r] \notin {"idle", "done"}
       PROVE  RedisTypeInv'
  <2> DEFINE l == [loc[r] EXCEPT !.seen = row]
  <2>1. l \in Local /\ l.slug = loc[r].slug
    BY <1>1, LocalUpdate DEF Local
  <2>2. loc' = [loc EXCEPT ![r] = l] /\ Goto(r, to)
        /\ UNCHANGED <<store, process, slots, got, ans, saves, wit, fields>>
    BY <1>13 DEF Look
  <2> QED
    BY <1>5, <1>10, <1>11, <1>13, <2>1, <2>2
<1>14. ASSUME NEW row \in Row \cup {NoRow}, r \in Readers, Deliver(r, row),
              TableOK', HashesOK', UNCHANGED <<process, slots, saves>>,
              pc[r] \notin {"idle", "done"}
       PROVE  RedisTypeInv'
  <2>1. CASE row = NoRow
    BY <1>9, <1>14, <2>1 DEF Deliver
  <2>2. CASE row # NoRow
    <3>1. /\ got' = [got EXCEPT ![r] = row] /\ Goto(r, "decrypt")
          /\ UNCHANGED <<loc, ans, wit>>
      BY <1>14, <2>2 DEF Deliver
    <3>2. got' \in [Readers -> Row \cup {NoRow}]
      BY <1>1, <1>14, <3>1 DEF TypeOK
    <3> QED
      BY <1>1, <1>8, <1>10, <1>12, <1>14, <3>1, <3>2
  <2> QED
    BY <2>1, <2>2
<1>a. CASE \E s \in Slugs, label \in {"peek", "erase"} : Arrive(r, s, label) /\ UNCHANGED fields
  <2>1. TypeOK'
    BY <1>1, <1>a, ClientType
  <2>2. HashesOK'
    BY <1>5, <1>a DEF Arrive
  <2>3. Placed'
    BY <1>2, <1>a DEF Arrive
  <2> QED
    BY <1>3, <2>1, <2>2, <2>3
<1>b. CASE RedisPeekMeta(r)
  BY <1>4, <1>8, <1>13, <1>b DEF RedisPeekMeta
<1>c. CASE r \in Readers /\ RedisGet(r)
  BY <1>4, <1>8, <1>13, <1>c DEF RedisGet
<1>d. CASE r \in Readers /\ RedisGetAndDelete(r)
  <2>1. pc[r] = "taking" /\ Drop({loc[r].slug}) /\ UNCHANGED <<process, slots, saves>>
    BY <1>d DEF RedisGetAndDelete, TakeHash
  <2> QED
    BY <1>4, <1>6, <1>14, <1>d, <2>1 DEF RedisGetAndDelete
<1>e. CASE r \in Readers /\ RedisFetchFails(r)
  <2>1. /\ pc[r] \in {"get", "fallback", "taking"} /\ Goto(r, "failed")
        /\ UNCHANGED <<process, slots, loc, got, ans, saves, wit>>
    BY <1>e DEF RedisFetchFails
  <2>2. TableOK' /\ HashesOK'
    BY <1>4, <1>5, <1>6, <1>e, <2>1 DEF RedisFetchFails, TakeHash
  <2> QED
    BY <1>1, <1>8, <1>10, <1>11, <1>12, <2>1, <2>2
<1>f. CASE /\ r \in Readers /\ UNCHANGED fields
           /\ FetchDecide(r) \/ FetchGot(r) \/ FetchFellBack(r)
              \/ TakeStamp(r) \/ FetchFailed(r) \/ Decrypt(r)
  <2>1. TypeOK'
    BY <1>1, <1>f, ClientType DEF FetchStep
  <2>2. HashesOK'
    BY <1>5, <1>f DEF FetchDecide, FetchGot, FetchFellBack, TakeStamp, FetchFailed, Decrypt
  <2>3. Placed'
    BY <1>2, <1>f DEF FetchDecide, FetchGot, FetchFellBack, TakeStamp, FetchFailed, Decrypt,
       Deliver, Finish
  <2> QED
    BY <1>3, <2>1, <2>2, <2>3
<1>g. CASE r \in Deleters /\ RedisDelete(r)
  <2>1. pc[r] = "erase" /\ UNCHANGED <<process, slots, got, saves>>
        /\ (Finish(r, "200") \/ Finish(r, "500"))
    BY <1>g DEF RedisDelete
  <2>2. TableOK' /\ HashesOK'
    BY <1>4, <1>5, <1>6, <1>g, <2>1 DEF RedisDelete
  <2> QED
    BY <1>9, <2>1, <2>2
<1>h. CASE r \in Deleters /\ DeleteDecide(r) /\ UNCHANGED fields
  <2>1. TypeOK'
    BY <1>1, <1>h, ClientType DEF DeleteStep
  <2>2. HashesOK'
    BY <1>5, <1>h DEF DeleteDecide
  <2>3. Placed'
    BY <1>2, <1>h DEF DeleteDecide, Finish
  <2> QED
    BY <1>3, <2>1, <2>2, <2>3
<1> QED
  BY <1>a, <1>b, <1>c, <1>d, <1>e, <1>f, <1>g, <1>h DEF RedisFetchStep, RedisDeleteStep

LEMMA RedisTypeStep == RedisTypeInv /\ [RedisNext]_redisVars => RedisTypeInv'
<1> SUFFICES ASSUME RedisTypeInv, [RedisNext]_redisVars PROVE RedisTypeInv'
  OBVIOUS
<1>1. TypeOK /\ RedisTypeOK /\ Placed
  BY DEF RedisTypeInv, RedisTypeOK
<1>2. ASSUME TypeOK', HashesOK', Placed' PROVE RedisTypeInv'
  BY <1>2 DEF RedisTypeInv, RedisTypeOK, HashesOK
<1>3. CASE RedisTick
  <2>1. PICK S \in SUBSET Slugs : Drop(S)
    BY <1>3 DEF RedisTick
  <2>2. TableOK' /\ HashesOK'
    BY <1>1, <2>1, DropType
  <2>3. TypeOK'
    BY <1>1, <1>3, <2>2 DEF RedisTick, TypeOK, ProcessOK, PlacesOK
  <2>4. Placed'
    BY <1>1, <1>3 DEF RedisTick, Placed
  <2> QED
    BY <1>2, <2>2, <2>3, <2>4
<1>4. CASE Restart /\ UNCHANGED fields
  <2>1. TypeOK'
    BY <1>1, <1>4, ProcessType
  <2>2. HashesOK'
    BY <1>1, <1>4, SameType DEF Restart, store
  <2>3. Placed'
    BY <1>4, ClientsCreators DEF Restart, Placed
  <2> QED
    BY <1>2, <2>1, <2>2, <2>3
<1>5. CASE UNCHANGED redisVars
  <2>1. UNCHANGED vars /\ UNCHANGED fields
    BY <1>5 DEF redisVars
  <2>2. TypeOK'
    BY <1>1, <2>1, TypeStep
  <2>3. HashesOK' /\ Placed'
    BY <1>1, <2>1 DEF vars, HashesOK, RedisTypeOK, Placed
  <2> QED
    BY <1>2, <2>2, <2>3
<1>6. CASE \E c \in Creators : RedisCreateStep(c) \/ (CreateArrive(c) /\ UNCHANGED fields)
  BY <1>6, RedisCreateType
<1>7. CASE (\E r \in Readers : RedisFetchStep(r)) \/ (\E d \in Deleters : RedisDeleteStep(d))
  BY <1>7, RedisClientType, ClientsCreators
<1>8. CASE \E s \in Slugs :
              /\ \/ \E r \in Readers : FetchArrive(r, s)
                 \/ \E d \in Deleters : DeleteArrive(d, s)
              /\ UNCHANGED fields
  BY <1>8, RedisClientType, ClientsCreators DEF FetchArrive, DeleteArrive
<1> QED
  BY <1>3, <1>4, <1>5, <1>6, <1>7, <1>8 DEF RedisNext

(* Every variable keeps its type, and the table agrees with the fields of  *)
(* the hashes; so no call works on an undefined id, paste or form.         *)
THEOREM RedisTyping == RedisSpec => []RedisTypeOK
<1>1. RedisTypeInv => RedisTypeOK
  BY DEF RedisTypeInv
<1> QED
  BY <1>1, RedisTypeInit, RedisTypeStep, PTL DEF RedisSpec

-----------------------------------------------------------------------------
(* The hashes, the POSTs that write them and the rows in clients' hands.   *)
(* Every step has one of seven shapes as far as these are concerned.       *)

(* Where a POST has not written anything yet.                              *)
BeforeGate == {"idle", "gate", "encode", "save"}

(* No POST of C draws an id, writes to a hash or starts again.             *)
PostsKept(C) ==
    \A c \in C :
        /\ saves'[c] = saves[c]
        /\ pc'[c] \in BeforeGate => pc[c] \in BeforeGate
        /\ pc'[c] = "insert" => pc[c] = "insert" /\ loc'[c].slug = loc[c].slug

SameHashes == UNCHANGED <<rows, retired, fields>>

RedisQuiet == SameHashes /\ UNCHANGED got /\ PostsKept(Creators) /\ LocKept

Dropping ==
    /\ \E S \in SUBSET Slugs : Drop(S)
    /\ UNCHANGED got /\ PostsKept(Creators) /\ LocKept

Gating(c, s) ==
    /\ Drawable(s) /\ Free(s) /\ SetContent(c, s)
    /\ pc[c] = "save"
    /\ \/ pc'[c] = "insert" /\ loc'[c].slug = s
       \/ pc'[c] = "done"
    /\ UNCHANGED got /\ PostsKept(Creators \ {c}) /\ LocKept

Filling(c) ==
    /\ pc[c] = "insert" /\ pc'[c] \in {"created", "done"} /\ SetMeta(c)
    /\ UNCHANGED got /\ PostsKept(Creators \ {c}) /\ LocKept

Looking(r) ==
    /\ SameHashes /\ UNCHANGED got /\ PostsKept(Creators)
    /\ pc[r] \notin {"idle", "done"} /\ loc'[r].slug = loc[r].slug
    /\ loc'[r].seen \in {NoRow, rows[loc[r].slug]}
    /\ \A q \in Clients : q # r => loc'[q] = loc[q]

Serving(r) ==
    /\ SameHashes /\ PostsKept(Creators) /\ LocKept
    /\ loc[r].seen # NoRow /\ ~loc[r].seen.burn
    /\ got' = [got EXCEPT ![r] = loc[r].seen]

Taking(r) ==
    LET s == loc[r].slug
    IN  /\ s \in Slugs /\ HasContent(s) /\ Drop({s})
        /\ pc[r] \notin {"idle", "done"}
        /\ PostsKept(Creators) /\ LocKept
        /\ got' = [got EXCEPT ![r] = rows[s]]

RedisShape ==
    \/ RedisQuiet \/ Dropping
    \/ \E c \in Creators : Filling(c) \/ \E s \in Slugs : Gating(c, s)
    \/ \E r \in Clients : Looking(r)
    \/ \E r \in Readers : Serving(r) \/ Taking(r)

LEMMA RedisCreateShape ==
    ASSUME RedisTypeInv, NEW c \in Creators,
           RedisCreateStep(c) \/ (CreateArrive(c) /\ UNCHANGED fields)
    PROVE  RedisShape
<1>1. /\ c \in Requests /\ loc \in [Requests -> Local] /\ TypeOK /\ DOMAIN pc = Requests
      /\ Creators \subseteq Requests
  BY ClientsCreators DEF RedisTypeInv, RedisTypeOK, TypeOK, PlacesOK
<1>2. ASSUME NEW code, Finish(c, code) PROVE LocKept
  BY <1>1, <1>2, FinishKept
<1>3. ASSUME NEW label, Goto(c, label)
      PROVE  pc'[c] = label /\ \A d \in Creators : d # c => pc'[d] = pc[d]
  BY <1>1, <1>3 DEF Goto
<1>4. ASSUME UNCHANGED loc \/ \E l : loc' = [loc EXCEPT ![c] = l]
      PROVE  LocKept /\ \A d \in Creators : d # c => loc'[d] = loc[d]
  BY <1>1, <1>4, AssignKept, UnchangedKept
(* A step that stays before the gate or ends. *)
<1>5. ASSUME NEW label, Goto(c, label), label # "insert",
             UNCHANGED loc \/ \E l : loc' = [loc EXCEPT ![c] = l],
             label \in BeforeGate => pc[c] \in BeforeGate,
             UNCHANGED saves
      PROVE  PostsKept(Creators) /\ LocKept
  BY <1>3, <1>4, <1>5 DEF PostsKept
<1>6. ASSUME NEW label, Goto(c, label),
             UNCHANGED loc \/ \E l : loc' = [loc EXCEPT ![c] = l],
             \A d \in Creators : d # c => saves'[d] = saves[d]
      PROVE  PostsKept(Creators \ {c}) /\ LocKept /\ pc'[c] = label
  BY <1>3, <1>4, <1>6 DEF PostsKept
<1>7. \A d \in Creators : SetMeta(c) /\ d # c => saves'[d] = saves[d]
  BY <1>1 DEF SetMeta, TypeOK
<1>a. CASE CreateArrive(c) /\ UNCHANGED fields
  BY <1>a, <1>5 DEF CreateArrive, Finish, BeforeGate, store, RedisShape, RedisQuiet, SameHashes
<1>b. CASE (CreateGate(c) \/ CreateEncode(c) \/ CreateReply(c)) /\ UNCHANGED fields
  BY <1>b, <1>5 DEF CreateGate, CreateEncode, CreateReply, Release, Finish, BeforeGate, store,
     RedisShape, RedisQuiet, SameHashes
<1>c. CASE Gate(c)
  <2>1. PICK s \in Slugs : /\ Drawable(s) /\ Free(s) /\ SetContent(c, s)
                           /\ loc' = [loc EXCEPT ![c].slug = s]
    BY <1>c DEF Gate
  <2>2. loc' = [loc EXCEPT ![c] = [loc[c] EXCEPT !.slug = s]] /\ loc'[c].slug = s
    BY <1>1, <2>1 DEF Local
  <2>3. pc[c] = "save" /\ Goto(c, "insert") /\ UNCHANGED got /\ UNCHANGED saves
    BY <1>c, <2>1 DEF Gate, SetContent
  <2>4. PostsKept(Creators \ {c}) /\ LocKept /\ pc'[c] = "insert"
    BY <1>6, <2>2, <2>3
  <2> QED
    BY <2>1, <2>2, <2>3, <2>4 DEF Gating, RedisShape
<1>d. CASE GateConflict(c)
  <2>1. pc[c] = "save" /\ UNCHANGED <<store, process, got, saves, fields>> /\ TryAgain(c)
    BY <1>d DEF GateConflict
  <2>2. PostsKept(Creators) /\ LocKept
    BY <1>5, <2>1 DEF TryAgain, Release, Finish, BeforeGate
  <2> QED
    BY <2>1, <2>2 DEF RedisShape, RedisQuiet, SameHashes, store
<1>e. CASE GateFails(c)
  <2>1. pc[c] = "save" /\ UNCHANGED got /\ Finish(c, "500") /\ UNCHANGED saves
    BY <1>e DEF GateFails, SetContent, Release
  <2>2. CASE SameHashes
    <3>1. PostsKept(Creators) /\ LocKept
      BY <1>5, <2>1 DEF Finish, BeforeGate
    <3> QED
      BY <2>1, <2>2, <3>1 DEF RedisShape, RedisQuiet
  <2>3. CASE \E s \in Slugs : Drawable(s) /\ Free(s) /\ SetContent(c, s)
    <3>1. PostsKept(Creators \ {c}) /\ LocKept /\ pc'[c] = "done"
      BY <1>6, <2>1 DEF Finish
    <3> QED
      BY <2>1, <2>3, <3>1 DEF Gating, RedisShape
  <2> QED
    BY <1>e, <2>2, <2>3 DEF GateFails, SameHashes
<1>f. CASE Fill(c)
  <2>1. pc[c] = "insert" /\ SetMeta(c) /\ Goto(c, "created") /\ UNCHANGED <<loc, got>>
    BY <1>f DEF Fill
  <2>2. PostsKept(Creators \ {c}) /\ LocKept /\ pc'[c] = "created"
    BY <1>6, <1>7, <2>1
  <2> QED
    BY <2>1, <2>2 DEF Filling, RedisShape
<1>g. CASE FillFails(c)
  <2>1. pc[c] = "insert" /\ UNCHANGED got /\ Finish(c, "500")
    BY <1>g DEF FillFails, Release
  <2>2. CASE UNCHANGED <<rows, retired, saves, fields>>
    <3>1. PostsKept(Creators) /\ LocKept
      BY <1>5, <2>1, <2>2 DEF Finish, BeforeGate
    <3> QED
      BY <2>1, <2>2, <3>1 DEF RedisShape, RedisQuiet, SameHashes
  <2>3. CASE SetMeta(c)
    <3>1. PostsKept(Creators \ {c}) /\ LocKept /\ pc'[c] = "done"
      BY <1>6, <1>7, <2>1, <2>3 DEF Finish
    <3> QED
      BY <2>1, <2>3, <3>1 DEF Filling, RedisShape
  <2> QED
    BY <1>g, <2>2, <2>3 DEF FillFails
<1> QED
  BY <1>a, <1>b, <1>c, <1>d, <1>e, <1>f, <1>g DEF RedisCreateStep

LEMMA RedisClientShape ==
    ASSUME RedisTypeInv, GetSparesBurn, NEW r \in Clients,
           \/ \E s \in Slugs, label \in {"peek", "erase"} :
                 Arrive(r, s, label) /\ UNCHANGED fields
           \/ RedisPeekMeta(r)
           \/ r \in Readers /\ RedisFetchStep(r)
           \/ r \in Deleters /\ RedisDeleteStep(r)
    PROVE  RedisShape
<1>1. r \in Requests /\ loc \in [Requests -> Local] /\ TypeOK
  BY ClientsCreators DEF RedisTypeInv, RedisTypeOK, TypeOK, PlacesOK
<1>2. ASSUME NEW code, Finish(r, code) PROVE LocKept
  BY <1>1, <1>2, FinishKept
<1>3. ASSUME pc[r] \notin {"idle", "done"} PROVE loc[r].slug \in Slugs
  BY <1>1, <1>3 DEF TypeOK, PlacesOK
<1>4. ASSUME UNCHANGED pc \/ \E label : Goto(r, label),
             UNCHANGED loc \/ \E l : loc' = [loc EXCEPT ![r] = l], UNCHANGED saves
      PROVE  PostsKept(Creators)
  BY <1>1, <1>4, ClientPlaces DEF PostsKept
<1>5. ASSUME NEW row, NEW to, Look(r, row, to), row \in {NoRow, rows[loc[r].slug]},
             pc[r] \notin {"idle", "done"}
      PROVE  RedisShape
  <2>1. loc'[r].slug = loc[r].slug /\ loc'[r].seen = row
    BY <1>1, <1>5 DEF Look, Local
  <2>2. \A q \in Clients : q # r => loc'[q] = loc[q]
    BY <1>1, <1>5, ClientsCreators DEF Look
  <2>3. PostsKept(Creators) /\ SameHashes /\ UNCHANGED got
    BY <1>4, <1>5 DEF Look, SameHashes, store
  <2> QED
    BY <1>5, <2>1, <2>2, <2>3 DEF Looking, RedisShape
<1>6. ASSUME NEW s \in Slugs, Drop({s}), UNCHANGED <<saves, got>>, LocKept,
             \E label : Goto(r, label), UNCHANGED loc \/ \E l : loc' = [loc EXCEPT ![r] = l]
      PROVE  RedisShape
  BY <1>4, <1>6 DEF RedisShape, Dropping
<1>7. ASSUME UNCHANGED <<store, fields, saves, got>>, LocKept,
             UNCHANGED pc \/ \E label : Goto(r, label),
             UNCHANGED loc \/ \E l : loc' = [loc EXCEPT ![r] = l]
      PROVE  RedisShape
  BY <1>4, <1>7 DEF RedisShape, RedisQuiet, SameHashes, store
<1>8. ASSUME NEW code, Finish(r, code), UNCHANGED <<store, fields, saves, got>>
      PROVE  RedisShape
  BY <1>2, <1>7, <1>8 DEF Finish
<1>9. ASSUME NEW label, Goto(r, label), UNCHANGED <<loc, store, fields, saves, got>>
      PROVE  RedisShape
  BY <1>7, <1>9, UnchangedKept
<1>10. ASSUME r \in Readers, Deliver(r, loc[r].seen), UNCHANGED <<store, fields, saves>>,
              loc[r].seen # NoRow => ~loc[r].seen.burn
       PROVE  RedisShape
  <2>1. CASE loc[r].seen = NoRow
    BY <1>8, <1>10, <2>1 DEF Deliver
  <2>2. CASE loc[r].seen # NoRow
    <3>1. LocKept /\ PostsKept(Creators) /\ SameHashes
      BY <1>4, <1>10, <2>2, UnchangedKept DEF Deliver, SameHashes, store
    <3> QED
      BY <1>10, <2>2, <3>1 DEF Deliver, Serving, RedisShape
  <2> QED
    BY <2>1, <2>2
<1>a. CASE \E s \in Slugs, label \in {"peek", "erase"} : Arrive(r, s, label) /\ UNCHANGED fields
  <2>1. PICK s \in Slugs, label \in {"peek", "erase"} : Arrive(r, s, label) /\ UNCHANGED fields
    BY <1>a
  <2>2. [NoLocal EXCEPT !.slug = s].seen = NoRow
    BY DEF NoLocal
  <2>3. LocKept
    BY <1>1, <2>1, <2>2, AssignKept DEF Arrive
  <2> QED
    BY <1>7, <2>1, <2>3 DEF Arrive
<1>b. CASE RedisPeekMeta(r)
  BY <1>5, <1>b DEF RedisPeekMeta
<1>c. CASE r \in Readers /\ RedisGet(r)
  BY <1>5, <1>c DEF RedisGet
<1>d. CASE r \in Readers /\ RedisGetAndDelete(r)
  <2> DEFINE s == loc[r].slug
  <2>1. pc[r] = "taking" /\ Drop({s}) /\ UNCHANGED <<process, slots, saves>> /\ s \in Slugs
    BY <1>3, <1>d DEF RedisGetAndDelete, TakeHash
  <2>2. CASE HasContent(s) /\ rows[s] # NoRow
    <3>1. got' = [got EXCEPT ![r] = rows[s]] /\ Goto(r, "decrypt") /\ UNCHANGED loc
      BY <1>d, <2>2 DEF RedisGetAndDelete, Deliver
    <3>2. LocKept /\ PostsKept(Creators)
      BY <1>4, <2>1, <3>1, UnchangedKept
    <3> QED
      BY <1>d, <2>1, <2>2, <3>1, <3>2 DEF Taking, RedisShape
  <2>3. CASE ~(HasContent(s) /\ rows[s] # NoRow)
    <3>1. Finish(r, "404") /\ UNCHANGED got
      BY <1>d, <2>3 DEF RedisGetAndDelete, Deliver
    <3> QED
      BY <1>2, <1>6, <2>1, <3>1 DEF Finish
  <2> QED
    BY <2>2, <2>3
<1>e. CASE r \in Readers /\ RedisFetchFails(r)
  <2>1. /\ pc[r] \in {"get", "fallback", "taking"} /\ Goto(r, "failed")
        /\ UNCHANGED <<loc, got, saves>>
    BY <1>e DEF RedisFetchFails
  <2>2. CASE UNCHANGED <<store, fields>>
    BY <1>9, <2>1, <2>2
  <2>3. CASE Drop({loc[r].slug})
    BY <1>3, <1>6, <2>1, <2>3, UnchangedKept
  <2> QED
    BY <1>e, <2>2, <2>3 DEF RedisFetchFails, TakeHash
<1>f. CASE r \in Readers /\ FetchDecide(r) /\ UNCHANGED fields
  BY <1>9, <1>f DEF FetchDecide
<1>g. CASE r \in Readers /\ FetchGot(r) /\ UNCHANGED fields
  <2>1. loc[r].seen # NoRow => ~loc[r].seen.burn
    BY <1>g DEF FetchGot, Returned, GetSparesBurn
  <2> QED
    BY <1>10, <1>g, <2>1 DEF FetchGot
<1>h. CASE r \in Readers /\ FetchFellBack(r) /\ UNCHANGED fields
  BY <1>9, <1>10, <1>h DEF FetchFellBack
<1>i. CASE r \in Readers /\ TakeStamp(r) /\ UNCHANGED fields
  <2>1. /\ [loc[r] EXCEPT !.stamp = now].seen = loc[r].seen
        /\ [loc[r] EXCEPT !.stamp = now].slug = loc[r].slug
    BY <1>1 DEF Local
  <2>2. LocKept
    BY <1>1, <1>i, <2>1, AssignKept DEF TakeStamp
  <2> QED
    BY <1>7, <1>i, <2>2 DEF TakeStamp
<1>j. CASE r \in Readers /\ (FetchFailed(r) \/ Decrypt(r)) /\ UNCHANGED fields
  BY <1>8, <1>j DEF FetchFailed, Decrypt
<1>k. CASE r \in Deleters /\ RedisDelete(r)
  <2>1. pc[r] = "erase" /\ UNCHANGED <<got, saves>> /\ (Finish(r, "200") \/ Finish(r, "500"))
    BY <1>k DEF RedisDelete
  <2>2. CASE UNCHANGED <<store, fields>>
    BY <1>8, <2>1, <2>2
  <2>3. CASE Drop({loc[r].slug})
    BY <1>2, <1>3, <1>6, <2>1, <2>3 DEF Finish
  <2> QED
    BY <1>k, <2>2, <2>3 DEF RedisDelete
<1>l. CASE r \in Deleters /\ DeleteDecide(r) /\ UNCHANGED fields
  BY <1>8, <1>9, <1>l DEF DeleteDecide
<1> QED
  BY <1>a, <1>b, <1>c, <1>d, <1>e, <1>f, <1>g, <1>h, <1>i, <1>j, <1>k, <1>l
     DEF RedisFetchStep, RedisDeleteStep

LEMMA RedisStepShape ==
    RedisTypeInv /\ GetSparesBurn /\ [RedisNext]_redisVars => RedisShape
<1> SUFFICES ASSUME RedisTypeInv, GetSparesBurn, [RedisNext]_redisVars PROVE RedisShape
  OBVIOUS
<1>1. ASSUME UNCHANGED <<pc, loc, saves>> PROVE PostsKept(Creators) /\ LocKept
  BY <1>1 DEF PostsKept, LocKept
<1>2. CASE RedisTick
  BY <1>1, <1>2 DEF RedisTick, RedisShape, Dropping
<1>3. CASE Restart /\ UNCHANGED fields
  <2>1. LocKept
    BY <1>3, ClientsCreators DEF Restart, LocKept, NoLocal
  <2>2. PostsKept(Creators)
    BY <1>3, ClientsCreators DEF Restart, PostsKept, BeforeGate
  <2> QED
    BY <1>3, <2>1, <2>2 DEF Restart, RedisShape, RedisQuiet, SameHashes, store
<1>4. CASE UNCHANGED redisVars
  BY <1>1, <1>4 DEF redisVars, vars, RedisShape, RedisQuiet, SameHashes
<1>5. CASE \E c \in Creators : RedisCreateStep(c) \/ (CreateArrive(c) /\ UNCHANGED fields)
  BY <1>5, RedisCreateShape
<1>6. CASE (\E r \in Readers : RedisFetchStep(r)) \/ (\E d \in Deleters : RedisDeleteStep(d))
  BY <1>6, RedisClientShape, ClientsCreators
<1>7. CASE \E s \in Slugs :
              /\ \/ \E r \in Readers : FetchArrive(r, s)
                 \/ \E d \in Deleters : DeleteArrive(d, s)
              /\ UNCHANGED fields
  BY <1>7, RedisClientShape, ClientsCreators DEF FetchArrive, DeleteArrive
<1> QED
  BY <1>2, <1>3, <1>4, <1>5, <1>6, <1>7 DEF RedisNext

-----------------------------------------------------------------------------
(* The inductive invariant.                                                *)

(* A retired slug is not given content again, and without content a hash   *)
(* is only the flags that came too late for a retired one.                 *)
HashInv ==
    \A s \in Slugs :
        /\ s \in retired => ~HasContent(s)
        /\ s \notin retired /\ rows[s] # NoRow => HasContent(s)

(* Content is written once, under one slug. *)
Origin ==
    \A s \in Slugs : rows[s] # NoRow =>
        LET c == rows[s].content
        IN  /\ pc[c] \notin BeforeGate
            /\ pc[c] = "insert" => loc[c].slug = s
            /\ \A p \in saves[c] : p[1] = s

(* Between its two pipelines a POST has its slug to itself: the hash holds *)
(* its content and nothing else, or is gone for good.                      *)
HalfWritten(c) ==
    LET s == loc[c].slug
    IN  /\ rows[s] = NoRow => s \in retired
        /\ rows[s] # NoRow => /\ s \notin retired /\ HasContent(s) /\ ~HasMeta(s)
                              /\ rows[s].content = c /\ rows[s].expire = Never
        /\ \A d \in Creators : d # c =>
              /\ pc[d] = "insert" => loc[d].slug # s
              /\ \A p \in saves[d] : p[1] # s

(* After the second the hash is as it was meant until the slug is retired, *)
(* and nobody else has been given the slug.                                *)
Whole(c) ==
    \A p \in saves[c] :
        /\ p[2].content = c
        /\ \/ p[1] \notin retired /\ rows[p[1]] = p[2] /\ fields[p[1]] = {"content", "meta"}
           \/ p[1] \in retired /\ rows[p[1]] \in {NoRow, p[2]}
        /\ \A d \in Creators : \A q \in saves[d] : p[1] = q[1] => c = d

PostsInv == \A c \in Creators : Whole(c) /\ (pc[c] = "insert" => HalfWritten(c))

(* Every row in the hands of a request was stored whole. *)
Handed ==
    /\ \A q \in Clients : loc[q].seen # NoRow =>
          <<loc[q].slug, loc[q].seen>> \in saves[loc[q].seen.content]
    /\ \A q \in Readers : got[q] # NoRow =>
          \E s \in Slugs : <<s, got[q]>> \in saves[got[q].content]

(* A burn paste that was handed out has no content in Redis. *)
Burned ==
    \A r \in Readers : \A s \in Slugs :
        got[r] # NoRow /\ got[r].burn /\ HasContent(s)
            => rows[s].content # got[r].content

HashesInv ==
    StoredOnce /\ HashInv /\ Origin /\ PostsInv /\ Handed /\ Burned /\ BurnOnce

(* A client asks for a slug under which a paste was stored. *)
Active(q) == pc[q] \notin {"idle", "done"}
AskedFor(q) == \E c \in Creators : \E p \in saves[c] : p[1] = loc[q].slug
Asked == \A q \in Clients : Active(q) => AskedFor(q)

RedisInv == RedisTypeInv /\ HashesInv /\ Asked /\ GetSparesBurn

LEMMA RedisTypes ==
    ASSUME RedisTypeInv
    PROVE  /\ TypeOK
           /\ rows \in [Slugs -> Row \cup {NoRow}] /\ retired \subseteq Slugs
           /\ fields \in [Slugs -> SUBSET {"content", "meta"}]
           /\ \A s \in Slugs : rows[s] = NoRow <=> fields[s] = {}
           /\ got \in [Readers -> Row \cup {NoRow}]
           /\ saves \in [Creators -> SUBSET (Slugs \X Row)]
           /\ \A row \in Row : row.content \in Creators
           /\ \A q \in Clients : loc[q].seen \in Row \cup {NoRow}
           /\ \A q \in Readers : q \in Clients
           /\ \A c \in Creators : pc[c] = "insert" => loc[c].slug \in Slugs
BY Types DEF RedisTypeInv, RedisTypeOK, Placed

(* What a client can see under the slug it asked for. *)
LEMMA AskedRow ==
    ASSUME RedisTypeInv, HashesInv, NEW q \in Clients, AskedFor(q), rows[loc[q].slug] # NoRow
    PROVE  /\ loc[q].slug \in Slugs /\ rows[loc[q].slug].content \in Creators
           /\ <<loc[q].slug, rows[loc[q].slug]>> \in saves[rows[loc[q].slug].content]
<1> DEFINE s == loc[q].slug
<1>1. PICK c \in Creators : \E p \in saves[c] : p[1] = s
  BY DEF AskedFor
<1>2. PICK p \in saves[c] : p[1] = s
  BY <1>1
<1>3. p \in Slugs \X Row
  BY RedisTypes
<1>4. p[2].content = c /\ rows[s] = p[2]
  BY <1>2 DEF HashesInv, PostsInv, Whole
<1>5. p = <<s, rows[s]>>
  BY <1>2, <1>3, <1>4
<1> QED
  BY <1>2, <1>3, <1>4, <1>5

(* Steps in which no POST writes: the invariant's parts about the POSTs.   *)
LEMMA KeptStored == ASSUME StoredOnce, PostsKept(Creators) PROVE StoredOnce'
BY DEF StoredOnce, PostsKept, BeforeGate

LEMMA KeptSame ==
    ASSUME RedisTypeInv, HashesInv, PostsKept(Creators), SameHashes
    PROVE  HashInv' /\ Origin' /\ PostsInv'
<1>1. rows' = rows /\ retired' = retired /\ fields' = fields
  BY DEF SameHashes
<1>2. HashInv'
  BY <1>1 DEF HashesInv, HashInv, HasContent
<1>3. Origin'
  <2> SUFFICES ASSUME NEW s \in Slugs, rows[s] # NoRow
               PROVE  /\ pc'[rows[s].content] \notin BeforeGate
                      /\ pc'[rows[s].content] = "insert" => loc'[rows[s].content].slug = s
                      /\ \A p \in saves'[rows[s].content] : p[1] = s
    BY <1>1 DEF Origin
  <2>1. rows[s].content \in Creators
    BY RedisTypes
  <2> QED
    BY <2>1 DEF HashesInv, Origin, PostsKept
<1>4. ASSUME NEW c \in Creators PROVE Whole(c)'
  BY <1>1 DEF HashesInv, PostsInv, Whole, PostsKept
<1>5. ASSUME NEW c \in Creators, pc'[c] = "insert" PROVE HalfWritten(c)'
  <2>1. loc'[c].slug = loc[c].slug /\ HalfWritten(c)
    BY <1>5 DEF HashesInv, PostsInv, PostsKept
  <2> QED
    BY <1>1, <2>1 DEF HalfWritten, HasContent, HasMeta, PostsKept
<1> QED
  BY <1>2, <1>3, <1>4, <1>5 DEF PostsInv

LEMMA KeptDrop ==
    ASSUME RedisTypeInv, HashesInv, PostsKept(Creators), NEW S \in SUBSET Slugs, Drop(S)
    PROVE  HashInv' /\ Origin' /\ PostsInv'
<1>1. \A s \in Slugs : /\ rows'[s] = IF s \in S THEN NoRow ELSE rows[s]
                       /\ fields'[s] = IF s \in S THEN {} ELSE fields[s]
                       /\ s \in retired' <=> s \in retired \/ (s \in S /\ rows[s] # NoRow)
  BY DEF Drop, Remove
<1>2. HashInv'
  BY <1>1 DEF HashesInv, HashInv, HasContent
<1>3. Origin'
  <2> SUFFICES ASSUME NEW s \in Slugs, rows[s] # NoRow, rows'[s] = rows[s]
               PROVE  /\ pc'[rows[s].content] \notin BeforeGate
                      /\ pc'[rows[s].content] = "insert" => loc'[rows[s].content].slug = s
                      /\ \A p \in saves'[rows[s].content] : p[1] = s
    BY <1>1 DEF Origin
  <2>1. rows[s].content \in Creators
    BY RedisTypes
  <2> QED
    BY <2>1 DEF HashesInv, Origin, PostsKept
<1>4. ASSUME NEW c \in Creators PROVE Whole(c)'
  <2>1. saves'[c] = saves[c] /\ \A p \in saves[c] : p[1] \in Slugs /\ p[2] # NoRow
    BY RedisTypes, Absent DEF PostsKept
  <2>2. Whole(c)
    BY DEF HashesInv, PostsInv
  <2>3. \A p \in saves[c] :
          \/ p[1] \notin retired' /\ rows'[p[1]] = p[2] /\ fields'[p[1]] = {"content", "meta"}
          \/ p[1] \in retired' /\ rows'[p[1]] \in {NoRow, p[2]}
    BY <1>1, <2>1, <2>2 DEF Whole
  <2> QED
    BY <2>1, <2>2, <2>3 DEF Whole, PostsKept
<1>5. ASSUME NEW c \in Creators, pc'[c] = "insert" PROVE HalfWritten(c)'
  <2>1. loc'[c].slug = loc[c].slug /\ HalfWritten(c) /\ loc[c].slug \in Slugs
    BY <1>5, RedisTypes DEF HashesInv, PostsInv, PostsKept
  <2> QED
    BY <1>1, <2>1 DEF HalfWritten, HasContent, HasMeta, PostsKept
<1> QED
  BY <1>2, <1>3, <1>4, <1>5 DEF PostsInv

LEMMA KeptHanded ==
    ASSUME RedisTypeInv, HashesInv, LocKept, UNCHANGED got,
           \A c \in Creators : saves[c] \subseteq saves'[c]
    PROVE  Handed'
<1>1. ASSUME NEW q \in Clients, loc'[q].seen # NoRow
      PROVE  <<loc'[q].slug, loc'[q].seen>> \in saves'[loc'[q].seen.content]
  <2>1. loc'[q].seen = loc[q].seen /\ loc'[q].slug = loc[q].slug
    BY <1>1 DEF LocKept
  <2>2. loc[q].seen.content \in Creators
    BY <1>1, <2>1, RedisTypes
  <2> QED
    BY <1>1, <2>1, <2>2 DEF HashesInv, Handed
<1>2. ASSUME NEW q \in Readers, got[q] # NoRow
      PROVE  \E s \in Slugs : <<s, got[q]>> \in saves'[got[q].content]
  <2>1. got[q].content \in Creators
    BY <1>2, RedisTypes
  <2> QED
    BY <1>2, <2>1 DEF HashesInv, Handed
<1> QED
  BY <1>1, <1>2 DEF Handed

(* The shapes one by one. *)
LEMMA QuietHashes ==
    ASSUME RedisTypeInv, HashesInv, RedisQuiet \/ Dropping PROVE HashesInv'
<1>1. PostsKept(Creators) /\ LocKept /\ got' = got
  BY DEF RedisQuiet, Dropping
<1>2. \A c \in Creators : saves'[c] = saves[c]
  BY <1>1 DEF PostsKept
<1>3. StoredOnce' /\ Handed'
  BY <1>1, <1>2, KeptStored, KeptHanded DEF HashesInv
<1>4. HashInv' /\ Origin' /\ PostsInv'
  BY <1>1, KeptSame, KeptDrop DEF RedisQuiet, Dropping
<1>5. Burned' /\ BurnOnce'
  <2>1. ASSUME NEW s \in Slugs, HasContent(s)' PROVE HasContent(s) /\ rows'[s] = rows[s]
    BY <2>1 DEF RedisQuiet, Dropping, SameHashes, HasContent, Drop, Remove
  <2> QED
    BY <1>1, <2>1 DEF HashesInv, Burned, BurnOnce
<1> QED
  BY <1>3, <1>4, <1>5 DEF HashesInv

LEMMA GatingHashes ==
    ASSUME ~Reuse, RedisTypeInv, HashesInv, NEW c \in Creators, NEW s \in Slugs, Gating(c, s)
    PROVE  HashesInv'
<1>1. /\ pc[c] = "save" /\ pc'[c] \in {"insert", "done"}
      /\ pc'[c] = "insert" => loc'[c].slug = s
      /\ saves' = saves /\ got' = got /\ retired' = retired
      /\ PostsKept(Creators \ {c}) /\ LocKept
  BY DEF Gating, SetContent
<1>2. s \notin retired /\ ~HasContent(s) /\ rows[s] = NoRow /\ ~HasMeta(s)
  <2>1. s \notin retired /\ ~HasContent(s)
    BY DEF Gating, Drawable, Free
  <2>2. rows[s] = NoRow
    BY <2>1 DEF HashesInv, HashInv
  <2> QED
    BY <2>1, <2>2, RedisTypes DEF HasMeta
<1>3. saves[c] = {}
  BY <1>1 DEF HashesInv, StoredOnce
<1> DEFINE new == WithContent(c, s)
<1>4. NewRow(c) \in Row /\ NewRow(c).content = c
  BY <1>1, RedisTypes, SentType DEF NewRow
<1>5. new \in Row /\ new.content = c /\ new.expire = Never
  <2>1. new \in Row
    BY <1>1, <1>2, RedisTypes, WrittenType
  <2>2. \A row \in Row :
            LET n == [row EXCEPT !.burn = FALSE, !.prot = FALSE, !.expire = Never, !.key = NoKey]
            IN  n.content = row.content /\ n.expire = Never
    BY DEF Row
  <2> QED
    BY <1>2, <1>4, <2>1, <2>2 DEF WithContent
<1> HIDE DEF new
<1>6. /\ \A u \in Slugs : rows'[u] = IF u = s THEN new ELSE rows[u]
      /\ \A u \in Slugs : fields'[u] = IF u = s THEN {"content"} ELSE fields[u]
  <2>1. rows' = [rows EXCEPT ![s] = new] /\ fields' = [fields EXCEPT ![s] = @ \cup {"content"}]
    BY DEF Gating, SetContent, new
  <2>2. fields[s] = {}
    BY <1>2, RedisTypes
  <2> QED
    BY <2>1, <2>2, RedisTypes
<1>7. new # NoRow
  BY <1>5, Absent
(* Nobody had the slug. *)
<1>8. \A d \in Creators : /\ pc[d] = "insert" => loc[d].slug # s /\ loc[d].slug \in Slugs
                          /\ \A p \in saves[d] : p[1] # s /\ p[1] \in Slugs
  <2> SUFFICES ASSUME NEW d \in Creators
               PROVE  /\ pc[d] = "insert" => loc[d].slug # s /\ loc[d].slug \in Slugs
                      /\ \A p \in saves[d] : p[1] # s /\ p[1] \in Slugs
    OBVIOUS
  <2>1. Whole(d) /\ (pc[d] = "insert" => HalfWritten(d))
    BY DEF HashesInv, PostsInv
  <2>2. pc[d] = "insert" => loc[d].slug # s /\ loc[d].slug \in Slugs
    BY <1>2, <2>1, RedisTypes DEF HalfWritten
  <2>3. \A p \in saves[d] : p[1] # s /\ p[1] \in Slugs
    BY <1>2, <2>1, RedisTypes, Absent DEF Whole
  <2> QED
    BY <2>2, <2>3
<1>9. StoredOnce'
  BY <1>1, <1>3 DEF HashesInv, StoredOnce, PostsKept, BeforeGate
<1>10. HashInv'
  BY <1>1, <1>2, <1>6 DEF HashesInv, HashInv, HasContent
<1>11. Origin'
  <2> SUFFICES ASSUME NEW u \in Slugs, rows'[u] # NoRow
               PROVE  LET d == rows'[u].content
                      IN  /\ pc'[d] \notin BeforeGate
                          /\ pc'[d] = "insert" => loc'[d].slug = u
                          /\ \A p \in saves'[d] : p[1] = u
    BY DEF Origin
  <2>1. CASE u = s
    BY <1>1, <1>3, <1>5, <1>6, <2>1 DEF BeforeGate
  <2>2. CASE u # s
    <3> DEFINE d == rows[u].content
    <3>1. rows'[u] = rows[u] /\ rows[u] # NoRow /\ d \in Creators
      BY <1>6, <2>2, RedisTypes
    <3>2. /\ pc[d] \notin BeforeGate
          /\ pc[d] = "insert" => loc[d].slug = u
          /\ \A p \in saves[d] : p[1] = u
      BY <3>1 DEF HashesInv, Origin
    <3>3. d # c
      BY <1>1, <3>2 DEF BeforeGate
    <3> HIDE DEF d
    <3>4. /\ pc'[d] \notin BeforeGate
          /\ pc'[d] = "insert" => loc'[d].slug = u
      BY <1>1, <3>1, <3>2, <3>3 DEF PostsKept
    <3> QED
      BY <1>1, <3>1, <3>2, <3>4 DEF d
  <2> QED
    BY <2>1, <2>2
<1>12. ASSUME NEW d \in Creators PROVE Whole(d)'
  BY <1>1, <1>6, <1>8 DEF HashesInv, PostsInv, Whole
<1>13. ASSUME NEW d \in Creators, pc'[d] = "insert" PROVE HalfWritten(d)'
  <2>1. \A e \in Creators : e # c /\ pc'[e] = "insert" =>
            /\ pc[e] = "insert" /\ loc'[e].slug = loc[e].slug
            /\ loc[e].slug # s /\ loc[e].slug \in Slugs
    BY <1>1, <1>8 DEF PostsKept
  <2>2. CASE d = c
    BY <1>1, <1>2, <1>5, <1>6, <1>7, <1>8, <1>13, <2>1, <2>2
       DEF HalfWritten, HasContent, HasMeta
  <2>3. CASE d # c
    <3>1. HalfWritten(d) /\ pc[d] = "insert"
      BY <1>13, <2>1, <2>3 DEF HashesInv, PostsInv
    <3>2. \A e \in Creators : e # d => (pc'[e] = "insert" => loc'[e].slug # loc'[d].slug)
      BY <1>1, <1>13, <2>1, <2>3, <3>1 DEF HalfWritten
    <3>3. \A e \in Creators : e # d => \A p \in saves'[e] : p[1] # loc'[d].slug
      BY <1>1, <1>13, <2>1, <2>3, <3>1 DEF HalfWritten
    <3>4. /\ loc'[d].slug = loc[d].slug /\ rows'[loc[d].slug] = rows[loc[d].slug]
          /\ fields'[loc[d].slug] = fields[loc[d].slug]
      BY <1>6, <1>13, <2>1, <2>3
    <3> QED
      BY <1>1, <3>1, <3>2, <3>3, <3>4 DEF HalfWritten, HasContent, HasMeta
  <2> QED
    BY <2>2, <2>3
<1>14. Handed'
  BY <1>1, KeptHanded
<1>15. Burned' /\ BurnOnce'
  <2>1. ASSUME NEW r \in Readers, got[r] # NoRow PROVE got[r].content # c
    BY <1>3, <2>1 DEF HashesInv, Handed
  <2> QED
    BY <1>1, <1>5, <1>6, <2>1 DEF HashesInv, Burned, BurnOnce, HasContent
<1> QED
  BY <1>9, <1>10, <1>11, <1>12, <1>13, <1>14, <1>15 DEF HashesInv, PostsInv

LEMMA FillingHashes ==
    ASSUME RedisTypeInv, HashesInv, NEW c \in Creators, Filling(c)
    PROVE  HashesInv'
<1> DEFINE s == loc[c].slug
           new == Sent(c)
<1>1. /\ pc[c] = "insert" /\ pc'[c] \in {"created", "done"} /\ SetMeta(c)
      /\ got' = got /\ retired' = retired /\ PostsKept(Creators \ {c}) /\ LocKept
  BY DEF Filling, SetMeta
<1>2. s \in Slugs /\ HalfWritten(c) /\ saves[c] = {}
  BY <1>1, RedisTypes DEF HashesInv, PostsInv, StoredOnce
<1>3. new \in Row /\ new.content = c /\ new # NoRow
  BY <1>1, RedisTypes, SentType, Absent
<1>4. WithMeta(c, s) = new
  <2>1. CASE rows[s] = NoRow
    BY <2>1 DEF WithMeta
  <2>2. CASE rows[s] # NoRow
    <3>1. rows[s].content = c /\ rows[s].expire = Never
      BY <1>2, <2>2 DEF HalfWritten
    <3>2. WithMeta(c, s) = [Sent(c) EXCEPT !.content = rows[s].content,
                                           !.expire = IF @ = Never THEN rows[s].expire ELSE @]
      BY <2>2 DEF WithMeta
    <3>3. \A row \in Row : [row EXCEPT !.content = row.content,
                              !.expire = IF @ = Never THEN Never ELSE @] = row
      BY DEF Row
    <3> QED
      BY <1>3, <3>1, <3>2, <3>3
  <2> QED
    BY <2>1, <2>2
<1>5. /\ \A u \in Slugs : rows'[u] = IF u = s THEN new ELSE rows[u]
      /\ \A u \in Slugs : fields'[u] = IF u = s THEN fields[s] \cup {"meta"} ELSE fields[u]
      /\ saves'[c] = {<<s, new>>} /\ \A d \in Creators : d # c => saves'[d] = saves[d]
  BY <1>1, <1>2, <1>4, RedisTypes DEF SetMeta
<1> HIDE DEF new
<1>6. (s \in retired /\ ~HasContent(s)) \/ (s \notin retired /\ fields'[s] = {"content", "meta"})
  <2>1. CASE s \in retired
    BY <1>2, <2>1 DEF HashesInv, HashInv
  <2>2. CASE s \notin retired
    BY <1>2, <1>5, <2>2, RedisTypes DEF HalfWritten, HasContent
  <2> QED
    BY <2>1, <2>2
<1>7. \A d \in Creators : d # c => /\ pc[d] = "insert" => loc[d].slug # s /\ loc[d].slug \in Slugs
                                   /\ \A p \in saves[d] : p[1] # s /\ p[1] \in Slugs
  BY <1>2, RedisTypes DEF HalfWritten
<1>8. StoredOnce'
  BY <1>1, <1>5 DEF HashesInv, StoredOnce, PostsKept, BeforeGate
<1>9. HashInv'
  BY <1>1, <1>5, <1>6 DEF HashesInv, HashInv, HasContent
<1>10. Origin'
  <2> SUFFICES ASSUME NEW u \in Slugs, rows'[u] # NoRow
               PROVE  LET d == rows'[u].content
                      IN  /\ pc'[d] \notin BeforeGate
                          /\ pc'[d] = "insert" => loc'[d].slug = u
                          /\ \A p \in saves'[d] : p[1] = u
    BY DEF Origin
  <2>1. CASE u = s
    BY <1>1, <1>3, <1>5, <2>1 DEF BeforeGate
  <2>2. CASE u # s
    <3> DEFINE d == rows[u].content
    <3>1. rows'[u] = rows[u] /\ rows[u] # NoRow /\ d \in Creators
      BY <1>5, <2>2, RedisTypes
    <3>2. /\ pc[d] \notin BeforeGate
          /\ pc[d] = "insert" => loc[d].slug = u
          /\ \A p \in saves[d] : p[1] = u
      BY <3>1 DEF HashesInv, Origin
    <3>3. d # c
      BY <1>1, <2>2, <3>2
    <3> HIDE DEF d
    <3>4. /\ pc'[d] \notin BeforeGate
          /\ pc'[d] = "insert" => loc'[d].slug = u
          /\ saves'[d] = saves[d]
      BY <1>1, <3>1, <3>2, <3>3 DEF PostsKept
    <3> QED
      BY <3>1, <3>2, <3>4 DEF d
  <2> QED
    BY <2>1, <2>2
<1>11. ASSUME NEW d \in Creators PROVE Whole(d)'
  <2>1. CASE d = c
    <3>1. \A p \in saves'[c] : p = <<s, new>>
      BY <1>5
    <3>2. \A e \in Creators : \A q \in saves'[e] : q[1] = s => c = e
      BY <1>5, <1>7
    <3> QED
      BY <1>1, <1>2, <1>3, <1>5, <1>6, <2>1, <3>1, <3>2 DEF Whole
  <2>2. CASE d # c
    <3>1. \A e \in Creators : \A p \in saves[d], q \in saves'[e] : p[1] = q[1] => d = e
      BY <1>5, <1>7, <2>2 DEF HashesInv, PostsInv, Whole
    <3> QED
      BY <1>1, <1>5, <1>7, <2>2, <3>1 DEF HashesInv, PostsInv, Whole
  <2> QED
    BY <2>1, <2>2
<1>12. ASSUME NEW d \in Creators, pc'[d] = "insert" PROVE HalfWritten(d)'
  <2>1. d # c
    BY <1>1, <1>12
  <2>2. \A e \in Creators : e # c /\ pc'[e] = "insert" =>
            pc[e] = "insert" /\ loc'[e].slug = loc[e].slug
    BY <1>1 DEF PostsKept
  <2>3. HalfWritten(d) /\ loc'[d].slug = loc[d].slug /\ loc[d].slug # s /\ loc[d].slug \in Slugs
    BY <1>7, <1>12, <2>1, <2>2 DEF HashesInv, PostsInv
  <2>4. \A e \in Creators : e # d => (pc'[e] = "insert" => loc'[e].slug # loc[d].slug)
    BY <1>1, <2>2, <2>3 DEF HalfWritten
  <2>5. \A e \in Creators : e # d => \A p \in saves'[e] : p[1] # loc[d].slug
    BY <1>5, <2>3 DEF HalfWritten
  <2> QED
    BY <1>1, <1>5, <2>3, <2>4, <2>5 DEF HalfWritten, HasContent, HasMeta
<1>13. Handed'
  BY <1>1, <1>2, <1>5, KeptHanded
<1>14. Burned' /\ BurnOnce'
  <2>1. ASSUME NEW r \in Readers, got[r] # NoRow PROVE got[r].content # c
    BY <1>2, <2>1 DEF HashesInv, Handed
  <2>2. \A u \in Slugs : u # s => (HasContent(u)' <=> HasContent(u))
    BY <1>5 DEF HasContent
  <2> QED
    BY <1>1, <1>3, <1>5, <2>1, <2>2 DEF HashesInv, Burned, BurnOnce
<1> QED
  BY <1>8, <1>9, <1>10, <1>11, <1>12, <1>13, <1>14 DEF HashesInv, PostsInv

LEMMA LookingHashes ==
    ASSUME RedisTypeInv, HashesInv, Asked, NEW r \in Clients, Looking(r) PROVE HashesInv'
<1>1. /\ SameHashes /\ got' = got /\ PostsKept(Creators)
      /\ \A c \in Creators : saves'[c] = saves[c]
  BY DEF Looking, PostsKept
<1>2. StoredOnce' /\ HashInv' /\ Origin' /\ PostsInv'
  BY <1>1, KeptStored, KeptSame DEF HashesInv
<1>3. ASSUME NEW q \in Clients, loc'[q].seen # NoRow
      PROVE  <<loc'[q].slug, loc'[q].seen>> \in saves'[loc'[q].seen.content]
  <2>1. CASE q = r
    <3>1. /\ loc'[q].slug = loc[q].slug /\ loc'[q].seen = rows[loc[q].slug]
          /\ AskedFor(q)
      BY <1>3, <2>1 DEF Looking, Asked, Active
    <3> QED
      BY <1>1, <1>3, <3>1, AskedRow
  <2>2. CASE q # r
    <3>1. loc'[q] = loc[q] /\ loc[q].seen.content \in Creators
      BY <1>3, <2>2, RedisTypes DEF Looking
    <3> QED
      BY <1>1, <1>3, <3>1 DEF HashesInv, Handed
  <2> QED
    BY <2>1, <2>2
<1>4. ASSUME NEW q \in Readers, got'[q] # NoRow
      PROVE  \E s \in Slugs : <<s, got'[q]>> \in saves'[got'[q].content]
  <2>1. got[q].content \in Creators
    BY <1>1, <1>4, RedisTypes
  <2> QED
    BY <1>1, <1>4, <2>1 DEF HashesInv, Handed
<1>5. Burned' /\ BurnOnce'
  BY <1>1 DEF HashesInv, Burned, BurnOnce, SameHashes, HasContent
<1> QED
  BY <1>2, <1>3, <1>4, <1>5 DEF HashesInv, Handed

(* A reader receives a row that was stored: what this gives for got. *)
LEMMA ReceivedHashes ==
    ASSUME RedisTypeInv, HashesInv, LocKept, PostsKept(Creators),
           NEW r \in Readers, NEW s \in Slugs, NEW row \in Row,
           got' = [got EXCEPT ![r] = row], <<s, row>> \in saves[row.content]
    PROVE  /\ Handed'
           /\ \A q \in Readers : got'[q] = IF q = r THEN row ELSE got[q]
           /\ \A q \in Readers : got[q] # NoRow /\ got[q].content = row.content => got[q] = row
<1>1. \A q \in Readers : got'[q] = IF q = r THEN row ELSE got[q]
  BY RedisTypes
<1>2. row.content \in Creators /\ \A c \in Creators : saves'[c] = saves[c]
  BY RedisTypes DEF PostsKept
<1>3. ASSUME NEW q \in Clients, loc'[q].seen # NoRow
      PROVE  <<loc'[q].slug, loc'[q].seen>> \in saves'[loc'[q].seen.content]
  <2>1. loc'[q].seen = loc[q].seen /\ loc'[q].slug = loc[q].slug
    BY <1>3 DEF LocKept
  <2>2. loc[q].seen.content \in Creators
    BY <1>3, <2>1, RedisTypes
  <2> QED
    BY <1>2, <1>3, <2>1, <2>2 DEF HashesInv, Handed
<1>4. ASSUME NEW q \in Readers, got'[q] # NoRow
      PROVE  \E u \in Slugs : <<u, got'[q]>> \in saves'[got'[q].content]
  <2>1. CASE q = r
    BY <1>1, <1>2, <2>1
  <2>2. CASE q # r
    <3>1. got'[q] = got[q] /\ got[q].content \in Creators
      BY <1>1, <1>4, <2>2, RedisTypes
    <3> QED
      BY <1>2, <1>4, <3>1 DEF HashesInv, Handed
  <2> QED
    BY <2>1, <2>2
<1>5. ASSUME NEW q \in Readers, got[q] # NoRow, got[q].content = row.content
      PROVE  got[q] = row
  <2>1. PICK u \in Slugs : <<u, got[q]>> \in saves[row.content]
    BY <1>5 DEF HashesInv, Handed
  <2>2. <<u, got[q]>> = <<s, row>>
    BY <1>2, <2>1 DEF HashesInv, StoredOnce
  <2> QED
    BY <2>2
<1> QED
  BY <1>1, <1>3, <1>4, <1>5 DEF Handed

LEMMA ServingHashes ==
    ASSUME RedisTypeInv, HashesInv, NEW r \in Readers, Serving(r) PROVE HashesInv'
<1> DEFINE row == loc[r].seen
           s == loc[r].slug
<1>1. SameHashes /\ PostsKept(Creators) /\ LocKept /\ row # NoRow /\ ~row.burn
  BY DEF Serving
<1>2. row \in Row /\ row.content \in Creators /\ <<s, row>> \in saves[row.content]
  BY <1>1, RedisTypes DEF HashesInv, Handed
<1>3. s \in Slugs
  BY <1>2, RedisTypes
<1>4. got' = [got EXCEPT ![r] = row]
  BY DEF Serving
<1> HIDE DEF row, s
<1>5. /\ Handed'
      /\ \A q \in Readers : got'[q] = IF q = r THEN row ELSE got[q]
      /\ \A q \in Readers : got[q] # NoRow /\ got[q].content = row.content => got[q] = row
  <2>1. row \in Row /\ s \in Slugs /\ LocKept /\ PostsKept(Creators)
    BY <1>1, <1>2, <1>3
  <2> QED
    BY <1>2, <1>4, <2>1, ReceivedHashes
<1>6. StoredOnce' /\ HashInv' /\ Origin' /\ PostsInv'
  BY <1>1, KeptStored, KeptSame DEF HashesInv
<1>7. Burned'
  BY <1>1, <1>5 DEF HashesInv, Burned, SameHashes, HasContent
<1>8. BurnOnce'
  BY <1>1, <1>5 DEF HashesInv, BurnOnce
<1> QED
  BY <1>5, <1>6, <1>7, <1>8 DEF HashesInv

LEMMA TakingHashes ==
    ASSUME RedisTypeInv, HashesInv, Asked, NEW r \in Readers, Taking(r) PROVE HashesInv'
<1> DEFINE s == loc[r].slug
           row == rows[s]
<1>1. /\ s \in Slugs /\ HasContent(s) /\ Drop({s}) /\ PostsKept(Creators) /\ LocKept
      /\ got' = [got EXCEPT ![r] = row] /\ r \in Clients /\ AskedFor(r)
  BY RedisTypes DEF Taking, Asked, Active
<1>2. row # NoRow
  BY <1>1, RedisTypes DEF HasContent
<1>3. row \in Row /\ row.content \in Creators /\ <<s, row>> \in saves[row.content]
  BY <1>1, <1>2, AskedRow, RedisTypes
<1>4. \A u \in Slugs : HasContent(u)' => u # s /\ HasContent(u) /\ rows'[u] = rows[u]
  BY <1>1 DEF Drop, Remove, HasContent
<1>5. \A u \in Slugs : u # s /\ HasContent(u) => rows[u].content # row.content
  <2> SUFFICES ASSUME NEW u \in Slugs, u # s, HasContent(u), rows[u].content = row.content
               PROVE  FALSE
    OBVIOUS
  <2>1. rows[u] # NoRow
    BY RedisTypes DEF HasContent
  <2>2. \A p \in saves[row.content] : p[1] = u
    BY <2>1 DEF HashesInv, Origin
  <2> QED
    BY <1>3, <2>2
<1>6. \A q \in Readers : got[q] # NoRow /\ got[q].burn => got[q].content # row.content
  BY <1>1 DEF HashesInv, Burned
<1> HIDE DEF row
<1>7. /\ Handed'
      /\ \A q \in Readers : got'[q] = IF q = r THEN row ELSE got[q]
      /\ \A q \in Readers : got[q] # NoRow /\ got[q].content = row.content => got[q] = row
  BY <1>1, <1>3, ReceivedHashes
<1>8. StoredOnce' /\ HashInv' /\ Origin' /\ PostsInv'
  BY <1>1, KeptStored, KeptDrop DEF HashesInv
<1>9. Burned'
  BY <1>4, <1>5, <1>7 DEF HashesInv, Burned
<1>10. BurnOnce'
  BY <1>6, <1>7 DEF HashesInv, BurnOnce
<1> QED
  BY <1>7, <1>8, <1>9, <1>10 DEF HashesInv

-----------------------------------------------------------------------------
(* The clients.                                                            *)

LEMMA SavesKept ==
    ASSUME RedisTypeInv, RedisShape, NEW c \in Creators PROVE saves[c] \subseteq saves'[c]
<1>1. CASE \E d \in Creators : Filling(d)
  BY <1>1, RedisTypes DEF Filling, SetMeta
<1>2. CASE \E d \in Creators, s \in Slugs : Gating(d, s)
  BY <1>2 DEF Gating, SetContent
<1>3. CASE PostsKept(Creators)
  BY <1>3 DEF PostsKept
<1> QED
  BY <1>1, <1>2, <1>3 DEF RedisShape, RedisQuiet, Dropping, Looking, Serving, Taking

(* Where a client's request goes in one step. *)
Arrived(q) ==
    /\ pc'[q] \in {"peek", "erase"} /\ loc'[q].slug \in Slugs
    /\ Guess \/ Announced(loc'[q].slug)

GoesOn(q) ==
    /\ Active(q) /\ loc'[q].slug = loc[q].slug
    /\ \/ pc'[q] = pc[q] /\ loc'[q].seen = loc[q].seen
       \/ pc'[q] \notin {"get", "got"}
       \/ pc'[q] = "get" /\ loc'[q].seen # NoRow /\ ~loc'[q].seen.burn
       \/ pc[q] = "get" /\ pc'[q] = "got" /\ loc'[q].seen \in {NoRow, rows[loc[q].slug]}

LEMMA RedisClientGoes ==
    ASSUME TypeOK, NEW q \in Clients,
           \/ \E s \in Slugs, label \in {"peek", "erase"} :
                 (Guess \/ Announced(s)) /\ Arrive(q, s, label)
           \/ q \in Readers /\ RedisFetchStep(q)
           \/ q \in Deleters /\ RedisDeleteStep(q)
    PROVE  ~Active(q)' \/ Arrived(q) \/ GoesOn(q)
<1>1. q \in Requests /\ loc \in [Requests -> Local] /\ DOMAIN pc = Requests
  BY ClientsCreators DEF TypeOK, PlacesOK
<1>2. ASSUME NEW label, Goto(q, label) PROVE pc'[q] = label
  BY <1>1, <1>2 DEF Goto
<1>3. ASSUME NEW code, Finish(q, code) PROVE ~Active(q)'
  BY <1>2, <1>3 DEF Finish, Active
<1>4. ASSUME Active(q), UNCHANGED loc, NEW label, Goto(q, label), label \notin {"get", "got"}
      PROVE  GoesOn(q)
  BY <1>2, <1>4 DEF GoesOn
<1>5. ASSUME Active(q), q \in Readers, NEW row, Deliver(q, row)
      PROVE  ~Active(q)' \/ GoesOn(q)
  BY <1>3, <1>4, <1>5 DEF Deliver
<1>6. ASSUME NEW row, NEW to, Look(q, row, to)
      PROVE  pc'[q] = to /\ loc'[q].slug = loc[q].slug /\ loc'[q].seen = row
  BY <1>1, <1>2, <1>6 DEF Look, Local
<1>a. CASE \E s \in Slugs, label \in {"peek", "erase"} :
              (Guess \/ Announced(s)) /\ Arrive(q, s, label)
  <2>1. PICK s \in Slugs, label \in {"peek", "erase"} :
            (Guess \/ Announced(s)) /\ Arrive(q, s, label)
    BY <1>a
  <2>2. loc'[q] = [NoLocal EXCEPT !.slug = s] /\ pc'[q] = label
    BY <1>1, <1>2, <2>1 DEF Arrive
  <2>3. loc'[q].slug = s
    BY <2>2 DEF NoLocal
  <2> QED
    BY <2>1, <2>2, <2>3 DEF Arrived
<1>b. CASE RedisPeekMeta(q)
  BY <1>6, <1>b DEF RedisPeekMeta, GoesOn, Active
<1>c. CASE RedisGet(q)
  BY <1>6, <1>c DEF RedisGet, GoesOn, Active
<1>d. CASE q \in Readers /\ RedisGetAndDelete(q)
  BY <1>5, <1>d DEF RedisGetAndDelete, Active
<1>e. CASE RedisFetchFails(q)
  BY <1>4, <1>e DEF RedisFetchFails, Active
<1>f. CASE FetchDecide(q)
  <2>1. UNCHANGED loc /\ Active(q)
    BY <1>f DEF FetchDecide, Returned, Active
  <2>2. \/ \E label \in {"fallback", "take"} : Goto(q, label)
        \/ Goto(q, "get") /\ loc[q].seen # NoRow /\ ~loc[q].seen.burn
    BY <1>f DEF FetchDecide
  <2> QED
    BY <1>2, <1>4, <2>1, <2>2 DEF GoesOn
<1>g. CASE q \in Readers /\ FetchGot(q)
  BY <1>5, <1>g DEF FetchGot, Returned, Active
<1>h. CASE q \in Readers /\ FetchFellBack(q)
  BY <1>4, <1>5, <1>h DEF FetchFellBack, Returned, Active
<1>i. CASE TakeStamp(q)
  <2>1. loc'[q] = [loc[q] EXCEPT !.stamp = now] /\ pc'[q] = "taking" /\ Active(q)
    BY <1>1, <1>2, <1>i DEF TakeStamp, Active
  <2> QED
    BY <1>1, <2>1 DEF GoesOn, Local
<1>j. CASE FetchFailed(q) \/ Decrypt(q) \/ RedisDelete(q)
  BY <1>3, <1>j DEF FetchFailed, Decrypt, RedisDelete
<1>k. CASE DeleteDecide(q)
  BY <1>3, <1>4, <1>k DEF DeleteDecide, Returned, Active
<1> QED
  BY <1>a, <1>b, <1>c, <1>d, <1>e, <1>f, <1>g, <1>h, <1>i, <1>j, <1>k
     DEF RedisFetchStep, RedisDeleteStep

(* A step of another request does not touch a client's.                    *)
LEMMA RedisIsolation ==
    ASSUME TypeOK, NEW q \in Clients, NEW r \in Requests, q # r,
           UNCHANGED pc \/ \E label : Goto(r, label),
           UNCHANGED loc \/ \E l : loc' = [loc EXCEPT ![r] = l]
    PROVE  pc'[q] = pc[q] /\ loc'[q] = loc[q]
BY ClientsCreators DEF TypeOK, PlacesOK, Goto

LEMMA RedisPostAlone ==
    ASSUME NEW c \in Creators, RedisCreateStep(c) \/ CreateArrive(c)
    PROVE  /\ UNCHANGED pc \/ \E label : Goto(c, label)
           /\ UNCHANGED loc \/ \E l : loc' = [loc EXCEPT ![c] = l]
BY DEF RedisCreateStep, CreateArrive, CreateGate, CreateEncode, CreateReply, Gate,
   GateConflict, GateFails, Fill, FillFails, TryAgain, Release, Finish

LEMMA RedisClientAlone ==
    ASSUME NEW r \in Clients,
           \/ \E s \in Slugs, label \in {"peek", "erase"} : Arrive(r, s, label)
           \/ r \in Readers /\ RedisFetchStep(r)
           \/ r \in Deleters /\ RedisDeleteStep(r)
    PROVE  /\ UNCHANGED pc \/ \E label : Goto(r, label)
           /\ UNCHANGED loc \/ \E l : loc' = [loc EXCEPT ![r] = l]
BY DEF Arrive, RedisFetchStep, RedisDeleteStep, RedisPeekMeta, RedisGet, RedisGetAndDelete,
   RedisFetchFails, FetchDecide, FetchGot, FetchFellBack, TakeStamp, FetchFailed, Decrypt,
   Deliver, DeleteDecide, RedisDelete, Look, Finish

LEMMA RedisGoes ==
    ASSUME TypeOK, [RedisNext]_redisVars, NEW q \in Clients
    PROVE  ~Active(q)' \/ Arrived(q) \/ GoesOn(q)
<1>1. /\ q \in Requests /\ Clients \subseteq Requests /\ Creators \subseteq Requests
      /\ q \notin Creators /\ Readers \subseteq Clients /\ Deleters \subseteq Clients
  BY ClientsCreators
<1>2. ASSUME pc'[q] = pc[q], loc'[q] = loc[q] PROVE ~Active(q)' \/ GoesOn(q)
  BY <1>2 DEF Active, GoesOn
<1>3. CASE RedisTick \/ UNCHANGED redisVars
  BY <1>2, <1>3 DEF RedisTick, redisVars, vars
<1>4. CASE Restart
  BY <1>1, <1>4 DEF Restart, Active
<1>5. CASE \E c \in Creators : RedisCreateStep(c) \/ CreateArrive(c)
  <2>1. PICK c \in Creators : RedisCreateStep(c) \/ CreateArrive(c)
    BY <1>5
  <2> QED
    BY <1>1, <1>2, <2>1, RedisPostAlone, RedisIsolation
<1>6. ASSUME NEW r \in Clients,
             \/ \E s \in Slugs, label \in {"peek", "erase"} :
                   (Guess \/ Announced(s)) /\ Arrive(r, s, label)
             \/ r \in Readers /\ RedisFetchStep(r)
             \/ r \in Deleters /\ RedisDeleteStep(r)
      PROVE  ~Active(q)' \/ Arrived(q) \/ GoesOn(q)
  <2>1. CASE r = q
    BY <1>6, <2>1, RedisClientGoes
  <2>2. CASE r # q
    <3>1. /\ UNCHANGED pc \/ \E label : Goto(r, label)
          /\ UNCHANGED loc \/ \E l : loc' = [loc EXCEPT ![r] = l]
      BY <1>6, RedisClientAlone
    <3> QED
      BY <1>1, <1>2, <2>2, <3>1, RedisIsolation
  <2> QED
    BY <2>1, <2>2
<1>7. CASE (\E r \in Readers : RedisFetchStep(r)) \/ (\E d \in Deleters : RedisDeleteStep(d))
  BY <1>1, <1>6, <1>7
<1>8. CASE \E s \in Slugs :
              /\ Guess \/ Announced(s)
              /\ \/ \E r \in Readers : FetchArrive(r, s)
                 \/ \E d \in Deleters : DeleteArrive(d, s)
  <2>1. PICK s \in Slugs :
           /\ Guess \/ Announced(s)
           /\ \/ \E r \in Readers : FetchArrive(r, s)
              \/ \E d \in Deleters : DeleteArrive(d, s)
    BY <1>8
  <2>2. CASE \E r \in Readers : FetchArrive(r, s)
    BY <1>1, <1>6, <2>1, <2>2 DEF FetchArrive
  <2>3. CASE \E d \in Deleters : DeleteArrive(d, s)
    BY <1>1, <1>6, <2>1, <2>3 DEF DeleteArrive
  <2> QED
    BY <2>1, <2>2, <2>3
<1> QED
  BY <1>3, <1>4, <1>5, <1>7, <1>8 DEF RedisNext

LEMMA AskedStep ==
    ASSUME ~Guess, RedisTypeInv, RedisShape, Asked, [RedisNext]_redisVars
    PROVE  Asked'
<1> SUFFICES ASSUME NEW q \in Clients, Active(q)' PROVE AskedFor(q)'
  BY DEF Asked
<1>1. \A c \in Creators : saves[c] \subseteq saves'[c]
  BY SavesKept
<1>2. CASE Arrived(q)
  BY <1>1, <1>2 DEF Arrived, Announced, AskedFor
<1>3. CASE GoesOn(q)
  BY <1>1, <1>3 DEF GoesOn, Asked, AskedFor
<1> QED
  BY <1>2, <1>3, RedisGoes, RedisTypes

(* Get sees the paste that PeekMeta saw, or none.                          *)
LEMMA RedisSparesStep ==
    ASSUME RedisInv, [RedisNext]_redisVars PROVE GetSparesBurn'
<1>1. RedisTypeInv /\ HashesInv /\ Asked /\ GetSparesBurn
  BY DEF RedisInv
<1> SUFFICES ASSUME NEW q \in Readers
             PROVE  /\ pc'[q] = "get" => loc'[q].seen # NoRow
                    /\ pc'[q] \in {"get", "got"} /\ loc'[q].seen # NoRow
                           => ~loc'[q].seen.burn
  BY DEF GetSparesBurn
<1>2. q \in Clients /\ (~Active(q)' \/ Arrived(q) \/ GoesOn(q))
  BY <1>1, RedisTypes, RedisGoes
<1>3. CASE ~Active(q)' \/ Arrived(q)
  BY <1>3 DEF Active, Arrived
<1>4. CASE pc'[q] = pc[q] /\ loc'[q].seen = loc[q].seen
  BY <1>1, <1>4 DEF GetSparesBurn
<1>5. CASE pc[q] = "get" /\ pc'[q] = "got" /\ loc'[q].seen \in {NoRow, rows[loc[q].slug]}
  <2>1. SUFFICES ASSUME rows[loc[q].slug] # NoRow PROVE ~rows[loc[q].slug].burn
    BY <1>5
  <2> DEFINE s == loc[q].slug
             old == loc[q].seen
             row == rows[s]
  <2>2. old # NoRow /\ ~old.burn /\ Active(q)
    BY <1>1, <1>5 DEF GetSparesBurn, Active
  <2>3. old.content \in Creators /\ <<s, old>> \in saves[old.content]
    BY <1>1, <1>2, <2>2, RedisTypes DEF HashesInv, Handed
  <2>4. row.content \in Creators /\ <<s, row>> \in saves[row.content]
    BY <1>1, <1>2, <2>1, <2>2, AskedRow DEF Asked
  <2> HIDE DEF old, row, s
  <2>5. old.content = row.content
    <3>1. Whole(old.content)
      BY <1>1, <2>3 DEF HashesInv, PostsInv
    <3>2. \A d \in Creators : \A p \in saves[d] :
             <<s, old>>[1] = p[1] => old.content = d
      BY <2>3, <3>1 DEF Whole
    <3> QED
      BY <2>4, <3>2
  <2>6. <<s, old>> = <<s, row>>
    BY <1>1, <2>3, <2>4, <2>5 DEF HashesInv, StoredOnce
  <2> QED
    BY <2>2, <2>6 DEF row, s
<1> QED
  BY <1>2, <1>3, <1>4, <1>5 DEF GoesOn

-----------------------------------------------------------------------------
(* The theorems.                                                           *)

LEMMA RedisInvInit == RedisInit => RedisInv
<1> SUFFICES ASSUME RedisInit PROVE RedisInv
  OBVIOUS
<1>1. RedisTypeInv /\ Init
  BY RedisTypeInit DEF RedisInit
<1>2. /\ \A c \in Creators : saves[c] = {} /\ pc[c] = "idle"
      /\ \A q \in Clients : pc[q] = "idle" /\ loc[q].seen = NoRow
      /\ \A q \in Readers : got[q] = NoRow /\ pc[q] = "idle"
      /\ \A s \in Slugs : rows[s] = NoRow
      /\ retired = {}
  BY <1>1, ClientsCreators DEF Init, NoLocal
<1>3. StoredOnce /\ HashInv /\ Origin /\ PostsInv /\ Handed /\ Burned /\ BurnOnce
  BY <1>2 DEF StoredOnce, HashInv, Origin, PostsInv, Whole, Handed, Burned, BurnOnce
<1>4. Asked /\ GetSparesBurn
  BY <1>2 DEF Asked, Active, GetSparesBurn
<1> QED
  BY <1>1, <1>3, <1>4 DEF RedisInv, HashesInv

LEMMA HashesStep ==
    ASSUME ~Reuse, RedisTypeInv, HashesInv, Asked, RedisShape PROVE HashesInv'
<1>1. CASE RedisQuiet \/ Dropping
  BY <1>1, QuietHashes
<1>2. CASE \E c \in Creators : Filling(c)
  BY <1>2, FillingHashes
<1>3. CASE \E c \in Creators, s \in Slugs : Gating(c, s)
  BY <1>3, GatingHashes
<1>4. CASE \E r \in Clients : Looking(r)
  BY <1>4, LookingHashes
<1>5. CASE \E r \in Readers : Serving(r) \/ Taking(r)
  BY <1>5, ServingHashes, TakingHashes
<1> QED
  BY <1>1, <1>2, <1>3, <1>4, <1>5 DEF RedisShape

LEMMA RedisInvStep ==
    ASSUME ~Reuse, ~Guess PROVE RedisInv /\ [RedisNext]_redisVars => RedisInv'
<1> SUFFICES ASSUME RedisInv, [RedisNext]_redisVars PROVE RedisInv'
  OBVIOUS
<1>1. RedisTypeInv /\ HashesInv /\ Asked /\ GetSparesBurn
  BY DEF RedisInv
<1>2. RedisTypeInv' /\ RedisShape
  BY <1>1, RedisTypeStep, RedisStepShape
<1>3. HashesInv'
  BY <1>1, <1>2, HashesStep
<1>4. Asked' /\ GetSparesBurn'
  BY <1>1, <1>2, AskedStep, RedisSparesStep
<1> QED
  BY <1>2, <1>3, <1>4 DEF RedisInv

LEMMA RedisInvariant == ASSUME ~Reuse, ~Guess PROVE RedisSpec => []RedisInv
<1>1. RedisInv /\ [RedisNext]_redisVars => RedisInv'
  BY RedisInvStep
<1> QED
  BY <1>1, RedisInvInit, PTL DEF RedisSpec

(* With Redis too no burn paste is handed to two requests, if no id is     *)
(* drawn twice and none is asked for before it was announced.              *)
THEOREM RedisBurnedOnce == ASSUME ~Reuse, ~Guess PROVE RedisSpec => []BurnOnce
<1>1. RedisInv => BurnOnce
  BY DEF RedisInv, HashesInv
<1> QED
  BY <1>1, RedisInvariant, PTL

(* Under the same assumptions whoever reads a paste gets it with the flags *)
(* its POST asked for, although Save writes them in a second pipeline.     *)
THEOREM RedisHandedAsSent == ASSUME ~Reuse, ~Guess PROVE RedisSpec => []HandedAsSent
<1>1. RedisInv => HandedAsSent
  <2> SUFFICES ASSUME RedisInv, NEW r \in Readers, got[r] # NoRow
               PROVE  \E p \in saves[got[r].content] :
                         /\ p[2].burn = got[r].burn /\ p[2].prot = got[r].prot
                         /\ p[2].key = got[r].key
    BY DEF HandedAsSent
  <2>1. PICK s \in Slugs : <<s, got[r]>> \in saves[got[r].content]
    BY DEF RedisInv, HashesInv, Handed
  <2> QED
    BY <2>1
<1> QED
  BY <1>1, RedisInvariant, PTL

(* Under the same assumptions the hash of a paste that was announced stays *)
(* as its POST meant it, expiry included, until it goes.                   *)
THEOREM RedisAnnouncedStays == ASSUME ~Reuse, ~Guess PROVE RedisSpec => []AnnouncedStays
<1>1. RedisInv => AnnouncedStays
  BY DEF RedisInv, HashesInv, PostsInv, Whole, AnnouncedStays
<1> QED
  BY <1>1, RedisInvariant, PTL

-----------------------------------------------------------------------------
(* A step is some request's own, and leaves the others' part of the state  *)
(* alone, or it is one of the environment.                                 *)

RedisActs(r) ==
    \/ r \in Creators /\ (RedisCreateStep(r) \/ CreateArrive(r))
    \/ r \in Readers /\ RedisFetchStep(r)
    \/ r \in Deleters /\ RedisDeleteStep(r)
    \/ r \in Clients /\ \E s \in Slugs, label \in {"peek", "erase"} : Arrive(r, s, label)

RedisUntouched(q) ==
    /\ pc'[q] = pc[q] /\ loc'[q] = loc[q] /\ ans'[q] = ans[q] /\ wit'[q] = wit[q]
    /\ q \in Readers => got'[q] = got[q]
    /\ q \in Creators => saves'[q] = saves[q]

LEMMA RedisSteps ==
    ASSUME [RedisNext]_redisVars
    PROVE  \/ \E r \in Requests : RedisActs(r)
           \/ RedisTick \/ Restart \/ UNCHANGED redisVars
<1>1. /\ Creators \subseteq Requests /\ Readers \subseteq Clients /\ Deleters \subseteq Clients
      /\ Clients \subseteq Requests
  BY DEF Requests, Clients
<1>2. CASE \E s \in Slugs : \/ \E r \in Readers : FetchArrive(r, s)
                            \/ \E d \in Deleters : DeleteArrive(d, s)
  BY <1>1, <1>2 DEF FetchArrive, DeleteArrive, RedisActs
<1>3. CASE \/ \E c \in Creators : RedisCreateStep(c) \/ CreateArrive(c)
           \/ \E r \in Readers : RedisFetchStep(r)
           \/ \E d \in Deleters : RedisDeleteStep(d)
  BY <1>1, <1>3 DEF RedisActs
<1> QED
  BY <1>2, <1>3 DEF RedisNext

LEMMA RedisApart ==
    ASSUME TypeOK, NEW r \in Requests, RedisActs(r), NEW q \in Requests, q # r
    PROVE  RedisUntouched(q)
<1>1. /\ UNCHANGED pc \/ \E label : Goto(r, label)
      /\ UNCHANGED loc \/ \E l : loc' = [loc EXCEPT ![r] = l]
  BY RedisPostAlone, RedisClientAlone DEF RedisActs, Clients
<1>2. /\ UNCHANGED ans \/ \E a : ans' = [ans EXCEPT ![r] = a]
      /\ UNCHANGED wit \/ \E w : wit' = [wit EXCEPT ![r] = w]
  BY DEF RedisActs, RedisCreateStep, CreateArrive, CreateGate, CreateEncode, CreateReply, Gate,
     GateConflict, GateFails, Fill, FillFails, TryAgain, Release, Arrive, RedisFetchStep,
     RedisDeleteStep, RedisPeekMeta, RedisGet, RedisGetAndDelete, RedisFetchFails, FetchDecide,
     FetchGot, FetchFellBack, TakeStamp, FetchFailed, Decrypt, Deliver, DeleteDecide,
     RedisDelete, Look, Finish
<1>3. UNCHANGED got \/ \E row : got' = [got EXCEPT ![r] = row]
  BY DEF RedisActs, RedisCreateStep, CreateArrive, CreateGate, CreateEncode, CreateReply, Gate,
     GateConflict, GateFails, Fill, FillFails, Arrive, RedisFetchStep,
     RedisDeleteStep, RedisPeekMeta, RedisGet, RedisGetAndDelete, RedisFetchFails, FetchDecide,
     FetchGot, FetchFellBack, TakeStamp, FetchFailed, Decrypt, Deliver, DeleteDecide,
     RedisDelete, Look
<1>4. UNCHANGED saves \/ SetMeta(r)
  BY DEF RedisActs, RedisCreateStep, CreateArrive, CreateGate, CreateEncode, CreateReply, Gate,
     GateConflict, GateFails, Fill, FillFails, SetContent, Arrive, RedisFetchStep,
     RedisDeleteStep, RedisPeekMeta, RedisGet, RedisGetAndDelete, RedisFetchFails, FetchDecide,
     FetchGot, FetchFellBack, TakeStamp, FetchFailed, Decrypt, DeleteDecide,
     RedisDelete, Look
<1>5. /\ DOMAIN pc = Requests /\ DOMAIN loc = Requests /\ DOMAIN ans = Requests
      /\ DOMAIN wit = Requests /\ DOMAIN got = Readers /\ DOMAIN saves = Creators
  BY DEF TypeOK, PlacesOK
<1>6. pc'[q] = pc[q] /\ loc'[q] = loc[q] /\ ans'[q] = ans[q] /\ wit'[q] = wit[q]
  BY <1>1, <1>2, <1>5 DEF Goto
<1>7. q \in Readers => got'[q] = got[q]
  BY <1>3, <1>5
<1>8. q \in Creators => saves'[q] = saves[q]
  BY <1>4, <1>5 DEF SetMeta
<1> QED
  BY <1>6, <1>7, <1>8 DEF RedisUntouched

(* What happens to one request in a step. *)
LEMMA RedisStepOf ==
    ASSUME TypeOK, [RedisNext]_redisVars, NEW q \in Requests
    PROVE  RedisActs(q) \/ RedisUntouched(q) \/ Restart
<1>1. CASE RedisTick \/ UNCHANGED redisVars
  BY <1>1 DEF RedisTick, redisVars, vars, RedisUntouched
<1> QED
  BY <1>1, RedisSteps, RedisApart

LEMMA RedisReaderStep ==
    ASSUME TypeOK, [RedisNext]_redisVars, NEW q \in Readers
    PROVE  \/ RedisFetchStep(q)
           \/ \E s \in Slugs, label \in {"peek", "erase"} : Arrive(q, s, label)
           \/ Restart
           \/ RedisUntouched(q)
<1>1. q \in Requests /\ q \notin Creators /\ q \notin Deleters
  BY ClientsCreators
<1> QED
  BY <1>1, RedisStepOf DEF RedisActs

-----------------------------------------------------------------------------
(* The upload slots and the answers to POSTs.                              *)

LEMMA RedisHolders == ASSUME TypeOK, [RedisNext]_redisVars PROVE SlotChange
<1>1. ASSUME NEW c \in Creators, RedisCreateStep(c) \/ CreateArrive(c) PROVE SlotChange
  <2>1. CASE CreateArrive(c) \/ CreateGate(c)
    BY <2>1, PostSlots
  <2>2. CASE CreateEncode(c) \/ CreateReply(c)
    BY <2>2, PostSlots DEF CreateEncode, CreateReply, Holding
  <2>3. CASE Gate(c) \/ GateConflict(c) \/ GateFails(c)
    BY <2>3, PostSlots DEF Gate, GateConflict, TryAgain, GateFails, Holding
  <2>4. CASE Fill(c) \/ FillFails(c)
    BY <2>4, PostSlots DEF Fill, FillFails, Holding
  <2> QED
    BY <1>1, <2>1, <2>2, <2>3, <2>4 DEF RedisCreateStep
<1>2. ASSUME NEW r \in Clients,
             \/ \E s \in Slugs, label \in {"peek", "erase"} : Arrive(r, s, label)
             \/ r \in Readers /\ RedisFetchStep(r)
             \/ r \in Deleters /\ RedisDeleteStep(r)
      PROVE  SlotChange
  <2>1. UNCHANGED pc \/ \E label : Goto(r, label)
    BY <1>2, RedisClientAlone
  <2>2. UNCHANGED slots
    BY <1>2 DEF Arrive, RedisFetchStep, RedisDeleteStep, RedisPeekMeta, RedisGet,
       RedisGetAndDelete, RedisFetchFails, FetchDecide, FetchGot, FetchFellBack, TakeStamp,
       FetchFailed, Decrypt, DeleteDecide, RedisDelete, Look
  <2> QED
    BY <2>1, <2>2, ClientSlots
<1>3. ASSUME NEW r \in Requests, RedisActs(r) PROVE SlotChange
  BY <1>1, <1>2, <1>3 DEF RedisActs, Clients
<1>4. CASE RedisTick \/ UNCHANGED redisVars
  BY <1>4, SameSlots DEF RedisTick, redisVars, vars
<1> QED
  BY <1>3, <1>4, RedisSteps, RestartSlots

(* With Redis too no path out of handleCreatePaste leaks a slot or gives   *)
(* one back twice, whichever of Save's two pipelines fails.                *)
THEOREM RedisSlotsCounted ==
    ASSUME IsFiniteSet(Creators) PROVE RedisSpec => []SlotsExact
<1>1. RedisInit => RedisTypeInv /\ SlotsExact
  BY RedisTypeInit, SlotsInit DEF RedisInit
<1>2. RedisTypeInv /\ SlotsExact /\ [RedisNext]_redisVars => SlotsExact'
  BY RedisHolders, CountStep DEF RedisTypeInv, RedisTypeOK
<1> QED
  BY <1>1, <1>2, RedisTypeStep, PTL DEF RedisSpec

(* One POST: the answer comes last, "created" is reached by the second     *)
(* pipeline only, and what AnswerMatchesStore and StoredOnce say of it.    *)
Replied(c) ==
    /\ pc[c] \in BeforeInsert => saves[c] = {}
    /\ \A p, q \in saves[c] : p = q
    /\ pc[c] # "done" => ans[c] = "none"
    /\ pc[c] = "created" => saves[c] # {}
    /\ ans[c] = "201" => saves[c] # {}
    /\ ans[c] \in {"400", "413", "503"} => saves[c] = {}
RepliedInv == \A c \in Creators : Replied(c)

LEMMA RepliedStep ==
    ASSUME TypeOK, RepliedInv, [RedisNext]_redisVars PROVE RepliedInv'
<1> SUFFICES ASSUME NEW c \in Creators PROVE Replied(c)'
  BY DEF RepliedInv
<1>1. /\ c \in Requests /\ c \notin Clients /\ DOMAIN pc = Requests /\ DOMAIN ans = Requests
      /\ DOMAIN saves = Creators /\ Replied(c)
  BY ClientsCreators DEF TypeOK, PlacesOK, RepliedInv
<1>2. ASSUME NEW label, Goto(c, label) PROVE pc'[c] = label
  BY <1>1, <1>2 DEF Goto
<1>3. ASSUME NEW code, Finish(c, code) PROVE pc'[c] = "done" /\ ans'[c] = code
  BY <1>1, <1>2, <1>3 DEF Finish
<1>4. ASSUME NEW code, Release(c, code) PROVE pc'[c] = "done" /\ ans'[c] = code
  BY <1>3, <1>4 DEF Release
<1>5. ASSUME saves[c] = {}, SetMeta(c) PROVE \E p : saves'[c] = {p}
  BY <1>1, <1>5 DEF SetMeta
<1>a. CASE CreateArrive(c)
  <2>1. pc[c] = "idle" /\ saves' = saves
    BY <1>a DEF CreateArrive
  <2>2. \/ pc'[c] = "done" /\ ans'[c] \in {"413", "400", "500"}
        \/ pc'[c] = "gate" /\ ans' = ans
    BY <1>a, <1>2, <1>3 DEF CreateArrive
  <2> QED
    BY <1>1, <2>1, <2>2 DEF Replied, BeforeInsert
<1>b. CASE CreateGate(c)
  <2>1. pc[c] = "gate" /\ saves' = saves
    BY <1>b DEF CreateGate
  <2>2. \/ pc'[c] = "done" /\ ans'[c] = "503"
        \/ pc'[c] = "encode" /\ ans' = ans
    BY <1>b, <1>2, <1>3 DEF CreateGate
  <2> QED
    BY <1>1, <2>1, <2>2 DEF Replied, BeforeInsert
<1>c. CASE CreateEncode(c)
  <2>1. pc[c] = "encode" /\ saves' = saves
    BY <1>c DEF CreateEncode
  <2>2. \/ pc'[c] = "done" /\ ans'[c] \in {"400", "500"}
        \/ pc'[c] = "save" /\ ans' = ans
    BY <1>c, <1>2, <1>4 DEF CreateEncode
  <2> QED
    BY <1>1, <2>1, <2>2 DEF Replied, BeforeInsert
<1>d. CASE Gate(c) \/ GateConflict(c) \/ GateFails(c)
  <2>1. pc[c] = "save" /\ saves' = saves
    BY <1>d DEF Gate, GateConflict, GateFails, SetContent
  <2>2. \/ pc'[c] = "done" /\ ans'[c] = "500"
        \/ pc'[c] \in {"insert", "save"} /\ ans' = ans
    BY <1>d, <1>2, <1>4 DEF Gate, GateConflict, GateFails, TryAgain
  <2> QED
    BY <1>1, <2>1, <2>2 DEF Replied, BeforeInsert
<1>e. CASE Fill(c)
  <2>1. pc[c] = "insert" /\ pc'[c] = "created" /\ ans' = ans /\ SetMeta(c)
    BY <1>e, <1>2 DEF Fill
  <2>2. \E p : saves'[c] = {p}
    BY <1>1, <1>5, <2>1 DEF Replied, BeforeInsert
  <2> QED
    BY <1>1, <2>1, <2>2 DEF Replied, BeforeInsert
<1>f. CASE FillFails(c)
  <2>1. pc[c] = "insert" /\ pc'[c] = "done" /\ ans'[c] = "500"
    BY <1>f, <1>4 DEF FillFails
  <2>2. saves' = saves \/ \E p : saves'[c] = {p}
    BY <1>1, <1>5, <1>f, <2>1 DEF FillFails, Replied, BeforeInsert
  <2> QED
    BY <1>1, <2>1, <2>2 DEF Replied, BeforeInsert
<1>g. CASE CreateReply(c)
  <2>1. pc[c] = "created" /\ saves' = saves /\ pc'[c] = "done" /\ ans'[c] = "201"
    BY <1>g, <1>4 DEF CreateReply
  <2> QED
    BY <1>1, <2>1 DEF Replied, BeforeInsert
<1>h. CASE Restart
  <2>1. /\ saves' = saves
        /\ pc'[c] = IF pc[c] = "idle" THEN "idle" ELSE "done"
        /\ ans'[c] = IF pc[c] \in {"idle", "done"} THEN ans[c] ELSE "lost"
    BY <1>1, <1>h DEF Restart
  <2> QED
    BY <1>1, <2>1 DEF Replied, BeforeInsert
<1>i. CASE RedisUntouched(c)
  BY <1>1, <1>i DEF RedisUntouched, Replied
<1>j. CASE RedisActs(c)
  BY <1>1, <1>a, <1>b, <1>c, <1>d, <1>e, <1>f, <1>g, <1>j
     DEF RedisActs, RedisCreateStep, Clients
<1> QED
  BY <1>1, <1>h, <1>i, <1>j, RedisStepOf

(* With Redis a 201 has stored its paste whole and once, in spite of the   *)
(* retries, and a POST that was refused has stored none.                   *)
THEOREM RedisAnswersTrue == RedisSpec => []AnswerMatchesStore
<1>1. RedisInit => RedisTypeInv /\ RepliedInv
  <2> SUFFICES ASSUME RedisInit PROVE RepliedInv
    BY RedisTypeInit
  <2>1. \A c \in Creators : pc[c] = "idle" /\ ans[c] = "none" /\ saves[c] = {}
    BY ClientsCreators DEF RedisInit, Init
  <2> QED
    BY <2>1 DEF RepliedInv, Replied
<1>2. RedisTypeInv /\ RepliedInv /\ [RedisNext]_redisVars => RepliedInv'
  BY RepliedStep DEF RedisTypeInv, RedisTypeOK
<1>3. RepliedInv => AnswerMatchesStore
  BY RedisParameters DEF RepliedInv, Replied, AnswerMatchesStore
<1> QED
  BY <1>1, <1>2, <1>3, RedisTypeStep, PTL DEF RedisSpec

-----------------------------------------------------------------------------
(* Redis implements PasteStore.                                            *)

(* Only a burn paste is about to be taken, and a reader's hands are empty  *)
(* until it is served.                                                     *)
Unserved(q) ==
    /\ pc[q] \in {"take", "taking"} => loc[q].seen # NoRow /\ loc[q].seen.burn
    /\ pc[q] \notin {"decrypt", "done"} => got[q] = NoRow
UnservedInv == \A q \in Readers : Unserved(q)

LEMMA UnservedStep ==
    ASSUME TypeOK, UnservedInv, [RedisNext]_redisVars PROVE UnservedInv'
<1> SUFFICES ASSUME NEW q \in Readers PROVE Unserved(q)'
  BY DEF UnservedInv
<1>1. /\ q \in Requests /\ loc \in [Requests -> Local]
      /\ DOMAIN pc = Requests /\ DOMAIN got = Readers
  BY ClientsCreators DEF TypeOK, PlacesOK
<1>2. Unserved(q)
  BY DEF UnservedInv
<1>3. ASSUME NEW label, Goto(q, label) PROVE pc'[q] = label
  BY <1>1, <1>3 DEF Goto
<1>4. ASSUME NEW code, Finish(q, code) PROVE Unserved(q)'
  BY <1>3, <1>4 DEF Finish, Unserved
<1>5. ASSUME NEW row, Deliver(q, row) PROVE Unserved(q)'
  BY <1>3, <1>4, <1>5 DEF Deliver, Unserved
<1>6. ASSUME pc[q] \notin {"decrypt", "done"}, UNCHANGED got, NEW label, Goto(q, label),
             label \notin {"take", "taking"}
      PROVE  Unserved(q)'
  BY <1>2, <1>3, <1>6 DEF Unserved
<1>a. CASE \E s \in Slugs, label \in {"peek", "erase"} : Arrive(q, s, label)
  BY <1>6, <1>a DEF Arrive
<1>b. CASE RedisPeekMeta(q) \/ RedisGet(q)
  BY <1>6, <1>b DEF RedisPeekMeta, RedisGet, Look
<1>c. CASE RedisGetAndDelete(q)
  BY <1>5, <1>c DEF RedisGetAndDelete
<1>d. CASE RedisFetchFails(q)
  BY <1>6, <1>d DEF RedisFetchFails
<1>e. CASE FetchDecide(q)
  <2>1. pc[q] \in {"peek", "peeked"} /\ UNCHANGED <<got, loc>>
    BY <1>e DEF FetchDecide, Returned
  <2>2. \/ Goto(q, "take") /\ loc[q].seen # NoRow /\ loc[q].seen.burn
        \/ \E label \in {"fallback", "get"} : Goto(q, label)
    BY <1>e DEF FetchDecide
  <2> QED
    BY <1>2, <1>3, <1>6, <2>1, <2>2 DEF Unserved
<1>f. CASE FetchGot(q)
  BY <1>5, <1>f DEF FetchGot
<1>g. CASE FetchFellBack(q)
  <2>1. pc[q] = "fellback"
    BY <1>g DEF FetchFellBack, Returned
  <2> QED
    BY <1>2, <1>3, <1>5, <1>g, <2>1 DEF FetchFellBack, Unserved
<1>h. CASE TakeStamp(q)
  <2>1. /\ loc'[q] = [loc[q] EXCEPT !.stamp = now] /\ pc'[q] = "taking" /\ UNCHANGED got
        /\ pc[q] = "take"
    BY <1>1, <1>3, <1>h DEF TakeStamp
  <2>2. loc'[q].seen = loc[q].seen
    BY <1>1, <2>1 DEF Local
  <2> QED
    BY <1>2, <2>1, <2>2 DEF Unserved
<1>i. CASE FetchFailed(q) \/ Decrypt(q)
  BY <1>4, <1>i DEF FetchFailed, Decrypt
<1>j. CASE Restart
  BY <1>1, <1>2, <1>j DEF Restart, Unserved
<1>k. CASE RedisUntouched(q)
  BY <1>2, <1>k DEF RedisUntouched, Unserved
<1> QED
  BY <1>a, <1>b, <1>c, <1>d, <1>e, <1>f, <1>g, <1>h, <1>i, <1>j, <1>k, RedisReaderStep
     DEF RedisFetchStep

(* A reader is given its paste by Get's row, the hashes being left alone,  *)
(* or by GetAndDelete.                                                     *)
LEMMA RedisGivenBy ==
    ASSUME TypeOK, [RedisNext]_redisVars, NEW r \in Readers, got'[r] # got[r]
    PROVE  (pc[r] \in {"got", "fellback"} /\ UNCHANGED rows) \/ pc[r] = "taking"
<1>1. FetchGot(r) \/ FetchFellBack(r) \/ RedisGetAndDelete(r)
  BY RedisReaderStep DEF RedisFetchStep, RedisPeekMeta, RedisGet, Look, RedisFetchFails,
     FetchDecide, TakeStamp, FetchFailed, Decrypt, Arrive, Restart, RedisUntouched
<1> QED
  BY <1>1 DEF FetchGot, FetchFellBack, RedisGetAndDelete, Returned, store

(* The first pipeline does not show: the paste is not there yet. *)
LEMMA HalfMaps ==
    ASSUME NEW c \in Creators, NEW s \in Slugs, saves[c] = {}, rows[s] = NoRow,
           rows'[s].content = c, \A u \in Slugs : u # s => rows'[u] = rows[u],
           UNCHANGED <<saves, got>>
    PROVE  UNCHANGED <<StatusOf, BurningOf, HandedTo>>
<1>1. \A d \in Creators : d # c => (Held(d)' <=> Held(d))
  BY DEF Held
<1>2. \A d \in Creators : Status(d)' = Status(d)
  BY <1>1, StatusHeld
<1> QED
  BY <1>2 DEF StatusOf, BurningOf, HandedTo, ReadersOf

LEMMA RedisKeepingStep ==
    ASSUME ~Reuse, ~Guess, RedisInv, UnservedInv, [RedisNext]_redisVars
    PROVE  Promise!Next \/ UNCHANGED <<StatusOf, BurningOf, HandedTo>>
<1>1. /\ RedisTypeInv /\ HashesInv /\ Asked /\ StoredOnce /\ RedisShape
      /\ DOMAIN saves = Creators /\ DOMAIN got = Readers
      /\ DOMAIN saves' = Creators
  <2>1. RedisTypeInv /\ RedisTypeInv' /\ GetSparesBurn
    BY RedisTypeStep DEF RedisInv
  <2>2. TypeOK /\ TypeOK'
    BY <2>1 DEF RedisTypeInv, RedisTypeOK
  <2>3. DOMAIN saves = Creators /\ DOMAIN got = Readers /\ DOMAIN saves' = Creators
    BY <2>2 DEF TypeOK
  <2> QED
    BY <2>1, <2>3, RedisStepShape DEF RedisInv, HashesInv
<1>2. ASSUME PostsKept(Creators) PROVE saves' = saves
  <2>1. \A c \in Creators : saves'[c] = saves[c]
    BY <1>2 DEF PostsKept
  <2>2. saves \in [Creators -> SUBSET (Slugs \X Row)] /\ saves' \in [Creators -> SUBSET (Slugs \X Row)]
    BY <1>1, RedisTypeStep, RedisTypes DEF RedisTypeInv, RedisTypeOK, TypeOK
  <2> QED
    BY <2>1, <2>2
<1>3. CASE RedisQuiet
  BY <1>2, <1>3, StutterMaps DEF RedisQuiet, SameHashes
<1>4. CASE Dropping
  BY <1>2, <1>4, VanishMaps DEF Dropping, Drop, Remove
<1>5. ASSUME NEW c \in Creators, NEW s \in Slugs, Gating(c, s)
      PROVE  UNCHANGED <<StatusOf, BurningOf, HandedTo>>
  <2>1. /\ s \notin retired /\ ~HasContent(s) /\ saves[c] = {} /\ pc[c] = "save"
        /\ SetContent(c, s) /\ UNCHANGED <<saves, got>>
    BY <1>1, <1>5 DEF Gating, Drawable, Free, SetContent, StoredOnce
  <2>2. rows[s] = NoRow /\ ~HasMeta(s)
    BY <1>1, <2>1, RedisTypes DEF HashesInv, HashInv, HasMeta
  <2>3. WithContent(c, s).content = c
    <3>1. NewRow(c) \in Row /\ NewRow(c).content = c
      BY <1>1, <2>1, RedisTypes, SentType DEF NewRow
    <3>2. WithContent(c, s) = [NewRow(c) EXCEPT !.burn = FALSE, !.prot = FALSE,
                                                !.expire = Never, !.key = NoKey]
      BY <2>2 DEF WithContent
    <3>3. \A row \in Row : [row EXCEPT !.burn = FALSE, !.prot = FALSE,
                                       !.expire = Never, !.key = NoKey].content = row.content
      BY DEF Row
    <3> QED
      BY <3>1, <3>2, <3>3
  <2>4. \A u \in Slugs : rows'[u] = IF u = s THEN WithContent(c, s) ELSE rows[u]
    BY <1>1, <2>1, RedisTypes DEF SetContent
  <2> QED
    BY <2>1, <2>2, <2>3, <2>4, HalfMaps
<1>6. ASSUME NEW c \in Creators, Filling(c) PROVE Promise!Next
  <2>1. PICK s : s = loc[c].slug
    OBVIOUS
  <2>2. PICK row : row = Sent(c)
    OBVIOUS
  <2>3. pc[c] = "insert" /\ SetMeta(c) /\ UNCHANGED got
    BY <1>6 DEF Filling
  <2>4. s \in Slugs /\ saves[c] = {} /\ HalfWritten(c)
    BY <1>1, <2>1, <2>3, RedisTypes DEF HashesInv, PostsInv, StoredOnce
  <2>5. row \in Row /\ row.content = c
    BY <1>1, <2>2, <2>3, RedisTypes, SentType
  <2>6. rows[s] = NoRow \/ rows[s].content = c
    BY <2>1, <2>4 DEF HalfWritten
  <2>7. WithMeta(c, s) \in Row /\ WithMeta(c, s).content = c
    <3>1. CASE rows[s] = NoRow
      BY <2>2, <2>5, <3>1 DEF WithMeta
    <3>2. CASE rows[s] # NoRow
      <4>1. rows[s].content = c /\ rows[s].expire = Never
        BY <2>1, <2>4, <3>2 DEF HalfWritten
      <4>2. WithMeta(c, s) = [row EXCEPT !.content = rows[s].content,
                                         !.expire = IF @ = Never THEN rows[s].expire ELSE @]
        BY <2>2, <3>2 DEF WithMeta
      <4>3. [row EXCEPT !.content = c, !.expire = IF @ = Never THEN Never ELSE @] = row
        BY <2>5 DEF Row
      <4> QED
        BY <2>5, <4>1, <4>2, <4>3
    <3> QED
      BY <3>1, <3>2
  <2>8. \A u \in Slugs : rows'[u] = IF u = s THEN WithMeta(c, s) ELSE rows[u]
    BY <1>1, <2>1, <2>3, RedisTypes DEF SetMeta
  <2>9. saves' = [saves EXCEPT ![c] = {<<s, row>>}]
    BY <1>1, <2>1, <2>2, <2>3, <2>4 DEF SetMeta
  <2>10. rows'[s] # NoRow /\ rows'[s].content = c
    BY <2>4, <2>7, <2>8, Absent
  <2>11. \A u \in Slugs : u # s => rows'[u] = rows[u]
    BY <2>8
  <2> QED
    BY <1>1, <2>3, <2>4, <2>6, <2>9, <2>10, <2>11, SaveMaps
<1>7. ASSUME NEW r \in Clients, Looking(r)
      PROVE  UNCHANGED <<StatusOf, BurningOf, HandedTo>>
  BY <1>2, <1>7, StutterMaps DEF Looking, SameHashes
<1>8. ASSUME NEW r \in Readers, got'[r] # got[r] PROVE got[r] = NoRow
  BY <1>1, <1>8, RedisGivenBy, RedisTypes DEF UnservedInv, Unserved
<1>9. ASSUME NEW r \in Readers, NEW row, got' = [got EXCEPT ![r] = row], got'[r] = got[r]
      PROVE  got' = got
  BY <1>1, <1>9, RedisTypes
<1>10. ASSUME NEW r \in Readers, Serving(r)
       PROVE  Promise!Next \/ UNCHANGED <<StatusOf, BurningOf, HandedTo>>
  <2>1. PICK row : row = loc[r].seen
    OBVIOUS
  <2>2. /\ row # NoRow /\ ~row.burn /\ got' = [got EXCEPT ![r] = row]
        /\ UNCHANGED <<rows, saves>>
    BY <1>2, <1>10, <2>1 DEF Serving, SameHashes
  <2>3. row.content \in Creators /\ <<loc[r].slug, row>> \in saves[row.content]
    BY <1>1, <2>1, <2>2, RedisTypes DEF HashesInv, Handed
  <2>4. \A p \in saves[row.content] : ~p[2].burn
    BY <1>1, <2>2, <2>3 DEF StoredOnce
  <2>5. CASE got'[r] # got[r]
    BY <1>1, <1>8, <2>2, <2>3, <2>4, <2>5, ReadMaps
  <2>6. CASE got'[r] = got[r]
    BY <1>9, <2>2, <2>6, StutterMaps
  <2> QED
    BY <2>5, <2>6
<1>11. ASSUME NEW r \in Readers, Taking(r) PROVE Promise!Next
  <2>1. PICK s : s = loc[r].slug
    OBVIOUS
  <2>2. /\ s \in Slugs /\ HasContent(s) /\ UNCHANGED saves /\ Active(r)
        /\ got' = [got EXCEPT ![r] = rows[s]]
        /\ rows'[s] = NoRow /\ \A u \in Slugs : u # s => rows'[u] = rows[u]
    BY <1>2, <1>11, <2>1 DEF Taking, Drop, Remove, Active
  <2>3. rows[s] # NoRow /\ r \in Clients /\ AskedFor(r)
    BY <1>1, <2>2, RedisTypes DEF HasContent, Asked
  <2>4. rows[s].content \in Creators /\ <<s, rows[s]>> \in saves[rows[s].content]
    BY <1>1, <2>1, <2>3, AskedRow
  <2>5. \A u \in Slugs : rows[u] # NoRow /\ rows[u].content = rows[s].content => u = s
    <3> SUFFICES ASSUME NEW u \in Slugs, rows[u] # NoRow, rows[u].content = rows[s].content
                 PROVE  u = s
      OBVIOUS
    <3>1. \A p \in saves[rows[u].content] : p[1] = u
      BY <1>1 DEF HashesInv, Origin
    <3> QED
      BY <2>4, <3>1
  <2>6. CASE got'[r] = got[r]
    <3>1. got' = got
      BY <1>9, <2>2, <2>6
    <3> QED
      BY <2>2, <3>1, VanishMaps
  <2>7. CASE got'[r] # got[r]
    <3>1. pc[r] = "taking"
      BY <1>1, <2>2, <2>3, <2>7, RedisGivenBy, RedisTypes
    <3>2. loc[r].seen # NoRow /\ loc[r].seen.burn
      BY <3>1 DEF UnservedInv, Unserved
    <3>3. PICK old : old = loc[r].seen
      OBVIOUS
    <3>4. old.content \in Creators /\ <<s, old>> \in saves[old.content]
      BY <1>1, <2>1, <2>3, <3>2, <3>3, RedisTypes DEF HashesInv, Handed
    <3>5. old.content = rows[s].content
      <4>1. Whole(old.content)
        BY <1>1, <3>4 DEF HashesInv, PostsInv
      <4>2. \A d \in Creators : \A p \in saves[d] : <<s, old>>[1] = p[1] => old.content = d
        BY <3>4, <4>1 DEF Whole
      <4> QED
        BY <2>4, <4>2
    <3>6. \E p \in saves[rows[s].content] : p[2].burn
      BY <3>2, <3>3, <3>4, <3>5
    <3>7. got[r] = NoRow
      BY <1>8, <2>7
    <3> QED
      BY <1>1, <2>2, <2>3, <2>4, <2>5, <3>6, <3>7, BurnMaps
  <2> QED
    BY <2>6, <2>7
<1> QED
  BY <1>1, <1>3, <1>4, <1>5, <1>6, <1>7, <1>10, <1>11 DEF RedisShape

(* Redis keeps the same promise, although Save takes two pipelines and the *)
(* flag that decides on burning is read apart from the content: no paste   *)
(* is there by halves, none comes back, and a burn paste goes in the step  *)
(* that hands it out.                                                      *)
THEOREM RedisPromiseKept == ASSUME ~Reuse, ~Guess PROVE RedisSpec => KeepsPromise
<1>1. RedisInv /\ UnservedInv /\ [RedisNext]_redisVars =>
          [Promise!Next]_<<[c \in Creators |-> Status(c)],
                           {c \in Creators : \E p \in saves[c] : p[2].burn},
                           [c \in Creators |-> ReadersOf(c)]>>
  BY RedisKeepingStep DEF StatusOf, BurningOf, HandedTo
<1>2. RedisInit => UnservedInv /\ Promise!Init
  <2> SUFFICES ASSUME RedisInit PROVE UnservedInv /\ Promise!Init
    OBVIOUS
  <2>1. Init
    BY DEF RedisInit
  <2>2. \A q \in Readers : pc[q] = "idle" /\ got[q] = NoRow
    BY <2>1, ClientsCreators DEF Init
  <2> QED
    BY <2>1, <2>2, PromiseInit DEF UnservedInv, Unserved
<1>3. RedisInv /\ UnservedInv /\ [RedisNext]_redisVars => UnservedInv'
  <2>1. RedisInv => TypeOK
    BY DEF RedisInv, RedisTypeInv, RedisTypeOK
  <2> QED
    BY <2>1, UnservedStep
<1> QED
  BY <1>1, <1>2, <1>3, RedisInvariant, PTL DEF RedisSpec, KeepsPromise, Promise!Spec

-----------------------------------------------------------------------------
(* The answer 200.                                                         *)

(* Redis keeps no key past its time. *)
TableLive == \A s \in Slugs : rows[s] # NoRow => ~Expired(rows[s])

LEMMA RedisEffects ==
    ASSUME RedisTypeInv, [RedisNext]_redisVars
    PROVE  \/ RedisTick
           \/ /\ now' = now
              /\ \/ UNCHANGED <<rows, retired, saves>>
                 \/ \E r \in Clients :
                       Active(r) /\ Remove({loc[r].slug}) /\ UNCHANGED saves
                 \/ \E c \in Creators, s \in Slugs :
                       pc[c] = "save" /\ Drawable(s) /\ SetContent(c, s)
                 \/ \E c \in Creators : pc[c] = "insert" /\ SetMeta(c)
<1>1. ASSUME NEW r \in Requests, RedisActs(r) PROVE now' = now
  BY <1>1 DEF RedisActs, RedisCreateStep, CreateArrive, CreateGate, CreateEncode, CreateReply,
     Gate, GateConflict, GateFails, Fill, FillFails, Arrive, RedisFetchStep,
     RedisDeleteStep, RedisPeekMeta, RedisGet, RedisGetAndDelete, RedisFetchFails, FetchDecide,
     FetchGot, FetchFellBack, TakeStamp, FetchFailed, Decrypt, DeleteDecide,
     RedisDelete, Look, process
<1>2. ASSUME NEW c \in Creators, RedisCreateStep(c) \/ CreateArrive(c)
      PROVE  \/ UNCHANGED <<rows, retired, saves>>
             \/ \E s \in Slugs : pc[c] = "save" /\ Drawable(s) /\ SetContent(c, s)
             \/ pc[c] = "insert" /\ SetMeta(c)
  BY <1>2 DEF RedisCreateStep, CreateArrive, CreateGate, CreateEncode, CreateReply,
     Gate, GateConflict, GateFails, Fill, FillFails, store
<1>3. ASSUME NEW r \in Clients,
             \/ \E s \in Slugs, label \in {"peek", "erase"} : Arrive(r, s, label)
             \/ r \in Readers /\ RedisFetchStep(r)
             \/ r \in Deleters /\ RedisDeleteStep(r)
      PROVE  \/ UNCHANGED <<rows, retired, saves>>
             \/ Active(r) /\ Remove({loc[r].slug}) /\ UNCHANGED saves
  BY <1>3 DEF Arrive, RedisFetchStep, RedisDeleteStep, RedisPeekMeta, RedisGet,
     RedisGetAndDelete, RedisFetchFails, FetchDecide, FetchGot, FetchFellBack, TakeStamp,
     FetchFailed, Decrypt, DeleteDecide, RedisDelete, Look, TakeHash, Drop, store, Active
<1>4. CASE Restart \/ UNCHANGED redisVars
  BY <1>4 DEF Restart, redisVars, vars, store
<1> QED
  BY <1>1, <1>2, <1>3, <1>4, RedisSteps DEF RedisActs, Clients

LEMMA TableLiveStep ==
    ASSUME RedisTypeInv, TableLive, [RedisNext]_redisVars PROVE TableLive'
<1>1. TypeOK /\ rows \in [Slugs -> Row \cup {NoRow}] /\ now \in Int
  BY RedisTypes DEF TypeOK, ProcessOK
<1>2. CASE RedisTick
  <2> SUFFICES ASSUME NEW s \in Slugs, rows'[s] # NoRow PROVE ~Expired(rows[s])'
    BY DEF TableLive
  <2>1. /\ now' = now + 1
        /\ rows'[s] = rows[s] /\ ~(rows[s] # NoRow /\ ExpiredAt(rows[s].expire, now + 1))
    BY <1>2 DEF RedisTick, Drop, Remove
  <2> QED
    BY <2>1 DEF Expired
<1>3. CASE /\ now' = now
           /\ (UNCHANGED rows \/ \E r \in Clients : Remove({loc[r].slug}))
  <2>1. \A s \in Slugs : rows'[s] # NoRow => rows'[s] = rows[s]
    BY <1>3 DEF Remove
  <2> SUFFICES ASSUME NEW s \in Slugs, rows'[s] # NoRow PROVE ~Expired(rows[s])'
    BY DEF TableLive
  <2>2. rows'[s] = rows[s] /\ ~Expired(rows[s])
    BY <2>1 DEF TableLive
  <2> QED
    BY <1>3, <2>2 DEF Expired
<1>4. ASSUME now' = now, NEW c \in Creators, NEW s \in Slugs, pc[c] = "save", SetContent(c, s)
      PROVE  TableLive'
  <2>1. \A u \in Slugs : rows'[u] = IF u = s THEN WithContent(c, s) ELSE rows[u]
    BY <1>1, <1>4 DEF SetContent
  <2>2. ~ExpiredAt(WithContent(c, s).expire, now)
    <3>1. CASE HasMeta(s)
      <4>1. rows[s] \in Row
        BY <1>1, <3>1, RedisTypes DEF HasMeta
      <4>2. WithContent(c, s).expire = rows[s].expire
        BY <3>1, <4>1 DEF WithContent, Row
      <4>3. ~ExpiredAt(rows[s].expire, now)
        BY <4>1, Absent DEF TableLive, Expired
      <4> QED
        BY <4>2, <4>3
    <3>2. CASE ~HasMeta(s)
      <4>1. WithContent(c, s).expire = Never
        BY <3>2 DEF WithContent, NewRow
      <4> QED
        BY <4>1 DEF ExpiredAt
    <3> QED
      BY <3>1, <3>2
  <2> QED
    BY <1>4, <2>1, <2>2 DEF TableLive, Expired
<1>5. ASSUME now' = now, NEW c \in Creators, pc[c] = "insert", SetMeta(c) PROVE TableLive'
  <2>1. PICK s \in Slugs : s = loc[c].slug
    BY <1>5, RedisTypes
  <2>2. \A u \in Slugs : rows'[u] = IF u = s THEN WithMeta(c, s) ELSE rows[u]
    BY <1>1, <1>5, <2>1 DEF SetMeta
  <2>3. ~ExpiredAt(Sent(c).expire, now)
    <3>1. PICK ttl : ttl = ResolveTTL(MaxTTL, loc[c].form.ttl)
      OBVIOUS
    <3>2. ttl \in Int
      <4>1. loc[c].form \in Form /\ MaxTTL \in Int
        BY <1>1, <1>5, Parameters DEF TypeOK, PlacesOK
      <4>2. loc[c].form.ttl \in Int
        BY <4>1 DEF Form
      <4> QED
        BY <3>1, <4>1, <4>2 DEF ResolveTTL
    <3>3. Sent(c).expire = ExpireAt(now, ttl)
      BY <3>1 DEF Sent, NewRow
    <3> QED
      BY <1>1, <3>2, <3>3 DEF ExpireAt, ExpiredAt, Never
  <2>4. ~ExpiredAt(WithMeta(c, s).expire, now)
    <3>1. Sent(c) \in Row
      BY <1>1, <1>5, SentType
    <3>2. CASE rows[s] = NoRow
      BY <2>3, <3>2 DEF WithMeta
    <3>3. CASE rows[s] # NoRow
      <4>1. ~ExpiredAt(rows[s].expire, now)
        BY <3>3 DEF TableLive, Expired
      <4>2. WithMeta(c, s) = [Sent(c) EXCEPT !.content = rows[s].content,
                                             !.expire = IF @ = Never THEN rows[s].expire ELSE @]
        BY <3>3 DEF WithMeta
      <4>3. WithMeta(c, s).expire \in {Sent(c).expire, rows[s].expire}
        BY <3>1, <4>2 DEF Row
      <4> QED
        BY <2>3, <4>1, <4>3
    <3> QED
      BY <3>2, <3>3
  <2> QED
    BY <1>5, <2>2, <2>4 DEF TableLive, Expired
<1> QED
  BY <1>2, <1>3, <1>4, <1>5, RedisEffects

(* The row had not expired when this request arrived. *)
LiveFor(row, q) == ~ExpiredAt(row.expire, wit[q].since)

(* What a reader has read was live when it was read, so when it arrived.   *)
HandsLive(q) ==
    /\ Active(q) => wit[q].since <= now
    /\ Active(q) /\ loc[q].seen # NoRow => LiveFor(loc[q].seen, q)
    /\ pc[q] = "decrypt" => LiveFor(got[q], q)
HandsLiveInv == \A q \in Readers : HandsLive(q)

LEMMA LiveEarlier ==
    ASSUME RedisTypeInv, TableLive, NEW q \in Readers, wit[q].since <= now,
           NEW s \in Slugs, rows[s] # NoRow
    PROVE  LiveFor(rows[s], q)
<1>1. rows[s] \in Row /\ now \in Int
  BY RedisTypes DEF TypeOK, ProcessOK
<1>2. wit[q].since \in Int
  BY RedisTypes, ClientsCreators DEF TypeOK, Witness
<1>3. rows[s].expire \in Int /\ ~ExpiredAt(rows[s].expire, now)
  BY <1>1 DEF TableLive, Expired, Row
<1> QED
  BY <1>1, <1>2, <1>3 DEF LiveFor, ExpiredAt, Never

LEMMA HandsLiveStep ==
    ASSUME RedisTypeInv, TableLive, HandsLiveInv, [RedisNext]_redisVars PROVE HandsLiveInv'
<1> SUFFICES ASSUME NEW q \in Readers PROVE HandsLive(q)'
  BY DEF HandsLiveInv
<1>1. /\ q \in Requests /\ loc \in [Requests -> Local] /\ wit \in [Requests -> Witness]
      /\ DOMAIN pc = Requests /\ DOMAIN got = Readers /\ now \in Int
      /\ Active(q) => loc[q].slug \in Slugs
  BY RedisTypes, ClientsCreators DEF TypeOK, PlacesOK, ProcessOK, Active, Clients
<1>2. HandsLive(q)
  BY DEF HandsLiveInv
<1>3. ASSUME NEW label, Goto(q, label) PROVE pc'[q] = label
  BY <1>1, <1>3 DEF Goto
<1>4. ASSUME NEW code, Finish(q, code) PROVE HandsLive(q)'
  BY <1>3, <1>4 DEF Finish, HandsLive, Active
<1>5. ASSUME Active(q), UNCHANGED <<loc, wit, now>>, NEW label, Goto(q, label), label # "decrypt"
      PROVE  HandsLive(q)'
  BY <1>2, <1>3, <1>5 DEF HandsLive, LiveFor, Active
<1>6. ASSUME Active(q), now' = now, NEW row, row # NoRow => LiveFor(row, q), Deliver(q, row)
      PROVE  HandsLive(q)'
  <2>1. CASE row = NoRow
    BY <1>4, <1>6, <2>1 DEF Deliver
  <2>2. CASE row # NoRow
    <3>1. /\ got'[q] = row /\ pc'[q] = "decrypt" /\ UNCHANGED <<loc, wit>>
      BY <1>1, <1>3, <1>6, <2>2 DEF Deliver
    <3> QED
      BY <1>2, <1>6, <2>2, <3>1 DEF HandsLive, LiveFor, Active
  <2> QED
    BY <2>1, <2>2
<1>7. ASSUME Active(q), rows[loc[q].slug] # NoRow PROVE LiveFor(rows[loc[q].slug], q)
  BY <1>1, <1>2, <1>7, LiveEarlier DEF HandsLive
<1>8. ASSUME Active(q), NEW row \in {NoRow, rows[loc[q].slug]}, NEW to, to # "decrypt",
             Look(q, row, to)
      PROVE  HandsLive(q)'
  <2>1. /\ loc'[q].seen = row /\ pc'[q] = to /\ wit' = wit /\ now' = now
    BY <1>1, <1>3, <1>8 DEF Look, Local, process
  <2> QED
    BY <1>2, <1>7, <1>8, <2>1 DEF HandsLive, LiveFor, Active
<1>a. CASE \E s \in Slugs, label \in {"peek", "erase"} : Arrive(q, s, label)
  <2>1. PICK s \in Slugs, label \in {"peek", "erase"} : Arrive(q, s, label)
    BY <1>a
  <2>2. /\ loc'[q] = [NoLocal EXCEPT !.slug = s] /\ pc'[q] = label /\ now' = now
        /\ wit'[q] = [found |-> rows[s], since |-> now]
    BY <1>1, <1>3, <2>1 DEF Arrive, process
  <2>3. loc'[q].seen = NoRow /\ wit'[q].since = now
    BY <2>2 DEF NoLocal
  <2> QED
    BY <1>1, <2>2, <2>3 DEF HandsLive
<1>b. CASE RedisPeekMeta(q)
  BY <1>8, <1>b DEF RedisPeekMeta, Active
<1>c. CASE RedisGet(q)
  BY <1>8, <1>c DEF RedisGet, Active
<1>d. CASE RedisGetAndDelete(q)
  <2>1. /\ Active(q) /\ now' = now
        /\ \E row \in {NoRow, rows[loc[q].slug]} : Deliver(q, row)
    BY <1>d DEF RedisGetAndDelete, Active, process
  <2> QED
    BY <1>6, <1>7, <2>1
<1>e. CASE RedisFetchFails(q)
  BY <1>5, <1>e DEF RedisFetchFails, Active, process
<1>f. CASE FetchDecide(q)
  BY <1>5, <1>f DEF FetchDecide, Returned, Active, process
<1>g. CASE FetchGot(q)
  <2>1. Active(q) /\ now' = now /\ Deliver(q, loc[q].seen)
    BY <1>g DEF FetchGot, Returned, Active, process
  <2> QED
    BY <1>2, <1>6, <2>1 DEF HandsLive
<1>h. CASE FetchFellBack(q)
  <2>1. /\ Active(q) /\ now' = now
        /\ Deliver(q, loc[q].seen) \/ (Goto(q, "take") /\ UNCHANGED <<loc, wit>>)
    BY <1>h DEF FetchFellBack, Returned, Active, process
  <2> QED
    BY <1>2, <1>5, <1>6, <2>1 DEF HandsLive
<1>i. CASE TakeStamp(q)
  <2>1. /\ loc'[q] = [loc[q] EXCEPT !.stamp = now] /\ pc'[q] = "taking" /\ Active(q)
        /\ UNCHANGED <<wit, now>>
    BY <1>1, <1>3, <1>i DEF TakeStamp, Active, process
  <2>2. loc'[q].seen = loc[q].seen
    BY <1>1, <2>1 DEF Local
  <2> QED
    BY <1>2, <2>1, <2>2 DEF HandsLive, LiveFor
<1>j. CASE FetchFailed(q) \/ Decrypt(q)
  BY <1>4, <1>j DEF FetchFailed, Decrypt
<1>k. CASE Restart
  BY <1>1, <1>k DEF Restart, HandsLive, Active
<1>l. CASE RedisUntouched(q)
  <2>1. now' \in {now, now + 1}
    BY RedisEffects DEF RedisTick
  <2>2. wit[q].since \in Int
    BY <1>1 DEF Witness
  <2> QED
    BY <1>1, <1>2, <1>l, <2>1, <2>2 DEF RedisUntouched, HandsLive, LiveFor, Active
<1> QED
  BY <1>a, <1>b, <1>c, <1>d, <1>e, <1>f, <1>g, <1>h, <1>i, <1>j, <1>k, <1>l, RedisReaderStep,
     RedisTypes DEF RedisFetchStep

(* With Redis, which removes a key itself when its time has come, no       *)
(* reader is served a paste that had expired when its request arrived,     *)
(* though EXPIRE comes a pipeline later than the content; whatever ids are *)
(* guessed or drawn again.                                                 *)
THEOREM RedisNoneServedLate == RedisSpec => ServedWasLive
<1>1. ASSUME RedisTypeInv, HandsLiveInv, [RedisNext]_redisVars
      PROVE  [\A r \in Readers :
                ans[r] # "200" /\ ans'[r] = "200" =>
                   ~ExpiredAt(got[r].expire, wit[r].since)]_vars
  <2> SUFFICES ASSUME NEW q \in Readers, ans[q] # "200", ans'[q] = "200"
               PROVE  LiveFor(got[q], q)
    BY DEF LiveFor
  <2>1. q \in Requests /\ DOMAIN ans = Requests
    BY <1>1, RedisTypes, ClientsCreators DEF TypeOK
  <2>2. ASSUME NEW code, Finish(q, code) PROVE ans'[q] = code
    BY <2>1, <2>2 DEF Finish
  <2>3. ~UNCHANGED ans /\ ~RedisUntouched(q)
    BY DEF RedisUntouched
  <2>4. ~Restart
    BY <2>1 DEF Restart
  <2>5. RedisFetchStep(q)
    BY <1>1, <2>3, <2>4, RedisReaderStep, RedisTypes DEF Arrive
  <2>6. Decrypt(q)
    BY <2>2, <2>3, <2>5 DEF RedisFetchStep, RedisPeekMeta, RedisGet, RedisGetAndDelete, Look,
       RedisFetchFails, FetchDecide, FetchGot, FetchFellBack, Deliver, TakeStamp, FetchFailed
  <2> QED
    BY <1>1, <2>6 DEF Decrypt, HandsLiveInv, HandsLive
<1>2. RedisInit => RedisTypeInv /\ TableLive /\ HandsLiveInv
  <2> SUFFICES ASSUME RedisInit PROVE TableLive /\ HandsLiveInv
    BY RedisTypeInit
  <2>1. /\ \A q \in Readers : pc[q] = "idle"
        /\ \A s \in Slugs : rows[s] = NoRow
    BY ClientsCreators DEF RedisInit, Init
  <2> QED
    BY <2>1 DEF TableLive, HandsLiveInv, HandsLive, Active
<1>3. RedisTypeInv /\ TableLive /\ [RedisNext]_redisVars => TableLive'
  BY TableLiveStep
<1>4. RedisTypeInv /\ TableLive /\ HandsLiveInv /\ [RedisNext]_redisVars => HandsLiveInv'
  BY HandsLiveStep
<1> QED
  BY <1>1, <1>2, <1>3, <1>4, RedisTypeStep, PTL DEF RedisSpec, ServedWasLive

-----------------------------------------------------------------------------
(* The answer 404.                                                         *)

(* Nobody drops a hash before its paste is announced, and nothing is left  *)
(* of one that has gone.                                                   *)
Settled ==
    \A c \in Creators :
        /\ pc[c] = "insert" => rows[loc[c].slug] # NoRow
        /\ \A p \in saves[c] : p[1] \in retired => rows[p[1]] = NoRow

LEMMA Spared ==
    ASSUME RedisInv, Settled, [RedisNext]_redisVars, NEW c \in Creators, pc[c] = "insert"
    PROVE  rows'[loc[c].slug] # NoRow
<1>1. /\ RedisTypeInv /\ HashesInv /\ Asked /\ TypeOK
      /\ rows \in [Slugs -> Row \cup {NoRow}]
  BY RedisTypes DEF RedisInv
<1>2. PICK s \in Slugs : s = loc[c].slug
  BY <1>1, RedisTypes
<1>3. HalfWritten(c) /\ saves[c] = {} /\ rows[s] # NoRow
  BY <1>1, <1>2 DEF HashesInv, PostsInv, StoredOnce, Settled
<1>4. CASE RedisTick
  <2>1. rows[s].expire = Never
    BY <1>2, <1>3 DEF HalfWritten
  <2> QED
    BY <1>2, <1>3, <1>4, <2>1 DEF RedisTick, Drop, Remove, ExpiredAt
<1>5. ASSUME NEW r \in Clients, Active(r), Remove({loc[r].slug}) PROVE rows'[s] # NoRow
  <2>1. AskedFor(r)
    BY <1>1, <1>5 DEF Asked
  <2>2. loc[r].slug # s
    BY <1>2, <1>3, <2>1 DEF AskedFor, HalfWritten
  <2> QED
    BY <1>3, <1>5, <2>2 DEF Remove
<1>6. ASSUME NEW d \in Creators, NEW u \in Slugs, pc[d] = "save", SetContent(d, u)
      PROVE  rows'[s] # NoRow
  <2>1. WithContent(d, u) # NoRow
    BY <1>1, <1>6, WrittenType, RedisTypes, Absent DEF HasMeta
  <2> QED
    BY <1>1, <1>3, <1>6, <2>1 DEF SetContent
<1>7. ASSUME NEW d \in Creators, pc[d] = "insert", SetMeta(d) PROVE rows'[s] # NoRow
  <2>1. PICK u \in Slugs : u = loc[d].slug
    BY <1>1, <1>7, RedisTypes
  <2>2. WithMeta(d, u) # NoRow
    BY <1>1, <1>7, WrittenType, RedisTypes, Absent DEF HasMeta
  <2> QED
    BY <1>1, <1>3, <1>7, <2>1, <2>2 DEF SetMeta
<1> QED
  BY <1>1, <1>2, <1>3, <1>4, <1>5, <1>6, <1>7, RedisEffects

LEMMA SettledStep ==
    ASSUME ~Reuse, RedisInv, Settled, [RedisNext]_redisVars PROVE Settled'
<1>1. RedisTypeInv /\ HashesInv /\ TypeOK /\ rows \in [Slugs -> Row \cup {NoRow}]
  BY RedisTypes DEF RedisInv
<1>2. ASSUME NEW c \in Creators, pc'[c] = "insert" PROVE rows'[loc'[c].slug] # NoRow
  <2>1. c \in Requests /\ c \notin Clients /\ DOMAIN pc = Requests /\ loc \in [Requests -> Local]
    BY <1>1, ClientsCreators DEF TypeOK, PlacesOK
  <2>2. CASE RedisUntouched(c)
    BY <1>2, <2>2, Spared DEF RedisUntouched
  <2>3. ASSUME NEW label, Goto(c, label) PROVE label = "insert"
    BY <1>2, <2>1, <2>3 DEF Goto
  <2>4. CASE RedisActs(c)
    <3>1. Gate(c)
      BY <2>1, <2>3, <2>4 DEF RedisActs, RedisCreateStep, CreateArrive, CreateGate,
         CreateEncode, CreateReply, GateConflict, GateFails, Fill, FillFails, TryAgain,
         Release, Finish, Clients
    <3>2. PICK s \in Slugs : SetContent(c, s) /\ loc' = [loc EXCEPT ![c].slug = s]
      BY <3>1 DEF Gate
    <3>3. loc'[c].slug = s /\ rows'[s] = WithContent(c, s)
      BY <1>1, <2>1, <3>2 DEF SetContent, Local
    <3>4. WithContent(c, s) # NoRow
      BY <1>1, <3>1, WrittenType, RedisTypes, Absent DEF Gate, HasMeta
    <3> QED
      BY <3>3, <3>4
  <2>5. ~Restart
    BY <1>2, <2>1 DEF Restart
  <2> QED
    BY <1>1, <2>1, <2>2, <2>4, <2>5, RedisStepOf
<1>3. ASSUME NEW c \in Creators, NEW p \in saves'[c], p[1] \in retired'
      PROVE  rows'[p[1]] = NoRow
  <2>1. ASSUME NEW S \in SUBSET Slugs, Remove(S), UNCHANGED saves PROVE rows'[p[1]] = NoRow
    <3>1. p[1] \in Slugs /\ (p[1] \in retired => rows[p[1]] = NoRow)
      BY <1>1, <2>1, RedisTypes DEF Settled
    <3> QED
      BY <1>3, <2>1, <3>1 DEF Remove
  <2>2. CASE RedisTick
    BY <2>1, <2>2 DEF RedisTick, Drop
  <2>3. CASE UNCHANGED <<rows, retired, saves>>
    BY <1>3, <2>3 DEF Settled
  <2>4. ASSUME NEW r \in Clients, Active(r), Remove({loc[r].slug}), UNCHANGED saves
        PROVE  rows'[p[1]] = NoRow
    <3>1. loc[r].slug \in Slugs
      BY <1>1, <2>4 DEF TypeOK, PlacesOK, Active
    <3> QED
      BY <2>1, <2>4, <3>1
  <2>5. ASSUME NEW d \in Creators, NEW u \in Slugs, Drawable(u), SetContent(d, u)
        PROVE  rows'[p[1]] = NoRow
    <3>1. p \in saves[c] /\ p[1] \in retired /\ u \notin retired
      BY <1>3, <2>5 DEF SetContent, Drawable
    <3> QED
      BY <1>1, <2>5, <3>1, RedisTypes DEF Settled, SetContent
  <2>6. ASSUME NEW d \in Creators, pc[d] = "insert", SetMeta(d)
        PROVE  rows'[p[1]] = NoRow
    <3>1. PICK u \in Slugs : u = loc[d].slug
      BY <1>1, <2>6, RedisTypes
    <3>2. rows[u] # NoRow /\ u \notin retired
      BY <1>1, <2>6, <3>1 DEF Settled, HashesInv, PostsInv, HalfWritten
    <3>3. retired' = retired /\ rows' = [rows EXCEPT ![u] = WithMeta(d, u)]
      BY <2>6, <3>1 DEF SetMeta
    <3>4. p[1] # u
      BY <1>3, <3>2, <3>3
    <3>5. p \in saves[c]
      <4>1. saves' = [saves EXCEPT ![d] = @ \cup {<<u, Sent(d)>>}]
        BY <2>6, <3>1 DEF SetMeta
      <4>2. p # <<u, Sent(d)>>
        BY <3>4
      <4> QED
        BY <1>1, <4>1, <4>2, RedisTypes
    <3>6. rows[p[1]] = NoRow /\ p[1] \in Slugs
      BY <1>1, <1>3, <3>3, <3>5, RedisTypes DEF Settled
    <3> QED
      BY <1>1, <3>3, <3>4, <3>6
  <2> QED
    BY <1>1, <2>2, <2>3, <2>4, <2>5, <2>6, RedisEffects
<1> QED
  BY <1>2, <1>3 DEF Settled

(* Under an id that was announced a client sees the whole paste, or the    *)
(* paste has gone for good.                                                *)
LEMMA AskedWhole ==
    ASSUME RedisInv, Settled, NEW q \in Clients, Active(q)
    PROVE  LET s == loc[q].slug
           IN  \/ HasContent(s) /\ HasMeta(s) /\ rows[s] # NoRow
               \/ s \in retired /\ rows[s] = NoRow
<1>1. RedisTypeInv /\ HashesInv /\ AskedFor(q)
  BY DEF RedisInv, Asked
<1>2. PICK c \in Creators : \E p \in saves[c] : p[1] = loc[q].slug
  BY <1>1 DEF AskedFor
<1>3. PICK p \in saves[c] : p[1] = loc[q].slug
  BY <1>2
<1>4. p[1] \in retired => rows[p[1]] = NoRow
  BY DEF Settled
<1>5. p[1] \notin retired => rows[p[1]] = p[2] /\ fields[p[1]] = {"content", "meta"}
  BY <1>1 DEF HashesInv, PostsInv, Whole
<1>6. p[2] # NoRow
  BY <1>1, RedisTypes, Absent
<1> QED
  BY <1>3, <1>4, <1>5, <1>6 DEF HasContent, HasMeta

(* A request that has seen nothing has asked for a paste that has gone. *)
Missed(q) == pc[q] \in {"peeked", "got", "fellback"} /\ loc[q].seen = NoRow
                 => loc[q].slug \in retired
MissedInv == \A q \in Readers : Missed(q)

LEMMA RetiredStays ==
    ASSUME RedisTypeInv, [RedisNext]_redisVars PROVE retired \subseteq retired'
BY RedisEffects DEF RedisTick, Drop, Remove, SetContent, SetMeta

LEMMA MissedStep ==
    ASSUME RedisInv, Settled, MissedInv, [RedisNext]_redisVars PROVE MissedInv'
<1> SUFFICES ASSUME NEW q \in Readers, pc'[q] \in {"peeked", "got", "fellback"},
                    loc'[q].seen = NoRow
             PROVE  loc'[q].slug \in retired'
  BY DEF MissedInv, Missed
<1>1. /\ RedisTypeInv /\ TypeOK /\ q \in Clients /\ q \in Requests /\ Missed(q)
      /\ DOMAIN pc = Requests /\ loc \in [Requests -> Local] /\ retired \subseteq retired'
  BY RetiredStays, RedisTypes, ClientsCreators DEF RedisInv, TypeOK, PlacesOK, MissedInv
<1>2. ASSUME NEW label, Goto(q, label) PROVE pc'[q] = label
  BY <1>1, <1>2 DEF Goto
<1>3. ~Restart
  BY <1>1 DEF Restart
<1>4. CASE RedisUntouched(q)
  BY <1>1, <1>4 DEF RedisUntouched, Missed
<1>5. ~Arrive(q, loc'[q].slug, "peek") /\ \A s, label : label \in {"peek", "erase"} => ~Arrive(q, s, label)
  BY <1>2 DEF Arrive
<1>6. CASE RedisFetchStep(q)
  <2>1. RedisPeekMeta(q) \/ RedisGet(q)
    BY <1>2, <1>6 DEF RedisFetchStep, RedisGetAndDelete, RedisFetchFails, FetchDecide, FetchGot,
       FetchFellBack, TakeStamp, FetchFailed, Decrypt, Deliver, Finish
  <2>2. PICK s : s = loc[q].slug
    OBVIOUS
  <2>3. (HasContent(s) /\ HasMeta(s) /\ rows[s] # NoRow) \/ s \in retired
    BY <1>1, <2>1, <2>2, AskedWhole DEF RedisPeekMeta, RedisGet, Active
  <2>4. \E row \in {rows[s]} \cup (IF HasContent(s) /\ HasMeta(s) THEN {} ELSE {NoRow}) :
           \E to : Look(q, row, to)
    BY <2>1, <2>2 DEF RedisPeekMeta, RedisGet
  <2>5. PICK row \in {rows[s]} \cup (IF HasContent(s) /\ HasMeta(s) THEN {} ELSE {NoRow}) :
           \E to : Look(q, row, to)
    BY <2>4
  <2>6. loc'[q].slug = s /\ loc'[q].seen = row
    BY <1>1, <2>2, <2>5 DEF Look, Local
  <2> QED
    BY <1>1, <2>3, <2>6
<1> QED
  BY <1>1, <1>3, <1>4, <1>5, <1>6, RedisReaderStep

(* With Redis too, and under the assumptions of RedisBurnedOnce, a reader  *)
(* whose storage calls succeed gets 404 only if its paste has gone: the    *)
(* detour by PeekMeta, Get and GetAndDelete loses no paste, and no half of *)
(* one is in its way.                                                      *)
THEOREM RedisNoPasteMissed ==
    ASSUME ~Reuse, ~Guess PROVE RedisSpec => NotFoundJustified
<1>1. ASSUME RedisInv, Settled, MissedInv, [RedisNext]_redisVars
      PROVE  [\A r \in Readers :
                ans[r] # "404" /\ ans'[r] = "404" /\ pc[r] # "failed" =>
                   \/ wit[r].found = NoRow \/ Expired(wit[r].found)
                   \/ rows[loc[r].slug] # wit[r].found]_vars
  <2> SUFFICES ASSUME NEW q \in Readers, ans[q] # "404", ans'[q] = "404", pc[q] # "failed"
               PROVE  rows[loc[q].slug] = NoRow
    OBVIOUS
  <2>1. q \in Clients /\ q \in Requests /\ DOMAIN ans = Requests /\ TypeOK
    BY <1>1, RedisTypes, ClientsCreators DEF RedisInv, TypeOK
  <2>2. ASSUME NEW code, Finish(q, code) PROVE ans'[q] = code
    BY <2>1, <2>2 DEF Finish
  <2>3. ~UNCHANGED ans /\ ~RedisUntouched(q) /\ ~Restart
    BY <2>1 DEF RedisUntouched, Restart
  <2>4. RedisFetchStep(q)
    BY <1>1, <2>1, <2>3, RedisReaderStep DEF Arrive
  <2>5. FetchGot(q) \/ FetchFellBack(q) \/ RedisGetAndDelete(q)
    BY <2>2, <2>3, <2>4 DEF RedisFetchStep, RedisPeekMeta, RedisGet, Look,
       RedisFetchFails, FetchDecide, TakeStamp, FetchFailed, Decrypt
  <2>6. Active(q)
    BY <2>5 DEF FetchGot, FetchFellBack, RedisGetAndDelete, Returned, Active
  <2>7. ASSUME NEW row, Deliver(q, row) PROVE row = NoRow
    BY <2>2, <2>3, <2>7 DEF Deliver
  <2>8. loc[q].slug \in retired \/ ~HasContent(loc[q].slug)
    <3>1. CASE FetchGot(q)
      BY <1>1, <2>7, <3>1 DEF FetchGot, Returned, MissedInv, Missed
    <3>2. CASE FetchFellBack(q)
      <4>1. pc[q] = "fellback" /\ (UNCHANGED ans \/ Deliver(q, loc[q].seen))
        BY <3>2 DEF FetchFellBack, Returned
      <4> QED
        BY <1>1, <2>3, <2>7, <4>1 DEF MissedInv, Missed
    <3>3. CASE RedisGetAndDelete(q)
      <4>1. (IF HasContent(loc[q].slug) THEN rows[loc[q].slug] ELSE NoRow) = NoRow
        BY <2>7, <3>3 DEF RedisGetAndDelete
      <4>2. loc[q].slug \in Slugs
        BY <2>1, <2>6 DEF TypeOK, PlacesOK, Active
      <4> QED
        BY <1>1, <4>1, <4>2, RedisTypes DEF RedisInv, HasContent
    <3> QED
      BY <2>5, <3>1, <3>2, <3>3
  <2>9. HashInv /\ loc[q].slug \in Slugs
    BY <1>1, <2>1, <2>6 DEF RedisInv, HashesInv, TypeOK, PlacesOK, Active
  <2> QED
    BY <1>1, <2>1, <2>6, <2>8, <2>9, AskedWhole DEF HashInv
<1>2. RedisInit => Settled /\ MissedInv
  <2> SUFFICES ASSUME RedisInit PROVE Settled /\ MissedInv
    OBVIOUS
  <2>1. /\ \A q \in Readers : pc[q] = "idle"
        /\ \A c \in Creators : pc[c] = "idle" /\ saves[c] = {}
    BY ClientsCreators DEF RedisInit, Init
  <2> QED
    BY <2>1 DEF Settled, MissedInv, Missed
<1>3. RedisInv /\ Settled /\ [RedisNext]_redisVars => Settled'
  BY SettledStep
<1>4. RedisInv /\ Settled /\ MissedInv /\ [RedisNext]_redisVars => MissedInv'
  BY MissedStep
<1> QED
  BY <1>1, <1>2, <1>3, <1>4, RedisInvariant, PTL DEF RedisSpec, NotFoundJustified
-----------------------------------------------------------------------------
(* Progress.                                                               *)

LEMMA RedisActsLower ==
    ASSUME TypeOK, TypeOK', NEW r \in Requests, RedisActs(r)
    PROVE  Lowers(r)
<1>1. ASSUME r \in Creators, RedisCreateStep(r) \/ CreateArrive(r)
      PROVE  Lowers(r)
  <2>1. CASE CreateArrive(r) \/ CreateGate(r) \/ CreateEncode(r) \/ CreateReply(r)
    BY <1>1, <2>1, PostLowers
  <2>2. CASE Gate(r)
    <3>1. PICK s : loc' = [loc EXCEPT ![r].slug = s]
      BY <2>2 DEF Gate
    <3>2. loc'[r].tries = loc[r].tries
      BY <3>1 DEF TypeOK, PlacesOK, Local
    <3> QED
      BY <1>1, <2>2, <3>2, SaveLowers DEF Gate
  <2>3. CASE GateConflict(r)
    BY <1>1, <2>3, TryLowers DEF GateConflict
  <2>4. CASE Fill(r)
    BY <1>1, <2>4, SaveLowers DEF Fill
  <2>5. CASE GateFails(r) \/ FillFails(r)
    BY <2>5, Lowering DEF GateFails, FillFails, Release
  <2> QED
    BY <1>1, <2>1, <2>2, <2>3, <2>4, <2>5 DEF RedisCreateStep
<1>2. ASSUME r \in Clients,
             \/ r \in Readers /\ RedisFetchStep(r)
             \/ RedisDeleteStep(r)
             \/ \E s \in Slugs, label \in {"peek", "erase"} : Arrive(r, s, label)
      PROVE  Lowers(r)
  <2>1. CASE \/ \E s \in Slugs, label \in {"peek", "erase"} : Arrive(r, s, label)
             \/ FetchDecide(r) \/ FetchGot(r) \/ FetchFellBack(r) \/ TakeStamp(r)
             \/ FetchFailed(r) \/ Decrypt(r) \/ DeleteDecide(r)
    BY <1>2, <2>1, ClientLowers
  <2>2. CASE RedisPeekMeta(r) \/ RedisGet(r)
    BY <2>2, LookLowers DEF RedisPeekMeta, RedisGet, Look
  <2>3. CASE RedisGetAndDelete(r)
    BY <2>3, DeliverLowers DEF RedisGetAndDelete
  <2>4. CASE RedisFetchFails(r)
    BY <2>4, GoesLower DEF RedisFetchFails
  <2>5. CASE RedisDelete(r)
    BY <2>5, Lowering DEF RedisDelete
  <2> QED
    BY <1>2, <2>1, <2>2, <2>3, <2>4, <2>5 DEF RedisFetchStep, RedisDeleteStep
<1> QED
  BY <1>1, <1>2, ClientsCreators DEF RedisActs, Clients

RedisNearer ==
    \A r \in Requests : /\ StepsLeft(r)' <= StepsLeft(r)
                       /\ RedisActs(r) => StepsLeft(r)' < StepsLeft(r)

(* RedisFewSteps: the same with Redis: at most ten steps to the answer,    *)
(* each nearer than the one before, and nothing takes a handler back.      *)
THEOREM RedisFewSteps == RedisSpec => []FewLeft /\ [][RedisNearer]_redisVars
<1>1. ASSUME TypeOK, TypeOK', [RedisNext]_redisVars, NEW r \in Requests
      PROVE  StepsLeft(r)' <= StepsLeft(r)
  <2>1. CASE RedisActs(r)
    <3>1. StepsLeft(r)' < StepsLeft(r) /\ StepsLeft(r) \in Int /\ StepsLeft(r)' \in Int
      BY <1>1, <2>1, RedisActsLower, Lowering, LeftBounds DEF Lowers, StepsLeft
    <3> QED
      BY <3>1
  <2>2. CASE ~RedisActs(r)
    BY <1>1, <2>2, RedisStepOf, RestartLowers DEF RedisUntouched
  <2> QED
    BY <2>1, <2>2
<1>2. RedisTypeInv => TypeOK
  BY DEF RedisTypeInv, RedisTypeOK
<1>3. RedisTypeInv /\ [RedisNext]_redisVars => [RedisNearer]_redisVars
  <2> SUFFICES ASSUME RedisTypeInv, [RedisNext]_redisVars PROVE RedisNearer
    OBVIOUS
  <2>1. TypeOK /\ TypeOK'
    BY <1>2, RedisTypeStep DEF RedisTypeInv, RedisTypeOK
  <2> QED
    BY <1>1, <2>1, RedisActsLower DEF RedisNearer, Lowers
<1> QED
  BY <1>2, <1>3, FewLeftIs, RedisTypeInit, RedisTypeStep, PTL DEF RedisSpec

=============================================================================
