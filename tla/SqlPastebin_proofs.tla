------------------------- MODULE SqlPastebin_proofs -------------------------
(***************************************************************************)
(* Theorems about SqlPastebin, for every number of requests, slugs and     *)
(* settings, every form, and both SQL backends.                            *)
(***************************************************************************)
EXTENDS SqlPastebin, FiniteSetTheorems, TLAPS

-----------------------------------------------------------------------------
(* Types of the values the handlers build.                                 *)

LEMMA LocalType ==
    /\ NoLocal \in Local /\ NoWitness \in Witness
    /\ NoForm \notin Forms /\ NoSlug \notin Slugs
<1>1. 0 \in 0 .. maxSlugRetries - 1
  BY DEF maxSlugRetries
<1> QED
  BY <1>1, Absent DEF NoLocal, NoWitness, Local, Witness

LEMMA TtlType ==
    ASSUME NEW max \in Int, NEW n \in Int, NEW t \in Int
    PROVE  ExpireAt(t, ResolveTTL(max, n)) \in Int
BY DEF ExpireAt, ResolveTTL, Never

LEMMA NewRowType ==
    ASSUME TypeOK, NEW c \in Creators, pc[c] = "insert"
    PROVE  NewRow(c) \in Row
<1> DEFINE f == loc[c].form
<1>1. f \in Form
  BY Parameters DEF TypeOK, PlacesOK
<1>2. loc[c].stamp \in Int
  BY DEF TypeOK, PlacesOK, Local, Requests
<1>3. ExpireAt(loc[c].stamp, ResolveTTL(MaxTTL, f.ttl)) \in Int
  <2>1. f.ttl \in Int
    BY <1>1 DEF Form
  <2>2. MaxTTL \in Int
    BY Parameters
  <2> HIDE DEF f
  <2> QED
    BY <1>2, <2>1, <2>2, TtlType
<1>4. cfg \in Config
  BY Parameters DEF TypeOK, ProcessOK
<1> QED
  BY <1>1, <1>3, <1>4, Parameters DEF NewRow, Row, Form, Config

LEMMA SelectType ==
    ASSUME TypeOK, NEW s \in Slugs
    PROVE  Select(s) \in {NoRow, rows[s]}
BY DEF Select

LEMMA ClientsCreators ==
    /\ \A r \in Clients : r \in Requests /\ r \notin Creators
    /\ \A c \in Creators : c \in Requests /\ c \notin Clients
    /\ Readers \subseteq Clients /\ Deleters \subseteq Clients
    /\ \A d \in Deleters : d \notin Readers
BY Disjoint DEF Clients, Requests

-----------------------------------------------------------------------------
(* Type correctness.                                                       *)

LEMMA TypeInit == Init => TypeOK
<1> SUFFICES ASSUME Init PROVE TypeOK
  OBVIOUS
<1>1. PlacesOK
  BY LocalType, ClientsCreators DEF Init, PlacesOK, CreatorLabels, ClientLabels
<1> QED
  BY <1>1, LocalType DEF Init, TypeOK, TableOK, ProcessOK, Codes

LEMMA GotoType ==
    ASSUME PlacesOK, NEW r \in Requests, NEW label, Goto(r, label),
           NEW l \in Local, loc' = [loc EXCEPT ![r] = l],
           r \in Creators => label \in CreatorLabels,
           r \in Clients => label \in ClientLabels,
           label \notin {"idle", "done"} =>
              (r \in Creators => l.form \in Forms) /\ (r \in Clients => l.slug \in Slugs)
    PROVE  PlacesOK'
<1>1. label \in CreatorLabels \cup ClientLabels
  BY ClientsCreators DEF Requests, Clients
<1>2. /\ pc' \in [Requests -> CreatorLabels \cup ClientLabels]
      /\ \A c \in Requests : pc'[c] = IF c = r THEN label ELSE pc[c]
  BY <1>1 DEF Goto, PlacesOK
<1>3. /\ loc' \in [Requests -> Local]
      /\ \A c \in Requests : loc'[c] = IF c = r THEN l ELSE loc[c]
  BY DEF PlacesOK
<1>4. \A c \in Creators : pc'[c] \in CreatorLabels
  BY <1>2, ClientsCreators DEF PlacesOK
<1>5. \A c \in Clients : pc'[c] \in ClientLabels
  BY <1>2, ClientsCreators DEF PlacesOK
<1>6. \A c \in Creators : pc'[c] \notin {"idle", "done"} => loc'[c].form \in Forms
  BY <1>2, <1>3, ClientsCreators DEF PlacesOK
<1>7. \A c \in Clients : pc'[c] \notin {"idle", "done"} => loc'[c].slug \in Slugs
  BY <1>2, <1>3, ClientsCreators DEF PlacesOK
<1> QED
  BY <1>2, <1>3, <1>4, <1>5, <1>6, <1>7 DEF PlacesOK

LEMMA FinishType ==
    ASSUME TypeOK, NEW r \in Requests, NEW code \in Codes, Finish(r, code)
    PROVE  PlacesOK' /\ ans' \in [Requests -> Codes] /\ wit' \in [Requests -> Witness]
<1>1. "done" \in CreatorLabels /\ "done" \in ClientLabels
  BY DEF CreatorLabels, ClientLabels
<1>2. PlacesOK
  BY DEF TypeOK
<1>3. PlacesOK'
  BY <1>1, <1>2, GotoType, LocalType DEF Finish
<1>4. ans' \in [Requests -> Codes]
  BY DEF Finish, TypeOK
<1>5. wit' \in [Requests -> Witness]
  BY LocalType DEF Finish, TypeOK
<1> QED
  BY <1>3, <1>4, <1>5

LEMMA RemoveType ==
    ASSUME TypeOK, NEW S \in SUBSET Slugs, Remove(S)
    PROVE  TableOK'
BY DEF TypeOK, TableOK, Remove

(* Assignments to one local variable. *)
LEMMA LocalUpdate ==
    ASSUME NEW l \in Local
    PROVE  /\ \A f \in Forms : [l EXCEPT !.form = f] \in Local
           /\ \A s \in Slugs : [l EXCEPT !.slug = s] \in Local
           /\ \A x \in Row \cup {NoRow} : [l EXCEPT !.seen = x] \in Local
           /\ \A n \in Nat : [l EXCEPT !.stamp = n] \in Local
           /\ \A n \in 0 .. maxSlugRetries - 1 : [l EXCEPT !.tries = n] \in Local
BY DEF Local

LEMMA CreateType ==
    ASSUME TypeOK, NEW c \in Creators, CreateArrive(c) \/ CreateStep(c)
    PROVE  TypeOK'
<1>1. c \in Requests /\ c \notin Clients /\ loc[c] \in Local
  BY ClientsCreators DEF TypeOK, PlacesOK
<1>2. {"400", "413", "500", "503", "201"} \subseteq Codes
  BY DEF Codes
<1>3. slots - 1 \in Int /\ slots + 1 \in Int
  BY DEF TypeOK
<1>4. ASSUME NEW code \in {"400", "413", "500", "503", "201"}, Finish(c, code),
             UNCHANGED <<process, got>>, TableOK', slots' \in Int,
             saves' \in [Creators -> SUBSET (Slugs \X Row)]
      PROVE  TypeOK'
  BY <1>1, <1>2, <1>4, FinishType DEF process, TypeOK, ProcessOK
<1>5. ASSUME NEW label \in CreatorLabels, Goto(c, label), label \notin {"idle", "done"},
             NEW l \in Local, loc' = [loc EXCEPT ![c] = l], l.form \in Forms
      PROVE  PlacesOK'
  BY <1>1, <1>5, GotoType DEF TypeOK
<1>6. ASSUME UNCHANGED store PROVE TableOK'
  BY <1>6 DEF store, TableOK, TypeOK
<1>7. ASSUME NEW label \in CreatorLabels, Goto(c, label), label \notin {"idle", "done"},
             pc[c] \notin {"idle", "done"}, UNCHANGED loc
      PROVE  PlacesOK'
  <2>1. loc' = [loc EXCEPT ![c] = loc[c]] /\ loc[c].form \in Forms
    BY <1>7 DEF TypeOK, PlacesOK
  <2> QED
    BY <1>1, <1>5, <1>7, <2>1
<1>8. {"gate", "encode", "save", "insert", "created"} \subseteq CreatorLabels
  BY DEF CreatorLabels
<1>9. ASSUME PlacesOK', TableOK', UNCHANGED <<process, got, ans, wit>>, slots' \in Int,
             saves' \in [Creators -> SUBSET (Slugs \X Row)]
      PROVE  TypeOK'
  BY <1>9 DEF TypeOK, ProcessOK, process
<1>10. UNCHANGED saves => saves' \in [Creators -> SUBSET (Slugs \X Row)]
  BY DEF TypeOK
<1>11. UNCHANGED slots => slots' \in Int
  BY DEF TypeOK
<1>a. CASE CreateArrive(c)
  <2>1. PICK f \in Forms :
          \/ f.body = "over" /\ Finish(c, "413")
          \/ f.body = "empty" /\ Finish(c, "400")
          \/ f.body # "over" /\ Faults /\ Finish(c, "500")
          \/ /\ f.body = "fits"
             /\ loc' = [loc EXCEPT ![c].form = f]
             /\ Goto(c, "gate")
             /\ UNCHANGED <<ans, wit>>
    BY <1>a DEF CreateArrive
  <2>2. UNCHANGED <<store, process, slots, got, saves>>
    BY <1>a DEF CreateArrive
  <2>3. CASE \E code \in {"413", "400", "500"} : Finish(c, code)
    BY <2>2, <2>3, <1>4, <1>6, <1>10, <1>11
  <2>4. CASE loc' = [loc EXCEPT ![c].form = f] /\ Goto(c, "gate") /\ UNCHANGED <<ans, wit>>
    <3> DEFINE l == [loc[c] EXCEPT !.form = f]
    <3>1. l \in Local /\ l.form \in Forms
      BY <1>1, LocalUpdate DEF Local
    <3>2. loc' = [loc EXCEPT ![c] = l]
      BY <2>4
    <3>3. PlacesOK'
      BY <2>4, <3>1, <3>2, <1>5, <1>8
    <3> QED
      BY <2>2, <2>4, <3>3, <1>6, <1>9, <1>10, <1>11
  <2> QED
    BY <2>1, <2>3, <2>4
<1>b. CASE CreateGate(c)
  <2>1. pc[c] = "gate" /\ UNCHANGED <<store, process, got, saves>>
    BY <1>b DEF CreateGate
  <2>2. CASE slots' = slots + 1 /\ Goto(c, "encode") /\ UNCHANGED <<loc, ans, wit>>
    <3>1. PlacesOK'
      BY <2>1, <2>2, <1>7, <1>8
    <3> QED
      BY <2>1, <2>2, <3>1, <1>3, <1>6, <1>9, <1>10
  <2>3. CASE Finish(c, "503") /\ UNCHANGED slots
    BY <2>1, <2>3, <1>4, <1>6, <1>10, <1>11
  <2> QED
    BY <1>b, <2>2, <2>3 DEF CreateGate
<1>c. CASE CreateEncode(c)
  <2>1. pc[c] = "encode" /\ UNCHANGED <<store, process, got, saves>>
    BY <1>c DEF CreateEncode
  <2>2. CASE Goto(c, "save") /\ UNCHANGED <<slots, loc, ans, wit>>
    <3>1. PlacesOK'
      BY <2>1, <2>2, <1>7, <1>8
    <3> QED
      BY <2>1, <2>2, <3>1, <1>6, <1>9, <1>10, <1>11
  <2>3. CASE Release(c, "500") \/ Release(c, "400")
    BY <2>1, <2>3, <1>3, <1>4, <1>6, <1>10 DEF Release
  <2> QED
    BY <1>c, <2>2, <2>3 DEF CreateEncode
<1>d. CASE CreateStamp(c)
  <2>1. pc[c] = "save" /\ UNCHANGED <<store, process, got, saves>>
    BY <1>d DEF CreateStamp
  <2>2. CASE loc' = [loc EXCEPT ![c].stamp = now] /\ Goto(c, "insert")
             /\ UNCHANGED <<slots, ans, wit>>
    <3> DEFINE l == [loc[c] EXCEPT !.stamp = now]
    <3>1. l \in Local /\ l.form \in Forms
      BY <1>1, <2>1, LocalUpdate DEF Local, TypeOK, ProcessOK, PlacesOK
    <3>2. loc' = [loc EXCEPT ![c] = l]
      BY <2>2
    <3>3. PlacesOK'
      BY <2>2, <3>1, <3>2, <1>5, <1>8
    <3> QED
      BY <2>1, <2>2, <3>3, <1>6, <1>9, <1>10, <1>11
  <2>3. CASE Release(c, "500")
    BY <2>1, <2>3, <1>3, <1>4, <1>6, <1>10 DEF Release
  <2> QED
    BY <1>d, <2>2, <2>3 DEF CreateStamp
<1>12. ASSUME NEW s \in Slugs, pc[c] = "insert", Store(c, s)
       PROVE  TableOK' /\ saves' \in [Creators -> SUBSET (Slugs \X Row)]
  <2>1. NewRow(c) \in Row
    BY <1>12, NewRowType
  <2>2. TableOK'
    BY <2>1, <1>12 DEF Store, TableOK, TypeOK
  <2>3. saves' \in [Creators -> SUBSET (Slugs \X Row)]
    BY <2>1, <1>12 DEF Store, TypeOK
  <2> QED
    BY <2>2, <2>3
<1>e. CASE CreateInsert(c)
  <2>1. PICK s \in Slugs : Store(c, s)
    BY <1>e DEF CreateInsert
  <2>2. pc[c] = "insert" /\ Goto(c, "created")
        /\ UNCHANGED <<process, slots, loc, got, ans, wit>>
    BY <1>e DEF CreateInsert
  <2>3. PlacesOK'
    BY <2>2, <1>7, <1>8
  <2> QED
    BY <2>1, <2>2, <2>3, <1>9, <1>11, <1>12
<1>f. CASE CreateConflict(c)
  <2>1. pc[c] = "insert" /\ UNCHANGED <<store, process, got, saves>>
    BY <1>f DEF CreateConflict
  <2>2. CASE ~LastTry(c) /\ loc' = [loc EXCEPT ![c].tries = NextTry(c)]
             /\ Goto(c, "save") /\ UNCHANGED <<slots, ans, wit>>
    <3> DEFINE l == [loc[c] EXCEPT !.tries = NextTry(c)]
    <3>1. NextTry(c) \in 0 .. maxSlugRetries - 1
      BY <1>1, <2>2 DEF Local, NextTry, LastTry, maxSlugRetries
    <3>2. l \in Local /\ l.form \in Forms
      BY <1>1, <2>1, <3>1, LocalUpdate DEF Local, TypeOK, PlacesOK
    <3>3. loc' = [loc EXCEPT ![c] = l]
      BY <2>2
    <3>4. PlacesOK'
      BY <2>2, <3>2, <3>3, <1>5, <1>8
    <3> QED
      BY <2>1, <2>2, <3>4, <1>6, <1>9, <1>10, <1>11
  <2>3. CASE Release(c, "500")
    BY <2>1, <2>3, <1>3, <1>4, <1>6, <1>10 DEF Release
  <2> QED
    BY <1>f, <2>2, <2>3 DEF CreateConflict, TryAgain
<1>g. CASE CreateInsertFails(c)
  <2>1. pc[c] = "insert" /\ Release(c, "500") /\ UNCHANGED <<process, got>>
    BY <1>g DEF CreateInsertFails
  <2>2. CASE UNCHANGED <<rows, retired, saves>>
    BY <2>1, <2>2, <1>3, <1>4, <1>6, <1>10 DEF Release, store
  <2>3. CASE \E s \in Slugs : Store(c, s)
    BY <2>1, <2>3, <1>3, <1>4, <1>12 DEF Release
  <2> QED
    BY <1>g, <2>2, <2>3 DEF CreateInsertFails
<1>h. CASE CreateReply(c)
  BY <1>h, <1>3, <1>4, <1>6, <1>10 DEF CreateReply, Release
<1> QED
  BY <1>a, <1>b, <1>c, <1>d, <1>e, <1>f, <1>g, <1>h DEF CreateStep

LEMMA ClientType ==
    ASSUME TypeOK, NEW r \in Clients,
           \/ \E s \in Slugs, label \in {"peek", "erase"} : Arrive(r, s, label)
           \/ PeekMeta(r) \/ LazyDelete(r)
           \/ r \in Readers /\ FetchStep(r)
           \/ r \in Deleters /\ DeleteStep(r)
    PROVE  TypeOK'
<1>1. r \in Requests /\ r \notin Creators /\ loc[r] \in Local
  BY ClientsCreators DEF TypeOK, PlacesOK
<1>2. {"200", "403", "404", "500"} \subseteq Codes
  BY DEF Codes
<1>3. ASSUME UNCHANGED store PROVE TableOK'
  BY <1>3 DEF store, TableOK, TypeOK
<1>4. ASSUME PlacesOK', TableOK', UNCHANGED <<process, slots, ans, saves>>,
             got' \in [Readers -> Row \cup {NoRow}], wit' \in [Requests -> Witness]
      PROVE  TypeOK'
  BY <1>4 DEF TypeOK, ProcessOK, process
<1>5. /\ UNCHANGED got => got' \in [Readers -> Row \cup {NoRow}]
      /\ UNCHANGED wit => wit' \in [Requests -> Witness]
  BY DEF TypeOK
<1>6. ASSUME NEW code \in {"200", "403", "404", "500"}, Finish(r, code),
             UNCHANGED <<process, slots, got, saves>>, TableOK'
      PROVE  TypeOK'
  BY <1>1, <1>2, <1>6, FinishType DEF process, TypeOK, ProcessOK
<1>7. ASSUME NEW label \in ClientLabels, Goto(r, label),
             NEW l \in Local, loc' = [loc EXCEPT ![r] = l], l.slug \in Slugs
      PROVE  PlacesOK'
  BY <1>1, <1>7, GotoType DEF TypeOK
<1>8. {"peek", "peeked", "get", "got", "fallback", "fellback", "take", "taking",
       "decrypt", "failed", "erase"} \subseteq ClientLabels
  BY DEF ClientLabels
<1>9. ASSUME NEW label \in ClientLabels, Goto(r, label),
             pc[r] \notin {"idle", "done"}, UNCHANGED loc
      PROVE  PlacesOK'
  <2>1. loc' = [loc EXCEPT ![r] = loc[r]] /\ loc[r].slug \in Slugs
    BY <1>9 DEF TypeOK, PlacesOK
  <2> QED
    BY <1>1, <1>7, <1>9, <2>1
<1>10. ASSUME pc[r] \notin {"idle", "done"} PROVE loc[r].slug \in Slugs
  BY <1>10 DEF TypeOK, PlacesOK
<1>11. ASSUME NEW s \in Slugs, Remove({s}) PROVE TableOK'
  BY <1>11, RemoveType
<1>12. ASSUME NEW from, NEW to, Query(r, from, to), from \notin {"idle", "done"},
              to \in ClientLabels
       PROVE  TypeOK'
  <2> DEFINE l == [loc[r] EXCEPT !.seen = Select(loc[r].slug)]
  <2>1. /\ pc[r] = from /\ loc' = [loc EXCEPT ![r] = l] /\ Goto(r, to)
        /\ UNCHANGED <<store, process, slots, got, ans, saves, wit>>
    BY <1>12 DEF Query
  <2>2. Select(loc[r].slug) \in Row \cup {NoRow}
    BY <1>10, <1>12, <2>1, SelectType DEF TypeOK, TableOK
  <2>3. l \in Local /\ l.slug \in Slugs
    BY <1>1, <1>10, <1>12, <2>1, <2>2, LocalUpdate DEF Local
  <2>4. PlacesOK'
    BY <1>7, <1>12, <2>1, <2>3
  <2> QED
    BY <2>1, <2>4, <1>3, <1>4, <1>5
<1>13. ASSUME NEW row \in Row \cup {NoRow}, r \in Readers, Deliver(r, row), TableOK',
              UNCHANGED <<process, slots, saves>>, pc[r] \notin {"idle", "done"}
       PROVE  TypeOK'
  <2>1. CASE row = NoRow
    BY <1>6, <1>13, <2>1 DEF Deliver
  <2>2. CASE row # NoRow
    <3>1. /\ got' = [got EXCEPT ![r] = row] /\ Goto(r, "decrypt")
          /\ UNCHANGED <<loc, ans, wit>>
      BY <1>13, <2>2 DEF Deliver
    <3>2. got' \in [Readers -> Row \cup {NoRow}]
      BY <1>13, <3>1 DEF TypeOK
    <3>3. PlacesOK'
      BY <1>8, <1>9, <1>13, <3>1
    <3> QED
      BY <1>4, <1>5, <1>13, <3>1, <3>2, <3>3
  <2> QED
    BY <2>1, <2>2
<1>14. ASSUME UNCHANGED <<process, slots, loc, got, ans, saves, wit>>, TableOK',
              NEW label \in ClientLabels, Goto(r, label), pc[r] \notin {"idle", "done"}
       PROVE  TypeOK'
  BY <1>4, <1>5, <1>9, <1>14
<1>a. CASE \E s \in Slugs, label \in {"peek", "erase"} : Arrive(r, s, label)
  <2>1. PICK s \in Slugs, label \in {"peek", "erase"} : Arrive(r, s, label)
    BY <1>a
  <2> DEFINE l == [NoLocal EXCEPT !.slug = s]
  <2>2. l \in Local /\ l.slug \in Slugs
    BY LocalType, LocalUpdate DEF Local
  <2>3. PlacesOK'
    BY <1>7, <1>8, <2>1, <2>2 DEF Arrive
  <2>4. [found |-> rows[s], since |-> now] \in Witness
    BY DEF Witness, TypeOK, TableOK, ProcessOK
  <2>5. wit' \in [Requests -> Witness]
    BY <2>1, <2>4 DEF Arrive, TypeOK
  <2> QED
    BY <1>3, <1>4, <1>5, <2>1, <2>3, <2>5 DEF Arrive
<1>b. CASE PeekMeta(r)
  BY <1>b, <1>8, <1>12 DEF PeekMeta
<1>c. CASE LazyDelete(r)
  <2> DEFINE l == [loc[r] EXCEPT !.seen = NoRow]
  <2>1. /\ pc[r] \in {"peeked", "got", "fellback"}
        /\ loc' = [loc EXCEPT ![r] = l]
        /\ UNCHANGED <<process, slots, pc, got, ans, saves, wit>>
    BY <1>c DEF LazyDelete
  <2>2. l \in Local /\ l.slug \in Slugs
    BY <1>1, <1>10, <2>1, LocalUpdate DEF Local
  <2>3. Goto(r, pc[r])
    BY <1>1, <2>1 DEF Goto, TypeOK, PlacesOK
  <2>4. PlacesOK'
    BY <1>7, <1>8, <2>1, <2>2, <2>3
  <2>5. TableOK'
    BY <1>c, <1>3, <1>10, <1>11, <2>1 DEF LazyDelete
  <2> QED
    BY <1>4, <1>5, <2>1, <2>4, <2>5
<1>d. CASE r \in Readers /\ Get(r)
  BY <1>d, <1>8, <1>12 DEF Get
<1>e. CASE r \in Readers /\ FetchDecide(r)
  <2>1. UNCHANGED <<store, process, slots, loc, got, ans, saves, wit>>
        /\ pc[r] \in {"peek", "peeked"}
        /\ \E label \in {"fallback", "take", "get"} : Goto(r, label)
    BY <1>e DEF FetchDecide, Returned
  <2> QED
    BY <1>3, <1>8, <1>14, <2>1
<1>f. CASE r \in Readers /\ FetchGot(r)
  <2>1. loc[r].seen \in Row \cup {NoRow}
    BY <1>1 DEF Local
  <2> QED
    BY <1>3, <1>13, <1>f, <2>1 DEF FetchGot, Returned
<1>g. CASE r \in Readers /\ FetchFellBack(r)
  <2>1. loc[r].seen \in Row \cup {NoRow}
    BY <1>1 DEF Local
  <2>2. pc[r] = "fellback" /\ UNCHANGED <<store, process, slots, saves>>
    BY <1>g DEF FetchFellBack, Returned
  <2>3. CASE Goto(r, "take") /\ UNCHANGED <<loc, got, ans, wit>>
    BY <1>3, <1>8, <1>14, <2>2, <2>3
  <2>4. CASE Deliver(r, loc[r].seen)
    BY <1>3, <1>13, <1>g, <2>1, <2>2, <2>4
  <2> QED
    BY <1>g, <2>3, <2>4 DEF FetchFellBack
<1>h. CASE r \in Readers /\ TakeStamp(r)
  <2> DEFINE l == [loc[r] EXCEPT !.stamp = now]
  <2>1. /\ pc[r] = "take" /\ loc' = [loc EXCEPT ![r] = l] /\ Goto(r, "taking")
        /\ UNCHANGED <<store, process, slots, got, ans, saves, wit>>
    BY <1>h DEF TakeStamp
  <2>2. l \in Local /\ l.slug \in Slugs
    BY <1>1, <1>10, <2>1, LocalUpdate DEF Local, TypeOK, ProcessOK
  <2>3. PlacesOK'
    BY <1>7, <1>8, <2>1, <2>2
  <2> QED
    BY <1>3, <1>4, <1>5, <2>1, <2>3
<1>15. ASSUME pc[r] = "taking", TakeRow(r) PROVE TableOK'
  BY <1>3, <1>10, <1>11, <1>15 DEF TakeRow
<1>i. CASE r \in Readers /\ GetAndDelete(r)
  <2>1. pc[r] = "taking" /\ TakeRow(r) /\ Deliver(r, Takeable(r))
        /\ UNCHANGED <<process, slots, saves>>
    BY <1>i DEF GetAndDelete
  <2>2. Takeable(r) \in Row \cup {NoRow}
    BY <1>10, <2>1 DEF Takeable, TypeOK, TableOK
  <2> QED
    BY <1>13, <1>15, <1>i, <2>1, <2>2
<1>j. CASE r \in Readers /\ FetchFails(r)
  <2>1. /\ pc[r] \in {"get", "fallback", "taking"} /\ Goto(r, "failed")
        /\ UNCHANGED <<process, slots, loc, got, ans, saves, wit>>
    BY <1>j DEF FetchFails
  <2>2. TableOK'
    BY <1>3, <1>15, <1>j DEF FetchFails
  <2> QED
    BY <1>8, <1>14, <2>1, <2>2
<1>k. CASE r \in Readers /\ FetchFailed(r)
  BY <1>3, <1>6, <1>k DEF FetchFailed
<1>l. CASE r \in Readers /\ Decrypt(r)
  <2>1. PICK code \in {"200", "500"} : Finish(r, code)
    BY <1>l DEF Decrypt
  <2> QED
    BY <1>3, <1>6, <1>l, <2>1 DEF Decrypt
<1>m. CASE r \in Deleters /\ DeleteDecide(r)
  <2>1. pc[r] \in {"peek", "peeked"} /\ UNCHANGED <<store, process, slots, got, saves>>
    BY <1>m DEF DeleteDecide, Returned
  <2>2. CASE Finish(r, "403") \/ Finish(r, "500")
    BY <1>3, <1>6, <2>1, <2>2
  <2>3. CASE Goto(r, "erase") /\ UNCHANGED <<loc, ans, wit>>
    BY <1>3, <1>8, <1>14, <2>1, <2>3
  <2> QED
    BY <1>m, <2>2, <2>3 DEF DeleteDecide
<1>n. CASE r \in Deleters /\ Delete(r)
  <2>1. pc[r] = "erase" /\ UNCHANGED <<process, slots, got, saves>>
    BY <1>n DEF Delete
  <2>2. TableOK'
    BY <1>3, <1>10, <1>11, <1>n, <2>1 DEF Delete
  <2>3. Finish(r, "200") \/ Finish(r, "500")
    BY <1>n DEF Delete
  <2> QED
    BY <1>6, <2>1, <2>2, <2>3
<1> QED
  BY <1>a, <1>b, <1>c, <1>d, <1>e, <1>f, <1>g, <1>h, <1>i, <1>j, <1>k, <1>l, <1>m, <1>n
  DEF FetchStep, DeleteStep

LEMMA ProcessType ==
    ASSUME TypeOK, Cleanup \/ Tick \/ Restart
    PROVE  TypeOK'
<1>1. CASE Cleanup
  <2>1. {s \in Slugs : Outdated(s)} \in SUBSET Slugs
    OBVIOUS
  <2>2. TableOK'
    BY <1>1, <2>1, RemoveType DEF Cleanup
  <2> QED
    BY <1>1, <2>2 DEF Cleanup, TypeOK, ProcessOK, PlacesOK, process
<1>2. CASE Tick
  BY <1>2 DEF Tick, TypeOK, TableOK, ProcessOK, PlacesOK, store
<1>3. CASE Restart
  <2>1. /\ pc' \in [Requests -> CreatorLabels \cup ClientLabels]
        /\ \A r \in Requests : pc'[r] \in {"idle", "done"}
    BY <1>3 DEF Restart, CreatorLabels
  <2>2. loc' \in [Requests -> Local] /\ wit' \in [Requests -> Witness]
    BY <1>3, LocalType DEF Restart
  <2>3. ans' \in [Requests -> Codes]
    BY <1>3 DEF Restart, TypeOK, Codes
  <2>4. PlacesOK'
    BY <2>1, <2>2, ClientsCreators DEF PlacesOK, CreatorLabels, ClientLabels
  <2>5. ProcessOK' /\ TableOK' /\ slots' \in Int
    BY <1>3 DEF Restart, TypeOK, ProcessOK, TableOK, store
  <2> QED
    BY <1>3, <2>2, <2>3, <2>4, <2>5 DEF Restart, TypeOK
<1> QED
  BY <1>1, <1>2, <1>3

LEMMA TypeStep == TypeOK /\ [Next]_vars => TypeOK'
<1> SUFFICES ASSUME TypeOK, [Next]_vars PROVE TypeOK'
  OBVIOUS
<1>1. CASE Next
  BY <1>1, CreateType, ClientType, ProcessType, ClientsCreators
  DEF Next, FetchArrive, DeleteArrive
<1>2. CASE UNCHANGED vars
  BY <1>2 DEF vars, TypeOK, TableOK, ProcessOK, PlacesOK
<1> QED
  BY <1>1, <1>2

(* Every variable keeps its type, for every value of the constants; so no  *)
(* handler runs with an undefined form, slug or row.                       *)
THEOREM Typing == Spec => []TypeOK
<1>1. Init => TypeOK
  BY TypeInit
<1>2. TypeOK /\ [Next]_vars => TypeOK'
  BY TypeStep
<1> QED
  BY <1>1, <1>2, PTL DEF Spec

-----------------------------------------------------------------------------
(* Burn after reading.  Every step has one of six shapes, as far as the    *)
(* table, the rows in the clients' hands and the history are concerned.    *)

(* No client's hands hold a row they did not hold before. *)
LocKept ==
    \A q \in Clients :
        \/ loc'[q].seen = NoRow
        \/ loc'[q].seen = loc[q].seen /\ loc'[q].slug = loc[q].slug

Quiet == UNCHANGED <<store, saves, got>> /\ LocKept

Removal == /\ \E S \in SUBSET Slugs : Remove(S)
           /\ UNCHANGED <<saves, got>> /\ LocKept

Insertion(c, s) ==
    /\ pc[c] = "insert" /\ pc'[c] \in {"created", "done"}
    /\ Drawable(s) /\ Vacant(s) /\ Store(c, s)
    /\ UNCHANGED got /\ LocKept

Looks(r) ==
    /\ UNCHANGED <<store, saves, got>>
    /\ loc[r].slug \in Slugs /\ loc'[r].slug = loc[r].slug
    /\ loc'[r].seen \in {NoRow, rows[loc[r].slug]}
    /\ \A q \in Clients : q # r => loc'[q] = loc[q]

Serve(r) ==
    /\ UNCHANGED <<store, saves>> /\ LocKept
    /\ loc[r].seen # NoRow /\ ~loc[r].seen.burn
    /\ got' = [got EXCEPT ![r] = loc[r].seen]

Take(r) ==
    LET s == loc[r].slug
    IN  /\ s \in Slugs /\ rows[s] # NoRow /\ Remove({s})
        /\ UNCHANGED saves /\ LocKept
        /\ got' = [got EXCEPT ![r] = rows[s]]

Shape == \/ Quiet \/ Removal
         \/ \E c \in Creators, s \in Slugs : Insertion(c, s)
         \/ \E r \in Clients : Looks(r)
         \/ \E r \in Readers : Serve(r) \/ Take(r)

LEMMA FinishKept ==
    ASSUME TypeOK, NEW r \in Requests, NEW code, Finish(r, code)
    PROVE  LocKept
BY DEF Finish, LocKept, TypeOK, PlacesOK, NoLocal, Requests, Clients

LEMMA AssignKept ==
    ASSUME TypeOK, NEW r \in Requests, NEW l, loc' = [loc EXCEPT ![r] = l],
           r \in Creators \/ l.seen = NoRow
                           \/ (l.seen = loc[r].seen /\ l.slug = loc[r].slug)
    PROVE  LocKept
BY ClientsCreators DEF LocKept, TypeOK, PlacesOK

LEMMA UnchangedKept == UNCHANGED loc => LocKept
BY DEF LocKept

LEMMA CreateShape ==
    ASSUME TypeOK, NEW c \in Creators, CreateArrive(c) \/ CreateStep(c)
    PROVE  Shape
<1>1. c \in Requests
  BY ClientsCreators
<1>2. ASSUME NEW code, Finish(c, code) PROVE LocKept
  BY <1>1, <1>2, FinishKept
<1>3. ASSUME NEW code, Release(c, code) PROVE LocKept /\ pc'[c] = "done"
  BY <1>1, <1>2, <1>3 DEF Release, Finish, Goto, TypeOK, PlacesOK
<1>4. ASSUME NEW l, loc' = [loc EXCEPT ![c] = l] PROVE LocKept
  BY <1>1, <1>4, AssignKept
<1>a. CASE CreateArrive(c)
  BY <1>a, <1>2, <1>4 DEF CreateArrive, Shape, Quiet
<1>b. CASE CreateGate(c)
  BY <1>b, <1>2, UnchangedKept DEF CreateGate, Shape, Quiet
<1>c. CASE CreateEncode(c)
  BY <1>c, <1>3, UnchangedKept DEF CreateEncode, Shape, Quiet
<1>d. CASE CreateStamp(c)
  BY <1>d, <1>3, <1>4 DEF CreateStamp, Shape, Quiet
<1>e. CASE CreateInsert(c)
  <2>1. pc'[c] = "created" /\ pc[c] = "insert" /\ LocKept /\ UNCHANGED got
    BY <1>1, <1>e, UnchangedKept DEF CreateInsert, Goto, TypeOK, PlacesOK
  <2> QED
    BY <1>e, <2>1 DEF CreateInsert, Shape, Insertion
<1>f. CASE CreateConflict(c)
  BY <1>f, <1>3, <1>4 DEF CreateConflict, TryAgain, Shape, Quiet
<1>g. CASE CreateInsertFails(c)
  <2>1. pc'[c] = "done" /\ pc[c] = "insert" /\ LocKept /\ UNCHANGED got
    BY <1>3, <1>g DEF CreateInsertFails
  <2>2. CASE UNCHANGED <<rows, retired, saves>>
    BY <2>1, <2>2 DEF Shape, Quiet, store
  <2>3. CASE \E s \in Slugs : Drawable(s) /\ Vacant(s) /\ Store(c, s)
    BY <2>1, <2>3 DEF Shape, Insertion
  <2> QED
    BY <1>g, <2>2, <2>3 DEF CreateInsertFails
<1>h. CASE CreateReply(c)
  BY <1>h, <1>3 DEF CreateReply, Shape, Quiet
<1> QED
  BY <1>a, <1>b, <1>c, <1>d, <1>e, <1>f, <1>g, <1>h DEF CreateStep

LEMMA ClientShape ==
    ASSUME TypeOK, GetSparesBurn, NEW r \in Clients,
           \/ \E s \in Slugs, label \in {"peek", "erase"} : Arrive(r, s, label)
           \/ PeekMeta(r) \/ LazyDelete(r)
           \/ r \in Readers /\ FetchStep(r)
           \/ r \in Deleters /\ DeleteStep(r)
    PROVE  Shape
<1>1. r \in Requests
  BY ClientsCreators
<1>2. ASSUME NEW code, Finish(r, code) PROVE LocKept
  BY <1>1, <1>2, FinishKept
<1>3. ASSUME pc[r] \notin {"idle", "done"} PROVE loc[r].slug \in Slugs
  BY <1>3 DEF TypeOK, PlacesOK
<1>4. ASSUME NEW s \in Slugs, Remove({s}) PROVE \E S \in SUBSET Slugs : Remove(S)
  BY <1>4
<1>5. ASSUME NEW from, NEW to, Query(r, from, to), from \notin {"idle", "done"}
      PROVE  Shape
  <2>1. loc[r].slug \in Slugs
    BY <1>3, <1>5 DEF Query
  <2>2. Select(loc[r].slug) \in {NoRow, rows[loc[r].slug]}
    BY <2>1, SelectType
  <2>3. loc \in [Requests -> Local]
    BY DEF TypeOK, PlacesOK
  <2>4. loc'[r].slug = loc[r].slug /\ loc'[r].seen = Select(loc[r].slug)
    BY <1>1, <1>5, <2>3 DEF Query, Local
  <2>5. \A q \in Clients : q # r => loc'[q] = loc[q]
    BY <1>5, <2>3, ClientsCreators DEF Query
  <2>6. UNCHANGED <<store, saves, got>>
    BY <1>5 DEF Query
  <2> QED
    BY <2>1, <2>2, <2>4, <2>5, <2>6 DEF Looks, Shape
<1>6. ASSUME pc[r] = "taking", TakeRow(r), UNCHANGED <<saves, got>>, LocKept PROVE Shape
  BY <1>3, <1>4, <1>6 DEF TakeRow, Shape, Quiet, Removal
<1>a. CASE \E s \in Slugs, label \in {"peek", "erase"} : Arrive(r, s, label)
  <2>1. PICK s \in Slugs, label \in {"peek", "erase"} : Arrive(r, s, label)
    BY <1>a
  <2>2. [NoLocal EXCEPT !.slug = s].seen = NoRow
    BY DEF NoLocal
  <2>3. LocKept
    BY <1>1, <2>1, <2>2, AssignKept DEF Arrive
  <2> QED
    BY <2>1, <2>3 DEF Arrive, Shape, Quiet
<1>b. CASE PeekMeta(r)
  BY <1>b, <1>5 DEF PeekMeta
<1>c. CASE LazyDelete(r)
  <2>1. [loc[r] EXCEPT !.seen = NoRow].seen = NoRow
    BY <1>1 DEF TypeOK, PlacesOK, Local
  <2>2. LocKept
    BY <1>1, <1>c, <2>1, AssignKept DEF LazyDelete
  <2>3. loc[r].slug \in Slugs /\ UNCHANGED <<saves, got>>
    BY <1>3, <1>c DEF LazyDelete
  <2> QED
    BY <1>4, <1>c, <2>2, <2>3 DEF LazyDelete, Shape, Quiet, Removal
<1>d. CASE r \in Readers /\ Get(r)
  BY <1>d, <1>5 DEF Get
<1>e. CASE r \in Readers /\ FetchDecide(r)
  BY <1>e, UnchangedKept DEF FetchDecide, Shape, Quiet
<1>f. CASE r \in Readers /\ FetchGot(r)
  <2>1. CASE loc[r].seen = NoRow
    BY <1>2, <1>f, <2>1 DEF FetchGot, Deliver, Shape, Quiet
  <2>2. CASE loc[r].seen # NoRow
    <3>1. ~loc[r].seen.burn
      BY <1>f, <2>2 DEF FetchGot, Returned, GetSparesBurn
    <3> QED
      BY <1>f, <2>2, <3>1, UnchangedKept DEF FetchGot, Deliver, Shape, Serve
  <2> QED
    BY <2>1, <2>2
<1>g. CASE r \in Readers /\ FetchFellBack(r)
  <2>1. CASE loc[r].seen = NoRow
    BY <1>2, <1>g, <2>1 DEF FetchFellBack, Deliver, Shape, Quiet
  <2>2. CASE loc[r].seen # NoRow /\ loc[r].seen.burn
    BY <1>g, <2>2, UnchangedKept DEF FetchFellBack, Shape, Quiet
  <2>3. CASE loc[r].seen # NoRow /\ ~loc[r].seen.burn
    BY <1>g, <2>3, UnchangedKept DEF FetchFellBack, Deliver, Shape, Serve
  <2> QED
    BY <2>1, <2>2, <2>3
<1>h. CASE r \in Readers /\ TakeStamp(r)
  <2>1. /\ [loc[r] EXCEPT !.stamp = now].seen = loc[r].seen
        /\ [loc[r] EXCEPT !.stamp = now].slug = loc[r].slug
    BY <1>1 DEF TypeOK, PlacesOK, Local
  <2>2. LocKept
    BY <1>1, <1>h, <2>1, AssignKept DEF TakeStamp
  <2> QED
    BY <1>h, <2>2 DEF TakeStamp, Shape, Quiet
<1>i. CASE r \in Readers /\ GetAndDelete(r)
  <2>1. pc[r] = "taking" /\ TakeRow(r) /\ Deliver(r, Takeable(r)) /\ UNCHANGED saves
    BY <1>i DEF GetAndDelete
  <2>2. CASE Takeable(r) = NoRow
    BY <1>2, <1>6, <2>1, <2>2 DEF Deliver
  <2>3. CASE Takeable(r) # NoRow
    <3>1. Takeable(r) = rows[loc[r].slug] /\ rows[loc[r].slug] # NoRow
      BY <2>3 DEF Takeable
    <3>2. LocKept /\ got' = [got EXCEPT ![r] = rows[loc[r].slug]]
      BY <2>1, <2>3, <3>1, UnchangedKept DEF Deliver
    <3> QED
      BY <1>3, <1>i, <2>1, <2>3, <3>1, <3>2 DEF TakeRow, Take, Shape
  <2> QED
    BY <2>2, <2>3
<1>j. CASE r \in Readers /\ FetchFails(r)
  <2>1. LocKept /\ UNCHANGED <<saves, got>>
    BY <1>j, UnchangedKept DEF FetchFails
  <2> QED
    BY <1>6, <1>j, <2>1 DEF FetchFails, Shape, Quiet
<1>k. CASE r \in Readers /\ FetchFailed(r)
  BY <1>2, <1>k DEF FetchFailed, Shape, Quiet
<1>l. CASE r \in Readers /\ Decrypt(r)
  BY <1>2, <1>l DEF Decrypt, Shape, Quiet
<1>m. CASE r \in Deleters /\ DeleteDecide(r)
  BY <1>2, <1>m, UnchangedKept DEF DeleteDecide, Shape, Quiet
<1>n. CASE r \in Deleters /\ Delete(r)
  <2>1. LocKept /\ UNCHANGED <<saves, got>>
    BY <1>2, <1>n DEF Delete
  <2>2. loc[r].slug \in Slugs
    BY <1>3, <1>n DEF Delete
  <2> QED
    BY <1>4, <1>n, <2>1, <2>2 DEF Delete, Shape, Quiet, Removal
<1> QED
  BY <1>a, <1>b, <1>c, <1>d, <1>e, <1>f, <1>g, <1>h, <1>i, <1>j, <1>k, <1>l, <1>m, <1>n
  DEF FetchStep, DeleteStep

LEMMA StepShape == TypeOK /\ GetSparesBurn /\ [Next]_vars => Shape
<1> SUFFICES ASSUME TypeOK, GetSparesBurn, [Next]_vars PROVE Shape
  OBVIOUS
<1>1. CASE Cleanup
  BY <1>1, UnchangedKept DEF Cleanup, Shape, Removal
<1>2. CASE Tick
  BY <1>2, UnchangedKept DEF Tick, Shape, Quiet
<1>3. CASE Restart
  <2>1. LocKept
    BY <1>3, ClientsCreators DEF Restart, LocKept, NoLocal
  <2> QED
    BY <1>3, <2>1 DEF Restart, Shape, Quiet
<1>4. CASE UNCHANGED vars
  BY <1>4, UnchangedKept DEF vars, Shape, Quiet, store
<1>5. CASE \E c \in Creators : CreateArrive(c) \/ CreateStep(c)
  BY <1>5, CreateShape
<1>6. CASE \E r \in Readers : FetchStep(r) \/ \E s \in Slugs : FetchArrive(r, s)
  BY <1>6, ClientShape, ClientsCreators DEF FetchArrive
<1>7. CASE \E d \in Deleters : DeleteStep(d) \/ \E s \in Slugs : DeleteArrive(d, s)
  BY <1>7, ClientShape, ClientsCreators DEF DeleteArrive
<1> QED
  BY <1>1, <1>2, <1>3, <1>4, <1>5, <1>6, <1>7 DEF Next

-----------------------------------------------------------------------------
(* BurnInv is preserved: first what depends on where the requests are.     *)

BeforeInsert == {"idle", "gate", "encode", "save", "insert"}

(* Once a POST has left the part before its INSERT it does not come back.  *)
LEMMA NeverBack ==
    ASSUME TypeOK, [Next]_vars, NEW c \in Creators, pc'[c] \in BeforeInsert
    PROVE  pc[c] \in BeforeInsert
<1>1. pc \in [Requests -> CreatorLabels \cup ClientLabels] /\ c \in Requests
  BY ClientsCreators DEF TypeOK, PlacesOK
<1>2. ASSUME NEW r \in Requests, r # c, NEW label, Goto(r, label)
      PROVE  pc'[c] = pc[c]
  BY <1>1, <1>2 DEF Goto
<1>3. ASSUME NEW r \in Clients,
             \/ \E s \in Slugs, label \in {"peek", "erase"} : Arrive(r, s, label)
             \/ FetchStep(r) \/ DeleteStep(r)
      PROVE  pc'[c] = pc[c]
  <2>1. (\E label : Goto(r, label)) \/ UNCHANGED pc
    BY <1>3 DEF Arrive, FetchStep, DeleteStep, PeekMeta, Get, Query, LazyDelete, FetchDecide,
       FetchGot, FetchFellBack, TakeStamp, GetAndDelete, FetchFails, FetchFailed, Decrypt,
       Deliver, DeleteDecide, Delete, Finish
  <2>2. r \in Requests /\ r # c
    BY ClientsCreators
  <2> QED
    BY <1>2, <2>1, <2>2
<1>4. ASSUME NEW d \in Creators, CreateArrive(d) \/ CreateStep(d)
      PROVE  pc[c] \in BeforeInsert
  <2>1. d \in Requests /\ \E label : Goto(d, label)
    BY <1>4, ClientsCreators DEF CreateArrive, CreateStep, CreateGate, CreateEncode, CreateStamp,
       CreateInsert, CreateConflict, TryAgain, CreateInsertFails, CreateReply, Release, Finish
  <2>2. pc[d] \in BeforeInsert \/ (pc[d] = "created" /\ Goto(d, "done"))
    BY <1>4 DEF CreateArrive, CreateStep, CreateGate, CreateEncode, CreateStamp, BeforeInsert,
       CreateInsert, CreateConflict, TryAgain, CreateInsertFails, CreateReply, Release, Finish
  <2> QED
    BY <1>1, <1>2, <2>1, <2>2 DEF Goto, BeforeInsert
<1>5. CASE Restart
  BY <1>1, <1>5 DEF Restart, BeforeInsert
<1>6. CASE UNCHANGED pc
  BY <1>6
<1>7. CASE Next
  BY <1>3, <1>4, <1>5, <1>6, <1>7 DEF Next, FetchArrive, DeleteArrive, Clients, Cleanup, Tick
<1> QED
  BY <1>6, <1>7 DEF vars

LEMMA StoredOnceStep ==
    ASSUME TypeOK, StoredOnce, [Next]_vars, Shape PROVE StoredOnce'
<1>1. CASE UNCHANGED saves
  BY <1>1, NeverBack DEF StoredOnce, BeforeInsert
<1>2. CASE \E c \in Creators, s \in Slugs : Insertion(c, s)
  <2>1. PICK c \in Creators, s \in Slugs : Insertion(c, s)
    BY <1>2
  <2>2. saves[c] = {} /\ pc'[c] \in {"created", "done"}
    BY <2>1 DEF Insertion, StoredOnce
  <2>3. /\ saves'[c] = {<<s, NewRow(c)>>}
        /\ \A d \in Creators : d # c => saves'[d] = saves[d]
    BY <2>1, <2>2 DEF Insertion, Store, TypeOK
  <2>4. ASSUME NEW d \in Creators
        PROVE  /\ pc'[d] \in BeforeInsert => saves'[d] = {}
               /\ \A p, q \in saves'[d] : p = q
    BY <2>2, <2>3, <2>4, NeverBack DEF StoredOnce, BeforeInsert
  <2> QED
    BY <2>4 DEF StoredOnce, BeforeInsert
<1> QED
  BY <1>1, <1>2 DEF Shape, Quiet, Removal, Looks, Serve, Take

(* The rows in readers' hands between PeekMeta and Get.                    *)
LEMMA GetSparesBurnStep ==
    ASSUME TypeOK, Traced, SlugOnce, GetSparesBurn, [Next]_vars PROVE GetSparesBurn'
<1> SUFFICES ASSUME NEW q \in Readers
             PROVE  /\ pc'[q] = "get" => loc'[q].seen # NoRow
                    /\ pc'[q] \in {"get", "got"} /\ loc'[q].seen # NoRow
                          => ~loc'[q].seen.burn
  BY DEF GetSparesBurn
<1>1. /\ pc \in [Requests -> CreatorLabels \cup ClientLabels]
      /\ loc \in [Requests -> Local]
      /\ q \in Requests /\ q \in Clients /\ q \notin Creators
  BY ClientsCreators DEF TypeOK, PlacesOK
<1>2. /\ pc[q] = "get" => loc[q].seen # NoRow
      /\ pc[q] \in {"get", "got"} /\ loc[q].seen # NoRow => ~loc[q].seen.burn
  BY DEF GetSparesBurn
<1>3. CASE pc'[q] = pc[q] /\ loc'[q] = loc[q]
  BY <1>2, <1>3
<1>4. CASE pc'[q] \notin {"get", "got"}
  BY <1>4
<1>5. ASSUME NEW r \in Requests, r # q, NEW label, Goto(r, label)
      PROVE  pc'[q] = pc[q]
  BY <1>1, <1>5 DEF Goto
<1>6. ASSUME NEW r \in Requests, r # q, NEW l, loc' = [loc EXCEPT ![r] = l]
      PROVE  loc'[q] = loc[q]
  BY <1>1, <1>6
<1>7. CASE \E c \in Creators : CreateArrive(c) \/ CreateStep(c)
  <2>1. PICK c \in Creators : CreateArrive(c) \/ CreateStep(c)
    BY <1>7
  <2>2. c \in Requests /\ c # q /\ \E label : Goto(c, label)
    BY <1>1, <2>1, ClientsCreators DEF CreateArrive, CreateStep, CreateGate, CreateEncode, CreateStamp,
       CreateInsert, CreateConflict, TryAgain, CreateInsertFails, CreateReply, Release, Finish
  <2>3. UNCHANGED loc \/ \E l : loc' = [loc EXCEPT ![c] = l]
    BY <2>1 DEF CreateArrive, CreateStep, CreateGate, CreateEncode, CreateStamp,
       CreateInsert, CreateConflict, TryAgain, CreateInsertFails, CreateReply, Release, Finish
  <2> QED
    BY <1>3, <1>5, <1>6, <2>2, <2>3
<1>8. ASSUME NEW r \in Clients, r # q,
             \/ \E s \in Slugs, label \in {"peek", "erase"} : Arrive(r, s, label)
             \/ FetchStep(r) \/ DeleteStep(r)
      PROVE  pc'[q] = pc[q] /\ loc'[q] = loc[q]
  <2>1. (\E label : Goto(r, label)) \/ UNCHANGED pc
    BY <1>8 DEF Arrive, FetchStep, DeleteStep, PeekMeta, Get, Query, LazyDelete, FetchDecide,
       FetchGot, FetchFellBack, TakeStamp, GetAndDelete, FetchFails, FetchFailed, Decrypt,
       Deliver, DeleteDecide, Delete, Finish
  <2>2. UNCHANGED loc \/ \E l : loc' = [loc EXCEPT ![r] = l]
    BY <1>8 DEF Arrive, FetchStep, DeleteStep, PeekMeta, Get, Query, LazyDelete, FetchDecide,
       FetchGot, FetchFellBack, TakeStamp, GetAndDelete, FetchFails, FetchFailed, Decrypt,
       Deliver, DeleteDecide, Delete, Finish
  <2>3. r \in Requests
    BY ClientsCreators
  <2> QED
    BY <1>1, <1>5, <1>6, <1>8, <2>1, <2>2, <2>3
<1>9. CASE \E s \in Slugs : FetchArrive(q, s)
  BY <1>1, <1>4, <1>9 DEF FetchArrive, Arrive, Goto
<1>10. CASE FetchStep(q)
  <2>1. CASE Query(q, "get", "got")
    <3> DEFINE s == loc[q].slug
    <3>1. s \in Slugs /\ loc[q].seen # NoRow /\ ~loc[q].seen.burn
      BY <1>1, <1>2, <2>1 DEF Query, TypeOK, PlacesOK
    <3>2. pc'[q] = "got" /\ loc'[q].seen = Select(s)
      BY <1>1, <2>1 DEF Query, Goto, Local
    <3>3. CASE Select(s) = NoRow
      BY <3>2, <3>3
    <3>4. CASE rows[s] # NoRow
      <4>1. <<s, rows[s]>> \in saves[rows[s].content] /\ rows[s].content \in Creators
        BY <3>1, <3>4 DEF Traced, TypeOK, TableOK, Row
      <4>2. <<s, loc[q].seen>> \in saves[loc[q].seen.content]
            /\ loc[q].seen.content \in Creators
        BY <1>1, <3>1 DEF Traced, Local, Row
      <4>3. rows[s] = loc[q].seen
        BY <4>1, <4>2 DEF SlugOnce
      <4> QED
        BY <3>1, <3>2, <4>3, SelectType
    <3> QED
      BY <3>1, <3>3, <3>4, SelectType
  <2>2. CASE PeekMeta(q) \/ Query(q, "fallback", "fellback")
    BY <1>1, <1>4, <2>2 DEF PeekMeta, Query, Goto
  <2>3. CASE LazyDelete(q)
    <3>1. pc'[q] # "get" /\ loc'[q].seen = NoRow
      BY <1>1, <2>3 DEF LazyDelete, Local
    <3> QED
      BY <3>1
  <2>4. CASE FetchDecide(q)
    <3>1. UNCHANGED loc /\ pc'[q] # "got"
          /\ (pc'[q] = "get" => loc[q].seen # NoRow /\ ~loc[q].seen.burn)
      BY <1>1, <2>4 DEF FetchDecide, Goto
    <3> QED
      BY <3>1
  <2>5. ASSUME NEW label, Goto(q, label), label \notin {"get", "got"}
        PROVE  pc'[q] \notin {"get", "got"}
    BY <1>1, <2>5 DEF Goto
  <2>6. CASE FetchGot(q) \/ FetchFellBack(q) \/ TakeStamp(q) \/ GetAndDelete(q)
    BY <1>4, <2>5, <2>6 DEF FetchGot, FetchFellBack, TakeStamp, GetAndDelete, Deliver, Finish
  <2>7. CASE FetchFails(q) \/ FetchFailed(q) \/ Decrypt(q)
    BY <1>4, <2>5, <2>7 DEF FetchFails, FetchFailed, Decrypt, Finish
  <2> QED
    BY <1>10, <2>1, <2>2, <2>3, <2>4, <2>6, <2>7 DEF FetchStep, Get
<1>11. CASE Restart
  BY <1>1, <1>4, <1>11 DEF Restart
<1>12. CASE UNCHANGED <<pc, loc>>
  BY <1>3, <1>12
<1>13. CASE \E r \in Readers : FetchStep(r) \/ \E s \in Slugs : FetchArrive(r, s)
  BY <1>3, <1>8, <1>9, <1>10, <1>13, ClientsCreators DEF FetchArrive
<1>14. CASE \E d \in Deleters : DeleteStep(d) \/ \E s \in Slugs : DeleteArrive(d, s)
  BY <1>3, <1>8, <1>14, ClientsCreators DEF DeleteArrive
<1> QED
  BY <1>7, <1>11, <1>12, <1>13, <1>14 DEF Next, vars, Cleanup, Tick

-----------------------------------------------------------------------------
(* Then the parts about the table, hands and history, shape by shape.      *)

TableInv == SlugHolds /\ SlugOnce /\ Traced /\ Consumed /\ BurnOnce

(* The facts about types these proofs need. *)
LEMMA Types ==
    ASSUME TypeOK
    PROVE  /\ rows \in [Slugs -> Row \cup {NoRow}] /\ retired \subseteq Slugs
           /\ got \in [Readers -> Row \cup {NoRow}]
           /\ saves \in [Creators -> SUBSET (Slugs \X Row)]
           /\ loc \in [Requests -> Local]
           /\ \A row \in Row : row.content \in Creators
           /\ \A q \in Clients : loc[q].seen \in Row \cup {NoRow} /\ q \in Requests
           /\ \A q \in Readers : q \in Clients
<1>1. \A q \in Clients : loc[q].seen \in Row \cup {NoRow} /\ q \in Requests
  BY ClientsCreators DEF TypeOK, PlacesOK, Local
<1>2. \A row \in Row : row.content \in Creators
  BY DEF Row
<1> QED
  BY <1>1, <1>2, ClientsCreators DEF TypeOK, TableOK, PlacesOK

(* A paste is under one slug only. *)
LEMMA OnePlace ==
    ASSUME TypeOK, StoredOnce, Traced, NEW s \in Slugs, NEW u \in Slugs,
           rows[s] # NoRow, rows[u] # NoRow, rows[s].content = rows[u].content
    PROVE  s = u
<1>1. /\ <<s, rows[s]>> \in saves[rows[s].content]
      /\ <<u, rows[u]>> \in saves[rows[s].content]
      /\ rows[s].content \in Creators
  BY Types DEF Traced
<1>2. <<s, rows[s]>> = <<u, rows[u]>>
  BY <1>1 DEF StoredOnce
<1> QED
  BY <1>2

LEMMA QuietInv == TypeOK /\ TableInv /\ Quiet => TableInv'
<1> SUFFICES ASSUME TypeOK, TableInv, Quiet PROVE TableInv'
  OBVIOUS
<1>1. rows' = rows /\ retired' = retired /\ saves' = saves /\ got' = got /\ LocKept
  BY DEF Quiet, store
<1>2. SlugHolds' /\ SlugOnce' /\ Consumed' /\ BurnOnce'
  BY <1>1 DEF TableInv, SlugHolds, SlugOnce, Consumed, BurnOnce
<1>3. Traced'
  BY <1>1 DEF TableInv, Traced, LocKept
<1> QED
  BY <1>2, <1>3 DEF TableInv

LEMMA RemovalInv == TypeOK /\ TableInv /\ Removal => TableInv'
<1> SUFFICES ASSUME TypeOK, TableInv, Removal PROVE TableInv'
  OBVIOUS
<1>1. PICK S \in SUBSET Slugs : Remove(S)
  BY DEF Removal
<1>2. saves' = saves /\ got' = got /\ LocKept
  BY DEF Removal
<1>3. \A s \in Slugs : /\ rows'[s] = IF s \in S THEN NoRow ELSE rows[s]
                       /\ s \in retired' <=> s \in retired \/ (s \in S /\ rows[s] # NoRow)
  BY <1>1 DEF Remove
<1>4. SlugHolds'
  <2> SUFFICES ASSUME NEW c \in Creators, NEW p \in saves[c]
               PROVE  rows'[p[1]] = p[2] \/ p[1] \in retired'
    BY <1>2 DEF SlugHolds
  <2>1. p[1] \in Slugs /\ p[2] \in Row
    BY Types
  <2>2. rows[p[1]] = p[2] \/ p[1] \in retired
    BY DEF TableInv, SlugHolds
  <2> QED
    BY <1>3, <2>1, <2>2, Absent
<1>5. SlugOnce' /\ BurnOnce'
  BY <1>2 DEF TableInv, SlugOnce, BurnOnce
<1>6. Traced'
  <2>1. \A s \in Slugs : rows'[s] # NoRow => <<s, rows'[s]>> \in saves'[rows'[s].content]
    BY <1>2, <1>3 DEF TableInv, Traced
  <2>2. \A r \in Clients : loc'[r].seen # NoRow =>
            <<loc'[r].slug, loc'[r].seen>> \in saves'[loc'[r].seen.content]
    BY <1>2 DEF TableInv, Traced, LocKept
  <2>3. \A r \in Readers : got'[r] # NoRow =>
            \E s \in Slugs : <<s, got'[r]>> \in saves'[got'[r].content]
    BY <1>2 DEF TableInv, Traced
  <2> QED
    BY <2>1, <2>2, <2>3 DEF Traced
<1>7. Consumed'
  BY <1>2, <1>3 DEF TableInv, Consumed
<1> QED
  BY <1>4, <1>5, <1>6, <1>7 DEF TableInv

LEMMA InsertionInv ==
    ASSUME ~Reuse, TypeOK, StoredOnce, TableInv,
           NEW c \in Creators, NEW s \in Slugs, Insertion(c, s)
    PROVE  TableInv'
<1> DEFINE row == NewRow(c)
<1>1. pc[c] = "insert" /\ row \in Row /\ row.content = c
  BY NewRowType DEF Insertion, NewRow
<1>2. saves[c] = {} /\ rows[s] = NoRow /\ s \notin retired
  BY <1>1 DEF Insertion, StoredOnce, Drawable, Vacant
<1>3. /\ rows' = [rows EXCEPT ![s] = row] /\ retired' = retired /\ got' = got
      /\ saves' = [saves EXCEPT ![c] = @ \cup {<<s, row>>}] /\ LocKept
  BY DEF Insertion, Store
<1> HIDE DEF row
<1>4. /\ \A u \in Slugs : rows'[u] = IF u = s THEN row ELSE rows[u]
      /\ saves'[c] = {<<s, row>>}
      /\ \A d \in Creators : d # c => saves'[d] = saves[d]
  BY <1>2, <1>3, Types
<1>5. \A d \in Creators : \A p \in saves[d] : p[1] # s /\ p[1] \in Slugs /\ p[2] \in Row
  <2> SUFFICES ASSUME NEW d \in Creators, NEW p \in saves[d]
               PROVE  p[1] # s /\ p[1] \in Slugs /\ p[2] \in Row
    OBVIOUS
  <2>1. p[1] \in Slugs /\ p[2] \in Row
    BY Types
  <2>2. rows[p[1]] = p[2] \/ p[1] \in retired
    BY DEF TableInv, SlugHolds
  <2> QED
    BY <1>2, <2>1, <2>2, Absent
<1>6. \A d \in Creators : saves[d] \subseteq saves'[d]
  BY <1>2, <1>4
<1>7. SlugHolds'
  <2> SUFFICES ASSUME NEW d \in Creators, NEW p \in saves'[d]
               PROVE  rows'[p[1]] = p[2] \/ p[1] \in retired
    BY <1>3 DEF SlugHolds
  <2>1. CASE d = c
    BY <1>4, <2>1
  <2>2. CASE d # c
    BY <1>4, <1>5, <2>2 DEF TableInv, SlugHolds
  <2> QED
    BY <2>1, <2>2
<1>8. SlugOnce'
  <2> SUFFICES ASSUME NEW d \in Creators, NEW e \in Creators,
                      NEW p \in saves'[d], NEW q \in saves'[e], p[1] = q[1]
               PROVE  p[2] = q[2]
    BY DEF SlugOnce
  <2>1. CASE d = c /\ e = c
    BY <1>4, <2>1
  <2>2. CASE d # c /\ e # c
    BY <1>4, <2>2 DEF TableInv, SlugOnce
  <2>3. CASE d = c /\ e # c
    BY <1>4, <1>5, <2>3
  <2>4. CASE d # c /\ e = c
    BY <1>4, <1>5, <2>4
  <2> QED
    BY <2>1, <2>2, <2>3, <2>4
<1>9. Traced'
  <2>1. ASSUME NEW u \in Slugs, rows'[u] # NoRow
        PROVE  <<u, rows'[u]>> \in saves'[rows'[u].content]
    <3>1. CASE u = s
      BY <1>1, <1>4, <3>1
    <3>2. CASE u # s
      <4>1. rows'[u] = rows[u] /\ rows[u].content \in Creators
            /\ <<u, rows[u]>> \in saves[rows[u].content]
        BY <1>4, <2>1, <3>2, Types DEF TableInv, Traced
      <4> QED
        BY <1>6, <4>1
    <3> QED
      BY <3>1, <3>2
  <2>2. ASSUME NEW r \in Clients, loc'[r].seen # NoRow
        PROVE  <<loc'[r].slug, loc'[r].seen>> \in saves'[loc'[r].seen.content]
    <3>1. loc'[r].seen = loc[r].seen /\ loc'[r].slug = loc[r].slug
      BY <1>3, <2>2 DEF LocKept
    <3>2. <<loc[r].slug, loc[r].seen>> \in saves[loc[r].seen.content]
          /\ loc[r].seen.content \in Creators
      BY <2>2, <3>1, Types DEF TableInv, Traced
    <3> QED
      BY <1>6, <3>1, <3>2
  <2>3. ASSUME NEW r \in Readers, got'[r] # NoRow
        PROVE  \E u \in Slugs : <<u, got'[r]>> \in saves'[got'[r].content]
    <3>1. got'[r] = got[r] /\ got[r].content \in Creators
      BY <1>3, <2>3, Types
    <3>2. \E u \in Slugs : <<u, got[r]>> \in saves[got[r].content]
      BY <2>3, <3>1 DEF TableInv, Traced
    <3> QED
      BY <1>6, <3>1, <3>2
  <2> QED
    BY <2>1, <2>2, <2>3 DEF Traced
<1>10. Consumed'
  <2> SUFFICES ASSUME NEW r \in Readers, NEW u \in Slugs,
                      got[r] # NoRow, got[r].burn, rows'[u] # NoRow
               PROVE  rows'[u].content # got[r].content
    BY <1>3 DEF Consumed
  <2>1. \E v \in Slugs : <<v, got[r]>> \in saves[got[r].content]
    BY DEF TableInv, Traced
  <2>2. got[r].content # c
    BY <1>2, <2>1
  <2> QED
    BY <1>1, <1>4, <2>2 DEF TableInv, Consumed
<1>11. BurnOnce'
  BY <1>3 DEF TableInv, BurnOnce
<1> QED
  BY <1>7, <1>8, <1>9, <1>10, <1>11 DEF TableInv

LEMMA LookInv == ASSUME TypeOK, TableInv, NEW r \in Clients, Looks(r) PROVE TableInv'
<1>1. rows' = rows /\ retired' = retired /\ saves' = saves /\ got' = got
  BY DEF Looks, store
<1>2. SlugHolds' /\ SlugOnce' /\ Consumed' /\ BurnOnce'
  BY <1>1 DEF TableInv, SlugHolds, SlugOnce, Consumed, BurnOnce
<1>3. ASSUME NEW q \in Clients, loc'[q].seen # NoRow
      PROVE  <<loc'[q].slug, loc'[q].seen>> \in saves[loc'[q].seen.content]
  BY <1>3 DEF TableInv, Traced, Looks
<1> QED
  BY <1>1, <1>2, <1>3 DEF TableInv, Traced

LEMMA ServeInv ==
    ASSUME TypeOK, StoredOnce, TableInv, NEW r \in Readers, Serve(r) PROVE TableInv'
<1> DEFINE row == loc[r].seen
<1>1. /\ rows' = rows /\ retired' = retired /\ saves' = saves /\ LocKept
      /\ row # NoRow /\ ~row.burn
  BY DEF Serve, store
<1>2. \A q \in Readers : got'[q] = IF q = r THEN row ELSE got[q]
  BY Types DEF Serve
<1>3. r \in Clients /\ row \in Row /\ row.content \in Creators
      /\ <<loc[r].slug, row>> \in saves[row.content]
  BY <1>1, Types DEF TableInv, Traced
<1>4. loc[r].slug \in Slugs
  BY <1>3, Types
<1> HIDE DEF row
<1>5. SlugHolds' /\ SlugOnce'
  BY <1>1 DEF TableInv, SlugHolds, SlugOnce
<1>6. Traced'
  <2>1. \A q \in Clients : loc'[q].seen # NoRow =>
            <<loc'[q].slug, loc'[q].seen>> \in saves'[loc'[q].seen.content]
    BY <1>1 DEF TableInv, Traced, LocKept
  <2>2. \A q \in Readers : got'[q] # NoRow =>
            \E s \in Slugs : <<s, got'[q]>> \in saves'[got'[q].content]
    BY <1>1, <1>2, <1>3, <1>4 DEF TableInv, Traced
  <2>3. \A s \in Slugs : rows'[s] # NoRow => <<s, rows'[s]>> \in saves'[rows'[s].content]
    BY <1>1 DEF TableInv, Traced
  <2> QED
    BY <2>1, <2>2, <2>3 DEF Traced
<1>7. Consumed'
  BY <1>1, <1>2 DEF TableInv, Consumed
<1>8. BurnOnce'
  <2> SUFFICES ASSUME NEW q1 \in Readers, NEW q2 \in Readers, q1 # q2,
                      got'[q1] # NoRow, got'[q2] # NoRow, got'[q1].burn,
                      got'[q1].content = got'[q2].content
               PROVE  FALSE
    BY DEF BurnOnce
  <2>1. CASE q1 = r
    BY <1>1, <1>2, <2>1
  <2>2. CASE q1 # r /\ q2 # r
    BY <1>2, <2>2 DEF TableInv, BurnOnce
  <2>3. CASE q1 # r /\ q2 = r
    <3>1. got[q1] # NoRow /\ got[q1].burn /\ got[q1].content = row.content
      BY <1>2, <2>3
    <3>2. PICK s \in Slugs : <<s, got[q1]>> \in saves[row.content]
      BY <3>1 DEF TableInv, Traced
    <3>3. <<s, got[q1]>> = <<loc[r].slug, row>>
      BY <1>3, <3>2 DEF StoredOnce
    <3>4. got[q1] = row
      BY <3>3
    <3> QED
      BY <1>1, <3>1, <3>4
  <2> QED
    BY <2>1, <2>2, <2>3
<1> QED
  BY <1>5, <1>6, <1>7, <1>8 DEF TableInv

LEMMA TakeInv ==
    ASSUME TypeOK, StoredOnce, TableInv, NEW r \in Readers, Take(r) PROVE TableInv'
<1> DEFINE s == loc[r].slug
           row == rows[s]
<1>1. s \in Slugs /\ row # NoRow /\ Remove({s}) /\ saves' = saves /\ LocKept
  BY DEF Take
<1>2. \A q \in Readers : got'[q] = IF q = r THEN row ELSE got[q]
  BY Types DEF Take
<1>3. row \in Row /\ row.content \in Creators /\ <<s, row>> \in saves[row.content]
  BY <1>1, Types DEF TableInv, Traced
<1>4. \A u \in Slugs : rows'[u] = IF u = s THEN NoRow ELSE rows[u]
  BY <1>1 DEF Remove
<1>5. \A u \in Slugs : u # s /\ rows[u] # NoRow => rows[u].content # row.content
  BY <1>1, OnePlace DEF TableInv
<1>6. ASSUME NEW q \in Readers, got[q] # NoRow, got[q].content = row.content
      PROVE  got[q] = row
  <2>1. PICK u \in Slugs : <<u, got[q]>> \in saves[row.content]
    BY <1>6 DEF TableInv, Traced
  <2>2. <<u, got[q]>> = <<s, row>>
    BY <1>3, <2>1 DEF StoredOnce
  <2> QED
    BY <2>2
<1>7. \A q \in Readers : got[q] # NoRow /\ got[q].burn => got[q].content # row.content
  BY <1>1 DEF TableInv, Consumed
<1>8. SlugHolds' /\ SlugOnce'
  <2>1. SlugOnce'
    BY <1>1 DEF TableInv, SlugOnce
  <2>2. ASSUME NEW d \in Creators, NEW p \in saves[d]
        PROVE  rows'[p[1]] = p[2] \/ p[1] \in retired'
    <3>1. p[1] \in Slugs /\ (rows[p[1]] = p[2] \/ p[1] \in retired)
      BY Types DEF TableInv, SlugHolds
    <3>2. retired' = retired \cup {u \in {s} : rows[u] # NoRow}
      BY <1>1 DEF Remove
    <3> QED
      BY <1>1, <1>4, <3>1, <3>2
  <2> QED
    BY <1>1, <2>1, <2>2 DEF SlugHolds
<1> HIDE DEF row
<1>9. Traced'
  <2>1. \A q \in Clients : loc'[q].seen # NoRow =>
            <<loc'[q].slug, loc'[q].seen>> \in saves'[loc'[q].seen.content]
    BY <1>1 DEF TableInv, Traced, LocKept
  <2>2. \A q \in Readers : got'[q] # NoRow =>
            \E u \in Slugs : <<u, got'[q]>> \in saves'[got'[q].content]
    BY <1>1, <1>2, <1>3 DEF TableInv, Traced
  <2>3. \A u \in Slugs : rows'[u] # NoRow => <<u, rows'[u]>> \in saves'[rows'[u].content]
    BY <1>1, <1>4 DEF TableInv, Traced
  <2> QED
    BY <2>1, <2>2, <2>3 DEF Traced
<1>10. Consumed'
  <2> SUFFICES ASSUME NEW q \in Readers, NEW u \in Slugs,
                      got'[q] # NoRow, got'[q].burn, rows'[u] # NoRow
               PROVE  rows'[u].content # got'[q].content
    BY DEF Consumed
  <2>1. u # s /\ rows'[u] = rows[u] /\ rows[u] # NoRow
    BY <1>4
  <2>2. CASE q = r
    BY <1>2, <1>5, <2>1, <2>2
  <2>3. CASE q # r
    BY <1>2, <2>1, <2>3 DEF TableInv, Consumed
  <2> QED
    BY <2>2, <2>3
<1>11. BurnOnce'
  <2> SUFFICES ASSUME NEW q1 \in Readers, NEW q2 \in Readers, q1 # q2,
                      got'[q1] # NoRow, got'[q2] # NoRow, got'[q1].burn,
                      got'[q1].content = got'[q2].content
               PROVE  FALSE
    BY DEF BurnOnce
  <2>1. CASE q1 # r /\ q2 # r
    BY <1>2, <2>1 DEF TableInv, BurnOnce
  <2>2. CASE q1 # r /\ q2 = r
    BY <1>2, <1>7, <2>2
  <2>3. CASE q1 = r /\ q2 # r
    BY <1>2, <1>6, <1>7, <2>3
  <2> QED
    BY <2>1, <2>2, <2>3
<1> QED
  BY <1>8, <1>9, <1>10, <1>11 DEF TableInv

LEMMA BurnInit == Init => BurnInv
<1> SUFFICES ASSUME Init PROVE BurnInv
  OBVIOUS
<1>1. \A q \in Clients : loc[q].seen = NoRow /\ pc[q] = "idle"
  BY ClientsCreators DEF Init, NoLocal
<1>2. /\ rows = [s \in Slugs |-> NoRow] /\ got = [r \in Readers |-> NoRow]
      /\ saves = [c \in Creators |-> {}]
  BY DEF Init
<1>3. GetSparesBurn
  BY <1>1, ClientsCreators DEF GetSparesBurn
<1>4. StoredOnce /\ SlugHolds /\ SlugOnce /\ Traced /\ Consumed /\ BurnOnce
  BY <1>1, <1>2 DEF StoredOnce, SlugHolds, SlugOnce, Traced, Consumed, BurnOnce
<1> QED
  BY <1>3, <1>4, TypeInit DEF BurnInv

LEMMA BurnStep == ~Reuse /\ BurnInv /\ [Next]_vars => BurnInv'
<1> SUFFICES ASSUME ~Reuse, BurnInv, [Next]_vars PROVE BurnInv'
  OBVIOUS
<1>1. TypeOK /\ StoredOnce /\ TableInv /\ GetSparesBurn
  BY DEF BurnInv, TableInv
<1>2. Shape
  BY <1>1, StepShape
<1>3. TypeOK'
  BY <1>1, TypeStep
<1>4. StoredOnce'
  BY <1>1, <1>2, StoredOnceStep
<1>5. GetSparesBurn'
  BY <1>1, GetSparesBurnStep DEF TableInv
<1>6. TableInv'
  BY <1>1, <1>2, QuietInv, RemovalInv, InsertionInv, LookInv, ServeInv, TakeInv DEF Shape
<1> QED
  BY <1>3, <1>4, <1>5, <1>6 DEF BurnInv, TableInv

(* Unless a slug is drawn a second time, every burn paste is in one place: *)
(* in the table under the one slug it was given, or in the hands of the    *)
(* one reader that took it from there.                                     *)
THEOREM BurnInOnePlace == ASSUME ~Reuse PROVE Spec => []BurnInv
<1>1. Init => BurnInv
  BY BurnInit
<1>2. BurnInv /\ [Next]_vars => BurnInv'
  BY BurnStep
<1> QED
  BY <1>1, <1>2, PTL DEF Spec

(* Burn after reading: unless a slug is drawn a second time, no burn paste *)
(* is returned to two requests -- for any number of concurrent readers,    *)
(* deletes, expiries, failing calls and restarts.                          *)
THEOREM BurnedOnce == ASSUME ~Reuse PROVE Spec => []BurnOnce
<1>1. BurnInv => BurnOnce
  BY DEF BurnInv
<1> QED
  BY <1>1, BurnInOnePlace, PTL

-----------------------------------------------------------------------------
(* The upload slots.                                                       *)

Holders == {c \in Creators : Holding(c)}

SlotsInv == TypeOK /\ SlotsExact

(* What a step may do to the holders of slots. *)
SlotChange ==
    \/ Holders' = Holders /\ slots' = slots
    \/ \E c \in Creators \ Holders :
          Holders' = Holders \cup {c} /\ slots < MaxUploads /\ slots' = slots + 1
    \/ \E c \in Holders : Holders' = Holders \ {c} /\ slots' = slots - 1
    \/ Holders' = {} /\ slots' = 0

LEMMA SameSlots == ASSUME UNCHANGED <<pc, slots>> PROVE SlotChange
BY DEF SlotChange, Holders, Holding

LEMMA ClientSlots ==
    ASSUME TypeOK, NEW r \in Clients, UNCHANGED pc \/ \E label : Goto(r, label), UNCHANGED slots
    PROVE  SlotChange
<1>1. pc \in [Requests -> CreatorLabels \cup ClientLabels]
  BY DEF TypeOK, PlacesOK
<1>2. \A c \in Creators : pc'[c] = pc[c]
  BY <1>1, ClientsCreators DEF Goto
<1> QED
  BY <1>2 DEF SlotChange, Holders, Holding

LEMMA RestartSlots == ASSUME Restart PROVE SlotChange
BY ClientsCreators DEF Restart, SlotChange, Holders, Holding

(* The steps of a POST: it is on one side of the gate and stays there,     *)
(* passes the gate, or releases its slot.                                  *)
LEMMA PostSlots ==
    ASSUME TypeOK, NEW c \in Creators,
           \/ /\ UNCHANGED slots
              /\ \E label : /\ Goto(c, label)
                            /\ Holding(c) <=> label \in {"encode", "save", "insert", "created"}
           \/ CreateArrive(c) \/ CreateGate(c)
           \/ Holding(c) /\ \E code : Release(c, code)
    PROVE  SlotChange
<1>1. pc \in [Requests -> CreatorLabels \cup ClientLabels]
  BY DEF TypeOK, PlacesOK
<1>2. ASSUME NEW label, Goto(c, label)
      PROVE  \A d \in Creators : Holding(d)' <=>
                IF d = c THEN label \in {"encode", "save", "insert", "created"} ELSE Holding(d)
  BY <1>1, <1>2, ClientsCreators DEF Goto, Holding
<1>3. ASSUME NEW label, Goto(c, label), UNCHANGED slots,
             Holding(c) <=> label \in {"encode", "save", "insert", "created"}
      PROVE  SlotChange
  BY <1>2, <1>3 DEF Holders, SlotChange
<1>4. ASSUME Holding(c), NEW code, Release(c, code) PROVE SlotChange
  <2>1. Goto(c, "done") /\ slots' = slots - 1
    BY <1>4 DEF Release, Finish
  <2>2. c \in Holders /\ Holders' = Holders \ {c}
    BY <1>2, <1>4, <2>1 DEF Holders
  <2> QED
    BY <2>1, <2>2 DEF SlotChange
<1>5. CASE CreateArrive(c)
  <2>1. UNCHANGED slots /\ ~Holding(c) /\ \E label \in {"done", "gate"} : Goto(c, label)
    BY <1>5 DEF CreateArrive, Finish, Holding
  <2> QED
    BY <1>3, <2>1
<1>6. CASE CreateGate(c)
  <2>1. ~Holding(c)
    BY <1>6 DEF CreateGate, Holding
  <2>2. CASE slots < MaxUploads /\ slots' = slots + 1 /\ Goto(c, "encode")
    <3>1. Holders' = Holders \cup {c} /\ c \in Creators \ Holders
      BY <1>2, <2>1, <2>2 DEF Holders
    <3> QED
      BY <2>2, <3>1 DEF SlotChange
  <2>3. CASE Finish(c, "503") /\ UNCHANGED slots
    BY <1>3, <2>1, <2>3 DEF Finish
  <2> QED
    BY <1>6, <2>2, <2>3 DEF CreateGate
<1> QED
  BY <1>3, <1>4, <1>5, <1>6

LEMMA HoldersStep == ASSUME TypeOK, [Next]_vars PROVE SlotChange
<1>1. ASSUME NEW c \in Creators, CreateStep(c) PROVE SlotChange
  <2>1. CASE CreateGate(c)
    BY <2>1, PostSlots
  <2>2. CASE CreateEncode(c)
    BY <2>2, PostSlots DEF CreateEncode, Holding
  <2>3. CASE CreateStamp(c)
    BY <2>3, PostSlots DEF CreateStamp, Holding
  <2>4. CASE CreateInsert(c) \/ CreateInsertFails(c)
    BY <2>4, PostSlots DEF CreateInsert, CreateInsertFails, Holding
  <2>5. CASE CreateConflict(c) \/ CreateReply(c)
    BY <2>5, PostSlots DEF CreateConflict, TryAgain, CreateReply, Holding
  <2> QED
    BY <1>1, <2>1, <2>2, <2>3, <2>4, <2>5 DEF CreateStep
<1>2. ASSUME NEW r \in Clients,
             \/ \E s \in Slugs, label \in {"peek", "erase"} : Arrive(r, s, label)
             \/ FetchStep(r) \/ DeleteStep(r)
      PROVE  SlotChange
  <2>1. (\E label : Goto(r, label)) \/ UNCHANGED pc
    BY <1>2 DEF Arrive, FetchStep, DeleteStep, PeekMeta, Get, Query, LazyDelete, FetchDecide,
       FetchGot, FetchFellBack, TakeStamp, GetAndDelete, FetchFails, FetchFailed, Decrypt,
       Deliver, DeleteDecide, Delete, Finish
  <2>2. UNCHANGED slots
    BY <1>2 DEF Arrive, FetchStep, DeleteStep, PeekMeta, Get, Query, LazyDelete, FetchDecide,
       FetchGot, FetchFellBack, TakeStamp, GetAndDelete, FetchFails, FetchFailed, Decrypt,
       DeleteDecide, Delete
  <2> QED
    BY <2>1, <2>2, ClientSlots
<1>3. CASE Next
  BY <1>1, <1>2, <1>3, PostSlots, RestartSlots, SameSlots
  DEF Next, FetchArrive, DeleteArrive, Clients, Cleanup, Tick
<1> QED
  BY <1>3, SameSlots DEF vars

(* Counting follows every such change. *)
LEMMA CountStep ==
    ASSUME IsFiniteSet(Creators), SlotsExact, SlotChange PROVE SlotsExact'
<1>1. IsFiniteSet(Holders) /\ Cardinality(Holders) \in Nat /\ MaxUploads \in Nat
  BY FS_Subset, FS_CardinalityType, Parameters DEF Holders
<1>2. slots = Cardinality(Holders) /\ slots <= MaxUploads /\ slots \in Nat
  BY <1>1 DEF SlotsExact, Holders
<1>3. slots' = Cardinality(Holders') /\ slots' <= MaxUploads
  <2>1. CASE Holders' = Holders /\ slots' = slots
    BY <1>2, <2>1
  <2>2. ASSUME NEW c \in Creators \ Holders, Holders' = Holders \cup {c},
               slots < MaxUploads, slots' = slots + 1
        PROVE  slots' = Cardinality(Holders') /\ slots' <= MaxUploads
    <3>1. c \notin Holders /\ Cardinality(Holders \cup {c}) = Cardinality(Holders) + 1
      BY <1>1, FS_AddElement
    <3> QED
      BY <1>1, <1>2, <2>2, <3>1
  <2>3. ASSUME NEW c \in Holders, Holders' = Holders \ {c}, slots' = slots - 1
        PROVE  slots' = Cardinality(Holders') /\ slots' <= MaxUploads
    <3>1. Cardinality(Holders \ {c}) = Cardinality(Holders) - 1
      BY <1>1, FS_RemoveElement
    <3> QED
      BY <1>1, <1>2, <2>3, <3>1
  <2>4. CASE Holders' = {} /\ slots' = 0
    BY <1>1, <2>4, FS_EmptySet
  <2> QED
    BY <2>1, <2>2, <2>3, <2>4 DEF SlotChange
<1> QED
  BY <1>3 DEF SlotsExact, Holders

LEMMA SlotsInit == Init => SlotsExact
<1>1. Init => Holders = {} /\ slots = 0
  BY ClientsCreators DEF Init, Holders, Holding
<1> QED
  BY <1>1, FS_EmptySet, Parameters DEF SlotsExact, Holders

(* uploadSem counts the handlers that hold a slot and never more than its  *)
(* capacity, for any number of uploads, failures and restarts: no path out *)
(* of handleCreatePaste leaks a slot or gives one back twice.              *)
THEOREM SlotsCounted == ASSUME IsFiniteSet(Creators) PROVE Spec => []SlotsExact
<1>1. Init => SlotsInv
  BY SlotsInit, TypeInit DEF SlotsInv
<1>2. SlotsInv /\ [Next]_vars => SlotsInv'
  BY HoldersStep, CountStep, TypeStep DEF SlotsInv
<1>3. SlotsInv => SlotsExact
  BY DEF SlotsInv
<1> QED
  BY <1>1, <1>2, <1>3, PTL DEF Spec

-----------------------------------------------------------------------------
(* The refinement of PasteStore: what a change of the table, of the        *)
(* history and of the readers' hands is in its terms.  Redis's steps are   *)
(* changes of the same kinds.                                              *)

StatusOf  == [c \in Creators |-> Status(c)]
BurningOf == {c \in Creators : \E p \in saves[c] : p[2].burn}
HandedTo  == [c \in Creators |-> ReadersOf(c)]

(* Some row of the table has this content. *)
Held(c) == \E s \in Slugs : rows[s] # NoRow /\ rows[s].content = c

LEMMA StatusHeld ==
    /\ \A c \in Creators :
          Status(c) = IF saves[c] = {} THEN "none" ELSE IF Held(c) THEN "kept" ELSE "gone"
    /\ \A c \in Creators :
          Status(c)' = IF saves'[c] = {} THEN "none" ELSE IF Held(c)' THEN "kept" ELSE "gone"
BY DEF Status, Held

LEMMA PromiseInit == Init => Promise!Init
<1> SUFFICES ASSUME Init PROVE Promise!Init
  OBVIOUS
<1>1. /\ \A c \in Creators : saves[c] = {}
      /\ \A r \in Readers : got[r] = NoRow
  BY DEF Init
<1>2. \A c \in Creators : Status(c) = "none" /\ ReadersOf(c) = {}
  BY <1>1 DEF Status, ReadersOf
<1> QED
  BY <1>1, <1>2 DEF Promise!Init

(* A step that changes neither table nor history nor hands does not show. *)
LEMMA StutterMaps ==
    ASSUME UNCHANGED <<rows, saves, got>>
    PROVE  UNCHANGED <<StatusOf, BurningOf, HandedTo>>
BY DEF StatusOf, BurningOf, HandedTo, Status, ReadersOf

(* Rows that go and are handed to nobody. *)
LEMMA VanishMaps ==
    ASSUME UNCHANGED <<saves, got>>, \A s \in Slugs : rows'[s] \in {NoRow, rows[s]}
    PROVE  Promise!Next
<1> DEFINE S == {c \in Creators : Status(c) = "kept" /\ Status(c)' = "gone"}
<1>1. \A c \in Creators : Held(c)' => Held(c)
  BY DEF Held
<1>2. \A c \in Creators : Status(c)' = IF c \in S THEN "gone" ELSE Status(c)
  BY <1>1, StatusHeld
<1>3. UNCHANGED <<BurningOf, HandedTo>>
  BY DEF BurningOf, HandedTo, ReadersOf
<1>4. Promise!Vanish(S)
  <2>1. \A c \in S : StatusOf[c] = "kept"
    BY DEF StatusOf
  <2>2. StatusOf' = [c \in Creators |-> IF c \in S THEN "gone" ELSE StatusOf[c]]
    BY <1>2 DEF StatusOf
  <2> HIDE DEF S
  <2> QED
    BY <1>3, <2>1, <2>2 DEF Promise!Vanish, StatusOf, BurningOf, HandedTo
<1>5. S \in SUBSET Creators
  OBVIOUS
<1> HIDE DEF S
<1> QED
  BY <1>4, <1>5 DEF Promise!Next

(* A paste that is stored for the first time, where no other paste is. *)
LEMMA SaveMaps ==
    ASSUME NEW c \in Creators, NEW s \in Slugs, NEW row,
           saves[c] = {}, DOMAIN saves = Creators, saves' = [saves EXCEPT ![c] = {<<s, row>>}],
           rows'[s] # NoRow, rows'[s].content = c,
           rows[s] = NoRow \/ rows[s].content = c,
           \A u \in Slugs : u # s => rows'[u] = rows[u],
           UNCHANGED got
    PROVE  Promise!Next
<1>1. /\ saves'[c] = {<<s, row>>}
      /\ \A d \in Creators : d # c => saves'[d] = saves[d]
  OBVIOUS
<1>2. ASSUME NEW d \in Creators, d # c PROVE Held(d)' <=> Held(d)
  BY <1>2 DEF Held
<1>3. Held(c)'
  BY DEF Held
<1>4. StatusOf[c] = "none"
  BY StatusHeld DEF StatusOf
<1>5. StatusOf' = [StatusOf EXCEPT ![c] = "kept"]
  BY <1>1, <1>2, <1>3, StatusHeld DEF StatusOf
<1>6. BurningOf' \in {BurningOf, BurningOf \cup {c}}
  <2>1. CASE row.burn
    BY <1>1, <2>1 DEF BurningOf
  <2>2. CASE ~row.burn
    BY <1>1, <2>2 DEF BurningOf
  <2> QED
    BY <2>1, <2>2
<1>7. HandedTo' = HandedTo
  BY DEF HandedTo, ReadersOf
<1>8. Promise!Save(c)
  BY <1>4, <1>5, <1>6, <1>7 DEF Promise!Save, StatusOf, BurningOf, HandedTo
<1> QED
  BY <1>8 DEF Promise!Next

(* A reader that had nothing is handed a paste. *)
LEMMA HandMaps ==
    ASSUME NEW r \in Readers, NEW row, row # NoRow, row.content \in Creators,
           got[r] = NoRow, DOMAIN got = Readers, got' = [got EXCEPT ![r] = row]
    PROVE  HandedTo' = [HandedTo EXCEPT ![row.content] = @ \cup {r}]
<1>1. \A q \in Readers : got'[q] = IF q = r THEN row ELSE got[q]
  OBVIOUS
<1>2. \A c \in Creators :
         ReadersOf(c)' = IF c = row.content THEN ReadersOf(c) \cup {r} ELSE ReadersOf(c)
  BY <1>1 DEF ReadersOf
<1> QED
  BY <1>2 DEF HandedTo

LEMMA ReadMaps ==
    ASSUME NEW r \in Readers, NEW row, row # NoRow, row.content \in Creators,
           got[r] = NoRow, DOMAIN got = Readers, got' = [got EXCEPT ![r] = row],
           UNCHANGED <<rows, saves>>,
           saves[row.content] # {}, \A p \in saves[row.content] : ~p[2].burn
    PROVE  Promise!Next
<1> DEFINE c == row.content
<1>1. c \notin BurningOf /\ StatusOf[c] # "none"
  BY StatusHeld DEF BurningOf, StatusOf
<1>2. UNCHANGED <<StatusOf, BurningOf>>
  BY DEF StatusOf, BurningOf, Status
<1>3. HandedTo' = [HandedTo EXCEPT ![c] = @ \cup {r}]
  BY HandMaps
<1> HIDE DEF c
<1>4. Promise!Read(c, r)
  BY <1>1, <1>2, <1>3 DEF Promise!Read, Promise!Hand, StatusOf, BurningOf, HandedTo
<1> QED
  BY <1>4 DEF Promise!Next, c

(* A reader that had nothing is handed a burn paste, which goes. *)
LEMMA BurnMaps ==
    ASSUME NEW r \in Readers, NEW s \in Slugs, rows[s] # NoRow, rows[s].content \in Creators,
           got[r] = NoRow, DOMAIN got = Readers, got' = [got EXCEPT ![r] = rows[s]],
           rows'[s] = NoRow, \A u \in Slugs : u # s => rows'[u] = rows[u],
           \A u \in Slugs : rows[u] # NoRow /\ rows[u].content = rows[s].content => u = s,
           UNCHANGED saves, \E p \in saves[rows[s].content] : p[2].burn
    PROVE  Promise!Next
<1>1. PICK row : row = rows[s]
  OBVIOUS
<1> DEFINE c == row.content
<1>2. Held(c) /\ ~Held(c)'
  BY <1>1 DEF Held
<1>3. \A d \in Creators : d # c => (Held(d)' <=> Held(d))
  BY <1>1 DEF Held
<1>4. c \in BurningOf /\ StatusOf[c] = "kept"
  BY <1>1, <1>2, StatusHeld DEF BurningOf, StatusOf
<1>5. StatusOf' = [StatusOf EXCEPT ![c] = "gone"]
  <2>1. c \in Creators /\ saves[c] # {}
    BY <1>1
  <2>2. Status(c)' = "gone"
    BY <1>2, <2>1, StatusHeld
  <2>3. \A d \in Creators : d # c => Status(d)' = Status(d)
    BY <1>3, StatusHeld
  <2> HIDE DEF c
  <2> QED
    BY <2>2, <2>3 DEF StatusOf
<1>6. BurningOf' = BurningOf
  BY DEF BurningOf
<1>7. HandedTo' = [HandedTo EXCEPT ![c] = @ \cup {r}]
  <2>1. row # NoRow /\ row.content \in Creators /\ got' = [got EXCEPT ![r] = row]
    BY <1>1
  <2> QED
    BY <2>1, HandMaps
<1>8. c \in Creators
  BY <1>1
<1> HIDE DEF c
<1>9. Promise!Burn(c, r)
  BY <1>4, <1>5, <1>6, <1>7 DEF Promise!Burn, Promise!Hand, StatusOf, BurningOf, HandedTo
<1> QED
  BY <1>8, <1>9 DEF Promise!Next
-----------------------------------------------------------------------------
(* Progress.                                                               *)

(* How many steps of its own a request has left at most: by its label, one *)
(* more or three for a row whose expiry is still to be checked, and two    *)
(* less for each try that has failed.                                      *)
Depth == [idle |-> 10, gate |-> 9, encode |-> 8, save |-> 7, insert |-> 6, created |-> 1,
          peek |-> 8, peeked |-> 6, fallback |-> 5, fellback |-> 1, get |-> 3, got |-> 1,
          take |-> 3, taking |-> 2, decrypt |-> 1, failed |-> 1, erase |-> 1, done |-> 0]

LeftAt(label, l) ==
    Depth[label]
    + (IF l.seen = NoRow THEN 0
       ELSE IF label = "fellback" THEN 3 ELSE IF label \in {"peeked", "got"} THEN 1 ELSE 0)
    - (IF label \in {"save", "insert"} THEN 2 * l.tries ELSE 0)
StepsLeft(r) == LeftAt(pc[r], loc[r])

(* A label at a time. *)
LEMMA DepthIs ==
    /\ Depth["idle"] = 10 /\ Depth["gate"] = 9 /\ Depth["encode"] = 8 /\ Depth["save"] = 7
    /\ Depth["insert"] = 6 /\ Depth["created"] = 1 /\ Depth["peek"] = 8 /\ Depth["peeked"] = 6
    /\ Depth["fallback"] = 5 /\ Depth["fellback"] = 1 /\ Depth["get"] = 3 /\ Depth["got"] = 1
    /\ Depth["take"] = 3 /\ Depth["taking"] = 2 /\ Depth["decrypt"] = 1 /\ Depth["failed"] = 1
    /\ Depth["erase"] = 1 /\ Depth["done"] = 0
BY DEF Depth

LEMMA LeftAtIs ==
    ASSUME NEW label \in CreatorLabels \cup ClientLabels, NEW l \in Local
    PROVE  /\ label \notin {"save", "insert", "peeked", "got", "fellback"} =>
                 LeftAt(label, l) = Depth[label]
           /\ label = "save" => LeftAt(label, l) = 7 - 2 * l.tries
           /\ label = "insert" => LeftAt(label, l) = 6 - 2 * l.tries
           /\ label = "peeked" => LeftAt(label, l) = IF l.seen = NoRow THEN 6 ELSE 7
           /\ label = "fellback" => LeftAt(label, l) = IF l.seen = NoRow THEN 1 ELSE 4
           /\ label = "got" => LeftAt(label, l) = IF l.seen = NoRow THEN 1 ELSE 2
           /\ l.tries \in 0 .. 2
<1>1. Depth[label] \in Int /\ l.tries \in 0 .. 2
  BY DepthIs DEF Local, CreatorLabels, ClientLabels, maxSlugRetries
<1>2. CASE label \notin {"save", "insert", "peeked", "got", "fellback"}
  BY <1>1, <1>2 DEF LeftAt
<1>3. CASE label \in {"save", "insert"}
  BY <1>1, <1>3, DepthIs DEF LeftAt
<1>4. CASE label \in {"peeked", "got", "fellback"}
  BY <1>1, <1>4, DepthIs DEF LeftAt
<1> QED
  BY <1>1, <1>2, <1>3, <1>4

LEMMA LeftBounds ==
    ASSUME NEW label \in CreatorLabels \cup ClientLabels, NEW l \in Local
    PROVE  /\ LeftAt(label, l) \in 0 .. 10
           /\ LeftAt(label, l) = 0 <=> label = "done"
BY LeftAtIs, DepthIs DEF CreatorLabels, ClientLabels

Lowers(r) == StepsLeft(r)' < StepsLeft(r)

(* Where a step takes a request. *)
LEMMA Lowering ==
    ASSUME TypeOK, TypeOK', NEW r \in Requests
    PROVE  /\ StepsLeft(r)' = LeftAt(pc'[r], loc'[r])
           /\ pc[r] \in CreatorLabels \cup ClientLabels /\ loc[r] \in Local
           /\ pc'[r] \in CreatorLabels \cup ClientLabels /\ loc'[r] \in Local
           /\ \A label : Goto(r, label) => pc'[r] = label
           /\ \A code : pc[r] # "done" /\ Finish(r, code) => Lowers(r)
<1>1. /\ pc[r] \in CreatorLabels \cup ClientLabels /\ loc[r] \in Local
      /\ pc'[r] \in CreatorLabels \cup ClientLabels /\ loc'[r] \in Local
  BY DEF TypeOK, PlacesOK
<1>2. StepsLeft(r)' = LeftAt(pc'[r], loc'[r])
  BY DEF StepsLeft
<1>3. \A label : Goto(r, label) => pc'[r] = label
  BY DEF Goto, TypeOK, PlacesOK
<1>4. ASSUME NEW code, pc[r] # "done", Finish(r, code) PROVE Lowers(r)
  <2>1. pc'[r] = "done"
    BY <1>3, <1>4 DEF Finish
  <2>2. LeftAt(pc'[r], loc'[r]) = 0
    BY <1>1, <2>1, LeftBounds
  <2>3. LeftAt(pc[r], loc[r]) \in 0 .. 10 /\ LeftAt(pc[r], loc[r]) # 0
    BY <1>1, <1>4, LeftBounds
  <2> QED
    BY <1>2, <2>2, <2>3 DEF Lowers, StepsLeft
<1> QED
  BY <1>1, <1>2, <1>3, <1>4

(* The steps of a POST before and after Save. *)
LEMMA PostLowers ==
    ASSUME TypeOK, TypeOK', NEW c \in Creators,
           CreateArrive(c) \/ CreateGate(c) \/ CreateEncode(c) \/ CreateReply(c)
    PROVE  Lowers(c)
<1>1. c \in Requests /\ pc[c] # "done"
  BY DEF Requests, CreateArrive, CreateGate, CreateEncode, CreateReply
<1>2. CASE \E code : Finish(c, code)
  BY <1>1, <1>2, Lowering
<1>3. CASE \/ pc[c] = "idle" /\ Goto(c, "gate")
           \/ pc[c] = "gate" /\ Goto(c, "encode")
           \/ pc[c] = "encode" /\ Goto(c, "save")
  <2>1. CASE pc[c] = "idle" /\ Goto(c, "gate")
    <3>1. StepsLeft(c) = 10 /\ LeftAt(pc'[c], loc'[c]) = 9
      BY <1>1, <2>1, Lowering, LeftAtIs, DepthIs DEF StepsLeft
    <3> QED
      BY <1>1, <3>1, Lowering DEF Lowers
  <2>2. CASE pc[c] = "gate" /\ Goto(c, "encode")
    <3>1. StepsLeft(c) = 9 /\ LeftAt(pc'[c], loc'[c]) = 8
      BY <1>1, <2>2, Lowering, LeftAtIs, DepthIs DEF StepsLeft
    <3> QED
      BY <1>1, <3>1, Lowering DEF Lowers
  <2>3. CASE pc[c] = "encode" /\ Goto(c, "save")
    <3>1. StepsLeft(c) = 8
      BY <1>1, <2>3, Lowering, LeftAtIs, DepthIs DEF StepsLeft
    <3>2. LeftAt(pc'[c], loc'[c]) = 7 - 2 * loc'[c].tries /\ loc'[c].tries \in 0 .. 2
      BY <1>1, <2>3, Lowering, LeftAtIs
    <3> QED
      BY <1>1, <3>1, <3>2, Lowering DEF Lowers
  <2> QED
    BY <1>3, <2>1, <2>2, <2>3
<1> QED
  BY <1>2, <1>3 DEF CreateArrive, CreateGate, CreateEncode, CreateReply, Release

(* A conflict costs a try. *)
LEMMA TryLowers ==
    ASSUME TypeOK, TypeOK', NEW c \in Creators, pc[c] \in {"save", "insert"}, TryAgain(c)
    PROVE  Lowers(c)
<1>1. c \in Requests /\ pc[c] # "done" /\ loc \in [Requests -> Local]
  BY DEF Requests, TypeOK, PlacesOK
<1>2. CASE Release(c, "500")
  BY <1>1, <1>2, Lowering DEF Release
<1>3. CASE loc' = [loc EXCEPT ![c].tries = NextTry(c)] /\ Goto(c, "save")
  <2>1. loc'[c].tries = loc[c].tries + 1 /\ pc'[c] = "save"
    BY <1>1, <1>3, Lowering DEF NextTry, Local
  <2> QED
    BY <1>1, <2>1, Lowering, LeftAtIs DEF Lowers, StepsLeft
<1> QED
  BY <1>2, <1>3 DEF TryAgain

(* A client's request is handed its answer. *)
LEMMA DeliverLowers ==
    ASSUME TypeOK, TypeOK', NEW r \in Requests, NEW row, Deliver(r, row),
           pc[r] = "taking" \/ (pc[r] \in {"got", "fellback"} /\ row = loc[r].seen)
    PROVE  Lowers(r)
<1>1. CASE row = NoRow
  BY <1>1, Lowering DEF Deliver
<1>2. CASE row # NoRow
  <2>1. pc'[r] = "decrypt"
    BY <1>2, Lowering DEF Deliver
  <2>2. LeftAt(pc'[r], loc'[r]) = 1
    BY <2>1, Lowering, LeftAtIs, DepthIs
  <2>3. StepsLeft(r) \in {2, 4}
    BY <1>2, Lowering, LeftAtIs, DepthIs DEF StepsLeft
  <2> QED
    BY <2>2, <2>3, Lowering DEF Lowers
<1> QED
  BY <1>1, <1>2

(* A step that depends on the label it leads to only. *)
LEMMA GoesLower ==
    ASSUME TypeOK, TypeOK', NEW r \in Requests, NEW label, Goto(r, label),
           \/ /\ pc[r] \in {"peek", "peeked"}
              /\ label \in {"fallback", "take", "get", "erase"}
           \/ pc[r] = "fellback" /\ loc[r].seen # NoRow /\ label = "take"
           \/ pc[r] = "take" /\ label = "taking"
           \/ pc[r] \in {"get", "fallback", "taking"} /\ label = "failed"
           \/ pc[r] = "idle" /\ label \in {"peek", "erase"}
    PROVE  Lowers(r)
<1>1. pc'[r] = label
  BY Lowering
<1>2. LeftAt(pc'[r], loc'[r]) = Depth[label]
  BY <1>1, Lowering, LeftAtIs
<1>3. CASE pc[r] \in {"peek", "peeked"} /\ label \in {"fallback", "take", "get", "erase"}
  <2>1. StepsLeft(r) \in {6, 7, 8} /\ Depth[label] \in {1, 3, 5}
    BY <1>3, Lowering, LeftAtIs, DepthIs DEF StepsLeft
  <2> QED
    BY <1>2, <2>1, Lowering DEF Lowers
<1>4. CASE pc[r] = "fellback" /\ loc[r].seen # NoRow /\ label = "take"
  <2>1. StepsLeft(r) = 4 /\ Depth[label] = 3
    BY <1>4, Lowering, LeftAtIs, DepthIs DEF StepsLeft
  <2> QED
    BY <1>2, <2>1, Lowering DEF Lowers
<1>5. CASE \/ pc[r] = "take" /\ label = "taking"
           \/ pc[r] \in {"get", "fallback", "taking"} /\ label = "failed"
  <2>1. \/ StepsLeft(r) = 3 /\ Depth[label] = 2
        \/ StepsLeft(r) \in {2, 3, 5} /\ Depth[label] = 1
    BY <1>5, Lowering, LeftAtIs, DepthIs DEF StepsLeft
  <2> QED
    BY <1>2, <2>1, Lowering DEF Lowers
<1>6. CASE pc[r] = "idle" /\ label \in {"peek", "erase"}
  <2>1. StepsLeft(r) = 10 /\ Depth[label] \in {1, 8}
    BY <1>6, Lowering, LeftAtIs, DepthIs DEF StepsLeft
  <2> QED
    BY <1>2, <2>1, Lowering DEF Lowers
<1> QED
  BY <1>3, <1>4, <1>5, <1>6

(* The steps of a GET or DELETE between the calls of the storage. *)
LEMMA ClientLowers ==
    ASSUME TypeOK, TypeOK', NEW r \in Clients,
           \/ \E s \in Slugs, label \in {"peek", "erase"} : Arrive(r, s, label)
           \/ FetchDecide(r) \/ FetchGot(r) \/ FetchFellBack(r) \/ TakeStamp(r)
           \/ FetchFailed(r) \/ Decrypt(r) \/ DeleteDecide(r)
    PROVE  Lowers(r)
<1>1. r \in Requests
  BY DEF Clients, Requests
<1>2. CASE \E s \in Slugs, label \in {"peek", "erase"} : Arrive(r, s, label)
  BY <1>1, <1>2, GoesLower DEF Arrive
<1>3. CASE FetchDecide(r)
  BY <1>1, <1>3, GoesLower DEF FetchDecide, Returned
<1>4. CASE FetchGot(r)
  BY <1>1, <1>4, DeliverLowers DEF FetchGot, Returned
<1>5. CASE FetchFellBack(r)
  BY <1>1, <1>5, DeliverLowers, GoesLower DEF FetchFellBack, Returned
<1>6. CASE TakeStamp(r)
  BY <1>1, <1>6, GoesLower DEF TakeStamp
<1>7. CASE FetchFailed(r) \/ Decrypt(r)
  BY <1>1, <1>7, Lowering DEF FetchFailed, Decrypt
<1>8. CASE DeleteDecide(r)
  BY <1>1, <1>8, GoesLower, Lowering DEF DeleteDecide, Returned
<1> QED
  BY <1>2, <1>3, <1>4, <1>5, <1>6, <1>7, <1>8

(* A SELECT, or what Redis returns. *)
LEMMA LookLowers ==
    ASSUME TypeOK, TypeOK', NEW r \in Requests,
           \/ pc[r] = "peek" /\ Goto(r, "peeked")
           \/ pc[r] = "get" /\ Goto(r, "got")
           \/ pc[r] = "fallback" /\ Goto(r, "fellback")
    PROVE  Lowers(r)
<1>1. CASE pc[r] = "peek" /\ Goto(r, "peeked")
  <2>1. StepsLeft(r) = 8 /\ LeftAt(pc'[r], loc'[r]) \in {6, 7}
    BY <1>1, Lowering, LeftAtIs, DepthIs DEF StepsLeft
  <2> QED
    BY <2>1, Lowering DEF Lowers
<1>2. CASE pc[r] = "get" /\ Goto(r, "got")
  <2>1. StepsLeft(r) = 3 /\ LeftAt(pc'[r], loc'[r]) \in {1, 2}
    BY <1>2, Lowering, LeftAtIs, DepthIs DEF StepsLeft
  <2> QED
    BY <2>1, Lowering DEF Lowers
<1>3. CASE pc[r] = "fallback" /\ Goto(r, "fellback")
  <2>1. StepsLeft(r) = 5 /\ LeftAt(pc'[r], loc'[r]) \in {1, 4}
    BY <1>3, Lowering, LeftAtIs, DepthIs DEF StepsLeft
  <2> QED
    BY <2>1, Lowering DEF Lowers
<1> QED
  BY <1>1, <1>2, <1>3

(* The INSERT is reached, or the paste is stored. *)
LEMMA SaveLowers ==
    ASSUME TypeOK, TypeOK', NEW c \in Creators,
           \/ /\ pc[c] = "save" /\ Goto(c, "insert")
              /\ loc'[c].tries = loc[c].tries
           \/ pc[c] = "insert" /\ Goto(c, "created")
    PROVE  Lowers(c)
<1>1. c \in Requests
  BY DEF Requests
<1>2. CASE pc[c] = "save" /\ Goto(c, "insert") /\ loc'[c].tries = loc[c].tries
  BY <1>1, <1>2, Lowering, LeftAtIs DEF Lowers, StepsLeft
<1>3. CASE pc[c] = "insert" /\ Goto(c, "created")
  <2>1. LeftAt(pc'[c], loc'[c]) = 1
    BY <1>1, <1>3, Lowering, LeftAtIs, DepthIs
  <2>2. StepsLeft(c) = 6 - 2 * loc[c].tries /\ loc[c].tries \in 0 .. 2
    BY <1>1, <1>3, Lowering, LeftAtIs DEF StepsLeft
  <2> QED
    BY <1>1, <2>1, <2>2, Lowering DEF Lowers
<1> QED
  BY <1>2, <1>3

LEMMA RestartLowers ==
    ASSUME TypeOK, TypeOK', NEW q \in Requests,
           Restart \/ (pc'[q] = pc[q] /\ loc'[q] = loc[q])
    PROVE  StepsLeft(q)' <= StepsLeft(q)
<1>1. StepsLeft(q) \in Int
  BY Lowering, LeftBounds DEF StepsLeft
<1>2. CASE pc'[q] = pc[q] /\ loc'[q] = loc[q]
  BY <1>1, <1>2, Lowering DEF StepsLeft
<1>3. CASE Restart /\ pc[q] = "idle"
  <2>1. StepsLeft(q) = 10 /\ LeftAt(pc'[q], loc'[q]) = 10
    BY <1>3, Lowering, LeftAtIs, DepthIs DEF Restart, StepsLeft
  <2> QED
    BY <2>1, Lowering
<1>4. CASE Restart /\ pc[q] # "idle"
  <2>1. StepsLeft(q) \in 0 .. 10 /\ LeftAt(pc'[q], loc'[q]) = 0
    BY <1>4, Lowering, LeftBounds DEF Restart, StepsLeft
  <2> QED
    BY <2>1, Lowering
<1> QED
  BY <1>2, <1>3, <1>4

FewLeft ==
    \A r \in Requests : StepsLeft(r) \in 0 .. 10 /\ (StepsLeft(r) = 0 <=> pc[r] = "done")

LEMMA FewLeftIs == TypeOK => FewLeft
BY LeftBounds DEF FewLeft, StepsLeft, TypeOK, PlacesOK

=============================================================================
