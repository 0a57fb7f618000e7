-------------------------- MODULE SqlAnswers_proofs --------------------------
(***************************************************************************)
(* Theorems about SqlPastebin: what a request is answered agrees with the  *)
(* table, although its steps read the table and the clock at different     *)
(* moments; and a paste leaves the table for a reason only.                *)
(***************************************************************************)
EXTENDS SqlPastebin_proofs

-----------------------------------------------------------------------------
(* What a step may do to a request that is not its own, and to the table.  *)

Acts(r) ==
    \/ r \in Creators /\ (CreateArrive(r) \/ CreateStep(r))
    \/ r \in Readers /\ (FetchStep(r) \/ \E s \in Slugs : FetchArrive(r, s))
    \/ r \in Deleters /\ (DeleteStep(r) \/ \E s \in Slugs : DeleteArrive(r, s))

Untouched(q) ==
    /\ pc'[q] = pc[q] /\ loc'[q] = loc[q] /\ ans'[q] = ans[q] /\ wit'[q] = wit[q]
    /\ q \in Readers => got'[q] = got[q]
    /\ q \in Creators => saves'[q] = saves[q]

(* The kinds of steps. *)
LEMMA Steps ==
    ASSUME [Next]_vars
    PROVE  \/ \E r \in Requests : Acts(r)
           \/ Cleanup \/ Tick \/ Restart \/ UNCHANGED vars
<1>1. CASE \E c \in Creators : CreateArrive(c) \/ CreateStep(c)
  BY <1>1 DEF Acts, Requests
<1>2. CASE \E r \in Readers : FetchStep(r) \/ \E s \in Slugs : FetchArrive(r, s)
  BY <1>2 DEF Acts, Requests
<1>3. CASE \E d \in Deleters : DeleteStep(d) \/ \E s \in Slugs : DeleteArrive(d, s)
  BY <1>3 DEF Acts, Requests
<1> QED
  BY <1>1, <1>2, <1>3 DEF Next

(* A request's step changes its own part of the state only. *)
LEMMA Isolation ==
    ASSUME TypeOK, NEW r \in Requests, Acts(r), NEW q \in Requests, q # r
    PROVE  Untouched(q)
<1>1. UNCHANGED pc \/ \E label : Goto(r, label)
  BY DEF Acts, CreateArrive, CreateStep, CreateGate, CreateEncode, CreateStamp, CreateInsert,
     CreateConflict, TryAgain, CreateInsertFails, CreateReply, Release, FetchArrive,
     DeleteArrive, Arrive, FetchStep, DeleteStep, PeekMeta, Get, Query, LazyDelete, FetchDecide,
     FetchGot, FetchFellBack, TakeStamp, GetAndDelete, FetchFails, FetchFailed, Decrypt,
     Deliver, DeleteDecide, Delete, Finish
<1>2. UNCHANGED loc \/ \E l : loc' = [loc EXCEPT ![r] = l]
  BY DEF Acts, CreateArrive, CreateStep, CreateGate, CreateEncode, CreateStamp, CreateInsert,
     CreateConflict, TryAgain, CreateInsertFails, CreateReply, Release, FetchArrive,
     DeleteArrive, Arrive, FetchStep, DeleteStep, PeekMeta, Get, Query, LazyDelete, FetchDecide,
     FetchGot, FetchFellBack, TakeStamp, GetAndDelete, FetchFails, FetchFailed, Decrypt,
     Deliver, DeleteDecide, Delete, Finish
<1>3. /\ UNCHANGED ans \/ \E a : ans' = [ans EXCEPT ![r] = a]
      /\ UNCHANGED wit \/ \E w : wit' = [wit EXCEPT ![r] = w]
  BY DEF Acts, CreateArrive, CreateStep, CreateGate, CreateEncode, CreateStamp, CreateInsert,
     CreateConflict, TryAgain, CreateInsertFails, CreateReply, Release, FetchArrive,
     DeleteArrive, Arrive, FetchStep, DeleteStep, PeekMeta, Get, Query, LazyDelete, FetchDecide,
     FetchGot, FetchFellBack, TakeStamp, GetAndDelete, FetchFails, FetchFailed, Decrypt,
     Deliver, DeleteDecide, Delete, Finish
<1>4. UNCHANGED got \/ \E row : got' = [got EXCEPT ![r] = row]
  BY DEF Acts, CreateArrive, CreateStep, CreateGate, CreateEncode, CreateStamp, CreateInsert,
     CreateConflict, CreateInsertFails, CreateReply, FetchArrive,
     DeleteArrive, Arrive, FetchStep, DeleteStep, PeekMeta, Get, Query, LazyDelete, FetchDecide,
     FetchGot, FetchFellBack, TakeStamp, GetAndDelete, FetchFails, FetchFailed, Decrypt,
     Deliver, DeleteDecide, Delete
<1>5. UNCHANGED saves \/ \E s \in Slugs : Store(r, s)
  BY DEF Acts, CreateArrive, CreateStep, CreateGate, CreateEncode, CreateStamp, CreateInsert,
     CreateConflict, CreateInsertFails, CreateReply, FetchArrive,
     DeleteArrive, Arrive, FetchStep, DeleteStep, PeekMeta, Get, Query, LazyDelete, FetchDecide,
     FetchGot, FetchFellBack, TakeStamp, GetAndDelete, FetchFails, FetchFailed, Decrypt,
     DeleteDecide, Delete
<1>6. /\ DOMAIN pc = Requests /\ DOMAIN loc = Requests /\ DOMAIN ans = Requests
      /\ DOMAIN wit = Requests /\ DOMAIN got = Readers /\ DOMAIN saves = Creators
  BY DEF TypeOK, PlacesOK
<1>7. pc'[q] = pc[q]
  BY <1>1, <1>6 DEF Goto
<1>8. loc'[q] = loc[q]
  BY <1>2, <1>6
<1>9. ans'[q] = ans[q] /\ wit'[q] = wit[q]
  BY <1>3, <1>6
<1>10. q \in Readers => got'[q] = got[q]
  BY <1>4, <1>6
<1>11. q \in Creators => saves'[q] = saves[q]
  BY <1>5, <1>6 DEF Store
<1> QED
  BY <1>7, <1>8, <1>9, <1>10, <1>11 DEF Untouched

(* The table: rows go, or one is inserted under an id nobody holds.        *)
Gone == (\E S \in SUBSET Slugs : Remove(S)) /\ UNCHANGED saves
Added == \E c \in Creators, s \in Slugs : pc[c] = "insert" /\ Vacant(s) /\ Store(c, s)

LEMMA Effects ==
    ASSUME TypeOK, [Next]_vars
    PROVE  /\ UNCHANGED <<rows, saves>> \/ Gone \/ Added
           /\ now \in Int /\ now' \in Int /\ now <= now'
<1>1. now \in Int /\ now' \in Int /\ now <= now'
  <2>1. CASE Tick
    BY <2>1 DEF Tick, TypeOK, ProcessOK
  <2>2. CASE UNCHANGED now
    BY <2>2 DEF TypeOK, ProcessOK
  <2>3. CASE \E r \in Requests : Acts(r)
    BY <2>2, <2>3 DEF Acts, CreateArrive, CreateStep, CreateGate, CreateEncode, CreateStamp,
       CreateInsert, CreateConflict, CreateInsertFails, CreateReply, FetchArrive,
       DeleteArrive, Arrive, FetchStep, DeleteStep, PeekMeta, Get, Query, LazyDelete,
       FetchDecide, FetchGot, FetchFellBack, TakeStamp, GetAndDelete, FetchFails, FetchFailed,
       Decrypt, DeleteDecide, Delete, process
  <2> QED
    BY <2>1, <2>2, <2>3, Steps DEF Cleanup, Restart, vars, process
<1>2. ASSUME NEW r \in Clients, Acts(r)
      PROVE  UNCHANGED <<rows, saves>> \/ Gone
  <2>1. r \notin Creators
    BY ClientsCreators
  <2>2. pc[r] \notin {"idle", "done"} => {loc[r].slug} \in SUBSET Slugs
    BY DEF TypeOK, PlacesOK
  <2>3. UNCHANGED saves
    BY <1>2, <2>1 DEF Acts, FetchArrive, DeleteArrive, Arrive, FetchStep, DeleteStep, PeekMeta,
       Get, Query, LazyDelete, FetchDecide, FetchGot, FetchFellBack, TakeStamp, GetAndDelete,
       FetchFails, FetchFailed, Decrypt, DeleteDecide, Delete
  <2>4. UNCHANGED rows \/ (pc[r] \notin {"idle", "done"} /\ Remove({loc[r].slug}))
    BY <1>2, <2>1 DEF Acts, FetchArrive, DeleteArrive, Arrive, FetchStep, DeleteStep, PeekMeta,
       Get, Query, LazyDelete, FetchDecide, FetchGot, FetchFellBack, TakeStamp, GetAndDelete,
       FetchFails, FetchFailed, Decrypt, DeleteDecide, Delete, TakeRow, store
  <2> QED
    BY <2>2, <2>3, <2>4 DEF Gone
<1>3. ASSUME NEW c \in Creators, CreateArrive(c) \/ CreateStep(c)
      PROVE  UNCHANGED <<rows, saves>> \/ Added
  BY <1>3 DEF CreateArrive, CreateStep, CreateGate, CreateEncode, CreateStamp, CreateInsert,
     CreateConflict, CreateInsertFails, CreateReply, store, Added
<1>4. ASSUME NEW r \in Requests, Acts(r)
      PROVE  UNCHANGED <<rows, saves>> \/ Gone \/ Added
  <2>1. CASE r \in Creators
    BY <1>3, <1>4, <2>1, ClientsCreators DEF Acts
  <2>2. CASE r \in Clients
    BY <1>2, <1>4, <2>2
  <2> QED
    BY <2>1, <2>2 DEF Requests, Clients
<1>5. ASSUME Cleanup PROVE Gone
  BY <1>5 DEF Cleanup, Gone
<1>6. ASSUME Tick \/ Restart \/ UNCHANGED vars PROVE UNCHANGED <<rows, saves>>
  BY <1>6 DEF Tick, Restart, vars, store
<1> QED
  BY <1>1, <1>4, <1>5, <1>6, Steps

-----------------------------------------------------------------------------
(* The answer to a POST.                                                   *)

(* The answer comes last, and "created" is reached by an INSERT only.      *)
PostInv ==
    \A c \in Creators :
        /\ pc[c] # "done" => ans[c] = "none"
        /\ pc[c] = "created" => saves[c] # {}

AnswerInv == StoredOnce /\ PostInv /\ AnswerMatchesStore

LEMMA AnswerInit == Init => AnswerInv
<1> SUFFICES ASSUME Init PROVE AnswerInv
  OBVIOUS
<1>1. \A c \in Creators : pc[c] = "idle" /\ ans[c] = "none" /\ saves[c] = {}
  BY ClientsCreators DEF Init
<1> QED
  BY <1>1 DEF AnswerInv, StoredOnce, PostInv, AnswerMatchesStore

(* One POST: what AnswerInv says of it. *)
Posted(c) ==
    /\ pc[c] \in BeforeInsert => saves[c] = {}
    /\ \A p, q \in saves[c] : p = q
    /\ pc[c] # "done" => ans[c] = "none"
    /\ pc[c] = "created" => saves[c] # {}
    /\ ans[c] = "201" => saves[c] # {}
    /\ ans[c] \in {"400", "413", "503"} => saves[c] = {}
    /\ ans[c] = "500" /\ Backend = "sqlite" => saves[c] = {}

LEMMA EachPosted ==
    /\ AnswerInv <=> \A c \in Creators : Posted(c)
    /\ AnswerInv' <=> \A c \in Creators : Posted(c)'
BY DEF AnswerInv, StoredOnce, PostInv, AnswerMatchesStore, Posted, BeforeInsert

LEMMA PostedStep ==
    ASSUME TypeOK, NEW c \in Creators, Posted(c), CreateArrive(c) \/ CreateStep(c)
    PROVE  Posted(c)'
<1>1. /\ c \in Requests /\ pc[c] \in CreatorLabels
      /\ DOMAIN pc = Requests /\ DOMAIN ans = Requests /\ DOMAIN saves = Creators
  BY ClientsCreators DEF TypeOK, PlacesOK
<1>2. ASSUME NEW label, Goto(c, label) PROVE pc'[c] = label
  BY <1>1, <1>2 DEF Goto
<1>3. ASSUME NEW code, Finish(c, code) PROVE pc'[c] = "done" /\ ans'[c] = code
  BY <1>1, <1>2, <1>3 DEF Finish
<1>4. ASSUME NEW code, Release(c, code) PROVE pc'[c] = "done" /\ ans'[c] = code
  BY <1>3, <1>4 DEF Release
<1>a. CASE CreateArrive(c)
  <2>1. pc[c] = "idle" /\ saves' = saves
    BY <1>a DEF CreateArrive
  <2>2. \/ pc'[c] = "done" /\ ans'[c] \in {"413", "400", "500"}
        \/ pc'[c] = "gate" /\ ans' = ans
    BY <1>a, <1>2, <1>3 DEF CreateArrive
  <2> QED
    BY <2>1, <2>2 DEF Posted, BeforeInsert
<1>b. CASE CreateGate(c)
  <2>1. pc[c] = "gate" /\ saves' = saves
    BY <1>b DEF CreateGate
  <2>2. \/ pc'[c] = "done" /\ ans'[c] = "503"
        \/ pc'[c] = "encode" /\ ans' = ans
    BY <1>b, <1>2, <1>3 DEF CreateGate
  <2> QED
    BY <2>1, <2>2 DEF Posted, BeforeInsert
<1>c. CASE CreateEncode(c)
  <2>1. pc[c] = "encode" /\ saves' = saves
    BY <1>c DEF CreateEncode
  <2>2. \/ pc'[c] = "done" /\ ans'[c] \in {"400", "500"}
        \/ pc'[c] = "save" /\ ans' = ans
    BY <1>c, <1>2, <1>4 DEF CreateEncode
  <2> QED
    BY <2>1, <2>2 DEF Posted, BeforeInsert
<1>d. CASE CreateStamp(c)
  <2>1. pc[c] = "save" /\ saves' = saves
    BY <1>d DEF CreateStamp
  <2>2. \/ pc'[c] = "done" /\ ans'[c] = "500"
        \/ pc'[c] = "insert" /\ ans' = ans
    BY <1>d, <1>2, <1>4 DEF CreateStamp
  <2> QED
    BY <2>1, <2>2 DEF Posted, BeforeInsert
<1>5. ASSUME pc[c] = "insert", NEW s, Store(c, s)
      PROVE  saves'[c] = {<<s, NewRow(c)>>}
  BY <1>1, <1>5 DEF Store, Posted, BeforeInsert
<1>e. CASE CreateInsert(c)
  <2>1. pc[c] = "insert" /\ ans' = ans /\ pc'[c] = "created"
    BY <1>e, <1>2 DEF CreateInsert
  <2>2. \E s : saves'[c] = {<<s, NewRow(c)>>}
    BY <1>e, <1>5, <2>1 DEF CreateInsert
  <2> QED
    BY <2>1, <2>2 DEF Posted, BeforeInsert
<1>f. CASE CreateConflict(c)
  <2>1. pc[c] = "insert" /\ saves' = saves
    BY <1>f DEF CreateConflict
  <2>2. \/ pc'[c] = "done" /\ ans'[c] = "500"
        \/ pc'[c] = "save" /\ ans' = ans
    BY <1>f, <1>2, <1>4 DEF CreateConflict, TryAgain
  <2> QED
    BY <2>1, <2>2 DEF Posted, BeforeInsert
<1>g. CASE CreateInsertFails(c)
  <2>1. pc[c] = "insert" /\ pc'[c] = "done" /\ ans'[c] = "500"
    BY <1>g, <1>4 DEF CreateInsertFails
  <2>2. \/ saves' = saves
        \/ Backend = "postgres" /\ \E s : saves'[c] = {<<s, NewRow(c)>>}
    BY <1>g, <1>5, <2>1 DEF CreateInsertFails
  <2> QED
    BY <2>1, <2>2 DEF Posted, BeforeInsert
<1>h. CASE CreateReply(c)
  <2>1. pc[c] = "created" /\ saves' = saves /\ pc'[c] = "done" /\ ans'[c] = "201"
    BY <1>h, <1>4 DEF CreateReply
  <2> QED
    BY <2>1 DEF Posted, BeforeInsert
<1> QED
  BY <1>a, <1>b, <1>c, <1>d, <1>e, <1>f, <1>g, <1>h DEF CreateStep

LEMMA AnswerStep == TypeOK /\ AnswerInv /\ [Next]_vars => AnswerInv'
<1> SUFFICES ASSUME TypeOK, AnswerInv, [Next]_vars, NEW c \in Creators PROVE Posted(c)'
  BY EachPosted
<1>1. Posted(c) /\ c \in Requests
  BY EachPosted, ClientsCreators
<1>2. CASE Untouched(c)
  BY <1>1, <1>2 DEF Untouched, Posted
<1>3. CASE Acts(c)
  BY <1>1, <1>3, PostedStep, ClientsCreators DEF Acts, Clients
<1>4. CASE Restart
  <2>1. /\ saves' = saves
        /\ pc'[c] = IF pc[c] = "idle" THEN "idle" ELSE "done"
        /\ ans'[c] = IF pc[c] \in {"idle", "done"} THEN ans[c] ELSE "lost"
    BY <1>1, <1>4 DEF Restart
  <2> QED
    BY <1>1, <2>1 DEF Posted, BeforeInsert
<1>5. CASE Cleanup \/ Tick \/ UNCHANGED vars
  BY <1>2, <1>5 DEF Cleanup, Tick, vars, Untouched
<1>6. ASSUME NEW r \in Requests, Acts(r), r # c PROVE Untouched(c)
  BY <1>1, <1>6, Isolation
<1> QED
  BY <1>2, <1>3, <1>4, <1>5, <1>6, Steps

(* A POST is answered 201 only after its paste was stored, and stored once *)
(* whatever ids it had to try; a refused one has stored nothing, nor has a *)
(* failed one with SQLite.                                                 *)
THEOREM AnswersTrue == Spec => []AnswerMatchesStore
<1>1. AnswerInv => AnswerMatchesStore
  BY DEF AnswerInv
<1> QED
  BY <1>1, AnswerInit, AnswerStep, Typing, PTL DEF Spec

-----------------------------------------------------------------------------
(* What a client's request remembers of its arrival.                       *)

(* The paste a request found when it arrived has expired or left its slug. *)
Elsewhere(q) ==
    \/ wit[q].found = NoRow \/ Expired(wit[q].found)
    \/ rows[loc[q].slug] # wit[q].found

Active(q) == pc[q] \notin {"idle", "done"}
Looked(q) == pc[q] \in {"peeked", "got", "fellback"}
Found(q)  == wit[q].found # NoRow =>
                 <<loc[q].slug, wit[q].found>> \in saves[wit[q].found.content]

(* What was read since the arrival is what was found then, or that is      *)
(* elsewhere; nothing was read only if it is.                              *)
Recall(q) ==
    Active(q) =>
        /\ wit[q].since <= now /\ loc[q].stamp <= now
        /\ Found(q)
        /\ loc[q].seen # NoRow => loc[q].seen = wit[q].found \/ Elsewhere(q)
        /\ Looked(q) /\ loc[q].seen = NoRow => Elsewhere(q)

RowsTraced == \A s \in Slugs : rows[s] # NoRow => <<s, rows[s]>> \in saves[rows[s].content]

RecallInv == RowsTraced /\ \A q \in Clients : Recall(q)

(* An INSERT, seen from the POSTs' side. *)
LEMMA Inserted ==
    ASSUME TypeOK, AnswerInv, Added
    PROVE  \E c \in Creators, s \in Slugs :
              /\ saves[c] = {} /\ rows[s] = NoRow
              /\ NewRow(c) \in Row /\ NewRow(c).content = c
              /\ rows' = [rows EXCEPT ![s] = NewRow(c)]
              /\ saves' = [saves EXCEPT ![c] = {<<s, NewRow(c)>>}]
<1>1. PICK c \in Creators, s \in Slugs : pc[c] = "insert" /\ Vacant(s) /\ Store(c, s)
  BY DEF Added
<1>2. saves[c] = {} /\ NewRow(c) \in Row
  BY <1>1, NewRowType DEF AnswerInv, StoredOnce
<1>3. NewRow(c).content = c
  BY DEF NewRow
<1>4. rows[s] = NoRow /\ rows' = [rows EXCEPT ![s] = NewRow(c)]
  BY <1>1 DEF Vacant, Store
<1>5. saves' = [saves EXCEPT ![c] = {<<s, NewRow(c)>>}]
  BY <1>1, <1>2 DEF Store
<1> QED
  BY <1>2, <1>3, <1>4, <1>5

LEMMA SavesGrow ==
    ASSUME TypeOK, AnswerInv, [Next]_vars, NEW c \in Creators
    PROVE  saves[c] \subseteq saves'[c]
<1>1. CASE UNCHANGED saves
  BY <1>1
<1>2. CASE Added
  BY <1>2, Inserted, Types
<1> QED
  BY <1>1, <1>2, Effects DEF Gone

LEMMA RowsTracedStep ==
    ASSUME TypeOK, AnswerInv, [Next]_vars, RowsTraced PROVE RowsTraced'
<1>1. CASE UNCHANGED <<rows, saves>>
  BY <1>1 DEF RowsTraced
<1>2. CASE Gone
  BY <1>2 DEF RowsTraced, Gone, Remove
<1>3. CASE Added
  <2>1. PICK c \in Creators, s \in Slugs :
              /\ saves[c] = {} /\ rows[s] = NoRow
              /\ NewRow(c) \in Row /\ NewRow(c).content = c
              /\ rows' = [rows EXCEPT ![s] = NewRow(c)]
              /\ saves' = [saves EXCEPT ![c] = {<<s, NewRow(c)>>}]
    BY <1>3, Inserted
  <2>2. ASSUME NEW u \in Slugs, rows'[u] # NoRow
        PROVE  <<u, rows'[u]>> \in saves'[rows'[u].content]
    <3>1. CASE u = s
      BY <2>1, <3>1, Types
    <3>2. CASE u # s
      <4>1. rows'[u] = rows[u] /\ rows[u].content \in Creators
            /\ <<u, rows[u]>> \in saves[rows[u].content]
        BY <2>1, <2>2, <3>2, Types DEF RowsTraced
      <4> QED
        BY <4>1, SavesGrow
    <3> QED
      BY <3>1, <3>2
  <2> QED
    BY <2>2 DEF RowsTraced
<1> QED
  BY <1>1, <1>2, <1>3, Effects

LEMMA LaterExpired ==
    ASSUME TypeOK, [Next]_vars, NEW row \in Row, Expired(row) PROVE Expired(row)'
<1>1. row.expire \in Int /\ now \in Int /\ now' \in Int /\ now <= now'
  BY Effects DEF Row
<1> QED
  BY <1>1 DEF Expired, ExpiredAt, Never

LEMMA WitnessType ==
    ASSUME TypeOK, NEW q \in Clients
    PROVE  /\ wit[q].found \in Row \cup {NoRow} /\ wit[q].since \in Int
           /\ loc[q].seen \in Row \cup {NoRow} /\ loc[q].stamp \in Int
           /\ now \in Int /\ q \in Requests /\ q \notin Creators
           /\ Active(q) => loc[q].slug \in Slugs
BY ClientsCreators DEF TypeOK, PlacesOK, ProcessOK, Local, Witness, Active

LEMMA ElsewhereStays ==
    ASSUME TypeOK, AnswerInv, [Next]_vars, NEW q \in Clients, Active(q), Found(q), Elsewhere(q),
           loc'[q].slug = loc[q].slug, wit'[q] = wit[q]
    PROVE  Elsewhere(q)'
<1> DEFINE w == wit[q].found
           s == loc[q].slug
<1>1. w \in Row \cup {NoRow} /\ s \in Slugs
  BY WitnessType
<1>2. CASE w = NoRow
  BY <1>2 DEF Elsewhere
<1>3. CASE w # NoRow /\ Expired(w)
  <2>1. Expired(w)'
    BY <1>1, <1>3, LaterExpired
  <2> QED
    BY <2>1 DEF Elsewhere, Expired
<1>4. CASE w # NoRow /\ rows[s] # w
  <2>1. rows'[s] # w
    <3>1. CASE UNCHANGED <<rows, saves>>
      BY <1>4, <3>1
    <3>2. CASE Gone
      BY <1>1, <1>4, <3>2 DEF Gone, Remove
    <3>3. CASE Added
      <4>1. PICK c \in Creators, u \in Slugs :
                 /\ saves[c] = {} /\ NewRow(c).content = c
                 /\ rows' = [rows EXCEPT ![u] = NewRow(c)]
        BY <3>3, Inserted
      <4>2. w.content # c
        BY <1>4, <4>1 DEF Found
      <4> QED
        BY <1>1, <1>4, <4>1, <4>2, Types
    <3> QED
      BY <3>1, <3>2, <3>3, Effects
  <2> QED
    BY <2>1 DEF Elsewhere
<1> QED
  BY <1>2, <1>3, <1>4 DEF Elsewhere

(* What a step does to a client's request: it ends it or was not of it,    *)
(* takes it up, reads the table, finds the row read expired, or moves it.  *)
Begun(q) ==
    /\ pc'[q] \in {"peek", "erase"} /\ loc'[q].slug \in Slugs
    /\ loc'[q].seen = NoRow /\ loc'[q].stamp = 0
    /\ wit'[q] = [found |-> rows[loc'[q].slug], since |-> now]
    /\ UNCHANGED <<rows, saves, now>>

Same(q) == Active(q) /\ loc'[q].slug = loc[q].slug /\ wit'[q] = wit[q]

Queried(q) ==
    /\ Same(q) /\ loc'[q].stamp = loc[q].stamp
    /\ loc'[q].seen = Select(loc[q].slug)
    /\ UNCHANGED <<rows, saves, now>>

Dropped(q) ==
    /\ Same(q) /\ loc'[q].stamp = loc[q].stamp
    /\ Looked(q) /\ Expired(loc[q].seen) /\ loc'[q].seen = NoRow /\ UNCHANGED now

Moved(q) ==
    /\ Same(q) /\ loc'[q].seen = loc[q].seen
    /\ loc'[q].stamp \in {loc[q].stamp, now}
    /\ pc'[q] = pc[q] \/ ~Looked(q)'

LEMMA ClientStep ==
    ASSUME TypeOK, NEW q \in Clients, Acts(q)
    PROVE  ~Active(q)' \/ Begun(q) \/ Queried(q) \/ Dropped(q) \/ Moved(q)
<1>1. /\ q \in Requests /\ q \notin Creators /\ loc[q] \in Local
      /\ DOMAIN pc = Requests /\ DOMAIN loc = Requests /\ DOMAIN wit = Requests
  BY ClientsCreators DEF TypeOK, PlacesOK
<1>2. ASSUME NEW label, Goto(q, label) PROVE pc'[q] = label
  BY <1>1, <1>2 DEF Goto
<1>3. ASSUME NEW code, Finish(q, code) PROVE ~Active(q)'
  BY <1>2, <1>3 DEF Finish, Active
<1>4. ASSUME NEW s \in Slugs, NEW label \in {"peek", "erase"}, Arrive(q, s, label)
      PROVE  Begun(q)
  <2>1. loc'[q] = [NoLocal EXCEPT !.slug = s]
    BY <1>1, <1>4 DEF Arrive
  <2>2. loc'[q].slug = s /\ loc'[q].seen = NoRow /\ loc'[q].stamp = 0
    BY <2>1 DEF NoLocal
  <2>3. wit'[q] = [found |-> rows[s], since |-> now] /\ pc'[q] = label
    BY <1>1, <1>2, <1>4 DEF Arrive
  <2> QED
    BY <1>4, <2>2, <2>3 DEF Begun, Arrive, store, process
<1>5. ASSUME NEW from, from \notin {"idle", "done"}, NEW to, Query(q, from, to)
      PROVE  Queried(q)
  <2>1. loc'[q] = [loc[q] EXCEPT !.seen = Select(loc[q].slug)]
    BY <1>1, <1>5 DEF Query
  <2> QED
    BY <1>1, <1>5, <2>1 DEF Queried, Same, Active, Query, Local, store, process
<1>6. ASSUME LazyDelete(q) PROVE Dropped(q)
  <2>1. loc'[q] = [loc[q] EXCEPT !.seen = NoRow]
    BY <1>1, <1>6 DEF LazyDelete
  <2> QED
    BY <1>1, <1>6, <2>1 DEF Dropped, Same, Active, Looked, LazyDelete, Lapsed, Local, process
<1>7. ASSUME Active(q), UNCHANGED <<loc, wit>>,
             NEW label, label \notin {"peeked", "got", "fellback"}, Goto(q, label)
      PROVE  Moved(q)
  BY <1>2, <1>7 DEF Moved, Same, Looked
<1>8. ASSUME Active(q), NEW row, Deliver(q, row) PROVE ~Active(q)' \/ Moved(q)
  BY <1>3, <1>7, <1>8 DEF Deliver
<1>9. CASE PeekMeta(q) \/ Get(q)
  BY <1>5, <1>9 DEF PeekMeta, Get
<1>10. CASE LazyDelete(q)
  BY <1>6, <1>10
<1>11. CASE FetchDecide(q)
  BY <1>7, <1>11 DEF FetchDecide, Returned, Active
<1>12. CASE FetchGot(q)
  BY <1>8, <1>12 DEF FetchGot, Returned, Active
<1>13. CASE FetchFellBack(q)
  BY <1>7, <1>8, <1>13 DEF FetchFellBack, Returned, Active
<1>14. CASE TakeStamp(q)
  <2>1. loc'[q] = [loc[q] EXCEPT !.stamp = now] /\ pc'[q] = "taking"
    BY <1>1, <1>2, <1>14 DEF TakeStamp
  <2> QED
    BY <1>1, <1>14, <2>1 DEF Moved, Same, Active, Looked, TakeStamp, Local
<1>15. CASE GetAndDelete(q)
  BY <1>8, <1>15 DEF GetAndDelete, Active
<1>16. CASE FetchFails(q)
  BY <1>7, <1>16 DEF FetchFails, Active
<1>17. CASE FetchFailed(q) \/ Decrypt(q) \/ Delete(q)
  BY <1>3, <1>17 DEF FetchFailed, Decrypt, Delete
<1>18. CASE DeleteDecide(q)
  BY <1>3, <1>7, <1>18 DEF DeleteDecide, Returned, Active
<1>19. CASE \E s \in Slugs : FetchArrive(q, s) \/ DeleteArrive(q, s)
  BY <1>4, <1>19 DEF FetchArrive, DeleteArrive
<1> QED
  BY <1>1, <1>9, <1>10, <1>11, <1>12, <1>13, <1>14, <1>15, <1>16, <1>17, <1>18, <1>19
     DEF Acts, FetchStep, DeleteStep

LEMMA ClientChange ==
    ASSUME TypeOK, NEW q \in Clients, [Next]_vars
    PROVE  ~Active(q)' \/ Begun(q) \/ Queried(q) \/ Dropped(q) \/ Moved(q)
<1>1. q \in Requests /\ DOMAIN pc = Requests
  BY ClientsCreators DEF TypeOK, PlacesOK
<1>2. CASE Acts(q)
  BY <1>2, ClientStep
<1>3. CASE Untouched(q)
  BY <1>3 DEF Untouched, Moved, Same, Active
<1>4. CASE Restart
  BY <1>1, <1>4 DEF Restart, Active
<1>5. CASE Cleanup \/ Tick \/ UNCHANGED vars
  BY <1>3, <1>5, ClientsCreators DEF Cleanup, Tick, vars, Untouched
<1> QED
  BY <1>1, <1>2, <1>3, <1>4, <1>5, Steps, Isolation

LEMMA RecallStep ==
    ASSUME TypeOK, TypeOK', AnswerInv, RowsTraced, [Next]_vars, NEW q \in Clients, Recall(q)
    PROVE  Recall(q)'
<1>1. /\ wit[q].found \in Row \cup {NoRow} /\ wit[q].since \in Int
      /\ loc[q].seen \in Row \cup {NoRow} /\ loc[q].stamp \in Int
      /\ Active(q) => loc[q].slug \in Slugs
  BY WitnessType
<1>2. now \in Int /\ now' \in Int /\ now <= now' /\ 0 <= now
  BY Effects DEF TypeOK, ProcessOK
<1>3. CASE ~Active(q)'
  BY <1>3 DEF Recall
<1>4. CASE Begun(q)
  <2>1. wit'[q].found = rows[loc'[q].slug] /\ wit'[q].since = now
    BY <1>4 DEF Begun
  <2>2. Found(q)'
    BY <1>4, <2>1 DEF Begun, Found, RowsTraced
  <2> QED
    BY <1>2, <1>4, <2>1, <2>2 DEF Begun, Recall, Looked
<1>5. ASSUME Same(q), Found(q) PROVE Found(q)'
  BY <1>1, <1>5, SavesGrow, Types DEF Same, Found
<1>6. ASSUME Same(q), Found(q), Elsewhere(q) PROVE Elsewhere(q)'
  BY <1>6, ElsewhereStays DEF Same
<1>7. CASE Queried(q)
  <2>1. Same(q) /\ Active(q) /\ Found(q) /\ loc[q].slug \in Slugs
    BY <1>1, <1>7 DEF Queried, Same, Recall
  <2>2. loc'[q].seen = wit'[q].found \/ Elsewhere(q)'
    <3>1. CASE loc'[q].seen = rows[loc[q].slug]
      BY <1>7, <2>1, <3>1 DEF Queried, Same, Elsewhere
    <3>2. CASE Expired(rows[loc[q].slug])
      BY <1>7, <2>1, <3>2 DEF Queried, Same, Elsewhere, Expired
    <3> QED
      BY <1>7, <3>1, <3>2 DEF Queried, Select
  <2>3. loc'[q].seen = NoRow => Elsewhere(q)'
    BY <2>2 DEF Elsewhere
  <2> QED
    BY <1>2, <1>5, <1>7, <2>1, <2>2, <2>3 DEF Queried, Same, Recall
<1>8. CASE Dropped(q)
  <2>1. Same(q) /\ Active(q) /\ Found(q)
    BY <1>8 DEF Dropped, Same, Recall
  <2>2. Elsewhere(q)
    BY <1>8, <2>1 DEF Dropped, Recall, Elsewhere, Expired
  <2> QED
    BY <1>2, <1>5, <1>6, <1>8, <2>1, <2>2 DEF Dropped, Same, Recall
<1>9. CASE Moved(q)
  <2>1. Same(q) /\ Active(q) /\ Found(q)
    BY <1>9 DEF Moved, Same, Recall
  <2>2. loc'[q].stamp <= now' /\ wit'[q].since <= now'
    BY <1>1, <1>2, <1>9, <2>1 DEF Moved, Same, Recall
  <2>3. loc'[q].seen # NoRow => loc'[q].seen = wit'[q].found \/ Elsewhere(q)'
    BY <1>6, <1>9, <2>1 DEF Moved, Same, Recall
  <2>4. Looked(q)' /\ loc'[q].seen = NoRow => Elsewhere(q)'
    BY <1>6, <1>9, <2>1 DEF Moved, Recall, Looked
  <2> QED
    BY <1>5, <2>1, <2>2, <2>3, <2>4 DEF Recall
<1> QED
  BY <1>3, <1>4, <1>7, <1>8, <1>9, ClientChange

LEMMA RecallInit == Init => RecallInv
<1> SUFFICES ASSUME Init PROVE RecallInv
  OBVIOUS
<1>1. \A q \in Clients : Recall(q)
  BY ClientsCreators DEF Init, Recall, Active
<1> QED
  BY <1>1 DEF Init, RecallInv, RowsTraced

LEMMA RecallNext ==
    TypeOK /\ TypeOK' /\ AnswerInv /\ RecallInv /\ [Next]_vars => RecallInv'
BY RecallStep, RowsTracedStep DEF RecallInv

-----------------------------------------------------------------------------
(* The answer 404.                                                         *)

(* Where a reader that saw no failure learns that there is no paste. *)
LEMMA NotFoundFrom ==
    ASSUME TypeOK, NEW q \in Readers, Acts(q), pc[q] # "failed",
           ans[q] # "404", ans'[q] = "404"
    PROVE  \/ Looked(q) /\ loc[q].seen = NoRow
           \/ pc[q] = "taking" /\ Takeable(q) = NoRow
<1>1. /\ q \notin Creators /\ q \notin Deleters /\ q \in Requests
      /\ DOMAIN ans = Requests
  BY ClientsCreators DEF TypeOK
<1>2. ASSUME NEW code, Finish(q, code) PROVE ans'[q] = code
  BY <1>1, <1>2 DEF Finish
<1>3. ASSUME NEW row, Deliver(q, row) PROVE row = NoRow
  BY <1>3 DEF Deliver
<1>4. ~UNCHANGED ans
  OBVIOUS
<1>5. FetchGot(q) \/ FetchFellBack(q) \/ GetAndDelete(q)
  <2>1. ~Decrypt(q)
    BY <1>2 DEF Decrypt
  <2> QED
    BY <1>1, <1>4, <2>1 DEF Acts, FetchStep, PeekMeta, Get, Query, LazyDelete, FetchDecide,
       TakeStamp, FetchFails, FetchFailed, FetchArrive, Arrive
<1>6. CASE FetchGot(q)
  BY <1>3, <1>6 DEF FetchGot, Returned, Looked
<1>7. CASE FetchFellBack(q)
  BY <1>3, <1>4, <1>7 DEF FetchFellBack, Returned, Looked
<1>8. CASE GetAndDelete(q)
  BY <1>3, <1>8 DEF GetAndDelete
<1> QED
  BY <1>5, <1>6, <1>7, <1>8

(* A row that GetAndDelete passes over is not there or has expired. *)
LEMMA NotTakeable ==
    ASSUME TypeOK, NEW q \in Clients, Recall(q), pc[q] = "taking", Takeable(q) = NoRow
    PROVE  Elsewhere(q)
<1>1. /\ loc[q].slug \in Slugs /\ rows[loc[q].slug] \in Row \cup {NoRow}
      /\ loc[q].stamp \in Int /\ now \in Int /\ loc[q].stamp <= now
  BY WitnessType, Types DEF Recall, Active
<1>2. rows[loc[q].slug] = NoRow \/ Expired(rows[loc[q].slug])
  BY <1>1 DEF Takeable, Expired, ExpiredAt, Never, Row
<1> QED
  BY <1>2 DEF Elsewhere, Expired

(* Another request's step, or one of nobody's, answers nothing to q. *)
LEMMA AnsweredBySelf ==
    ASSUME TypeOK, [Next]_vars, NEW q \in Requests, ans'[q] # ans[q], ans'[q] # "lost"
    PROVE  Acts(q)
<1>1. ~(Cleanup \/ Tick \/ UNCHANGED vars)
  BY DEF Cleanup, Tick, vars
<1>2. ~Restart
  BY DEF Restart
<1>3. \A r \in Requests : Acts(r) => r = q
  BY Isolation DEF Untouched
<1> QED
  BY <1>1, <1>2, <1>3, Steps

(* A reader whose calls all succeeded is answered 404 only if there was no *)
(* paste under the id when it arrived, or it has expired or gone since:    *)
(* PeekMeta, Get and GetAndDelete in a row lose no paste between them,     *)
(* even if ids are drawn again.                                            *)
THEOREM NoPasteMissed == Spec => NotFoundJustified
<1>1. ASSUME TypeOK, RecallInv, [Next]_vars
      PROVE  [\A r \in Readers :
                ans[r] # "404" /\ ans'[r] = "404" /\ pc[r] # "failed" =>
                   \/ wit[r].found = NoRow \/ Expired(wit[r].found)
                   \/ rows[loc[r].slug] # wit[r].found]_vars
  <2> SUFFICES ASSUME NEW q \in Readers,
                      ans[q] # "404", ans'[q] = "404", pc[q] # "failed"
               PROVE  Elsewhere(q)
    BY DEF Elsewhere
  <2>1. q \in Clients /\ q \in Requests /\ Recall(q)
    BY <1>1, ClientsCreators DEF RecallInv
  <2>2. Acts(q)
    BY <1>1, <2>1, AnsweredBySelf
  <2>3. Looked(q) => Active(q)
    BY DEF Looked, Active
  <2> QED
    BY <1>1, <2>1, <2>2, <2>3, NotFoundFrom, NotTakeable DEF Recall
<1> QED
  BY <1>1, AnswerInit, AnswerStep, RecallInit, RecallNext, Typing, PTL
     DEF Spec, NotFoundJustified

-----------------------------------------------------------------------------
(* The answer 200.                                                         *)

FreshTo(row, q) == ~ExpiredAt(row.expire, wit[q].since)

(* A row in a reader's hands had not expired when its request arrived.     *)
(* Between SELECT and decision only PostgreSQL's rows are known to be so,  *)
(* SQLite's are tested next.  Only a burn paste is about to be taken.      *)
Reading(q) ==
    /\ pc[q] \in {"take", "taking"} => loc[q].seen # NoRow /\ loc[q].seen.burn
    /\ pc[q] = "taking" => wit[q].since <= loc[q].stamp
    /\ Backend = "postgres" /\ Looked(q) /\ loc[q].seen # NoRow => FreshTo(loc[q].seen, q)
    /\ pc[q] = "decrypt" => got[q] # NoRow /\ FreshTo(got[q], q)
    /\ pc[q] \notin {"decrypt", "done"} => got[q] = NoRow

ReadingInv == \A q \in Readers : Reading(q)

LEMMA ReadingInit == Init => ReadingInv
<1> SUFFICES ASSUME Init PROVE ReadingInv
  OBVIOUS
<1>1. \A q \in Readers : pc[q] = "idle" /\ got[q] = NoRow
  BY ClientsCreators DEF Init
<1> QED
  BY <1>1 DEF ReadingInv, Reading, Looked

LEMMA FreshEarlier ==
    ASSUME TypeOK, NEW q \in Clients, NEW row \in Row, NEW clock \in Int,
           wit[q].since <= clock, ~ExpiredAt(row.expire, clock)
    PROVE  FreshTo(row, q)
<1>1. row.expire \in Int /\ wit[q].since \in Int
  BY WitnessType DEF Row
<1> QED
  BY <1>1 DEF FreshTo, ExpiredAt, Never

LEMMA ReadingStep ==
    ASSUME TypeOK, Backend \in {"sqlite", "postgres"},
           NEW q \in Readers, Recall(q), Reading(q), FetchStep(q) \/ \E s \in Slugs : FetchArrive(q, s)
    PROVE  Reading(q)'
<1>1. /\ q \in Clients /\ q \in Requests /\ loc[q] \in Local
      /\ got[q] \in Row \cup {NoRow} /\ loc[q].seen \in Row \cup {NoRow} /\ now \in Int
      /\ DOMAIN pc = Requests /\ DOMAIN loc = Requests /\ DOMAIN wit = Requests
      /\ DOMAIN got = Readers
  BY ClientsCreators, Types DEF TypeOK, PlacesOK, ProcessOK
<1>2. ASSUME NEW label, Goto(q, label) PROVE pc'[q] = label
  BY <1>1, <1>2 DEF Goto
<1>3. ASSUME NEW code, Finish(q, code) PROVE pc'[q] = "done"
  BY <1>2, <1>3 DEF Finish
<1>4. Active(q) => wit[q].since <= now /\ loc[q].slug \in Slugs
  BY <1>1, WitnessType DEF Recall
<1>5. ASSUME NEW row \in Row, NEW clock \in Int, wit[q].since <= clock,
             ~ExpiredAt(row.expire, clock)
      PROVE  FreshTo(row, q)
  BY <1>1, <1>5, FreshEarlier
(* fetchPaste returns. *)
<1>6. ASSUME NEW row \in Row \cup {NoRow}, Deliver(q, row), got[q] = NoRow,
             row # NoRow => FreshTo(row, q)
      PROVE  Reading(q)'
  <2>1. CASE row = NoRow
    BY <1>3, <1>6, <2>1 DEF Deliver, Reading, Looked
  <2>2. CASE row # NoRow
    <3>1. pc'[q] = "decrypt" /\ got'[q] = row /\ wit'[q] = wit[q]
      BY <1>1, <1>2, <1>6, <2>2 DEF Deliver
    <3> QED
      BY <1>6, <2>2, <3>1 DEF Reading, Looked, FreshTo
  <2> QED
    BY <2>1, <2>2
<1>7. ASSUME NEW label, Goto(q, label), UNCHANGED got, got[q] = NoRow,
             label \notin {"taking", "decrypt", "peeked", "got", "fellback"},
             label = "take" =>
                loc'[q] = loc[q] /\ loc[q].seen # NoRow /\ loc[q].seen.burn
      PROVE  Reading(q)'
  BY <1>2, <1>7 DEF Reading, Looked
<1>8. ASSUME NEW from, from \notin {"idle", "decrypt", "done"}, Query(q, from, "peeked")
                \/ Query(q, from, "got") \/ Query(q, from, "fellback")
      PROVE  Reading(q)'
  <2>1. /\ loc'[q] = [loc[q] EXCEPT !.seen = Select(loc[q].slug)]
        /\ wit'[q] = wit[q] /\ got'[q] = got[q]
    BY <1>1, <1>8 DEF Query
  <2>2. loc'[q].seen = Select(loc[q].slug) /\ Active(q) /\ got[q] = NoRow
    BY <1>1, <1>8, <2>1 DEF Local, Query, Active, Reading
  <2>3. pc'[q] \in {"peeked", "got", "fellback"}
    BY <1>2, <1>8 DEF Query
  <2>4. rows[loc[q].slug] \in Row \cup {NoRow}
    BY <1>4, <2>2, Types
  <2>5. Backend = "postgres" /\ loc'[q].seen # NoRow => FreshTo(loc'[q].seen, q)
    BY <1>1, <1>4, <1>5, <2>2, <2>4 DEF Select, Expired
  <2> QED
    BY <2>1, <2>2, <2>3, <2>5 DEF Reading, FreshTo
<1>9. ASSUME Looked(q), ~Lapsed(q), loc[q].seen # NoRow PROVE FreshTo(loc[q].seen, q)
  BY <1>1, <1>4, <1>5, <1>9 DEF Lapsed, Expired, Reading, Looked, Active
<1>10. CASE PeekMeta(q) \/ Get(q)
  BY <1>8, <1>10 DEF PeekMeta, Get
<1>11. CASE LazyDelete(q)
  <2>1. loc'[q] = [loc[q] EXCEPT !.seen = NoRow]
    BY <1>1, <1>11 DEF LazyDelete
  <2>2. loc'[q].seen = NoRow
    BY <1>1, <2>1 DEF Local
  <2> QED
    BY <1>11, <2>2 DEF LazyDelete, Reading, Looked
<1>12. CASE FetchDecide(q)
  BY <1>7, <1>12 DEF FetchDecide, Returned, Reading
<1>13. CASE FetchGot(q)
  BY <1>1, <1>6, <1>9, <1>13 DEF FetchGot, Returned, Reading, Looked
<1>14. CASE FetchFellBack(q)
  BY <1>1, <1>6, <1>7, <1>9, <1>14 DEF FetchFellBack, Returned, Reading, Looked
<1>15. CASE TakeStamp(q)
  <2>1. /\ loc'[q] = [loc[q] EXCEPT !.stamp = now] /\ pc'[q] = "taking"
        /\ wit'[q] = wit[q] /\ got'[q] = got[q]
    BY <1>1, <1>2, <1>15 DEF TakeStamp
  <2> QED
    BY <1>1, <1>4, <1>15, <2>1 DEF TakeStamp, Reading, Looked, Active, Local
<1>16. CASE GetAndDelete(q)
  <2>1. Takeable(q) \in Row \cup {NoRow}
    BY <1>4, <1>16, Types DEF Takeable, GetAndDelete, Active
  <2>2. Takeable(q) # NoRow => FreshTo(Takeable(q), q)
    <3> SUFFICES ASSUME Takeable(q) # NoRow PROVE FreshTo(Takeable(q), q)
      OBVIOUS
    <3>1. Takeable(q) \in Row
      BY <2>1
    <3>2. CASE Backend = "sqlite"
      <4>1. ~ExpiredAt(Takeable(q).expire, loc[q].stamp) /\ loc[q].stamp \in Int
        BY <1>1, <3>2, WitnessType DEF Takeable
      <4>2. wit[q].since <= loc[q].stamp
        BY <1>16 DEF Reading, GetAndDelete
      <4> QED
        BY <1>5, <3>1, <4>1, <4>2
    <3>3. CASE Backend = "postgres"
      <4>1. ~ExpiredAt(Takeable(q).expire, now)
        BY <3>3 DEF Takeable
      <4>2. wit[q].since <= now
        BY <1>4, <1>16 DEF GetAndDelete, Active
      <4> QED
        BY <1>1, <1>5, <3>1, <4>1, <4>2
    <3> QED
      BY <3>2, <3>3
  <2> QED
    BY <1>6, <1>16, <2>1, <2>2 DEF GetAndDelete, Reading
<1>17. CASE FetchFails(q)
  BY <1>7, <1>17 DEF FetchFails, Reading
<1>18. CASE FetchFailed(q) \/ Decrypt(q)
  BY <1>3, <1>18 DEF FetchFailed, Decrypt, Reading, Looked
<1>19. CASE \E s \in Slugs : FetchArrive(q, s)
  BY <1>7, <1>19 DEF FetchArrive, Arrive, Reading
<1> QED
  BY <1>10, <1>11, <1>12, <1>13, <1>14, <1>15, <1>16, <1>17, <1>18, <1>19 DEF FetchStep

LEMMA ReadingNext ==
    ASSUME Backend \in {"sqlite", "postgres"}
    PROVE  TypeOK /\ RecallInv /\ ReadingInv /\ [Next]_vars => ReadingInv'
<1> SUFFICES ASSUME TypeOK, RecallInv, ReadingInv, [Next]_vars, NEW q \in Readers
             PROVE  Reading(q)'
  BY DEF ReadingInv
<1>1. Reading(q) /\ Recall(q) /\ q \in Requests /\ q \notin Creators /\ q \notin Deleters
  BY ClientsCreators DEF ReadingInv, RecallInv
<1>2. CASE Acts(q)
  BY <1>1, <1>2, ReadingStep DEF Acts
<1>3. CASE Untouched(q)
  BY <1>1, <1>3 DEF Untouched, Reading, Looked, FreshTo
<1>4. CASE Restart
  BY <1>1, <1>4 DEF Restart, Reading, Looked
<1>5. CASE Cleanup \/ Tick \/ UNCHANGED vars
  BY <1>1, <1>3, <1>5 DEF Cleanup, Tick, vars, Untouched
<1> QED
  BY <1>1, <1>2, <1>3, <1>4, <1>5, Steps, Isolation

(* No paste goes out to a request that arrived when it had expired, though *)
(* SQLite's expiry tests and GetAndDelete's clock are of different moments *)
(* and PostgreSQL uses its own clock in each statement.                    *)
THEOREM NoneServedLate ==
    ASSUME Backend \in {"sqlite", "postgres"} PROVE Spec => ServedWasLive
<1>1. ASSUME TypeOK, ReadingInv, [Next]_vars
      PROVE  [\A r \in Readers :
                ans[r] # "200" /\ ans'[r] = "200" =>
                   ~ExpiredAt(got[r].expire, wit[r].since)]_vars
  <2> SUFFICES ASSUME NEW q \in Readers, ans[q] # "200", ans'[q] = "200"
               PROVE  FreshTo(got[q], q)
    BY DEF FreshTo
  <2>1. /\ q \in Requests /\ q \notin Creators /\ q \notin Deleters
        /\ DOMAIN ans = Requests
    BY <1>1, ClientsCreators DEF TypeOK
  <2>2. Acts(q)
    BY <1>1, <2>1, AnsweredBySelf
  <2>3. ASSUME NEW code, Finish(q, code) PROVE ans'[q] = code
    BY <2>1, <2>3 DEF Finish
  <2>4. Decrypt(q)
    BY <2>1, <2>2, <2>3 DEF Acts, FetchStep, PeekMeta, Get, Query, LazyDelete, FetchDecide,
       FetchGot, FetchFellBack, Deliver, TakeStamp, GetAndDelete, FetchFails, FetchFailed,
       FetchArrive, Arrive
  <2> QED
    BY <1>1, <2>4 DEF Decrypt, ReadingInv, Reading
<1> QED
  BY <1>1, AnswerInit, AnswerStep, RecallInit, RecallNext, ReadingInit, ReadingNext, Typing,
     PTL DEF Spec, ServedWasLive

-----------------------------------------------------------------------------
(* What leaves the table.                                                  *)

(* As long as no slug is drawn twice, a request that has read a row of a   *)
(* slug has read the row the table holds there, if it holds one.           *)
LEMMA SeenIsThere ==
    ASSUME BurnInv, NEW q \in Clients, loc[q].seen # NoRow, rows[loc[q].slug] # NoRow,
           loc[q].slug \in Slugs
    PROVE  loc[q].seen = rows[loc[q].slug]
<1> DEFINE s == loc[q].slug
<1>1. loc[q].seen.content \in Creators /\ rows[s].content \in Creators
  BY Types DEF BurnInv
<1>2. /\ <<s, loc[q].seen>> \in saves[loc[q].seen.content]
      /\ <<s, rows[s]>> \in saves[rows[s].content]
  BY DEF BurnInv, Traced
<1> QED
  BY <1>1, <1>2 DEF BurnInv, SlugOnce

(* The ways a client's request takes a row out of the table. *)
LEMMA ClientRemoval ==
    ASSUME BurnInv, ReadingInv, NEW q \in Clients, Acts(q),
           NEW s \in Slugs, rows[s] # NoRow, rows'[s] # rows[s]
    PROVE  /\ loc[q].slug = s /\ rows'[s] = NoRow
           /\ \/ Expired(rows[s])
              \/ q \in Deleters /\ pc[q] = "erase"
              \/ /\ q \in Readers /\ pc[q] = "taking" /\ rows[s].burn
                 /\ Backend = "postgres" \/ (got[q] = NoRow /\ got'[q] = rows[s])
<1>1. /\ TypeOK /\ q \notin Creators /\ q \in Requests
      /\ q \in Readers => q \notin Deleters
      /\ DOMAIN got = Readers
      /\ pc[q] \notin {"idle", "done"} => loc[q].slug \in Slugs
  BY ClientsCreators DEF BurnInv, TypeOK, PlacesOK
<1>2. ASSUME Remove({loc[q].slug}) PROVE loc[q].slug = s /\ rows'[s] = NoRow
  BY <1>2 DEF Remove
<1>3. \/ LazyDelete(q) /\ Remove({loc[q].slug})
      \/ q \in Readers /\ (GetAndDelete(q) \/ FetchFails(q)) /\ Remove({loc[q].slug})
      \/ q \in Deleters /\ Delete(q) /\ Remove({loc[q].slug})
  BY <1>1 DEF Acts, FetchStep, DeleteStep, FetchArrive, DeleteArrive, Arrive, PeekMeta, Get,
     Query, LazyDelete, FetchDecide, FetchGot, FetchFellBack, TakeStamp, GetAndDelete,
     TakeRow, FetchFails, FetchFailed, Decrypt, DeleteDecide, Delete, store
<1>4. CASE LazyDelete(q) /\ Remove({loc[q].slug})
  <2>1. loc[q].seen # NoRow /\ Expired(loc[q].seen)
    BY <1>4 DEF LazyDelete, Lapsed, Expired
  <2> QED
    BY <1>2, <1>4, <2>1, SeenIsThere
<1>5. CASE q \in Readers /\ (GetAndDelete(q) \/ FetchFails(q)) /\ Remove({loc[q].slug})
  <2>1. loc[q].slug = s /\ rows'[s] = NoRow
    BY <1>2, <1>5
  <2>2. pc[q] = "taking"
    BY <1>5, <2>1 DEF GetAndDelete, FetchFails, store
  <2>3. rows[s].burn
    BY <1>5, <2>1, <2>2, SeenIsThere DEF ReadingInv, Reading
  <2>4. CASE FetchFails(q)
    <3>1. Backend = "postgres"
      BY <2>1, <2>4 DEF FetchFails, store
    <3> QED
      BY <1>5, <2>1, <2>2, <2>3, <3>1
  <2>5. CASE GetAndDelete(q)
    <3>1. got[q] = NoRow
      BY <1>5, <2>2 DEF ReadingInv, Reading
    <3>2. Takeable(q) # NoRow
      BY <2>1, <2>5 DEF GetAndDelete, TakeRow, store
    <3>3. Takeable(q) = rows[s]
      BY <2>1, <3>2 DEF Takeable
    <3>4. got'[q] = rows[s]
      BY <1>1, <1>5, <2>5, <3>3 DEF GetAndDelete, Deliver
    <3> QED
      BY <1>5, <2>1, <2>2, <2>3, <3>1, <3>4
  <2> QED
    BY <1>5, <2>4, <2>5
<1>6. CASE q \in Deleters /\ Delete(q) /\ Remove({loc[q].slug})
  BY <1>2, <1>6 DEF Delete
<1> QED
  BY <1>3, <1>4, <1>5, <1>6

(* The ways any step does. *)
LEMMA RemovedBy ==
    ASSUME BurnInv, ReadingInv, [Next]_vars, NEW s \in Slugs, rows[s] # NoRow, rows'[s] # rows[s]
    PROVE  /\ rows'[s] = NoRow
           /\ \/ Expired(rows[s])
              \/ \E d \in Deleters : pc[d] = "erase" /\ loc[d].slug = s /\ Acts(d)
              \/ /\ rows[s].burn
                 /\ \E r \in Readers :
                       /\ loc[r].slug = s /\ pc[r] = "taking"
                       /\ Backend = "postgres" \/ (got[r] = NoRow /\ got'[r] = rows[s])
<1>1. TypeOK
  BY DEF BurnInv
<1>2. CASE Cleanup
  <2>1. rows'[s] = NoRow /\ Outdated(s)
    BY <1>2 DEF Cleanup, Remove
  <2>2. rows[s].expire \in Int /\ now \in Int
    BY <1>1, Types DEF TypeOK, ProcessOK, Row
  <2> QED
    BY <2>1, <2>2 DEF Outdated, Expired, ExpiredAt, Never
<1>3. CASE Tick \/ Restart \/ UNCHANGED vars
  BY <1>3 DEF Tick, Restart, vars, store
<1>4. ASSUME NEW c \in Creators, Acts(c) PROVE FALSE
  <2>1. CreateArrive(c) \/ CreateStep(c)
    BY <1>4, ClientsCreators DEF Acts, Clients
  <2>2. \E u \in Slugs : Vacant(u) /\ Store(c, u)
    BY <2>1 DEF CreateArrive, CreateStep, CreateGate, CreateEncode, CreateStamp, CreateInsert,
       CreateConflict, CreateInsertFails, CreateReply, store
  <2> QED
    BY <1>1, <2>2, Types DEF Vacant, Store
<1>5. ASSUME NEW q \in Clients, Acts(q)
      PROVE  /\ rows'[s] = NoRow
             /\ \/ Expired(rows[s])
                \/ \E d \in Deleters : pc[d] = "erase" /\ loc[d].slug = s /\ Acts(d)
                \/ /\ rows[s].burn
                   /\ \E r \in Readers :
                         /\ loc[r].slug = s /\ pc[r] = "taking"
                         /\ Backend = "postgres" \/ (got[r] = NoRow /\ got'[r] = rows[s])
  BY <1>5, ClientRemoval
<1> QED
  BY <1>1, <1>2, <1>3, <1>4, <1>5, Steps DEF Requests, Clients

(* With SQLite, and as long as no id is drawn twice, a row is never        *)
(* overwritten and leaves the table only expired, handed to a reader in    *)
(* that very step, or by a DELETE for its id: in particular the DELETE     *)
(* that follows an expired SELECT, which names the id only, hits no other  *)
(* paste.                                                                  *)
THEOREM RemovalJustified ==
    ASSUME ~Reuse, Backend = "sqlite" PROVE Spec => JustifiedRemoval
<1>1. ASSUME BurnInv, ReadingInv, [Next]_vars
      PROVE  [\A s \in Slugs :
                rows[s] # NoRow /\ rows'[s] # rows[s] =>
                   /\ rows'[s] = NoRow
                   /\ \/ Expired(rows[s])
                      \/ rows[s].burn /\ \E r \in Readers : got[r] = NoRow /\ got'[r] = rows[s]
                      \/ \E d \in Deleters : pc[d] = "erase" /\ loc[d].slug = s]_vars
  BY <1>1, RemovedBy
<1>2. Backend \in {"sqlite", "postgres"}
  OBVIOUS
<1>3. TypeOK /\ RecallInv /\ ReadingInv /\ [Next]_vars => ReadingInv'
  BY <1>2, ReadingNext
<1> QED
  BY <1>1, <1>3, BurnInOnePlace, AnswerInit, AnswerStep, RecallInit, RecallNext,
     ReadingInit, Typing, PTL DEF Spec, JustifiedRemoval

(* What DeleteDecide lets pass.  The metadata it read show no protected    *)
(* paste, so the protected paste found on arrival is elsewhere by then.    *)
Erasing(d) ==
    pc[d] = "erase" /\ wit[d].found # NoRow /\ wit[d].found.prot => Elsewhere(d)
ErasingInv == \A d \in Deleters : Erasing(d)

LEMMA ErasingStep ==
    ASSUME \A k \in Configs : k.protect,
           TypeOK, AnswerInv, [Next]_vars, NEW d \in Deleters, Recall(d), Erasing(d), Acts(d)
    PROVE  Erasing(d)'
<1>1. /\ d \in Clients /\ d \in Requests /\ d \notin Creators /\ d \notin Readers
      /\ DOMAIN pc = Requests
  BY ClientsCreators DEF TypeOK, PlacesOK
<1>2. ASSUME NEW label, Goto(d, label) PROVE pc'[d] = label
  BY <1>1, <1>2 DEF Goto
<1>3. ASSUME NEW code, Finish(d, code) PROVE Erasing(d)'
  BY <1>2, <1>3 DEF Finish, Erasing
<1>4. CASE PeekMeta(d)
  BY <1>2, <1>4 DEF PeekMeta, Query, Erasing
<1>5. CASE LazyDelete(d)
  BY <1>5 DEF LazyDelete, Erasing
<1>6. CASE DeleteDecide(d)
  <2>1. CASE pc[d] = "peeked" /\ ~Forbids(d) /\ Goto(d, "erase") /\ UNCHANGED <<loc, wit>>
    <3>1. Active(d) /\ Looked(d) /\ Found(d)
      BY <2>1 DEF Active, Looked, Recall
    <3>2. loc[d].seen = wit[d].found \/ Elsewhere(d)
      BY <3>1 DEF Recall
    <3>3. Elsewhere(d) => Elsewhere(d)'
      BY <1>1, <2>1, <3>1, ElsewhereStays
    <3> QED
      BY <2>1, <3>2, <3>3 DEF Forbids, Erasing, Elsewhere
  <2> QED
    BY <1>3, <1>6, <2>1 DEF DeleteDecide, Returned
<1>7. CASE Delete(d)
  BY <1>3, <1>7 DEF Delete
<1>8. CASE \E s \in Slugs : DeleteArrive(d, s)
  <2>1. cfg.protect
    BY DEF TypeOK, ProcessOK
  <2> QED
    BY <1>2, <1>8, <2>1 DEF DeleteArrive, Arrive, Erasing
<1> QED
  BY <1>1, <1>4, <1>5, <1>6, <1>7, <1>8 DEF Acts, DeleteStep

LEMMA ErasingNext ==
    ASSUME \A k \in Configs : k.protect
    PROVE  TypeOK /\ AnswerInv /\ RecallInv /\ ErasingInv /\ [Next]_vars => ErasingInv'
<1> SUFFICES ASSUME TypeOK, AnswerInv, RecallInv, ErasingInv, [Next]_vars, NEW d \in Deleters
             PROVE  Erasing(d)'
  BY DEF ErasingInv
<1>1. Erasing(d) /\ Recall(d) /\ d \in Clients /\ d \in Requests
  BY ClientsCreators DEF ErasingInv, RecallInv
<1>2. CASE Acts(d)
  BY <1>1, <1>2, ErasingStep
<1>3. CASE Untouched(d)
  <2>1. ASSUME pc[d] = "erase" PROVE Active(d) /\ Found(d)
    BY <1>1, <2>1 DEF Active, Recall
  <2>2. pc[d] = "erase" /\ Elsewhere(d) => Elsewhere(d)'
    BY <1>1, <1>3, <2>1, ElsewhereStays DEF Untouched
  <2> QED
    BY <1>1, <1>3, <2>2 DEF Untouched, Erasing
<1>4. CASE Restart
  BY <1>1, <1>4 DEF Restart, Erasing
<1>5. CASE Cleanup \/ Tick \/ UNCHANGED vars
  BY <1>1, <1>3, <1>5, ClientsCreators DEF Cleanup, Tick, vars, Untouched
<1> QED
  BY <1>1, <1>2, <1>3, <1>4, <1>5, Steps, Isolation

(* As long as protection is never switched off and no id is drawn twice, a *)
(* protected paste goes by its expiry, by being burned, or by a DELETE     *)
(* that did not find it when it arrived: no DELETE sent for the paste gets *)
(* past the check, whatever comes between the check and the deletion.      *)
THEOREM ProtectionHolds ==
    ASSUME ~Reuse, Backend \in {"sqlite", "postgres"}, \A k \in Configs : k.protect
    PROVE  Spec => ProtectedOutlives
<1>1. ASSUME BurnInv, ReadingInv, ErasingInv, [Next]_vars
      PROVE  [\A s \in Slugs :
                rows[s] # NoRow /\ rows[s].prot /\ rows'[s] # rows[s] =>
                   \/ Expired(rows[s])
                   \/ rows[s].burn /\ \E r \in Readers : loc[r].slug = s /\ pc[r] = "taking"
                   \/ \E d \in Deleters : /\ pc[d] = "erase" /\ loc[d].slug = s
                                          /\ wit[d].found # rows[s]]_vars
  <2> SUFFICES ASSUME NEW s \in Slugs, rows[s] # NoRow, rows[s].prot, rows'[s] # rows[s],
                      NEW d \in Deleters, pc[d] = "erase", loc[d].slug = s,
                      wit[d].found = rows[s]
               PROVE  Expired(rows[s])
    BY <1>1, RemovedBy
  <2> QED
    BY <1>1 DEF ErasingInv, Erasing, Elsewhere
<1>2. Init => ErasingInv
  BY ClientsCreators DEF Init, ErasingInv, Erasing
<1>3. TypeOK /\ RecallInv /\ ReadingInv /\ [Next]_vars => ReadingInv'
  BY ReadingNext
<1>4. TypeOK /\ AnswerInv /\ RecallInv /\ ErasingInv /\ [Next]_vars => ErasingInv'
  BY ErasingNext
<1> QED
  BY <1>1, <1>2, <1>3, <1>4, BurnInOnePlace, AnswerInit, AnswerStep, RecallInit, RecallNext,
     ReadingInit, Typing, PTL DEF Spec, ProtectedOutlives

-----------------------------------------------------------------------------
(* The SQL backends implement PasteStore.                                  *)

(* A reader is given its paste by Get's row, the table being left alone,   *)
(* or by GetAndDelete.                                                     *)
LEMMA GivenBy ==
    ASSUME TypeOK, [Next]_vars, NEW r \in Readers, got'[r] # got[r]
    PROVE  (pc[r] \in {"got", "fellback"} /\ UNCHANGED rows) \/ pc[r] = "taking"
<1>1. r \in Requests /\ r \notin Creators /\ r \notin Deleters
  BY ClientsCreators
<1>2. ~Untouched(r) /\ ~UNCHANGED got
  BY DEF Untouched
<1>3. Acts(r)
  <2>1. ~(Cleanup \/ Tick \/ Restart \/ UNCHANGED vars)
    BY <1>2 DEF Cleanup, Tick, Restart, vars
  <2> QED
    BY <1>1, <1>2, <2>1, Steps, Isolation
<1>4. FetchGot(r) \/ FetchFellBack(r) \/ GetAndDelete(r)
  BY <1>1, <1>2, <1>3 DEF Acts, FetchStep, PeekMeta, Get, Query, LazyDelete, FetchDecide,
     TakeStamp, FetchFails, FetchFailed, Decrypt, FetchArrive, Arrive
<1> QED
  BY <1>4 DEF FetchGot, FetchFellBack, GetAndDelete, Returned, store

LEMMA KeepingStep ==
    ASSUME ~Reuse, BurnInv, ReadingInv, [Next]_vars
    PROVE  Promise!Next \/ UNCHANGED <<StatusOf, BurningOf, HandedTo>>
<1>1. /\ TypeOK /\ StoredOnce /\ Traced /\ GetSparesBurn
      /\ DOMAIN saves = Creators /\ DOMAIN got = Readers
  BY DEF BurnInv, TypeOK
<1>2. CASE Quiet
  BY <1>2, StutterMaps DEF Quiet, store
<1>3. CASE Removal
  BY <1>3, VanishMaps DEF Removal, Remove
<1>4. ASSUME NEW c \in Creators, NEW s \in Slugs, Insertion(c, s) PROVE Promise!Next
  <2>1. saves[c] = {} /\ rows[s] = NoRow /\ Store(c, s) /\ UNCHANGED got
    BY <1>1, <1>4 DEF Insertion, StoredOnce, Vacant
  <2>2. PICK row : row = NewRow(c)
    OBVIOUS
  <2>3. row.content = c /\ row # NoRow
    <3>1. NewRow(c) \in Row
      BY <1>1, <1>4, NewRowType DEF Insertion
    <3> QED
      BY <2>2, <3>1, Absent DEF NewRow
  <2>4. /\ rows' = [rows EXCEPT ![s] = row]
        /\ saves' = [saves EXCEPT ![c] = {<<s, row>>}]
    BY <1>1, <2>1, <2>2 DEF Store
  <2>5. rows'[s] = row /\ \A u \in Slugs : u # s => rows'[u] = rows[u]
    BY <1>1, <2>4, Types
  <2> QED
    BY <1>1, <2>1, <2>3, <2>4, <2>5, SaveMaps
<1>5. ASSUME NEW r \in Clients, Looks(r)
      PROVE  UNCHANGED <<StatusOf, BurningOf, HandedTo>>
  BY <1>5, StutterMaps DEF Looks, store
<1>6. ASSUME NEW r \in Readers, got'[r] # got[r]
      PROVE  got[r] = NoRow
  BY <1>1, <1>6, GivenBy DEF ReadingInv, Reading
<1>7. ASSUME NEW r \in Readers, Serve(r)
      PROVE  Promise!Next \/ UNCHANGED <<StatusOf, BurningOf, HandedTo>>
  <2>1. PICK row : row = loc[r].seen
    OBVIOUS
  <2>2. /\ row # NoRow /\ ~row.burn /\ got' = [got EXCEPT ![r] = row]
        /\ UNCHANGED <<rows, saves>>
    BY <1>7, <2>1 DEF Serve, store
  <2>3. row.content \in Creators /\ <<loc[r].slug, row>> \in saves[row.content]
    BY <1>1, <2>1, <2>2, Types DEF Traced
  <2>4. \A p \in saves[row.content] : ~p[2].burn
    BY <1>1, <2>2, <2>3 DEF StoredOnce
  <2>5. CASE got[r] = NoRow
    BY <1>1, <2>2, <2>3, <2>4, <2>5, ReadMaps
  <2>6. CASE got[r] # NoRow
    <3>1. got'[r] = row /\ got'[r] = got[r]
      BY <1>1, <1>6, <2>2, <2>6
    <3>2. got' = got
      BY <1>1, <2>2, <3>1, Types
    <3> QED
      BY <2>2, <3>2, StutterMaps
  <2> QED
    BY <2>5, <2>6
<1>8. ASSUME NEW r \in Readers, Take(r) PROVE Promise!Next
  <2>1. PICK s : s = loc[r].slug
    OBVIOUS
  <2>2. /\ s \in Slugs /\ rows[s] # NoRow /\ UNCHANGED saves
        /\ got' = [got EXCEPT ![r] = rows[s]]
        /\ rows'[s] = NoRow /\ \A u \in Slugs : u # s => rows'[u] = rows[u]
    BY <1>8, <2>1 DEF Take, Remove
  <2>3. rows[s].content \in Creators /\ <<s, rows[s]>> \in saves[rows[s].content]
    BY <1>1, <2>2, Types DEF Traced
  <2>4. \A u \in Slugs : rows[u] # NoRow /\ rows[u].content = rows[s].content => u = s
    BY <1>1, <2>2, OnePlace
  <2>5. CASE got'[r] = got[r]
    <3>1. got' = got
      BY <1>1, <2>2, <2>5, Types
    <3> QED
      BY <2>2, <3>1, VanishMaps
  <2>6. CASE got'[r] # got[r]
    <3>1. pc[r] = "taking"
      BY <1>1, <2>2, <2>6, GivenBy
    <3>2. loc[r].seen # NoRow /\ loc[r].seen.burn
      BY <3>1 DEF ReadingInv, Reading
    <3>3. loc[r].seen = rows[s]
      BY <2>1, <2>2, <3>2, SeenIsThere, Types DEF BurnInv
    <3>4. \E p \in saves[rows[s].content] : p[2].burn
      BY <2>3, <3>2, <3>3
    <3>5. got[r] = NoRow
      BY <1>6, <2>6
    <3> QED
      BY <1>1, <2>2, <2>3, <2>4, <3>4, <3>5, BurnMaps
  <2> QED
    BY <2>5, <2>6
<1> QED
  BY <1>1, <1>2, <1>3, <1>4, <1>5, <1>7, <1>8, StepShape DEF Shape

(* With both SQL backends, and as long as no id is drawn twice, a paste is *)
(* saved once, does not come back, and is handed to any number of readers  *)
(* or, if it is to be burned, to one, by the step that removes it.         *)
THEOREM PromiseKept ==
    ASSUME ~Reuse, Backend \in {"sqlite", "postgres"} PROVE Spec => KeepsPromise
<1>1. BurnInv /\ ReadingInv /\ [Next]_vars =>
          [Promise!Next]_<<[c \in Creators |-> Status(c)],
                           {c \in Creators : \E p \in saves[c] : p[2].burn},
                           [c \in Creators |-> ReadersOf(c)]>>
  BY KeepingStep DEF StatusOf, BurningOf, HandedTo
<1>2. TypeOK /\ RecallInv /\ ReadingInv /\ [Next]_vars => ReadingInv'
  BY ReadingNext
<1> QED
  BY <1>1, <1>2, PromiseInit, BurnInOnePlace, AnswerInit, AnswerStep, RecallInit, RecallNext,
     ReadingInit, Typing, PTL DEF Spec, KeepsPromise, Promise!Spec
-----------------------------------------------------------------------------
(* Progress.                                                               *)

LEMMA LazyLowers ==
    ASSUME TypeOK, TypeOK', NEW r \in Clients, LazyDelete(r)
    PROVE  Lowers(r)
<1>1. r \in Requests /\ pc[r] \in {"peeked", "got", "fellback"} /\ loc[r].seen # NoRow
  BY DEF Clients, Requests, LazyDelete, Lapsed, Expired
<1>2. pc'[r] = pc[r] /\ loc'[r].seen = NoRow
  BY <1>1 DEF LazyDelete, TypeOK, PlacesOK, Local
<1>3. \/ StepsLeft(r) = 7 /\ LeftAt(pc'[r], loc'[r]) = 6
      \/ StepsLeft(r) = 2 /\ LeftAt(pc'[r], loc'[r]) = 1
      \/ StepsLeft(r) = 4 /\ LeftAt(pc'[r], loc'[r]) = 1
  BY <1>1, <1>2, Lowering, LeftAtIs DEF StepsLeft
<1> QED
  BY <1>1, <1>3, Lowering DEF Lowers

LEMMA ActsLower ==
    ASSUME TypeOK, TypeOK', NEW r \in Requests, Acts(r)
    PROVE  Lowers(r)
<1>1. ASSUME r \in Creators, CreateArrive(r) \/ CreateStep(r)
      PROVE  Lowers(r)
  <2>1. CASE CreateArrive(r) \/ CreateGate(r) \/ CreateEncode(r) \/ CreateReply(r)
    BY <1>1, <2>1, PostLowers
  <2>2. CASE CreateStamp(r)
    <3>1. CASE Release(r, "500")
      BY <2>2, <3>1, Lowering DEF CreateStamp, Release
    <3>2. CASE loc' = [loc EXCEPT ![r].stamp = now] /\ Goto(r, "insert")
      <4>1. loc'[r].tries = loc[r].tries
        BY <3>2 DEF TypeOK, PlacesOK, Local
      <4> QED
        BY <1>1, <2>2, <3>2, <4>1, SaveLowers DEF CreateStamp
    <3> QED
      BY <2>2, <3>1, <3>2 DEF CreateStamp
  <2>3. CASE CreateInsert(r)
    BY <1>1, <2>3, SaveLowers DEF CreateInsert
  <2>4. CASE CreateConflict(r)
    BY <1>1, <2>4, TryLowers DEF CreateConflict
  <2>5. CASE CreateInsertFails(r)
    BY <2>5, Lowering DEF CreateInsertFails, Release
  <2> QED
    BY <1>1, <2>1, <2>2, <2>3, <2>4, <2>5 DEF CreateStep
<1>2. ASSUME r \in Clients,
             \/ \E s \in Slugs : FetchArrive(r, s) \/ DeleteArrive(r, s)
             \/ r \in Readers /\ FetchStep(r)
             \/ DeleteStep(r)
      PROVE  Lowers(r)
  <2>1. CASE \E s \in Slugs : FetchArrive(r, s) \/ DeleteArrive(r, s)
    BY <1>2, <2>1, ClientLowers DEF FetchArrive, DeleteArrive
  <2>2. CASE PeekMeta(r) \/ Get(r)
    BY <1>2, <2>2, LookLowers DEF PeekMeta, Get, Query
  <2>3. CASE LazyDelete(r)
    BY <1>2, <2>3, LazyLowers
  <2>4. CASE \/ FetchDecide(r) \/ FetchGot(r) \/ FetchFellBack(r) \/ TakeStamp(r)
             \/ FetchFailed(r) \/ Decrypt(r) \/ DeleteDecide(r)
    BY <1>2, <2>4, ClientLowers
  <2>5. CASE GetAndDelete(r)
    BY <2>5, DeliverLowers DEF GetAndDelete
  <2>6. CASE FetchFails(r)
    BY <2>6, GoesLower DEF FetchFails
  <2>7. CASE Delete(r)
    BY <2>7, Lowering DEF Delete
  <2> QED
    BY <1>2, <2>1, <2>2, <2>3, <2>4, <2>5, <2>6, <2>7 DEF FetchStep, DeleteStep
<1> QED
  BY <1>1, <1>2 DEF Acts, Clients

Nearer ==
    \A r \in Requests : /\ StepsLeft(r)' <= StepsLeft(r)
                       /\ Acts(r) => StepsLeft(r)' < StepsLeft(r)

(* FewSteps: a handler is at most ten steps from its answer, each step it  *)
(* makes brings it nearer and no step of another request, of the cleanup   *)
(* or of the clock takes it further away, whatever conflicts, errors and   *)
(* restarts come.  This is why Answered needs no fairness but that started *)
(* handlers go on.                                                         *)
THEOREM FewSteps == Spec => []FewLeft /\ [][Nearer]_vars
<1>1. ASSUME TypeOK, TypeOK', [Next]_vars, NEW r \in Requests
      PROVE  StepsLeft(r)' <= StepsLeft(r)
  <2>1. CASE Acts(r)
    <3>1. StepsLeft(r)' < StepsLeft(r) /\ StepsLeft(r) \in Int /\ StepsLeft(r)' \in Int
      BY <1>1, <2>1, ActsLower, Lowering, LeftBounds DEF Lowers, StepsLeft
    <3> QED
      BY <3>1
  <2>2. CASE ~Acts(r)
    <3>1. Restart \/ (pc'[r] = pc[r] /\ loc'[r] = loc[r])
      BY <1>1, <2>2, Steps, Isolation DEF Untouched, Cleanup, Tick, vars
    <3> QED
      BY <1>1, <3>1, RestartLowers
  <2> QED
    BY <2>1, <2>2
<1>2. TypeOK /\ [Next]_vars => [Nearer]_vars
  BY <1>1, TypeStep, ActsLower DEF Nearer, Lowers
<1> QED
  BY <1>2, FewLeftIs, TypeInit, TypeStep, PTL DEF Spec

=============================================================================
