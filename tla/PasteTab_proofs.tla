-------------------------- MODULE PasteTab_proofs --------------------------
(***************************************************************************)
(* Theorems about PasteTab, for any forms, pastes, bounds and number of    *)
(* requests, and whatever the server and the network do.                   *)
(***************************************************************************)
EXTENDS PasteTab, FiniteSetTheorems, TLAPS

-----------------------------------------------------------------------------
(* Types of what the operators build.                                      *)

LEMMA FormType ==
    ASSUME NEW f \in Forms
    PROVE  /\ f.text \in Texts /\ f.pass \in Passwords \cup {NoPass} /\ f.options \in Options
           /\ [text |-> f.text, key |-> NoPass] \in Bodies
           /\ [text |-> f.text, key |-> f.pass] \in Bodies
BY Fields DEF Bodies

LEMMA PostType ==
    ASSUME NEW f \in Forms, NEW stage \in {"sealing", "sent"}
    PROVE  Post(f, stage) \in Requests
<1> DEFINE body == [text |-> f.text, key |-> NoPass]
<1>1. body \in Bodies
  BY FormType
<1>2. 0 \in 0 .. 599 /\ "nothing" \in Deeds
  BY DEF Deeds
<1> HIDE DEF body
<1>3. [kind |-> "POST", stage |-> stage, live |-> TRUE, id |-> None, did |-> "nothing",
       status |-> 0, body |-> body, encrypted |-> FALSE,
       options |-> f.options, entered |-> f] \in Requests
  BY <1>1, <1>2, FormType DEF Requests
<1> QED
  BY <1>3 DEF Post, body

LEMMA FlashType ==
    ASSUME NEW r \in Requests, NEW msg \in Messages, NEW read \in 0 .. 599
    PROVE  Flash(msg, r, read) \in Flashes
<1>1. r.id \in Ids \cup {None} /\ r.did \in Deeds /\ r.entered \in Forms
  BY DEF Requests
<1> QED
  BY <1>1 DEF Flash, Flashes

(* NavType: every way an answer ends shows one of the script's messages.   *)
LEMMA NavType ==
    ASSUME PasteTabTypeOK, NEW s \in Slots, Refused(s) \/ Succeeds(s) \/ NetworkError(s)
    PROVE  nav' \in Flashes
<1>1. req[s] \in Requests /\ req[s].status \in 0 .. 599 /\ 0 \in 0 .. 599
  BY DEF Refused, Succeeds, NetworkError, Live, Free, PasteTabTypeOK, Requests
<1>2. PICK msg \in Messages, read \in 0 .. 599 : nav' = Flash(msg, req[s], read)
  <2>1. errorMsgForStatus(req[s].status) \in Messages /\ deleteMsg(req[s].status) \in Messages
    BY DEF errorMsgForStatus, deleteMsg, Messages
  <2>2. /\ (IF req[s].kind = "POST" THEN "msg-create-success" ELSE "msg-delete-success") \in Messages
        /\ (IF req[s].kind = "POST" THEN "msg-network-error" ELSE "msg-delete-failed") \in Messages
    BY DEF Messages
  <2>3. CASE Refused(s)
    BY <1>1, <2>1, <2>3 DEF Refused
  <2>4. CASE Succeeds(s)
    <3>1. nav' = Flash(IF req[s].kind = "POST" THEN "msg-create-success" ELSE "msg-delete-success",
                       req[s], req[s].status)
      BY <2>4 DEF Succeeds
    <3> QED
      BY <1>1, <2>2, <3>1
  <2>5. CASE NetworkError(s)
    <3>1. nav' = Flash(IF req[s].kind = "POST" THEN "msg-network-error" ELSE "msg-delete-failed",
                       req[s], 0)
      BY <2>5 DEF NetworkError, Caught
    <3> QED
      BY <1>1, <2>2, <3>1
  <2> QED
    BY <2>3, <2>4, <2>5
<1> QED
  BY <1>1, <1>2, FlashType

LEMMA OrphansType ==
    ASSUME PasteTabTypeOK
    PROVE  Orphans \in [Slots -> Requests \cup {None}]
<1> SUFFICES ASSUME NEW s \in Slots, ~Free(s), req[s].stage = "sent"
             PROVE  [req[s] EXCEPT !.live = FALSE] \in Requests
  BY DEF Orphans
<1>1. req[s] \in Requests
  BY DEF PasteTabTypeOK, Free
<1> QED
  BY <1>1 DEF Requests

LEMMA AnswerType ==
    ASSUME PasteTabTypeOK, NEW s \in Slots, ~Free(s),
           \E status \in 0 .. 599, id \in Ids \cup {None}, did \in Deeds : Answer(s, status, id, did)
    PROVE  req' \in [Slots -> Requests \cup {None}]
<1> PICK status \in 0 .. 599, id \in Ids \cup {None}, did \in Deeds : Answer(s, status, id, did)
  OBVIOUS
<1>1. req[s] \in Requests
  BY DEF PasteTabTypeOK, Free
<1>2. [req[s] EXCEPT !.stage = "answered", !.status = status, !.id = id, !.did = did] \in Requests
  BY <1>1 DEF Requests
<1> QED
  BY <1>2 DEF Answer, PasteTabTypeOK

-----------------------------------------------------------------------------
(* Type correctness.                                                       *)

LEMMA TypeInit == Init => PasteTabTypeOK
<1> SUFFICES ASSUME Init PROVE PasteTabTypeOK
  OBVIOUS
<1>1. /\ page \in {"new", "view"} /\ viewed \in Ids \cup {None} /\ form \in Forms
      /\ req \in [Slots -> Requests \cup {None}]
      /\ nav \in Flashes \cup {None} /\ kept \in {"none", "idle", "inFlight"}
      /\ stored \in [Ids -> Pastes \cup {None}] /\ drawn \subseteq Ids
      /\ visits \in 0 .. MaxVisits
  BY Fields DEF Init
<1>2. /\ secure \in BOOLEAN /\ dialogue \in BOOLEAN /\ hung \in BOOLEAN /\ awaiting \in BOOLEAN
      /\ sendInFlight \in BOOLEAN /\ deleteInFlight \in BOOLEAN /\ disabled \in BOOLEAN
  BY DEF Init
<1> QED
  BY <1>1, <1>2 DEF PasteTabTypeOK

LEMMA FreshType ==
    ASSUME PasteTabTypeOK, FreshPage
    PROVE  /\ page' \in {"new", "view"} /\ viewed' \in Ids \cup {None} /\ form' \in Forms
           /\ dialogue' \in BOOLEAN /\ sendInFlight' \in BOOLEAN /\ deleteInFlight' \in BOOLEAN
           /\ disabled' \in BOOLEAN /\ hung' \in BOOLEAN /\ awaiting' \in BOOLEAN
           /\ req' \in [Slots -> Requests \cup {None}] /\ nav' \in Flashes \cup {None}
BY OrphansType, Fields DEF FreshPage

LEMMA TypeStep == PasteTabTypeOK /\ [Next]_vars => PasteTabTypeOK'
<1> SUFFICES ASSUME PasteTabTypeOK, [Next]_vars PROVE PasteTabTypeOK'
  OBVIOUS
<1> USE DEF PasteTabTypeOK, server, flags
<1>1. CASE Edit
  BY <1>1 DEF Edit
<1>2. CASE ShowDialogue
  BY <1>2 DEF ShowDialogue
<1>3. CASE HideDialogue
  BY <1>3 DEF HideDialogue
<1>4. CASE confirmDelete
  <2>1. PICK s \in Slots : req' = [req EXCEPT ![s] =
          [Post(form, "sent") EXCEPT !.kind = "DELETE", !.id = viewed]]
    BY <1>4 DEF confirmDelete
  <2>2. [Post(form, "sent") EXCEPT !.kind = "DELETE", !.id = viewed] \in Requests
    <3>1. Post(form, "sent") \in Requests
      BY PostType
    <3> QED
      BY <3>1 DEF Requests
  <2>3. req' \in [Slots -> Requests \cup {None}]
    BY <2>1, <2>2
  <2> QED
    BY <1>4, <2>3 DEF confirmDelete
<1>5. ASSUME NEW button \in {"sidebar", "top"}, handleSend(button) PROVE PasteTabTypeOK'
  <2>1. PICK s \in Slots : req' = [req EXCEPT ![s] =
          Post(form, IF form.pass = NoPass THEN "sent" ELSE "sealing")]
    BY <1>5 DEF handleSend
  <2>2. Post(form, IF form.pass = NoPass THEN "sent" ELSE "sealing") \in Requests
    BY PostType
  <2>3. req' \in [Slots -> Requests \cup {None}]
    BY <2>1, <2>2
  <2> QED
    BY <1>5, <2>3 DEF handleSend
<1>6. ASSUME NEW s \in Slots, Sealed(s) PROVE PasteTabTypeOK'
  <2>1. req[s] \in Requests
    BY <1>6 DEF Sealed, Free
  <2>2. SealedBody(req[s]) \in Bodies
    BY <2>1, FormType DEF SealedBody, Requests
  <2>3. [req[s] EXCEPT !.stage = "sent", !.encrypted = TRUE, !.body = SealedBody(req[s])] \in Requests
    BY <2>1, <2>2 DEF Requests
  <2>4. req' \in [Slots -> Requests \cup {None}]
    BY <1>6, <2>3 DEF Sealed
  <2> QED
    BY <1>6, <2>4 DEF Sealed
<1>7. ASSUME NEW s \in Slots, SealFails(s) PROVE PasteTabTypeOK'
  BY <1>7 DEF SealFails
<1>8. ASSUME NEW s \in Slots, ServerPost(s) PROVE PasteTabTypeOK'
  <2>1. req[s] \in Requests
    BY <1>8 DEF ServerPost, Free
  <2>2. req' \in [Slots -> Requests \cup {None}]
    <3>1. \E status \in 0 .. 599, id \in Ids \cup {None}, did \in Deeds : Answer(s, status, id, did)
      BY <1>8 DEF ServerPost, Refusals, Deeds
    <3> QED
      BY <1>8, <3>1, AnswerType DEF ServerPost
  <2>3. stored' \in [Ids -> Pastes \cup {None}] /\ drawn' \subseteq Ids
    <3>1. [body |-> req[s].body, encrypted |-> req[s].encrypted,
           options |-> req[s].options, entered |-> req[s].entered] \in Pastes
      BY <2>1 DEF Requests, Pastes
    <3> QED
      BY <1>8, <3>1 DEF ServerPost
  <2> QED
    BY <1>8, <2>2, <2>3 DEF ServerPost
<1>9. ASSUME NEW s \in Slots, ServerDelete(s) PROVE PasteTabTypeOK'
  <2>1. req[s] \in Requests /\ req[s].id \in Ids \cup {None}
    BY <1>9 DEF ServerDelete, Free, Requests
  <2>2. req' \in [Slots -> Requests \cup {None}]
    <3>1. \E status \in 0 .. 599, id \in Ids \cup {None}, did \in Deeds : Answer(s, status, id, did)
      BY <1>9, <2>1 DEF ServerDelete, Deeds
    <3> QED
      BY <1>9, <3>1, AnswerType DEF ServerDelete
  <2>3. stored' \in [Ids -> Pastes \cup {None}]
    BY <1>9 DEF ServerDelete
  <2> QED
    BY <1>9, <2>2, <2>3 DEF ServerDelete
<1>10. ASSUME NEW s \in Slots, NeverSent(s) PROVE PasteTabTypeOK'
  BY <1>10 DEF NeverSent
<1>11. ASSUME NEW s \in Slots, Refused(s) PROVE PasteTabTypeOK'
  <2>1. req[s] \in Requests
    BY <1>11 DEF Refused, Live, Free
  <2>2. nav' \in Flashes
    BY <1>11, NavType
  <2>3. sendInFlight' \in BOOLEAN /\ disabled' \in BOOLEAN /\ deleteInFlight' \in BOOLEAN
    BY <1>11 DEF Refused, Reset, resetSendBtn, resetDelete
  <2>4. req' \in [Slots -> Requests \cup {None}]
    BY <1>11 DEF Refused
  <2> QED
    BY <1>11, <2>2, <2>3, <2>4 DEF Refused
<1>12. ASSUME NEW s \in Slots, Succeeds(s) PROVE PasteTabTypeOK'
  <2>1. req[s] \in Requests
    BY <1>12 DEF Succeeds, Live, Free
  <2>2. nav' \in Flashes
    BY <1>12, NavType
  <2> QED
    BY <1>12, <2>2 DEF Succeeds
<1>13. ASSUME NEW s \in Slots, NetworkError(s) PROVE PasteTabTypeOK'
  <2>1. req[s] \in Requests
    BY <1>13 DEF NetworkError, Live, Free
  <2>2. nav' \in Flashes
    BY <1>13, NavType
  <2>3. sendInFlight' \in BOOLEAN /\ disabled' \in BOOLEAN /\ deleteInFlight' \in BOOLEAN
    BY <1>13 DEF NetworkError, Reset, resetSendBtn, resetDelete
  <2>4. [req[s] EXCEPT !.live = FALSE] \in Requests
    BY <2>1 DEF Requests
  <2>5. req' \in [Slots -> Requests \cup {None}]
    BY <1>13, <2>4 DEF NetworkError
  <2> QED
    BY <1>13, <2>2, <2>3, <2>5 DEF NetworkError
<1>14. CASE Leave
  <2>1. kept' \in {"none", "idle", "inFlight"}
    BY <1>14 DEF Leave, Keep
  <2> QED
    BY <1>14, <2>1, FreshType DEF Leave
<1>15. CASE Visit
  <2>1. FreshPage /\ UNCHANGED <<secure, stored, drawn>>
    BY <1>15 DEF Visit
  <2>2. kept' \in {"none", "idle", "inFlight"}
    BY <1>15 DEF Visit, Keep
  <2>3. visits' \in 0 .. MaxVisits
    BY <1>15, Fields DEF Visit
  <2> QED
    BY <2>1, <2>2, <2>3, FreshType
<1>16. CASE Back
  BY <1>16, OrphansType DEF Back
<1>17. CASE UNCHANGED vars
  BY <1>17 DEF vars
<1> QED
  BY <1>1, <1>2, <1>3, <1>4, <1>5, <1>6, <1>7, <1>8, <1>9, <1>10, <1>11, <1>12, <1>13, <1>14,
     <1>15, <1>16, <1>17 DEF Next

(* Typing: the variables of PasteTab have their types in every reachable   *)
(* state; in particular every message shown is one of the script's.        *)
THEOREM Typing == Spec => []PasteTabTypeOK
BY TypeInit, TypeStep, PTL DEF Spec

-----------------------------------------------------------------------------
(* The flags.  The requests of a page that are live are its own kind's, at *)
(* most one is, and while it is nothing has succeeded and nothing hangs.   *)

Exclusive == \A s, t \in Slots : Live(s) /\ Live(t) => s = t
OwnKind ==
    \A s \in Slots : Live(s) => req[s].kind = IF page = "new" THEN "POST" ELSE "DELETE"
SealingIsLive ==
    \A s \in Slots : ~Free(s) /\ req[s].stage = "sealing" => req[s].live /\ req[s].kind = "POST"
Created == Arrived("msg-create-success")
Removed == Arrived("msg-delete-success")
Undecided == \A s \in Slots : Live(s) => ~Created /\ ~Removed /\ ~hung
Endings == (Created => page = "new") /\ (Removed => page = "view") /\ (hung => page = "new")
Busy == \E s \in Slots : Live(s)
SendSet == page = "new" /\ (Busy \/ Created \/ hung)
DeleteSet == page = "view" /\ (Busy \/ Removed)
Flagged == (sendInFlight <=> SendSet) /\ (disabled = sendInFlight) /\ (deleteInFlight <=> DeleteSet)
FlagInv == Exclusive /\ OwnKind /\ SealingIsLive /\ Undecided /\ Endings /\ Flagged

LEMMA FlagInit == Init => FlagInv
<1> SUFFICES ASSUME Init PROVE FlagInv
  OBVIOUS
<1>1. \A s \in Slots : Free(s) /\ ~Live(s)
  BY DEF Init, Free, Live
<1>2. ~Created /\ ~Removed /\ ~hung
  BY DEF Init, Created, Removed, Arrived
<1> QED
  BY <1>1, <1>2 DEF Init, FlagInv, Exclusive, OwnKind, SealingIsLive, Undecided, Endings, Flagged,
     Busy, SendSet, DeleteSet

(* Changed: an action that writes one slot leaves the others.              *)
LEMMA Changed ==
    ASSUME PasteTabTypeOK, NEW s \in Slots, NEW r, req' = [req EXCEPT ![s] = r]
    PROVE  /\ req'[s] = r
           /\ \A t \in Slots : t # s => (req'[t] = req[t] /\ (Live(t)' <=> Live(t)) /\ (Free(t)' <=> Free(t)))
BY DEF PasteTabTypeOK, Live, Free

(* Kept: an action that changes no slot's liveness, kind or sealing keeps  *)
(* the invariant, if it leaves the rest of the page.                       *)
LEMMA KeptInv ==
    ASSUME FlagInv,
           \A t \in Slots : (Live(t)' <=> Live(t)) /\ (Live(t) => req'[t].kind = req[t].kind),
           \A t \in Slots : ~Free(t)' /\ req'[t].stage = "sealing" =>
                            ~Free(t) /\ req[t].stage = "sealing" /\ req'[t].live = req[t].live
                            /\ req'[t].kind = req[t].kind,
           UNCHANGED <<page, nav, hung, sendInFlight, deleteInFlight, disabled>>
    PROVE  FlagInv'
<1>1. (Created' <=> Created) /\ (Removed' <=> Removed) /\ (Busy' <=> Busy)
  BY DEF Created, Removed, Arrived, Busy
<1>2. Exclusive' /\ OwnKind' /\ SealingIsLive'
  BY DEF FlagInv, Exclusive, OwnKind, SealingIsLive
<1>3. Undecided' /\ Endings'
  BY <1>1 DEF FlagInv, Undecided, Endings
<1>4. Flagged'
  BY <1>1 DEF FlagInv, Flagged, SendSet, DeleteSet
<1> QED
  BY <1>2, <1>3, <1>4 DEF FlagInv

(* Ended: the page's request leaves its slot, or lives on without a page.  *)
LEMMA Ended ==
    ASSUME PasteTabTypeOK, FlagInv, NEW s \in Slots, Live(s), NEW r,
           req' = [req EXCEPT ![s] = r], r # None => ~r.live /\ r.stage # "sealing"
    PROVE  /\ \A t \in Slots : ~Live(t)'
           /\ Exclusive' /\ OwnKind' /\ SealingIsLive' /\ Undecided'
           /\ ~Busy' /\ ~Created /\ ~Removed /\ ~hung
           /\ req[s].kind = IF page = "new" THEN "POST" ELSE "DELETE"
<1>1. ASSUME NEW t \in Slots PROVE ~Live(t)'
  <2>1. CASE t = s
    <3>1. req'[t] = r
      BY <2>1, Changed
    <3> QED
      BY <3>1 DEF Live, Free
  <2>2. CASE t # s
    <3>1. ~Live(t)
      BY <2>2 DEF FlagInv, Exclusive
    <3> QED
      BY <2>2, <3>1, Changed
  <2> QED
    BY <2>1, <2>2
<1>2. SealingIsLive'
  <2>1. ASSUME NEW t \in Slots, ~Free(t)', req'[t].stage = "sealing"
        PROVE  req'[t].live /\ req'[t].kind = "POST"
    <3>1. t # s
      BY <2>1, Changed DEF Free
    <3> QED
      BY <2>1, <3>1, Changed DEF FlagInv, SealingIsLive
  <2> QED
    BY <2>1 DEF SealingIsLive
<1> QED
  BY <1>1, <1>2 DEF Exclusive, OwnKind, Undecided, Busy, FlagInv

(* Afresh: another page begins with no live request.                       *)
LEMMA Afresh ==
    ASSUME PasteTabTypeOK, req' = Orphans, nav' = None
    PROVE  /\ \A t \in Slots : ~Live(t)'
           /\ Exclusive' /\ OwnKind' /\ SealingIsLive' /\ Undecided'
           /\ ~Busy' /\ ~Created' /\ ~Removed'
<1>1. ASSUME NEW t \in Slots
      PROVE  ~Live(t)' /\ (~Free(t)' => req'[t].stage = "sent")
  <2>1. req'[t] = IF ~Free(t) /\ req[t].stage = "sent" THEN [req[t] EXCEPT !.live = FALSE] ELSE None
    BY DEF Orphans
  <2>2. CASE ~Free(t) /\ req[t].stage = "sent"
    <3>1. req[t] \in Requests
      BY <2>2 DEF PasteTabTypeOK, Free
    <3>2. req'[t].live = FALSE /\ req'[t].stage = "sent"
      BY <2>1, <2>2, <3>1 DEF Requests
    <3> QED
      BY <3>2 DEF Live
  <2>3. CASE ~(~Free(t) /\ req[t].stage = "sent")
    BY <2>1, <2>3 DEF Live, Free
  <2> QED
    BY <2>2, <2>3
<1>2. SealingIsLive'
  BY <1>1 DEF SealingIsLive
<1> QED
  BY <1>1, <1>2 DEF Exclusive, OwnKind, Undecided, Busy, Created, Removed, Arrived

LEMMA FlagStep == PasteTabTypeOK /\ FlagInv /\ [Next]_vars => FlagInv'
<1> SUFFICES ASSUME PasteTabTypeOK, FlagInv, [Next]_vars PROVE FlagInv'
  OBVIOUS
<1> USE DEF server, flags
<1>1. ASSUME UNCHANGED <<req, page, nav, hung, sendInFlight, deleteInFlight, disabled>> PROVE FlagInv'
  BY <1>1, KeptInv DEF Live, Free
<1>2. CASE Edit \/ ShowDialogue \/ HideDialogue \/ UNCHANGED vars
  BY <1>1, <1>2 DEF Edit, ShowDialogue, HideDialogue, vars
<1>3. ASSUME NEW s \in Slots, NEW r \in Requests, req' = [req EXCEPT ![s] = r], r.live,
             r.kind = IF page = "new" THEN "POST" ELSE "DELETE", Free(s),
             r.stage = "sealing" => r.kind = "POST",
             IF page = "new"
             THEN ~sendInFlight /\ sendInFlight' = TRUE /\ disabled' = TRUE /\ UNCHANGED deleteInFlight
             ELSE ~deleteInFlight /\ deleteInFlight' = TRUE /\ UNCHANGED <<sendInFlight, disabled>>,
             UNCHANGED <<page, nav, hung>>
      PROVE  FlagInv'
  <2>1. ~Busy /\ ~Created /\ ~Removed /\ ~hung
    BY <1>3 DEF FlagInv, Flagged, SendSet, DeleteSet, Endings, PasteTabTypeOK
  <2>2. req'[s] = r /\ r # None
    BY <1>3, Changed, Absent
  <2>3. \A t \in Slots : Live(t)' <=> t = s
    BY <1>3, <2>1, <2>2, Changed DEF Busy, Live, Free
  <2>4. (Created' <=> Created) /\ (Removed' <=> Removed) /\ Busy'
    BY <1>3, <2>3 DEF Created, Removed, Arrived, Busy
  <2>5. Exclusive' /\ OwnKind'
    BY <1>3, <2>2, <2>3 DEF Exclusive, OwnKind
  <2>6. SealingIsLive'
    <3>1. ASSUME NEW t \in Slots, ~Free(t)', req'[t].stage = "sealing"
          PROVE  req'[t].live /\ req'[t].kind = "POST"
      BY <3>1, <1>3, <2>2, Changed DEF FlagInv, SealingIsLive
    <3> QED
      BY <3>1 DEF SealingIsLive
  <2>7. Undecided' /\ Endings'
    BY <1>3, <2>1, <2>4 DEF Undecided, Endings
  <2>8. Flagged'
    BY <1>3, <2>1, <2>4 DEF FlagInv, Flagged, SendSet, DeleteSet, PasteTabTypeOK
  <2> QED
    BY <2>5, <2>6, <2>7, <2>8 DEF FlagInv
<1>4. CASE confirmDelete
  <2>1. PICK s \in Slots : Free(s) /\ req' = [req EXCEPT ![s] =
          [Post(form, "sent") EXCEPT !.kind = "DELETE", !.id = viewed]]
    BY <1>4 DEF confirmDelete
  <2> DEFINE r == [Post(form, "sent") EXCEPT !.kind = "DELETE", !.id = viewed]
  <2>2. Post(form, "sent") \in Requests
    BY PostType DEF PasteTabTypeOK
  <2>3. r \in Requests /\ r.kind = "DELETE" /\ r.stage = "sent" /\ r.live
    <3>1. r \in Requests /\ r.kind = "DELETE" /\ r.stage = Post(form, "sent").stage
          /\ r.live = Post(form, "sent").live
      BY <2>2 DEF Requests, PasteTabTypeOK
    <3> QED
      BY <3>1 DEF Post
  <2>4. req' = [req EXCEPT ![s] = r]
    BY <2>1
  <2> HIDE DEF r
  <2> QED
    BY <1>3, <1>4, <2>1, <2>3, <2>4 DEF confirmDelete, Deletable
<1>5. ASSUME NEW button \in {"sidebar", "top"}, handleSend(button) PROVE FlagInv'
  <2> DEFINE r == Post(form, IF form.pass = NoPass THEN "sent" ELSE "sealing")
  <2>1. PICK s \in Slots : Free(s) /\ req' = [req EXCEPT ![s] = r]
    BY <1>5 DEF handleSend
  <2>2. r \in Requests /\ r.kind = "POST" /\ r.live
    BY PostType DEF PasteTabTypeOK, Post
  <2> HIDE DEF r
  <2> QED
    BY <1>3, <1>5, <2>1, <2>2 DEF handleSend, Sendable
<1>6. ASSUME NEW s \in Slots, NEW r, req' = [req EXCEPT ![s] = r], ~Free(s),
             r = None => ~req[s].live /\ req[s].stage # "sealing",
             r # None => r.live = req[s].live /\ r.kind = req[s].kind /\ r.stage # "sealing",
             UNCHANGED <<page, nav, hung, sendInFlight, deleteInFlight, disabled>>
      PROVE  FlagInv'
  <2>1. ASSUME NEW t \in Slots
        PROVE  (Live(t)' <=> Live(t)) /\ (Live(t) => req'[t].kind = req[t].kind)
    BY <1>6, Changed DEF Live, Free
  <2>2. ASSUME NEW t \in Slots, ~Free(t)', req'[t].stage = "sealing"
        PROVE  t # s /\ req'[t] = req[t] /\ ~Free(t)
    BY <1>6, <2>2, Changed DEF Free
  <2> QED
    BY <1>6, <2>1, <2>2, KeptInv
<1>7. ASSUME NEW s \in Slots, Sealed(s) PROVE FlagInv'
  <2> DEFINE r == [req[s] EXCEPT !.stage = "sent", !.encrypted = TRUE, !.body = SealedBody(req[s])]
  <2>1. req[s] \in Requests
    BY <1>7 DEF Sealed, Free, PasteTabTypeOK
  <2>2. SealedBody(req[s]) \in Bodies
    BY <2>1, FormType DEF SealedBody, Requests
  <2>3. r \in Requests /\ r.live = req[s].live /\ r.kind = req[s].kind /\ r.stage = "sent"
    BY <2>1, <2>2 DEF Requests
  <2>4. req' = [req EXCEPT ![s] = r] /\ r # None
    BY <1>7, <2>3, Absent DEF Sealed
  <2> HIDE DEF r
  <2> QED
    BY <1>6, <1>7, <2>3, <2>4 DEF Sealed
<1>8. ASSUME NEW s \in Slots, ServerPost(s) \/ ServerDelete(s) PROVE FlagInv'
  <2>1. req[s] \in Requests /\ req[s].stage = "sent" /\ ~Free(s)
    BY <1>8 DEF ServerPost, ServerDelete, Free, PasteTabTypeOK
  <2>2. PICK status \in 0 .. 599, id \in Ids \cup {None}, did \in Deeds : Answer(s, status, id, did)
    BY <1>8, <2>1 DEF ServerPost, Refusals, ServerDelete, Deeds, Requests
  <2> DEFINE answered == [req[s] EXCEPT !.stage = "answered", !.status = status, !.id = id, !.did = did]
             r == IF req[s].live THEN answered ELSE None
  <2>3. /\ answered # None
        /\ answered.live = req[s].live /\ answered.kind = req[s].kind /\ answered.stage = "answered"
    <3>1. answered \in Requests
      BY <2>1, <2>2 DEF Requests
    <3>2. answered.live = req[s].live /\ answered.kind = req[s].kind /\ answered.stage = "answered"
      BY <2>1 DEF Requests
    <3> HIDE DEF answered
    <3> QED
      BY <3>1, <3>2, Absent
  <2> HIDE DEF answered
  <2>4. req' = [req EXCEPT ![s] = r]
    BY <2>2 DEF Answer, answered
  <2>5. UNCHANGED <<page, nav, hung, sendInFlight, deleteInFlight, disabled>>
    BY <1>8 DEF ServerPost, ServerDelete
  <2>6. /\ r = None => ~req[s].live /\ req[s].stage # "sealing"
        /\ r # None => r.live = req[s].live /\ r.kind = req[s].kind /\ r.stage # "sealing"
    BY <2>1, <2>3
  <2> HIDE DEF r
  <2> QED
    BY <1>6, <2>1, <2>4, <2>5, <2>6
<1>9. ASSUME NEW s \in Slots, NeverSent(s) PROVE FlagInv'
  BY <1>6, <1>9 DEF NeverSent, FlagInv, SealingIsLive
<1>10. ASSUME NEW s \in Slots, SealFails(s) PROVE FlagInv'
  <2>1. Live(s) /\ req[s].kind = "POST"
    BY <1>10 DEF SealFails, FlagInv, SealingIsLive, Live
  <2>2. /\ Exclusive' /\ OwnKind' /\ SealingIsLive' /\ Undecided' /\ ~Busy'
        /\ ~Created /\ ~Removed /\ page = "new"
    BY <1>10, <2>1, Ended DEF SealFails, PasteTabTypeOK
  <2>3. ~Created' /\ ~Removed'
    BY <1>10, <2>2 DEF SealFails, Created, Removed, Arrived
  <2>4. sendInFlight /\ ~deleteInFlight
    BY <2>1, <2>2 DEF FlagInv, Flagged, SendSet, DeleteSet, Busy
  <2> QED
    BY <1>10, <2>2, <2>3, <2>4 DEF SealFails, FlagInv, Endings, Flagged, SendSet, DeleteSet
<1>11. ASSUME NEW s \in Slots, Refused(s) \/ NetworkError(s) PROVE FlagInv'
  <2>1. Live(s) /\ req[s] \in Requests
    BY <1>11 DEF Refused, NetworkError, Live, Free, PasteTabTypeOK
  <2>2. PICK r : req' = [req EXCEPT ![s] = r] /\ (r # None => ~r.live /\ r.stage # "sealing")
    BY <1>11, <2>1 DEF Refused, NetworkError, Requests
  <2>3. /\ Exclusive' /\ OwnKind' /\ SealingIsLive' /\ Undecided' /\ ~Busy'
        /\ ~Created /\ ~Removed /\ ~hung
        /\ req[s].kind = IF page = "new" THEN "POST" ELSE "DELETE"
    BY <2>1, <2>2, Ended
  <2>4. ~Created' /\ ~Removed'
    BY <1>11, <2>1 DEF Refused, NetworkError, Caught, Flash, errorMsgForStatus, deleteMsg,
       Created, Removed, Arrived
  <2>5. Reset(req[s].kind) /\ UNCHANGED <<page, hung>>
    BY <1>11 DEF Refused, NetworkError
  <2>6. Flagged'
    <3>1. ~SendSet' /\ ~DeleteSet'
      BY <2>3, <2>4, <2>5 DEF SendSet, DeleteSet
    <3>2. /\ page = "new" => deleteInFlight = FALSE
          /\ page # "new" => sendInFlight = FALSE /\ disabled = FALSE
      BY <2>3 DEF FlagInv, Flagged, SendSet, DeleteSet, PasteTabTypeOK
    <3>3. sendInFlight' = FALSE /\ disabled' = FALSE /\ deleteInFlight' = FALSE
      <4>1. CASE page = "new"
        BY <2>3, <2>5, <3>2, <4>1 DEF Reset, resetSendBtn
      <4>2. CASE page # "new"
        BY <2>3, <2>5, <3>2, <4>2 DEF Reset, resetDelete
      <4> QED
        BY <4>1, <4>2
    <3> QED
      BY <3>1, <3>3 DEF Flagged
  <2> QED
    BY <2>3, <2>4, <2>5, <2>6 DEF FlagInv, Endings
<1>12. ASSUME NEW s \in Slots, Succeeds(s) PROVE FlagInv'
  <2>1. Live(s) /\ req[s] \in Requests
    BY <1>12 DEF Succeeds, Live, Free, PasteTabTypeOK
  <2>2. /\ Exclusive' /\ OwnKind' /\ SealingIsLive' /\ Undecided' /\ ~Busy'
        /\ ~Created /\ ~Removed /\ ~hung
        /\ req[s].kind = IF page = "new" THEN "POST" ELSE "DELETE"
    BY <1>12, <2>1, Ended DEF Succeeds
  <2>3. (Created' <=> page = "new") /\ (Removed' <=> page # "new")
    <3>1. nav' # None
      BY <1>12, NavType, Absent
    <3> QED
      BY <1>12, <2>2, <3>1 DEF Succeeds, Created, Removed, Arrived, Flash
  <2>4. (page = "new" => sendInFlight) /\ (page = "view" => deleteInFlight)
    BY <2>1 DEF FlagInv, Flagged, SendSet, DeleteSet, Busy
  <2> QED
    BY <1>12, <2>2, <2>3, <2>4 DEF Succeeds, FlagInv, Endings, Flagged, SendSet, DeleteSet, PasteTabTypeOK
<1>13. CASE Leave \/ Visit
  <2>1. FreshPage
    BY <1>13 DEF Leave, Visit
  <2>2. /\ Exclusive' /\ OwnKind' /\ SealingIsLive' /\ Undecided' /\ ~Busy' /\ ~Created' /\ ~Removed'
    BY <2>1, Afresh DEF FreshPage
  <2> QED
    BY <2>1, <2>2 DEF FreshPage, FlagInv, Endings, Flagged, SendSet, DeleteSet
<1>14. CASE Back
  <2>1. /\ Exclusive' /\ OwnKind' /\ SealingIsLive' /\ Undecided' /\ ~Busy' /\ ~Created' /\ ~Removed'
    BY <1>14, Afresh DEF Back
  <2> QED
    BY <1>14, <2>1 DEF Back, FlagInv, Endings, Flagged, SendSet, DeleteSet
<1> QED
  BY <1>2, <1>4, <1>5, <1>7, <1>8, <1>9, <1>10, <1>11, <1>12, <1>13, <1>14 DEF Next

LEMMA Invariance == Spec => [](PasteTabTypeOK /\ FlagInv)
BY TypeInit, TypeStep, FlagInit, FlagStep, PTL DEF Spec

LEMMA FlagsFollow == PasteTabTypeOK /\ FlagInv => SendFlagExact /\ DeleteFlagExact
<1> SUFFICES ASSUME PasteTabTypeOK, FlagInv PROVE SendFlagExact /\ DeleteFlagExact
  OBVIOUS
<1>1. Under("POST") # {} <=> page = "new" /\ Busy
  BY DEF FlagInv, OwnKind, Under, Busy
<1>2. Under("DELETE") # {} <=> page = "view" /\ Busy
  BY DEF FlagInv, OwnKind, Under, Busy, PasteTabTypeOK
<1>3. SendSet <=> Under("POST") # {} \/ Arrived("msg-create-success") \/ hung
  BY <1>1 DEF SendSet, FlagInv, Endings, Created
<1>4. DeleteSet <=> Under("DELETE") # {} \/ Arrived("msg-delete-success")
  BY <1>2 DEF DeleteSet, FlagInv, Endings, Removed
<1> QED
  BY <1>3, <1>4 DEF FlagInv, Flagged, SendFlagExact, DeleteFlagExact

(* SendGuarded: the flag and the buttons of sending are set exactly while  *)
(* a POST of this page is under way, after one succeeded, or after a       *)
(* rejected encryption: in every interleaving of clicks, answers, lost     *)
(* answers and navigation.                                                 *)
THEOREM SendGuarded == Spec => []SendFlagExact
BY Invariance, FlagsFollow, PTL

(* DeleteGuarded: the same for the flag of the deletion dialogue.          *)
THEOREM DeleteGuarded == Spec => []DeleteFlagExact
BY Invariance, FlagsFollow, PTL

-----------------------------------------------------------------------------
(* The page implements OneRequest, once for each kind.                     *)

(* AtMostOne: the size of a set without two elements.                      *)
LEMMA AtMostOne ==
    ASSUME NEW S, \A s, t \in S : s = t
    PROVE  (S = {} => Cardinality(S) = 0) /\ (S # {} => Cardinality(S) = 1)
<1>1. CASE S = {}
  BY <1>1, FS_EmptySet
<1>2. CASE S # {}
  <2>1. PICK s : S = {s}
    BY <1>2
  <2> QED
    BY <1>2, <2>1, FS_Singleton
<1> QED
  BY <1>1, <1>2

LEMMA CountNow ==
    ASSUME PasteTabTypeOK, FlagInv
    PROVE  /\ Cardinality(Under("POST")) = IF page = "new" /\ Busy THEN 1 ELSE 0
           /\ Cardinality(Under("DELETE")) = IF page = "view" /\ Busy THEN 1 ELSE 0
<1>1. (Under("POST") # {} <=> page = "new" /\ Busy) /\ (Under("DELETE") # {} <=> page = "view" /\ Busy)
  BY DEF FlagInv, OwnKind, Under, Busy, PasteTabTypeOK
<1>2. (\A s, t \in Under("POST") : s = t) /\ (\A s, t \in Under("DELETE") : s = t)
  BY DEF FlagInv, Exclusive, Under
<1> QED
  BY <1>1, <1>2, AtMostOne

LEMMA CountNext ==
    ASSUME PasteTabTypeOK', FlagInv'
    PROVE  /\ Cardinality(Under("POST"))' = IF page' = "new" /\ Busy' THEN 1 ELSE 0
           /\ Cardinality(Under("DELETE"))' = IF page' = "view" /\ Busy' THEN 1 ELSE 0
<1>1. (Under("POST")' # {} <=> page' = "new" /\ Busy') /\ (Under("DELETE")' # {} <=> page' = "view" /\ Busy')
  BY DEF FlagInv, OwnKind, Under, Busy, PasteTabTypeOK
<1>2. (\A s, t \in Under("POST")' : s = t) /\ (\A s, t \in Under("DELETE")' : s = t)
  BY DEF FlagInv, Exclusive, Under
<1> QED
  BY <1>1, <1>2, AtMostOne

(* What a step does to the page's request. *)
Stays == (Busy' <=> Busy) /\ (Created' <=> Created) /\ (Removed' <=> Removed) /\ page' = page
Begins == ~Busy /\ Busy' /\ ~Created /\ ~Removed /\ ~Created' /\ ~Removed' /\ page' = page
Ends ==
    /\ Busy /\ ~Busy' /\ ~Created /\ ~Removed /\ page' = page
    /\ \/ ~Created' /\ ~Removed'
       \/ (Created' <=> page = "new") /\ (Removed' <=> page = "view")
Restarts == ~Busy' /\ ~Created' /\ ~Removed'

LEMMA Moves ==
    ASSUME PasteTabTypeOK, FlagInv, FlagInv', [Next]_vars
    PROVE  Stays \/ Begins \/ Ends \/ Restarts
<1> USE DEF server, flags
<1>1. ASSUME UNCHANGED <<page, nav, hung, sendInFlight, deleteInFlight>> PROVE Stays
  <2>1. (Created' <=> Created) /\ (Removed' <=> Removed) /\ page' = page
    BY <1>1 DEF Created, Removed, Arrived
  <2>2. /\ Busy => ~Created /\ ~Removed /\ ~hung
        /\ Busy' => ~Created' /\ ~Removed' /\ ~hung'
    BY DEF FlagInv, Undecided, Busy
  <2>3. (SendSet' <=> SendSet) /\ (DeleteSet' <=> DeleteSet)
    BY <1>1 DEF FlagInv, Flagged
  <2>4. Busy' <=> Busy
    BY <1>1, <2>1, <2>2, <2>3 DEF SendSet, DeleteSet, PasteTabTypeOK
  <2> QED
    BY <2>1, <2>4 DEF Stays
<1>2. CASE Edit \/ ShowDialogue \/ HideDialogue \/ UNCHANGED vars
  BY <1>1, <1>2 DEF Edit, ShowDialogue, HideDialogue, vars
<1>3. ASSUME NEW s \in Slots, Sealed(s) \/ ServerPost(s) \/ ServerDelete(s) \/ NeverSent(s) PROVE Stays
  BY <1>1, <1>3 DEF Sealed, ServerPost, ServerDelete, NeverSent
<1>4. ASSUME NEW button \in {"sidebar", "top"}, handleSend(button) PROVE Begins
  <2>1. page = "new" /\ ~sendInFlight /\ sendInFlight' /\ UNCHANGED <<page, nav, hung>>
    BY <1>4 DEF handleSend, Sendable
  <2>2. ~Busy /\ ~Created /\ ~Removed /\ ~hung
    BY <2>1 DEF FlagInv, Flagged, SendSet, Endings
  <2>3. ~Created' /\ ~Removed' /\ SendSet'
    BY <2>1, <2>2 DEF Created, Removed, Arrived, FlagInv, Flagged
  <2> QED
    BY <2>1, <2>2, <2>3 DEF Begins, SendSet
<1>5. ASSUME confirmDelete PROVE Begins
  <2>1. page = "view" /\ ~deleteInFlight /\ deleteInFlight' /\ UNCHANGED <<page, nav, hung>>
    BY <1>5 DEF confirmDelete, Deletable
  <2>2. ~Busy /\ ~Created /\ ~Removed
    BY <2>1 DEF FlagInv, Flagged, DeleteSet, Endings
  <2>3. ~Created' /\ ~Removed' /\ DeleteSet'
    BY <2>1, <2>2 DEF Created, Removed, Arrived, FlagInv, Flagged
  <2> QED
    BY <2>1, <2>2, <2>3 DEF Begins, DeleteSet
<1>6. ASSUME NEW s \in Slots, Live(s)
      PROVE  /\ Busy /\ ~Created /\ ~Removed /\ ~hung
             /\ req[s].kind = IF page = "new" THEN "POST" ELSE "DELETE"
  BY <1>6 DEF FlagInv, Undecided, OwnKind, Busy
<1>7. ASSUME NEW s \in Slots, SealFails(s) PROVE Ends
  <2>1. Live(s) /\ hung' /\ UNCHANGED <<page, nav>>
    BY <1>7 DEF SealFails, FlagInv, SealingIsLive, Live
  <2>2. ~Busy'
    BY <2>1 DEF FlagInv, Undecided, Busy
  <2> QED
    BY <1>6, <2>1, <2>2 DEF Ends, Created, Removed, Arrived
<1>8. ASSUME NEW s \in Slots, Refused(s) \/ NetworkError(s) PROVE Ends
  <2>1. Live(s) /\ Reset(req[s].kind) /\ UNCHANGED <<page, hung>>
    BY <1>8 DEF Refused, NetworkError
  <2>2. ~Created' /\ ~Removed'
    BY <1>8 DEF Refused, NetworkError, Caught, Flash, errorMsgForStatus, deleteMsg,
       Created, Removed, Arrived
  <2>3. (page = "new" => ~sendInFlight') /\ (page # "new" => ~deleteInFlight')
    BY <1>6, <2>1 DEF Reset, resetSendBtn, resetDelete
  <2>4. ~Busy'
    BY <2>1, <2>3 DEF FlagInv, Flagged, SendSet, DeleteSet, PasteTabTypeOK
  <2> QED
    BY <1>6, <2>1, <2>2, <2>4 DEF Ends
<1>9. ASSUME NEW s \in Slots, Succeeds(s) PROVE Ends
  <2>1. Live(s) /\ UNCHANGED page /\ req[s] \in Requests
    BY <1>9 DEF Succeeds, Live, Free, PasteTabTypeOK
  <2>2. (Created' <=> page = "new") /\ (Removed' <=> page = "view")
    <3>1. nav' # None
      BY <1>9, NavType, Absent
    <3> QED
      BY <1>6, <1>9, <2>1, <3>1 DEF Succeeds, Created, Removed, Arrived, Flash, PasteTabTypeOK
  <2>3. ~Busy'
    BY <2>1, <2>2 DEF FlagInv, Undecided, Busy, PasteTabTypeOK
  <2> QED
    BY <1>6, <2>1, <2>2, <2>3 DEF Ends
<1>10. CASE Leave \/ Visit \/ Back
  BY <1>10, Afresh DEF Leave, Visit, Back, FreshPage, Restarts
<1> QED
  BY <1>2, <1>3, <1>4, <1>5, <1>7, <1>8, <1>9, <1>10 DEF Next

LEMMA SenderStep ==
    ASSUME PasteTabTypeOK, FlagInv, PasteTabTypeOK', FlagInv', [Next]_vars
    PROVE  [Sender!Next]_<<Cardinality(Under("POST")), Arrived("msg-create-success")>>
<1> DEFINE n == Cardinality(Under("POST"))
           done == Arrived("msg-create-success")
<1>1. /\ n = IF page = "new" /\ Busy THEN 1 ELSE 0
      /\ n' = IF page' = "new" /\ Busy' THEN 1 ELSE 0
  BY CountNow, CountNext
<1>2. (done => page = "new") /\ (done' => page' = "new") /\ (done <=> Created) /\ (done' <=> Created')
  BY DEF FlagInv, Endings, Created
<1>3. done \in BOOLEAN /\ done' \in BOOLEAN
  BY DEF Arrived
<1> HIDE DEF n, done
<1>4. CASE Stays
  <2>1. n' = n /\ done' = done
    BY <1>1, <1>2, <1>3, <1>4 DEF Stays
  <2> QED
    BY <2>1 DEF n, done
<1>5. CASE Begins /\ page = "new"
  <2>1. n = 0 /\ done = FALSE /\ n' = 1 /\ done' = done
    BY <1>1, <1>2, <1>3, <1>5 DEF Begins
  <2> QED
    BY <2>1 DEF Sender!Next, Sender!Begin, n, done
<1>6. CASE (Begins \/ Ends) /\ page # "new"
  <2>1. n = 0 /\ n' = n /\ done' = done
    BY <1>1, <1>2, <1>3, <1>6 DEF Begins, Ends
  <2> QED
    BY <2>1 DEF n, done
<1>7. CASE Ends /\ page = "new"
  <2>1. n = 1 /\ n' = 0 /\ (done' = done \/ done' = TRUE)
    BY <1>1, <1>2, <1>3, <1>7 DEF Ends
  <2> QED
    BY <2>1 DEF Sender!Next, Sender!Fail, Sender!Succeed, n, done
<1>8. CASE Restarts
  <2>1. n' = 0 /\ done' = FALSE
    BY <1>1, <1>2, <1>3, <1>8 DEF Restarts
  <2> QED
    BY <2>1 DEF Sender!Next, Sender!NewPage, n, done
<1> QED
  BY <1>4, <1>5, <1>6, <1>7, <1>8, Moves
LEMMA DeleterStep ==
    ASSUME PasteTabTypeOK, FlagInv, PasteTabTypeOK', FlagInv', [Next]_vars
    PROVE  [Deleter!Next]_<<Cardinality(Under("DELETE")), Arrived("msg-delete-success")>>
<1> DEFINE n == Cardinality(Under("DELETE"))
           done == Arrived("msg-delete-success")
<1>1. /\ n = IF page = "view" /\ Busy THEN 1 ELSE 0
      /\ n' = IF page' = "view" /\ Busy' THEN 1 ELSE 0
  BY CountNow, CountNext
<1>2. (done => page = "view") /\ (done' => page' = "view") /\ (done <=> Removed) /\ (done' <=> Removed')
  BY DEF FlagInv, Endings, Removed
<1>3. done \in BOOLEAN /\ done' \in BOOLEAN
  BY DEF Arrived
<1> HIDE DEF n, done
<1>4. CASE Stays
  <2>1. n' = n /\ done' = done
    BY <1>1, <1>2, <1>3, <1>4 DEF Stays
  <2> QED
    BY <2>1 DEF n, done
<1>5. CASE Begins /\ page = "view"
  <2>1. n = 0 /\ done = FALSE /\ n' = 1 /\ done' = done
    BY <1>1, <1>2, <1>3, <1>5 DEF Begins
  <2> QED
    BY <2>1 DEF Deleter!Next, Deleter!Begin, n, done
<1>6. CASE (Begins \/ Ends) /\ page # "view"
  <2>1. n = 0 /\ n' = n /\ done' = done
    BY <1>1, <1>2, <1>3, <1>6 DEF Begins, Ends
  <2> QED
    BY <2>1 DEF n, done
<1>7. CASE Ends /\ page = "view"
  <2>1. n = 1 /\ n' = 0 /\ (done' = done \/ done' = TRUE)
    BY <1>1, <1>2, <1>3, <1>7 DEF Ends
  <2> QED
    BY <2>1 DEF Deleter!Next, Deleter!Fail, Deleter!Succeed, n, done
<1>8. CASE Restarts
  <2>1. n' = 0 /\ done' = FALSE
    BY <1>1, <1>2, <1>3, <1>8 DEF Restarts
  <2> QED
    BY <2>1 DEF Deleter!Next, Deleter!NewPage, n, done
<1> QED
  BY <1>4, <1>5, <1>6, <1>7, <1>8, Moves

LEMMA RequestsInit ==
    ASSUME Init
    PROVE  Sender!Init /\ Deleter!Init
<1>1. \A s \in Slots : ~Live(s)
  BY DEF Init, Live, Free
<1>2. Under("POST") = {} /\ Under("DELETE") = {}
  BY <1>1 DEF Under
<1>3. Cardinality(Under("POST")) = 0 /\ Cardinality(Under("DELETE")) = 0
  BY <1>2, FS_EmptySet
<1>4. Arrived("msg-create-success") = FALSE /\ Arrived("msg-delete-success") = FALSE
  BY DEF Init, Arrived
<1> QED
  BY <1>3, <1>4 DEF Sender!Init, Deleter!Init

(* OnlyOnePost: the page implements OneRequest with its POSTs: clicks on   *)
(* both buttons in any order never put two under way, nor one after the    *)
(* paste was created.                                                      *)
THEOREM OnlyOnePost == Spec => OnePost
<1>1. Init => Sender!Init
  BY RequestsInit
<1>2. PasteTabTypeOK /\ FlagInv /\ PasteTabTypeOK' /\ FlagInv' /\ [Next]_vars
      => [Sender!Next]_<<Cardinality(Under("POST")), Arrived("msg-create-success")>>
  BY SenderStep
<1> QED
  BY <1>1, <1>2, Invariance, PTL DEF Spec, OnePost, Sender!Spec

(* OnlyOneDelete: the same for its DELETEs.                                *)
THEOREM OnlyOneDelete == Spec => OneDelete
<1>1. Init => Deleter!Init
  BY RequestsInit
<1>2. PasteTabTypeOK /\ FlagInv /\ PasteTabTypeOK' /\ FlagInv' /\ [Next]_vars
      => [Deleter!Next]_<<Cardinality(Under("DELETE")), Arrived("msg-delete-success")>>
  BY DeleterStep
<1> QED
  BY <1>1, <1>2, Invariance, PTL DEF Spec, OneDelete, Deleter!Spec

-----------------------------------------------------------------------------
(* What is stored.  A request that is sent carries the form of its click.  *)

Carries(r) ==
    r.kind = "POST" =>
        /\ r.stage # "answered" => r.options = r.entered.options
        /\ r.stage = "sealing" => r.entered.pass # NoPass
        /\ r.stage = "sent" => /\ r.body = [text |-> r.entered.text, key |-> r.entered.pass]
                               /\ r.encrypted <=> r.entered.pass # NoPass
Carried == \A s \in Slots : ~Free(s) => Carries(req[s])

LEMMA CarriedWrite ==
    ASSUME PasteTabTypeOK, Carried, NEW s \in Slots, NEW r, req' = [req EXCEPT ![s] = r],
           r # None => Carries(r)
    PROVE  Carried'
<1>1. ASSUME NEW t \in Slots, ~Free(t)' PROVE Carries(req'[t])
  <2>1. CASE t = s
    <3>1. req'[t] = r
      BY <2>1, Changed
    <3> QED
      BY <1>1, <3>1 DEF Free
  <2>2. CASE t # s
    BY <1>1, <2>2, Changed DEF Carried
  <2> QED
    BY <2>1, <2>2
<1> QED
  BY <1>1 DEF Carried, Carries

LEMMA CarriedStep == PasteTabTypeOK /\ Carried /\ [Next]_vars => Carried'
<1> SUFFICES ASSUME PasteTabTypeOK, Carried, [Next]_vars PROVE Carried'
  OBVIOUS
<1> USE DEF server, flags
<1>1. CASE UNCHANGED req
  BY <1>1 DEF Carried, Carries, Free
<1>2. CASE Edit \/ ShowDialogue \/ HideDialogue \/ UNCHANGED vars
  BY <1>1, <1>2 DEF Edit, ShowDialogue, HideDialogue, vars
<1>3. CASE confirmDelete
  <2> DEFINE r == [Post(form, "sent") EXCEPT !.kind = "DELETE", !.id = viewed]
  <2>1. PICK s \in Slots : req' = [req EXCEPT ![s] = r]
    BY <1>3 DEF confirmDelete
  <2>2. r.kind = "DELETE"
    <3>1. Post(form, "sent") \in Requests
      BY PostType DEF PasteTabTypeOK
    <3> QED
      BY <3>1 DEF Requests
  <2> HIDE DEF r
  <2> QED
    BY <2>1, <2>2, CarriedWrite DEF Carries
<1>4. ASSUME NEW button \in {"sidebar", "top"}, handleSend(button) PROVE Carried'
  <2> DEFINE stage == IF form.pass = NoPass THEN "sent" ELSE "sealing"
  <2>1. PICK s \in Slots : req' = [req EXCEPT ![s] = Post(form, stage)]
    BY <1>4 DEF handleSend
  <2>2. Carries(Post(form, stage))
    BY DEF Carries, Post
  <2> HIDE DEF stage
  <2> QED
    BY <2>1, <2>2, CarriedWrite
<1>5. ASSUME NEW s \in Slots, Sealed(s) PROVE Carried'
  <2> DEFINE r == [req[s] EXCEPT !.stage = "sent", !.encrypted = TRUE, !.body = SealedBody(req[s])]
  <2>1. req[s] \in Requests
    BY <1>5 DEF Sealed, Free, PasteTabTypeOK
  <2>2. /\ r.stage = "sent" /\ r.encrypted /\ r.body = SealedBody(req[s])
        /\ r.entered = req[s].entered /\ r.kind = req[s].kind /\ r.options = req[s].options
    BY <2>1 DEF Requests
  <2> HIDE DEF r
  <2>3. Carries(r)
    BY <1>5, <2>2 DEF Sealed, SealedBody, Carried, Carries
  <2>4. req' = [req EXCEPT ![s] = r]
    BY <1>5 DEF Sealed, r
  <2> QED
    BY <2>3, <2>4, CarriedWrite
<1>7. ASSUME NEW s \in Slots, ServerPost(s) \/ ServerDelete(s) PROVE Carried'
  <2>1. req[s] \in Requests
    BY <1>7 DEF ServerPost, ServerDelete, Free, PasteTabTypeOK
  <2>2. PICK status, id, did : Answer(s, status, id, did)
    BY <1>7 DEF ServerPost, ServerDelete
  <2> DEFINE answered == [req[s] EXCEPT !.stage = "answered", !.status = status, !.id = id, !.did = did]
             r == IF req[s].live THEN answered ELSE None
  <2>3. answered.stage = "answered"
    BY <2>1 DEF Requests
  <2>4. req' = [req EXCEPT ![s] = r]
    BY <2>2 DEF Answer
  <2> HIDE DEF answered
  <2>5. r # None => Carries(r)
    BY <2>3 DEF Carries
  <2> HIDE DEF r
  <2> QED
    BY <2>4, <2>5, CarriedWrite
<1>8. ASSUME NEW s \in Slots, SealFails(s) \/ NeverSent(s) \/ Refused(s) \/ Succeeds(s) PROVE Carried'
  BY <1>8, CarriedWrite DEF SealFails, NeverSent, Refused, Succeeds
<1>9. ASSUME NEW s \in Slots, req[s] \in Requests, Carries(req[s])
      PROVE  Carries([req[s] EXCEPT !.live = FALSE])
  <2> DEFINE r == [req[s] EXCEPT !.live = FALSE]
  <2>1. /\ r.stage = req[s].stage /\ r.encrypted = req[s].encrypted /\ r.body = req[s].body
        /\ r.entered = req[s].entered /\ r.kind = req[s].kind /\ r.options = req[s].options
    BY <1>9 DEF Requests
  <2> HIDE DEF r
  <2>2. Carries(r)
    BY <1>9, <2>1 DEF Carries
  <2> QED
    BY <2>2 DEF r
<1>10. ASSUME NEW s \in Slots, NetworkError(s) PROVE Carried'
  <2>1. Carries([req[s] EXCEPT !.live = FALSE])
    BY <1>9, <1>10 DEF NetworkError, Live, Free, PasteTabTypeOK, Carried
  <2>2. PICK r \in {None, [req[s] EXCEPT !.live = FALSE]} : req' = [req EXCEPT ![s] = r]
    BY <1>10 DEF NetworkError
  <2> QED
    BY <2>1, <2>2, CarriedWrite
<1>11. CASE Leave \/ Visit \/ Back
  <2>1. req' = Orphans
    BY <1>11 DEF Leave, Visit, Back, FreshPage
  <2>2. ASSUME NEW s \in Slots, ~Free(s)' PROVE Carries(req'[s])
    <3>1. ~Free(s) /\ req'[s] = [req[s] EXCEPT !.live = FALSE]
      BY <2>1, <2>2 DEF Orphans, Free
    <3>2. req[s] \in Requests /\ Carries(req[s])
      BY <3>1 DEF PasteTabTypeOK, Free, Carried
    <3> QED
      BY <1>9, <3>1, <3>2
  <2> QED
    BY <2>2 DEF Carried, Carries
<1> QED
  BY <1>2, <1>3, <1>4, <1>5, <1>7, <1>8, <1>10, <1>11 DEF Next

LEMMA StoredStep == PasteTabTypeOK /\ Carried /\ SentAsEntered /\ [Next]_vars => SentAsEntered'
<1> SUFFICES ASSUME PasteTabTypeOK, Carried, SentAsEntered, [Next]_vars PROVE SentAsEntered'
  OBVIOUS
<1> USE DEF server, flags
<1>1. CASE UNCHANGED stored
  BY <1>1 DEF SentAsEntered
<1>2. ASSUME NEW s \in Slots, ServerPost(s) PROVE SentAsEntered'
  <2>1. CASE UNCHANGED stored
    BY <1>1, <2>1
  <2>2. CASE stored' # stored
    <3> DEFINE p == [body |-> req[s].body, encrypted |-> req[s].encrypted,
                     options |-> req[s].options, entered |-> req[s].entered]
    <3>1. PICK i \in Ids : stored' = [stored EXCEPT ![i] = p]
      BY <1>2, <2>2 DEF ServerPost
    <3>2. /\ p.body = [text |-> p.entered.text, key |-> p.entered.pass]
          /\ p.encrypted <=> p.entered.pass # NoPass
          /\ p.options = p.entered.options
      BY <1>2 DEF ServerPost, Carried, Carries
    <3> HIDE DEF p
    <3>3. ASSUME NEW k \in Ids PROVE stored'[k] = IF k = i THEN p ELSE stored[k]
      BY <3>1 DEF PasteTabTypeOK
    <3> QED
      BY <3>2, <3>3 DEF SentAsEntered
  <2> QED
    BY <2>1, <2>2
<1>3. ASSUME NEW s \in Slots, ServerDelete(s) PROVE SentAsEntered'
  <2>1. ASSUME NEW k \in Ids PROVE stored'[k] \in {None, stored[k]}
    BY <1>3 DEF ServerDelete, PasteTabTypeOK
  <2> QED
    BY <2>1 DEF SentAsEntered
<1> QED
  BY <1>1, <1>2, <1>3 DEF Next, Edit, ShowDialogue, HideDialogue, vars, confirmDelete, handleSend,
     Sealed, SealFails, NeverSent, Refused, Succeeds, NetworkError, Leave, Visit, Back

(* StoredAsEntered: what the server holds is the form of the click that    *)
(* sent it, encrypted if and only if it had a password then, whatever was  *)
(* typed, left or sent meanwhile.                                          *)
THEOREM StoredAsEntered == Spec => []SentAsEntered
<1>1. Init => Carried /\ SentAsEntered
  BY DEF Init, Carried, SentAsEntered, Free
<1> QED
  BY <1>1, Invariance, CarriedStep, StoredStep, PTL DEF Spec

-----------------------------------------------------------------------------
(* The messages.  What an answer says is so in the server's pastes (db),   *)
(* and stays so because a used id (ids) is not used again.                 *)

(* Under the id is the paste of the form, or none any more. *)
OwnPaste(id, f, db, ids) == id \in ids /\ (db[id] = None \/ db[id].entered = f)
MayBe400(f) == (f.text = Empty /\ f.pass = NoPass) \/ f.options \in MisreadOptions

Honest(r, db, ids) ==
    /\ r.kind = "DELETE" => r.id \in ids
    /\ r.kind = "POST" /\ r.stage = "answered" =>
          /\ r.status # 200
          /\ r.status = 201 => r.did = "stored" /\ OwnPaste(r.id, r.entered, db, ids)
          /\ r.status = 400 => MayBe400(r.entered)
          /\ r.status # 201 => r.did = "nothing" \/ r.status = 500
    /\ r.kind = "DELETE" /\ r.stage = "answered" =>
          /\ r.status # 201
          /\ r.status = 200 => db[r.id] = None /\ r.did \in {"removed", "nothing"}
          /\ r.status # 200 => r.did = "nothing" \/ r.status = 500
HonestMsg(f, db, ids) ==
    /\ f.did \in Claims(f.msg) \/ Unknowing(f)
    /\ f.msg = "msg-create-success" => OwnPaste(f.id, f.entered, db, ids)
    /\ f.msg = "msg-delete-success" => f.id \in ids /\ db[f.id] = None
    /\ f.msg = "msg-empty-paste" => MayBe400(f.entered)

Used == (\A i \in Ids : stored[i] # None => i \in drawn) /\ (page = "view" => viewed \in drawn)
HonestReqs == \A s \in Slots : ~Free(s) => Honest(req[s], stored, drawn)
HonestNav == nav # None => HonestMsg(nav, stored, drawn)
TellInv == Used /\ HonestReqs /\ HonestNav

(* OnlyGone: the server takes only ids that were never drawn.              *)
LEMMA OnlyGone ==
    ASSUME PasteTabTypeOK, Used, [Next]_vars
    PROVE  /\ drawn \subseteq drawn' /\ drawn' \subseteq Ids
           /\ \A i \in drawn : stored'[i] \in {None, stored[i]}
           /\ \A i \in Ids : stored'[i] # None => i \in drawn'
<1> USE DEF server, flags
<1>1. CASE UNCHANGED <<stored, drawn>>
  BY <1>1 DEF Used, PasteTabTypeOK
<1>2. ASSUME NEW s \in Slots, ServerPost(s), ~UNCHANGED <<stored, drawn>>
      PROVE  /\ drawn \subseteq drawn' /\ drawn' \subseteq Ids
             /\ \A i \in drawn : stored'[i] \in {None, stored[i]}
             /\ \A i \in Ids : stored'[i] # None => i \in drawn'
  <2>1. PICK i \in Ids \ drawn : /\ \E p : stored' = [stored EXCEPT ![i] = p]
                                 /\ drawn' = drawn \cup {i}
    BY <1>2 DEF ServerPost
  <2>2. \A k \in Ids : k # i => stored'[k] = stored[k]
    BY <2>1 DEF PasteTabTypeOK
  <2> QED
    BY <2>1, <2>2 DEF Used, PasteTabTypeOK
<1>3. ASSUME NEW s \in Slots, ServerDelete(s)
      PROVE  /\ drawn \subseteq drawn' /\ drawn' \subseteq Ids
             /\ \A i \in drawn : stored'[i] \in {None, stored[i]}
             /\ \A i \in Ids : stored'[i] # None => i \in drawn'
  <2>1. UNCHANGED drawn /\ \A k \in Ids : stored'[k] \in {None, stored[k]}
    BY <1>3 DEF ServerDelete, PasteTabTypeOK
  <2> QED
    BY <2>1 DEF Used, PasteTabTypeOK
<1>4. CASE Edit \/ ShowDialogue \/ HideDialogue \/ confirmDelete \/ Leave \/ Visit \/ Back \/ UNCHANGED vars
  BY <1>1, <1>4 DEF Edit, ShowDialogue, HideDialogue, confirmDelete, Leave, Visit, Back, vars
<1>5. ASSUME NEW button \in {"sidebar", "top"}, handleSend(button) PROVE UNCHANGED <<stored, drawn>>
  BY <1>5 DEF handleSend
<1>6. ASSUME NEW s \in Slots,
             Sealed(s) \/ SealFails(s) \/ NeverSent(s) \/ Refused(s) \/ Succeeds(s) \/ NetworkError(s)
      PROVE  UNCHANGED <<stored, drawn>>
  BY <1>6 DEF Sealed, SealFails, NeverSent, Refused, Succeeds, NetworkError
<1> QED
  BY <1>1, <1>2, <1>3, <1>4, <1>5, <1>6 DEF Next

(* StaysHonest: what was so of an answer or a message remains so.          *)
LEMMA StaysHonest ==
    ASSUME PasteTabTypeOK, Used, [Next]_vars, NEW x
    PROVE  /\ Honest(x, stored, drawn) => Honest(x, stored', drawn')
           /\ HonestMsg(x, stored, drawn) => HonestMsg(x, stored', drawn')
<1>1. Honest(x, stored, drawn) => Honest(x, stored', drawn')
  BY OnlyGone DEF Honest, OwnPaste
<1>2. HonestMsg(x, stored, drawn) => HonestMsg(x, stored', drawn')
  BY OnlyGone DEF HonestMsg, OwnPaste
<1> QED
  BY <1>1, <1>2

(* OneWrite: a step that writes one honest request, and keeps the message. *)
LEMMA OneWrite ==
    ASSUME PasteTabTypeOK, TellInv, [Next]_vars, NEW s \in Slots, NEW r,
           req' = [req EXCEPT ![s] = r], r # None => Honest(r, stored', drawn')
    PROVE  HonestReqs'
<1>1. ASSUME NEW t \in Slots, ~Free(t)' PROVE Honest(req'[t], stored', drawn')
  <2>1. CASE t = s
    <3>1. req'[t] = r
      BY <2>1, Changed
    <3> QED
      BY <1>1, <3>1 DEF Free
  <2>2. CASE t # s
    <3>1. req'[t] = req[t] /\ ~Free(t)
      BY <1>1, <2>2, Changed
    <3> QED
      BY <3>1, StaysHonest DEF TellInv, HonestReqs
  <2> QED
    BY <2>1, <2>2
<1> QED
  BY <1>1 DEF HonestReqs

Reply(r, status, id, did) ==
    [r EXCEPT !.stage = "answered", !.status = status, !.id = id, !.did = did]

(* Answered: what the server says of a request.                            *)
LEMMA Answered ==
    ASSUME PasteTabTypeOK, Carried, TellInv, [Next]_vars, NEW s \in Slots,
           ServerPost(s) \/ ServerDelete(s)
    PROVE  HonestReqs'
<1>1. req[s] \in Requests /\ ~Free(s) /\ Honest(req[s], stored, drawn)
  BY DEF ServerPost, ServerDelete, Free, PasteTabTypeOK, TellInv, HonestReqs
<1>2. ASSUME NEW status \in 0 .. 599, NEW id \in Ids \cup {None}, NEW did \in Deeds,
             Answer(s, status, id, did), Honest(Reply(req[s], status, id, did), stored', drawn')
      PROVE  HonestReqs'
  <2> DEFINE r == IF req[s].live THEN Reply(req[s], status, id, did) ELSE None
  <2>1. req' = [req EXCEPT ![s] = r]
    BY <1>2 DEF Answer, Reply
  <2>2. r # None => Honest(r, stored', drawn')
    BY <1>2
  <2> HIDE DEF r
  <2> QED
    BY <2>1, <2>2, OneWrite
<1>3. CASE ServerPost(s)
  <2>1. req[s].kind = "POST" /\ Carries(req[s]) /\ req[s].stage = "sent"
    BY <1>1, <1>3 DEF ServerPost, Carried
  <2>2. CASE \E i \in Ids \ drawn, status \in {201, 500} :
                /\ Answer(s, status, i, "stored")
                /\ \E p : p.entered = req[s].entered /\ stored' = [stored EXCEPT ![i] = p]
                /\ drawn' = drawn \cup {i}
    <3>1. PICK i \in Ids \ drawn, status \in {201, 500} :
             /\ Answer(s, status, i, "stored")
             /\ \E p : p.entered = req[s].entered /\ stored' = [stored EXCEPT ![i] = p]
             /\ drawn' = drawn \cup {i}
      BY <2>2
    <3>2. OwnPaste(i, req[s].entered, stored', drawn')
      BY <3>1 DEF OwnPaste, PasteTabTypeOK
    <3> DEFINE r == Reply(req[s], status, i, "stored")
    <3>3. /\ r.kind = "POST" /\ r.status = status /\ r.did = "stored"
          /\ r.id = i /\ r.entered = req[s].entered
      BY <1>1, <2>1 DEF Requests, Reply
    <3> HIDE DEF r
    <3>4. Honest(r, stored', drawn')
      BY <3>1, <3>2, <3>3 DEF Honest
    <3>5. Answer(s, status, i, "stored") /\ status \in 0 .. 599 /\ "stored" \in Deeds
      BY <3>1 DEF Deeds
    <3> QED
      BY <1>2, <3>4, <3>5 DEF r
  <2>3. CASE \E status \in Refusals(s) : Answer(s, status, None, "nothing")
    <3>1. PICK status \in {400, 413, 429, 503, 500} :
             /\ Answer(s, status, None, "nothing")
             /\ status = 400 => req[s].body = NoBody \/ Misread(s)
      BY <2>3 DEF Refusals
    <3>2. status = 400 => MayBe400(req[s].entered)
      <4>1. /\ req[s].body = [text |-> req[s].entered.text, key |-> req[s].entered.pass]
            /\ req[s].options = req[s].entered.options
        BY <2>1 DEF Carries
      <4> QED
        BY <3>1, <4>1 DEF MayBe400, NoBody, Misread
    <3> DEFINE r == Reply(req[s], status, None, "nothing")
    <3>3. r.kind = "POST" /\ r.entered = req[s].entered /\ r.status = status /\ r.did = "nothing"
      BY <1>1, <2>1 DEF Requests, Reply
    <3> HIDE DEF r
    <3>4. Honest(r, stored', drawn')
      BY <3>1, <3>2, <3>3 DEF Honest
    <3>5. Answer(s, status, None, "nothing") /\ status \in 0 .. 599 /\ "nothing" \in Deeds
      BY <3>1 DEF Deeds
    <3> QED
      BY <1>2, <3>4, <3>5 DEF r
  <2>4. [body |-> req[s].body, encrypted |-> req[s].encrypted, options |-> req[s].options,
         entered |-> req[s].entered].entered = req[s].entered
    OBVIOUS
  <2> QED
    BY <1>3, <2>2, <2>3, <2>4 DEF ServerPost
<1>4. CASE ServerDelete(s)
  <2>1. req[s].kind = "DELETE" /\ req[s].id \in drawn /\ req[s].id \in Ids /\ drawn' = drawn
    BY <1>1, <1>4 DEF ServerDelete, Honest, PasteTabTypeOK
  <2>2. PICK status \in {200, 403, 429, 500}, did \in {"removed", "nothing"} :
           /\ Answer(s, status, req[s].id, did)
           /\ status = 200 => stored'[req[s].id] = None
           /\ status \in {403, 429} => did = "nothing"
    BY <1>4, <2>1 DEF ServerDelete, Deeds, PasteTabTypeOK
  <2> DEFINE r == Reply(req[s], status, req[s].id, did)
  <2>3. r.kind = "DELETE" /\ r.id = req[s].id /\ r.status = status /\ r.did = did
    BY <1>1, <2>1 DEF Requests, Reply
  <2> HIDE DEF r
  <2>4. Honest(r, stored', drawn')
    BY <2>1, <2>2, <2>3 DEF Honest
  <2> QED
    BY <1>2, <2>1, <2>2, <2>4 DEF r, Deeds
<1> QED
  BY <1>3, <1>4

(* Shown: what the script says of an honest answer, or of none (read 0).   *)
LEMMA Shown ==
    ASSUME NEW r \in Requests, NEW db, NEW ids, Honest(r, db, ids), NEW msg, NEW read,
           \/ /\ r.stage = "answered" /\ r.status \notin {200, 201} /\ read = r.status
              /\ msg = IF r.kind = "POST" THEN errorMsgForStatus(r.status) ELSE deleteMsg(r.status)
           \/ /\ r.stage = "answered" /\ r.status \in {200, 201} /\ read = r.status
              /\ msg = IF r.kind = "POST" THEN "msg-create-success" ELSE "msg-delete-success"
           \/ /\ msg = IF r.kind = "POST" THEN "msg-network-error" ELSE "msg-delete-failed"
              /\ read = 0
    PROVE  HonestMsg(Flash(msg, r, read), db, ids)
<1> DEFINE f == Flash(msg, r, read)
<1>1. r.kind \in {"POST", "DELETE"}
  BY DEF Requests
<1>2. f.msg = msg /\ f.id = r.id /\ f.did = r.did /\ f.read = read /\ f.entered = r.entered
  BY DEF Flash
<1> SUFFICES HonestMsg(f, db, ids)
  OBVIOUS
<1> HIDE DEF f
<1>3. CASE r.kind = "POST" /\ r.stage = "answered" /\ r.status \notin {200, 201} /\ read = r.status
           /\ msg = errorMsgForStatus(r.status)
  <2>1. CASE r.status \in {400, 413, 429, 503}
    <3>1. /\ msg \in {"msg-empty-paste", "msg-too-large", "msg-rate-limit", "msg-server-busy"}
          /\ msg = "msg-empty-paste" => r.status = 400
      BY <1>3, <2>1 DEF errorMsgForStatus
    <3> QED
      BY <1>2, <1>3, <2>1, <3>1 DEF Honest, HonestMsg, Claims
  <2>2. CASE r.status \notin {400, 413, 429, 503}
    <3>1. msg = "msg-create-failed-http"
      BY <1>3, <2>2 DEF errorMsgForStatus
    <3> QED
      BY <1>2, <1>3, <3>1 DEF Honest, HonestMsg, Claims, Unknowing, Failures
  <2> QED
    BY <2>1, <2>2
<1>4. CASE r.kind = "DELETE" /\ r.stage = "answered" /\ r.status \notin {200, 201} /\ read = r.status
           /\ msg = deleteMsg(r.status)
  BY <1>2, <1>4 DEF Honest, HonestMsg, deleteMsg, Claims, Unknowing, Failures
<1>5. CASE r.stage = "answered" /\ r.status \in {200, 201}
           /\ msg = IF r.kind = "POST" THEN "msg-create-success" ELSE "msg-delete-success"
  BY <1>1, <1>2, <1>5 DEF Honest, HonestMsg, Claims
<1>6. CASE read = 0 /\ msg = IF r.kind = "POST" THEN "msg-network-error" ELSE "msg-delete-failed"
  BY <1>1, <1>2, <1>6 DEF HonestMsg, Unknowing, Failures
<1> QED
  BY <1>1, <1>3, <1>4, <1>5, <1>6

LEMMA TellStep == PasteTabTypeOK /\ Carried /\ TellInv /\ [Next]_vars => TellInv'
<1> SUFFICES ASSUME PasteTabTypeOK, Carried, TellInv, [Next]_vars PROVE TellInv'
  OBVIOUS
<1> USE DEF server, flags
<1>1. Used'
  <2>1. \A i \in Ids : stored'[i] # None => i \in drawn'
    BY OnlyGone DEF TellInv
  <2>2. page' = "view" => viewed' \in drawn'
    <3>1. CASE UNCHANGED <<page, viewed>>
      BY <3>1, OnlyGone DEF TellInv, Used
    <3>2. CASE Leave \/ Visit \/ Back
      BY <2>1, <3>2 DEF Leave, Visit, Back, FreshPage
    <3> QED
      BY <3>1, <3>2 DEF Next, Edit, ShowDialogue, HideDialogue, vars, confirmDelete, handleSend,
         Sealed, SealFails, NeverSent, ServerPost, ServerDelete, Refused, Succeeds, NetworkError
  <2> QED
    BY <2>1, <2>2 DEF Used
<1>2. ASSUME UNCHANGED req PROVE HonestReqs'
  <2>1. ASSUME NEW s \in Slots, ~Free(s) PROVE Honest(req[s], stored', drawn')
    BY <2>1, StaysHonest DEF TellInv, HonestReqs
  <2> QED
    BY <1>2, <2>1 DEF HonestReqs, Free
<1>3. ASSUME UNCHANGED nav PROVE HonestNav'
  <2>1. nav # None => HonestMsg(nav, stored', drawn')
    BY StaysHonest DEF TellInv, HonestNav
  <2> QED
    BY <1>3, <2>1 DEF HonestNav
<1>4. CASE Edit \/ ShowDialogue \/ HideDialogue \/ UNCHANGED vars
  BY <1>1, <1>2, <1>3, <1>4 DEF Edit, ShowDialogue, HideDialogue, vars, TellInv
<1>5. ASSUME NEW s \in Slots, NEW r, req' = [req EXCEPT ![s] = r],
             r # None => Honest(r, stored', drawn')
      PROVE  HonestReqs'
  BY <1>5, OneWrite
<1>6. CASE confirmDelete
  <2> DEFINE r == [Post(form, "sent") EXCEPT !.kind = "DELETE", !.id = viewed]
  <2>1. PICK s \in Slots : req' = [req EXCEPT ![s] = r]
    BY <1>6 DEF confirmDelete
  <2>2. r.kind = "DELETE" /\ r.id = viewed /\ r.stage = "sent"
    <3>1. Post(form, "sent") \in Requests /\ Post(form, "sent").stage = "sent"
      BY PostType DEF PasteTabTypeOK, Post
    <3> QED
      BY <3>1 DEF Requests
  <2> HIDE DEF r
  <2>3. Honest(r, stored', drawn')
    BY <1>6, <2>2, OnlyGone DEF Honest, TellInv, Used, confirmDelete
  <2> QED
    BY <1>1, <1>3, <1>5, <1>6, <2>1, <2>3 DEF confirmDelete, TellInv
<1>7. ASSUME NEW button \in {"sidebar", "top"}, handleSend(button) PROVE TellInv'
  <2> DEFINE stage == IF form.pass = NoPass THEN "sent" ELSE "sealing"
  <2>1. PICK s \in Slots : req' = [req EXCEPT ![s] = Post(form, stage)]
    BY <1>7 DEF handleSend
  <2>2. Honest(Post(form, stage), stored', drawn')
    BY DEF Honest, Post
  <2> HIDE DEF stage
  <2> QED
    BY <1>1, <1>3, <1>5, <1>7, <2>1, <2>2 DEF handleSend, TellInv
<1>8. ASSUME NEW s \in Slots, Sealed(s) PROVE TellInv'
  <2> DEFINE r == [req[s] EXCEPT !.stage = "sent", !.encrypted = TRUE, !.body = SealedBody(req[s])]
  <2>1. req[s] \in Requests /\ Honest(req[s], stored', drawn')
    BY <1>8, StaysHonest DEF Sealed, Free, PasteTabTypeOK, TellInv, HonestReqs
  <2>2. r.stage = "sent" /\ r.id = req[s].id /\ r.kind = req[s].kind
    BY <2>1 DEF Requests
  <2>3. req' = [req EXCEPT ![s] = r]
    BY <1>8 DEF Sealed
  <2> HIDE DEF r
  <2>4. Honest(r, stored', drawn')
    BY <2>1, <2>2 DEF Honest
  <2> QED
    BY <1>1, <1>3, <1>5, <1>8, <2>3, <2>4 DEF Sealed, TellInv
<1>9. ASSUME NEW s \in Slots, ServerPost(s) \/ ServerDelete(s) PROVE TellInv'
  BY <1>1, <1>3, <1>9, Answered DEF ServerPost, ServerDelete, TellInv
<1>10. ASSUME NEW s \in Slots, SealFails(s) \/ NeverSent(s) PROVE TellInv'
  BY <1>1, <1>3, <1>5, <1>10 DEF SealFails, NeverSent, TellInv
<1>11. ASSUME NEW s \in Slots, req[s] \in Requests, Honest(req[s], stored', drawn')
       PROVE  Honest([req[s] EXCEPT !.live = FALSE], stored', drawn')
  <2> DEFINE r == [req[s] EXCEPT !.live = FALSE]
  <2>1. /\ r.stage = req[s].stage /\ r.kind = req[s].kind /\ r.id = req[s].id
        /\ r.status = req[s].status /\ r.did = req[s].did /\ r.entered = req[s].entered
    BY <1>11 DEF Requests
  <2> HIDE DEF r
  <2>2. Honest(r, stored', drawn')
    BY <1>11, <2>1 DEF Honest
  <2> QED
    BY <2>2 DEF r
<1>12. ASSUME NEW s \in Slots, Refused(s) \/ Succeeds(s) \/ NetworkError(s) PROVE TellInv'
  <2>1. req[s] \in Requests /\ Honest(req[s], stored', drawn')
    BY <1>12, StaysHonest DEF Refused, Succeeds, NetworkError, Live, Free, PasteTabTypeOK, TellInv, HonestReqs
  <2>2. PICK r \in {None, [req[s] EXCEPT !.live = FALSE]} : req' = [req EXCEPT ![s] = r]
    BY <1>12 DEF Refused, Succeeds, NetworkError
  <2>3. HonestReqs'
    BY <1>5, <1>11, <2>1, <2>2
  <2>4. HonestNav'
    BY <1>12, <2>1, Shown DEF Refused, Succeeds, NetworkError, Caught, HonestNav
  <2> QED
    BY <1>1, <2>3, <2>4 DEF TellInv
<1>13. CASE Leave \/ Visit \/ Back
  <2>1. req' = Orphans /\ nav' = None
    BY <1>13 DEF Leave, Visit, Back, FreshPage
  <2>2. ASSUME NEW s \in Slots, ~Free(s)' PROVE Honest(req'[s], stored', drawn')
    <3>1. ~Free(s) /\ req'[s] = [req[s] EXCEPT !.live = FALSE]
      BY <2>1, <2>2 DEF Orphans, Free
    <3>2. req[s] \in Requests /\ Honest(req[s], stored', drawn')
      BY <3>1, StaysHonest DEF PasteTabTypeOK, Free, TellInv, HonestReqs
    <3> QED
      BY <1>11, <3>1, <3>2
  <2> QED
    BY <1>1, <2>1, <2>2 DEF TellInv, HonestReqs, HonestNav
<1> QED
  BY <1>4, <1>6, <1>7, <1>8, <1>9, <1>10, <1>12, <1>13 DEF Next

(* MessagesTell: what a message says of its request is what the server did *)
(* and is still so, but for a failure shown without an answer or with a    *)
(* 500, and a ttl the server cannot read, which is called an empty paste;  *)
(* in any order of answers, losses and other tabs' deletions.              *)
THEOREM MessagesTell == Spec => []FlashTells
<1>1. Init => Carried /\ TellInv
  BY DEF Init, Carried, TellInv, Used, HonestReqs, HonestNav, Free
<1>2. TellInv => FlashTells
  BY DEF TellInv, HonestNav, HonestMsg, OwnPaste, MayBe400, FlashTells, Tells
<1> QED
  BY <1>1, <1>2, Invariance, CarriedStep, TellStep, PTL DEF Spec
=============================================================================
