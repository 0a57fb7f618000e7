------------------------------ MODULE PasteTab ------------------------------
(***************************************************************************)
(* One browser tab: the page for a new paste with its two send buttons,    *)
(* the page of a paste with its deletion dialogue, and the navigation to a *)
(* flash message that ends each request (custom.js).  The server and the   *)
(* network answer as they like, lose an answer, or work on a request whose *)
(* page has gone.                                                          *)
(*                                                                         *)
(* A flash message is a kind; the page for a new paste displays it.        *)
(***************************************************************************)
EXTENDS Integers, FiniteSets

CONSTANTS
    Texts, Empty,      \* what the textarea may hold
    Passwords, NoPass, \* what the password field may hold
    Options,           \* lang, ttl, burn and protected, as one value
    ProtectedOptions,  \* those with protected=true
    MisreadOptions,    \* those whose ttl the server cannot read ("+300" in the menu)
    Forms,             \* bound: what is entered, of [text, pass, options]
    Blank,             \* the form of a fresh page
    Ids,               \* of pastes
    None,
    Slots,             \* bound: requests in the browser and on the network
    MaxVisits          \* bound: pages the user goes to unasked

ASSUME Fields ==
    /\ Empty \in Texts /\ NoPass \notin Passwords
    /\ ProtectedOptions \subseteq Options /\ MisreadOptions \subseteq Options
    /\ MaxVisits \in Nat
    /\ Forms \subseteq [text : Texts, pass : Passwords \cup {NoPass}, options : Options]
    /\ Blank \in Forms /\ Blank.text = Empty /\ Blank.pass = NoPass

Bodies == [text : Texts, key : Passwords \cup {NoPass}]
Pastes == [body : Bodies, encrypted : BOOLEAN, options : Options, entered : Forms]
Deeds  == {"nothing", "stored", "removed"}
Requests ==
    [kind : {"POST", "DELETE"}, stage : {"sealing", "sent", "answered"}, live : BOOLEAN,
     id : Ids \cup {None}, did : Deeds, status : 0 .. 599,
     body : Bodies, encrypted : BOOLEAN, options : Options, entered : Forms]
Messages == {"msg-create-success", "msg-empty-paste", "msg-too-large", "msg-rate-limit",
             "msg-server-busy", "msg-create-failed-http", "msg-network-error",
             "msg-delete-success", "msg-delete-protected", "msg-delete-failed-http",
             "msg-delete-failed"}
Flashes ==
    [msg : Messages, id : Ids \cup {None}, did : Deeds, read : 0 .. 599, entered : Forms]

ASSUME Absent ==
    None \notin Ids /\ None \notin Pastes /\ None \notin Requests /\ None \notin Flashes

VARIABLES
    secure,    \* is there a crypto.subtle? (not on plain HTTP)
    page,      \* "new" or "view"
    viewed,    \* the paste of a "view" page
    form,      \* the fields and state of a "new" page
    dialogue,  \* is the deletion dialogue open?
    sendInFlight, deleteInFlight,
    disabled,  \* the sidebar's send button; delete's is deleteInFlight
    req,       \* requests: of this page while live
    nav,       \* the flash message the page is about to leave for
    kept,      \* the new page the browser keeps for its back button, by sendInFlight
    stored,    \* the server's pastes
    drawn,     \* ids the server has used
    visits,    \* pages the user went to unasked
    hung,      \* history: this page's flag is set with no request to reset it
    awaiting   \* history: a click on send or delete that has had no answer

vars == <<secure, page, viewed, form, dialogue, sendInFlight, deleteInFlight, disabled,
          req, nav, kept, stored, drawn, visits, hung, awaiting>>

server == <<stored, drawn>>
\* What goes with the page.
flags == <<sendInFlight, deleteInFlight, disabled, hung>>

Init ==
    /\ secure \in BOOLEAN
    /\ page = "new" /\ viewed = None /\ form = Blank
    /\ dialogue = FALSE
    /\ sendInFlight = FALSE /\ deleteInFlight = FALSE /\ disabled = FALSE
    /\ req = [s \in Slots |-> None]
    /\ nav = None /\ kept = "none"
    /\ stored = [i \in Ids |-> None]
    /\ drawn = {}
    /\ visits = 0
    /\ hung = FALSE /\ awaiting = FALSE

-----------------------------------------------------------------------------
(* Sending. *)

Edit ==
    /\ page = "new"
    /\ \E f \in Forms \ {form} : form' = f
    /\ UNCHANGED <<secure, page, viewed, dialogue, flags, req, nav, kept, server, visits, awaiting>>

Free(s) == req[s] = None

(* The request of a click, its URI written then; entered is the form.      *)
Post(f, stage) ==
    [kind |-> "POST", stage |-> stage, live |-> TRUE, id |-> None, did |-> "nothing",
     status |-> 0, body |-> [text |-> f.text, key |-> NoPass], encrypted |-> FALSE,
     options |-> f.options, entered |-> f]

SendableAlways == TRUE  \* mutant: the flag is not asked
Sendable == ~sendInFlight

(* send-btn-sidebar is a button and heeds disabled, send-btn-top is not.   *)
handleSend(button) ==
    /\ page = "new"
    /\ button = "sidebar" => ~disabled
    /\ Sendable
    /\ sendInFlight' = TRUE /\ disabled' = TRUE
    /\ \E s \in Slots : Free(s) /\ req' = [req EXCEPT ![s] =
          Post(form, IF form.pass = NoPass THEN "sent" ELSE "sealing")]
    /\ awaiting' = TRUE
    /\ UNCHANGED <<secure, page, viewed, form, dialogue, deleteInFlight, nav, kept, server, visits, hung>>

SealedBodyLate(r) == [text |-> form.text, key |-> form.pass]  \* mutant: fields read after the await
SealedBodySwapped(r) == [text |-> r.entered.pass, key |-> r.entered.text]  \* mutant: arguments exchanged
SealedBody(r) == [text |-> r.entered.text, key |-> r.entered.pass]

(* aesEncrypt resolves; doSend. *)
Sealed(s) ==
    /\ ~Free(s) /\ req[s].stage = "sealing" /\ secure
    /\ req' = [req EXCEPT ![s].stage = "sent", ![s].encrypted = TRUE, ![s].body = SealedBody(req[s])]
    /\ UNCHANGED <<secure, page, viewed, form, dialogue, flags, nav, kept, server, visits, awaiting>>

(* aesEncrypt rejects, and nothing catches that. *)
SealFails(s) ==
    /\ ~Free(s) /\ req[s].stage = "sealing" /\ ~secure
    /\ req' = [req EXCEPT ![s] = None]
    /\ hung' = TRUE
    /\ UNCHANGED <<secure, page, viewed, form, dialogue, sendInFlight, deleteInFlight, disabled,
                   nav, kept, server, visits, awaiting>>

-----------------------------------------------------------------------------
(* Deleting. *)

(* remove-btn.  The page of a protected paste has the dialogue but no such  *)
(* button; here it may open all the same.                                  *)
ShowDialogue ==
    /\ page = "view" /\ ~dialogue
    /\ dialogue' = TRUE
    /\ UNCHANGED <<secure, page, viewed, form, flags, req, nav, kept, server, visits, awaiting>>

HideDialogue ==
    /\ dialogue
    /\ dialogue' = FALSE
    /\ UNCHANGED <<secure, page, viewed, form, flags, req, nav, kept, server, visits, awaiting>>

DeletableAlways == TRUE  \* mutant: neither the flag nor disabled
Deletable == ~deleteInFlight

confirmDelete ==
    /\ page = "view" /\ dialogue
    /\ Deletable
    /\ deleteInFlight' = TRUE
    /\ \E s \in Slots : Free(s) /\ req' = [req EXCEPT ![s] =
          [Post(form, "sent") EXCEPT !.kind = "DELETE", !.id = viewed]]
    /\ awaiting' = TRUE
    /\ UNCHANGED <<secure, page, viewed, form, dialogue, sendInFlight, disabled, nav, kept, server, visits, hung>>

-----------------------------------------------------------------------------
(* The server, and the network.  A request whose page has gone gets no     *)
(* answer.                                                                 *)

Answer(s, status, id, did) ==
    req' = [req EXCEPT ![s] =
        IF req[s].live THEN [@ EXCEPT !.stage = "answered", !.status = status, !.id = id, !.did = did]
        ELSE None]

NoBody == [text |-> Empty, key |-> NoPass]
Misread(s) == req[s].options \in MisreadOptions

(* The statuses that leave the database alone. *)
Refusals(s) ==
    IF req[s].body = NoBody THEN {400, 429}
    ELSE {413, 429, 503, 500} \cup IF Misread(s) THEN {400} ELSE {}

(* 500 may come after the INSERT. *)
ServerPost(s) ==
    /\ ~Free(s) /\ req[s].stage = "sent" /\ req[s].kind = "POST"
    /\ \/ /\ req[s].body # NoBody /\ ~Misread(s)
          /\ \E i \in Ids \ drawn, status \in {201, 500} :
                /\ stored' = [stored EXCEPT ![i] =
                      [body |-> req[s].body, encrypted |-> req[s].encrypted,
                       options |-> req[s].options, entered |-> req[s].entered]]
                /\ drawn' = drawn \cup {i}
                /\ Answer(s, status, i, "stored")
       \/ /\ \E status \in Refusals(s) : Answer(s, status, None, "nothing")
          /\ UNCHANGED server
    /\ UNCHANGED <<secure, page, viewed, form, dialogue, flags, nav, kept, visits, awaiting>>

(* A protected paste is refused, or removed if the feature has been        *)
(* switched off since.  500 may come after the DELETE.                     *)
ServerDelete(s) ==
    /\ ~Free(s) /\ req[s].stage = "sent" /\ req[s].kind = "DELETE"
    /\ \/ /\ stored[req[s].id] # None
          /\ \E status \in {200, 500} : Answer(s, status, req[s].id, "removed")
          /\ stored' = [stored EXCEPT ![req[s].id] = None]
       \/ /\ stored[req[s].id] = None
          /\ Answer(s, 200, req[s].id, "nothing")
          /\ UNCHANGED stored
       \/ /\ stored[req[s].id] # None
          /\ stored[req[s].id].options \in ProtectedOptions
          /\ Answer(s, 403, req[s].id, "nothing")
          /\ UNCHANGED stored
       \/ /\ \E status \in {429, 500} : Answer(s, status, req[s].id, "nothing")
          /\ UNCHANGED stored
    /\ UNCHANGED drawn
    /\ UNCHANGED <<secure, page, viewed, form, dialogue, flags, nav, kept, visits, awaiting>>

(* A request that never gets there. *)
NeverSent(s) ==
    /\ ~Free(s) /\ ~req[s].live
    /\ req' = [req EXCEPT ![s] = None]
    /\ UNCHANGED <<secure, page, viewed, form, dialogue, flags, nav, kept, server, visits, awaiting>>

-----------------------------------------------------------------------------
(* The answer in the browser. *)

errorMsgNoBreak(status) ==  \* mutant: 413 falls through to 400
    CASE status \in {400, 413} -> "msg-empty-paste"
      [] status = 429 -> "msg-rate-limit"
      [] status = 503 -> "msg-server-busy"
      [] OTHER        -> "msg-create-failed-http"
errorMsgForStatus(status) ==
    CASE status = 400 -> "msg-empty-paste"
      [] status = 413 -> "msg-too-large"
      [] status = 429 -> "msg-rate-limit"
      [] status = 503 -> "msg-server-busy"
      [] OTHER        -> "msg-create-failed-http"

deleteMsg(status) == IF status = 403 THEN "msg-delete-protected" ELSE "msg-delete-failed-http"

(* read is the status the script saw, 0 for none; id, did and entered are  *)
(* history, for FlashTells.                                                *)
Flash(msg, r, read) ==
    [msg |-> msg, id |-> r.id, did |-> r.did, read |-> read, entered |-> r.entered]

resetSendBtnHalf == sendInFlight' = FALSE /\ UNCHANGED disabled  \* mutant: the buttons stay disabled
resetSendBtn == sendInFlight' = FALSE /\ disabled' = FALSE
resetDeleteForgotten == UNCHANGED deleteInFlight  \* mutant: an error path without the reset
resetDelete == deleteInFlight' = FALSE
Reset(kind) ==
    \/ kind = "POST" /\ resetSendBtn /\ UNCHANGED deleteInFlight
    \/ kind = "DELETE" /\ resetDelete /\ UNCHANGED <<sendInFlight, disabled>>

Live(s) == ~Free(s) /\ req[s].live

(* !r.ok *)
Refused(s) ==
    /\ Live(s) /\ req[s].stage = "answered" /\ req[s].status \notin {200, 201}
    /\ Reset(req[s].kind)
    /\ nav' = Flash(IF req[s].kind = "POST" THEN errorMsgForStatus(req[s].status)
                    ELSE deleteMsg(req[s].status), req[s], req[s].status)
    /\ req' = [req EXCEPT ![s] = None]
    /\ UNCHANGED <<secure, page, viewed, form, dialogue, kept, server, visits, hung, awaiting>>

(* r.ok and the JSON is there.  The flag stays. *)
Succeeds(s) ==
    /\ Live(s) /\ req[s].stage = "answered" /\ req[s].status \in {200, 201}
    /\ nav' = Flash(IF req[s].kind = "POST" THEN "msg-create-success" ELSE "msg-delete-success",
                    req[s], req[s].status)
    /\ req' = [req EXCEPT ![s] = None]
    /\ UNCHANGED <<secure, page, viewed, form, dialogue, flags, kept, server, visits, awaiting>>

(* The catch: no answer, or r.json() fails.  The server may still be at it. *)
CaughtSilently(s) == UNCHANGED nav  \* mutant: an error without a message
Caught(s) ==
    nav' = Flash(IF req[s].kind = "POST" THEN "msg-network-error" ELSE "msg-delete-failed", req[s], 0)
NetworkError(s) ==
    /\ Live(s)
    /\ \/ req[s].stage = "sent" /\ \E r \in {None, [req[s] EXCEPT !.live = FALSE]} : req' = [req EXCEPT ![s] = r]
       \/ req[s].stage = "answered" /\ req' = [req EXCEPT ![s] = None]
    /\ Reset(req[s].kind)
    /\ Caught(s)
    /\ UNCHANGED <<secure, page, viewed, form, dialogue, kept, server, visits, hung, awaiting>>

-----------------------------------------------------------------------------
(* Navigation. *)

(* The page goes: what it was encrypting with it; a request may get there. *)
Orphans == [s \in Slots |->
    IF ~Free(s) /\ req[s].stage = "sent" THEN [req[s] EXCEPT !.live = FALSE] ELSE None]

(* The browser may keep a page that has no request under way. *)
Keep ==
    \/ /\ page = "new" /\ \A s \in Slots : ~Live(s)
       /\ kept' = IF sendInFlight THEN "inFlight" ELSE "idle"
    \/ kept' = "none"

FreshPage ==
    /\ viewed' \in Ids \cup {None}
    /\ page' = IF viewed' = None THEN "new" ELSE "view"
    /\ form' = Blank
    /\ dialogue' = FALSE
    /\ sendInFlight' = FALSE /\ deleteInFlight' = FALSE /\ disabled' = FALSE
    /\ hung' = FALSE /\ awaiting' = FALSE
    /\ req' = Orphans
    /\ nav' = None

(* The browser follows window.location.href. *)
Leave ==
    /\ nav # None
    /\ FreshPage /\ viewed' = None
    /\ Keep
    /\ UNCHANGED <<secure, server, visits>>

(* The user opens a new page, or that of a paste. *)
Visit ==
    /\ visits < MaxVisits /\ visits' = visits + 1
    /\ FreshPage
    /\ viewed' # None => stored[viewed'] # None
    /\ Keep
    /\ UNCHANGED <<secure, server>>

(* Back to a kept page, its script and some form as they were. *)
Back ==
    /\ kept # "none"
    /\ page' = "new" /\ viewed' = None /\ form' \in Forms
    /\ sendInFlight' = (kept = "inFlight") /\ disabled' = sendInFlight' /\ hung' = sendInFlight'
    /\ deleteInFlight' = FALSE /\ dialogue' = FALSE /\ awaiting' = FALSE
    /\ req' = Orphans
    /\ nav' = None /\ kept' = "none"
    /\ UNCHANGED <<secure, server, visits>>

Next ==
    \/ Edit \/ ShowDialogue \/ HideDialogue \/ confirmDelete
    \/ \E button \in {"sidebar", "top"} : handleSend(button)
    \/ \E s \in Slots : \/ Sealed(s) \/ SealFails(s)
                        \/ ServerPost(s) \/ ServerDelete(s) \/ NeverSent(s)
                        \/ Refused(s) \/ Succeeds(s) \/ NetworkError(s)
    \/ Leave \/ Visit \/ Back

Spec == Init /\ [][Next]_vars

(* The script runs, a fetch is answered or given up in the end, and the    *)
(* browser navigates where it is sent.                                     *)
Settle(s) == Sealed(s) \/ SealFails(s) \/ Refused(s) \/ Succeeds(s) \/ NetworkError(s)
FairSpec == Spec /\ WF_vars(Leave) /\ \A s \in Slots : WF_vars(Settle(s))

-----------------------------------------------------------------------------
(* The types of the variables (type invariant). *)
PasteTabTypeOK ==
    /\ secure \in BOOLEAN /\ page \in {"new", "view"}
    /\ viewed \in Ids \cup {None} /\ form \in Forms /\ dialogue \in BOOLEAN
    /\ sendInFlight \in BOOLEAN /\ deleteInFlight \in BOOLEAN /\ disabled \in BOOLEAN
    /\ req \in [Slots -> Requests \cup {None}]
    /\ nav \in Flashes \cup {None} /\ kept \in {"none", "idle", "inFlight"}
    /\ stored \in [Ids -> Pastes \cup {None}] /\ drawn \subseteq Ids
    /\ visits \in 0 .. MaxVisits
    /\ hung \in BOOLEAN /\ awaiting \in BOOLEAN

Under(kind) == {s \in Slots : Live(s) /\ req[s].kind = kind}
Arrived(msg) == nav # None /\ nav.msg = msg

(* The flag of the send buttons is set exactly while a request of this     *)
(* page is under way or after one has succeeded; no path through the       *)
(* handlers leaves it set, or resets it early, except a rejected           *)
(* encryption and the browser's back button.                               *)
SendFlagExact ==
    /\ sendInFlight <=> Under("POST") # {} \/ Arrived("msg-create-success") \/ hung
    /\ disabled = sendInFlight

(* The same for the deletion, without the exceptions. *)
DeleteFlagExact ==
    deleteInFlight <=> Under("DELETE") # {} \/ Arrived("msg-delete-success")

(* Clicks on either button at any moment, errors and navigation: a page    *)
(* has one POST under way at most, and none after its paste was created.   *)
Sender == INSTANCE OneRequest WITH
    pending <- Cardinality(Under("POST")), succeeded <- Arrived("msg-create-success")
OnePost == Sender!Spec

(* "prevents double-fire": the same for the DELETE of the dialogue. *)
Deleter == INSTANCE OneRequest WITH
    pending <- Cardinality(Under("DELETE")), succeeded <- Arrived("msg-delete-success")
OneDelete == Deleter!Spec

(* A stored paste is the form as it was when send was clicked, encrypted   *)
(* under the password of that moment if there was one, and marked so, no   *)
(* matter what was typed while the encryption ran.                         *)
SentAsEntered ==
    \A i \in Ids : stored[i] # None =>
        LET p == stored[i]
        IN  /\ p.body = [text |-> p.entered.text, key |-> p.entered.pass]
            /\ p.encrypted <=> p.entered.pass # NoPass
            /\ p.options = p.entered.options

(* What a message says the server did to the request: "deleted" is said of *)
(* a paste already gone too.                                               *)
Claims(msg) ==
    IF msg = "msg-create-success" THEN {"stored"}
    ELSE IF msg = "msg-delete-success" THEN {"removed", "nothing"} ELSE {"nothing"}

(* The messages that may be false, the only ones: shown when no answer was *)
(* read, or a 500, while the server had stored or removed the paste.       *)
Failures == {"msg-network-error", "msg-create-failed-http",
             "msg-delete-failed", "msg-delete-failed-http"}
Unknowing(f) == f.msg \in Failures /\ f.read \in {0, 500}

(* A message says what happened to its own request, however answers are    *)
(* lost or late: "created" of a paste that was stored, and under its id    *)
(* there is never another; "deleted" of one that is and stays gone;        *)
(* "empty" of an empty form, or, wrongly, of a ttl the server cannot read; *)
(* a refusal or failure after nothing was done, but for Failures without   *)
(* an answer or with a 500, which the server may have belied.              *)
Tells(f) ==
    /\ f.did \in Claims(f.msg) \/ Unknowing(f)
    /\ f.msg = "msg-create-success" => stored[f.id] = None \/ stored[f.id].entered = f.entered
    /\ f.msg = "msg-delete-success" => stored[f.id] = None
    /\ f.msg = "msg-empty-paste" =>
         \/ f.entered.text = Empty /\ f.entered.pass = NoPass
         \/ f.entered.options \in MisreadOptions
FlashTells == nav # None => Tells(nav)

(* Every click on send or delete ends in a message, unless the user goes   *)
(* elsewhere, or the encryption was rejected.                              *)
Told == awaiting ~> (~awaiting \/ hung)
=============================================================================
