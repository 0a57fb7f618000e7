------------------------------ MODULE PasteView ------------------------------
(***************************************************************************)
(* The page of one paste (custom.js): decryption in the browser, the       *)
(* language selector, the scripts that arrive while the page is in use     *)
(* (Prism, and Mermaid on demand), line links and the copy button.         *)
(***************************************************************************)
EXTENDS Envelope

CONSTANTS
    Texts,             \* texts of pastes: sequences
    Passwords,         \* what readers enter
    Served,            \* [text, key, lang]: what pastes may be; key NoPass: not encrypted
    NoPass,
    Languages,         \* of the selector, with Mermaid
    Mermaid,
    First,             \* the selector's first option
    Attempts,          \* bound: decryptions under way at once
    MaxTags,           \* bound: Mermaid scripts under way
    MaxTimers,         \* bound: copies less than 800 ms ago
    None

ASSUME Pastes ==
    /\ Mermaid \in Languages /\ First \in Languages /\ None \notin Languages
    /\ Served \subseteq [text : Texts, key : Passwords \cup {NoPass}, lang : Languages]
    /\ \A t \in Texts : Len(t) \in Nat /\ t # Null

ASSUME Bounds == MaxTags \in Nat /\ MaxTimers \in Nat

VARIABLES
    paste,     \* what was uploaded
    secure,    \* is there a crypto.subtle?
    block,     \* #pastebin-code-block, unless drawn: its text, class and highlighting
    diagram,   \* the Mermaid div: is it drawn in the block's place, and of which text?
    selector,
    prism,     \* "absent", "loading", "ready" or "failed"
    mermaid,   \* is it loaded?
    tags,      \* Mermaid script tags under way
    attempt,   \* decryptions under way: the cipher text as read at the click
    modal, alert, \* the password dialogue and its warning, on display?
    hash, changed, \* location.hash, and is there a hashchange to handle?
    lines,     \* are the lines of the hash highlighted?
    copyLabel, timers  \* the copy button's text, what each timer will set it to

core  == <<paste, secure>>
code  == <<block, diagram, selector, prism, mermaid, tags>>
crypt == <<attempt, modal, alert>>
links == <<hash, changed, lines>>
copying == <<copyLabel, timers>>
vars == <<core, code, crypt, links, copying>>

Body == IF paste.key = NoPass THEN Clear(paste.text) ELSE aesEncrypt(paste.text, paste.key)

(* #L5 is GitLab's form of a line link, #pastebin-pre.5 Prism's.           *)
Hashes == {"none", "gitlab", "prism"}
normalizeNothing(h)  == h  \* mutant: #L... is left as it is
normalizeLineHash(h) == IF h = "gitlab" THEN "prism" ELSE h

(* A Mermaid paste comes without a code block, and with Mermaid's script.  *)
Init ==
    /\ paste \in Served
    /\ secure \in BOOLEAN
    /\ block = [text |-> Body, lang |-> paste.lang, shown |-> None]
    /\ diagram = [drawn |-> paste.lang = Mermaid, text |-> Body]
    /\ \/ paste.lang = Mermaid /\ prism = "absent" /\ mermaid \in BOOLEAN
       \/ paste.lang # Mermaid /\ prism = "loading" /\ mermaid = FALSE
    /\ selector = First
    /\ tags = 0
    /\ attempt = [s \in Attempts |-> None]
    /\ modal = (paste.key # NoPass) /\ alert = FALSE
    /\ hash \in {normalizeLineHash(h) : h \in Hashes} /\ changed = FALSE /\ lines = FALSE
    /\ copyLabel = "copy" /\ timers = << >>

-----------------------------------------------------------------------------
(* Scripts and highlighting. *)

Attached == ~diagram.drawn
HighlightedStale(b) == [b EXCEPT !.shown = paste.lang]  \* mutant: the language served
Highlighted(b) == [b EXCEPT !.shown = b.lang]

(* highlightAll; its complete hook applies the hash. *)
PrismLoads ==
    /\ prism = "loading"
    /\ \/ /\ prism' = "ready"
          /\ block' = IF Attached THEN Highlighted(block) ELSE block
          /\ lines' = (Attached /\ hash = "prism")
       \/ /\ prism' = "failed"
          /\ UNCHANGED <<block, lines>>
    /\ UNCHANGED <<core, diagram, selector, mermaid, tags, crypt, hash, changed, copying>>

(* plugin-inits lists "init_plugins" (plugins/prism.go:28-30), which so calls    *)
(* itself until the stack is full.  The exception either ends all calls or *)
(* is caught around JSON.parse in the innermost; nothing is highlighted.   *)
init_plugins == {"throws", "returns"}

(* _renderMermaid: the text the block has by now. *)
RenderedServed == Body  \* mutant: the text the page came with
Rendered == block.text
_renderMermaid ==
    IF Attached THEN diagram' = [drawn |-> TRUE, text |-> Rendered] /\ lines' = FALSE
    ELSE UNCHANGED <<diagram, lines>>

(* A change of the selector.  Without Prism, init_plugins is all there is. *)
Select(lang) ==
    /\ lang # selector
    /\ selector' = lang
    /\ \/ /\ ~Attached
          /\ UNCHANGED <<block, diagram, tags, lines>>
       \/ /\ Attached /\ lang = Mermaid /\ mermaid
          /\ _renderMermaid
          /\ UNCHANGED <<block, tags>>
       \/ /\ Attached /\ lang = Mermaid /\ ~mermaid /\ tags < MaxTags
          /\ tags' = tags + 1
          /\ UNCHANGED <<block, diagram, lines>>
       \/ /\ Attached /\ lang # Mermaid
          /\ \/ /\ prism = "ready"
                /\ block' = Highlighted([block EXCEPT !.lang = lang])
                /\ lines' = (hash = "prism")
             \/ /\ prism # "ready"
                /\ block' = [block EXCEPT !.lang = lang]
                /\ UNCHANGED lines
          /\ UNCHANGED <<diagram, tags>>
    /\ UNCHANGED <<core, prism, mermaid, crypt, hash, changed, copying>>

(* loadMermaidThenRender's onload and onerror, whatever is selected by now. *)
MermaidLoads ==
    /\ tags > 0
    /\ tags' = tags - 1
    /\ \/ mermaid' = TRUE /\ _renderMermaid
       \/ UNCHANGED <<mermaid, diagram, lines>>
    /\ UNCHANGED <<core, block, selector, prism, crypt, hash, changed, copying>>

-----------------------------------------------------------------------------
(* Decryption. *)

(* Without a block, and without a textarea on this page, there is nothing. *)
CipherText == IF Attached THEN block.text ELSE Clear(<< >>)

Decrypt(s) ==
    /\ modal /\ attempt[s] = None
    /\ \E pass \in Passwords :
          attempt' = [attempt EXCEPT ![s] = [cipher |-> CipherText, pass |-> pass]]
    /\ UNCHANGED <<core, code, modal, alert, links, copying>>

Result(a) == IF secure THEN aesDecrypt(a.cipher, a.pass) ELSE Null

(* null, or an empty text *)
RefusedOnlyEmpty == {<< >>}  \* mutant: !decrypted is not asked
Refused == {Null, << >>}
DecryptFails(s) ==
    /\ attempt[s] # None
    /\ Result(attempt[s]) \in Refused
    /\ alert' = TRUE
    /\ attempt' = [attempt EXCEPT ![s] = None]
    /\ UNCHANGED <<core, code, modal, links, copying>>

(* The text goes to the element found at the click, in the page or not.    *)
DecryptSucceeds(s) ==
    /\ attempt[s] # None
    /\ Result(attempt[s]) \notin Refused
    /\ block' = [block EXCEPT !.text = Clear(Result(attempt[s])), !.shown = None]
    /\ \/ /\ "throws" \in init_plugins
          /\ UNCHANGED <<modal, alert>>
       \/ /\ "returns" \in init_plugins
          /\ modal' = FALSE /\ alert' = FALSE
    /\ attempt' = [attempt EXCEPT ![s] = None]
    /\ UNCHANGED <<core, diagram, selector, prism, mermaid, tags, links, copying>>

(* The Decrypt button beside the paste; the dialogue's Close, or a click    *)
(* outside it.                                                             *)
ToggleModal ==
    /\ paste.key # NoPass
    /\ modal' = ~modal
    /\ UNCHANGED <<core, code, attempt, alert, links, copying>>

-----------------------------------------------------------------------------
(* Line links.  The page's hashchange listener runs before Prism's, which  *)
(* is registered when Prism's script arrives.                              *)

FollowLink(h) ==
    /\ h # hash
    /\ hash' = h /\ changed' = TRUE
    /\ UNCHANGED <<core, code, crypt, lines, copying>>

HashChange ==
    /\ changed
    /\ hash' = normalizeLineHash(hash) /\ changed' = FALSE
    /\ lines' = IF prism = "ready" THEN Attached /\ hash' = "prism" ELSE lines
    /\ UNCHANGED <<core, code, crypt, copying>>

-----------------------------------------------------------------------------
(* The copy button is a link: it can be clicked while it says "Copied!",   *)
(* and then the timer brings that back.                                    *)
Copy ==
    /\ Len(timers) < MaxTimers
    /\ timers' = Append(timers, copyLabel)
    /\ copyLabel' = "copied"
    /\ UNCHANGED <<core, code, crypt, links>>

CopyTimer ==
    /\ timers # << >>
    /\ copyLabel' = Head(timers)
    /\ timers' = Tail(timers)
    /\ UNCHANGED <<core, code, crypt, links>>

Next ==
    \/ PrismLoads \/ MermaidLoads
    \/ \E lang \in Languages : Select(lang)
    \/ \E s \in Attempts : Decrypt(s) \/ DecryptFails(s) \/ DecryptSucceeds(s)
    \/ ToggleModal
    \/ \E h \in Hashes : FollowLink(h)
    \/ HashChange \/ Copy \/ CopyTimer

Spec == Init /\ [][Next]_vars

-----------------------------------------------------------------------------
Plain == Clear(paste.text)
TextsShown == {Body, Plain}

(* The types of the variables (type invariant). *)
PasteViewTypeOK ==
    /\ paste \in Served /\ secure \in BOOLEAN
    /\ block \in [text : TextsShown, lang : Languages, shown : Languages \cup {None}]
    /\ diagram \in [drawn : BOOLEAN, text : TextsShown]
    /\ selector \in Languages /\ mermaid \in BOOLEAN /\ tags \in 0 .. MaxTags
    /\ prism \in {"absent", "loading", "ready", "failed"}
    /\ \A s \in Attempts : attempt[s] # None =>
          attempt[s].cipher \in TextsShown \cup {Clear(<< >>)} /\ attempt[s].pass \in Passwords
    /\ modal \in BOOLEAN /\ alert \in BOOLEAN
    /\ hash \in Hashes /\ changed \in BOOLEAN /\ lines \in BOOLEAN
    /\ copyLabel \in {"copy", "copied"} /\ Len(timers) <= MaxTimers

(* Where the page refuses the right password as if it were wrong, against  *)
(* its own words: without crypto.subtle; of an empty text; and of a cipher *)
(* text that was not there to read at the click, because Mermaid's div has *)
(* the block's place (on the page of a Mermaid paste, always) or an        *)
(* earlier attempt has opened it.                                          *)
Exempt(a) == ~secure \/ paste.text = << >> \/ a.cipher # Body

(* "Enter the password to decrypt it in your browser" (index.html:432):    *)
(* but for these the right password shows the text that was sent, however  *)
(* late the attempt ends; the wrong one warns; and neither it nor an       *)
(* exempt attempt touches the text.                                        *)
RightPasswordOpens ==
    [][\A s \in Attempts : attempt[s] # None /\ attempt'[s] = None =>
          LET known == attempt[s].pass = paste.key
          IN  /\ known /\ ~Exempt(attempt[s]) => block'.text = Plain
              /\ ~known => alert'
              /\ ~known \/ Exempt(attempt[s]) => block' = block]_vars

(* Scripts arriving late, diagrams and a second decryption never change    *)
(* what is to be read but once: from the paste as served to its text.      *)
Visible == IF diagram.drawn THEN diagram.text ELSE block.text
NeverRelocked == [][Visible' # Visible => Visible = Body /\ Visible' = Plain]_vars

(* Whether Prism comes before or after a change of the selector, the paste *)
(* as served ends up highlighted for the language its class names.         *)
HighlightedForClass ==
    prism = "ready" /\ Attached /\ block.text = Body => block.shown = block.lang

(* "so Prism's own applyHash() always receives the format it expects": a   *)
(* link to lines, in either form, followed before or after Prism came,     *)
(* ends with these lines highlighted.                                      *)
LinesFollowHash ==
    prism = "ready" /\ Attached /\ ~changed => (lines <=> hash # "none")

(* init_plugins "will then call Prism.highlightElement" (custom.js:1087):  *)
(* so a decrypted text, for which it is called, is highlighted.            *)
InitHighlights ==
    prism = "ready" /\ Attached /\ block.text = Plain => block.shown = block.lang
=============================================================================
