---------------------------- MODULE Translations ----------------------------
(***************************************************************************)
(* The user interface's language: loadLanguage and its fall-back to        *)
(* English, the choice kept in localStorage from page to page, and the     *)
(* labels of the three option menus, written by the click handlers and,    *)
(* from `state', each time a language arrives.                             *)
(*                                                                         *)
(* A load is a fetch and a json(); nothing changes before both have        *)
(* settled, so a load settles in one step.  Loads settle in any order.     *)
(***************************************************************************)
EXTENDS Integers, Sequences

CONSTANTS
    Langs,          \* the keys of flags
    En, De, Ch,     \* defaultLang, and the two special ones
    None,           \* no language, no load
    Browsers,       \* values of navigator.languages: sequences of tags
    Options,        \* the expiry menu: records of a text and its seconds
    DefaultExpiry,  \* the page's meta default-expiry, in seconds
    DefaultBurn,    \* the page's meta default-burn
    Outages,        \* sets of languages whose files may fail to load
    MaybeFull,      \* may localStorage refuse to store?
    Slots,          \* bound: loads under way at once
    MaxPages        \* bound: pages opened after the first

ASSUME Languages == {En, De, Ch} \subseteq Langs /\ None \notin Langs
ASSUME Outaged == Outages \subseteq SUBSET Langs
ASSUME Settings == DefaultExpiry \in Nat /\ DefaultBurn \in BOOLEAN
                   /\ MaybeFull \in BOOLEAN /\ MaxPages \in Nat

VARIABLES
    browser,  \* navigator.languages
    saved,    \* localStorage.language
    full,     \* setItem throws
    outage,   \* the files that may fail to load
    pages,    \* pages opened so far
    loads,    \* the language each load under way is for
    page,     \* current: currentTranslations; texts, flag, html: what is on display
    state,    \* the options that will be sent
    labels,   \* on the menu buttons: in which language, and what they say
    wanted,   \* history: the language asked for last
    disturbed \* history: a load failed, was overtaken or cut off

vars == <<browser, saved, full, outage, pages, loads, page, state, labels, wanted, disturbed>>

-----------------------------------------------------------------------------
(* A tag has a primary subtag and a region; de-CH is a language of its own. *)
Mapped(tag) == IF tag.primary = De /\ tag.region = Ch THEN Ch ELSE tag.primary

(* The first tag with a translation. *)
FirstSupported(tags) ==
    {i \in DOMAIN tags : /\ Mapped(tags[i]) \in Langs
                         /\ \A j \in 1 .. i - 1 : Mapped(tags[j]) \notin Langs}
getBrowserLanguageAny(tags) == Mapped(tags[1])  \* mutant: flags is not asked
getBrowserLanguage(tags) ==
    IF FirstSupported(tags) = {} THEN En ELSE Mapped(tags[CHOOSE i \in FirstSupported(tags) : TRUE])

(* A duration as a number and a unit.  The longest unit that fits, floored. *)
UnitSeconds == [never |-> 0, min |-> 60, hour |-> 3600, day |-> 86400,
                week |-> 604800, month |-> 2592000, year |-> 31536000]
Text == [n : Nat, unit : DOMAIN UnitSeconds]
ASSUME Menu == Options \subseteq [text : Text, seconds : Nat]

Floored(seconds, unit) == [n |-> seconds \div UnitSeconds[unit], unit |-> unit]
Units == DOMAIN UnitSeconds \ {"never"}
FittingLate(seconds) == {u \in Units : u = "min" \/ seconds > UnitSeconds[u]}  \* mutant: <= for <
Fitting(seconds) == {u \in Units : u = "min" \/ seconds >= UnitSeconds[u]}
formatExpiry(seconds) ==
    IF seconds = 0 THEN [n |-> 0, unit |-> "never"]
    ELSE Floored(seconds, CHOOSE u \in Fitting(seconds) :
                              \A v \in Fitting(seconds) : UnitSeconds[v] <= UnitSeconds[u])
Seconds(text) == text.n * UnitSeconds[text.unit]

Label(lang, text) == [lang |-> lang, text |-> text]

(* updateDropdownLabels, after currentTranslations became those of lang. *)
updateDropdownLabels(lang) ==
    [expiry    |-> Label(lang, formatExpiry(state.expiry)),
     burn      |-> Label(lang, state.burn),
     protected |-> Label(lang, state.protected)]

-----------------------------------------------------------------------------
(* The template's words, in English whatever the settings. *)
Template == [current |-> None, texts |-> En, flag |-> En, html |-> En]
TemplateLabels ==
    [expiry    |-> Label(En, [n |-> 1, unit |-> "day"]),
     burn      |-> Label(En, FALSE),
     protected |-> Label(En, FALSE)]
Defaults == [expiry |-> DefaultExpiry, burn |-> DefaultBurn, protected |-> FALSE]

(* initI18n: the saved language, else the browser's. *)
PreferredBrowser == getBrowserLanguage(browser)  \* mutant: localStorage is not asked
Preferred == IF saved # None THEN saved ELSE getBrowserLanguage(browser)

OnePending(lang) ==
    {l \in [Slots -> {None, lang}] : \E s \in Slots : l = [r \in Slots |-> IF r = s THEN lang ELSE None]}

Init ==
    /\ browser \in Browsers
    /\ saved \in Langs \cup {None}
    /\ full \in {FALSE, MaybeFull}
    /\ outage \in Outages
    /\ pages = 0
    /\ loads \in OnePending(Preferred)
    /\ page = Template
    /\ state = Defaults
    /\ labels = TemplateLabels
    /\ wanted = Preferred
    /\ disturbed = FALSE

AtRest == \A s \in Slots : loads[s] = None

(* Another page of the site: the script starts afresh. *)
Open ==
    /\ pages < MaxPages
    /\ pages' = pages + 1
    /\ loads' \in OnePending(Preferred)
    /\ page' = Template
    /\ state' = Defaults
    /\ labels' = TemplateLabels
    /\ disturbed' = (disturbed \/ ~AtRest)
    /\ UNCHANGED <<browser, saved, full, outage, wanted>>

(* A click in i18n-dropdown. *)
Choose(lang) ==
    /\ \E s \in Slots : loads[s] = None /\ loads' = [loads EXCEPT ![s] = lang]
    /\ wanted' = lang
    /\ disturbed' = (disturbed \/ ~AtRest)
    /\ UNCHANGED <<browser, saved, full, outage, pages, page, state, labels>>

(* The catch of loadLanguage: English, unless it was English. *)
FallbackAlways(lang) == En  \* mutant: English is asked for again and again
FallbackNever(lang) == None \* mutant: no second try
Fallback(lang) == IF lang = En THEN None ELSE En

(* currentTranslations, applyTranslations, the flag, <html lang>. *)
InAllButHtml(lang) ==  \* mutant: <html lang> is forgotten
    [current |-> lang, texts |-> lang, flag |-> lang, html |-> page.html]
InAll(lang) == [current |-> lang, texts |-> lang, flag |-> lang, html |-> lang]

(* From the json to the end of the try block there is no await. *)
Translate(s) ==
    /\ loads[s] # None
    /\ labels' = updateDropdownLabels(loads[s])
    /\ \/ /\ ~full
          /\ saved' = loads[s]
          /\ page' = InAll(loads[s])
          /\ loads' = [loads EXCEPT ![s] = None]
          /\ UNCHANGED disturbed
       \/ /\ full  \* setItem throws
          /\ page' = [page EXCEPT !.current = loads[s], !.texts = loads[s]]
          /\ loads' = [loads EXCEPT ![s] = Fallback(@)]
          /\ disturbed' = TRUE
          /\ UNCHANGED saved
    /\ UNCHANGED <<browser, full, outage, pages, state, wanted>>

(* No network, an error status, a broken file. *)
LoadFails(s) ==
    /\ loads[s] \in outage
    /\ loads' = [loads EXCEPT ![s] = Fallback(@)]
    /\ disturbed' = TRUE
    /\ UNCHANGED <<browser, saved, full, outage, pages, page, state, labels, wanted>>

(* Clicks in the option menus: the label takes the option's own text. *)
PickExpiry(option) ==
    /\ state' = [state EXCEPT !.expiry = option.seconds]
    /\ labels' = [labels EXCEPT !.expiry = Label(page.current, option.text)]
    /\ UNCHANGED <<browser, saved, full, outage, pages, loads, page, wanted, disturbed>>

PickBurn(value) ==
    /\ state' = [state EXCEPT !.burn = value]
    /\ labels' = [labels EXCEPT !.burn = Label(page.current, value)]
    /\ UNCHANGED <<browser, saved, full, outage, pages, loads, page, wanted, disturbed>>

PickProtected(value) ==
    /\ state' = [state EXCEPT !.protected = value]
    /\ labels' = [labels EXCEPT !.protected = Label(page.current, value)]
    /\ UNCHANGED <<browser, saved, full, outage, pages, loads, page, wanted, disturbed>>

Next ==
    \/ Open
    \/ \E lang \in Langs : Choose(lang)
    \/ \E s \in Slots : Translate(s) \/ LoadFails(s)
    \/ \E option \in Options : PickExpiry(option)
    \/ \E value \in BOOLEAN : PickBurn(value) \/ PickProtected(value)

Spec == Init /\ [][Next]_vars

(* A fetch is answered or given up in the end. *)
FairSpec == Spec /\ \A s \in Slots : WF_vars(Translate(s) \/ LoadFails(s))

-----------------------------------------------------------------------------
Labels(T) == [lang : Langs \cup {None}, text : T]

(* The types of the variables (type invariant). *)
TranslationsTypeOK ==
    /\ browser \in Browsers /\ outage \in Outages
    /\ saved \in Langs \cup {None} /\ wanted \in Langs
    /\ full \in BOOLEAN /\ disturbed \in BOOLEAN
    /\ pages \in 0 .. MaxPages
    /\ loads \in [Slots -> Langs \cup {None}]
    /\ page \in [current : Langs \cup {None}, texts : Langs, flag : Langs, html : Langs]
    /\ state \in [expiry : Nat, burn : BOOLEAN, protected : BOOLEAN]
    /\ labels \in [expiry : Labels(Text), burn : Labels(BOOLEAN), protected : Labels(BOOLEAN)]

(* Whatever loads are under way and in whatever order they settle, a page  *)
(* never mixes languages: the texts, the flag, <html lang>, the messages   *)
(* t() will give, the menu labels and the saved language are all of one.   *)
OneLanguage ==
    ~full /\ page.current # None =>
        /\ page.texts = page.current /\ page.flag = page.current /\ page.html = page.current
        /\ saved = page.current
        /\ \A w \in DOMAIN labels : labels[w].lang = page.current

(* Once translated, the labels say what will be sent: clicks, defaults of  *)
(* the settings and language changes in any order.  (Before the first      *)
(* language has come they are the template's "1 day", "No", "No".)         *)
LabelsTell ==
    page.current # None =>
        /\ Seconds(labels.expiry.text) = state.expiry
        /\ labels.burn.text = state.burn
        /\ labels.protected.text = state.protected

(* "User choice from localStorage" first: a user who waits for one load    *)
(* before asking for the next gets the language asked for, on this page    *)
(* and on every later one.                                                 *)
ChoiceKept ==
    ~disturbed /\ AtRest => page.current = wanted /\ saved = wanted

(* Even if every file fails, loading comes to an end (no endless retries). *)
LoadsEnd == \A s \in Slots : []<>(loads[s] = None)

(* "Fallback to English": with English available the user is not left with *)
(* raw message keys, whichever other files fail.                           *)
Translated == En \notin outage => <>[](page.current # None)
=============================================================================
