------------------------ MODULE Translations_proofs ------------------------
(***************************************************************************)
(* Theorems about Translations, for any set of languages, any number of    *)
(* loads under way and of pages, any menu and any way the loads settle.    *)
(***************************************************************************)
EXTENDS Translations, TLAPS

-----------------------------------------------------------------------------
(* Types of what the operators return.                                     *)

LEMMA Detected ==
    ASSUME NEW tags
    PROVE  getBrowserLanguage(tags) \in Langs
<1>1. CASE FirstSupported(tags) = {}
  BY <1>1, Languages DEF getBrowserLanguage
<1>2. CASE FirstSupported(tags) # {}
  <2>1. PICK i \in FirstSupported(tags) : i = CHOOSE j \in FirstSupported(tags) : TRUE
    BY <1>2
  <2> QED
    BY <1>2, <2>1 DEF getBrowserLanguage, FirstSupported
<1> QED
  BY <1>1, <1>2

LEMMA PreferredType ==
    ASSUME saved \in Langs \cup {None}
    PROVE  Preferred \in Langs
BY Detected DEF Preferred

LEMMA UnitType ==
    /\ Units = {"min", "hour", "day", "week", "month", "year"}
    /\ Units \subseteq DOMAIN UnitSeconds
    /\ \A u \in Units : UnitSeconds[u] \in Nat \ {0}
BY DEF Units, UnitSeconds

(* There is a longest unit that fits. *)
LEMMA Longest ==
    ASSUME NEW seconds \in Nat
    PROVE  \E u \in Fitting(seconds) :
               \A v \in Fitting(seconds) : UnitSeconds[v] <= UnitSeconds[u]
<1> DEFINE Best(u) == /\ u \in Fitting(seconds)
                      /\ \A v \in Fitting(seconds) : UnitSeconds[v] <= UnitSeconds[u]
<1>1. /\ Units = {"min", "hour", "day", "week", "month", "year"}
      /\ UnitSeconds["min"] = 60 /\ UnitSeconds["hour"] = 3600
      /\ UnitSeconds["day"] = 86400 /\ UnitSeconds["week"] = 604800
      /\ UnitSeconds["month"] = 2592000 /\ UnitSeconds["year"] = 31536000
  BY UnitType DEF UnitSeconds
<1>2. CASE seconds < 3600
  <2> Best("min")
    BY <1>1, <1>2 DEF Fitting
  <2> QED
    OBVIOUS
<1>3. CASE seconds >= 3600 /\ seconds < 86400
  <2> Best("hour")
    BY <1>1, <1>3 DEF Fitting
  <2> QED
    OBVIOUS
<1>4. CASE seconds >= 86400 /\ seconds < 604800
  <2> Best("day")
    BY <1>1, <1>4 DEF Fitting
  <2> QED
    OBVIOUS
<1>5. CASE seconds >= 604800 /\ seconds < 2592000
  <2> Best("week")
    BY <1>1, <1>5 DEF Fitting
  <2> QED
    OBVIOUS
<1>6. CASE seconds >= 2592000 /\ seconds < 31536000
  <2> Best("month")
    BY <1>1, <1>6 DEF Fitting
  <2> QED
    OBVIOUS
<1>7. CASE seconds >= 31536000
  <2> Best("year")
    BY <1>1, <1>7 DEF Fitting
  <2> QED
    OBVIOUS
<1> QED
  BY <1>2, <1>3, <1>4, <1>5, <1>6, <1>7

LEMMA Whole ==
    ASSUME NEW n \in Nat, NEW d \in Nat \ {0}
    PROVE  n \div d \in Nat
OBVIOUS

LEMMA FormatType ==
    ASSUME NEW seconds \in Nat
    PROVE  formatExpiry(seconds) \in Text
<1>1. CASE seconds = 0
  BY <1>1 DEF formatExpiry, Text, UnitSeconds
<1>2. CASE seconds # 0
  <2> DEFINE unit == CHOOSE u \in Fitting(seconds) :
                         \A v \in Fitting(seconds) : UnitSeconds[v] <= UnitSeconds[u]
  <2>1. unit \in Fitting(seconds)
    BY Longest
  <2>2. unit \in DOMAIN UnitSeconds /\ UnitSeconds[unit] \in Nat \ {0}
    BY <2>1, UnitType DEF Fitting
  <2>3. formatExpiry(seconds) = Floored(seconds, unit)
    BY <1>2 DEF formatExpiry
  <2> HIDE DEF unit
  <2>4. seconds \div UnitSeconds[unit] \in Nat
    BY <2>2, Whole
  <2> QED
    BY <2>2, <2>3, <2>4 DEF Floored, Text
<1> QED
  BY <1>1, <1>2

LEMMA Absence == None \notin Langs /\ En \in Langs
BY Languages

(* Starting a page's load leaves exactly one load under way. *)
LEMMA PendingType ==
    ASSUME NEW lang \in Langs, NEW l \in OnePending(lang)
    PROVE  /\ l \in [Slots -> Langs \cup {None}]
           /\ \E s \in Slots : l = [r \in Slots |-> IF r = s THEN lang ELSE None]
BY DEF OnePending

-----------------------------------------------------------------------------
(* Type correctness.                                                       *)

LEMMA TypeInit == Init => TranslationsTypeOK
<1> SUFFICES ASSUME Init PROVE TranslationsTypeOK
  OBVIOUS
<1>1. Preferred \in Langs
  BY PreferredType DEF Init
<1>2. loads \in [Slots -> Langs \cup {None}]
  BY <1>1, PendingType DEF Init
<1>3. page \in [current : Langs \cup {None}, texts : Langs, flag : Langs, html : Langs]
  BY Absence DEF Init, Template
<1>4. state \in [expiry : Nat, burn : BOOLEAN, protected : BOOLEAN]
  BY Settings DEF Init, Defaults
<1>5. labels \in [expiry : Labels(Text), burn : Labels(BOOLEAN), protected : Labels(BOOLEAN)]
  <2>1. [n |-> 1, unit |-> "day"] \in Text
    BY DEF Text, UnitSeconds
  <2>2. En \in Langs \cup {None}
    BY Absence
  <2>3. /\ Label(En, [n |-> 1, unit |-> "day"]) \in Labels(Text)
        /\ Label(En, FALSE) \in Labels(BOOLEAN)
    BY <2>1, <2>2 DEF Label, Labels
  <2> QED
    BY <2>3 DEF Init, TemplateLabels
<1>6. pages \in 0 .. MaxPages /\ wanted \in Langs
  BY <1>1, Settings DEF Init
<1>7. /\ browser \in Browsers /\ outage \in Outages
      /\ saved \in Langs \cup {None} /\ disturbed \in BOOLEAN
  BY DEF Init
<1>8. full \in BOOLEAN
  BY Settings, Zenon DEF Init
<1> QED
  BY <1>2, <1>3, <1>4, <1>5, <1>6, <1>7, <1>8 DEF TranslationsTypeOK

LEMMA RelabelType ==
    ASSUME TranslationsTypeOK, NEW lang \in Langs
    PROVE  updateDropdownLabels(lang) \in
               [expiry : Labels(Text), burn : Labels(BOOLEAN), protected : Labels(BOOLEAN)]
<1>1. state.expiry \in Nat /\ state.burn \in BOOLEAN /\ state.protected \in BOOLEAN
  BY DEF TranslationsTypeOK
<1>2. formatExpiry(state.expiry) \in Text
  BY <1>1, FormatType
<1> QED
  BY <1>1, <1>2 DEF updateDropdownLabels, Label, Labels

LEMMA FallbackType ==
    ASSUME NEW lang \in Langs
    PROVE  Fallback(lang) \in Langs \cup {None}
BY Absence DEF Fallback

LEMMA TypeStep == TranslationsTypeOK /\ [Next]_vars => TranslationsTypeOK'
<1> SUFFICES ASSUME TranslationsTypeOK, [Next]_vars PROVE TranslationsTypeOK'
  OBVIOUS
<1> USE DEF TranslationsTypeOK
<1>1. CASE Open
  <2>1. Preferred \in Langs
    BY PreferredType
  <2>2. loads' \in [Slots -> Langs \cup {None}]
    BY <1>1, <2>1, PendingType DEF Open
  <2>3. page' \in [current : Langs \cup {None}, texts : Langs, flag : Langs, html : Langs]
    BY <1>1, Absence DEF Open, Template
  <2>4. state' \in [expiry : Nat, burn : BOOLEAN, protected : BOOLEAN]
    BY <1>1, Settings DEF Open, Defaults
  <2>5. [n |-> 1, unit |-> "day"] \in Text
    BY DEF Text, UnitSeconds
  <2>6. labels' \in [expiry : Labels(Text), burn : Labels(BOOLEAN), protected : Labels(BOOLEAN)]
    BY <1>1, <2>5, Absence DEF Open, TemplateLabels, Label, Labels
  <2>7. pages' \in 0 .. MaxPages
    BY <1>1, Settings DEF Open
  <2> QED
    BY <1>1, <2>2, <2>3, <2>4, <2>6, <2>7 DEF Open
<1>2. ASSUME NEW lang \in Langs, Choose(lang) PROVE TranslationsTypeOK'
  BY <1>2 DEF Choose
<1>3. ASSUME NEW s \in Slots, Translate(s) PROVE TranslationsTypeOK'
  <2>1. loads[s] \in Langs
    BY <1>3 DEF Translate
  <2>2. labels' \in [expiry : Labels(Text), burn : Labels(BOOLEAN), protected : Labels(BOOLEAN)]
    BY <1>3, <2>1, RelabelType DEF Translate
  <2>3. Fallback(loads[s]) \in Langs \cup {None}
    BY <2>1, FallbackType
  <2>4. loads' \in [Slots -> Langs \cup {None}]
    BY <1>3, <2>1, <2>3 DEF Translate
  <2>5. page' \in [current : Langs \cup {None}, texts : Langs, flag : Langs, html : Langs]
    <3>1. CASE full
      BY <1>3, <2>1, <3>1 DEF Translate
    <3>2. CASE ~full
      BY <1>3, <2>1, <3>2 DEF Translate, InAll
    <3> QED
      BY <3>1, <3>2
  <2>6. saved' \in Langs \cup {None} /\ disturbed' \in BOOLEAN
    BY <1>3, <2>1 DEF Translate
  <2> QED
    BY <1>3, <2>2, <2>4, <2>5, <2>6 DEF Translate
<1>4. ASSUME NEW s \in Slots, LoadFails(s), outage \subseteq Langs PROVE TranslationsTypeOK'
  <2>1. Fallback(loads[s]) \in Langs \cup {None}
    BY <1>4, FallbackType DEF LoadFails
  <2> QED
    BY <1>4, <2>1 DEF LoadFails
<1>5. ASSUME NEW option \in Options, PickExpiry(option) PROVE TranslationsTypeOK'
  <2>1. option.text \in Text /\ option.seconds \in Nat
    BY Menu
  <2> QED
    BY <1>5, <2>1 DEF PickExpiry, Label, Labels
<1>6. ASSUME NEW value \in BOOLEAN, PickBurn(value) PROVE TranslationsTypeOK'
  BY <1>6 DEF PickBurn, Label, Labels
<1>7. ASSUME NEW value \in BOOLEAN, PickProtected(value) PROVE TranslationsTypeOK'
  BY <1>7 DEF PickProtected, Label, Labels
<1>8. CASE UNCHANGED vars
  BY <1>8 DEF vars
<1> QED
  BY <1>1, <1>2, <1>3, <1>4, <1>5, <1>6, <1>7, <1>8, Outaged DEF Next

(* Typing: the variables of Translations have their types in every         *)
(* reachable state; in particular only languages of flags are ever loaded. *)
THEOREM Typing == Spec => []TranslationsTypeOK
BY TypeInit, TypeStep, PTL DEF Spec

-----------------------------------------------------------------------------
(* One language.                                                           *)

LEMMA OneLanguageStep ==
    TranslationsTypeOK /\ OneLanguage /\ [Next]_vars => OneLanguage'
<1> SUFFICES ASSUME TranslationsTypeOK, OneLanguage, [Next]_vars,
                    ~full', page'.current # None
             PROVE  /\ page'.texts = page'.current
                    /\ page'.flag = page'.current /\ page'.html = page'.current
                    /\ saved' = page'.current
                    /\ \A w \in DOMAIN labels' : labels'[w].lang = page'.current
  BY DEF OneLanguage
<1> USE DEF OneLanguage
<1>1. CASE Open
  BY <1>1 DEF Open, Template
<1>2. ASSUME NEW lang \in Langs, Choose(lang) PROVE OneLanguage'
  BY <1>2 DEF Choose
<1>3. ASSUME NEW s \in Slots, Translate(s) PROVE OneLanguage'
  <2>1. /\ page' = InAll(loads[s]) /\ saved' = loads[s]
        /\ labels' = updateDropdownLabels(loads[s])
    BY <1>3 DEF Translate
  <2> QED
    BY <2>1 DEF InAll, updateDropdownLabels, Label
<1>4. ASSUME NEW s \in Slots, LoadFails(s) PROVE OneLanguage'
  BY <1>4 DEF LoadFails
<1>5. ASSUME NEW option \in Options, PickExpiry(option) PROVE OneLanguage'
  BY <1>5 DEF PickExpiry, Label, TranslationsTypeOK
<1>6. ASSUME NEW value \in BOOLEAN, PickBurn(value) PROVE OneLanguage'
  BY <1>6 DEF PickBurn, Label, TranslationsTypeOK
<1>7. ASSUME NEW value \in BOOLEAN, PickProtected(value) PROVE OneLanguage'
  BY <1>7 DEF PickProtected, Label, TranslationsTypeOK
<1>8. CASE UNCHANGED vars
  BY <1>8 DEF vars
<1> QED
  BY <1>1, <1>2, <1>3, <1>4, <1>5, <1>6, <1>7, <1>8 DEF Next

(* However many loads are under way and in whatever order they settle, the *)
(* texts, the flag, <html lang>, the labels and the saved choice are of    *)
(* one language, for any set of languages (loadLanguage).                  *)
THEOREM NeverMixed == Spec => []OneLanguage
<1>1. Init => OneLanguage
  BY DEF Init, Template, OneLanguage
<1> QED
  BY <1>1, OneLanguageStep, Typing, PTL DEF Spec

-----------------------------------------------------------------------------
(* The labels.                                                             *)

(* Every menu entry, and the default, is a whole number of its unit.       *)
WholeUnits ==
    /\ Seconds(formatExpiry(DefaultExpiry)) = DefaultExpiry
    /\ \A option \in Options : /\ Seconds(option.text) = option.seconds
                               /\ Seconds(formatExpiry(option.seconds)) = option.seconds

(* The strengthening: what is chosen can be put in words. *)
LabelInv == LabelsTell /\ Seconds(formatExpiry(state.expiry)) = state.expiry

LEMMA LabelStep ==
    ASSUME WholeUnits
    PROVE  TranslationsTypeOK /\ LabelInv /\ [Next]_vars => LabelInv'
<1> SUFFICES ASSUME TranslationsTypeOK, LabelInv, [Next]_vars PROVE LabelInv'
  OBVIOUS
<1> USE DEF LabelInv, LabelsTell
<1>1. CASE Open
  BY <1>1, WholeUnits DEF Open, Template, Defaults, WholeUnits
<1>2. ASSUME NEW lang \in Langs, Choose(lang) PROVE LabelInv'
  BY <1>2 DEF Choose
<1>3. ASSUME NEW s \in Slots, Translate(s) PROVE LabelInv'
  BY <1>3 DEF Translate, updateDropdownLabels, Label
<1>4. ASSUME NEW s \in Slots, LoadFails(s) PROVE LabelInv'
  BY <1>4 DEF LoadFails
<1>5. ASSUME NEW option \in Options, PickExpiry(option) PROVE LabelInv'
  <2>1. state'.expiry = option.seconds /\ state'.burn = state.burn
        /\ state'.protected = state.protected
    BY <1>5 DEF PickExpiry, TranslationsTypeOK
  <2>2. labels'.expiry.text = option.text /\ labels'.burn = labels.burn
        /\ labels'.protected = labels.protected
    BY <1>5 DEF PickExpiry, Label, TranslationsTypeOK
  <2> QED
    BY <1>5, <2>1, <2>2, WholeUnits DEF PickExpiry, WholeUnits
<1>6. ASSUME NEW value \in BOOLEAN, PickBurn(value) PROVE LabelInv'
  BY <1>6 DEF PickBurn, Label, TranslationsTypeOK
<1>7. ASSUME NEW value \in BOOLEAN, PickProtected(value) PROVE LabelInv'
  BY <1>7 DEF PickProtected, Label, TranslationsTypeOK
<1>8. CASE UNCHANGED vars
  BY <1>8 DEF vars
<1> QED
  BY <1>1, <1>2, <1>3, <1>4, <1>5, <1>6, <1>7, <1>8 DEF Next

(* If the menu and the default are whole numbers of their units, a         *)
(* translated page's labels say what handleSend will send, after any       *)
(* clicks and language changes.                                            *)
THEOREM LabelsTruthful ==
    ASSUME WholeUnits
    PROVE  Spec => []LabelsTell
<1>1. Init => LabelInv
  BY WholeUnits DEF Init, Template, Defaults, WholeUnits, LabelInv, LabelsTell
<1>2. LabelInv => LabelsTell
  BY DEF LabelInv
<1>3. TranslationsTypeOK /\ LabelInv /\ [Next]_vars => LabelInv'
  BY WholeUnits, LabelStep
<1> QED
  BY <1>1, <1>2, <1>3, Typing, PTL DEF Spec

-----------------------------------------------------------------------------
(* The choice.                                                             *)

OnlyLoad(s) == loads = [r \in Slots |-> IF r = s THEN wanted ELSE None]

(* Undisturbed, the page is either at rest in the language wanted, or that *)
(* language is the only one being loaded.                                  *)
ChoiceInv ==
    ~disturbed => \/ AtRest /\ page.current = wanted /\ saved = wanted
                  \/ \E s \in Slots : OnlyLoad(s)

LEMMA ChoiceInit == Init => ChoiceInv
<1> SUFFICES ASSUME Init PROVE ChoiceInv
  OBVIOUS
<1>1. Preferred \in Langs
  BY PreferredType DEF Init
<1>2. PICK s \in Slots : loads = [r \in Slots |-> IF r = s THEN Preferred ELSE None]
  BY <1>1, PendingType DEF Init
<1> QED
  BY <1>2 DEF Init, ChoiceInv, OnlyLoad

LEMMA ChoiceStep ==
    TranslationsTypeOK /\ ChoiceInv /\ [Next]_vars => ChoiceInv'
<1> SUFFICES ASSUME TranslationsTypeOK, ChoiceInv, [Next]_vars, ~disturbed'
             PROVE  ChoiceInv'
  BY DEF ChoiceInv
<1>1. CASE Open
  <2>1. AtRest /\ ~disturbed
    BY <1>1 DEF Open
  <2>2. saved = wanted
    BY <2>1, Absence DEF ChoiceInv, OnlyLoad, AtRest, TranslationsTypeOK
  <2>3. Preferred = wanted /\ wanted \in Langs
    BY <2>2, Absence DEF Preferred, TranslationsTypeOK
  <2>4. PICK s \in Slots : loads' = [r \in Slots |-> IF r = s THEN wanted ELSE None]
    BY <1>1, <2>3, PendingType DEF Open
  <2> QED
    BY <1>1, <2>4 DEF Open, ChoiceInv, OnlyLoad
<1>2. ASSUME NEW lang \in Langs, Choose(lang) PROVE ChoiceInv'
  <2>1. AtRest /\ wanted' = lang
    BY <1>2 DEF Choose
  <2>2. PICK s \in Slots : loads' = [loads EXCEPT ![s] = lang]
    BY <1>2 DEF Choose
  <2>3. loads' = [r \in Slots |-> IF r = s THEN wanted' ELSE None]
    BY <2>1, <2>2 DEF AtRest, TranslationsTypeOK
  <2> QED
    BY <2>3 DEF ChoiceInv, OnlyLoad
<1>3. ASSUME NEW s \in Slots, Translate(s) PROVE ChoiceInv'
  <2>1. /\ ~disturbed /\ page' = InAll(loads[s]) /\ saved' = loads[s]
        /\ loads' = [loads EXCEPT ![s] = None] /\ wanted' = wanted
    BY <1>3 DEF Translate
  <2>2. loads[s] # None
    BY <1>3 DEF Translate
  <2>3. PICK r \in Slots : OnlyLoad(r)
    BY <2>1, <2>2 DEF ChoiceInv, AtRest
  <2>4. r = s /\ loads[s] = wanted
    BY <2>2, <2>3 DEF OnlyLoad
  <2>5. AtRest'
    BY <2>1, <2>3, <2>4 DEF AtRest, OnlyLoad
  <2> QED
    BY <2>1, <2>4, <2>5 DEF ChoiceInv, InAll
<1>4. ASSUME NEW s \in Slots, LoadFails(s) PROVE ChoiceInv'
  BY <1>4 DEF LoadFails
<1>5. CASE UNCHANGED <<loads, page, saved, wanted, disturbed>>
  BY <1>5 DEF ChoiceInv, AtRest, OnlyLoad
<1>6. CASE UNCHANGED vars
  BY <1>5, <1>6 DEF vars
<1>7. ASSUME NEW option \in Options, PickExpiry(option) PROVE ChoiceInv'
  BY <1>5, <1>7 DEF PickExpiry
<1>8. ASSUME NEW value \in BOOLEAN, PickBurn(value) \/ PickProtected(value) PROVE ChoiceInv'
  BY <1>5, <1>8 DEF PickBurn, PickProtected
<1> QED
  BY <1>1, <1>2, <1>3, <1>4, <1>6, <1>7, <1>8 DEF Next

(* A user who waits for one load before asking for the next gets the       *)
(* language asked for, on this page and every later one: what is saved     *)
(* beats what the browser prefers (initI18n).                              *)
THEOREM ChoiceHonoured == Spec => []ChoiceKept
<1>1. TranslationsTypeOK /\ ChoiceInv => ChoiceKept
  BY Absence DEF ChoiceInv, ChoiceKept, OnlyLoad, AtRest, TranslationsTypeOK
<1> QED
  BY <1>1, ChoiceInit, ChoiceStep, Typing, PTL DEF Spec
=============================================================================
