SPECIFICATION FairSpec
CONSTANTS
    en = en
    de = de
    ch = ch
    zh = zh
    Langs = {en, de, ch}
    En = en
    De = de
    Ch = ch
    None = None
    Browsers <- MCBrowsers
    Options <- BuiltIn
    DefaultExpiry = 31536000
    DefaultBurn = TRUE
    Outages <- SomeOutages
    MaybeFull = TRUE
    Slots = {1, 2}
    MaxPages = 1
INVARIANTS TranslationsTypeOK OneLanguage LabelsTell ChoiceKept
PROPERTIES LoadsEnd Translated
