SPECIFICATION FairSpec
CONSTANTS
    empty = empty
    words = words
    pw = pw
    plain = plain
    guarded = guarded
    misread = misread
    id1 = id1
    None = None
    NoPass = NoPass
    Texts = {empty, words}
    Empty = empty
    Passwords = {pw}
    Options = {plain, guarded, misread}
    ProtectedOptions = {guarded}
    MisreadOptions = {misread}
    Forms <- Drafts
    Blank <- MCBlank
    Ids = {id1}
    Slots = {1, 2}
    MaxVisits = 1
INVARIANTS PasteTabTypeOK SendFlagExact DeleteFlagExact SentAsEntered FlashTells
PROPERTIES OnePost OneDelete Told
