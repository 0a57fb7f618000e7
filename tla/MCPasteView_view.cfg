SPECIFICATION Spec
CONSTANTS
    right = right
    wrong = wrong
    js = js
    text = text
    mermaidJs = mermaidJs
    x = x
    y = y
    t1 = t1
    t2 = t2
    SaltLen = 2
    IvLen = 2
    Chunk = 3
    Null = Null
    Texts <- MCTexts
    Passwords = {right, wrong}
    Served <- Pages
    NoPass = NoPass
    Languages = {js, text, mermaidJs}
    Mermaid = mermaidJs
    First = text
    Attempts = {t1, t2}
    MaxTags = 2
    MaxTimers = 2
    None = None
SYMMETRY AttemptSymmetry
INVARIANTS PasteViewTypeOK HighlightedForClass LinesFollowHash
PROPERTIES  NeverRelocked
CHECK_DEADLOCK FALSE
