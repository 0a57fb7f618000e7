SPECIFICATION Spec
CONSTANTS
    right = right
    wrong = wrong
    js = js
    text = text
    mermaidJs = mermaidJs
    x = x
    y = y
    t1 = t1
    t2 = t2
    SaltLen = 2
    IvLen = 2
    Chunk = 3
    Null = Null
    Texts <- MCTexts
    Passwords = {right, wrong}
    Served <- Pages
    NoPass = NoPass
    Languages = {js, text, mermaidJs}
    Mermaid = mermaidJs
    First = text
    Attempts = {t1}
    MaxTags = 1
    MaxTimers = 1
    None = None
INVARIANTS InitHighlights
CHECK_DEADLOCK FALSE
