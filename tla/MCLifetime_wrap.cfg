SPECIFICATION Spec
CONSTANTS
    Second = 4
    Half = 128
    Absent = Absent
    NoPaste = NoPaste
    MaxNow = 10
    Asked <- Wrapping
    Limits <- OneCap
INVARIANTS Capped
CHECK_DEADLOCK FALSE
