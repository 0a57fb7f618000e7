SPECIFICATION Spec
CONSTANTS
    Second = 4
    Half = 128
    Absent = Absent
    NoPaste = NoPaste
    MaxNow = 140
    Asked <- InRange
    Limits <- Capping
INVARIANTS Capped Honoured
CHECK_DEADLOCK FALSE
