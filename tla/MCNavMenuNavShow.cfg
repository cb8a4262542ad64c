CONSTANTS
    a = a
    b = b
    c = c
    Items <- MCItems
    MaxClicks = 4
SPECIFICATION Spec
INVARIANT NavShowMarksOpen
CHECK_DEADLOCK FALSE
