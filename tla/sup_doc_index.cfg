SPECIFICATION Spec
CONSTANTS
    a = a  b = b  c = c  d = d
    Service = {a, b, c}
    First <- FirstThree
    Late = {}
    Spare = {}
    Config <- Discarding
    Raising = {b}
    MaxCrashes = 1
    None = None
CHECK_DEADLOCK FALSE
INVARIANT DocIndexRight
