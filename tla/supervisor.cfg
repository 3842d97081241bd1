SPECIFICATION FairSpec
CONSTANTS
    a = a  b = b  c = c  d = d
    Service = {a, b, c, d}
    First <- FirstTwo
    Late = {c}
    Spare = {d}
    Config <- Configs
    Raising = {b}
    MaxCrashes = 2
    None = None
CHECK_DEADLOCK FALSE
INVARIANTS TypeOK StopStopsAll NoZombie AllDown IndexRight
PROPERTIES GivenUp Restarted
