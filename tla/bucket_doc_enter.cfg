SPECIFICATION Spec
CONSTANTS
    c1 = c1  c2 = c2  c3 = c3
    Client = {c1, c2, c3}
    Rate = 1
    Over = 1
    One = 1
    Amount = {1}
    MaxTime = 3
CHECK_DEADLOCK FALSE
INVARIANT DocEntryRate
