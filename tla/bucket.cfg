SPECIFICATION Spec
CONSTANTS
    c1 = c1  c2 = c2  c3 = c3
    Client = {c1, c2}
    Rate = 2
    Over = 2
    One = 3
    Amount = {3, 6}
    MaxTime = 4
CHECK_DEADLOCK FALSE
INVARIANTS TypeOK WindowBound ExpectedTimeEnough EntryRate
PROPERTY Limited
