SPECIFICATION Spec
CONSTANTS
    Task = {a, b}
    Recorder = {a, b}
    MaxLists = 2
    MaxMessages = 1
    None = None
CHECK_DEADLOCK FALSE
INVARIANT DocPerCoroutine
