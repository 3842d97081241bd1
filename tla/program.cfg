SPECIFICATION Spec
CONSTANTS
    Waiter = {a}  MaxWaitRestarts = 1
    Protected = {a, b, c}  MaxRuns = 3
    Producer = {a, b, c}  Consumer = {a, b}  Enhanced = {c}
    Size = 3  MaxPuts = 3  MaxErrors = 1  MaxSwitches = 1
    LogTask = {a, b}  Recorder = {a, b}  MaxLists = 2  MaxMessages = 1
    Caller = {a}  Stopper = {a}  QueueWorker = {a}
    MaxSignals = 2
    Restarter = {a, b}  MaxRestarts = 1  MaxStarts = 1
    None = None
CHECK_DEADLOCK FALSE
INVARIANTS TypeOK WaitsRight StampedeRight NoLostWakeup RecorderRight ThreadRight LifeRight
PROPERTIES NobodyWaitsForever
