SPECIFICATION Spec
CONSTANTS
    None = None
    Thread = {a, b}  Key = {a, b, c}  Limit = 2
    Elem = {a, b}  Value = {a, b}
    Fun = {a}  Sender = {a, b}  Task = {a}
    MaxEntries = 3
    Interval = 10  Correction = 1  Late = {0, 1, 4}  Runtime = {0, 11}  MaxIterations = 3
    Timeout = 25  Duration = {1, 3, 24, 25}  MaxWait = 60
    Vertex = {a, b, c}  MaxEdges = 3
    Beacon = {a, b, c}
    Finalizer = {a, b}  MaxObjects = 2  MaxEvaluations = 2
    Printer = {a}  Block = {a, b}
    User = {a, b}  Directory = {a, b}  Namespace = {a, b}
    Item = {1, 2, 3}  MaxLength = 4
    MaxServices = 2
    Items = 5  Argument = {0, 1, 2, 3}
CHECK_DEADLOCK FALSE
INVARIANTS TypeOK CollectionsRight ObserverKnows Delivered LikeNested TimersRight GraphsRight
    LazyRight GlobalsRight
