SPECIFICATION Spec
CONSTANTS
    app = app  db = db  web = web  log = log
    t1 = t1  t2 = t2  t3 = t3
    Service = {app, db, web, log}
    PostInit <- FlatPostInit
    OnInit <- NoList
    Dynamic <- DynDynamic
    Future = {}
    Owner <- FlatOwner
    TaskFuture = {}
    WaitForShutdown = {}
    Supervised = {web}
    Cancellable = {}
    Exposed = {app}
    Raising = {db, web}
    Entering = {}
    Orderly = FALSE
    User = User
    None = None
CHECK_DEADLOCK FALSE
INVARIANT DocStartedWithParent
