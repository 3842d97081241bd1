SPECIFICATION FairSpec
CONSTANTS
    app = app  db = db  web = web  log = log
    t1 = t1  t2 = t2  t3 = t3
    Service = {app, db, web}
    PostInit <- ChainPostInit
    OnInit <- ChainOnInit
    Dynamic <- NoSet
    Future = {t3}
    Owner <- FlatOwner
    TaskFuture = {t3}
    WaitForShutdown = {db}
    Supervised = {db}
    Cancellable = {}
    Exposed = {app, db}
    Raising = {web}
    Entering = {app}
    Orderly = TRUE
    User = User
    None = None
CHECK_DEADLOCK FALSE
INVARIANTS CrashDown CrashUp
PROPERTY StopCompletes
