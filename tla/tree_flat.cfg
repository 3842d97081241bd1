SPECIFICATION Spec
CONSTANTS
    app = app  db = db  web = web  log = log
    t1 = t1  t2 = t2  t3 = t3
    Service = {app, db, web}
    PostInit <- FlatPostInit
    OnInit <- FlatOnInit
    Dynamic <- NoSet
    Future = {t1, t2}
    Owner <- FlatOwner
    TaskFuture = {t1}
    WaitForShutdown = {app}
    Supervised = {web}
    Cancellable = {app}
    Exposed = {app}
    Raising = {db}
    Entering = {app, db}
    Orderly = TRUE
    User = User
    None = None
CHECK_DEADLOCK FALSE
INVARIANTS TypeOK JoinedBeforeShutdown ParentLast ContextsReleased
PROPERTY NoLateStart
