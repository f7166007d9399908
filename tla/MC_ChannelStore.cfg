\* Apply against lock-free readers, without slot migration: one channel,
\* three commands, so subscribes and unsubscribes of both connections overlap.
CONSTANTS
    t1 = t1
    t2 = t2
    c1 = c1
    c2 = c2
    ch1 = ch1
    ch2 = ch2
    mig = mig
    Threads = {t1, t2}
    Conns = {c1, c2}
    Channels = {ch1}
    ConnThread <- MCConnThread
    Migrator = mig
    MigThread = t1
    MaxMigrations = 0
    MaxCmds = 3
    AllowUnsubscribe = TRUE
SPECIFICATION Spec
INVARIANTS
    TypeOK
    MemorySafe
    NoSharedResize
    SubscriptionsAgree
    NoLeak
PROPERTIES
    UpdatesComplete
