\* A migration records a channel from its thread's stale store that an
\* unsubscribe has already dropped from most_recent.
CONSTANTS
    t1 = t1
    t2 = t2
    c1 = c1
    c2 = c2
    ch1 = ch1
    ch2 = ch2
    mig = mig
    Threads = {t1, t2}
    Conns = {c1, c2}
    Channels = {ch1}
    ConnThread <- MCConnThread
    Migrator = mig
    MigThread = t1
    MaxMigrations = 1
    MaxCmds = 2
    AllowUnsubscribe = TRUE
SPECIFICATION Spec
INVARIANT
    NoInvalidIterator
