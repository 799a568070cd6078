\* A mutex, a semaphore and a condition variable, each of which t3 may destroy; t3
\* suspends, resumes and kills t2, whose priority may be lowered; t1 exits.  The
\* system may stop: all may wait for a signal or be dead.
CONSTANTS
    t1 = t1  t2 = t2  t3 = t3  m1 = m1  m2 = m2  sem = sem  cv = cv  Null = Null
    Thread = {t1, t2, t3}
    Mutex = {m1}
    Sem = {sem}
    Cond = {cv}
    Pri <- Pri123
    InitPri <- Pri123ByThread
    ExitPri = 3
    Order <- Descending
    Suspenders <- T3ControlsT2
    Killers <- T3ControlsT2
    Repriorities <- LowersT2
    Exiters = {t1}
    CSUsers = {t1}
    Timed = {t2}
    Deleters <- T3Deletes
    MaxHold = 1
    MaxCount = 2
    MaxSusp = 1
SPECIFICATION Spec
INVARIANTS
    SyncExact
    NoIdleMutex
    InheritanceExact

CHECK_DEADLOCK FALSE
