\* Three threads of different priorities and two nested mutexes; t3 suspends,
\* resumes and kills t2, whose waits have a timeout.  The system may stop: t3 may wait
\* for a mutex of a thread that only t3 can resume.
CONSTANTS
    t1 = t1  t2 = t2  t3 = t3  m1 = m1  m2 = m2  sem = sem  cv = cv  Null = Null
    Thread = {t1, t2, t3}
    Mutex = {m1, m2}
    Sem = {}
    Cond = {}
    Pri <- Pri123
    InitPri <- Pri123ByThread
    ExitPri = 3
    Order <- Descending
    Suspenders <- T3ControlsT2
    Killers <- T3ControlsT2
    Repriorities = {}
    Exiters = {}
    CSUsers = {}
    Timed = {t2}
    Deleters = {}
    MaxHold = 2
    MaxCount = 2
    MaxSusp = 1
SPECIFICATION FairSpec
INVARIANTS
    SyncExact
    NoIdleMutex
    InheritanceExact
PROPERTIES
    FreeMutexIsTaken
CHECK_DEADLOCK FALSE
