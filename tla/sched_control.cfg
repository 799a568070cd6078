\* b suspends, resumes, kills and releases a, which also does it to itself, and changes
\* its priority; a changes both priorities, rotates ready lists and blocks; b exits;
\* both yield, in and out of critical sections and holding one of two fast mutexes, one
\* the system lock, which a needs implicitly.  Both may die while the idle thread has
\* nothing to wait for, so the system may stop.
CONSTANTS
    idle = idle  a = a  b = b  c = c
    sys = sys  fm = fm  Null = Null
    Thread = {idle, a, b}
    NullThread = idle
    Mutex = {sys, fm}
    SysLock = sys
    Pri <- Pri012
    InitPri <- PriAA
    Timeslice <- OneTick
    ImplicitSys <- OnlyA
    Suspenders <- BControlsA
    Killers <- BControlsA
    Prioritisers <- ASetsBothBSetsA
    Exiters <- OnlyB
    Blockers <- OnlyA
    Yielders <- Users
    Rotators <- OnlyA
    Signallers <- OnlyB
    MaxCount = 1
    MaxSuspend = 2
    MaxCS = 1
    MaxLockedTicks = 0
SPECIFICATION Spec
INVARIANTS
    ThreadStatesOK
    NothingForgotten
    ReadyListOK
    ImplicitSysLock
    HighestReadyRunsUnlessFMWait
CHECK_DEADLOCK FALSE
