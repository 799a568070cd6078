\* a and b of one priority with timeslices of two ticks, which may end while the
\* kernel is locked, and c of a higher one; b needs the system lock implicitly.
CONSTANTS
    idle = idle  a = a  b = b  c = c
    sys = sys  fm = fm  Null = Null
    Thread = {idle, a, b, c}
    NullThread = idle
    Mutex = {sys}
    SysLock = sys
    Pri <- Pri012
    InitPri <- PriAAC
    Timeslice <- TwoTicksAB
    ImplicitSys <- OnlyB
    Suspenders <- None
    Killers <- None
    Prioritisers <- None
    Exiters <- None
    Blockers <- None
    Yielders <- None
    Rotators <- None
    Signallers <- None
    MaxCount = 1
    MaxSuspend = 0
    MaxCS = 0
    MaxLockedTicks = 1
SPECIFICATION TickSpec
INVARIANTS
    HoldersExact
    HolderFlagged
PROPERTIES
    ImplementsFastMutex
    WaiterServed
    RoundRobin
