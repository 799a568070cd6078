\* Two timers that start on a final queue and on the holding queue.
SPECIFICATION Spec
CONSTANTS
    t1 = t1
    t2 = t2
    Timer = {t1, t2}
    Null = Null
    NumQueues = 4
    Modulus = 16
    Delay = {2, 4, 7}
    InDfc = {FALSE, TRUE}
    Periodic = {}
    MaxLatency = 1
    MaxSleep = 0
INVARIANTS
    QueuesExact
    DfcPointersExact
PROPERTY
    ImplementsTimers
