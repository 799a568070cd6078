\* One periodic timer, every delay, long tick suppression, under fairness.
SPECIFICATION FairSpec
CONSTANTS
    t1 = t1
    t2 = t2
    Timer = {t1}
    Null = Null
    NumQueues = 8
    Modulus = 32
    Delay <- EveryDelay
    InDfc = {FALSE, TRUE}
    Periodic = {t1}
    MaxLatency = 2
    MaxSleep = 16
PROPERTY
    ImplementsTimers
    EveryTimerEnds
