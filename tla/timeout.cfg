\* Two threads of the Symbian OS layer and one without a timeout handler.
SPECIFICATION TimeoutFairSpec
CONSTANTS
    Thread = {e, f, g}
    Epoc = {e, g}
    NoThread = NoThread
INVARIANTS
    TimersExact
    StatesAgree
PROPERTIES
    OnlyOwnTimeout
    TimedWaitEnds
CHECK_DEADLOCK FALSE
