\* One client, two cancelling threads.
SPECIFICATION AsyncFairSpec
CONSTANTS
    Canceller = {c1, c2}
    Handler = h
    NumSends = 3
    NoRequest = NoRequest
INVARIANTS
    CompletedExactly
    ResultIsMine
PROPERTY
    EveryRequestEnds
