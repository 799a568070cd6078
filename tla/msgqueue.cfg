\* Two threads, one of which may exit or be killed, and a queue of two slots.
CONSTANTS
    a = a  b = b  x = x  Sup = Sup  Null = Null
    Client = {a, b}
    Mortal = {a}
    Closers = {b}
    Msg = {x}
    Slots = 2
SPECIFICATION FairSpec
INVARIANTS
    RequestsExact
PROPERTIES
    ImplementsQueue
    RequestsFreed
CHECK_DEADLOCK FALSE
