\* The run msgqueue asked whether a thread is only ever panicked with the system
\* locked.
CONSTANTS
    a = a  b = b  x = x  Sup = Sup  Null = Null
    Client = {a, b}
    Mortal = {a}
    Closers = {b}
    Msg = {x}
    Slots = 2
SPECIFICATION Spec
INVARIANTS
    PanicHoldsLock
CHECK_DEADLOCK FALSE
