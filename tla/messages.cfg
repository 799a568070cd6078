\* Three clients of one channel, one of which may be killed; it and another may
\* close and open the handle.
CONSTANTS
    a = a  b = b  c = c  Sup = Sup  Null = Null
    Client = {a, b, c}
    Mortal = {a}
    Closers = {a, b}
SPECIFICATION FairSpec
INVARIANTS
    MessagesExact
    ObjectsKept
PROPERTIES
    RequestsEnd
    DeadAreDeleted
