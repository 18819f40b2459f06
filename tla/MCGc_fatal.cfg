\* A request whose context is cancelled while its deferred function runs a GC.
CONSTANTS
    p1 = p1
    p2 = p2
    Callers <- MCCallers
    Calls = 2
    Cancellable = {p1}
    Writes = 1
    GcFrequency = 2
    SqliteBackend = FALSE
    UintBits = 16
SPECIFICATION Spec
INVARIANT NeverExits
CHECK_DEADLOCK FALSE
