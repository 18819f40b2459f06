\* Two callers, two calls each, a GC every two writes; their deferred
\* counter updates interleave.  Every caller stops after its calls, so the
\* system comes to rest: deadlock is not checked.
CONSTANTS
    p1 = p1
    p2 = p2
    Callers <- MCCallers
    Calls = 2
    Cancellable = {}
    Writes = 1
    GcFrequency = 2
    SqliteBackend = FALSE
    UintBits = 16
SPECIFICATION Spec
INVARIANT GcCountsEveryWrite
CHECK_DEADLOCK FALSE
