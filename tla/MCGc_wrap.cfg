\* A GC whose after-count runs while other callers' commits add loose
\* objects the repack did not take.  Deadlock is not checked: the callers stop.
CONSTANTS
    p1 = p1
    p2 = p2
    Callers <- MCCallers
    Calls = 2
    Cancellable = {}
    Writes = 1
    GcFrequency = 2
    SqliteBackend = FALSE
    UintBits = 16
SPECIFICATION Spec
INVARIANT CollectedNotWrapped
CHECK_DEADLOCK FALSE
