\* Two parts, one request goroutine answering probe after probe, three
\* watchdog ticks.  The ticker stops after MaxTicks, so the watchdog comes
\* to rest: deadlock is not checked.
CONSTANTS
    p1 = p1
    p2 = p2
    q1 = q1
    Parts <- MCParts
    Requests <- MCRequests
    Absent = Absent
    NoOwner = NoOwner
    MaxTicks = 3
SPECIFICATION Spec
PROPERTY HealthRefinement
CHECK_DEADLOCK FALSE
