\* Apply returning nil although its commit never reached the remote.
CONSTANTS
    c1 = c1
    c2 = c2
    c3 = c3
    x1 = x1
    x2 = x2
    Clients <- MCClients
    Bad = {c3}
    Cancellable = {}
    ExtCommits <- MCExtCommits
    ConfigReaders = {c1}
    Breaking = {x1}
    Faults = {"transient", "timeout", "rejected", "fetch"}
    QueueCapacity = 2
    MaxPushAttempts = 2
    ArgoWebhook = TRUE
SPECIFICATION Spec
INVARIANT AckedIsPushed
CHECK_DEADLOCK FALSE
