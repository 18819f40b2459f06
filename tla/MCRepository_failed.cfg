\* Apply returning an error although its change reaches the remote.
CONSTANTS
    c1 = c1
    c2 = c2
    c3 = c3
    x1 = x1
    x2 = x2
    Clients <- MCClients
    Bad = {c3}
    Cancellable = {}
    ExtCommits = {}
    ConfigReaders = {c1}
    Breaking = {}
    Faults = {"transient"}
    QueueCapacity = 2
    MaxPushAttempts = 2
    ArgoWebhook = FALSE
SPECIFICATION Spec
INVARIANT FailedNotPushed
CHECK_DEADLOCK FALSE
