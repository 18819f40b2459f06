\* A caller whose context is cancelled while its element heads the queue.
CONSTANTS
    c1 = c1
    c2 = c2
    c3 = c3
    x1 = x1
    x2 = x2
    Clients <- MCClients
    Bad = {c3}
    Cancellable = {c1}
    ExtCommits = {}
    ConfigReaders = {c1}
    Breaking = {}
    Faults = {}
    QueueCapacity = 2
    MaxPushAttempts = 2
    ArgoWebhook = FALSE
SPECIFICATION Spec
PROPERTY EveryRequestAnswered
CHECK_DEADLOCK FALSE
