\* A webhook naming a commit that non-fast-forward recovery threw away.
CONSTANTS
    c1 = c1
    c2 = c2
    c3 = c3
    x1 = x1
    x2 = x2
    Clients <- MCClients
    Bad = {c3}
    Cancellable = {}
    ExtCommits <- MCExtCommits
    ConfigReaders = {c1}
    Breaking = {x1}
    Faults = {}
    QueueCapacity = 2
    MaxPushAttempts = 2
    ArgoWebhook = TRUE
SPECIFICATION Spec
INVARIANT WebhookNamesPushedCommit
CHECK_DEADLOCK FALSE
