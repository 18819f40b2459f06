\* All callers, faults and external writers: safety of the writer pipeline,
\* and that every Apply returns when no context is cancelled.  No webhook
\* URL: its POST has no timeout, so with one the writer may wait forever.
\* The writer may block for good (see MCRepository_hang.cfg), and with finitely
\* many callers it waits on an empty queue at the end, so deadlock is not checked.
CONSTANTS
    c1 = c1
    c2 = c2
    c3 = c3
    x1 = x1
    x2 = x2
    Clients <- MCClients
    Bad = {c3}
    Cancellable = {c1}
    ExtCommits <- MCExtCommits
    ConfigReaders = {c1}
    Breaking = {x1}
    Faults = {"transient", "timeout", "rejected", "fetch"}
    QueueCapacity = 2
    MaxPushAttempts = 2
    ArgoWebhook = FALSE
SPECIFICATION Spec
INVARIANT TypeOK
INVARIANT OrderPreserved
 
PROPERTY AnsweredWithoutCancel
CHECK_DEADLOCK FALSE
