\* Every kind of answer, three tries as in the code, three successive batches.
\* After the last batch the writer waits for more work: deadlock is not an
\* error.
CONSTANTS
    MaxArgoRequests = 3
    Answers = {"200", "2xx", "4xx", "5xx", "connErr"}
    Pushes = 3
SPECIFICATION Spec
INVARIANT TypeOK
INVARIANT RetryPolicy
CHECK_DEADLOCK FALSE
