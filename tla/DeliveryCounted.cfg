CONSTANTS
    w1 = w1
    w2 = w2
    Workers = {w1}
    Retries = 3
    Environments <- LossyHTTP
    MaxPolls = 2
    MaxReports = 2
SPECIFICATION Spec
INVARIANTS
    CountedOnce
