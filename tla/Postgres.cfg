CONSTANTS
    c1 = c1
    c2 = c2
    c3 = c3
    Calls = {c1, c2, c3}
    Counters = {"a", "b"}
    Gauges = {"g"}
    Workloads <- SmallWorkloads
    NoCall = NoCall
    Retries = 1
    MaxFaults = 2
SPECIFICATION Spec
INVARIANTS
    TypeOK
    TotalsInOrder
    EffectIffOk
PROPERTIES
    EveryCallReturns
    ImplementsAtomicStore
