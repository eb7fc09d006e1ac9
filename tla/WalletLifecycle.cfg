SPECIFICATION LifecycleSpec
CONSTANTS
    Wallets = {w1}
    Callers = {c1, c2, c3}
    Stoppers = {c1}
    MaxStarts = 2
    Nobody = Nobody
INVARIANTS
    LifecycleTypeOK
    CounterCoversGoroutines
    StopReachesEveryone
    NoDoubleClose
PROPERTIES
    GoroutinesEnd
CHECK_DEADLOCK FALSE
