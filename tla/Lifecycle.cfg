SPECIFICATION Spec
CONSTANTS
    Transports = {"serial", "http"}
    Starters = {s1, s2}
    Stoppers = {t1, t2}
    MaxAttempts = 2
    MaxConfigs = 3
INVARIANTS TypeOK StopIsFinal OnePort ReadyIsConfigured WatchedUntilReady
CHECK_DEADLOCK FALSE
