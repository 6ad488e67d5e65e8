SPECIFICATION FairSpec
CONSTANTS
    Transports = {"serial", "http"}
    Starters = {s1}
    Stoppers = {t1}
    MaxAttempts = 2
    MaxConfigs = 3
PROPERTIES StopTerminates LostAttemptIsReplaced
CHECK_DEADLOCK FALSE
