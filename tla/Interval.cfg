SPECIFICATION Spec
CONSTANTS
    SendDelay = 2
    RejectionGrace = 1
    AcceptanceTimeout = 3
    DutyCap = 3
    MaxTime = 5
    MaxSubmissions = 2
PROPERTY MinimumInterval
CHECK_DEADLOCK FALSE
