SPECIFICATION Spec
CONSTANTS
    SendDelay = 2
    RejectionGrace = 1
    AcceptanceTimeout = 3
    DutyCap = 3
    MaxTime = 8
    MaxSubmissions = 3
INVARIANTS TypeOK RoomBeforeRetry BoundedWaits
PROPERTIES PacedAfterVerdict DutyRetryNotEarly AcceptedMeansQuiet
CHECK_DEADLOCK FALSE
