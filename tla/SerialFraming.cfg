\* Three frames and faults enough for a false frame; the bytes have their real values.
SPECIFICATION Spec
CONSTANTS
    Start1 = 148
    Start2 = 195
    Base = 256
    MaxEnvelopeBytes = 2
    Payloads <- MCPayloads
    StrayBytes = {0, 2, 148, 195}
    None = None
    MaxFrames = 3
    MaxFaults = 7
INVARIANT TypeOK
PROPERTY WholeFrames
CHECK_DEADLOCK FALSE
