\* A text is sent once.
CONSTANTS
    Texts <- MCTexts
    Notice <- MCNotice
    SoftTargets <- MCSoftTargets
    PhysicalLimits = {5, 6}
    PrefixBytes = 2
    MaxChunks = 3

SPECIFICATION Spec

INVARIANTS
    ChunksFit
    TextKept
    NumberingIsTrue
    FewestChunks

CHECK_DEADLOCK FALSE
