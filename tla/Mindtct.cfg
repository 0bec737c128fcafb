SPECIFICATION Spec
CHECK_DEADLOCK FALSE
CONSTANTS
    W = 20
    H = 17
    Sine <- MCSine
    Lfs <- MCLfs
    WaveSine <- MCSine
    SampleRadius = 2
    MaxFileMinutiae = 3
    Inputs <- MCInputs
INVARIANTS
    TypeOK
    NoStaleMinutiae
    StableMap
    
    OverlapsRemoved
