CONSTANTS
    Hosts = {"own", "alias"}
    MaxFaults = 2
    MaxRuns = 4
    MaxBusy = 1
    MaxStaleResets = 2
    PartitionTries = 2
    Chunks = 2
    Fingers = {"index"}
    OtherUser = "other"
    MaxTracked = 1
    Iterations = 1
    MaxAttempts = 2
    MaxBad = 2
SPECIFICATION FairSpec
INVARIANT TypeOK
INVARIANT ResultsAreTrue
INVARIANT CaptureStopped
INVARIANT SessionIsOurs
PROPERTY PrintsFollowPairing
PROPERTY Terminates
PROPERTY ForceRecovers
CHECK_DEADLOCK FALSE
