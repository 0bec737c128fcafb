CONSTANTS
    Names = {"left", "right"}
    Slots = {1, 2}
    Foreign = {245}
    MaxFingers = 1
    MaxOps = 3
    MaxFaults = 1
    MaxVersion = 2
    MaxRuns = 2
    MaxChoices = 2
    MaxGlitches = 1
SPECIFICATION Spec
INVARIANT TypeOK
INVARIANT NamesUnique
INVARIANT NothingLeftBehind
 
 
CHECK_DEADLOCK FALSE
