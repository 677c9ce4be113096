\* Four handles, every combination of what Windows may do.
SPECIFICATION LiveSpec
CONSTANTS
    h1 = h1
    h2 = h2
    h3 = h3
    h4 = h4
    none = none
    Handles <- MCHandles
    NoHandle <- none
    Surroundings <- MCSurroundings
INVARIANTS
    ClearFlagMeansNoHook
    OneCallPerEvent
PROPERTIES
    NeverDeafened
    StopReturns
    HearsAgain
CHECK_DEADLOCK FALSE
