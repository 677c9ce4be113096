\* Two process ids, six surroundings.
SPECIFICATION LiveSpec
CONSTANTS
    p1 = p1
    p2 = p2
    none = none
    Pids <- MCPids
    NoPid <- none
    Surroundings <- MCSurroundings
INVARIANTS
    LampIsGivenBack
    RefusalIsARefusal
PROPERTIES
    OnlyTheirsAreClosed
    MainComesBack
    BlockersGoDown
CHECK_DEADLOCK FALSE
