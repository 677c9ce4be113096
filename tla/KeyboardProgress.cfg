\* One slot for two keys: the second stands for the seventh key of the code.
SPECIFICATION LiveSpec
CONSTANTS
    a = a
    b = b
    m = m
    Keys <- MCKeys
    Mods <- MCMods
    MaxPressedKeys = 1
    MaxPending = 2
    MaxInFlight = 2
    Surroundings <- MCSession
PROPERTIES
    EchoesRunOut
    ReleaseReachesApps
CHECK_DEADLOCK FALSE
