\* A claim of the repository that the code does not keep here.
SPECIFICATION Spec
CONSTANTS
    a = a
    b = b
    m = m
    Keys <- MCKeys
    Mods <- MCMods
    MaxPressedKeys = 1
    MaxPending = 2
    MaxInFlight = 2
    Surroundings <- MCRepeatRace
INVARIANT
    OffHoldsNothing
CHECK_DEADLOCK FALSE
