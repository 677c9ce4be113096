\* A claim of the repository that the code does not keep here.
SPECIFICATION Spec
CONSTANTS
    PlugAttempts = 2
    Surroundings <- MCClose
INVARIANTS
    LeftAsFound
CHECK_DEADLOCK FALSE
