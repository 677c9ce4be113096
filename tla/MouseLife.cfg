\* Two buttons and two mice, in seven surroundings.
SPECIFICATION LiveSpec
CONSTANTS
    left = left
    right = right
    Buttons <- MCButtons
    Mice <- MCMice
    MaxPending = 2
    MaxInFlight = 2
    Surroundings <- MCSurroundings
INVARIANTS
    RecordCoversDevice
    OffHoldsNothing
    NoButtonLeft
PROPERTIES
    ShowsEachClickOnce
    ShowsEveryClick
CHECK_DEADLOCK FALSE
