\* Five surroundings, every command, the window closed at any moment.
SPECIFICATION LiveSpec
CONSTANTS
    PlugAttempts = 2
    Surroundings <- MCSurroundings
INVARIANTS
    NobodyWaitsInVain
    OnlyUnfinishedWorkIsLeft
    PairOrNothing
    NothingUnrecorded
PROPERTIES
    CloseEnds
    MainComesBack
CHECK_DEADLOCK FALSE
