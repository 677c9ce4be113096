\* Any number of sessions and restarts, in six surroundings.
SPECIFICATION LiveSpec
CONSTANT
    Surroundings <- MCSurroundings
INVARIANTS
    ReadySpeaksOurs
    NoteIsTheRemoval
    RemovedLeavesNothing
PROPERTIES
    NeverToldTwice
    Recovers
CHECK_DEADLOCK FALSE
