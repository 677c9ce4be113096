\* Every flag, every command; two records in the console's queue.
SPECIFICATION LiveSpec
CONSTANTS
    Keys <- MCKeys
    Tick = 2
    MaxRecords = 2
INVARIANT
    ScreenIsTrue
PROPERTIES
    TickArrives
    AnswersAreFresh
    NoLifeAfterCleanUp
CHECK_DEADLOCK FALSE
