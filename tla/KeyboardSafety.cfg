\* Two keys and both slots free for them, in four surroundings.
SPECIFICATION Spec
CONSTANTS
    a = a
    b = b
    m = m
    Keys <- MCKeys
    Mods <- MCMods
    MaxPressedKeys = 2
    MaxPending = 1
    MaxInFlight = 2
    Surroundings <- MCSurroundings
INVARIANTS
    TypeOK
    RecordCoversDevice
    OffReleasesAll
    NoKeyLeftOnDevice
    NoKeyLeftInApps
    NoPhantomEcho
PROPERTIES
    UndoIsNeverLost
    OnlyARepeatOutlivesOff
CHECK_DEADLOCK FALSE
