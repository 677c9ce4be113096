\* A claim of the repository that the code does not keep here: a replacement that
\* fails half way.
SPECIFICATION Spec
CONSTANT
    Surroundings <- MCFail
CONSTRAINT
    ReplacesOnly
INVARIANT
    ReadyIsInstalled
CHECK_DEADLOCK FALSE
