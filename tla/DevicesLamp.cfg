\* A claim of the repository that the code does not keep here, when the window is
\* closed over the menu.
SPECIFICATION Spec
CONSTANTS
    PlugAttempts = 2
    Surroundings <- MCClose
CONSTRAINT
    ClosedInMenu
INVARIANTS
    LampGivenBack
CHECK_DEADLOCK FALSE
