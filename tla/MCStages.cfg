SPECIFICATION Spec
CONSTANTS
    Commands = {"p", "q"}
    Sessions <- MCSessions
    Directories = {"d", "e", "f"}
    Calibrated = {"j", "k"}
    Degraded = {"x", "y"}
    TextEdits <- MCTextEdits
    LockEdits <- MCLockEdits
INVARIANTS
    PinsInv
    AcceptIsAboutOwnRun
    UndisturbedIsAccepted
