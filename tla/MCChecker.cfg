CONSTANTS
    Fact <- MCFact
    NControl = 3
    MaxLevel <- MCMaxLevel
    CutCap = 100
    Bodies <- MCBodies
SPECIFICATION VerifySpec
INVARIANTS
    AcceptedSevers
    AcceptedExactIsMinimum
    WitnessedControlsAreNeeded
    AcceptedExhaustiveIsMinimum
CHECK_DEADLOCK FALSE
