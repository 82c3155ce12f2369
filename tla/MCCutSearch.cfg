CONSTANTS
    Fact <- MCFact
    Programs <- MCPrograms
    NControl = 3
    MaxLevel <- MCMaxLevel
    CorridorCap = 3
SPECIFICATION FairSpec
INVARIANTS
    SearchInv
    ExactIsMinimum
    OtherClaimsAreEarned
PROPERTIES
    SearchAdvances
    Termination
CHECK_DEADLOCK FALSE
