CONSTANTS
    Fact <- MCFact
    Programs <- MCPrograms
    NControl = 3
    MaxLevel <- MCMaxLevel
    CorridorCap = 3
    CutCap = 100
    Pairs <- MCPairs
    Upstream <- MCUpstream
    LicensesOf <- MCLicensesOf
    Reports <- MCReports
SPECIFICATION CSpec
INVARIANTS
    PremiumIsEarned
    EmittedIsAccepted
    RobustInEveryWorld
    EveryControlIsWitnessed
    RefusesOnlyUnsafeAndOneSidedCap
CHECK_DEADLOCK FALSE
