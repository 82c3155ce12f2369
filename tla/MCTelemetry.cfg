SPECIFICATION Spec
CONSTANTS
    OutageBlock = 3
    Class <- MCClass
    Phases <- MCPhases
    QuantileP = 2
    QuantileQ = 3
    Identity = "id"
    SlackNum = 3
    SlackDen = 2
    KTail = 0
    NFloor = 2
    MMin = 2
    T0 = 0
    T1 = 8
    U64Max = 5
    NominalPeriod <- MCNominal
    CalibrationBand = {1}
    Streams <- MCStreams
    Levels <- MCLevels
    Blackouts <- MCBlackouts
    Shifts <- MCShifts
    ForgedCounts = {1, 2}
    ExternalFiles <- MCExternalFiles
    Calibrations <- MCCalibrations
    Seeds = {1, 2}
    Scenario <- MCScenario
    Flags <- MCFlags
    RuleSeqs <- MCRuleSeqs
    ExactCap = 3
INVARIANTS
    IntakeIsExact
    LiveIsWitnessed
    NoHiddenLoss
    SuppressionNeverHides
    DocumentIsExact
    DisputeIsExact
