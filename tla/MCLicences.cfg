SPECIFICATION Spec
CONSTANTS
    Source <- MCSource
    Documents <- MCDocuments
    DetectRules <- MCDetectRules
    ObligationRules <- MCObligationRules
    Observable <- MCObservable
    Derivable <- MCDerivable
    Tick = 2
    Entities <- MCEntities
    MaxBindings = 3
    MaxSilent = 8
INVARIANTS
    LicencesAreExact
    CompleteUpToBindings
CHECK_DEADLOCK FALSE
