SPECIFICATION RulesSpec
CONSTANTS
    NoGuard = NoGuard
    CtlTerms <- Distributed
    CtlTooWide <- TooWide
    WhenAccepted <- WhenCompiles
    MaxDnfTerms = 2
    I64Max = 3
    MaskWidth = 3
    MaxBody = 2
    Catalogs <- MCCatalogs
    RuleFiles <- MCRuleFiles
INVARIANTS
    LockKeepsMeaning
    GuardsKeepMeaning
    TableIsExact
