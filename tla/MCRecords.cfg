SPECIFICATION Spec
CONSTANTS
    Predicate <- MCPredicate
    AxiomRoles <- MCAxiomRoles
    Bundles <- MCBundles
    RuleTables <- MCRuleTables
    Files <- MCFiles
    Loaders = {"p", "q"}
    MaxLoads = 3
INVARIANTS
    ResolutionIsExact
    ArgsBindByRole
    IndexIsExact
PROPERTIES
    EveryLoadEnds
