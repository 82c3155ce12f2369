SPECIFICATION FairSpec
CONSTANTS
    Bundles <- MCBundles
    Rules <- MCRules
    Obligations <- MCObligations
    UnseenSteps <- MCUnseenSteps
    Tick <- MCTick
    MaxFacts = 11
    MaxInstances = 6
    MaxIterations = 4
INVARIANTS
    LowerIsLeastModel
    CapsAreDeclared
    PlacementsCovered
PROPERTIES
    Terminates
CHECK_DEADLOCK FALSE
