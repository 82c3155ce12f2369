SPECIFICATION FairSpec
CONSTANTS
    Bundles <- MCBundles
    Rules <- MCRules
    Obligations <- MCObligations
    UnseenSteps <- MCUnseenSteps
    Tick <- MCTick
    MaxFacts = 11
    MaxInstances = 6
    MaxIterations = 6
INVARIANT
    EveryWorldCovered
CHECK_DEADLOCK FALSE
