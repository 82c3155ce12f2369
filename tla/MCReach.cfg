CONSTANTS
    Fact <- MCFact
    Literal <- MCLiteral
    Programs <- MCPrograms
    Cuts <- MCCuts
SPECIFICATION Spec
INVARIANTS
    IndInv
    ReachExact
PROPERTIES
    RefinesDerivation
CHECK_DEADLOCK FALSE
