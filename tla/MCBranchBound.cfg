CONSTANTS
    NControl = 4
    MaxLevel <- MCMaxLevel
    Databases <- MCDatabases
    Budgets = {0, 2, 5, 9, 40}
SPECIFICATION Spec
INVARIANTS
    SolverIsExact
CHECK_DEADLOCK FALSE
