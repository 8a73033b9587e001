\* Every chain name with every argument set, through construction.
CONSTANTS
    Chains <- MCChains
    BudgetValues <- MCBudgetValues
    IntValues <- MCIntValues
    NameValues <- MCNameValues
    TokenValues <- MCTokenValues
    ParamsDefaults <- MCParamsDefaults
SPECIFICATION Spec
INVARIANT TypeOK
INVARIANT ConstructionMatchesSpec
INVARIANT RejectsOnlyMalformed
\* Construction ends: the object is installed or the exception escapes.
CHECK_DEADLOCK FALSE
