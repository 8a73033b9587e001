\* Devnet integer options wider than an int.
CONSTANTS
    Chains <- MCChains
    BudgetValues <- MCBudgetValues
    IntValues <- MCWideIntValues
    NameValues <- MCNameValues
    TokenValues <- MCTokenValues
    ParamsDefaults <- MCParamsDefaults
SPECIFICATION Spec
INVARIANT ConstructionMatchesSpec
\* Construction ends: the object is installed or the exception escapes.
CHECK_DEADLOCK FALSE
