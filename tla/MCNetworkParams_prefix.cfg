\* -extcoinindex texts that start with a number and go on with other text.
CONSTANTS
    Chains <- MCChains
    BudgetValues <- MCBudgetValues
    IntValues <- MCIntValues
    NameValues <- MCNameValues
    TokenValues <- MCPrefixTokenValues
    ParamsDefaults <- MCParamsDefaults
SPECIFICATION Spec
INVARIANT ConstructionMatchesSpec
\* Construction ends: the object is installed or the exception escapes.
CHECK_DEADLOCK FALSE
