CONSTANTS
    h1 = h1
    h2 = h2
    h3 = h3
    h4 = h4
    Holders <- MCHolders
    MaxSelections <- MCMaxSelections

SPECIFICATION Spec

\* The process stops when an assert fails.
CHECK_DEADLOCK FALSE

INVARIANT NoDanglingUse
