CONSTANTS
    h1 = h1
    h2 = h2
    h3 = h3
    h4 = h4
    Holders <- MCHolders
    MaxSelections <- MCMaxSelections

SPECIFICATION Spec

\* The process stops when an assert fails or a call has undefined behaviour.
CHECK_DEADLOCK FALSE

INVARIANT MisuseOnly
