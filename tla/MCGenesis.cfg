CONSTANTS
    NonceSpace <- MCNonceSpace

SPECIFICATION Spec

INVARIANT TypeOK
INVARIANT VerifyAcceptsExactly
INVARIANT DevNetNonceMinimal
PROPERTY Terminates

\* Construction ends: the terminal states are the constructor returning or
\* the process aborting on an assertion.
CHECK_DEADLOCK FALSE
