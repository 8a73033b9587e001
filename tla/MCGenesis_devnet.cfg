CONSTANTS
    NonceSpace <- MCNonceSpace

SPECIFICATION Spec

INVARIANT DevNetAbortsOnlyIfNoNonce

CHECK_DEADLOCK FALSE
