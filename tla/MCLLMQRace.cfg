CONSTANTS
    t1 = t1
    t2 = t2
    Threads <- MCThreads
    Serialised = TRUE
    Heights <- MCHeights
    MnCounts <- MCMnCounts
    DkgInterval <- MCDkgInterval
    DkgMiningWindowStart <- MCDkgMiningWindow
    DkgMiningWindowEnd <- MCDkgMiningWindow
    IsQuorums200Active <- MCIsQuorums200Active

SYMMETRY MCSymmetry

SPECIFICATION Spec

INVARIANT TypeOK
INVARIANT QuiescentMatchesGuard
PROPERTY ImplementsAtomic
