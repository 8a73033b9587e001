CONSTANTS
    Heights <- MCHeights
    MnCounts <- MCMnCounts
    DkgInterval <- MCDkgInterval
    DkgMiningWindowStart <- MCDkgMiningWindowStart
    DkgMiningWindowEnd <- MCDkgMiningWindowEnd
    IsQuorums200Active <- MCIsQuorums200Active

SPECIFICATION ReselectSpec

INVARIANT ProfilesMatchGuard
