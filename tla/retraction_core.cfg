\* The market stops when the clock ends with no bounty posted.
CHECK_DEADLOCK FALSE
SPECIFICATION RetractionSpec
CONSTANTS
    BountyId = {b1}
    ClaimId = {c1}
    AttestationId = {t1}
    RetractionId = {r1, r2}
    p1 = p1
    p2 = p2
    a1 = a1
    a2 = a2
    Account <- MCAccount
    Artifact <- MCArtifact
    NoArtifact = NoArtifact
    n1 = n1
    n2 = n2
    Nonce = {n1, n2}
    Joined <- MCJoined
    Knows <- MCKnows
    Stakes = {1}
    RetractionStakes = {1, 2}
    StakeMultiplier = 2
    MaxVotes = 3
    TRetraction = 2
    Rewards = {5}
    SlashAfter <- HalvedEachTick
    MinTCommit = 1
    MaxTCommit = 1
    MinTReveal = 1
    MaxTReveal = 1
    DefaultTReveal = 1
    MaxLag = 1
    MaxTime = 4
SYMMETRY RetractionSymmetry
INVARIANTS RetractionTypeOK SlashedOnce OnlyAcceptedChallenged NoRivalLeftPending
