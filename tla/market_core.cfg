\* The market stops when the clock ends with no bounty posted.
CHECK_DEADLOCK FALSE
SPECIFICATION Spec
CONSTANTS
    BountyId = {b1, b2}
    ClaimId = {c1, c2}
    AttestationId = {t1}
    p1 = p1
    p2 = p2
    a1 = a1
    a2 = a2
    Account <- MCAccount
    Artifact <- MCArtifact
    NoArtifact = NoArtifact
    n1 = n1
    n2 = n2
    Nonce = {n1, n2}
    Joined <- MCJoined
    Knows <- MCKnows
    Stakes = {1}
    MinTCommit = 1
    MaxTCommit = 2
    MinTReveal = 1
    MaxTReveal = 1
    DefaultTReveal = 1
    MaxLag = 1
    MaxTime = 3
SYMMETRY Symmetry
INVARIANTS ClaimsFollowBounty TimesInOrder NoFrontRunning
PROPERTIES DecisionsAreFinal
