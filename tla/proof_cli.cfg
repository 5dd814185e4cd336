\* The market stops when the clock ends with no bounty posted.
CHECK_DEADLOCK FALSE
SPECIFICATION PolledCliSpec
CONSTANTS
    BountyId = {b1}
    ClaimId = {c1, c2}
    AttestationId = {t1}
    p1 = p1
    a1 = a1
    Account = {p1}
    Artifact = {a1}
    NoArtifact = NoArtifact
    Nonce = {n1, n2}
    Joined <- MCJoined
    Knows <- MCKnows
    Stakes = {1}
    MinTCommit = 1
    MaxTCommit = 1
    MinTReveal = 1
    MaxTReveal = 1
    DefaultTReveal = 1
    MaxLag = 1
    MaxTime = 3
    Command = {k1, k2}
    UserOf <- MCUserOf
    Truncated = Truncated
INVARIANTS CliTypeOK StashOpensClaim UnrevealedKeepsStash RevealedIsCleanedUp
PROPERTIES EveryBountyDecided
