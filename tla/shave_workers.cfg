SPECIFICATION Spec
CONSTANTS
    Process = {p, q}
    validator = validator
    Package = {validator}
    Binding = {b1, b2}
    PackageOf <- MCPackageOf
    Matched = {b1}
    HitThreshold = 1
    MissThreshold = 2
    MaxHits = 1
    MaxMisses = 2
    NoState = NoState
    Unread = Unread
    Faults = {"kill", "write"}
INVARIANTS OnlyTriedIsCompleted OwnWorkRemembered AttemptsPersist WholePackageSwept
