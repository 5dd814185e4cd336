SPECIFICATION FairSpec
CONSTANTS
    Proc = {p, q}
    NoMeta = NoMeta
    MaySignal <- SameUser
    Faults = {"exit", "kill", "write", "remove"}
    MaxPolls = 2
\* Every process may end.
CHECK_DEADLOCK FALSE
INVARIANTS MutualExclusion
PROPERTY AcquireReturns
