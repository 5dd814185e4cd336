SPECIFICATION Spec
CONSTANTS
    Proc = {p, q, r}
    NoMeta = NoMeta
    MaySignal <- SameUser
    Faults = {"exit"}
    MaxPolls = 1
\* Every process may end.
CHECK_DEADLOCK FALSE
INVARIANT MutualExclusion
