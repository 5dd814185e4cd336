SPECIFICATION Spec
CONSTANTS
    Process = {p, q}
    Block = {old, new}
    OldBlock = {old}
    InitVersions = {0, 1, 2, 11}
    Callers = {"registry", "market"}
SYMMETRY Symmetry
INVARIANTS VersionTells OpenerBackfills SomeoneBackfills RetriesSucceed StaySearchable
