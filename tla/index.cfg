SPECIFICATION IndexSpec
CONSTANTS
    Session = {s1, s2}
    Spec = {x1, x2}
    bge = bge
    minilm = minilm
    large = large
    Model = {bge, minilm, large}
    NoModel = NoModel
    Dim <- MCDim
    SchemaDim = 384
    DefaultModel = bge
    Intents = {"explicit", "default"}
    Faults = {"crash", "outage"}
SYMMETRY Symmetry
INVARIANTS TypeOK RebuildRepairs IndexFits
PROPERTY BlocksStaySearchable
