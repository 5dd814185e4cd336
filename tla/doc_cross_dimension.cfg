SPECIFICATION IndexSpec
CONSTANTS
    Session = {s1}
    Spec = {x1, x2}
    bge = bge
    minilm = minilm
    large = large
    Model = {bge, minilm, large}
    NoModel = NoModel
    Dim <- MCDim
    SchemaDim = 384
    DefaultModel = bge
    Intents = {"explicit"}
    Faults = {}
SYMMETRY Symmetry
INVARIANT RebuildSucceeds
