SPECIFICATION FairSpec
CONSTANTS
    Root = {1, 2, 3, 4}
    f = f
    g = g
    x = x
    y = y
    z = z
    SpecOf <- MCSpecOf
    NameOf <- MCNameOf
    u = u
    Name = {f, g, u}
    ImportLists <- MCImportLists
    Known <- MCKnown
    NoRoot = NoRoot
    NoSpec = NoSpec
INVARIANTS LeavesFirst NothingUnused ErrorsAreTrue Reproducible
PROPERTY AssemblyEnds
