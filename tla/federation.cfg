SPECIFICATION FairSpec
CONSTANTS
    here = here
    later = later
    commons = commons
    s1 = s1
    s2 = s2
    Host = {here, later, commons}
    LastBlock = 3
    Spec0 = {s1, s2}
    SpecOf <- MCSpecOf
    Portable = {1, 2}
    Peers <- MCPeers
    Made <- MCMade
    Airgapped = {commons}
    Ahead = {later}
    PageLimit = 1
INVARIANTS
    MarkedIsThere
    ReportAccountsForPeer
    CatalogIsComplete
PROPERTIES
    MirrorEnds
    ImplementsReplicas
CHECK_DEADLOCK FALSE
