\* The whole server, one uuid; everything may go wrong, any number of times.
SPECIFICATION Spec
CONSTANTS
    Uuids = {u1}
    Calls = {c1, c2, c3, c4}
    None = None
    Faults = {"disconnect", "db", "unknown", "io", "program", "unstorable", "garbled", "rm", "noprover", "crash"}
    StoreSize = 1
    ChannelCapacity = 1
    Columns <- DeployedColumns
    Features = {"disclose"}
    I32Max = 3
    Entries <- Installed
    Zkeys = {"vc_and_disclose"}
    ZkeyFolder <- AbsoluteZkeys
    Bodies <- GoodBodies
SYMMETRY Symmetry
INVARIANTS
    
    JobsOwnRows
    OneJobPerUuid
    StoredProofIsOwn
PROPERTIES
    StatusOnlyAdvances
