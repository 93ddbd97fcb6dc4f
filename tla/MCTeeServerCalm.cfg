\* Clients stay, the database works and the process lives.
SPECIFICATION Spec
CONSTANTS
    Uuids = {u1, u2}
    Calls = {c1, c2, c3, c4}
    None = None
    Faults = {"io", "program", "rm", "folder"}
    StoreSize = 1
    ChannelCapacity = 1
    Columns <- DeployedColumns
    Features = {"disclose"}
    I32Max = 3
    Entries <- Installed
    Zkeys = {"vc_and_disclose"}
    ZkeyFolder <- AbsoluteZkeys
    Bodies <- GoodBodies
SYMMETRY Symmetry
INVARIANTS
    PendingIsQueued
    AcceptedMeansQueued
    NoTaskPanics
    FailureRecorded
    ZkeyGiven
PROPERTY
    ProofIsFinal
