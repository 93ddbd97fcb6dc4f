\* A client goes away while its handler waits.
SPECIFICATION Spec
CONSTANTS
    Uuids = {u1}
    Calls = {c1, c2}
    None = None
    Faults = {"disconnect"}
    StoreSize = 1
    ChannelCapacity = 1
    Columns <- DeployedColumns
    Features = {"disclose"}
    I32Max = 3
    Entries <- Installed
    Zkeys = {"vc_and_disclose"}
    ZkeyFolder <- AbsoluteZkeys
    Bodies <- GoodBodies
INVARIANT
    PendingIsQueued
