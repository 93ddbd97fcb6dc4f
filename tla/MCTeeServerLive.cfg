\* ... and the runtime is fair.
SPECIFICATION FairSpec
CONSTANTS
    Uuids = {u1}
    Calls = {c1, c2, c3}
    None = None
    Faults = {"io", "program", "rm", "attestation", "disconnect"}
    StoreSize = 1
    ChannelCapacity = 1
    Columns <- DeployedColumns
    Features = {"disclose"}
    I32Max = 3
    Entries <- WithNew
    Zkeys = {"vc_and_disclose"}
    ZkeyFolder <- AbsoluteZkeys
    Bodies <- MoreBodies
PROPERTY
    AcceptedSettles
