\* One plaintext for each refusal; the database works.
SPECIFICATION RpcSpec
CONSTANTS
    Uuids = {u1}
    Calls = {c1, c2, c3}
    None = None
    Faults = {"attestation"}
    StoreSize = 1
    ChannelCapacity = 1
    Columns <- DeployedColumns
    Features = {"disclose", "register"}
    I32Max = 3
    Entries <- Installed
    Zkeys = {"vc_and_disclose"}
    ZkeyFolder <- AbsoluteZkeys
    Bodies <- AllBodies
INVARIANTS
    RefusedOnlyOnReuse
    RowDescribesRequest

    
