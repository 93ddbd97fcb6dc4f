\* Four concurrent calls on two uuids and a store that evicts.
SPECIFICATION RpcSpec
CONSTANTS
    Uuids = {u1, u2}
    Calls = {c1, c2, c3, c4}
    None = None
    Faults = {"disconnect", "db", "attestation"}
    StoreSize = 1
    ChannelCapacity = 1
    Columns <- DeployedColumns
    Features = {"disclose"}
    I32Max = 3
    Entries <- Installed
    Zkeys = {"vc_and_disclose"}
    ZkeyFolder <- AbsoluteZkeys
    Bodies <- GoodBodies
SYMMETRY Symmetry
INVARIANTS
    RpcTypeOK
    AgreementConsumed
    OwnSessionUnderstood
    RowHasAgreement
    AcceptedOwnsRow
    RefusedLeavesNoRow

    
