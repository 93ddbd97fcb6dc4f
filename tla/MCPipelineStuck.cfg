\* The prover need not terminate.
SPECIFICATION StuckProverSpec
CONSTANTS
    Uuids = {c1, c2, c3}
    Calls = {c1, c2, c3}
    None = None
    Faults = {}
    Entries <- Installed
    Zkeys = {"a", "b"}
    ZkeyFolder <- AbsoluteZkeys
    Jobs <- OwnUuids
    ChannelCapacity = 1
    Columns <- DeployedColumns
    Features = {"disclose"}
    I32Max = 3
PROPERTY
    WitnessDespiteProver
