\* Nothing fails.
SPECIFICATION PipelineSpec
CONSTANTS
    Uuids = {u1}
    Calls = {c1}
    None = None
    Faults = {}
    Entries <- Installed
    Zkeys = {"a", "b"}
    ZkeyFolder <- AbsoluteZkeys
    Jobs <- AllJobs
    ChannelCapacity = 1
    Columns <- DeployedColumns
    Features = {"disclose"}
    I32Max = 3
INVARIANT
    InputsWhole
