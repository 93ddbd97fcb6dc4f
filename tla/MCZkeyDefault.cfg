\* The zkey folder is the default of args.rs; nothing fails.
SPECIFICATION PipelineSpec
CONSTANTS
    Uuids = {u1}
    Calls = {c1}
    None = None
    Faults = {}
    Entries <- Installed
    Zkeys = {"a"}
    ZkeyFolder <- default_zkey_folder
    Jobs <- AllJobs
    ChannelCapacity = 1
    Columns <- DeployedColumns
    Features = {"disclose"}
    I32Max = 3
INVARIANT
    ZkeyGiven
