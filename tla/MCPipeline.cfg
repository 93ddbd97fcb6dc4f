\* Everything but the removal of folders may fail.
SPECIFICATION PipelineSpec
CONSTANTS
    Uuids = {u1, u2}
    Calls = {c1, c2}
    None = None
    Faults = {"io", "program", "db", "unknown", "unstorable"}
    Entries <- WithStray
    Zkeys = {"a", "b"}
    ZkeyFolder <- AbsoluteZkeys
    Jobs <- AllJobs
    ChannelCapacity = 1
    Columns <- DeployedColumns
    Features = {"disclose"}
    I32Max = 3
INVARIANTS
    PipelineTypeOK
    StoredProofIsOwn
    TmpOnlyWhileWorking
PROPERTY
    JobsStop
