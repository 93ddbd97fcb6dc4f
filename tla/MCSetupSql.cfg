\* The table is the one setup.sql creates; nothing fails.
SPECIFICATION RpcSpec
CONSTANTS
    Uuids = {u1}
    Calls = {c1, c2}
    None = None
    Faults = {}
    StoreSize = 1
    ChannelCapacity = 1
    Columns <- SetupSqlColumns
    Features = {"disclose"}
    I32Max = 3
    Entries <- Installed
    Zkeys = {"vc_and_disclose"}
    ZkeyFolder <- AbsoluteZkeys
    Bodies <- GoodBodies
INVARIANT
    RefusedOnlyOnReuse
