SPECIFICATION Spec
CONSTANTS
    Workloads = {"sync"}
    Actor = {1, 2, 3}
    Elem = {x, y}
    LogicRange = 4
    PhysRange = 64
    Gateway = {1, 2}
    FirstActor <- MCFirstActor
    SyncKinds = {"FLAGSET"}
    MaxOps <- MCMaxOps
    MaxClock = 1
    MaxSyncs = 2
    Base = {1, 2, 3, 4}
    Client = 1
    Peers <- MCPeers
    Trust <- MCTrust
    LocalTrust <- MCLocalTrust
    MaxHops = 3
    MinTrust = 3
    SkipTrust = 1
    Atom = {1, 2}
    Holds <- MCHolds
    AtomTypes = {"FACT", "RULE"}
    Mappings <- MCMappings
    Policies <- MCPolicies
    MaxTime = 2
    LogKinds = {"GCOUNTER"}
    Node = {1}
    Writer = 1
    MaxWalFiles = 8
    ThresholdPct = 25
    MaxUpdates = 3
    MaxCrashes = 2
CHECK_DEADLOCK FALSE
INVARIANT
    LaterFlagsWin
