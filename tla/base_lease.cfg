SPECIFICATION OwnersSpec
CONSTANTS
    x1 = x1
    x2 = x2
    y1 = y1
    proc1 = proc1
    proc2 = proc2
    r1 = r1
    r2 = r2
    r3 = r3
    c1 = c1
    c2 = c2
    Nobody = Nobody
    None = None
    Other = Other
    Threads = {x1, x2, y1}
    Procs = {proc1, proc2}
    ProcOf <- MCProcOf
    Roots = {r1, r2}
    Owners = {proc1}
    Bases = {r1, r2, r3}
    Served = {r1, r2}
    Clients = {c1, c2}
    Target <- MCTarget
    Script <- MCScript
    Refs = {"active", "b"}
    Active = "active"
    Scoped <- MCScoped
    Ports = {1}
    MaxStarts = 2
    MaxTries = 3
INVARIANTS
    OneWriter
    RegistryExact
    WritesUnderLock
    ControlReachesOwner
    RepliesTrue
PROPERTY
    DropCompletes
    RequestsSettle
