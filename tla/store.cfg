SPECIFICATION Spec
CONSTANTS
    Workloads = {"graph", "cas", "base"}
    MAX_DELTA_LAYERS = 1
    MAX_INLINE_DELTAS = 1
    DeltaCap = 1
    GraphEdges <- MCGraphEdges
    GraphNodes = {3}
    MaxGraphOps = 4
    MaxGraphFaults = 1
    SegCap = 1
    IndexWidth = 4
    CasAtoms = {1, 2}
    DeferredTypes = {1}
    RetentionCycles = 1
    MaxCasOps = 4
    MaxCasFaults = 1
    None = None
    WordBits = 8
    FpBits = 4
    BlockSize = 2
    VarintBase = 4
    MaxSources = 2
    SEMANTIC_K = 2
    MANAGED_PREDICATE_ID_START = 8
    StoreAtoms <- MCStoreAtoms
    Names <- MCNames
    EntityTypes <- MCEntityTypes
    EntityIds = {1}
    Pairs <- MCPairs
    PredicateIds = {1, 9}
    Contracts <- MCContracts
    Setups <- MCSetups
    MaxStoreOps = 2
    MaxStoreFaults = 1
INVARIANTS
    EdgesFound
    
    
    
