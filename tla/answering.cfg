SPECIFICATION Spec
CONSTANTS
    Workloads = {"vm", "solve"}
    WordBits = 8
    None = None
    MaxSteps = 30
    Bodies <- MCBodies
    Queries <- MCQueries
    Indexes <- MCIndexes
    Atoms <- MCAtoms
    Nearest <- MCNearest
    Directory <- MCDirectory
    StopWords <- MCStopWords
    AnnLimit = 1
    TrustScale = 10
    BroadcastLimit = 3
    MaxFanout = 2
    Contracts <- MCContracts
    Managers <- MCManagers
    MinTrust = 1
INVARIANTS
    
    ForwardProgramsReturn
    AnswerAdmissible
    CoverageBacked
    BudgetsKept
