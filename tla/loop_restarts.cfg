CONSTANTS
    Self = self
    AutoReady = TRUE
    ReadyOnStart = {}
    AcceptOnStart = {}
    MaxGeneration = 3
SPECIFICATION FairSpec
INVARIANTS
    LoopTypeOK
    UserCodeExclusive
    CleanedBeforeRestart
    ServiceMatchesLoop
    LoopFailureKept
CHECK_DEADLOCK FALSE
PROPERTIES
    OperationsReturn
    ImplementsLoopContract
