CONSTANTS
    None = None
    Worker = {a, b}
    Caller = {k, c1}
    Coordinator = k
    Dispatch = {d1}
    Ops = {"StartAll", "StopAll", "Shutdown"}
    OtherOps = {"StartAll", "Shutdown"}
    HandlerOps = {}
    FailurePolicy <- Isolated
    Contributes = {a}
    ReadinessPolicy = "contributing_workers"
    ReadyOnStart = {}
    AcceptOnStart = {a}
    CrashOnPanic = {}
    RuntimeCap = 0
    WorkerCap <- NoLimit
    MaxGeneration = 1
    Deadlines = {}
    ServiceConfigs <- ManyServices
SPECIFICATION FairServiceSpec
PROPERTIES
    GracefulUntilBudget
    NothingLeftServing
    RunReturns
CHECK_DEADLOCK FALSE
