CONSTANTS
    a = a
    b = b
    None = None
    Worker = {a, b}
    Caller = {c1}
    Dispatch = {d1}
    Ops = {"Start", "Stop", "Drain", "StartAll", "DrainAll", "DrainAllBestEffort", "StopAll", "Shutdown"}
    HandlerOps = {}
    FailurePolicy <- UnreadyB
    Contributes = {a}
    ReadinessPolicy = "contributing_workers"
    ReadyOnStart = {a}
    AcceptOnStart = {a, b}
    CrashOnPanic = {b}
    RuntimeCap = 1
    WorkerCap <- Unlimited
    MaxGeneration = 1
    Deadlines = {}
SPECIFICATION Spec
INVARIANTS
    TypeOK
    AggregateCurrent
    CutoffScoped
    ShutdownStopsIdleRuntime
    BulkOrder
    ItemsExplainReadiness
PROPERTIES
    NoAdmissionInCutoff
    NilMeansDone
