CONSTANTS
    a = a
    b = b
    None = None
    Worker = {a, b}
    Caller = {c1}
    Dispatch = {d1}
    Ops = {"Start", "Stop"}
    HandlerOps = {}
    FailurePolicy <- FailRuntimeA
    Contributes = {a}
    ReadinessPolicy = "contributing_workers"
    ReadyOnStart = {a}
    AcceptOnStart = {a}
    CrashOnPanic = {}
    RuntimeCap = 0
    WorkerCap <- Unlimited
    MaxGeneration = 1
    Deadlines = {}
SPECIFICATION Spec
INVARIANTS
    StoppingMeansStopping
