CONSTANTS
    a = a
    b = b
    None = None
    Worker = {a}
    Caller = {c1, c2}
    Dispatch = {d1}
    Ops = {"Start", "Stop", "Shutdown"}
    HandlerOps = {"Stop", "Shutdown"}
    FailurePolicy <- FailRuntimeA
    Contributes = {a}
    ReadinessPolicy = "contributing_workers"
    ReadyOnStart = {a}
    AcceptOnStart = {a}
    CrashOnPanic = {}
    RuntimeCap = 0
    WorkerCap <- Unlimited
    MaxGeneration = 1
    Deadlines = {c1, c2}
SPECIFICATION FairSpec
PROPERTIES
    CallsReturn
    SlotsReleased
