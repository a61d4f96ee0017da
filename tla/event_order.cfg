CONSTANTS
    a = a
    b = b
    None = None
    Worker = {a}
    Caller = {c1, c2}
    Dispatch = {d1}
    Signaller = {s1}
    Ops = {"Start", "Stop", "Drain", "StopAll"}
    HandlerOps = {}
    FailurePolicy <- FailRuntimeA
    Contributes = {a}
    ReadinessPolicy = "all_workers"
    ReadyOnStart = {a}
    AcceptOnStart = {a}
    CrashOnPanic = {}
    RuntimeCap = 0
    WorkerCap <- Unlimited
    MaxGeneration = 2
    Deadlines = {}
SPECIFICATION EventSpec
INVARIANTS
    ObserverKnowsState
    NoSilentFailure
