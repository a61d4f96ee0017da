CONSTANTS
    a = a
    b = b
    None = None
    Worker = {a, b}
    Caller = {c1, c2}
    Dispatch = {d1}
    Ops = {"StartAll", "Shutdown"}
    HandlerOps = {}
    FailurePolicy <- FailRuntimeA
    Contributes = {}
    ReadinessPolicy = "contributing_workers"
    ReadyOnStart = {}
    AcceptOnStart = {a}
    CrashOnPanic = {a}
    RuntimeCap = 1
    WorkerCap <- Unlimited
    MaxGeneration = 1
    Deadlines = {}
SPECIFICATION Spec
SYMMETRY CallerSymmetry
PROPERTIES
    ImplementsContract
