CONSTANTS
    a = a
    b = b
    None = None
    Worker = {a}
    Caller = {c1, c2}
    Dispatch = {d1, d2}
    Ops = {"Start", "Stop", "Drain", "StartAll", "DrainAll", "DrainAllBestEffort", "StopAll", "Shutdown"}
    HandlerOps = {}
    FailurePolicy <- FailRuntimeA
    Contributes = {a}
    ReadinessPolicy = "all_workers"
    ReadyOnStart = {a}
    AcceptOnStart = {a}
    CrashOnPanic = {}
    RuntimeCap = 0
    WorkerCap <- OneEach
    MaxGeneration = 2
    Deadlines = {}
SPECIFICATION Spec
SYMMETRY Symmetry
INVARIANTS
    SlotAccounting
    WithinCapacity
    TransitionsOwned
    FailureEvidence
    NoStaleSignals
PROPERTIES
    StaleCommandsInert
    RestOnlyEndedByStart
