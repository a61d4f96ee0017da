CONSTANTS
    Self = self
    AutoReady = FALSE
    ReadyOnStart = {self}
    AcceptOnStart = {}
    MaxGeneration = 2
    Configs <- ManyConfigs
SPECIFICATION FairCheckSpec
INVARIANTS
    ReadinessIsLastVerdict
PROPERTIES
    OnlyTimelyResultsRaise
    ImplementsLoopWorker
    InServiceIsChecked
CHECK_DEADLOCK FALSE
