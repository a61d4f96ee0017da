CONSTANTS
    Self = self
    AutoReady = FALSE
    ReadyOnStart = {}
    AcceptOnStart = {}
    MaxGeneration = 1
    Configs <- ManyConfigs
SPECIFICATION CheckSpec
INVARIANTS
    DrainKeepsChecking
CHECK_DEADLOCK FALSE
