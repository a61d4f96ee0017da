CONSTANTS
    MaxDuration = 15
    Significand = 8
    MaxAttempt = 5
    Observers <- ThreeObservers
    Policies <- ManyPolicies
    HandlerErrors <- ManyErrors
SPECIFICATION RouteSpec
INVARIANTS
    DelaysAsDocumented
    EndTellsTheRun
    OneAttemptAfterCancel
    SpanTellsTheRun
    ResponseTellsTheRun
PROPERTIES
    TakesRuntimeSteps
CHECK_DEADLOCK FALSE
