SPECIFICATION Spec
CONSTANTS
    DProcess = TRUE
    MaxQ = 2
INVARIANTS
    PullFindsIdle
