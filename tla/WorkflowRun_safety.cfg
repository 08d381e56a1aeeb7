SPECIFICATION Spec
CONSTANTS
    NodeCount = 3
    Remote = {1, 2}
    Policy <- FirstGated
    MaxAttempts = 2
    Push = TRUE
    Conts = {c1}
    MaxErrors = 1
    MaxCrashes = 1
    MaxApprovals = 1
    AttemptCap = 2
    c1 = c1
INVARIANTS TypeOK ProgressIntact SucceededComplete PolicyRespected
CHECK_DEADLOCK FALSE
