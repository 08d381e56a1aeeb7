SPECIFICATION Spec
CONSTANTS
    NodeCount = 1
    Remote = {1}
    Policy <- AllAllowed
    MaxAttempts = 2
    Push = TRUE
    Conts = {c1}
    MaxErrors = 0
    MaxCrashes = 0
    MaxApprovals = 0
    AttemptCap = 2
    c1 = c1
INVARIANT ResultResumes
CHECK_DEADLOCK FALSE
