CONSTANTS
    Event = {1}
    Worker = {w1, w2}
    Subject = {s1, s2}
    None = None
    NoReplay = NoReplay
    Approved = Approved
    MaxAttempts = 3
    BatchLimit = 1
    MaxCrashes = 0
SPECIFICATION Spec
PROPERTIES LiveLeaseIsRespected
CHECK_DEADLOCK FALSE
