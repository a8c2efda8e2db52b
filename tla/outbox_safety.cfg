CONSTANTS
    Event = {1, 2}
    Worker = {w1, w2}
    Subject = {s1, s2}
    None = None
    NoReplay = NoReplay
    Approved = Approved
    MaxAttempts = 2
    BatchLimit = 2
    MaxCrashes = 1
SPECIFICATION Spec
SYMMETRY Symmetry
CONSTRAINT OneReplay
INVARIANTS TypeOK ExactlyOnce PublishedWasHandled DeadLetterIsExhausted
CHECK_DEADLOCK FALSE
