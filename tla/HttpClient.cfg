SPECIFICATION Spec
CONSTANTS
    Requests = {r1, r2, r3}
    Untimed = {r3}
    MaxConcurrent = 2
    WaitingLimits = {1, 2}
    MaxSends = 3
CHECK_DEADLOCK FALSE
INVARIANT CallbackOnce
INVARIANT OwnReply
PROPERTY ActiveEnds
