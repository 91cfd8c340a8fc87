SPECIFICATION Spec
CONSTANTS
    NumRequests = 3
    Uploads <- MCUploads
    BadUploads = FALSE
    Pipelining = FALSE
    MaxConcurrent = 1
    MaxReply = 1
    Policy = "close"
CHECK_DEADLOCK FALSE
INVARIANT NothingDangles
INVARIANT IdleIsTimed
INVARIANT ReadyComes
PROPERTY ProtocolDeleted
