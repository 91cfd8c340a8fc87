SPECIFICATION FairSpec
CONSTANTS
  blocks_per_file_ = 2
  MaxPieces = 2
  checkpoints_to_keep_ = 2
  MaxRecords = 3
  MaxCheckpoints = 3
  MaxQueue = 2
  MaxCrashes = 1
  MaxErrors = 1
  Failures = {"before", "within"}
INVARIANT Recoverable
PROPERTY CloseKeepsAll
PROPERTY EventuallyDurable
CHECK_DEADLOCK FALSE
