SPECIFICATION FairSpec
CONSTANTS
  Threads = {w1, w2, p1, owner}
  Workers = {w1, w2}
  Producers = {p1}
  Owner = owner
  Items = {j1, j2, j3, j4}
  NULL = NULL
  None = None
  max_size_ = 3
  PutsDuringStop = FALSE
INVARIANT RunOrDeletedOnce
INVARIANT NobodySleepsInVain
PROPERTY StopReturns
CHECK_DEADLOCK FALSE
