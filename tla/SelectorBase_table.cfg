SPECIFICATION BaseSpec
CONSTANTS
  Selectables = {s1, s2, s3}
  Pipe = Pipe
  Fds = {4, 5, 6}
  PipeFd = 3
  kMaxFds = 3
  ReopenInBatch = FALSE
SYMMETRY Symmetry
INVARIANT TableConsistent
PROPERTY EventReachesItsDescriptor
CHECK_DEADLOCK FALSE
