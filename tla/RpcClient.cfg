SPECIFICATION Spec
CONSTANTS
  Threads = {t1, t2}
  Callers = {t1}
  Closers = {t2}
  MaxQueries = 2
  max_paralel_queries = 1
  None = None
  CancelAllRaces = FALSE
  LateHandshake = FALSE
  ShutsWhileOpening = FALSE
INVARIANT CallbackOnce
INVARIANT NoCheckFails
PROPERTY EveryCallEnds
CHECK_DEADLOCK FALSE
