SPECIFICATION FairSpec
CONSTANTS
  l1 = l1
  l2 = l2
  h1 = h1
  h2 = h2
  Loops = {l1, l2}
  Handlers = {h1, h2}
  LoopOf <- OnTwoLoops
  Hosts = {a}
  None = None
  kQueryQueueMaxSize = 2
  MaxCalls = 4
  ReusesEarly = FALSE
INVARIANT QueriesAlive
INVARIANT NobodyForgotten
PROPERTY ImplementsService
CHECK_DEADLOCK FALSE
