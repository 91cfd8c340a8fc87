SPECIFICATION Spec
CONSTANTS
  Clients = {c1, c2}
  Media = {m1, m2}
  None = None
  Debug = FALSE
  MaxDepth = 2
INVARIANT WellNested
INVARIANT MediaNotLost
INVARIANT NoCheckFails
PROPERTY CloseCompletes
CHECK_DEADLOCK FALSE
