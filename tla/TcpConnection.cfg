SPECIFICATION FairSpec
CONSTANTS
  Conn = conn
  MaxOut = 2
  MaxIn = 2
  Situations = {"close_in_read"}
INVARIANT NoCheckFails
INVARIANT ResourcesMatchState
INVARIANT HandlersInOrder
PROPERTY EveryCallEnds
