CONSTANTS
  Sockets = {1, 2}
  Resets = {r1}
  MaxVersion = 1
  MaxIdentity = 3
  MaxStarts = 2
  MaxUploads = 2
SPECIFICATION FairSpec
INVARIANTS
  OneIdentity
  SocketsMatchState
  QuietMeansStored
CHECK_DEADLOCK FALSE
PROPERTIES
  Reconnects
  ResetsEnd
