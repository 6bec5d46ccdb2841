CONSTANTS
  Threads = {1, 2}
  NoThread = 0
  Names = {n1, n2}
  Garbled = Garbled
  MaxInits = 2
SPECIFICATION PushSpec
INVARIANTS ExitMeansExited
CHECK_DEADLOCK FALSE
