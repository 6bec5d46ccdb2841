CONSTANTS
  Threads <- MCThreads
  NoThread = 0
  Fds <- MCFds
  Clients = {c1, c2}
  Users = {u1}
  NoOne = NoOne
  Others = Others
  MaxCalls = 1
  MaxSize = 3
  Names = {n1, n2}
  Garbled = Garbled
  MaxInits = 2
  MaxPkt = 3
  MaxUnit = 10
  SeqMod = 5
  StampMod = 4
  Tick = 1
SPECIFICATION ProgramSpec
INVARIANTS ProgramTypeOK TableFaithful WriteKeepsItsClient JoinWaits
PROPERTIES ClosedForAReason ConnectionsAnswered StopReturns SourceTaken SeqConsecutive UnitsWhole
CHECK_DEADLOCK FALSE
