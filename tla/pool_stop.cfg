SPECIFICATION FairSpec
CONSTANTS
  Workers = {w1, w2}
  Clients = {c1}
  Owners = {o1, o2}
  Tasks = {a, b, c}
  Adds <- AddsOne
  MAXTASKCOUNT = 1
  None = None
  a = a
  b = b
  c = c
INVARIANTS TypeOK OnePlace QuietWhenStopped PuttersNotified
PROPERTIES ImplementsService StopReturns TasksCalled
CHECK_DEADLOCK FALSE
