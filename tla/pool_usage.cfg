SPECIFICATION Spec
CONSTANTS
  Workers = {w1}
  Clients = {}
  Owners = {o1}
  Tasks = {a}
  Adds <- NoAdds
  MAXTASKCOUNT = 1
  None = None
  a = a
  b = b
  c = c
INVARIANTS NoEmptyCall
CHECK_DEADLOCK FALSE
