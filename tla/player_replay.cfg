SPECIFICATION Spec
CONSTANTS
  File <- ThreePackets
  MaxAudio = 0
  MaxVideo = 0
  Targets = {1}
  Failures = {}
  Uninit = {FALSE}
  Ops = {"open", "replay"}
  MaxOps = 2
  MaxStarts = 2
  MaxClock = 0
INVARIANTS QueueBound QueuesDrained
CHECK_DEADLOCK FALSE
