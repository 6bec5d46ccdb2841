SPECIFICATION Spec
CONSTANTS
  File <- ShortFile
  MaxAudio = 1
  MaxVideo = 1
  Targets = {1}
  Failures = {}
  Uninit = {FALSE}
  Ops = {"open", "stop"}
  MaxOps = 3
  MaxStarts = 2
  MaxClock = 0
PROPERTIES StopWaitsForAll
CHECK_DEADLOCK FALSE
