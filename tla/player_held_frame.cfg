SPECIFICATION FairSpec
CONSTANTS
  File <- AVFile
  MaxAudio = 1
  MaxVideo = 1
  Targets = {1}
  Failures = {}
  Uninit = {FALSE}
  Ops = {"open", "seek"}
  MaxOps = 2
  MaxStarts = 1
  MaxClock = 0
PROPERTIES HeldFrameReleased
CHECK_DEADLOCK FALSE
