SPECIFICATION FairSpec
CONSTANTS
  File <- ShortFile
  MaxAudio = 0
  MaxVideo = 3
  Targets = {1}
  Failures = {}
  Uninit = {FALSE}
  Ops = {"open", "pause", "seek"}
  MaxOps = 3
  MaxStarts = 1
  MaxClock = 0
PROPERTIES SeekServed PausedSeekEnds
CHECK_DEADLOCK FALSE
