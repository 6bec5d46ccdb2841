SPECIFICATION FairSpec
CONSTANTS
  File <- LongAudioFile
  MaxAudio = 1
  MaxVideo = 1
  Targets = {1}
  Failures = {"noDevice"}
  Uninit = {FALSE}
  Ops = {"open"}
  MaxOps = 3
  MaxStarts = 1
  MaxClock = 0
PROPERTIES PlaybackEnds
CHECK_DEADLOCK FALSE
