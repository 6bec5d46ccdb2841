SPECIFICATION Spec
CONSTANTS
  File <- ShortFile
  MaxAudio = 0
  MaxVideo = 1
  Targets = {0, 1}
  Failures = {"noDevice", "staleFormat", "noAudioCodec", "noSeek"}
  Uninit = {FALSE}
  Ops = {"open", "stop", "play", "pause", "seek", "speed"}
  MaxOps = 3
  MaxStarts = 1
  MaxClock = 0
INVARIANTS TypeOK QueueBound CodecOutlivesVideoThread CodecOutlivesCallback QueuesDrained
PROPERTIES DisplayedInSequence StopWaitsForAll
CHECK_DEADLOCK FALSE
