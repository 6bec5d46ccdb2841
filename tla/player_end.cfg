SPECIFICATION FairSpec
CONSTANTS
  File <- ShortFile
  MaxAudio = 1
  MaxVideo = 1
  Targets = {1}
  Failures = {"noDevice", "staleFormat", "noAudioDecoder", "noAudioCodec", "noFile", "noVideoCodec", "noFrame"}
  Uninit = {FALSE}
  Ops = {"open", "pause", "play", "stop"}
  MaxOps = 3
  MaxStarts = 1
  MaxClock = 1
PROPERTIES StopTerminates CleanupCompletes PlaybackEnds
CHECK_DEADLOCK FALSE
