-------------------------- MODULE VideoPlayerSession --------------------------
(***************************************************************************)
(* The first session of a player: what its cleanup may free, and what a    *)
(* waiting stop may report.  The finish flags carry the argument.  A flag  *)
(* that is still up from an earlier session, or was never initialised,     *)
(* breaks it, so the theorems assume one startPlay and a constructor that  *)
(* leaves the flags down; the code does not keep the theorems without.     *)
(***************************************************************************)
EXTENDS VideoPlayerTypes

\* One startPlay on a player whose flags start as FALSE.
FirstSession == MaxStarts = 1 /\ Uninit = {FALSE}

\* startPlay has not been called as long as no read thread has started.
StartedInv == starts = 0 => rpc[1] = "none"

\* The video thread runs only after its stream is set, and its finish flag is
\* up only when it has ended; a cleanup past its wait has seen the flag.
VideoInv ==
  /\ rpc[1] \in {"none", "init", "open", "videoCodec"} => vpc[1] = "none"
  /\ vpc[1] # "none" => mVideoStream
  /\ mIsVideoThreadFinished => vpc[1] = "done"
  /\ rpc[1] \in {"close", "free", "done"} => vpc[1] \in {"none", "done"}

\* A callback runs only while its device runs, which is from openSDL to closeSDL.
CallbackInv ==
  /\ apc # "idle" => mAudioID = "running"
  /\ rpc[1] \in {"none", "init", "open", "videoCodec", "audioCodec", "device", "free", "done"}
       => mAudioID # "running"

\* The flag a waiting stop polls is raised by the last step of the read thread.
EndInv == mIsReadThreadFinished => rpc[1] = "done"

\* Where the read thread is between its opening and its cleanup.
ReadsOn ==
  {"loop", "clearAudio", "flushAudio", "clearVideo", "flushVideo", "seekClock", "seekDone",
   "seekTime", "seekPause", "seekNeed", "seekUnpause", "room", "read", "waitQuit"}

\* While it is there the player is stopped only by a call of stop(true) that waits for it.
StopInv == mPlayerState = "Stop" /\ rpc[1] \in ReadsOn => upc = "stopWait"

SessionInv == StartedInv /\ VideoInv /\ CallbackInv /\ EndInv /\ StopInv

\* The only session of the behaviour is the first one.
LEMMA OneSession ==
  ASSUME FirstSession
  PROVE  Sessions = {1}
<1>1. 1..1 = {1}
  OBVIOUS
<1> QED   BY <1>1 DEF FirstSession, Sessions

\* The session invariant holds of a player just constructed.
LEMMA InitSession ==
  ASSUME FirstSession, Init
  PROVE  SessionInv
<1>1. 1 \in Sessions   BY OneSession
<1>2. rpc[1] = "none" /\ vpc[1] = "none"   BY <1>1 DEF Init
<1>3. ~mIsVideoThreadFinished /\ ~mIsReadThreadFinished   BY DEF Init, FirstSession
<1>4. StartedInv /\ VideoInv /\ EndInv /\ StopInv
  BY <1>2, <1>3 DEF StartedInv, VideoInv, EndInv, StopInv, ReadsOn
<1>5. CallbackInv   BY DEF Init, CallbackInv
<1> QED   BY <1>4, <1>5 DEF SessionInv

\* startPlay counts the session it starts.
LEMMA StartedInvStep ==
  ASSUME FirstSession, TypeInv, SessionInv, Next PROVE StartedInv'
<1>s. Sessions = {1}   BY OneSession
<1> USE <1>s DEF TypeInv, TypeOK, ControlTypes, SessionInv, StartedInv, ReadAt, ReadGoto, VideoAt,
             VideoGoto, controlVars, finishVars, seekVars, clockVars, streamVars, queueVars, fileVars,
             placeVars, readVars, videoVars, uiVars, playerVars, threadVars, otherThreads
<1>1. CASE UiCalls
  <2>1. CASE UiStop   BY <2>1 DEF UiStop, UiCall, StopBody
  <2>2. CASE UiOpen   BY <2>2 DEF UiOpen, UiCall, StopBody
  <2>3. CASE UiReplay   BY <2>3 DEF UiReplay, UiCall, StopBody
  <2>4. CASE UiPlay   BY <2>4 DEF UiPlay, UiCall, PlayFlags
  <2>5. CASE UiPause   BY <2>5 DEF UiPause, UiCall
  <2>6. CASE UiSeek   BY <2>6 DEF UiSeek, UiCall
  <2>7. CASE UiSpeed   BY <2>7 DEF UiSpeed, UiCall
  <2> QED
    BY <1>1, <2>1, <2>2, <2>3, <2>4, <2>5, <2>6, <2>7
    DEF UiCalls
<1>2. CASE UiProceeds
  <2>1. CASE UiStopReturns   BY <2>1 DEF UiStopReturns
  <2>2. CASE startPlay   BY <2>2 DEF startPlay, StartsInv, StartedInv, FirstSession
  <2>3. CASE playState   BY <2>3 DEF playState
  <2>4. CASE pauseState   BY <2>4 DEF pauseState
  <2>5. CASE setSpeed   BY <2>5 DEF setSpeed, openSDL, CallbackOver
  <2>6. CASE UiSpeedPlay   BY <2>6 DEF UiSpeedPlay, PlayFlags
  <2>7. CASE UiSeekRequest   BY <2>7 DEF UiSeekRequest
  <2> QED
    BY <1>2, <2>1, <2>2, <2>3, <2>4, <2>5, <2>6, <2>7
    DEF UiProceeds
<1>3. ASSUME NEW s \in Sessions, ReadThread(s) PROVE StartedInv'
  <2>1. CASE ReadInit(s)   BY <2>1 DEF ReadInit
  <2>2. CASE ReadOpen(s)   BY <2>2 DEF ReadOpen
  <2>3. CASE ReadVideoCodec(s)   BY <2>3 DEF ReadVideoCodec
  <2>4. CASE ReadAudioCodec(s)   BY <2>4 DEF ReadAudioCodec
  <2>5. CASE ReadDevice(s)   BY <2>5 DEF ReadDevice, openSDL
  <2>6. CASE ReadPlaying(s)   BY <2>6 DEF ReadPlaying
  <2>7. CASE ReadLoop(s)   BY <2>7 DEF ReadLoop
  <2>8. CASE ReadSeek(s)   BY <2>8 DEF ReadSeek, MoveTo, KeyPositions
  <2>9. CASE ReadClearAudio(s)   BY <2>9 DEF ReadClearAudio
  <2>10. CASE ReadFlushAudio(s)   BY <2>10 DEF ReadFlushAudio
  <2>11. CASE ReadClearVideo(s)   BY <2>11 DEF ReadClearVideo
  <2>12. CASE ReadFlushVideo(s)   BY <2>12 DEF ReadFlushVideo
  <2>13. CASE ReadSeekClock(s)   BY <2>13 DEF ReadSeekClock, Upto
  <2>14. CASE ReadSeekDone(s)   BY <2>14 DEF ReadSeekDone
  <2>15. CASE ReadSeekTime(s)   BY <2>15 DEF ReadSeekTime
  <2>16. CASE ReadSeekPause(s)   BY <2>16 DEF ReadSeekPause
  <2>17. CASE ReadSeekNeed(s)   BY <2>17 DEF ReadSeekNeed
  <2>18. CASE ReadSeekUnpause(s)   BY <2>18 DEF ReadSeekUnpause
  <2>19. CASE ReadRoom(s)   BY <2>19 DEF ReadRoom
  <2>20. CASE ReadPacket(s)   BY <2>20 DEF ReadPacket
  <2>21. CASE ReadEof(s)   BY <2>21 DEF ReadEof
  <2>22. CASE ReadWaitQuit(s)   BY <2>22 DEF ReadWaitQuit
  <2>23. CASE ReadEndAudio(s)   BY <2>23 DEF ReadEndAudio
  <2>24. CASE ReadStopSelf(s)   BY <2>24 DEF ReadStopSelf
  <2>25. CASE ReadQuitSelf(s)   BY <2>25 DEF ReadQuitSelf
  <2>26. CASE ReadJoin(s)   BY <2>26 DEF ReadJoin, DecodersFinished
  <2>27. CASE ReadClose(s)   BY <2>27 DEF ReadClose, CallbackOver
  <2>28. CASE ReadFree(s)   BY <2>28 DEF ReadFree
  <2>29. ASSUME NEW l \in {"open", "videoCodec", "audioCodec"}, NEW f, OpenFails(s, l, f)
        PROVE  StartedInv'
    BY <2>29 DEF OpenFails
  <2>30. CASE ReadEndVideo(s)   BY <2>30 DEF ReadEndVideo
  <2>31. CASE ReadCrash(s)   BY <2>31 DEF ReadCrash
  <2> QED
    BY <1>3, <2>1, <2>2, <2>3, <2>4, <2>5, <2>6, <2>7, <2>8, <2>9, <2>10, <2>11,
       <2>12, <2>13, <2>14, <2>15, <2>16, <2>17, <2>18, <2>19, <2>20, <2>21, <2>22,
       <2>23, <2>24, <2>25, <2>26, <2>27, <2>28, <2>29, <2>30, <2>31
    DEF ReadThread
<1>4. ASSUME NEW s \in Sessions, VideoThread(s) PROVE StartedInv'
  <2>1. CASE VideoStart(s)   BY <2>1 DEF VideoStart
  <2>2. CASE VideoLoop(s)   BY <2>2 DEF VideoLoop
  <2>3. CASE VideoTake(s)   BY <2>3 DEF VideoTake
  <2>4. CASE VideoEmpty(s)   BY <2>4 DEF VideoEmpty
  <2>5. CASE VideoDecode(s)   BY <2>5 DEF VideoDecode
  <2>6. CASE VideoSeekCheck(s)   BY <2>6 DEF VideoSeekCheck
  <2>7. CASE VideoSync(s)   BY <2>7 DEF VideoSync
  <2>8. CASE VideoShow(s)   BY <2>8 DEF VideoShow
  <2>9. CASE VideoRepause(s)   BY <2>9 DEF VideoRepause
  <2>10. CASE VideoClearNeed(s)   BY <2>10 DEF VideoClearNeed
  <2>11. CASE VideoExit(s)   BY <2>11 DEF VideoExit
  <2>12. CASE VideoFound(s)   BY <2>12 DEF VideoFound
  <2>13. CASE VideoCrash(s)   BY <2>13 DEF VideoCrash
  <2> QED
    BY <1>4, <2>1, <2>2, <2>3, <2>4, <2>5, <2>6, <2>7, <2>8, <2>9, <2>10, <2>11, <2>12, <2>13
    DEF VideoThread
<1>5. CASE AudioCallback
  <2>1. CASE AudioCheck   BY <2>1 DEF AudioCheck
  <2>2. CASE AudioClear   BY <2>2 DEF AudioClear
  <2>3. CASE AudioTake   BY <2>3 DEF AudioTake
  <2>4. CASE AudioSeekCheck   BY <2>4 DEF AudioSeekCheck, AudioDecoded
  <2>5. CASE AudioFound   BY <2>5 DEF AudioFound, AudioDecoded
  <2>6. CASE AudioCrash   BY <2>6 DEF AudioCrash
  <2> QED
    BY <1>5, <2>1, <2>2, <2>3, <2>4, <2>5, <2>6
    DEF AudioCallback
<1>6. CASE Tick   BY <1>6 DEF Tick
<1> QED   BY <1>1, <1>2, <1>3, <1>4, <1>5, <1>6 DEF Next

\* The video thread of the session ends before the cleanup passes its wait.
LEMMA VideoInvStep == ASSUME FirstSession, TypeInv, SessionInv, Next PROVE VideoInv'
<1>s. Sessions = {1}   BY OneSession
<1> USE <1>s DEF TypeInv, TypeOK, ControlTypes, SessionInv, VideoInv, ReadAt, ReadGoto, VideoAt,
             VideoGoto, controlVars, finishVars, seekVars, clockVars, streamVars, queueVars, fileVars,
             placeVars, readVars, videoVars, uiVars, playerVars, threadVars, otherThreads
<1>1. CASE UiCalls
  <2>1. CASE UiStop   BY <2>1 DEF UiStop, UiCall, StopBody
  <2>2. CASE UiOpen   BY <2>2 DEF UiOpen, UiCall, StopBody
  <2>3. CASE UiReplay   BY <2>3 DEF UiReplay, UiCall, StopBody
  <2>4. CASE UiPlay   BY <2>4 DEF UiPlay, UiCall, PlayFlags
  <2>5. CASE UiPause   BY <2>5 DEF UiPause, UiCall
  <2>6. CASE UiSeek   BY <2>6 DEF UiSeek, UiCall
  <2>7. CASE UiSpeed   BY <2>7 DEF UiSpeed, UiCall
  <2> QED
    BY <1>1, <2>1, <2>2, <2>3, <2>4, <2>5, <2>6, <2>7
    DEF UiCalls
<1>2. CASE UiProceeds
  <2>1. CASE UiStopReturns   BY <2>1 DEF UiStopReturns
  <2>2. CASE startPlay   BY <2>2 DEF startPlay, StartsInv, StartedInv, FirstSession
  <2>3. CASE playState   BY <2>3 DEF playState
  <2>4. CASE pauseState   BY <2>4 DEF pauseState
  <2>5. CASE setSpeed   BY <2>5 DEF setSpeed, openSDL, CallbackOver
  <2>6. CASE UiSpeedPlay   BY <2>6 DEF UiSpeedPlay, PlayFlags
  <2>7. CASE UiSeekRequest   BY <2>7 DEF UiSeekRequest
  <2> QED
    BY <1>2, <2>1, <2>2, <2>3, <2>4, <2>5, <2>6, <2>7
    DEF UiProceeds
<1>3. ASSUME NEW s \in Sessions, ReadThread(s) PROVE VideoInv'
  <2>1. CASE ReadInit(s)   BY <2>1 DEF ReadInit
  <2>2. CASE ReadOpen(s)   BY <2>2 DEF ReadOpen
  <2>3. CASE ReadVideoCodec(s)   BY <2>3 DEF ReadVideoCodec
  <2>4. CASE ReadAudioCodec(s)   BY <2>4 DEF ReadAudioCodec
  <2>5. CASE ReadDevice(s)   BY <2>5 DEF ReadDevice, openSDL
  <2>6. CASE ReadPlaying(s)   BY <2>6 DEF ReadPlaying
  <2>7. CASE ReadLoop(s)   BY <2>7 DEF ReadLoop
  <2>8. CASE ReadSeek(s)   BY <2>8 DEF ReadSeek, MoveTo, KeyPositions
  <2>9. CASE ReadClearAudio(s)   BY <2>9 DEF ReadClearAudio
  <2>10. CASE ReadFlushAudio(s)   BY <2>10 DEF ReadFlushAudio
  <2>11. CASE ReadClearVideo(s)   BY <2>11 DEF ReadClearVideo
  <2>12. CASE ReadFlushVideo(s)   BY <2>12 DEF ReadFlushVideo
  <2>13. CASE ReadSeekClock(s)   BY <2>13 DEF ReadSeekClock, Upto
  <2>14. CASE ReadSeekDone(s)   BY <2>14 DEF ReadSeekDone
  <2>15. CASE ReadSeekTime(s)   BY <2>15 DEF ReadSeekTime
  <2>16. CASE ReadSeekPause(s)   BY <2>16 DEF ReadSeekPause
  <2>17. CASE ReadSeekNeed(s)   BY <2>17 DEF ReadSeekNeed
  <2>18. CASE ReadSeekUnpause(s)   BY <2>18 DEF ReadSeekUnpause
  <2>19. CASE ReadRoom(s)   BY <2>19 DEF ReadRoom
  <2>20. CASE ReadPacket(s)   BY <2>20 DEF ReadPacket
  <2>21. CASE ReadEof(s)   BY <2>21 DEF ReadEof
  <2>22. CASE ReadWaitQuit(s)   BY <2>22 DEF ReadWaitQuit
  <2>23. CASE ReadEndAudio(s)   BY <2>23 DEF ReadEndAudio
  <2>24. CASE ReadStopSelf(s)   BY <2>24 DEF ReadStopSelf
  <2>25. CASE ReadQuitSelf(s)   BY <2>25 DEF ReadQuitSelf
  <2>26. CASE ReadJoin(s)   BY <2>26 DEF ReadJoin, DecodersFinished
  <2>27. CASE ReadClose(s)   BY <2>27 DEF ReadClose, CallbackOver
  <2>28. CASE ReadFree(s)   BY <2>28 DEF ReadFree
  <2>29. ASSUME NEW l \in {"open", "videoCodec", "audioCodec"}, NEW f, OpenFails(s, l, f)
        PROVE  VideoInv'
    BY <2>29 DEF OpenFails
  <2>30. CASE ReadEndVideo(s)   BY <2>30 DEF ReadEndVideo
  <2>31. CASE ReadCrash(s)   BY <2>31 DEF ReadCrash
  <2> QED
    BY <1>3, <2>1, <2>2, <2>3, <2>4, <2>5, <2>6, <2>7, <2>8, <2>9, <2>10, <2>11,
       <2>12, <2>13, <2>14, <2>15, <2>16, <2>17, <2>18, <2>19, <2>20, <2>21, <2>22,
       <2>23, <2>24, <2>25, <2>26, <2>27, <2>28, <2>29, <2>30, <2>31
    DEF ReadThread
<1>4. ASSUME NEW s \in Sessions, VideoThread(s) PROVE VideoInv'
  <2>1. CASE VideoStart(s)   BY <2>1 DEF VideoStart
  <2>2. CASE VideoLoop(s)   BY <2>2 DEF VideoLoop
  <2>3. CASE VideoTake(s)   BY <2>3 DEF VideoTake
  <2>4. CASE VideoEmpty(s)   BY <2>4 DEF VideoEmpty
  <2>5. CASE VideoDecode(s)   BY <2>5 DEF VideoDecode
  <2>6. CASE VideoSeekCheck(s)   BY <2>6 DEF VideoSeekCheck
  <2>7. CASE VideoSync(s)   BY <2>7 DEF VideoSync
  <2>8. CASE VideoShow(s)   BY <2>8 DEF VideoShow
  <2>9. CASE VideoRepause(s)   BY <2>9 DEF VideoRepause
  <2>10. CASE VideoClearNeed(s)   BY <2>10 DEF VideoClearNeed
  <2>11. CASE VideoExit(s)   BY <2>11 DEF VideoExit
  <2>12. CASE VideoFound(s)   BY <2>12 DEF VideoFound
  <2>13. CASE VideoCrash(s)   BY <2>13 DEF VideoCrash
  <2> QED
    BY <1>4, <2>1, <2>2, <2>3, <2>4, <2>5, <2>6, <2>7, <2>8, <2>9, <2>10, <2>11, <2>12, <2>13
    DEF VideoThread
<1>5. CASE AudioCallback
  <2>1. CASE AudioCheck   BY <2>1 DEF AudioCheck
  <2>2. CASE AudioClear   BY <2>2 DEF AudioClear
  <2>3. CASE AudioTake   BY <2>3 DEF AudioTake
  <2>4. CASE AudioSeekCheck   BY <2>4 DEF AudioSeekCheck, AudioDecoded
  <2>5. CASE AudioFound   BY <2>5 DEF AudioFound, AudioDecoded
  <2>6. CASE AudioCrash   BY <2>6 DEF AudioCrash
  <2> QED
    BY <1>5, <2>1, <2>2, <2>3, <2>4, <2>5, <2>6
    DEF AudioCallback
<1>6. CASE Tick   BY <1>6 DEF Tick
<1> QED   BY <1>1, <1>2, <1>3, <1>4, <1>5, <1>6 DEF Next

\* closeSDL leaves neither a callback nor a running device behind.
LEMMA CallbackInvStep == ASSUME FirstSession, TypeInv, SessionInv, Next PROVE CallbackInv'
<1>s. Sessions = {1}   BY OneSession
<1> USE <1>s DEF TypeInv, TypeOK, ControlTypes, SessionInv, CallbackInv, ReadAt, ReadGoto, VideoAt,
             VideoGoto, controlVars, finishVars, seekVars, clockVars, streamVars, queueVars, fileVars,
             placeVars, readVars, videoVars, uiVars, playerVars, threadVars, otherThreads
<1>1. CASE UiCalls
  <2>1. CASE UiStop   BY <2>1 DEF UiStop, UiCall, StopBody
  <2>2. CASE UiOpen   BY <2>2 DEF UiOpen, UiCall, StopBody
  <2>3. CASE UiReplay   BY <2>3 DEF UiReplay, UiCall, StopBody
  <2>4. CASE UiPlay   BY <2>4 DEF UiPlay, UiCall, PlayFlags
  <2>5. CASE UiPause   BY <2>5 DEF UiPause, UiCall
  <2>6. CASE UiSeek   BY <2>6 DEF UiSeek, UiCall
  <2>7. CASE UiSpeed   BY <2>7 DEF UiSpeed, UiCall
  <2> QED
    BY <1>1, <2>1, <2>2, <2>3, <2>4, <2>5, <2>6, <2>7
    DEF UiCalls
<1>2. CASE UiProceeds
  <2>1. CASE UiStopReturns   BY <2>1 DEF UiStopReturns
  <2>2. CASE startPlay   BY <2>2 DEF startPlay, StartsInv, StartedInv, FirstSession
  <2>3. CASE playState   BY <2>3 DEF playState
  <2>4. CASE pauseState   BY <2>4 DEF pauseState
  <2>5. CASE setSpeed   BY <2>5 DEF setSpeed, openSDL, CallbackOver
  <2>6. CASE UiSpeedPlay   BY <2>6 DEF UiSpeedPlay, PlayFlags
  <2>7. CASE UiSeekRequest   BY <2>7 DEF UiSeekRequest
  <2> QED
    BY <1>2, <2>1, <2>2, <2>3, <2>4, <2>5, <2>6, <2>7
    DEF UiProceeds
<1>3. ASSUME NEW s \in Sessions, ReadThread(s) PROVE CallbackInv'
  <2>1. CASE ReadInit(s)   BY <2>1 DEF ReadInit
  <2>2. CASE ReadOpen(s)   BY <2>2 DEF ReadOpen
  <2>3. CASE ReadVideoCodec(s)   BY <2>3 DEF ReadVideoCodec
  <2>4. CASE ReadAudioCodec(s)   BY <2>4 DEF ReadAudioCodec
  <2>5. CASE ReadDevice(s)   BY <2>5 DEF ReadDevice, openSDL
  <2>6. CASE ReadPlaying(s)   BY <2>6 DEF ReadPlaying
  <2>7. CASE ReadLoop(s)   BY <2>7 DEF ReadLoop
  <2>8. CASE ReadSeek(s)   BY <2>8 DEF ReadSeek, MoveTo, KeyPositions
  <2>9. CASE ReadClearAudio(s)   BY <2>9 DEF ReadClearAudio
  <2>10. CASE ReadFlushAudio(s)   BY <2>10 DEF ReadFlushAudio
  <2>11. CASE ReadClearVideo(s)   BY <2>11 DEF ReadClearVideo
  <2>12. CASE ReadFlushVideo(s)   BY <2>12 DEF ReadFlushVideo
  <2>13. CASE ReadSeekClock(s)   BY <2>13 DEF ReadSeekClock, Upto
  <2>14. CASE ReadSeekDone(s)   BY <2>14 DEF ReadSeekDone
  <2>15. CASE ReadSeekTime(s)   BY <2>15 DEF ReadSeekTime
  <2>16. CASE ReadSeekPause(s)   BY <2>16 DEF ReadSeekPause
  <2>17. CASE ReadSeekNeed(s)   BY <2>17 DEF ReadSeekNeed
  <2>18. CASE ReadSeekUnpause(s)   BY <2>18 DEF ReadSeekUnpause
  <2>19. CASE ReadRoom(s)   BY <2>19 DEF ReadRoom
  <2>20. CASE ReadPacket(s)   BY <2>20 DEF ReadPacket
  <2>21. CASE ReadEof(s)   BY <2>21 DEF ReadEof
  <2>22. CASE ReadWaitQuit(s)   BY <2>22 DEF ReadWaitQuit
  <2>23. CASE ReadEndAudio(s)   BY <2>23 DEF ReadEndAudio
  <2>24. CASE ReadStopSelf(s)   BY <2>24 DEF ReadStopSelf
  <2>25. CASE ReadQuitSelf(s)   BY <2>25 DEF ReadQuitSelf
  <2>26. CASE ReadJoin(s)   BY <2>26 DEF ReadJoin, DecodersFinished
  <2>27. CASE ReadClose(s)   BY <2>27 DEF ReadClose, CallbackOver
  <2>28. CASE ReadFree(s)   BY <2>28 DEF ReadFree
  <2>29. ASSUME NEW l \in {"open", "videoCodec", "audioCodec"}, NEW f, OpenFails(s, l, f)
        PROVE  CallbackInv'
    BY <2>29 DEF OpenFails
  <2>30. CASE ReadEndVideo(s)   BY <2>30 DEF ReadEndVideo
  <2>31. CASE ReadCrash(s)   BY <2>31 DEF ReadCrash
  <2> QED
    BY <1>3, <2>1, <2>2, <2>3, <2>4, <2>5, <2>6, <2>7, <2>8, <2>9, <2>10, <2>11,
       <2>12, <2>13, <2>14, <2>15, <2>16, <2>17, <2>18, <2>19, <2>20, <2>21, <2>22,
       <2>23, <2>24, <2>25, <2>26, <2>27, <2>28, <2>29, <2>30, <2>31
    DEF ReadThread
<1>4. ASSUME NEW s \in Sessions, VideoThread(s) PROVE CallbackInv'
  <2>1. CASE VideoStart(s)   BY <2>1 DEF VideoStart
  <2>2. CASE VideoLoop(s)   BY <2>2 DEF VideoLoop
  <2>3. CASE VideoTake(s)   BY <2>3 DEF VideoTake
  <2>4. CASE VideoEmpty(s)   BY <2>4 DEF VideoEmpty
  <2>5. CASE VideoDecode(s)   BY <2>5 DEF VideoDecode
  <2>6. CASE VideoSeekCheck(s)   BY <2>6 DEF VideoSeekCheck
  <2>7. CASE VideoSync(s)   BY <2>7 DEF VideoSync
  <2>8. CASE VideoShow(s)   BY <2>8 DEF VideoShow
  <2>9. CASE VideoRepause(s)   BY <2>9 DEF VideoRepause
  <2>10. CASE VideoClearNeed(s)   BY <2>10 DEF VideoClearNeed
  <2>11. CASE VideoExit(s)   BY <2>11 DEF VideoExit
  <2>12. CASE VideoFound(s)   BY <2>12 DEF VideoFound
  <2>13. CASE VideoCrash(s)   BY <2>13 DEF VideoCrash
  <2> QED
    BY <1>4, <2>1, <2>2, <2>3, <2>4, <2>5, <2>6, <2>7, <2>8, <2>9, <2>10, <2>11, <2>12, <2>13
    DEF VideoThread
<1>5. CASE AudioCallback
  <2>1. CASE AudioCheck   BY <2>1 DEF AudioCheck
  <2>2. CASE AudioClear   BY <2>2 DEF AudioClear
  <2>3. CASE AudioTake   BY <2>3 DEF AudioTake
  <2>4. CASE AudioSeekCheck   BY <2>4 DEF AudioSeekCheck, AudioDecoded
  <2>5. CASE AudioFound   BY <2>5 DEF AudioFound, AudioDecoded
  <2>6. CASE AudioCrash   BY <2>6 DEF AudioCrash
  <2> QED
    BY <1>5, <2>1, <2>2, <2>3, <2>4, <2>5, <2>6
    DEF AudioCallback
<1>6. CASE Tick   BY <1>6 DEF Tick
<1> QED   BY <1>1, <1>2, <1>3, <1>4, <1>5, <1>6 DEF Next

\* Only the end of the read thread raises mIsReadThreadFinished.
LEMMA EndInvStep == ASSUME FirstSession, TypeInv, SessionInv, Next PROVE EndInv'
<1>s. Sessions = {1}   BY OneSession
<1> USE <1>s DEF TypeInv, TypeOK, ControlTypes, SessionInv, EndInv, ReadAt, ReadGoto, VideoAt,
             VideoGoto, controlVars, finishVars, seekVars, clockVars, streamVars, queueVars, fileVars,
             placeVars, readVars, videoVars, uiVars, playerVars, threadVars, otherThreads
<1>1. CASE UiCalls
  <2>1. CASE UiStop   BY <2>1 DEF UiStop, UiCall, StopBody
  <2>2. CASE UiOpen   BY <2>2 DEF UiOpen, UiCall, StopBody
  <2>3. CASE UiReplay   BY <2>3 DEF UiReplay, UiCall, StopBody
  <2>4. CASE UiPlay   BY <2>4 DEF UiPlay, UiCall, PlayFlags
  <2>5. CASE UiPause   BY <2>5 DEF UiPause, UiCall
  <2>6. CASE UiSeek   BY <2>6 DEF UiSeek, UiCall
  <2>7. CASE UiSpeed   BY <2>7 DEF UiSpeed, UiCall
  <2> QED
    BY <1>1, <2>1, <2>2, <2>3, <2>4, <2>5, <2>6, <2>7
    DEF UiCalls
<1>2. CASE UiProceeds
  <2>1. CASE UiStopReturns   BY <2>1 DEF UiStopReturns
  <2>2. CASE startPlay   BY <2>2 DEF startPlay, StartsInv, StartedInv, FirstSession
  <2>3. CASE playState   BY <2>3 DEF playState
  <2>4. CASE pauseState   BY <2>4 DEF pauseState
  <2>5. CASE setSpeed   BY <2>5 DEF setSpeed, openSDL, CallbackOver
  <2>6. CASE UiSpeedPlay   BY <2>6 DEF UiSpeedPlay, PlayFlags
  <2>7. CASE UiSeekRequest   BY <2>7 DEF UiSeekRequest
  <2> QED
    BY <1>2, <2>1, <2>2, <2>3, <2>4, <2>5, <2>6, <2>7
    DEF UiProceeds
<1>3. ASSUME NEW s \in Sessions, ReadThread(s) PROVE EndInv'
  <2>1. CASE ReadInit(s)   BY <2>1 DEF ReadInit
  <2>2. CASE ReadOpen(s)   BY <2>2 DEF ReadOpen
  <2>3. CASE ReadVideoCodec(s)   BY <2>3 DEF ReadVideoCodec
  <2>4. CASE ReadAudioCodec(s)   BY <2>4 DEF ReadAudioCodec
  <2>5. CASE ReadDevice(s)   BY <2>5 DEF ReadDevice, openSDL
  <2>6. CASE ReadPlaying(s)   BY <2>6 DEF ReadPlaying
  <2>7. CASE ReadLoop(s)   BY <2>7 DEF ReadLoop
  <2>8. CASE ReadSeek(s)   BY <2>8 DEF ReadSeek, MoveTo, KeyPositions
  <2>9. CASE ReadClearAudio(s)   BY <2>9 DEF ReadClearAudio
  <2>10. CASE ReadFlushAudio(s)   BY <2>10 DEF ReadFlushAudio
  <2>11. CASE ReadClearVideo(s)   BY <2>11 DEF ReadClearVideo
  <2>12. CASE ReadFlushVideo(s)   BY <2>12 DEF ReadFlushVideo
  <2>13. CASE ReadSeekClock(s)   BY <2>13 DEF ReadSeekClock, Upto
  <2>14. CASE ReadSeekDone(s)   BY <2>14 DEF ReadSeekDone
  <2>15. CASE ReadSeekTime(s)   BY <2>15 DEF ReadSeekTime
  <2>16. CASE ReadSeekPause(s)   BY <2>16 DEF ReadSeekPause
  <2>17. CASE ReadSeekNeed(s)   BY <2>17 DEF ReadSeekNeed
  <2>18. CASE ReadSeekUnpause(s)   BY <2>18 DEF ReadSeekUnpause
  <2>19. CASE ReadRoom(s)   BY <2>19 DEF ReadRoom
  <2>20. CASE ReadPacket(s)   BY <2>20 DEF ReadPacket
  <2>21. CASE ReadEof(s)   BY <2>21 DEF ReadEof
  <2>22. CASE ReadWaitQuit(s)   BY <2>22 DEF ReadWaitQuit
  <2>23. CASE ReadEndAudio(s)   BY <2>23 DEF ReadEndAudio
  <2>24. CASE ReadStopSelf(s)   BY <2>24 DEF ReadStopSelf
  <2>25. CASE ReadQuitSelf(s)   BY <2>25 DEF ReadQuitSelf
  <2>26. CASE ReadJoin(s)   BY <2>26 DEF ReadJoin, DecodersFinished
  <2>27. CASE ReadClose(s)   BY <2>27 DEF ReadClose, CallbackOver
  <2>28. CASE ReadFree(s)   BY <2>28 DEF ReadFree
  <2>29. ASSUME NEW l \in {"open", "videoCodec", "audioCodec"}, NEW f, OpenFails(s, l, f)
        PROVE  EndInv'
    BY <2>29 DEF OpenFails
  <2>30. CASE ReadEndVideo(s)   BY <2>30 DEF ReadEndVideo
  <2>31. CASE ReadCrash(s)   BY <2>31 DEF ReadCrash
  <2> QED
    BY <1>3, <2>1, <2>2, <2>3, <2>4, <2>5, <2>6, <2>7, <2>8, <2>9, <2>10, <2>11,
       <2>12, <2>13, <2>14, <2>15, <2>16, <2>17, <2>18, <2>19, <2>20, <2>21, <2>22,
       <2>23, <2>24, <2>25, <2>26, <2>27, <2>28, <2>29, <2>30, <2>31
    DEF ReadThread
<1>4. ASSUME NEW s \in Sessions, VideoThread(s) PROVE EndInv'
  <2>1. CASE VideoStart(s)   BY <2>1 DEF VideoStart
  <2>2. CASE VideoLoop(s)   BY <2>2 DEF VideoLoop
  <2>3. CASE VideoTake(s)   BY <2>3 DEF VideoTake
  <2>4. CASE VideoEmpty(s)   BY <2>4 DEF VideoEmpty
  <2>5. CASE VideoDecode(s)   BY <2>5 DEF VideoDecode
  <2>6. CASE VideoSeekCheck(s)   BY <2>6 DEF VideoSeekCheck
  <2>7. CASE VideoSync(s)   BY <2>7 DEF VideoSync
  <2>8. CASE VideoShow(s)   BY <2>8 DEF VideoShow
  <2>9. CASE VideoRepause(s)   BY <2>9 DEF VideoRepause
  <2>10. CASE VideoClearNeed(s)   BY <2>10 DEF VideoClearNeed
  <2>11. CASE VideoExit(s)   BY <2>11 DEF VideoExit
  <2>12. CASE VideoFound(s)   BY <2>12 DEF VideoFound
  <2>13. CASE VideoCrash(s)   BY <2>13 DEF VideoCrash
  <2> QED
    BY <1>4, <2>1, <2>2, <2>3, <2>4, <2>5, <2>6, <2>7, <2>8, <2>9, <2>10, <2>11, <2>12, <2>13
    DEF VideoThread
<1>5. CASE AudioCallback
  <2>1. CASE AudioCheck   BY <2>1 DEF AudioCheck
  <2>2. CASE AudioClear   BY <2>2 DEF AudioClear
  <2>3. CASE AudioTake   BY <2>3 DEF AudioTake
  <2>4. CASE AudioSeekCheck   BY <2>4 DEF AudioSeekCheck, AudioDecoded
  <2>5. CASE AudioFound   BY <2>5 DEF AudioFound, AudioDecoded
  <2>6. CASE AudioCrash   BY <2>6 DEF AudioCrash
  <2> QED
    BY <1>5, <2>1, <2>2, <2>3, <2>4, <2>5, <2>6
    DEF AudioCallback
<1>6. CASE Tick   BY <1>6 DEF Tick
<1> QED   BY <1>1, <1>2, <1>3, <1>4, <1>5, <1>6 DEF Next

\* A read thread that reads on while the player is stopped is the one stop(true) waits for.
LEMMA StopInvStep == ASSUME FirstSession, TypeInv, SessionInv, Next PROVE StopInv'
<1>s. Sessions = {1}   BY OneSession
<1> USE <1>s DEF TypeInv, TypeOK, ControlTypes, SessionInv, StopInv, ReadsOn, ReadAt, ReadGoto, VideoAt,
             VideoGoto, controlVars, finishVars, seekVars, clockVars, streamVars, queueVars, fileVars,
             placeVars, readVars, videoVars, uiVars, playerVars, threadVars, otherThreads
<1>1. CASE UiCalls
  <2>1. CASE UiStop   BY <2>1 DEF UiStop, UiCall, StopBody
  <2>2. CASE UiOpen   BY <2>2 DEF UiOpen, UiCall, StopBody, StartedInv, FirstSession
  <2>3. CASE UiReplay   BY <2>3 DEF UiReplay, UiCall, StopBody, StartedInv, FirstSession
  <2>4. CASE UiPlay   BY <2>4 DEF UiPlay, UiCall, PlayFlags
  <2>5. CASE UiPause   BY <2>5 DEF UiPause, UiCall
  <2>6. CASE UiSeek   BY <2>6 DEF UiSeek, UiCall
  <2>7. CASE UiSpeed   BY <2>7 DEF UiSpeed, UiCall
  <2> QED
    BY <1>1, <2>1, <2>2, <2>3, <2>4, <2>5, <2>6, <2>7
    DEF UiCalls
<1>2. CASE UiProceeds
  <2>1. CASE UiStopReturns   BY <2>1 DEF UiStopReturns, EndInv
  <2>2. CASE startPlay   BY <2>2 DEF startPlay, StartsInv, StartedInv, FirstSession
  <2>3. CASE playState   BY <2>3 DEF playState
  <2>4. CASE pauseState   BY <2>4 DEF pauseState
  <2>5. CASE setSpeed   BY <2>5 DEF setSpeed, openSDL, CallbackOver
  <2>6. CASE UiSpeedPlay   BY <2>6 DEF UiSpeedPlay, PlayFlags
  <2>7. CASE UiSeekRequest   BY <2>7 DEF UiSeekRequest
  <2> QED
    BY <1>2, <2>1, <2>2, <2>3, <2>4, <2>5, <2>6, <2>7
    DEF UiProceeds
<1>3. ASSUME NEW s \in Sessions, ReadThread(s) PROVE StopInv'
  <2>1. CASE ReadInit(s)   BY <2>1 DEF ReadInit
  <2>2. CASE ReadOpen(s)   BY <2>2 DEF ReadOpen
  <2>3. CASE ReadVideoCodec(s)   BY <2>3 DEF ReadVideoCodec
  <2>4. CASE ReadAudioCodec(s)   BY <2>4 DEF ReadAudioCodec
  <2>5. CASE ReadDevice(s)   BY <2>5 DEF ReadDevice, openSDL
  <2>6. CASE ReadPlaying(s)   BY <2>6 DEF ReadPlaying
  <2>7. CASE ReadLoop(s)   BY <2>7 DEF ReadLoop
  <2>8. CASE ReadSeek(s)   BY <2>8 DEF ReadSeek, MoveTo, KeyPositions
  <2>9. CASE ReadClearAudio(s)   BY <2>9 DEF ReadClearAudio
  <2>10. CASE ReadFlushAudio(s)   BY <2>10 DEF ReadFlushAudio
  <2>11. CASE ReadClearVideo(s)   BY <2>11 DEF ReadClearVideo
  <2>12. CASE ReadFlushVideo(s)   BY <2>12 DEF ReadFlushVideo
  <2>13. CASE ReadSeekClock(s)   BY <2>13 DEF ReadSeekClock, Upto
  <2>14. CASE ReadSeekDone(s)   BY <2>14 DEF ReadSeekDone
  <2>15. CASE ReadSeekTime(s)   BY <2>15 DEF ReadSeekTime
  <2>16. CASE ReadSeekPause(s)   BY <2>16 DEF ReadSeekPause
  <2>17. CASE ReadSeekNeed(s)   BY <2>17 DEF ReadSeekNeed
  <2>18. CASE ReadSeekUnpause(s)   BY <2>18 DEF ReadSeekUnpause
  <2>19. CASE ReadRoom(s)   BY <2>19 DEF ReadRoom
  <2>20. CASE ReadPacket(s)   BY <2>20 DEF ReadPacket
  <2>21. CASE ReadEof(s)   BY <2>21 DEF ReadEof
  <2>22. CASE ReadWaitQuit(s)   BY <2>22 DEF ReadWaitQuit
  <2>23. CASE ReadEndAudio(s)   BY <2>23 DEF ReadEndAudio
  <2>24. CASE ReadStopSelf(s)   BY <2>24 DEF ReadStopSelf
  <2>25. CASE ReadQuitSelf(s)   BY <2>25 DEF ReadQuitSelf
  <2>26. CASE ReadJoin(s)   BY <2>26 DEF ReadJoin, DecodersFinished
  <2>27. CASE ReadClose(s)   BY <2>27 DEF ReadClose, CallbackOver
  <2>28. CASE ReadFree(s)   BY <2>28 DEF ReadFree
  <2>29. ASSUME NEW l \in {"open", "videoCodec", "audioCodec"}, NEW f, OpenFails(s, l, f)
        PROVE  StopInv'
    BY <2>29 DEF OpenFails
  <2>30. CASE ReadEndVideo(s)   BY <2>30 DEF ReadEndVideo
  <2>31. CASE ReadCrash(s)   BY <2>31 DEF ReadCrash
  <2> QED
    BY <1>3, <2>1, <2>2, <2>3, <2>4, <2>5, <2>6, <2>7, <2>8, <2>9, <2>10, <2>11,
       <2>12, <2>13, <2>14, <2>15, <2>16, <2>17, <2>18, <2>19, <2>20, <2>21, <2>22,
       <2>23, <2>24, <2>25, <2>26, <2>27, <2>28, <2>29, <2>30, <2>31
    DEF ReadThread
<1>4. ASSUME NEW s \in Sessions, VideoThread(s) PROVE StopInv'
  <2>1. CASE VideoStart(s)   BY <2>1 DEF VideoStart
  <2>2. CASE VideoLoop(s)   BY <2>2 DEF VideoLoop
  <2>3. CASE VideoTake(s)   BY <2>3 DEF VideoTake
  <2>4. CASE VideoEmpty(s)   BY <2>4 DEF VideoEmpty
  <2>5. CASE VideoDecode(s)   BY <2>5 DEF VideoDecode
  <2>6. CASE VideoSeekCheck(s)   BY <2>6 DEF VideoSeekCheck
  <2>7. CASE VideoSync(s)   BY <2>7 DEF VideoSync
  <2>8. CASE VideoShow(s)   BY <2>8 DEF VideoShow
  <2>9. CASE VideoRepause(s)   BY <2>9 DEF VideoRepause
  <2>10. CASE VideoClearNeed(s)   BY <2>10 DEF VideoClearNeed
  <2>11. CASE VideoExit(s)   BY <2>11 DEF VideoExit
  <2>12. CASE VideoFound(s)   BY <2>12 DEF VideoFound
  <2>13. CASE VideoCrash(s)   BY <2>13 DEF VideoCrash
  <2> QED
    BY <1>4, <2>1, <2>2, <2>3, <2>4, <2>5, <2>6, <2>7, <2>8, <2>9, <2>10, <2>11, <2>12, <2>13
    DEF VideoThread
<1>5. CASE AudioCallback
  <2>1. CASE AudioCheck   BY <2>1 DEF AudioCheck
  <2>2. CASE AudioClear   BY <2>2 DEF AudioClear
  <2>3. CASE AudioTake   BY <2>3 DEF AudioTake
  <2>4. CASE AudioSeekCheck   BY <2>4 DEF AudioSeekCheck, AudioDecoded
  <2>5. CASE AudioFound   BY <2>5 DEF AudioFound, AudioDecoded
  <2>6. CASE AudioCrash   BY <2>6 DEF AudioCrash
  <2> QED
    BY <1>5, <2>1, <2>2, <2>3, <2>4, <2>5, <2>6
    DEF AudioCallback
<1>6. CASE Tick   BY <1>6 DEF Tick
<1> QED   BY <1>1, <1>2, <1>3, <1>4, <1>5, <1>6 DEF Next

\* Every step of every thread keeps it.
LEMMA NextSession ==
  ASSUME FirstSession, TypeInv, SessionInv, [Next]_vars
  PROVE  SessionInv'
<1>1. CASE Next
  BY <1>1, StartedInvStep, VideoInvStep, CallbackInvStep, EndInvStep, StopInvStep DEF SessionInv
<1>2. CASE UNCHANGED vars
  BY <1>2 DEF SessionInv, StartedInv, VideoInv, CallbackInv, EndInv, StopInv, vars, playerVars,
     controlVars, finishVars, streamVars, threadVars, readVars, videoVars, uiVars
<1> QED   BY <1>1, <1>2

\* So it holds throughout the first session.
LEMMA SessionInvHolds ==
  ASSUME FirstSession
  PROVE  Spec => []SessionInv
BY InitSession, NextSession, TypeInvHolds, PTL DEF Spec

\* The codecs and the format context are freed only after the video thread, which
\* decodes with them, has ended (VideoPlayer.cpp:564-602).
THEOREM CodecOutlivesDecoder ==
  ASSUME FirstSession
  PROVE  Spec => []CodecOutlivesVideoThread
<1>1. ASSUME SessionInv PROVE CodecOutlivesVideoThread
  BY <1>1, OneSession DEF SessionInv, VideoInv, CodecOutlivesVideoThread, Playing
<1> QED   BY <1>1, SessionInvHolds, PTL

\* No audio callback runs, and no device is left to start one, once the audio
\* codec is freed, whatever openSDL returned and whenever the speed was changed
\* (VideoPlayer.cpp:569-602).
THEOREM CodecOutlivesAudio ==
  ASSUME FirstSession
  PROVE  Spec => []CodecOutlivesCallback
<1>1. ASSUME SessionInv PROVE CodecOutlivesCallback
  BY <1>1, OneSession DEF SessionInv, CallbackInv, CodecOutlivesCallback
<1> QED   BY <1>1, SessionInvHolds, PTL

\* stop(true) comes back to the interface with every thread of the session ended, or at once
\* from a session that is still opening or already ending by itself: never while its read
\* thread reads on (VideoPlayer.cpp:116-136).
THEOREM StopWaits ==
  ASSUME FirstSession
  PROVE  Spec => StopWaitsForAll
<1> DEFINE Spared == /\ upc = "idle" /\ mPlayerState = "Stop"
                     /\ \E s \in Sessions : Opening(s) \/ EndsByItself(s)
<1>1. ASSUME SessionInv, rpc[1] \in {"none", "done"} PROVE ThreadsDone
  BY <1>1, OneSession DEF SessionInv, VideoInv, CallbackInv, ThreadsDone, Playing
<1>2. ASSUME SessionInv, UiStopReturns PROVE ThreadsDone
  BY <1>1, <1>2 DEF UiStopReturns, SessionInv, EndInv
<1>3. ASSUME TypeInv, SessionInv, UiStop, upc' = "idle" PROVE ThreadsDone \/ Spared
  <2>1. upc = "idle" /\ mPlayerState = "Stop"   BY <1>3 DEF UiStop, UiCall
  <2>2. rpc[1] \notin ReadsOn   BY <1>3, <2>1 DEF SessionInv, StopInv
  <2>3. rpc[1] \in ReadLabels   BY <1>3, OneSession DEF TypeInv, TypeOK, ControlTypes
  <2>4. rpc[1] \in {"none", "done"} \/ Opening(1) \/ EndsByItself(1)
    BY <2>2, <2>3 DEF ReadLabels, ReadsOn, Opening, EndsByItself
  <2> QED   BY <1>1, <1>3, <2>1, <2>4, OneSession
<1>4. ASSUME TypeInv, SessionInv PROVE [StopReturned => ThreadsDone \/ Spared]_vars
  BY <1>2, <1>3, <1>4 DEF StopReturned
<1> QED   BY <1>4, TypeInvHolds, SessionInvHolds, PTL DEF Spec, StopWaitsForAll
=============================================================================
