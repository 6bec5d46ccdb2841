---------------------------- MODULE VideoPlayerTypes ----------------------------
(***************************************************************************)
(* Type correctness of VideoPlayer for every file, every bound and every   *)
(* set of failures.  TypeOK is not inductive: that startPlay stays within  *)
(* MaxStarts and that a decoded packet has a time depend on where the      *)
(* interface thread and the video threads are.                             *)
(***************************************************************************)
EXTENDS VideoPlayer, SequenceTheorems, TLAPS

\* startPlay is only reached by a call that found room for one more session.
StartsInv == upc \in {"start", "openWait"} => starts < MaxStarts

\* A FLUSH packet, which has no time, never reaches the decoder.
DecodesPackets == \A s \in Sessions : vpc[s] = "decode" => frame[s].pts \in Nat

TypeInv == TypeOK /\ StartsInv /\ DecodesPackets

\* The constructor leaves every field in its type, whatever the unset flags are.
LEMMA InitTypeInv == Init => TypeInv
<1> SUFFICES ASSUME Init PROVE TypeInv
  OBVIOUS
<1> USE ConstantsAssumption DEF Init, Sessions
<1>1. FlagTypes   BY DEF FlagTypes
<1>2. ClockTypes   BY DEF ClockTypes
<1>3. PacketTypes
  <2>1. NoFrame \in Packet   BY DEF NoFrame, NoPts, Packet
  <2>2. Len(File) \in Nat   BY LenProperties
  <2> QED   BY <2>1, <2>2, EmptySeq DEF PacketTypes
<1>4. ControlTypes
  <2>1. starts \in 0..MaxStarts /\ ops \in 0..MaxOps   OBVIOUS
  <2>2. crashed \in BOOLEAN   OBVIOUS
  <2>3. rpc \in [Sessions -> ReadLabels] /\ vpc \in [Sessions -> VideoLabels]
    BY DEF ReadLabels, VideoLabels
  <2> QED   BY <2>1, <2>2, <2>3 DEF ControlTypes, AudioLabels, UiLabels
<1>5. StartsInv /\ DecodesPackets   BY DEF StartsInv, DecodesPackets
<1> QED   BY <1>1, <1>2, <1>3, <1>4, <1>5 DEF TypeInv, TypeOK

\* The flags stay Booleans.
LEMMA FlagTypesStep == ASSUME TypeInv, Next PROVE FlagTypes'
<1> USE ConstantsAssumption DEF TypeInv, TypeOK, FlagTypes, ReadAt, ReadGoto, VideoAt, VideoGoto,
             ReadLabels, UiLabels, VideoLabels, AudioLabels,
             controlVars, finishVars, seekVars, clockVars, streamVars, queueVars, fileVars,
             placeVars, readVars, videoVars, uiVars, playerVars, threadVars, otherThreads
<1>1. CASE UiCalls
  <2>1. CASE UiStop   BY <2>1 DEF UiStop, UiCall, StopBody
  <2>2. CASE UiOpen   BY <2>2 DEF UiOpen, UiCall, StopBody
  <2>3. CASE UiReplay   BY <2>3 DEF UiReplay, UiCall, StopBody
  <2>4. CASE UiPlay   BY <2>4 DEF UiPlay, UiCall, PlayFlags
  <2>5. CASE UiPause   BY <2>5 DEF UiPause, UiCall
  <2>6. CASE UiSeek   BY <2>6 DEF UiSeek, UiCall
  <2>7. CASE UiSpeed   BY <2>7 DEF UiSpeed, UiCall
  <2> QED
    BY <1>1, <2>1, <2>2, <2>3, <2>4, <2>5, <2>6, <2>7
    DEF UiCalls
<1>2. CASE UiProceeds
  <2>1. CASE UiStopReturns   BY <2>1 DEF UiStopReturns
  <2>2. CASE startPlay   BY <2>2 DEF startPlay, StartsInv, Sessions
  <2>3. CASE playState   BY <2>3 DEF playState
  <2>4. CASE pauseState   BY <2>4 DEF pauseState
  <2>5. CASE setSpeed   BY <2>5 DEF setSpeed, openSDL
  <2>6. CASE UiSpeedPlay   BY <2>6 DEF UiSpeedPlay, PlayFlags
  <2>7. CASE UiSeekRequest   BY <2>7 DEF UiSeekRequest
  <2> QED
    BY <1>2, <2>1, <2>2, <2>3, <2>4, <2>5, <2>6, <2>7
    DEF UiProceeds
<1>3. ASSUME NEW s \in Sessions, ReadThread(s) PROVE FlagTypes'
  <2>1. CASE ReadInit(s)   BY <2>1 DEF ReadInit
  <2>2. CASE ReadOpen(s)   BY <2>2 DEF ReadOpen
  <2>3. CASE ReadVideoCodec(s)   BY <2>3 DEF ReadVideoCodec
  <2>4. CASE ReadAudioCodec(s)
    <3>1. CASE audioStream' = [audioStream EXCEPT ![s] = TRUE] /\ mAudioStream' = TRUE
      BY <2>4, <3>1 DEF ReadAudioCodec
    <3>2. CASE UNCHANGED <<mAudioStream, audioStream>>
      BY <2>4, <3>2 DEF ReadAudioCodec
    <3> QED   BY <2>4, <3>1, <3>2 DEF ReadAudioCodec
  <2>5. CASE ReadDevice(s)   BY <2>5 DEF ReadDevice, openSDL
  <2>6. CASE ReadPlaying(s)   BY <2>6 DEF ReadPlaying
  <2>7. CASE ReadLoop(s)   BY <2>7 DEF ReadLoop
  <2>8. CASE ReadSeek(s)   BY <2>8 DEF ReadSeek, MoveTo, KeyPositions
  <2>9. CASE ReadClearAudio(s)   BY <2>9 DEF ReadClearAudio
  <2>10. CASE ReadFlushAudio(s)   BY <2>10 DEF ReadFlushAudio
  <2>11. CASE ReadClearVideo(s)   BY <2>11 DEF ReadClearVideo
  <2>12. CASE ReadFlushVideo(s)   BY <2>12 DEF ReadFlushVideo
  <2>13. CASE ReadSeekClock(s)   BY <2>13 DEF ReadSeekClock, Upto
  <2>14. CASE ReadSeekDone(s)   BY <2>14 DEF ReadSeekDone
  <2>15. CASE ReadSeekTime(s)   BY <2>15 DEF ReadSeekTime
  <2>16. CASE ReadSeekPause(s)   BY <2>16 DEF ReadSeekPause
  <2>17. CASE ReadSeekNeed(s)   BY <2>17 DEF ReadSeekNeed
  <2>18. CASE ReadSeekUnpause(s)   BY <2>18 DEF ReadSeekUnpause
  <2>19. CASE ReadRoom(s)   BY <2>19 DEF ReadRoom
  <2>20. CASE ReadPacket(s)   BY <2>20 DEF ReadPacket
  <2>21. CASE ReadEof(s)   BY <2>21 DEF ReadEof
  <2>22. CASE ReadWaitQuit(s)   BY <2>22 DEF ReadWaitQuit
  <2>23. CASE ReadEndAudio(s)   BY <2>23 DEF ReadEndAudio
  <2>24. CASE ReadStopSelf(s)   BY <2>24 DEF ReadStopSelf
  <2>25. CASE ReadQuitSelf(s)   BY <2>25 DEF ReadQuitSelf
  <2>26. CASE ReadJoin(s)   BY <2>26 DEF ReadJoin
  <2>27. CASE ReadClose(s)   BY <2>27 DEF ReadClose
  <2>28. CASE ReadFree(s)   BY <2>28 DEF ReadFree
  <2>29. ASSUME NEW l, NEW f, OpenFails(s, l, f) PROVE FlagTypes'
    BY <2>29 DEF OpenFails
  <2>30. CASE ReadEndVideo(s)   BY <2>30 DEF ReadEndVideo
  <2>31. CASE ReadCrash(s)   BY <2>31 DEF ReadCrash
  <2> QED
    BY <1>3, <2>1, <2>2, <2>3, <2>4, <2>5, <2>6, <2>7, <2>8, <2>9, <2>10, <2>11,
       <2>12, <2>13, <2>14, <2>15, <2>16, <2>17, <2>18, <2>19, <2>20, <2>21, <2>22,
       <2>23, <2>24, <2>25, <2>26, <2>27, <2>28, <2>29, <2>30, <2>31
    DEF ReadThread
<1>4. ASSUME NEW s \in Sessions, VideoThread(s) PROVE FlagTypes'
  <2>1. CASE VideoStart(s)   BY <2>1 DEF VideoStart
  <2>2. CASE VideoLoop(s)   BY <2>2 DEF VideoLoop
  <2>3. CASE VideoTake(s)   BY <2>3 DEF VideoTake
  <2>4. CASE VideoEmpty(s)   BY <2>4 DEF VideoEmpty
  <2>5. CASE VideoDecode(s)   BY <2>5 DEF VideoDecode
  <2>6. CASE VideoSeekCheck(s)   BY <2>6 DEF VideoSeekCheck
  <2>7. CASE VideoSync(s)   BY <2>7 DEF VideoSync
  <2>8. CASE VideoShow(s)   BY <2>8 DEF VideoShow
  <2>9. CASE VideoRepause(s)   BY <2>9 DEF VideoRepause
  <2>10. CASE VideoClearNeed(s)   BY <2>10 DEF VideoClearNeed
  <2>11. CASE VideoExit(s)   BY <2>11 DEF VideoExit
  <2>12. CASE VideoFound(s)   BY <2>12 DEF VideoFound
  <2>13. CASE VideoCrash(s)   BY <2>13 DEF VideoCrash
  <2> QED
    BY <1>4, <2>1, <2>2, <2>3, <2>4, <2>5, <2>6, <2>7, <2>8, <2>9, <2>10, <2>11, <2>12, <2>13
    DEF VideoThread
<1>5. CASE AudioCallback
  <2>1. CASE AudioCheck   BY <2>1 DEF AudioCheck
  <2>2. CASE AudioClear   BY <2>2 DEF AudioClear
  <2>3. CASE AudioTake   BY <2>3 DEF AudioTake
  <2>4. CASE AudioSeekCheck   BY <2>4 DEF AudioSeekCheck, AudioDecoded
  <2>5. CASE AudioFound   BY <2>5 DEF AudioFound, AudioDecoded
  <2>6. CASE AudioCrash   BY <2>6 DEF AudioCrash
  <2> QED
    BY <1>5, <2>1, <2>2, <2>3, <2>4, <2>5, <2>6
    DEF AudioCallback
<1>6. CASE Tick   BY <1>6 DEF Tick
<1> QED   BY <1>1, <1>2, <1>3, <1>4, <1>5, <1>6 DEF Next

\* Times, positions and the seek count stay natural numbers.
LEMMA ClockTypesStep == ASSUME TypeInv, Next PROVE ClockTypes'
<1> USE ConstantsAssumption DEF TypeInv, TypeOK, ClockTypes, ReadAt, ReadGoto, VideoAt, VideoGoto,
             ReadLabels, UiLabels, VideoLabels, AudioLabels,
             controlVars, finishVars, seekVars, clockVars, streamVars, queueVars, fileVars,
             placeVars, readVars, videoVars, uiVars, playerVars, threadVars, otherThreads
<1>1. CASE UiCalls
  <2>1. CASE UiStop   BY <2>1 DEF UiStop, UiCall, StopBody
  <2>2. CASE UiOpen   BY <2>2 DEF UiOpen, UiCall, StopBody
  <2>3. CASE UiReplay   BY <2>3 DEF UiReplay, UiCall, StopBody
  <2>4. CASE UiPlay   BY <2>4 DEF UiPlay, UiCall, PlayFlags
  <2>5. CASE UiPause   BY <2>5 DEF UiPause, UiCall
  <2>6. CASE UiSeek   BY <2>6 DEF UiSeek, UiCall
  <2>7. CASE UiSpeed   BY <2>7 DEF UiSpeed, UiCall
  <2> QED
    BY <1>1, <2>1, <2>2, <2>3, <2>4, <2>5, <2>6, <2>7
    DEF UiCalls
<1>2. CASE UiProceeds
  <2>1. CASE UiStopReturns   BY <2>1 DEF UiStopReturns
  <2>2. CASE startPlay   BY <2>2 DEF startPlay, StartsInv, Sessions
  <2>3. CASE playState   BY <2>3 DEF playState
  <2>4. CASE pauseState   BY <2>4 DEF pauseState
  <2>5. CASE setSpeed   BY <2>5 DEF setSpeed, openSDL
  <2>6. CASE UiSpeedPlay   BY <2>6 DEF UiSpeedPlay, PlayFlags
  <2>7. CASE UiSeekRequest   BY <2>7 DEF UiSeekRequest
  <2> QED
    BY <1>2, <2>1, <2>2, <2>3, <2>4, <2>5, <2>6, <2>7
    DEF UiProceeds
<1>3. ASSUME NEW s \in Sessions, ReadThread(s) PROVE ClockTypes'
  <2>1. CASE ReadInit(s)   BY <2>1 DEF ReadInit
  <2>2. CASE ReadOpen(s)   BY <2>2 DEF ReadOpen
  <2>3. CASE ReadVideoCodec(s)   BY <2>3 DEF ReadVideoCodec
  <2>4. CASE ReadAudioCodec(s)   BY <2>4 DEF ReadAudioCodec
  <2>5. CASE ReadDevice(s)   BY <2>5 DEF ReadDevice, openSDL
  <2>6. CASE ReadPlaying(s)   BY <2>6 DEF ReadPlaying
  <2>7. CASE ReadLoop(s)   BY <2>7 DEF ReadLoop
  <2>8. CASE ReadSeek(s)
    <3>1. CASE UNCHANGED placeVars
      <4>1. UNCHANGED <<seek_pos, seek_time, asked, clockVars, speed>>   BY <2>8 DEF ReadSeek
      <4> QED   BY <3>1, <4>1
    <3>2. ASSUME NEW i \in KeyPositions(seek_pos), MoveTo(i) PROVE ClockTypes'
      <4>0. i \in 1..Len(File)   BY DEF KeyPositions
      <4>1. File[i] \in [stream : Streams, pts : Nat]   BY <4>0, ElementOfSeq
      <4>2. seekedTo' \in [0..epoch' -> Nat]   BY <3>2, <4>1 DEF MoveTo
      <4>3. /\ epoch' = epoch + 1
            /\ UNCHANGED <<seek_pos, seek_time, asked, clockVars, speed>>
        BY <2>8, <3>2 DEF ReadSeek, MoveTo
      <4> QED   BY <4>2, <4>3
    <3> QED   BY <2>8, <3>1, <3>2 DEF ReadSeek
  <2>9. CASE ReadClearAudio(s)   BY <2>9 DEF ReadClearAudio
  <2>10. CASE ReadFlushAudio(s)   BY <2>10 DEF ReadFlushAudio
  <2>11. CASE ReadClearVideo(s)   BY <2>11 DEF ReadClearVideo
  <2>12. CASE ReadFlushVideo(s)   BY <2>12 DEF ReadFlushVideo
  <2>13. CASE ReadSeekClock(s)   BY <2>13 DEF ReadSeekClock, Upto
  <2>14. CASE ReadSeekDone(s)   BY <2>14 DEF ReadSeekDone
  <2>15. CASE ReadSeekTime(s)   BY <2>15 DEF ReadSeekTime
  <2>16. CASE ReadSeekPause(s)   BY <2>16 DEF ReadSeekPause
  <2>17. CASE ReadSeekNeed(s)   BY <2>17 DEF ReadSeekNeed
  <2>18. CASE ReadSeekUnpause(s)   BY <2>18 DEF ReadSeekUnpause
  <2>19. CASE ReadRoom(s)   BY <2>19 DEF ReadRoom
  <2>20. CASE ReadPacket(s)   BY <2>20 DEF ReadPacket
  <2>21. CASE ReadEof(s)   BY <2>21 DEF ReadEof
  <2>22. CASE ReadWaitQuit(s)   BY <2>22 DEF ReadWaitQuit
  <2>23. CASE ReadEndAudio(s)   BY <2>23 DEF ReadEndAudio
  <2>24. CASE ReadStopSelf(s)   BY <2>24 DEF ReadStopSelf
  <2>25. CASE ReadQuitSelf(s)   BY <2>25 DEF ReadQuitSelf
  <2>26. CASE ReadJoin(s)   BY <2>26 DEF ReadJoin
  <2>27. CASE ReadClose(s)   BY <2>27 DEF ReadClose
  <2>28. CASE ReadFree(s)   BY <2>28 DEF ReadFree
  <2>29. ASSUME NEW l, NEW f, OpenFails(s, l, f) PROVE ClockTypes'
    BY <2>29 DEF OpenFails
  <2>30. CASE ReadEndVideo(s)   BY <2>30 DEF ReadEndVideo
  <2>31. CASE ReadCrash(s)   BY <2>31 DEF ReadCrash
  <2> QED
    BY <1>3, <2>1, <2>2, <2>3, <2>4, <2>5, <2>6, <2>7, <2>8, <2>9, <2>10, <2>11,
       <2>12, <2>13, <2>14, <2>15, <2>16, <2>17, <2>18, <2>19, <2>20, <2>21, <2>22,
       <2>23, <2>24, <2>25, <2>26, <2>27, <2>28, <2>29, <2>30, <2>31
    DEF ReadThread
<1>4. ASSUME NEW s \in Sessions, VideoThread(s) PROVE ClockTypes'
  <2>1. CASE VideoStart(s)   BY <2>1 DEF VideoStart
  <2>2. CASE VideoLoop(s)   BY <2>2 DEF VideoLoop
  <2>3. CASE VideoTake(s)   BY <2>3 DEF VideoTake
  <2>4. CASE VideoEmpty(s)   BY <2>4 DEF VideoEmpty
  <2>5. CASE VideoDecode(s)
    BY <2>5 DEF VideoDecode, DecodesPackets
  <2>6. CASE VideoSeekCheck(s)   BY <2>6 DEF VideoSeekCheck
  <2>7. CASE VideoSync(s)   BY <2>7 DEF VideoSync
  <2>8. CASE VideoShow(s)   BY <2>8 DEF VideoShow
  <2>9. CASE VideoRepause(s)   BY <2>9 DEF VideoRepause
  <2>10. CASE VideoClearNeed(s)   BY <2>10 DEF VideoClearNeed
  <2>11. CASE VideoExit(s)   BY <2>11 DEF VideoExit
  <2>12. CASE VideoFound(s)   BY <2>12 DEF VideoFound
  <2>13. CASE VideoCrash(s)   BY <2>13 DEF VideoCrash
  <2> QED
    BY <1>4, <2>1, <2>2, <2>3, <2>4, <2>5, <2>6, <2>7, <2>8, <2>9, <2>10, <2>11, <2>12, <2>13
    DEF VideoThread
<1>5. CASE AudioCallback
  <2>1. CASE AudioCheck   BY <2>1 DEF AudioCheck
  <2>2. CASE AudioClear   BY <2>2 DEF AudioClear
  <2>3. CASE AudioTake
    <3>1. mAudioPacktList # <<>> => Head(mAudioPacktList) \in Packet
      BY HeadTailProperties DEF PacketTypes
    <3> QED   BY <2>3, <3>1 DEF AudioTake, Packet, IsFlush
  <2>4. CASE AudioSeekCheck   BY <2>4 DEF AudioSeekCheck, AudioDecoded
  <2>5. CASE AudioFound   BY <2>5 DEF AudioFound, AudioDecoded
  <2>6. CASE AudioCrash   BY <2>6 DEF AudioCrash
  <2> QED
    BY <1>5, <2>1, <2>2, <2>3, <2>4, <2>5, <2>6
    DEF AudioCallback
<1>6. CASE Tick   BY <1>6 DEF Tick
<1> QED   BY <1>1, <1>2, <1>3, <1>4, <1>5, <1>6 DEF Next

\* The queues stay sequences of packets and the reading positions inside the file.
LEMMA PacketTypesStep == ASSUME TypeInv, Next PROVE PacketTypes'
<1> USE ConstantsAssumption DEF TypeInv, TypeOK, PacketTypes, ReadAt, ReadGoto, VideoAt, VideoGoto,
             ReadLabels, UiLabels, VideoLabels, AudioLabels,
             controlVars, finishVars, seekVars, clockVars, streamVars, queueVars, fileVars,
             placeVars, readVars, videoVars, uiVars, playerVars, threadVars, otherThreads
<1>1. CASE UiCalls
  <2>1. CASE UiStop   BY <2>1 DEF UiStop, UiCall, StopBody
  <2>2. CASE UiOpen   BY <2>2 DEF UiOpen, UiCall, StopBody
  <2>3. CASE UiReplay   BY <2>3 DEF UiReplay, UiCall, StopBody
  <2>4. CASE UiPlay   BY <2>4 DEF UiPlay, UiCall, PlayFlags
  <2>5. CASE UiPause   BY <2>5 DEF UiPause, UiCall
  <2>6. CASE UiSeek   BY <2>6 DEF UiSeek, UiCall
  <2>7. CASE UiSpeed   BY <2>7 DEF UiSpeed, UiCall
  <2> QED
    BY <1>1, <2>1, <2>2, <2>3, <2>4, <2>5, <2>6, <2>7
    DEF UiCalls
<1>2. CASE UiProceeds
  <2>1. CASE UiStopReturns   BY <2>1 DEF UiStopReturns
  <2>2. CASE startPlay   BY <2>2 DEF startPlay, StartsInv, Sessions
  <2>3. CASE playState   BY <2>3 DEF playState
  <2>4. CASE pauseState   BY <2>4 DEF pauseState
  <2>5. CASE setSpeed   BY <2>5 DEF setSpeed, openSDL
  <2>6. CASE UiSpeedPlay   BY <2>6 DEF UiSpeedPlay, PlayFlags
  <2>7. CASE UiSeekRequest   BY <2>7 DEF UiSeekRequest
  <2> QED
    BY <1>2, <2>1, <2>2, <2>3, <2>4, <2>5, <2>6, <2>7
    DEF UiProceeds
<1>3. ASSUME NEW s \in Sessions, ReadThread(s) PROVE PacketTypes'
  <2>1. CASE ReadInit(s)   BY <2>1 DEF ReadInit, Sessions
  <2>2. CASE ReadOpen(s)   BY <2>2 DEF ReadOpen, Sessions
  <2>3. CASE ReadVideoCodec(s)   BY <2>3 DEF ReadVideoCodec
  <2>4. CASE ReadAudioCodec(s)   BY <2>4 DEF ReadAudioCodec
  <2>5. CASE ReadDevice(s)   BY <2>5 DEF ReadDevice, openSDL
  <2>6. CASE ReadPlaying(s)   BY <2>6 DEF ReadPlaying
  <2>7. CASE ReadLoop(s)   BY <2>7 DEF ReadLoop
  <2>8. CASE ReadSeek(s)
    <3>1. CASE UNCHANGED placeVars   BY <2>8, <3>1 DEF ReadSeek
    <3>2. ASSUME NEW i \in KeyPositions(seek_pos), MoveTo(i) PROVE PacketTypes'
      <4>1. Len(File) \in Nat /\ i \in 1..(Len(File) + 1)   BY LenProperties DEF KeyPositions
      <4>2. demux' \in [Sessions -> 1..(Len(File) + 1)]   BY <3>2, <4>1 DEF MoveTo
      <4>3. UNCHANGED <<mVideoPacktList, mAudioPacktList, frame, screen, pFormatCtx>>
        BY <2>8 DEF ReadSeek
      <4> QED   BY <4>2, <4>3
    <3> QED   BY <2>8, <3>1, <3>2 DEF ReadSeek
  <2>9. CASE ReadClearAudio(s)
    BY <2>9, EmptySeq DEF ReadClearAudio
  <2>10. CASE ReadFlushAudio(s)
    <3>1. Flush \in Packet   BY DEF Flush, Packet, ClockTypes
    <3>2. Append(mAudioPacktList, Flush) \in Seq(Packet)   BY <3>1, AppendProperties
    <3> QED   BY <2>10, <3>2 DEF ReadFlushAudio
  <2>11. CASE ReadClearVideo(s)
    BY <2>11, EmptySeq DEF ReadClearVideo
  <2>12. CASE ReadFlushVideo(s)
    <3>1. Flush \in Packet   BY DEF Flush, Packet, ClockTypes
    <3>2. Append(mVideoPacktList, Flush) \in Seq(Packet)   BY <3>1, AppendProperties
    <3> QED   BY <2>12, <3>2 DEF ReadFlushVideo
  <2>13. CASE ReadSeekClock(s)   BY <2>13 DEF ReadSeekClock, Upto
  <2>14. CASE ReadSeekDone(s)   BY <2>14 DEF ReadSeekDone
  <2>15. CASE ReadSeekTime(s)   BY <2>15 DEF ReadSeekTime
  <2>16. CASE ReadSeekPause(s)   BY <2>16 DEF ReadSeekPause
  <2>17. CASE ReadSeekNeed(s)   BY <2>17 DEF ReadSeekNeed
  <2>18. CASE ReadSeekUnpause(s)   BY <2>18 DEF ReadSeekUnpause
  <2>19. CASE ReadRoom(s)   BY <2>19 DEF ReadRoom
  <2>20. CASE ReadPacket(s)
    <3> DEFINE packet == [pts |-> File[demux[pFormatCtx]].pts, epoch |-> epoch]
    <3>0. pFormatCtx \in Sessions   BY <2>20 DEF ReadPacket, Usable, Sessions
    <3>1. demux[pFormatCtx] \in 1..Len(File)   BY <2>20, <3>0 DEF ReadPacket
    <3>2. File[demux[pFormatCtx]] \in [stream : Streams, pts : Nat]   BY <3>1, ElementOfSeq
    <3>3. packet \in Packet   BY <3>2 DEF Packet, ClockTypes
    <3>4. /\ Append(mVideoPacktList, packet) \in Seq(Packet)
          /\ Append(mAudioPacktList, packet) \in Seq(Packet)
      BY <3>3, AppendProperties
    <3> HIDE DEF packet
    <3>5. /\ mVideoPacktList' \in {mVideoPacktList, Append(mVideoPacktList, packet)}
          /\ mAudioPacktList' \in {mAudioPacktList, Append(mAudioPacktList, packet)}
          /\ demux' = [demux EXCEPT ![pFormatCtx] = demux[pFormatCtx] + 1]
          /\ UNCHANGED <<frame, screen, pFormatCtx>>
      BY <2>20 DEF ReadPacket, packet
    <3>6. Len(File) \in Nat   BY LenProperties
    <3>7. demux' \in [Sessions -> 1..(Len(File) + 1)]   BY <3>0, <3>1, <3>5, <3>6
    <3> QED   BY <3>4, <3>5, <3>7
  <2>21. CASE ReadEof(s)   BY <2>21 DEF ReadEof
  <2>22. CASE ReadWaitQuit(s)   BY <2>22 DEF ReadWaitQuit
  <2>23. CASE ReadEndAudio(s)
    BY <2>23, EmptySeq DEF ReadEndAudio
  <2>24. CASE ReadStopSelf(s)   BY <2>24 DEF ReadStopSelf
  <2>25. CASE ReadQuitSelf(s)   BY <2>25 DEF ReadQuitSelf
  <2>26. CASE ReadJoin(s)   BY <2>26 DEF ReadJoin
  <2>27. CASE ReadClose(s)   BY <2>27 DEF ReadClose
  <2>28. CASE ReadFree(s)   BY <2>28 DEF ReadFree
  <2>29. ASSUME NEW l, NEW f, OpenFails(s, l, f) PROVE PacketTypes'
    BY <2>29 DEF OpenFails, Sessions
  <2>30. CASE ReadEndVideo(s)
    BY <2>30, EmptySeq DEF ReadEndVideo
  <2>31. CASE ReadCrash(s)   BY <2>31 DEF ReadCrash
  <2> QED
    BY <1>3, <2>1, <2>2, <2>3, <2>4, <2>5, <2>6, <2>7, <2>8, <2>9, <2>10, <2>11,
       <2>12, <2>13, <2>14, <2>15, <2>16, <2>17, <2>18, <2>19, <2>20, <2>21, <2>22,
       <2>23, <2>24, <2>25, <2>26, <2>27, <2>28, <2>29, <2>30, <2>31
    DEF ReadThread
<1>4. ASSUME NEW s \in Sessions, VideoThread(s) PROVE PacketTypes'
  <2>1. CASE VideoStart(s)   BY <2>1 DEF VideoStart
  <2>2. CASE VideoLoop(s)
    BY <2>2, EmptySeq DEF VideoLoop
  <2>3. CASE VideoTake(s)
    <3>1. CASE mVideoPacktList = <<>>   BY <2>3, <3>1 DEF VideoTake
    <3>2. CASE mVideoPacktList # <<>>
      <4>1. Head(mVideoPacktList) \in Packet /\ Tail(mVideoPacktList) \in Seq(Packet)
        BY <3>2, HeadTailProperties
      <4> QED   BY <2>3, <3>2, <4>1 DEF VideoTake
    <3> QED   BY <3>1, <3>2
  <2>4. CASE VideoEmpty(s)   BY <2>4 DEF VideoEmpty
  <2>5. CASE VideoDecode(s)   BY <2>5 DEF VideoDecode
  <2>6. CASE VideoSeekCheck(s)   BY <2>6 DEF VideoSeekCheck
  <2>7. CASE VideoSync(s)   BY <2>7 DEF VideoSync
  <2>8. CASE VideoShow(s)   BY <2>8 DEF VideoShow
  <2>9. CASE VideoRepause(s)   BY <2>9 DEF VideoRepause
  <2>10. CASE VideoClearNeed(s)   BY <2>10 DEF VideoClearNeed
  <2>11. CASE VideoExit(s)   BY <2>11 DEF VideoExit
  <2>12. CASE VideoFound(s)   BY <2>12 DEF VideoFound
  <2>13. CASE VideoCrash(s)   BY <2>13 DEF VideoCrash
  <2> QED
    BY <1>4, <2>1, <2>2, <2>3, <2>4, <2>5, <2>6, <2>7, <2>8, <2>9, <2>10, <2>11, <2>12, <2>13
    DEF VideoThread
<1>5. CASE AudioCallback
  <2>1. CASE AudioCheck   BY <2>1 DEF AudioCheck
  <2>2. CASE AudioClear
    BY <2>2, EmptySeq DEF AudioClear
  <2>3. CASE AudioTake
    <3>1. CASE mAudioPacktList = <<>>   BY <2>3, <3>1 DEF AudioTake
    <3>2. CASE mAudioPacktList # <<>>
      <4>1. Tail(mAudioPacktList) \in Seq(Packet)   BY <3>2, HeadTailProperties
      <4> QED   BY <2>3, <3>2, <4>1 DEF AudioTake
    <3> QED   BY <3>1, <3>2
  <2>4. CASE AudioSeekCheck   BY <2>4 DEF AudioSeekCheck, AudioDecoded
  <2>5. CASE AudioFound   BY <2>5 DEF AudioFound, AudioDecoded
  <2>6. CASE AudioCrash   BY <2>6 DEF AudioCrash
  <2> QED
    BY <1>5, <2>1, <2>2, <2>3, <2>4, <2>5, <2>6
    DEF AudioCallback
<1>6. CASE Tick   BY <1>6 DEF Tick
<1> QED   BY <1>1, <1>2, <1>3, <1>4, <1>5, <1>6 DEF Next

\* Every thread stays at one of its places, every state is a known one.
LEMMA ControlTypesStep == ASSUME TypeInv, Next PROVE ControlTypes'
<1> USE ConstantsAssumption DEF TypeInv, TypeOK, ControlTypes, ReadAt, ReadGoto, VideoAt, VideoGoto,
             ReadLabels, UiLabels, VideoLabels, AudioLabels,
             controlVars, finishVars, seekVars, clockVars, streamVars, queueVars, fileVars,
             placeVars, readVars, videoVars, uiVars, playerVars, threadVars, otherThreads
<1>1. CASE UiCalls
  <2>1. CASE UiStop   BY <2>1 DEF UiStop, UiCall, StopBody
  <2>2. CASE UiOpen   BY <2>2 DEF UiOpen, UiCall, StopBody
  <2>3. CASE UiReplay   BY <2>3 DEF UiReplay, UiCall, StopBody
  <2>4. CASE UiPlay   BY <2>4 DEF UiPlay, UiCall, PlayFlags
  <2>5. CASE UiPause   BY <2>5 DEF UiPause, UiCall
  <2>6. CASE UiSeek   BY <2>6 DEF UiSeek, UiCall
  <2>7. CASE UiSpeed   BY <2>7 DEF UiSpeed, UiCall
  <2> QED
    BY <1>1, <2>1, <2>2, <2>3, <2>4, <2>5, <2>6, <2>7
    DEF UiCalls
<1>2. CASE UiProceeds
  <2>1. CASE UiStopReturns   BY <2>1 DEF UiStopReturns
  <2>2. CASE startPlay
    <3>1. starts' \in 0..MaxStarts /\ rpc' \in [Sessions -> ReadLabels]
      BY <2>2 DEF startPlay, StartsInv, Sessions
    <3> QED   BY <2>2, <3>1 DEF startPlay
  <2>3. CASE playState   BY <2>3 DEF playState
  <2>4. CASE pauseState   BY <2>4 DEF pauseState
  <2>5. CASE setSpeed   BY <2>5 DEF setSpeed, openSDL
  <2>6. CASE UiSpeedPlay   BY <2>6 DEF UiSpeedPlay, PlayFlags
  <2>7. CASE UiSeekRequest   BY <2>7 DEF UiSeekRequest
  <2> QED
    BY <1>2, <2>1, <2>2, <2>3, <2>4, <2>5, <2>6, <2>7
    DEF UiProceeds
<1>3. ASSUME NEW s \in Sessions, ReadThread(s) PROVE ControlTypes'
  <2>1. CASE ReadInit(s)   BY <2>1 DEF ReadInit
  <2>2. CASE ReadOpen(s)   BY <2>2 DEF ReadOpen
  <2>3. CASE ReadVideoCodec(s)   BY <2>3 DEF ReadVideoCodec
  <2>4. CASE ReadAudioCodec(s)   BY <2>4 DEF ReadAudioCodec
  <2>5. CASE ReadDevice(s)   BY <2>5 DEF ReadDevice, openSDL
  <2>6. CASE ReadPlaying(s)   BY <2>6 DEF ReadPlaying
  <2>7. CASE ReadLoop(s)   BY <2>7 DEF ReadLoop
  <2>8. CASE ReadSeek(s)   BY <2>8 DEF ReadSeek, MoveTo, KeyPositions
  <2>9. CASE ReadClearAudio(s)   BY <2>9 DEF ReadClearAudio
  <2>10. CASE ReadFlushAudio(s)   BY <2>10 DEF ReadFlushAudio
  <2>11. CASE ReadClearVideo(s)
    <3>1. rpc' \in [Sessions -> ReadLabels]   BY <2>11 DEF ReadClearVideo
    <3> QED   BY <2>11, <3>1 DEF ReadClearVideo
  <2>12. CASE ReadFlushVideo(s)   BY <2>12 DEF ReadFlushVideo
  <2>13. CASE ReadSeekClock(s)   BY <2>13 DEF ReadSeekClock, Upto
  <2>14. CASE ReadSeekDone(s)   BY <2>14 DEF ReadSeekDone
  <2>15. CASE ReadSeekTime(s)   BY <2>15 DEF ReadSeekTime
  <2>16. CASE ReadSeekPause(s)   BY <2>16 DEF ReadSeekPause
  <2>17. CASE ReadSeekNeed(s)   BY <2>17 DEF ReadSeekNeed
  <2>18. CASE ReadSeekUnpause(s)   BY <2>18 DEF ReadSeekUnpause
  <2>19. CASE ReadRoom(s)   BY <2>19 DEF ReadRoom
  <2>20. CASE ReadPacket(s)   BY <2>20 DEF ReadPacket
  <2>21. CASE ReadEof(s)   BY <2>21 DEF ReadEof
  <2>22. CASE ReadWaitQuit(s)   BY <2>22 DEF ReadWaitQuit
  <2>23. CASE ReadEndAudio(s)   BY <2>23 DEF ReadEndAudio
  <2>24. CASE ReadStopSelf(s)   BY <2>24 DEF ReadStopSelf
  <2>25. CASE ReadQuitSelf(s)   BY <2>25 DEF ReadQuitSelf
  <2>26. CASE ReadJoin(s)   BY <2>26 DEF ReadJoin
  <2>27. CASE ReadClose(s)   BY <2>27 DEF ReadClose
  <2>28. CASE ReadFree(s)   BY <2>28 DEF ReadFree
  <2>29. ASSUME NEW l, NEW f, OpenFails(s, l, f) PROVE ControlTypes'
    BY <2>29 DEF OpenFails
  <2>30. CASE ReadEndVideo(s)   BY <2>30 DEF ReadEndVideo
  <2>31. CASE ReadCrash(s)   BY <2>31 DEF ReadCrash
  <2> QED
    BY <1>3, <2>1, <2>2, <2>3, <2>4, <2>5, <2>6, <2>7, <2>8, <2>9, <2>10, <2>11,
       <2>12, <2>13, <2>14, <2>15, <2>16, <2>17, <2>18, <2>19, <2>20, <2>21, <2>22,
       <2>23, <2>24, <2>25, <2>26, <2>27, <2>28, <2>29, <2>30, <2>31
    DEF ReadThread
<1>4. ASSUME NEW s \in Sessions, VideoThread(s) PROVE ControlTypes'
  <2>1. CASE VideoStart(s)   BY <2>1 DEF VideoStart
  <2>2. CASE VideoLoop(s)   BY <2>2 DEF VideoLoop
  <2>3. CASE VideoTake(s)   BY <2>3 DEF VideoTake
  <2>4. CASE VideoEmpty(s)   BY <2>4 DEF VideoEmpty
  <2>5. CASE VideoDecode(s)   BY <2>5 DEF VideoDecode
  <2>6. CASE VideoSeekCheck(s)   BY <2>6 DEF VideoSeekCheck
  <2>7. CASE VideoSync(s)   BY <2>7 DEF VideoSync
  <2>8. CASE VideoShow(s)   BY <2>8 DEF VideoShow
  <2>9. CASE VideoRepause(s)   BY <2>9 DEF VideoRepause
  <2>10. CASE VideoClearNeed(s)   BY <2>10 DEF VideoClearNeed
  <2>11. CASE VideoExit(s)   BY <2>11 DEF VideoExit
  <2>12. CASE VideoFound(s)   BY <2>12 DEF VideoFound
  <2>13. CASE VideoCrash(s)   BY <2>13 DEF VideoCrash
  <2> QED
    BY <1>4, <2>1, <2>2, <2>3, <2>4, <2>5, <2>6, <2>7, <2>8, <2>9, <2>10, <2>11, <2>12, <2>13
    DEF VideoThread
<1>5. CASE AudioCallback
  <2>1. CASE AudioCheck   BY <2>1 DEF AudioCheck
  <2>2. CASE AudioClear   BY <2>2 DEF AudioClear
  <2>3. CASE AudioTake   BY <2>3 DEF AudioTake
  <2>4. CASE AudioSeekCheck   BY <2>4 DEF AudioSeekCheck, AudioDecoded
  <2>5. CASE AudioFound   BY <2>5 DEF AudioFound, AudioDecoded
  <2>6. CASE AudioCrash   BY <2>6 DEF AudioCrash
  <2> QED
    BY <1>5, <2>1, <2>2, <2>3, <2>4, <2>5, <2>6
    DEF AudioCallback
<1>6. CASE Tick   BY <1>6 DEF Tick
<1> QED   BY <1>1, <1>2, <1>3, <1>4, <1>5, <1>6 DEF Next

\* Calls of startPlay stay within the bound.
LEMMA StartsInvStep == ASSUME TypeInv, Next PROVE StartsInv'
<1> USE ConstantsAssumption DEF TypeInv, TypeOK, StartsInv, ReadAt, ReadGoto, VideoAt, VideoGoto,
             ReadLabels, UiLabels, VideoLabels, AudioLabels,
             controlVars, finishVars, seekVars, clockVars, streamVars, queueVars, fileVars,
             placeVars, readVars, videoVars, uiVars, playerVars, threadVars, otherThreads
<1>1. CASE UiCalls
  <2>1. CASE UiStop   BY <2>1 DEF UiStop, UiCall, StopBody
  <2>2. CASE UiOpen   BY <2>2 DEF UiOpen, UiCall, StopBody
  <2>3. CASE UiReplay   BY <2>3 DEF UiReplay, UiCall, StopBody
  <2>4. CASE UiPlay   BY <2>4 DEF UiPlay, UiCall, PlayFlags
  <2>5. CASE UiPause   BY <2>5 DEF UiPause, UiCall
  <2>6. CASE UiSeek   BY <2>6 DEF UiSeek, UiCall
  <2>7. CASE UiSpeed   BY <2>7 DEF UiSpeed, UiCall
  <2> QED
    BY <1>1, <2>1, <2>2, <2>3, <2>4, <2>5, <2>6, <2>7
    DEF UiCalls
<1>2. CASE UiProceeds
  <2>1. CASE UiStopReturns   BY <2>1 DEF UiStopReturns
  <2>2. CASE startPlay   BY <2>2 DEF startPlay, Sessions
  <2>3. CASE playState   BY <2>3 DEF playState
  <2>4. CASE pauseState   BY <2>4 DEF pauseState
  <2>5. CASE setSpeed   BY <2>5 DEF setSpeed, openSDL
  <2>6. CASE UiSpeedPlay   BY <2>6 DEF UiSpeedPlay, PlayFlags
  <2>7. CASE UiSeekRequest   BY <2>7 DEF UiSeekRequest
  <2> QED
    BY <1>2, <2>1, <2>2, <2>3, <2>4, <2>5, <2>6, <2>7
    DEF UiProceeds
<1>3. ASSUME NEW s \in Sessions, ReadThread(s) PROVE StartsInv'
  <2>1. CASE ReadInit(s)   BY <2>1 DEF ReadInit
  <2>2. CASE ReadOpen(s)   BY <2>2 DEF ReadOpen
  <2>3. CASE ReadVideoCodec(s)   BY <2>3 DEF ReadVideoCodec
  <2>4. CASE ReadAudioCodec(s)   BY <2>4 DEF ReadAudioCodec
  <2>5. CASE ReadDevice(s)   BY <2>5 DEF ReadDevice, openSDL
  <2>6. CASE ReadPlaying(s)   BY <2>6 DEF ReadPlaying
  <2>7. CASE ReadLoop(s)   BY <2>7 DEF ReadLoop
  <2>8. CASE ReadSeek(s)   BY <2>8 DEF ReadSeek, MoveTo, KeyPositions
  <2>9. CASE ReadClearAudio(s)   BY <2>9 DEF ReadClearAudio
  <2>10. CASE ReadFlushAudio(s)   BY <2>10 DEF ReadFlushAudio
  <2>11. CASE ReadClearVideo(s)   BY <2>11 DEF ReadClearVideo
  <2>12. CASE ReadFlushVideo(s)   BY <2>12 DEF ReadFlushVideo
  <2>13. CASE ReadSeekClock(s)   BY <2>13 DEF ReadSeekClock, Upto
  <2>14. CASE ReadSeekDone(s)   BY <2>14 DEF ReadSeekDone
  <2>15. CASE ReadSeekTime(s)   BY <2>15 DEF ReadSeekTime
  <2>16. CASE ReadSeekPause(s)   BY <2>16 DEF ReadSeekPause
  <2>17. CASE ReadSeekNeed(s)   BY <2>17 DEF ReadSeekNeed
  <2>18. CASE ReadSeekUnpause(s)   BY <2>18 DEF ReadSeekUnpause
  <2>19. CASE ReadRoom(s)   BY <2>19 DEF ReadRoom
  <2>20. CASE ReadPacket(s)   BY <2>20 DEF ReadPacket
  <2>21. CASE ReadEof(s)   BY <2>21 DEF ReadEof
  <2>22. CASE ReadWaitQuit(s)   BY <2>22 DEF ReadWaitQuit
  <2>23. CASE ReadEndAudio(s)   BY <2>23 DEF ReadEndAudio
  <2>24. CASE ReadStopSelf(s)   BY <2>24 DEF ReadStopSelf
  <2>25. CASE ReadQuitSelf(s)   BY <2>25 DEF ReadQuitSelf
  <2>26. CASE ReadJoin(s)   BY <2>26 DEF ReadJoin
  <2>27. CASE ReadClose(s)   BY <2>27 DEF ReadClose
  <2>28. CASE ReadFree(s)   BY <2>28 DEF ReadFree
  <2>29. ASSUME NEW l, NEW f, OpenFails(s, l, f) PROVE StartsInv'
    BY <2>29 DEF OpenFails
  <2>30. CASE ReadEndVideo(s)   BY <2>30 DEF ReadEndVideo
  <2>31. CASE ReadCrash(s)   BY <2>31 DEF ReadCrash
  <2> QED
    BY <1>3, <2>1, <2>2, <2>3, <2>4, <2>5, <2>6, <2>7, <2>8, <2>9, <2>10, <2>11,
       <2>12, <2>13, <2>14, <2>15, <2>16, <2>17, <2>18, <2>19, <2>20, <2>21, <2>22,
       <2>23, <2>24, <2>25, <2>26, <2>27, <2>28, <2>29, <2>30, <2>31
    DEF ReadThread
<1>4. ASSUME NEW s \in Sessions, VideoThread(s) PROVE StartsInv'
  <2>1. CASE VideoStart(s)   BY <2>1 DEF VideoStart
  <2>2. CASE VideoLoop(s)   BY <2>2 DEF VideoLoop
  <2>3. CASE VideoTake(s)   BY <2>3 DEF VideoTake
  <2>4. CASE VideoEmpty(s)   BY <2>4 DEF VideoEmpty
  <2>5. CASE VideoDecode(s)   BY <2>5 DEF VideoDecode
  <2>6. CASE VideoSeekCheck(s)   BY <2>6 DEF VideoSeekCheck
  <2>7. CASE VideoSync(s)   BY <2>7 DEF VideoSync
  <2>8. CASE VideoShow(s)   BY <2>8 DEF VideoShow
  <2>9. CASE VideoRepause(s)   BY <2>9 DEF VideoRepause
  <2>10. CASE VideoClearNeed(s)   BY <2>10 DEF VideoClearNeed
  <2>11. CASE VideoExit(s)   BY <2>11 DEF VideoExit
  <2>12. CASE VideoFound(s)   BY <2>12 DEF VideoFound
  <2>13. CASE VideoCrash(s)   BY <2>13 DEF VideoCrash
  <2> QED
    BY <1>4, <2>1, <2>2, <2>3, <2>4, <2>5, <2>6, <2>7, <2>8, <2>9, <2>10, <2>11, <2>12, <2>13
    DEF VideoThread
<1>5. CASE AudioCallback
  <2>1. CASE AudioCheck   BY <2>1 DEF AudioCheck
  <2>2. CASE AudioClear   BY <2>2 DEF AudioClear
  <2>3. CASE AudioTake   BY <2>3 DEF AudioTake
  <2>4. CASE AudioSeekCheck   BY <2>4 DEF AudioSeekCheck, AudioDecoded
  <2>5. CASE AudioFound   BY <2>5 DEF AudioFound, AudioDecoded
  <2>6. CASE AudioCrash   BY <2>6 DEF AudioCrash
  <2> QED
    BY <1>5, <2>1, <2>2, <2>3, <2>4, <2>5, <2>6
    DEF AudioCallback
<1>6. CASE Tick   BY <1>6 DEF Tick
<1> QED   BY <1>1, <1>2, <1>3, <1>4, <1>5, <1>6 DEF Next

\* Only packets with a time are decoded.
LEMMA DecodesPacketsStep == ASSUME TypeInv, Next PROVE DecodesPackets'
<1> USE ConstantsAssumption DEF TypeInv, TypeOK, ControlTypes, DecodesPackets, ReadAt, ReadGoto, VideoAt, VideoGoto,
             ReadLabels, UiLabels, VideoLabels, AudioLabels,
             controlVars, finishVars, seekVars, clockVars, streamVars, queueVars, fileVars,
             placeVars, readVars, videoVars, uiVars, playerVars, threadVars, otherThreads
<1>1. CASE UiCalls
  <2>1. CASE UiStop   BY <2>1 DEF UiStop, UiCall, StopBody
  <2>2. CASE UiOpen   BY <2>2 DEF UiOpen, UiCall, StopBody
  <2>3. CASE UiReplay   BY <2>3 DEF UiReplay, UiCall, StopBody
  <2>4. CASE UiPlay   BY <2>4 DEF UiPlay, UiCall, PlayFlags
  <2>5. CASE UiPause   BY <2>5 DEF UiPause, UiCall
  <2>6. CASE UiSeek   BY <2>6 DEF UiSeek, UiCall
  <2>7. CASE UiSpeed   BY <2>7 DEF UiSpeed, UiCall
  <2> QED
    BY <1>1, <2>1, <2>2, <2>3, <2>4, <2>5, <2>6, <2>7
    DEF UiCalls
<1>2. CASE UiProceeds
  <2>1. CASE UiStopReturns   BY <2>1 DEF UiStopReturns
  <2>2. CASE startPlay   BY <2>2 DEF startPlay, StartsInv, Sessions
  <2>3. CASE playState   BY <2>3 DEF playState
  <2>4. CASE pauseState   BY <2>4 DEF pauseState
  <2>5. CASE setSpeed   BY <2>5 DEF setSpeed, openSDL
  <2>6. CASE UiSpeedPlay   BY <2>6 DEF UiSpeedPlay, PlayFlags
  <2>7. CASE UiSeekRequest   BY <2>7 DEF UiSeekRequest
  <2> QED
    BY <1>2, <2>1, <2>2, <2>3, <2>4, <2>5, <2>6, <2>7
    DEF UiProceeds
<1>3. ASSUME NEW s \in Sessions, ReadThread(s) PROVE DecodesPackets'
  <2>1. CASE ReadInit(s)   BY <2>1 DEF ReadInit
  <2>2. CASE ReadOpen(s)   BY <2>2 DEF ReadOpen
  <2>3. CASE ReadVideoCodec(s)   BY <2>3 DEF ReadVideoCodec
  <2>4. CASE ReadAudioCodec(s)   BY <2>4 DEF ReadAudioCodec
  <2>5. CASE ReadDevice(s)   BY <2>5 DEF ReadDevice, openSDL
  <2>6. CASE ReadPlaying(s)   BY <2>6 DEF ReadPlaying
  <2>7. CASE ReadLoop(s)   BY <2>7 DEF ReadLoop
  <2>8. CASE ReadSeek(s)   BY <2>8 DEF ReadSeek, MoveTo, KeyPositions
  <2>9. CASE ReadClearAudio(s)   BY <2>9 DEF ReadClearAudio
  <2>10. CASE ReadFlushAudio(s)   BY <2>10 DEF ReadFlushAudio
  <2>11. CASE ReadClearVideo(s)   BY <2>11 DEF ReadClearVideo
  <2>12. CASE ReadFlushVideo(s)   BY <2>12 DEF ReadFlushVideo
  <2>13. CASE ReadSeekClock(s)   BY <2>13 DEF ReadSeekClock, Upto
  <2>14. CASE ReadSeekDone(s)   BY <2>14 DEF ReadSeekDone
  <2>15. CASE ReadSeekTime(s)   BY <2>15 DEF ReadSeekTime
  <2>16. CASE ReadSeekPause(s)   BY <2>16 DEF ReadSeekPause
  <2>17. CASE ReadSeekNeed(s)   BY <2>17 DEF ReadSeekNeed
  <2>18. CASE ReadSeekUnpause(s)   BY <2>18 DEF ReadSeekUnpause
  <2>19. CASE ReadRoom(s)   BY <2>19 DEF ReadRoom
  <2>20. CASE ReadPacket(s)   BY <2>20 DEF ReadPacket
  <2>21. CASE ReadEof(s)   BY <2>21 DEF ReadEof
  <2>22. CASE ReadWaitQuit(s)   BY <2>22 DEF ReadWaitQuit
  <2>23. CASE ReadEndAudio(s)   BY <2>23 DEF ReadEndAudio
  <2>24. CASE ReadStopSelf(s)   BY <2>24 DEF ReadStopSelf
  <2>25. CASE ReadQuitSelf(s)   BY <2>25 DEF ReadQuitSelf
  <2>26. CASE ReadJoin(s)   BY <2>26 DEF ReadJoin
  <2>27. CASE ReadClose(s)   BY <2>27 DEF ReadClose
  <2>28. CASE ReadFree(s)   BY <2>28 DEF ReadFree
  <2>29. ASSUME NEW l, NEW f, OpenFails(s, l, f) PROVE DecodesPackets'
    BY <2>29 DEF OpenFails
  <2>30. CASE ReadEndVideo(s)   BY <2>30 DEF ReadEndVideo
  <2>31. CASE ReadCrash(s)   BY <2>31 DEF ReadCrash
  <2> QED
    BY <1>3, <2>1, <2>2, <2>3, <2>4, <2>5, <2>6, <2>7, <2>8, <2>9, <2>10, <2>11,
       <2>12, <2>13, <2>14, <2>15, <2>16, <2>17, <2>18, <2>19, <2>20, <2>21, <2>22,
       <2>23, <2>24, <2>25, <2>26, <2>27, <2>28, <2>29, <2>30, <2>31
    DEF ReadThread
<1>4. ASSUME NEW s \in Sessions, VideoThread(s) PROVE DecodesPackets'
  <2>1. CASE VideoStart(s)   BY <2>1 DEF VideoStart
  <2>2. CASE VideoLoop(s)   BY <2>2 DEF VideoLoop
  <2>3. CASE VideoTake(s)
    <3>1. CASE mVideoPacktList = <<>>
      BY <2>3, <3>1 DEF VideoTake, PacketTypes
    <3>2. CASE mVideoPacktList # <<>>
      <4>1. Head(mVideoPacktList) \in Packet
        BY <3>2, HeadTailProperties DEF PacketTypes
      <4>2. ~IsFlush(Head(mVideoPacktList)) => Head(mVideoPacktList).pts \in Nat
        BY <4>1 DEF IsFlush, Packet
      <4> QED   BY <2>3, <3>2, <4>2 DEF VideoTake, PacketTypes
    <3> QED   BY <3>1, <3>2
  <2>4. CASE VideoEmpty(s)   BY <2>4 DEF VideoEmpty
  <2>5. CASE VideoDecode(s)   BY <2>5 DEF VideoDecode
  <2>6. CASE VideoSeekCheck(s)   BY <2>6 DEF VideoSeekCheck
  <2>7. CASE VideoSync(s)   BY <2>7 DEF VideoSync
  <2>8. CASE VideoShow(s)   BY <2>8 DEF VideoShow
  <2>9. CASE VideoRepause(s)   BY <2>9 DEF VideoRepause
  <2>10. CASE VideoClearNeed(s)   BY <2>10 DEF VideoClearNeed
  <2>11. CASE VideoExit(s)   BY <2>11 DEF VideoExit
  <2>12. CASE VideoFound(s)   BY <2>12 DEF VideoFound
  <2>13. CASE VideoCrash(s)   BY <2>13 DEF VideoCrash
  <2> QED
    BY <1>4, <2>1, <2>2, <2>3, <2>4, <2>5, <2>6, <2>7, <2>8, <2>9, <2>10, <2>11, <2>12, <2>13
    DEF VideoThread
<1>5. CASE AudioCallback
  <2>1. CASE AudioCheck   BY <2>1 DEF AudioCheck
  <2>2. CASE AudioClear   BY <2>2 DEF AudioClear
  <2>3. CASE AudioTake   BY <2>3 DEF AudioTake
  <2>4. CASE AudioSeekCheck   BY <2>4 DEF AudioSeekCheck, AudioDecoded
  <2>5. CASE AudioFound   BY <2>5 DEF AudioFound, AudioDecoded
  <2>6. CASE AudioCrash   BY <2>6 DEF AudioCrash
  <2> QED
    BY <1>5, <2>1, <2>2, <2>3, <2>4, <2>5, <2>6
    DEF AudioCallback
<1>6. CASE Tick   BY <1>6 DEF Tick
<1> QED   BY <1>1, <1>2, <1>3, <1>4, <1>5, <1>6 DEF Next

\* Every step keeps the types and the two facts they depend on.
LEMMA NextTypeInv == TypeInv /\ [Next]_vars => TypeInv'
<1>1. ASSUME TypeInv, Next PROVE TypeInv'
  BY <1>1, FlagTypesStep, ClockTypesStep, PacketTypesStep, ControlTypesStep,
     StartsInvStep, DecodesPacketsStep DEF TypeInv, TypeOK
<1>2. ASSUME TypeInv, UNCHANGED vars PROVE TypeInv'
  BY <1>2 DEF TypeInv, TypeOK, FlagTypes, ClockTypes, PacketTypes, ControlTypes,
     StartsInv, DecodesPackets, vars, controlVars, finishVars, seekVars, clockVars,
     streamVars, queueVars, fileVars, placeVars, readVars, videoVars, uiVars, playerVars, threadVars
<1> QED   BY <1>1, <1>2

\* The invariant holds in every reachable state.
LEMMA TypeInvHolds == Spec => []TypeInv
BY InitTypeInv, NextTypeInv, PTL DEF Spec

\* Every field of the player, both queues and the place of every thread keep
\* their types, whatever the user does and whatever call fails.
THEOREM TypeCorrect == Spec => []TypeOK
<1>1. TypeInv => TypeOK   BY DEF TypeInv
<1> QED   BY TypeInvHolds, <1>1, PTL
=============================================================================
