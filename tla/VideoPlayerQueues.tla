--------------------------- MODULE VideoPlayerQueues ---------------------------
(***************************************************************************)
(* Reading ahead is limited: QueueBound for every file, every bound and    *)
(* every number of read threads at once.                                   *)
(*                                                                         *)
(* The test of the queue's length and the push are two steps of a read     *)
(* thread, and each of the other read threads may be between its own two   *)
(* steps.  So the invariant counts the packet of every read thread that    *)
(* is past its test as if it were in the queue already.                    *)
(***************************************************************************)
EXTENDS VideoPlayerTypes, FiniteSetTheorems

\* The read threads about to push a packet: those at one of the places `labels`.
Pushing(labels) == {s \in Sessions : rpc[s] \in labels}

Room(queue, max, labels) == Len(queue) + Cardinality(Pushing(labels)) <= max + MaxStarts

VideoPush == {"read", "flushVideo"}
AudioPush == {"read", "flushAudio"}

RoomInv ==
  /\ Room(mVideoPacktList, MaxVideo, VideoPush)
  /\ Room(mAudioPacktList, MaxAudio, AudioPush)

\* A queue is left alone, cleared or has lost its head.
Shorter(queue, next) == next = queue \/ next = <<>> \/ (queue # <<>> /\ next = Tail(queue))

\* A step that brings no read thread to a push and pushes nothing.
Quiet ==
  /\ \A s \in Sessions : rpc'[s] \in VideoPush \cup AudioPush => rpc[s] = rpc'[s]
  /\ Shorter(mVideoPacktList, mVideoPacktList')
  /\ Shorter(mAudioPacktList, mAudioPacktList')

\* At most every read thread is about to push.
LEMMA PushingCardinality ==
  ASSUME NEW labels
  PROVE  IsFiniteSet(Pushing(labels)) /\ Cardinality(Pushing(labels)) \in 0..MaxStarts
<1>1. IsFiniteSet(Sessions) /\ Cardinality(Sessions) = MaxStarts
  BY ConstantsAssumption, FS_Interval DEF Sessions
<1>2. Pushing(labels) \in SUBSET Sessions   BY DEF Pushing
<1>3. /\ IsFiniteSet(Pushing(labels))
      /\ Cardinality(Pushing(labels)) <= Cardinality(Sessions)
  BY <1>1, <1>2, FS_Subset
<1>4. Cardinality(Pushing(labels)) \in Nat   BY <1>3, FS_CardinalityType
<1> QED   BY <1>1, <1>3, <1>4, ConstantsAssumption

\* The same of the read threads after a step.
LEMMA PushingCardinalityNext ==
  ASSUME NEW labels
  PROVE  IsFiniteSet(Pushing(labels)') /\ Cardinality(Pushing(labels)') \in 0..MaxStarts
<1>1. IsFiniteSet(Sessions) /\ Cardinality(Sessions) = MaxStarts
  BY ConstantsAssumption, FS_Interval DEF Sessions
<1>2. Pushing(labels)' \in SUBSET Sessions   BY DEF Pushing
<1>3. /\ IsFiniteSet(Pushing(labels)')
      /\ Cardinality(Pushing(labels)') <= Cardinality(Sessions)
  BY <1>1, <1>2, FS_Subset
<1>4. Cardinality(Pushing(labels)') \in Nat   BY <1>3, FS_CardinalityType
<1> QED   BY <1>1, <1>3, <1>4, ConstantsAssumption

\* What is left of a queue is no longer than it was.
LEMMA ShorterLength ==
  ASSUME NEW queue \in Seq(Packet), NEW next, Shorter(queue, next)
  PROVE  Len(next) \in 0..Len(queue)
<1>1. Len(queue) \in Nat   BY LenProperties
<1>2. CASE next = <<>>   BY <1>1, <1>2, EmptySeq
<1>3. CASE queue # <<>> /\ next = Tail(queue)
  <2>1. Len(next) = Len(queue) - 1 /\ Len(next) \in Nat
    BY <1>3, HeadTailProperties, LenProperties
  <2> QED   BY <1>1, <2>1
<1> QED   BY <1>1, <1>2, <1>3 DEF Shorter

\* A queue that does not grow keeps its room when no more threads push.
LEMMA RoomKept ==
  ASSUME TypeOK, NEW queue, NEW next, NEW max \in Nat, NEW labels,
         queue \in Seq(Packet), Len(next) \in 0..Len(queue),
         \A s \in Sessions : rpc'[s] \in labels => rpc[s] \in labels,
         Room(queue, max, labels)
  PROVE  Len(next) + Cardinality(Pushing(labels)') <= max + MaxStarts
<1>1. Pushing(labels)' \in SUBSET Pushing(labels)   BY DEF Pushing
<1>2. Cardinality(Pushing(labels)') <= Cardinality(Pushing(labels))
  BY <1>1, PushingCardinality, FS_Subset
<1>3. Len(queue) \in Nat   BY LenProperties
<1> QED   BY <1>2, <1>3, PushingCardinality, PushingCardinalityNext, ConstantsAssumption DEF Room

\* A queue that had no more than its maximum has room whoever pushes next.
LEMMA RoomWhenShort ==
  ASSUME NEW next, NEW max \in Nat, NEW labels, Len(next) \in 0..max
  PROVE  Len(next) + Cardinality(Pushing(labels)') <= max + MaxStarts
BY PushingCardinalityNext, ConstantsAssumption

\* The push of a thread that was counted takes the place counted for it.
LEMMA RoomPushed ==
  ASSUME TypeOK, NEW queue \in Seq(Packet), NEW next, NEW max \in Nat, NEW labels,
         NEW s \in Sessions, rpc[s] \in labels, rpc'[s] \notin labels,
         \A r \in Sessions \ {s} : rpc'[r] = rpc[r],
         Len(next) \in 0..(Len(queue) + 1),
         Room(queue, max, labels)
  PROVE  Len(next) + Cardinality(Pushing(labels)') <= max + MaxStarts
<1>1. Pushing(labels)' = Pushing(labels) \ {s} /\ s \in Pushing(labels)
  BY DEF Pushing
<1>2. Cardinality(Pushing(labels)') = Cardinality(Pushing(labels)) - 1
  BY <1>1, PushingCardinality, FS_RemoveElement
<1>3. Len(queue) \in Nat   BY LenProperties
<1> QED   BY <1>2, <1>3, PushingCardinality, ConstantsAssumption DEF Room

\* A quiet step keeps the room of both queues.
LEMMA QuietRoom == ASSUME TypeInv, RoomInv, Quiet PROVE RoomInv'
<1> USE DEF TypeInv, TypeOK, PacketTypes
<1>1. /\ Len(mVideoPacktList') \in 0..Len(mVideoPacktList)
      /\ Len(mAudioPacktList') \in 0..Len(mAudioPacktList)
  BY ShorterLength DEF Quiet
<1>2. \A s \in Sessions : /\ rpc'[s] \in VideoPush => rpc[s] \in VideoPush
                          /\ rpc'[s] \in AudioPush => rpc[s] \in AudioPush
  BY DEF Quiet
<1>3. Len(mVideoPacktList') + Cardinality(Pushing(VideoPush)') <= MaxVideo + MaxStarts
  BY <1>1, <1>2, RoomKept, ConstantsAssumption DEF RoomInv
<1>4. Len(mAudioPacktList') + Cardinality(Pushing(AudioPush)') <= MaxAudio + MaxStarts
  BY <1>1, <1>2, RoomKept, ConstantsAssumption DEF RoomInv
<1> QED   BY <1>3, <1>4 DEF RoomInv, Room, VideoPush, AudioPush, Pushing

\* The steps that are not quiet: a read thread finds room, or goes through the
\* clearing and pushing of a seek, or pushes the packet it has read.
ReadPushes(s) ==
  \/ ReadRoom(s) \/ ReadPacket(s)
  \/ ReadClearAudio(s) \/ ReadFlushAudio(s) \/ ReadClearVideo(s) \/ ReadFlushVideo(s)

\* Every other step is quiet.
LEMMA OthersQuiet ==
  ASSUME TypeInv, Next, \A s \in Sessions : ~ReadPushes(s)
  PROVE  Quiet
<1> USE DEF TypeInv, TypeOK, ControlTypes, Quiet, Shorter, VideoPush, AudioPush,
             ReadAt, ReadGoto, VideoAt, VideoGoto,
             controlVars, finishVars, seekVars, clockVars, streamVars, queueVars, fileVars,
             placeVars, readVars, videoVars, uiVars, playerVars, threadVars, otherThreads
<1>1. CASE UiCalls
  <2>1. CASE UiStop   BY <2>1 DEF UiStop, UiCall, StopBody
  <2>2. CASE UiOpen   BY <2>2 DEF UiOpen, UiCall, StopBody
  <2>3. CASE UiReplay   BY <2>3 DEF UiReplay, UiCall, StopBody
  <2>4. CASE UiPlay   BY <2>4 DEF UiPlay, UiCall, PlayFlags
  <2>5. CASE UiPause   BY <2>5 DEF UiPause, UiCall
  <2>6. CASE UiSeek   BY <2>6 DEF UiSeek, UiCall
  <2>7. CASE UiSpeed   BY <2>7 DEF UiSpeed, UiCall
  <2> QED
    BY <1>1, <2>1, <2>2, <2>3, <2>4, <2>5, <2>6, <2>7
    DEF UiCalls
<1>2. CASE UiProceeds
  <2>1. CASE UiStopReturns   BY <2>1 DEF UiStopReturns
  <2>2. CASE startPlay   BY <2>2 DEF startPlay, Sessions
  <2>3. CASE playState   BY <2>3 DEF playState
  <2>4. CASE pauseState   BY <2>4 DEF pauseState
  <2>5. CASE setSpeed   BY <2>5 DEF setSpeed, openSDL
  <2>6. CASE UiSpeedPlay   BY <2>6 DEF UiSpeedPlay, PlayFlags
  <2>7. CASE UiSeekRequest   BY <2>7 DEF UiSeekRequest
  <2> QED
    BY <1>2, <2>1, <2>2, <2>3, <2>4, <2>5, <2>6, <2>7
    DEF UiProceeds
<1>3. ASSUME NEW s \in Sessions, ReadThread(s) PROVE Quiet
  <2>1. CASE ReadInit(s)   BY <2>1 DEF ReadInit
  <2>2. CASE ReadOpen(s)   BY <2>2 DEF ReadOpen
  <2>3. CASE ReadVideoCodec(s)   BY <2>3 DEF ReadVideoCodec
  <2>4. CASE ReadAudioCodec(s)   BY <2>4 DEF ReadAudioCodec
  <2>5. CASE ReadDevice(s)   BY <2>5 DEF ReadDevice, openSDL
  <2>6. CASE ReadPlaying(s)   BY <2>6 DEF ReadPlaying
  <2>7. CASE ReadLoop(s)   BY <2>7 DEF ReadLoop
  <2>8. CASE ReadSeek(s)   BY <2>8 DEF ReadSeek, MoveTo, KeyPositions
  <2>9. CASE ReadSeekClock(s)   BY <2>9 DEF ReadSeekClock, Upto
  <2>10. CASE ReadSeekDone(s)   BY <2>10 DEF ReadSeekDone
  <2>11. CASE ReadSeekTime(s)   BY <2>11 DEF ReadSeekTime
  <2>12. CASE ReadSeekPause(s)   BY <2>12 DEF ReadSeekPause
  <2>13. CASE ReadSeekNeed(s)   BY <2>13 DEF ReadSeekNeed
  <2>14. CASE ReadSeekUnpause(s)   BY <2>14 DEF ReadSeekUnpause
  <2>15. CASE ReadEof(s)   BY <2>15 DEF ReadEof
  <2>16. CASE ReadWaitQuit(s)   BY <2>16 DEF ReadWaitQuit
  <2>17. CASE ReadEndAudio(s)   BY <2>17 DEF ReadEndAudio
  <2>18. CASE ReadStopSelf(s)   BY <2>18 DEF ReadStopSelf
  <2>19. CASE ReadQuitSelf(s)   BY <2>19 DEF ReadQuitSelf
  <2>20. CASE ReadJoin(s)   BY <2>20 DEF ReadJoin
  <2>21. CASE ReadClose(s)   BY <2>21 DEF ReadClose
  <2>22. CASE ReadFree(s)   BY <2>22 DEF ReadFree
  <2>23. ASSUME NEW l \in {"open", "videoCodec", "audioCodec"}, NEW f, OpenFails(s, l, f)
        PROVE  Quiet
    BY <2>23 DEF OpenFails
  <2>24. CASE ReadEndVideo(s)   BY <2>24 DEF ReadEndVideo
  <2>25. CASE ReadCrash(s)   BY <2>25 DEF ReadCrash
  <2> QED
    BY <1>3, <2>1, <2>2, <2>3, <2>4, <2>5, <2>6, <2>7, <2>8, <2>9, <2>10, <2>11,
       <2>12, <2>13, <2>14, <2>15, <2>16, <2>17, <2>18, <2>19, <2>20, <2>21, <2>22,
       <2>23, <2>24, <2>25
    DEF ReadThread, ReadPushes
<1>4. ASSUME NEW s \in Sessions, VideoThread(s) PROVE Quiet
  <2>1. CASE VideoStart(s)   BY <2>1 DEF VideoStart
  <2>2. CASE VideoLoop(s)   BY <2>2 DEF VideoLoop
  <2>3. CASE VideoTake(s)   BY <2>3 DEF VideoTake
  <2>4. CASE VideoEmpty(s)   BY <2>4 DEF VideoEmpty
  <2>5. CASE VideoDecode(s)   BY <2>5 DEF VideoDecode
  <2>6. CASE VideoSeekCheck(s)   BY <2>6 DEF VideoSeekCheck
  <2>7. CASE VideoSync(s)   BY <2>7 DEF VideoSync
  <2>8. CASE VideoShow(s)   BY <2>8 DEF VideoShow
  <2>9. CASE VideoRepause(s)   BY <2>9 DEF VideoRepause
  <2>10. CASE VideoClearNeed(s)   BY <2>10 DEF VideoClearNeed
  <2>11. CASE VideoExit(s)   BY <2>11 DEF VideoExit
  <2>12. CASE VideoFound(s)   BY <2>12 DEF VideoFound
  <2>13. CASE VideoCrash(s)   BY <2>13 DEF VideoCrash
  <2> QED
    BY <1>4, <2>1, <2>2, <2>3, <2>4, <2>5, <2>6, <2>7, <2>8, <2>9, <2>10, <2>11, <2>12, <2>13
    DEF VideoThread
<1>5. CASE AudioCallback
  <2>1. CASE AudioCheck   BY <2>1 DEF AudioCheck
  <2>2. CASE AudioClear   BY <2>2 DEF AudioClear
  <2>3. CASE AudioTake   BY <2>3 DEF AudioTake
  <2>4. CASE AudioSeekCheck   BY <2>4 DEF AudioSeekCheck, AudioDecoded
  <2>5. CASE AudioFound   BY <2>5 DEF AudioFound, AudioDecoded
  <2>6. CASE AudioCrash   BY <2>6 DEF AudioCrash
  <2> QED
    BY <1>5, <2>1, <2>2, <2>3, <2>4, <2>5, <2>6
    DEF AudioCallback
<1>6. CASE Tick   BY <1>6 DEF Tick
<1> QED   BY <1>1, <1>2, <1>3, <1>4, <1>5, <1>6 DEF Next

\* A read thread that finds room, pushes, or clears a queue and pushes the FLUSH
\* packet, keeps the room of both queues.
LEMMA PushesRoom ==
  ASSUME TypeInv, RoomInv, NEW s \in Sessions, ReadPushes(s)
  PROVE  RoomInv'
<1> DEFINE VideoRoom ==
      Len(mVideoPacktList') + Cardinality(Pushing(VideoPush)') <= MaxVideo + MaxStarts
           AudioRoom ==
      Len(mAudioPacktList') + Cardinality(Pushing(AudioPush)') <= MaxAudio + MaxStarts
<1>v. Room(mVideoPacktList, MaxVideo, VideoPush) /\ Room(mAudioPacktList, MaxAudio, AudioPush)
  BY DEF RoomInv
<1>t. /\ TypeOK /\ MaxVideo \in Nat /\ MaxAudio \in Nat
      /\ mVideoPacktList \in Seq(Packet) /\ mAudioPacktList \in Seq(Packet)
      /\ rpc \in [Sessions -> ReadLabels]
  BY ConstantsAssumption DEF TypeInv, TypeOK, PacketTypes, ControlTypes
<1>n. Len(mVideoPacktList) \in Nat /\ Len(mAudioPacktList) \in Nat   BY <1>t, LenProperties
<1>a. \A packet : /\ Len(Append(mVideoPacktList, packet)) = Len(mVideoPacktList) + 1
                  /\ Len(Append(mAudioPacktList, packet)) = Len(mAudioPacktList) + 1
  BY <1>t
<1> USE DEF ReadAt, ReadGoto, VideoPush, AudioPush,
             controlVars, finishVars, seekVars, clockVars, streamVars, queueVars, fileVars,
             placeVars, readVars, videoVars, uiVars, playerVars, threadVars, otherThreads
<1>1. CASE ReadRoom(s)
  <2>1. UNCHANGED <<mVideoPacktList, mAudioPacktList>>   BY <1>1 DEF ReadRoom
  <2>l. /\ Len(mVideoPacktList') \in 0..Len(mVideoPacktList)
        /\ Len(mAudioPacktList') \in 0..Len(mAudioPacktList)
    BY <1>n, <2>1
  <2>2. CASE QueueFull \/ mIsPause
    <3>1. rpc' = [rpc EXCEPT ![s] = "loop"]   BY <1>1, <2>2 DEF ReadRoom
    <3>2. \A r \in Sessions : /\ rpc'[r] \in VideoPush => rpc[r] \in VideoPush
                              /\ rpc'[r] \in AudioPush => rpc[r] \in AudioPush
      BY <1>t, <3>1
    <3> HIDE DEF VideoPush, AudioPush
    <3>3. VideoRoom /\ AudioRoom   BY <1>v, <1>t, <2>l, <3>2, RoomKept
    <3> QED   BY <3>3 DEF RoomInv, Room, Pushing, VideoPush, AudioPush
  <2>3. CASE ~QueueFull
    <3>1. Len(mVideoPacktList') \in 0..MaxVideo /\ Len(mAudioPacktList') \in 0..MaxAudio
      BY <1>t, <1>n, <2>1, <2>3 DEF QueueFull
    <3> HIDE DEF VideoPush, AudioPush
    <3>2. VideoRoom /\ AudioRoom   BY <1>t, <3>1, RoomWhenShort
    <3> QED   BY <3>2 DEF RoomInv, Room, Pushing, VideoPush, AudioPush
  <2> QED   BY <2>2, <2>3
<1>2. CASE ReadPacket(s)
  <2>1. rpc[s] = "read" /\ rpc' = [rpc EXCEPT ![s] = "loop"]   BY <1>2 DEF ReadPacket
  <2>2. /\ rpc'[s] = "loop"
        /\ \A r \in Sessions \ {s} : rpc'[r] = rpc[r]
    BY <1>t, <2>1
  <2>3. /\ Len(mVideoPacktList') \in 0..(Len(mVideoPacktList) + 1)
        /\ Len(mAudioPacktList') \in 0..(Len(mAudioPacktList) + 1)
    BY <1>2, <1>a, <1>n DEF ReadPacket
  <2>4. /\ rpc[s] \in VideoPush /\ rpc'[s] \notin VideoPush
        /\ rpc[s] \in AudioPush /\ rpc'[s] \notin AudioPush
    BY <2>1, <2>2
  <2> HIDE DEF VideoPush, AudioPush
  <2>5. VideoRoom   BY <1>v, <1>t, <2>2, <2>3, <2>4, RoomPushed
  <2>6. AudioRoom   BY <1>v, <1>t, <2>2, <2>3, <2>4, RoomPushed
  <2> QED   BY <2>5, <2>6 DEF RoomInv, Room, Pushing, VideoPush, AudioPush
<1>3. CASE ReadClearAudio(s)
  <2>1. \/ rpc' = [rpc EXCEPT ![s] = "flushAudio"] /\ mAudioPacktList' = <<>>
        \/ rpc' = [rpc EXCEPT ![s] = "clearVideo"] /\ UNCHANGED mAudioPacktList
    BY <1>3 DEF ReadClearAudio
  <2>2. UNCHANGED mVideoPacktList   BY <1>3 DEF ReadClearAudio
  <2>l. Len(mVideoPacktList') \in 0..Len(mVideoPacktList)   BY <1>n, <2>2
  <2>3. \A r \in Sessions : rpc'[r] \in VideoPush => rpc[r] \in VideoPush
    BY <1>t, <2>1
  <2>4. \/ Len(mAudioPacktList') \in 0..MaxAudio
        \/ /\ Len(mAudioPacktList') \in 0..Len(mAudioPacktList)
           /\ \A r \in Sessions : rpc'[r] \in AudioPush => rpc[r] \in AudioPush
    BY <1>t, <1>n, <2>1, EmptySeq
  <2> HIDE DEF VideoPush, AudioPush
  <2>5. VideoRoom   BY <1>v, <1>t, <2>l, <2>3, RoomKept
  <2>6. AudioRoom   BY <1>v, <1>t, <2>4, RoomKept, RoomWhenShort
  <2> QED   BY <2>5, <2>6 DEF RoomInv, Room, Pushing, VideoPush, AudioPush
<1>4. CASE ReadFlushAudio(s)
  <2>1. /\ rpc[s] = "flushAudio" /\ rpc' = [rpc EXCEPT ![s] = "clearVideo"]
        /\ mAudioPacktList' = Append(mAudioPacktList, Flush) /\ UNCHANGED mVideoPacktList
    BY <1>4 DEF ReadFlushAudio
  <2>l. Len(mVideoPacktList') \in 0..Len(mVideoPacktList)   BY <1>n, <2>1
  <2>2. /\ rpc'[s] = "clearVideo"
        /\ \A r \in Sessions \ {s} : rpc'[r] = rpc[r]
        /\ \A r \in Sessions : rpc'[r] \in VideoPush => rpc[r] \in VideoPush
    BY <1>t, <2>1
  <2>3. Len(mAudioPacktList') \in 0..(Len(mAudioPacktList) + 1)   BY <1>a, <1>n, <2>1
  <2>4. rpc[s] \in AudioPush /\ rpc'[s] \notin AudioPush   BY <2>1, <2>2
  <2> HIDE DEF VideoPush, AudioPush
  <2>5. VideoRoom   BY <1>v, <1>t, <2>l, <2>2, RoomKept
  <2>6. AudioRoom   BY <1>v, <1>t, <2>2, <2>3, <2>4, RoomPushed
  <2> QED   BY <2>5, <2>6 DEF RoomInv, Room, Pushing, VideoPush, AudioPush
<1>5. CASE ReadClearVideo(s)
  <2>1. \/ rpc' = [rpc EXCEPT ![s] = "flushVideo"] /\ mVideoPacktList' = <<>>
        \/ rpc' = [rpc EXCEPT ![s] = "seekClock"] /\ UNCHANGED mVideoPacktList
    BY <1>5 DEF ReadClearVideo
  <2>2. UNCHANGED mAudioPacktList   BY <1>5 DEF ReadClearVideo
  <2>l. Len(mAudioPacktList') \in 0..Len(mAudioPacktList)   BY <1>n, <2>2
  <2>3. \A r \in Sessions : rpc'[r] \in AudioPush => rpc[r] \in AudioPush
    BY <1>t, <2>1
  <2>4. \/ Len(mVideoPacktList') \in 0..MaxVideo
        \/ /\ Len(mVideoPacktList') \in 0..Len(mVideoPacktList)
           /\ \A r \in Sessions : rpc'[r] \in VideoPush => rpc[r] \in VideoPush
    BY <1>t, <1>n, <2>1, EmptySeq
  <2> HIDE DEF VideoPush, AudioPush
  <2>5. AudioRoom   BY <1>v, <1>t, <2>l, <2>3, RoomKept
  <2>6. VideoRoom   BY <1>v, <1>t, <2>4, RoomKept, RoomWhenShort
  <2> QED   BY <2>5, <2>6 DEF RoomInv, Room, Pushing, VideoPush, AudioPush
<1>6. CASE ReadFlushVideo(s)
  <2>1. /\ rpc[s] = "flushVideo" /\ rpc' = [rpc EXCEPT ![s] = "seekClock"]
        /\ mVideoPacktList' = Append(mVideoPacktList, Flush) /\ UNCHANGED mAudioPacktList
    BY <1>6 DEF ReadFlushVideo
  <2>l. Len(mAudioPacktList') \in 0..Len(mAudioPacktList)   BY <1>n, <2>1
  <2>2. /\ rpc'[s] = "seekClock"
        /\ \A r \in Sessions \ {s} : rpc'[r] = rpc[r]
        /\ \A r \in Sessions : rpc'[r] \in AudioPush => rpc[r] \in AudioPush
    BY <1>t, <2>1
  <2>3. Len(mVideoPacktList') \in 0..(Len(mVideoPacktList) + 1)   BY <1>a, <1>n, <2>1
  <2>4. rpc[s] \in VideoPush /\ rpc'[s] \notin VideoPush   BY <2>1, <2>2
  <2> HIDE DEF VideoPush, AudioPush
  <2>5. AudioRoom   BY <1>v, <1>t, <2>l, <2>2, RoomKept
  <2>6. VideoRoom   BY <1>v, <1>t, <2>2, <2>3, <2>4, RoomPushed
  <2> QED   BY <2>5, <2>6 DEF RoomInv, Room, Pushing, VideoPush, AudioPush
<1> QED   BY <1>1, <1>2, <1>3, <1>4, <1>5, <1>6 DEF ReadPushes

\* At first no thread pushes and both queues are empty.
LEMMA InitRoom == Init => RoomInv
<1> SUFFICES ASSUME Init PROVE RoomInv
  OBVIOUS
<1>1. Pushing(VideoPush) = {} /\ Pushing(AudioPush) = {}
  BY DEF Init, Pushing, VideoPush, AudioPush
<1>2. Len(mVideoPacktList) = 0 /\ Len(mAudioPacktList) = 0   BY EmptySeq DEF Init
<1> QED   BY <1>1, <1>2, FS_EmptySet, ConstantsAssumption DEF RoomInv, Room

\* Every step keeps the room of both queues.
LEMMA NextRoom == TypeInv /\ RoomInv /\ [Next]_vars => RoomInv'
<1> SUFFICES ASSUME TypeInv, RoomInv, [Next]_vars PROVE RoomInv'
  OBVIOUS
<1>1. CASE Next /\ \A s \in Sessions : ~ReadPushes(s)   BY <1>1, OthersQuiet, QuietRoom
<1>2. CASE \E s \in Sessions : ReadPushes(s)   BY <1>2, PushesRoom
<1>3. CASE UNCHANGED vars
  BY <1>3 DEF RoomInv, Room, Pushing, VideoPush, AudioPush, vars, playerVars, queueVars,
              threadVars, readVars
<1> QED   BY <1>1, <1>2, <1>3

\* Neither queue exceeds its maximum by more than one packet for each startPlay,
\* however many read threads a replay or an overlapping open has left running and
\* however often they seek (VideoPlayer.cpp:504).
THEOREM ReadingAheadBounded == Spec => []QueueBound
<1>1. TypeInv /\ RoomInv => QueueBound
  <2> SUFFICES ASSUME TypeInv, RoomInv PROVE QueueBound
    OBVIOUS
  <2>1. Len(mVideoPacktList) \in Nat /\ Len(mAudioPacktList) \in Nat
    BY LenProperties DEF TypeInv, TypeOK, PacketTypes
  <2> QED   BY <2>1, PushingCardinality, ConstantsAssumption DEF RoomInv, Room, QueueBound
<1>2. Spec => []RoomInv
  BY InitRoom, NextRoom, TypeInvHolds, PTL DEF Spec
<1> QED   BY <1>1, <1>2, TypeInvHolds, PTL

(***************************************************************************)
(* No packet is left behind: QueuesDrained for every number of sessions.   *)
(* Only a read thread that is past its opening pushes, and it cannot end   *)
(* without emptying both queues.                                           *)
(***************************************************************************)

\* Where a read thread is between its opening and the clearing of the audio queue, and
\* of the video queue after it.
AudioReading ==
  {"loop", "clearAudio", "flushAudio", "clearVideo", "flushVideo", "seekClock", "seekDone",
   "seekTime", "seekPause", "seekNeed", "seekUnpause", "room", "read", "waitQuit", "clear"}
VideoReading == AudioReading \cup {"clearLast"}

Drained ==
  /\ (\A s \in Sessions : rpc[s] \notin AudioReading) => mAudioPacktList = <<>>
  /\ (\A s \in Sessions : rpc[s] \notin VideoReading) => mVideoPacktList = <<>>

\* startPlay counts the session it starts.
NotStarted == \A s \in Sessions : s > starts => rpc[s] = "none"

\* A step that takes a read thread out of these places empties the queue in question.
LeavesReading ==
  /\ \/ mAudioPacktList' = <<>>
     \/ \A s \in Sessions : rpc[s] \in AudioReading => rpc'[s] \in AudioReading
  /\ \/ mVideoPacktList' = <<>>
     \/ \A s \in Sessions : rpc[s] \in VideoReading => rpc'[s] \in VideoReading

\* The only such steps are the clearings of the queues (VideoPlayer.cpp:556-557).
LEMMA ReadingLeft == ASSUME TypeInv, NotStarted, Next PROVE LeavesReading /\ NotStarted'
<1> USE DEF TypeInv, TypeOK, ControlTypes, LeavesReading, NotStarted, AudioReading, VideoReading,
             ReadAt, ReadGoto, VideoAt, VideoGoto, controlVars, finishVars, seekVars, clockVars, streamVars, queueVars, fileVars,
             placeVars, readVars, videoVars, uiVars, playerVars, threadVars, otherThreads
<1>1. CASE UiCalls
  <2>1. CASE UiStop   BY <2>1 DEF UiStop, UiCall, StopBody
  <2>2. CASE UiOpen   BY <2>2 DEF UiOpen, UiCall, StopBody
  <2>3. CASE UiReplay   BY <2>3 DEF UiReplay, UiCall, StopBody
  <2>4. CASE UiPlay   BY <2>4 DEF UiPlay, UiCall, PlayFlags
  <2>5. CASE UiPause   BY <2>5 DEF UiPause, UiCall
  <2>6. CASE UiSeek   BY <2>6 DEF UiSeek, UiCall
  <2>7. CASE UiSpeed   BY <2>7 DEF UiSpeed, UiCall
  <2> QED
    BY <1>1, <2>1, <2>2, <2>3, <2>4, <2>5, <2>6, <2>7
    DEF UiCalls
<1>2. CASE UiProceeds
  <2>1. CASE UiStopReturns   BY <2>1 DEF UiStopReturns
  <2>2. CASE startPlay
    <3>1. CASE UNCHANGED <<starts, rpc>>   BY <2>2, <3>1 DEF startPlay
    <3>2. CASE starts' = starts + 1 /\ rpc' = [rpc EXCEPT ![starts + 1] = "init"]
      <4>1. starts \in Nat /\ \A s \in Sessions : s \in Nat   BY DEF Sessions
      <4>2. \A s \in Sessions : rpc[s] \in VideoReading => s # starts + 1
        BY <4>1
      <4>3. \A s \in Sessions : s # starts + 1 => rpc'[s] = rpc[s]   BY <3>2
      <4>4. LeavesReading   BY <4>2, <4>3
      <4>5. \A s \in Sessions : s > starts + 1 => s > starts /\ s # starts + 1   BY <4>1
      <4>6. NotStarted'   BY <3>2, <4>3, <4>5
      <4> QED   BY <4>4, <4>6
    <3> QED   BY <2>2, <3>1, <3>2 DEF startPlay
  <2>3. CASE playState   BY <2>3 DEF playState
  <2>4. CASE pauseState   BY <2>4 DEF pauseState
  <2>5. CASE setSpeed   BY <2>5 DEF setSpeed, openSDL
  <2>6. CASE UiSpeedPlay   BY <2>6 DEF UiSpeedPlay, PlayFlags
  <2>7. CASE UiSeekRequest   BY <2>7 DEF UiSeekRequest
  <2> QED
    BY <1>2, <2>1, <2>2, <2>3, <2>4, <2>5, <2>6, <2>7
    DEF UiProceeds
<1>3. ASSUME NEW s \in Sessions, ReadThread(s) PROVE LeavesReading /\ NotStarted'
  <2>1. CASE ReadInit(s)   BY <2>1 DEF ReadInit
  <2>2. CASE ReadOpen(s)   BY <2>2 DEF ReadOpen
  <2>3. CASE ReadVideoCodec(s)   BY <2>3 DEF ReadVideoCodec
  <2>4. CASE ReadAudioCodec(s)   BY <2>4 DEF ReadAudioCodec
  <2>5. CASE ReadDevice(s)   BY <2>5 DEF ReadDevice, openSDL
  <2>6. CASE ReadPlaying(s)   BY <2>6 DEF ReadPlaying
  <2>7. CASE ReadLoop(s)   BY <2>7 DEF ReadLoop
  <2>8. CASE ReadSeek(s)   BY <2>8 DEF ReadSeek, MoveTo, KeyPositions
  <2>9. CASE ReadClearAudio(s)   BY <2>9 DEF ReadClearAudio
  <2>10. CASE ReadFlushAudio(s)   BY <2>10 DEF ReadFlushAudio
  <2>11. CASE ReadClearVideo(s)   BY <2>11 DEF ReadClearVideo
  <2>12. CASE ReadFlushVideo(s)   BY <2>12 DEF ReadFlushVideo
  <2>13. CASE ReadSeekClock(s)   BY <2>13 DEF ReadSeekClock, Upto
  <2>14. CASE ReadSeekDone(s)   BY <2>14 DEF ReadSeekDone
  <2>15. CASE ReadSeekTime(s)   BY <2>15 DEF ReadSeekTime
  <2>16. CASE ReadSeekPause(s)   BY <2>16 DEF ReadSeekPause
  <2>17. CASE ReadSeekNeed(s)   BY <2>17 DEF ReadSeekNeed
  <2>18. CASE ReadSeekUnpause(s)   BY <2>18 DEF ReadSeekUnpause
  <2>19. CASE ReadRoom(s)   BY <2>19 DEF ReadRoom
  <2>20. CASE ReadPacket(s)   BY <2>20 DEF ReadPacket
  <2>21. CASE ReadEof(s)   BY <2>21 DEF ReadEof
  <2>22. CASE ReadWaitQuit(s)   BY <2>22 DEF ReadWaitQuit
  <2>23. CASE ReadEndAudio(s)   BY <2>23 DEF ReadEndAudio
  <2>24. CASE ReadStopSelf(s)   BY <2>24 DEF ReadStopSelf
  <2>25. CASE ReadQuitSelf(s)   BY <2>25 DEF ReadQuitSelf
  <2>26. CASE ReadJoin(s)   BY <2>26 DEF ReadJoin, DecodersFinished
  <2>27. CASE ReadClose(s)   BY <2>27 DEF ReadClose, CallbackOver
  <2>28. CASE ReadFree(s)   BY <2>28 DEF ReadFree
  <2>29. ASSUME NEW l \in {"open", "videoCodec", "audioCodec"}, NEW f, OpenFails(s, l, f)
        PROVE  LeavesReading /\ NotStarted'
    BY <2>29 DEF OpenFails
  <2>30. CASE ReadEndVideo(s)   BY <2>30 DEF ReadEndVideo
  <2>31. CASE ReadCrash(s)   BY <2>31 DEF ReadCrash
  <2> QED
    BY <1>3, <2>1, <2>2, <2>3, <2>4, <2>5, <2>6, <2>7, <2>8, <2>9, <2>10, <2>11,
       <2>12, <2>13, <2>14, <2>15, <2>16, <2>17, <2>18, <2>19, <2>20, <2>21, <2>22,
       <2>23, <2>24, <2>25, <2>26, <2>27, <2>28, <2>29, <2>30, <2>31
    DEF ReadThread
<1>4. ASSUME NEW s \in Sessions, VideoThread(s) PROVE LeavesReading /\ NotStarted'
  <2>1. CASE VideoStart(s)   BY <2>1 DEF VideoStart
  <2>2. CASE VideoLoop(s)   BY <2>2 DEF VideoLoop
  <2>3. CASE VideoTake(s)   BY <2>3 DEF VideoTake
  <2>4. CASE VideoEmpty(s)   BY <2>4 DEF VideoEmpty
  <2>5. CASE VideoDecode(s)   BY <2>5 DEF VideoDecode
  <2>6. CASE VideoSeekCheck(s)   BY <2>6 DEF VideoSeekCheck
  <2>7. CASE VideoSync(s)   BY <2>7 DEF VideoSync
  <2>8. CASE VideoShow(s)   BY <2>8 DEF VideoShow
  <2>9. CASE VideoRepause(s)   BY <2>9 DEF VideoRepause
  <2>10. CASE VideoClearNeed(s)   BY <2>10 DEF VideoClearNeed
  <2>11. CASE VideoExit(s)   BY <2>11 DEF VideoExit
  <2>12. CASE VideoFound(s)   BY <2>12 DEF VideoFound
  <2>13. CASE VideoCrash(s)   BY <2>13 DEF VideoCrash
  <2> QED
    BY <1>4, <2>1, <2>2, <2>3, <2>4, <2>5, <2>6, <2>7, <2>8, <2>9, <2>10, <2>11, <2>12, <2>13
    DEF VideoThread
<1>5. CASE AudioCallback
  <2>1. CASE AudioCheck   BY <2>1 DEF AudioCheck
  <2>2. CASE AudioClear   BY <2>2 DEF AudioClear
  <2>3. CASE AudioTake   BY <2>3 DEF AudioTake
  <2>4. CASE AudioSeekCheck   BY <2>4 DEF AudioSeekCheck, AudioDecoded
  <2>5. CASE AudioFound   BY <2>5 DEF AudioFound, AudioDecoded
  <2>6. CASE AudioCrash   BY <2>6 DEF AudioCrash
  <2> QED
    BY <1>5, <2>1, <2>2, <2>3, <2>4, <2>5, <2>6
    DEF AudioCallback
<1>6. CASE Tick   BY <1>6 DEF Tick
<1> QED   BY <1>1, <1>2, <1>3, <1>4, <1>5, <1>6 DEF Next

\* A step by which the last read thread leaves these places, or that is taken when none is
\* there, leaves the queue empty.
LEMMA DrainedStep == TypeInv /\ NotStarted /\ Drained /\ [Next]_vars => Drained'
<1> SUFFICES ASSUME TypeInv, NotStarted, Drained, [Next]_vars PROVE Drained'
  OBVIOUS
<1>1. CASE UNCHANGED vars
  BY <1>1 DEF Drained, AudioReading, VideoReading, vars, playerVars, queueVars, threadVars, readVars
<1>2. CASE Next
  <2>1. LeavesReading   BY <1>2, ReadingLeft
  <2>2. ASSUME \A s \in Sessions : rpc[s] \notin AudioReading PROVE Quiet
    <3>1. \A s \in Sessions : ~ReadPushes(s)
      BY <2>2 DEF ReadPushes, AudioReading, ReadAt, ReadRoom, ReadPacket, ReadClearAudio,
                  ReadFlushAudio, ReadClearVideo, ReadFlushVideo
    <3> QED   BY <1>2, <3>1, OthersQuiet
  <2>3. ASSUME \A s \in Sessions : rpc'[s] \notin AudioReading PROVE mAudioPacktList' = <<>>
    <3>1. CASE \A s \in Sessions : rpc[s] \notin AudioReading
      BY <2>2, <3>1 DEF Quiet, Shorter, Drained
    <3> QED   BY <2>1, <2>3, <3>1 DEF LeavesReading
  <2>4. ASSUME \A s \in Sessions : rpc'[s] \notin VideoReading PROVE mVideoPacktList' = <<>>
    <3>1. CASE \A s \in Sessions : rpc[s] \notin VideoReading
      BY <2>2, <3>1 DEF Quiet, Shorter, Drained, VideoReading
    <3> QED   BY <2>1, <2>4, <3>1 DEF LeavesReading
  <2> QED   BY <2>3, <2>4 DEF Drained, AudioReading, VideoReading
<1> QED   BY <1>1, <1>2

\* When every thread is done both queues are empty, however many sessions there were and
\* however they overlapped (VideoPlayer.cpp:556-557).
THEOREM QueuesAreDrained == Spec => []QueuesDrained
<1>1. Init => Drained   BY DEF Init, Drained
<1>2. TypeInv /\ Drained => QueuesDrained
  BY DEF Drained, QueuesDrained, ThreadsDone, AudioReading, VideoReading
<1>3. Init => NotStarted   BY DEF Init, NotStarted
<1>4. TypeInv /\ NotStarted /\ [Next]_vars => NotStarted'
  <2>1. CASE UNCHANGED vars   BY <2>1 DEF NotStarted, vars, playerVars, threadVars, readVars, uiVars
  <2> QED   BY <2>1, ReadingLeft
<1>5. Spec => [](NotStarted /\ Drained)
  BY <1>1, <1>3, <1>4, DrainedStep, TypeInvHolds, PTL DEF Spec
<1> QED   BY <1>2, <1>5, TypeInvHolds, PTL
=============================================================================
