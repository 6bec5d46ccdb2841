--------------------------- MODULE VideoPlayerFrames ---------------------------
(***************************************************************************)
(* No frame is lost: DisplayedInSequence for one session.  A frame on its  *)
(* way from the file to the screen is in the video queue or held by the    *)
(* video thread.  The invariant orders the frames on this way by seek and  *)
(* time, and says that the way has no gap: between the screen, or for a    *)
(* later seek the key frame it went to, and the read position every frame  *)
(* is on it, unless a target beyond the frame was asked for.  It is not    *)
(* kept when the decoder gives no frame for a packet or the packets of a   *)
(* stream are not stored in the order of their times.                      *)
(***************************************************************************)
EXTENDS VideoPlayerQueues

Frames == {i \in 1..Len(File) : File[i].stream = "video"}
StoredInOrder == \A i, j \in Frames : i < j => File[i].pts < File[j].pts
OneViewing == MaxStarts = 1 /\ "noFrame" \notin Failures /\ StoredInOrder

\* The video thread has a packet that it may yet display.
Held == vpc[1] \in {"decode", "seekCheck", "found", "sync", "show"}
\* It displays nothing any more.
Ended == vpc[1] \in {"exit", "done"}
\* The file is at its new position, the queue not yet.
Seeking == rpc[1] \in {"clearAudio", "flushAudio", "clearVideo", "flushVideo"}
\* What is in the queue is followed by what is read next.
MayRead == ~Seeking /\ rpc[1] \notin {"stopSelf", "quitSelf", "join", "close", "free", "done"}

Queued == Range(mVideoPacktList)
\* The packets on their way to the screen.
Way == Queued \cup {p \in {frame[1]} : Held}

\* p is of an earlier seek than q, or of an earlier time.
Before(p, q) == p.epoch < q.epoch \/ (p.epoch = q.epoch /\ p.pts < q.pts)

OrderInv ==
  /\ \A k, l \in 1..Len(mVideoPacktList) : k < l => Before(mVideoPacktList[k], mVideoPacktList[l])
  /\ Held => frame[1].pts \in Nat /\ \A q \in Queued : Before(frame[1], q)
  /\ \A q \in Way : Before(screen, q)

\* Packets carry the seek they were read after; during a seek all are old.
EpochInv == \A p \in Way \cup {screen} : p.epoch <= epoch /\ (Seeking => p.epoch < epoch)

\* Where the frames of a seek begin of which none has been displayed: just before the
\* key frame.
Starts == {[pts |-> seekedTo[e] - 1, epoch |-> e] : e \in (screen.epoch + 1)..epoch}
\* What one looks ahead from.
Seen == {p \in Way : p.pts \in Nat} \cup {screen} \cup Starts

\* During a seek the file is at the key frame.
PlaceInv == Seeking => \A i \in Frames : demux[1] <= i <=> seekedTo[epoch] <= File[i].pts

\* What is read next comes after what has been read since the last seek.
AheadInv ==
  MayRead => \A p \in Way \cup Seen : p.epoch = epoch =>
               \A i \in Frames : demux[1] <= i => p.pts < File[i].pts

\* A frame is not before the key frame of its seek.
StartInv == \A p \in Starts, q \in Way : p.epoch = q.epoch /\ q.pts \in Nat => p.pts < q.pts

\* The frame of time n is missing on purpose: a target beyond it was asked for when it was
\* due.  Nothing of a seek is skipped while the frames of an earlier one are on the way.
Skipped(p, n) == n < asked /\ p \notin Way /\ \A r \in Way : p.epoch <= r.epoch
OnWay(e, n) == \E q \in Way : q.epoch = e /\ q.pts = n

\* No gap between two frames on the way, nor between one and the read position.
GapInv ==
  \A p \in Seen, q \in Way : p.epoch = q.epoch =>
    \A i \in Frames : p.pts < File[i].pts /\ File[i].pts < q.pts =>
      Skipped(p, File[i].pts) \/ OnWay(p.epoch, File[i].pts)
TailInv ==
  MayRead => \A p \in Seen : p.epoch = epoch =>
    \A i \in Frames : p.pts < File[i].pts =>
      demux[1] <= i \/ Skipped(p, File[i].pts) \/ OnWay(epoch, File[i].pts)

WayInv == OrderInv /\ EpochInv /\ PlaceInv /\ AheadInv /\ StartInv /\ GapInv /\ TailInv

\* The video thread is started once, and seek_time is among what was asked.
BeginInv ==
  /\ rpc[1] \in {"none", "init", "open", "videoCodec"} => vpc[1] = "none"
  /\ seek_time <= asked

FrameInv == BeginInv /\ (Ended \/ WayInv)

LEMMA FrameTimes == \A i \in Frames : i \in Nat /\ i >= 1 /\ File[i].pts \in Nat
<1>1. \A i \in 1..Len(File) : File[i] \in [stream : Streams, pts : Nat]
  BY ConstantsAssumption, ElementOfSeq
<1>2. Len(File) \in Nat   BY ConstantsAssumption, LenProperties
<1>3. \A i \in 1..Len(File) : i \in Nat /\ i >= 1   BY <1>2
<1> QED   BY <1>1, <1>3 DEF Frames

\* The numbers the invariant compares.
LEMMA WayTypes ==
  ASSUME TypeInv, OneViewing
  PROVE  /\ Sessions = {1}
         /\ \A p \in Way \cup {screen} : p.pts \in Int /\ p.epoch \in Nat
         /\ \A p \in Starts : /\ p.pts \in Int /\ p.epoch \in Nat
                              /\ screen.epoch < p.epoch /\ p.epoch <= epoch
         /\ \A i \in Frames : i \in Nat /\ File[i].pts \in Nat
         /\ epoch \in Nat /\ asked \in Nat /\ seek_time \in Nat
         /\ demux[1] \in Nat /\ mVideoPacktList \in Seq(Packet)
         /\ Len(mVideoPacktList) \in Nat /\ frame[1] \in Packet
<1>1. Sessions = {1}   BY DEF OneViewing, Sessions
<1>2. mVideoPacktList \in Seq(Packet) /\ frame[1] \in Packet /\ screen \in Packet
  BY <1>1 DEF TypeInv, TypeOK, PacketTypes
<1>3. Way \cup {screen} \subseteq Packet   BY <1>2, RangeOfSeq DEF Way, Queued
<1>4. \A p \in Packet : p.pts \in Int /\ p.epoch \in Nat   BY DEF Packet, NoPts
<1>5. Len(File) \in Nat   BY ConstantsAssumption, LenProperties
<1>7. demux[1] \in Nat   BY <1>1, <1>5 DEF TypeInv, TypeOK, PacketTypes
<1>8. epoch \in Nat /\ asked \in Nat /\ seek_time \in Nat /\ seekedTo \in [0..epoch -> Nat]
  BY DEF TypeInv, TypeOK, ClockTypes
<1>9. ASSUME NEW p \in Starts
      PROVE  /\ p.pts \in Int /\ p.epoch \in Nat
             /\ screen.epoch < p.epoch /\ p.epoch <= epoch
  <2>1. screen.epoch \in Nat   BY <1>2, <1>4
  <2>2. PICK e \in (screen.epoch + 1)..epoch : p = [pts |-> seekedTo[e] - 1, epoch |-> e]
    BY DEF Starts
  <2>3. e \in 0..epoch   BY <1>8, <2>1
  <2>4. seekedTo[e] \in Nat   BY <1>8, <2>3
  <2> QED   BY <1>8, <2>1, <2>2, <2>4
<1> QED   BY <1>1, <1>2, <1>3, <1>4, <1>7, <1>8, <1>9, FrameTimes, LenProperties

LEMMA RangeOfEmpty == Range(<<>>) = {}
<1>1. Range(<<>>) \in SUBSET {}   BY EmptySeq, RangeOfSeq
<1> QED   BY <1>1

\* At first nothing is on the way and reading begins at the first packet.
LEMMA InitFrames == ASSUME Init, OneViewing PROVE FrameInv
<1>1. Sessions = {1}   BY DEF OneViewing, Sessions
<1>2. /\ mVideoPacktList = <<>> /\ rpc[1] = "none" /\ vpc[1] = "none" /\ demux[1] = 1
      /\ screen = NoFrame /\ epoch = 0 /\ seek_time = 0 /\ asked = 0
  BY <1>1 DEF Init
<1>3. ~Held /\ ~Seeking   BY <1>2 DEF Held, Seeking
<1>4. Queued = {} /\ Way = {} /\ Starts = {} /\ Seen = {screen}
  <2>1. (screen.epoch + 1)..epoch = {}   BY <1>2 DEF NoFrame
  <2> QED   BY <1>2, <1>3, <2>1, RangeOfEmpty DEF Queued, Way, Starts, Seen
<1>5. Len(mVideoPacktList) = 0   BY <1>2, EmptySeq
<1>7. OrderInv   BY <1>3, <1>4, <1>5 DEF OrderInv
<1>8. EpochInv   BY <1>2, <1>3, <1>4 DEF EpochInv, NoFrame
<1>9. AheadInv   BY <1>2, <1>4, FrameTimes DEF AheadInv, NoFrame, NoPts
<1>10. GapInv   BY <1>4 DEF GapInv
<1>11. TailInv   BY <1>2, <1>4, FrameTimes DEF TailInv
<1>12. PlaceInv /\ StartInv   BY <1>3, <1>4 DEF PlaceInv, StartInv
<1> QED   BY <1>2, <1>7, <1>8, <1>9, <1>10, <1>11, <1>12 DEF FrameInv, WayInv, BeginInv

\* A step that moves no frame.
Inert ==
  /\ UNCHANGED <<mVideoPacktList, screen, placeVars, frame>>
  /\ Held' <=> Held
  /\ Ended => Ended'
  /\ MayRead' => MayRead
  /\ Seeking' => Seeking
  /\ asked <= asked'
  /\ BeginInv'

LEMMA InertKeeps ==
  ASSUME TypeInv, TypeInv', OneViewing, FrameInv, Inert
  PROVE  FrameInv'
<1>1. CASE Ended   BY <1>1 DEF FrameInv, Inert
<1>2. CASE WayInv
  <2>p. UNCHANGED <<epoch, demux, seekedTo>>   BY DEF Inert, placeVars
  <2>1. Queued' = Queued /\ Way' = Way /\ Starts' = Starts /\ Seen' = Seen
    BY <2>p DEF Inert, Queued, Way, Starts, Seen
  <2>2. \A e, n : OnWay(e, n) => OnWay(e, n)'   BY <2>1 DEF OnWay
  <2>3. \A p, n : Skipped(p, n) /\ n \in Nat => Skipped(p, n)'
    BY <2>1, WayTypes, TypeInv' DEF Inert, Skipped, TypeInv, TypeOK, ClockTypes
  <2>4. OrderInv'   BY <1>2, <2>1 DEF WayInv, OrderInv, Inert, Before
  <2>5. EpochInv'   BY <1>2, <2>p, <2>1 DEF WayInv, EpochInv, Inert
  <2>6. AheadInv' /\ StartInv'   BY <1>2, <2>p, <2>1 DEF WayInv, AheadInv, StartInv, Inert
  <2>7. GapInv'   BY <1>2, <2>1, <2>2, <2>3, WayTypes DEF WayInv, GapInv
  <2>8. TailInv'   BY <1>2, <2>p, <2>1, <2>2, <2>3, WayTypes DEF WayInv, TailInv, Inert
  <2>9. PlaceInv'   BY <1>2, <2>p DEF WayInv, PlaceInv, Inert
  <2> QED   BY <2>4, <2>5, <2>6, <2>7, <2>8, <2>9 DEF FrameInv, WayInv, Inert
<1> QED   BY <1>1, <1>2 DEF FrameInv

\* The steps that move a frame, or may.
FrameMoves(s) ==
  \/ ReadSeek(s) \/ ReadClearVideo(s) \/ ReadFlushVideo(s) \/ ReadPacket(s) \/ ReadEndVideo(s)
  \/ VideoLoop(s) \/ VideoTake(s) \/ VideoSeekCheck(s) \/ VideoShow(s)

\* Every other step moves none.
LEMMA OthersInert ==
  ASSUME TypeInv, OneViewing, NotStarted, BeginInv, Next, \A s \in Sessions : ~FrameMoves(s)
  PROVE  Inert
<1>o. Sessions = {1}   BY DEF OneViewing, Sessions
<1>t. /\ asked \in Nat /\ seek_time \in Nat /\ seek_pos \in Nat /\ starts \in Nat
      /\ rpc \in [{1} -> ReadLabels] /\ vpc \in [{1} -> VideoLabels]
  BY <1>o DEF TypeInv, TypeOK, ClockTypes, ControlTypes
<1> USE <1>t DEF Inert, BeginInv, Held, Ended, Seeking, MayRead, ReadAt, ReadGoto, VideoAt, VideoGoto,
             controlVars, finishVars, seekVars, clockVars, streamVars, queueVars, fileVars,
             placeVars, readVars, videoVars, uiVars, playerVars, threadVars, otherThreads
<1>1. CASE UiCalls
  <2>1. CASE UiStop   BY <2>1 DEF UiStop, UiCall, StopBody
  <2>2. CASE UiOpen   BY <2>2 DEF UiOpen, UiCall, StopBody
  <2>3. CASE UiReplay   BY <2>3 DEF UiReplay, UiCall, StopBody
  <2>4. CASE UiPlay   BY <2>4 DEF UiPlay, UiCall, PlayFlags
  <2>5. CASE UiPause   BY <2>5 DEF UiPause, UiCall
  <2>6. CASE UiSeek   BY <2>6 DEF UiSeek, UiCall
  <2>7. CASE UiSpeed   BY <2>7 DEF UiSpeed, UiCall
  <2> QED
    BY <1>1, <2>1, <2>2, <2>3, <2>4, <2>5, <2>6, <2>7
    DEF UiCalls
<1>2. CASE UiProceeds
  <2>1. CASE UiStopReturns   BY <2>1 DEF UiStopReturns
  <2>2. CASE startPlay
    <3>1. CASE UNCHANGED <<starts, rpc>>   BY <2>2, <3>1 DEF startPlay
    <3>2. CASE starts' = starts + 1 /\ rpc' = [rpc EXCEPT ![starts + 1] = "init"]
      <4>1. starts < MaxStarts   BY <2>2, <3>2 DEF startPlay, TypeInv, StartsInv
      <4>2. starts = 0   BY <1>t, <4>1 DEF OneViewing
      <4>3. rpc[1] = "none" /\ vpc[1] = "none"   BY <1>o, <4>2 DEF NotStarted
      <4> QED   BY <2>2, <3>2, <4>2, <4>3 DEF startPlay
    <3> QED   BY <2>2, <3>1, <3>2 DEF startPlay
  <2>3. CASE playState   BY <2>3 DEF playState
  <2>4. CASE pauseState   BY <2>4 DEF pauseState
  <2>5. CASE setSpeed   BY <2>5 DEF setSpeed, openSDL
  <2>6. CASE UiSpeedPlay   BY <2>6 DEF UiSpeedPlay, PlayFlags
  <2>7. CASE UiSeekRequest   BY <2>7 DEF UiSeekRequest
  <2> QED
    BY <1>2, <2>1, <2>2, <2>3, <2>4, <2>5, <2>6, <2>7
    DEF UiProceeds
<1>3. CASE ReadThread(1)
  <2>1. CASE ReadInit(1)   BY <2>1 DEF ReadInit
  <2>2. CASE ReadOpen(1)   BY <2>2 DEF ReadOpen
  <2>3. CASE ReadVideoCodec(1)   BY <2>3 DEF ReadVideoCodec
  <2>4. CASE ReadAudioCodec(1)   BY <2>4 DEF ReadAudioCodec
  <2>5. CASE ReadDevice(1)   BY <2>5 DEF ReadDevice, openSDL
  <2>6. CASE ReadPlaying(1)   BY <2>6 DEF ReadPlaying
  <2>7. CASE ReadLoop(1)   BY <2>7 DEF ReadLoop
  <2>8. CASE ReadClearAudio(1)   BY <2>8 DEF ReadClearAudio
  <2>9. CASE ReadFlushAudio(1)   BY <2>9 DEF ReadFlushAudio
  <2>10. CASE ReadSeekClock(1)   BY <2>10 DEF ReadSeekClock, Upto
  <2>11. CASE ReadSeekDone(1)   BY <2>11 DEF ReadSeekDone
  <2>12. CASE ReadSeekTime(1)   BY <2>12 DEF ReadSeekTime
  <2>13. CASE ReadSeekPause(1)   BY <2>13 DEF ReadSeekPause
  <2>14. CASE ReadSeekNeed(1)   BY <2>14 DEF ReadSeekNeed
  <2>15. CASE ReadSeekUnpause(1)   BY <2>15 DEF ReadSeekUnpause
  <2>16. CASE ReadRoom(1)   BY <2>16 DEF ReadRoom
  <2>17. CASE ReadEof(1)   BY <2>17 DEF ReadEof
  <2>18. CASE ReadWaitQuit(1)   BY <2>18 DEF ReadWaitQuit
  <2>19. CASE ReadStopSelf(1)   BY <2>19 DEF ReadStopSelf
  <2>20. CASE ReadQuitSelf(1)   BY <2>20 DEF ReadQuitSelf
  <2>21. CASE ReadJoin(1)   BY <2>21 DEF ReadJoin
  <2>22. CASE ReadClose(1)   BY <2>22 DEF ReadClose
  <2>23. CASE ReadFree(1)   BY <2>23 DEF ReadFree
  <2>24. ASSUME NEW l \in {"open", "videoCodec", "audioCodec"}, NEW f, OpenFails(1, l, f)
        PROVE  Inert
    BY <2>24 DEF OpenFails
  <2>25. CASE ReadEndAudio(1)   BY <2>25 DEF ReadEndAudio
  <2>26. CASE ReadCrash(1)   BY <2>26 DEF ReadCrash
  <2> QED
    BY <1>3, <1>o, <2>1, <2>2, <2>3, <2>4, <2>5, <2>6, <2>7, <2>8, <2>9, <2>10, <2>11, <2>12,
       <2>13, <2>14, <2>15, <2>16, <2>17, <2>18, <2>19, <2>20, <2>21, <2>22, <2>23, <2>24, <2>25, <2>26
    DEF ReadThread, FrameMoves
<1>4. CASE VideoThread(1)
  <2>1. CASE VideoStart(1)   BY <2>1 DEF VideoStart
  <2>2. CASE VideoEmpty(1)   BY <2>2 DEF VideoEmpty
  <2>3. CASE VideoDecode(1)   BY <2>3 DEF VideoDecode, OneViewing
  <2>4. CASE VideoSync(1)   BY <2>4 DEF VideoSync
  <2>5. CASE VideoRepause(1)   BY <2>5 DEF VideoRepause
  <2>6. CASE VideoClearNeed(1)   BY <2>6 DEF VideoClearNeed
  <2>7. CASE VideoExit(1)   BY <2>7 DEF VideoExit
  <2>8. CASE VideoFound(1)   BY <2>8 DEF VideoFound
  <2>9. CASE VideoCrash(1)   BY <2>9 DEF VideoCrash
  <2> QED
    BY <1>4, <1>o, <2>1, <2>2, <2>3, <2>4, <2>5, <2>6, <2>7, <2>8, <2>9
    DEF VideoThread, FrameMoves
<1>5. CASE AudioCallback
  <2>1. CASE AudioCheck   BY <2>1 DEF AudioCheck
  <2>2. CASE AudioClear   BY <2>2 DEF AudioClear
  <2>3. CASE AudioTake   BY <2>3 DEF AudioTake
  <2>4. CASE AudioSeekCheck   BY <2>4 DEF AudioSeekCheck, AudioDecoded
  <2>5. CASE AudioFound   BY <2>5 DEF AudioFound, AudioDecoded
  <2>6. CASE AudioCrash   BY <2>6 DEF AudioCrash
  <2> QED
    BY <1>5, <2>1, <2>2, <2>3, <2>4, <2>5, <2>6
    DEF AudioCallback
<1>6. CASE Tick   BY <1>6 DEF Tick
<1> QED   BY <1>o, <1>1, <1>2, <1>3, <1>4, <1>5, <1>6 DEF Next

\* What a queue holds,
LEMMA QueueMembers ==
  ASSUME NEW queue \in Seq(Packet)
  PROVE  \A p : p \in Range(queue) <=> \E k \in 1..Len(queue) : p = queue[k]
<1>1. DOMAIN queue = 1..Len(queue)   BY LenProperties
<1> QED   BY <1>1 DEF Range

\* when a packet is appended, and when its head is taken.
LEMMA AppendedElements ==
  ASSUME NEW queue \in Seq(Packet), NEW p \in Packet, NEW next, next = Append(queue, p)
  PROVE  /\ Len(next) = Len(queue) + 1 /\ Len(queue) \in Nat
         /\ \A k \in 1..Len(queue) : next[k] = queue[k]
         /\ next[Len(queue) + 1] = p
         /\ Range(next) = Range(queue) \cup {p}
<1>1. /\ Len(next) = Len(queue) + 1 /\ Len(queue) \in Nat /\ next \in Seq(Packet)
      /\ \A k \in 1..Len(queue) : next[k] = queue[k]
      /\ next[Len(queue) + 1] = p
  BY AppendProperties, LenProperties
<1>2. 1..Len(next) = (1..Len(queue)) \cup {Len(queue) + 1}   BY <1>1
<1>3. \A q : q \in Range(next) <=> \E k \in 1..Len(next) : q = next[k]   BY <1>1, QueueMembers
<1>4. \A q : q \in Range(queue) <=> \E k \in 1..Len(queue) : q = queue[k]   BY QueueMembers
<1>5. p \in Range(next) /\ \A q \in Range(queue) : q \in Range(next)   BY <1>1, <1>2, <1>3, <1>4
<1>6. \A q \in Range(next) : q \in Range(queue) \/ q = p   BY <1>1, <1>2, <1>3, <1>4
<1>7. Range(next) = Range(queue) \cup {p}   BY <1>5, <1>6
<1> QED   BY <1>1, <1>7

LEMMA TailElements ==
  ASSUME NEW queue \in Seq(Packet), queue # <<>>, NEW next, next = Tail(queue)
  PROVE  /\ Len(next) + 1 = Len(queue) /\ Len(next) \in Nat /\ next \in Seq(Packet)
         /\ \A k \in 1..Len(next) : next[k] = queue[k + 1] /\ k + 1 \in 1..Len(queue)
         /\ Head(queue) = queue[1] /\ 1 \in 1..Len(queue)
         /\ Range(queue) = Range(next) \cup {Head(queue)}
<1>1. /\ Len(next) = Len(queue) - 1 /\ Len(next) \in Nat /\ Len(queue) \in Nat
      /\ \A k \in 1..Len(next) : next[k] = queue[k + 1]
      /\ Head(queue) = queue[1] /\ next \in Seq(Packet)
  BY HeadTailProperties, LenProperties
<1>2. \A k \in 1..Len(next) : k + 1 \in 1..Len(queue)   BY <1>1
<1>3. \A k \in 1..Len(queue) : k = 1 \/ (k - 1 \in 1..Len(next) /\ queue[k] = next[k - 1])
  BY <1>1
<1>4. 1 \in 1..Len(queue)   BY <1>1
<1>5. \A q : q \in Range(next) <=> \E k \in 1..Len(next) : q = next[k]   BY <1>1, QueueMembers
<1>6. \A q : q \in Range(queue) <=> \E k \in 1..Len(queue) : q = queue[k]   BY QueueMembers
<1>7. Head(queue) \in Range(queue)   BY <1>1, <1>4, <1>6
<1>8. \A q \in Range(next) : q \in Range(queue)
  <2> SUFFICES ASSUME NEW k \in 1..Len(next) PROVE next[k] \in Range(queue)
    BY <1>5
  <2> QED   BY <1>1, <1>2, <1>6
<1>9. \A q \in Range(queue) : q \in Range(next) \/ q = Head(queue)
  <2> SUFFICES ASSUME NEW k \in 1..Len(queue) PROVE queue[k] \in Range(next) \/ queue[k] = Head(queue)
    BY <1>6
  <2> QED   BY <1>1, <1>3, <1>5
<1>10. Range(queue) = Range(next) \cup {Head(queue)}   BY <1>7, <1>8, <1>9
<1>11. Len(next) + 1 = Len(queue)   BY <1>1
<1> QED   BY <1>1, <1>2, <1>4, <1>10, <1>11

\* The held frame is given to the screen, or skipped before the target.
LEMMA HeldLeaves ==
  ASSUME TypeInv, TypeInv', OneViewing, WayInv, Held, ~Held',
         UNCHANGED <<mVideoPacktList, placeVars, frame, rpc>>,
         \/ screen' = screen /\ asked' = asked /\ frame[1].pts < asked
         \/ screen' = frame[1]
  PROVE  WayInv'
<1> DEFINE f == frame[1]
<1>p. UNCHANGED <<epoch, demux, seekedTo>>   BY DEF placeVars
<1>1. Queued' = Queued /\ Way' = Queued /\ Way = Queued \cup {f}   BY DEF Queued, Way, Held
<1>2. f.pts \in Nat /\ \A q \in Queued : Before(f, q)   BY DEF WayInv, OrderInv
<1>3. \A q \in Way : Before(screen, q)   BY DEF WayInv, OrderInv
<1>t. /\ \A p \in Way \cup {screen} : p.pts \in Int /\ p.epoch \in Nat
      /\ \A p \in Starts : p.epoch \in Nat /\ screen.epoch < p.epoch
      /\ asked \in Nat /\ f \in Way /\ epoch \in Nat
  BY <1>1, WayTypes
<1>4. screen' \in {screen, f} /\ screen.epoch <= screen'.epoch
  <2>1. screen.epoch <= f.epoch   BY <1>3, <1>t DEF Before
  <2> HIDE DEF f
  <2>2. screen' \in {screen, f}   BY DEF f
  <2> QED   BY <1>t, <2>1, <2>2
<1>5. Starts' \subseteq Starts
  <2> SUFFICES ASSUME NEW e \in (screen'.epoch + 1)..epoch PROVE e \in (screen.epoch + 1)..epoch
    BY <1>p DEF Starts
  <2>1. screen.epoch \in Nat /\ screen'.epoch \in Nat   BY <1>4, <1>t
  <2> QED   BY <1>4, <1>t, <2>1
<1>u. ASSUME NEW p \in Starts' PROVE p.epoch \in Nat /\ screen'.epoch < p.epoch
  <2>1. PICK e \in (screen'.epoch + 1)..epoch : p = [pts |-> seekedTo[e] - 1, epoch |-> e]
    BY <1>p DEF Starts
  <2>2. screen'.epoch \in Nat   BY <1>4, <1>t
  <2> QED   BY <1>t, <2>1, <2>2
<1>6. Seen' \subseteq Seen   BY <1>1, <1>2, <1>4, <1>5 DEF Seen
<1>7. \A q \in Queued : Before(screen', q)   BY <1>1, <1>2, <1>3, <1>4
<1>8. ASSUME NEW p \in Seen', NEW n \in Nat, p.pts < n, Skipped(p, n) \/ OnWay(p.epoch, n)
      PROVE  Skipped(p, n)' \/ OnWay(p.epoch, n)'
  <2>1. p = screen' \/ p \in Queued \/ p \in Starts'   BY <1>1 DEF Seen
  <2>2. p \in Queued => f.epoch <= p.epoch /\ (f.epoch = p.epoch => f.pts < p.pts)
    <3> SUFFICES ASSUME p \in Queued PROVE f.epoch <= p.epoch /\ (f.epoch = p.epoch => f.pts < p.pts)
      OBVIOUS
    <3>1. Before(f, p) /\ p \in Way   BY <1>1, <1>2
    <3> HIDE DEF f
    <3> QED   BY <1>t, <3>1 DEF Before
  <2>3. CASE screen' = f
    <3>1. p = f \/ p \in Queued \/ (p \in Starts' /\ f.epoch < p.epoch)   BY <1>u, <2>1, <2>3
    <3>2. ~Skipped(p, n)
      <4>1. p \in Way \/ f.epoch < p.epoch   BY <1>1, <3>1
      <4>2. p \in Starts' => p.epoch \in Nat   BY <1>u
      <4>3. f \in Way /\ f.epoch \in Nat   BY <1>t
      <4> HIDE DEF f
      <4> QED   BY <3>1, <4>1, <4>2, <4>3, <1>1 DEF Skipped
    <3>3. PICK q \in Way : q.epoch = p.epoch /\ q.pts = n   BY <1>8, <3>2 DEF OnWay
    <3>4. q # f
      <4> SUFFICES ASSUME q = f PROVE FALSE
        OBVIOUS
      <4>1. f.epoch = p.epoch /\ f.pts = n /\ f.pts \in Int /\ f.epoch \in Nat   BY <1>t, <3>3
      <4>2. p # f   BY <1>8, <4>1
      <4>3. ~(f.epoch < p.epoch)   BY <4>1
      <4>4. p \in Queued   BY <3>1, <4>2, <4>3
      <4>5. p.pts \in Int   BY <1>1, <1>t, <4>4
      <4> HIDE DEF f
      <4> QED   BY <1>8, <2>2, <4>1, <4>4, <4>5
    <3> QED   BY <1>1, <3>3, <3>4 DEF OnWay
  <2>4. CASE screen' = screen /\ asked' = asked /\ f.pts < asked
    <3>1. Skipped(p, n) => Skipped(p, n)'   BY <1>1, <2>4 DEF Skipped
    <3>2. ASSUME NEW q \in Way, q.epoch = p.epoch, q.pts = n PROVE Skipped(p, n)' \/ OnWay(p.epoch, n)'
      <4>1. CASE q \in Queued   BY <1>1, <3>2, <4>1 DEF OnWay
      <4>2. CASE q = f
        <5>1. f.epoch = p.epoch /\ f.pts = n   BY <3>2, <4>2
        <5>2. p \notin Queued
          <6> SUFFICES ASSUME p \in Queued PROVE FALSE
            OBVIOUS
          <6>1. p.pts \in Int /\ f.pts \in Int   BY <1>1, <1>t
          <6> HIDE DEF f
          <6> QED   BY <1>8, <2>2, <5>1, <6>1
        <5>3. \A r \in Queued : f.epoch <= r.epoch
          <6> SUFFICES ASSUME NEW r \in Queued PROVE f.epoch <= r.epoch
            OBVIOUS
          <6>1. Before(f, r) /\ r.epoch \in Nat /\ f.epoch \in Nat   BY <1>1, <1>2, <1>t
          <6> QED   BY <6>1 DEF Before
        <5> QED   BY <1>1, <2>4, <5>1, <5>2, <5>3 DEF Skipped
      <4> QED   BY <1>1, <3>2, <4>1, <4>2
    <3> QED   BY <1>8, <3>1, <3>2 DEF OnWay
  <2> QED   BY <2>3, <2>4
<1>9. OrderInv'   BY <1>1, <1>7 DEF WayInv, OrderInv, Before
<1>10. EpochInv'   BY <1>p, <1>1, <1>4 DEF WayInv, EpochInv, Seeking
<1>11. AheadInv'   BY <1>p, <1>1, <1>4, <1>6 DEF WayInv, AheadInv, MayRead, Seeking
<1>12. GapInv'   BY <1>1, <1>6, <1>8, FrameTimes DEF WayInv, GapInv
<1>13. TailInv'
  <2>1. MayRead' => MayRead   BY DEF MayRead, Seeking
  <2>2. SUFFICES ASSUME MayRead', NEW p \in Seen', p.epoch = epoch, NEW i \in Frames,
                        p.pts < File[i].pts
                 PROVE  demux[1] <= i \/ Skipped(p, File[i].pts)' \/ OnWay(epoch, File[i].pts)'
    BY <1>p DEF TailInv
  <2>3. demux[1] <= i \/ Skipped(p, File[i].pts) \/ OnWay(epoch, File[i].pts)
    BY <2>1, <2>2, <1>6 DEF WayInv, TailInv
  <2> QED   BY <1>p, <2>2, <2>3, <1>8, FrameTimes
<1>14. PlaceInv' /\ StartInv'
  BY <1>p, <1>1, <1>5 DEF WayInv, PlaceInv, StartInv, Seeking
<1> QED   BY <1>9, <1>10, <1>11, <1>12, <1>13, <1>14 DEF WayInv

\* A frame that goes from the queue to the video thread stays on its way; only a
\* FLUSH packet leaves it.
LEMMA TakeKeeps ==
  ASSUME TypeInv, TypeInv', OneViewing, WayInv, VideoTake(1), mVideoPacktList # <<>>
  PROVE  WayInv'
<1> DEFINE h == Head(mVideoPacktList)
<1>o. Sessions = {1} /\ vpc \in [{1} -> VideoLabels] /\ frame \in [{1} -> Packet]
      /\ mVideoPacktList \in Seq(Packet)
  BY WayTypes DEF TypeInv, TypeOK, ControlTypes, PacketTypes
<1>1. /\ vpc[1] = "take" /\ mVideoPacktList' = Tail(mVideoPacktList) /\ frame'[1] = h
      /\ vpc'[1] = (IF IsFlush(h) THEN "loop" ELSE "decode")
      /\ UNCHANGED <<screen, epoch, demux, seekedTo, asked, rpc>>
  BY <1>o DEF VideoTake, VideoAt, VideoGoto, seekVars, readVars, fileVars, placeVars
<1>2. ~Held /\ (Held' <=> ~IsFlush(h))   BY <1>1 DEF Held
<1>3. /\ Len(mVideoPacktList') + 1 = Len(mVideoPacktList) /\ Len(mVideoPacktList') \in Nat
      /\ \A k \in 1..Len(mVideoPacktList') : /\ mVideoPacktList'[k] = mVideoPacktList[k + 1]
                                             /\ k + 1 \in 1..Len(mVideoPacktList)
      /\ h = mVideoPacktList[1] /\ 1 \in 1..Len(mVideoPacktList)
      /\ Queued = Queued' \cup {h}
  BY <1>o, <1>1, TailElements DEF Queued
<1>4. Way = Queued /\ Way' = Queued' \cup {p \in {h} : ~IsFlush(h)}
  BY <1>1, <1>2 DEF Way, Queued
<1>5. Way' \subseteq Way /\ \A p \in Way : p \in Way' \/ p.pts = NoPts
  BY <1>3, <1>4 DEF IsFlush
<1>6. Starts' = Starts /\ Seen' = Seen
  <2>1. NoPts \notin Nat   BY DEF NoPts
  <2>2. Starts' = Starts   BY <1>1 DEF Starts
  <2> QED   BY <1>1, <1>5, <2>1, <2>2 DEF Seen
<1>7. \A e : \A n \in Nat : OnWay(e, n) => OnWay(e, n)'
  <2>1. NoPts \notin Nat   BY DEF NoPts
  <2> QED   BY <1>5, <2>1 DEF OnWay
<1>8. \A p, n : Skipped(p, n) => Skipped(p, n)'   BY <1>1, <1>5 DEF Skipped
<1>9. OrderInv'
  <2>1. \A k, l \in 1..Len(mVideoPacktList) :
          k < l => Before(mVideoPacktList[k], mVideoPacktList[l])
    BY DEF WayInv, OrderInv
  <2>2. \A k, l \in 1..Len(mVideoPacktList') :
          k < l => Before(mVideoPacktList'[k], mVideoPacktList'[l])
    <3> SUFFICES ASSUME NEW k \in 1..Len(mVideoPacktList'), NEW l \in 1..Len(mVideoPacktList'), k < l
                 PROVE  Before(mVideoPacktList'[k], mVideoPacktList'[l])
      OBVIOUS
    <3>1. k + 1 < l + 1   BY <1>3
    <3> QED   BY <1>3, <2>1, <3>1
  <2>3. ASSUME NEW q \in Queued' PROVE Before(h, q)
    <3>1. PICK k \in 1..Len(mVideoPacktList') : q = mVideoPacktList'[k]
      <4>1. PICK next : next = mVideoPacktList'   OBVIOUS
      <4>2. next = Tail(mVideoPacktList)   BY <1>1, <4>1
      <4>3. next \in Seq(Packet)   BY <1>o, <4>2, TailElements
      <4>4. q \in Range(next)   BY <4>1 DEF Queued
      <4> QED   BY <4>1, <4>3, <4>4, QueueMembers
    <3>2. q = mVideoPacktList[k + 1] /\ k + 1 \in 1..Len(mVideoPacktList) /\ 1 < k + 1
      BY <1>3, <3>1
    <3> QED   BY <1>3, <2>1, <3>2
  <2>4. h \in Packet   BY <1>o, <1>3, ElementOfSeq
  <2>5. Held' => h.pts \in Nat   BY <1>2, <2>4 DEF Packet, IsFlush
  <2>6. \A q \in Way' : Before(screen', q)   BY <1>1, <1>5 DEF WayInv, OrderInv
  <2> QED   BY <1>1, <2>2, <2>3, <2>5, <2>6 DEF OrderInv, Before
<1>10. EpochInv'   BY <1>1, <1>5 DEF WayInv, EpochInv, Seeking
<1>11. AheadInv'   BY <1>1, <1>5, <1>6 DEF WayInv, AheadInv, MayRead, Seeking
<1>12. GapInv'   BY <1>5, <1>6, <1>7, <1>8, FrameTimes DEF WayInv, GapInv
<1>13. TailInv'
  <2>1. (MayRead' <=> MayRead) /\ epoch' = epoch /\ demux' = demux   BY <1>1 DEF MayRead, Seeking
  <2> QED   BY <2>1, <1>6, <1>7, <1>8, FrameTimes DEF WayInv, TailInv
<1>14. PlaceInv' /\ StartInv'   BY <1>1, <1>5, <1>6 DEF WayInv, PlaceInv, StartInv, Seeking
<1> QED   BY <1>9, <1>10, <1>11, <1>12, <1>13, <1>14 DEF WayInv

\* What is pushed comes after all that is on its way.
LEMMA PushedInOrder ==
  ASSUME TypeInv, TypeInv', OneViewing, WayInv, NEW p \in Packet,
         mVideoPacktList' = Append(mVideoPacktList, p),
         UNCHANGED <<screen, epoch, frame, vpc>>,
         \A q \in Way \cup {screen} : Before(q, p)
  PROVE  OrderInv' /\ Way' = Way \cup {p}
<1>1. /\ Len(mVideoPacktList') = Len(mVideoPacktList) + 1 /\ Len(mVideoPacktList) \in Nat
      /\ \A k \in 1..Len(mVideoPacktList) : mVideoPacktList'[k] = mVideoPacktList[k]
      /\ mVideoPacktList'[Len(mVideoPacktList) + 1] = p
      /\ Queued' = Queued \cup {p}
  <2>1. PICK next : next = mVideoPacktList'   OBVIOUS
  <2>2. mVideoPacktList \in Seq(Packet) /\ next = Append(mVideoPacktList, p)   BY <2>1, WayTypes
  <2>3. Range(next) = Range(mVideoPacktList) \cup {p}   BY <2>2, AppendedElements, Zenon
  <2>4. /\ Len(next) = Len(mVideoPacktList) + 1 /\ Len(mVideoPacktList) \in Nat
        /\ \A k \in 1..Len(mVideoPacktList) : next[k] = mVideoPacktList[k]
        /\ next[Len(mVideoPacktList) + 1] = p
    BY <2>2, AppendProperties, LenProperties
  <2> QED   BY <2>1, <2>3, <2>4 DEF Queued
<1>2. (Held' <=> Held) /\ Way' = Way \cup {p}   BY <1>1 DEF Held, Way
<1>3. ASSUME NEW k \in 1..Len(mVideoPacktList'), NEW l \in 1..Len(mVideoPacktList'), k < l
      PROVE  Before(mVideoPacktList'[k], mVideoPacktList'[l])
  <2>1. k \in 1..Len(mVideoPacktList)   BY <1>1, <1>3
  <2>2. CASE l \in 1..Len(mVideoPacktList)   BY <1>1, <1>3, <2>1, <2>2 DEF WayInv, OrderInv
  <2>3. CASE l = Len(mVideoPacktList) + 1
    <3>1. mVideoPacktList[k] \in Way   BY <2>1, WayTypes, QueueMembers DEF Way, Queued
    <3> QED   BY <1>1, <2>1, <2>3, <3>1
  <2> QED   BY <1>1, <2>2, <2>3
<1>4. Held' => frame'[1].pts \in Nat /\ \A q \in Queued' : Before(frame'[1], q)
  <2>1. Held => frame[1] \in Way   BY DEF Way
  <2> QED   BY <1>1, <1>2, <2>1 DEF WayInv, OrderInv
<1>5. \A q \in Way' : Before(screen', q)   BY <1>2 DEF WayInv, OrderInv
<1>6. OrderInv'   BY <1>3, <1>4, <1>5 DEF OrderInv, Before
<1> QED   BY <1>2, <1>6

\* The one session reads from its own demuxer.
LEMMA OwnDemuxer == ASSUME TypeInv, OneViewing, Usable PROVE pFormatCtx = 1
  BY DEF TypeInv, TypeOK, PacketTypes, OneViewing, Usable

\* A packet of the file is pushed at the end of the way, which stays without a gap.
LEMMA PacketKeeps ==
  ASSUME TypeInv, TypeInv', OneViewing, WayInv, ReadPacket(1)
  PROVE  WayInv'
<1> DEFINE d == demux[1]
           packet == [pts |-> File[d].pts, epoch |-> epoch]
<1>o. /\ Sessions = {1} /\ rpc \in [{1} -> ReadLabels]
      /\ demux \in [{1} -> 1..(Len(File) + 1)] /\ Len(File) \in Nat
  BY WayTypes, ConstantsAssumption, LenProperties DEF TypeInv, TypeOK, ControlTypes, PacketTypes
<1>1. /\ rpc[1] = "read" /\ rpc'[1] = "loop" /\ d <= Len(File) /\ demux'[1] = d + 1
      /\ mVideoPacktList' = IF File[d].stream = "video" THEN Append(mVideoPacktList, packet)
                                                       ELSE mVideoPacktList
      /\ UNCHANGED <<screen, epoch, seekedTo, frame, vpc, asked>>
  <2>1. pFormatCtx = 1   BY OwnDemuxer DEF ReadPacket
  <2> QED   BY <1>o, <2>1 DEF ReadPacket, ReadAt, ReadGoto, seekVars, otherThreads, videoVars
<1>2. MayRead /\ MayRead' /\ ~Seeking /\ ~Seeking'   BY <1>1 DEF MayRead, Seeking
<1>3. d \in 1..Len(File) /\ d \in Nat   BY <1>o, <1>1
<1>t. /\ \A p \in Way \cup {screen} : p.pts \in Int /\ p.epoch \in Nat
      /\ \A i \in Frames : i \in Nat /\ File[i].pts \in Nat
      /\ \A p \in Starts : p.pts \in Int /\ p.epoch \in Nat /\ p.epoch <= epoch
      /\ epoch \in Nat
  BY WayTypes
<1>a. \A p \in Way \cup Seen : p.epoch = epoch =>
        \A i \in Frames : d <= i => p.pts < File[i].pts
  BY <1>2 DEF WayInv, AheadInv
<1>b. Starts' = Starts   BY <1>1 DEF Starts
<1>c. PlaceInv'   BY <1>2 DEF PlaceInv
<1>d. \A p \in Way \cup Seen : p.pts \in Int /\ p.epoch \in Nat /\ p.epoch <= epoch
  BY <1>t DEF Seen, WayInv, EpochInv
<1>4. CASE File[d].stream # "video"
  <2>1. mVideoPacktList' = mVideoPacktList   BY <1>1, <1>4
  <2>2. Queued' = Queued /\ (Held' <=> Held) /\ Way' = Way /\ Seen' = Seen
    BY <1>1, <1>b, <2>1 DEF Queued, Held, Way, Seen
  <2>s. \A p, n : Skipped(p, n)' <=> Skipped(p, n)   BY <1>1, <2>2 DEF Skipped
  <2>3. \A i \in Frames : d <= i => d + 1 <= i
    <3>1. d \notin Frames   BY <1>4 DEF Frames
    <3> QED   BY <1>3, <1>t, <3>1
  <2>4. \A e, n : OnWay(e, n)' <=> OnWay(e, n)   BY <2>2 DEF OnWay
  <2>5. OrderInv'   BY <1>1, <2>1, <2>2 DEF WayInv, OrderInv, Before
  <2>6. EpochInv'   BY <1>1, <1>2, <2>2 DEF WayInv, EpochInv
  <2>7. \A i \in Frames : d + 1 <= i => d <= i   BY <1>3, <1>t
  <2>8. AheadInv'   BY <1>1, <1>a, <2>2, <2>7 DEF AheadInv
  <2>9. GapInv'   BY <2>2, <2>4, <2>s DEF WayInv, GapInv
  <2>10. TailInv'   BY <1>1, <1>2, <2>s, <2>2, <2>3, <2>4 DEF WayInv, TailInv
  <2>11. StartInv'   BY <1>b, <2>2 DEF WayInv, StartInv
  <2> QED   BY <1>c, <2>5, <2>6, <2>8, <2>9, <2>10, <2>11 DEF WayInv
<1>5. CASE File[d].stream = "video"
  <2>1. d \in Frames   BY <1>3, <1>5 DEF Frames
  <2>2. packet \in Packet /\ packet.pts = File[d].pts /\ packet.epoch = epoch
    BY <1>t, <2>1 DEF Packet
  <2>3. mVideoPacktList' = Append(mVideoPacktList, packet)   BY <1>1, <1>5
  <2>4. \A q \in Way \cup {screen} : Before(q, packet)
    <3> SUFFICES ASSUME NEW q \in Way \cup {screen} PROVE Before(q, packet)
      OBVIOUS
    <3>1. q \in Way \cup Seen /\ q.epoch <= epoch   BY DEF WayInv, EpochInv, Seen
    <3>2. q.epoch = epoch => q.pts < File[d].pts   BY <1>3, <1>a, <2>1, <3>1
    <3> QED   BY <1>t, <2>2, <3>1, <3>2 DEF Before
  <2> HIDE DEF packet
  <2>5. OrderInv' /\ Way' = Way \cup {packet}   BY <1>1, <2>2, <2>3, <2>4, PushedInOrder
  <2>6. Seen' = Seen \cup {packet}
    <3>1. packet.pts \in Nat   BY <1>t, <2>1, <2>2
    <3> QED   BY <1>1, <1>b, <2>5, <3>1 DEF Seen
  <2>s. ASSUME NEW p \in Seen, NEW n, Skipped(p, n) PROVE Skipped(p, n)'
    <3>1. p # packet
      <4>1. p.epoch = epoch => p.pts < File[d].pts   BY <1>3, <1>a, <2>1
      <4>2. p.pts \in Int /\ File[d].pts \in Nat   BY <1>d, <1>t, <2>1
      <4> QED   BY <2>2, <4>1, <4>2
    <3>2. p.epoch <= packet.epoch   BY <1>d, <2>2
    <3> QED   BY <1>1, <2>5, <2>s, <3>1, <3>2 DEF Skipped
  <2>7. \A i \in Frames : File[i].pts < File[d].pts => i < d
    <3> SUFFICES ASSUME NEW i \in Frames, d <= i PROVE ~(File[i].pts < File[d].pts)
      BY <1>3, <1>t
    <3>1. d < i => File[d].pts < File[i].pts   BY <2>1 DEF OneViewing, StoredInOrder
    <3> QED   BY <1>3, <1>t, <2>1, <3>1
  <2>8. \A i \in Frames : i < d => File[i].pts < File[d].pts
    BY <2>1 DEF OneViewing, StoredInOrder
  <2>9. \A i \in Frames : d < i => File[d].pts < File[i].pts
    BY <2>1 DEF OneViewing, StoredInOrder
  <2>10. \A e, n : OnWay(e, n) => OnWay(e, n)'   BY <2>5 DEF OnWay
  <2>11. \A n : n = File[d].pts => OnWay(epoch, n)'   BY <1>1, <2>2, <2>5 DEF OnWay
  <2>12. EpochInv'   BY <1>1, <1>2, <1>t, <2>2, <2>5 DEF WayInv, EpochInv
  <2>13. AheadInv'
    <3> SUFFICES ASSUME NEW p \in Way' \cup Seen', p.epoch = epoch, NEW i \in Frames, d + 1 <= i
                 PROVE  p.pts < File[i].pts
      BY <1>1 DEF AheadInv
    <3>1. d <= i /\ d < i   BY <1>3, <1>t
    <3>2. CASE p \in Way \cup Seen   BY <1>a, <3>1, <3>2
    <3>3. CASE p = packet   BY <2>2, <2>9, <3>1, <3>3
    <3> QED   BY <2>5, <2>6, <3>2, <3>3
  <2>14. GapInv'
    <3> SUFFICES ASSUME NEW p \in Seen', NEW q \in Way', p.epoch = q.epoch, NEW i \in Frames,
                        p.pts < File[i].pts, File[i].pts < q.pts
                 PROVE  Skipped(p, File[i].pts)' \/ OnWay(p.epoch, File[i].pts)'
      BY DEF GapInv
    <3>1. CASE p \in Seen /\ q \in Way   BY <2>s, <2>10, <3>1 DEF WayInv, GapInv
    <3>2. CASE p \in Seen /\ q = packet
      <4>1. i < d   BY <2>2, <2>7, <3>2
      <4>2. ~(d <= i)   BY <1>3, <1>t, <4>1
      <4>3. Skipped(p, File[i].pts) \/ OnWay(epoch, File[i].pts)
        BY <1>2, <2>2, <3>2, <4>2 DEF WayInv, TailInv
      <4> QED   BY <2>s, <2>2, <2>10, <3>2, <4>3
    <3>3. CASE p = packet
      <4>1. q \in Way => q.pts < packet.pts   BY <1>t, <2>2, <2>4, <3>3 DEF Before
      <4>2. q.pts \in Int /\ File[i].pts \in Nat /\ packet.pts \in Nat   BY <1>t, <2>1, <2>2, <2>5
      <4> QED   BY <2>5, <3>3, <4>1, <4>2
    <3> QED   BY <2>5, <2>6, <3>1, <3>2, <3>3
  <2>15. TailInv'
    <3> SUFFICES ASSUME NEW p \in Seen', p.epoch = epoch, NEW i \in Frames, p.pts < File[i].pts
                 PROVE  d + 1 <= i \/ Skipped(p, File[i].pts)' \/ OnWay(epoch, File[i].pts)'
      BY <1>1 DEF TailInv
    <3>1. CASE p \in Seen
      <4>1. d <= i \/ Skipped(p, File[i].pts) \/ OnWay(epoch, File[i].pts)
        BY <1>2, <3>1 DEF WayInv, TailInv
      <4>2. d <= i => d + 1 <= i \/ i = d   BY <1>3, <1>t
      <4>3. i = d => OnWay(epoch, File[i].pts)'   BY <2>11
      <4> QED   BY <1>1, <2>s, <2>10, <3>1, <4>1, <4>2, <4>3
    <3>2. CASE p = packet
      <4>1. ~(i < d) /\ i # d   BY <1>t, <2>1, <2>2, <2>8, <3>2
      <4> QED   BY <1>3, <1>t, <4>1
    <3> QED   BY <2>6, <3>1, <3>2
  <2>16. StartInv'
    <3> SUFFICES ASSUME NEW p \in Starts, p.epoch = epoch PROVE p.pts < File[d].pts
      BY <1>b, <2>2, <2>5 DEF WayInv, StartInv
    <3> QED   BY <1>3, <1>a, <2>1 DEF Seen
  <2> QED   BY <1>c, <2>5, <2>12, <2>13, <2>14, <2>15, <2>16 DEF WayInv
<1> QED   BY <1>4, <1>5

\* Clearing the queue takes all frames off the way but the held one; it is done when
\* the file is at a new position, or for good.
LEMMA ClearedKeeps ==
  ASSUME TypeInv, TypeInv', OneViewing, WayInv,
         UNCHANGED <<screen, placeVars, frame, vpc, asked>>,
         mVideoPacktList' \in {mVideoPacktList, <<>>},
         Seeking' => Seeking, MayRead' => Seeking
  PROVE  WayInv'
<1>p. UNCHANGED <<epoch, demux, seekedTo>>   BY DEF placeVars
<1>1. Queued' \subseteq Queued   BY RangeOfEmpty DEF Queued
<1>2. /\ (Held' <=> Held) /\ Way' \subseteq Way
      /\ Starts' = Starts /\ Seen' \subseteq Seen
  BY <1>p, <1>1 DEF Held, Way, Starts, Seen
<1>3. \A q \in Way : Held => q = frame[1] \/ Before(frame[1], q)   BY DEF WayInv, OrderInv, Way
<1>s. \A p, n : Skipped(p, n) => Skipped(p, n)'   BY <1>2 DEF Skipped
<1>4. OrderInv'
  <2>1. CASE mVideoPacktList' = mVideoPacktList   BY <1>1, <1>2, <2>1 DEF WayInv, OrderInv, Before
  <2>2. CASE mVideoPacktList' = <<>>
    <3>1. Len(mVideoPacktList') = 0 /\ Queued' = {}   BY <2>2, EmptySeq, RangeOfEmpty DEF Queued
    <3> QED   BY <1>2, <3>1 DEF WayInv, OrderInv, Before
  <2> QED   BY <2>1, <2>2
<1>5. EpochInv'   BY <1>p, <1>2 DEF WayInv, EpochInv
<1>6. PlaceInv' /\ StartInv'   BY <1>p, <1>2 DEF WayInv, PlaceInv, StartInv
<1>7. ASSUME MayRead', NEW p \in Way' \cup Seen', p.epoch = epoch, NEW i \in Frames
      PROVE  demux[1] <= i <=> p.pts < File[i].pts
  <2>1. \A q \in Way \cup {screen} : q.epoch < epoch   BY <1>7 DEF WayInv, EpochInv
  <2>2. p \in Starts   BY <1>2, <1>7, <2>1, WayTypes DEF Seen
  <2>3. PICK e \in (screen.epoch + 1)..epoch : p = [pts |-> seekedTo[e] - 1, epoch |-> e]
    BY <2>2 DEF Starts
  <2>4. p.pts = seekedTo[epoch] - 1   BY <1>7, <2>3
  <2>5. seekedTo[epoch] \in Nat
    <3>1. epoch \in Nat /\ seekedTo \in [0..epoch -> Nat]   BY DEF TypeInv, TypeOK, ClockTypes
    <3> QED   BY <3>1
  <2>6. demux[1] <= i <=> seekedTo[epoch] <= File[i].pts   BY <1>7 DEF WayInv, PlaceInv
  <2> QED   BY <2>4, <2>5, <2>6, FrameTimes
<1>8. AheadInv' /\ TailInv'   BY <1>p, <1>7 DEF AheadInv, TailInv
<1>9. GapInv'
  <2>1. CASE mVideoPacktList' = mVideoPacktList
    <3>1. Way' = Way   BY <1>2, <2>1 DEF Queued, Way
    <3> QED   BY <1>2, <1>s, <3>1 DEF WayInv, GapInv, OnWay
  <2>2. CASE mVideoPacktList' = <<>>
    <3> SUFFICES ASSUME NEW p \in Seen', NEW q \in Way', p.epoch = q.epoch, NEW i \in Frames,
                        p.pts < File[i].pts, File[i].pts < q.pts
                 PROVE  Skipped(p, File[i].pts)' \/ OnWay(p.epoch, File[i].pts)'
      BY DEF GapInv
    <3>1. Queued' = {}   BY <2>2, EmptySeq, RangeOfEmpty DEF Queued
    <3>2. Held /\ q = frame[1] /\ q \in Way   BY <1>2, <3>1 DEF Way
    <3>3. Skipped(p, File[i].pts) \/ OnWay(p.epoch, File[i].pts)
      BY <1>2, <3>2 DEF WayInv, GapInv
    <3>4. ~OnWay(p.epoch, File[i].pts)
      <4> SUFFICES ASSUME NEW r \in Way, r.epoch = q.epoch, r.pts = File[i].pts PROVE FALSE
        BY DEF OnWay
      <4>1. r.pts \in Int /\ q.pts \in Int /\ r.epoch \in Nat /\ q.epoch \in Nat   BY <3>2, WayTypes
      <4>2. r # q   BY <4>1
      <4>3. Before(q, r)   BY <1>3, <3>2, <4>2
      <4> QED   BY <4>1, <4>3 DEF Before
    <3> QED   BY <1>s, <3>3, <3>4
  <2> QED   BY <2>1, <2>2
<1> QED   BY <1>4, <1>5, <1>6, <1>8, <1>9 DEF WayInv

\* The FLUSH packet is the first of its seek.
LEMMA FlushKeeps ==
  ASSUME TypeInv, TypeInv', OneViewing, WayInv, ReadFlushVideo(1)
  PROVE  WayInv'
<1>o. Sessions = {1} /\ rpc \in [{1} -> ReadLabels]
  BY WayTypes DEF TypeInv, TypeOK, ControlTypes
<1>1. /\ rpc[1] = "flushVideo" /\ rpc'[1] = "seekClock"
      /\ mVideoPacktList' = Append(mVideoPacktList, Flush)
      /\ UNCHANGED <<screen, epoch, demux, seekedTo, frame, vpc, asked>>
  BY <1>o DEF ReadFlushVideo, ReadAt, ReadGoto, seekVars, fileVars, placeVars, otherThreads, videoVars
<1>2. Seeking /\ ~Seeking'   BY <1>1 DEF Seeking
<1>t. epoch \in Nat /\ seekedTo \in [0..epoch -> Nat]   BY DEF TypeInv, TypeOK, ClockTypes
<1>3. Flush \in Packet /\ Flush.pts = NoPts /\ Flush.epoch = epoch /\ Flush.pts \notin Nat /\ Flush.pts = -1
  BY WayTypes DEF Flush, Packet, NoPts
<1>4. \A q \in Way \cup {screen} : q.epoch < epoch /\ Before(q, Flush)
  BY <1>2, <1>3 DEF WayInv, EpochInv, Before
<1>5. OrderInv' /\ Way' = Way \cup {Flush}   BY <1>1, <1>3, <1>4, PushedInOrder
<1>6. Starts' = Starts /\ Seen' = Seen
  <2>1. Starts' = Starts   BY <1>1 DEF Starts
  <2> QED   BY <1>1, <1>3, <1>5, <2>1 DEF Seen
<1>7. \A q \in Way \cup {screen} : q.epoch # epoch   BY <1>4, WayTypes
<1>8. EpochInv'
  <2>1. epoch <= epoch   BY WayTypes
  <2>2. \A q \in Way \cup {screen} : q.epoch <= epoch   BY DEF WayInv, EpochInv
  <2> QED   BY <1>1, <1>2, <1>3, <1>5, <2>1, <2>2 DEF EpochInv
<1>9. ASSUME NEW p \in Seen, p.epoch = epoch, NEW i \in Frames
      PROVE  demux[1] <= i <=> p.pts < File[i].pts
  <2>1. p \in Starts   BY <1>7, <1>9 DEF Seen
  <2>2. PICK e \in (screen.epoch + 1)..epoch : p = [pts |-> seekedTo[e] - 1, epoch |-> e]
    BY <2>1 DEF Starts
  <2>3. p.pts = seekedTo[epoch] - 1   BY <1>9, <2>2
  <2>4. seekedTo[epoch] \in Nat   BY <1>t
  <2>5. demux[1] <= i <=> seekedTo[epoch] <= File[i].pts   BY <1>2 DEF WayInv, PlaceInv
  <2> QED   BY <2>3, <2>4, <2>5, FrameTimes
<1>10. AheadInv'
  <2> SUFFICES ASSUME NEW p \in Way' \cup Seen', p.epoch = epoch, NEW i \in Frames, demux[1] <= i
               PROVE  p.pts < File[i].pts
    BY <1>1 DEF AheadInv
  <2>1. CASE p = Flush   BY <1>3, <2>1, FrameTimes
  <2>2. CASE p \in Seen   BY <1>9, <2>2
  <2> QED   BY <1>5, <1>6, <1>7, <2>1, <2>2
<1>11. TailInv'
  <2> SUFFICES ASSUME NEW p \in Seen, p.epoch = epoch, NEW i \in Frames, p.pts < File[i].pts
               PROVE  demux[1] <= i
    BY <1>1, <1>6 DEF TailInv
  <2> QED   BY <1>9
<1>12. GapInv'
  <2> SUFFICES ASSUME NEW p \in Seen, NEW q \in Way \cup {Flush}, p.epoch = q.epoch, NEW i \in Frames,
                      p.pts < File[i].pts, File[i].pts < q.pts
               PROVE  Skipped(p, File[i].pts)' \/ OnWay(p.epoch, File[i].pts)'
    BY <1>5, <1>6 DEF GapInv
  <2>1. q # Flush
    <3>1. File[i].pts \in Nat   BY FrameTimes
    <3> QED   BY <1>3, <3>1
  <2>2. p.epoch # epoch   BY <1>7, <2>1
  <2>3. Skipped(p, File[i].pts) \/ OnWay(p.epoch, File[i].pts)   BY <2>1 DEF WayInv, GapInv
  <2>4. p # Flush /\ p.epoch <= epoch
    <3>1. p \in Way \cup {screen} \/ p \in Starts   BY DEF Seen
    <3> QED   BY <1>3, <2>2, <3>1, WayTypes DEF WayInv, EpochInv
  <2>5. Skipped(p, File[i].pts) => Skipped(p, File[i].pts)'
    BY <1>1, <1>3, <1>5, <2>4 DEF Skipped
  <2> QED   BY <1>5, <2>3, <2>5 DEF OnWay
<1>13. PlaceInv'   BY <1>2 DEF PlaceInv
<1>14. StartInv'   BY <1>3, <1>5, <1>6 DEF WayInv, StartInv
<1> QED   BY <1>5, <1>8, <1>10, <1>11, <1>12, <1>13, <1>14 DEF WayInv

\* After a seek all that is on its way is old.
LEMMA SeekKeeps ==
  ASSUME TypeInv, TypeInv', OneViewing, WayInv, Usable, rpc'[1] = "clearAudio",
         NEW k \in KeyPositions(seek_pos), MoveTo(k),
         UNCHANGED <<mVideoPacktList, screen, frame, vpc, asked>>
  PROVE  WayInv'
<1>t. /\ epoch \in Nat /\ seekedTo \in [0..epoch -> Nat] /\ Sessions = {1}
      /\ demux \in [Sessions -> 1..(Len(File) + 1)]
      /\ \A p \in Way \cup {screen} : p.epoch \in Nat /\ p.epoch <= epoch /\ p.epoch < epoch + 1
      /\ \A p \in Starts : p.epoch \in Nat /\ p.epoch <= epoch
  <2>1. seekedTo \in [0..epoch -> Nat] /\ demux \in [Sessions -> 1..(Len(File) + 1)]
    BY DEF TypeInv, TypeOK, ClockTypes, PacketTypes
  <2>2. ASSUME NEW p \in Way \cup {screen}
        PROVE  p.epoch \in Nat /\ p.epoch <= epoch /\ p.epoch < epoch + 1
    <3>1. p.epoch \in Nat /\ p.epoch <= epoch /\ epoch \in Nat   BY WayTypes DEF WayInv, EpochInv
    <3> QED   BY <3>1
  <2> QED   BY <2>1, <2>2, WayTypes
<1>1. /\ epoch' = epoch + 1 /\ demux'[1] = k
      /\ \A e \in 0..epoch : seekedTo'[e] = seekedTo[e]
      /\ seekedTo'[epoch + 1] = File[k].pts
  <2>1. pFormatCtx = 1   BY OwnDemuxer
  <2>2. epoch + 1 \in 0..(epoch + 1) /\ epoch + 1 \notin 0..epoch /\ 0..epoch \subseteq 0..(epoch + 1)
    BY <1>t
  <2>3. demux'[1] = k   BY <1>t, <2>1 DEF MoveTo
  <2> QED   BY <2>2, <2>3 DEF MoveTo
<1>2. Queued' = Queued /\ (Held' <=> Held) /\ Way' = Way   BY DEF Queued, Held, Way
<1>3. ASSUME NEW p \in Starts' PROVE p \in Starts \/ p.epoch = epoch'
  <2>1. PICK e \in (screen.epoch + 1)..(epoch + 1) : p = [pts |-> seekedTo'[e] - 1, epoch |-> e]
    BY <1>1 DEF Starts
  <2>2. CASE e = epoch + 1   BY <1>1, <2>1, <2>2
  <2>3. CASE e # epoch + 1
    <3>1. e \in (screen.epoch + 1)..epoch /\ e \in 0..epoch   BY <1>t, <2>3
    <3>2. p = [pts |-> seekedTo[e] - 1, epoch |-> e]   BY <1>1, <2>1, <3>1
    <3> QED   BY <3>1, <3>2 DEF Starts
  <2> QED   BY <2>2, <2>3
<1>4. ASSUME NEW p \in Seen', NEW q \in Way, p.epoch = q.epoch PROVE p \in Seen
  <2>1. p.epoch # epoch'   BY <1>1, <1>4, <1>t
  <2> QED   BY <1>2, <1>3, <2>1 DEF Seen
<1>5. Seeking' /\ ~MayRead'   BY DEF MayRead, Seeking
<1>6. OrderInv'   BY <1>2 DEF WayInv, OrderInv, Before
<1>7. EpochInv'   BY <1>1, <1>2, <1>t DEF EpochInv
<1>8. GapInv'
  <2>1. \A p, n : Skipped(p, n)' <=> Skipped(p, n)   BY <1>2 DEF Skipped
  <2> QED   BY <1>2, <1>4, <2>1 DEF WayInv, GapInv, OnWay
<1>9. StartInv'
  <2> SUFFICES ASSUME NEW p \in Starts', NEW q \in Way, p.epoch = q.epoch, q.pts \in Nat
               PROVE  p.pts < q.pts
    BY <1>2 DEF StartInv
  <2>1. p.epoch # epoch'   BY <1>1, <1>t
  <2> QED   BY <1>3, <2>1 DEF WayInv, StartInv
<1>10. PlaceInv'
  <2> SUFFICES ASSUME NEW i \in Frames PROVE k <= i <=> File[k].pts <= File[i].pts
    BY <1>1 DEF PlaceInv
  <2>1. k \in Frames
    <3>1. HasStream("video")   BY DEF Frames, HasStream
    <3> QED   BY <3>1 DEF KeyPositions, SeekStream, Frames
  <2>2. k < i => File[k].pts < File[i].pts   BY <2>1 DEF OneViewing, StoredInOrder
  <2>3. i < k => File[i].pts < File[k].pts   BY <2>1 DEF OneViewing, StoredInOrder
  <2>4. /\ k \in Nat /\ i \in Nat /\ File[k].pts \in Nat /\ File[i].pts \in Nat
        /\ k = i => File[k].pts = File[i].pts
    BY <2>1, FrameTimes
  <2> QED   BY <2>2, <2>3, <2>4
<1> QED   BY <1>5, <1>6, <1>7, <1>8, <1>9, <1>10 DEF WayInv, AheadInv, TailInv

\* Every step of a move keeps the invariant.
LEMMA MovesKeep ==
  ASSUME TypeInv, TypeInv', OneViewing, FrameInv, FrameMoves(1)
  PROVE  FrameInv'
<1>o. /\ Sessions = {1} /\ rpc \in [{1} -> ReadLabels] /\ vpc \in [{1} -> VideoLabels]
      /\ frame \in [{1} -> Packet] /\ seek_time \in Nat /\ asked \in Nat
  BY WayTypes DEF TypeInv, TypeOK, ControlTypes, PacketTypes
<1>b. BeginInv   BY DEF FrameInv
<1>e. Ended \/ WayInv   BY DEF FrameInv
<1>a. asked <= asked /\ seek_time <= seek_time   BY <1>o
<1> USE DEF ReadAt, ReadGoto, VideoAt, VideoGoto, controlVars, finishVars, seekVars, clockVars,
            streamVars, queueVars, fileVars, placeVars, readVars, videoVars, uiVars, playerVars, otherThreads
<1>1. CASE ReadSeek(1)
  <2>1. rpc[1] = "loop" /\ UNCHANGED <<mVideoPacktList, screen, frame, vpc, asked, seek_time>>
    BY <1>1 DEF ReadSeek
  <2>2. CASE rpc'[1] = "clearAudio" /\ \E k \in KeyPositions(seek_pos) : MoveTo(k)
    <3>1. BeginInv' /\ (Ended => Ended')   BY <1>b, <2>1, <2>2 DEF BeginInv, Ended
    <3>2. Usable   BY <1>1 DEF ReadSeek
    <3>3. WayInv => WayInv'   BY <2>1, <2>2, <3>2, SeekKeeps
    <3> QED   BY <1>e, <3>1, <3>3 DEF FrameInv
  <2>3. CASE rpc'[1] = "seekDone" /\ UNCHANGED placeVars
    <3>1. Inert
      BY <1>a, <1>b, <2>1, <2>3 DEF Inert, BeginInv, Held, Ended, MayRead, Seeking
    <3> QED   BY <3>1, InertKeeps
  <2> QED   BY <1>o, <1>1, <2>2, <2>3 DEF ReadSeek
<1>2. CASE ReadClearVideo(1)
  <2>1. /\ rpc[1] = "clearVideo" /\ rpc'[1] \in {"flushVideo", "seekClock"}
        /\ mVideoPacktList' \in {mVideoPacktList, <<>>}
        /\ UNCHANGED <<screen, placeVars, frame, vpc, asked, seek_time>>
    BY <1>o, <1>2 DEF ReadClearVideo
  <2>2. Seeking   BY <2>1 DEF Seeking
  <2>3. BeginInv' /\ (Ended => Ended')   BY <1>b, <2>1 DEF BeginInv, Ended
  <2>4. WayInv => WayInv'   BY <2>1, <2>2, ClearedKeeps
  <2> QED   BY <1>e, <2>3, <2>4 DEF FrameInv
<1>3. CASE ReadFlushVideo(1)
  <2>1. rpc'[1] = "seekClock" /\ UNCHANGED <<vpc, asked, seek_time>>
    BY <1>o, <1>3 DEF ReadFlushVideo
  <2>2. BeginInv' /\ (Ended => Ended')   BY <1>b, <2>1 DEF BeginInv, Ended
  <2>3. WayInv => WayInv'   BY <1>3, FlushKeeps
  <2> QED   BY <1>e, <2>2, <2>3 DEF FrameInv
<1>4. CASE ReadPacket(1)
  <2>1. rpc'[1] = "loop" /\ UNCHANGED <<vpc, asked, seek_time>>
    BY <1>o, <1>4 DEF ReadPacket
  <2>2. BeginInv' /\ (Ended => Ended')   BY <1>b, <2>1 DEF BeginInv, Ended
  <2>3. WayInv => WayInv'   BY <1>4, PacketKeeps
  <2> QED   BY <1>e, <2>2, <2>3 DEF FrameInv
<1>5. CASE ReadEndVideo(1)
  <2>1. /\ rpc'[1] = "stopSelf" /\ mVideoPacktList' = <<>>
        /\ UNCHANGED <<screen, placeVars, frame, vpc, asked, seek_time>>
    BY <1>o, <1>5 DEF ReadEndVideo
  <2>2. ~MayRead' /\ ~Seeking'   BY <2>1 DEF MayRead, Seeking
  <2>3. BeginInv' /\ (Ended => Ended')   BY <1>b, <2>1 DEF BeginInv, Ended
  <2>4. WayInv => WayInv'   BY <2>1, <2>2, ClearedKeeps
  <2> QED   BY <1>e, <2>3, <2>4 DEF FrameInv
<1>6. CASE VideoLoop(1)
  <2>1. vpc[1] = "loop" /\ UNCHANGED <<rpc, screen, placeVars, frame, asked, seek_time>>
    BY <1>6 DEF VideoLoop
  <2>2. rpc[1] \notin {"none", "init", "open", "videoCodec"}   BY <1>b, <2>1 DEF BeginInv
  <2>3. BeginInv'   BY <1>b, <2>1, <2>2 DEF BeginInv
  <2>4. CASE vpc'[1] = "exit"   BY <2>3, <2>4 DEF FrameInv, Ended
  <2>5. CASE vpc'[1] = "take" /\ UNCHANGED mVideoPacktList
    <3>1. Inert   BY <1>a, <2>1, <2>3, <2>5 DEF Inert, Held, Ended, MayRead, Seeking
    <3> QED   BY <3>1, InertKeeps
  <2> QED   BY <1>o, <1>6, <2>4, <2>5 DEF VideoLoop
<1>7. CASE VideoTake(1)
  <2>1. /\ vpc[1] = "take" /\ vpc'[1] \in {"empty", "loop", "decode"}
        /\ UNCHANGED <<rpc, screen, placeVars, asked, seek_time>>
    BY <1>o, <1>7 DEF VideoTake
  <2>2. rpc[1] \notin {"none", "init", "open", "videoCodec"}   BY <1>b, <2>1 DEF BeginInv
  <2>3. BeginInv'   BY <1>b, <2>1, <2>2 DEF BeginInv
  <2>4. CASE mVideoPacktList = <<>>
    <3>1. vpc'[1] = "empty" /\ UNCHANGED <<mVideoPacktList, frame>>
      BY <1>o, <1>7, <2>4 DEF VideoTake
    <3>2. Inert   BY <1>a, <2>1, <2>3, <3>1 DEF Inert, Held, Ended, MayRead, Seeking
    <3> QED   BY <3>2, InertKeeps
  <2>5. CASE mVideoPacktList # <<>>
    <3>1. WayInv   BY <1>e, <2>1 DEF Ended
    <3>2. WayInv'   BY <1>7, <2>5, <3>1, TakeKeeps
    <3> QED   BY <2>3, <3>2 DEF FrameInv
  <2> QED   BY <2>4, <2>5
<1>8. CASE VideoSeekCheck(1)
  <2>1. /\ vpc[1] = "seekCheck"
        /\ UNCHANGED <<rpc, mVideoPacktList, screen, placeVars, frame, asked, seek_time>>
    BY <1>8 DEF VideoSeekCheck
  <2>2. rpc[1] \notin {"none", "init", "open", "videoCodec"}   BY <1>b, <2>1 DEF BeginInv
  <2>3. BeginInv'   BY <1>b, <2>1, <2>2 DEF BeginInv
  <2>4. CASE vpc'[1] = "loop" /\ frame[1].pts < seek_time
    <3>1. WayInv /\ Held /\ ~Held'   BY <1>e, <2>1, <2>4 DEF Ended, Held
    <3>2. frame[1].pts < asked
      <4>1. frame[1].pts \in Int   BY <1>o DEF Packet, NoPts
      <4> QED   BY <1>b, <1>o, <2>4, <4>1 DEF BeginInv
    <3>3. WayInv'   BY <2>1, <3>1, <3>2, HeldLeaves
    <3> QED   BY <2>3, <3>3 DEF FrameInv
  <2>5. CASE vpc'[1] \in {"sync", "found"}
    <3>1. Inert   BY <1>a, <2>1, <2>3, <2>5 DEF Inert, Held, Ended, MayRead, Seeking
    <3> QED   BY <3>1, InertKeeps
  <2> QED   BY <1>o, <1>8, <2>4, <2>5 DEF VideoSeekCheck
<1>9. CASE VideoShow(1)
  <2>1. /\ vpc[1] = "show" /\ vpc'[1] \in {"repause", "loop"}
        /\ screen' = frame[1] /\ asked' = seek_time
        /\ UNCHANGED <<rpc, mVideoPacktList, placeVars, frame, seek_time>>
    BY <1>o, <1>9 DEF VideoShow
  <2>2. rpc[1] \notin {"none", "init", "open", "videoCodec"}   BY <1>b, <2>1 DEF BeginInv
  <2>3. BeginInv'   BY <1>a, <2>1, <2>2 DEF BeginInv
  <2>4. WayInv /\ Held /\ ~Held'   BY <1>e, <2>1 DEF Ended, Held
  <2>5. WayInv'   BY <2>1, <2>4, HeldLeaves
  <2> QED   BY <2>3, <2>5 DEF FrameInv
<1> QED   BY <1>1, <1>2, <1>3, <1>4, <1>5, <1>6, <1>7, <1>8, <1>9 DEF FrameMoves

\* So does every step of the player.
LEMMA NextFrames ==
  ASSUME TypeInv, TypeInv', OneViewing, NotStarted, FrameInv, [Next]_vars
  PROVE  FrameInv'
<1>1. CASE Next /\ \A s \in Sessions : ~FrameMoves(s)
  <2>1. BeginInv   BY DEF FrameInv
  <2> QED   BY <1>1, <2>1, OthersInert, InertKeeps
<1>2. CASE \E s \in Sessions : FrameMoves(s)   BY <1>2, WayTypes, MovesKeep
<1>3. CASE UNCHANGED vars
  <2>1. asked <= asked   BY WayTypes
  <2>2. BeginInv   BY DEF FrameInv
  <2>3. Inert
    BY <1>3, <2>1, <2>2 DEF Inert, BeginInv, Held, Ended, MayRead, Seeking, vars, playerVars, seekVars,
       queueVars, threadVars, readVars, fileVars, placeVars, videoVars
  <2> QED   BY <2>3, InertKeeps
<1> QED   BY <1>1, <1>2, <1>3

\* The only step that leaves "show" gives the held frame to the screen.
LEMMA ShowsHeld ==
  ASSUME TypeInv, OneViewing, BeginInv, [Next]_vars, vpc[1] = "show", vpc'[1] # "show"
  PROVE  screen' = frame[1]
<1>o. Sessions = {1} /\ vpc \in [{1} -> VideoLabels]
  BY WayTypes DEF TypeInv, TypeOK, ControlTypes
<1>b. rpc[1] # "videoCodec"   BY DEF BeginInv
<1> USE <1>o DEF VideoAt, VideoGoto, readVars, videoVars, threadVars, otherThreads
<1>1. CASE UiCalls
  BY <1>1 DEF UiCalls, UiStop, UiOpen, UiReplay, UiPlay, UiPause, UiSeek, UiSpeed
<1>2. CASE UiProceeds
  BY <1>2 DEF UiProceeds, UiStopReturns, startPlay, playState, pauseState, setSpeed, UiSpeedPlay,
              UiSeekRequest
<1>3. ~ReadThread(1)
  <2>1. \A l, f : ~OpenFails(1, l, f)   BY DEF OpenFails
  <2>2. ~ReadVideoCodec(1)   BY <1>b DEF ReadVideoCodec, ReadAt
  <2>3. ~(ReadInit(1) \/ ReadOpen(1) \/ ReadAudioCodec(1) \/ ReadDevice(1) \/ ReadPlaying(1))
    BY DEF ReadInit, ReadOpen, ReadAudioCodec, ReadDevice, ReadPlaying
  <2>4. ~(\/ ReadLoop(1) \/ ReadSeek(1) \/ ReadClearAudio(1) \/ ReadFlushAudio(1)
          \/ ReadClearVideo(1) \/ ReadFlushVideo(1) \/ ReadSeekClock(1) \/ ReadSeekDone(1))
    BY DEF ReadLoop, ReadSeek, ReadClearAudio, ReadFlushAudio, ReadClearVideo, ReadFlushVideo,
           ReadSeekClock, ReadSeekDone
  <2>5. ~(\/ ReadSeekTime(1) \/ ReadSeekPause(1) \/ ReadSeekNeed(1) \/ ReadSeekUnpause(1)
          \/ ReadRoom(1) \/ ReadPacket(1) \/ ReadEof(1) \/ ReadWaitQuit(1))
    BY DEF ReadSeekTime, ReadSeekPause, ReadSeekNeed, ReadSeekUnpause, ReadRoom, ReadPacket,
           ReadEof, ReadWaitQuit
  <2>6. ~(\/ ReadEndAudio(1) \/ ReadEndVideo(1) \/ ReadStopSelf(1) \/ ReadQuitSelf(1)
          \/ ReadJoin(1) \/ ReadClose(1) \/ ReadFree(1) \/ ReadCrash(1))
    BY DEF ReadEndAudio, ReadEndVideo, ReadStopSelf, ReadQuitSelf, ReadJoin, ReadClose, ReadFree,
           ReadCrash
  <2> QED   BY <2>1, <2>2, <2>3, <2>4, <2>5, <2>6 DEF ReadThread
<1>4. CASE VideoThread(1)
  BY <1>4 DEF VideoThread, VideoStart, VideoLoop, VideoTake, VideoEmpty, VideoDecode, VideoSeekCheck,
              VideoFound, VideoSync, VideoShow, VideoRepause, VideoClearNeed, VideoExit, VideoCrash
<1>5. CASE AudioCallback
  BY <1>5 DEF AudioCallback, AudioCheck, AudioClear, AudioTake, AudioSeekCheck, AudioFound, AudioCrash
<1>6. CASE Tick   BY <1>6 DEF Tick
<1> QED   BY <1>1, <1>2, <1>3, <1>4, <1>5, <1>6 DEF Next, vars

\* It is the next one.
LEMMA ShowsNext ==
  ASSUME TypeInv, OneViewing, FrameInv, [Next]_vars, vpc[1] = "show", vpc'[1] # "show"
  PROVE  InSequence(screen')
<1> DEFINE f == frame[1]
<1>1. BeginInv   BY DEF FrameInv
<1>2. screen' = f   BY <1>1, ShowsHeld
<1>3. WayInv /\ Held   BY DEF FrameInv, Ended, Held
<1>4. f \in Way /\ screen \in Seen /\ Before(screen, f) /\ f.pts \in Nat /\ f.epoch <= epoch
  BY <1>3 DEF WayInv, OrderInv, EpochInv, Way, Seen
<1>t. /\ f.pts \in Int /\ f.epoch \in Nat /\ screen.pts \in Int /\ screen.epoch \in Nat
      /\ \A q \in Way : q.pts \in Int /\ q.epoch \in Nat
      /\ epoch \in Nat /\ asked \in Nat /\ \A i \in Frames : File[i].pts \in Nat
  BY <1>4, WayTypes
<1>5. ASSUME NEW p \in Seen, p.epoch = f.epoch, p.pts < f.pts PROVE NextFrame(p.pts, f.pts)
  <2>1. ASSUME NEW i \in Frames, p.pts < File[i].pts, File[i].pts < f.pts, asked <= File[i].pts
        PROVE  FALSE
    <3>1. Skipped(p, File[i].pts) \/ OnWay(p.epoch, File[i].pts)
      BY <1>3, <1>4, <1>5, <2>1 DEF WayInv, GapInv
    <3>2. ~Skipped(p, File[i].pts)   BY <1>t, <2>1 DEF Skipped
    <3>3. PICK q \in Way : q.epoch = f.epoch /\ q.pts = File[i].pts   BY <1>5, <3>1, <3>2 DEF OnWay
    <3>4. q # f   BY <1>t, <2>1, <3>3
    <3>5. Before(f, q)   BY <1>3, <3>4 DEF WayInv, OrderInv, Way
    <3> QED   BY <1>t, <2>1, <3>3, <3>5 DEF Before
  <2> QED   BY <1>5, <2>1 DEF NextFrame, Frames
<1>6. CASE f.epoch = screen.epoch
  <2>1. screen.pts < f.pts   BY <1>4, <1>6, <1>t DEF Before
  <2>2. NextFrame(screen.pts, f.pts)   BY <1>4, <1>5, <1>6, <2>1
  <2> QED   BY <1>2, <1>6, <2>2 DEF InSequence
<1>7. CASE f.epoch > screen.epoch
  <2> DEFINE p == [pts |-> seekedTo[f.epoch] - 1, epoch |-> f.epoch]
  <2>1. f.epoch \in (screen.epoch + 1)..epoch   BY <1>4, <1>7, <1>t
  <2>2. p \in Starts /\ p \in Seen   BY <2>1 DEF Starts, Seen
  <2>3. p.pts < f.pts   BY <1>3, <1>4, <2>2 DEF WayInv, StartInv
  <2>4. NextFrame(p.pts, f.pts)   BY <1>5, <2>2, <2>3
  <2> QED   BY <1>2, <1>7, <2>4 DEF InSequence
<1> QED   BY <1>4, <1>6, <1>7, <1>t DEF Before

\* In one session of a file whose video packets are stored in the order of their times,
\* each giving a frame, whatever is sought, paused and fails: every frame displayed is the
\* next one of the file after the last, none twice, and the first after a seek the next from
\* the key frame the seek went to; none is left out but those before a position asked for
\* (VideoPlayer_VideoThread.cpp:48-83, 125-136).
THEOREM FramesInSequence ==
  ASSUME OneViewing
  PROVE  Spec => DisplayedInSequence
<1>1. Init => FrameInv   BY InitFrames
<1>2. Spec => []NotStarted
  <2>1. Init => NotStarted   BY DEF Init, NotStarted
  <2>2. TypeInv /\ NotStarted /\ [Next]_vars => NotStarted'
    <3>1. CASE UNCHANGED vars   BY <3>1 DEF NotStarted, vars, playerVars, threadVars, readVars, uiVars
    <3> QED   BY <3>1, ReadingLeft
  <2> QED   BY <2>1, <2>2, TypeInvHolds, PTL DEF Spec
<1>3. TypeInv /\ TypeInv' /\ NotStarted /\ FrameInv /\ [Next]_vars => FrameInv'   BY NextFrames
<1>4. Spec => []FrameInv   BY <1>1, <1>2, <1>3, TypeInvHolds, PTL DEF Spec
<1>5. TypeInv /\ FrameInv /\ [Next]_vars =>
        [\A s \in Sessions : vpc[s] = "show" /\ vpc'[s] # "show" => InSequence(screen')]_vars
  <2> SUFFICES ASSUME TypeInv, FrameInv, [Next]_vars, NEW s \in Sessions,
                      vpc[s] = "show", vpc'[s] # "show"
               PROVE  InSequence(screen')
    OBVIOUS
  <2>1. s = 1   BY DEF OneViewing, Sessions
  <2> QED   BY <2>1, ShowsNext
<1> QED   BY <1>4, <1>5, TypeInvHolds, PTL DEF Spec, DisplayedInSequence
=============================================================================
