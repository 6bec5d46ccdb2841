------------------------------ MODULE VideoPlayer ------------------------------
(***************************************************************************)
(* The player of ffmpeg/video_player: class VideoPlayer with the Qt thread *)
(* that calls it, the detached read thread of each startPlay               *)
(* (readVideoFile), the video decoding thread it starts                    *)
(* (decodeVideoThread) and SDL's audio callback (decodeAudioFrame).  All   *)
(* of them share the fields of one object, mostly without a lock, so a     *)
(* step of this module is the code between two accesses that another       *)
(* thread can separate.  A loop that polls a flag is a step that is        *)
(* disabled until the flag has the awaited value.                          *)
(*                                                                         *)
(* Nor does a session own the demuxer and the codecs it opens: they are    *)
(* fields too, which the next session replaces and whichever session ends  *)
(* frees.  Code that goes through one that is missing, or that is another  *)
(* session's, may crash the program.                                       *)
(*                                                                         *)
(* A media file is the sequence File of its packets in storage order.      *)
(* Presentation times, seek positions, audio_clock, video_clock and the    *)
(* time since mVideoStartTime share one unit.                              *)
(*                                                                         *)
(* A definition named Op_X is not used by the specification: it is Op with *)
(* the fault X, which a property of this module tells from Op.             *)
(***************************************************************************)
EXTENDS Integers, Sequences, FiniteSets

CONSTANTS
  File,         \* packets [stream |-> "video" | "audio", pts |-> n] in storage order
  MaxAudio,     \* MAX_AUDIO_SIZE
  MaxVideo,     \* MAX_VIDEO_SIZE
  Targets,      \* positions the slider can ask for
  Failures,     \* the calls of FFmpeg and SDL that may fail, a subset of Failure
  Uninit,       \* values the flags the constructor leaves unset may have
  Ops,          \* calls the user interface makes, a subset of Op
  MaxOps,       \* bound: calls made in one behaviour
  MaxStarts,    \* bound: calls of startPlay in one behaviour
  MaxClock      \* bound: the wall clock is followed up to this position

Failure == {"noFile", "noVideoCodec", "noAudioDecoder", "noAudioCodec", "noDevice",
            "staleFormat", "noSeek", "noFrame"}
Op == {"open", "stop", "play", "pause", "seek", "speed", "replay"}
Streams == {"video", "audio"}

ASSUME ConstantsAssumption ==
  /\ File \in Seq([stream : Streams, pts : Nat])
  /\ MaxAudio \in Nat /\ MaxVideo \in Nat
  /\ Targets \subseteq Nat
  /\ Failures \subseteq Failure
  /\ Uninit \subseteq BOOLEAN
  /\ Ops \subseteq Op
  /\ MaxOps \in Nat /\ MaxStarts \in Nat /\ MaxClock \in Nat

Sessions == 1..MaxStarts      \* the k-th startPlay starts read thread k

NoPts == -1                   \* AV_NOPTS_VALUE, the time of a FLUSH packet
Packet == [pts : Nat \cup {NoPts}, epoch : Nat]
NoFrame == [pts |-> NoPts, epoch |-> 0]
IsFlush(p) == p.pts = NoPts

HasStream(st) == \E i \in 1..Len(File) : File[i].stream = st

VARIABLES
  mPlayerState, mIsQuit, mIsPause, mIsNeedPause,
  mIsReadFinished, mIsReadThreadFinished, mIsVideoThreadFinished, mIsAudioThreadFinished,
  seek_req, seek_pos, seek_time, seek_flag_audio, seek_flag_video,
  audio_clock, video_clock, speed,
  elapsed,      \* av_gettime() - mVideoStartTime
  pausedAt,     \* mPauseStartTime - mVideoStartTime
  mVideoStream, mAudioStream,          \* "is not null"
  mVideoPacktList, mAudioPacktList,
  mAudioID,     \* SDL device: "none", "paused" or "running"
  rpc,          \* where each read thread is
  pFormatCtx,   \* the demuxer: 0 when null, k when it is the one session k allocated
  demux,        \* position of each demuxer in the file: index of the next packet
  crashed,      \* the program has ended on an access to a demuxer or a codec
  audioStream,  \* its local "audioStream >= 0"
  vpc, frame,   \* where each video thread is, the packet it holds
  apc,          \* where the audio callback is
  upc,          \* where the user interface thread is
  screen,       \* the frame last given to doDisplayVideo
  epoch,        \* number of successful av_seek_frame calls
  seekedTo,     \* history: the time each of them went to, 0 for the start of the file
  asked,        \* history: the farthest seek_time since the frame on the screen was given
  starts, ops   \* what the bounds count

controlVars == <<mPlayerState, mIsQuit, mIsPause, mIsNeedPause>>
finishVars  == <<mIsReadThreadFinished, mIsVideoThreadFinished, mIsAudioThreadFinished>>
seekVars    == <<seek_req, seek_pos, seek_time, seek_flag_audio, seek_flag_video, asked>>
clockVars   == <<audio_clock, video_clock, elapsed, pausedAt>>
streamVars  == <<mVideoStream, mAudioStream>>
queueVars   == <<mVideoPacktList, mAudioPacktList>>
placeVars   == <<demux, epoch, seekedTo>>
fileVars    == <<pFormatCtx, placeVars, audioStream, mIsReadFinished, crashed>>
readVars    == <<rpc, fileVars>>
videoVars   == <<vpc, frame, screen>>
uiVars      == <<upc, speed, starts, ops>>
playerVars  == <<controlVars, finishVars, seekVars, clockVars, streamVars, queueVars, mAudioID>>
threadVars  == <<readVars, videoVars, apc>>
otherThreads == <<videoVars, apc, uiVars>>     \* other than a read thread
vars == <<playerVars, threadVars, uiVars>>

ReadLabels == {"none", "init", "open", "videoCodec", "audioCodec", "device", "playing",
               "loop", "clearAudio", "flushAudio", "clearVideo", "flushVideo", "seekClock",
               "seekDone", "seekTime", "seekPause", "seekNeed", "seekUnpause", "room", "read",
               "waitQuit", "clear", "clearLast", "stopSelf", "quitSelf", "join", "close", "free", "done"}
VideoLabels == {"none", "start", "loop", "take", "empty", "decode", "seekCheck", "found", "sync",
                "show", "repause", "clearNeed", "exit", "done"}
AudioLabels == {"idle", "check", "clear", "take", "seekCheck", "found"}
UiLabels == {"idle", "start", "stopWait", "openWait", "pauseState", "speedPauseState",
             "speedDevice", "speedPlay", "playState", "seekRequest"}

FlagTypes ==
  /\ mIsQuit \in BOOLEAN /\ mIsPause \in BOOLEAN /\ mIsNeedPause \in BOOLEAN
  /\ mIsReadFinished \in BOOLEAN /\ mIsReadThreadFinished \in BOOLEAN
  /\ mIsVideoThreadFinished \in BOOLEAN /\ mIsAudioThreadFinished \in BOOLEAN
  /\ seek_req \in BOOLEAN /\ seek_flag_audio \in BOOLEAN /\ seek_flag_video \in BOOLEAN
  /\ mVideoStream \in BOOLEAN /\ mAudioStream \in BOOLEAN
  /\ audioStream \in [Sessions -> BOOLEAN]

ClockTypes ==
  /\ seek_pos \in Nat /\ seek_time \in Nat /\ asked \in Nat
  /\ audio_clock \in Nat /\ video_clock \in Nat /\ elapsed \in Nat /\ pausedAt \in Nat
  /\ speed \in Nat \X Nat /\ epoch \in Nat /\ seekedTo \in [0..epoch -> Nat]

PacketTypes ==
  /\ mVideoPacktList \in Seq(Packet) /\ mAudioPacktList \in Seq(Packet)
  /\ frame \in [Sessions -> Packet] /\ screen \in Packet
  /\ demux \in [Sessions -> 1..(Len(File) + 1)] /\ pFormatCtx \in 0..MaxStarts

ControlTypes ==
  /\ mPlayerState \in {"Stop", "Playing", "Pause"}
  /\ mAudioID \in {"none", "paused", "running"}
  /\ rpc \in [Sessions -> ReadLabels] /\ vpc \in [Sessions -> VideoLabels]
  /\ apc \in AudioLabels /\ upc \in UiLabels
  /\ starts \in 0..MaxStarts /\ ops \in 0..MaxOps /\ crashed \in BOOLEAN

TypeOK == FlagTypes /\ ClockTypes /\ PacketTypes /\ ControlTypes

\* The constructor and the fields it leaves as the allocator returned them.
Init ==
  /\ mPlayerState = "Stop" /\ mAudioID = "none" /\ speed = <<3, 2>>
  /\ mIsQuit = FALSE /\ mIsReadFinished = FALSE
  /\ mIsPause \in Uninit /\ mIsNeedPause \in Uninit /\ seek_req \in Uninit
  /\ mIsReadThreadFinished \in Uninit
  /\ mIsVideoThreadFinished \in Uninit /\ mIsAudioThreadFinished \in Uninit
  /\ seek_flag_audio \in Uninit /\ seek_flag_video \in Uninit
  /\ seek_pos = 0 /\ seek_time = 0 /\ asked = 0
  /\ audio_clock = 0 /\ video_clock = 0 /\ elapsed = 0 /\ pausedAt = 0
  /\ mVideoStream = FALSE /\ mAudioStream = FALSE
  /\ mVideoPacktList = <<>> /\ mAudioPacktList = <<>>
  /\ rpc = [s \in Sessions |-> "none"]
  /\ pFormatCtx = 0 /\ demux = [s \in Sessions |-> 1] /\ crashed = FALSE
  /\ audioStream = [s \in Sessions |-> FALSE]
  /\ vpc = [s \in Sessions |-> "none"]
  /\ frame = [s \in Sessions |-> NoFrame]
  /\ apc = "idle" /\ upc = "idle"
  /\ screen = NoFrame /\ epoch = 0 /\ seekedTo = [e \in 0..0 |-> 0]
  /\ starts = 0 /\ ops = 0

ReadAt(s, from) == rpc[s] = from
ReadGoto(s, to) == rpc' = [rpc EXCEPT ![s] = to]
VideoAt(s, from) == vpc[s] = from
VideoGoto(s, to) == vpc' = [vpc EXCEPT ![s] = to]
-----------------------------------------------------------------------------
(***************************************************************************)
(* The user interface thread.  Each call of the public API is a few        *)
(* adjacent scalar writes; only stop(true) and setSpeed wait inside.       *)
(***************************************************************************)

\* A button or the slider starts the call named op.
UiCall(op) ==
  /\ upc = "idle" /\ op \in Ops /\ ops < MaxOps
  /\ ops' = ops + 1

\* stop(): the caller keeps going at `after` when it has to wait.
StopBody ==
  IF mPlayerState = "Stop"
  THEN UNCHANGED <<mPlayerState, mIsQuit>>
  ELSE mPlayerState' = "Stop" /\ mIsQuit' = TRUE

UiStop ==
  /\ UiCall("stop")
  /\ StopBody
  /\ upc' = IF mPlayerState = "Stop" THEN "idle" ELSE "stopWait"
  /\ UNCHANGED <<mIsPause, mIsNeedPause, finishVars, seekVars, clockVars, streamVars,
                 queueVars, mAudioID, threadVars, speed, starts>>

\* "open": stop(true), then startPlay.
UiOpen ==
  /\ UiCall("open") /\ starts < MaxStarts
  /\ StopBody
  /\ upc' = IF mPlayerState = "Stop" THEN "start" ELSE "openWait"
  /\ UNCHANGED <<mIsPause, mIsNeedPause, finishVars, seekVars, clockVars, streamVars,
                 queueVars, mAudioID, threadVars, speed, starts>>

\* replay(): stop() without waiting, then startPlay.
UiReplay ==
  /\ UiCall("replay") /\ starts < MaxStarts
  /\ StopBody
  /\ upc' = "start"
  /\ UNCHANGED <<mIsPause, mIsNeedPause, finishVars, seekVars, clockVars, streamVars,
                 queueVars, mAudioID, threadVars, speed, starts>>

\* The wait of stop(true).
UiStopReturns ==
  /\ upc \in {"stopWait", "openWait"} /\ mIsReadThreadFinished
  /\ upc' = IF upc = "stopWait" THEN "idle" ELSE "start"
  /\ UNCHANGED <<playerVars, threadVars, speed, starts, ops>>

startPlay ==
  /\ upc = "start" /\ upc' = "idle"
  /\ IF mPlayerState = "Stop"
     THEN /\ mIsQuit' = FALSE
          /\ starts' = starts + 1
          /\ ReadGoto(starts + 1, "init")
     ELSE UNCHANGED <<mIsQuit, starts, rpc>>
  /\ UNCHANGED <<mPlayerState, mIsPause, mIsNeedPause, finishVars, seekVars, clockVars,
                 streamVars, queueVars, mAudioID, fileVars, videoVars, apc, speed, ops>>

\* play(): the flags, the test of mPlayerState, then in playState the rest.
PlayFlags ==
  /\ mIsNeedPause' = FALSE /\ mIsPause' = FALSE
  /\ upc' = IF mPlayerState = "Pause" THEN "playState" ELSE "idle"

UiPlay ==
  /\ UiCall("play")
  /\ PlayFlags
  /\ UNCHANGED <<mPlayerState, mIsQuit, finishVars, seekVars, clockVars, streamVars,
                 queueVars, mAudioID, threadVars, speed, starts>>

\* av_gettime() - mVideoStartTime is added to mVideoStartTime: elapsed becomes 0.
playState ==
  /\ upc = "playState" /\ upc' = "idle"
  /\ elapsed' = 0
  /\ mPlayerState' = "Playing"
  /\ UNCHANGED <<mIsQuit, mIsPause, mIsNeedPause, finishVars, seekVars, audio_clock,
                 video_clock, pausedAt, streamVars, queueVars, mAudioID, threadVars,
                 speed, starts, ops>>

\* pause(): the flag, the test of mPlayerState, then in pauseState the rest.
UiPause ==
  /\ UiCall("pause")
  /\ mIsPause' = TRUE
  /\ upc' = IF mPlayerState = "Playing" THEN "pauseState" ELSE "idle"
  /\ UNCHANGED <<mPlayerState, mIsQuit, mIsNeedPause, finishVars, seekVars, clockVars,
                 streamVars, queueVars, mAudioID, threadVars, speed, starts>>

pauseState ==
  /\ upc \in {"pauseState", "speedPauseState"}
  /\ upc' = IF upc = "pauseState" THEN "idle" ELSE "speedDevice"
  /\ pausedAt' = elapsed
  /\ mPlayerState' = "Pause"
  /\ UNCHANGED <<mIsQuit, mIsPause, mIsNeedPause, finishVars, seekVars, audio_clock,
                 video_clock, elapsed, streamVars, queueVars, mAudioID, threadVars,
                 speed, starts, ops>>

\* seek(): dropped while an earlier request is pending.  Nobody else raises seek_req
\* between its test and the two writes.
UiSeek ==
  /\ UiCall("seek")
  /\ IF seek_req
     THEN UNCHANGED <<seek_pos, upc>>
     ELSE seek_pos' \in Targets /\ upc' = "seekRequest"
  /\ UNCHANGED <<controlVars, finishVars, seek_req, seek_time, seek_flag_audio,
                 seek_flag_video, asked, clockVars, streamVars, queueVars, mAudioID,
                 threadVars, speed, starts>>

UiSeekRequest ==
  /\ upc = "seekRequest" /\ upc' = "idle"
  /\ seek_req' = TRUE
  /\ UNCHANGED <<controlVars, finishVars, seek_pos, seek_time, seek_flag_audio,
                 seek_flag_video, asked, clockVars, streamVars, queueVars, mAudioID,
                 threadVars, speed, starts, ops>>

\* The speed button: pause(); setSpeed(1.2); play().
UiSpeed ==
  /\ UiCall("speed")
  /\ mIsPause' = TRUE
  /\ upc' = IF mPlayerState = "Playing" THEN "speedPauseState" ELSE "speedDevice"
  /\ UNCHANGED <<mPlayerState, mIsQuit, mIsNeedPause, finishVars, seekVars, clockVars,
                 streamVars, queueVars, mAudioID, threadVars, speed, starts>>

\* What openSDL does, `opened` being the state of the device and `finished` the
\* flag when it succeeds.  It judges by spec.format, which a failed open fills
\* like a successful one ("staleFormat") and no open at all leaves undefined.
openSDL(opened, finished) ==
  \/ mAudioID' = opened /\ mIsAudioThreadFinished' = finished
  \/ "noDevice" \in Failures /\ mAudioID' = "none" /\ mIsAudioThreadFinished' = TRUE
  \/ "staleFormat" \in Failures /\ mAudioID' = "none" /\ mIsAudioThreadFinished' = finished

CallbackOver_NoWait == TRUE

\* closeSDL returns when no callback is running on the device it closes.
CallbackOver == mAudioID # "none" => apc = "idle"

\* setSpeed: closeSDL waits for a running callback, openSDL follows; nobody
\* takes the new device out of pause.
setSpeed ==
  /\ upc = "speedDevice" /\ CallbackOver
  /\ upc' = "speedPlay"
  /\ speed' = <<6, 5>>
  /\ openSDL("paused", mIsAudioThreadFinished)
  /\ UNCHANGED <<controlVars, mIsReadThreadFinished, mIsVideoThreadFinished, seekVars,
                 clockVars, streamVars, queueVars, threadVars, starts, ops>>

UiSpeedPlay ==
  /\ upc = "speedPlay"
  /\ PlayFlags
  /\ UNCHANGED <<mPlayerState, mIsQuit, finishVars, seekVars, clockVars, streamVars,
                 queueVars, mAudioID, threadVars, speed, starts, ops>>

\* What the interface thread does without the user's help.
UiProceeds ==
  UiStopReturns \/ startPlay \/ playState \/ pauseState \/ setSpeed \/ UiSpeedPlay
  \/ UiSeekRequest
UiCalls == UiStop \/ UiOpen \/ UiReplay \/ UiPlay \/ UiPause \/ UiSeek \/ UiSpeed
-----------------------------------------------------------------------------
(***************************************************************************)
(* The read thread of session s: readVideoFile.                            *)
(***************************************************************************)

\* The demuxer can be read from: it is there and no longer being opened.
Usable == pFormatCtx # 0 /\ rpc[pFormatCtx] # "open"

\* The code at hand goes through pFormatCtx.
NeedsDemuxer(s) ==
  \/ rpc[s] \in {"open", "read"}
  \/ rpc[s] = "loop" /\ ~mIsQuit /\ seek_req
  \/ rpc[s] = "videoCodec" /\ HasStream("video")
  \/ rpc[s] = "audioCodec" /\ HasStream("audio")

\* It finds no demuxer, or one that another session may free, replace or use meanwhile.
ReadCrash(s) ==
  /\ NeedsDemuxer(s) /\ pFormatCtx # s
  /\ crashed' = TRUE
  /\ UNCHANGED <<playerVars, rpc, pFormatCtx, placeVars, audioStream, mIsReadFinished,
                 otherThreads>>

ReadInit(s) ==
  /\ ReadAt(s, "init") /\ ReadGoto(s, "open")
  /\ pFormatCtx' = s
  /\ mIsReadThreadFinished' = FALSE /\ mIsReadFinished' = FALSE
  /\ mVideoStream' = FALSE /\ mAudioStream' = FALSE
  /\ audio_clock' = 0 /\ video_clock' = 0
  /\ UNCHANGED <<controlVars, mIsVideoThreadFinished, mIsAudioThreadFinished, seekVars,
                 elapsed, pausedAt, queueVars, mAudioID, placeVars, audioStream, crashed,
                 otherThreads>>

\* A failing call of the opening sequence: report it and goto end.  avformat_open_input
\* frees the context it fails to open, avformat_find_stream_info does not.
OpenFails(s, from, failure) ==
  /\ ReadAt(s, from) /\ failure \in Failures /\ ReadGoto(s, "clear")
  /\ IF from = "open" THEN pFormatCtx' \in {0, s} ELSE Usable /\ UNCHANGED pFormatCtx
  /\ UNCHANGED <<playerVars, placeVars, audioStream, mIsReadFinished, crashed, otherThreads>>

\* avformat_open_input assigns pFormatCtx the context it has opened.
ReadOpen(s) ==
  /\ ReadAt(s, "open") /\ ReadGoto(s, "videoCodec")
  /\ pFormatCtx' = s
  /\ UNCHANGED <<playerVars, placeVars, audioStream, mIsReadFinished, crashed, otherThreads>>

\* mVideoStream is set and the decoding thread is detached.
ReadVideoCodec(s) ==
  /\ ReadAt(s, "videoCodec") /\ ReadGoto(s, "audioCodec")
  /\ IF HasStream("video")
     THEN Usable /\ mVideoStream' = TRUE /\ VideoGoto(s, "start")
     ELSE UNCHANGED <<mVideoStream, vpc>>
  /\ UNCHANGED <<controlVars, finishVars, seekVars, clockVars, mAudioStream, queueVars,
                 mAudioID, fileVars, frame, screen, apc, uiVars>>

\* Without a decoder for its audio the file is played as if it had none.
ReadAudioCodec(s) ==
  /\ ReadAt(s, "audioCodec")
  /\ HasStream("audio") => Usable
  /\ \/ /\ HasStream("audio")
        /\ ReadGoto(s, "device")
        /\ mAudioStream' = TRUE /\ audioStream' = [audioStream EXCEPT ![s] = TRUE]
     \/ /\ HasStream("audio") => "noAudioDecoder" \in Failures
        /\ ReadGoto(s, "playing")
        /\ UNCHANGED <<mAudioStream, audioStream>>
  /\ UNCHANGED <<controlVars, finishVars, seekVars, clockVars, mVideoStream, queueVars,
                 mAudioID, pFormatCtx, placeVars, mIsReadFinished, crashed, otherThreads>>

\* openSDL; on success the device leaves its pause and the audio thread counts
\* as running.
ReadDevice(s) ==
  /\ ReadAt(s, "device") /\ ReadGoto(s, "playing")
  /\ openSDL("running", FALSE)
  /\ UNCHANGED <<controlVars, mIsReadThreadFinished, mIsVideoThreadFinished, seekVars,
                 clockVars, streamVars, queueVars, fileVars, otherThreads>>

ReadPlaying(s) ==
  /\ ReadAt(s, "playing") /\ ReadGoto(s, "loop")
  /\ mPlayerState' = "Playing"
  /\ elapsed' = 0
  /\ UNCHANGED <<mIsQuit, mIsPause, mIsNeedPause, finishVars, seekVars, audio_clock,
                 video_clock, pausedAt, streamVars, queueVars, mAudioID, fileVars,
                 otherThreads>>

\* Top of the reading loop, up to the test of seek_req.
ReadLoop(s) ==
  /\ ReadAt(s, "loop")
  /\ \/ mIsQuit /\ ReadGoto(s, "waitQuit")
     \/ ~mIsQuit /\ ~seek_req /\ ReadGoto(s, "room")
  /\ UNCHANGED <<playerVars, fileVars, otherThreads>>

\* av_seek_frame goes back to a key frame of the video stream (of the audio
\* stream when there is no video) at or before the target.
SeekStream == IF HasStream("video") THEN "video" ELSE "audio"
KeyPositions(target) ==
  {i \in 1..Len(File) : File[i].stream = SeekStream /\ File[i].pts <= target}

MoveTo(i) ==
  /\ demux' = [demux EXCEPT ![pFormatCtx] = i]
  /\ epoch' = epoch + 1
  /\ seekedTo' = [e \in 0..(epoch + 1) |-> IF e \in 0..epoch THEN seekedTo[e] ELSE File[i].pts]

ReadSeek_NotPaused(s) ==
  /\ ReadAt(s, "loop") /\ ~mIsQuit /\ seek_req /\ Usable /\ ~mIsPause
  /\ \E i \in KeyPositions(seek_pos) : MoveTo(i)
  /\ ReadGoto(s, "clearAudio")
  /\ UNCHANGED <<playerVars, pFormatCtx, audioStream, mIsReadFinished, crashed, otherThreads>>

ReadSeek(s) ==
  /\ ReadAt(s, "loop") /\ ~mIsQuit /\ seek_req /\ Usable
  /\ \/ /\ \E i \in KeyPositions(seek_pos) : MoveTo(i)
        /\ ReadGoto(s, "clearAudio")
     \/ /\ KeyPositions(seek_pos) = {} \/ "noSeek" \in Failures
        /\ ReadGoto(s, "seekDone")
        /\ UNCHANGED placeVars
  /\ UNCHANGED <<playerVars, pFormatCtx, audioStream, mIsReadFinished, crashed, otherThreads>>

Flush == [pts |-> NoPts, epoch |-> epoch]

\* clearAudioQuene, then inputAudioQuene(FLUSH): two critical sections.
ReadClearAudio(s) ==
  /\ ReadAt(s, "clearAudio")
  /\ IF audioStream[s]
     THEN mAudioPacktList' = <<>> /\ ReadGoto(s, "flushAudio")
     ELSE UNCHANGED mAudioPacktList /\ ReadGoto(s, "clearVideo")
  /\ UNCHANGED <<controlVars, finishVars, seekVars, clockVars, streamVars,
                 mVideoPacktList, mAudioID, fileVars, otherThreads>>

ReadFlushAudio(s) ==
  /\ ReadAt(s, "flushAudio") /\ ReadGoto(s, "clearVideo")
  /\ mAudioPacktList' = Append(mAudioPacktList, Flush)
  /\ UNCHANGED <<controlVars, finishVars, seekVars, clockVars, streamVars,
                 mVideoPacktList, mAudioID, fileVars, otherThreads>>

ReadClearVideo(s) ==
  /\ ReadAt(s, "clearVideo")
  /\ IF HasStream("video")
     THEN mVideoPacktList' = <<>> /\ ReadGoto(s, "flushVideo")
     ELSE UNCHANGED mVideoPacktList /\ ReadGoto(s, "seekClock")
  /\ UNCHANGED <<controlVars, finishVars, seekVars, clockVars, streamVars,
                 mAudioPacktList, mAudioID, fileVars, otherThreads>>

ReadFlushVideo(s) ==
  /\ ReadAt(s, "flushVideo") /\ ReadGoto(s, "seekClock")
  /\ mVideoPacktList' = Append(mVideoPacktList, Flush)
  /\ UNCHANGED <<controlVars, finishVars, seekVars, clockVars, streamVars,
                 mAudioPacktList, mAudioID, fileVars, otherThreads>>

Upto(n) == IF n <= MaxClock THEN n ELSE MaxClock

\* video_clock = 0 and the two start times: the clock shows seek_pos.
ReadSeekClock(s) ==
  /\ ReadAt(s, "seekClock") /\ ReadGoto(s, "seekDone")
  /\ video_clock' = IF HasStream("video") THEN 0 ELSE video_clock
  /\ elapsed' = Upto(seek_pos) /\ pausedAt' = Upto(seek_pos)
  /\ UNCHANGED <<controlVars, finishVars, seekVars, audio_clock, streamVars, queueVars,
                 mAudioID, fileVars, otherThreads>>

ReadSeekDone(s) ==
  /\ ReadAt(s, "seekDone") /\ ReadGoto(s, "seekTime")
  /\ seek_req' = FALSE
  /\ UNCHANGED <<controlVars, finishVars, seek_pos, seek_time, seek_flag_audio,
                 seek_flag_video, asked, clockVars, streamVars, queueVars, mAudioID,
                 fileVars, otherThreads>>

\* seek_pos is read again: the user may have asked for another position.  seek_time is
\* written before the two flags, and either decoding thread reads it only under its own
\* flag: it cannot tell these three writes from one.
ReadSeekTime(s) ==
  /\ ReadAt(s, "seekTime") /\ ReadGoto(s, "seekPause")
  /\ seek_time' = seek_pos
  /\ asked' = IF asked < seek_pos THEN seek_pos ELSE asked
  /\ seek_flag_audio' = TRUE /\ seek_flag_video' = TRUE
  /\ UNCHANGED <<controlVars, finishVars, seek_req, seek_pos, clockVars, streamVars,
                 queueVars, mAudioID, fileVars, otherThreads>>

\* A seek while paused lets the threads run until the target is displayed.
ReadSeekPause(s) ==
  /\ ReadAt(s, "seekPause")
  /\ ReadGoto(s, IF mIsPause THEN "seekNeed" ELSE "room")
  /\ UNCHANGED <<playerVars, fileVars, otherThreads>>

ReadSeekNeed(s) ==
  /\ ReadAt(s, "seekNeed") /\ ReadGoto(s, "seekUnpause")
  /\ mIsNeedPause' = TRUE
  /\ UNCHANGED <<mPlayerState, mIsQuit, mIsPause, finishVars, seekVars, clockVars,
                 streamVars, queueVars, mAudioID, fileVars, otherThreads>>

ReadSeekUnpause_Forgotten(s) ==
  ReadAt(s, "seekUnpause") /\ ReadGoto(s, "room")
  /\ UNCHANGED <<playerVars, fileVars, otherThreads>>

ReadSeekUnpause(s) ==
  /\ ReadAt(s, "seekUnpause") /\ ReadGoto(s, "room")
  /\ mIsPause' = FALSE
  /\ UNCHANGED <<mPlayerState, mIsQuit, mIsNeedPause, finishVars, seekVars, clockVars,
                 streamVars, queueVars, mAudioID, fileVars, otherThreads>>

QueueFull_Both == Len(mAudioPacktList) > MaxAudio /\ Len(mVideoPacktList) > MaxVideo

\* Reading goes on while both queues have room and the player is not paused.
QueueFull == Len(mAudioPacktList) > MaxAudio \/ Len(mVideoPacktList) > MaxVideo

ReadRoom(s) ==
  /\ ReadAt(s, "room")
  /\ ReadGoto(s, IF QueueFull \/ mIsPause THEN "loop" ELSE "read")
  /\ UNCHANGED <<playerVars, fileVars, otherThreads>>

\* av_read_frame and the queue of the packet's stream; a packet of no opened
\* stream is dropped.
ReadPacket(s) ==
  /\ ReadAt(s, "read") /\ ReadGoto(s, "loop")
  /\ Usable /\ demux[pFormatCtx] <= Len(File)
  /\ demux' = [demux EXCEPT ![pFormatCtx] = @ + 1]
  /\ LET next == File[demux[pFormatCtx]]
         packet == [pts |-> next.pts, epoch |-> epoch]
     IN  /\ mVideoPacktList' = IF next.stream = "video"
                               THEN Append(mVideoPacktList, packet)
                               ELSE mVideoPacktList
         /\ mAudioPacktList' = IF next.stream = "audio" /\ audioStream[s]
                               THEN Append(mAudioPacktList, packet)
                               ELSE mAudioPacktList
  /\ UNCHANGED <<controlVars, finishVars, seekVars, clockVars, streamVars, mAudioID,
                 pFormatCtx, audioStream, mIsReadFinished, crashed, epoch, seekedTo,
                 otherThreads>>

ReadEof_Counted(s) ==
  /\ ReadAt(s, "read") /\ ReadGoto(s, "loop")
  /\ Usable /\ demux[pFormatCtx] > Len(File)
  /\ mIsReadFinished' = TRUE /\ demux' = [demux EXCEPT ![pFormatCtx] = @ + 1]
  /\ UNCHANGED <<playerVars, pFormatCtx, audioStream, crashed, epoch, seekedTo, otherThreads>>

\* End of file: nothing but the next readVideoFile takes mIsReadFinished back.
ReadEof(s) ==
  /\ ReadAt(s, "read") /\ ReadGoto(s, "loop")
  /\ Usable /\ demux[pFormatCtx] > Len(File)
  /\ mIsReadFinished' = TRUE
  /\ UNCHANGED <<playerVars, pFormatCtx, placeVars, audioStream, crashed, otherThreads>>

ReadWaitQuit(s) ==
  /\ ReadAt(s, "waitQuit") /\ mIsQuit /\ ReadGoto(s, "clear")
  /\ UNCHANGED <<playerVars, fileVars, otherThreads>>

\* The label end: clear the audio queue, then the video queue.
ReadEndAudio(s) ==
  /\ ReadAt(s, "clear") /\ ReadGoto(s, "clearLast")
  /\ mAudioPacktList' = <<>>
  /\ UNCHANGED <<controlVars, finishVars, seekVars, clockVars, streamVars,
                 mVideoPacktList, mAudioID, fileVars, otherThreads>>

ReadEndVideo_Forgotten(s) ==
  /\ ReadAt(s, "clearLast") /\ ReadGoto(s, "stopSelf")
  /\ UNCHANGED <<playerVars, fileVars, otherThreads>>

ReadEndVideo(s) ==
  /\ ReadAt(s, "clearLast") /\ ReadGoto(s, "stopSelf")
  /\ mVideoPacktList' = <<>>
  /\ UNCHANGED <<controlVars, finishVars, seekVars, clockVars, streamVars,
                 mAudioPacktList, mAudioID, fileVars, otherThreads>>

ReadStopSelf_Early(s) ==
  /\ ReadAt(s, "stopSelf")
  /\ ReadGoto(s, IF mPlayerState = "Stop" THEN "join" ELSE "quitSelf")
  /\ mPlayerState' = "Stop" /\ mIsReadThreadFinished' = TRUE
  /\ UNCHANGED <<mIsQuit, mIsPause, mIsNeedPause, mIsVideoThreadFinished,
                 mIsAudioThreadFinished, seekVars, clockVars, streamVars, queueVars,
                 mAudioID, fileVars, otherThreads>>

\* Not stopped from outside: this is the normal end of playback, and the thread
\* calls stop() itself.
ReadStopSelf(s) ==
  /\ ReadAt(s, "stopSelf")
  /\ ReadGoto(s, IF mPlayerState = "Stop" THEN "join" ELSE "quitSelf")
  /\ mPlayerState' = "Stop"
  /\ UNCHANGED <<mIsQuit, mIsPause, mIsNeedPause, finishVars, seekVars, clockVars,
                 streamVars, queueVars, mAudioID, fileVars, otherThreads>>

ReadQuitSelf(s) ==
  /\ ReadAt(s, "quitSelf") /\ ReadGoto(s, "join")
  /\ mIsQuit' = TRUE
  /\ UNCHANGED <<mPlayerState, mIsPause, mIsNeedPause, finishVars, seekVars, clockVars,
                 streamVars, queueVars, mAudioID, fileVars, otherThreads>>

DecodersFinished_AudioOnly == mAudioStream => mIsAudioThreadFinished
DecodersFinished_OfFile ==
  /\ HasStream("video") => mIsVideoThreadFinished
  /\ HasStream("audio") => mIsAudioThreadFinished

\* Wait for the finish flags of the threads whose stream was opened.
DecodersFinished ==
  (mVideoStream => mIsVideoThreadFinished) /\ (mAudioStream => mIsAudioThreadFinished)

ReadJoin(s) ==
  /\ ReadAt(s, "join") /\ ReadGoto(s, "close")
  /\ DecodersFinished
  /\ UNCHANGED <<playerVars, fileVars, otherThreads>>

\* closeSDL.
ReadClose(s) ==
  /\ ReadAt(s, "close") /\ ReadGoto(s, "free")
  /\ CallbackOver
  /\ mAudioID' = "none"
  /\ UNCHANGED <<controlVars, finishVars, seekVars, clockVars, streamVars, queueVars,
                 fileVars, otherThreads>>

\* Frames, codecs and the demuxer are freed, whichever session opened them, and the
\* thread declares its end.
ReadFree(s) ==
  /\ ReadAt(s, "free") /\ ReadGoto(s, "done")
  /\ pFormatCtx' = 0
  /\ mIsReadThreadFinished' = TRUE
  /\ UNCHANGED <<controlVars, mIsVideoThreadFinished, mIsAudioThreadFinished, seekVars,
                 clockVars, streamVars, queueVars, mAudioID, placeVars, audioStream,
                 mIsReadFinished, crashed, otherThreads>>

ReadThread(s) ==
  \/ ReadInit(s) \/ ReadOpen(s) \/ OpenFails(s, "open", "noFile")
  \/ ReadVideoCodec(s)
  \/ HasStream("video") /\ OpenFails(s, "videoCodec", "noVideoCodec")
  \/ ReadAudioCodec(s)
  \/ HasStream("audio") /\ OpenFails(s, "audioCodec", "noAudioCodec")
  \/ ReadDevice(s) \/ ReadPlaying(s)
  \/ ReadLoop(s) \/ ReadSeek(s) \/ ReadClearAudio(s) \/ ReadFlushAudio(s)
  \/ ReadClearVideo(s) \/ ReadFlushVideo(s) \/ ReadSeekClock(s) \/ ReadSeekDone(s)
  \/ ReadSeekTime(s) \/ ReadSeekPause(s) \/ ReadSeekNeed(s) \/ ReadSeekUnpause(s)
  \/ ReadRoom(s) \/ ReadPacket(s) \/ ReadEof(s) \/ ReadWaitQuit(s)
  \/ ReadEndAudio(s) \/ ReadEndVideo(s) \/ ReadStopSelf(s) \/ ReadQuitSelf(s)
  \/ ReadJoin(s) \/ ReadClose(s) \/ ReadFree(s) \/ ReadCrash(s)
-----------------------------------------------------------------------------
(***************************************************************************)
(* The video thread of session s: decodeVideoThread.                       *)
(***************************************************************************)

\* The code at hand goes through mVideoStream to the codec and the time base.
NeedsVideoStream(s) ==
  \/ vpc[s] \in {"start", "decode"}
  \/ vpc[s] = "take" /\ mVideoPacktList # <<>> /\ IsFlush(Head(mVideoPacktList))

\* The stream is null, freed, or in use by another session.
VideoCrash(s) ==
  /\ NeedsVideoStream(s) /\ pFormatCtx # s
  /\ crashed' = TRUE
  /\ UNCHANGED <<playerVars, rpc, pFormatCtx, placeVars, audioStream, mIsReadFinished,
                 otherThreads>>

VideoStart(s) ==
  /\ VideoAt(s, "start") /\ VideoGoto(s, "loop")
  /\ mVideoStream
  /\ mIsVideoThreadFinished' = FALSE
  /\ UNCHANGED <<controlVars, mIsReadThreadFinished, mIsAudioThreadFinished, seekVars,
                 clockVars, streamVars, queueVars, mAudioID, readVars, frame, screen,
                 apc, uiVars>>

VideoLoop_PauseFirst(s) ==
  /\ VideoAt(s, "loop") /\ ~mIsPause
  /\ \/ mIsQuit /\ mVideoPacktList' = <<>> /\ VideoGoto(s, "exit")
     \/ ~mIsQuit /\ VideoGoto(s, "take") /\ UNCHANGED mVideoPacktList
  /\ UNCHANGED <<controlVars, finishVars, seekVars, clockVars, streamVars,
                 mAudioPacktList, mAudioID, readVars, frame, screen, apc, uiVars>>

VideoLoop(s) ==
  /\ VideoAt(s, "loop")
  /\ \/ mIsQuit /\ mVideoPacktList' = <<>> /\ VideoGoto(s, "exit")
     \/ ~mIsQuit /\ ~mIsPause /\ VideoGoto(s, "take") /\ UNCHANGED mVideoPacktList
  /\ UNCHANGED <<controlVars, finishVars, seekVars, clockVars, streamVars,
                 mAudioPacktList, mAudioID, readVars, frame, screen, apc, uiVars>>

VideoTake_NotPopped(s) ==
  /\ VideoAt(s, "take")
  /\ IF mVideoPacktList = <<>>
     THEN VideoGoto(s, "empty") /\ UNCHANGED <<mVideoPacktList, frame>>
     ELSE /\ IsFlush(Head(mVideoPacktList)) => mVideoStream
          /\ frame' = [frame EXCEPT ![s] = Head(mVideoPacktList)]
          /\ mVideoPacktList' = IF IsFlush(Head(mVideoPacktList))
                                THEN Tail(mVideoPacktList) ELSE mVideoPacktList
          /\ VideoGoto(s, IF IsFlush(Head(mVideoPacktList)) THEN "loop" ELSE "decode")
  /\ UNCHANGED <<controlVars, finishVars, seekVars, clockVars, streamVars,
                 mAudioPacktList, mAudioID, readVars, screen, apc, uiVars>>

\* One critical section: look at the queue and pop its head.
VideoTake(s) ==
  /\ VideoAt(s, "take")
  /\ IF mVideoPacktList = <<>>
     THEN VideoGoto(s, "empty") /\ UNCHANGED <<mVideoPacktList, frame>>
     ELSE /\ IsFlush(Head(mVideoPacktList)) => mVideoStream
          /\ frame' = [frame EXCEPT ![s] = Head(mVideoPacktList)]
          /\ mVideoPacktList' = Tail(mVideoPacktList)
          /\ VideoGoto(s, IF IsFlush(Head(mVideoPacktList)) THEN "loop" ELSE "decode")
  /\ UNCHANGED <<controlVars, finishVars, seekVars, clockVars, streamVars,
                 mAudioPacktList, mAudioID, readVars, screen, apc, uiVars>>

\* The queue was empty: the end when the file has been read, else a pause.
VideoEmpty(s) ==
  /\ VideoAt(s, "empty")
  /\ VideoGoto(s, IF mIsReadFinished THEN "exit" ELSE "loop")
  /\ UNCHANGED <<playerVars, readVars, frame, screen, apc, uiVars>>

\* The decoder returns the packet's frame, or none.
VideoDecode(s) ==
  /\ VideoAt(s, "decode") /\ mVideoStream
  /\ \/ video_clock' = frame[s].pts /\ VideoGoto(s, "seekCheck")
     \/ "noFrame" \in Failures /\ VideoGoto(s, "loop") /\ UNCHANGED video_clock
  /\ UNCHANGED <<controlVars, finishVars, seekVars, audio_clock, elapsed, pausedAt,
                 streamVars, queueVars, mAudioID, readVars, frame, screen, apc, uiVars>>

\* After a seek the frames from the key frame to the target are skipped.
VideoSeekCheck(s) ==
  /\ VideoAt(s, "seekCheck")
  /\ VideoGoto(s, IF ~seek_flag_video THEN "sync"
                  ELSE IF frame[s].pts < seek_time THEN "loop" ELSE "found")
  /\ UNCHANGED <<playerVars, readVars, frame, screen, apc, uiVars>>

\* The frame the seek asked for ends the skipping.
VideoFound(s) ==
  /\ VideoAt(s, "found") /\ VideoGoto(s, "sync")
  /\ seek_flag_video' = FALSE
  /\ UNCHANGED <<controlVars, finishVars, seek_req, seek_pos, seek_time,
                 seek_flag_audio, asked, clockVars, streamVars, queueVars, mAudioID,
                 readVars, frame, screen, apc, uiVars>>

AudioActive_NoDevice == mAudioStream

AudioActive == mAudioStream /\ ~mIsAudioThreadFinished
AudioDrained == mIsReadFinished /\ mAudioPacktList = <<>>
\* video_pts / speed_coefficient <= audio_pts
Due(clock) == video_clock * speed[2] <= clock * speed[1]

\* One round of the synchronisation loop: the frame is due when the audio, or
\* without audio the wall clock, has reached it.
VideoSync(s) ==
  /\ VideoAt(s, "sync")
  /\ IF mIsQuit \/ AudioActive
     THEN /\ mIsQuit \/ AudioDrained \/ Due(audio_clock)
          /\ VideoGoto(s, "show") /\ UNCHANGED audio_clock
     ELSE /\ audio_clock' = elapsed
          /\ IF Due(elapsed) THEN VideoGoto(s, "show") ELSE UNCHANGED vpc
  /\ UNCHANGED <<controlVars, finishVars, seekVars, video_clock, elapsed, pausedAt,
                 streamVars, queueVars, mAudioID, readVars, frame, screen, apc, uiVars>>

\* doDisplayVideo, then the test of mIsNeedPause.
VideoShow(s) ==
  /\ VideoAt(s, "show")
  /\ screen' = frame[s] /\ asked' = seek_time
  /\ VideoGoto(s, IF mIsNeedPause THEN "repause" ELSE "loop")
  /\ UNCHANGED <<controlVars, finishVars, seek_req, seek_pos, seek_time, seek_flag_audio,
                 seek_flag_video, clockVars, streamVars, queueVars, mAudioID, readVars,
                 frame, apc, uiVars>>

\* The frame a paused player was asked for is on the screen: pause again.
VideoRepause(s) ==
  /\ VideoAt(s, "repause") /\ VideoGoto(s, "clearNeed")
  /\ mIsPause' = TRUE
  /\ UNCHANGED <<mPlayerState, mIsQuit, mIsNeedPause, finishVars, seekVars, clockVars,
                 streamVars, queueVars, mAudioID, readVars, frame, screen, apc, uiVars>>

VideoClearNeed(s) ==
  /\ VideoAt(s, "clearNeed") /\ VideoGoto(s, "loop")
  /\ mIsNeedPause' = FALSE
  /\ UNCHANGED <<mPlayerState, mIsQuit, mIsPause, finishVars, seekVars, clockVars,
                 streamVars, queueVars, mAudioID, readVars, frame, screen, apc, uiVars>>

VideoExit(s) ==
  /\ VideoAt(s, "exit") /\ VideoGoto(s, "done")
  /\ mIsQuit' = TRUE /\ mIsVideoThreadFinished' = TRUE
  /\ UNCHANGED <<mPlayerState, mIsPause, mIsNeedPause, mIsReadThreadFinished,
                 mIsAudioThreadFinished, seekVars, clockVars, streamVars, queueVars,
                 mAudioID, readVars, frame, screen, apc, uiVars>>

VideoThread(s) ==
  \/ VideoStart(s) \/ VideoLoop(s) \/ VideoTake(s) \/ VideoEmpty(s) \/ VideoDecode(s)
  \/ VideoSeekCheck(s) \/ VideoFound(s) \/ VideoSync(s) \/ VideoShow(s)
  \/ VideoRepause(s) \/ VideoClearNeed(s) \/ VideoExit(s) \/ VideoCrash(s)
-----------------------------------------------------------------------------
(***************************************************************************)
(* SDL's audio callback: one call of decodeAudioFrame.  SDL makes it only  *)
(* while the device is running.                                            *)
(***************************************************************************)

AudioCheck ==
  /\ apc = "check" \/ (apc = "idle" /\ mAudioID = "running")
  /\ IF mIsQuit
     THEN mIsAudioThreadFinished' = TRUE /\ apc' = "clear"
     ELSE apc' = (IF mIsPause THEN "idle" ELSE "take") /\ UNCHANGED mIsAudioThreadFinished
  /\ UNCHANGED <<controlVars, mIsReadThreadFinished, mIsVideoThreadFinished, seekVars,
                 clockVars, streamVars, queueVars, mAudioID, readVars, videoVars,
                 uiVars>>

AudioClear ==
  /\ apc = "clear" /\ apc' = "idle"
  /\ mAudioPacktList' = <<>>
  /\ UNCHANGED <<controlVars, finishVars, seekVars, clockVars, streamVars,
                 mVideoPacktList, mAudioID, readVars, videoVars, uiVars>>

\* mAudioStream and aCodecCtx are there to decode with; without them the program crashes.
AudioCodec == mAudioStream /\ pFormatCtx # 0

AudioCrash ==
  /\ \/ apc = "found"
     \/ apc = "take" /\ mAudioPacktList # <<>>
     \/ apc = "seekCheck" /\ ~seek_flag_audio
  /\ ~AudioCodec
  /\ crashed' = TRUE
  /\ UNCHANGED <<playerVars, rpc, pFormatCtx, placeVars, audioStream, mIsReadFinished,
                 otherThreads>>

AudioTake ==
  /\ apc = "take"
  /\ IF mAudioPacktList = <<>>
     THEN apc' = "idle" /\ UNCHANGED <<mAudioPacktList, audio_clock>>
     ELSE AudioCodec /\
          LET packet == Head(mAudioPacktList)
          IN  /\ mAudioPacktList' = Tail(mAudioPacktList)
              /\ audio_clock' = IF IsFlush(packet) THEN audio_clock ELSE packet.pts
              /\ apc' = IF IsFlush(packet) THEN "check" ELSE "seekCheck"
  /\ UNCHANGED <<controlVars, finishVars, seekVars, video_clock, elapsed, pausedAt,
                 streamVars, mVideoPacktList, mAudioID, readVars, videoVars, uiVars>>

\* The packet is decoded; a call that got no frame from it goes on with the next one.
AudioDecoded == apc' = "idle" \/ ("noFrame" \in Failures /\ apc' = "check")

\* After a seek packets before the target are skipped.
AudioSeekCheck ==
  /\ apc = "seekCheck"
  /\ IF ~seek_flag_audio
     THEN AudioCodec /\ AudioDecoded
     ELSE apc' = IF audio_clock < seek_time THEN "check" ELSE "found"
  /\ UNCHANGED <<playerVars, readVars, videoVars, uiVars>>

AudioFound ==
  /\ apc = "found" /\ AudioCodec /\ AudioDecoded
  /\ seek_flag_audio' = FALSE
  /\ UNCHANGED <<controlVars, finishVars, seek_req, seek_pos, seek_time,
                 seek_flag_video, asked, clockVars, streamVars, queueVars, mAudioID,
                 readVars, videoVars, uiVars>>

AudioCallback == AudioCheck \/ AudioClear \/ AudioTake \/ AudioSeekCheck \/ AudioFound \/ AudioCrash

\* Wall-clock time passes.
Tick ==
  /\ elapsed < MaxClock /\ elapsed' = elapsed + 1
  /\ UNCHANGED <<controlVars, finishVars, seekVars, audio_clock, video_clock, pausedAt,
                 streamVars, queueVars, mAudioID, readVars, otherThreads>>

Next ==
  /\ ~crashed
  /\ \/ UiCalls \/ UiProceeds
     \/ \E s \in Sessions : ReadThread(s) \/ VideoThread(s)
     \/ AudioCallback \/ Tick

\* The operating system runs every thread and SDL keeps calling back; only the
\* user need not do anything.  SDL's thread waits for the hardware between two
\* callbacks without the device's lock, so closeSDL gets that lock in the end.
Fairness ==
  /\ WF_vars(~crashed /\ UiProceeds) /\ WF_vars(~crashed /\ AudioCallback)
  /\ WF_vars(~crashed /\ Tick) /\ SF_vars(~crashed /\ setSpeed)
  /\ \A s \in Sessions :
       /\ WF_vars(~crashed /\ ReadThread(s)) /\ SF_vars(~crashed /\ ReadClose(s))
       /\ WF_vars(~crashed /\ VideoThread(s))

Spec == Init /\ [][Next]_vars
FairSpec == Spec /\ Fairness
-----------------------------------------------------------------------------
(***************************************************************************)
(* What the player promises.                                               *)
(***************************************************************************)

Playing(s) == vpc[s] \notin {"none", "done"}
ThreadsDone ==
  /\ \A s \in Sessions : rpc[s] \in {"none", "done"} /\ ~Playing(s)
  /\ apc = "idle"

\* Reading ahead is limited (VideoPlayer.cpp:502): a queue exceeds its maximum
\* by at most the one packet each read thread may be about to push.
QueueBound ==
  /\ Len(mVideoPacktList) <= MaxVideo + MaxStarts
  /\ Len(mAudioPacktList) <= MaxAudio + MaxStarts

\* The codecs and the queues are given up only after the video thread of the
\* same session has ended (VideoPlayer.cpp:567).
CodecOutlivesVideoThread ==
  \A s \in Sessions : rpc[s] \in {"close", "free", "done"} => ~Playing(s)

\* Nor does the audio callback run, or a device that would call it, once the codecs it
\* decodes with are freed (VideoPlayer.cpp:569-599).
CodecOutlivesCallback ==
  \A s \in Sessions : rpc[s] \in {"free", "done"} => apc = "idle" /\ mAudioID # "running"

\* A session that has ended leaves no packet behind in either queue.
QueuesDrained ==
  ThreadsDone /\ starts > 0 => mVideoPacktList = <<>> /\ mAudioPacktList = <<>>

\* Whatever the seeks, pauses and interleavings, no frame is shown twice or out of order,
\* and none is lost but those before a position asked for in the meantime: a frame shown is
\* the next video frame of the file after the one on the screen or, the first after a seek,
\* the next from the key frame the seek went to (VideoPlayer_VideoThread.cpp:48-83,
\* 125-136).  A position counts as asked for when the seek to it failed, too: the code then
\* skips to it all the same (VideoPlayer.cpp:464-492).
NextFrame(p, q) ==
  p < q /\ ~ \E i \in 1..Len(File) :
             /\ File[i].stream = "video"
             /\ p < File[i].pts /\ File[i].pts < q /\ asked <= File[i].pts
InSequence(f) ==
  \/ f.epoch = screen.epoch /\ NextFrame(screen.pts, f.pts)
  \/ f.epoch > screen.epoch /\ NextFrame(seekedTo[f.epoch] - 1, f.pts)
DisplayedInSequence ==
  [][\A s \in Sessions : vpc[s] = "show" /\ vpc'[s] # "show" => InSequence(screen')]_vars

\* stop(true) has returned, at once or out of its wait.
StopReturned == (UiStop \/ UiStopReturns) /\ upc' = "idle"

\* stop(true) returns when every thread of the player has ended (VideoPlayer.h:71), except
\* that it does not wait for a session that is not open yet, has failed to open or is ending
\* by itself (VideoPlayer.cpp:120-123): in particular never with one that reads on.
Opening(s) == rpc[s] \in {"init", "open", "videoCodec", "audioCodec", "device", "playing"}
EndsByItself(s) ==
  rpc[s] \in {"clear", "clearLast", "stopSelf", "quitSelf", "join", "close", "free"}
StopWaitsForAll ==
  [][StopReturned =>
       \/ ThreadsDone
       \/ /\ upc = "idle" /\ mPlayerState = "Stop"
          /\ \E s \in Sessions : Opening(s) \/ EndsByItself(s)]_vars

\* Two waits of the cleanup have no end, and the promises below leave them out.  The flag
\* of the audio thread stays down when no device calls it: openSDL took a spec an earlier
\* failure had filled for a success, or setSpeed left the new device paused
\* (VideoPlayer.cpp:200, 426, 564).
AudioLost ==
  \E s \in Sessions : /\ audioStream[s] /\ rpc[s] # "device"
                     /\ ~mIsAudioThreadFinished /\ mAudioID # "running"

\* And the video thread of a session that failed to open its audio codec is not told to
\* quit: stop() judges by mPlayerState, which is Stop as yet (VideoPlayer.cpp:336, 559-564).
VideoForgotten ==
  \E s \in Sessions : rpc[s] = "join" /\ ~mIsQuit /\ vpc[s] \notin {"none", "done"}

Stranded == AudioLost \/ VideoForgotten

\* Once the player has been told to quit, all its threads end.
StopTerminates == mIsQuit ~> ThreadsDone \/ Stranded

\* Whatever sends a read thread to its cleanup, a failed open included, the
\* cleanup comes to its end.
CleanupCompletes == \A s \in Sessions : rpc[s] = "clear" ~> rpc[s] = "done" \/ Stranded

\* A seek of an open file is carried out, playing or paused, unless playback ends.
SeekServed == seek_req /\ mPlayerState # "Stop" ~> ~seek_req \/ mIsQuit

\* A seek of a paused player, which lets the threads run to find the frame,
\* finds its way back to the pause.
PausedSeekEnds == mIsNeedPause ~> ~mIsNeedPause \/ mIsQuit

\* Whatever the streams and the device, playback that nobody pauses ends by itself
\* (VideoPlayer.cpp:547-552).
PlaybackEnds == starts > 0 ~> ThreadsDone \/ mIsPause \/ Stranded

\* A frame held in the synchronisation loop is released: a seek backwards does
\* not leave the player stuck on it (VideoPlayer_VideoThread.cpp:164-166).
HeldFrameReleased == \A s \in Sessions : vpc[s] = "sync" ~> vpc[s] # "sync"
=============================================================================
