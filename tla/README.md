# TLA+ for reference_code_cxx

`reference_code_cxx` ("C++参考代码整理") is a collection of C and C++ programs and
classes around video, networking and threads.  They share no main program; each directory
is a system of its own.  This project specifies the parts that have concurrent state: the
FFmpeg/SDL video player, which has most of it; the bounded queue and the thread pool; the
thread class with the TCP server and the stream pusher built on it; and, for its arithmetic,
the RTP sender of the RTSP server.

    tlc -config player_transport.cfg MCVideoPlayer.tla
    tlc -config queue_channel.cfg    MCSyncQueue.tla
    tlc -config pool_stop.cfg        MCThreadPool.tla
    tlc -config network_programs.cfg MCPrograms.tla
    tlapm VideoPlayerTypes.tla       # and the other modules of section 4

Paths below are relative to `src/`.  `VideoPlayer.cpp`, `VideoPlayer.h`,
`VideoPlayer_VideoThread.cpp` and `VideoPlayer_AudioThread.cpp` are the files under
`ffmpeg/video_player/VideoPlayer/src/VideoPlayer/`.

## 1. Inventory

| Component | State | Operations and threads | What makes it correct | Here |
|---|---|---|---|---|
| Video player: class `VideoPlayer` | state, quit/pause/need-pause flags, three finish flags, seek request, clocks, two packet queues, the demuxer and the codecs, SDL device | public calls from the Qt thread; a detached read thread per `startPlay`; a detached video thread; SDL's audio callback | queues bounded, codecs outlive their users, `stop(true)` waits for all, frames come in sequence, seeks are served, playback ends | `VideoPlayer` |
| Bounded queue: `other/SyncQueue.hpp` | list, mutex, two condition variables, stop flag | `put_sq`, `take_sq` (one item, whole list), `stop_sq` from any thread | FIFO, capacity, no lost wakeup, stop releases everybody | `SyncQueue`, `BoundedChannel` |
| Thread pool: `other/ThreadPool.hpp` | a `SyncQueue`, `m_running`, `once_flag`, the threads | worker loop, `add_task`, `stop_tp` | a task is called once, stop returns to a quiet pool | `ThreadPool`, `TaskService` |
| Player widget (`Widget/*.cpp`) | buttons shown and hidden, slider | button handlers; state signals queued from the player's threads | the buttons shown fit the last state, `Stop` of one file does not hide the next | handlers only |
| Thread object (`network/CCommonThread.cpp`, copied as `ffmpeg/push_stream/BaseThread.cpp`) | `bRun`, `tid`, `threadStatus`, plain integers without a lock | start; stop, with a time limit, or without waiting; the thread's `run1` | one thread in `ThreadProc`, a stop that returned leaves none | `CommonThread` |
| TCP server (`network/CTcpServerSocket.cpp`) | table of client sockets and marks, epoll set, one mutex, the thread object | `StartSocket`, `StopSocket`; `ThreadProc` accepts, reads and sweeps; `SendSessionData`, `DeleteSession` from any thread | table, descriptors and epoll set agree; a client is closed for a reason; a write stays with the client it began with | `TcpServer` |
| Stream pushing (`ffmpeg/push_stream/MediaPlay.cpp`) | names of file and destination, the thread object, contexts of libavformat | `InitService` at any time; `ThreadProc` calls `PlayMeida` over and over | a stop ends the plays, a new name is taken up | `PushStream` |
| RTSP server (`rtsp/rtsp_server_t41/rtscp-server.c`) | place in the session, RTP sequence number and timestamp | one client at a time; the loop of PLAY; the packetizer (FU-A) | numbers without a gap, units whole | `RtpSender` |
| UDP and multicast sockets (`network/CUdpSocket`, `MulticastSocket`) | a socket, the thread object | receive loop with a virtual handler | as the thread object | not modelled |
| epoll example, small servers and clients (`network/*.c*`), RPC client (`network/rpcClient`), FTP (`network/ftp`) | one connection, or a table in a fragment that does not compile | one loop | — | not modelled |
| ffplayer (`video_player/ffplayer`) | flags of one file | one loop that reads, decodes and waits; the slots of the interface | — | not modelled |
| Locks and caches (`other/SpinLock.hpp`, `MutexLock.hpp`, `CacheList.hpp`) | an atomic flag; one list | one atomic step each | mutual exclusion | not modelled |
| Muxers (`ffmpeg/av_mux`) | two packet positions | one loop | streams interleaved by time | not modelled |
| Signals (`other/ipc-signal`), Qt examples, utilities, log writer, volume control, mutex wrappers | little or none | sequential | — | not modelled |
| ONVIF/gSOAP, live555, log4c, ftplib, FFmpeg tutorials, H.264 analyzer | third-party or generated code around I/O | — | — | not modelled |

How they interact: `ThreadPool` owns a `SyncQueue`; the player widget calls `VideoPlayer`
and receives its callbacks through queued signals; `VideoPlayer` uses FFmpeg, SDL and the
`Mutex`/`Cond` wrappers.  The TCP server and the stream pusher each own a thread object and
define its `ThreadProc`; the callers of the TCP server know a connection by its slot in the
table only.  The other programs do not call each other.

Hard behaviours, in the order of weight:

* **The player's flags.**  About twenty fields are shared by four threads and only the two
  packet queues have a lock.  Threads wait for each other by polling: the cleanup for the
  finish flags (VideoPlayer.cpp:564), `stop(true)` for the read thread (128-134), the end of
  the file for `mIsQuit` (549).  A flag left raised or never raised frees too early or
  waits for ever.
* **Seeking.**  The request is a flag and a position, served by the read thread in many
  small steps (445-500) while a frame of the old position may be in the decoder or held for
  its time, and while the player is paused, in which case the pause is lifted for one frame.
* **Sessions that overlap.**  `replay` does not wait; `startPlay` judges by a state that is
  set only when the file has been opened.  The demuxer and the codecs are fields like the
  rest: the second session replaces them, and the first to end frees what it finds there.
* **Condition variables.**  One `notify_one` per item and per free place, although
  `take_sq(list)` frees many places at once, and a woken thread can be overtaken.
* **Stopping.**  The queue is stopped before the workers are told to leave their loop.
* **Reused numbers.**  The TCP server's thread closes a descriptor and clears its slot
  without the lock, while a sender with the lock writes to the number it has read; the system
  gives the number to the next connection, and the slot may keep the mark of a deletion.
* **Joining.**  `join` reads `tid` twice while the thread sets it to zero; a stop that gives
  up after its time leaves a thread that later writes the fields of its successor.
* **Names changed under way.**  `InitService` assigns a string whose characters another
  thread is reading.

`PROJECT.json` lists every hazard at its line.

## 2. The models

### VideoPlayer

A step is the code between two accesses that another thread can separate.  `rpc[s]`,
`vpc[s]`, `apc` and `upc` say where the read thread and the video thread of session `s`,
the audio callback and the interface thread are; the other variables have the names of the
fields.  A loop that polls a flag is a step that is disabled until the flag has the value.
A file is the sequence `File` of its packets; times, positions and clocks share one unit.

| Part | Code | Actions |
|---|---|---|
| Interface | VideoPlayer.cpp:49-163, VideoPlayerWidget.cpp:165-226 | `UiOpen` (= `stop(true)`, `startPlay`), `UiStop`, `UiStopReturns`, `UiReplay`, `UiPlay`/`playState`, `UiPause`/`pauseState`, `UiSeek`/`UiSeekRequest`, `UiSpeed`/`setSpeed`/`UiSpeedPlay` |
| Opening | 224-436 | `ReadInit` … `ReadPlaying`, `OpenFails` for each call that can fail, `openSDL` with its outcomes |
| Reading and seeking | 437-545 | `ReadLoop`, `ReadSeek` … `ReadSeekUnpause`, `ReadRoom`, `ReadPacket`, `ReadEof` |
| Cleanup | 547-609 | `ReadWaitQuit`, `ReadEndAudio`, `ReadEndVideo`, `ReadStopSelf`, `ReadQuitSelf`, `ReadJoin`, `ReadClose`, `ReadFree` |
| Video thread | VideoPlayer_VideoThread.cpp:9-213 | `VideoStart` … `VideoSeekCheck`, `VideoFound`, `VideoSync` … `VideoExit` |
| Audio callback | VideoPlayer_AudioThread.cpp:13-181 | `AudioCheck`, `AudioClear`, `AudioTake`, `AudioSeekCheck`, `AudioFound` |
| A missing or foreign demuxer or codec | 231-248, 601-602, VideoPlayer.h:128-134 | `ReadCrash`, `VideoCrash`, `AudioCrash` |

`pFormatCtx` is the session whose demuxer the field holds, 0 when it is null, and `demux` the
position of each demuxer in the file.  `ReadInit` and `ReadOpen` assign it, whoever still uses
the one before, and `ReadFree` frees whatever is there.  Code that goes through it (or through
a stream or codec that hangs on it) when it is null, freed or another session's has undefined
behaviour: it may go on with what it finds there, if that is open, or the program ends
(`crashed`).  So both outcomes are steps.

Abstractions.  A packet holds one frame or, with the failure `noFrame`, none.  `epoch`
counts the successful seeks and is carried by packets only so that properties can tell
frames before and after a seek apart; `seekedTo` is the key frame each of them went to.  `asked`
is history too: the farthest target asked for since the frame on the screen was given.
`ReadSeekTime` is three assignments in the code (VideoPlayer.cpp:490-492): `seek_time` comes
first and each decoding thread reads it under its own flag only, so nobody can tell them from
one.  There is one SDL device, the last one opened: when a second session opens another, the
callback of the first device, which the code loses, is left out.  The two adjacent
assignments of a `stop()` called by the interface are one step; the read thread's own call
of `stop()` is two.  Sample data, volume, wording and logging are left out.  `Tick` follows the wall
clock to `MaxClock`, and `Upto` cuts a seek's target to that bound.

### SyncQueue and BoundedChannel

A critical section is one step, which ends in the return of the call or in the wait set of
a condition variable.  `notify_one` moves one waiting thread back to the entry of its
critical section, where it competes for the mutex again; a wait can also end by itself
(`SpuriousWakeup`).  `stop_sq` sets the flag under the mutex and notifies without it, in
two more steps.  `BoundedChannel` is what callers may rely on: a first-in first-out
channel with a capacity that freezes when it is stopped.  `SyncQueue` implements it with
`pending <- m_queue, stopped <- m_needStop`.

### ThreadPool and TaskService

`ThreadPool` is composed with `SyncQueue` by `INSTANCE`: a worker's `take_sq`, a client's
`add_task` and the owner's `stop_sq` are that module's actions.  A task may add another
task; it does not stop the pool.  A call of an empty task sets `terminated`
(`bad_function_call` leaves the thread, `std::terminate`), after which nothing happens.
`TaskService` is what whoever gives tasks may rely on: a task is accepted, called once by one
of so many threads, and done; it is dropped only after `stop_tp` was called, and nothing runs
when that has returned.  `ThreadPool` implements it with `Stage(k)`, which reads the stage of a
task off its calls and places; `over` is the set `once_flag`.

### CommonThread

The steps of the owner (`start`, the stops, `join`, `join(ms)`) and of each thread in `run1`.
The fields have no lock, so a step is one access: `JoinTest` and `JoinRead` are the two reads of
`tid` in `join`, of which a compiler may also make one (`id \in {joinee, tid}`).  A thread id
is never reused.  The asserts on `bRun` are guards, because both owners look at `isRun` first.
`waiting` is history: has every stop so far waited, or did the owner start again over one that
had not.  `Run1` is `BaseThread`'s variant, which leaves the status alone.

### TcpServer

Extends `CommonThread`.  `fds` says what each descriptor number is open on; `close` frees it
and `accept` takes any free one.  `pc` follows `ThreadProc`: `place`, `clear` and `sweep` are
where it waits for the lock, or works without it.  What only that thread uses (epoll set,
ready sockets) is a step with the step before it.  A user's call is made with a slot that was
valid when it was made; `SendSessionData` holds the lock from the read of the descriptor to
the end of the write.  A client connects once and may send any number of times (`Speak`).
`session` and `doomed` are history: which client a slot stands for, and
whom `DeleteSession` marked.  A failed assert is the step to `crashed`.

### PushStream

Extends `CommonThread`.  `PlayMeida` is one step per group of calls that can fail on the way to
the label `end`.  `OpenInput` reads the characters passed at the call: an assignment in
between may show the old name, the new one, or freed memory (`Garbled`).  The contexts of
libavformat and what is freed of them at `end` are left out, since nothing else depends on them.  A play ends because
`av_read_frame` or a write does; it does not look at `bRun`.

### RtpSender

A packet is its header and the interval of the unit's bytes it carries; the copying of the
bytes is left out, their numbers are kept as the code counts them (from byte 1, the FU header
standing for byte 0).  A unit has at least one byte behind its start code: what the encoder
delivers is not empty, and a size of 0 or less (558) is left out.  `send` can fail at every packet, or end the program with SIGPIPE.

### MCPrograms

The last three are programs of their own.  `MCPrograms` is their sum: a behaviour chooses one
and runs it, the others stay in their initial state.

### Faults

An operator named `Op_X` next to `Op` is `Op` with the fault X (a missing reset, a wait
dropped, the wrong end of a list).  It is not part of any specification: it documents
which mistake a property notices, and replacing `Op` by it makes TLC report the property.

## 3. Runs

Deadlock is not checked anywhere: a player that was stopped, a queue whose threads wait, a
server without clients left to come and a terminated program rest legitimately; liveness properties are checked instead.

| Run | Question | Result |
|---|---|---|
| `player_transport` | open, stop, play, pause, seek and speed, three calls in any order, seeks to the first two times, with failing device, codec and seek | `TypeOK`, `QueueBound`, `CodecOutlivesVideoThread`, `CodecOutlivesCallback`, `QueuesDrained`, `DisplayedInSequence`, `StopWaitsForAll` hold (1.6 million states) |
| `player_end` | does it end: when told to quit, paused or not, left alone, with every failing call of the opening sequence | `StopTerminates`, `CleanupCompletes`, `PlaybackEnds` hold, but for the two waits named below (0.14 million states) |
| `player_seek` | is every seek served, and does a paused player pause again | `SeekServed`, `PausedSeekEnds` hold (0.3 million states) |
| `player_replay` | two overlapping sessions on one demuxer, until the program crashes, which it may | `QueueBound`, `QueuesDrained` hold (2.7 million states) |
| `player_held_frame` | "否则当从后面跳转到前面的时候 会卡在这里" (VideoThread:164-166): is a held frame released after a seek back | no: counterexample |
| `player_no_device` | "修复SDL打开失败后，视频不播放的bug" (README:58): does the video play when SDL fails | no: counterexample |
| `player_open_twice` | does `stop(true)` wait for all threads (VideoPlayer.h:71) when a file is opened during an opening | no: counterexample |
| `queue_channel` | three threads making every call | `TypeOK`, `TakersNotified`, `PuttersNotStranded`, `WaitersReleased`, `ImplementsChannel`, `StopReleases` hold |
| `pool_stop` | two workers, a client, two owners, a task that adds a task, capacity one | `TypeOK`, `OnePlace`, `QuietWhenStopped`, `PuttersNotified`, `ImplementsService`, `StopReturns`, `TasksCalled` hold |
| `pool_usage` | the usage shown in ThreadPool.hpp:5-7, ended by `stop_tp` | the worker calls an empty task and the program terminates |
| `network_programs` | the TCP server with its callers and restarts, the stream pusher with all its failures, the RTP sender with every unit size | `ProgramTypeOK`; `JoinWaits`, `StopReturns`; `TableFaithful`, `WriteKeepsItsClient`, `ClosedForAReason`, `ConnectionsAnswered`; `SourceTaken`; `SeqConsecutive`, `UnitsWhole` hold (0.2 million states) |
| `push_restart` | "等待线程退出或者超时" (BaseThread.h:51): has the thread left when the status ends the wait | no: the status of the first run is still there |

Bounds.  `MAX_AUDIO_SIZE` and `MAX_VIDEO_SIZE` are 1000 and 500 packets in the code and 0 to 3
here: what matters is that a queue can be empty, partly full and over its limit, and that a
file is longer than a queue (`player_transport`, `player_replay`) or its video fits the queue
(`player_seek`).
Files have two to six packets, so that a seek finds a key frame before and at its target and
each stream has a successor frame.  Three calls of the interface (`MaxOps`) include every
pair of calls after an open, and calls made while the file is being opened.  `MaxStarts` is
2 where sessions overlap.  Three threads are enough for the queue to have a putter, a taker
and an overtaker or a stopper; the theorems hold for any number.  In `pool_stop` the queue
has one place, so adding tasks really waits.
In `network_programs` two `Threads` are a start and a restart, with the first thread perhaps
still there.  `Fds` are two descriptors, one of which the rest of the program may hold, so
that numbers are reused and run out; two clients meet in one slot or fill both; `MaxSize`
bounds starts plus table size, so it is two starts of a table of one or one start of a table
of two; one user makes one call (`MaxCalls`), which is a send or a deletion at any moment.
`MaxInits` is a name and its change or its restart.  With `MaxPkt` 3, units of 1 to 10 bytes
are a single packet, two and three fragments, with and without a remainder; `SeqMod` and
`StampMod` are small so that both numbers wrap (16 and 32 bits in the code).

What a positive result leaves out.  `StopWaitsForAll` is not all that VideoPlayer.h:71
promises: `stop(true)` finds `mPlayerState` Stop while a file is being opened, and while a
session ends by itself or cleans up after a failed opening; it then returns at once with the
threads running (VideoPlayer.cpp:120-123), and the property lists these cases.  What it shows
is that there is no other: it never returns with a session that reads on, and when it has
waited every thread has ended.

The cleanup has two waits without an end (564), which the properties of `player_end` except by
name (`Stranded`).  `AudioLost`: no device calls the audio callback, so nobody raises
`mIsAudioThreadFinished`; it happens when `openSDL` takes the spec of an earlier failed open
for a success (200), or when `setSpeed` has left the new device paused (162).
`VideoForgotten`: the audio codec could not be opened (331), the video thread already runs, and
`stop()` tells nobody to quit, because the state is Stop as yet.  Both failures are in the run,
which so shows that everything else ends, after every other failure.

`PausedSeekEnds` is checked on a file that fits the
video queue: with a full video queue the code can get stuck, which is `player_held_frame`.
`PlaybackEnds` is about
a player that is not paused, and in `player_end` about audio that fits its queue: otherwise
see `player_no_device`.  In `player_replay` both frames are due at once; liveness is not asked
there, because overlapping sessions may crash or wait for each other's flags.
`DisplayedInSequence` lets a frame be left out that lies before a position asked for, also when
the seek to it failed, because the code skips to it all the same (489-492); and a
frame read before a seek may still be shown after it, as the next one of its own position.
`ConnectionsAnswered` assumes of each client that the others do not send for ever.  Without
that assumption TLC refutes it: `WaitListenEvent` reports one ready socket per round
(CTcpServerSocket.cpp:287-303), and a client that is ready again each time keeps a second one
waiting.  `WriteKeepsItsClient` is about the client in the slot when the lock is taken, which
is not always the one the caller meant.  `JoinWaits` and `StopReturns` take a crash in
`pthread_join(0)` for an outcome.  `StopReturns` of the pool ends in "or terminated" for
the reason `pool_usage` shows.

### Fairness

Every thread of the program is scheduled (`WF` of each thread's next step, of the callback
while the device runs, and of the clock); the user need not do anything.  `closeSDL` takes
SDL's device lock, which the callback's thread releases between two calls while it waits for
the hardware, so `ReadClose` and `setSpeed` are strongly fair: they are repeatedly, not
continuously, possible.  A mutex of the queue is obtained in the end (`WF` of a thread's
critical section).  There is no fairness on spurious wakeups or on calls.
The TCP server's thread is scheduled (`TcpServes`), and so are the other threads inside a call
(`TcpGoesOn`: finitely many steps, so one condition serves for all); a write ends, because the
peer reads or leaves.  Clients need do nothing.  In the pusher the owner's wait
(`PushOwnerStep`) and each thread (`PushThread(t)`) are scheduled, and a file has an end.
`ConnectionsAnswered` is about a server that has a free descriptor and is not stopped, and
`SourceTaken` about a pusher that runs.

### Other disagreements and doubtful places

Met while modelling, but without a run of their own.  In the player:

* `play()` after `pause()` moves `mVideoStartTime` to now, so a file without audio starts
  its clock at zero (VideoPlayer.cpp:91-92 promises the paused time).
* A `play()` between the video thread's test of `mIsNeedPause` and its `mIsPause = true`
  (VideoPlayer_VideoThread.cpp:190-191) is undone.
* `speed_coefficient` divides the frame's time but not the audio clock
  (VideoPlayer_VideoThread.cpp:168); it is 1.5 from the constructor on.
* A frame that was in the decoder during a seek clears `seek_flag_video` (133), and the
  frames up to the target are shown.
* `mIsReadFinished` is not cleared by a seek (VideoPlayer.cpp:519), so after a seek back
  from the end an empty queue ends playback; and packets pushed between the test of the
  queue and the test of the flag (VideoPlayer_VideoThread.cpp:58-61) are not shown.
* A file without video never ends by itself: only the video thread sets `mIsQuit`.
* With `mIsVideoThreadFinished` still raised by an earlier session, or uninitialised
  (`Uninit = {TRUE}`), the cleanup frees the codec under the video thread (564).
* `setSpeed` leaves the new device paused (162), so no callback raises
  `mIsAudioThreadFinished` and a stop never returns.  The same happens when `openSDL` judges by
  the format of an earlier failed open (200), and when the audio codec cannot be opened the
  cleanup waits for a video thread that nobody told to quit (331, 564).
* `stop(true)` returns at once, with the threads running, from a session that is being opened
  or is ending by itself (120-123), although VideoPlayer.h:71 says that it waits.
* A session started over another one replaces `pFormatCtx` and the codec contexts (231-248),
  and the one that ends first frees them under the other (601-602): the program may crash.
* The Stop signal of an old session, delivered after the next has begun, hides its buttons
  (VideoPlayerWidget.cpp:277-281).

In the other programs:

* `OnDataReady(int iHandle, ...)` (CTcpServerSocket.h:69) is called with the descriptor
  (CTcpServerSocket.cpp:408, 419), every other `iHandle` is a slot.
* A slot names whoever is in it: when its client leaves and another is placed there between a
  caller's decision and the lock, `SendSessionData` writes to the newcomer and `DeleteSession`
  marks it (106-111, 261-270).
* A client that is ready at every round keeps the others from being accepted, read and closed
  (287-303).
* `DeleteSession` asserts that the session is there (267): if its peer left a moment before,
  the program aborts.
* `StopSocket` closes only the sessions marked for deletion, and `StartSocket` zeroes a table
  whose other descriptors are open: they stay open and unknown.
* `SendSessionData` writes to a blocking socket with the lock held; a peer that does not read
  holds up the sweep, and `CloseTCPSocket`, as long.
* When `pthread_create` fails, `start` returns with `bRun` set, and the owner takes the thread
  for running.
* `PlayMeida` tests `ret` where the header's result is `re` (MediaPlay.cpp:165), loses the
  output context of line 108, which 115 replaces, frees of its packet only the data (94, 208),
  and closes its output with the call for inputs (211).
* The RTP fragments go on to the byte after the unit (rtscp-server.c:280-300), and PLAY without
  SETUP uses an unset `rtpChannel` (410, 561).  Only a failing encoder ends the loop of PLAY.
* `SpinLock::try_lock` returns what `test_and_set` does, which is TRUE when the lock was taken
  by another (SpinLock.hpp:31-34).

## 4. Proofs

| Module | Theorem | For |
|---|---|---|
| `VideoPlayerTypes` | `TypeCorrect`: `Spec => []TypeOK` | every file, bound and set of failures |
| `VideoPlayerQueues` | `ReadingAheadBounded`, `QueuesAreDrained`: `Spec => []QueueBound`, `Spec => []QueuesDrained` | the same, any number of overlapping sessions |
| `VideoPlayerSession` | `CodecOutlivesDecoder`, `CodecOutlivesAudio`, `StopWaits` | one session, flags that start as FALSE (`FirstSession`) |
| `VideoPlayerFrames` | `FramesInSequence`: `Spec => DisplayedInSequence` | one viewing (`OneViewing`), any number of seeks and pauses |
| `SyncQueueProofs` | `TypeCorrect`, `Implements`, `TakersAreNotified`, `PuttersAreNotified`, `NotStranded`, `WaitersAreReleased` | every number of threads, capacity and choice of calls (`PuttersAreNotified`: without `take_sq(list)`) |
| `ThreadPoolProofs` | `PoolTypeCorrect`, `PoolQuiet`, `PoolOnePlace`; `PoolImplementsService`: `Spec => ImplementsService`; of its queue `PoolUsesQueue`, `PoolImplementsChannel`, `PoolThreadsWoken`, `PoolPuttersNotified` | every number of workers, clients, owners and tasks, and capacity |
| `NetworkProofs` | `TcpJoinWaits`, `PushJoinWaits`; `TableIsFaithful`, `WritesKeepTheirClient`, `ClosingHasAReason` | every table, any number of descriptors, clients, users and restarts |
| `ProgramProofs` | `NumbersConsecutive`, `UnitsArriveWhole`; of the sum of the programs `ProgramTypes`, `ProgramSafety`, `ProgramCloses`, `ProgramPackets` | the same, every packet size, unit size and modulus |

*Types.*  `TypeOK` is not inductive.  `TypeInv` adds that a call about to reach `startPlay` has
a session left, and that the packet in the decoder has a time; each part has one lemma with
one case per action.

*Queue bound.*  The test of the lengths and the push are two steps, with other read threads in
between, so `QueueBound` is not inductive either.  `RoomInv` counts each read thread that is past its test
as if its packet were in the queue: `Len(queue) + |threads about to push| <= max + MaxStarts`.
A step that neither pushes nor brings a thread to a push is `Quiet` and keeps it; the six
others are treated one by one with the cardinality facts of finite sets.

*Empty queues.*  Only a read thread past its opening pushes, and the steps by which it leaves
that part of its code (`AudioReading`, `VideoReading`) empty one queue each.  So while no thread
is there the queue is empty (`Drained`), whichever session's packets it held.

*Session.*  `SessionInv` ties the finish flags to the places of the threads: the video thread's
flag is up only when it is done, the callback runs only between `openSDL` and `closeSDL`, the
read thread's flag is raised by its last step.  `StopInv` is what `StopWaits` needs of the early
return: with the state Stop and the read thread in its loop (`ReadsOn`) the interface is waiting
in `stop(true)` already.  The invariant needs `FirstSession`: a flag left up from an
earlier session breaks it, and so does the code.

*Frames.*  A frame on its way to the screen is in the video queue or held by the video thread
(`Way`).  The invariant orders the frames there, and behind the one on the screen, by seek and
then by time (`OrderInv`), which excludes a repeat; during a seek all of them are of earlier seeks
(`EpochInv`) and the file is at the key frame (`PlaceInv`); what the
read thread reads next is later than all that it has read since the last seek (`AheadInv`).  So
that the first frame after a seek is covered too, a seek of which nothing has been shown stands
as a point just before its key frame (`Starts`), which no frame of it precedes (`StartInv`).  And the way
has no gap: a frame between two on the way, or between one on it and the screen or such a
point, is on it too, or lies before a target that was asked for (`GapInv`), and the same holds between the way
and the read position (`TailInv`).  `DisplayedInSequence` is `GapInv` at the head of the way, for the step that
shows it (`ShowsHeld`, `ShowsNext`);
it is not inductive, because a read keeps `GapInv` by `TailInv`, and that by `AheadInv`.  `OneViewing` has three parts.  In a second session the frames of the
first may come back.  When the decoder gives no frame for a packet, one is missing.  And the
packets of the file must be in the order of their times, as they are without B frames: the
model shows a packet's frame when it has decoded it.  The constants of `player_transport`
satisfy all three.

*Queue.*  The invariants of the notifications are proved by counting: a put adds one item
and moves one taker out of the wait set, a waiting thread found no item under the mutex.
`Implements` maps every critical section to one channel action or a stutter.

*Pool.*  The pool contains the queue by `INSTANCE`, and every step of it is a step of that
queue or leaves the queue alone: its behaviours are behaviours of `SyncQueue`
(`PoolUsesQueue`), so `SyncQueueProofs`' theorems, instantiated, give the channel and the
wakeups.  (`PuttersNotified` needs that nobody takes whole lists, which is so in the
pool.)  `PoolQuiet` needs that `stop_tp` returns only after the joins, to the
caller of `call_once` and to the ones that wait for it alike.  `PoolOnePlace` follows the
place of a task from the client's hand to the list, the worker and the call (`TaskInv`), with
what each thread has in its hands (`HandInv`) and that only its one running parent adds a
nested task (`ParentInv`).  `PoolImplementsService` adds `StopInv` (whoever is past `call_once`
has stopped the queue) and takes each action to its step: before the stop no task is nowhere,
so a step in the queue changes no stage; after it a put drops the task it carries; a call
needs that fewer tasks run than there are workers, because the calling worker has none.

*Threads.*  As long as no start came over a stop that had not waited, a thread that has not yet
cleared `tid` (`Live`) is the one in `tid`, and the one a join waits for, at whichever of its
two reads.

*Server.*  The invariant has one part per kind of fact: `LifeInv` (what the thread object says
about who is in `ThreadProc`), `PlaceInv` (what each place of `ThreadProc` knows), `TableInv`
(slots, sessions and descriptors), `FdInv` (a client has one
descriptor, and none before it is accepted), `MarkInv` (a mark on an open slot was set for its present
session, because `Place` lowers the one left behind) and `LockInv` (while a sender holds the
lock its descriptor is that client's, or closed with the thread not past `sweep`).  `WritesKeepTheirClient` and `TableIsFaithful`
need all of them.

*RTP.*  The invariant ties `last` to `i`, `pos` and `seq` at each place of the sender: the next
byte is `1 + i * MaxPkt`, and the number of the last packet is one behind `seq` modulo `SeqMod`.

*Sum of the programs.*  `network_programs` checks the properties of the sum, `ProgramSpec`, and
so do the four theorems about it.  Only the server's invariant is needed for its own steps, and
`ProgramInv` has it for as long as the server is the program chosen; when another runs, the
server's fields stay as they are and what was true of them stays so.

The constants' assumptions (`ConstantsAssumption`, `QueueAssumption`, `ThreadAssumption`,
`TcpAssumption`, `PushAssumption`, `PoolAssumption`, `RtpAssumption`) are what the code needs to compile or run: natural sizes,
known calls, finitely many threads, distinct values.  TLC evaluates them on every run.

Only model-checked: liveness, which rests on fairness and is beyond TLAPS (`StopTerminates`,
`CleanupCompletes`, `PlaybackEnds`, `SeekServed`, `PausedSeekEnds`, `StopReleases`, `StopReturns`,
`TasksCalled`, `ConnectionsAnswered`, `SourceTaken`).  Every invariant and action property of
the passing runs is a theorem; under `OneViewing` for `DisplayedInSequence` and `FirstSession`
for the codecs and `StopWaitsForAll`.

## 5. Not modelled

Of the 1.45 million lines about 98 in a hundred are generated or third-party: the gSOAP
bindings of `onvif` (`soapC.cpp`, `soapH.h`, `soapStub.h`, twice) are three quarters, the
headers of FFmpeg and SDL that come with the player and live555 most of the rest.  The
bindings serialise structures and have no behaviour of this program.  So the share of all
lines that the models cover is small whatever is added; of the hand-written code with state shared
between threads, what follows is left.

* `ffplayer`: one loop that reads, decodes and waits, ended by `exit(0)`; the slots of the
  interface write its flags unsynchronised, and the buttons of the recording thread are hidden.
* `CUdpSocket`, `MulticastSocket`: the thread object (modelled) around `recvfrom` and a virtual
  handler that this repository does not define.
* `CTcpServerSocket::SendData`, `ReciveData`, `FindSession`: they read a slot without the lock
  and change nothing; `OnTcpEvent` and `OnDataReady` belong to the derived class, of which the
  model keeps only the result.
* The player's volume, log and widgets beyond the handlers that call the player; the widget's
  queued state signals.
* The epoll example does not compile (it uses names that are declared nowhere); the small
  servers and clients, the FTP programs, the muxers and the tutorials call a library or the
  system in sequence.
* The RPC client polls a ZeroMQ socket in a thread that its destructor joins; the messages are
  the library's.
* `SpinLock`, `MutexLock`, `CacheList`: one atomic step per operation, so that a model would
  restate it.
* The encoder and the text of the requests in the RTSP server.

What would come next: the widget over the player's callbacks with the order of their signals,
and an abstract session table that `TcpServer` implements.
