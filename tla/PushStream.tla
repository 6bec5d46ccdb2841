-------------------------------- MODULE PushStream --------------------------------
(***************************************************************************)
(* MediaPlay over BaseThread (ffmpeg/push_stream): a thread pushes a file  *)
(* to an address, over and over, until it is stopped; InitService names    *)
(* the file, also while the thread runs.                                   *)
(*                                                                         *)
(* What libavformat returns is any choice. A file has finitely many        *)
(* packets: av_read_frame ends the loop of PlayMeida, which does not look  *)
(* at bRun. The destination (read again by each play) is left out, and so  *)
(* are the contexts a play opens and what it frees of them at its end      *)
(* (MediaPlay.cpp:207-211): nothing else depends on them.                  *)
(***************************************************************************)
EXTENDS CommonThread

CONSTANTS
  Names,      \* file names
  Garbled,    \* what is in the memory of a string that was assigned to meanwhile
  MaxInits    \* bound: calls of InitService

ASSUME PushAssumption == MaxInits \in Nat

VARIABLES
  mPathName,
  play,       \* play[t]: where thread t is in PlayMeida
  name,       \* name[t]: the argument of PlayMeida, as it was at the call
  inits,      \* calls of InitService
  taken       \* history: the name InitService gave last has been opened

pushVars == <<mPathName, play, name, inits, taken>>

PlayPlaces == {"loop", "open", "info", "output", "avio", "packets", "end", "pause"}

PushTypeOK ==
  /\ mPathName \in Names \cup {""} /\ play \in [Threads -> PlayPlaces]
  /\ name \in [Threads -> Names \cup {""}]
  /\ inits \in 0 .. MaxInits /\ taken \in BOOLEAN

PushInit ==
  /\ ThreadInit
  /\ mPathName = ""
  /\ play = [t \in Threads |-> "loop"] /\ name = [t \in Threads |-> mPathName]
  /\ inits = 0 /\ taken = TRUE
-----------------------------------------------------------------------------
(* The owner.                                                              *)

\* It starts the thread when IsRun says that there is none; when pthread_create fails, the next
\* InitService believes that there is one.
InitService ==
  /\ owner = "idle" /\ inits < MaxInits
  /\ mPathName' \in Names
  /\ \/ bRun /\ UNCHANGED threadVars
     \/ startFails \/ \E t \in Threads : start(t)
  /\ inits' = inits + 1 /\ taken' = FALSE
  /\ UNCHANGED <<play, name>>

OwnerStops == (stop \/ stopTimed \/ asyncStop \/ waitAsyn) /\ UNCHANGED pushVars
PushOwnerStep == OwnerStep /\ UNCHANGED pushVars
-----------------------------------------------------------------------------
(* ThreadProc and PlayMeida, in thread t.                                  *)

Goes(t, from, to) == at[t] = "body" /\ play[t] = from /\ play' = [play EXCEPT ![t] = to]

\* The loop of ThreadProc passes the characters of mPathName.
CallsWith(t, n) ==
  /\ bRun /\ Goes(t, "loop", "open")
  /\ name' = [name EXCEPT ![t] = n]
  /\ UNCHANGED <<mPathName, inits, taken>>

PlayCalled_Stale(t) == CallsWith(t, name[t])
PlayCalled(t) == CallsWith(t, mPathName)

\* avformat_open_input; an assignment to mPathName since the call may show, and may have freed the
\* characters. A failure frees the context.
OpenInput(t) ==
  /\ \E n \in IF name[t] = mPathName THEN {mPathName} ELSE {name[t], mPathName, Garbled} :
       taken' = (taken \/ n = mPathName)
  /\ Goes(t, "open", "info") \/ Goes(t, "open", "end")
  /\ UNCHANGED <<mPathName, name, inits>>

\* Stream information, the output context, then avio_open and the header (line 165 tests ret where
\* the header's result is re): what fails goes to the end.
OpenStreams(t) ==
  /\ \/ Goes(t, "info", "output") \/ Goes(t, "output", "avio") \/ Goes(t, "avio", "packets")
     \/ \E from \in {"info", "output", "avio"} : Goes(t, from, "end")
  /\ UNCHANGED <<mPathName, name, inits, taken>>

\* av_read_frame has no more packets, or av_interleaved_write_frame fails.
PacketsEnd(t) ==
  /\ Goes(t, "packets", "end")
  /\ UNCHANGED <<mPathName, name, inits, taken>>

PlayEnds(t) ==
  /\ Goes(t, "end", "pause")
  /\ UNCHANGED <<mPathName, name, inits, taken>>

Pause(t) ==
  /\ Goes(t, "pause", "loop")
  /\ UNCHANGED <<mPathName, name, inits, taken>>

PlayStep(t) ==
  /\ \/ PlayCalled(t) \/ OpenInput(t) \/ OpenStreams(t)
     \/ PacketsEnd(t) \/ PlayEnds(t) \/ Pause(t)
  /\ UNCHANGED threadVars

PushThread(t) ==
  \/ PlayStep(t)
  \/ Run1(t) /\ UNCHANGED pushVars
  \/ play[t] = "loop" /\ ~bRun /\ ThreadProcReturns(t) /\ UNCHANGED pushVars
  \/ ThreadLeaves(t) /\ UNCHANGED pushVars
-----------------------------------------------------------------------------
PushNext ==
  \/ InitService \/ OwnerStops \/ PushOwnerStep
  \/ \E t \in Threads : PushThread(t)

\* The owner's wait and the threads are scheduled; the owner calls as it likes.
PushFairness ==
  /\ WF_<<threadVars, pushVars>>(PushOwnerStep)
  /\ \A t \in Threads : WF_<<threadVars, pushVars>>(PushThread(t))

PushSpec == PushInit /\ [][PushNext]_<<threadVars, pushVars>> /\ PushFairness
-----------------------------------------------------------------------------
\* The name InitService gives is opened, also when a play of another file is under way and reads
\* its own name while that is assigned to: unless the thread is stopped, or there is none
\* (pthread_create failed).
SourceTaken == ~taken ~> taken \/ ~bRun \/ Busy = {}
=============================================================================
