------------------------------ MODULE CommonThread ------------------------------
(***************************************************************************)
(* The life of a thread object: CCommonThread of network/CCommonThread.cpp *)
(* and its copy BaseThread of ffmpeg/push_stream/BaseThread.cpp, which     *)
(* differs in that its Run1 does not write THREAD_STATUS_RUNNING.          *)
(*                                                                         *)
(* One owner calls start and the stops; the threads it has created run     *)
(* run1.  What ThreadProc does, and when it returns, is the composing      *)
(* module's.  The fields are plain integers shared without a lock.         *)
(*                                                                         *)
(* A definition named Op_X is not used by the specification: it is Op with *)
(* the fault X, which a property tells from Op.                            *)
(***************************************************************************)
EXTENDS Integers

CONSTANTS
  Threads,   \* the pthread_t values, as numbers in the order pthread_create returns them
  NoThread   \* tid == 0

ASSUME ThreadAssumption == NoThread \notin Threads

VARIABLES
  bRun, tid, threadStatus,   \* the fields
  at,       \* at[t]: where thread t is in run1
  owner,    \* where the owner is in stop or join
  joinee,   \* the thread id join has read
  waiting   \* history: "done" with the last stop, "open" (it did not wait), "lost" (started over it)

threadFields == <<bRun, tid, threadStatus>>
threadVars == <<threadFields, at, owner, joinee, waiting>>

ThreadPlaces == {"unborn", "created", "body", "returned", "reported", "exiting", "ended"}
OwnerPlaces == {"idle", "join", "joinRead", "joining", "timedJoin", "polling", "crashed"}

ThreadTypeOK ==
  /\ bRun \in BOOLEAN /\ tid \in Threads \cup {NoThread}
  /\ threadStatus \in {"NEW", "RUNNING", "EXIT"}
  /\ at \in [Threads -> ThreadPlaces]
  /\ owner \in OwnerPlaces /\ joinee \in Threads \cup {NoThread}
  /\ waiting \in {"done", "open", "lost"}

\* CCommonThread::CCommonThread.
ThreadInit ==
  /\ bRun = FALSE /\ tid = NoThread /\ threadStatus = "NEW"
  /\ at = [t \in Threads |-> "unborn"]
  /\ owner = "idle" /\ joinee = NoThread /\ waiting = "done"

\* Threads of this object that have not left ThreadProc.
Busy == {t \in Threads : at[t] \in {"created", "body"}}
-----------------------------------------------------------------------------
(* The owner.  An assert(bRun == ...) is a guard: its owner looks at isRun. *)

\* pthread_create stores the new id before the thread runs.
start(t) ==
  /\ owner = "idle" /\ ~bRun /\ at[t] = "unborn" /\ \A u \in Threads : u < t => at[u] # "unborn"
  /\ bRun' = TRUE /\ tid' = t
  /\ at' = [at EXCEPT ![t] = "created"]
  /\ waiting' = IF waiting = "open" THEN "lost" ELSE waiting
  /\ UNCHANGED <<threadStatus, owner, joinee>>

\* pthread_create fails: start returns false, with bRun set.
startFails ==
  /\ owner = "idle" /\ ~bRun
  /\ bRun' = TRUE
  /\ UNCHANGED <<tid, threadStatus, at, owner, joinee, waiting>>

\* stop, stop(ms) and asyncStop lower the flag; they go on to join(), to join(ms) and nowhere.
stopTo(place) ==
  /\ owner = "idle" /\ bRun
  /\ bRun' = FALSE /\ owner' = place
  /\ waiting' = IF waiting = "done" THEN "open" ELSE waiting
  /\ UNCHANGED <<tid, threadStatus, at, joinee>>

stop == stopTo("join")
stopTimed == stopTo("timedJoin")
asyncStop == stopTo("idle")

waitAsyn ==
  /\ owner = "idle" /\ owner' = "join"
  /\ UNCHANGED <<threadFields, at, joinee, waiting>>

Waited == IF waiting = "open" /\ ~bRun THEN "done" ELSE waiting

\* join() tests tid and returns when it is 0 ...
JoinTest ==
  /\ owner = "join"
  /\ \/ tid = NoThread /\ owner' = "idle" /\ waiting' = Waited
     \/ tid # NoThread /\ owner' = "joinRead" /\ UNCHANGED waiting
  /\ joinee' = tid
  /\ UNCHANGED <<threadFields, at>>

\* ... and passes it on: the value tested or, in a build that loads the field again, the value
\* it has by then.  pthread_join(0) is undefined.
JoinRead ==
  /\ owner = "joinRead"
  /\ \E id \in {joinee, tid} :
       /\ joinee' = id
       /\ owner' = IF id = NoThread THEN "crashed" ELSE "joining"
  /\ UNCHANGED <<threadFields, at, waiting>>

JoinReturns ==
  /\ owner = "joining" /\ at[joinee] = "ended"
  /\ owner' = "idle" /\ waiting' = Waited
  /\ UNCHANGED <<threadFields, at, joinee>>

\* join(ms), ms > 0: without a thread it returns, else it polls the status ...
TimedJoinTest ==
  /\ owner = "timedJoin"
  /\ owner' = IF tid = NoThread THEN "idle" ELSE "polling"
  /\ UNCHANGED <<threadFields, at, joinee, waiting>>

\* ... until that is EXIT or the time is over, which can be at any time.
PollEnds ==
  /\ owner = "polling" /\ owner' = "idle"
  /\ UNCHANGED <<threadFields, at, joinee, waiting>>
-----------------------------------------------------------------------------
(* The thread.                                                             *)

BeginsWith(t, run, id) ==
  /\ at[t] = "created"
  /\ at' = [at EXCEPT ![t] = "body"]
  /\ bRun' = run /\ tid' = id
  /\ UNCHANGED <<owner, joinee, waiting>>

Begins_Raises(t) == BeginsWith(t, TRUE, t)
Begins_Leaves(t) == BeginsWith(t, bRun, NoThread)
Begins(t) == BeginsWith(t, bRun, t)

\* CCommonThread::run1 and BaseThread::Run1 up to ThreadProc.
run1(t) == Begins(t) /\ threadStatus' = "RUNNING"
Run1(t) == Begins(t) /\ UNCHANGED threadStatus

ThreadProcReturns(t) ==
  /\ at[t] = "body"
  /\ at' = [at EXCEPT ![t] = "returned"]
  /\ UNCHANGED <<threadFields, owner, joinee, waiting>>

run1Reports(t) ==
  /\ at[t] = "returned"
  /\ at' = [at EXCEPT ![t] = "reported"]
  /\ threadStatus' = "EXIT"
  /\ UNCHANGED <<bRun, tid, owner, joinee, waiting>>

\* By now tid may be the id of a younger thread.
run1Leaves(t) ==
  /\ at[t] = "reported"
  /\ at' = [at EXCEPT ![t] = "exiting"]
  /\ tid' = NoThread
  /\ UNCHANGED <<bRun, threadStatus, owner, joinee, waiting>>

pthread_exit(t) ==
  /\ at[t] = "exiting"
  /\ at' = [at EXCEPT ![t] = "ended"]
  /\ UNCHANGED <<threadFields, owner, joinee, waiting>>

OwnerStep == JoinTest \/ JoinRead \/ JoinReturns \/ TimedJoinTest \/ PollEnds
ThreadLeaves(t) == run1Reports(t) \/ run1Leaves(t) \/ pthread_exit(t)
-----------------------------------------------------------------------------
\* Unless it was started over a stop that had not waited, the object has one thread at most in
\* ThreadProc, and a stop that waited leaves none there: stop() returns with tid zero or after
\* pthread_join (CCommonThread.cpp:118-163), so its caller may close what the thread used.
JoinWaits ==
  waiting # "lost" =>
    /\ \A t, u \in Busy : t = u
    /\ owner = "idle" /\ ~bRun /\ waiting = "done" => Busy = {}

\* A stop, or the wait that follows asyncStop, returns to its caller (or dies in pthread_join): the
\* thread it waits for leaves ThreadProc, whatever came before (CCommonThread.cpp:118-182).
StopReturns ==
  owner \notin {"idle", "crashed"} /\ ~bRun ~> owner \in {"idle", "crashed"}

\* BaseThread.h:51, "等待线程退出或者超时": the status that ends the wait before its time says
\* that the thread has left.
ExitMeansExited == owner = "polling" /\ threadStatus = "EXIT" => Busy = {}
=============================================================================
