------------------------------- MODULE ThreadPool -------------------------------
(***************************************************************************)
(* ThreadPool of other/ThreadPool.hpp over SyncQueue: workers that take    *)
(* tasks of the queue and call them, clients that add tasks, owners that   *)
(* call stop_tp.  A task is a client's function.  It may add another task  *)
(* of its own before it returns (Adds); it never stops the pool.           *)
(*                                                                         *)
(* A definition named Op_X is not used by the specification: it is Op with *)
(* the fault X, which a property of this module tells from Op.             *)
(***************************************************************************)
EXTENDS Integers, Sequences, FiniteSets

CONSTANTS
  Workers, Clients, Owners,   \* the pool's threads and its callers'
  Tasks,
  Adds,                       \* the tasks a running task adds, one at most each
  MAXTASKCOUNT,
  None

ASSUME PoolAssumption ==
  /\ MAXTASKCOUNT \in Nat
  /\ Adds \in [Tasks -> SUBSET Tasks] /\ \A k \in Tasks : Cardinality(Adds[k]) <= 1
  /\ \A j, k \in Tasks : j # k => Adds[j] \cap Adds[k] = {}
  /\ None \notin Tasks
  /\ IsFiniteSet(Workers) /\ IsFiniteSet(Clients) /\ IsFiniteSet(Owners)
  /\ Workers \cap Clients = {} /\ Workers \cap Owners = {} /\ Clients \cap Owners = {}

Threads == Workers \cup Clients \cup Owners

VARIABLES
  m_queue, m_needStop, at, held,   \* SyncQueue
  m_running,
  m_flag,       \* the once_flag: "unset", "running" or "set"
  pc,           \* where the workers and the owners are
  task,         \* the task a worker is calling
  given,        \* the tasks add_task was called with
  runs,         \* how often each task was called
  terminated    \* an exception left a thread: std::terminate

Q == INSTANCE SyncQueue
       WITH Items <- Tasks, m_maxSize <- MAXTASKCOUNT, Calls <- {"put", "take", "stop"}

queueVars == <<m_queue, m_needStop, at, held>>
poolVars == <<m_running, m_flag, pc, task, given, runs, terminated>>
vars == <<queueVars, poolVars>>

WorkerPlaces == {"loop", "taking", "calling", "adding", "exited"}
OwnerPlaces == {"idle", "stopping", "joining", "waiting", "stopped"}

\* Every task is a task that was added, and every thread at a place of its own loop.
TypeOK ==
  /\ Q!TypeOK
  /\ m_running \in BOOLEAN /\ terminated \in BOOLEAN
  /\ m_flag \in {"unset", "running", "set"}
  /\ \A t \in Workers : pc[t] \in WorkerPlaces
  /\ \A t \in Owners : pc[t] \in OwnerPlaces
  /\ task \in [Workers -> Tasks \cup {None}]
  /\ \A w \in Workers : pc[w] \in {"calling", "adding"} => task[w] # None
  /\ given \subseteq Tasks /\ runs \in [Tasks -> Nat]

\* start_tp: the threads are started with m_running set.
Init ==
  /\ Q!Init
  /\ m_running = TRUE /\ m_flag = "unset" /\ terminated = FALSE
  /\ pc = [t \in Workers \cup Owners |-> IF t \in Workers THEN "loop" ELSE "idle"]
  /\ task = [w \in Workers |-> None]
  /\ given = {} /\ runs = [k \in Tasks |-> 0]

Nested == UNION {Adds[k] : k \in Tasks}

\* Where a task is: brought to the queue or on its way to the call, queued, called.
Carried(k) ==
  {t \in Threads : held[t] = <<k>> /\ (t \in Workers => pc[t] \in {"taking", "adding"})}
Queued(k) == {i \in 1..Len(m_queue) : m_queue[i] = k}
Places(k) == Cardinality(Carried(k)) + Cardinality(Queued(k)) + runs[k]
-----------------------------------------------------------------------------
add_task_MovedFrom(c, k) ==
  /\ k \notin given \cup Nested
  /\ at[c] = "out" /\ at' = [at EXCEPT ![c] = "put"]
  /\ held' = [held EXCEPT ![c] = <<>>]
  /\ given' = given \cup {k}
  /\ UNCHANGED <<m_queue, m_needStop, m_running, m_flag, pc, task, runs, terminated>>

\* A client adds a task of its own, each one once.  add_task is put_sq.
add_task(c, k) ==
  /\ k \notin given \cup Nested
  /\ Q!PutCall(c, k)
  /\ given' = given \cup {k}
  /\ UNCHANGED <<m_running, m_flag, pc, task, runs, terminated>>

\* while(m_running), a fresh task_type and the call of take_sq
RunTest_KeepsTask(w) ==
  /\ pc[w] = "loop"
  /\ IF m_running
     THEN /\ at[w] = "out" /\ at' = [at EXCEPT ![w] = "take"]
          /\ pc' = [pc EXCEPT ![w] = "taking"]
          /\ UNCHANGED <<m_queue, m_needStop, held>>
     ELSE pc' = [pc EXCEPT ![w] = "exited"] /\ UNCHANGED queueVars
  /\ UNCHANGED <<m_running, m_flag, task, given, runs, terminated>>

RunTest(w) ==
  /\ pc[w] = "loop"
  /\ \/ m_running /\ Q!TakeCall(w) /\ pc' = [pc EXCEPT ![w] = "taking"]
     \/ ~m_running /\ pc' = [pc EXCEPT ![w] = "exited"] /\ UNCHANGED queueVars
  /\ UNCHANGED <<m_running, m_flag, task, given, runs, terminated>>

\* take_sq has returned and task() is called.  When the queue was stopped the task
\* is empty and the call throws bad_function_call out of the thread.
RunTask(w) ==
  /\ pc[w] = "taking" /\ at[w] = "out"
  /\ \/ /\ held[w] # <<>>
        /\ task' = [task EXCEPT ![w] = held[w][1]]
        /\ runs' = [runs EXCEPT ![held[w][1]] = @ + 1]
        /\ pc' = [pc EXCEPT ![w] = "calling"]
        /\ UNCHANGED terminated
     \/ /\ held[w] = <<>>
        /\ terminated' = TRUE
        /\ UNCHANGED <<pc, task, runs>>
  /\ UNCHANGED <<queueVars, m_running, m_flag, given>>

\* The task adds another one: the worker is in add_task until there is room.
TaskAdds(w, k) ==
  /\ pc[w] = "calling" /\ k \in Adds[task[w]]
  /\ Q!PutCall(w, k)
  /\ given' = given \cup {k}
  /\ pc' = [pc EXCEPT ![w] = "adding"]
  /\ UNCHANGED <<m_running, m_flag, task, runs, terminated>>

TaskReturns_Exits(w) ==
  /\ \/ pc[w] = "calling" /\ Adds[task[w]] = {}
     \/ pc[w] = "adding" /\ at[w] = "out"
  /\ pc' = [pc EXCEPT ![w] = "exited"]
  /\ task' = [task EXCEPT ![w] = None]
  /\ UNCHANGED <<queueVars, m_running, m_flag, given, runs, terminated>>

TaskReturns(w) ==
  /\ \/ pc[w] = "calling" /\ Adds[task[w]] = {}
     \/ pc[w] = "adding" /\ at[w] = "out"
  /\ pc' = [pc EXCEPT ![w] = "loop"]
  /\ task' = [task EXCEPT ![w] = None]
  /\ UNCHANGED <<queueVars, m_running, m_flag, given, runs, terminated>>

stop_tp_OnlyJoins(o) ==
  /\ pc[o] = "idle" /\ m_flag = "unset" /\ m_flag' = "running"
  /\ pc' = [pc EXCEPT ![o] = "stopping"]
  /\ UNCHANGED <<queueVars, m_running, task, given, runs, terminated>>

\* stop_tp: call_once lets one caller in and holds the others.  stop_thread_group
\* stops the queue, clears m_running and joins the workers.
stop_tp(o) ==
  /\ pc[o] = "idle"
  /\ \/ /\ m_flag = "unset" /\ m_flag' = "running"
        /\ Q!stop_sq(o)
        /\ pc' = [pc EXCEPT ![o] = "stopping"]
     \/ /\ m_flag # "unset"
        /\ pc' = [pc EXCEPT ![o] = "waiting"]
        /\ UNCHANGED <<queueVars, m_flag>>
  /\ UNCHANGED <<m_running, task, given, runs, terminated>>

ClearRunning(o) ==
  /\ pc[o] = "stopping" /\ at[o] = "out"
  /\ m_running' = FALSE
  /\ pc' = [pc EXCEPT ![o] = "joining"]
  /\ UNCHANGED <<queueVars, m_flag, task, given, runs, terminated>>

JoinAll_First(o) ==
  /\ pc[o] = "joining" /\ \E w \in Workers : pc[w] = "exited"
  /\ pc' = [pc EXCEPT ![o] = "stopped"]
  /\ m_flag' = "set"
  /\ UNCHANGED <<queueVars, m_running, task, given, runs, terminated>>

JoinAll(o) ==
  /\ pc[o] = "joining" /\ \A w \in Workers : pc[w] = "exited"
  /\ pc' = [pc EXCEPT ![o] = "stopped"]
  /\ m_flag' = "set"
  /\ UNCHANGED <<queueVars, m_running, task, given, runs, terminated>>

StopOver(o) ==
  /\ pc[o] = "waiting" /\ m_flag = "set"
  /\ pc' = [pc EXCEPT ![o] = "stopped"]
  /\ UNCHANGED <<queueVars, m_running, m_flag, task, given, runs, terminated>>

InQueue(t) == Q!Proceeds(t) /\ UNCHANGED poolVars
Wakeup(t) == Q!SpuriousWakeup(t) /\ UNCHANGED poolVars

Worker(w) == RunTest(w) \/ RunTask(w) \/ TaskReturns(w) \/ \E k \in Tasks : TaskAdds(w, k)
Owner(o) == ClearRunning(o) \/ JoinAll(o) \/ StopOver(o)

\* Nothing happens in a program that was terminated.
Next ==
  /\ ~terminated
  /\ \/ \E w \in Workers : Worker(w)
     \/ \E o \in Owners : stop_tp(o) \/ Owner(o)
     \/ \E c \in Clients, k \in Tasks : add_task(c, k)
     \/ \E t \in Threads : InQueue(t) \/ Wakeup(t)

Spec == Init /\ [][Next]_vars

\* A thread that can go on does, and one that waits for the mutex gets it.
FairSpec ==
  /\ Spec
  /\ \A w \in Workers : WF_vars(~terminated /\ Worker(w))
  /\ \A o \in Owners : WF_vars(~terminated /\ Owner(o))
  /\ \A t \in Threads : WF_vars(~terminated /\ InQueue(t))
-----------------------------------------------------------------------------
\* A task given to the pool is in one place only, so it is not called twice; while
\* nobody stops the pool it is not lost either (ThreadPool.hpp:43-51, 84-92).
OnePlace == \A k \in given : Places(k) = 1 \/ (m_needStop /\ Places(k) = 0)

\* The pool is the task service, with as many threads as workers: a task is called once,
\* dropped only after the stop, and none runs when stop_tp has returned; an accepted task
\* that is in no place any more was dropped (ThreadPool.hpp:38-51, 84-108).
Stage(k) ==
  IF k \notin given THEN "new"
  ELSE IF \E w \in Workers : task[w] = k THEN "running"
  ELSE IF runs[k] > 0 THEN "done"
  ELSE IF Places(k) = 0 THEN "dropped"
  ELSE "accepted"
Service == INSTANCE TaskService
             WITH Size <- Cardinality(Workers), stage <- [k \in Tasks |-> Stage(k)],
                  stopping <- m_needStop, over <- (m_flag = "set")
ImplementsService == Service!Spec

\* While a client or a worker waits to add a task, every free place of the queue has
\* another one on its way to it (SyncQueue.hpp:72, 134).
PuttersNotified == Q!PuttersNotified

\* While nobody stops the pool, every task is called in the end, those that tasks add
\* included: this needs more workers than tasks that add others, or all of them can
\* be waiting for room in the queue (ThreadPool.hpp:84-92, SyncQueue.hpp:134).
TasksCalled == \A k \in Tasks : k \in given ~> runs[k] > 0 \/ m_needStop

\* stop_tp comes back to everybody who called it, unless the program is terminated
\* first (ThreadPool.hpp:38-41, 95-108).
StopReturns == \A o \in Owners : pc[o] # "idle" ~> pc[o] = "stopped" \/ terminated

\* When stop_tp returns no task is being called and none will be
\* (ThreadPool.hpp:95-108).
QuietWhenStopped == \A o \in Owners : pc[o] = "stopped" => \A w \in Workers : task[w] = None

\* The pool is used as its header shows, made and given tasks: it ends with its
\* stop_tp, and no worker calls an empty task (ThreadPool.hpp:5-7, 32-35).
NoEmptyCall == ~terminated
=============================================================================
