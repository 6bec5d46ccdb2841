----------------------------- MODULE ThreadPoolProofs -----------------------------
(***************************************************************************)
(* The invariants of the pool, for every number of workers, clients and    *)
(* owners, every set of tasks and every capacity.  What the pool does to   *)
(* its queue are steps of SyncQueue, so that the proofs about SyncQueue    *)
(* give the queue's part.                                                  *)
(***************************************************************************)
EXTENDS ThreadPool, TLAPS, FiniteSetTheorems, SequenceTheorems

QP == INSTANCE SyncQueueProofs
        WITH Items <- Tasks, m_maxSize <- MAXTASKCOUNT, Calls <- {"put", "take", "stop"}

\* The threads are finitely many and the queue has a capacity, as SyncQueue assumes.
LEMMA PoolQueue == QP!QueueAssumption
  <1>1. IsFiniteSet(Threads)  BY PoolAssumption, FS_Union DEF Threads
  <1>2. QP!IsFiniteSet(Threads)  BY <1>1, Zenon DEF IsFiniteSet, QP!IsFiniteSet
  <1>3. MAXTASKCOUNT \in Nat  BY PoolAssumption
  <1> QED  BY <1>2, <1>3 DEF QP!QueueAssumption, QP!Call

\* SyncQueue is instantiated by ThreadPool, and here again with its proofs: the same definitions.
LEMMA SameQueue == (Q!TypeOK <=> QP!TypeOK) /\ ([Q!Next]_queueVars <=> [QP!Next]_(QP!vars))
  <1> USE DEF Q!Entries, Q!Waiting, Q!Places, QP!Entries, QP!Waiting, QP!Places, Q!queueVars,
              QP!queueVars, Q!Putters, QP!Putters, Q!Takers, QP!Takers, Q!At, QP!At, Q!Entry, QP!Entry,
              Q!NotFull, QP!NotFull, Q!NotEmpty, QP!NotEmpty
  <1>1. Q!TypeOK <=> QP!TypeOK  BY Zenon DEF Q!TypeOK, QP!TypeOK
  <1>2. ASSUME NEW t \in Threads PROVE Q!Called(t) <=> QP!Called(t)
    BY Zenon DEF Q!Called, QP!Called, Q!PutCall, QP!PutCall, Q!TakeCall, QP!TakeCall, Q!TakeListCall,
                 QP!TakeListCall, Q!stop_sq, QP!stop_sq
  <1>3. ASSUME NEW t \in Threads PROVE Q!SpuriousWakeup(t) <=> QP!SpuriousWakeup(t)
    BY Zenon DEF Q!SpuriousWakeup, QP!SpuriousWakeup
  <1>4. ASSUME NEW t \in Threads PROVE Q!Proceeds(t) <=> QP!Proceeds(t)
    <2>1. Q!add_sq(t) <=> QP!add_sq(t)
      BY Zenon DEF Q!add_sq, QP!add_sq, Q!NotifyOne, QP!NotifyOne
    <2>2. Q!take_sq(t) <=> QP!take_sq(t)
      BY Zenon DEF Q!take_sq, QP!take_sq, Q!NotifyOne, QP!NotifyOne
    <2>3. Q!take_sq_list(t) <=> QP!take_sq_list(t)
      BY Zenon DEF Q!take_sq_list, QP!take_sq_list, Q!NotifyOne, QP!NotifyOne
    <2>4. Q!NotifyAllFull(t) <=> QP!NotifyAllFull(t)
      BY Zenon DEF Q!NotifyAllFull, QP!NotifyAllFull, Q!NotifyAll, QP!NotifyAll
    <2>5. Q!NotifyAllEmpty(t) <=> QP!NotifyAllEmpty(t)
      BY Zenon DEF Q!NotifyAllEmpty, QP!NotifyAllEmpty, Q!NotifyAll, QP!NotifyAll
    <2> QED  BY <2>1, <2>2, <2>3, <2>4, <2>5, Zenon DEF Q!Proceeds, QP!Proceeds
  <1>5. Q!Next <=> QP!Next  BY <1>2, <1>3, <1>4, Zenon DEF Q!Next, QP!Next
  <1>6. (UNCHANGED queueVars) <=> (UNCHANGED QP!vars)  BY DEF queueVars, QP!vars
  <1> QED  BY <1>1, <1>5, <1>6, Zenon

\* A step of the pool is one of SyncQueue's, or leaves the queue alone.
LEMMA PoolQueueSteps == Next => [Q!Next]_queueVars
  <1> SUFFICES ASSUME Next PROVE Q!Next \/ UNCHANGED queueVars
    OBVIOUS
  <1> USE DEF Threads, Q!Next, Q!Called
  <1>1. ASSUME NEW w \in Workers, Worker(w) PROVE Q!Next \/ UNCHANGED queueVars
    BY <1>1 DEF Worker, RunTest, RunTask, TaskReturns, TaskAdds
  <1>2. ASSUME NEW o \in Owners, stop_tp(o) \/ Owner(o) PROVE Q!Next \/ UNCHANGED queueVars
    BY <1>2 DEF stop_tp, Owner, ClearRunning, JoinAll, StopOver
  <1>3. ASSUME NEW c \in Clients, NEW k \in Tasks, add_task(c, k) PROVE Q!Next
    BY <1>3 DEF add_task
  <1>4. ASSUME NEW t \in Threads, InQueue(t) \/ Wakeup(t) PROVE Q!Next
    BY <1>4 DEF InQueue, Wakeup
  <1> QED  BY <1>1, <1>2, <1>3, <1>4 DEF Next

\* The queue's types, from the proof about SyncQueue.
LEMMA PoolQueueType == Q!TypeOK /\ [Next]_vars => Q!TypeOK'
  <1> SUFFICES ASSUME Q!TypeOK, [Next]_vars PROVE Q!TypeOK'
    OBVIOUS
  <1>1. [Q!Next]_queueVars  BY PoolQueueSteps DEF vars
  <1>2. QP!TypeOK /\ [QP!Next]_(QP!vars) => QP!TypeOK'  BY PoolQueue, QP!NextType
  <1>3. Q!TypeOK' <=> QP!TypeOK'  BY SameQueue, PTL
  <1> QED  BY <1>1, <1>2, <1>3, SameQueue, Zenon
-----------------------------------------------------------------------------
\* Where the threads of the pool are, and that a worker without a call has no task.
PcInv ==
  /\ pc \in [Workers \cup Owners -> WorkerPlaces \cup OwnerPlaces]
  /\ \A w \in Workers : pc[w] \notin {"calling", "adding"} => task[w] = None

\* The once_flag: it is set when the workers have gone, and they do not come back.
FlagInv ==
  /\ m_flag = "set" => \A w \in Workers : pc[w] = "exited"
  /\ \A o \in Owners : pc[o] = "stopped" => m_flag = "set"

PoolInv == TypeOK /\ PcInv /\ FlagInv

\* A new pool has its threads at the head of their loop and no task.
LEMMA PoolInitInv == Init => PoolInv
  <1> SUFFICES ASSUME Init PROVE PoolInv
    OBVIOUS
  <1>1. Q!TypeOK
    <2>1. QP!Init => QP!TypeOK  BY PoolQueue, QP!InitType
    <2>2. QP!Init  BY DEF Init, Q!Init, QP!Init
    <2> QED  BY <2>1, <2>2, SameQueue
  <1> QED
    BY <1>1, PoolAssumption DEF Init, PoolInv, TypeOK, PcInv, FlagInv, WorkerPlaces, OwnerPlaces

\* Every step of the pool and its clients keeps the invariant.
LEMMA PoolNextInv == PoolInv /\ [Next]_vars => PoolInv'
  <1> SUFFICES ASSUME PoolInv, [Next]_vars PROVE PoolInv'
    OBVIOUS
  <1>q. Q!TypeOK'  BY PoolQueueType DEF PoolInv, TypeOK
  <1> USE PoolAssumption DEF PoolInv, TypeOK, PcInv, FlagInv, WorkerPlaces, OwnerPlaces, poolVars
  <1>1. CASE UNCHANGED poolVars  BY <1>1, <1>q
  <1>2. ASSUME NEW w \in Workers, RunTest(w) PROVE PoolInv'  BY <1>2, <1>q DEF RunTest
  <1>3. ASSUME NEW w \in Workers, RunTask(w) PROVE PoolInv'
    <2>1. CASE held[w] # <<>> /\ task' = [task EXCEPT ![w] = held[w][1]]
               /\ runs' = [runs EXCEPT ![held[w][1]] = @ + 1]
               /\ pc' = [pc EXCEPT ![w] = "calling"] /\ UNCHANGED terminated
      <3>1. held[w][1] \in Tasks
        <4>1. held[w] \in Seq(Tasks)  BY DEF Q!TypeOK, Threads
        <4> QED  BY <2>1, <4>1, EmptySeq, LenProperties, ElementOfSeq
      <3>2. pc[w] = "taking" /\ UNCHANGED <<m_running, m_flag, given>>  BY <1>3 DEF RunTask
      <3> QED  BY <1>q, <2>1, <3>1, <3>2
    <2>2. CASE terminated' = TRUE /\ UNCHANGED <<pc, task, runs>>
      BY <1>3, <1>q, <2>2 DEF RunTask
    <2> QED  BY <1>3, <2>1, <2>2 DEF RunTask
  <1>4. ASSUME NEW w \in Workers, NEW k \in Tasks, TaskAdds(w, k) PROVE PoolInv'
    BY <1>4, <1>q DEF TaskAdds
  <1>5. ASSUME NEW w \in Workers, TaskReturns(w) PROVE PoolInv'  BY <1>5, <1>q DEF TaskReturns
  <1>6. ASSUME NEW o \in Owners, stop_tp(o) PROVE PoolInv'  BY <1>6, <1>q DEF stop_tp
  <1>7. ASSUME NEW o \in Owners, ClearRunning(o) PROVE PoolInv'  BY <1>7, <1>q DEF ClearRunning
  <1>8. ASSUME NEW o \in Owners, JoinAll(o) PROVE PoolInv'  BY <1>8, <1>q DEF JoinAll
  <1>9. ASSUME NEW o \in Owners, StopOver(o) PROVE PoolInv'  BY <1>9, <1>q DEF StopOver
  <1>10. ASSUME NEW c \in Clients, NEW k \in Tasks, add_task(c, k) PROVE PoolInv'
    BY <1>10, <1>q DEF add_task
  <1> QED
    BY <1>1, <1>2, <1>3, <1>4, <1>5, <1>6, <1>7, <1>8, <1>9, <1>10
       DEF Next, Worker, Owner, InQueue, Wakeup, vars

\* Every state that Spec reaches satisfies the invariant.
LEMMA PoolInvariant == Spec => []PoolInv
  <1> QED  BY PoolInitInv, PoolNextInv, PTL DEF Spec

\* Every task is one that was added and every thread at a place of its loop, in every pool.
THEOREM PoolTypeCorrect == Spec => []TypeOK
  BY PoolInvariant, PTL DEF PoolInv

\* When stop_tp has returned, to whoever called it, no task is being called.
THEOREM PoolQuiet == Spec => []QuietWhenStopped
  <1>1. PoolInv => QuietWhenStopped  BY DEF PoolInv, PcInv, FlagInv, QuietWhenStopped
  <1> QED  BY <1>1, PoolInvariant, PTL
-----------------------------------------------------------------------------
\* SyncQueue's proof of its property needs that nobody takes whole lists, as in the pool.
LEMMA PoolPuttersStep ==
  Q!TypeOK /\ QP!OneAtATime /\ PuttersNotified /\ [Next]_vars => QP!OneAtATime' /\ PuttersNotified'
  <1> SUFFICES ASSUME Q!TypeOK, QP!OneAtATime, PuttersNotified, [Next]_vars
               PROVE  QP!OneAtATime' /\ PuttersNotified'
    OBVIOUS
  <1>1. QP!TypeOK /\ [QP!Next]_(QP!vars)
    <2>1. [Q!Next]_queueVars  BY PoolQueueSteps DEF vars
    <2> QED  BY <2>1, SameQueue, Zenon
  <1>2. \A S : Q!Cardinality(S) = QP!Cardinality(S)  BY Zenon DEF Q!Cardinality, QP!Cardinality
  <1> USE DEF PuttersNotified, Q!PuttersNotified, QP!PuttersNotified, Q!Putters, QP!Putters, Q!At, QP!At
  <1>3. QP!PuttersNotified <=> PuttersNotified  BY <1>2
  <1>4. PuttersNotified' <=> QP!PuttersNotified'  BY <1>2
  <1> QED  BY <1>1, <1>3, <1>4, PoolQueue, QP!NextOneAtATime, QP!NextPutters

\* In every pool, every free place of the queue has a waiting add_task on its way to it.
THEOREM PoolPuttersNotified == Spec => []PuttersNotified
  <1>1. Init => QP!OneAtATime /\ PuttersNotified
    BY DEF Init, Q!Init, QP!OneAtATime, PuttersNotified, Q!PuttersNotified, Q!At, Q!Putters
  <1>2. PoolInv => Q!TypeOK  BY DEF PoolInv, TypeOK
  <1> QED  BY <1>1, <1>2, PoolPuttersStep, PoolInvariant, PTL DEF Spec
\* What the pool does to its queue is a behaviour of SyncQueue: it uses the queue by its calls
\* only, by add_task from the clients and from running tasks, by the workers' take and by stop_tp.
THEOREM PoolUsesQueue == Spec => QP!Spec
  <1>1. Init => QP!Init  BY DEF Init, Q!Init, QP!Init
  <1>2. [Next]_vars => [QP!Next]_(QP!vars)
    <2>1. [Next]_vars => [Q!Next]_queueVars  BY PoolQueueSteps DEF vars
    <2> QED  BY <2>1, SameQueue, Zenon
  <1> QED  BY <1>1, <1>2, PTL DEF Spec, QP!Spec

\* So the tasks of the pool leave its queue in the order they came, within MAXTASKCOUNT, and none
\* does after stop_tp: the pool implements the bounded channel.
THEOREM PoolImplementsChannel == Spec => QP!ImplementsChannel
  <1>1. QP!Spec => QP!ImplementsChannel  BY PoolQueue, QP!Implements
  <1> QED  BY <1>1, PoolUsesQueue

\* And its threads are woken: the workers for the tasks, the clients for the room, all by the stop.
THEOREM PoolThreadsWoken ==
  Spec => [](QP!TakersNotified /\ QP!PuttersNotStranded /\ QP!WaitersReleased)
  <1>1. QP!Spec => []QP!TakersNotified  BY PoolQueue, QP!TakersAreNotified
  <1>2. QP!Spec => []QP!PuttersNotStranded  BY PoolQueue, QP!NotStranded
  <1>3. QP!Spec => []QP!WaitersReleased  BY PoolQueue, QP!WaitersAreReleased
  <1> QED  BY <1>1, <1>2, <1>3, PoolUsesQueue, PTL
-----------------------------------------------------------------------------
\* Where a thread is in a call of the queue, and what it then has in its hands.
HandInv ==
  /\ \A t \in Threads : held[t] = <<>> \/ \E k \in Tasks : held[t] = <<k>>
  /\ \A c \in Clients : at[c] \in {"out", "put", "putWait"} /\ (at[c] = "out" => held[c] = <<>>)
  /\ \A o \in Owners : at[o] \in {"out", "notifyFull", "notifyEmpty"} /\ held[o] = <<>>
  /\ \A w \in Workers :
       /\ at[w] # "out" => pc[w] \in {"taking", "adding"}
       /\ pc[w] = "taking" =>
            at[w] \in {"out", "take", "takeWait"} /\ (at[w] # "out" => held[w] = <<>>)
       /\ pc[w] = "adding" =>
            at[w] \in {"out", "put", "putWait"} /\ (at[w] = "out" => held[w] = <<>>)

\* The places of a task.
Nowhere(k) == Carried(k) = {} /\ Queued(k) = {} /\ runs[k] = 0
OnItsWay(k) == (\E t \in Carried(k) : Carried(k) = {t}) /\ Queued(k) = {} /\ runs[k] = 0
InLine(k) == Carried(k) = {} /\ (\E i \in Queued(k) : Queued(k) = {i}) /\ runs[k] = 0
Called(k) == Carried(k) = {} /\ Queued(k) = {} /\ runs[k] = 1

TaskInv == \A k \in Tasks :
  /\ k \in given => OnItsWay(k) \/ InLine(k) \/ Called(k) \/ (m_needStop /\ Nowhere(k))
  /\ k \notin given => Nowhere(k)

\* A task is added by its parent only, which is called once and adds it once.
ParentInv ==
  /\ \A j \in Tasks : runs[j] = 0 => Adds[j] \cap given = {} /\ \A w \in Workers : task[w] # j
  /\ \A w \in Workers : pc[w] = "calling" => Adds[task[w]] \cap given = {}
  /\ \A v, w \in Workers : task[v] = task[w] /\ task[v] # None => v = w

PlacesInv == PoolInv /\ HandInv /\ TaskInv /\ ParentInv

\* What may happen to a thread that neither puts nor takes an item in a step.
Moves(t) ==
  \/ at'[t] = at[t]
  \/ at[t] \in {"put", "putWait"} /\ at'[t] \in {"put", "putWait"}
  \/ at[t] \in {"take", "takeWait"} /\ at'[t] \in {"take", "takeWait"}
  \/ at[t] = "take" /\ at'[t] = "out"
  \/ at[t] \in {"notifyFull", "notifyEmpty"} /\ at'[t] \in {"notifyEmpty", "out"}

\* At the start every task is nowhere.
LEMMA PlacesInitInv == Init => PlacesInv
  <1> SUFFICES ASSUME Init PROVE PlacesInv
    OBVIOUS
  <1>1. PoolInv  BY PoolInitInv
  <1>2. HandInv  BY DEF Init, Q!Init, HandInv, Threads
  <1>3. ASSUME NEW k \in Tasks PROVE Nowhere(k)
    <2>1. Carried(k) = {}
      <3>1. <<>> # <<k>>  OBVIOUS
      <3> QED  BY <3>1 DEF Init, Q!Init, Carried
    <2>2. Queued(k) = {}
      <3>1. Len(m_queue) = 0  BY EmptySeq DEF Init, Q!Init
      <3> QED  BY <3>1 DEF Queued
    <2> QED  BY <2>1, <2>2 DEF Init, Nowhere
  <1>4. TaskInv  BY <1>3 DEF TaskInv, Init
  <1>5. ParentInv  BY PoolAssumption DEF ParentInv, Init
  <1> QED  BY <1>1, <1>2, <1>4, <1>5 DEF PlacesInv

\* Every task stays where it is.
LEMMA TasksStay ==
  ASSUME TaskInv, UNCHANGED <<m_queue, given, runs>>, m_needStop => m_needStop',
         \A k \in Tasks : Carried(k)' = Carried(k)
  PROVE  TaskInv'
  <1>1. \A k \in Tasks : Queued(k)' = Queued(k)  BY DEF Queued
  <1> QED  BY <1>1 DEF TaskInv, Nowhere, OnItsWay, InLine, Called

\* Moving a thread that carries nothing moves no task.
LEMMA MovesInv ==
  ASSUME PlacesInv, PoolInv', \A t \in Threads : Moves(t),
         UNCHANGED <<held, m_queue, m_needStop, poolVars>>
  PROVE  PlacesInv'
  <1>1. HandInv'  BY DEF PlacesInv, HandInv, Moves, Threads, poolVars
  <1>2. TaskInv'
    <2>1. \A k \in Tasks : Carried(k)' = Carried(k)  BY DEF Carried, poolVars
    <2> QED  BY <2>1, TasksStay DEF PlacesInv, poolVars
  <1>3. ParentInv'  BY DEF PlacesInv, ParentInv, poolVars
  <1> QED  BY <1>1, <1>2, <1>3 DEF PlacesInv

\* Notifying one moves at most another thread.
LEMMA NotifyMoves ==
  ASSUME PlacesInv, NEW t \in Threads, NEW S, S \in {Q!Putters, Q!Takers},
         at[t] \in {"put", "take"}, Q!NotifyOne(t, S)
  PROVE  at'[t] = "out" /\ \A u \in Threads \ {t} : Moves(u)
  <1>1. at \in [Threads -> Q!Places]  BY DEF PlacesInv, PoolInv, TypeOK, Q!TypeOK
  <1>2. CASE at' = [at EXCEPT ![t] = "out"]  BY <1>1, <1>2 DEF Moves
  <1>3. ASSUME NEW w \in Q!At(S), at' = [at EXCEPT ![t] = "out", ![w] = Q!Entry(at[w])]
        PROVE  at'[t] = "out" /\ \A u \in Threads \ {t} : Moves(u)
    <2>1. w \in Threads /\ at[w] \in {"putWait", "takeWait", "takeListWait"} /\ w # t
      BY DEF Q!At, Q!Putters, Q!Takers
    <2>2. at[w] # "takeListWait"  BY <2>1 DEF PlacesInv, HandInv, Threads
    <2>3. \/ at[w] = "putWait" /\ Q!Entry(at[w]) = "put"
          \/ at[w] = "takeWait" /\ Q!Entry(at[w]) = "take"
      BY <2>1, <2>2 DEF Q!Entry
    <2> QED  BY <1>1, <1>3, <2>1, <2>3 DEF Moves
  <1> QED  BY <1>2, <1>3 DEF Q!NotifyOne

\* The item of a put: carried until then, by that thread alone, afterwards in line or dropped.
LEMMA AddSqInv ==
  ASSUME PlacesInv, PoolInv', NEW t \in Threads, Q!add_sq(t), UNCHANGED poolVars
  PROVE  PlacesInv'
  <1> USE DEF poolVars
  <1>1. at[t] = "put" /\ UNCHANGED m_needStop  BY DEF Q!add_sq
  <1>2. PICK x \in Tasks : held[t] = <<x>>
    <2>1. Len(held[t]) = 1  BY <1>1 DEF PlacesInv, PoolInv, TypeOK, Q!TypeOK
    <2>2. held[t] # <<>>  BY <2>1, EmptySeq
    <2> QED  BY <2>2 DEF PlacesInv, HandInv
  <1>3. t \in Carried(x)
    <2>1. t \in Workers => pc[t] \in {"taking", "adding"}  BY <1>1 DEF PlacesInv, HandInv
    <2> QED  BY <1>2, <2>1 DEF Carried
  <1>4. Carried(x) = {t} /\ Queued(x) = {} /\ runs[x] = 0 /\ x \in given
    BY <1>3 DEF PlacesInv, TaskInv, Nowhere, OnItsWay, InLine, Called
  <1>5. /\ at \in [Threads -> Q!Places] /\ m_queue \in Seq(Tasks)
        /\ held \in [Threads -> Seq(Tasks)]
    BY DEF PlacesInv, PoolInv, TypeOK, Q!TypeOK
  <1>6. ASSUME held' = [held EXCEPT ![t] = <<>>], at'[t] = "out", \A u \in Threads \ {t} : Moves(u)
        PROVE  /\ HandInv' /\ Carried(x)' = {}
               /\ \A k \in Tasks \ {x} : Carried(k)' = Carried(k)
    <2>1. HandInv'
      <3>1. t \in Clients \/ (t \in Workers /\ pc[t] = "adding")
        BY <1>1 DEF Threads, PlacesInv, HandInv
      <3> QED  BY <1>5, <1>6, <3>1, PoolAssumption DEF PlacesInv, HandInv, Moves, Threads
    <2>2. \A k \in Tasks \ {x} : t \notin Carried(k)  BY <1>2 DEF Carried
    <2>3. \A k \in Tasks : <<>> # <<k>>  OBVIOUS
    <2>4. \A k \in Tasks : Carried(k)' = Carried(k) \ {t}  BY <1>5, <1>6, <2>3 DEF Carried
    <2> QED  BY <1>4, <2>1, <2>2, <2>4
  <1>7. ParentInv'  BY DEF PlacesInv, ParentInv
  <1>8. CASE m_needStop
    <2>1. /\ at' = [at EXCEPT ![t] = "out"] /\ held' = [held EXCEPT ![t] = <<>>]
          /\ UNCHANGED m_queue
      BY <1>8 DEF Q!add_sq
    <2>2. at'[t] = "out" /\ \A u \in Threads \ {t} : Moves(u)  BY <1>5, <2>1 DEF Moves
    <2>3. \A k \in Tasks : Queued(k)' = Queued(k)  BY <2>1 DEF Queued
    <2>4. TaskInv'
      BY <1>1, <1>4, <1>6, <1>8, <2>1, <2>2, <2>3
         DEF PlacesInv, TaskInv, Nowhere, OnItsWay, InLine, Called
    <2> QED  BY <1>6, <1>7, <2>1, <2>2, <2>4 DEF PlacesInv
  <1>9. CASE ~m_needStop /\ Q!NotFull
    <2>1. /\ m_queue' = Append(m_queue, x) /\ held' = [held EXCEPT ![t] = <<>>]
          /\ Q!NotifyOne(t, Q!Takers)
      BY <1>2, <1>9 DEF Q!add_sq
    <2>2. at'[t] = "out" /\ \A u \in Threads \ {t} : Moves(u)  BY <1>1, <2>1, NotifyMoves
    <2>3. /\ Len(m_queue) \in Nat /\ Len(m_queue') = Len(m_queue) + 1 /\ m_queue'[Len(m_queue) + 1] = x
          /\ \A i \in 1 .. Len(m_queue) : m_queue'[i] = m_queue[i]
      BY <1>5, <2>1, AppendProperties, LenProperties
    <2>4. Queued(x)' = {Len(m_queue) + 1}  BY <1>4, <2>3 DEF Queued
    <2>5. \A k \in Tasks \ {x} : Queued(k)' = Queued(k)  BY <2>3 DEF Queued
    <2>6. ASSUME NEW k \in Tasks
          PROVE  /\ k \in given => OnItsWay(k)' \/ InLine(k)' \/ Called(k)' \/ (m_needStop /\ Nowhere(k))'
                 /\ k \notin given => Nowhere(k)'
      <3>1. CASE k = x
        <4>1. Carried(k)' = {} /\ runs[k] = 0  BY <1>4, <1>6, <2>1, <2>2, <3>1
        <4>2. \E i : Queued(k)' = {i}  BY <2>4, <3>1
        <4>3. InLine(k)'  BY <4>1, <4>2 DEF InLine
        <4> QED  BY <1>4, <3>1, <4>3
      <3>2. CASE k # x
        <4>1. Carried(k)' = Carried(k) /\ Queued(k)' = Queued(k)  BY <1>6, <2>1, <2>2, <2>5, <3>2
        <4> QED  BY <1>1, <4>1 DEF PlacesInv, TaskInv, Nowhere, OnItsWay, InLine, Called
      <3> QED  BY <3>1, <3>2
    <2>7. TaskInv'  BY <2>6 DEF TaskInv
    <2> QED  BY <1>6, <1>7, <2>1, <2>2, <2>7 DEF PlacesInv
  <1>10. CASE ~m_needStop /\ ~Q!NotFull
    <2>1. at' = [at EXCEPT ![t] = "putWait"] /\ UNCHANGED <<m_queue, held>>  BY <1>10 DEF Q!add_sq
    <2>2. \A u \in Threads : Moves(u)  BY <1>1, <1>5, <2>1 DEF Moves
    <2> QED  BY <1>1, <2>1, <2>2, MovesInv
  <1> QED  BY <1>8, <1>9, <1>10

\* The item of a take leaves the head of the queue for the hand of that worker.
LEMMA TakeSqInv ==
  ASSUME PlacesInv, PoolInv', NEW t \in Threads, Q!take_sq(t), UNCHANGED poolVars
  PROVE  PlacesInv'
  <1> USE DEF poolVars
  <1>1. at[t] = "take" /\ UNCHANGED m_needStop  BY DEF Q!take_sq
  <1>2. /\ at \in [Threads -> Q!Places] /\ m_queue \in Seq(Tasks)
        /\ held \in [Threads -> Seq(Tasks)]
    BY DEF PlacesInv, PoolInv, TypeOK, Q!TypeOK
  <1>3. t \in Workers /\ pc[t] = "taking" /\ held[t] = <<>>
    BY <1>1 DEF PlacesInv, HandInv, Threads
  <1>4. CASE ~m_needStop /\ Q!NotEmpty
    <2>0. PICK x \in Tasks : x = Head(m_queue)
      BY <1>2, <1>4, HeadTailProperties DEF Q!NotEmpty
    <2>1. /\ m_queue' = Tail(m_queue) /\ held' = [held EXCEPT ![t] = <<x>>]
          /\ Q!NotifyOne(t, Q!Putters) /\ m_queue # <<>>
      BY <1>4, <2>0 DEF Q!take_sq, Q!NotEmpty
    <2>2. at'[t] = "out" /\ \A u \in Threads \ {t} : Moves(u)  BY <1>1, <2>1, NotifyMoves
    <2>3. /\ Len(m_queue) \in Nat \ {0} /\ x = m_queue[1] /\ x \in Tasks
          /\ Len(m_queue') = Len(m_queue) - 1
          /\ \A i \in 1 .. Len(m_queue') : m_queue'[i] = m_queue[i + 1]
      BY <1>2, <2>0, <2>1, HeadTailProperties, EmptySeq
    <2>4. \A k \in Tasks, i \in Int : i \in Queued(k)' <=> i >= 1 /\ i + 1 \in Queued(k)
      BY <2>3 DEF Queued
    <2>5. \A k \in Tasks : Queued(k) \subseteq Nat \ {0} /\ Queued(k)' \subseteq Int  BY DEF Queued
    <2>6. 1 \in Queued(x) /\ \A k \in Tasks \ {x} : 1 \notin Queued(k)  BY <2>3 DEF Queued
    <2>7. Queued(x) = {1} /\ Carried(x) = {} /\ runs[x] = 0 /\ x \in given
      BY <2>3, <2>6 DEF PlacesInv, TaskInv, Nowhere, OnItsWay, InLine, Called
    <2>8. Queued(x)' = {}  BY <2>3, <2>4, <2>5, <2>7
    <2>9. ASSUME NEW k \in Tasks \ {x}
          PROVE  /\ Queued(k) = {} => Queued(k)' = {}
                 /\ \A i \in Queued(k) : Queued(k) = {i} => Queued(k)' = {i - 1}
      <3>1. CASE Queued(k) = {}  BY <2>4, <2>5, <3>1
      <3>2. ASSUME NEW i \in Queued(k), Queued(k) = {i} PROVE Queued(k)' = {i - 1}
        <4>1. i \in Nat /\ i >= 2  BY <2>5, <2>6, <3>2
        <4>2. \A j \in Int : j \in Queued(k)' <=> j = i - 1  BY <2>4, <3>2, <4>1
        <4> QED  BY <2>5, <4>1, <4>2
      <3> QED  BY <3>1, <3>2
    <2>10. \A k \in Tasks : Carried(k)' = IF k = x THEN Carried(k) \cup {t} ELSE Carried(k)
      <3>1. \A k \in Tasks : <<>> # <<k>> /\ (<<x>> = <<k>> => x = k)  OBVIOUS
      <3> QED  BY <1>2, <1>3, <2>1, <2>3, <3>1 DEF Carried
    <2>11. ASSUME NEW k \in Tasks
           PROVE  /\ k \in given => OnItsWay(k)' \/ InLine(k)' \/ Called(k)' \/ (m_needStop /\ Nowhere(k))'
                  /\ k \notin given => Nowhere(k)'
      <3>1. CASE k = x
        <4>1. Carried(k)' = {t} /\ Queued(k)' = {} /\ runs[k] = 0
          BY <2>7, <2>8, <2>10, <3>1
        <4>2. OnItsWay(k)'  BY <4>1 DEF OnItsWay
        <4> QED  BY <2>7, <3>1, <4>2
      <3>2. CASE k # x
        <4>1. Carried(k)' = Carried(k)  BY <2>10, <3>2
        <4>2. CASE Queued(k) = {}
          <5>1. Queued(k)' = {}  BY <2>9, <3>2, <4>2
          <5> QED
            BY <1>1, <4>1, <4>2, <5>1 DEF PlacesInv, TaskInv, Nowhere, OnItsWay, InLine, Called
        <4>3. CASE Queued(k) # {}
          <5>1. InLine(k) /\ k \in given
            BY <4>3 DEF PlacesInv, TaskInv, Nowhere, OnItsWay, InLine, Called
          <5>2. \E i : Queued(k)' = {i}  BY <2>9, <3>2, <5>1 DEF InLine
          <5>3. InLine(k)'  BY <4>1, <5>1, <5>2 DEF InLine
          <5> QED  BY <5>1, <5>3
        <4> QED  BY <4>2, <4>3
      <3> QED  BY <3>1, <3>2
    <2>12. TaskInv'  BY <2>11 DEF TaskInv
    <2>13. HandInv'
      BY <1>2, <1>3, <2>1, <2>2, <2>3, PoolAssumption DEF PlacesInv, HandInv, Moves, Threads
    <2>14. ParentInv'  BY DEF PlacesInv, ParentInv
    <2> QED  BY <2>12, <2>13, <2>14 DEF PlacesInv
  <1>5. CASE m_needStop \/ ~Q!NotEmpty
    <2>1. /\ at' = [at EXCEPT ![t] = "out"] \/ at' = [at EXCEPT ![t] = "takeWait"]
          /\ UNCHANGED <<m_queue, held>>
      BY <1>5 DEF Q!take_sq
    <2>2. \A u \in Threads : Moves(u)  BY <1>1, <1>2, <2>1 DEF Moves
    <2> QED  BY <1>1, <2>1, <2>2, MovesInv
  <1> QED  BY <1>4, <1>5

\* The other steps of the queue move threads only.
LEMMA InQueueInv ==
  ASSUME PlacesInv, PoolInv', NEW t \in Threads, InQueue(t) \/ Wakeup(t)
  PROVE  PlacesInv'
  <1>1. UNCHANGED poolVars  BY DEF InQueue, Wakeup
  <1>2. at \in [Threads -> Q!Places]  BY DEF PlacesInv, PoolInv, TypeOK, Q!TypeOK
  <1>3. \A u \in Threads : at[u] \notin {"takeList", "takeListWait"}
    BY DEF PlacesInv, HandInv, Threads
  <1>4. Q!Entry("putWait") = "put" /\ Q!Entry("takeWait") = "take"  BY DEF Q!Entry
  <1>5. CASE Q!NotifyAllFull(t) \/ Q!NotifyAllEmpty(t)
    <2>1. \A u \in Threads : Moves(u)
      BY <1>2, <1>3, <1>4, <1>5
         DEF Q!NotifyAllFull, Q!NotifyAllEmpty, Q!NotifyAll, Moves, Q!Putters, Q!Takers
    <2>2. UNCHANGED <<held, m_queue, m_needStop>>
      BY <1>5 DEF Q!NotifyAllFull, Q!NotifyAllEmpty, Q!queueVars
    <2> QED  BY <1>1, <2>1, <2>2, MovesInv
  <1>6. CASE Q!SpuriousWakeup(t)
    <2>1. \A u \in Threads : Moves(u)
      BY <1>2, <1>3, <1>4, <1>6 DEF Q!SpuriousWakeup, Q!Waiting, Moves
    <2>2. UNCHANGED <<held, m_queue, m_needStop>>  BY <1>6 DEF Q!SpuriousWakeup, Q!queueVars
    <2> QED  BY <1>1, <2>1, <2>2, MovesInv
  <1>7. CASE Q!take_sq_list(t)  BY <1>3, <1>7 DEF Q!take_sq_list
  <1> QED
    BY <1>1, <1>5, <1>6, <1>7, AddSqInv, TakeSqInv DEF InQueue, Wakeup, Q!Proceeds
-----------------------------------------------------------------------------
\* A thread brings a task that is nowhere: it is carried by that thread.
LEMMA TaskGiven ==
  ASSUME PlacesInv, NEW t \in Threads, NEW x \in Tasks, x \notin given,
         held' = [held EXCEPT ![t] = <<x>>], given' = given \cup {x},
         UNCHANGED <<m_queue, m_needStop, runs>>,
         \A k \in Tasks : t \notin Carried(k),
         \A u \in Workers \ {t} : pc'[u] = pc[u],
         t \in Workers => pc'[t] = "adding"
  PROVE  TaskInv'
  <1>1. held \in [Threads -> Seq(Tasks)]  BY DEF PlacesInv, PoolInv, TypeOK, Q!TypeOK
  <1>2. \A k \in Tasks : <<x>> = <<k>> <=> x = k  OBVIOUS
  <1>3. \A k \in Tasks : Queued(k)' = Queued(k)  BY DEF Queued
  <1>4. \A k \in Tasks : Carried(k)' = IF k = x THEN Carried(k) \cup {t} ELSE Carried(k)
    BY <1>1, <1>2 DEF Carried, Threads
  <1>5. Nowhere(x)  BY DEF PlacesInv, TaskInv
  <1>6. OnItsWay(x)'
    <2>1. Carried(x)' = {t} /\ Queued(x)' = {} /\ runs[x] = 0  BY <1>3, <1>4, <1>5 DEF Nowhere
    <2> QED  BY <2>1 DEF OnItsWay
  <1>7. ASSUME NEW k \in Tasks \ {x}
        PROVE  /\ k \in given => OnItsWay(k)' \/ InLine(k)' \/ Called(k)' \/ (m_needStop /\ Nowhere(k))'
               /\ k \notin given => Nowhere(k)'
    BY <1>3, <1>4 DEF PlacesInv, TaskInv, Nowhere, OnItsWay, InLine, Called
  <1> QED  BY <1>6, <1>7 DEF TaskInv

\* A client brings a task of its own (add_task).
LEMMA AddTaskInv ==
  ASSUME PlacesInv, PoolInv', NEW c \in Clients, NEW k \in Tasks, add_task(c, k)
  PROVE  PlacesInv'
  <1> USE PoolAssumption DEF add_task, Q!PutCall, Q!queueVars
  <1>1. /\ at \in [Threads -> Q!Places] /\ held \in [Threads -> Seq(Tasks)] /\ c \in Threads
        /\ c \notin Workers /\ c \notin Owners
    BY DEF PlacesInv, PoolInv, TypeOK, Q!TypeOK, Threads
  <1>2. HandInv'  BY <1>1 DEF PlacesInv, HandInv, Threads
  <1>3. TaskInv'
    <2>1. \A j \in Tasks : <<>> # <<j>>  OBVIOUS
    <2>2. \A j \in Tasks : c \notin Carried(j)  BY <1>1, <2>1 DEF PlacesInv, HandInv, Carried
    <2> QED  BY <1>1, <2>2, TaskGiven
  <1>4. ParentInv'
    <2>1. \A j \in Tasks : k \notin Adds[j]  BY DEF Nested
    <2>2. \A w \in Workers : pc[w] = "calling" => task[w] \in Tasks
      BY DEF PlacesInv, PoolInv, TypeOK
    <2> QED  BY <2>1, <2>2 DEF PlacesInv, ParentInv
  <1> QED  BY <1>2, <1>3, <1>4 DEF PlacesInv

\* A running task brings another one, which its worker then carries beside it.
LEMMA TaskAddsInv ==
  ASSUME PlacesInv, PoolInv', NEW w \in Workers, NEW k \in Tasks, TaskAdds(w, k)
  PROVE  PlacesInv'
  <1> USE PoolAssumption DEF TaskAdds, Q!PutCall, Q!queueVars
  <1>1. /\ at \in [Threads -> Q!Places] /\ held \in [Threads -> Seq(Tasks)] /\ w \in Threads
        /\ w \notin Clients /\ w \notin Owners
        /\ pc \in [Workers \cup Owners -> WorkerPlaces \cup OwnerPlaces]
        /\ \A v \in Workers : pc[v] = "calling" => task[v] \in Tasks
    BY DEF PlacesInv, PoolInv, PcInv, TypeOK, Q!TypeOK, Threads
  <1>2. HandInv'  BY <1>1 DEF PlacesInv, HandInv, Threads
  <1>3. k \notin given  BY DEF PlacesInv, ParentInv
  <1>4. TaskInv'
    <2>1. \A j \in Tasks : w \notin Carried(j)  BY DEF Carried
    <2>2. \A u \in Workers \ {w} : pc'[u] = pc[u]  BY <1>1
    <2>3. pc'[w] = "adding"  BY <1>1
    <2> QED  BY <1>1, <1>3, <2>1, <2>2, <2>3, TaskGiven
  <1>5. ParentInv'
    <2>1. \A j \in Tasks : k \in Adds[j] => j = task[w]
      <3>1. task[w] \in Tasks /\ k \in Adds[task[w]]  BY <1>1
      <3> QED  BY <3>1
    <2>2. task[w] \in Tasks /\ runs[task[w]] # 0  BY <1>1 DEF PlacesInv, ParentInv
    <2>3. \A v \in Workers : pc'[v] = "calling" => pc[v] = "calling" /\ v # w /\ task[v] # task[w]
      BY <1>1, <2>2 DEF PlacesInv, ParentInv
    <2> QED  BY <1>1, <2>1, <2>2, <2>3 DEF PlacesInv, ParentInv
  <1> QED  BY <1>2, <1>4, <1>5 DEF PlacesInv

\* A task that returns is done; one that was called is not called again.
LEMMA RunTaskInv ==
  ASSUME PlacesInv, PoolInv', NEW w \in Workers, RunTask(w)
  PROVE  PlacesInv'
  <1>1. /\ pc \in [Workers \cup Owners -> WorkerPlaces \cup OwnerPlaces]
        /\ task \in [Workers -> Tasks \cup {None}] /\ runs \in [Tasks -> Nat] /\ w \in Threads
    BY DEF PlacesInv, PoolInv, PcInv, TypeOK, Threads
  <1>2. pc[w] = "taking" /\ at[w] = "out" /\ UNCHANGED <<queueVars, m_running, m_flag, given>>
    BY DEF RunTask
  <1>3. CASE UNCHANGED <<pc, task, runs>>
    <2>1. HandInv' /\ ParentInv'  BY <1>2, <1>3 DEF PlacesInv, HandInv, ParentInv, queueVars
    <2>2. \A k \in Tasks : Carried(k)' = Carried(k)  BY <1>2, <1>3 DEF Carried, queueVars
    <2>3. TaskInv'  BY <1>2, <1>3, <2>2, TasksStay DEF PlacesInv, queueVars
    <2> QED  BY <2>1, <2>3 DEF PlacesInv
  <1>4. CASE /\ held[w] # <<>>
             /\ task' = [task EXCEPT ![w] = held[w][1]]
             /\ runs' = [runs EXCEPT ![held[w][1]] = @ + 1]
             /\ pc' = [pc EXCEPT ![w] = "calling"]
    <2>1. PICK x \in Tasks : held[w] = <<x>>  BY <1>1, <1>4 DEF PlacesInv, HandInv
    <2>2. held[w][1] = x  BY <2>1
    <2>3. w \in Carried(x)  BY <1>1, <1>2, <2>1 DEF Carried
    <2>4. Carried(x) = {w} /\ Queued(x) = {} /\ runs[x] = 0 /\ x \in given
      BY <2>3 DEF PlacesInv, TaskInv, Nowhere, OnItsWay, InLine, Called
    <2>5. runs' = [runs EXCEPT ![x] = 1] /\ task' = [task EXCEPT ![w] = x]
      BY <1>1, <1>4, <2>2, <2>4
    <2>6. \A k \in Tasks : Carried(k)' = Carried(k) \ {w} /\ Queued(k)' = Queued(k)
      BY <1>1, <1>2, <1>4 DEF Carried, Queued, queueVars
    <2>7. \A k \in Tasks \ {x} : w \notin Carried(k)  BY <2>1 DEF Carried
    <2>8. TaskInv'
      <3>1. ASSUME NEW k \in Tasks \ {x}
            PROVE  /\ k \in given => OnItsWay(k)' \/ InLine(k)' \/ Called(k)' \/ (m_needStop /\ Nowhere(k))'
                   /\ k \notin given => Nowhere(k)'
        <4>1. Carried(k)' = Carried(k) /\ Queued(k)' = Queued(k) /\ runs'[k] = runs[k]
          BY <1>1, <2>5, <2>6, <2>7
        <4> QED  BY <1>2, <4>1 DEF PlacesInv, TaskInv, Nowhere, OnItsWay, InLine, Called, queueVars
      <3>2. Called(x)'  BY <1>1, <2>4, <2>5, <2>6 DEF Called
      <3> QED  BY <1>2, <2>4, <3>1, <3>2 DEF TaskInv
    <2>9. HandInv'
      BY <1>1, <1>2, <1>4 DEF PlacesInv, HandInv, queueVars
    <2>10. ParentInv'
      <3>1. Adds[x] \cap given = {} /\ \A v \in Workers : task[v] # x  BY <2>4 DEF PlacesInv, ParentInv
      <3>2. \A j \in Tasks : runs'[j] = 0 => runs[j] = 0 /\ j # x  BY <1>1, <2>5
      <3>3. \A v \in Workers : task'[v] = IF v = w THEN x ELSE task[v]  BY <1>1, <2>5
      <3>4. \A v \in Workers \ {w} : pc'[v] = pc[v]  BY <1>1, <1>4
      <3> QED  BY <1>2, <3>1, <3>2, <3>3, <3>4 DEF PlacesInv, ParentInv
    <2> QED  BY <2>8, <2>9, <2>10 DEF PlacesInv
  <1> QED  BY <1>3, <1>4 DEF RunTask

\* The remaining steps of the pool bring no task and call none.
LEMMA LoopStepInv ==
  ASSUME PlacesInv, PoolInv', NEW w \in Workers, RunTest(w) \/ TaskReturns(w)
  PROVE  PlacesInv'
  <1> USE PoolAssumption DEF RunTest, TaskReturns, Q!TakeCall, Q!queueVars, queueVars
  <1>1. /\ at \in [Threads -> Q!Places] /\ held \in [Threads -> Seq(Tasks)] /\ w \in Threads
        /\ w \notin Clients /\ w \notin Owners
        /\ pc \in [Workers \cup Owners -> WorkerPlaces \cup OwnerPlaces]
        /\ task \in [Workers -> Tasks \cup {None}] /\ None \notin Tasks
    BY DEF PlacesInv, PoolInv, PcInv, TypeOK, Q!TypeOK, Threads
  <1>2. pc[w] \in {"loop", "calling", "adding"} /\ (pc[w] = "adding" => at[w] = "out")
    OBVIOUS
  <1>3. HandInv'
    <2>1. CASE /\ at' = [at EXCEPT ![w] = "take"] /\ held' = [held EXCEPT ![w] = <<>>]
               /\ pc' = [pc EXCEPT ![w] = "taking"]
      BY <1>1, <2>1 DEF PlacesInv, HandInv, Threads
    <2>2. CASE UNCHANGED <<at, held>> /\ \E place \in {"loop", "exited"} : pc' = [pc EXCEPT ![w] = place]
      <3>1. at[w] = "out"  BY <1>2 DEF PlacesInv, HandInv
      <3> QED  BY <1>1, <2>2, <3>1 DEF PlacesInv, HandInv
    <2> QED  BY <2>1, <2>2
  <1>4. TaskInv'
    <2>1. \A k \in Tasks : <<>> # <<k>>  OBVIOUS
    <2>2. \A k \in Tasks : Carried(k)' = Carried(k)
      BY <1>1, <1>2, <2>1 DEF PlacesInv, HandInv, Carried, Threads
    <2> QED  BY <2>2, TasksStay DEF PlacesInv
  <1>5. ParentInv'
    <2>1. /\ \A v \in Workers : task'[v] \in {task[v], None}
          /\ \A v \in Workers : pc'[v] = "calling" => pc[v] = "calling" /\ task'[v] = task[v]
          /\ UNCHANGED <<given, runs>>
      BY <1>1
    <2> QED  BY <1>1, <2>1 DEF PlacesInv, ParentInv
  <1> QED  BY <1>3, <1>4, <1>5 DEF PlacesInv

\* The steps of stop_tp drop the tasks left, and call none.
LEMMA OwnerStepInv ==
  ASSUME PlacesInv, PoolInv', NEW o \in Owners, stop_tp(o) \/ Owner(o)
  PROVE  PlacesInv'
  <1> USE PoolAssumption
       DEF stop_tp, Owner, ClearRunning, JoinAll, StopOver, Q!stop_sq, queueVars
  <1>1. /\ at \in [Threads -> Q!Places] /\ held \in [Threads -> Seq(Tasks)] /\ o \in Threads
        /\ o \notin Clients /\ o \notin Workers
        /\ pc \in [Workers \cup Owners -> WorkerPlaces \cup OwnerPlaces]
    BY DEF PlacesInv, PoolInv, PcInv, TypeOK, Q!TypeOK, Threads
  <1>2. \A w \in Workers : pc'[w] = pc[w]  BY <1>1
  <1>3. UNCHANGED <<m_queue, held, task, given, runs>> /\ (m_needStop => m_needStop')  OBVIOUS
  <1>4. HandInv'  BY <1>1, <1>2, <1>3 DEF PlacesInv, HandInv, Threads
  <1>5. TaskInv'
    <2>1. \A k \in Tasks : Carried(k)' = Carried(k)  BY <1>2, <1>3 DEF Carried
    <2> QED  BY <1>3, <2>1, TasksStay DEF PlacesInv
  <1>6. ParentInv'  BY <1>2, <1>3 DEF PlacesInv, ParentInv
  <1> QED  BY <1>4, <1>5, <1>6 DEF PlacesInv

\* Every step of the pool keeps each task in its one place.
LEMMA PlacesNextInv == PlacesInv /\ [Next]_vars => PlacesInv'
  <1> SUFFICES ASSUME PlacesInv, [Next]_vars PROVE PlacesInv'
    OBVIOUS
  <1>1. PoolInv'  BY PoolNextInv DEF PlacesInv
  <1>2. CASE UNCHANGED vars
    <2>1. \A t \in Threads : Moves(t)  BY <1>2 DEF Moves, vars, queueVars
    <2> QED  BY <1>1, <1>2, <2>1, MovesInv DEF vars, queueVars
  <1>3. ASSUME NEW w \in Workers, Worker(w) PROVE PlacesInv'
    BY <1>1, <1>3, LoopStepInv, RunTaskInv, TaskAddsInv DEF Worker
  <1>4. ASSUME NEW o \in Owners, stop_tp(o) \/ Owner(o) PROVE PlacesInv'
    BY <1>1, <1>4, OwnerStepInv
  <1>5. ASSUME NEW c \in Clients, NEW k \in Tasks, add_task(c, k) PROVE PlacesInv'
    BY <1>1, <1>5, AddTaskInv
  <1>6. ASSUME NEW t \in Threads, InQueue(t) \/ Wakeup(t) PROVE PlacesInv'
    BY <1>1, <1>6, InQueueInv
  <1> QED  BY <1>2, <1>3, <1>4, <1>5, <1>6 DEF Next

\* The sum of the places that OnePlace speaks of.
LEMMA PlacesOf ==
  PlacesInv => \A k \in given : /\ Nowhere(k) => m_needStop /\ Places(k) = 0
                                /\ ~Nowhere(k) => Places(k) = 1
  <1> SUFFICES ASSUME PlacesInv, NEW k \in given
               PROVE  /\ Nowhere(k) => m_needStop /\ Places(k) = 0
                      /\ ~Nowhere(k) => Places(k) = 1
    OBVIOUS
  <1>1. OnItsWay(k) \/ InLine(k) \/ Called(k) \/ (m_needStop /\ Nowhere(k))
    BY DEF PlacesInv, TaskInv, PoolInv, TypeOK
  <1>2. Cardinality({}) = 0 /\ \A e : Cardinality({e}) = 1  BY FS_EmptySet, FS_Singleton
  <1>3. CASE OnItsWay(k)
    <2>1. Cardinality(Carried(k)) = 1  BY <1>2, <1>3, Zenon DEF OnItsWay
    <2>2. Cardinality(Queued(k)) = 0 /\ runs[k] = 0 /\ ~Nowhere(k)
      BY <1>2, <1>3 DEF OnItsWay, Nowhere
    <2> QED  BY <2>1, <2>2 DEF Places
  <1>4. CASE InLine(k)
    <2>1. Cardinality(Queued(k)) = 1  BY <1>2, <1>4, Zenon DEF InLine
    <2>2. Cardinality(Carried(k)) = 0 /\ runs[k] = 0 /\ ~Nowhere(k)
      BY <1>2, <1>4 DEF InLine, Nowhere
    <2> QED  BY <2>1, <2>2 DEF Places
  <1>5. CASE Called(k)  BY <1>2, <1>5 DEF Called, Nowhere, Places
  <1>6. CASE m_needStop /\ Nowhere(k)  BY <1>2, <1>6 DEF Nowhere, Places
  <1> QED  BY <1>1, <1>3, <1>4, <1>5, <1>6

LEMMA PlacesInvariant == Spec => []PlacesInv
  <1> QED  BY PlacesInitInv, PlacesNextInv, PTL DEF Spec

\* A task given to the pool is in one place, and called once at most; only a stop loses it.
THEOREM PoolOnePlace == Spec => []OnePlace
  <1>1. PlacesInv => OnePlace  BY PlacesOf DEF OnePlace
  <1> QED  BY <1>1, PlacesInvariant, PTL
-----------------------------------------------------------------------------
(* The pool implements TaskService.                                        *)

\* The stop of the queue comes with the once_flag and is never taken back.
StopInv ==
  /\ m_flag # "unset" => m_needStop
  /\ \A o \in Owners : pc[o] \in {"stopping", "joining"} => m_needStop

ServiceInv == PlacesInv /\ StopInv

LEMMA ServiceNextInv == ServiceInv /\ [Next]_vars => ServiceInv'
  <1> SUFFICES ASSUME ServiceInv, [Next]_vars PROVE StopInv'
    BY PlacesNextInv DEF ServiceInv
  <1>0. pc \in [Workers \cup Owners -> WorkerPlaces \cup OwnerPlaces]
    BY DEF ServiceInv, PlacesInv, PoolInv, PcInv
  <1> USE <1>0, PoolAssumption DEF ServiceInv, StopInv, queueVars, poolVars, Q!queueVars
  <1>1. CASE UNCHANGED vars  BY <1>1 DEF vars
  <1>2. ASSUME NEW w \in Workers, Worker(w) PROVE StopInv'
    BY <1>2 DEF Worker, RunTest, RunTask, TaskReturns, TaskAdds, Q!TakeCall, Q!PutCall
  <1>3. ASSUME NEW o \in Owners, stop_tp(o) \/ Owner(o) PROVE StopInv'
    BY <1>3 DEF stop_tp, Owner, ClearRunning, JoinAll, StopOver, Q!stop_sq
  <1>4. ASSUME NEW c \in Clients, NEW k \in Tasks, add_task(c, k) PROVE StopInv'
    BY <1>4 DEF add_task, Q!PutCall
  <1>5. ASSUME NEW t \in Threads, InQueue(t) \/ Wakeup(t) PROVE StopInv'
    BY <1>5 DEF InQueue, Wakeup, Q!Proceeds, Q!add_sq, Q!take_sq, Q!take_sq_list, Q!NotifyAllFull,
                Q!NotifyAllEmpty, Q!SpuriousWakeup
  <1> QED  BY <1>1, <1>2, <1>3, <1>4, <1>5 DEF Next

\* What a task's stage depends on.
StageIs == \A k \in Tasks : Stage(k) =
  IF k \notin given THEN "new"
  ELSE IF \E w \in Workers : task[w] = k THEN "running"
  ELSE IF runs[k] > 0 THEN "done"
  ELSE IF Nowhere(k) THEN "dropped"
  ELSE "accepted"

LEMMA StageOf == PlacesInv => StageIs
  <1>1. PlacesInv => \A k \in given : Places(k) = 0 <=> Nowhere(k)  BY PlacesOf
  <1> QED  BY <1>1 DEF Stage, StageIs

\* A task that is carried or queued was accepted and not called.
LEMMA Uncalled ==
  ASSUME PlacesInv, NEW k \in Tasks, Carried(k) # {} \/ Queued(k) # {}
  PROVE  Stage(k) = "accepted" /\ k \in given /\ runs[k] = 0 /\ \A w \in Workers : task[w] # k
  <1>1. k \in given /\ ~Nowhere(k) /\ runs[k] = 0
    BY DEF PlacesInv, TaskInv, Nowhere, OnItsWay, InLine, Called
  <1>2. \A w \in Workers : task[w] # k  BY <1>1 DEF PlacesInv, ParentInv
  <1> QED  BY <1>1, <1>2, StageOf DEF StageIs

\* A task whose calls and places stay what they are keeps its stage.
LEMMA StageKept ==
  ASSUME PlacesInv, PlacesInv', NEW k \in Tasks, k \in given' <=> k \in given,
         runs'[k] = runs[k],
         (\E w \in Workers : task'[w] = k) <=> (\E w \in Workers : task[w] = k),
         k \in given => (Nowhere(k)' <=> Nowhere(k))
  PROVE  Stage(k)' = Stage(k)
  <1>1. PlacesInv' => StageIs'  BY StageOf, PTL
  <1> QED  BY <1>1, StageOf DEF StageIs

\* A step of the service, as the pool sees it.
stages == [k \in Tasks |-> Stage(k)]
serviceVars == <<stages, m_needStop, m_flag = "set">>

LEMMA StageMoves ==
  ASSUME NEW x \in Tasks, NEW to, Stage(x)' = to, \A k \in Tasks \ {x} : Stage(k)' = Stage(k)
  PROVE  Service!Moves(x, Stage(x), to)
  BY DEF Service!Moves

LEMMA StagesStay ==
  ASSUME \A k \in Tasks : Stage(k)' = Stage(k), m_needStop' = m_needStop, m_flag' = m_flag
  PROVE  UNCHANGED serviceVars
  BY DEF stages, serviceVars

LostByStop == \A k \in given : Nowhere(k) => m_needStop

LEMMA StopLoses == PlacesInv => LostByStop
  <1> QED  BY PlacesOf DEF LostByStop

\* Inside the queue a task is dropped by a put after the stop; before it none is lost.
LEMMA ServiceInQueue ==
  ASSUME PlacesInv, PlacesInv', NEW t \in Threads, InQueue(t) \/ Wakeup(t)
  PROVE  [Service!Next]_serviceVars
  <1>1. UNCHANGED <<m_flag, pc, task, given, runs>>  BY DEF InQueue, Wakeup, poolVars
  <1>2. UNCHANGED m_needStop
    BY DEF InQueue, Wakeup, Q!Proceeds, Q!add_sq, Q!take_sq, Q!take_sq_list, Q!NotifyAllFull,
           Q!NotifyAllEmpty, Q!SpuriousWakeup, Q!queueVars
  <1>3. CASE ~m_needStop
    <2>1. \A k \in Tasks : k \in given => ~Nowhere(k) /\ ~Nowhere(k)'
      <3>1. PlacesInv' => LostByStop'  BY StopLoses, PTL
      <3> QED  BY <1>1, <1>2, <1>3, <3>1, StopLoses DEF LostByStop
    <2>2. \A k \in Tasks : Stage(k)' = Stage(k)  BY <1>1, <2>1, StageKept
    <2> QED  BY <1>1, <1>2, <2>2, StagesStay
  <1>4. CASE UNCHANGED <<m_queue, held>>
    <2>1. \A k \in Tasks : Nowhere(k)' <=> Nowhere(k)  BY <1>1, <1>4 DEF Nowhere, Carried, Queued
    <2>2. \A k \in Tasks : Stage(k)' = Stage(k)  BY <1>1, <2>1, StageKept
    <2> QED  BY <1>1, <1>2, <2>2, StagesStay
  <1>5. CASE m_needStop /\ Q!add_sq(t)
    <2>1. at[t] = "put" /\ UNCHANGED m_queue /\ held' = [held EXCEPT ![t] = <<>>]
      BY <1>5 DEF Q!add_sq
    <2>2. held \in [Threads -> Seq(Tasks)]  BY DEF PlacesInv, PoolInv, TypeOK, Q!TypeOK
    <2>3. PICK x \in Tasks : held[t] = <<x>>
      <3>1. Len(held[t]) = 1  BY <2>1 DEF PlacesInv, PoolInv, TypeOK, Q!TypeOK
      <3>2. held[t] # <<>>  BY <3>1, EmptySeq
      <3> QED  BY <3>2 DEF PlacesInv, HandInv
    <2>4. t \in Carried(x)
      <3>1. t \in Workers => pc[t] \in {"taking", "adding"}  BY <2>1 DEF PlacesInv, HandInv
      <3> QED  BY <2>3, <3>1 DEF Carried
    <2>5. Carried(x) = {t} /\ Queued(x) = {}
      BY <2>4 DEF PlacesInv, TaskInv, Nowhere, OnItsWay, InLine, Called
    <2>6. \A k \in Tasks : Carried(k)' = Carried(k) \ {t} /\ Queued(k)' = Queued(k)
      <3>1. \A k \in Tasks : <<>> # <<k>>  OBVIOUS
      <3> QED  BY <1>1, <2>1, <2>2, <3>1 DEF Carried, Queued
    <2>7. \A k \in Tasks \ {x} : t \notin Carried(k)  BY <2>3 DEF Carried
    <2>8. \A k \in Tasks \ {x} : Nowhere(k)' <=> Nowhere(k)  BY <1>1, <2>6, <2>7 DEF Nowhere
    <2>9. \A k \in Tasks \ {x} : Stage(k)' = Stage(k)  BY <1>1, <2>8, StageKept
    <2>10. Stage(x) = "accepted" /\ x \in given /\ runs[x] = 0 /\ \A w \in Workers : task[w] # x
      BY <2>5, Uncalled
    <2>11. Stage(x)' = "dropped"
      <3>1. Nowhere(x)'  BY <1>1, <2>5, <2>6, <2>10 DEF Nowhere
      <3>2. PlacesInv' => StageIs'  BY StageOf, PTL
      <3> QED  BY <1>1, <2>10, <3>1, <3>2 DEF StageIs
    <2>12. Service!Moves(x, "accepted", "dropped")  BY <2>9, <2>10, <2>11, StageMoves
    <2> QED  BY <1>1, <1>2, <1>5, <2>12 DEF Service!Next, Service!Drop
  <1>6. CASE m_needStop /\ ~Q!add_sq(t)
    <2>1. UNCHANGED <<m_queue, held>>
      <3>1. ~Q!take_sq_list(t)  BY DEF PlacesInv, HandInv, Threads, Q!take_sq_list
      <3> QED
        BY <1>6, <3>1 DEF InQueue, Wakeup, Q!Proceeds, Q!take_sq, Q!NotifyAllFull, Q!NotifyAllEmpty,
                      Q!SpuriousWakeup, Q!queueVars
    <2> QED  BY <1>4, <2>1
  <1> QED  BY <1>3, <1>5, <1>6

\* A task that a thread comes to carry is given.
LEMMA ServiceGives ==
  ASSUME PlacesInv, PlacesInv', NEW t \in Threads, NEW x \in Tasks, x \notin given,
         given' = given \cup {x}, held' = [held EXCEPT ![t] = <<x>>],
         UNCHANGED <<m_queue, m_needStop, m_flag, task, runs>>,
         \A k \in Tasks : t \notin Carried(k),
         \A u \in Workers \ {t} : pc'[u] = pc[u],
         t \in Workers => pc'[t] = "adding"
  PROVE  Service!Give(x)
  <1>1. held \in [Threads -> Seq(Tasks)]  BY DEF PlacesInv, PoolInv, TypeOK, Q!TypeOK
  <1>2. \A k \in Tasks : <<x>> = <<k>> <=> x = k  OBVIOUS
  <1>3. \A k \in Tasks : Carried(k)' = (IF k = x THEN Carried(k) \cup {t} ELSE Carried(k))
    BY <1>1, <1>2 DEF Carried, Threads
  <1>4. \A k \in Tasks \ {x} : Nowhere(k)' <=> Nowhere(k)  BY <1>3 DEF Nowhere, Queued
  <1>5. \A k \in Tasks \ {x} : Stage(k)' = Stage(k)  BY <1>4, StageKept
  <1>6. Stage(x) = "new"  BY StageOf DEF StageIs
  <1>7. Stage(x)' = "accepted"
    <2>1. ~Nowhere(x)'  BY <1>3 DEF Nowhere
    <2>2. runs[x] = 0 /\ \A w \in Workers : task[w] # x
      BY DEF PlacesInv, TaskInv, ParentInv, Nowhere
    <2>3. PlacesInv' => StageIs'  BY StageOf, PTL
    <2> QED  BY <2>1, <2>2, <2>3 DEF StageIs
  <1>8. Service!Moves(x, "new", "accepted")  BY <1>5, <1>6, <1>7, StageMoves
  <1> QED  BY <1>8 DEF Service!Give

\* A client gives a task of its own, and a running task another one.
LEMMA ServiceAdds ==
  ASSUME PlacesInv, PlacesInv', NEW x \in Tasks,
         (\E c \in Clients : add_task(c, x)) \/ (\E w \in Workers : TaskAdds(w, x))
  PROVE  Service!Give(x)
  <1> USE PoolAssumption DEF Q!PutCall, Q!queueVars
  <1>1. ASSUME NEW c \in Clients, add_task(c, x) PROVE Service!Give(x)
    <2>1. c \in Threads /\ c \notin Workers /\ held[c] = <<>>
      BY <1>1 DEF add_task, PlacesInv, HandInv, Threads
    <2>2. \A j \in Tasks : <<>> # <<j>>  OBVIOUS
    <2>3. \A j \in Tasks : c \notin Carried(j)  BY <2>1, <2>2 DEF Carried
    <2>4. /\ x \notin given /\ given' = given \cup {x} /\ held' = [held EXCEPT ![c] = <<x>>]
          /\ UNCHANGED <<m_queue, m_needStop, m_flag, task, runs, pc>>
      BY <1>1 DEF add_task
    <2> QED  BY <2>1, <2>3, <2>4, ServiceGives
  <1>2. ASSUME NEW w \in Workers, TaskAdds(w, x) PROVE Service!Give(x)
    <2>1. w \in Threads /\ pc \in [Workers \cup Owners -> WorkerPlaces \cup OwnerPlaces]
      BY DEF Threads, PlacesInv, PoolInv, PcInv
    <2>2. /\ pc[w] = "calling" /\ x \in Adds[task[w]] /\ pc' = [pc EXCEPT ![w] = "adding"]
          /\ given' = given \cup {x} /\ held' = [held EXCEPT ![w] = <<x>>]
          /\ UNCHANGED <<m_queue, m_needStop, m_flag, task, runs>>
      BY <1>2 DEF TaskAdds
    <2>3. x \notin given  BY <2>2 DEF PlacesInv, ParentInv
    <2>4. \A j \in Tasks : w \notin Carried(j)  BY <2>2 DEF Carried
    <2>5. (\A u \in Workers \ {w} : pc'[u] = pc[u]) /\ pc'[w] = "adding"  BY <2>1, <2>2
    <2> QED  BY <2>1, <2>2, <2>3, <2>4, <2>5, ServiceGives
  <1> QED  BY <1>1, <1>2

\* While a worker has no task, fewer tasks run than there are workers.
LEMMA RunningFewer ==
  ASSUME PlacesInv, NEW w \in Workers, task[w] = None
  PROVE  Service!Cardinality(Service!Running) < Cardinality(Workers)
  <1> DEFINE R == Service!Running
             f == [k \in R |-> CHOOSE v \in Workers : task[v] = k]
  <1>1. ASSUME NEW k \in R PROVE f[k] \in Workers \ {w} /\ task[f[k]] = k
    <2>1. k \in Tasks /\ Stage(k) = "running"  BY DEF Service!Running
    <2>2. \E v \in Workers : task[v] = k
      BY <2>1, StageOf DEF StageIs
    <2>3. f[k] \in Workers /\ task[f[k]] = k  BY <2>2
    <2> QED  BY <2>1, <2>3, PoolAssumption
  <1>2. f \in Injection(R, Workers \ {w})
    <2>1. f \in [R -> Workers \ {w}]  BY <1>1
    <2>2. \A j, k \in R : f[j] = f[k] => j = k  BY <1>1
    <2> HIDE DEF f
    <2> QED  BY <2>1, <2>2 DEF Injection, IsInjective
  <1> HIDE DEF f, R
  <1>3. /\ IsFiniteSet(Workers \ {w}) /\ Cardinality(Workers \ {w}) = Cardinality(Workers) - 1
        /\ Cardinality(Workers) \in Nat
    BY PoolAssumption, FS_RemoveElement, FS_CardinalityType
  <1>4. IsFiniteSet(R) /\ Cardinality(R) <= Cardinality(Workers \ {w})  BY <1>2, <1>3, FS_Injection
  <1>5. Cardinality(R) \in Nat  BY <1>4, FS_CardinalityType
  <1>6. Service!Cardinality(R) = Cardinality(R)  BY Zenon DEF Service!Cardinality, Cardinality
  <1> QED  BY <1>3, <1>4, <1>5, <1>6 DEF R

\* A worker calls the task it has taken; the pool is not over while one is in its loop.
LEMMA ServiceCalls ==
  ASSUME PlacesInv, PlacesInv', NEW w \in Workers, RunTask(w)
  PROVE  [Service!Next]_serviceVars
  <1>1. /\ pc \in [Workers \cup Owners -> WorkerPlaces \cup OwnerPlaces]
        /\ task \in [Workers -> Tasks \cup {None}] /\ runs \in [Tasks -> Nat] /\ w \in Threads
    BY DEF PlacesInv, PoolInv, PcInv, TypeOK, Threads
  <1>2. pc[w] = "taking" /\ UNCHANGED <<queueVars, m_running, m_flag, given>>  BY DEF RunTask
  <1>3. CASE UNCHANGED <<pc, task, runs>>
    <2>1. \A k \in Tasks : Nowhere(k)' <=> Nowhere(k)
      BY <1>2, <1>3 DEF Nowhere, Carried, Queued, queueVars
    <2>2. \A k \in Tasks : Stage(k)' = Stage(k)  BY <1>2, <1>3, <2>1, StageKept
    <2> QED  BY <1>2, <2>2, StagesStay DEF queueVars
  <1>4. CASE /\ held[w] # <<>>
             /\ task' = [task EXCEPT ![w] = held[w][1]]
             /\ runs' = [runs EXCEPT ![held[w][1]] = @ + 1]
             /\ pc' = [pc EXCEPT ![w] = "calling"]
    <2>1. PICK x \in Tasks : held[w] = <<x>>  BY <1>1, <1>4 DEF PlacesInv, HandInv
    <2>2. held[w][1] = x  BY <2>1
    <2>3. w \in Carried(x)  BY <1>1, <1>2, <2>1 DEF Carried
    <2>4. Stage(x) = "accepted" /\ x \in given /\ runs[x] = 0  BY <2>3, Uncalled
    <2>5. runs' = [runs EXCEPT ![x] = 1] /\ task' = [task EXCEPT ![w] = x]
      BY <1>1, <1>4, <2>2, <2>4
    <2>6. task[w] = None  BY <1>2 DEF PlacesInv, PoolInv, PcInv
    <2>7. ASSUME NEW k \in Tasks \ {x} PROVE Stage(k)' = Stage(k)
      <3>1. w \notin Carried(k)  BY <2>1 DEF Carried
      <3>2. Carried(k)' = Carried(k)  BY <1>1, <1>2, <1>4, <3>1 DEF Carried, queueVars
      <3>3. Queued(k)' = Queued(k) /\ runs'[k] = runs[k]
        BY <1>1, <1>2, <2>5 DEF Queued, queueVars
      <3>4. Nowhere(k)' <=> Nowhere(k)  BY <3>2, <3>3 DEF Nowhere
      <3>5. k # None  BY PoolAssumption
      <3>6. \A v \in Workers : task'[v] = k <=> task[v] = k  BY <1>1, <2>5, <2>6, <3>5
      <3> QED  BY <1>2, <3>3, <3>4, <3>6, StageKept
    <2>8. Stage(x)' = "running"
      <3>1. task'[w] = x  BY <1>1, <2>5
      <3>2. PlacesInv' => StageIs'  BY StageOf, PTL
      <3> QED  BY <1>2, <2>4, <3>1, <3>2 DEF StageIs
    <2>9. Service!Moves(x, "accepted", "running")  BY <2>4, <2>7, <2>8, StageMoves
    <2>10. m_flag # "set"  BY <1>2 DEF PlacesInv, PoolInv, FlagInv
    <2>11. Service!Cardinality(Service!Running) < Cardinality(Workers)  BY <2>6, RunningFewer
    <2> QED  BY <1>2, <2>9, <2>10, <2>11 DEF Service!Next, Service!Call, queueVars
  <1> QED  BY <1>3, <1>4 DEF RunTask

\* A task that returns is done.
LEMMA ServiceReturns ==
  ASSUME PlacesInv, PlacesInv', NEW w \in Workers, TaskReturns(w)
  PROVE  [Service!Next]_serviceVars
  <1>1. /\ pc \in [Workers \cup Owners -> WorkerPlaces \cup OwnerPlaces]
        /\ task \in [Workers -> Tasks \cup {None}] /\ None \notin Tasks /\ runs \in [Tasks -> Nat]
    BY PoolAssumption DEF PlacesInv, PoolInv, PcInv, TypeOK
  <1>2. /\ pc[w] = "calling" \/ (pc[w] = "adding" /\ at[w] = "out")
        /\ pc' = [pc EXCEPT ![w] = "loop"] /\ task' = [task EXCEPT ![w] = None]
        /\ UNCHANGED <<m_queue, m_needStop, at, held, m_flag, given, runs>>
    BY DEF TaskReturns, queueVars
  <1>3. PICK x \in Tasks : task[w] = x  BY <1>1, <1>2 DEF PlacesInv, PoolInv, TypeOK
  <1>4. \A k \in Tasks : Nowhere(k)' <=> Nowhere(k)
    <2>1. \A k \in Tasks : <<>> # <<k>>  OBVIOUS
    <2>2. pc[w] = "adding" => held[w] = <<>>  BY <1>2 DEF PlacesInv, HandInv
    <2>3. \A k \in Tasks : Carried(k)' = Carried(k)  BY <1>1, <1>2, <2>1, <2>2 DEF Carried
    <2> QED  BY <1>2, <2>3 DEF Nowhere, Queued
  <1>5. \A k \in Tasks \ {x} : Stage(k)' = Stage(k)
    <2>1. \A k \in Tasks \ {x}, v \in Workers : task'[v] = k <=> task[v] = k  BY <1>1, <1>2, <1>3
    <2> QED  BY <1>2, <1>4, <2>1, StageKept
  <1>6. runs[x] # 0 /\ x \in given
    BY <1>3 DEF PlacesInv, ParentInv, TaskInv, Nowhere
  <1>7. Stage(x) = "running"  BY <1>3, <1>6, StageOf DEF StageIs
  <1>8. Stage(x)' = "done"
    <2>1. \A v \in Workers : task'[v] # x  BY <1>1, <1>2, <1>3 DEF PlacesInv, ParentInv
    <2>2. PlacesInv' => StageIs'  BY StageOf, PTL
    <2> QED  BY <1>1, <1>2, <1>6, <2>1, <2>2 DEF StageIs
  <1>9. Service!Moves(x, "running", "done")  BY <1>5, <1>7, <1>8, StageMoves
  <1> QED  BY <1>2, <1>9 DEF Service!Next, Service!Return

\* The worker's test of m_running moves no task.
LEMMA ServiceTests ==
  ASSUME PlacesInv, PlacesInv', NEW w \in Workers, RunTest(w)
  PROVE  UNCHANGED serviceVars
  <1> USE DEF RunTest, Q!TakeCall, Q!queueVars, queueVars
  <1>1. /\ pc \in [Workers \cup Owners -> WorkerPlaces \cup OwnerPlaces]
        /\ held \in [Threads -> Seq(Tasks)] /\ w \in Threads
    BY DEF PlacesInv, PoolInv, PcInv, TypeOK, Q!TypeOK, Threads
  <1>2. \A k \in Tasks : <<>> # <<k>>  OBVIOUS
  <1>3. \A k \in Tasks : Carried(k)' = Carried(k)  BY <1>1, <1>2 DEF Carried, Threads
  <1>4. \A k \in Tasks : Nowhere(k)' <=> Nowhere(k)  BY <1>3 DEF Nowhere, Queued
  <1>5. \A k \in Tasks : Stage(k)' = Stage(k)  BY <1>4, StageKept
  <1> QED  BY <1>5, StagesStay

\* stop_tp stops the service, and returns when the workers have gone, each without a task.
LEMMA ServiceStops ==
  ASSUME ServiceInv, PlacesInv', NEW o \in Owners, stop_tp(o) \/ Owner(o)
  PROVE  [Service!Next]_serviceVars
  <1> USE PoolAssumption DEF stop_tp, Owner, ClearRunning, JoinAll, StopOver, Q!stop_sq, queueVars, ServiceInv
  <1>1. pc \in [Workers \cup Owners -> WorkerPlaces \cup OwnerPlaces]
    BY DEF PlacesInv, PoolInv, PcInv
  <1>2. UNCHANGED <<m_queue, held, task, given, runs>> /\ \A w \in Workers : pc'[w] = pc[w]
    BY <1>1
  <1>3. \A k \in Tasks : Nowhere(k)' <=> Nowhere(k)  BY <1>2 DEF Nowhere, Carried, Queued
  <1>4. \A k \in Tasks : Stage(k)' = Stage(k)  BY <1>2, <1>3, StageKept
  <1>5. stages' = stages  BY <1>4 DEF stages
  <1>6. CASE stop_tp(o)
    <2>1. (m_flag' = "set") = (m_flag = "set")  BY <1>6
    <2>2. CASE m_needStop' = TRUE
      BY <1>5, <2>1, <2>2 DEF Service!Next, Service!Stop, stages
    <2>3. CASE UNCHANGED queueVars  BY <1>5, <2>1, <2>3 DEF serviceVars
    <2> QED  BY <1>6, <2>2, <2>3
  <1>7. CASE JoinAll(o)
    <2>1. m_needStop /\ UNCHANGED m_needStop  BY <1>7 DEF StopInv
    <2>2. Service!Running = {}
      <3>1. \A w \in Workers : task[w] = None  BY <1>7 DEF PlacesInv, PoolInv, PcInv
      <3>2. \A k \in Tasks : Stage(k) # "running"  BY <3>1, StageOf DEF StageIs
      <3> QED  BY <3>2 DEF Service!Running
    <2>3. m_flag' = "set"  BY <1>7
    <2> QED  BY <1>5, <2>1, <2>2, <2>3 DEF Service!Next, Service!StopReturns, stages
  <1>8. CASE ClearRunning(o) \/ StopOver(o)
    <2>1. UNCHANGED <<m_needStop, m_flag>>  BY <1>8
    <2> QED  BY <1>4, <2>1, StagesStay
  <1> QED  BY <1>6, <1>7, <1>8

\* Every step of the pool is one of the service, or no step for those who use it.
LEMMA ServiceNext == ServiceInv /\ ServiceInv' /\ [Next]_vars => [Service!Next]_serviceVars
  <1> SUFFICES ASSUME ServiceInv, ServiceInv', [Next]_vars PROVE [Service!Next]_serviceVars
    OBVIOUS
  <1> USE DEF ServiceInv
  <1>1. CASE UNCHANGED vars
    <2>1. \A k \in Tasks : Nowhere(k)' <=> Nowhere(k)
      BY <1>1 DEF Nowhere, Carried, Queued, vars, queueVars, poolVars
    <2>2. \A k \in Tasks : Stage(k)' = Stage(k)
      BY <1>1, <2>1, StageKept DEF vars, queueVars, poolVars
    <2> QED  BY <1>1, <2>2, StagesStay DEF vars, queueVars, poolVars
  <1>2. ASSUME NEW w \in Workers, Worker(w) PROVE [Service!Next]_serviceVars
    <2>1. CASE \E k \in Tasks : TaskAdds(w, k)  BY <2>1, ServiceAdds DEF Service!Next
    <2> QED  BY <1>2, <2>1, ServiceTests, ServiceCalls, ServiceReturns DEF Worker
  <1>3. ASSUME NEW o \in Owners, stop_tp(o) \/ Owner(o) PROVE [Service!Next]_serviceVars
    BY <1>3, ServiceStops
  <1>4. ASSUME NEW c \in Clients, NEW k \in Tasks, add_task(c, k) PROVE [Service!Next]_serviceVars
    BY <1>4, ServiceAdds DEF Service!Next
  <1>5. ASSUME NEW t \in Threads, InQueue(t) \/ Wakeup(t) PROVE [Service!Next]_serviceVars
    BY <1>5, ServiceInQueue
  <1> QED  BY <1>1, <1>2, <1>3, <1>4, <1>5 DEF Next

\* A task given to the pool is called once, by one of its workers, or dropped after the stop; and
\* nothing is called when the stop has returned: the pool implements the task service.
THEOREM PoolImplementsService == Spec => ImplementsService
  <1>1. Init => ServiceInv
    BY PlacesInitInv DEF Init, Q!Init, ServiceInv, StopInv
  <1>2. Init => Service!Init
    BY DEF Init, Q!Init, Service!Init, Stage
  <1>3. ServiceInv /\ ServiceInv' /\ [Next]_vars
          => [Service!Next]_<<[k \in Tasks |-> Stage(k)], m_needStop, m_flag = "set">>
    BY ServiceNext DEF serviceVars, stages
  <1> QED  BY <1>1, <1>2, <1>3, ServiceNextInv, PTL DEF Spec, ImplementsService, Service!Spec
=============================================================================
