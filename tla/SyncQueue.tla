------------------------------- MODULE SyncQueue -------------------------------
(***************************************************************************)
(* SyncQueue of other/SyncQueue.hpp: a bounded queue with one mutex, the   *)
(* condition variables m_notFull and m_notEmpty and a stop flag.           *)
(*                                                                         *)
(* A critical section is one step.  It ends in the return of the call or   *)
(* in the wait set of a condition variable.  Notifying moves a waiting     *)
(* thread back to the entry of its critical section: it still has to get   *)
(* the mutex, which any other caller may get first, and then evaluates its *)
(* predicate again.                                                        *)
(*                                                                         *)
(* A definition named Op_X is not used by the specification: it is Op with *)
(* the fault X, which a property of this module tells from Op.             *)
(***************************************************************************)
EXTENDS Integers, Sequences, FiniteSets

CONSTANTS
  Threads,     \* the threads that call the queue
  Items,       \* what they put
  m_maxSize,   \* the constructor's argument
  Calls        \* the calls they make, a subset of Call

Call == {"put", "take", "takeList", "stop"}

ASSUME QueueAssumption ==
  /\ m_maxSize \in Nat
  /\ Calls \subseteq Call
  /\ IsFiniteSet(Threads)

VARIABLES
  m_queue, m_needStop,
  at,      \* where each thread is in its call
  held     \* the items it brings or was given

queueVars == <<m_queue, m_needStop>>
vars == <<m_queue, m_needStop, at, held>>

Entries == {"put", "take", "takeList"}           \* about to lock m_mutex
Waiting == {"putWait", "takeWait", "takeListWait"}
Places == Entries \cup Waiting \cup {"out", "notifyFull", "notifyEmpty"}

\* The queue keeps to its capacity, and whoever puts brings an item
\* (SyncQueue.hpp:17-22, 134).
TypeOK ==
  /\ m_queue \in Seq(Items) /\ Len(m_queue) <= m_maxSize
  /\ m_needStop \in BOOLEAN
  /\ at \in [Threads -> Places]
  /\ held \in [Threads -> Seq(Items)]
  /\ \A t \in Threads : at[t] \in {"put", "putWait"} => Len(held[t]) = 1

Init ==
  /\ m_queue = <<>> /\ m_needStop = FALSE
  /\ at = [t \in Threads |-> "out"]
  /\ held = [t \in Threads |-> <<>>]

At(places) == {t \in Threads : at[t] \in places}
NotFull == Len(m_queue) < m_maxSize
NotEmpty == m_queue # <<>>

Entry(place) ==
  CASE place = "putWait" -> "put"
    [] place = "takeWait" -> "take"
    [] place = "takeListWait" -> "takeList"

\* The thread's call returns and one waiter, if there is any, is notified.
NotifyOne(t, waiting) ==
  \/ At(waiting) = {} /\ at' = [at EXCEPT ![t] = "out"]
  \/ \E w \in At(waiting) : at' = [at EXCEPT ![t] = "out", ![w] = Entry(at[w])]

NotifyAll(t, waiting, next) ==
  at' = [u \in Threads |-> IF u = t THEN next
                           ELSE IF at[u] \in waiting THEN Entry(at[u]) ELSE at[u]]

Putters == {"putWait"}
Takers == {"takeWait", "takeListWait"}

\* A thread calls put_sq(x), take_sq(t) or take_sq(list).
PutCall(t, x) ==
  /\ at[t] = "out" /\ at' = [at EXCEPT ![t] = "put"]
  /\ held' = [held EXCEPT ![t] = <<x>>]
  /\ UNCHANGED queueVars

TakeCall(t) ==
  /\ at[t] = "out" /\ at' = [at EXCEPT ![t] = "take"]
  /\ held' = [held EXCEPT ![t] = <<>>]
  /\ UNCHANGED queueVars

TakeListCall(t) ==
  /\ at[t] = "out" /\ at' = [at EXCEPT ![t] = "takeList"]
  /\ held' = [held EXCEPT ![t] = <<>>]
  /\ UNCHANGED queueVars

\* After m_needStop the caller is not told that its item was dropped.
add_sq_Full(t) ==
  /\ at[t] = "put" /\ ~m_needStop
  /\ m_queue' = Append(m_queue, held[t][1])
  /\ held' = [held EXCEPT ![t] = <<>>]
  /\ NotifyOne(t, Takers)
  /\ UNCHANGED m_needStop

add_sq_NotifiesPutter(t) ==
  /\ at[t] = "put" /\ ~m_needStop /\ NotFull
  /\ m_queue' = Append(m_queue, held[t][1])
  /\ held' = [held EXCEPT ![t] = <<>>]
  /\ NotifyOne(t, Putters)
  /\ UNCHANGED m_needStop

add_sq(t) ==
  /\ at[t] = "put"
  /\ \/ /\ m_needStop
        /\ at' = [at EXCEPT ![t] = "out"]
        /\ held' = [held EXCEPT ![t] = <<>>]
        /\ UNCHANGED m_queue
     \/ /\ ~m_needStop /\ NotFull
        /\ m_queue' = Append(m_queue, held[t][1])
        /\ held' = [held EXCEPT ![t] = <<>>]
        /\ NotifyOne(t, Takers)
     \/ /\ ~m_needStop /\ ~NotFull
        /\ at' = [at EXCEPT ![t] = "putWait"]
        /\ UNCHANGED <<m_queue, held>>
  /\ UNCHANGED m_needStop

take_sq_Silent(t) ==
  /\ at[t] = "take" /\ ~m_needStop /\ NotEmpty
  /\ m_queue' = Tail(m_queue)
  /\ held' = [held EXCEPT ![t] = <<Head(m_queue)>>]
  /\ at' = [at EXCEPT ![t] = "out"]
  /\ UNCHANGED m_needStop

take_sq_Newest(t) ==
  /\ at[t] = "take" /\ ~m_needStop /\ NotEmpty
  /\ m_queue' = SubSeq(m_queue, 1, Len(m_queue) - 1)
  /\ held' = [held EXCEPT ![t] = <<m_queue[Len(m_queue)]>>]
  /\ NotifyOne(t, Putters)
  /\ UNCHANGED m_needStop

\* After m_needStop the caller's item stays as it was, empty.
take_sq(t) ==
  /\ at[t] = "take"
  /\ \/ m_needStop /\ at' = [at EXCEPT ![t] = "out"] /\ UNCHANGED <<m_queue, held>>
     \/ /\ ~m_needStop /\ NotEmpty
        /\ m_queue' = Tail(m_queue)
        /\ held' = [held EXCEPT ![t] = <<Head(m_queue)>>]
        /\ NotifyOne(t, Putters)
     \/ /\ ~m_needStop /\ ~NotEmpty
        /\ at' = [at EXCEPT ![t] = "takeWait"]
        /\ UNCHANGED <<m_queue, held>>
  /\ UNCHANGED m_needStop

take_sq_list_Silent(t) ==
  /\ at[t] = "takeList" /\ ~m_needStop /\ NotEmpty
  /\ m_queue' = <<>>
  /\ held' = [held EXCEPT ![t] = m_queue]
  /\ at' = [at EXCEPT ![t] = "out"]
  /\ UNCHANGED m_needStop

\* The whole queue is moved out, and one of the waiting putters is notified.
take_sq_list(t) ==
  /\ at[t] = "takeList"
  /\ \/ m_needStop /\ at' = [at EXCEPT ![t] = "out"] /\ UNCHANGED <<m_queue, held>>
     \/ /\ ~m_needStop /\ NotEmpty
        /\ m_queue' = <<>>
        /\ held' = [held EXCEPT ![t] = m_queue]
        /\ NotifyOne(t, Putters)
     \/ /\ ~m_needStop /\ ~NotEmpty
        /\ at' = [at EXCEPT ![t] = "takeListWait"]
        /\ UNCHANGED <<m_queue, held>>
  /\ UNCHANGED m_needStop

\* stop_sq: the flag under the mutex, then notify_all twice without it.
stop_sq(t) ==
  /\ at[t] = "out" /\ at' = [at EXCEPT ![t] = "notifyFull"]
  /\ m_needStop' = TRUE
  /\ UNCHANGED <<m_queue, held>>

NotifyAllFull_Skipped(t) ==
  /\ at[t] = "notifyFull" /\ NotifyAll(t, {}, "notifyEmpty")
  /\ UNCHANGED <<queueVars, held>>

NotifyAllFull(t) ==
  /\ at[t] = "notifyFull" /\ NotifyAll(t, Putters, "notifyEmpty")
  /\ UNCHANGED <<queueVars, held>>

NotifyAllEmpty_Putters(t) ==
  /\ at[t] = "notifyEmpty" /\ NotifyAll(t, Putters, "out")
  /\ UNCHANGED <<queueVars, held>>

NotifyAllEmpty(t) ==
  /\ at[t] = "notifyEmpty" /\ NotifyAll(t, Takers, "out")
  /\ UNCHANGED <<queueVars, held>>

\* A wait of a condition variable may also end without a notification.
SpuriousWakeup(t) ==
  /\ at[t] \in Waiting /\ at' = [at EXCEPT ![t] = Entry(@)]
  /\ UNCHANGED <<queueVars, held>>

Called(t) ==
  \/ "put" \in Calls /\ \E x \in Items : PutCall(t, x)
  \/ "take" \in Calls /\ TakeCall(t)
  \/ "takeList" \in Calls /\ TakeListCall(t)
  \/ "stop" \in Calls /\ stop_sq(t)

Proceeds(t) ==
  add_sq(t) \/ take_sq(t) \/ take_sq_list(t) \/ NotifyAllFull(t) \/ NotifyAllEmpty(t)

Next == \E t \in Threads : Called(t) \/ Proceeds(t) \/ SpuriousWakeup(t)

Spec == Init /\ [][Next]_vars

\* A thread that is not waiting gets the mutex and goes on.
FairSpec == Spec /\ \A t \in Threads : WF_vars(Proceeds(t))
-----------------------------------------------------------------------------
\* The queue is the bounded channel: whatever the interleaving of the calls, an
\* item is taken once, in the order put, within the capacity, and never once the
\* queue is stopped (SyncQueue.hpp:62-73, 131-141).
Channel == INSTANCE BoundedChannel
             WITH Capacity <- m_maxSize, pending <- m_queue, stopped <- m_needStop
ImplementsChannel == Channel!Spec

\* No notification for an item is lost: while a taker waits, every item of the
\* queue has a taker of its own on its way to it (SyncQueue.hpp:140, 65).
TakersNotified ==
  ~m_needStop /\ At(Takers) # {} => Len(m_queue) <= Cardinality(At({"take", "takeList"}))

\* Nor for a free place, as long as items are taken one at a time: while a putter
\* waits, every free place has a putter on its way to it (SyncQueue.hpp:72, 134).
PuttersNotified ==
  ~m_needStop /\ At(Putters) # {} => m_maxSize - Len(m_queue) <= Cardinality(At({"put"}))

\* A list taken whole frees many places and notifies one putter.  The others are
\* never stranded: while one waits, an item is left whose taker will notify it, or
\* a putter is on its way to put one (SyncQueue.hpp:58-59, 134).
PuttersNotStranded ==
  ~m_needStop /\ m_maxSize > 0 /\ At(Putters) # {} => NotEmpty \/ At({"put"}) # {}

\* A thread still waiting when the queue is stopped has its notify_all coming
\* (SyncQueue.hpp:75-83).
WaitersReleased ==
  m_needStop => /\ At(Putters) # {} => At({"notifyFull"}) # {}
                /\ At(Takers) # {} => At({"notifyFull", "notifyEmpty"}) # {}

\* stop_sq ends every call in progress, waiting or not.
StopReleases == \A t \in Threads : m_needStop /\ at[t] # "out" ~> at[t] = "out"
=============================================================================
