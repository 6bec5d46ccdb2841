----------------------------- MODULE SyncQueueProofs -----------------------------
(***************************************************************************)
(* Proofs about SyncQueue for every set of threads, set of items, capacity *)
(* and choice of calls: its invariants, and that it implements the bounded *)
(* channel.                                                                *)
(***************************************************************************)
EXTENDS SyncQueue, TLAPS, FiniteSetTheorems, SequenceTheorems

\* The definitions every step below looks into.
USE DEF queueVars, vars, Entries, Waiting, Places, Putters, Takers

\* What a waiting thread goes back to is the entry of the call it is in.
LEMMA EntryOfWaiting ==
  /\ Entry("putWait") = "put"
  /\ Entry("takeWait") = "take"
  /\ Entry("takeListWait") = "takeList"
  BY DEF Entry

\* A call that returns and notifies leaves its own thread out and moves at most one
\* waiting thread to its entry.
LEMMA NotifyOneMoves ==
  ASSUME NEW t \in Threads, NEW waiting, waiting \in {Putters, Takers},
         at \in [Threads -> Places], at[t] \in Entries, NotifyOne(t, waiting)
  PROVE  /\ at' \in [Threads -> Places]
         /\ at'[t] = "out"
         /\ \/ /\ At(waiting) = {}
               /\ \A u \in Threads \ {t} : at'[u] = at[u]
            \/ \E w \in At(waiting) \ {t} :
                 /\ at'[w] = Entry(at[w])
                 /\ \A u \in Threads \ {t, w} : at'[u] = at[u]
  <1>1. CASE At(waiting) = {} /\ at' = [at EXCEPT ![t] = "out"]
    BY <1>1
  <1>2. CASE \E w \in At(waiting) : at' = [at EXCEPT ![t] = "out", ![w] = Entry(at[w])]
    <2>1. PICK w \in At(waiting) : at' = [at EXCEPT ![t] = "out", ![w] = Entry(at[w])]
      BY <1>2
    <2>2. w \in Threads /\ w # t /\ at[w] \in Waiting
      BY DEF At
    <2>3. Entry(at[w]) \in Entries
      BY <2>2, EntryOfWaiting
    <2> QED
      BY <2>1, <2>2, <2>3
  <1> QED
    BY <1>1, <1>2 DEF NotifyOne

\* The type invariant holds when every thread is outside.
LEMMA InitType == Init => TypeOK
  <1> SUFFICES ASSUME Init PROVE TypeOK
    OBVIOUS
  <1>1. m_queue = <<>> /\ <<>> \in Seq(Items) /\ Len(m_queue) = 0
    BY EmptySeq, LenProperties DEF Init
  <1>2. m_maxSize \in Nat
    BY QueueAssumption
  <1>3. m_queue \in Seq(Items) /\ Len(m_queue) <= m_maxSize
    BY <1>1, <1>2
  <1>4. /\ at \in [Threads -> Places] /\ m_needStop \in BOOLEAN
        /\ \A t \in Threads : at[t] \notin {"put", "putWait"}
    BY DEF Init
  <1>5. held \in [Threads -> Seq(Items)]
    BY <1>1 DEF Init
  <1> QED
    BY <1>3, <1>4, <1>5 DEF TypeOK

\* Every step keeps the type invariant.
LEMMA NextType == TypeOK /\ [Next]_vars => TypeOK'
  <1> SUFFICES ASSUME TypeOK, [Next]_vars PROVE TypeOK'
    OBVIOUS
  <1> USE DEF TypeOK
  <1>m. m_maxSize \in Nat
    BY QueueAssumption
  <1>1. CASE UNCHANGED vars
    BY <1>1
  <1>2. ASSUME NEW t \in Threads, Called(t) PROVE TypeOK'
    <2>1. ASSUME NEW x \in Items, PutCall(t, x) PROVE TypeOK'
      <3>1. <<x>> \in Seq(Items) /\ Len(<<x>>) = 1
        OBVIOUS
      <3> QED
        BY <2>1, <3>1 DEF PutCall
    <2>2. CASE TakeCall(t)
      BY <2>2, EmptySeq DEF TakeCall
    <2>3. CASE TakeListCall(t)
      BY <2>3, EmptySeq DEF TakeListCall
    <2>4. CASE stop_sq(t)
      BY <2>4 DEF stop_sq
    <2> QED
      BY <1>2, <2>1, <2>2, <2>3, <2>4 DEF Called
  <1>3. ASSUME NEW t \in Threads, Proceeds(t) PROVE TypeOK'
    <2>1. CASE add_sq(t)
      <3>1. CASE m_needStop
        BY <2>1, <3>1, EmptySeq DEF add_sq
      <3>2. CASE ~m_needStop /\ NotFull
        <4>1. held[t][1] \in Items
          BY <2>1, ElementOfSeq DEF add_sq
        <4>a. m_queue \in Seq(Items) /\ m_queue' = Append(m_queue, held[t][1])
          BY <2>1, <3>2 DEF add_sq
        <4>2. m_queue' \in Seq(Items) /\ Len(m_queue') = Len(m_queue) + 1
          BY <4>1, <4>a, AppendProperties
        <4>3. Len(m_queue') <= m_maxSize
          BY <1>m, <3>2, <4>2, LenProperties DEF NotFull
        <4>4. NotifyOne(t, Takers) /\ at[t] \in Entries
          BY <2>1, <3>2 DEF add_sq, NotFull
        <4>5. /\ at' \in [Threads -> Places]
              /\ \A u \in Threads : at'[u] \in {"put", "putWait"} => u # t /\ at[u] = at'[u]
          BY <4>4, NotifyOneMoves, EntryOfWaiting DEF At
        <4>6. held' = [held EXCEPT ![t] = <<>>] /\ UNCHANGED m_needStop
          BY <2>1, <3>2 DEF add_sq, NotFull
        <4>7. held' \in [Threads -> Seq(Items)]
          BY <4>6, EmptySeq
        <4> QED
          BY <4>2, <4>3, <4>5, <4>6, <4>7
      <3>3. CASE ~m_needStop /\ ~NotFull
        BY <2>1, <3>3 DEF add_sq
      <3> QED
        BY <3>1, <3>2, <3>3
    <2>2. CASE take_sq(t)
      <3>1. CASE ~m_needStop /\ NotEmpty
        <4>a. m_queue \in Seq(Items) /\ m_queue # <<>> /\ m_queue' = Tail(m_queue)
          BY <2>2, <3>1 DEF take_sq, NotEmpty
        <4>1. /\ m_queue' \in Seq(Items) /\ Len(m_queue') = Len(m_queue) - 1
              /\ Head(m_queue) \in Items
          BY <4>a, HeadTailProperties
        <4>2. Len(m_queue') <= m_maxSize
          BY <1>m, <4>1, LenProperties
        <4>3. NotifyOne(t, Putters) /\ at[t] \in Entries
          BY <2>2, <3>1 DEF take_sq
        <4>4. held' = [held EXCEPT ![t] = <<Head(m_queue)>>] /\ UNCHANGED m_needStop
          BY <2>2, <3>1 DEF take_sq
        <4>5. /\ at' \in [Threads -> Places]
              /\ \A u \in Threads : at'[u] \in {"put", "putWait"} =>
                   u # t /\ at[u] \in {"put", "putWait"}
          BY <4>3, NotifyOneMoves, EntryOfWaiting DEF At
        <4>6. held' \in [Threads -> Seq(Items)]
          BY <4>1, <4>4
        <4> QED
          BY <4>1, <4>2, <4>4, <4>5, <4>6
      <3>2. CASE m_needStop \/ ~NotEmpty
        BY <2>2, <3>2 DEF take_sq
      <3> QED
        BY <3>1, <3>2
    <2>3. CASE take_sq_list(t)
      <3>1. CASE ~m_needStop /\ NotEmpty
        <4>1. m_queue' = <<>> /\ <<>> \in Seq(Items) /\ Len(m_queue') = 0
          BY <2>3, <3>1, EmptySeq DEF take_sq_list
        <4>3. NotifyOne(t, Putters) /\ at[t] \in Entries
          BY <2>3, <3>1 DEF take_sq_list
        <4>4. held' = [held EXCEPT ![t] = m_queue] /\ UNCHANGED m_needStop
          BY <2>3, <3>1 DEF take_sq_list
        <4>5. /\ at' \in [Threads -> Places]
              /\ \A u \in Threads : at'[u] \in {"put", "putWait"} =>
                   u # t /\ at[u] \in {"put", "putWait"}
          BY <4>3, NotifyOneMoves, EntryOfWaiting DEF At
        <4>6. held' \in [Threads -> Seq(Items)]
          BY <4>4
        <4> QED
          BY <1>m, <4>1, <4>4, <4>5, <4>6
      <3>2. CASE m_needStop \/ ~NotEmpty
        BY <2>3, <3>2 DEF take_sq_list
      <3> QED
        BY <3>1, <3>2
    <2>4. CASE NotifyAllFull(t)
      BY <2>4, EntryOfWaiting DEF NotifyAllFull, NotifyAll
    <2>5. CASE NotifyAllEmpty(t)
      BY <2>5, EntryOfWaiting DEF NotifyAllEmpty, NotifyAll
    <2> QED
      BY <1>3, <2>1, <2>2, <2>3, <2>4, <2>5 DEF Proceeds
  <1>4. ASSUME NEW t \in Threads, SpuriousWakeup(t) PROVE TypeOK'
    BY <1>4, EntryOfWaiting DEF SpuriousWakeup
  <1> QED
    BY <1>1, <1>2, <1>3, <1>4 DEF Next

\* The queue keeps to its capacity and every thread to the places of its calls,
\* for every number of threads and every capacity.
THEOREM TypeCorrect == Spec => []TypeOK
  <1>1. Init => TypeOK
    BY InitType
  <1>2. TypeOK /\ [Next]_vars => TypeOK'
    BY NextType
  <1> QED
    BY <1>1, <1>2, PTL DEF Spec

\* What a step does to the queue is what the bounded channel does, or nothing.
LEMMA StepSends == TypeOK /\ [Next]_vars => [Channel!Next]_<<m_queue, m_needStop>>
  <1> SUFFICES ASSUME TypeOK, Next PROVE Channel!Next \/ UNCHANGED queueVars
    BY DEF vars, queueVars
  <1> USE DEF TypeOK
  <1>1. ASSUME NEW t \in Threads, Called(t)
        PROVE  Channel!Next \/ UNCHANGED queueVars
    <2>1. CASE stop_sq(t)
      BY <2>1 DEF stop_sq, Channel!Next, Channel!Stop
    <2>2. CASE ~stop_sq(t)
      BY <1>1, <2>2 DEF Called, PutCall, TakeCall, TakeListCall
    <2> QED
      BY <2>1, <2>2
  <1>2. ASSUME NEW t \in Threads, Proceeds(t)
        PROVE  Channel!Next \/ UNCHANGED queueVars
    <2>1. CASE add_sq(t)
      <3>1. CASE m_queue' = Append(m_queue, held[t][1]) /\ ~m_needStop /\ NotFull
        <4>1. held[t][1] \in Items
          BY <2>1, ElementOfSeq DEF add_sq
        <4>2. UNCHANGED m_needStop
          BY <2>1 DEF add_sq
        <4> QED
          BY <3>1, <4>1, <4>2 DEF NotFull, Channel!Next, Channel!Send
      <3> QED
        BY <2>1, <3>1 DEF add_sq
    <2>2. CASE take_sq(t)
      BY <2>2 DEF take_sq, NotEmpty, Channel!Next, Channel!Receive
    <2>3. CASE take_sq_list(t)
      BY <2>3 DEF take_sq_list, Channel!Next, Channel!ReceiveAll
    <2>4. CASE NotifyAllFull(t) \/ NotifyAllEmpty(t)
      BY <2>4 DEF NotifyAllFull, NotifyAllEmpty
    <2> QED
      BY <1>2, <2>1, <2>2, <2>3, <2>4 DEF Proceeds
  <1>3. ASSUME NEW t \in Threads, SpuriousWakeup(t)
        PROVE  UNCHANGED queueVars
    BY <1>3 DEF SpuriousWakeup
  <1> QED
    BY <1>1, <1>2, <1>3 DEF Next

\* SyncQueue implements the bounded channel: whatever the threads and the order
\* they get the mutex in, items are received in the order sent, within m_maxSize,
\* and none once the queue is stopped.
THEOREM Implements == Spec => ImplementsChannel
  <1>1. Init => Channel!Init
    BY DEF Init, Channel!Init
  <1>2. TypeOK /\ [Next]_vars => [Channel!Next]_<<m_queue, m_needStop>>
    BY StepSends
  <1> QED
    BY <1>1, <1>2, TypeCorrect, PTL DEF Spec, ImplementsChannel, Channel!Spec

-----------------------------------------------------------------------------
\* Every step keeps a waiting putter from being stranded.
LEMMA NextNotStranded == TypeOK /\ PuttersNotStranded /\ [Next]_vars => PuttersNotStranded'
  <1> SUFFICES ASSUME TypeOK, PuttersNotStranded, [Next]_vars,
                      ~m_needStop', m_maxSize > 0, At(Putters)' # {}
               PROVE  NotEmpty' \/ At({"put"})' # {}
    BY DEF PuttersNotStranded
  <1> USE DEF TypeOK
  <1>m. m_maxSize \in Nat
    BY QueueAssumption
  <1>k. ASSUME NEW t \in Threads, ~m_needStop, m_queue' = m_queue,
               at' = [at EXCEPT ![t] = at'[t]], at[t] # "put", at'[t] # "putWait"
        PROVE  NotEmpty' \/ At({"put"})' # {}
    BY <1>k DEF PuttersNotStranded, At, NotEmpty
  <1>1. CASE UNCHANGED vars
    BY <1>1 DEF PuttersNotStranded, At, NotEmpty
  <1>2. ASSUME NEW t \in Threads, Called(t)
        PROVE  NotEmpty' \/ At({"put"})' # {}
    <2>1. CASE stop_sq(t)
      BY <2>1 DEF stop_sq
    <2>2. CASE ~stop_sq(t)
      <3>1. /\ at' = [at EXCEPT ![t] = at'[t]] /\ at[t] = "out" /\ at'[t] \in Entries
            /\ m_queue' = m_queue /\ ~m_needStop
        BY <1>2, <2>2 DEF Called, PutCall, TakeCall, TakeListCall
      <3> QED
        BY <1>k, <3>1
    <2> QED
      BY <2>1, <2>2
  <1>3. ASSUME NEW t \in Threads, add_sq(t)
        PROVE  NotEmpty' \/ At({"put"})' # {}
    <2>1. ~m_needStop
      BY <1>3 DEF add_sq
    <2>2. CASE NotFull
      <3>1. held[t][1] \in Items /\ m_queue' = Append(m_queue, held[t][1])
        BY <1>3, <2>1, <2>2, ElementOfSeq DEF add_sq
      <3>2. Len(m_queue') = Len(m_queue) + 1 /\ Len(m_queue) \in Nat
        BY <3>1, AppendProperties, LenProperties
      <3> QED
        BY <3>2, EmptySeq DEF NotEmpty
    <2>3. CASE ~NotFull
      <3>1. m_queue' = m_queue /\ Len(m_queue) > 0
        BY <1>m, <1>3, <2>1, <2>3, LenProperties DEF add_sq, NotFull
      <3> QED
        BY <3>1, EmptySeq DEF NotEmpty
    <2> QED
      BY <2>2, <2>3
  <1>4. ASSUME NEW t \in Threads, take_sq(t) \/ take_sq_list(t)
        PROVE  NotEmpty' \/ At({"put"})' # {}
    <2>1. ~m_needStop /\ at[t] \in {"take", "takeList"}
      BY <1>4 DEF take_sq, take_sq_list
    <2>2. CASE NotEmpty
      <3>1. NotifyOne(t, Putters)
        BY <1>4, <2>1, <2>2 DEF take_sq, take_sq_list
      <3>2. CASE At(Putters) = {} /\ \A u \in Threads \ {t} : at'[u] = at[u]
        BY <2>1, <3>1, <3>2, NotifyOneMoves DEF At
      <3>3. CASE \E w \in At(Putters) : at'[w] = Entry(at[w])
        BY <3>3, EntryOfWaiting DEF At
      <3> QED
        BY <2>1, <3>1, <3>2, <3>3, NotifyOneMoves
    <2>3. CASE ~NotEmpty
      <3>1. /\ at' = [at EXCEPT ![t] = at'[t]] /\ at'[t] \in {"takeWait", "takeListWait"}
            /\ m_queue' = m_queue
        BY <1>4, <2>1, <2>3 DEF take_sq, take_sq_list
      <3> QED
        BY <1>k, <2>1, <3>1
    <2> QED
      BY <2>2, <2>3
  <1>5. ASSUME NEW t \in Threads, NotifyAllFull(t)
        PROVE  NotEmpty' \/ At({"put"})' # {}
    <2>1. At(Putters)' = {}
      BY <1>5, EntryOfWaiting DEF NotifyAllFull, NotifyAll, At
    <2> QED
      BY <2>1
  <1>6. ASSUME NEW t \in Threads, NotifyAllEmpty(t)
        PROVE  NotEmpty' \/ At({"put"})' # {}
    <2>1. /\ m_queue' = m_queue /\ ~m_needStop
          /\ \A u \in Threads : at'[u] \in {"putWait"} => at[u] = at'[u]
          /\ \A u \in Threads : at[u] = "put" => at'[u] = "put"
      BY <1>6, EntryOfWaiting DEF NotifyAllEmpty, NotifyAll
    <2> QED
      BY <2>1 DEF PuttersNotStranded, At, NotEmpty
  <1>7. ASSUME NEW t \in Threads, SpuriousWakeup(t)
        PROVE  NotEmpty' \/ At({"put"})' # {}
    <2>1. /\ at' = [at EXCEPT ![t] = at'[t]] /\ at[t] # "put" /\ at'[t] \in Entries
          /\ m_queue' = m_queue /\ ~m_needStop
      BY <1>7, EntryOfWaiting DEF SpuriousWakeup
    <2> QED
      BY <1>k, <2>1
  <1> QED
    BY <1>1, <1>2, <1>3, <1>4, <1>5, <1>6, <1>7 DEF Next, Proceeds

\* Taking the whole queue and notifying one putter strands no other one.
THEOREM NotStranded == Spec => []PuttersNotStranded
  <1>1. Init => PuttersNotStranded
    BY DEF Init, PuttersNotStranded, At
  <1>2. TypeOK /\ PuttersNotStranded /\ [Next]_vars => PuttersNotStranded'
    BY NextNotStranded
  <1> QED
    BY <1>1, <1>2, TypeCorrect, PTL DEF Spec

-----------------------------------------------------------------------------
\* The threads at a place can be counted.
LEMMA Countable ==
  ASSUME NEW S, S \subseteq Threads
  PROVE  IsFiniteSet(S) /\ Cardinality(S) \in Nat
  BY QueueAssumption, FS_Subset, FS_CardinalityType

\* Every step keeps a notification for every item while a taker waits.
LEMMA NextTakers == TypeOK /\ TakersNotified /\ [Next]_vars => TakersNotified'
  <1> DEFINE Coming == At({"take", "takeList"})
  <1> SUFFICES ASSUME TypeOK, TakersNotified, [Next]_vars, ~m_needStop', At(Takers)' # {}
               PROVE  Len(m_queue') <= Cardinality(Coming')
    BY DEF TakersNotified
  <1> USE DEF TypeOK
  <1>n. /\ IsFiniteSet(Coming) /\ Cardinality(Coming) \in Nat
        /\ IsFiniteSet(Coming') /\ Cardinality(Coming') \in Nat
    BY Countable DEF At
  <1>q. Len(m_queue) \in Nat
    BY LenProperties
  <1>k. ASSUME ~m_needStop, Len(m_queue') = Len(m_queue),
               \A u \in Threads : at[u] \in {"take", "takeList"} => at'[u] = at[u],
               \A u \in Threads : at'[u] \in Takers => at[u] = at'[u]
        PROVE  Len(m_queue') <= Cardinality(Coming')
    <2>1. Coming \subseteq Coming' /\ At(Takers) # {}
      BY <1>k DEF At
    <2>2. Cardinality(Coming) <= Cardinality(Coming')
      BY <1>n, <2>1, FS_Subset
    <2>3. Len(m_queue) <= Cardinality(Coming)
      BY <1>k, <2>1 DEF TakersNotified
    <2> QED
      BY <1>k, <1>n, <1>q, <2>2, <2>3
  <1>1. CASE UNCHANGED vars
    BY <1>1, <1>k
  <1>2. ASSUME NEW t \in Threads, Called(t)
        PROVE  Len(m_queue') <= Cardinality(Coming')
    <2>1. CASE stop_sq(t)
      BY <2>1 DEF stop_sq
    <2>2. CASE ~stop_sq(t)
      <3>1. /\ at' = [at EXCEPT ![t] = at'[t]] /\ at[t] = "out" /\ at'[t] \in Entries
            /\ m_queue' = m_queue /\ ~m_needStop
        BY <1>2, <2>2 DEF Called, PutCall, TakeCall, TakeListCall
      <3> QED
        BY <1>k, <3>1
    <2> QED
      BY <2>1, <2>2
  <1>3. ASSUME NEW t \in Threads, add_sq(t)
        PROVE  Len(m_queue') <= Cardinality(Coming')
    <2>1. ~m_needStop /\ at[t] = "put"
      BY <1>3 DEF add_sq
    <2>2. CASE NotFull
      <3>1. held[t][1] \in Items /\ m_queue' = Append(m_queue, held[t][1])
        BY <1>3, <2>1, <2>2, ElementOfSeq DEF add_sq
      <3>2. Len(m_queue') = Len(m_queue) + 1
        BY <3>1, AppendProperties
      <3>3. NotifyOne(t, Takers)
        BY <1>3, <2>1, <2>2 DEF add_sq, NotFull
      <3>4. at'[t] = "out"
        BY <2>1, <3>3, NotifyOneMoves
      <3>5. PICK w \in At(Takers) \ {t} :
              /\ at'[w] = Entry(at[w])
              /\ \A u \in Threads \ {t, w} : at'[u] = at[u]
        BY <2>1, <3>3, <3>4, NotifyOneMoves DEF At
      <3>6. Coming' = Coming \cup {w} /\ w \notin Coming
        BY <2>1, <3>4, <3>5, EntryOfWaiting DEF At
      <3>7. Cardinality(Coming') = Cardinality(Coming) + 1
        BY <1>n, <3>6, FS_AddElement
      <3>8. Len(m_queue) <= Cardinality(Coming)
        BY <2>1, <3>5 DEF TakersNotified
      <3> QED
        BY <1>n, <1>q, <3>2, <3>7, <3>8
    <2>3. CASE ~NotFull
      <3>1. /\ m_queue' = m_queue
            /\ at' = [at EXCEPT ![t] = "putWait"]
        BY <1>3, <2>1, <2>3 DEF add_sq
      <3> QED
        BY <1>k, <2>1, <3>1
    <2> QED
      BY <2>2, <2>3
  <1>4. ASSUME NEW t \in Threads, take_sq(t) \/ take_sq_list(t), ~NotEmpty
        PROVE  Len(m_queue') <= Cardinality(Coming')
    <2>1. m_queue' = <<>>
      BY <1>4 DEF take_sq, take_sq_list, NotEmpty
    <2> QED
      BY <1>n, <2>1, LenProperties, EmptySeq
  <1>5. ASSUME NEW t \in Threads, take_sq(t), NotEmpty
        PROVE  Len(m_queue') <= Cardinality(Coming')
    <2>1. /\ ~m_needStop /\ at[t] = "take" /\ m_queue # <<>> /\ m_queue \in Seq(Items)
          /\ m_queue' = Tail(m_queue) /\ NotifyOne(t, Putters)
      BY <1>5 DEF take_sq, NotEmpty
    <2>2. Len(m_queue') = Len(m_queue) - 1
      BY <2>1, HeadTailProperties
    <2>3. /\ \A u \in Threads : at'[u] \in Takers => at[u] = at'[u]
          /\ at'[t] = "out"
          /\ \A u \in Threads \ {t} :
               at'[u] \in {"take", "takeList"} <=> at[u] \in {"take", "takeList"}
      BY <2>1, NotifyOneMoves, EntryOfWaiting DEF At
    <2>4. Coming' = Coming \ {t} /\ t \in Coming /\ At(Takers) # {}
      BY <2>1, <2>3 DEF At
    <2>5. Cardinality(Coming') = Cardinality(Coming) - 1
      BY <1>n, <2>4, FS_RemoveElement
    <2>6. Len(m_queue) <= Cardinality(Coming)
      BY <2>1, <2>4 DEF TakersNotified
    <2> QED
      BY <1>n, <1>q, <2>2, <2>5, <2>6
  <1>6. ASSUME NEW t \in Threads, take_sq_list(t), NotEmpty
        PROVE  Len(m_queue') <= Cardinality(Coming')
    <2>1. m_queue' = <<>>
      BY <1>6 DEF take_sq_list
    <2> QED
      BY <1>n, <2>1, LenProperties, EmptySeq
  <1>7. ASSUME NEW t \in Threads, NotifyAllFull(t)
        PROVE  Len(m_queue') <= Cardinality(Coming')
    <2>1. /\ m_queue' = m_queue /\ ~m_needStop
          /\ \A u \in Threads : at[u] \in {"take", "takeList"} => at'[u] = at[u]
          /\ \A u \in Threads : at'[u] \in Takers => at[u] = at'[u]
      BY <1>7, EntryOfWaiting DEF NotifyAllFull, NotifyAll
    <2> QED
      BY <1>k, <2>1
  <1>8. ASSUME NEW t \in Threads, NotifyAllEmpty(t)
        PROVE  Len(m_queue') <= Cardinality(Coming')
    <2>1. At(Takers)' = {}
      BY <1>8, EntryOfWaiting DEF NotifyAllEmpty, NotifyAll, At
    <2> QED
      BY <2>1
  <1>9. ASSUME NEW t \in Threads, SpuriousWakeup(t)
        PROVE  Len(m_queue') <= Cardinality(Coming')
    <2>1. /\ at' = [at EXCEPT ![t] = at'[t]] /\ at[t] \in Waiting /\ at'[t] \in Entries
          /\ m_queue' = m_queue /\ ~m_needStop
      BY <1>9, EntryOfWaiting DEF SpuriousWakeup
    <2> QED
      BY <1>k, <2>1
  <1> QED
    BY <1>1, <1>2, <1>3, <1>4, <1>5, <1>6, <1>7, <1>8, <1>9 DEF Next, Proceeds

\* No notification for an item is lost, for every number of threads, capacity and
\* mix of calls, those that take the whole queue included.
THEOREM TakersAreNotified == Spec => []TakersNotified
  <1>1. Init => TakersNotified
    BY DEF Init, TakersNotified, At
  <1>2. TypeOK /\ TakersNotified /\ [Next]_vars => TakersNotified'
    BY NextTakers
  <1> QED
    BY <1>1, <1>2, TypeCorrect, PTL DEF Spec

-----------------------------------------------------------------------------
\* Without the calls that take the whole queue, no thread is in one.
OneAtATime == \A t \in Threads : at[t] \notin {"takeList", "takeListWait"}

\* Only the call itself brings a thread there.
LEMMA NextOneAtATime ==
  TypeOK /\ "takeList" \notin Calls /\ OneAtATime /\ [Next]_vars => OneAtATime'
  <1> SUFFICES ASSUME TypeOK, "takeList" \notin Calls, OneAtATime, [Next]_vars
               PROVE  OneAtATime'
    OBVIOUS
  <1> USE DEF TypeOK, OneAtATime
  <1>1. CASE UNCHANGED vars
    BY <1>1
  <1>2. ASSUME NEW t \in Threads, Called(t) PROVE OneAtATime'
    BY <1>2 DEF Called, PutCall, TakeCall, stop_sq
  <1>3. ASSUME NEW t \in Threads, Proceeds(t) PROVE OneAtATime'
    <2>1. ASSUME NEW waiting, waiting \in {Putters, Takers}, NotifyOne(t, waiting),
                 at[t] \in Entries
          PROVE  OneAtATime'
      BY <2>1, NotifyOneMoves, EntryOfWaiting DEF At
    <2>2. CASE add_sq(t)
      BY <2>1, <2>2 DEF add_sq
    <2>3. CASE take_sq(t)
      BY <2>1, <2>3 DEF take_sq
    <2>4. CASE NotifyAllFull(t) \/ NotifyAllEmpty(t)
      BY <2>4, EntryOfWaiting DEF NotifyAllFull, NotifyAllEmpty, NotifyAll
    <2> QED
      BY <1>3, <2>2, <2>3, <2>4 DEF Proceeds, take_sq_list
  <1>4. ASSUME NEW t \in Threads, SpuriousWakeup(t) PROVE OneAtATime'
    BY <1>4, EntryOfWaiting DEF SpuriousWakeup
  <1> QED
    BY <1>1, <1>2, <1>3, <1>4 DEF Next

\* Every step keeps a notification for every free place while a putter waits.
LEMMA NextPutters == TypeOK /\ OneAtATime /\ PuttersNotified /\ [Next]_vars => PuttersNotified'
  <1> DEFINE Coming == At({"put"})
  <1> SUFFICES ASSUME TypeOK, OneAtATime, PuttersNotified, [Next]_vars,
                      ~m_needStop', At(Putters)' # {}
               PROVE  m_maxSize - Len(m_queue') <= Cardinality(Coming')
    BY DEF PuttersNotified
  <1> USE DEF TypeOK
  <1>m. m_maxSize \in Nat
    BY QueueAssumption
  <1>n. /\ IsFiniteSet(Coming) /\ Cardinality(Coming) \in Nat
        /\ IsFiniteSet(Coming') /\ Cardinality(Coming') \in Nat
    BY Countable DEF At
  <1>q. Len(m_queue) \in Nat
    BY LenProperties
  <1>k. ASSUME ~m_needStop, Len(m_queue') = Len(m_queue),
               \A u \in Threads : at[u] = "put" => at'[u] = at[u],
               \A u \in Threads : at'[u] \in Putters => at[u] = at'[u]
        PROVE  m_maxSize - Len(m_queue') <= Cardinality(Coming')
    <2>1. Coming \subseteq Coming' /\ At(Putters) # {}
      BY <1>k DEF At
    <2>2. Cardinality(Coming) <= Cardinality(Coming')
      BY <1>n, <2>1, FS_Subset
    <2>3. m_maxSize - Len(m_queue) <= Cardinality(Coming)
      BY <1>k, <2>1 DEF PuttersNotified
    <2> QED
      BY <1>k, <1>m, <1>n, <1>q, <2>2, <2>3
  <1>1. CASE UNCHANGED vars
    BY <1>1, <1>k
  <1>2. ASSUME NEW t \in Threads, Called(t)
        PROVE  m_maxSize - Len(m_queue') <= Cardinality(Coming')
    <2>1. CASE stop_sq(t)
      BY <2>1 DEF stop_sq
    <2>2. CASE ~stop_sq(t)
      <3>1. /\ at' = [at EXCEPT ![t] = at'[t]] /\ at[t] = "out" /\ at'[t] \in Entries
            /\ m_queue' = m_queue /\ ~m_needStop
        BY <1>2, <2>2 DEF Called, PutCall, TakeCall, TakeListCall
      <3> QED
        BY <1>k, <3>1
    <2> QED
      BY <2>1, <2>2
  <1>3. ASSUME NEW t \in Threads, add_sq(t), ~NotFull
        PROVE  m_maxSize - Len(m_queue') <= Cardinality(Coming')
    <2>1. m_queue' = m_queue /\ m_maxSize - Len(m_queue) <= 0
      BY <1>3, <1>m, <1>q DEF add_sq, NotFull
    <2> QED
      BY <1>m, <1>n, <1>q, <2>1
  <1>4. ASSUME NEW t \in Threads, add_sq(t), NotFull
        PROVE  m_maxSize - Len(m_queue') <= Cardinality(Coming')
    <2>1. /\ ~m_needStop /\ at[t] = "put" /\ held[t][1] \in Items
          /\ m_queue' = Append(m_queue, held[t][1]) /\ NotifyOne(t, Takers)
      BY <1>4, ElementOfSeq DEF add_sq
    <2>2. Len(m_queue') = Len(m_queue) + 1
      BY <2>1, AppendProperties
    <2>3. /\ \A u \in Threads : at'[u] \in Putters => at[u] = at'[u]
          /\ at'[t] = "out"
          /\ \A u \in Threads \ {t} : at'[u] = "put" <=> at[u] = "put"
      BY <2>1, NotifyOneMoves, EntryOfWaiting DEF At
    <2>4. Coming' = Coming \ {t} /\ t \in Coming /\ At(Putters) # {}
      BY <2>1, <2>3 DEF At
    <2>5. Cardinality(Coming') = Cardinality(Coming) - 1
      BY <1>n, <2>4, FS_RemoveElement
    <2>6. m_maxSize - Len(m_queue) <= Cardinality(Coming)
      BY <2>1, <2>4 DEF PuttersNotified
    <2> QED
      BY <1>m, <1>n, <1>q, <2>2, <2>5, <2>6
  <1>5. ASSUME NEW t \in Threads, take_sq(t), ~NotEmpty
        PROVE  m_maxSize - Len(m_queue') <= Cardinality(Coming')
    <2>1. m_queue' = m_queue /\ at' = [at EXCEPT ![t] = "takeWait"] /\ ~m_needStop
          /\ at[t] = "take"
      BY <1>5 DEF take_sq
    <2> QED
      BY <1>k, <2>1
  <1>6. ASSUME NEW t \in Threads, take_sq(t), NotEmpty
        PROVE  m_maxSize - Len(m_queue') <= Cardinality(Coming')
    <2>1. /\ ~m_needStop /\ at[t] = "take" /\ m_queue # <<>> /\ m_queue \in Seq(Items)
          /\ m_queue' = Tail(m_queue) /\ NotifyOne(t, Putters)
      BY <1>6 DEF take_sq, NotEmpty
    <2>2. Len(m_queue') = Len(m_queue) - 1
      BY <2>1, HeadTailProperties
    <2>3. at'[t] = "out"
      BY <2>1, NotifyOneMoves
    <2>4. PICK w \in At(Putters) \ {t} :
            /\ at'[w] = Entry(at[w])
            /\ \A u \in Threads \ {t, w} : at'[u] = at[u]
      BY <2>1, <2>3, NotifyOneMoves DEF At
    <2>5. Coming' = Coming \cup {w} /\ w \notin Coming
      BY <2>1, <2>3, <2>4, EntryOfWaiting DEF At
    <2>6. Cardinality(Coming') = Cardinality(Coming) + 1
      BY <1>n, <2>5, FS_AddElement
    <2>7. m_maxSize - Len(m_queue) <= Cardinality(Coming)
      BY <2>1, <2>4 DEF PuttersNotified
    <2> QED
      BY <1>m, <1>n, <1>q, <2>2, <2>6, <2>7
  <1>7. ASSUME NEW t \in Threads, take_sq_list(t) PROVE FALSE
    BY <1>7 DEF take_sq_list, OneAtATime
  <1>8. ASSUME NEW t \in Threads, NotifyAllFull(t)
        PROVE  m_maxSize - Len(m_queue') <= Cardinality(Coming')
    <2>1. At(Putters)' = {}
      BY <1>8, EntryOfWaiting DEF NotifyAllFull, NotifyAll, At
    <2> QED
      BY <2>1
  <1>9. ASSUME NEW t \in Threads, NotifyAllEmpty(t)
        PROVE  m_maxSize - Len(m_queue') <= Cardinality(Coming')
    <2>1. /\ m_queue' = m_queue /\ ~m_needStop
          /\ \A u \in Threads : at[u] = "put" => at'[u] = at[u]
          /\ \A u \in Threads : at'[u] \in Putters => at[u] = at'[u]
      BY <1>9, EntryOfWaiting DEF NotifyAllEmpty, NotifyAll
    <2> QED
      BY <1>k, <2>1
  <1>10. ASSUME NEW t \in Threads, SpuriousWakeup(t)
        PROVE  m_maxSize - Len(m_queue') <= Cardinality(Coming')
    <2>1. /\ at' = [at EXCEPT ![t] = at'[t]] /\ at[t] \in Waiting /\ at'[t] \in Entries
          /\ m_queue' = m_queue /\ ~m_needStop
      BY <1>10, EntryOfWaiting DEF SpuriousWakeup
    <2> QED
      BY <1>k, <2>1
  <1> QED
    BY <1>1, <1>2, <1>3, <1>4, <1>5, <1>6, <1>7, <1>8, <1>9, <1>10 DEF Next, Proceeds

\* No notification for a free place is lost as long as items are taken one at a
\* time, for every number of threads and every capacity.
THEOREM PuttersAreNotified == Spec /\ "takeList" \notin Calls => []PuttersNotified
  <1> SUFFICES ASSUME "takeList" \notin Calls PROVE Spec => []PuttersNotified
    OBVIOUS
  <1>1. Init => OneAtATime /\ PuttersNotified
    BY DEF Init, OneAtATime, PuttersNotified, At
  <1>2. TypeOK /\ OneAtATime /\ PuttersNotified /\ [Next]_vars
          => OneAtATime' /\ PuttersNotified'
    BY NextOneAtATime, NextPutters
  <1> QED
    BY <1>1, <1>2, TypeCorrect, PTL DEF Spec

-----------------------------------------------------------------------------
\* Every step keeps a notify_all coming for who still waits at a stopped queue.
LEMMA NextReleased == TypeOK /\ WaitersReleased /\ [Next]_vars => WaitersReleased'
  <1> SUFFICES ASSUME TypeOK, WaitersReleased, [Next]_vars, m_needStop'
               PROVE  /\ At(Putters)' # {} => At({"notifyFull"})' # {}
                      /\ At(Takers)' # {} => At({"notifyFull", "notifyEmpty"})' # {}
    BY DEF WaitersReleased
  <1> USE DEF TypeOK
  <1> DEFINE Released == /\ At(Putters)' # {} => At({"notifyFull"})' # {}
                         /\ At(Takers)' # {} => At({"notifyFull", "notifyEmpty"})' # {}
  <1>k. ASSUME m_needStop,
               \A u \in Threads : at'[u] \in Waiting => at[u] = at'[u],
               \A u \in Threads : at[u] \in {"notifyFull", "notifyEmpty"} => at[u] = at'[u]
        PROVE  Released
    BY <1>k DEF WaitersReleased, At
  <1>1. CASE UNCHANGED vars
    BY <1>1, <1>k
  <1>2. ASSUME NEW t \in Threads, Called(t) PROVE Released
    <2>1. CASE stop_sq(t)
      BY <2>1 DEF stop_sq, At
    <2>2. CASE ~stop_sq(t)
      <3>1. /\ at' = [at EXCEPT ![t] = at'[t]] /\ at[t] = "out" /\ at'[t] \in Entries
            /\ m_needStop
        BY <1>2, <2>2 DEF Called, PutCall, TakeCall, TakeListCall
      <3> QED
        BY <1>k, <3>1
    <2> QED
      BY <2>1, <2>2
  <1>3. ASSUME NEW t \in Threads, add_sq(t) \/ take_sq(t) \/ take_sq_list(t)
        PROVE  Released
    <2>1. m_needStop /\ at[t] \in Entries /\ at' = [at EXCEPT ![t] = "out"]
      BY <1>3 DEF add_sq, take_sq, take_sq_list
    <2> QED
      BY <1>k, <2>1
  <1>4. ASSUME NEW t \in Threads, NotifyAllFull(t) PROVE Released
    <2>1. At(Putters)' = {} /\ at'[t] = "notifyEmpty"
      BY <1>4, EntryOfWaiting DEF NotifyAllFull, NotifyAll, At
    <2> QED
      BY <2>1 DEF At
  <1>5. ASSUME NEW t \in Threads, NotifyAllEmpty(t) PROVE Released
    <2>1. /\ At(Takers)' = {} /\ m_needStop
          /\ \A u \in Threads : at'[u] \in Putters => at[u] = at'[u]
          /\ \A u \in Threads : at[u] = "notifyFull" => at'[u] = at[u]
      BY <1>5, EntryOfWaiting DEF NotifyAllEmpty, NotifyAll, At
    <2> QED
      BY <2>1 DEF At, WaitersReleased
  <1>6. ASSUME NEW t \in Threads, SpuriousWakeup(t) PROVE Released
    <2>1. /\ at' = [at EXCEPT ![t] = at'[t]] /\ at[t] \in Waiting /\ at'[t] \in Entries
          /\ m_needStop
      BY <1>6, EntryOfWaiting DEF SpuriousWakeup
    <2> QED
      BY <1>k, <2>1
  <1> QED
    BY <1>1, <1>2, <1>3, <1>4, <1>5, <1>6 DEF Next, Proceeds

\* A thread that waits at a stopped queue has its notify_all coming: stop_sq loses
\* no waiter, however the stop races with threads about to wait.
THEOREM WaitersAreReleased == Spec => []WaitersReleased
  <1>1. Init => WaitersReleased
    BY DEF Init, WaitersReleased, At
  <1>2. TypeOK /\ WaitersReleased /\ [Next]_vars => WaitersReleased'
    BY NextReleased
  <1> QED
    BY <1>1, <1>2, TypeCorrect, PTL DEF Spec
=============================================================================
