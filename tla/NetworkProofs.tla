------------------------------ MODULE NetworkProofs ------------------------------
(***************************************************************************)
(* The thread class, and the two programs over it: JoinWaits in both, the *)
(* types of the pusher, and TableFaithful, WriteKeepsItsClient and         *)
(* ClosedForAReason of the server; for every set of threads, and every     *)
(* number of descriptors, slots, clients and users.                        *)
(*                                                                         *)
(* JoinWaits speaks of the threads in ThreadProc. What makes it hold is    *)
(* about the threads up to the moment they clear tid: as long as no start  *)
(* came over a stop that had not waited, such a thread is the one in tid,  *)
(* and the one a join waits for.                                           *)
(*                                                                         *)
(* The properties of the server speak of the table; what makes them hold   *)
(* is spread over the descriptors, the places of the thread and the lock,  *)
(* and over restarts: StartSocket and CloseTCPSocket touch the table       *)
(* without looking, and are safe because the join of StopSocket leaves no  *)
(* thread in ThreadProc.                                                   *)
(***************************************************************************)
EXTENDS TcpServer, PushStream, TLAPS

Live == {t \in Threads : at[t] \in {"created", "body", "returned", "reported"}}

ThreadInv ==
  /\ ThreadTypeOK
  /\ waiting # "lost" =>
       /\ \A t \in Live : tid = t
       /\ owner \in {"joinRead", "joining"} => \A t \in Live : joinee = t
  /\ waiting = "done" /\ ~bRun => Live = {}

\* An assert ends the program.
Aborts == owner' = "crashed" /\ UNCHANGED <<threadFields, at, joinee, waiting>>

\* What a step of either program does to the thread object.
ThreadNext ==
  \/ startFails \/ stop \/ stopTimed \/ asyncStop \/ waitAsyn \/ OwnerStep \/ Aborts
  \/ \E t \in Threads :
       start(t) \/ run1(t) \/ Run1(t) \/ ThreadProcReturns(t) \/ ThreadLeaves(t)

\* At the start the object is idle and nobody waits for it.
LEMMA ThreadInitInv == ThreadInit => ThreadInv
  BY DEF ThreadInit, ThreadInv, ThreadTypeOK, Live, ThreadPlaces, OwnerPlaces

\* The invariant gives the property.
LEMMA ThreadInvGives == ThreadInv => JoinWaits
  BY DEF ThreadInv, JoinWaits, Busy, Live

\* Every step of the thread or of its owner keeps the invariant.
LEMMA ThreadNextInv == ThreadInv /\ [ThreadNext]_threadVars => ThreadInv'
  <1> SUFFICES ASSUME ThreadInv, [ThreadNext]_threadVars PROVE ThreadInv'
    OBVIOUS
  <1> USE ThreadAssumption
       DEF ThreadInv, ThreadTypeOK, Live, ThreadPlaces, OwnerPlaces, threadVars, threadFields
  <1>1. CASE UNCHANGED threadVars  BY <1>1
  <1>2. CASE startFails  BY <1>2 DEF startFails
  <1>3. CASE stop \/ stopTimed \/ asyncStop
    BY <1>3 DEF stop, stopTimed, asyncStop, stopTo
  <1>4. CASE waitAsyn  BY <1>4 DEF waitAsyn
  <1>5. CASE JoinTest  BY <1>5 DEF JoinTest, Waited
  <1>6. CASE JoinRead  BY <1>6 DEF JoinRead
  <1>7. CASE JoinReturns  BY <1>7 DEF JoinReturns, Waited
  <1>8. CASE TimedJoinTest  BY <1>8 DEF TimedJoinTest
  <1>9. CASE PollEnds  BY <1>9 DEF PollEnds
  <1>10. CASE Aborts  BY <1>10 DEF Aborts
  <1>11. ASSUME NEW t \in Threads, start(t) PROVE ThreadInv'  BY <1>11 DEF start
  <1>12. ASSUME NEW t \in Threads, run1(t) \/ Run1(t) PROVE ThreadInv'
    BY <1>12 DEF run1, Run1, Begins, BeginsWith
  <1>13. ASSUME NEW t \in Threads, ThreadProcReturns(t) PROVE ThreadInv'
    BY <1>13 DEF ThreadProcReturns
  <1>14. ASSUME NEW t \in Threads, run1Reports(t) PROVE ThreadInv'  BY <1>14 DEF run1Reports
  <1>15. ASSUME NEW t \in Threads, run1Leaves(t) PROVE ThreadInv'  BY <1>15 DEF run1Leaves
  <1>16. ASSUME NEW t \in Threads, pthread_exit(t) PROVE ThreadInv'  BY <1>16 DEF pthread_exit
  <1> QED
    BY <1>1, <1>2, <1>3, <1>4, <1>5, <1>6, <1>7, <1>8, <1>9, <1>10, <1>11, <1>12, <1>13, <1>14,
       <1>15, <1>16 DEF ThreadNext, OwnerStep, ThreadLeaves
-----------------------------------------------------------------------------
\* A step of the server is one of the thread object's, or leaves it alone.
LEMMA TcpThreadSteps == TcpNext => [ThreadNext]_threadVars
  <1> SUFFICES ASSUME TcpNext PROVE [ThreadNext]_threadVars
    OBVIOUS
  <1> USE DEF threadVars, threadFields
  <1>1. CASE StartSocket  BY <1>1 DEF StartSocket, ThreadNext
  <1>2. CASE StopSocket  BY <1>2 DEF StopSocket, ThreadNext
  <1>3. CASE ServerStep
    <2>1. owner' = owner \/ owner' = "crashed"
      BY <1>3 DEF ServerStep, ServeLoop, WaitListenEvent, Place, PlaceIn, ClearSlot, ClearTo, Sweep, SweepOf
    <2> QED  BY <1>3, <2>1 DEF ServerStep, ThreadNext, Aborts
  <1>4. CASE CloseTCPSocket \/ PeerStep  BY <1>4 DEF CloseTCPSocket, PeerStep
  <1>5. CASE TcpOwnerStep  BY <1>5 DEF TcpOwnerStep, TcpOwner, ThreadNext, OwnerStep
  <1>6. ASSUME NEW t \in Threads, TcpThreadStep(t) PROVE ThreadNext
    BY <1>6 DEF TcpThreadStep, TcpThread, ThreadNext
  <1>7. ASSUME NEW u \in Users, UserWorks(u) PROVE ThreadNext \/ UNCHANGED threadVars
    <2>1. owner' = owner \/ owner' = "crashed"
      BY <1>7 DEF UserWorks, SendSessionData, WritesWith, Sent, DeleteSession
    <2> QED  BY <1>7, <2>1 DEF UserWorks, TheRest, ThreadNext, Aborts
  <1>8. CASE UserCalls  BY <1>8 DEF UserCalls, Call, TheRest
  <1> QED
    BY <1>1, <1>2, <1>3, <1>4, <1>5, <1>6, <1>7, <1>8 DEF TcpNext, TcpOthers

\* A step of the pusher is one of the thread object's, or leaves it alone.
LEMMA PushThreadSteps == PushNext => [ThreadNext]_threadVars
  <1> SUFFICES ASSUME PushNext PROVE [ThreadNext]_threadVars
    OBVIOUS
  <1>1. CASE InitService  BY <1>1 DEF InitService, ThreadNext
  <1>2. CASE OwnerStops \/ PushOwnerStep
    BY <1>2 DEF OwnerStops, PushOwnerStep, ThreadNext
  <1>3. ASSUME NEW t \in Threads, PushThread(t) PROVE ThreadNext \/ UNCHANGED threadVars
    BY <1>3 DEF PushThread, PlayStep, ThreadNext
  <1> QED  BY <1>1, <1>2, <1>3 DEF PushNext

\* In the server and in the pusher a stop that waited leaves no thread in ThreadProc, unless the
\* object had been started over one that had not.
THEOREM TcpJoinWaits == TcpSpec => []JoinWaits
  <1>1. TcpInit => ThreadInv  BY ThreadInitInv DEF TcpInit
  <1>2. ThreadInv /\ [TcpNext]_<<threadVars, tcpVars>> => ThreadInv'
    <2>1. [TcpNext]_<<threadVars, tcpVars>> => [ThreadNext]_threadVars
      BY TcpThreadSteps
    <2> QED  BY <2>1, ThreadNextInv
  <1> QED  BY <1>1, <1>2, ThreadInvGives, PTL DEF TcpSpec

\* The same for the join of BaseThread, under a MediaPlay (BaseThread.cpp:118-123).
THEOREM PushJoinWaits == PushSpec => []JoinWaits
  <1>1. PushInit => ThreadInv  BY ThreadInitInv DEF PushInit
  <1>2. ThreadInv /\ [PushNext]_<<threadVars, pushVars>> => ThreadInv'
    <2>1. [PushNext]_<<threadVars, pushVars>> => [ThreadNext]_threadVars
      BY PushThreadSteps
    <2> QED  BY <2>1, ThreadNextInv
  <1> QED  BY <1>1, <1>2, ThreadInvGives, PTL DEF PushSpec
-----------------------------------------------------------------------------
\* Before InitService there is no file and no play.
LEMMA PushInitInv == PushInit => PushTypeOK
  <1> SUFFICES ASSUME PushInit PROVE PushTypeOK
    OBVIOUS
  <1>1. mPathName = "" /\ inits = 0 /\ taken = TRUE
        /\ play = [t \in Threads |-> "loop"] /\ name = [t \in Threads |-> mPathName]
    BY DEF PushInit
  <1>2. 0 \in 0 .. MaxInits  BY ONLY PushAssumption
  <1> QED  BY <1>1, <1>2 DEF PushTypeOK, PlayPlaces

\* Going on in a play keeps the types.
LEMMA PlayGoesOn ==
  ASSUME PushTypeOK, NEW t \in Threads, NEW from, NEW to \in PlayPlaces, Goes(t, from, to),
         name' = name \/ name' = [name EXCEPT ![t] = mPathName], taken' \in BOOLEAN,
         UNCHANGED <<mPathName, inits>>
  PROVE  PushTypeOK'
  <1>1. play' \in [Threads -> PlayPlaces] /\ name' \in [Threads -> Names \cup {""}]
    BY DEF PushTypeOK, Goes
  <1> QED  BY <1>1 DEF PushTypeOK

\* So does every step of the pusher.
LEMMA PushNextInv == PushTypeOK /\ [PushNext]_<<threadVars, pushVars>> => PushTypeOK'
  <1> SUFFICES ASSUME PushTypeOK, [PushNext]_<<threadVars, pushVars>> PROVE PushTypeOK'
    OBVIOUS
  <1>1. CASE UNCHANGED pushVars  BY <1>1 DEF pushVars, PushTypeOK
  <1>2. CASE InitService
    <2>1. inits' = inits + 1 /\ inits < MaxInits /\ mPathName' \in Names /\ taken' = FALSE
          /\ UNCHANGED <<play, name>>
      BY <1>2 DEF InitService
    <2>2. inits \in 0 .. MaxInits  BY DEF PushTypeOK
    <2>3. inits' \in 0 .. MaxInits  BY ONLY <2>1, <2>2, PushAssumption
    <2> QED  BY <2>1, <2>3 DEF PushTypeOK
  <1>3. ASSUME NEW t \in Threads, PlayStep(t) PROVE PushTypeOK'
    <2> USE DEF PlayPlaces
    <2>1. taken \in BOOLEAN  BY DEF PushTypeOK
    <2>2. CASE PlayCalled(t)  BY <2>1, <2>2, PlayGoesOn DEF PlayCalled, CallsWith
    <2>3. CASE OpenInput(t)
      <3>1. taken' \in BOOLEAN /\ UNCHANGED <<mPathName, name, inits>>  BY <2>3 DEF OpenInput
      <3>2. \E to \in {"info", "end"} : Goes(t, "open", to)  BY <2>3 DEF OpenInput
      <3> QED  BY <3>1, <3>2, PlayGoesOn
    <2>4. CASE OpenStreams(t)
      <3>1. PICK from \in PlayPlaces, to \in PlayPlaces : Goes(t, from, to)
        BY <2>4 DEF OpenStreams
      <3> QED  BY <2>1, <2>4, <3>1, PlayGoesOn DEF OpenStreams
    <2>5. CASE PacketsEnd(t)  BY <2>1, <2>5, PlayGoesOn DEF PacketsEnd
    <2>6. CASE PlayEnds(t)  BY <2>1, <2>6, PlayGoesOn DEF PlayEnds
    <2>7. CASE Pause(t)  BY <2>1, <2>7, PlayGoesOn DEF Pause
    <2> QED  BY <1>3, <2>2, <2>3, <2>4, <2>5, <2>6, <2>7 DEF PlayStep
  <1>4. ASSUME NEW t \in Threads, PushThread(t) PROVE PushTypeOK'
    BY <1>1, <1>3, <1>4 DEF PushThread
  <1>5. CASE OwnerStops \/ PushOwnerStep  BY <1>1, <1>5 DEF OwnerStops, PushOwnerStep
  <1>6. CASE UNCHANGED <<threadVars, pushVars>>  BY <1>1, <1>6
  <1> QED  BY <1>2, <1>4, <1>5, <1>6 DEF PushNext
-----------------------------------------------------------------------------
(* The table of the server.                                                *)


vars == <<threadVars, tcpVars>>

\* The slot whose descriptor is closed, and not yet cleared.
Clearing(s) == pc = "clear" /\ local = s

\* The socket object and its thread: closed and started only without one.
LifeInv ==
  /\ ThreadInv /\ waiting # "lost"
  /\ socket # "stopping" => waiting = "done" /\ owner \in {"idle", "crashed"}
  /\ socket = "stopping" => ~bRun /\ (owner = "idle" => waiting = "done")
  /\ socket = "down" => ~bRun /\ watched = {}

PlaceInv ==
  /\ pc # "loop" => Serving
  /\ pc \notin {"place", "clear"} => local = -1
  /\ pc = "place" =>
       /\ local \in Fds /\ fds[local] \in Clients
       /\ \A s \in Slots : iSocketFd[s] # local
  /\ pc = "clear" => local \in Slots /\ iSocketFd[local] \in Fds /\ fds[iSocketFd[local]] = NoOne

TableInv ==
  /\ \A s \in Slots : iSocketFd[s] > 0 =>
       /\ iSocketFd[s] \in Fds /\ session[s] \in Clients
       /\ ~Clearing(s) => fds[iSocketFd[s]] = session[s]
       /\ \A r \in Slots : iSocketFd[r] = iSocketFd[s] => r = s
  /\ \A f \in watched : \E s \in Slots : iSocketFd[s] = f /\ ~Clearing(s)

\* A client has one descriptor, and none before it is accepted.
FdInv ==
  /\ \A f, g \in Fds : fds[f] = fds[g] /\ fds[f] \in Clients => f = g
  /\ \A c \in Clients : peer[c] \in {"away", "queued"} => \A f \in Fds : fds[f] # c

MarkInv == \A s \in Slots : s \in Marked /\ ~Clearing(s) => session[s] \in doomed

\* A descriptor closed under a user that writes is not given out: the thread waits for the lock.
LockInv ==
  \A u \in Users : user[u].at = "locked" =>
    /\ holder = u /\ user[u].fd \in Fds /\ user[u].to \in Clients
    /\ \/ fds[user[u].fd] = user[u].to
       \/ fds[user[u].fd] = NoOne /\ pc \in {"clear", "sweep"}

TcpInv == TypeOK /\ LifeInv /\ PlaceInv /\ TableInv /\ FdInv /\ MarkInv /\ LockInv
-----------------------------------------------------------------------------
\* Before StartSocket the table is empty and no client is known.
LEMMA TcpInitInv == TcpInit => TcpInv
  <1> SUFFICES ASSUME TcpInit PROVE TcpInv
    OBVIOUS
  <1> USE TcpAssumption DEF TcpInit, Slots
  <1>1. ThreadInv /\ waiting # "lost"  BY ThreadInitInv DEF ThreadInit
  <1>2. TypeOK  BY <1>1 DEF TypeOK, ThreadInv, ServerPlaces, PeerStates, Idle
  <1>3. LifeInv /\ PlaceInv  BY <1>1 DEF LifeInv, PlaceInv, ThreadInit
  <1>4. TableInv /\ MarkInv /\ LockInv  BY DEF TableInv, MarkInv, Marked, LockInv, Idle
  <1>5. FdInv
    <2>1. \A f \in Fds : fds[f] \notin Clients  OBVIOUS
    <2> QED  BY <2>1 DEF FdInv
  <1> QED  BY <1>2, <1>3, <1>4, <1>5 DEF TcpInv

\* A client that connects, speaks or leaves changes nothing the server remembers of it.
LEMMA PeerStepInv == TcpInv /\ PeerStep => TcpInv'
  <1> SUFFICES ASSUME TcpInv, PeerStep PROVE TcpInv'
    OBVIOUS
  <1>1. PICK c \in Clients : Connect(c) \/ Speak(c)  BY DEF PeerStep
  <1> USE DEF PeerStep, TcpInv, tableVars, procVars, userVars, historyVars, Slots
  <1>2. TypeOK'  BY <1>1 DEF TypeOK, PeerStates, Connect, Speak, ThreadTypeOK, threadVars, threadFields
  <1>3. LifeInv' /\ PlaceInv'
    BY DEF LifeInv, PlaceInv, Serving, ThreadInv, ThreadTypeOK, Live, threadVars, threadFields
  <1>4. TableInv' /\ MarkInv' /\ LockInv'  BY DEF TableInv, MarkInv, LockInv, Marked, Clearing
  <1>5. FdInv'  BY <1>1 DEF FdInv, Connect, Speak, TypeOK
  <1> QED  BY <1>2, <1>3, <1>4, <1>5

\* The threads' part of the invariant is that of ThreadProofs.
LEMMA TcpLife == TcpInv /\ TcpNext => ThreadInv'
  BY TcpThreadSteps, ThreadNextInv DEF TcpInv, LifeInv

\* Without a thread in ThreadProc the table is nobody's: no descriptor is in transit.
LEMMA DownIsQuiet ==
  ASSUME TcpInv, waiting = "done", ~bRun
  PROVE ~Serving /\ pc = "loop" /\ local = -1
  BY DEF TcpInv, LifeInv, PlaceInv, Serving, ThreadInv, Live

\* StartSocket finds the table of a server without thread.
LEMMA StartSocketInv == TcpInv /\ ThreadInv' /\ StartSocket => TcpInv'
  <1> SUFFICES ASSUME TcpInv, ThreadInv', StartSocket PROVE TcpInv'
    OBVIOUS
  <1> USE DEF StartSocket, TcpInv, worldVars, userVars, Slots
  <1>1. ~Serving /\ pc = "loop" /\ local = -1  BY DownIsQuiet DEF LifeInv
  <1>2. TypeOK'  BY DEF TypeOK, ServerPlaces, ThreadInv
  <1>3. LifeInv'
    BY DEF LifeInv, start, startFails, threadFields
  <1>4. PlaceInv' /\ TableInv' /\ MarkInv'
    BY <1>1 DEF PlaceInv, TableInv, MarkInv, Marked, LifeInv
  <1>5. FdInv' /\ LockInv'  BY <1>1 DEF FdInv, LockInv
  <1> QED  BY <1>2, <1>3, <1>4, <1>5

\* StopSocket only asks the thread to leave, and waits.
LEMMA StopSocketInv == TcpInv /\ ThreadInv' /\ StopSocket => TcpInv'
  <1> SUFFICES ASSUME TcpInv, ThreadInv', StopSocket PROVE TcpInv'
    OBVIOUS
  <1> USE DEF StopSocket, stop, stopTo, TcpInv, tableVars, worldVars, userVars, historyVars, Slots
  <1>1. TypeOK'  BY DEF TypeOK, ThreadInv
  <1>2. LifeInv' /\ PlaceInv'  BY DEF LifeInv, PlaceInv, Serving
  <1>3. TableInv' /\ MarkInv' /\ FdInv' /\ LockInv'
    BY DEF TableInv, MarkInv, Marked, Clearing, FdInv, LockInv
  <1> QED  BY <1>1, <1>2, <1>3

\* CloseTCPSocket clears the table of a server whose thread has left.
LEMMA CloseTCPSocketInv == TcpInv /\ ThreadInv' /\ CloseTCPSocket => TcpInv'
  <1> SUFFICES ASSUME TcpInv, ThreadInv', CloseTCPSocket PROVE TcpInv'
    OBVIOUS
  <1> USE TcpAssumption DEF CloseTCPSocket, TcpInv, userVars, threadVars, threadFields, Slots, Marked
  <1>1. ~Serving /\ pc = "loop" /\ local = -1  BY DownIsQuiet DEF LifeInv
  <1>2. TypeOK'  BY DEF TypeOK, ThreadInv, PeerStates
  <1>3. LifeInv' /\ PlaceInv'  BY <1>1 DEF LifeInv, PlaceInv
  <1>4. TableInv'  BY <1>1, <1>2 DEF TableInv, TypeOK, Clearing
  <1>5. MarkInv'  BY <1>1 DEF MarkInv, TypeOK, Clearing
  <1>6. FdInv'  BY DEF FdInv, TypeOK
  <1>7. LockInv'
    <2>1. \A u \in Users : user[u].at # "locked"  BY DEF LockInv
    <2> QED  BY <2>1 DEF LockInv
  <1> QED  BY <1>2, <1>3, <1>4, <1>5, <1>6, <1>7

\* The steps of the thread object, which leave the table alone.
LEMMA LifeStepsInv ==
  ASSUME TcpInv, ThreadInv', UNCHANGED tcpVars, TcpOwner \/ \E t \in Threads : TcpThread(t)
  PROVE TcpInv'
  <1> USE DEF TcpInv, tcpVars, tableVars, procVars, worldVars, userVars, historyVars, Slots
  <1>1. TypeOK'  BY DEF TypeOK, ThreadInv
  <1>2. TableInv' /\ MarkInv' /\ FdInv' /\ LockInv'
    BY DEF TableInv, MarkInv, Marked, Clearing, FdInv, LockInv
  <1>3. CASE TcpOwner
    <2>1. LifeInv'
      BY <1>3 DEF LifeInv, TcpOwner, JoinTest, JoinRead, JoinReturns, Waited, threadFields, ThreadInv,
                  ThreadTypeOK
    <2>2. PlaceInv'  BY <1>3 DEF PlaceInv, Serving, TcpOwner, JoinTest, JoinRead, JoinReturns
    <2> QED  BY <1>1, <1>2, <2>1, <2>2
  <1>4. ASSUME NEW t \in Threads, TcpThread(t) PROVE TcpInv'
    <2> USE DEF TcpThread, run1, Begins, BeginsWith, ThreadLeaves, run1Reports, run1Leaves, pthread_exit,
                ThreadProcReturns, threadFields
    <2>1. LifeInv'  BY <1>4 DEF LifeInv
    <2>2. PlaceInv'
      <3>1. pc # "loop" => Serving'
        BY <1>4 DEF PlaceInv, Serving, LifeInv, ThreadInv, ThreadTypeOK
      <3> QED  BY <3>1 DEF PlaceInv
    <2> QED  BY <1>1, <1>2, <2>1, <2>2
  <1> QED  BY <1>3, <1>4
-----------------------------------------------------------------------------
\* What a step of the server's thread leaves alone, for the parts that are the same in each.
LEMMA ServerStepKeeps ==
  ASSUME TcpInv, ThreadInv', ServerStep
  PROVE LifeInv' /\ Serving /\ Serving'
  <1>1. socket # "down" /\ Serving
    <2>1. ServerStep => Serving  BY DEF ServerStep
    <2> QED  BY <2>1, DownIsQuiet DEF TcpInv, LifeInv
  <1>2. owner' \in {owner, "crashed"}
    BY DEF ServerStep, ServeLoop, WaitListenEvent, Place, PlaceIn, ClearSlot, ClearTo, Sweep, SweepOf
  <1>3. LifeInv'
    BY <1>1, <1>2 DEF ServerStep, LifeInv, TcpInv, threadFields
  <1> QED  BY <1>1, <1>3 DEF ServerStep, Serving

\* The test of bRun and the lock at the head of the loop.
LEMMA LoopInv ==
  ASSUME TcpInv, ThreadInv', ServerStep, ServeLoop
  PROVE TcpInv'
  <1> USE DEF TcpInv, ServerStep, ServeLoop, tableVars, worldVars, userVars, historyVars, Slots
  <1>1. LifeInv' /\ Serving'  BY ServerStepKeeps
  <1>2. TypeOK'  BY DEF TypeOK, ThreadInv, ServerPlaces
  <1>3. PlaceInv'  BY <1>1 DEF PlaceInv
  <1>4. TableInv' /\ MarkInv' /\ FdInv' /\ LockInv'
    BY DEF TableInv, MarkInv, Marked, Clearing, FdInv, LockInv
  <1> QED  BY <1>1, <1>2, <1>3, <1>4

\* The accepted descriptor was closed, hence in no slot and written to by nobody.
LEMMA AcceptInv ==
  ASSUME TcpInv, ThreadInv', ServerStep, WaitListenEvent, AcceptEvent
  PROVE TcpInv'
  <1> USE TcpAssumption
       DEF TcpInv, ServerStep, WaitListenEvent, worldVars, userVars, historyVars, Slots
  <1>1. LifeInv' /\ Serving'  BY ServerStepKeeps
  <1>2. CASE UNCHANGED <<worldVars, watched, local>> /\ pc' = "sweep"
    <2>1. TypeOK'  BY <1>2 DEF TypeOK, ThreadInv, ServerPlaces
    <2>2. PlaceInv' /\ TableInv' /\ MarkInv' /\ FdInv' /\ LockInv'
      BY <1>1, <1>2 DEF PlaceInv, TableInv, MarkInv, Marked, Clearing, FdInv, LockInv
    <2> QED  BY <1>1, <2>1, <2>2
  <1>3. ASSUME NEW c \in Clients, NEW f \in Free,
               peer[c] = "queued", peer' = [peer EXCEPT ![c] = "open"],
               fds' = [fds EXCEPT ![f] = c], local' = f, pc' = "place", UNCHANGED watched
        PROVE TcpInv'
    <2>1. f \in Fds /\ fds[f] = NoOne /\ pc = "wait"  BY <1>3 DEF Free
    <2>2. TypeOK'  BY <1>3, <2>1 DEF TypeOK, ThreadInv, ServerPlaces, PeerStates
    <2>3. \A s \in Slots : iSocketFd[s] # f
      <3> SUFFICES ASSUME NEW s \in Slots, iSocketFd[s] = f PROVE FALSE
        OBVIOUS
      <3>1. iSocketFd[s] > 0  BY <2>1
      <3> QED  BY <2>1, <3>1 DEF TableInv, Clearing
    <2>4. PlaceInv'  BY <1>1, <1>3, <2>1, <2>3 DEF PlaceInv, TypeOK
    <2>5. TableInv' /\ MarkInv'
      BY <1>3, <2>1, <2>3 DEF TableInv, MarkInv, Marked, Clearing, TypeOK
    <2>6. FdInv'  BY <1>3, <2>1 DEF FdInv, TypeOK
    <2>7. LockInv'  BY <1>3, <2>1 DEF LockInv, TypeOK
    <2> QED  BY <1>1, <2>2, <2>4, <2>5, <2>6, <2>7
  <1> QED  BY <1>2, <1>3 DEF AcceptEvent

\* The descriptor is closed without the lock: only the slot it is in is in doubt until it is cleared.
LEMMA ReadInv ==
  ASSUME TcpInv, ThreadInv', ServerStep, WaitListenEvent, NEW s \in Slots, ReadEvent(s)
  PROVE TcpInv'
  <1> DEFINE f == iSocketFd[s]
  <1> USE TcpAssumption
       DEF TcpInv, ServerStep, WaitListenEvent, worldVars, userVars, historyVars, Slots
  <1>1. LifeInv' /\ Serving'  BY ServerStepKeeps
  <1>2. pc = "wait" /\ f \in Fds /\ fds[f] = session[s] /\ session[s] \in Clients /\ f \in watched
    <2>1. pc = "wait" /\ f \in watched  BY DEF ReadEvent
    <2>2. f \in Fds  BY <2>1 DEF TypeOK
    <2>3. f > 0
      <3>1. \A n \in Fds : n \in Nat /\ n # 0  BY ONLY TcpAssumption
      <3>2. f \in Nat /\ f # 0  BY ONLY <2>2, <3>1
      <3> QED  BY ONLY <3>2
    <2> QED  BY <2>1, <2>2, <2>3 DEF TableInv, Clearing
  <1>3. CASE peer' = [peer EXCEPT ![fds[f]] = "open"] /\ peer[fds[f]] = "data"
             /\ pc' = "sweep" /\ UNCHANGED <<fds, watched, local>>
    <2>1. TypeOK'  BY <1>2, <1>3 DEF TypeOK, ThreadInv, ServerPlaces, PeerStates
    <2>2. PlaceInv' /\ TableInv' /\ MarkInv' /\ LockInv'
      BY <1>1, <1>2, <1>3 DEF PlaceInv, TableInv, MarkInv, Marked, Clearing, LockInv
    <2>3. FdInv'  BY <1>2, <1>3 DEF FdInv, TypeOK
    <2> QED  BY <1>1, <2>1, <2>2, <2>3
  <1>4. CASE Closed({f}) /\ watched' = watched \ {f} /\ local' = s /\ pc' = "clear"
    <2> USE DEF Closed
    <2>1. TypeOK'  BY <1>2, <1>4 DEF TypeOK, ThreadInv, ServerPlaces, PeerStates
    <2>2. PlaceInv'  BY <1>1, <1>2, <1>4 DEF PlaceInv
    <2>3. TableInv'  BY <1>2, <1>4 DEF TableInv, Clearing, TypeOK
    <2>4. MarkInv'  BY <1>2, <1>4 DEF MarkInv, Marked, Clearing
    <2>5. FdInv'  BY <1>2, <1>4 DEF FdInv, TypeOK
    <2>6. LockInv'  BY <1>2, <1>4 DEF LockInv, TypeOK
    <2> QED  BY <1>1, <2>1, <2>2, <2>3, <2>4, <2>5, <2>6
  <1> QED  BY <1>3, <1>4 DEF ReadEvent

\* Neither the timer nor the assert changes the table.
LEMMA TimerInv ==
  ASSUME TcpInv, ThreadInv', ServerStep, WaitListenEvent, UNCHANGED <<worldVars, watched, local>>,
         pc' \in {"wait", "sweep"}
  PROVE TcpInv'
  <1> USE DEF TcpInv, ServerStep, WaitListenEvent, worldVars, userVars, historyVars, Slots
  <1>1. LifeInv' /\ Serving'  BY ServerStepKeeps
  <1>2. TypeOK'  BY DEF TypeOK, ThreadInv, ServerPlaces
  <1>3. PlaceInv' /\ TableInv' /\ MarkInv' /\ FdInv' /\ LockInv'
    BY <1>1 DEF PlaceInv, TableInv, MarkInv, Marked, Clearing, FdInv, LockInv
  <1> QED  BY <1>1, <1>2, <1>3

\* A slot taken: its mark is gone, and what it holds was in transit.
LEMMA PlaceStepInv ==
  ASSUME TcpInv, ThreadInv', ServerStep, Place
  PROVE TcpInv'
  <1> USE TcpAssumption DEF TcpInv, ServerStep, userVars, Slots
  <1>1. LifeInv' /\ Serving'  BY ServerStepKeeps
  <1>2. pc = "place" /\ holder = NoOne /\ local' = -1 /\ UNCHANGED <<holder, doomed, owner>>
    BY DEF Place, PlaceIn
  <1>3. local \in Fds /\ fds[local] \in Clients /\ \A s \in Slots : iSocketFd[s] # local
    BY <1>2 DEF PlaceInv
  <1>4. \A u \in Users : user[u].at # "locked"  BY <1>2 DEF LockInv
  <1>5. LockInv'  BY <1>4 DEF LockInv
  <1>6. ASSUME NEW s \in Slots, iSocketFd[s] <= 0,
               iSocketFd' = [iSocketFd EXCEPT ![s] = local],
               bClose' = [bClose EXCEPT ![s] = FALSE],
               session' = [session EXCEPT ![s] = fds[local]],
               watched' = watched \cup {local}, pc' = "sweep", UNCHANGED worldVars
        PROVE TcpInv'
    <2> USE DEF worldVars
    <2>1. TypeOK'  BY <1>2, <1>3, <1>6 DEF TypeOK, ThreadInv, ServerPlaces
    <2>2. PlaceInv' /\ FdInv'  BY <1>1, <1>2, <1>6 DEF PlaceInv, FdInv
    <2>3. TableInv'
      <3>1. \A r \in Slots : iSocketFd'[r] > 0 =>
              /\ iSocketFd'[r] \in Fds /\ session'[r] \in Clients
              /\ fds[iSocketFd'[r]] = session'[r]
              /\ \A q \in Slots : iSocketFd'[q] = iSocketFd'[r] => q = r
        BY <1>2, <1>3, <1>6 DEF TableInv, Clearing, TypeOK
      <3>2. \A f \in watched' : \E r \in Slots : iSocketFd'[r] = f
        <4> SUFFICES ASSUME NEW f \in watched' PROVE \E r \in Slots : iSocketFd'[r] = f
          OBVIOUS
        <4>1. CASE f = local  BY <1>6, <4>1 DEF TypeOK
        <4>2. CASE f \in watched
          <5>1. PICK r \in Slots : iSocketFd[r] = f  BY <4>2 DEF TableInv
          <5>2. f \in Fds  BY <4>2 DEF TypeOK
          <5>3. \A n \in Fds : n \in Nat /\ n # 0  BY ONLY TcpAssumption
          <5>4. f \in Nat /\ f # 0  BY ONLY <5>2, <5>3
          <5>5. r # s  BY <1>6, <5>1, <5>4
          <5> QED  BY <1>6, <5>1, <5>5 DEF TypeOK
        <4> QED  BY <1>6, <4>1, <4>2
      <3> QED  BY <1>6, <3>1, <3>2 DEF TableInv, Clearing
    <2>4. MarkInv'  BY <1>2, <1>6 DEF MarkInv, Marked, Clearing, TypeOK
    <2> QED  BY <1>1, <1>5, <2>1, <2>2, <2>3, <2>4
  <1>7. CASE Closed({local}) /\ pc' = "loop" /\ UNCHANGED <<iSocketFd, bClose, session, watched>>
    <2> USE DEF Closed
    <2>1. TypeOK'  BY <1>2, <1>7 DEF TypeOK, ThreadInv, ServerPlaces, PeerStates
    <2>2. PlaceInv'  BY <1>2, <1>7 DEF PlaceInv
    <2>3. TableInv' /\ MarkInv'
      BY <1>2, <1>3, <1>7 DEF TableInv, MarkInv, Marked, Clearing, TypeOK
    <2>4. FdInv'  BY <1>7 DEF FdInv, TypeOK
    <2> QED  BY <1>1, <1>5, <2>1, <2>2, <2>3, <2>4
  <1> QED  BY <1>6, <1>7 DEF Place, PlaceIn

\* Clearing a slot after its descriptor was closed makes the two agree again.
LEMMA ClearSlotInv ==
  ASSUME TcpInv, ThreadInv', ServerStep, ClearSlot
  PROVE TcpInv'
  <1> USE TcpAssumption
       DEF TcpInv, ServerStep, ClearSlot, ClearTo, worldVars, userVars, Slots
  <1>1. LifeInv' /\ Serving'  BY ServerStepKeeps
  <1>2. local \in Slots  BY DEF PlaceInv
  <1>3. TypeOK'  BY <1>2 DEF TypeOK, ThreadInv, ServerPlaces
  <1>4. PlaceInv' /\ FdInv' /\ LockInv'  BY <1>1 DEF PlaceInv, FdInv, LockInv
  <1>5. TableInv'  BY <1>2 DEF TableInv, Clearing, TypeOK
  <1>6. MarkInv'  BY <1>2 DEF MarkInv, Marked, Clearing, TypeOK
  <1> QED  BY <1>1, <1>3, <1>4, <1>5, <1>6

\* The sweep closes a slot of the table under the lock and clears it in the same step.
LEMMA SweepInv ==
  ASSUME TcpInv, ThreadInv', ServerStep, Sweep
  PROVE TcpInv'
  <1> USE TcpAssumption DEF TcpInv, ServerStep, Sweep, SweepOf, Closed, userVars, Slots
  <1>1. LifeInv' /\ Serving'  BY ServerStepKeeps
  <1>2. TypeOK'  BY DEF TypeOK, ThreadInv, ServerPlaces, PeerStates
  <1>3. PlaceInv'  BY <1>1 DEF PlaceInv
  <1>4. TableInv'
    <2>1. \A s \in Slots : iSocketFd'[s] > 0 => s \notin Marked /\ iSocketFd[s] = iSocketFd'[s]
      BY DEF TypeOK
    <2>2. ASSUME NEW s \in Slots, iSocketFd'[s] > 0
          PROVE  /\ iSocketFd'[s] \in Fds /\ session'[s] \in Clients
                 /\ fds'[iSocketFd'[s]] = session'[s]
                 /\ \A r \in Slots : iSocketFd'[r] = iSocketFd'[s] => r = s
      <3>1. iSocketFd[s] = iSocketFd'[s] /\ s \notin Marked /\ iSocketFd[s] > 0  BY <2>1, <2>2
      <3>2. /\ iSocketFd[s] \in Fds /\ session[s] \in Clients
            /\ fds[iSocketFd[s]] = session[s]
            /\ \A r \in Slots : iSocketFd[r] = iSocketFd[s] => r = s
        BY <3>1 DEF TableInv, Clearing
      <3>3. iSocketFd[s] \notin {iSocketFd[r] : r \in Marked}  BY <3>1, <3>2 DEF Marked
      <3>4. fds'[iSocketFd[s]] = fds[iSocketFd[s]]  BY <3>2, <3>3
      <3>5. session'[s] = session[s]  BY <3>1
      <3>6. \A r \in Slots : iSocketFd'[r] \in {iSocketFd[r], -1}  OBVIOUS
      <3> QED  BY <2>2, <3>1, <3>2, <3>4, <3>5, <3>6
    <2>3. \A f \in watched' : \E s \in Slots : iSocketFd'[s] = f
      <3> SUFFICES ASSUME NEW f \in watched' PROVE \E s \in Slots : iSocketFd'[s] = f
        OBVIOUS
      <3>1. f \in watched /\ f \notin {iSocketFd[s] : s \in Marked}  OBVIOUS
      <3>2. PICK s \in Slots : iSocketFd[s] = f  BY <3>1 DEF TableInv
      <3>3. s \notin Marked  BY <3>1, <3>2
      <3> QED  BY <3>2, <3>3
    <2> QED  BY <2>2, <2>3 DEF TableInv, Clearing
  <1>5. MarkInv'  BY DEF MarkInv, Marked, Clearing, TypeOK
  <1>6. FdInv'  BY DEF FdInv, TypeOK
  <1>7. LockInv'
    <2>1. \A u \in Users : user[u].at # "locked"  BY DEF LockInv
    <2> QED  BY <2>1 DEF LockInv
  <1> QED  BY <1>1, <1>2, <1>3, <1>4, <1>5, <1>6, <1>7

\* A step of ThreadProc, whichever it is.
LEMMA ServerStepInv == TcpInv /\ ThreadInv' /\ ServerStep => TcpInv'
  <1> SUFFICES ASSUME TcpInv, ThreadInv', ServerStep PROVE TcpInv'
    OBVIOUS
  <1>1. CASE WaitListenEvent
    <2>1. CASE AcceptEvent  BY <1>1, <2>1, AcceptInv
    <2>2. ASSUME NEW s \in Slots, ReadEvent(s) PROVE TcpInv'  BY <1>1, <2>2, ReadInv
    <2>3. CASE UNCHANGED <<worldVars, watched, local>> /\ pc' \in {"wait", "sweep"}
      BY <1>1, <2>3, TimerInv
    <2> QED  BY <1>1, <2>1, <2>2, <2>3 DEF WaitListenEvent, TimerEvent
  <1>2. CASE ServeLoop  BY <1>2, LoopInv
  <1>3. CASE Place  BY <1>3, PlaceStepInv
  <1>4. CASE ClearSlot  BY <1>4, ClearSlotInv
  <1>5. CASE Sweep  BY <1>5, SweepInv
  <1> QED  BY <1>1, <1>2, <1>3, <1>4, <1>5 DEF ServerStep
-----------------------------------------------------------------------------
\* A caller of SendSessionData or DeleteSession changes the table under the lock only.
LEMMA UserStepInv ==
  ASSUME TcpInv, ThreadInv', NEW u \in Users,
         Call(u) \/ SendSessionData(u) \/ Sent(u) \/ DeleteSession(u), UNCHANGED TheRest
  PROVE TcpInv'
  <1> USE TcpAssumption DEF TcpInv, TheRest, procVars, worldVars, threadFields, Slots
  <1>1. owner' \in {owner, "crashed"}
    BY DEF Call, SendSessionData, WritesWith, Sent, DeleteSession
  <1>2. LifeInv' /\ PlaceInv' /\ FdInv'  BY <1>1 DEF LifeInv, PlaceInv, Serving, FdInv
  <1>3. TableInv'  BY DEF TableInv, Clearing
  <1> DEFINE Calls == [at : {"idle", "toSend", "toDelete", "locked"}, slot : Slots \cup {0},
                       fd : Fds \cup {0}, to : Clients \cup {NoOne}]
  <1>4. user \in [Users -> Calls] /\ Idle \in Calls  BY DEF TypeOK, Idle
  <1>5. CASE Call(u)
    <2>1. PICK s \in Slots, what \in {"toSend", "toDelete"} :
            user' = [user EXCEPT ![u] = [Idle EXCEPT !.at = what, !.slot = s]]
      BY <1>5 DEF Call
    <2>2. [Idle EXCEPT !.at = what, !.slot = s] \in Calls  BY <1>4 DEF Idle
    <2>3. user' \in [Users -> Calls] /\ user'[u].at # "locked"
      BY <1>4, <2>1, <2>2 DEF Idle
    <2>4. UNCHANGED <<holder, bClose, doomed, owner>> /\ calls' \in 0 .. MaxCalls
      <3>1. calls \in 0 .. MaxCalls /\ MaxCalls \in Nat  BY DEF TypeOK
      <3>2. calls < MaxCalls /\ calls' = calls + 1 /\ UNCHANGED <<holder, bClose, doomed, owner>>
        BY <1>5 DEF Call
      <3> QED  BY ONLY <3>1, <3>2
    <2>5. TypeOK'  BY <2>3, <2>4 DEF TypeOK, ThreadInv
    <2>6. MarkInv'  BY <2>4 DEF MarkInv, Marked, Clearing
    <2>7. LockInv'  BY <1>4, <2>1, <2>3, <2>4 DEF LockInv
    <2> QED  BY <1>2, <1>3, <2>5, <2>6, <2>7
  <1>6. CASE SendSessionData(u)
    <2> DEFINE s == user[u].slot
    <2>1. holder = NoOne /\ UNCHANGED <<calls, bClose, doomed, owner>> /\ user[u].at = "toSend"
      BY <1>6 DEF SendSessionData, WritesWith
    <2>2. MarkInv'  BY <2>1 DEF MarkInv, Marked, Clearing
    <2>3. s \in Slots  BY <1>4 DEF TypeOK
    <2>4. CASE user' = [user EXCEPT ![u] = Idle] /\ UNCHANGED holder
      <3>1. user' \in [Users -> Calls]  BY <1>4, <2>4
      <3>2. TypeOK'  BY <2>1, <2>4, <3>1 DEF TypeOK, ThreadInv
      <3>3. LockInv'  BY <1>4, <2>4 DEF LockInv, Idle
      <3> QED  BY <1>2, <1>3, <2>2, <3>2, <3>3
    <2>5. CASE /\ user' = [user EXCEPT ![u] =
                            [at |-> "locked", slot |-> s, fd |-> iSocketFd[s], to |-> session[s]]]
               /\ holder' = u /\ iSocketFd[s] > 0
      <3>1. iSocketFd[s] \in Fds /\ session[s] \in Clients  BY <2>3, <2>5 DEF TableInv
      <3>2. user' \in [Users -> Calls]  BY <1>4, <2>3, <2>5, <3>1
      <3>3. TypeOK'  BY <2>1, <2>5, <3>2 DEF TypeOK, ThreadInv
      <3>4. \/ fds[iSocketFd[s]] = session[s]
            \/ fds[iSocketFd[s]] = NoOne /\ pc = "clear"
        BY <2>3, <2>5 DEF TableInv, PlaceInv, Clearing
      <3>5. \A v \in Users : user[v].at # "locked"  BY <2>1 DEF LockInv
      <3>6. LockInv'
        <4> SUFFICES ASSUME NEW v \in Users, user'[v].at = "locked"
                     PROVE /\ holder' = v /\ user'[v].fd \in Fds /\ user'[v].to \in Clients
                           /\ \/ fds[user'[v].fd] = user'[v].to
                              \/ fds[user'[v].fd] = NoOne /\ pc \in {"clear", "sweep"}
          BY DEF LockInv
        <4>1. v = u  BY <1>4, <2>5, <3>5
        <4>2. user'[v].fd = iSocketFd[s] /\ user'[v].to = session[s]  BY <1>4, <2>5, <4>1
        <4> QED  BY <2>5, <3>1, <3>4, <4>1, <4>2
      <3> QED  BY <1>2, <1>3, <2>2, <3>3, <3>6
    <2> QED  BY <1>6, <2>4, <2>5 DEF SendSessionData, WritesWith
  <1>7. CASE Sent(u)
    <2> USE <1>7 DEF Sent
    <2>1. TypeOK'  BY DEF TypeOK, ThreadInv, Idle
    <2>2. MarkInv' /\ LockInv'  BY DEF MarkInv, Marked, Clearing, LockInv, TypeOK, Idle
    <2> QED  BY <1>2, <1>3, <2>1, <2>2
  <1>8. CASE DeleteSession(u)
    <2> DEFINE s == user[u].slot
    <2>1. user' = [user EXCEPT ![u] = Idle] /\ UNCHANGED <<calls, holder>>
      BY <1>8 DEF DeleteSession
    <2>2. s \in Slots  BY <1>4 DEF TypeOK
    <2>3. LockInv'  BY <1>4, <2>1 DEF LockInv, Idle
    <2>4. /\ bClose' \in [Slots -> BOOLEAN] /\ doomed' \in SUBSET Clients
          /\ \A r \in Slots : (bClose'[r] <=> bClose[r]) \/ session[r] \in doomed'
          /\ doomed \subseteq doomed'
      <3>1. CASE iSocketFd[s] > 0
        <4>1. bClose' = [bClose EXCEPT ![s] = TRUE] /\ doomed' = doomed \cup {session[s]}
          BY <1>8, <3>1 DEF DeleteSession
        <4>2. session[s] \in Clients  BY <2>2, <3>1 DEF TableInv
        <4> QED  BY <2>2, <4>1, <4>2 DEF TypeOK
      <3>2. CASE ~(iSocketFd[s] > 0)
        <4>1. UNCHANGED <<bClose, doomed>>  BY <1>8, <3>2 DEF DeleteSession
        <4> QED  BY <4>1 DEF TypeOK
      <3> QED  BY <3>1, <3>2
    <2>5. user' \in [Users -> Calls]  BY <1>4, <2>1
    <2>6. TypeOK'  BY <2>1, <2>4, <2>5 DEF TypeOK, ThreadInv
    <2>7. MarkInv'  BY <2>4 DEF MarkInv, Marked, Clearing
    <2> QED  BY <1>2, <1>3, <2>3, <2>6, <2>7
  <1> QED  BY <1>5, <1>6, <1>7, <1>8

\* Every step of the server, its clients and its callers keeps the invariant.
LEMMA TcpNextInv == TcpInv /\ [TcpNext]_vars => TcpInv'
  <1> SUFFICES ASSUME TcpInv, [TcpNext]_vars PROVE TcpInv'
    OBVIOUS
  <1>1. CASE UNCHANGED vars
    <2> USE <1>1 DEF vars, tcpVars, tableVars, procVars, worldVars, userVars, historyVars, threadVars,
                     threadFields, Slots, TcpInv
    <2>1. TypeOK'  BY DEF TypeOK, ThreadTypeOK
    <2>2. LifeInv' /\ PlaceInv'  BY DEF LifeInv, PlaceInv, Serving, ThreadInv, ThreadTypeOK, Live
    <2>3. TableInv' /\ MarkInv' /\ FdInv' /\ LockInv'
      BY DEF TableInv, MarkInv, Marked, Clearing, FdInv, LockInv
    <2> QED  BY <2>1, <2>2, <2>3
  <1>2. CASE TcpNext
    <2>1. ThreadInv'  BY <1>2, TcpLife
    <2>2. CASE StartSocket  BY <2>1, <2>2, StartSocketInv
    <2>3. CASE StopSocket  BY <2>1, <2>3, StopSocketInv
    <2>4. CASE ServerStep  BY <2>1, <2>4, ServerStepInv
    <2>5. CASE PeerStep  BY <2>5, PeerStepInv
    <2>6. CASE CloseTCPSocket  BY <2>1, <2>6, CloseTCPSocketInv
    <2>7. CASE TcpOwnerStep \/ \E t \in Threads : TcpThreadStep(t)
      BY <2>1, <2>7, LifeStepsInv DEF TcpOwnerStep, TcpThreadStep
    <2>8. CASE UserCalls \/ \E u \in Users : UserWorks(u)
      BY <2>1, <2>8, UserStepInv DEF UserCalls, UserWorks
    <2> QED  BY <1>2, <2>2, <2>3, <2>4, <2>5, <2>6, <2>7, <2>8 DEF TcpNext, TcpOthers
  <1> QED  BY <1>1, <1>2
-----------------------------------------------------------------------------
\* Every state that TcpSpec reaches satisfies the invariant.
LEMMA TcpInvariant == TcpSpec => []TcpInv
  <1>1. TcpInit => TcpInv  BY TcpInitInv
  <1>2. TcpInv /\ [TcpNext]_vars => TcpInv'  BY TcpNextInv
  <1> QED  BY <1>1, <1>2, PTL DEF TcpSpec, vars

\* The table says what is connected, and the assert(0) of WaitListenEvent is out of reach.
THEOREM TableIsFaithful == TcpSpec => []TableFaithful
  <1>1. TcpInv => TableFaithful  BY DEF TcpInv, TableInv, TableFaithful, Clearing
  <1> QED  BY <1>1, TcpInvariant, PTL

\* A write under the lock never reaches a client the descriptor was given to meanwhile.
THEOREM WritesKeepTheirClient == TcpSpec => []WriteKeepsItsClient
  <1>1. TcpInv => WriteKeepsItsClient  BY DEF TcpInv, LockInv, WriteKeepsItsClient
  <1> QED  BY <1>1, TcpInvariant, PTL

\* Where a client of the table is closed, one place of the code at a time.
LEMMA ClosedStep ==
  ASSUME TcpInv, TcpNext, NEW c \in Clients, InTable(c), peer[c] # "gone", peer'[c] = "gone"
  PROVE c \in doomed \/ peer[c] \in {"data", "ended"}
  <1> USE DEF TcpInv
  <1>1. PICK s \in Slots : iSocketFd[s] > 0 /\ session[s] = c  BY DEF InTable
  <1>2. ASSUME ~Clearing(s) PROVE fds[iSocketFd[s]] = c /\ iSocketFd[s] \in Fds
    BY <1>1, <1>2 DEF TableInv
  <1>3. peer \in [Clients -> PeerStates]  BY DEF TypeOK
  <1>4. CASE ServerStep
    <2>1. CASE WaitListenEvent
      <3>1. PICK r \in Slots : ReadEvent(r)
        BY <1>3, <2>1 DEF WaitListenEvent, AcceptEvent, TimerEvent, worldVars
      <3>2. Ready(iSocketFd[r])  BY <3>1 DEF ReadEvent
      <3>3. fds[iSocketFd[r]] = c  BY <1>3, <3>1 DEF ReadEvent, Closed
      <3> QED  BY <3>2, <3>3 DEF Ready
    <2>2. CASE Place
      <3>1. pc = "place" /\ Closed({local}) /\ fds[local] = c
        BY <2>2 DEF Place, PlaceIn, worldVars, Closed
      <3>2. local \in Fds /\ iSocketFd[s] # local  BY <3>1 DEF PlaceInv
      <3>3. fds[iSocketFd[s]] = c /\ iSocketFd[s] \in Fds  BY <1>2, <3>1 DEF Clearing
      <3> QED  BY <3>1, <3>2, <3>3 DEF FdInv
    <2>3. CASE Sweep
      <3>1. PICK r \in Marked : fds[iSocketFd[r]] = c  BY <2>3 DEF Sweep, SweepOf, Closed
      <3>2. r \in Slots /\ iSocketFd[r] > 0 /\ ~Clearing(r)
        BY <2>3 DEF Sweep, SweepOf, Marked, Clearing
      <3>3. session[r] = c  BY <3>1, <3>2 DEF TableInv
      <3> QED  BY <3>2, <3>3 DEF MarkInv
    <2>4. CASE ServeLoop \/ ClearSlot  BY <2>4 DEF ServeLoop, ClearSlot, ClearTo, worldVars
    <2> QED  BY <1>4, <2>1, <2>2, <2>3, <2>4 DEF ServerStep
  <1>5. CASE CloseTCPSocket
    <2>1. pc = "loop"  BY <1>5, DownIsQuiet DEF CloseTCPSocket, LifeInv
    <2>2. fds[iSocketFd[s]] = c /\ iSocketFd[s] \in Fds  BY <1>2, <2>1 DEF Clearing
    <2>3. peer[c] # "queued"  BY <2>2 DEF FdInv
    <2>4. PICK r \in Marked : fds[iSocketFd[r]] = c  BY <1>5, <2>3 DEF CloseTCPSocket
    <2>5. r \in Slots /\ iSocketFd[r] > 0 /\ ~Clearing(r)  BY <2>1 DEF Marked, Clearing
    <2>6. session[r] = c  BY <2>4, <2>5 DEF TableInv
    <2> QED  BY <2>5, <2>6 DEF MarkInv
  <1>6. CASE PeerStep  BY <1>3, <1>6 DEF PeerStep, Connect, Speak
  <1>7. CASE StartSocket \/ StopSocket  BY <1>7 DEF StartSocket, StopSocket, worldVars
  <1>8. CASE TcpOwnerStep \/ \E t \in Threads : TcpThreadStep(t)
    BY <1>8 DEF TcpOwnerStep, TcpThreadStep, tcpVars, worldVars
  <1>9. CASE UserCalls \/ \E u \in Users : UserWorks(u)
    BY <1>9 DEF UserCalls, UserWorks, TheRest, worldVars
  <1> QED  BY <1>4, <1>5, <1>6, <1>7, <1>8, <1>9 DEF TcpNext, TcpOthers

\* No client of the table is closed without a reason of its own, in whatever slot it sits.
THEOREM ClosingHasAReason == TcpSpec => ClosedForAReason
  <1>1. TcpInv /\ [TcpNext]_vars =>
          [\A c \in Clients : InTable(c) /\ peer[c] # "gone" /\ peer'[c] = "gone"
             => c \in doomed \/ peer[c] \in {"data", "ended"}]_vars
    BY ClosedStep
  <1> QED  BY <1>1, TcpInvariant, PTL DEF TcpSpec, ClosedForAReason, vars
=============================================================================
