-------------------------------- MODULE TcpServer --------------------------------
(***************************************************************************)
(* CTcpServerSocket (network/CTcpServerSocket.cpp): one thread accepts and *)
(* reads with epoll, over a table of client sockets that other threads     *)
(* address by slot number, and that is only partly under m_mutexLock.      *)
(*                                                                         *)
(* A descriptor is a small integer the system gives out again once it is   *)
(* closed.  A connection is a client, which connects once and may send for *)
(* as long as it is open.                                                  *)
(* Left out: SendData and ReciveData (they look at a slot without the lock *)
(* and change nothing), FindSession, addresses and socket options.         *)
(***************************************************************************)
EXTENDS CommonThread

CONSTANTS
  Fds,        \* positive integers: the descriptors of connections
  Clients, Users,
  NoOne,      \* nobody holds m_mutexLock; a closed descriptor
  Others,     \* a descriptor the rest of the program has open
  MaxCalls,   \* bound: calls of the users
  MaxSize     \* bound: starts plus iMaxCount

ASSUME TcpAssumption ==
  /\ Fds \subseteq Nat \ {0} /\ MaxCalls \in Nat /\ MaxSize \in Nat
  /\ NoOne \notin Clients \cup Users /\ Others \notin Clients \cup {NoOne}

VARIABLES
  iMaxCount,           \* of ConfigSocketParam, and the table's size
  iSocketFd, bClose,   \* m_pSocketInfo
  holder,              \* of m_mutexLock
  watched,             \* the descriptors in m_epfd
  socket,              \* "down", "up" or "stopping": where its owner is
  pc, local,           \* ThreadProc: where it is; its connfd or iHandle while it is of use, or -1
  fds,                 \* fds[f]: what descriptor f is open on
  peer,                \* the clients' ends
  user, calls,         \* calls in progress ("to": history, whose the slot was when the lock was taken), calls made
  session, doomed      \* history: the client that has a slot, the clients DeleteSession marked

tableVars == <<iSocketFd, bClose, holder, watched>>
procVars == <<socket, pc, local>>
worldVars == <<fds, peer>>
userVars == <<user, calls>>
historyVars == <<session, doomed>>
tcpVars == <<iMaxCount, tableVars, procVars, worldVars, userVars, historyVars>>

Slots == 0 .. iMaxCount - 1
Idle == [at |-> "idle", slot |-> 0, fd |-> 0, to |-> NoOne]

ServerPlaces == {"loop", "wait", "place", "clear", "sweep"}
PeerStates == {"away", "queued", "open", "data", "ended", "gone"}

TypeOK ==
  /\ ThreadTypeOK /\ iMaxCount \in 1 .. MaxSize - 1
  /\ iSocketFd \in [Slots -> Fds \cup {0, -1}] /\ bClose \in [Slots -> BOOLEAN]
  /\ holder \in Users \cup {NoOne} /\ watched \in SUBSET Fds
  /\ socket \in {"down", "up", "stopping"} /\ pc \in ServerPlaces
  /\ local \in Slots \cup Fds \cup {-1}
  /\ fds \in [Fds -> Clients \cup {NoOne, Others}]
  /\ peer \in [Clients -> PeerStates]
  /\ user \in [Users -> [at : {"idle", "toSend", "toDelete", "locked"}, slot : Slots \cup {0},
                         fd : Fds \cup {0}, to : Clients \cup {NoOne}]]
  /\ calls \in 0 .. MaxCalls
  /\ session \in [Slots -> Clients \cup {NoOne}] /\ doomed \in SUBSET Clients

TcpInit ==
  /\ ThreadInit /\ iMaxCount \in 1 .. MaxSize - 1
  /\ iSocketFd = [s \in Slots |-> 0] /\ bClose = [s \in Slots |-> FALSE]
  /\ holder = NoOne /\ watched = {}
  /\ socket = "down" /\ pc = "loop" /\ local = -1
  /\ \E held \in {{}, {CHOOSE f \in Fds : \A g \in Fds : f <= g}} :
       fds = [f \in Fds |-> IF f \in held THEN Others ELSE NoOne]
  /\ peer = [c \in Clients |-> "away"]
  /\ user = [u \in Users |-> Idle] /\ calls = 0
  /\ session = [s \in Slots |-> NoOne] /\ doomed = {}

Free == {f \in Fds : fds[f] = NoOne}
Serving == \E t \in Threads : at[t] = "body"
\* close(2) of the descriptors C.
Closed(C) ==
  /\ fds' = [f \in Fds |-> IF f \in C THEN NoOne ELSE fds[f]]
  /\ peer' = [c \in Clients |-> IF \E f \in C : fds[f] = c THEN "gone" ELSE peer[c]]
Ready(f) == peer[fds[f]] \in {"data", "ended"}
Marked == {s \in Slots : bClose[s] /\ iSocketFd[s] > 0}
-----------------------------------------------------------------------------
(* The clients.                                                            *)

Connect(c) ==
  /\ peer[c] = "away" /\ socket # "down"
  /\ peer' = [peer EXCEPT ![c] = "queued"]

\* It sends, again whenever it has been read, and shuts its end down or breaks off.
Speak(c) ==
  /\ peer[c] = "open"
  /\ \E says \in {"data", "ended"} : peer' = [peer EXCEPT ![c] = says]

PeerStep ==
  /\ \E c \in Clients : Connect(c) \/ Speak(c)
  /\ UNCHANGED <<threadVars, iMaxCount, tableVars, procVars, fds, userVars, historyVars>>
-----------------------------------------------------------------------------
(* The owner.                                                              *)

\* The table is zeroed whatever it holds; what start returns is not looked at.
StartSocket ==
  /\ socket = "down"
  /\ startFails \/ \E t \in Threads : t + iMaxCount <= MaxSize /\ start(t)
  /\ iSocketFd' = [s \in Slots |-> 0] /\ bClose' = [s \in Slots |-> FALSE]
  /\ session' = [s \in Slots |-> NoOne]
  /\ socket' = "up" /\ pc' = "loop"
  /\ UNCHANGED <<iMaxCount, holder, watched, local, worldVars, userVars, doomed>>

StopSocket ==
  /\ socket = "up" /\ stop
  /\ socket' = "stopping"
  /\ UNCHANGED <<iMaxCount, tableVars, pc, local, worldVars, userVars, historyVars>>

\* Only the marked sessions are closed, with the listening socket and epoll.
CloseTCPSocket ==
  /\ socket = "stopping" /\ owner = "idle" /\ holder = NoOne
  /\ fds' = [f \in Fds |-> IF \E s \in Marked : iSocketFd[s] = f THEN NoOne ELSE fds[f]]
  /\ peer' = [c \in Clients |->
                IF peer[c] = "queued" \/ \E s \in Marked : fds[iSocketFd[s]] = c
                THEN "gone" ELSE peer[c]]
  /\ iSocketFd' = [s \in Slots |-> IF s \in Marked THEN -1 ELSE iSocketFd[s]]
  /\ bClose' = [s \in Slots |-> bClose[s] /\ s \notin Marked]
  /\ session' = [s \in Slots |-> IF s \in Marked THEN NoOne ELSE session[s]]
  /\ watched' = {} /\ socket' = "down"
  /\ UNCHANGED <<threadVars, iMaxCount, holder, pc, local, userVars, doomed>>

TcpOwner == JoinTest \/ JoinRead \/ JoinReturns
TcpThread(t) == run1(t) \/ ThreadLeaves(t) \/ (pc = "loop" /\ ~bRun /\ ThreadProcReturns(t))
-----------------------------------------------------------------------------
(* ThreadProc. Steps of this thread alone on what only it uses (the epoll  *)
(* set, the ready sockets) are one step with the step they follow.         *)

ServeLoop ==
  /\ pc = "loop" /\ bRun /\ pc' = "wait"
  /\ UNCHANGED <<tableVars, local, worldVars, historyVars, owner>>

\* WaitListenEvent looks at one of the sockets that are ready. A client that waits is accepted, if
\* there is a descriptor for it ...
AcceptEvent ==
  \/ \E c \in Clients, f \in Free :
       /\ peer[c] = "queued"
       /\ peer' = [peer EXCEPT ![c] = "open"]
       /\ fds' = [fds EXCEPT ![f] = c]
       /\ local' = f /\ pc' = "place" /\ UNCHANGED watched
  \/ /\ Free = {} /\ \E c \in Clients : peer[c] = "queued"
     /\ pc' = "sweep" /\ UNCHANGED <<worldVars, watched, local>>

\* ... a socket of the table is read, and closed (without the lock, the slot is cleared next) when
\* it has ended or OnDataReady of the derived class returns false ...
ReadEvent(s) ==
  LET f == iSocketFd[s] c == fds[f] IN
  /\ f \in watched /\ Ready(f)
  /\ \/ /\ peer[c] = "data"
        /\ peer' = [peer EXCEPT ![c] = "open"]
        /\ pc' = "sweep" /\ UNCHANGED <<fds, watched, local>>
     \/ /\ Closed({f}) /\ watched' = watched \ {f}
        /\ local' = s /\ pc' = "clear"

\* ... and without any the timer comes.
TimerEvent ==
  /\ \A c \in Clients : peer[c] # "queued"
  /\ \A f \in watched : ~Ready(f)
  /\ pc' = "sweep" /\ UNCHANGED <<worldVars, watched, local>>

\* A ready socket must be in the table: assert(0).
WaitListenEvent ==
  /\ pc = "wait"
  /\ \/ (AcceptEvent \/ TimerEvent \/ \E s \in Slots : ReadEvent(s)) /\ UNCHANGED owner
     \/ /\ \E f \in watched : Ready(f) /\ \A s \in Slots : iSocketFd[s] # f
        /\ owner' = "crashed" /\ UNCHANGED <<pc, local, worldVars, watched>>
  /\ UNCHANGED <<iSocketFd, bClose, holder, historyVars>>

\* The first free slot; without one the connection is closed, and the sweep is skipped.
PlaceIn(mark) ==
  /\ pc = "place"
  /\ \/ \E s \in Slots :
          /\ iSocketFd[s] <= 0 /\ \A r \in Slots : r < s => iSocketFd[r] > 0
          /\ iSocketFd' = [iSocketFd EXCEPT ![s] = local]
          /\ bClose' = [bClose EXCEPT ![s] = mark[s]]
          /\ session' = [session EXCEPT ![s] = fds[local]]
          /\ watched' = watched \cup {local}
          /\ pc' = "sweep" /\ UNCHANGED worldVars
     \/ /\ \A s \in Slots : iSocketFd[s] > 0
        /\ Closed({local})
        /\ pc' = "loop" /\ UNCHANGED <<iSocketFd, bClose, session, watched>>
  /\ local' = -1
  /\ UNCHANGED <<holder, doomed, owner>>

Place_KeepsMark == holder = NoOne /\ PlaceIn(bClose)
Place == holder = NoOne /\ PlaceIn([s \in Slots |-> FALSE])

\* bClose stays as it is.
ClearTo(fd) ==
  /\ pc = "clear" /\ pc' = "sweep"
  /\ iSocketFd' = [iSocketFd EXCEPT ![local] = fd]
  /\ session' = [session EXCEPT ![local] = NoOne]
  /\ local' = -1
  /\ UNCHANGED <<bClose, holder, watched, worldVars, doomed, owner>>

ClearSlot_Forgotten == ClearTo(iSocketFd[local])
ClearSlot == ClearTo(-1)

SweepOf(S) ==
  /\ pc = "sweep" /\ pc' = "loop" /\ holder = NoOne
  /\ LET C == {iSocketFd[s] : s \in S} IN Closed(C) /\ watched' = watched \ C
  /\ iSocketFd' = [s \in Slots |-> IF s \in S THEN -1 ELSE iSocketFd[s]]
  /\ bClose' = [s \in Slots |-> bClose[s] /\ s \notin S]
  /\ session' = [s \in Slots |-> IF s \in S THEN NoOne ELSE session[s]]
  /\ UNCHANGED <<holder, local, doomed, owner>>

Sweep_Never == SweepOf({})
Sweep == SweepOf(Marked)

ServerStep ==
  /\ Serving
  /\ ServeLoop \/ WaitListenEvent \/ Place \/ ClearSlot \/ Sweep
  /\ UNCHANGED <<threadFields, at, joinee, waiting, iMaxCount, socket, userVars>>
-----------------------------------------------------------------------------
(* The users: any thread, which has a slot number from OnTcpEvent.         *)

\* SendSessionData and DeleteSession look at isRun before they lock.
Call(u) ==
  /\ user[u].at = "idle" /\ bRun /\ calls < MaxCalls
  /\ \E s \in Slots, what \in {"toSend", "toDelete"} :
       /\ session[s] # NoOne
       /\ user' = [user EXCEPT ![u] = [Idle EXCEPT !.at = what, !.slot = s]]
  /\ calls' = calls + 1
  /\ UNCHANGED <<holder, bClose, doomed, owner>>

\* WriteTCPSocket: it has read the slot, and writes with the lock held until Sent.
WritesWith(u, lock) ==
  /\ user[u].at = "toSend" /\ holder = NoOne
  /\ LET s == user[u].slot IN
     IF iSocketFd[s] > 0
     THEN /\ user' = [user EXCEPT ![u] =
                         [at |-> "locked", slot |-> s, fd |-> iSocketFd[s], to |-> session[s]]]
          /\ holder' = lock
     ELSE user' = [user EXCEPT ![u] = Idle] /\ UNCHANGED holder
  /\ UNCHANGED <<calls, bClose, doomed, owner>>

SendSessionData_UnlocksFirst(u) == WritesWith(u, NoOne)
SendSessionData(u) == WritesWith(u, u)

Sent(u) ==
  /\ user[u].at = "locked"
  /\ user' = [user EXCEPT ![u] = Idle] /\ holder' = NoOne
  /\ UNCHANGED <<calls, bClose, doomed, owner>>

\* It asserts that the session is there: one that the peer has ended aborts the program.
DeleteSession(u) ==
  /\ user[u].at = "toDelete" /\ holder = NoOne
  /\ LET s == user[u].slot IN
     IF iSocketFd[s] > 0
     THEN /\ bClose' = [bClose EXCEPT ![s] = TRUE]
          /\ doomed' = doomed \cup {session[s]}
          /\ UNCHANGED owner
     ELSE owner' = "crashed" /\ UNCHANGED <<bClose, doomed>>
  /\ user' = [user EXCEPT ![u] = Idle]
  /\ UNCHANGED <<calls, holder>>

TheRest == <<threadFields, at, joinee, waiting, iMaxCount, iSocketFd, watched, procVars, worldVars, session>>
UserWorks(u) == (SendSessionData(u) \/ Sent(u) \/ DeleteSession(u)) /\ UNCHANGED TheRest
UserCalls == (\E u \in Users : Call(u)) /\ UNCHANGED TheRest
-----------------------------------------------------------------------------
TcpOwnerStep == TcpOwner /\ UNCHANGED tcpVars
TcpThreadStep(t) == TcpThread(t) /\ UNCHANGED tcpVars

TcpOthers ==
  \/ CloseTCPSocket \/ TcpOwnerStep
  \/ \E t \in Threads : TcpThreadStep(t)
  \/ \E u \in Users : UserWorks(u)

TcpNext ==
  /\ owner # "crashed"
  /\ StartSocket \/ StopSocket \/ ServerStep \/ TcpOthers \/ PeerStep \/ UserCalls

\* The scheduler runs the server's thread, and the others: theirs are finitely many steps, so that
\* one condition serves for all. A write takes as long as the peer lets it, but it ends.
TcpServes == owner # "crashed" /\ ServerStep
TcpGoesOn == owner # "crashed" /\ TcpOthers
TcpFairness == WF_<<threadVars, tcpVars>>(TcpServes) /\ WF_<<threadVars, tcpVars>>(TcpGoesOn)

TcpSpec == TcpInit /\ [][TcpNext]_<<threadVars, tcpVars>> /\ TcpFairness
-----------------------------------------------------------------------------
InTable(c) == \E s \in Slots : iSocketFd[s] > 0 /\ session[s] = c
ToAnswer(c) == peer[c] = "queued" \/ (InTable(c) /\ (peer[c] = "ended" \/ c \in doomed))
\* The server is stopped or stuck: it runs no thread, or has no descriptor to accept with.
OutOfService == owner = "crashed" \/ ~bRun \/ Busy = {} \/ Free = {}
-----------------------------------------------------------------------------
\* The table says what is connected: but for the slot whose descriptor the thread has just closed
\* outside the lock (410-412), the descriptor in a slot is open on the client the slot was given
\* to, no two slots share one, and every descriptor epoll reports is in a slot, so that the
\* assert(0) of WaitListenEvent (303) is out of reach.
TableFaithful ==
  /\ \A s \in Slots : iSocketFd[s] > 0 /\ ~(pc = "clear" /\ local = s) =>
       /\ fds[iSocketFd[s]] = session[s]
       /\ \A r \in Slots : iSocketFd[r] = iSocketFd[s] => r = s
  /\ \A f \in watched : \E s \in Slots : iSocketFd[s] = f

\* A client in the table is closed for a reason of its own: it ended, its data was refused, or
\* DeleteSession marked it. The mark that 409-413 leave on a slot they clear does not close the
\* next client in it (372).
ClosedForAReason ==
  [][\A c \in Clients : InTable(c) /\ peer[c] # "gone" /\ peer'[c] = "gone"
       => c \in doomed \/ peer[c] \in {"data", "ended"}]_<<threadVars, tcpVars>>

\* While SendSessionData writes, its descriptor is open on the client whose the slot was when the
\* lock was taken, or on nothing: the data never goes to a connection that was given the descriptor
\* since. The thread may close it meanwhile, without the lock (411), but it accepts a connection
\* only after the sweep, for which it waits (115, 456). (A caller names a slot, not a client: one
\* that was given the slot before the lock is written to.)
WriteKeepsItsClient ==
  \A u \in Users : user[u].at = "locked" => fds[user[u].fd] \in {user[u].to, NoOne}

\* A client that connects is taken or turned away, and one in the table that ends or is deleted
\* has its descriptor closed, while the server is in service and provided that the others do not
\* send for ever: ThreadProc handles one ready socket per round (287-303), so that one which is
\* ready again each time keeps it from the rest. The sweep comes with the next event or timer.
ConnectionsAnswered ==
  \A c \in Clients :
    (\A d \in Clients \ {c} : <>[](peer[d] # "data")) => (ToAnswer(c) ~> ~ToAnswer(c) \/ OutOfService)
=============================================================================
