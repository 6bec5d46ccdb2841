-------------------------------- MODULE MCPrograms --------------------------------
(***************************************************************************)
(* The TCP server, the stream pusher and the RTSP server are programs of   *)
(* their own. A behaviour runs one of them, which keeps the sum of their   *)
(* states and not the product; the first two have the same thread class.   *)
(***************************************************************************)
EXTENDS TcpServer, PushStream, RtpSender

VARIABLE part

programVars == <<part, threadVars, tcpVars, pushVars, rtpVars>>

MCThreads == 1 .. 2
MCFds == 1 .. 2

ProgramInit ==
  /\ part \in {"tcp", "push", "rtp"}
  /\ TcpInit /\ PushInit /\ RtpInit
  /\ part # "tcp" => iMaxCount = 1 /\ Free = Fds

OfTcp(A) == part = "tcp" /\ A /\ UNCHANGED <<part, pushVars, rtpVars>>
OfPush(A) == part = "push" /\ A /\ UNCHANGED <<part, tcpVars, rtpVars>>
OfRtp(A) == part = "rtp" /\ A /\ UNCHANGED <<part, threadVars, tcpVars, pushVars>>

ProgramNext == OfTcp(TcpNext) \/ OfPush(PushNext) \/ OfRtp(RtpNext)

\* TcpFairness and PushFairness, each while its program runs.
ProgramFairness ==
  /\ WF_programVars(OfTcp(TcpServes)) /\ WF_programVars(OfTcp(TcpGoesOn))
  /\ WF_programVars(OfPush(PushOwnerStep))
  /\ \A t \in Threads : WF_programVars(OfPush(PushThread(t)))

ProgramSpec == ProgramInit /\ [][ProgramNext]_programVars /\ ProgramFairness

\* Every field is of its type, in the three programs.
ProgramTypeOK == TypeOK /\ PushTypeOK /\ RtpTypeOK
=============================================================================
