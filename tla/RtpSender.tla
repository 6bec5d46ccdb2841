-------------------------------- MODULE RtpSender --------------------------------
(***************************************************************************)
(* doClient and rtpSendH264Frame of rtsp/rtsp_server_t41/rtscp-server.c:   *)
(* one client at a time asks with RTSP, and from PLAY on gets every H.264  *)
(* unit of the encoder in RTP packets over the same connection, a unit     *)
(* larger than RTP_MAX_PKT_SIZE in fragments (FU-A).                       *)
(*                                                                         *)
(* A packet is its header and the numbers of the unit's bytes it carries.  *)
(* Left out: the encoder's set-up and release around a client, the RTP     *)
(* channel, and the copy of the stream in a file.                          *)
(***************************************************************************)
EXTENDS Integers

CONSTANTS
  MaxPkt,    \* RTP_MAX_PKT_SIZE
  MaxUnit,   \* the largest unit of the encoder, in bytes without its start code
  SeqMod,    \* 2^16: seq is a uint16_t
  StampMod,  \* 2^32: timestamp is a uint32_t
  Tick       \* 90000 / SENSOR_FRAME_RATE_NUM

ASSUME RtpAssumption ==
  /\ MaxPkt \in Nat \ {0} /\ MaxUnit \in Nat
  /\ SeqMod \in Nat \ {0, 1} /\ StampMod \in Nat \ {0} /\ Tick \in 1 .. StampMod - 1

VARIABLES
  rtsp,              \* where the server is
  seq, timestamp,    \* rtpPacket->rtpHeader
  frameSize, i, pos, \* rtpSendH264Frame
  last,              \* history: the last packet the connection took
  cut                \* history: a send failed since that packet

frameVars == <<frameSize, i, pos>>
rtpVars == <<rtsp, seq, timestamp, frameVars, last, cut>>

RtspPlaces == {"accept", "request", "play", "send", "sent", "killed"}
Packet(n, stamp, start, end, from, to) ==
  [seq |-> n, timestamp |-> stamp, start |-> start, end |-> end, from |-> from, to |-> to]
NoPacket == Packet(SeqMod - 1, 0, TRUE, TRUE, 0, 0)

RtpTypeOK ==
  /\ rtsp \in RtspPlaces /\ seq \in 0 .. SeqMod - 1 /\ timestamp \in 0 .. StampMod - 1
  /\ frameSize \in 0 .. MaxUnit /\ i \in 0 .. MaxUnit /\ pos \in 1 .. MaxUnit + 1
  /\ last \in [seq : 0 .. SeqMod - 1, timestamp : 0 .. StampMod - 1, start : BOOLEAN,
               end : BOOLEAN, from : 0 .. MaxUnit, to : 0 .. MaxUnit]
  /\ cut \in BOOLEAN

RtpInit ==
  /\ rtsp = "accept" /\ seq = 0 /\ timestamp = 0
  /\ frameSize = 0 /\ i = 0 /\ pos = 1
  /\ last = NoPacket /\ cut = FALSE

pktNum == frameSize \div MaxPkt
remainPktSize == frameSize % MaxPkt
-----------------------------------------------------------------------------
(* doClient.                                                               *)

AcceptClient ==
  /\ rtsp = "accept" /\ rtsp' = "request"
  /\ UNCHANGED <<seq, timestamp, frameVars, last, cut>>

\* OPTIONS, DESCRIBE and SETUP are answered and nothing changes. What cannot be received or parsed,
\* or is another method, ends the client.
RequestEnds ==
  /\ rtsp = "request" /\ rtsp' = "accept"
  /\ UNCHANGED <<seq, timestamp, frameVars, last, cut>>

PLAY ==
  /\ rtsp = "request" /\ rtsp' = "play"
  /\ seq' = 0 /\ timestamp' = 0
  /\ last' = NoPacket /\ cut' = FALSE
  /\ UNCHANGED frameVars

\* A call of the encoder or the write to the file fails: nothing else ends the loop of PLAY.
EncoderFails ==
  /\ rtsp = "play" /\ rtsp' = "accept"
  /\ UNCHANGED <<seq, timestamp, frameVars, last, cut>>

\* The encoder's next unit; one without a byte behind its start code is left out.
NextUnit ==
  /\ rtsp = "play" /\ rtsp' = "send"
  /\ frameSize' \in 1 .. MaxUnit /\ i' = 0 /\ pos' = 1
  /\ UNCHANGED <<seq, timestamp, last, cut>>

\* The result of rtpSendH264Frame is not looked at.
UnitDone ==
  /\ rtsp = "sent" /\ rtsp' = "play"
  /\ timestamp' = (timestamp + Tick) % StampMod
  /\ frameSize' = 0 /\ i' = 0 /\ pos' = 1
  /\ UNCHANGED <<seq, last, cut>>
-----------------------------------------------------------------------------
(* rtpSendH264Frame; frameSize, i and pos have their first values outside. *)

\* rtpSendPacket of the bytes from .. to, and the step of seq.
Sends(start, end, from, to) ==
  /\ last' = Packet(seq, timestamp, start, end, from, to)
  /\ seq' = (seq + 1) % SeqMod
  /\ cut' = FALSE
  /\ UNCHANGED <<timestamp, frameSize>>

SendSingle ==
  /\ rtsp = "send" /\ frameSize <= MaxPkt
  /\ Sends(TRUE, TRUE, 0, frameSize - 1)
  /\ rtsp' = "sent" /\ UNCHANGED <<i, pos>>

InLoop_OneMore == i <= pktNum
InLoop == i < pktNum

\* The first of the whole packets has the start bit; the end bit is on the last when nothing
\* remains.
FragmentWith(end) ==
  /\ rtsp = "send" /\ frameSize > MaxPkt /\ InLoop
  /\ Sends(i = 0, end, pos, pos + MaxPkt - 1)
  /\ i' = i + 1 /\ pos' = pos + MaxPkt
  /\ rtsp' = IF i = pktNum - 1 /\ remainPktSize = 0 THEN "sent" ELSE "send"

SendFragment_EndAlways == FragmentWith(i # 0 /\ i = pktNum - 1)
SendFragment == FragmentWith(i # 0 /\ remainPktSize = 0 /\ i = pktNum - 1)

SendRemainder ==
  /\ rtsp = "send" /\ frameSize > MaxPkt /\ i = pktNum /\ remainPktSize > 0
  /\ Sends(FALSE, TRUE, pos, pos + remainPktSize - 1)
  /\ rtsp' = "sent" /\ UNCHANGED <<i, pos>>

\* send returns -1, and the rest of the unit is dropped; or SIGPIPE ends the program.
FailsWith(n) ==
  /\ rtsp = "send" /\ rtsp' \in {"sent", "killed"}
  /\ seq' = n /\ cut' = TRUE
  /\ UNCHANGED <<timestamp, frameVars, last>>

SendFails_Counts == FailsWith((seq + 1) % SeqMod)
SendFails == FailsWith(seq)
-----------------------------------------------------------------------------
RtpNext ==
  \/ AcceptClient \/ RequestEnds \/ PLAY \/ EncoderFails \/ NextUnit \/ UnitDone
  \/ SendSingle \/ SendFragment \/ SendRemainder \/ SendFails

RtpSpec == RtpInit /\ [][RtpNext]_rtpVars
-----------------------------------------------------------------------------
Received == rtsp = "send" /\ last' # last

\* The packets the client receives are numbered without a gap, modulo 2^16, across units, sends
\* that fail and the two ways to send a unit (seq is stepped in three places, 239, 290 and 307):
\* what a failed send dropped does not show in the numbers.
SeqConsecutive == [][Received => last'.seq = (last.seq + 1) % SeqMod]_rtpVars

\* A unit arrives whole, or cut at a send that failed: its first packet and only that starts it,
\* each next one has its timestamp and its bytes from where the last ended, none follows the one
\* marked as its end, and that is the last one whether or not the size is a multiple of
\* RTP_MAX_PKT_SIZE (280-300). A new unit has a new timestamp. (The fragments start at byte 1,
\* the FU header stands for byte 0, and go on to the byte after the unit.)
UnitsWhole ==
  [][/\ Received /\ last'.start =>
          /\ last.end \/ cut
          /\ last'.from = IF frameSize <= MaxPkt THEN 0 ELSE 1
          /\ ~cut /\ last # NoPacket => last'.timestamp # last.timestamp
     /\ Received /\ ~last'.start =>
          /\ ~last.end /\ ~cut
          /\ last'.timestamp = last.timestamp /\ last'.from = last.to + 1
     /\ rtsp = "send" /\ rtsp' = "sent" /\ ~cut' =>
          last'.end /\ last'.to = IF frameSize <= MaxPkt THEN frameSize - 1 ELSE frameSize]_rtpVars
=============================================================================
