------------------------------ MODULE ProgramProofs ------------------------------
(***************************************************************************)
(* The RTP packets of RtpSender are well formed for every packet size,     *)
(* every unit size and every width of the counters; and what is proved of  *)
(* the three programs, carried over to their sum, the specification that   *)
(* the run network_programs checks.                                        *)
(*                                                                         *)
(* The invariant of RtpSender is about the loop of rtpSendH264Frame: after *)
(* i packets pos is 1 + i * MaxPkt, the last packet ended just before it,  *)
(* and the loop goes on only while bytes remain.                           *)
(***************************************************************************)
EXTENDS NetworkProofs, MCPrograms

InPlay == {"play", "send", "sent"}

\* seq is the number after the last packet's.
Numbered == rtsp \in InPlay => seq = (last.seq + 1) % SeqMod

\* Where the loop is.
Position ==
  rtsp = "send" =>
    /\ frameSize \in 1 .. MaxUnit /\ pos = 1 + i * MaxPkt
    /\ frameSize <= MaxPkt => i = 0
    /\ frameSize > MaxPkt => i <= pktNum /\ (i = pktNum => remainPktSize > 0)

\* What the client has of the unit on its way.
InUnit ==
  rtsp = "send" /\ i > 0 =>
    ~last.end /\ ~cut /\ last.timestamp = timestamp /\ last.to = pos - 1

\* Between units the last packet is an end, and its timestamp is over.
Between ==
  rtsp = "play" \/ (rtsp = "send" /\ i = 0) =>
    /\ last.end \/ cut
    /\ ~cut /\ last # NoPacket => last.timestamp # timestamp
AfterUnit == rtsp = "sent" /\ ~cut => last.end /\ last.timestamp = timestamp

RtpInv == RtpTypeOK /\ Numbered /\ Position /\ InUnit /\ Between /\ AfterUnit
-----------------------------------------------------------------------------
\* The remainder of a division is below the divisor, and they give the number back.
LEMMA DivMod ==
  ASSUME NEW a \in Nat, NEW n \in Nat \ {0}
  PROVE  /\ a % n \in 0 .. n - 1 /\ a \div n \in Nat
         /\ a = (a \div n) * n + (a % n)
         /\ (a \div n) <= a
  <1>1. a % n \in 0 .. n - 1 /\ a \div n \in Nat  BY SMT
  <1>2. a = (a \div n) * n + (a % n)  BY SMT
  <1>3. (a \div n) <= (a \div n) * n  BY <1>1, SMT
  <1> QED  BY <1>1, <1>2, <1>3, SMT

\* A number not below the divisor is divided into at least one part.
LEMMA DivPositive ==
  ASSUME NEW a \in Nat, NEW n \in Nat \ {0}, a > n
  PROVE  a \div n > 0
  <1>1. a = (a \div n) * n + (a % n) /\ a % n \in 0 .. n - 1 /\ a \div n \in Nat
    BY DivMod, Zenon
  <1>2. CASE a \div n = 0  BY <1>1, <1>2
  <1> QED  BY <1>1, <1>2

\* Below the modulus a number is its own remainder.
LEMMA SmallMod ==
  ASSUME NEW n \in Nat \ {0}, NEW a \in 0 .. n - 1
  PROVE  a % n = a /\ (a + n) % n = a
  BY SMT

\* A step less than the modulus does not come back to where it was.
LEMMA ModStep ==
  ASSUME NEW n \in Nat \ {0}, NEW a \in 0 .. n - 1, NEW k \in 1 .. n - 1
  PROVE  (a + k) % n # a
  <1>1. CASE a + k < n  BY <1>1, SmallMod, SMT
  <1>2. CASE a + k >= n
    <2>1. a + k - n \in 0 .. n - 1  BY <1>2, SMT
    <2>2. ((a + k - n) + n) % n = a + k - n  BY <2>1, SmallMod
    <2> QED  BY <2>1, <2>2, SMT
  <1> QED  BY <1>1, <1>2, SMT

\* Multiplying by a natural number keeps the order.
LEMMA TimesMonotone ==
  ASSUME NEW a \in Nat, NEW b \in Nat, NEW n \in Nat, a <= b
  PROVE  a * n <= b * n /\ (a + 1) * n = a * n + n /\ a * n \in Nat
  BY SMT

\* What rtpSendH264Frame divides: the number of whole packets and what remains.
LEMMA Division ==
  ASSUME RtpTypeOK
  PROVE  /\ pktNum \in Nat /\ pktNum <= MaxUnit /\ remainPktSize \in 0 .. MaxPkt - 1
         /\ frameSize = pktNum * MaxPkt + remainPktSize
  <1> frameSize \in Nat /\ frameSize <= MaxUnit /\ MaxPkt \in Nat \ {0} /\ MaxUnit \in Nat
    BY RtpAssumption DEF RtpTypeOK
  <1>1. /\ frameSize % MaxPkt \in 0 .. MaxPkt - 1 /\ frameSize \div MaxPkt \in Nat
        /\ frameSize = (frameSize \div MaxPkt) * MaxPkt + (frameSize % MaxPkt)
        /\ (frameSize \div MaxPkt) <= frameSize
    BY DivMod, Zenon
  <1>2. (frameSize \div MaxPkt) <= MaxUnit
    BY <1>1
  <1> QED  BY <1>1, <1>2, Zenon DEF pktNum, remainPktSize

\* A whole packet of the loop lies within the unit and the byte after it; it is the last of the unit
\* when nothing remains.
LEMMA FragmentFits ==
  ASSUME RtpTypeOK, Position, rtsp = "send", frameSize > MaxPkt, i < pktNum
  PROVE  /\ i + 1 <= pktNum /\ i + 1 \in 0 .. MaxUnit
         /\ pos + MaxPkt = 1 + (i + 1) * MaxPkt
         /\ pos + MaxPkt - 1 <= frameSize
         /\ i = pktNum - 1 /\ remainPktSize = 0 => i # 0 /\ pos + MaxPkt - 1 = frameSize
  <1>1. /\ i \in Nat /\ MaxPkt \in Nat \ {0} /\ MaxUnit \in Nat /\ frameSize \in Nat
        /\ pos = 1 + i * MaxPkt
    BY RtpAssumption DEF RtpTypeOK, Position
  <1>2. /\ pktNum \in Nat /\ pktNum <= MaxUnit /\ remainPktSize \in 0 .. MaxPkt - 1
        /\ frameSize = pktNum * MaxPkt + remainPktSize
    BY Division
  <1>3. i + 1 <= pktNum  BY <1>1, <1>2, SMT
  <1>4. /\ (i + 1) * MaxPkt <= pktNum * MaxPkt
        /\ (i + 1) * MaxPkt = i * MaxPkt + MaxPkt
        /\ i * MaxPkt \in Nat /\ pktNum * MaxPkt \in Nat
    BY <1>1, <1>2, <1>3, TimesMonotone
  <1>5. i = pktNum - 1 => (i + 1) * MaxPkt = pktNum * MaxPkt
    BY <1>1, <1>2
  <1>6. i = 0 => (i + 1) * MaxPkt = MaxPkt
    BY <1>1
  <1> HIDE DEF pktNum, remainPktSize
  <1> QED  BY <1>1, <1>2, <1>3, <1>4, <1>5, <1>6, SMT

\* What is left after the whole packets fits one more packet (299).
LEMMA RemainderFits ==
  ASSUME RtpTypeOK, Position, rtsp = "send", i = pktNum, remainPktSize > 0
  PROVE  pos + remainPktSize - 1 = frameSize /\ pos \in 1 .. MaxUnit
  <1>1. /\ i \in Nat /\ MaxPkt \in Nat \ {0} /\ MaxUnit \in Nat /\ frameSize \in 1 .. MaxUnit
        /\ pos = 1 + i * MaxPkt
    BY RtpAssumption DEF RtpTypeOK, Position
  <1>2. /\ pktNum \in Nat /\ remainPktSize \in 0 .. MaxPkt - 1
        /\ frameSize = pktNum * MaxPkt + remainPktSize
    BY Division
  <1>3. pktNum * MaxPkt \in Nat  BY <1>1, <1>2, TimesMonotone
  <1> HIDE DEF pktNum, remainPktSize
  <1> QED  BY <1>1, <1>2, <1>3, SMT
-----------------------------------------------------------------------------
\* Before any request nothing has been sent and no unit is in hand.
LEMMA RtpInitInv == RtpInit => RtpInv
  <1> SUFFICES ASSUME RtpInit PROVE RtpInv
    OBVIOUS
  <1> USE RtpAssumption DEF RtpInit, NoPacket, Packet
  <1>a. 0 \in 0 .. SeqMod - 1 /\ SeqMod - 1 \in 0 .. SeqMod - 1 /\ 0 \in 0 .. StampMod - 1
        /\ 0 \in 0 .. MaxUnit /\ 1 \in 1 .. MaxUnit + 1
    OBVIOUS
  <1>1. RtpTypeOK  BY <1>a DEF RtpTypeOK, RtspPlaces
  <1> QED  BY <1>1 DEF RtpInv, Numbered, Position, InUnit, Between, AfterUnit, InPlay

\* What a step that sends a packet writes is of its type.
LEMMA SendsType ==
  ASSUME RtpTypeOK, NEW first \in BOOLEAN, NEW end \in BOOLEAN, NEW from \in 0 .. MaxUnit,
         NEW to \in 0 .. MaxUnit, Sends(first, end, from, to)
  PROVE  /\ seq' \in 0 .. SeqMod - 1 /\ timestamp' \in 0 .. StampMod - 1
         /\ frameSize' \in 0 .. MaxUnit
         /\ last' \in [seq : 0 .. SeqMod - 1, timestamp : 0 .. StampMod - 1, start : BOOLEAN,
                       end : BOOLEAN, from : 0 .. MaxUnit, to : 0 .. MaxUnit]
         /\ cut' \in BOOLEAN
  <1>1. seq + 1 \in Nat /\ SeqMod \in Nat \ {0}  BY RtpAssumption DEF RtpTypeOK
  <1>2. (seq + 1) % SeqMod \in 0 .. SeqMod - 1  BY <1>1, DivMod
  <1> QED  BY <1>2 DEF Sends, Packet, RtpTypeOK

\* Every request and every packet keeps the invariant.
LEMMA RtpNextInv == RtpInv /\ [RtpNext]_rtpVars => RtpInv'
  <1> SUFFICES ASSUME RtpInv, [RtpNext]_rtpVars PROVE RtpInv'
    OBVIOUS
  <1> USE DEF RtpInv, InPlay, rtpVars, frameVars
  <1>a. /\ MaxPkt \in Nat \ {0} /\ MaxUnit \in Nat /\ SeqMod \in Nat \ {0, 1}
        /\ StampMod \in Nat \ {0} /\ Tick \in 1 .. StampMod - 1
    BY RtpAssumption
  <1>1. CASE UNCHANGED rtpVars
    BY <1>1 DEF RtpTypeOK, RtspPlaces, Numbered, Position, InUnit, Between, AfterUnit, pktNum, remainPktSize
  <1>2. CASE AcceptClient
    BY <1>2 DEF AcceptClient, RtpTypeOK, RtspPlaces, Numbered, Position, InUnit, Between, AfterUnit
  <1>3. CASE RequestEnds
    BY <1>3 DEF RequestEnds, RtpTypeOK, RtspPlaces, Numbered, Position, InUnit, Between, AfterUnit
  <1>4. CASE PLAY
    <2>1. last' \in [seq : 0 .. SeqMod - 1, timestamp : 0 .. StampMod - 1, start : BOOLEAN,
                     end : BOOLEAN, from : 0 .. MaxUnit, to : 0 .. MaxUnit]
      BY <1>4, <1>a DEF PLAY, NoPacket, Packet
    <2>2. 0 = (SeqMod - 1 + 1) % SeqMod
      <3>1. (0 + SeqMod) % SeqMod = 0  BY <1>a, SmallMod
      <3> QED  BY <3>1, <1>a
    <2>3. last'.seq = SeqMod - 1 /\ last'.end  BY <1>4 DEF PLAY, NoPacket, Packet
    <2>4. RtpTypeOK'
      <3>1. 0 \in 0 .. SeqMod - 1 /\ 0 \in 0 .. StampMod - 1  BY <1>a
      <3> QED  BY <1>4, <2>1, <3>1 DEF PLAY, RtpTypeOK, RtspPlaces
    <2>5. Numbered'  BY <1>4, <2>2, <2>3 DEF PLAY, Numbered
    <2>6. Between' BY <1>4, <2>3 DEF PLAY, Between
    <2> QED  BY <1>4, <2>4, <2>5, <2>6 DEF PLAY, Position, InUnit, AfterUnit
  <1>5. CASE EncoderFails
    BY <1>5 DEF EncoderFails, RtpTypeOK, RtspPlaces, Numbered, Position, InUnit, Between, AfterUnit
  <1>6. CASE NextUnit
    <2>1. RtpTypeOK'  BY <1>6, <1>a DEF NextUnit, RtpTypeOK, RtspPlaces
    <2>2. frameSize' \in Nat /\ frameSize' \div MaxPkt \in Nat
          /\ frameSize' = (frameSize' \div MaxPkt) * MaxPkt + (frameSize' % MaxPkt)
      <3>1. frameSize' \in Nat /\ MaxPkt \in Nat \ {0}  BY <1>6, <1>a DEF NextUnit
      <3> QED  BY <3>1, DivMod, Zenon
    <2>3. Position'
      <3>1. i' = 0 /\ pos' = 1 /\ 0 * MaxPkt = 0 /\ frameSize' \in 1 .. MaxUnit
        BY <1>6, <1>a DEF NextUnit
      <3>2. frameSize' > MaxPkt => 0 < frameSize' \div MaxPkt
        BY <2>2, <1>a, DivPositive
      <3> QED  BY <3>1, <3>2, <2>2 DEF Position, pktNum, remainPktSize
    <2> QED  BY <1>6, <2>1, <2>3 DEF NextUnit, Numbered, InUnit, Between, AfterUnit
  <1>7. CASE UnitDone
    <2>1. timestamp \in 0 .. StampMod - 1 /\ timestamp + Tick \in Nat
      BY <1>a DEF RtpTypeOK
    <2>2. timestamp' \in 0 .. StampMod - 1 /\ timestamp' # timestamp
      BY <1>7, <1>a, <2>1, DivMod, ModStep DEF UnitDone
    <2>3. RtpTypeOK'  BY <1>7, <1>a, <2>2 DEF UnitDone, RtpTypeOK, RtspPlaces
    <2> QED  BY <1>7, <2>2, <2>3 DEF UnitDone, Numbered, Position, InUnit, Between, AfterUnit
  <1>8. CASE SendSingle
    <2>1. frameSize \in 1 .. MaxUnit  BY <1>8 DEF SendSingle, Position
    <2>2. RtpTypeOK'
      <3>1. frameSize - 1 \in 0 .. MaxUnit /\ 0 \in 0 .. MaxUnit  BY <2>1, <1>a
      <3> QED  BY <1>8, <3>1, SendsType DEF SendSingle, RtpTypeOK, RtspPlaces
    <2> QED  BY <1>8, <2>2 DEF SendSingle, Sends, Packet, Numbered, Position, InUnit, Between, AfterUnit
  <1>9. CASE SendFragment
    <2> USE <1>9 DEF SendFragment, FragmentWith, InLoop
    <2>1. /\ i + 1 <= pktNum /\ i + 1 \in 0 .. MaxUnit
          /\ pos + MaxPkt = 1 + (i + 1) * MaxPkt /\ pos + MaxPkt - 1 <= frameSize
          /\ i = pktNum - 1 /\ remainPktSize = 0 => i # 0 /\ pos + MaxPkt - 1 = frameSize
      BY FragmentFits
    <2>2. i \in Nat /\ pos \in 1 .. MaxUnit + 1 /\ frameSize \in 1 .. MaxUnit
          /\ pktNum \in Nat /\ remainPktSize \in 0 .. MaxPkt - 1
      BY Division DEF RtpTypeOK, Position
    <2>3. RtpTypeOK'
      <3> HIDE DEF pktNum, remainPktSize
      <3>1. pos \in 0 .. MaxUnit /\ pos + MaxPkt - 1 \in 0 .. MaxUnit
            /\ pos + MaxPkt \in 1 .. MaxUnit + 1
        BY <1>a, <2>1, <2>2
      <3>2. (i = 0) \in BOOLEAN /\ (i # 0 /\ remainPktSize = 0 /\ i = pktNum - 1) \in BOOLEAN
        OBVIOUS
      <3> QED  BY <3>1, <3>2, <2>1, SendsType DEF RtpTypeOK, RtspPlaces
    <2>4. /\ last'.seq = seq /\ last'.timestamp = timestamp /\ last'.to = pos + MaxPkt - 1
          /\ last'.end = (i # 0 /\ remainPktSize = 0 /\ i = pktNum - 1)
          /\ ~cut' /\ timestamp' = timestamp /\ frameSize' = frameSize
          /\ seq' = (seq + 1) % SeqMod
      BY DEF Sends, Packet
    <2>5. Numbered'  BY <2>4 DEF Numbered
    <2>6. Position'
      <3>1. pktNum' = pktNum /\ remainPktSize' = remainPktSize  BY <2>4 DEF pktNum, remainPktSize
      <3> HIDE DEF pktNum, remainPktSize
      <3> QED  BY <1>a, <2>1, <2>2, <2>4, <3>1 DEF Position
    <2>7. rtsp' = "send" => ~last'.end /\ i' > 0 /\ last'.to = pos' - 1
      <3> HIDE DEF pktNum, remainPktSize
      <3>1. pos' = pos + MaxPkt /\ i' = i + 1  OBVIOUS
      <3>a. last'.to = pos + MaxPkt - 1  BY <2>4
      <3>2. i' > 0 /\ last'.to = pos' - 1
        <4> HIDE DEF SendFragment
        <4> QED  BY <1>a, <3>1, <3>a, <2>2
      <3>3. rtsp' = "send" => ~(remainPktSize = 0 /\ i = pktNum - 1)  OBVIOUS
      <3> QED  BY <2>4, <3>2, <3>3
    <2>8. rtsp' = "sent" => last'.end
      <3> HIDE DEF pktNum, remainPktSize
      <3> QED  BY <2>1, <2>4
    <2> QED  BY <2>2, <2>3, <2>4, <2>5, <2>6, <2>7, <2>8 DEF InUnit, Between, AfterUnit
  <1>10. CASE SendRemainder
    <2>1. pos + remainPktSize - 1 = frameSize /\ pos \in 1 .. MaxUnit /\ frameSize \in 1 .. MaxUnit
      BY <1>10, RemainderFits DEF SendRemainder, Position
    <2>2. RtpTypeOK'
      <3>1. pos \in 0 .. MaxUnit /\ pos + remainPktSize - 1 \in 0 .. MaxUnit
        BY <1>a, <2>1
      <3> QED  BY <1>10, <3>1, SendsType DEF SendRemainder, RtpTypeOK, RtspPlaces
    <2> QED  BY <1>10, <2>2 DEF SendRemainder, Sends, Packet, Numbered, Position, InUnit, Between, AfterUnit
  <1>11. CASE SendFails
    BY <1>11 DEF SendFails, FailsWith, RtpTypeOK, RtspPlaces, Numbered, Position, InUnit, Between, AfterUnit
  <1> QED
    BY <1>1, <1>2, <1>3, <1>4, <1>5, <1>6, <1>7, <1>8, <1>9, <1>10, <1>11 DEF RtpNext

\* Every state that RtpSpec reaches satisfies the invariant.
THEOREM RtpInvariant == RtpSpec => []RtpInv
  <1> QED  BY RtpInitInv, RtpNextInv, PTL DEF RtpSpec

\* The number of a packet is seq, in whichever of the three places it is sent.
LEMMA NumberStep ==
  ASSUME RtpInv, RtpNext, Received
  PROVE  last'.seq = (last.seq + 1) % SeqMod
  <1>1. last'.seq = seq
    BY DEF Received, RtpNext, AcceptClient, RequestEnds, PLAY, EncoderFails, NextUnit, UnitDone,
           SendSingle, SendFragment, FragmentWith, SendRemainder, SendFails, FailsWith, Sends, Packet
  <1>2. seq = (last.seq + 1) % SeqMod
    BY DEF RtpInv, Numbered, InPlay, Received
  <1> QED  BY <1>1, <1>2

\* The packets a client receives are numbered without a gap (239, 290, 307).
THEOREM NumbersConsecutive == RtpSpec => SeqConsecutive
  <1>1. RtpInv /\ [RtpNext]_rtpVars => [Received => last'.seq = (last.seq + 1) % SeqMod]_rtpVars
    BY NumberStep
  <1> QED  BY <1>1, RtpInvariant, PTL DEF RtpSpec, SeqConsecutive

\* The three cases of UnitsWhole: a packet that starts a unit, one that goes on, the unit's end.
Starts ==
  Received /\ last'.start =>
    /\ last.end \/ cut
    /\ last'.from = IF frameSize <= MaxPkt THEN 0 ELSE 1
    /\ ~cut /\ last # NoPacket => last'.timestamp # last.timestamp
Continues ==
  Received /\ ~last'.start =>
    /\ ~last.end /\ ~cut
    /\ last'.timestamp = last.timestamp /\ last'.from = last.to + 1
Ends ==
  rtsp = "send" /\ rtsp' = "sent" /\ ~cut' =>
    last'.end /\ last'.to = IF frameSize <= MaxPkt THEN frameSize - 1 ELSE frameSize

\* What a packet carries follows from where the loop is.
LEMMA UnitStep ==
  ASSUME RtpInv, RtpNext
  PROVE  Starts /\ Continues /\ Ends
  <1> USE DEF Starts, Continues, Ends
  <1>a. /\ MaxPkt \in Nat \ {0} /\ MaxUnit \in Nat
        /\ i \in Nat /\ pos \in Nat /\ frameSize \in Nat /\ RtpTypeOK /\ Position
    BY RtpAssumption DEF RtpInv, RtpTypeOK
  <1>b. rtsp = "send" /\ i = 0 => (last.end \/ cut) /\ (~cut /\ last # NoPacket => last.timestamp # timestamp)
    BY DEF RtpInv, Between
  <1>c. rtsp = "send" /\ i > 0 => ~last.end /\ ~cut /\ last.timestamp = timestamp /\ last.to = pos - 1
    BY DEF RtpInv, InUnit
  <1>1. CASE SendSingle
    <2>1. /\ last'.start /\ last'.end /\ last'.from = 0 /\ last'.to = frameSize - 1
          /\ last'.timestamp = timestamp /\ rtsp = "send" /\ frameSize <= MaxPkt
      BY <1>1 DEF SendSingle, Sends, Packet
    <2>2. i = 0  BY <2>1, <1>a DEF Position
    <2> QED  BY <2>1, <2>2, <1>b DEF Received
  <1>2. CASE SendFragment
    <2>0. /\ last'.start <=> i = 0
          /\ last'.end <=> i # 0 /\ remainPktSize = 0 /\ i = pktNum - 1
      BY <1>2 DEF SendFragment, FragmentWith, InLoop, Sends, Packet
    <2>1. /\ last'.from = pos /\ last'.to = pos + MaxPkt - 1 /\ last'.timestamp = timestamp
          /\ rtsp = "send" /\ frameSize > MaxPkt /\ i < pktNum
          /\ rtsp' = "sent" => i = pktNum - 1 /\ remainPktSize = 0
      BY <1>2 DEF SendFragment, FragmentWith, InLoop, Sends, Packet
    <2>2. i = pktNum - 1 /\ remainPktSize = 0 => i # 0 /\ pos + MaxPkt - 1 = frameSize
      BY <2>1, <1>a, FragmentFits
    <2>3. i = 0 => pos = 1
      BY <2>1, <1>a DEF Position
    <2>4. Starts
      <3>1. CASE i = 0
        <4>1. last'.from = 1 /\ ~(frameSize <= MaxPkt)  BY <3>1, <2>1, <2>3, <1>a
        <4> QED  BY <3>1, <4>1, <2>1, <1>b
      <3> QED  BY <3>1, <2>0
    <2>5. Continues
      <3>1. CASE i = 0  BY <2>0, <3>1
      <3>2. CASE i > 0
        <4>1. pos = last.to + 1
          <5>1. last.to = pos - 1  BY <3>2, <2>1, <1>c
          <5> QED  BY <5>1, <1>a
        <4> QED  BY <4>1, <3>2, <2>1, <1>c
      <3> QED  BY <3>1, <3>2, <1>a
    <2>6. Ends
      <3>1. CASE i = pktNum - 1 /\ remainPktSize = 0
        <4>1. last'.to = frameSize /\ ~(frameSize <= MaxPkt)  BY <3>1, <2>1, <2>2, <1>a
        <4>2. last'.end  BY <3>1, <2>0, <2>2
        <4> QED  BY <4>1, <4>2
      <3> QED  BY <3>1, <2>1
    <2> QED  BY <2>4, <2>5, <2>6
  <1>3. CASE SendRemainder
    <2>1. /\ ~last'.start /\ last'.end /\ last'.from = pos /\ last'.to = pos + remainPktSize - 1
          /\ last'.timestamp = timestamp /\ rtsp = "send" /\ frameSize > MaxPkt
          /\ i = pktNum /\ remainPktSize > 0
      BY <1>3 DEF SendRemainder, Sends, Packet
    <2>2. pos + remainPktSize - 1 = frameSize  BY <2>1, <1>a, RemainderFits
    <2>3. i > 0
      <3>1. pktNum > 0  BY <2>1, <1>a, DivPositive DEF pktNum
      <3> QED  BY <3>1, <2>1
    <2>4. pos = last.to + 1
      <3>1. last.to = pos - 1  BY <2>1, <2>3, <1>c
      <3> QED  BY <3>1, <1>a
    <2>5. Ends  BY <2>1, <2>2, <1>a
    <2> QED  BY <2>1, <2>3, <2>4, <2>5, <1>c
  <1>4. CASE SendFails
    BY <1>4 DEF SendFails, FailsWith, Received
  <1>5. CASE rtsp # "send"
    BY <1>5 DEF Received
  <1> QED
    BY <1>1, <1>2, <1>3, <1>4, <1>5
       DEF RtpNext, AcceptClient, RequestEnds, PLAY, EncoderFails, NextUnit, UnitDone

\* A unit arrives whole or cut at a failed send, whatever its size and RTP_MAX_PKT_SIZE (218-315).
THEOREM UnitsArriveWhole == RtpSpec => UnitsWhole
  <1>1. RtpInv /\ [RtpNext]_rtpVars => [Starts /\ Continues /\ Ends]_rtpVars
    BY UnitStep
  <1> QED  BY <1>1, RtpInvariant, PTL DEF RtpSpec, UnitsWhole, Starts, Continues, Ends

-----------------------------------------------------------------------------
(* The sum of the programs.                                                *)

\* Only the server needs all of its invariant again; of a server that does not run it is enough
\* that what was true of its fields stays so.
ProgramInv ==
  /\ part = "tcp" => TcpInv
  /\ ThreadInv /\ TypeOK /\ TableFaithful /\ WriteKeepsItsClient
  /\ PushTypeOK
  /\ RtpInv

\* What the invariant of the server says of it.
LEMMA TcpInvGives == TcpInv => ThreadInv /\ TypeOK /\ TableFaithful /\ WriteKeepsItsClient
  BY DEF TcpInv, LifeInv, TableInv, Clearing, LockInv, TableFaithful, WriteKeepsItsClient

\* Each program starts in its own invariant.
LEMMA ProgramInitInv == ProgramInit => ProgramInv
  BY TcpInitInv, TcpInvGives, PushInitInv, RtpInitInv DEF ProgramInit, ProgramInv

\* Fields that a program leaves alone keep what was true of them.
LEMMA TcpFrozen ==
  ASSUME TypeOK, TableFaithful, WriteKeepsItsClient, ThreadTypeOK', UNCHANGED tcpVars
  PROVE  TypeOK' /\ TableFaithful' /\ WriteKeepsItsClient'
  <1> USE DEF tcpVars, tableVars, procVars, worldVars, userVars, historyVars, Slots
  <1>1. TypeOK'  BY DEF TypeOK
  <1>2. TableFaithful' /\ WriteKeepsItsClient'  BY DEF TableFaithful, WriteKeepsItsClient
  <1> QED  BY <1>1, <1>2

LEMMA PushFrozen == PushTypeOK /\ UNCHANGED pushVars => PushTypeOK'
  BY DEF PushTypeOK, pushVars

LEMMA RtpFrozen == RtpInv /\ UNCHANGED rtpVars => RtpInv'
  BY RtpNextInv

LEMMA ThreadFrozen == ThreadInv /\ UNCHANGED threadVars => ThreadInv'
  BY ThreadNextInv

\* A step of one program keeps the invariant of the three.
LEMMA ProgramNextInv == ProgramInv /\ [ProgramNext]_programVars => ProgramInv'
  <1> SUFFICES ASSUME ProgramInv, [ProgramNext]_programVars PROVE ProgramInv'
    OBVIOUS
  <1>1. CASE OfTcp(TcpNext)
    <2>1. part = "tcp" /\ part' = part /\ TcpNext /\ UNCHANGED <<pushVars, rtpVars>>
      BY <1>1 DEF OfTcp
    <2>2. TcpInv'  BY <2>1, TcpNextInv DEF ProgramInv
    <2>3. ThreadInv' /\ TypeOK' /\ TableFaithful' /\ WriteKeepsItsClient'  BY <2>2, TcpInvGives, PTL
    <2>4. PushTypeOK' /\ RtpInv'  BY <2>1, PushFrozen, RtpFrozen DEF ProgramInv
    <2> QED  BY <2>2, <2>3, <2>4 DEF ProgramInv
  <1>2. CASE OfPush(PushNext)
    <2>1. part = "push" /\ part' = part /\ PushNext /\ UNCHANGED <<tcpVars, rtpVars>>
      BY <1>2 DEF OfPush
    <2>2. ThreadInv'  BY <2>1, PushThreadSteps, ThreadNextInv DEF ProgramInv
    <2>3. TypeOK' /\ TableFaithful' /\ WriteKeepsItsClient'
      BY <2>1, <2>2, TcpFrozen DEF ProgramInv, ThreadInv
    <2>4. PushTypeOK' /\ RtpInv'  BY <2>1, PushNextInv, RtpFrozen DEF ProgramInv
    <2> QED  BY <2>1, <2>2, <2>3, <2>4 DEF ProgramInv
  <1>3. CASE OfRtp(RtpNext)
    <2>1. part = "rtp" /\ part' = part /\ RtpNext /\ UNCHANGED <<threadVars, tcpVars, pushVars>>
      BY <1>3 DEF OfRtp
    <2>2. ThreadInv' /\ PushTypeOK' /\ RtpInv'
      BY <2>1, ThreadFrozen, PushFrozen, RtpNextInv DEF ProgramInv
    <2>3. TypeOK' /\ TableFaithful' /\ WriteKeepsItsClient'
      BY <2>1, <2>2, TcpFrozen DEF ProgramInv, ThreadInv
    <2> QED  BY <2>1, <2>2, <2>3 DEF ProgramInv
  <1>4. CASE UNCHANGED programVars
    <2>1. UNCHANGED <<part, threadVars, tcpVars, pushVars, rtpVars>>  BY <1>4 DEF programVars
    <2>2. ThreadInv' /\ PushTypeOK' /\ RtpInv'
      BY <2>1, ThreadFrozen, PushFrozen, RtpFrozen DEF ProgramInv
    <2>3. TypeOK' /\ TableFaithful' /\ WriteKeepsItsClient'
      BY <2>1, <2>2, TcpFrozen DEF ProgramInv, ThreadInv
    <2>4. part' = "tcp" => TcpInv'
      BY <2>1, TcpNextInv DEF ProgramInv, vars
    <2> QED  BY <2>2, <2>3, <2>4 DEF ProgramInv
  <1> QED  BY <1>1, <1>2, <1>3, <1>4 DEF ProgramNext

LEMMA ProgramInvariant == ProgramSpec => []ProgramInv
  <1> QED  BY ProgramInitInv, ProgramNextInv, PTL DEF ProgramSpec

\* In each of the three programs every field is of its type.
THEOREM ProgramTypes == ProgramSpec => []ProgramTypeOK
  <1>1. ProgramInv => ProgramTypeOK  BY DEF ProgramInv, ProgramTypeOK, RtpInv
  <1> QED  BY <1>1, ProgramInvariant, PTL

\* The safety that the run checks: the server's table and its writes, and the join.
THEOREM ProgramSafety ==
  ProgramSpec => [](TableFaithful /\ WriteKeepsItsClient /\ JoinWaits)
  <1>1. ProgramInv => TableFaithful /\ WriteKeepsItsClient /\ JoinWaits
    BY ThreadInvGives DEF ProgramInv
  <1> QED  BY <1>1, ProgramInvariant, PTL

\* A step of the sum is one of the server, or leaves its clients alone; so ClosedForAReason holds.
THEOREM ProgramCloses == ProgramSpec => ClosedForAReason
  <1> DEFINE Reasons ==
        \A c \in Clients : InTable(c) /\ peer[c] # "gone" /\ peer'[c] = "gone"
          => c \in doomed \/ peer[c] \in {"data", "ended"}
  <1>1. ProgramInv /\ [ProgramNext]_programVars => [Reasons]_<<threadVars, tcpVars>>
    <2> SUFFICES ASSUME ProgramInv, [ProgramNext]_programVars PROVE [Reasons]_<<threadVars, tcpVars>>
      OBVIOUS
    <2>1. CASE OfTcp(TcpNext)
      <3>1. TcpInv /\ TcpNext  BY <2>1 DEF OfTcp, ProgramInv
      <3> QED  BY <3>1, ClosedStep
    <2>2. CASE UNCHANGED peer  BY <2>2
    <2> QED
      BY <2>1, <2>2 DEF ProgramNext, OfPush, OfRtp, tcpVars, worldVars, programVars
  <1> QED  BY <1>1, ProgramInvariant, PTL DEF ProgramSpec, ClosedForAReason

\* A packet of the sum's behaviours is one of the RTSP server, with its number and its bytes.
THEOREM ProgramPackets == ProgramSpec => SeqConsecutive /\ UnitsWhole
  <1>1. ProgramInv /\ [ProgramNext]_programVars =>
          [(Received => last'.seq = (last.seq + 1) % SeqMod) /\ Starts /\ Continues /\ Ends]_rtpVars
    <2>1. ProgramInv /\ OfRtp(RtpNext) =>
            (Received => last'.seq = (last.seq + 1) % SeqMod) /\ Starts /\ Continues /\ Ends
      BY NumberStep, UnitStep DEF OfRtp, ProgramInv
    <2>2. [ProgramNext]_programVars => OfRtp(RtpNext) \/ UNCHANGED rtpVars
      BY DEF ProgramNext, OfTcp, OfPush, programVars
    <2> QED  BY <2>1, <2>2
  <1> QED
    BY <1>1, ProgramInvariant, PTL
       DEF ProgramSpec, SeqConsecutive, UnitsWhole, Starts, Continues, Ends
=============================================================================
