------------------------ MODULE NetworkSessionProofs ------------------------
(***************************************************************************)
(* Proofs about NetworkSession, for any versions, any client and any       *)
(* number of packets in a frame: where the compression switch is, what is  *)
(* answered to whom, and in which order a patient client hears it.         *)
(***************************************************************************)
EXTENDS NetworkSession, SequenceTheorems, TLAPS

-----------------------------------------------------------------------------
(* What is under way *)

\* The packets of the frames of a channel.
Carried(channel) == UNION {Range(channel[k].packets) : k \in DOMAIN channel}

\* What the client has asked and main() has not handled yet.
Asked == Range(batch) \cup Carried(toServer)

\* What the session has said and the client has not read yet.
Told == Range(sendQueue) \cup Carried(toClient)

-----------------------------------------------------------------------------
(* Sequences, channels and frames *)

LEMMA HeadAndTail ==
  ASSUME NEW S, NEW s \in Seq(S), s # <<>>
  PROVE  /\ Head(s) \in S /\ Tail(s) \in Seq(S) /\ Head(s) = s[1]
         /\ Len(s) \in Nat \ {0} /\ DOMAIN s = 1 .. Len(s)
         /\ Len(Tail(s)) = Len(s) - 1 /\ DOMAIN Tail(s) = 1 .. Len(s) - 1
         /\ \A k \in 1 .. Len(s) - 1 : Tail(s)[k] = s[k + 1]
<1>1. Head(s) \in S /\ Tail(s) \in Seq(S) /\ Len(Tail(s)) = Len(s) - 1
  BY HeadTailProperties
<1>2. Len(s) \in Nat \ {0} /\ DOMAIN s = 1 .. Len(s)
  BY EmptySeq, LenProperties
<1>3. DOMAIN Tail(s) = 1 .. Len(s) - 1
  BY <1>1, LenProperties
<1>4. \A k \in 1 .. Len(s) - 1 : Tail(s)[k] = s[k + 1]
  BY HeadTailProperties
<1> QED BY <1>1, <1>2, <1>3, <1>4

LEMMA RangeTail ==
  ASSUME NEW S, NEW s \in Seq(S), s # <<>>
  PROVE  Head(s) \in Range(s) /\ Range(Tail(s)) \subseteq Range(s)
<1>1. 1 \in DOMAIN s /\ s[1] = Head(s)
  BY HeadAndTail
<1>2. \A k \in DOMAIN Tail(s) : k + 1 \in DOMAIN s /\ Tail(s)[k] = s[k + 1]
  BY HeadAndTail
<1> QED BY <1>1, <1>2 DEF Range

LEMMA One ==
  ASSUME NEW S, NEW e \in S
  PROVE  <<e>> \in Seq(S) /\ Len(<<e>>) = 1 /\ DOMAIN <<e>> = {1} /\ Range(<<e>>) = {e}
BY DEF Range

LEMMA FrameType ==
  ASSUME NEW S, NEW h \in BOOLEAN, NEW p \in Seq(S)
  PROVE  Frame(h, p) \in FrameOf(S) /\ Frame(h, p).header = h /\ Frame(h, p).packets = p
BY DEF Frame, FrameOf

LEMMA CarriedAppend ==
  ASSUME NEW S, NEW c \in Seq(FrameOf(S)), NEW f \in FrameOf(S)
  PROVE  /\ Append(c, f) \in Seq(FrameOf(S))
         /\ Len(c) \in Nat /\ DOMAIN c = 1 .. Len(c)
         /\ Len(Append(c, f)) = Len(c) + 1 /\ DOMAIN Append(c, f) = 1 .. Len(c) + 1
         /\ Append(c, f)[Len(c) + 1] = f
         /\ \A k \in 1 .. Len(c) : Append(c, f)[k] = c[k]
         /\ Carried(Append(c, f)) = Carried(c) \cup Range(f.packets)
<1>1. /\ Append(c, f) \in Seq(FrameOf(S))
      /\ Len(c) \in Nat /\ DOMAIN c = 1 .. Len(c)
      /\ Len(Append(c, f)) = Len(c) + 1
      /\ Append(c, f)[Len(c) + 1] = f
      /\ \A k \in 1 .. Len(c) : Append(c, f)[k] = c[k]
  BY AppendProperties, LenProperties
<1>2. DOMAIN Append(c, f) = 1 .. Len(c) + 1
  BY <1>1, LenProperties
<1>3. DOMAIN Append(c, f) = DOMAIN c \cup {Len(c) + 1}
  BY <1>1, <1>2
<1>4. Carried(Append(c, f)) = Carried(c) \cup Range(f.packets)
  BY <1>1, <1>3 DEF Carried
<1> QED BY <1>1, <1>2, <1>4

LEMMA CarriedTail ==
  ASSUME NEW S, NEW c \in Seq(FrameOf(S)), c # <<>>
  PROVE  Range(Head(c).packets) \subseteq Carried(c) /\ Carried(Tail(c)) \subseteq Carried(c)
<1>1. 1 \in DOMAIN c /\ c[1] = Head(c)
  BY HeadAndTail
<1>2. \A k \in DOMAIN Tail(c) : k + 1 \in DOMAIN c /\ Tail(c)[k] = c[k + 1]
  BY HeadAndTail
<1>3. Carried(Tail(c)) \subseteq Carried(c)
  BY <1>2 DEF Carried
<1> QED BY <1>1, <1>3 DEF Carried

-----------------------------------------------------------------------------
(* Type correctness *)

LEMMA TypeInit == Init => TypeOK
<1>1. \A S : <<>> \in Seq(S)
  BY EmptySeq
<1> QED BY <1>1 DEF Init, TypeOK

LEMMA AnswerTypes ==
  /\ \A version : FailureStatus(version) \in ServerPacket
  /\ \A id : Reply(id) \in ServerPacket
  /\ "NetworkSettings" \in ServerPacket
  /\ <<"LoginSuccess", "ResourcePacksInfo">> \in Seq(ServerPacket)
BY DEF FailureStatus, Reply, ServerPacket

LEMMA SendNowType ==
  ASSUME TypeOK, NEW p \in ServerPacket, SendNow(p)
  PROVE  toClient' \in Seq(FrameOf(ServerPacket)) /\ sendQueue' \in Seq(ServerPacket)
<1>1. Frame(compressionEnabled, <<p>>) \in FrameOf(ServerPacket)
  BY One, FrameType DEF TypeOK
<1> QED BY <1>1, AppendProperties DEF SendNow, TypeOK

LEMMA BatchType ==
  ASSUME TypeOK, batch # <<>>
  PROVE  Head(batch) \in ClientPacket /\ Tail(batch) \in Seq(ClientPacket)
BY HeadTailProperties DEF TypeOK

LEMMA PollType == TypeOK /\ Poll => TypeOK'
<1> SUFFICES ASSUME TypeOK, Poll
             PROVE  TypeOK'
  OBVIOUS
<1> USE EmptySeq DEF sessionVars, threadVars, clientVars
<1>1. toServer # <<>> =>
        Head(toServer) \in FrameOf(ClientPacket) /\ Tail(toServer) \in Seq(FrameOf(ClientPacket))
  BY HeadTailProperties DEF TypeOK
<1>2. CASE ReceiveFrame
  <2>1. batch' \in Seq(ClientPacket)
    BY <1>1, <1>2 DEF ReceiveFrame, FrameOf
  <2> QED BY <1>1, <1>2, <2>1 DEF ReceiveFrame, TypeOK
<1>3. CASE MisreadFrame
  BY <1>1, <1>3 DEF MisreadFrame, TypeOK
<1>4. CASE HandleRequestNetworkSettings
  <2>1. \E p \in ServerPacket : SendNow(p)
    BY <1>4, AnswerTypes DEF HandleRequestNetworkSettings, AnswerSettings, RejectVersion
  <2>2. toClient' \in Seq(FrameOf(ServerPacket)) /\ sendQueue' \in Seq(ServerPacket)
    BY <2>1, SendNowType
  <2> QED BY <1>4, <2>2, BatchType DEF HandleRequestNetworkSettings, Handles, AnswerSettings,
                                      RejectVersion, Continue, DropRest, TypeOK
<1>5. CASE HandleLogin
  <2>1. toClient' \in Seq(FrameOf(ServerPacket)) /\ sendQueue' \in Seq(ServerPacket)
    <3>1. CASE GrantLogin
      BY <3>1, AnswerTypes, ConcatProperties DEF GrantLogin, SendLater, TypeOK
    <3>2. CASE SendNow(FailureStatus(Head(batch).version))
      BY <3>2, AnswerTypes, SendNowType
    <3> QED BY <1>5, <3>1, <3>2 DEF HandleLogin, RejectVersion
  <2> QED BY <1>5, <2>1, BatchType DEF HandleLogin, Handles, RejectVersion, Continue, DropRest,
                                      TypeOK
<1>6. CASE HandleBadLogin
  BY <1>6 DEF HandleBadLogin, TypeOK
<1>7. CASE HandleRefused
  BY <1>7, BatchType, ConstantsAssumption DEF HandleRefused, Handles, MarkRefusal, Continue, TypeOK
<1>8. CASE HandleCompleted
  BY <1>8, BatchType DEF HandleCompleted, Handles, Continue, TypeOK
<1>9. CASE HandleUnknown
  BY <1>9 DEF HandleUnknown, DropRest, TypeOK
<1>10. ASSUME NEW id \in {"SendPacks", "HaveAllPacks"}, HandleAnsweredResponse(id)
       PROVE  TypeOK'
  <2>1. toClient' \in Seq(FrameOf(ServerPacket)) /\ sendQueue' \in Seq(ServerPacket)
    BY <1>10, AnswerTypes, SendNowType DEF HandleAnsweredResponse
  <2> QED BY <1>10, <2>1, BatchType DEF HandleAnsweredResponse, Handles, Continue, TypeOK
<1>11. CASE EndReceive
  BY <1>11 DEF EndReceive, TypeOK
<1>12. CASE Tick
  <2>1. Frame(compressionEnabled, sendQueue) \in FrameOf(ServerPacket)
    BY FrameType DEF TypeOK
  <2>2. toClient' \in Seq(FrameOf(ServerPacket))
    BY <1>12, <2>1, AppendProperties DEF Tick, TypeOK
  <2> QED BY <1>12, <2>2 DEF Tick, TypeOK
<1>13. CASE Cleanup
  BY <1>13 DEF Cleanup, TypeOK
<1> QED BY <1>2, <1>3, <1>4, <1>5, <1>6, <1>7, <1>8, <1>9, <1>10, <1>11, <1>12, <1>13 DEF Poll

\* What a client sends is made of packets.
LEMMA EagerPackets ==
  ASSUME NEW n \in 1 .. MaxBatch, NEW packets \in [1 .. n -> Packet(EagerVersion)]
  PROVE  packets \in Seq(ClientPacket)
<1>1. Packet(EagerVersion) \subseteq ClientPacket
  BY ConstantsAssumption DEF Packet, ClientPacket
<1>2. n \in Nat
  BY ConstantsAssumption
<1>3. packets \in Seq(Packet(EagerVersion))
  BY <1>2, IsASeq
<1> QED BY <1>1, <1>3, SeqMonotonic

LEMMA SendType ==
  ASSUME TypeOK, NEW packets \in Seq(ClientPacket), ClientSends(packets)
  PROVE  TypeOK'
<1>1. Frame(clientCompression, packets) \in FrameOf(ClientPacket)
  BY FrameType DEF TypeOK
<1>2. toServer' \in Seq(FrameOf(ClientPacket)) /\ sent' \in Seq(ClientPacket)
  BY <1>1, AppendProperties, ConcatProperties DEF ClientSends, TypeOK
<1> QED BY <1>2 DEF ClientSends, TypeOK, sessionVars, threadVars

\* A step of a client that sends, whichever client it is.
LEMMA Sending ==
  ASSUME SendPatiently \/ SendEagerly
  PROVE  \E packets \in Seq(ClientPacket) : ClientSends(packets)
<1>1. CASE SendPatiently
  BY <1>1, One DEF SendPatiently
<1>2. CASE SendEagerly
  BY <1>2, EagerPackets DEF SendEagerly
<1> QED BY <1>1, <1>2

LEMMA ReceiveType == TypeOK /\ ClientReceives => TypeOK'
<1> SUFFICES ASSUME TypeOK, ClientReceives
             PROVE  TypeOK'
  OBVIOUS
<1>1. toClient # <<>>
  BY DEF ClientReceives
<1>2. Head(toClient) \in FrameOf(ServerPacket) /\ Tail(toClient) \in Seq(FrameOf(ServerPacket))
  BY <1>1, HeadTailProperties DEF TypeOK
<1>3. got \o Head(toClient).packets \in Seq(ServerPacket)
  BY <1>2, ConcatProperties DEF FrameOf, TypeOK
<1>4. got' \in Seq(ServerPacket) /\ clientCompression' \in BOOLEAN /\ clientMisread' \in BOOLEAN
  BY <1>3 DEF ClientReceives, TypeOK
<1>5. toClient' \in Seq(FrameOf(ServerPacket))
  BY <1>2 DEF ClientReceives
<1> QED BY <1>4, <1>5 DEF ClientReceives, TypeOK, sessionVars, threadVars

LEMMA TypeStep == TypeOK /\ [Next]_vars => TypeOK'
<1> SUFFICES ASSUME TypeOK, [Next]_vars
             PROVE  TypeOK'
  OBVIOUS
<1>1. CASE SendPatiently \/ SendEagerly
  BY <1>1, Sending, SendType
<1>2. CASE UNCHANGED vars
  BY <1>2 DEF TypeOK, vars, sessionVars, threadVars, clientVars
<1> QED BY <1>1, <1>2, PollType, ReceiveType DEF Next

\* TypeOK of NetworkSession: the channels only carry frames of packets that
\* there are, whatever is pipelined and wherever a frame is misread.
THEOREM TypeCorrect == Spec => []TypeOK
BY TypeInit, TypeStep, PTL DEF Spec

-----------------------------------------------------------------------------
(* What a step says and asks *)

\* The answer to a packet that leaves at once.
Answer(packet) ==
  CASE packet.id = "RequestNetworkSettings" ->
         IF isSupportedProtocol(packet.version) THEN "NetworkSettings"
         ELSE FailureStatus(packet.version)
    [] packet.id = "Login" -> FailureStatus(packet.version)
    [] packet.id \in {"SendPacks", "HaveAllPacks"} -> Reply(packet.id)

Silent == UNCHANGED <<sendQueue, toClient, compressionEnabled>>
Answers ==
  /\ batch # <<>>
  /\ Head(batch).id \in {"RequestNetworkSettings", "Login", "SendPacks", "HaveAllPacks"}
  /\ Head(batch).id = "Login" => ~isSupportedProtocol(Head(batch).version)
  /\ SendNow(Answer(Head(batch)))
  /\ compressionEnabled' = (compressionEnabled \/ Answer(Head(batch)) = "NetworkSettings")
Grants ==
  /\ batch # <<>> /\ Head(batch).id = "Login" /\ isSupportedProtocol(Head(batch).version)
  /\ GrantLogin /\ UNCHANGED compressionEnabled
Flushes ==
  /\ toClient' = Append(toClient, Frame(compressionEnabled, sendQueue))
  /\ sendQueue' = <<>> /\ UNCHANGED compressionEnabled
Drops == sendQueue' = <<>> /\ UNCHANGED <<toClient, compressionEnabled>>

\* The answer belongs to the switch.
LEMMA AnswerIs ==
  ASSUME NEW packet \in ClientPacket,
         packet.id \in {"RequestNetworkSettings", "Login", "SendPacks", "HaveAllPacks"}
  PROVE  /\ Answer(packet) \in ServerPacket \ {"LoginSuccess", "ResourcePacksInfo"}
         /\ Answer(packet) = "NetworkSettings" <=>
              packet.id = "RequestNetworkSettings" /\ isSupportedProtocol(packet.version)
         /\ Answer(packet) = "ResourcePackDataInfo" <=> packet.id = "SendPacks"
         /\ Answer(packet) = "ResourcePackStack" <=> packet.id = "HaveAllPacks"
         /\ Answer(packet) = "LoginFailedClient" =>
              packet.id \in Versioned /\ packet.version < currentProtocol
         /\ Answer(packet) = "LoginFailedServer" =>
              packet.id \in Versioned /\ ~(packet.version < currentProtocol)
         /\ Answer(packet) \in {"LoginFailedClient", "LoginFailedServer"} =>
              packet.id = "Login" \/ ~isSupportedProtocol(packet.version)
BY DEF Answer, FailureStatus, Reply, ServerPacket, Versioned

\* A step of the main thread says one of these things to the client.
LEMMA MainSays ==
  ASSUME TypeOK, Poll
  PROVE  /\ Silent \/ Answers \/ Grants \/ Flushes \/ Drops
         /\ UNCHANGED <<eager, clientCompression, got, sent, clientMisread>>
<1> USE DEF sessionVars, threadVars, clientVars
<1>1. CASE HandleRequestNetworkSettings
  <2>1. CASE isSupportedProtocol(Head(batch).version)
    BY <1>1, <2>1 DEF HandleRequestNetworkSettings, Handles, AnswerSettings, Answers, Answer
  <2>2. CASE ~isSupportedProtocol(Head(batch).version)
    <3>1. FailureStatus(Head(batch).version) # "NetworkSettings"
      BY DEF FailureStatus
    <3> QED BY <1>1, <2>2, <3>1 DEF HandleRequestNetworkSettings, Handles, RejectVersion, Answers,
                               Answer, TypeOK
  <2> QED BY <2>1, <2>2
<1>2. CASE HandleLogin
  <2>1. CASE isSupportedProtocol(Head(batch).version)
    BY <1>2, <2>1 DEF HandleLogin, Handles, Grants
  <2>2. CASE ~isSupportedProtocol(Head(batch).version)
    <3>1. FailureStatus(Head(batch).version) # "NetworkSettings"
      BY DEF FailureStatus
    <3> QED BY <1>2, <2>2, <3>1 DEF HandleLogin, Handles, RejectVersion, Answers, Answer, TypeOK
  <2> QED BY <2>1, <2>2
<1>3. ASSUME NEW id \in {"SendPacks", "HaveAllPacks"}, HandleAnsweredResponse(id)
      PROVE  Answers /\ UNCHANGED <<eager, clientCompression, got, sent, clientMisread>>
  <2>1. Reply(id) # "NetworkSettings"
    BY DEF Reply
  <2> QED BY <1>3, <2>1 DEF HandleAnsweredResponse, Handles, Answers, Answer, TypeOK
<1>4. CASE ReceiveFrame \/ MisreadFrame \/ EndReceive \/ Cleanup
  BY <1>4 DEF ReceiveFrame, MisreadFrame, EndReceive, Cleanup, Silent
<1>5. CASE HandleBadLogin \/ HandleRefused \/ HandleCompleted \/ HandleUnknown
  BY <1>5 DEF HandleBadLogin, HandleRefused, HandleCompleted, HandleUnknown, Silent
<1>6. CASE Tick
  BY <1>6 DEF Tick, Flushes, Drops
<1> QED BY <1>1, <1>2, <1>3, <1>4, <1>5, <1>6 DEF Poll

\* What is told afterwards: what was, and what the packet at hand brings.
LEMMA MainTells ==
  ASSUME TypeOK, Poll
  PROVE  \/ Told' \subseteq Told
         \/ Answers /\ Told' \subseteq Told \cup {Answer(Head(batch))}
         \/ Grants /\ Told' \subseteq Told \cup {"LoginSuccess", "ResourcePacksInfo"}
<1>1. CASE Silent
  BY <1>1 DEF Silent, Told, Carried
<1>2. CASE Answers
  <2>1. Head(batch) \in ClientPacket
    BY <1>2, BatchType DEF Answers
  <2> DEFINE p == Answer(Head(batch))
  <2>2. p \in ServerPacket
    BY <1>2, <2>1, AnswerIs DEF Answers
  <2> HIDE DEF p
  <2>3. Frame(compressionEnabled, <<p>>) \in FrameOf(ServerPacket)
        /\ Range(Frame(compressionEnabled, <<p>>).packets) = {p}
    <3>1. <<p>> \in Seq(ServerPacket) /\ Range(<<p>>) = {p}
      BY <2>2, One
    <3>2. compressionEnabled \in BOOLEAN
      BY DEF TypeOK
    <3> QED BY <3>1, <3>2, FrameType
  <2>4. toClient' = Append(toClient, Frame(compressionEnabled, <<p>>)) /\ sendQueue' = sendQueue
    BY <1>2 DEF Answers, SendNow, p
  <2>5. Carried(toClient') = Carried(toClient) \cup {p}
    <3>1. toClient \in Seq(FrameOf(ServerPacket))
      BY DEF TypeOK
    <3> QED BY <2>3, <2>4, <3>1, CarriedAppend
  <2> QED BY <1>2, <2>4, <2>5 DEF Told, Carried, p
<1>3. CASE Grants
  <2> DEFINE new == <<"LoginSuccess", "ResourcePacksInfo">>
  <2>1. sendQueue' = sendQueue \o new /\ toClient' = toClient /\ new \in Seq(ServerPacket)
    BY <1>3, AnswerTypes DEF Grants, GrantLogin, SendLater
  <2>2. Range(new) = {"LoginSuccess", "ResourcePacksInfo"}
    BY DEF Range
  <2> HIDE DEF new
  <2>3. Range(sendQueue') = Range(sendQueue) \cup Range(new)
    BY <2>1, RangeConcatenation DEF TypeOK
  <2> QED BY <1>3, <2>1, <2>2, <2>3 DEF Told, Carried
<1>4. CASE Flushes
  <2>1. Frame(compressionEnabled, sendQueue) \in FrameOf(ServerPacket)
        /\ Frame(compressionEnabled, sendQueue).packets = sendQueue
    BY FrameType DEF TypeOK
  <2>2. Carried(toClient') = Carried(toClient) \cup Range(sendQueue)
    BY <1>4, <2>1, CarriedAppend DEF Flushes, TypeOK
  <2>3. Range(sendQueue') = {}
    BY <1>4 DEF Flushes, Range
  <2> QED BY <2>2, <2>3 DEF Told, Carried
<1>5. CASE Drops
  <2>1. Range(sendQueue') = {}
    BY <1>5 DEF Drops, Range
  <2> QED BY <1>5, <2>1 DEF Drops, Told, Carried
<1> QED BY <1>1, <1>2, <1>3, <1>4, <1>5, MainSays

\* The main thread makes no packet of a client.
LEMMA MainAsks == TypeOK /\ Poll => Asked' \subseteq Asked
<1> SUFFICES ASSUME TypeOK, Poll
             PROVE  Asked' \subseteq Asked
  OBVIOUS
<1> USE DEF sessionVars, threadVars
<1>1. CASE ReceiveFrame
  <2>1. toServer # <<>> /\ toServer' = Tail(toServer)
    BY <1>1 DEF ReceiveFrame
  <2>2. Range(Head(toServer).packets) \subseteq Carried(toServer)
        /\ Carried(Tail(toServer)) \subseteq Carried(toServer)
    BY <2>1, CarriedTail DEF TypeOK
  <2>3. batch' = Head(toServer).packets \/ batch' = <<>>
    BY <1>1 DEF ReceiveFrame
  <2>4. Range(<<>>) = {}
    BY DEF Range
  <2>5. Range(batch') \subseteq Carried(toServer)
    BY <2>2, <2>3, <2>4
  <2> QED BY <2>1, <2>2, <2>5 DEF Asked, Carried
<1>2. CASE MisreadFrame
  <2>1. toServer # <<>> /\ toServer' = Tail(toServer) /\ batch' = batch
    BY <1>2 DEF MisreadFrame
  <2>2. Carried(Tail(toServer)) \subseteq Carried(toServer)
    BY <2>1, CarriedTail DEF TypeOK
  <2> QED BY <2>1, <2>2 DEF Asked, Carried
<1>3. CASE ~ReceiveFrame /\ ~MisreadFrame
  <2>1. toServer' = toServer /\ (batch' = batch \/ batch' = <<>> \/ (batch # <<>> /\ batch' = Tail(batch)))
    <3>1. CASE HandleRequestNetworkSettings \/ HandleLogin
      BY <3>1 DEF HandleRequestNetworkSettings, HandleLogin, RejectVersion, Handles, Continue, DropRest
    <3>2. CASE HandleBadLogin \/ HandleRefused \/ HandleCompleted \/ HandleUnknown
      BY <3>2 DEF HandleBadLogin, HandleRefused, HandleCompleted, HandleUnknown, Handles, Continue,
                  DropRest
    <3>3. ASSUME NEW id, HandleAnsweredResponse(id)
          PROVE  toServer' = toServer /\ batch # <<>> /\ batch' = Tail(batch)
      BY <3>3 DEF HandleAnsweredResponse, Handles, Continue
    <3>4. CASE EndReceive \/ Tick \/ Cleanup
      BY <3>4 DEF EndReceive, Tick, Cleanup
    <3> QED BY <1>3, <3>1, <3>2, <3>3, <3>4 DEF Poll
  <2>2. Range(<<>>) = {}
    BY DEF Range
  <2>3. batch # <<>> => Range(Tail(batch)) \subseteq Range(batch)
    BY RangeTail DEF TypeOK
  <2>4. Range(batch') \subseteq Range(batch)
    BY <2>1, <2>2, <2>3
  <2> QED BY <2>1, <2>4 DEF Asked, Carried
<1> QED BY <1>1, <1>2, <1>3

LEMMA AtHand ==
  ASSUME TypeOK, batch # <<>>
  PROVE  Head(batch) \in Asked
BY RangeTail DEF Asked, TypeOK

LEMMA ClientAsks ==
  ASSUME TypeOK, NEW packets \in Seq(ClientPacket), ClientSends(packets)
  PROVE  /\ Asked' = Asked \cup Range(packets) /\ Range(sent') = Range(sent) \cup Range(packets)
         /\ Told' = Told
<1>1. Frame(clientCompression, packets) \in FrameOf(ClientPacket)
      /\ Frame(clientCompression, packets).packets = packets
  BY FrameType DEF TypeOK
<1>2. Carried(toServer') = Carried(toServer) \cup Range(packets)
  BY <1>1, CarriedAppend DEF ClientSends, TypeOK
<1>3. Range(sent') = Range(sent) \cup Range(packets)
  BY RangeConcatenation DEF ClientSends, TypeOK
<1> QED BY <1>2, <1>3 DEF ClientSends, Asked, Told, Carried, sessionVars, threadVars

LEMMA ClientHears ==
  ASSUME TypeOK, ClientReceives
  PROVE  /\ Told' \subseteq Told /\ Asked' = Asked
         /\ toClient # <<>> /\ Range(Head(toClient).packets) \subseteq Told
         /\ \/ UNCHANGED got
            \/ /\ got' = got \o Head(toClient).packets
               /\ Range(got') = Range(got) \cup Range(Head(toClient).packets)
<1>1. toClient # <<>> /\ toClient' = Tail(toClient) /\ sendQueue' = sendQueue
      /\ batch' = batch /\ toServer' = toServer
  BY DEF ClientReceives, sessionVars, threadVars
<1>2. Range(Head(toClient).packets) \subseteq Carried(toClient)
      /\ Carried(Tail(toClient)) \subseteq Carried(toClient)
  BY <1>1, CarriedTail DEF TypeOK
<1>3. Head(toClient).packets \in Seq(ServerPacket)
  <2>1. Head(toClient) \in FrameOf(ServerPacket)
    BY <1>1, HeadTailProperties DEF TypeOK
  <2> QED BY <2>1 DEF FrameOf
<1>4. Range(got \o Head(toClient).packets) = Range(got) \cup Range(Head(toClient).packets)
  BY <1>3, RangeConcatenation DEF TypeOK
<1> QED BY <1>1, <1>2, <1>4 DEF ClientReceives, Told, Asked, Carried

-----------------------------------------------------------------------------
(* The inductive invariant: one part for each property *)

Switches(frame) == "NetworkSettings" \in Range(frame.packets)

\* The frames under way are written for the switch as the client will have it.
Agreed ==
  /\ "NetworkSettings" \notin Range(sendQueue)
  /\ compressionEnabled <=>
       clientCompression \/ \E k \in DOMAIN toClient : Switches(toClient[k])
  /\ \A k \in DOMAIN toClient : toClient[k].header <=>
       clientCompression \/ \E j \in 1 .. k - 1 : Switches(toClient[j])

\* A granted login and its pack list stand side by side.
Paired(s) ==
  /\ \A k \in DOMAIN s : s[k] = "LoginSuccess" =>
       k < Len(s) /\ s[k + 1] = "ResourcePacksInfo"
  /\ \A k \in DOMAIN s : s[k] = "ResourcePacksInfo" =>
       k > 1 /\ s[k - 1] = "LoginSuccess"

AllPaired ==
  /\ Paired(got) /\ Paired(sendQueue)
  /\ \A k \in DOMAIN toClient : Paired(toClient[k].packets)

\* The claim that earns an answer.
Deserved(packet) ==
  /\ packet = "LoginSuccess" => \E v \in acceptedProtocols : Claimed("Login", v)
  /\ packet = "LoginFailedClient" =>
       \E v \in Version \ acceptedProtocols :
         v < currentProtocol /\ (Claimed("Login", v) \/ Claimed("RequestNetworkSettings", v))
  /\ packet = "LoginFailedServer" =>
       \E v \in Version \ acceptedProtocols :
         v > currentProtocol /\ (Claimed("Login", v) \/ Claimed("RequestNetworkSettings", v))

AllDeserved ==
  /\ Asked \subseteq Range(sent)
  /\ \A packet \in Told \cup Range(got) : Deserved(packet)

\* What a patient client must have got before it asks, or is told, more.
Earned(id, answer, first) ==
  ((\E packet \in Asked : packet.id = id) \/ answer \in Told) => Got(first)

\* While the request for the settings is under way nothing else is, and only
\* its handler changes the switch; after it every frame carries the header.
AloneBeforeSwitch ==
  /\ sent = <<>> =>
        Asked = {} /\ toServer = <<>> /\ Told = {} /\ Range(got) = {} /\ ~compressionEnabled
  /\ \A k \in DOMAIN toServer : toServer[k].header = compressionEnabled
  /\ Got("NetworkSettings") => clientCompression
  /\ compressionEnabled => \A packet \in Asked : packet.id # "RequestNetworkSettings"
  /\ ~compressionEnabled =>
        Len(batch) + Len(toServer) <= 1
          /\ \A k \in DOMAIN toServer : Len(toServer[k].packets) = 1

InOrder ==
  ~eager =>
    /\ AloneBeforeSwitch /\ ~serverMisread
    /\ Earned("Login", "LoginSuccess", "NetworkSettings")
    /\ Earned("SendPacks", "ResourcePackDataInfo", "ResourcePacksInfo")
    /\ Earned("HaveAllPacks", "ResourcePackStack", "ResourcePacksInfo")
    /\ Before("NetworkSettings", "LoginSuccess")
    /\ Before("LoginSuccess", "ResourcePacksInfo")
    /\ Before("ResourcePacksInfo", "ResourcePackDataInfo")
    /\ Before("ResourcePacksInfo", "ResourcePackStack")

LEMMA NothingYet == Init => Asked = {} /\ Told = {} /\ Range(got) = {} /\ Range(sent) = {}
BY DEF Init, Asked, Told, Carried, Range

\* What has been got and what has been claimed is remembered.
LEMMA Remembered ==
  ASSUME TypeOK, Next
  PROVE  /\ Range(sent) \subseteq Range(sent') /\ Range(got) \subseteq Range(got')
         /\ Range(got') \subseteq Range(got) \cup Told
<1>1. CASE Poll
  BY <1>1, MainSays
<1>2. CASE SendPatiently \/ SendEagerly
  <2>1. PICK packets \in Seq(ClientPacket) : ClientSends(packets)
    BY <1>2, Sending
  <2> QED BY <2>1, ClientAsks DEF ClientSends
<1>3. CASE ClientReceives
  BY <1>3, ClientHears DEF ClientReceives
<1> QED BY <1>1, <1>2, <1>3 DEF Next

-----------------------------------------------------------------------------
(* Verdicts *)

LEMMA ClaimedIs ==
  \A id, version : Claimed(id, version) <=> [id |-> id, version |-> version] \in Range(sent)
BY DEF Claimed, Range

LEMMA PacketIs ==
  \A packet \in ClientPacket :
    /\ packet = [id |-> packet.id, version |-> packet.version]
    /\ packet.id \in Versioned => packet.version \in Version
BY DEF ClientPacket, Packet, Versioned, Plain

\* The packet at hand is a claim of the client.
LEMMA ClaimAtHand ==
  ASSUME TypeOK, AllDeserved, batch # <<>>
  PROVE  Claimed(Head(batch).id, Head(batch).version)
<1>1. Head(batch) \in ClientPacket /\ Head(batch) \in Range(sent)
  BY BatchType, AtHand DEF AllDeserved
<1> QED BY <1>1, PacketIs, ClaimedIs

\* A version that is turned away is below or above the current one.
LEMMA Unsupported ==
  ASSUME NEW v \in Nat, ~isSupportedProtocol(v)
  PROVE  v \notin acceptedProtocols /\ (~(v < currentProtocol) => v > currentProtocol)
BY DEF isSupportedProtocol, acceptedProtocols, currentProtocol

LEMMA AnswerDeserved ==
  ASSUME TypeOK, AllDeserved, Answers
  PROVE  Deserved(Answer(Head(batch)))
<1> DEFINE packet == Head(batch)
<1>1. batch # <<>> /\ packet \in ClientPacket /\ Claimed(packet.id, packet.version)
  BY BatchType, ClaimAtHand DEF Answers
<1>2. packet.id \in {"RequestNetworkSettings", "Login", "SendPacks", "HaveAllPacks"}
      /\ (packet.id = "Login" => ~isSupportedProtocol(packet.version))
  BY DEF Answers
<1> HIDE DEF packet
<1>3. Answer(packet) # "LoginSuccess"
  BY <1>1, <1>2, AnswerIs
<1>4. ASSUME Answer(packet) \in {"LoginFailedClient", "LoginFailedServer"}
      PROVE  /\ packet.id \in {"Login", "RequestNetworkSettings"}
             /\ packet.version \in Version \ acceptedProtocols
             /\ ~(packet.version < currentProtocol) => packet.version > currentProtocol
  <2>1. packet.id \in Versioned /\ ~isSupportedProtocol(packet.version)
    BY <1>1, <1>2, <1>4, AnswerIs
  <2>2. packet.version \in Version /\ packet.version \in Nat
    BY <1>1, <2>1, PacketIs, ConstantsAssumption
  <2> QED BY <2>1, <2>2, Unsupported DEF Versioned
<1>5. Answer(packet) = "LoginFailedClient" => packet.version < currentProtocol
  BY <1>1, <1>2, AnswerIs
<1>6. Answer(packet) = "LoginFailedServer" => ~(packet.version < currentProtocol)
  BY <1>1, <1>2, AnswerIs
<1>7. Deserved(Answer(packet))
  BY <1>1, <1>3, <1>4, <1>5, <1>6 DEF Deserved
<1> QED BY <1>7 DEF packet

LEMMA GrantDeserved ==
  ASSUME TypeOK, AllDeserved, Grants
  PROVE  Deserved("LoginSuccess") /\ Deserved("ResourcePacksInfo")
BY ClaimAtHand DEF Grants, Deserved, isSupportedProtocol

\* A claim is never taken back.
LEMMA DeservedStays ==
  ASSUME TypeOK, Next, NEW packet, Deserved(packet)
  PROVE  Deserved(packet)'
<1>1. \A id, version : Claimed(id, version) => Claimed(id, version)'
  <2>1. Range(sent) \subseteq Range(sent')
    BY Remembered
  <2> QED BY <2>1 DEF Claimed, Range
<1> QED BY <1>1 DEF Deserved

LEMMA VerdictStep == TypeOK /\ AllDeserved /\ [Next]_vars => AllDeserved'
<1> SUFFICES ASSUME TypeOK, AllDeserved, [Next]_vars
             PROVE  AllDeserved'
  OBVIOUS
<1>1. CASE UNCHANGED vars
  BY <1>1 DEF vars, sessionVars, threadVars, clientVars, AllDeserved, Asked, Told, Carried,
              Deserved, Claimed
<1>2. ASSUME Next,
             Asked' \subseteq Range(sent'),
             \A packet \in Told' : packet \in Told \/ Deserved(packet)
      PROVE  AllDeserved'
  <2>1. \A packet \in Told' \cup Range(got') : Deserved(packet)
    BY <1>2, Remembered DEF AllDeserved
  <2>2. \A packet \in Told' \cup Range(got') : Deserved(packet)'
    BY <1>2, <2>1, DeservedStays
  <2> QED BY <1>2, <2>2 DEF AllDeserved
<1>3. CASE Poll
  <2>1. Asked' \subseteq Range(sent')
    BY <1>3, MainAsks, MainSays DEF AllDeserved
  <2>2. \A packet \in Told' : packet \in Told \/ Deserved(packet)
    BY <1>3, MainTells, AnswerDeserved, GrantDeserved
  <2> QED BY <1>2, <1>3, <2>1, <2>2 DEF Next
<1>4. CASE SendPatiently \/ SendEagerly
  <2>1. PICK packets \in Seq(ClientPacket) : ClientSends(packets)
    BY <1>4, Sending
  <2>2. Asked' \subseteq Range(sent') /\ Told' = Told
    BY <2>1, ClientAsks DEF AllDeserved
  <2> QED BY <1>2, <1>4, <2>2 DEF Next
<1>5. CASE ClientReceives
  <2>1. Asked' = Asked /\ sent' = sent /\ Told' \subseteq Told
    BY <1>5, ClientHears DEF ClientReceives
  <2> QED BY <1>2, <1>5, <2>1 DEF Next, AllDeserved
<1> QED BY <1>1, <1>3, <1>4, <1>5 DEF Next

\* VerdictMatchesVersion of NetworkSession: whatever is pipelined or misread,
\* nobody is let in, told to update, or told that the server is outdated,
\* without having claimed a version that deserves it.
THEOREM VerdictsDeserved == Spec => []VerdictMatchesVersion
<1>1. Init => AllDeserved
  BY NothingYet DEF AllDeserved
<1>2. AllDeserved => VerdictMatchesVersion
  <2>1. \A packet : Got(packet) <=> packet \in Range(got)
    BY DEF Got, Range
  <2> QED BY <2>1 DEF AllDeserved, Deserved, VerdictMatchesVersion
<1> QED BY <1>1, <1>2, TypeInit, TypeStep, VerdictStep, PTL DEF Spec

-----------------------------------------------------------------------------
(* Pairs *)

LEMMA PairedConcat ==
  ASSUME NEW s \in Seq(ServerPacket), NEW t \in Seq(ServerPacket), Paired(s), Paired(t)
  PROVE  Paired(s \o t)
<1> DEFINE u == s \o t
<1>1. /\ Len(s) \in Nat /\ Len(t) \in Nat /\ Len(u) = Len(s) + Len(t)
      /\ DOMAIN s = 1 .. Len(s) /\ DOMAIN t = 1 .. Len(t)
      /\ \A k \in 1 .. Len(s) + Len(t) : u[k] = IF k <= Len(s) THEN s[k] ELSE t[k - Len(s)]
  BY ConcatProperties, LenProperties
<1>2. u \in Seq(ServerPacket)
  BY ConcatProperties
<1>3. DOMAIN u = 1 .. Len(s) + Len(t)
  BY <1>1, <1>2, LenProperties
<1> HIDE DEF u
<1>4. ASSUME NEW k \in DOMAIN u, u[k] = "LoginSuccess"
      PROVE  k < Len(u) /\ u[k + 1] = "ResourcePacksInfo"
  <2>1. CASE k <= Len(s)
    <3>1. k \in DOMAIN s /\ s[k] = "LoginSuccess"
      BY <1>1, <1>3, <1>4, <2>1
    <3>2. k < Len(s) /\ s[k + 1] = "ResourcePacksInfo"
      BY <3>1 DEF Paired
    <3>3. k + 1 \in 1 .. Len(s) + Len(t) /\ k + 1 <= Len(s) /\ k < Len(u)
      BY <1>1, <1>3, <3>2
    <3> QED BY <1>1, <3>2, <3>3
  <2>2. CASE ~(k <= Len(s))
    <3>1. k - Len(s) \in DOMAIN t /\ t[k - Len(s)] = "LoginSuccess"
      BY <1>1, <1>3, <1>4, <2>2
    <3>2. k - Len(s) < Len(t) /\ t[(k - Len(s)) + 1] = "ResourcePacksInfo"
      BY <3>1 DEF Paired
    <3>3. k - Len(s) < Len(t) /\ k \in 1 .. Len(s) + Len(t)
      BY <1>3, <3>2
    <3>4. (k + 1) - Len(s) = (k - Len(s)) + 1
      BY <1>1, <3>3
    <3>5. k < Len(u) /\ k + 1 \in 1 .. Len(s) + Len(t) /\ ~(k + 1 <= Len(s))
      BY <1>1, <2>2, <3>3
    <3> QED BY <1>1, <3>2, <3>4, <3>5
  <2> QED BY <2>1, <2>2
<1>5. ASSUME NEW k \in DOMAIN u, u[k] = "ResourcePacksInfo"
      PROVE  k > 1 /\ u[k - 1] = "LoginSuccess"
  <2>1. CASE k <= Len(s)
    <3>1. k \in DOMAIN s /\ s[k] = "ResourcePacksInfo"
      BY <1>1, <1>3, <1>5, <2>1
    <3>2. k > 1 /\ s[k - 1] = "LoginSuccess"
      BY <3>1 DEF Paired
    <3> QED BY <1>1, <1>3, <2>1, <3>2
  <2>2. CASE ~(k <= Len(s))
    <3>1. k - Len(s) \in DOMAIN t /\ t[k - Len(s)] = "ResourcePacksInfo"
      BY <1>1, <1>3, <1>5, <2>2
    <3>2. k - Len(s) > 1 /\ t[(k - Len(s)) - 1] = "LoginSuccess"
      BY <3>1 DEF Paired
    <3>3. /\ (k - 1) - Len(s) = (k - Len(s)) - 1 /\ k > 1 /\ ~(k - 1 <= Len(s))
          /\ k - 1 \in 1 .. Len(s) + Len(t)
      BY <1>1, <1>3, <3>2
    <3> QED BY <1>1, <3>2, <3>3
  <2> QED BY <2>1, <2>2
<1>6. Paired(u)
  BY <1>4, <1>5 DEF Paired
<1> QED BY <1>6 DEF u

LEMMA PairedSmall ==
  /\ Paired(<<>>) /\ Paired(<<"LoginSuccess", "ResourcePacksInfo">>)
  /\ \A p : p \notin {"LoginSuccess", "ResourcePacksInfo"} => Paired(<<p>>)
BY DEF Paired

LEMMA PairedStep == TypeOK /\ AllPaired /\ [Next]_vars => AllPaired'
<1> SUFFICES ASSUME TypeOK, AllPaired, [Next]_vars
             PROVE  AllPaired'
  OBVIOUS
<1>1. CASE UNCHANGED vars
  BY <1>1 DEF vars, sessionVars, clientVars, AllPaired
<1>2. ASSUME NEW frame \in FrameOf(ServerPacket), toClient' = Append(toClient, frame),
             Paired(frame.packets)
      PROVE  \A k \in DOMAIN toClient' : Paired(toClient'[k].packets)
  <2>1. toClient \in Seq(FrameOf(ServerPacket))
    BY DEF TypeOK
  <2>2. \A k \in DOMAIN toClient' : k \in DOMAIN toClient \/ k = Len(toClient) + 1
    BY <1>2, <2>1, CarriedAppend
  <2>3. \A k \in DOMAIN toClient : toClient'[k] = toClient[k]
    BY <1>2, <2>1, CarriedAppend
  <2>4. toClient'[Len(toClient) + 1] = frame
    BY <1>2, <2>1, CarriedAppend
  <2> QED BY <1>2, <2>2, <2>3, <2>4 DEF AllPaired
<1>3. CASE Poll
  <2>1. got' = got
    BY <1>3, MainSays
  <2>2. CASE Silent \/ Drops
    BY <2>1, <2>2, PairedSmall DEF Silent, Drops, AllPaired
  <2>3. CASE Answers
    <3> DEFINE p == Answer(Head(batch))
    <3>1. p \in ServerPacket \ {"LoginSuccess", "ResourcePacksInfo"}
      BY <2>3, BatchType, AnswerIs DEF Answers
    <3>2. toClient' = Append(toClient, Frame(compressionEnabled, <<p>>)) /\ sendQueue' = sendQueue
      BY <2>3 DEF Answers, SendNow
    <3> HIDE DEF p
    <3>3. <<p>> \in Seq(ServerPacket) /\ compressionEnabled \in BOOLEAN /\ Paired(<<p>>)
      BY <3>1, PairedSmall, One DEF TypeOK
    <3>4. Frame(compressionEnabled, <<p>>) \in FrameOf(ServerPacket)
          /\ Frame(compressionEnabled, <<p>>).packets = <<p>>
      BY <3>3, FrameType
    <3> QED BY <1>2, <2>1, <3>2, <3>3, <3>4 DEF AllPaired
  <2>4. CASE Grants
    <3>1. sendQueue' = sendQueue \o <<"LoginSuccess", "ResourcePacksInfo">> /\ toClient' = toClient
      BY <2>4 DEF Grants, GrantLogin, SendLater
    <3>2. Paired(sendQueue')
      BY <3>1, PairedConcat, PairedSmall, AnswerTypes DEF AllPaired, TypeOK
    <3> QED BY <2>1, <3>1, <3>2 DEF AllPaired
  <2>5. CASE Flushes
    <3>1. Frame(compressionEnabled, sendQueue) \in FrameOf(ServerPacket)
          /\ Frame(compressionEnabled, sendQueue).packets = sendQueue
      BY FrameType DEF TypeOK
    <3> QED BY <1>2, <2>1, <2>5, <3>1, PairedSmall DEF Flushes, AllPaired
  <2> QED BY <1>3, <2>2, <2>3, <2>4, <2>5, MainSays
<1>4. CASE SendPatiently \/ SendEagerly
  <2>1. PICK packets \in Seq(ClientPacket) : ClientSends(packets)
    BY <1>4, Sending
  <2> QED BY <2>1 DEF ClientSends, sessionVars, AllPaired
<1>5. CASE ClientReceives
  <2>1. toClient # <<>> /\ toClient' = Tail(toClient) /\ sendQueue' = sendQueue
    BY <1>5 DEF ClientReceives, sessionVars
  <2>2. toClient \in Seq(FrameOf(ServerPacket)) /\ 1 \in DOMAIN toClient
    BY <2>1, HeadAndTail DEF TypeOK
  <2>3. Head(toClient) \in FrameOf(ServerPacket) /\ Head(toClient) = toClient[1]
    BY <2>1, <2>2, HeadAndTail
  <2>4. Head(toClient).packets \in Seq(ServerPacket) /\ Paired(Head(toClient).packets)
    BY <2>2, <2>3 DEF FrameOf, AllPaired
  <2>5. Paired(got \o Head(toClient).packets)
    BY <2>4, PairedConcat DEF AllPaired, TypeOK
  <2>6. Paired(got')
    BY <1>5, <2>5 DEF ClientReceives, AllPaired
  <2>7. \A k \in DOMAIN toClient' : k + 1 \in DOMAIN toClient /\ toClient'[k] = toClient[k + 1]
    BY <2>1, <2>2, HeadAndTail
  <2> QED BY <2>1, <2>6, <2>7 DEF AllPaired
<1> QED BY <1>1, <1>3, <1>4, <1>5 DEF Next

LEMMA PairedInit == Init => AllPaired
BY PairedSmall DEF Init, AllPaired

\* InfoFollowsSuccess of NetworkSession: nothing the session says at once gets
\* between the two packets of doLoginSuccess, which wait for the tick together.
THEOREM InfoAfterSuccess == Spec => []InfoFollowsSuccess
<1>1. AllPaired => InfoFollowsSuccess
  BY DEF AllPaired, Paired, InfoFollowsSuccess
<1> QED BY <1>1, PairedInit, TypeInit, TypeStep, PairedStep, PTL DEF Spec

-----------------------------------------------------------------------------
(* The switch *)

LEMMA AgreedInit == Init => Agreed /\ ~clientMisread
BY DEF Init, Agreed, Range

\* A frame written for the switch as the client will have it.
LEMMA AgreedAppend ==
  ASSUME TypeOK, Agreed, NEW p \in Seq(ServerPacket),
         toClient' = Append(toClient, Frame(compressionEnabled, p)),
         compressionEnabled' = (compressionEnabled \/ "NetworkSettings" \in Range(p)),
         "NetworkSettings" \notin Range(sendQueue'), UNCHANGED clientCompression
  PROVE  Agreed'
<1> DEFINE frame == Frame(compressionEnabled, p)
           n == Len(toClient)
<1>1. frame \in FrameOf(ServerPacket) /\ frame.header = compressionEnabled /\ frame.packets = p
  BY FrameType DEF TypeOK
<1>2. toClient \in Seq(FrameOf(ServerPacket)) /\ toClient' = Append(toClient, frame)
  BY DEF TypeOK
<1> HIDE DEF frame
<1>3. /\ n \in Nat /\ DOMAIN toClient = 1 .. n /\ DOMAIN toClient' = 1 .. n + 1
      /\ toClient'[n + 1] = frame /\ \A k \in 1 .. n : toClient'[k] = toClient[k]
  BY <1>1, <1>2, CarriedAppend
<1> HIDE DEF n
<1>4. Switches(frame) <=> "NetworkSettings" \in Range(p)
  BY <1>1 DEF Switches
<1>5. \A k \in 1 .. n : Switches(toClient'[k]) <=> Switches(toClient[k])
  BY <1>3 DEF Switches
<1>6. DOMAIN toClient' = DOMAIN toClient \cup {n + 1}
  BY <1>3
<1>7. (\E k \in DOMAIN toClient' : Switches(toClient'[k]))
        <=> (\E k \in DOMAIN toClient : Switches(toClient[k])) \/ Switches(frame)
  BY <1>3, <1>5, <1>6
<1>8. compressionEnabled' <=>
        clientCompression' \/ \E k \in DOMAIN toClient' : Switches(toClient'[k])
  BY <1>4, <1>7 DEF Agreed
<1>9. ASSUME NEW k \in DOMAIN toClient'
      PROVE  toClient'[k].header <=>
               clientCompression' \/ \E j \in 1 .. k - 1 : Switches(toClient'[j])
  <2>1. CASE k \in 1 .. n
    <3>1. 1 .. k - 1 \subseteq 1 .. n
      BY <1>3, <2>1
    <3>2. (\E j \in 1 .. k - 1 : Switches(toClient'[j]))
            <=> \E j \in 1 .. k - 1 : Switches(toClient[j])
      BY <1>5, <3>1
    <3> QED BY <1>3, <2>1, <3>2 DEF Agreed
  <2>2. CASE k = n + 1
    <3>1. 1 .. k - 1 = DOMAIN toClient
      BY <1>3, <2>2
    <3>2. (\E j \in 1 .. k - 1 : Switches(toClient'[j]))
            <=> \E j \in DOMAIN toClient : Switches(toClient[j])
      BY <1>3, <1>5, <3>1
    <3> QED BY <1>1, <1>3, <2>2, <3>2 DEF Agreed
  <2> QED BY <1>3, <2>1, <2>2
<1> QED BY <1>8, <1>9 DEF Agreed

LEMMA AgreedPoll ==
  ASSUME TypeOK, Agreed, Poll
  PROVE  Agreed'
<1>1. UNCHANGED clientCompression
  BY MainSays
<1>2. Range(<<>>) = {}
  BY DEF Range
<1>3. CASE Silent \/ Drops
  BY <1>1, <1>2, <1>3 DEF Silent, Drops, Agreed
<1>4. CASE Answers
  <2> DEFINE p == Answer(Head(batch))
  <2>1. p \in ServerPacket
    BY <1>4, BatchType, AnswerIs DEF Answers
  <2>2. toClient' = Append(toClient, Frame(compressionEnabled, <<p>>)) /\ sendQueue' = sendQueue
        /\ compressionEnabled' = (compressionEnabled \/ p = "NetworkSettings")
    BY <1>4 DEF Answers, SendNow
  <2> HIDE DEF p
  <2>3. <<p>> \in Seq(ServerPacket) /\ Range(<<p>>) = {p}
    BY <2>1, One
  <2>4. compressionEnabled' = (compressionEnabled \/ "NetworkSettings" \in Range(<<p>>))
    BY <2>2, <2>3
  <2>5. "NetworkSettings" \notin Range(sendQueue')
    BY <2>2 DEF Agreed
  <2> QED BY <1>1, <2>2, <2>3, <2>4, <2>5, AgreedAppend
<1>5. CASE Grants
  <2>1. sendQueue' = sendQueue \o <<"LoginSuccess", "ResourcePacksInfo">> /\ toClient' = toClient
        /\ compressionEnabled' = compressionEnabled
    BY <1>5 DEF Grants, GrantLogin, SendLater
  <2>2. Range(<<"LoginSuccess", "ResourcePacksInfo">>) = {"LoginSuccess", "ResourcePacksInfo"}
    BY DEF Range
  <2>3. Range(sendQueue') = Range(sendQueue) \cup {"LoginSuccess", "ResourcePacksInfo"}
    <3> DEFINE new == <<"LoginSuccess", "ResourcePacksInfo">>
    <3>1. sendQueue \in Seq(ServerPacket) /\ new \in Seq(ServerPacket)
      BY AnswerTypes DEF TypeOK
    <3> HIDE DEF new
    <3>2. Range(sendQueue \o new) = Range(sendQueue) \cup Range(new)
      BY <3>1, RangeConcatenation
    <3> QED BY <2>1, <2>2, <3>2 DEF new
  <2> QED BY <1>1, <2>1, <2>3 DEF Agreed
<1>6. CASE Flushes
  <2>1. sendQueue \in Seq(ServerPacket) /\ compressionEnabled \in BOOLEAN
    BY DEF TypeOK
  <2>2. compressionEnabled' = (compressionEnabled \/ "NetworkSettings" \in Range(sendQueue))
    BY <1>6, <2>1 DEF Flushes, Agreed
  <2> QED BY <1>1, <1>2, <1>6, <2>1, <2>2, AgreedAppend DEF Flushes
<1> QED BY <1>3, <1>4, <1>5, <1>6, MainSays

\* The client takes the first frame, which is written for its switch.
LEMMA AgreedReceive ==
  ASSUME TypeOK, Agreed, ClientReceives
  PROVE  Agreed' /\ (clientMisread' <=> clientMisread)
<1> DEFINE n == Len(toClient)
<1>1. toClient # <<>> /\ toClient \in Seq(FrameOf(ServerPacket)) /\ toClient' = Tail(toClient)
      /\ sendQueue' = sendQueue /\ compressionEnabled' = compressionEnabled
  BY DEF TypeOK, ClientReceives, sessionVars
<1>2. /\ n \in Nat \ {0} /\ DOMAIN toClient = 1 .. n /\ DOMAIN toClient' = 1 .. n - 1
      /\ Head(toClient) = toClient[1] /\ Head(toClient) \in FrameOf(ServerPacket)
      /\ \A k \in 1 .. n - 1 : toClient'[k] = toClient[k + 1]
  BY <1>1, HeadAndTail
<1> HIDE DEF n
<1>3. toClient[1].header <=> clientCompression
  <2>1. 1 \in DOMAIN toClient /\ 1 .. 1 - 1 = {}
    BY <1>2
  <2> QED BY <2>1 DEF Agreed
<1>4. Head(toClient).header = clientCompression
  BY <1>2, <1>3 DEF FrameOf, TypeOK
<1>5. clientMisread' = clientMisread /\ (clientCompression' <=> clientCompression \/ Switches(toClient[1]))
  BY <1>2, <1>4 DEF ClientReceives, Switches, Range
<1>6. \A k \in 1 .. n - 1 : Switches(toClient'[k]) <=> Switches(toClient[k + 1])
  BY <1>2 DEF Switches
\* Some frame before the k-th that switches is the first, or one of the rest.
<1>7. ASSUME NEW m \in 0 .. n - 1
      PROVE  (\E j \in 1 .. m + 1 : Switches(toClient[j]))
               <=> Switches(toClient[1]) \/ \E j \in 1 .. m : Switches(toClient'[j])
  <2>1. ASSUME NEW j \in 1 .. m + 1, Switches(toClient[j]), j # 1
        PROVE  \E i \in 1 .. m : Switches(toClient'[i])
    <3>1. j - 1 \in 1 .. m /\ j - 1 \in 1 .. n - 1 /\ (j - 1) + 1 = j
      BY <1>2, <2>1
    <3> QED BY <1>6, <2>1, <3>1
  <2>2. ASSUME NEW j \in 1 .. m, Switches(toClient'[j])
        PROVE  \E i \in 1 .. m + 1 : Switches(toClient[i])
    <3>1. j + 1 \in 1 .. m + 1 /\ j \in 1 .. n - 1
      BY <1>2
    <3> QED BY <1>6, <2>2, <3>1
  <2>3. 1 \in 1 .. m + 1
    BY <1>2
  <2> QED BY <2>1, <2>2, <2>3
<1>8. compressionEnabled' <=>
        clientCompression' \/ \E k \in DOMAIN toClient' : Switches(toClient'[k])
  <2>1. n - 1 \in 0 .. n - 1 /\ (n - 1) + 1 = n
    BY <1>2
  <2>2. (\E j \in 1 .. n : Switches(toClient[j]))
           <=> Switches(toClient[1]) \/ \E j \in 1 .. n - 1 : Switches(toClient'[j])
    BY <1>7, <2>1
  <2> QED BY <1>1, <1>2, <1>5, <2>2 DEF Agreed
<1>9. ASSUME NEW k \in DOMAIN toClient'
      PROVE  toClient'[k].header <=>
               clientCompression' \/ \E j \in 1 .. k - 1 : Switches(toClient'[j])
  <2>1. k - 1 \in 0 .. n - 1 /\ (k - 1) + 1 = k /\ k + 1 \in DOMAIN toClient /\ (k + 1) - 1 = k
    BY <1>2, <1>9
  <2>2. (\E j \in 1 .. k : Switches(toClient[j]))
           <=> Switches(toClient[1]) \/ \E j \in 1 .. k - 1 : Switches(toClient'[j])
    BY <1>7, <2>1
  <2>3. toClient[k + 1].header <=> clientCompression \/ \E j \in 1 .. k : Switches(toClient[j])
    BY <2>1 DEF Agreed
  <2>4. toClient'[k] = toClient[k + 1]
    BY <1>2, <1>9
  <2> QED BY <1>5, <2>2, <2>3, <2>4
<1> QED BY <1>1, <1>5, <1>8, <1>9 DEF Agreed

LEMMA AgreedStep ==
  TypeOK /\ Agreed /\ ~clientMisread /\ [Next]_vars => Agreed' /\ ~clientMisread'
<1> SUFFICES ASSUME TypeOK, Agreed, ~clientMisread, [Next]_vars
             PROVE  Agreed' /\ ~clientMisread'
  OBVIOUS
<1>1. CASE UNCHANGED vars
  BY <1>1 DEF vars, sessionVars, clientVars, Agreed
<1>2. CASE Poll
  BY <1>2, AgreedPoll, MainSays
<1>3. CASE SendPatiently \/ SendEagerly
  <2>1. PICK packets \in Seq(ClientPacket) : ClientSends(packets)
    BY <1>3, Sending
  <2> QED BY <2>1 DEF ClientSends, sessionVars, Agreed
<1>4. CASE ClientReceives
  BY <1>4, AgreedReceive
<1> QED BY <1>1, <1>2, <1>3, <1>4 DEF Next

\* ClientNeverMisreads of NetworkSession: however often and behind whatever
\* else the settings are asked for, compressionEnabled is set with the one
\* packet that makes the client switch, so every frame is read as written.
THEOREM NeverMisread == Spec => []ClientNeverMisreads
BY AgreedInit, TypeInit, TypeStep, AgreedStep, PTL DEF Spec, ClientNeverMisreads

-----------------------------------------------------------------------------
(* The order of the answers *)

LEMMA GotIs == \A packet : Got(packet) <=> packet \in Range(got)
BY DEF Got, Range

\* What comes first was got before the frame that brings the second arrives.
LEMMA BeforeStep ==
  ASSUME TypeOK, ClientReceives, NEW first, NEW second,
         Before(first, second), second \in Told => Got(first)
  PROVE  Before(first, second)'
<1> DEFINE packets == Head(toClient).packets
<1>1. CASE UNCHANGED got
  BY <1>1 DEF Before
<1>2. CASE got' = got \o packets
  <2>1. packets \in Seq(ServerPacket) /\ Range(packets) \subseteq Told
    <3>1. toClient # <<>> /\ Range(packets) \subseteq Told
      BY ClientHears
    <3>2. Head(toClient) \in FrameOf(ServerPacket)
      BY <3>1, HeadTailProperties DEF TypeOK
    <3> QED BY <3>1, <3>2 DEF FrameOf
  <2> HIDE DEF packets
  <2> DEFINE n == Len(got)
  <2>2. got \in Seq(ServerPacket) /\ got' \in Seq(ServerPacket)
    BY <1>2, <2>1, ConcatProperties DEF TypeOK
  <2>3. /\ n \in Nat /\ Len(packets) \in Nat /\ Len(got') = n + Len(packets)
        /\ DOMAIN got = 1 .. n /\ DOMAIN packets = 1 .. Len(packets)
        /\ DOMAIN got' = 1 .. n + Len(packets)
        /\ \A k \in 1 .. n + Len(packets) : got'[k] = IF k <= n THEN got[k] ELSE packets[k - n]
    BY <1>2, <2>1, <2>2, ConcatProperties, LenProperties
  <2> HIDE DEF n
  <2>4. \A k \in 1 .. n : got'[k] = got[k]
    BY <2>3
  <2>5. ASSUME NEW k \in DOMAIN got', got'[k] = second
        PROVE  \E j \in 1 .. k - 1 : got'[j] = first
    <3>1. CASE k <= n
      <4>1. k \in DOMAIN got /\ got[k] = second
        BY <2>3, <2>5, <3>1
      <4>2. PICK j \in 1 .. k - 1 : got[j] = first
        BY <4>1 DEF Before
      <4>3. j \in 1 .. n
        BY <2>3, <3>1, <4>1, <4>2
      <4> QED BY <2>4, <4>2, <4>3
    <3>2. CASE ~(k <= n)
      <4>1. k - n \in DOMAIN packets /\ packets[k - n] = second
        BY <2>3, <2>5, <3>2
      <4>2. Got(first)
        BY <2>1, <4>1 DEF Range
      <4>3. PICK j \in 1 .. n : got[j] = first
        BY <2>3, <4>2 DEF Got
      <4>4. j \in 1 .. k - 1
        BY <2>3, <2>5, <3>2
      <4> QED BY <2>4, <4>3, <4>4
    <3> QED BY <3>1, <3>2
  <2> QED BY <2>5 DEF Before
<1> QED BY <1>1, <1>2, ClientHears

LEMMA BeforeGot ==
  ASSUME TypeOK, NEW first, NEW second, Before(first, second), Got(second)
  PROVE  Got(first)
<1>1. PICK k \in DOMAIN got : got[k] = second
  BY DEF Got
<1>2. PICK j \in 1 .. k - 1 : got[j] = first
  BY <1>1 DEF Before
<1>3. Len(got) \in Nat /\ DOMAIN got = 1 .. Len(got)
  BY LenProperties DEF TypeOK
<1>4. j \in DOMAIN got
  BY <1>1, <1>2, <1>3
<1> QED BY <1>2, <1>4 DEF Got

\* What a patient client asks next, and what it has got by then.
LEMMA PatientAsks ==
  ASSUME TypeOK, ~eager, InOrder, SendPatiently
  PROVE  \E packet \in ClientPacket :
           /\ ClientSends(<<packet>>)
           /\ \/ sent = <<>> /\ packet.id = "RequestNetworkSettings"
              \/ /\ sent # <<>> /\ Got("NetworkSettings")
                 /\ packet.id # "RequestNetworkSettings"
                 /\ packet.id \in {"SendPacks", "HaveAllPacks"} => Got("ResourcePacksInfo")
<1>1. PICK packet \in ClientPacket : Follows(packet) /\ ClientSends(<<packet>>)
  BY DEF SendPatiently
<1>2. CASE sent = <<>>
  BY <1>1, <1>2 DEF Follows
<1>3. CASE sent # <<>>
  <2>1. /\ Got("ResourcePackDataInfo") => Got("ResourcePacksInfo")
        /\ Got("ResourcePackStack") => Got("ResourcePacksInfo")
        /\ Got("ResourcePacksInfo") => Got("LoginSuccess")
        /\ Got("LoginSuccess") => Got("NetworkSettings")
    BY BeforeGot DEF InOrder
  <2>2. /\ Got("NetworkSettings") /\ packet.id # "RequestNetworkSettings"
        /\ packet.id \in {"SendPacks", "HaveAllPacks"} => Got("ResourcePacksInfo")
    BY <1>1, <1>3, <2>1 DEF Follows, Plainly
  <2> QED BY <1>1, <1>3, <2>2
<1> QED BY <1>2, <1>3

LEMMA EarnedStep ==
  ASSUME TypeOK, Next, NEW id, NEW answer, NEW first, Earned(id, answer, first),
         \A packet \in Asked' \ Asked : packet.id = id => Got(first),
         answer \in Told' \ Told => \E packet \in Asked : packet.id = id
  PROVE  Earned(id, answer, first)'
<1>1. Got(first) => Got(first)'
  BY Remembered, GotIs DEF Got, Range
<1>2. (\E packet \in Asked' : packet.id = id) \/ answer \in Told' => Got(first)
  BY DEF Earned
<1> QED BY <1>1, <1>2 DEF Earned

\* The login and the pack responses, and what they are answered with.
AllEarned ==
  /\ Earned("Login", "LoginSuccess", "NetworkSettings")
  /\ Earned("SendPacks", "ResourcePackDataInfo", "ResourcePacksInfo")
  /\ Earned("HaveAllPacks", "ResourcePackStack", "ResourcePacksInfo")

LEMMA EarnedPoll == TypeOK /\ AllEarned /\ Poll => AllEarned'
<1> SUFFICES ASSUME TypeOK, AllEarned, Poll
             PROVE  AllEarned'
  OBVIOUS
<1>1. Next /\ Asked' \ Asked = {}
  BY MainAsks DEF Next
<1>2. /\ "LoginSuccess" \in Told' \ Told => Grants
      /\ "ResourcePackDataInfo" \in Told' \ Told =>
           Answers /\ Answer(Head(batch)) = "ResourcePackDataInfo"
      /\ "ResourcePackStack" \in Told' \ Told =>
           Answers /\ Answer(Head(batch)) = "ResourcePackStack"
  <2>1. Answers => Answer(Head(batch)) # "LoginSuccess"
    BY BatchType, AnswerIs DEF Answers
  <2> QED BY <2>1, MainTells
<1>3. Grants => \E packet \in Asked : packet.id = "Login"
  BY AtHand DEF Grants
<1>4. Answers =>
        /\ Head(batch) \in Asked
        /\ Answer(Head(batch)) = "ResourcePackDataInfo" => Head(batch).id = "SendPacks"
        /\ Answer(Head(batch)) = "ResourcePackStack" => Head(batch).id = "HaveAllPacks"
  BY AtHand, BatchType, AnswerIs DEF Answers
<1>5. Earned("Login", "LoginSuccess", "NetworkSettings")'
  BY <1>1, <1>2, <1>3, EarnedStep DEF AllEarned
<1>6. Earned("SendPacks", "ResourcePackDataInfo", "ResourcePacksInfo")'
  BY <1>1, <1>2, <1>4, EarnedStep DEF AllEarned
<1>7. Earned("HaveAllPacks", "ResourcePackStack", "ResourcePacksInfo")'
  BY <1>1, <1>2, <1>4, EarnedStep DEF AllEarned
<1> QED BY <1>5, <1>6, <1>7 DEF AllEarned

\* The main thread and the rule that the request for the settings is alone.
LEMMA AlonePoll ==
  ASSUME TypeOK, AloneBeforeSwitch, Poll
  PROVE  AloneBeforeSwitch' /\ serverMisread' = serverMisread
<1> USE DEF sessionVars, threadVars, clientVars
<1>1. UNCHANGED <<sent, got, clientCompression>> /\ Asked' \subseteq Asked
  BY MainSays, MainAsks
<1>2. /\ batch \in Seq(ClientPacket) /\ Len(batch) \in Nat
      /\ toServer \in Seq(FrameOf(ClientPacket)) /\ Len(toServer) \in Nat
  BY LenProperties DEF TypeOK
<1>3. ASSUME sent = <<>>
      PROVE  Asked' = {} /\ Told' = {} /\ ~compressionEnabled' /\ batch = <<>>
  <2>1. batch = <<>>
    BY <1>3, AtHand DEF AloneBeforeSwitch
  <2>2. ~Answers /\ ~Grants
    BY <2>1 DEF Answers, Grants
  <2>3. Told' = {}
    BY <1>3, <2>2, MainTells DEF AloneBeforeSwitch
  <2>4. compressionEnabled' = compressionEnabled
    BY <2>2, MainSays DEF Silent, Flushes, Drops
  <2> QED BY <1>1, <1>3, <2>1, <2>3, <2>4 DEF AloneBeforeSwitch
\* A step that leaves the switch.
<1>4. ASSUME compressionEnabled' = compressionEnabled, serverMisread' = serverMisread,
             toServer = <<>> => toServer' = <<>>,
             \A k \in DOMAIN toServer' : \E j \in DOMAIN toServer : toServer'[k] = toServer[j],
             ~compressionEnabled => Len(batch') + Len(toServer') <= Len(batch) + Len(toServer)
      PROVE  AloneBeforeSwitch' /\ serverMisread' = serverMisread
  <2>1. ~compressionEnabled' => Len(batch') + Len(toServer') <= 1
    <3>1. Len(batch') \in Nat /\ Len(toServer') \in Nat
      <4>1. TypeOK'
        BY PollType
      <4> QED BY <4>1, LenProperties DEF TypeOK
    <3> QED BY <1>2, <1>4, <3>1 DEF AloneBeforeSwitch
  <2>2. Got("NetworkSettings")' => clientCompression'
    BY <1>1 DEF AloneBeforeSwitch, Got
  <2> QED BY <1>1, <1>3, <1>4, <2>1, <2>2 DEF AloneBeforeSwitch, Range
<1>5. CASE ReceiveFrame \/ MisreadFrame
  <2>1. toServer # <<>> /\ batch = <<>> /\ toServer' = Tail(toServer)
        /\ compressionEnabled' = compressionEnabled
    BY <1>5 DEF ReceiveFrame, MisreadFrame
  <2>2. /\ 1 \in DOMAIN toServer /\ Head(toServer) = toServer[1]
        /\ \A k \in DOMAIN toServer' : \E j \in DOMAIN toServer : toServer'[k] = toServer[j]
        /\ Len(toServer') = Len(toServer) - 1
    <3>1. \A k \in DOMAIN toServer' : k + 1 \in DOMAIN toServer /\ toServer'[k] = toServer[k + 1]
      BY <1>2, <2>1, HeadAndTail
    <3> QED BY <1>2, <2>1, <3>1, HeadAndTail
  <2>3. Understood(Head(toServer))
    BY <2>2 DEF Understood, AloneBeforeSwitch
  <2>4. ReceiveFrame
    BY <1>5, <2>3 DEF MisreadFrame
  <2>5. ~compressionEnabled => Len(batch') = 0 \/ Len(batch') = 1
    <3>1. ~compressionEnabled => Len(Head(toServer).packets) = 1
      BY <2>2 DEF AloneBeforeSwitch
    <3>2. batch' = Head(toServer).packets \/ batch' = <<>>
      BY <2>4 DEF ReceiveFrame
    <3>3. Len(<<>>) = 0
      OBVIOUS
    <3> QED BY <3>1, <3>2, <3>3, Zenon
  <2>6. Len(batch) = 0
    BY <2>1
  <2>7. ~compressionEnabled => Len(batch') + Len(toServer') <= Len(batch) + Len(toServer)
    <3> DEFINE b == Len(batch')
               t == Len(toServer)
    <3>1. (~compressionEnabled => b = 0 \/ b = 1) /\ t \in Nat /\ Len(toServer') = t - 1
      BY <1>2, <2>2, <2>5
    <3> HIDE DEF b, t
    <3>2. ~compressionEnabled => b + (t - 1) <= 0 + t
      BY <3>1
    <3> QED BY <2>6, <3>1, <3>2 DEF b, t
  <2>8. serverMisread' = serverMisread
    BY <2>4 DEF ReceiveFrame
  <2> QED BY <1>4, <2>1, <2>2, <2>7, <2>8
<1>6. CASE HandleRequestNetworkSettings /\ isSupportedProtocol(Head(batch).version)
  <2>1. batch # <<>> /\ Head(batch).id = "RequestNetworkSettings"
        /\ batch' = Tail(batch) /\ toServer' = toServer /\ compressionEnabled' = TRUE
        /\ serverMisread' = serverMisread
    BY <1>6 DEF HandleRequestNetworkSettings, Handles, AnswerSettings, Continue
  <2>2. ~compressionEnabled
    BY <2>1, AtHand DEF AloneBeforeSwitch
  <2>3. Len(batch) + Len(toServer) <= 1 /\ Len(batch) # 0
    BY <1>2, <2>1, <2>2, EmptySeq DEF AloneBeforeSwitch
  <2>4. Len(batch) = 1 /\ Len(toServer) = 0
    <3> DEFINE b == Len(batch)
               t == Len(toServer)
    <3>1. b \in Nat /\ t \in Nat /\ b + t <= 1 /\ b # 0
      BY <1>2, <2>3
    <3> HIDE DEF b, t
    <3>2. b = 1 /\ t = 0
      BY <3>1
    <3> QED BY <3>2 DEF b, t
  <2>5. Len(batch') = 0
    BY <1>2, <2>1, <2>4, HeadTailProperties
  <2>6. batch' = <<>> /\ toServer' = <<>>
    <3>1. Tail(batch) \in Seq(ClientPacket)
      BY <2>1, BatchType
    <3> QED BY <1>2, <2>1, <2>4, <2>5, <3>1, EmptySeq
  <2>7. Asked' = {}
    BY <2>6 DEF Asked, Range, Carried
  <2>8. sent # <<>>
    BY <2>1, AtHand DEF AloneBeforeSwitch
  <2>9. Got("NetworkSettings")' => clientCompression'
    BY <1>1 DEF AloneBeforeSwitch, Got
  <2> QED BY <1>1, <2>1, <2>6, <2>7, <2>8, <2>9 DEF AloneBeforeSwitch
<1>7. CASE ~ReceiveFrame /\ ~MisreadFrame
           /\ ~(HandleRequestNetworkSettings /\ isSupportedProtocol(Head(batch).version))
  <2>1. /\ toServer' = toServer /\ serverMisread' = serverMisread
        /\ compressionEnabled' = compressionEnabled
        /\ batch' = batch \/ batch' = <<>> \/ (batch # <<>> /\ batch' = Tail(batch))
    <3>1. CASE HandleRequestNetworkSettings \/ HandleLogin
      BY <1>7, <3>1 DEF HandleRequestNetworkSettings, HandleLogin, RejectVersion, Handles, Continue,
                        DropRest
    <3>2. CASE HandleBadLogin \/ HandleRefused \/ HandleCompleted \/ HandleUnknown
      BY <3>2 DEF HandleBadLogin, HandleRefused, HandleCompleted, HandleUnknown, Handles, Continue,
                  DropRest
    <3>3. ASSUME NEW id, HandleAnsweredResponse(id)
          PROVE  /\ toServer' = toServer /\ batch # <<>> /\ batch' = Tail(batch)
                 /\ serverMisread' = serverMisread /\ compressionEnabled' = compressionEnabled
      BY <3>3 DEF HandleAnsweredResponse, Handles, Continue
    <3>4. CASE EndReceive \/ Tick \/ Cleanup
      BY <3>4 DEF EndReceive, Tick, Cleanup
    <3> QED BY <1>7, <3>1, <3>2, <3>3, <3>4 DEF Poll
  <2>2. Len(batch') <= Len(batch) /\ Len(batch') \in Nat
    <3>1. Len(<<>>) = 0
      OBVIOUS
    <3>2. batch # <<>> => Len(Tail(batch)) = Len(batch) - 1 /\ Len(batch) \in Nat \ {0}
      BY <1>2, HeadAndTail
    <3> QED BY <1>2, <2>1, <3>1, <3>2
  <2>3. Len(batch') + Len(toServer') <= Len(batch) + Len(toServer)
    BY <1>2, <2>1, <2>2
  <2> QED BY <1>4, <2>1, <2>3
<1> QED BY <1>5, <1>6, <1>7

LEMMA AloneSend ==
  ASSUME TypeOK, ~eager, Agreed, InOrder, SendPatiently
  PROVE  AloneBeforeSwitch'
<1>1. PICK packet \in ClientPacket :
        /\ ClientSends(<<packet>>)
        /\ \/ sent = <<>> /\ packet.id = "RequestNetworkSettings"
           \/ sent # <<>> /\ Got("NetworkSettings") /\ packet.id # "RequestNetworkSettings"
  BY PatientAsks
<1>2. AloneBeforeSwitch
  BY DEF InOrder
<1> DEFINE frame == Frame(clientCompression, <<packet>>)
<1>3. /\ <<packet>> \in Seq(ClientPacket) /\ Range(<<packet>>) = {packet}
      /\ Len(<<packet>>) = 1
  BY One
<1>4. /\ frame \in FrameOf(ClientPacket) /\ frame.header = clientCompression
      /\ frame.packets = <<packet>>
  <2>1. clientCompression \in BOOLEAN
    BY DEF TypeOK
  <2> QED BY <1>3, <2>1, FrameType
<1>5. /\ toServer' = Append(toServer, frame) /\ sent' = sent \o <<packet>>
      /\ UNCHANGED <<batch, got, clientCompression, compressionEnabled>>
  BY <1>1 DEF ClientSends, sessionVars, threadVars
<1> HIDE DEF frame
<1>6. Asked' = Asked \cup {packet} /\ sent' # <<>>
  <2>1. Asked' = Asked \cup Range(<<packet>>) /\ Range(sent') = Range(sent) \cup Range(<<packet>>)
    BY <1>1, <1>3, ClientAsks
  <2>2. Range(<<>>) = {}
    BY DEF Range
  <2> QED BY <1>3, <2>1, <2>2
<1>7. /\ Len(toServer) \in Nat /\ DOMAIN toServer = 1 .. Len(toServer)
      /\ DOMAIN toServer' = 1 .. Len(toServer) + 1 /\ Len(toServer') = Len(toServer) + 1
      /\ toServer'[Len(toServer) + 1] = frame
      /\ \A k \in 1 .. Len(toServer) : toServer'[k] = toServer[k]
  BY <1>4, <1>5, CarriedAppend DEF TypeOK
<1>8. \A k \in DOMAIN toServer' :
        (k \in DOMAIN toServer /\ toServer'[k] = toServer[k]) \/ toServer'[k] = frame
  BY <1>7
<1>9. CASE sent = <<>> /\ packet.id = "RequestNetworkSettings"
  <2>1. toServer = <<>> /\ batch = <<>> /\ ~compressionEnabled
    <3>1. batch = <<>>
      BY <1>2, <1>9, AtHand DEF AloneBeforeSwitch
    <3> QED BY <1>2, <1>9, <3>1 DEF AloneBeforeSwitch
  <2>2. ~clientCompression
    BY <2>1 DEF Agreed
  <2>3. frame.header = compressionEnabled
    BY <1>4, <2>1, <2>2 DEF TypeOK
  <2>4. Len(batch') = 0 /\ Len(toServer') = 1
    <3>1. Len(batch) = 0 /\ Len(toServer) = 0
      BY <2>1
    <3> QED BY <1>5, <1>7, <3>1
  <2>5. \A k \in DOMAIN toServer' : toServer'[k] = frame
    BY <1>8, <2>1
  <2>6. Got("NetworkSettings")' => clientCompression'
    BY <1>2, <1>5 DEF AloneBeforeSwitch, Got
  <2> QED BY <1>3, <1>4, <1>5, <1>6, <2>1, <2>3, <2>4, <2>5, <2>6 DEF AloneBeforeSwitch
<1>10. CASE Got("NetworkSettings") /\ packet.id # "RequestNetworkSettings"
  <2>1. clientCompression /\ compressionEnabled
    BY <1>2, <1>10 DEF AloneBeforeSwitch, Agreed
  <2>2. frame.header = compressionEnabled
    BY <1>4, <2>1 DEF TypeOK
  <2>3. \A k \in DOMAIN toServer' : toServer'[k].header = compressionEnabled'
    BY <1>2, <1>5, <1>8, <2>2 DEF AloneBeforeSwitch
  <2>4. Got("NetworkSettings")' => clientCompression'
    BY <1>5, <2>1
  <2>5. \A p \in Asked' : p.id # "RequestNetworkSettings"
    BY <1>2, <1>6, <1>10, <2>1 DEF AloneBeforeSwitch
  <2> QED BY <1>5, <1>6, <2>1, <2>3, <2>4, <2>5 DEF AloneBeforeSwitch
<1> QED BY <1>1, <1>9, <1>10

LEMMA AloneReceive ==
  ASSUME TypeOK, AloneBeforeSwitch, ClientReceives
  PROVE  AloneBeforeSwitch'
<1>1. /\ UNCHANGED <<batch, toServer, sent, compressionEnabled>> /\ Asked' = Asked
      /\ Told' \subseteq Told /\ Range(got') \subseteq Range(got) \cup Told
  BY ClientHears, Remembered DEF ClientReceives, sessionVars, threadVars, Next
<1>2. Got("NetworkSettings")' => clientCompression'
  <2>1. CASE UNCHANGED got
    <3>1. Got("NetworkSettings")' => Got("NetworkSettings")
      BY <2>1 DEF Got
    <3>2. clientCompression => clientCompression'
      BY DEF ClientReceives
    <3> QED BY <3>1, <3>2 DEF AloneBeforeSwitch
  <2>2. CASE ~UNCHANGED got
    <3>1. Range(got') = Range(got) \cup Range(Head(toClient).packets)
      BY <2>2, ClientHears
    <3>2. clientCompression' <=>
            clientCompression \/ "NetworkSettings" \in Range(Head(toClient).packets)
      BY <2>2 DEF ClientReceives, Range
    <3>3. Got("NetworkSettings")' => "NetworkSettings" \in Range(got')
      BY DEF Got, Range
    <3> QED BY <3>1, <3>2, <3>3, GotIs DEF AloneBeforeSwitch
  <2> QED BY <2>1, <2>2
<1> QED BY <1>1, <1>2 DEF AloneBeforeSwitch

LEMMA OrderStep ==
  TypeOK /\ Agreed /\ AllPaired /\ InOrder /\ [Next]_vars => InOrder'
<1> SUFFICES ASSUME TypeOK, Agreed, AllPaired, InOrder, [Next]_vars, ~eager'
             PROVE  InOrder'
  BY DEF InOrder
<1>1. eager' = eager
  BY MainSays DEF Next, vars, clientVars, SendPatiently, SendEagerly, ClientSends, ClientReceives
<1>2. ~eager /\ AloneBeforeSwitch /\ ~serverMisread /\ AllEarned
  BY <1>1 DEF InOrder, AllEarned
<1>3. CASE UNCHANGED vars
  <2>1. UNCHANGED <<Asked, Told>> /\ \A x : Got(x)' <=> Got(x)
    BY <1>3 DEF vars, sessionVars, threadVars, clientVars, Asked, Told, Carried, Range, Got
  <2>2. \A x, y : Before(x, y)' <=> Before(x, y)
    BY <1>3 DEF vars, clientVars, Before
  <2>3. \A id, answer, first : Earned(id, answer, first)' <=> Earned(id, answer, first)
    BY <2>1 DEF Earned
  <2>4. AloneBeforeSwitch'
    BY <1>2, <1>3, <2>1 DEF vars, sessionVars, threadVars, clientVars, AloneBeforeSwitch, Range
  <2> QED BY <1>2, <1>3, <2>2, <2>3, <2>4 DEF vars, InOrder
<1>4. CASE Poll
  <2>1. got' = got
    BY <1>4, MainSays
  <2>2. \A x, y : Before(x, y)' <=> Before(x, y)
    BY <2>1 DEF Before
  <2> QED BY <1>2, <1>4, <2>2, AlonePoll, EarnedPoll DEF InOrder, AllEarned
<1>5. CASE SendPatiently
  <2>1. PICK packet \in ClientPacket :
          /\ ClientSends(<<packet>>)
          /\ packet.id = "Login" => Got("NetworkSettings")
          /\ packet.id \in {"SendPacks", "HaveAllPacks"} => Got("ResourcePacksInfo")
    BY <1>2, <1>5, PatientAsks
  <2>2. Asked' = Asked \cup {packet} /\ Told' = Told /\ got' = got /\ serverMisread' = serverMisread
    <3>1. <<packet>> \in Seq(ClientPacket) /\ Range(<<packet>>) = {packet}
      BY One
    <3> QED BY <2>1, <3>1, ClientAsks DEF ClientSends
  <2>3. \A x, y : Before(x, y)' <=> Before(x, y)
    BY <2>2 DEF Before
  <2>4. Next
    BY <1>5 DEF Next
  <2>5. Earned("Login", "LoginSuccess", "NetworkSettings")'
    BY <1>2, <2>1, <2>2, <2>4, EarnedStep DEF AllEarned
  <2>6. Earned("SendPacks", "ResourcePackDataInfo", "ResourcePacksInfo")'
    BY <1>2, <2>1, <2>2, <2>4, EarnedStep DEF AllEarned
  <2>7. Earned("HaveAllPacks", "ResourcePackStack", "ResourcePacksInfo")'
    BY <1>2, <2>1, <2>2, <2>4, EarnedStep DEF AllEarned
  <2> QED BY <1>2, <1>5, <2>2, <2>3, <2>5, <2>6, <2>7, AloneSend DEF InOrder
<1>6. CASE ClientReceives
  <2>1. Asked' = Asked /\ Told' \subseteq Told /\ Next /\ serverMisread' = serverMisread
    BY <1>6, ClientHears DEF ClientReceives, Next
  <2>2. AllEarned'
    <3>1. Earned("Login", "LoginSuccess", "NetworkSettings")'
      BY <1>2, <2>1, EarnedStep DEF AllEarned
    <3>2. Earned("SendPacks", "ResourcePackDataInfo", "ResourcePacksInfo")'
      BY <1>2, <2>1, EarnedStep DEF AllEarned
    <3>3. Earned("HaveAllPacks", "ResourcePackStack", "ResourcePacksInfo")'
      BY <1>2, <2>1, EarnedStep DEF AllEarned
    <3> QED BY <3>1, <3>2, <3>3 DEF AllEarned
  <2>3. Before("NetworkSettings", "LoginSuccess")'
    BY <1>2, <1>6, BeforeStep DEF InOrder, AllEarned, Earned
  <2>4. Before("ResourcePacksInfo", "ResourcePackDataInfo")'
    BY <1>2, <1>6, BeforeStep DEF InOrder, AllEarned, Earned
  <2>5. Before("ResourcePacksInfo", "ResourcePackStack")'
    BY <1>2, <1>6, BeforeStep DEF InOrder, AllEarned, Earned
\* The pair came in one frame.
  <2>6. Before("LoginSuccess", "ResourcePacksInfo")'
    <3>1. Paired(got)'
      BY <1>6, PairedStep DEF AllPaired, Next
    <3>2. Len(got') \in Nat /\ DOMAIN got' = 1 .. Len(got')
      <4>1. TypeOK'
        BY TypeStep
      <4> QED BY <4>1, LenProperties DEF TypeOK
    <3>3. ASSUME NEW k \in DOMAIN got', got'[k] = "ResourcePacksInfo"
          PROVE  \E j \in 1 .. k - 1 : got'[j] = "LoginSuccess"
      <4>1. k > 1 /\ got'[k - 1] = "LoginSuccess"
        BY <3>1, <3>3 DEF Paired
      <4>2. k - 1 \in 1 .. k - 1
        BY <3>2, <4>1
      <4> QED BY <4>1, <4>2
    <3> QED BY <3>3 DEF Before
  <2> QED BY <1>2, <1>6, <2>1, <2>2, <2>3, <2>4, <2>5, <2>6, AloneReceive DEF InOrder, AllEarned
<1>7. CASE SendEagerly
  BY <1>2, <1>7 DEF SendEagerly
<1> QED BY <1>3, <1>4, <1>5, <1>6, <1>7 DEF Next

LEMMA OrderInit == Init => InOrder
<1> SUFFICES ASSUME Init PROVE InOrder
  OBVIOUS
<1>1. Asked = {} /\ Told = {} /\ Range(got) = {}
  BY NothingYet
<1>2. Len(batch) = 0 /\ Len(toServer) = 0 /\ DOMAIN toServer = {}
  BY DEF Init
<1>3. ~Got("NetworkSettings")
  BY <1>1, GotIs
<1>4. AloneBeforeSwitch
  BY <1>1, <1>2, <1>3 DEF Init, AloneBeforeSwitch
<1>5. \A x, y : Before(x, y)
  BY DEF Init, Before
<1> QED BY <1>1, <1>4, <1>5 DEF Init, InOrder, Earned

\* AnswersInOrder of NetworkSession: to a client that waits for each answer no
\* frame is ever lost to the switch, and it hears the answers in the order of
\* the protocol, although the login is answered by the tick and everything
\* else at once.
THEOREM PatientInOrder == Spec => []AnswersInOrder
<1>1. InOrder => AnswersInOrder
  BY DEF InOrder, AnswersInOrder
<1>2. TypeOK /\ Agreed /\ AllPaired /\ ~clientMisread /\ InOrder /\ [Next]_vars
        => TypeOK' /\ Agreed' /\ AllPaired' /\ ~clientMisread' /\ InOrder'
  BY TypeStep, AgreedStep, PairedStep, OrderStep
<1> QED BY <1>1, <1>2, TypeInit, AgreedInit, PairedInit, OrderInit, PTL DEF Spec

=============================================================================
