--------------------------- MODULE NetworkSession ---------------------------
(***************************************************************************)
(* The login conversation of one client with its NetworkSession            *)
(* (src/network/session/network_session.cpp), seen on the wire: which      *)
(* packets are sent at once and which wait for the next tick, when a frame *)
(* carries a compression header, and what the other end makes of it.       *)
(*                                                                         *)
(* RakNet delivers the frames of each direction reliably and in order (the *)
(* transport sends RELIABLE_ORDERED on channel 0).  A frame is a sequence  *)
(* of packets with or without the header byte that names the compression   *)
(* method; a receiver whose switch does not agree misreads it.             *)
(*                                                                         *)
(* The main thread takes frames until there are none, handles the packets  *)
(* of each in turn, flushes, and erases a marked session, as in            *)
(* RaknetConnections.  The client is external.  A patient one waits for    *)
(* each answer; an eager one sends whatever it likes whenever it likes.    *)
(* Downloads are left to ResourcePackTransfer: SendPacks names one         *)
(* registered pack here.                                                   *)
(***************************************************************************)
EXTENDS Naturals, Sequences

CONSTANTS
  Version,         \* protocol versions clients have
  ForceResources,  \* Server::shouldForceResources()
  EagerVersion,    \* bound: those an eager client claims
  MaxSent,         \* bound: packets after which an eager client sends no more
  MaxBatch         \* bound: packets per frame of an eager client

ASSUME ConstantsAssumption ==
  /\ Version \subseteq Nat /\ EagerVersion \subseteq Version
  /\ ForceResources \in BOOLEAN
  /\ MaxSent \in Nat /\ MaxBatch \in Nat

VARIABLES
  \* the session
  alive,                \* it is in the table
  compressionEnabled, marked, sendQueue,
  pc,                   \* where the main thread is in poll()
  batch,                \* packets of the current frame not handled yet
  aborted,              \* an exception ended the process
  \* the two directions of the RakNet connection
  toServer, toClient,
  \* the client
  eager,                \* it pipelines its packets
  clientCompression, got, sent,
  \* history
  clientMisread, serverMisread

sessionVars == <<alive, compressionEnabled, marked, sendQueue>>
threadVars == <<pc, batch, aborted>>
clientVars == <<eager, clientCompression, got, sent, clientMisread>>
vars == <<sessionVars, threadVars, toServer, toClient, clientVars, serverMisread>>

-----------------------------------------------------------------------------
(* protocol_info.hpp *)

currentProtocol == 924

\* std::array<std::uint32_t, 2>{924}: the second element is value-initialised.
acceptedProtocols == {currentProtocol, 0}

\* (Bug... definitions are deliberate faults that show the properties can fail.)
BugAcceptOlder(version) == version <= currentProtocol
isSupportedProtocol(version) == version \in acceptedProtocols

\* The PlayStatus disconnectUserForIncompatibleProtocol answers with.
BugSwappedStatus(version) ==
  IF version > currentProtocol THEN "LoginFailedClient" ELSE "LoginFailedServer"
FailureStatus(version) ==
  IF version < currentProtocol THEN "LoginFailedClient" ELSE "LoginFailedServer"

Versioned == {"RequestNetworkSettings", "Login"}
Plain == {"BadLogin", "Refused", "SendPacks", "HaveAllPacks", "Completed", "Unknown"}

\* What a client may send.  BadLogin is a login whose authInfo is not JSON;
\* Unknown has an id the factory does not know or does not decode.
Packet(versions) == [id : Versioned, version : versions] \cup [id : Plain, version : {0}]
ClientPacket == Packet(Version)

ServerPacket == {"NetworkSettings", "LoginSuccess", "LoginFailedClient",
                 "LoginFailedServer", "ResourcePacksInfo", "ResourcePackDataInfo",
                 "ResourcePackStack"}

Init ==
  /\ alive = TRUE /\ compressionEnabled = FALSE /\ marked = FALSE
  /\ sendQueue = <<>>
  /\ pc = "receive" /\ batch = <<>> /\ aborted = FALSE
  /\ toServer = <<>> /\ toClient = <<>>
  /\ eager \in BOOLEAN /\ clientCompression = FALSE /\ got = <<>> /\ sent = <<>>
  /\ clientMisread = FALSE /\ serverMisread = FALSE

-----------------------------------------------------------------------------
(* Sending: NetworkSession::send, flush and sendInternal *)

Frame(header, packets) == [header |-> header, packets |-> packets]

\* send(packet, true): a frame of its own, now.
SendNow(packet) ==
  /\ toClient' = Append(toClient, Frame(compressionEnabled, <<packet>>))
  /\ UNCHANGED sendQueue

\* send(packet), send(packet): they wait for flush.
SendLater(packets) ==
  /\ sendQueue' = sendQueue \o packets
  /\ UNCHANGED toClient

-----------------------------------------------------------------------------
(* The main thread: route, onRaw and the handlers *)

Polling(where) == ~aborted /\ pc = where

\* McbePacketRouter::route: without a session the frame is dropped; else it is
\* unpacked the way compressionEnabled says.
Understood(frame) == frame.header = compressionEnabled

ReceiveFrame ==
  /\ Polling("receive") /\ batch = <<>> /\ toServer # <<>>
  /\ ~alive \/ Understood(Head(toServer))
  /\ toServer' = Tail(toServer)
  /\ batch' = IF alive THEN Head(toServer).packets ELSE <<>>
  /\ UNCHANGED <<sessionVars, pc, aborted, toClient, clientVars, serverMisread>>

\* A frame that is misread is garbage: it is dropped on an unknown packet id or
\* a failed decode, or a read behind its end throws.
MisreadFrame ==
  /\ Polling("receive") /\ batch = <<>> /\ toServer # <<>>
  /\ alive /\ ~Understood(Head(toServer))
  /\ toServer' = Tail(toServer)
  /\ serverMisread' = TRUE
  /\ aborted' \in BOOLEAN
  /\ UNCHANGED <<sessionVars, pc, batch, toClient, clientVars>>

Handles(id) == Polling("receive") /\ batch # <<>> /\ Head(batch).id = id

\* The loop of onRaw goes on with the next packet of the frame, or returns.
Continue == batch' = Tail(batch)
DropRest == batch' = <<>>

\* disconnectUserForIncompatibleProtocol answers and marks nothing; the
\* handler returns false, which ends the frame.
RejectVersion ==
  /\ SendNow(FailureStatus(Head(batch).version))
  /\ DropRest
  /\ UNCHANGED <<compressionEnabled, alive, marked>>

\* handleRequestNetworkSettings: the answer leaves before the switch is set.
BugForgetSwitch == SendNow("NetworkSettings") /\ UNCHANGED compressionEnabled
BugEnableFirst ==
  /\ compressionEnabled' = TRUE
  /\ toClient' = Append(toClient, Frame(TRUE, <<"NetworkSettings">>))
  /\ UNCHANGED sendQueue
AnswerSettings ==
  /\ SendNow("NetworkSettings")
  /\ compressionEnabled' = TRUE

HandleRequestNetworkSettings ==
  /\ Handles("RequestNetworkSettings")
  /\ IF isSupportedProtocol(Head(batch).version)
     THEN AnswerSettings /\ Continue /\ UNCHANGED <<alive, marked>>
     ELSE RejectVersion
  /\ UNCHANGED <<pc, aborted, toServer, clientVars, serverMisread>>

\* doLoginSuccess
BugInfoFirst == SendLater(<<"ResourcePacksInfo", "LoginSuccess">>)
GrantLogin == SendLater(<<"LoginSuccess", "ResourcePacksInfo">>)

\* handleLogin
HandleLogin ==
  /\ Handles("Login")
  /\ IF isSupportedProtocol(Head(batch).version)
     THEN /\ GrantLogin
          /\ Continue
          /\ UNCHANGED <<compressionEnabled, alive, marked>>
     ELSE RejectVersion
  /\ UNCHANGED <<pc, aborted, toServer, clientVars, serverMisread>>

\* nlohmann::json::parse throws and nothing catches it.
HandleBadLogin ==
  /\ Handles("BadLogin")
  /\ aborted' = TRUE
  /\ UNCHANGED <<sessionVars, pc, batch, toServer, toClient, clientVars, serverMisread>>

MarkRefusal == marked \/ ForceResources

\* handleResourcePackClientResponse
HandleRefused ==
  /\ Handles("Refused")
  /\ marked' = MarkRefusal
  /\ Continue
  /\ UNCHANGED <<alive, compressionEnabled, sendQueue, pc, aborted, toServer,
                 toClient, clientVars, serverMisread>>

BugEcho(id) == id
Reply(id) == IF id = "SendPacks" THEN "ResourcePackDataInfo" ELSE "ResourcePackStack"

HandleAnsweredResponse(id) ==
  /\ Handles(id)
  /\ SendNow(Reply(id))
  /\ Continue
  /\ UNCHANGED <<alive, compressionEnabled, marked, pc, aborted, toServer,
                 clientVars, serverMisread>>

HandleCompleted ==
  /\ Handles("Completed")
  /\ Continue
  /\ UNCHANGED <<sessionVars, pc, aborted, toServer, toClient, clientVars, serverMisread>>

HandleUnknown ==
  /\ Handles("Unknown")
  /\ DropRest
  /\ UNCHANGED <<sessionVars, pc, aborted, toServer, toClient, clientVars, serverMisread>>

EndReceive ==
  /\ Polling("receive") /\ batch = <<>> /\ toServer = <<>>
  /\ pc' = "tick"
  /\ UNCHANGED <<sessionVars, batch, aborted, toServer, toClient, clientVars, serverMisread>>

\* flush: one frame with all queued packets, in order.
Tick ==
  /\ Polling("tick")
  /\ toClient' = IF alive /\ sendQueue # <<>>
                 THEN Append(toClient, Frame(compressionEnabled, sendQueue))
                 ELSE toClient
  /\ sendQueue' = <<>>
  /\ pc' = "cleanup"
  /\ UNCHANGED <<alive, compressionEnabled, marked, batch, aborted, toServer,
                 clientVars, serverMisread>>

Cleanup ==
  /\ Polling("cleanup")
  /\ alive' = (alive /\ ~marked)
  /\ pc' = "receive"
  /\ UNCHANGED <<compressionEnabled, marked, sendQueue, batch, aborted, toServer,
                 toClient, clientVars, serverMisread>>

Poll ==
  \/ ReceiveFrame \/ MisreadFrame
  \/ HandleRequestNetworkSettings \/ HandleLogin \/ HandleBadLogin
  \/ HandleRefused \/ HandleCompleted \/ HandleUnknown
  \/ \E id \in {"SendPacks", "HaveAllPacks"} : HandleAnsweredResponse(id)
  \/ EndReceive \/ Tick \/ Cleanup

-----------------------------------------------------------------------------
(* The client *)

Got(packet) == \E k \in DOMAIN got : got[k] = packet
LastSent == sent[Len(sent)]
Plainly(id) == [id |-> id, version |-> 0]

\* What a patient client says next: it asks for the settings, logs in once it
\* has them, answers the pack info, and finishes when it has the stack.
Follows(packet) ==
  \/ sent = <<>> /\ packet.id = "RequestNetworkSettings"
  \/ /\ sent # <<>>
     /\ \/ /\ LastSent.id = "RequestNetworkSettings" /\ Got("NetworkSettings")
           /\ packet = [id |-> "Login", version |-> LastSent.version]
        \/ /\ LastSent.id = "Login" /\ Got("ResourcePacksInfo")
           /\ packet \in {Plainly("Refused"), Plainly("SendPacks"), Plainly("HaveAllPacks")}
        \/ /\ LastSent.id = "SendPacks" /\ Got("ResourcePackDataInfo")
           /\ packet = Plainly("HaveAllPacks")
        \/ /\ LastSent.id = "HaveAllPacks" /\ Got("ResourcePackStack")
           /\ packet = Plainly("Completed")

ClientSends(packets) ==
  /\ ~aborted
  /\ toServer' = Append(toServer, Frame(clientCompression, packets))
  /\ sent' = sent \o packets
  /\ UNCHANGED <<sessionVars, threadVars, toClient, eager, clientCompression, got,
                 clientMisread, serverMisread>>

SendPatiently == ~eager /\ \E packet \in ClientPacket : Follows(packet) /\ ClientSends(<<packet>>)

SendEagerly ==
  /\ eager /\ Len(sent) < MaxSent
  /\ \E n \in 1 .. MaxBatch :
       \E packets \in [1 .. n -> Packet(EagerVersion)] : ClientSends(packets)

\* A client switches to compression with the settings it reads.
ClientReceives ==
  LET frame == Head(toClient) IN
  /\ ~aborted /\ toClient # <<>>
  /\ toClient' = Tail(toClient)
  /\ IF frame.header = clientCompression
     THEN /\ got' = got \o frame.packets
          /\ clientCompression' = (clientCompression \/ \E k \in DOMAIN frame.packets :
                                     frame.packets[k] = "NetworkSettings")
          /\ UNCHANGED clientMisread
     ELSE clientMisread' = TRUE /\ UNCHANGED <<got, clientCompression>>
  /\ UNCHANGED <<sessionVars, threadVars, toServer, eager, sent, serverMisread>>

Client == SendPatiently \/ ClientReceives

Next == Poll \/ SendPatiently \/ SendEagerly \/ ClientReceives

Spec == Init /\ [][Next]_vars

\* The main thread keeps polling, and a patient client goes on with the
\* protocol as soon as it can.  An eager one owes nothing.
FairSpec == Spec /\ WF_vars(Poll) /\ WF_vars(Client)

-----------------------------------------------------------------------------
(* Properties *)

FrameOf(packets) == [header : BOOLEAN, packets : Seq(packets)]

\* The values the variables take.
TypeOK ==
  /\ alive \in BOOLEAN /\ compressionEnabled \in BOOLEAN /\ marked \in BOOLEAN
  /\ sendQueue \in Seq(ServerPacket)
  /\ pc \in {"receive", "tick", "cleanup"}
  /\ batch \in Seq(ClientPacket)
  /\ aborted \in BOOLEAN
  /\ toServer \in Seq(FrameOf(ClientPacket)) /\ toClient \in Seq(FrameOf(ServerPacket))
  /\ eager \in BOOLEAN /\ clientCompression \in BOOLEAN
  /\ got \in Seq(ServerPacket) /\ sent \in Seq(ClientPacket)
  /\ clientMisread \in BOOLEAN /\ serverMisread \in BOOLEAN

\* The server switches exactly where the client does: whatever the client
\* sends, and however often it asks for the settings, no frame of the server
\* is taken apart the wrong way.
ClientNeverMisreads == ~clientMisread

Before(first, second) ==
  \A k \in DOMAIN got : got[k] = second => \E j \in 1 .. k - 1 : got[j] = first

\* A client that waits for the settings before it goes on is never misread, and
\* hears the answers in the order of the protocol, although the login is
\* answered by the tick and everything else at once.
AnswersInOrder ==
  ~eager => /\ ~serverMisread
            /\ Before("NetworkSettings", "LoginSuccess")
            /\ Before("LoginSuccess", "ResourcePacksInfo")
            /\ Before("ResourcePacksInfo", "ResourcePackDataInfo")
            /\ Before("ResourcePacksInfo", "ResourcePackStack")

Claimed(id, version) == \E k \in DOMAIN sent : sent[k] = [id |-> id, version |-> version]

\* Nobody is let in, told to update, or told that the server is outdated,
\* without having claimed a version that deserves it.
VerdictMatchesVersion ==
  /\ Got("LoginSuccess") => \E v \in acceptedProtocols : Claimed("Login", v)
  /\ Got("LoginFailedClient") =>
       \E v \in Version \ acceptedProtocols :
         v < currentProtocol /\ (Claimed("Login", v) \/ Claimed("RequestNetworkSettings", v))
  /\ Got("LoginFailedServer") =>
       \E v \in Version \ acceptedProtocols :
         v > currentProtocol /\ (Claimed("Login", v) \/ Claimed("RequestNetworkSettings", v))

\* The pack list follows a granted login at once: no other packet of the
\* session gets between the two, whatever is pipelined behind the login.
InfoFollowsSuccess ==
  \A k \in DOMAIN got :
    got[k] = "LoginSuccess" => k < Len(got) /\ got[k + 1] = "ResourcePacksInfo"

Starts(version) == ~eager /\ sent # <<>> /\ sent[1].version = version
Refusing == sent # <<>> /\ LastSent.id = "Refused"

\* A patient client of an accepted version gets through to the pack stack,
\* unless it refuses the packs.
LoginCompletes ==
  \A v \in Version \cap acceptedProtocols :
    Starts(v) ~> Got("ResourcePackStack") \/ Refusing

\* A patient client of another version is told which side is outdated.
UnsupportedIsTold ==
  \A v \in Version \ acceptedProtocols :
    Starts(v) ~> Got(IF v < currentProtocol THEN "LoginFailedClient"
                                                ELSE "LoginFailedServer")

\* Only the protocol version the server announces gets in.
OnlyCurrentVersionLogsIn ==
  Got("LoginSuccess") => Claimed("Login", currentProtocol)
=============================================================================
