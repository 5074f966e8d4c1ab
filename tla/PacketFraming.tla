---------------------------- MODULE PacketFraming ----------------------------
(***************************************************************************)
(* From the packets of a session to the bytes of a frame and back:         *)
(* Packet::encode and NetworkSession::flush and sendInternal on the way    *)
(* out, McbePacketRouter::route and NetworkSession::onRaw on the way in.   *)
(* The two ways meet in the client; here one end of the model writes what  *)
(* the other reads, as a client that uses the same format does.            *)
(*                                                                         *)
(* A packet's payload is abstracted to what a decoder reads of it, one     *)
(* string, and what it leaves unread: the fields a newer client appends,   *)
(* or all of it in the decoders that do nothing.  Encryption is left out:  *)
(* encryptionEnabled is never set.                                         *)
(***************************************************************************)
EXTENDS WireFormat

CONSTANTS
  IdBits,       \* 10: the bits of a network id in a packet's header
  NetworkId,    \* the ids that are sent
  Registered,   \* those in the PacketFactory
  SubClient,    \* 0 .. 3
  Text, Extra,  \* payloads: what is read, and what is not
  Threshold,    \* Compressor::minCompressionSize
  MaxPackets,   \* bound: packets of a frame
  MaxFrames     \* bound: frames

ASSUME HeaderAssumption ==
  /\ IdBits \in Nat \ {0}
  /\ NetworkId \subseteq 0 .. TwoTo[IdBits] - 1 /\ Registered \subseteq NetworkId
  /\ SubClient \subseteq 0 .. 3
  /\ 4 * TwoTo[IdBits] <= Span(WordBytes)
ASSUME ThresholdAssumption == Threshold \in Nat
ASSUME FramingBounds == MaxPackets \in Nat /\ MaxFrames \in Nat

Packet == [networkId : NetworkId, subClientId : SubClient, text : Text, extra : Extra]

VARIABLES
  compressionEnabled,
  sendQueue,   \* m_sendQueue
  wire,        \* the frames on their way, without the byte 0xFE
  payload,     \* what route gives to onRaw
  offset,      \* `in` of onRaw
  inFrame,     \* onRaw is in its loop
  handled,     \* the packets handed to their handlers
  expected,    \* history: the packets that should be, of the frames sent
  frames       \* counts the frames

readerVars == <<payload, offset, inFrame, handled>>
historyVars == <<expected, frames>>
vars == <<compressionEnabled, sendQueue, wire, readerVars, historyVars>>

Init ==
  /\ compressionEnabled \in BOOLEAN
  /\ sendQueue = <<>> /\ wire = <<>>
  /\ payload = <<>> /\ offset = 0 /\ inFrame = FALSE
  /\ handled = <<>> /\ expected = <<>> /\ frames = 0

-----------------------------------------------------------------------------
(* Out *)

\* networkId & 0x3FF | subClientId << 10
Header(p) == (p.networkId % TwoTo[IdBits]) + p.subClientId * TwoTo[IdBits]

encodePayload(p) == writeString(p.text) \o p.extra

\* The length in front of a packet counts its header too.
EncodedLength(p) == Len(encodePayload(p)) + getVarUIntSize(Header(p))

encode(p) == writeVarUInt(EncodedLength(p)) \o writeVarUInt(Header(p)) \o encodePayload(p)

\* A string and a packet have lengths of 32 bits, as the message has that RakNet
\* makes of them.
ASSUME LengthAssumption ==
  /\ Text \subseteq Seq(Byte) /\ Extra \subseteq Seq(Byte)
  /\ \A text \in Text : Len(text) < Span(WordBytes)
  /\ \A p \in Packet : EncodedLength(p) < Span(WordBytes)

\* flush: the packets of the queue, one behind the other.
Encoded(packets) ==
  LET upTo[k \in 0 .. Len(packets)] ==
        IF k = 0 THEN <<>> ELSE upTo[k - 1] \o encode(packets[k])
  IN  upTo[Len(packets)]

\* Nobody but decompress reads what compress makes of bytes.
compress(bytes) == [deflated |-> TRUE, bytes |-> bytes]
decompress(content) == content.bytes
Stored(bytes) == [deflated |-> FALSE, bytes |-> bytes]

shouldCompress(bytes) == Len(bytes) >= Threshold

\* sendInternal: with compression on, a byte names the method.
sendInternal(bytes) ==
  IF ~compressionEnabled THEN [method |-> "absent", content |-> Stored(bytes)]
  ELSE IF shouldCompress(bytes) THEN [method |-> "ZLIB", content |-> compress(bytes)]
  ELSE [method |-> "NONE", content |-> Stored(bytes)]

Send(p) ==
  /\ Len(sendQueue) < MaxPackets /\ frames < MaxFrames
  /\ sendQueue' = Append(sendQueue, p)
  /\ UNCHANGED <<compressionEnabled, wire, readerVars, historyVars>>

\* The packets of a frame before the first one nobody registered.
Understood(packets) ==
  LET upTo == CHOOSE n \in 0 .. Len(packets) :
                /\ \A k \in 1 .. n : packets[k].networkId \in Registered
                /\ n < Len(packets) => packets[n + 1].networkId \notin Registered
  IN  SubSeq(packets, 1, upTo)

Flush ==
  /\ sendQueue # <<>>
  /\ wire' = Append(wire, sendInternal(Encoded(sendQueue)))
  /\ sendQueue' = <<>>
  /\ expected' = expected \o Understood(sendQueue)
  /\ frames' = frames + 1
  /\ UNCHANGED <<compressionEnabled, readerVars>>

-----------------------------------------------------------------------------
(* In *)

\* route: without compression the frame is the payload; with it, a method that
\* has a compressor is undone and the bytes of any other are taken as they are.
Inflates(frame) == frame.method \in {"ZLIB", "SNAPPY"}
Opens(frame) ==
  /\ (frame.method # "absent") = compressionEnabled
  /\ Inflates(frame) = frame.content.deflated

\* A frame of one byte, after 0xFE, is dropped.
Length(frame) == Len(frame.content.bytes) + (IF compressionEnabled THEN 1 ELSE 0)
Routable(frame) == Length(frame) > 1 /\ Opens(frame)

Route ==
  /\ ~inFrame /\ wire # <<>> /\ Routable(Head(wire))
  /\ payload' = IF Inflates(Head(wire)) THEN decompress(Head(wire).content)
                                        ELSE Head(wire).content.bytes
  /\ wire' = Tail(wire) /\ offset' = 0 /\ inFrame' = TRUE
  /\ UNCHANGED <<compressionEnabled, sendQueue, handled, historyVars>>

\* One turn of onRaw's loop.  The packet's reader is not limited to the
\* packet's length, which only says where the next packet starts; in frames
\* like these no decoder comes to the end of the payload.
PacketLength == readVarUInt(payload, offset)
PacketHeader == readVarUInt(payload, PacketLength.next)
DecodedText == readString(payload, PacketHeader.next)
ReadId == PacketHeader.value % TwoTo[IdBits]
ReadSubClient == (PacketHeader.value \div TwoTo[IdBits]) % 4

\* (Bug... definitions are deliberate faults that show the properties can fail.)
BugAfterDecoded == DecodedText.next
NextOffset == PacketLength.next + PacketLength.value

\* No read throws here.
Legible ==
  /\ ~PacketLength.threw /\ ~PacketHeader.threw
  /\ ReadId \in Registered => ~DecodedText.threw

HandlePacket ==
  /\ inFrame /\ Legible /\ ReadId \in Registered
  /\ handled' = Append(handled, [networkId |-> ReadId, subClientId |-> ReadSubClient,
                                 text |-> DecodedText.value])
  /\ offset' = NextOffset
  /\ inFrame' = (NextOffset # Len(payload))   \* in.remaining() > 0, unsigned
  /\ UNCHANGED <<compressionEnabled, sendQueue, wire, payload, historyVars>>

\* An id the factory does not know ends the frame.
RejectPacket ==
  /\ inFrame /\ Legible /\ ReadId \notin Registered
  /\ inFrame' = FALSE
  /\ UNCHANGED <<compressionEnabled, sendQueue, wire, payload, offset, handled, historyVars>>

Next ==
  \/ \E p \in Packet : Send(p)
  \/ Flush \/ Route \/ HandlePacket \/ RejectPacket

Spec == Init /\ [][Next]_vars

-----------------------------------------------------------------------------
(* Properties *)

WithoutExtra(p) == [networkId |-> p.networkId, subClientId |-> p.subClientId, text |-> p.text]

\* What is handled is what was sent, in order and with nothing left out but
\* what follows an unknown packet in its frame: the lengths, the headers, the
\* compression and the fields nobody reads never put the reader out of step,
\* make it throw, or make it drop a frame.
HandledAsSent ==
  /\ wire # <<>> => Routable(Head(wire))
  /\ inFrame => Legible
  /\ Len(handled) <= Len(expected)
  /\ \A k \in DOMAIN handled : handled[k] = WithoutExtra(expected[k])
  /\ wire = <<>> /\ ~inFrame => Len(handled) = Len(expected)
=============================================================================
