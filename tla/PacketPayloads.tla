--------------------------- MODULE PacketPayloads ---------------------------
(***************************************************************************)
(* The payloads of the packets: what encodePayload writes and              *)
(* decodePayload reads, field by field.  A layout is a sequence of fields; *)
(* a field that counts a list is followed by that many entries, so that    *)
(* the reader's layout depends on the numbers it has read.                 *)
(*                                                                         *)
(* Half of the packets have their encoder or their decoder in the client   *)
(* (the one in the source does nothing); the client then mirrors the side  *)
(* the source has.  The reader may get less than was written: a client     *)
(* with another layout of a packet sends fewer fields.                     *)
(***************************************************************************)
EXTENDS WireFormat

CONSTANTS
  PacketName,  \* the packets of a run
  Numbers,     \* values of integer fields, as far as they fit
  Strings,     \* values of string fields
  Ids,         \* values of uuid fields, all of the length IdBytes
  IdBytes,
  Underscore,  \* '_', between the id and the version of a pack
  MaxEntries,  \* bound: entries of a list
  MaxSpecial   \* bound: fields of a packet that are not 0, FALSE, empty or nil

ASSUME ValueAssumption ==
  /\ Numbers \subseteq Int /\ 0 \in Numbers
  /\ Strings \subseteq Seq(Byte) /\ Ids \subseteq Seq(Byte)
  /\ \A s \in Ids : Len(s) = IdBytes
  /\ <<>> \in Strings /\ IdBytes \in Nat /\ [i \in 1 .. IdBytes |-> 0] \in Ids
  /\ Underscore \in Digits .. Radix - 1
\* The length of a string has 32 bits, of the two of a request and of an id with
\* a version too; lists are counted with 16.
ASSUME StringAssumption ==
  /\ \A s, t \in Strings : 2 * WordBytes + Len(s) + Len(t) < Span(WordBytes)
  /\ \A s \in Strings : 2 * IdBytes + 1 + Len(s) < Span(WordBytes)
ASSUME PayloadBounds ==
  MaxEntries \in Nat /\ MaxEntries < Span(ShortBytes) /\ MaxSpecial \in Nat

-----------------------------------------------------------------------------
(* The types of the fields *)

Integer(bytes, big, signed) == [bytes |-> bytes, big |-> big, signed |-> signed]

Fixed ==
  [U8     |-> Integer(1, FALSE, FALSE),          I8       |-> Integer(1, FALSE, TRUE),
   U16LE  |-> Integer(ShortBytes, FALSE, FALSE), U16BE    |-> Integer(ShortBytes, TRUE, FALSE),
   I16LE  |-> Integer(ShortBytes, FALSE, TRUE),  I16BE    |-> Integer(ShortBytes, TRUE, TRUE),
   U32LE  |-> Integer(WordBytes, FALSE, FALSE),  U32BE    |-> Integer(WordBytes, TRUE, FALSE),
   I32LE  |-> Integer(WordBytes, FALSE, TRUE),   I32BE    |-> Integer(WordBytes, TRUE, TRUE),
   U64LE  |-> Integer(LongBytes, FALSE, FALSE),  U64BE    |-> Integer(LongBytes, TRUE, FALSE),
   I64LE  |-> Integer(LongBytes, FALSE, TRUE),   I64BE    |-> Integer(LongBytes, TRUE, TRUE),
   FloatLE |-> Integer(WordBytes, FALSE, FALSE), DoubleLE |-> Integer(LongBytes, FALSE, FALSE)]

Fits(v, bytes, signed) ==
  IF signed THEN -Span(bytes) <= 2 * v /\ 2 * v < Span(bytes)
            ELSE 0 <= v /\ v < Span(bytes)

\* A pack as a client names it: the id, and the version behind an underscore.
NamedPack == [id : Ids, rest : {<<>>} \cup {<<Underscore>> \o s : s \in Strings}]
NilId == [i \in 1 .. IdBytes |-> 0]
NamesVersion(pack) == pack.rest # <<>>

Values(type) ==
  CASE type \in DOMAIN Fixed -> {v \in Numbers : Fits(v, Fixed[type].bytes, Fixed[type].signed)}
    [] type \in {"VarUInt", "ChunkIndex"} -> {v \in Numbers : Fits(v, WordBytes, FALSE)}
    [] type = "VarULong" -> {v \in Numbers : Fits(v, LongBytes, FALSE)}
    [] type = "VarInt" -> {v \in Numbers : Fits(v, WordBytes, TRUE)}
    [] type = "VarLong" -> {v \in Numbers : Fits(v, LongBytes, TRUE)}
    [] type = "Optional" -> {<<>>} \cup {<<v>> : v \in {w \in Numbers : Fits(w, WordBytes, FALSE)}}
    [] type = "Bool" -> BOOLEAN
    [] type = "String" -> Strings
    [] type = "LoginRequest" -> Strings \X Strings
    [] type \in {"UUID", "IdText"} -> Ids
    [] type \in {"PackId", "PackEntry"} -> NamedPack

Special(type, v) ==
  v \notin CASE type = "Bool" -> {FALSE}
             [] type \in {"String", "Optional"} -> {<<>>}
             [] type = "LoginRequest" -> {<< <<>>, <<>> >>}
             [] type \in {"UUID", "IdText"} -> {NilId}
             [] type \in {"PackId", "PackEntry"} -> {[id |-> NilId, rest |-> <<>>]}
             [] OTHER -> {0}

\* ChunkIndex and the two ways to name a pack are the client's to write.
EncodedField(type, v) ==
  CASE type \in DOMAIN Fixed ->
         LET f == Fixed[type]
         IN  IF f.big THEN writeRawBE(Bits(v, f.bytes), f.bytes)
                      ELSE writeRawLE(Bits(v, f.bytes), f.bytes)
    [] type \in {"VarUInt", "VarULong"} -> writeVarUInt(v)
    [] type = "VarInt" -> writeVarInt(v, WordBytes)
    [] type = "VarLong" -> writeVarInt(v, LongBytes)
    [] type = "Optional" -> writeOptional(v)
    [] type = "Bool" -> IF v THEN <<1>> ELSE <<0>>
    [] type = "String" -> writeString(v)
    [] type = "LoginRequest" -> writeString(writeStringU32LE(v[1]) \o writeStringU32LE(v[2]))
    [] type = "UUID" -> writeUUID(v)
    [] type = "IdText" -> writeString(toString(v))
    [] type = "ChunkIndex" -> writeRawLE(Bits(v, ShortBytes), ShortBytes)
    [] type \in {"PackId", "PackEntry"} -> writeString(toString(v.id) \o v.rest)

-----------------------------------------------------------------------------
(* Reading a field *)

readFixed(f, bytes, offset) ==
  LET r == IF f.big THEN readRawBE(bytes, offset, f.bytes) ELSE readRawLE(bytes, offset, f.bytes)
  IN  IF r.threw \/ ~f.signed THEN r ELSE Gives(Signed(r.value, f.bytes), r.next)

\* tryDecodeRequestForConnection: two strings in a buffer of their own.
readLoginRequest(bytes, offset) ==
  LET whole == readString(bytes, offset)
      auth == readStringU32LE(whole.value, 0)
      data == readStringU32LE(whole.value, auth.next)
  IN  IF whole.threw THEN Throws
      ELSE IF auth.threw THEN Throws
      ELSE IF data.threw THEN Throws
      ELSE Gives(<<auth.value, data.value>>, whole.next)

\* fromString of the text, which throws if the text goes on behind the id.
readPackId(bytes, offset) ==
  LET text == readString(bytes, offset)
      id == fromString(text.value, IdBytes)
  IN  IF text.threw THEN Throws
      ELSE IF id.threw THEN Throws
      ELSE Gives(id.value, text.next)

\* An entry of the client's answer: split at the first underscore; without one
\* the entry keeps its default, the nil id.
Underscores(text) == {i \in DOMAIN text : text[i] = Underscore}
SplitAt(text) == CHOOSE i \in Underscores(text) : \A j \in Underscores(text) : i <= j

readPackEntry(bytes, offset) ==
  LET text == readString(bytes, offset)
      id == fromString(SubSeq(text.value, 1, SplitAt(text.value) - 1), IdBytes)
      rest == SubSeq(text.value, SplitAt(text.value), Len(text.value))
  IN  IF text.threw THEN Throws
      ELSE IF Underscores(text.value) = {} THEN Gives([id |-> NilId, rest |-> <<>>], text.next)
      ELSE IF id.threw THEN Throws
      ELSE Gives([id |-> id.value, rest |-> rest], text.next)

DecodedField(type, bytes, offset) ==
  CASE type \in DOMAIN Fixed -> readFixed(Fixed[type], bytes, offset)
    [] type = "VarUInt" -> readVarUInt(bytes, offset)
    [] type = "VarULong" -> readVarULong(bytes, offset)
    [] type = "VarInt" -> readVarInt(bytes, offset, WordBytes)
    [] type = "VarLong" -> readVarInt(bytes, offset, LongBytes)
    [] type = "Optional" -> readOptional(bytes, offset)
    [] type = "Bool" -> readBool(bytes, offset)
    [] type = "String" -> readString(bytes, offset)
    [] type = "LoginRequest" -> readLoginRequest(bytes, offset)
    [] type = "UUID" -> readUUID(bytes, offset, IdBytes)
    [] type \in {"IdText", "PackId"} -> readPackId(bytes, offset)
    [] type = "PackEntry" -> readPackEntry(bytes, offset)
    [] type = "ChunkIndex" -> readFixed(Fixed["I16LE"], bytes, offset)

-----------------------------------------------------------------------------
(* The layouts *)

Plain(types) == [i \in DOMAIN types |-> [type |-> types[i], entry |-> <<>>]]
Counted(type, entry) == <<[type |-> type, entry |-> entry]>>

RequestNetworkSettingsPacket == Plain(<<"U32BE">>)
NetworkSettingsPacket == Plain(<<"I16LE", "I16LE", "Bool", "I8", "FloatLE">>)
LoginPacket == Plain(<<"U32BE", "LoginRequest">>)
PlayStatusPacket == Plain(<<"U32BE">>)
ServerToClientHandshakePacket == Plain(<<"String">>)
ClientToServerHandshakePacket == <<>>
ClientCacheStatusPacket == Plain(<<"Bool">>)

ResourcePackInfoEntry ==
  <<"UUID", "String", "U64LE", "String", "String", "String", "Bool", "Bool", "Bool", "String">>
ResourcePacksInfoPacket ==
  Plain(<<"Bool", "Bool", "Bool", "Bool", "UUID", "String">>)
    \o Counted("U16LE", ResourcePackInfoEntry)

ResourcePackStackEntry == <<"String", "String", "String">>
ExperimentEntry == <<"String", "Bool">>
\* activeToggles and alwaysOnToggles are one list on the wire and for the reader.
Experiments == Counted("U32LE", ExperimentEntry) \o Plain(<<"Bool">>)
ResourcePackStackPacket ==
  Plain(<<"Bool">>) \o Counted("VarUInt", ResourcePackStackEntry)
    \o Plain(<<"String">>) \o Experiments \o Plain(<<"Bool">>)

\* The hash is a string in all but its type.
ResourcePackDataInfoPacket ==
  Plain(<<"IdText", "I32LE", "I32LE", "U64LE", "String", "Bool", "U8">>)
ResourcePackChunkDataPacket == Plain(<<"IdText", "U32LE", "U64LE", "String">>)
ResourcePackClientResponsePacket == Plain(<<"U8">>) \o Counted("U16LE", <<"PackEntry">>)
ResourcePackChunkRequestPacket == Plain(<<"PackId", "ChunkIndex">>)

Layout ==
  [RequestNetworkSettings |-> RequestNetworkSettingsPacket,
   NetworkSettings |-> NetworkSettingsPacket, Login |-> LoginPacket,
   PlayStatus |-> PlayStatusPacket,
   ServerToClientHandshake |-> ServerToClientHandshakePacket,
   ClientToServerHandshake |-> ClientToServerHandshakePacket,
   ClientCacheStatus |-> ClientCacheStatusPacket,
   ResourcePacksInfo |-> ResourcePacksInfoPacket,
   ResourcePackStack |-> ResourcePackStackPacket,
   ResourcePackDataInfo |-> ResourcePackDataInfoPacket,
   ResourcePackChunkData |-> ResourcePackChunkDataPacket,
   ResourcePackClientResponse |-> ResourcePackClientResponsePacket,
   ResourcePackChunkRequest |-> ResourcePackChunkRequestPacket]

\* The encodings no packet uses yet, one behind the other.
UnusedTypes ==
  {"U16BE", "I16BE", "I32BE", "U64BE", "I64LE", "I64BE", "DoubleLE",
   "VarULong", "VarInt", "VarLong", "Optional"}
ASSUME LayoutAssumption == PacketName \subseteq DOMAIN Layout
Layouts ==
  {Layout[name] : name \in PacketName}
    \cup {Plain(pair) : pair \in UnusedTypes \X UnusedTypes}

\* What is left to do behind the first field, with the value v.
Repeated(types, v) == [i \in 1 .. v * Len(types) |-> types[((i - 1) % Len(types)) + 1]]
Behind(todo, v) ==
  IF Head(todo).entry = <<>> THEN Tail(todo)
  ELSE Plain(Repeated(Head(todo).entry, v)) \o Tail(todo)

-----------------------------------------------------------------------------

VARIABLES
  layout,   \* of the packet
  toWrite,  \* what encodePayload has still to write of it
  fields,   \* the fields written
  buffer,   \* BinaryWriter::buffer, then what the reader gets of it
  written,  \* its length when the writer was done, Writing before
  toRead,   \* what decodePayload has still to read
  values,   \* the values read
  consumed, \* BinaryReader::offset
  threw     \* a read threw

writerVars == <<layout, toWrite, fields, buffer, written>>
readerState == <<toRead, values, consumed, threw>>
payloadVars == <<writerVars, readerState>>

Writing == -1

PayloadInit ==
  /\ layout \in Layouts
  /\ toWrite = layout /\ fields = <<>> /\ buffer = <<>>
  /\ written = Writing
  /\ toRead = layout /\ values = <<>> /\ consumed = 0 /\ threw = FALSE

FieldValues(field) ==
  IF field.entry # <<>> THEN 0 .. MaxEntries
  ELSE LET specials == {k \in DOMAIN fields : fields[k].special}
       IN  {v \in Values(field.type) :
              Special(field.type, v) => Cardinality(specials) < MaxSpecial}

Write(v) ==
  LET field == Head(toWrite)
  IN  /\ fields' = Append(fields, [type |-> field.type, value |-> v,
                                   special |-> field.entry = <<>> /\ Special(field.type, v)])
      /\ buffer' = buffer \o EncodedField(field.type, v)
      /\ toWrite' = Behind(toWrite, v)
      /\ UNCHANGED <<layout, written, readerState>>

\* The reader gets the first n bytes.
Deliver(n) ==
  /\ toWrite = <<>> /\ written = Writing
  /\ written' = Len(buffer)
  /\ buffer' = SubSeq(buffer, 1, n)
  /\ UNCHANGED <<layout, toWrite, fields, readerState>>

\* The fields in the order of the layout; the first one that throws ends it.
Reading == written # Writing /\ toRead # <<>> /\ ~threw
NextField == DecodedField(Head(toRead).type, buffer, consumed)

ReadField ==
  /\ Reading /\ ~NextField.threw
  /\ values' = Append(values, NextField.value)
  /\ consumed' = NextField.next
  /\ toRead' = Behind(toRead, NextField.value)
  /\ UNCHANGED <<writerVars, threw>>

ReadThrows ==
  /\ Reading /\ NextField.threw
  /\ threw' = TRUE
  /\ UNCHANGED <<writerVars, toRead, values, consumed>>

PayloadNext ==
  \/ toWrite # <<>> /\ \E v \in FieldValues(Head(toWrite)) : Write(v)
  \/ \E n \in 0 .. Len(buffer) : Deliver(n)
  \/ ReadField \/ ReadThrows

PayloadSpec == PayloadInit /\ [][PayloadNext]_payloadVars

-----------------------------------------------------------------------------
(* Properties *)

Odd(v) == v % 2 = 1

\* What was written and what was read are the same, with three exceptions.
\* An index of a chunk is read with 16 bits and a sign, so that the upper half
\* comes back as another one; the zigzag encoding takes the sign from the lowest
\* bit, so that only odd negative and even other numbers survive; and an entry
\* of the client's answer without an underscore names no pack.
Same(field, value) ==
  CASE field.type = "ChunkIndex" ->
         (value = field.value) <=> (2 * field.value < Span(ShortBytes))
    [] field.type \in {"VarInt", "VarLong"} ->
         (value = field.value) <=> (Odd(field.value) <=> field.value < 0)
    [] field.type = "PackId" -> value = field.value.id
    [] field.type = "PackEntry" ->
         value = IF NamesVersion(field.value) THEN field.value
                 ELSE [id |-> NilId, rest |-> <<>>]
    [] OTHER -> value = field.value

Decided == written # Writing /\ (threw \/ toRead = <<>>)

\* Of every packet each field comes back as it was written and at its place,
\* behind the entries of a list and the widest numbers too.
ReadBack ==
  /\ Len(values) <= Len(fields)
  /\ \A k \in DOMAIN values : Same(fields[k], values[k])
  /\ Decided /\ ~threw => Len(values) = Len(fields)

\* A decoder throws exactly when something is missing or a request for a chunk
\* names a version: a cut is never taken for a shorter payload, an empty list
\* or a smaller number, and a whole packet is read to its last byte.
ThrowsExactlyWhenCut ==
  Decided =>
    /\ threw <=>
         \/ Len(buffer) < written
         \/ \E k \in DOMAIN fields : fields[k].type = "PackId" /\ NamesVersion(fields[k].value)
    /\ ~threw => consumed = written
=============================================================================
