----------------------------- MODULE WireFormat -----------------------------
(***************************************************************************)
(* The encodings of BinaryWriter and BinaryReader (src/network/io).        *)
(*                                                                         *)
(* A buffer is a sequence of bytes.  The widths are scaled: a byte has     *)
(* ByteBits bits, so a variable-length group ByteBits - 1, a uint32_t has  *)
(* WordBytes and a uint64_t LongBytes bytes.  8, 4 and 8 are the widths of *)
(* the code; with 4, 4 and 7 the last group of a variable-length number is *)
(* only partly used, as it is there.  A float is its bits.                 *)
(*                                                                         *)
(* Reading gives a record: the value and the offset behind it, or          *)
(* Throws.  Offsets count from 0 as in the code.                           *)
(***************************************************************************)
EXTENDS Integers, SequencesExt

CONSTANTS ByteBits, WordBytes, LongBytes

ASSUME WidthAssumption ==
  /\ ByteBits \in Nat \ {0, 1} /\ WordBytes \in Nat \ {0}
  /\ LongBytes \in Nat /\ LongBytes > WordBytes

TwoTo[k \in Nat] == IF k = 0 THEN 1 ELSE 2 * TwoTo[k - 1]

Radix == TwoTo[ByteBits]          \* 256
Group == TwoTo[ByteBits - 1]      \* 0x80
Span(n) == TwoTo[ByteBits * n]    \* the values of n bytes
Byte == 0 .. Radix - 1
ShortBytes == WordBytes \div 2

\* The number of groups that hold n bytes: 5 for uint32_t, 10 for uint64_t.
\* (Bug... definitions are deliberate faults that show the properties can fail.)
BugOneGroupShort(n) == (n * ByteBits) \div (ByteBits - 1)
Groups(n) == (n * ByteBits + ByteBits - 2) \div (ByteBits - 1)

-----------------------------------------------------------------------------
(* BinaryWriter *)

\* A signed number and its bits, in n bytes.
Bits(v, n) == v % Span(n)
Signed(bits, n) == IF 2 * bits >= Span(n) THEN bits - Span(n) ELSE bits
Complement(bits, n) == Span(n) - 1 - bits

\* v >>= digit, i times.
Shifted(v, radix) ==
  LET after[i \in Nat] == IF i = 0 THEN v ELSE after[i - 1] \div radix
  IN  after

writeRawLE(v, n) == [i \in 1 .. n |-> Shifted(v, Radix)[i - 1] % Radix]
writeRawBE(v, n) == Reverse(writeRawLE(v, n))

\* getVarUIntSize, getVarULongSize: the turns until nothing is left.
getVarUIntSize(v) ==
  CHOOSE k \in 1 .. ByteBits * LongBytes :
    /\ Shifted(v, Group)[k] = 0
    /\ \A j \in 1 .. k - 1 : Shifted(v, Group)[j] # 0

\* writeVarUInt, writeVarULong: seven bits at a time, the lowest first, all but
\* the last byte with the highest bit set.
writeVarUInt(v) ==
  LET k == getVarUIntSize(v)
  IN  [i \in 1 .. k |-> (Shifted(v, Group)[i - 1] % Group) + (IF i < k THEN Group ELSE 0)]

\* writeVarInt, writeVarLong: v << 1 ^ -(v & 1), where -1 flips every bit.
writeVarInt(v, n) ==
  LET twice == Bits(2 * v, n)
  IN  writeVarUInt(IF v % 2 = 1 THEN Complement(twice, n) ELSE twice)

\* writeOptional of a uint32_t: a sequence of at most one.
writeOptional(v) == IF v = <<>> THEN <<0>> ELSE <<1>> \o writeRawLE(v[1], WordBytes)

writeString(s) == writeVarUInt(Len(s)) \o s
writeStringU32LE(s) == writeRawLE(Len(s), WordBytes) \o s

\* The two halves of an id, each reversed.
Halves(s) == [low |-> SubSeq(s, 1, Len(s) \div 2), high |-> SubSeq(s, Len(s) \div 2 + 1, Len(s))]
writeUUID(s) == Reverse(Halves(s).low) \o Reverse(Halves(s).high)

-----------------------------------------------------------------------------
(* BinaryReader *)

Throws == [threw |-> TRUE]
Gives(value, next) == [threw |-> FALSE, value |-> value, next |-> next]

ensureReadable(buffer, offset, n) == offset + n <= Len(buffer)
Bytes(buffer, offset, n) == SubSeq(buffer, offset + 1, offset + n)

\* The number with these digits, the lowest first.
Number(digits, radix) ==
  LET top[i \in 0 .. Len(digits)] ==
        IF i = 0 THEN 0 ELSE digits[Len(digits) - i + 1] + radix * top[i - 1]
  IN  top[Len(digits)]

readBytes(buffer, offset, n) ==
  IF ensureReadable(buffer, offset, n)
  THEN Gives(Bytes(buffer, offset, n), offset + n)
  ELSE Throws

BugOtherEnd(buffer, offset, n) ==
  LET r == readBytes(buffer, offset, n)
  IN  IF r.threw THEN Throws ELSE Gives(Number(Reverse(r.value), Radix), r.next)
readRawLE(buffer, offset, n) ==
  LET r == readBytes(buffer, offset, n)
  IN  IF r.threw THEN Throws ELSE Gives(Number(r.value, Radix), r.next)
readRawBE(buffer, offset, n) ==
  LET r == readBytes(buffer, offset, n)
  IN  IF r.threw THEN Throws ELSE Gives(Number(Reverse(r.value), Radix), r.next)

readBool(buffer, offset) ==
  LET r == readRawLE(buffer, offset, 1)
  IN  IF r.threw THEN Throws ELSE Gives(r.value # 0, r.next)

\* The bytes of a variable-length number end with the first one whose highest
\* bit is clear; without one among the first Groups(n), or before the end of
\* the buffer, the read throws.  Bits beyond the width are shifted out.
EndsAt(buffer, offset, k) ==
  /\ ensureReadable(buffer, offset, k)
  /\ buffer[offset + k] < Group
  /\ \A j \in 1 .. k - 1 : buffer[offset + j] >= Group

readVar(buffer, offset, n) ==
  LET ends == {k \in 1 .. Groups(n) : EndsAt(buffer, offset, k)}
  IN  IF ends = {} THEN Throws
      ELSE LET k == CHOOSE k \in ends : TRUE
               payload == [i \in 1 .. k |-> buffer[offset + i] % Group]
           IN  Gives(Number(payload, Group) % Span(n), offset + k)

readVarUInt(buffer, offset) == readVar(buffer, offset, WordBytes)
readVarULong(buffer, offset) == readVar(buffer, offset, LongBytes)

\* readVarInt, readVarLong: (v >> 1) ^ (~(v & 1) + 1)
readVarInt(buffer, offset, n) ==
  LET r == readVar(buffer, offset, n)
  IN  IF r.threw THEN Throws
      ELSE LET half == r.value \div 2
           IN  Gives(Signed(IF r.value % 2 = 1 THEN Complement(half, n) ELSE half, n), r.next)

readOptional(buffer, offset) ==
  LET present == readBool(buffer, offset)
      r == readRawLE(buffer, present.next, WordBytes)
  IN  IF present.threw THEN Throws
      ELSE IF ~present.value THEN Gives(<<>>, present.next)
      ELSE IF r.threw THEN Throws ELSE Gives(<<r.value>>, r.next)

readString(buffer, offset) ==
  LET len == readVarUInt(buffer, offset)
  IN  IF len.threw THEN Throws ELSE readBytes(buffer, len.next, len.value)

readStringU32LE(buffer, offset) ==
  LET len == readRawLE(buffer, offset, WordBytes)
  IN  IF len.threw THEN Throws ELSE readBytes(buffer, len.next, len.value)

readUUID(buffer, offset, n) ==
  LET r == readBytes(buffer, offset, n)
  IN  IF r.threw THEN Throws
      ELSE Gives(Reverse(Halves(r.value).low) \o Reverse(Halves(r.value).high), r.next)

-----------------------------------------------------------------------------
(* util/uuid.hpp: an id as text, two digits for a byte.  The dashes, which  *)
(* stand at fixed places, are left out.                                     *)

Digits == TwoTo[(ByteBits + 1) \div 2]

toString(id) ==
  [i \in 1 .. 2 * Len(id) |->
     IF i % 2 = 1 THEN id[(i + 1) \div 2] \div Digits ELSE id[i \div 2] % Digits]

fromString(text, n) ==
  IF Len(text) = 2 * n /\ \A i \in DOMAIN text : text[i] < Digits
  THEN Gives([i \in 1 .. n |-> text[2 * i - 1] * Digits + text[2 * i]], 0)
  ELSE Throws
=============================================================================
