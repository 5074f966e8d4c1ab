---------------------------- MODULE PacketProofs ----------------------------
(***************************************************************************)
(* What is handled is what was sent, for any packets, any texts that fit a *)
(* packet, any number of frames and any widths of the integers; and every  *)
(* field of every layout is read back as it was written, wherever the      *)
(* bytes are cut.                                                          *)
(*                                                                         *)
(* The readers have no state but their offsets, so the two invariants name *)
(* what the bytes stand for.  For the frames these are the queues flushed  *)
(* so far, and for each of them where its packets are among those          *)
(* expected; for a packet, what was left of its layout behind each field   *)
(* written, and where the field starts.                                    *)
(***************************************************************************)
EXTENDS PacketFraming, PacketPayloads, WireFormatProofs

-----------------------------------------------------------------------------
(* One packet *)

LEMMA DivisionIs ==
  ASSUME NEW m \in Nat \ {0}, NEW q \in Nat, NEW r \in 0 .. m - 1
  PROVE  (r + q * m) \div m = q /\ (r + q * m) % m = r
<1> DEFINE x == r + q * m
           d == x \div m
           e == x % m
<1>1. x \in Nat
  OBVIOUS
<1>2. d \in Nat /\ e \in 0 .. m - 1 /\ x = m * d + e
  BY <1>1, Division
<1>3. \A a, b \in Nat : a < b => m * a + m <= m * b
  <2> TAKE a, b \in Nat
  <2>1. a < b => a + 1 <= b
    OBVIOUS
  <2>2. \A y, z \in Nat : y <= z => m * y <= m * z
    BY Z3
  <2>3. m * (a + 1) = m * a + m
    BY Z3
  <2> QED BY <2>1, <2>2, <2>3
<1>4. m * q = q * m /\ m * q \in Nat /\ m * d \in Nat
  BY <1>2, Z3
<1> HIDE DEF d, e
<1>5. d = q
  <2>1. ~ (d < q)
    BY <1>2, <1>3, <1>4
  <2>2. ~ (q < d)
    BY <1>2, <1>3, <1>4
  <2> QED BY <1>2, <2>1, <2>2
<1>6. e = r
  BY <1>2, <1>4, <1>5
<1> QED BY <1>5, <1>6 DEF d, e

\* The two parts of a header, and that it fits.
LEMMA HeaderIs ==
  ASSUME NEW p \in Packet
  PROVE  /\ Header(p) \in Nat /\ Header(p) < Span(WordBytes)
         /\ Header(p) % TwoTo[IdBits] = p.networkId
         /\ (Header(p) \div TwoTo[IdBits]) % 4 = p.subClientId
<1> DEFINE m == TwoTo[IdBits]
<1>1. m \in Nat \ {0} /\ p.networkId \in 0 .. m - 1 /\ p.subClientId \in 0 .. 3
  <2>1. IdBits \in Nat
    BY HeaderAssumption
  <2> QED BY <2>1, HeaderAssumption, TwoToPositive DEF Packet
<1>2. 4 * m <= Span(WordBytes) /\ Span(WordBytes) \in Nat
  BY HeaderAssumption, Widths
<1> HIDE DEF m
<1>3. p.networkId % m = p.networkId
  <2>1. ASSUME NEW x \in Nat, x < m
        PROVE  x % m = x
    BY <1>1, <2>1, Division
  <2> QED BY <1>1, <2>1
<1>4. Header(p) = p.networkId + p.subClientId * m
  BY <1>3 DEF Header, m
<1>5. Header(p) % m = p.networkId /\ Header(p) \div m = p.subClientId
  <2>1. \A q \in Nat, r \in 0 .. m - 1 : (r + q * m) \div m = q /\ (r + q * m) % m = r
    BY <1>1, DivisionIs
  <2> DEFINE q == p.subClientId
             r == p.networkId
  <2>2. q \in Nat /\ r \in 0 .. m - 1 /\ Header(p) = r + q * m
    BY <1>1, <1>4
  <2> HIDE DEF q, r
  <2>3. Header(p) % m = r /\ Header(p) \div m = q
    BY <2>1, <2>2
  <2> QED BY <2>3 DEF q, r
<1>6. p.subClientId % 4 = p.subClientId
  BY <1>1
<1>7. Header(p) \in Nat /\ Header(p) < 4 * m
  <2>1. \A i \in 0 .. 3 : i * m <= 3 * m /\ i * m \in Nat
    BY <1>1, Z3
  <2> QED BY <1>1, <1>4, <2>1
<1> QED BY <1>1, <1>2, <1>5, <1>6, <1>7 DEF m

LEMMA PacketIs ==
  ASSUME NEW p \in Packet
  PROVE  /\ p.text \in Seq(Byte) /\ p.extra \in Seq(Byte) /\ Len(p.text) < Span(WordBytes)
         /\ EncodedLength(p) \in Nat /\ EncodedLength(p) < Span(WordBytes)
         /\ writeVarUInt(EncodedLength(p)) \in Seq(Byte) /\ writeVarUInt(Header(p)) \in Seq(Byte)
         /\ writeString(p.text) \in Seq(Byte) /\ encode(p) \in Seq(Byte)
         /\ Len(writeVarUInt(EncodedLength(p))) = getVarUIntSize(EncodedLength(p))
         /\ Len(writeVarUInt(Header(p))) = getVarUIntSize(Header(p))
         /\ getVarUIntSize(EncodedLength(p)) \in Nat /\ getVarUIntSize(Header(p)) \in Nat
         /\ Len(encode(p)) = getVarUIntSize(EncodedLength(p)) + EncodedLength(p)
         /\ Len(encode(p)) >= 2
<1>1. p.text \in Seq(Byte) /\ p.extra \in Seq(Byte) /\ EncodedLength(p) < Span(WordBytes)
  BY LengthAssumption DEF Packet
<1>2. WordBytes \in Nat /\ WordBytes >= 1 /\ WordBytes <= LongBytes /\ Span(WordBytes) \in Nat
  BY WidthAssumption, Widths
<1>3. Header(p) \in Nat /\ Header(p) < Span(WordBytes)
  BY HeaderIs
<1> DEFINE Fits32(v) == v \in Nat /\ v < Span(WordBytes)
           h == Header(p)
           l == EncodedLength(p)
<1>4. ASSUME NEW v, Fits32(v)
      PROVE  /\ writeVarUInt(v) \in Seq(Byte) /\ Len(writeVarUInt(v)) = getVarUIntSize(v)
             /\ getVarUIntSize(v) \in Nat /\ getVarUIntSize(v) >= 1
  <2>1. v \in Nat /\ v < Span(WordBytes)
    BY <1>4
  <2>2. v < Span(LongBytes)
    BY <1>2, <2>1, SizeBound
  <2>3. getVarUIntSize(v) \in Nat \ {0}
    BY <2>1, <2>2, SizeIs
  <2> QED BY <2>1, <2>2, <2>3, WrittenNumber
<1>5. \A a, b \in Seq(Byte) : a \o b \in Seq(Byte) /\ Len(a \o b) = Len(a) + Len(b) /\ Len(a) \in Nat
  OBVIOUS
<1> HIDE DEF Fits32
<1>6. /\ writeVarUInt(h) \in Seq(Byte) /\ Len(writeVarUInt(h)) = getVarUIntSize(h)
      /\ getVarUIntSize(h) \in Nat /\ getVarUIntSize(h) >= 1
  BY <1>3, <1>4 DEF Fits32
<1> HIDE DEF h
<1>7. l = Len(encodePayload(p)) + getVarUIntSize(h)
  BY DEF EncodedLength, h
<1>8. encodePayload(p) = (writeVarUInt(Len(p.text)) \o p.text) \o p.extra
  BY DEF encodePayload, writeString
<1>9. Fits32(Len(p.text))
  BY <1>1, LengthAssumption DEF Packet, Fits32
<1> DEFINE w == writeVarUInt(Len(p.text))
<1>10. w \in Seq(Byte)
  BY <1>4, <1>9
<1> HIDE DEF w
<1>11. writeString(p.text) = w \o p.text /\ writeString(p.text) \in Seq(Byte)
  BY <1>1, <1>5, <1>10 DEF writeString, w
<1>12. encodePayload(p) \in Seq(Byte) /\ Len(encodePayload(p)) \in Nat
  BY <1>1, <1>5, <1>8, <1>10, <1>11 DEF w
<1>13. l \in Nat /\ l >= 1 /\ Fits32(l)
  BY <1>1, <1>6, <1>7, <1>12 DEF Fits32
<1>14. /\ writeVarUInt(l) \in Seq(Byte) /\ Len(writeVarUInt(l)) = getVarUIntSize(l)
       /\ getVarUIntSize(l) \in Nat /\ getVarUIntSize(l) >= 1
  BY <1>4, <1>13
<1> HIDE DEF l
<1>15. encode(p) = (writeVarUInt(l) \o writeVarUInt(h)) \o encodePayload(p)
  BY DEF encode, l, h
<1>16. encode(p) \in Seq(Byte) /\ Len(encode(p)) = getVarUIntSize(l) + l
  <2>1. writeVarUInt(l) \o writeVarUInt(h) \in Seq(Byte)
    BY <1>5, <1>6, <1>14
  <2>2. Len(writeVarUInt(l) \o writeVarUInt(h)) = getVarUIntSize(l) + getVarUIntSize(h)
    BY <1>5, <1>6, <1>14
  <2>3. Len(encode(p)) = getVarUIntSize(l) + getVarUIntSize(h) + Len(encodePayload(p))
    BY <1>5, <1>12, <1>15, <2>1, <2>2
  <2>4. encode(p) \in Seq(Byte)
    BY <1>5, <1>12, <1>15, <2>1
  <2> QED BY <1>6, <1>7, <1>12, <1>14, <2>3, <2>4
<1> QED BY <1>1, <1>6, <1>9, <1>11, <1>13, <1>14, <1>16 DEF Fits32, l, h

\* A turn of onRaw over the bytes of a packet finds its header, its text and
\* where the next packet starts.
LEMMA ReadPacket ==
  ASSUME payload \in Seq(Byte), offset \in Nat, NEW p \in Packet, At(payload, offset, encode(p))
  PROVE  /\ Legible /\ ReadId = p.networkId /\ ReadSubClient = p.subClientId
         /\ DecodedText.value = p.text /\ NextOffset = offset + Len(encode(p))
<1> DEFINE l == EncodedLength(p)
           h == Header(p)
           wl == writeVarUInt(l)
           wh == writeVarUInt(h)
           ws == writeString(p.text)
           o1 == offset + getVarUIntSize(l)
           o2 == o1 + getVarUIntSize(h)
<1>1. /\ p.text \in Seq(Byte) /\ p.extra \in Seq(Byte) /\ Len(p.text) < Span(WordBytes)
      /\ l \in Nat /\ l < Span(WordBytes)
      /\ wl \in Seq(Byte) /\ wh \in Seq(Byte) /\ ws \in Seq(Byte)
      /\ Len(wl) = getVarUIntSize(l) /\ Len(wh) = getVarUIntSize(h)
      /\ getVarUIntSize(l) \in Nat /\ getVarUIntSize(h) \in Nat
      /\ Len(encode(p)) = getVarUIntSize(l) + l
  BY PacketIs
<1>2. h \in Nat /\ h < Span(WordBytes) /\ h % TwoTo[IdBits] = p.networkId
      /\ (h \div TwoTo[IdBits]) % 4 = p.subClientId
  BY HeaderIs
<1>3. WordBytes \in Nat /\ WordBytes >= 1 /\ WordBytes <= LongBytes
  BY WidthAssumption
<1>4. At(payload, offset, wl) /\ At(payload, o1, wh) /\ At(payload, o2, ws)
  <2>1. encode(p) = (wl \o wh) \o (ws \o p.extra)
    BY DEF encode, encodePayload
  <2> HIDE DEF wl, wh, ws
  <2>2. \A a, b \in Seq(Byte) : a \o b \in Seq(Byte) /\ Len(a \o b) = Len(a) + Len(b)
    OBVIOUS
  <2>3. wl \o wh \in Seq(Byte) /\ ws \o p.extra \in Seq(Byte)
    BY <1>1, <2>2
  <2>4. At(payload, offset, wl \o wh) /\ At(payload, offset + Len(wl \o wh), ws \o p.extra)
    <3> DEFINE a == wl \o wh
               b == ws \o p.extra
    <3>1. At(payload, offset, a \o b) /\ a \in Seq(Byte) /\ b \in Seq(Byte)
      BY <2>1, <2>3
    <3> HIDE DEF a, b
    <3>2. At(payload, offset, a) /\ At(payload, offset + Len(a), b)
      BY <3>1, AtConcat
    <3> QED BY <3>2 DEF a, b
  <2>5. At(payload, offset, wl) /\ At(payload, offset + Len(wl), wh)
    BY <1>1, <2>4, AtConcat
  <2>6. offset + Len(wl \o wh) = o2 /\ offset + Len(wl) = o1 /\ o2 \in Nat
    BY <1>1, <2>2
  <2>7. At(payload, o2, ws)
    BY <1>1, <2>4, <2>6, AtConcat
  <2> QED BY <2>5, <2>6, <2>7
<1>5. o1 \in Nat /\ o2 \in Nat
  BY <1>1
<1>6. readVarUInt(payload, offset) = Gives(l, o1)
  <2> HIDE DEF l
  <2> QED BY <1>1, <1>3, <1>4, ReadVarAt DEF readVarUInt
<1>7. readVarUInt(payload, o1) = Gives(h, o2)
  <2> HIDE DEF h, o1
  <2> QED BY <1>2, <1>3, <1>4, <1>5, ReadVarAt DEF readVarUInt
<1>8. readString(payload, o2) = Gives(p.text, o2 + Len(ws))
  <2> HIDE DEF o2
  <2> QED BY <1>1, <1>4, <1>5, ReadStringAt
<1>9. \A x, y : Gives(x, y).threw = FALSE /\ Gives(x, y).value = x /\ Gives(x, y).next = y
  BY DEF Gives
<1> HIDE DEF l, h, wl, wh, ws, o1, o2
<1>10. PacketLength = Gives(l, o1)
  BY <1>6 DEF PacketLength
<1>11. PacketHeader = Gives(h, o2)
  BY <1>7, <1>9, <1>10 DEF PacketHeader
<1>12. DecodedText = Gives(p.text, o2 + Len(ws))
  BY <1>8, <1>9, <1>11 DEF DecodedText
<1>13. Legible
  <2>1. PacketLength.threw = FALSE /\ PacketHeader.threw = FALSE /\ DecodedText.threw = FALSE
    BY <1>9, <1>10, <1>11, <1>12
  <2> QED BY <2>1 DEF Legible
<1>14. ReadId = p.networkId /\ ReadSubClient = p.subClientId
  BY <1>2, <1>9, <1>11 DEF ReadId, ReadSubClient
<1>15. NextOffset = o1 + l
  BY <1>9, <1>10 DEF NextOffset
<1>16. o1 + l = offset + Len(encode(p))
  BY <1>1 DEF l, o1
<1> QED BY <1>9, <1>12, <1>13, <1>14, <1>15, <1>16

-----------------------------------------------------------------------------
(* A frame *)

\* What stands in a buffer still stands there when more is written behind it.
LEMMA AtGrows ==
  ASSUME NEW S, NEW before \in Seq(S), NEW more \in Seq(S), NEW bytes \in Seq(S), NEW o \in Nat
  PROVE  /\ At(before, o, bytes) => At(before \o more, o, bytes)
         /\ At(before \o more, Len(before), more)
<1>1. /\ Len(before) \in Nat /\ Len(more) \in Nat /\ Len(bytes) \in Nat
      /\ Len(before \o more) = Len(before) + Len(more)
      /\ \A i \in 1 .. Len(before) : (before \o more)[i] = before[i]
      /\ \A i \in 1 .. Len(more) : (before \o more)[Len(before) + i] = more[i]
  OBVIOUS
<1>2. ASSUME At(before, o, bytes)
      PROVE  At(before \o more, o, bytes)
  <2>1. \A i \in 1 .. Len(bytes) : o + i \in 1 .. Len(before)
    BY <1>1, <1>2 DEF At
  <2> QED BY <1>1, <1>2, <2>1 DEF At
<1>3. At(before \o more, Len(before), more)
  BY <1>1 DEF At
<1> QED BY <1>2, <1>3

LEMMA EncodeIs == \A p \in Packet : encode(p) \in Seq(Byte) /\ Len(encode(p)) \in Nat /\ Len(encode(p)) >= 2
<1> TAKE p \in Packet
<1>1. encode(p) \in Seq(Byte) /\ Len(encode(p)) >= 2
  BY PacketIs
<1>2. \A b \in Seq(Byte) : Len(b) \in Nat
  OBVIOUS
<1> QED BY <1>1, <1>2

\* The buffer of flush after each packet of the queue.
IsStages(f, packets) ==
  /\ f \in [0 .. Len(packets) -> Seq(Byte)] /\ f[0] = <<>>
  /\ \A k \in 1 .. Len(packets) : f[k] = f[k - 1] \o encode(packets[k])
Fills(f, packets) == IsStages(f, packets) /\ Encoded(packets) = f[Len(packets)]

LEMMA FlushFills ==
  ASSUME NEW packets \in Seq(Packet)
  PROVE  \E f : Fills(f, packets)
<1> DEFINE n == Len(packets)
           next(k, b) == IF k < n THEN b \o encode(packets[k + 1]) ELSE b
           step == [k \in Nat |-> [b \in Seq(Byte) |-> next(k, b)]]
           Eq(f) == f = [k \in 0 .. n |-> IF k = 0 THEN <<>> ELSE f[k - 1] \o encode(packets[k])]
           upTo == CHOOSE f : Eq(f)
<1>1. n \in Nat /\ \A k \in 1 .. n : encode(packets[k]) \in Seq(Byte)
  <2>1. n \in Nat /\ \A k \in 1 .. n : packets[k] \in Packet
    OBVIOUS
  <2> QED BY <2>1, EncodeIs
<1>2. \A a, b \in Seq(Byte) : a \o b \in Seq(Byte)
  OBVIOUS
<1>3. \A k \in Nat, b \in Seq(Byte) : next(k, b) \in Seq(Byte)
  <2> TAKE k \in Nat, b \in Seq(Byte)
  <2>1. CASE k < n
    <3>1. k + 1 \in 1 .. n
      BY <1>1, <2>1
    <3> QED BY <1>1, <1>2, <2>1, <3>1
  <2> QED BY <2>1
<1>4. PICK g : Iterates(g, Seq(Byte), <<>>, step)
  <2>1. step \in [Nat -> [Seq(Byte) -> Seq(Byte)]]
    BY <1>3
  <2>2. <<>> \in Seq(Byte)
    OBVIOUS
  <2> HIDE DEF step
  <2> QED BY <2>1, <2>2, Recursion
<1>5. /\ g \in [Nat -> Seq(Byte)] /\ g[0] = <<>>
      /\ \A k \in Nat : g[k + 1] = next(k, g[k])
  BY <1>4 DEF Iterates
<1> DEFINE f == [k \in 0 .. n |-> g[k]]
<1>6. Eq(f)
  <2> DEFINE body(k) == IF k = 0 THEN <<>> ELSE f[k - 1] \o encode(packets[k])
  <2>1. \A k \in 0 .. n : g[k] = body(k)
    <3> TAKE k \in 0 .. n
    <3>1. CASE k = 0
      BY <1>5, <3>1
    <3>2. CASE k # 0
      <4>1. k - 1 \in Nat /\ k - 1 \in 0 .. n /\ (k - 1) + 1 = k /\ k - 1 < n
        BY <1>1, <3>2
      <4>2. g[k] = g[k - 1] \o encode(packets[k])
        BY <1>5, <4>1
      <4> QED BY <3>2, <4>1, <4>2
    <3> QED BY <3>1, <3>2
  <2>2. [k \in 0 .. n |-> g[k]] = [k \in 0 .. n |-> body(k)]
    <3> HIDE DEF body
    <3> QED BY <2>1
  <2>3. f = [k \in 0 .. n |-> body(k)]
    BY <2>2
  <2> HIDE DEF f
  <2> QED BY <2>3
<1>7. Eq(upTo)
  <2> HIDE DEF Eq, f
  <2> QED BY <1>6
<1>8. Encoded(packets) = upTo[n]
  BY DEF Encoded
<1> HIDE DEF upTo
<1>9. upTo[0] = <<>> /\ \A k \in 1 .. n : upTo[k] = upTo[k - 1] \o encode(packets[k])
  <2>1. 0 \in 0 .. n /\ \A k \in 1 .. n : k \in 0 .. n /\ k # 0
    BY <1>1
  <2> QED BY <1>7, <2>1
<1> DEFINE T == {k \in Nat : k <= n => upTo[k] \in Seq(Byte)}
<1>10. 0 \in T
  <2>1. <<>> \in Seq(Byte)
    OBVIOUS
  <2> QED BY <1>9, <2>1
<1>11. ASSUME NEW k \in Nat, k \in T
       PROVE  k + 1 \in T
  <2> SUFFICES ASSUME k + 1 <= n PROVE upTo[k + 1] \in Seq(Byte)
    OBVIOUS
  <2>1. k + 1 \in 1 .. n /\ (k + 1) - 1 = k /\ upTo[k] \in Seq(Byte)
    BY <1>1, <1>11
  <2> QED BY <1>1, <1>2, <1>9, <2>1
<1> HIDE DEF T
<1>12. \A k \in Nat : k \in T
  BY <1>10, <1>11, Induction
<1>13. \A k \in 0 .. n : upTo[k] \in Seq(Byte)
  BY <1>1, <1>12 DEF T
<1>14. upTo \in [0 .. n -> Seq(Byte)]
  <2>1. DOMAIN upTo = 0 .. n /\ upTo = [k \in 0 .. n |-> upTo[k]]
    BY <1>7
  <2> QED BY <1>13, <2>1
<1>15. Fills(upTo, packets)
  BY <1>8, <1>9, <1>14 DEF Fills, IsStages
<1> QED BY <1>15

\* Where the packet after the first k starts.
Position(packets, k) == Len((CHOOSE f : Fills(f, packets))[k])

LEMMA FrameIs ==
  ASSUME NEW packets \in Seq(Packet)
  PROVE  /\ Encoded(packets) \in Seq(Byte)
         /\ Position(packets, 0) = 0
         /\ \A k \in 0 .. Len(packets) : Position(packets, k) \in Nat
         /\ \A k \in 1 .. Len(packets) :
              /\ At(Encoded(packets), Position(packets, k - 1), encode(packets[k]))
              /\ Position(packets, k) = Position(packets, k - 1) + Len(encode(packets[k]))
         /\ \A k \in 0 .. Len(packets) :
              Position(packets, k) = Len(Encoded(packets)) <=> k = Len(packets)
         /\ packets # <<>> => Len(Encoded(packets)) >= 2
<1> DEFINE n == Len(packets)
           f == CHOOSE g : Fills(g, packets)
<1>1. Fills(f, packets)
  BY FlushFills
<1>2. \A k : Position(packets, k) = Len(f[k])
  BY DEF Position
<1> HIDE DEF f
<1>3. /\ f \in [0 .. n -> Seq(Byte)] /\ f[0] = <<>>
      /\ \A k \in 1 .. n : f[k] = f[k - 1] \o encode(packets[k])
      /\ Encoded(packets) = f[n]
  BY <1>1 DEF Fills, IsStages
<1>4. /\ n \in Nat
      /\ \A k \in 1 .. n : /\ encode(packets[k]) \in Seq(Byte)
                           /\ Len(encode(packets[k])) \in Nat /\ Len(encode(packets[k])) >= 2
  <2>1. n \in Nat /\ \A k \in 1 .. n : packets[k] \in Packet
    OBVIOUS
  <2> QED BY <2>1, EncodeIs
<1> DEFINE Stands(m, k) == At(f[m], Len(f[k - 1]), encode(packets[k]))
           T == {m \in Nat : m <= n => \A k \in 1 .. m : Stands(m, k)}
<1>5. 0 \in T
  OBVIOUS
<1>6. ASSUME NEW m \in Nat, m \in T
      PROVE  m + 1 \in T
  <2> SUFFICES ASSUME m + 1 <= n, NEW k \in 1 .. m + 1 PROVE Stands(m + 1, k)
    OBVIOUS
  <2>1. m + 1 \in 1 .. n /\ k \in 1 .. n /\ k - 1 \in 0 .. n /\ m \in 0 .. n /\ (m + 1) - 1 = m
    BY <1>4
  <2> DEFINE more == encode(packets[m + 1])
  <2>2. f[m + 1] = f[m] \o more /\ f[m] \in Seq(Byte) /\ more \in Seq(Byte)
    BY <1>3, <1>4, <2>1
  <2>3. f[k - 1] \in Seq(Byte) /\ Len(f[k - 1]) \in Nat /\ encode(packets[k]) \in Seq(Byte)
    <3>1. f[k - 1] \in Seq(Byte) /\ encode(packets[k]) \in Seq(Byte)
      BY <1>3, <1>4, <2>1
    <3>2. \A b \in Seq(Byte) : Len(b) \in Nat
      OBVIOUS
    <3> QED BY <3>1, <3>2
  <2>4. CASE k = m + 1
    <3> HIDE DEF more
    <3>1. At(f[m] \o more, Len(f[m]), more)
      BY <2>2, AtGrows
    <3> QED BY <2>1, <2>2, <2>4, <3>1 DEF more
  <2>5. CASE k # m + 1
    <3>1. Stands(m, k)
      BY <1>6, <2>1, <2>5
    <3> DEFINE o == Len(f[k - 1])
               e == encode(packets[k])
    <3> HIDE DEF more, o, e
    <3>2. o \in Nat /\ e \in Seq(Byte)
      BY <2>3 DEF o, e
    <3>3. At(f[m], o, e)
      BY <3>1 DEF o, e
    <3>4. At(f[m] \o more, o, e)
      BY <2>2, <3>2, <3>3, AtGrows
    <3> QED BY <2>2, <3>4 DEF o, e
  <2> QED BY <2>4, <2>5
<1> HIDE DEF T
<1>7. \A m \in Nat : m \in T
  BY <1>5, <1>6, Induction
<1>8. \A k \in 1 .. n : Stands(n, k)
  <2>1. n \in T /\ n <= n
    BY <1>4, <1>7
  <2> HIDE DEF n, Stands
  <2> QED BY <2>1 DEF T
<1>9. \A k \in 1 .. n : k - 1 \in 0 .. n /\ k \in 0 .. n
  BY <1>4
<1>10. \A a, b \in Seq(Byte) : Len(a \o b) = Len(a) + Len(b) /\ Len(a) \in Nat
  OBVIOUS
<1>11. \A k \in 0 .. n : f[k] \in Seq(Byte) /\ Len(f[k]) \in Nat
  BY <1>3, <1>10
<1>12. \A k \in 1 .. n : Len(f[k]) = Len(f[k - 1]) + Len(encode(packets[k]))
  BY <1>3, <1>4, <1>9, <1>10, <1>11
<1>13. \A k \in 1 .. n : Len(f[k - 1]) + 2 <= Len(f[n])
  <2> TAKE k \in 1 .. n
  <2>1. Len(f[k - 1]) + Len(encode(packets[k])) <= Len(f[n])
    BY <1>8 DEF At
  <2>2. Len(f[k - 1]) \in Nat /\ Len(f[n]) \in Nat
    BY <1>4, <1>9, <1>11
  <2>3. Len(encode(packets[k])) \in Nat /\ Len(encode(packets[k])) >= 2
    BY <1>4
  <2>4. \A x, y, z \in Nat : y >= 2 /\ x + y <= z => x + 2 <= z
    OBVIOUS
  <2> QED BY <2>1, <2>2, <2>3, <2>4
<1>14. \A k \in 0 .. n : Len(f[k]) = Len(f[n]) <=> k = n
  <2> SUFFICES ASSUME NEW k \in 0 .. n, k # n PROVE Len(f[k]) # Len(f[n])
    OBVIOUS
  <2>1. k + 1 \in 1 .. n /\ (k + 1) - 1 = k
    BY <1>4
  <2>2. Len(f[k]) + 2 <= Len(f[n]) /\ Len(f[k]) \in Nat /\ Len(f[n]) \in Nat
    BY <1>4, <1>11, <1>13, <2>1
  <2> QED BY <2>2
<1>15. packets # <<>> => Len(f[n]) >= 2
  <2> SUFFICES ASSUME packets # <<>> PROVE Len(f[n]) >= 2
    OBVIOUS
  <2>1. 1 \in 1 .. n /\ 1 - 1 = 0
    OBVIOUS
  <2>2. Len(f[0]) \in Nat /\ Len(f[n]) \in Nat
    BY <1>4, <1>11
  <2>3. Len(f[0]) + 2 <= Len(f[n])
    BY <1>13, <2>1
  <2> QED BY <2>2, <2>3
<1>16. Len(f[0]) = 0
  BY <1>3
<1>17. Encoded(packets) \in Seq(Byte)
  BY <1>3, <1>4, <1>11
<1> QED BY <1>2, <1>3, <1>8, <1>11, <1>12, <1>14, <1>15, <1>16, <1>17

\* The packets before the first one nobody registered.
LEMMA UnderstoodIs ==
  ASSUME NEW packets \in Seq(Packet)
  PROVE  /\ Understood(packets) \in Seq(Packet)
         /\ Len(Understood(packets)) \in 0 .. Len(packets)
         /\ \A k \in 1 .. Len(Understood(packets)) :
              Understood(packets)[k] = packets[k] /\ packets[k].networkId \in Registered
         /\ Len(Understood(packets)) < Len(packets) =>
              packets[Len(Understood(packets)) + 1].networkId \notin Registered
<1> DEFINE Good(k) == packets[k].networkId \in Registered
           Stops(m) == /\ \A k \in 1 .. m : Good(k)
                       /\ m < Len(packets) => ~ Good(m + 1)
           Ends == {m \in Nat : m <= Len(packets) /\ (m < Len(packets) => ~ Good(m + 1))}
           n == CHOOSE m \in 0 .. Len(packets) : Stops(m)
<1>1. Len(packets) \in Nat
  OBVIOUS
<1>2. PICK m \in Ends : \A j \in Ends : m <= j
  <2>1. Len(packets) \in Ends /\ Ends \in SUBSET Nat
    BY <1>1
  <2> HIDE DEF Ends
  <2> QED BY <2>1, NatIsWellOrdered
<1>3. m \in 0 .. Len(packets) /\ Stops(m)
  <2>1. \A k \in 1 .. m : Good(k)
    <3> SUFFICES ASSUME NEW k \in 1 .. m, ~ Good(k) PROVE FALSE
      OBVIOUS
    <3>1. k - 1 \in Nat /\ (k - 1) + 1 = k /\ k - 1 < m /\ k - 1 < Len(packets) /\ ~ (m <= k - 1)
      BY <1>1, <1>2
    <3>2. k - 1 \in Ends
      BY <3>1
    <3> QED BY <1>2, <3>1, <3>2
  <2> QED BY <1>1, <1>2, <2>1
<1>4. n \in 0 .. Len(packets) /\ Stops(n)
  <2> HIDE DEF Stops
  <2> QED BY <1>3
<1>5. Understood(packets) = SubSeq(packets, 1, n)
  BY DEF Understood
<1> HIDE DEF n
<1>6. /\ SubSeq(packets, 1, n) \in Seq(Packet) /\ Len(SubSeq(packets, 1, n)) = n
      /\ \A k \in 1 .. n : SubSeq(packets, 1, n)[k] = packets[k]
  BY <1>1, <1>4
<1> QED BY <1>4, <1>5, <1>6

-----------------------------------------------------------------------------
(* The invariant *)

Frame == [method : {"absent", "ZLIB", "NONE"}, content : [deflated : BOOLEAN, bytes : Seq(Byte)]]
Decoded == [networkId : NetworkId, subClientId : SubClient, text : Text]

TypeInv ==
  /\ compressionEnabled \in BOOLEAN /\ inFrame \in BOOLEAN
  /\ sendQueue \in Seq(Packet) /\ expected \in Seq(Packet)
  /\ wire \in Seq(Frame) /\ payload \in Seq(Byte) /\ offset \in Nat
  /\ handled \in Seq(Decoded)

\* sent: the queues flushed; mark[j]: how many packets are expected of the
\* first j of them.
Recorded(sent, mark) ==
  /\ sent \in Seq(Seq(Packet) \ {<<>>})
  /\ mark \in [0 .. Len(sent) -> Nat] /\ mark[0] = 0 /\ mark[Len(sent)] = Len(expected)
  /\ \A j \in 1 .. Len(sent) :
       /\ mark[j] = mark[j - 1] + Len(Understood(sent[j]))
       /\ At(expected, mark[j - 1], Understood(sent[j]))

\* The last of them are on the wire.
OnTheWay(sent) ==
  /\ Len(wire) <= Len(sent)
  /\ \A i \in 1 .. Len(wire) : wire[i] = sendInternal(Encoded(sent[Len(sent) - Len(wire) + i]))

\* The reader is between two packets of queue c, or between two frames.
Reads(sent, mark, c) ==
  /\ ~inFrame => Len(handled) = mark[c]
  /\ inFrame => /\ c >= 1 /\ payload = Encoded(sent[c])
                /\ \E k \in 0 .. Len(Understood(sent[c])) :
                     /\ k < Len(sent[c]) /\ offset = Position(sent[c], k)
                     /\ Len(handled) = mark[c - 1] + k
InStep(sent, mark) == Reads(sent, mark, Len(sent) - Len(wire))

Tracks(sent, mark) == Recorded(sent, mark) /\ OnTheWay(sent) /\ InStep(sent, mark)

AsExpected ==
  /\ Len(handled) <= Len(expected)
  /\ \A i \in 1 .. Len(handled) : handled[i] = WithoutExtra(expected[i])

Inv ==
  /\ TypeInv /\ AsExpected
  /\ \E sent, mark : Tracks(sent, mark)

\* What a turn of onRaw finds behind the first k packets of a queue.
LEMMA TurnIs ==
  ASSUME TypeInv, NEW q \in Seq(Packet), NEW k \in 0 .. Len(Understood(q)), k < Len(q),
         payload = Encoded(q), offset = Position(q, k)
  PROVE  /\ q[k + 1] \in Packet
         /\ Legible /\ ReadId = q[k + 1].networkId /\ ReadSubClient = q[k + 1].subClientId
         /\ DecodedText.value = q[k + 1].text
         /\ NextOffset = Position(q, k + 1) /\ NextOffset \in Nat
         /\ (NextOffset # Len(payload)) <=> k + 1 < Len(q)
         /\ ReadId \in Registered => k < Len(Understood(q)) /\ q[k + 1] = Understood(q)[k + 1]
         /\ ReadId \notin Registered => k = Len(Understood(q))
<1> DEFINE p == q[k + 1]
<1>1. Len(q) \in Nat /\ k \in Nat /\ k + 1 \in 1 .. Len(q) /\ k + 1 \in 0 .. Len(q) /\ (k + 1) - 1 = k
  BY UnderstoodIs
<1>2. p \in Packet
  BY <1>1
<1>3. At(payload, offset, encode(p)) /\ Position(q, k + 1) = offset + Len(encode(p))
  BY <1>1, FrameIs
<1>4. /\ Legible /\ ReadId = p.networkId /\ ReadSubClient = p.subClientId
      /\ DecodedText.value = p.text /\ NextOffset = offset + Len(encode(p))
  <2> HIDE DEF p
  <2> QED BY <1>2, <1>3, ReadPacket DEF TypeInv
<1>5. Position(q, k + 1) \in Nat /\ (Position(q, k + 1) # Len(payload) <=> k + 1 # Len(q))
  BY <1>1, FrameIs
<1>6. k + 1 # Len(q) <=> k + 1 < Len(q)
  BY <1>1
<1>7. p.networkId \in Registered => k < Len(Understood(q)) /\ p = Understood(q)[k + 1]
  <2> SUFFICES ASSUME p.networkId \in Registered
               PROVE  k < Len(Understood(q)) /\ p = Understood(q)[k + 1]
    OBVIOUS
  <2>1. Len(Understood(q)) \in Nat
    BY <1>1, UnderstoodIs
  <2>2. k # Len(Understood(q))
    BY UnderstoodIs
  <2>3. k < Len(Understood(q)) /\ k + 1 \in 1 .. Len(Understood(q))
    BY <1>1, <2>1, <2>2
  <2> QED BY <2>3, UnderstoodIs
<1>8. p.networkId \notin Registered => k = Len(Understood(q))
  <2> SUFFICES ASSUME p.networkId \notin Registered, k # Len(Understood(q)) PROVE FALSE
    OBVIOUS
  <2>1. Len(Understood(q)) \in Nat
    BY <1>1, UnderstoodIs
  <2>2. k + 1 \in 1 .. Len(Understood(q))
    BY <1>1, <2>1
  <2> QED BY <2>2, UnderstoodIs
<1> QED BY <1>2, <1>3, <1>4, <1>5, <1>6, <1>7, <1>8

LEMMA SentIs ==
  ASSUME TypeInv, NEW sent, NEW mark, Tracks(sent, mark)
  PROVE  /\ Len(sent) \in Nat /\ Len(wire) \in Nat /\ Len(sent) - Len(wire) \in 0 .. Len(sent)
         /\ \A j \in 1 .. Len(sent) : /\ sent[j] \in Seq(Packet) /\ sent[j] # <<>>
                                      /\ mark[j] \in Nat /\ mark[j - 1] \in Nat
                                      /\ Understood(sent[j]) \in Seq(Packet)
                                      /\ Len(Understood(sent[j])) \in 0 .. Len(sent[j])
                                      /\ mark[j] <= Len(expected)
<1>1. /\ sent \in Seq(Seq(Packet) \ {<<>>}) /\ mark \in [0 .. Len(sent) -> Nat]
      /\ \A j \in 1 .. Len(sent) : mark[j] = mark[j - 1] + Len(Understood(sent[j]))
      /\ \A j \in 1 .. Len(sent) : At(expected, mark[j - 1], Understood(sent[j]))
  BY DEF Tracks, Recorded
<1>2. Len(sent) \in Nat /\ Len(wire) \in Nat /\ Len(wire) <= Len(sent)
  <2>1. Len(sent) \in Nat
    BY <1>1
  <2> QED BY <2>1 DEF Tracks, OnTheWay, TypeInv
<1>3. ASSUME NEW j \in 1 .. Len(sent)
      PROVE  /\ sent[j] \in Seq(Packet) /\ sent[j] # <<>> /\ mark[j] \in Nat /\ mark[j - 1] \in Nat
             /\ Understood(sent[j]) \in Seq(Packet)
             /\ Len(Understood(sent[j])) \in 0 .. Len(sent[j])
             /\ mark[j] <= Len(expected)
  <2>1. sent[j] \in Seq(Packet) /\ sent[j] # <<>>
    BY <1>1
  <2>2. mark[j] \in Nat /\ mark[j - 1] \in Nat
    <3>1. j \in 0 .. Len(sent) /\ j - 1 \in 0 .. Len(sent)
      BY <1>2
    <3> QED BY <1>1, <3>1
  <2>3. Understood(sent[j]) \in Seq(Packet) /\ Len(Understood(sent[j])) \in 0 .. Len(sent[j])
    BY <2>1, UnderstoodIs
  <2>4. mark[j] <= Len(expected)
    <3>1. mark[j - 1] + Len(Understood(sent[j])) <= Len(expected)
      BY <1>1 DEF At
    <3> QED BY <1>1, <3>1
  <2> QED BY <2>1, <2>2, <2>3, <2>4
<1>4. Len(sent) - Len(wire) \in 0 .. Len(sent)
  BY <1>2
<1> QED BY <1>2, <1>3, <1>4

\* The invariant says what the property does.
LEMMA InvSuffices == Inv => HandledAsSent
<1> SUFFICES ASSUME Inv PROVE HandledAsSent
  OBVIOUS
<1>1. TypeInv /\ AsExpected
  BY DEF Inv
<1>2. PICK sent, mark : Tracks(sent, mark)
  BY DEF Inv
<1> DEFINE c == Len(sent) - Len(wire)
<1>3. /\ Len(sent) \in Nat /\ Len(wire) \in Nat /\ c \in 0 .. Len(sent)
      /\ \A j \in 1 .. Len(sent) : sent[j] \in Seq(Packet) /\ sent[j] # <<>>
  BY <1>1, <1>2, SentIs
<1>4. wire # <<>> => Routable(Head(wire))
  <2> SUFFICES ASSUME wire # <<>> PROVE Routable(Head(wire))
    OBVIOUS
  <2> DEFINE bytes == Encoded(sent[c + 1])
  <2>1. 1 \in 1 .. Len(wire) /\ Head(wire) = wire[1]
    BY <1>1 DEF TypeInv
  <2>2. Head(wire) = sendInternal(bytes) /\ c + 1 \in 1 .. Len(sent)
    BY <1>2, <1>3, <2>1 DEF Tracks, OnTheWay
  <2>3. bytes \in Seq(Byte) /\ Len(bytes) \in Nat /\ Len(bytes) >= 2
    <3>1. sent[c + 1] \in Seq(Packet) /\ sent[c + 1] # <<>>
      BY <1>3, <2>2
    <3>2. bytes \in Seq(Byte) /\ Len(bytes) >= 2
      BY <3>1, FrameIs
    <3> QED BY <3>2
  <2> HIDE DEF bytes
  <2>4. Routable(sendInternal(bytes))
    <3> DEFINE frame == sendInternal(bytes)
    <3>1. frame.content.bytes = bytes
      BY DEF sendInternal, Stored, compress
    <3>2. (frame.method # "absent") = compressionEnabled
      BY <1>1 DEF sendInternal, TypeInv
    <3>3. Inflates(frame) = frame.content.deflated
      <4>1. \/ frame.method = "ZLIB" /\ frame.content.deflated = TRUE
            \/ frame.method \in {"absent", "NONE"} /\ frame.content.deflated = FALSE
        BY DEF sendInternal, Stored, compress
      <4> HIDE DEF frame
      <4>2. Inflates(frame) <=> frame.content.deflated = TRUE
        BY <4>1 DEF Inflates
      <4>3. CASE Inflates(frame)
        <5>1. Inflates(frame) = TRUE
          BY <4>3 DEF Inflates
        <5> QED BY <4>2, <4>3, <5>1
      <4>4. CASE ~Inflates(frame)
        <5>1. Inflates(frame) = FALSE
          BY <4>4 DEF Inflates
        <5>2. frame.content.deflated = FALSE
          BY <4>1, <4>2, <4>4
        <5> QED BY <5>1, <5>2
      <4> QED BY <4>3, <4>4
    <3> HIDE DEF frame
    <3>4. Length(frame) > 1
      BY <2>3, <3>1 DEF Length
    <3> QED BY <3>2, <3>3, <3>4 DEF Routable, Opens, frame
  <2> QED BY <2>2, <2>4
<1>5. inFrame => Legible
  <2> SUFFICES ASSUME inFrame PROVE Legible
    OBVIOUS
  <2>1. c >= 1 /\ payload = Encoded(sent[c])
        /\ \E k \in 0 .. Len(Understood(sent[c])) : k < Len(sent[c]) /\ offset = Position(sent[c], k)
    BY <1>2 DEF Tracks, InStep, Reads
  <2>2. PICK k \in 0 .. Len(Understood(sent[c])) : k < Len(sent[c]) /\ offset = Position(sent[c], k)
    BY <2>1
  <2>3. sent[c] \in Seq(Packet)
    BY <1>3, <2>1
  <2> HIDE DEF c
  <2> QED BY <1>1, <2>1, <2>2, <2>3, TurnIs
<1>6. \A i \in DOMAIN handled : handled[i] = WithoutExtra(expected[i])
  BY <1>1 DEF AsExpected, TypeInv
<1>7. wire = <<>> /\ ~inFrame => Len(handled) = Len(expected)
  <2> SUFFICES ASSUME wire = <<>>, ~inFrame PROVE Len(handled) = Len(expected)
    OBVIOUS
  <2>1. c = Len(sent)
    BY <1>3
  <2>2. Len(handled) = mark[c] /\ mark[Len(sent)] = Len(expected)
    BY <1>2 DEF Tracks, InStep, Reads, Recorded
  <2> QED BY <2>1, <2>2
<1> QED BY <1>1, <1>4, <1>5, <1>6, <1>7 DEF HandledAsSent, AsExpected

-----------------------------------------------------------------------------
(* The steps *)

LEMMA InitInv == Init => Inv
<1> SUFFICES ASSUME Init PROVE Inv
  OBVIOUS
<1> DEFINE mark == [j \in 0 .. 0 |-> 0]
<1>1. TypeInv /\ AsExpected
  <2>1. <<>> \in Seq(Packet) /\ <<>> \in Seq(Frame) /\ <<>> \in Seq(Byte) /\ <<>> \in Seq(Decoded)
    OBVIOUS
  <2>2. TypeInv
    BY <2>1 DEF Init, TypeInv
  <2>3. AsExpected
    BY DEF Init, AsExpected
  <2> QED BY <2>2, <2>3
<1>2. Recorded(<<>>, mark)
  BY DEF Init, Recorded
<1>3. OnTheWay(<<>>)
  BY DEF Init, OnTheWay
<1>4. InStep(<<>>, mark)
  BY DEF Init, InStep, Reads
<1> HIDE DEF mark
<1> QED BY <1>1, <1>2, <1>3, <1>4 DEF Inv, Tracks

\* What the invariant reads of the state.
readVars == <<compressionEnabled, wire, payload, offset, inFrame, handled, expected>>

LEMMA Untouched ==
  ASSUME Inv, UNCHANGED readVars, sendQueue' \in Seq(Packet)
  PROVE  Inv'
<1>1. TypeInv' /\ AsExpected'
  BY DEF Inv, TypeInv, AsExpected, readVars
<1>2. PICK sent, mark : Tracks(sent, mark)
  BY DEF Inv
<1>3. Recorded(sent, mark)'
  BY <1>2 DEF Tracks, Recorded, readVars
<1>4. OnTheWay(sent)'
  BY <1>2 DEF Tracks, OnTheWay, readVars, sendInternal
<1>5. InStep(sent, mark)'
  BY <1>2 DEF Tracks, InStep, Reads, readVars
<1> QED BY <1>1, <1>3, <1>4, <1>5 DEF Inv, Tracks

LEMMA SendInv == ASSUME Inv, NEW p \in Packet, Send(p) PROVE Inv'
<1>1. sendQueue' \in Seq(Packet)
  BY DEF Inv, TypeInv, Send
<1>2. UNCHANGED readVars
  BY DEF Send, readVars, readerVars, historyVars
<1> QED BY <1>1, <1>2, Untouched

LEMMA FlushInv == ASSUME Inv, Flush PROVE Inv'
<1> DEFINE U == Understood(sendQueue)
           frame == sendInternal(Encoded(sendQueue))
<1>1. TypeInv /\ AsExpected
  BY DEF Inv
<1>2. PICK sent, mark : Tracks(sent, mark)
  BY DEF Inv
<1>3. /\ sendQueue # <<>> /\ sendQueue \in Seq(Packet)
      /\ wire' = Append(wire, frame) /\ sendQueue' = <<>> /\ expected' = expected \o U
      /\ UNCHANGED <<compressionEnabled, payload, offset, inFrame, handled>>
  BY <1>1 DEF Flush, readerVars, TypeInv
<1>4. U \in Seq(Packet) /\ Len(U) \in Nat
  BY <1>3, UnderstoodIs
<1>5. frame \in Frame
  <2>1. Encoded(sendQueue) \in Seq(Byte)
    BY <1>3, FrameIs
  <2> QED BY <2>1 DEF sendInternal, Frame, Stored, compress
<1> DEFINE n == Len(sent)
<1> PICK c : c = n - Len(wire)
  OBVIOUS
<1>6. n \in Nat /\ Len(wire) \in Nat /\ c \in 0 .. n
  BY <1>1, <1>2, SentIs
<1>7. /\ expected \in Seq(Packet) /\ Len(expected) \in Nat
      /\ expected' \in Seq(Packet) /\ Len(expected') = Len(expected) + Len(U)
      /\ \A i \in 1 .. Len(expected) : expected'[i] = expected[i]
  <2>1. expected \in Seq(Packet)
    BY <1>1 DEF TypeInv
  <2> HIDE DEF U
  <2> QED BY <1>3, <1>4, <2>1
<1>8. /\ Len(wire') = Len(wire) + 1 /\ wire' \in Seq(Frame) /\ wire'[Len(wire) + 1] = frame
      /\ \A i \in 1 .. Len(wire) : wire'[i] = wire[i]
  <2>1. wire \in Seq(Frame)
    BY <1>1 DEF TypeInv
  <2> HIDE DEF frame
  <2> QED BY <1>3, <1>5, <2>1
<1>9. TypeInv'
  BY <1>1, <1>3, <1>7, <1>8 DEF TypeInv
<1>10. AsExpected'
  <2>1. Len(handled) \in Nat /\ Len(handled) <= Len(expected)
    BY <1>1 DEF TypeInv, AsExpected
  <2>2. \A i \in 1 .. Len(handled) : i \in 1 .. Len(expected)
    BY <1>7, <2>1
  <2> HIDE DEF U
  <2>3. \A i \in 1 .. Len(handled) : handled'[i] = WithoutExtra(expected'[i])
    BY <1>1, <1>3, <1>7, <2>2 DEF AsExpected
  <2>4. handled' = handled /\ Len(handled') <= Len(expected')
    BY <1>3, <1>4, <1>7, <2>1
  <2> QED BY <2>3, <2>4 DEF AsExpected
<1> PICK sent2 : sent2 = Append(sent, sendQueue)
  OBVIOUS
<1> PICK mark2 : mark2 = [j \in 0 .. n + 1 |-> IF j = n + 1 THEN Len(expected') ELSE mark[j]]
  OBVIOUS
<1>11. /\ sent \in Seq(Seq(Packet) \ {<<>>}) /\ mark \in [0 .. n -> Nat]
       /\ mark[0] = 0 /\ mark[n] = Len(expected)
       /\ \A j \in 1 .. n : /\ mark[j] = mark[j - 1] + Len(Understood(sent[j]))
                            /\ At(expected, mark[j - 1], Understood(sent[j]))
  BY <1>2 DEF Tracks, Recorded
<1>12. /\ sent2 \in Seq(Seq(Packet) \ {<<>>}) /\ Len(sent2) = n + 1 /\ sent2[n + 1] = sendQueue
       /\ \A j \in 1 .. n : sent2[j] = sent[j]
  <2>1. sendQueue \in Seq(Packet) \ {<<>>}
    BY <1>3
  <2> QED BY <1>11, <2>1
<1>13. /\ mark2 \in [0 .. n + 1 -> Nat] /\ mark2[n + 1] = Len(expected')
       /\ \A j \in 0 .. n : mark2[j] = mark[j]
  <2> HIDE DEF n, U
  <2>1. Len(expected') \in Nat
    BY <1>4, <1>7
  <2>2. \A j \in 0 .. n + 1 : j # n + 1 => j \in 0 .. n
    BY <1>6
  <2>3. \A j \in 0 .. n : j # n + 1 /\ j \in 0 .. n + 1
    BY <1>6
  <2> QED BY <1>6, <1>11, <2>1, <2>2, <2>3
<1> HIDE DEF n
<1>14. Recorded(sent2, mark2)'
  <2>1. ASSUME NEW j \in 1 .. n + 1
        PROVE  /\ mark2[j] = mark2[j - 1] + Len(Understood(sent2[j]))
               /\ At(expected', mark2[j - 1], Understood(sent2[j]))
    <3>1. CASE j = n + 1
      <4>1. j - 1 \in 0 .. n /\ j - 1 = n
        BY <1>6, <3>1
      <4>2. mark2[j - 1] = Len(expected) /\ mark2[j] = Len(expected) + Len(U) /\ Understood(sent2[j]) = U
        BY <1>7, <1>11, <1>12, <1>13, <3>1, <4>1
      <4>3. At(expected', Len(expected), U)
        <5> HIDE DEF U
        <5> QED BY <1>3, <1>4, <1>7, AtGrows
      <4> QED BY <4>2, <4>3
    <3>2. CASE j # n + 1
      <4>1. j \in 1 .. n /\ j \in 0 .. n /\ j - 1 \in 0 .. n
        BY <1>6, <3>2
      <4>2. mark2[j - 1] = mark[j - 1] /\ mark2[j] = mark[j] /\ sent2[j] = sent[j]
        BY <1>12, <1>13, <4>1
      <4> DEFINE o == mark[j - 1]
                 u == Understood(sent[j])
      <4>3. At(expected, o, u) /\ mark[j] = o + Len(u)
        BY <1>11, <4>1
      <4>4. o \in Nat /\ u \in Seq(Packet)
        BY <1>1, <1>2, <4>1, SentIs DEF n
      <4> HIDE DEF o, u, U
      <4>5. At(expected', o, u)
        BY <1>3, <1>4, <1>7, <4>3, <4>4, AtGrows
      <4> QED BY <4>2, <4>3, <4>5 DEF o, u
    <3> QED BY <3>1, <3>2
  <2>2. 0 \in 0 .. n
    BY <1>6
  <2>3. mark2[0] = 0
    BY <1>11, <1>13, <2>2
  <2> QED BY <1>12, <1>13, <2>1, <2>3 DEF Recorded
<1>15. Len(sent2) - Len(wire') = c
  BY <1>6, <1>8, <1>12
<1>16. OnTheWay(sent2)'
  <2>1. \A i \in 1 .. Len(wire) : /\ wire[i] = sendInternal(Encoded(sent[c + i]))
                                  /\ c + i \in 1 .. n
    BY <1>2, <1>6 DEF Tracks, OnTheWay, n
  <2>2. ASSUME NEW i \in 1 .. Len(wire')
        PROVE  wire'[i] = sendInternal(Encoded(sent2[c + i]))
    <3>1. CASE i = Len(wire) + 1
      <4>1. c + i = n + 1
        BY <1>6, <3>1
      <4> QED BY <1>8, <1>12, <3>1, <4>1
    <3>2. CASE i # Len(wire) + 1
      <4>1. i \in 1 .. Len(wire)
        BY <1>6, <1>8, <3>2
      <4> QED BY <1>8, <1>12, <2>1, <4>1
    <3> QED BY <3>1, <3>2
  <2>3. Len(wire') <= Len(sent2)
    BY <1>6, <1>8, <1>12
  <2> QED BY <1>3, <1>15, <2>2, <2>3 DEF OnTheWay, sendInternal
<1>17. InStep(sent2, mark2)'
  <2>1. Reads(sent, mark, c)
    BY <1>2 DEF Tracks, InStep, n
  <2>2. mark2[c] = mark[c]
    BY <1>6, <1>13
  <2>3. c >= 1 => sent2[c] = sent[c] /\ mark2[c - 1] = mark[c - 1]
    <3>1. c >= 1 => c \in 1 .. n /\ c - 1 \in 0 .. n
      BY <1>6
    <3> QED BY <1>12, <1>13, <3>1
  <2>4. Reads(sent2, mark2, c)'
    BY <1>3, <2>1, <2>2, <2>3 DEF Reads
  <2> QED BY <1>15, <2>4 DEF InStep
<1> QED BY <1>9, <1>10, <1>14, <1>16, <1>17 DEF Inv, Tracks

LEMMA RouteInv == ASSUME Inv, Route PROVE Inv'
<1>1. TypeInv /\ AsExpected
  BY DEF Inv
<1>2. PICK sent, mark : Tracks(sent, mark)
  BY DEF Inv
<1> DEFINE n == Len(sent)
<1> PICK c : c = n - Len(wire)
  OBVIOUS
<1> DEFINE q == sent[c + 1]
           frame == sendInternal(Encoded(q))
<1>3. /\ n \in Nat /\ Len(wire) \in Nat /\ c \in 0 .. n
      /\ \A j \in 1 .. n : sent[j] \in Seq(Packet) /\ sent[j] # <<>>
  BY <1>1, <1>2, SentIs
<1>4. /\ ~inFrame /\ wire # <<>> /\ wire \in Seq(Frame)
      /\ payload' = IF Inflates(Head(wire)) THEN decompress(Head(wire).content)
                                            ELSE Head(wire).content.bytes
      /\ wire' = Tail(wire) /\ offset' = 0 /\ inFrame' = TRUE
      /\ UNCHANGED <<compressionEnabled, sendQueue, handled, expected>>
  BY <1>1 DEF Route, historyVars, TypeInv
<1>5. /\ Len(wire) >= 1 /\ Len(wire') = Len(wire) - 1 /\ wire' \in Seq(Frame)
      /\ \A i \in 1 .. Len(wire) - 1 : wire'[i] = wire[i + 1]
  BY <1>4
<1>6. c + 1 \in 1 .. n /\ n - Len(wire') = c + 1 /\ (c + 1) - 1 = c
  BY <1>3, <1>5
<1>7. \A i \in 1 .. Len(wire) : wire[i] = sendInternal(Encoded(sent[c + i]))
  BY <1>2 DEF Tracks, OnTheWay
<1>8. Head(wire) = frame
  BY <1>4, <1>5, <1>7
<1>9. q \in Seq(Packet) /\ q # <<>>
  BY <1>3, <1>6
<1>10. payload' = Encoded(q) /\ payload' \in Seq(Byte)
  <2>1. Encoded(q) \in Seq(Byte)
    BY <1>9, FrameIs
  <2>2. frame.content.bytes = Encoded(q)
    BY DEF sendInternal, Stored, compress
  <2> HIDE DEF frame, q
  <2> QED BY <1>4, <1>8, <2>1, <2>2 DEF decompress
<1>11. TypeInv'
  BY <1>1, <1>4, <1>5, <1>10 DEF TypeInv
<1>12. AsExpected'
  BY <1>1, <1>4 DEF AsExpected
<1>13. Recorded(sent, mark)'
  BY <1>2, <1>4 DEF Tracks, Recorded
<1>14. OnTheWay(sent)'
  <2>1. ASSUME NEW i \in 1 .. Len(wire')
        PROVE  wire'[i] = sendInternal(Encoded(sent[(c + 1) + i]))
    <3>1. PICK l \in Nat : l = Len(wire)
      BY <1>1 DEF TypeInv
    <3>2. c \in Nat /\ Len(wire') = l - 1
      BY <1>3, <1>5, <3>1
    <3>3. i \in 1 .. l - 1
      BY <3>2
    <3>4. i + 1 \in 1 .. l /\ c + (i + 1) = (c + 1) + i
      BY <3>2, <3>3
    <3> QED BY <1>5, <1>7, <3>1, <3>3, <3>4
  <2>2. Len(wire') <= n
    BY <1>3, <1>5
  <2> QED BY <1>4, <1>6, <2>1, <2>2 DEF OnTheWay, sendInternal
<1>15. InStep(sent, mark)'
  <2>1. Len(handled) = mark[c]
    BY <1>2, <1>4 DEF Tracks, InStep, Reads
  <2>2. 0 \in 0 .. Len(Understood(q)) /\ 0 < Len(q) /\ Position(q, 0) = 0
    <3>1. Len(q) \in Nat /\ Len(q) # 0
      BY <1>9
    <3>2. Len(Understood(q)) \in 0 .. Len(q)
      BY <1>9, UnderstoodIs
    <3>3. Position(q, 0) = 0
      BY <1>9, FrameIs
    <3> QED BY <3>1, <3>2, <3>3
  <2>3. mark[(c + 1) - 1] + 0 = Len(handled)
    <3>1. mark[c] \in Nat
      BY <1>1, <2>1 DEF TypeInv
    <3> QED BY <1>6, <2>1, <3>1
  <2> DEFINE d == c + 1
  <2>4. d >= 1
    BY <1>3
  <2>5. q = sent[d]
    OBVIOUS
  <2>6. mark[d - 1] + 0 = Len(handled)
    BY <2>3
  <2> HIDE DEF d, q
  <2>7. Reads(sent, mark, d)'
    BY <1>4, <1>10, <2>2, <2>4, <2>5, <2>6 DEF Reads
  <2>8. n - Len(wire') = d
    BY <1>6 DEF d
  <2> QED BY <2>7, <2>8 DEF InStep
<1> QED BY <1>11, <1>12, <1>13, <1>14, <1>15 DEF Inv, Tracks

LEMMA HandlePacketInv == ASSUME Inv, HandlePacket PROVE Inv'
<1>1. TypeInv /\ AsExpected
  BY DEF Inv
<1>2. PICK sent, mark : Tracks(sent, mark)
  BY DEF Inv
<1> DEFINE n == Len(sent)
<1> PICK c : c = n - Len(wire)
  OBVIOUS
<1>3. /\ n \in Nat /\ Len(wire) \in Nat /\ c \in 0 .. n
      /\ \A j \in 1 .. n : /\ sent[j] \in Seq(Packet) /\ mark[j - 1] \in Nat
                           /\ Understood(sent[j]) \in Seq(Packet) /\ mark[j] <= Len(expected)
                           /\ Len(Understood(sent[j])) \in 0 .. Len(sent[j])
  BY <1>1, <1>2, SentIs
<1>4. /\ inFrame /\ ReadId \in Registered
      /\ handled' = Append(handled, [networkId |-> ReadId, subClientId |-> ReadSubClient,
                                     text |-> DecodedText.value])
      /\ offset' = NextOffset /\ inFrame' = (NextOffset # Len(payload))
      /\ UNCHANGED <<compressionEnabled, sendQueue, wire, payload, expected>>
  BY DEF HandlePacket, historyVars
<1>5. /\ c >= 1 /\ payload = Encoded(sent[c])
      /\ \E k \in 0 .. Len(Understood(sent[c])) :
           /\ k < Len(sent[c]) /\ offset = Position(sent[c], k)
           /\ Len(handled) = mark[c - 1] + k
  BY <1>2, <1>4 DEF Tracks, InStep, Reads
<1>6. PICK k \in 0 .. Len(Understood(sent[c])) :
        k < Len(sent[c]) /\ offset = Position(sent[c], k) /\ Len(handled) = mark[c - 1] + k
  BY <1>5
<1> PICK q : q = sent[c]
  OBVIOUS
<1>7. c \in 1 .. n /\ q \in Seq(Packet) /\ Understood(q) \in Seq(Packet)
      /\ Len(Understood(q)) \in 0 .. Len(q) /\ Len(q) \in Nat /\ Len(Understood(q)) \in Nat
      /\ k \in Nat /\ mark[c - 1] \in Nat /\ mark[c] <= Len(expected)
  <2>1. c \in 1 .. n
    BY <1>3, <1>5
  <2>2. q \in Seq(Packet) /\ Understood(q) \in Seq(Packet) /\ Len(Understood(q)) \in 0 .. Len(q)
        /\ mark[c - 1] \in Nat /\ mark[c] <= Len(expected)
    BY <1>3, <2>1
  <2>3. Len(q) \in Nat /\ Len(Understood(q)) \in Nat
    BY <2>2
  <2> QED BY <2>1, <2>2, <2>3
<1>8. /\ q[k + 1] \in Packet
      /\ ReadId = q[k + 1].networkId /\ ReadSubClient = q[k + 1].subClientId
      /\ DecodedText.value = q[k + 1].text
      /\ NextOffset = Position(q, k + 1) /\ NextOffset \in Nat
      /\ (NextOffset # Len(payload)) <=> k + 1 < Len(q)
      /\ k < Len(Understood(q)) /\ q[k + 1] = Understood(q)[k + 1]
  BY <1>1, <1>4, <1>5, <1>6, <1>7, TurnIs
<1> DEFINE d == WithoutExtra(q[k + 1])
<1>9. d \in Decoded /\ handled' = Append(handled, d)
  <2>1. d \in Decoded
    BY <1>8 DEF WithoutExtra, Decoded, Packet
  <2> QED BY <1>4, <1>8, <2>1 DEF WithoutExtra
<1> HIDE DEF d
<1>10. /\ handled' \in Seq(Decoded) /\ Len(handled') = mark[c - 1] + k + 1
       /\ Len(handled) \in Nat /\ handled'[Len(handled) + 1] = d
       /\ \A i \in 1 .. Len(handled) : handled'[i] = handled[i]
  <2>1. handled \in Seq(Decoded)
    BY <1>1 DEF TypeInv
  <2>2. Len(handled') = Len(handled) + 1
    BY <1>9, <2>1
  <2> QED BY <1>6, <1>9, <2>1, <2>2
<1>11. TypeInv'
  <2>1. inFrame' \in BOOLEAN
    BY <1>4
  <2> QED BY <1>1, <1>4, <1>8, <1>10, <2>1 DEF TypeInv
<1>12. /\ mark[c] = mark[c - 1] + Len(Understood(q))
       /\ \A i \in 1 .. Len(Understood(q)) : expected[mark[c - 1] + i] = Understood(q)[i]
  BY <1>2, <1>7 DEF Tracks, Recorded, At
<1> PICK m, u : m = mark[c - 1] /\ u = Len(Understood(q))
  OBVIOUS
<1>13. /\ m \in Nat /\ u \in Nat /\ k < u /\ u <= Len(q) /\ mark[c] = m + u
       /\ Len(handled) = m + k /\ Len(handled') = m + k + 1
  <2>1. u <= Len(q)
    BY <1>7
  <2> QED BY <1>6, <1>7, <1>8, <1>10, <1>12, <2>1
<1>14. k + 1 \in 1 .. u /\ k + 1 \in 0 .. u /\ (k + 1 < Len(q) \/ u = k + 1)
  <2>1. \A a, b, l \in Nat :
          a < b /\ b <= l => a + 1 \in 1 .. b /\ a + 1 \in 0 .. b /\ (a + 1 < l \/ b = a + 1)
    OBVIOUS
  <2>2. k \in Nat /\ u \in Nat /\ Len(q) \in Nat /\ k < u /\ u <= Len(q)
    BY <1>7, <1>13
  <2> QED BY <2>1, <2>2
<1>15. AsExpected'
  <2>1. Len(handled') <= Len(expected')
    <3>1. Len(expected) \in Nat /\ m + u <= Len(expected) /\ expected' = expected
      BY <1>1, <1>4, <1>7, <1>13 DEF TypeInv
    <3>2. \A x, y, z, l \in Nat : x < y /\ z + y <= l => z + x + 1 <= l
      OBVIOUS
    <3>3. m \in Nat /\ k \in Nat /\ u \in Nat /\ k < u /\ Len(handled') = m + k + 1
      BY <1>7, <1>13
    <3> QED BY <3>1, <3>2, <3>3
  <2>2. expected[Len(handled) + 1] = q[k + 1]
    <3>1. Len(handled) + 1 = m + (k + 1)
      <4>1. Len(handled) = m + k /\ m \in Nat /\ k \in Nat
        BY <1>7, <1>13
      <4> QED BY <4>1
    <3> QED BY <1>8, <1>12, <1>14, <3>1
  <2>3. Len(handled') = Len(handled) + 1
    BY <1>7, <1>13
  <2>4. ASSUME NEW i \in 1 .. Len(handled')
        PROVE  handled'[i] = WithoutExtra(expected[i])
    <3>1. CASE i = Len(handled) + 1
      BY <1>10, <2>2, <3>1 DEF d
    <3>2. CASE i # Len(handled) + 1
      <4>1. i \in 1 .. Len(handled)
        BY <1>10, <2>3, <3>2
      <4> QED BY <1>1, <1>10, <4>1 DEF AsExpected
    <3> QED BY <3>1, <3>2
  <2> QED BY <1>4, <2>1, <2>4 DEF AsExpected
<1>16. Recorded(sent, mark)'
  BY <1>2, <1>4 DEF Tracks, Recorded
<1>17. OnTheWay(sent)'
  BY <1>2, <1>4 DEF Tracks, OnTheWay, sendInternal
<1>18. Reads(sent, mark, c)'
  <2>1. CASE k + 1 < Len(q)
    <3>1. inFrame'
      BY <1>4, <1>8, <2>1
    <3>2. offset' = Position(q, k + 1) /\ Len(handled') = m + (k + 1)
      <4>1. Len(handled') = m + k + 1 /\ m \in Nat /\ k \in Nat
        BY <1>7, <1>13
      <4>2. offset' = Position(q, k + 1)
        BY <1>4, <1>8
      <4>3. Len(handled') = m + (k + 1)
        BY <4>1
      <4> QED BY <4>2, <4>3
    <3> QED BY <1>4, <1>5, <1>14, <2>1, <3>1, <3>2 DEF Reads
  <2>2. CASE ~ (k + 1 < Len(q))
    <3>1. ~inFrame'
      BY <1>4, <1>8, <2>2
    <3>2. Len(handled') = mark[c]
      <4>1. mark[c] = m + u /\ Len(handled') = m + k + 1 /\ m \in Nat /\ k \in Nat
        BY <1>7, <1>13
      <4>2. u = k + 1
        BY <1>14, <2>2
      <4> QED BY <4>1, <4>2
    <3> QED BY <3>1, <3>2 DEF Reads
  <2> QED BY <2>1, <2>2
<1>19. InStep(sent, mark)'
  <2>1. n - Len(wire') = c
    BY <1>4
  <2> QED BY <1>18, <2>1 DEF InStep
<1> QED BY <1>11, <1>15, <1>16, <1>17, <1>19 DEF Inv, Tracks

LEMMA RejectPacketInv == ASSUME Inv, RejectPacket PROVE Inv'
<1>1. TypeInv /\ AsExpected
  BY DEF Inv
<1>2. PICK sent, mark : Tracks(sent, mark)
  BY DEF Inv
<1> DEFINE n == Len(sent)
<1> PICK c : c = n - Len(wire)
  OBVIOUS
<1>3. /\ n \in Nat /\ Len(wire) \in Nat /\ c \in 0 .. n
      /\ \A j \in 1 .. n : sent[j] \in Seq(Packet)
  BY <1>1, <1>2, SentIs
<1>4. /\ inFrame /\ ReadId \notin Registered /\ inFrame' = FALSE
      /\ UNCHANGED <<compressionEnabled, sendQueue, wire, payload, offset, handled, expected>>
  BY DEF RejectPacket, historyVars
<1>5. /\ c >= 1 /\ payload = Encoded(sent[c])
      /\ \E k \in 0 .. Len(Understood(sent[c])) :
           /\ k < Len(sent[c]) /\ offset = Position(sent[c], k)
           /\ Len(handled) = mark[c - 1] + k
  BY <1>2, <1>4 DEF Tracks, InStep, Reads
<1>6. PICK k \in 0 .. Len(Understood(sent[c])) :
        k < Len(sent[c]) /\ offset = Position(sent[c], k) /\ Len(handled) = mark[c - 1] + k
  BY <1>5
<1> PICK q : q = sent[c]
  OBVIOUS
<1>7. c \in 1 .. n /\ q \in Seq(Packet)
  BY <1>3, <1>5
<1>8. k = Len(Understood(q))
  BY <1>1, <1>4, <1>5, <1>6, <1>7, TurnIs
<1>9. mark[c] = mark[c - 1] + Len(Understood(q))
  BY <1>2, <1>7 DEF Tracks, Recorded
<1>10. TypeInv' /\ AsExpected'
  BY <1>1, <1>4 DEF TypeInv, AsExpected
<1>11. Recorded(sent, mark)'
  BY <1>2, <1>4 DEF Tracks, Recorded
<1>12. OnTheWay(sent)'
  BY <1>2, <1>4 DEF Tracks, OnTheWay, sendInternal
<1>13. InStep(sent, mark)'
  <2>1. Len(handled') = mark[c]
    BY <1>4, <1>6, <1>8, <1>9
  <2>2. Reads(sent, mark, c)'
    BY <1>4, <2>1 DEF Reads
  <2>3. n - Len(wire') = c
    BY <1>4
  <2> QED BY <2>2, <2>3 DEF InStep
<1> QED BY <1>10, <1>11, <1>12, <1>13 DEF Inv, Tracks

LEMMA NextInv == Inv /\ [Next]_vars => Inv'
<1> SUFFICES ASSUME Inv, [Next]_vars PROVE Inv'
  OBVIOUS
<1>1. CASE UNCHANGED vars
  <2>1. UNCHANGED readVars /\ sendQueue' = sendQueue
    BY <1>1 DEF vars, readVars, readerVars, historyVars
  <2>2. sendQueue' \in Seq(Packet)
    BY <2>1 DEF Inv, TypeInv
  <2> QED BY <2>1, <2>2, Untouched
<1>2. ASSUME NEW p \in Packet, Send(p) PROVE Inv'
  BY <1>2, SendInv
<1>3. CASE Flush
  BY <1>3, FlushInv
<1>4. CASE Route
  BY <1>4, RouteInv
<1>5. CASE HandlePacket
  BY <1>5, HandlePacketInv
<1>6. CASE RejectPacket
  BY <1>6, RejectPacketInv
<1> QED BY <1>1, <1>2, <1>3, <1>4, <1>5, <1>6 DEF Next

\* What is handled is what was sent, in order, whatever the packets, the
\* compression and the numbers of packets and frames.
THEOREM FramesHandledAsSent == Spec => []HandledAsSent
<1>1. Init => Inv
  BY InitInv
<1>2. Inv /\ [Next]_vars => Inv'
  BY NextInv
<1>3. Inv => HandledAsSent
  BY InvSuffices
<1> QED BY <1>1, <1>2, <1>3, PTL DEF Spec

-----------------------------------------------------------------------------
(* The fields of a payload *)

LEMMA FixedAre ==
  /\ DOMAIN Fixed = {"U8", "I8", "U16LE", "U16BE", "I16LE", "I16BE", "U32LE", "U32BE", "I32LE",
                     "I32BE", "U64LE", "U64BE", "I64LE", "I64BE", "FloatLE", "DoubleLE"}
  /\ \A type \in DOMAIN Fixed :
       Fixed[type].bytes \in Nat /\ Fixed[type].big \in BOOLEAN /\ Fixed[type].signed \in BOOLEAN
  /\ Fixed["I16LE"] = Integer(ShortBytes, FALSE, TRUE)
  /\ Fixed["U16LE"] = Integer(ShortBytes, FALSE, FALSE)
  /\ Fixed["U32LE"] = Integer(WordBytes, FALSE, FALSE)
<1>1. 1 \in Nat /\ ShortBytes \in Nat /\ WordBytes \in Nat /\ LongBytes \in Nat
  <2>1. \A n \in Nat : n \div 2 \in Nat
    BY Z3
  <2> QED BY <2>1, Widths DEF ShortBytes
<1>2. PICK R : R = [bytes : Nat, big : BOOLEAN, signed : BOOLEAN]
  OBVIOUS
<1>3. \A n \in Nat, big \in BOOLEAN, signed \in BOOLEAN : Integer(n, big, signed) \in R
  BY <1>2 DEF Integer
<1>4. DOMAIN Fixed = {"U8", "I8", "U16LE", "U16BE", "I16LE", "I16BE", "U32LE", "U32BE", "I32LE",
                     "I32BE", "U64LE", "U64BE", "I64LE", "I64BE", "FloatLE", "DoubleLE"}
  BY DEF Fixed
<1>5. \A type \in DOMAIN Fixed : Fixed[type] \in R
  <2>1. /\ Fixed["U8"] \in R /\ Fixed["I8"] \in R /\ Fixed["U16LE"] \in R /\ Fixed["U16BE"] \in R
        /\ Fixed["I16LE"] \in R /\ Fixed["I16BE"] \in R /\ Fixed["U32LE"] \in R
        /\ Fixed["U32BE"] \in R
    BY <1>1, <1>3 DEF Fixed
  <2>2. /\ Fixed["I32LE"] \in R /\ Fixed["I32BE"] \in R /\ Fixed["U64LE"] \in R
        /\ Fixed["U64BE"] \in R /\ Fixed["I64LE"] \in R /\ Fixed["I64BE"] \in R
        /\ Fixed["FloatLE"] \in R /\ Fixed["DoubleLE"] \in R
    BY <1>1, <1>3 DEF Fixed
  <2> QED BY <1>4, <2>1, <2>2
<1>6. \A type \in DOMAIN Fixed :
       Fixed[type].bytes \in Nat /\ Fixed[type].big \in BOOLEAN /\ Fixed[type].signed \in BOOLEAN
  BY <1>2, <1>5
<1>7. Fixed["I16LE"] = Integer(ShortBytes, FALSE, TRUE)
  BY DEF Fixed
<1>8. Fixed["U16LE"] = Integer(ShortBytes, FALSE, FALSE)
  BY DEF Fixed
<1>9. Fixed["U32LE"] = Integer(WordBytes, FALSE, FALSE)
  BY DEF Fixed
<1> QED BY <1>4, <1>6, <1>7, <1>8, <1>9

LEMMA EncodedIs ==
  ASSUME NEW v
  PROVE  /\ \A type \in DOMAIN Fixed : EncodedField(type, v) =
              IF Fixed[type].big THEN writeRawBE(Bits(v, Fixed[type].bytes), Fixed[type].bytes)
                                 ELSE writeRawLE(Bits(v, Fixed[type].bytes), Fixed[type].bytes)
         /\ EncodedField("VarUInt", v) = writeVarUInt(v)
         /\ EncodedField("VarULong", v) = writeVarUInt(v)
         /\ EncodedField("VarInt", v) = writeVarInt(v, WordBytes)
         /\ EncodedField("VarLong", v) = writeVarInt(v, LongBytes)
         /\ EncodedField("Optional", v) = writeOptional(v)
         /\ EncodedField("Bool", v) = IF v THEN <<1>> ELSE <<0>>
         /\ EncodedField("String", v) = writeString(v)
         /\ EncodedField("LoginRequest", v) =
              writeString(writeStringU32LE(v[1]) \o writeStringU32LE(v[2]))
         /\ EncodedField("UUID", v) = writeUUID(v)
         /\ EncodedField("IdText", v) = writeString(toString(v))
         /\ EncodedField("ChunkIndex", v) = writeRawLE(Bits(v, ShortBytes), ShortBytes)
         /\ EncodedField("PackId", v) = writeString(toString(v.id) \o v.rest)
         /\ EncodedField("PackEntry", v) = writeString(toString(v.id) \o v.rest)
BY FixedAre DEF EncodedField

LEMMA DecodedIs ==
  ASSUME NEW bytes, NEW o
  PROVE  /\ \A type \in DOMAIN Fixed : DecodedField(type, bytes, o) = readFixed(Fixed[type], bytes, o)
         /\ DecodedField("VarUInt", bytes, o) = readVarUInt(bytes, o)
         /\ DecodedField("VarULong", bytes, o) = readVarULong(bytes, o)
         /\ DecodedField("VarInt", bytes, o) = readVarInt(bytes, o, WordBytes)
         /\ DecodedField("VarLong", bytes, o) = readVarInt(bytes, o, LongBytes)
         /\ DecodedField("Optional", bytes, o) = readOptional(bytes, o)
         /\ DecodedField("Bool", bytes, o) = readBool(bytes, o)
         /\ DecodedField("String", bytes, o) = readString(bytes, o)
         /\ DecodedField("LoginRequest", bytes, o) = readLoginRequest(bytes, o)
         /\ DecodedField("UUID", bytes, o) = readUUID(bytes, o, IdBytes)
         /\ DecodedField("IdText", bytes, o) = readPackId(bytes, o)
         /\ DecodedField("PackId", bytes, o) = readPackId(bytes, o)
         /\ DecodedField("PackEntry", bytes, o) = readPackEntry(bytes, o)
         /\ DecodedField("ChunkIndex", bytes, o) = readFixed(Fixed["I16LE"], bytes, o)
BY FixedAre DEF DecodedField

\* A request for a chunk that names a version is read by throwing.
Refused(f) == f.type = "PackId" /\ NamesVersion(f.value)

\* What the decoder makes of a field: where it stands it is read to its end and
\* is the same, or refused; where it is cut off, the decoder throws.
Readable(f) ==
  LET bytes == EncodedField(f.type, f.value)
  IN  /\ bytes \in Seq(Byte)
      /\ \E x : /\ ~ Refused(f) => Same(f, x)
                /\ \A b \in Seq(Byte), o \in Nat : At(b, o, bytes) =>
                     DecodedField(f.type, b, o) = IF Refused(f) THEN Throws ELSE Gives(x, o + Len(bytes))
      /\ \A b \in Seq(Byte), o \in Nat : Cut(b, o, bytes) => DecodedField(f.type, b, o) = Throws

LEMMA SameIs ==
  ASSUME NEW f, NEW x
  PROVE  /\ f.type = "ChunkIndex" => (Same(f, x) <=> ((x = f.value) <=> (2 * f.value < Span(ShortBytes))))
         /\ f.type \in {"VarInt", "VarLong"} =>
              (Same(f, x) <=> ((x = f.value) <=> (Odd(f.value) <=> f.value < 0)))
         /\ f.type = "PackId" => (Same(f, x) <=> x = f.value.id)
         /\ f.type = "PackEntry" =>
              (Same(f, x) <=> x = IF NamesVersion(f.value) THEN f.value
                                  ELSE [id |-> NilId, rest |-> <<>>])
         /\ f.type \notin {"ChunkIndex", "VarInt", "VarLong", "PackId", "PackEntry"} =>
              (Same(f, x) <=> x = f.value)
BY DEF Same

\* How a field of a type without exceptions is shown to be readable.
LEMMA ReadableIf ==
  ASSUME NEW f, NEW bytes \in Seq(Byte), bytes = EncodedField(f.type, f.value),
         f.type \notin {"ChunkIndex", "VarInt", "VarLong", "PackId", "PackEntry"},
         \A b \in Seq(Byte), o \in Nat :
           /\ At(b, o, bytes) => DecodedField(f.type, b, o) = Gives(f.value, o + Len(bytes))
           /\ Cut(b, o, bytes) => DecodedField(f.type, b, o) = Throws
  PROVE  Readable(f)
<1>1. ~ Refused(f)
  BY DEF Refused
<1>2. Same(f, f.value)
  BY SameIs
<1>3. PICK x : x = f.value
  OBVIOUS
<1>4. /\ ~ Refused(f) => Same(f, x)
      /\ \A b \in Seq(Byte), o \in Nat : At(b, o, bytes) =>
           DecodedField(f.type, b, o) = IF Refused(f) THEN Throws ELSE Gives(x, o + Len(bytes))
  BY <1>1, <1>2, <1>3
<1> QED BY <1>4 DEF Readable

LEMMA FixedReadable ==
  ASSUME NEW f, f.type \in DOMAIN Fixed, f.value \in Int,
         Fits(f.value, Fixed[f.type].bytes, Fixed[f.type].signed)
  PROVE  Readable(f)
<1>1. PICK v, w, n, big, signed :
        v \in Int /\ v = f.value /\ w = Fixed[f.type] /\ n = w.bytes /\ big = w.big /\ signed = w.signed
  OBVIOUS
<1> v \in Int
  BY <1>1
<1>2. n \in Nat /\ Fits(v, n, signed)
  BY <1>1, FixedAre
<1>3. PICK u \in Nat : /\ u = Bits(v, n) /\ u < Span(n)
                       /\ IF signed THEN Signed(u, n) = v ELSE u = v
  <2>1. Bits(v, n) \in Nat /\ Bits(v, n) < Span(n)
    BY <1>2, BitsIs
  <2>2. signed => Signed(Bits(v, n), n) = v
    BY <1>2, BitsIs DEF Fits
  <2>3. ~ signed => Bits(v, n) = v
    BY <1>2, BitsIs DEF Fits
  <2> QED BY <2>1, <2>2, <2>3
<1>4. PICK bytes : bytes = IF big THEN writeRawBE(u, n) ELSE writeRawLE(u, n)
  OBVIOUS
<1>5. bytes = EncodedField(f.type, f.value)
  BY <1>1, <1>3, <1>4, EncodedIs
<1>6. bytes \in Seq(Byte) /\ Len(bytes) = n
  BY <1>2, <1>3, <1>4, RawIs
<1>7. ASSUME NEW b \in Seq(Byte), NEW o \in Nat
      PROVE  /\ At(b, o, bytes) => DecodedField(f.type, b, o) = Gives(f.value, o + Len(bytes))
             /\ Cut(b, o, bytes) => DecodedField(f.type, b, o) = Throws
  <2>1. PICK r : r = IF big THEN readRawBE(b, o, n) ELSE readRawLE(b, o, n)
    OBVIOUS
  <2>2. DecodedField(f.type, b, o) = IF r.threw \/ ~signed THEN r ELSE Gives(Signed(r.value, n), r.next)
    BY <1>1, <2>1, DecodedIs DEF readFixed
  <2>3. At(b, o, bytes) => r = Gives(u, o + n)
    BY <1>2, <1>3, <1>4, <2>1, ReadRawAt
  <2>4. Cut(b, o, bytes) => r = Throws
    BY <1>2, <1>3, <1>4, <2>1, ReadRawAt
  <2> QED BY <1>1, <1>3, <1>6, <2>2, <2>3, <2>4, GivesIs
<1>8. f.type \notin {"ChunkIndex", "VarInt", "VarLong", "PackId", "PackEntry"}
  BY FixedAre
<1> QED BY <1>5, <1>6, <1>7, <1>8, ReadableIf

LEMMA VarUIntReadable ==
  ASSUME NEW f, f.value \in Nat,
         \/ f.type = "VarUInt" /\ f.value < Span(WordBytes)
         \/ f.type = "VarULong" /\ f.value < Span(LongBytes)
  PROVE  Readable(f)
<1>1. PICK v, n : v \in Nat /\ v = f.value /\ n = IF f.type = "VarUInt" THEN WordBytes ELSE LongBytes
  OBVIOUS
<1> v \in Nat
  BY <1>1
<1>2. n \in Nat /\ n >= 1 /\ n <= LongBytes /\ v < Span(n)
  BY <1>1, WidthAssumption
<1>3. v < Span(LongBytes)
  BY <1>2, SizeBound
<1>4. PICK bytes : bytes = writeVarUInt(v)
  OBVIOUS
<1>5. bytes \in Seq(Byte) /\ Len(bytes) = getVarUIntSize(v)
  BY <1>3, <1>4, WrittenNumber
<1>6. bytes = EncodedField(f.type, f.value)
  BY <1>1, <1>4, EncodedIs
<1>7. ASSUME NEW b \in Seq(Byte), NEW o \in Nat
      PROVE  /\ At(b, o, bytes) => DecodedField(f.type, b, o) = Gives(f.value, o + Len(bytes))
             /\ Cut(b, o, bytes) => DecodedField(f.type, b, o) = Throws
  <2>1. DecodedField(f.type, b, o) = readVar(b, o, n)
    BY <1>1, DecodedIs DEF readVarUInt, readVarULong
  <2>2. At(b, o, bytes) => readVar(b, o, n) = Gives(v, o + Len(bytes))
    BY <1>2, <1>4, <1>5, ReadVarAt
  <2>3. Cut(b, o, bytes) => readVar(b, o, n) = Throws
    BY <1>2, <1>4, ReadVarCut
  <2> QED BY <1>1, <2>1, <2>2, <2>3
<1>8. f.type \notin {"ChunkIndex", "VarInt", "VarLong", "PackId", "PackEntry"}
  OBVIOUS
<1> QED BY <1>5, <1>6, <1>7, <1>8, ReadableIf

LEMMA VarIntReadable ==
  ASSUME NEW f, f.value \in Int,
         \/ f.type = "VarInt" /\ Fits(f.value, WordBytes, TRUE)
         \/ f.type = "VarLong" /\ Fits(f.value, LongBytes, TRUE)
  PROVE  Readable(f)
<1>1. PICK v, n : v \in Int /\ v = f.value /\ n = IF f.type = "VarInt" THEN WordBytes ELSE LongBytes
  OBVIOUS
<1> v \in Int
  BY <1>1
<1>2. n \in Nat /\ n >= 1 /\ n <= LongBytes /\ -Span(n) <= 2 * v /\ 2 * v < Span(n)
  BY <1>1, WidthAssumption DEF Fits
<1>3. PICK bytes : bytes = writeVarInt(v, n)
  OBVIOUS
<1>4. bytes \in Seq(Byte)
  BY <1>2, <1>3, VarIntIs
<1>5. PICK x : /\ x = v <=> (v % 2 = 1 <=> v < 0)
               /\ \A b \in Seq(Byte), o \in Nat :
                    /\ At(b, o, bytes) => readVarInt(b, o, n) = Gives(x, o + Len(bytes))
                    /\ Cut(b, o, bytes) => readVarInt(b, o, n) = Throws
  BY <1>2, <1>3, VarIntIs
<1>6. bytes = EncodedField(f.type, f.value)
  BY <1>1, <1>3, EncodedIs
<1>7. \A b, o : DecodedField(f.type, b, o) = readVarInt(b, o, n)
  BY <1>1, DecodedIs
<1>8. Same(f, x) /\ ~ Refused(f)
  BY <1>1, <1>5, SameIs DEF Odd, Refused
<1>9. \A b \in Seq(Byte), o \in Nat : At(b, o, bytes) =>
        DecodedField(f.type, b, o) = IF Refused(f) THEN Throws ELSE Gives(x, o + Len(bytes))
  BY <1>5, <1>7, <1>8
<1>10. \A b \in Seq(Byte), o \in Nat : Cut(b, o, bytes) => DecodedField(f.type, b, o) = Throws
  BY <1>5, <1>7
<1> QED BY <1>4, <1>6, <1>8, <1>9, <1>10 DEF Readable

LEMMA ChunkIndexReadable ==
  ASSUME NEW f, f.type = "ChunkIndex", f.value \in Nat
  PROVE  Readable(f)
<1>1. PICK v, n : v \in Nat /\ v = f.value /\ n = ShortBytes
  OBVIOUS
<1> v \in Nat
  BY <1>1
<1>2. n \in Nat /\ Fixed["I16LE"] = Integer(n, FALSE, TRUE) /\ "I16LE" \in DOMAIN Fixed
  <2>1. Fixed["I16LE"] = Integer(n, FALSE, TRUE) /\ "I16LE" \in DOMAIN Fixed
    BY <1>1, FixedAre
  <2>2. Fixed["I16LE"].bytes \in Nat /\ Integer(n, FALSE, TRUE).bytes = n
    BY <2>1, FixedAre DEF Integer
  <2> QED BY <2>1, <2>2
<1>3. PICK u, x : /\ u \in Nat /\ u = Bits(v, n) /\ x = Signed(u, n) /\ u < Span(n)
                  /\ x = v <=> 2 * v < Span(n)
  <2>1. Span(n) \in Nat \ {0}
    BY <1>2, Widths
  <2>2. /\ Bits(v, n) \in Nat /\ Bits(v, n) < Span(n)
        /\ 2 * v < Span(n) => Signed(Bits(v, n), n) = v
    <3>1. -Span(n) <= 2 * v
      BY <2>1
    <3>2. v \in Int
      OBVIOUS
    <3>3. /\ Bits(v, n) \in Nat /\ Bits(v, n) < Span(n)
          /\ -Span(n) <= 2 * v /\ 2 * v < Span(n) => Signed(Bits(v, n), n) = v
      BY <1>2, <3>2, BitsIs
    <3> QED BY <3>1, <3>3
  <2>3. 2 * Signed(Bits(v, n), n) < Span(n)
    BY <1>2, BitsIs
  <2> QED BY <2>2, <2>3
<1> u \in Nat
  BY <1>3
<1>4. PICK bytes : bytes = writeRawLE(u, n)
  OBVIOUS
<1>5. bytes \in Seq(Byte) /\ Len(bytes) = n
  BY <1>2, <1>3, <1>4, RawIs
<1>6. bytes = EncodedField(f.type, f.value)
  BY <1>1, <1>3, <1>4, EncodedIs
<1>7. Same(f, x) /\ ~ Refused(f)
  BY <1>1, <1>3, SameIs DEF Refused
<1>8. ASSUME NEW b \in Seq(Byte), NEW o \in Nat
      PROVE  /\ At(b, o, bytes) => DecodedField(f.type, b, o) = Gives(x, o + Len(bytes))
             /\ Cut(b, o, bytes) => DecodedField(f.type, b, o) = Throws
  <2>1. PICK r : r = readRawLE(b, o, n)
    OBVIOUS
  <2>2. DecodedField(f.type, b, o) = IF r.threw THEN r ELSE Gives(Signed(r.value, n), r.next)
    <3>1. DecodedField(f.type, b, o) = readFixed(Integer(n, FALSE, TRUE), b, o)
      BY <1>2, DecodedIs
    <3> QED BY <2>1, <3>1 DEF readFixed, Integer
  <2>3. At(b, o, bytes) => r = Gives(u, o + n)
    BY <1>2, <1>3, <1>4, <2>1, ReadRawAt
  <2>4. Cut(b, o, bytes) => r = Throws
    BY <1>2, <1>3, <1>4, <2>1, ReadRawAt
  <2> QED BY <1>3, <1>5, <2>2, <2>3, <2>4, GivesIs
<1>9. \A b \in Seq(Byte), o \in Nat : At(b, o, bytes) =>
        DecodedField(f.type, b, o) = IF Refused(f) THEN Throws ELSE Gives(x, o + Len(bytes))
  BY <1>7, <1>8
<1> QED BY <1>5, <1>6, <1>7, <1>8, <1>9 DEF Readable

LEMMA OptionalReadable ==
  ASSUME NEW f, f.type = "Optional",
         f.value = <<>> \/ \E w \in Nat : w < Span(WordBytes) /\ f.value = <<w>>
  PROVE  Readable(f)
<1>1. PICK v : v = f.value
  OBVIOUS
<1>2. PICK bytes : bytes = writeOptional(v)
  OBVIOUS
<1>3. \A b \in Seq(Byte), o \in Nat :
        /\ bytes \in Seq(Byte)
        /\ At(b, o, bytes) => readOptional(b, o) = Gives(v, o + Len(bytes))
        /\ Cut(b, o, bytes) => readOptional(b, o) = Throws
  BY <1>1, <1>2, ReadOptionalAt
<1>4. <<>> \in Seq(Byte) /\ 0 \in Nat
  OBVIOUS
<1>5. bytes \in Seq(Byte)
  BY <1>3, <1>4
<1>6. bytes = EncodedField(f.type, f.value) /\ \A b, o : DecodedField(f.type, b, o) = readOptional(b, o)
  BY <1>1, <1>2, EncodedIs, DecodedIs
<1>7. \A b \in Seq(Byte), o \in Nat :
        /\ At(b, o, bytes) => DecodedField(f.type, b, o) = Gives(f.value, o + Len(bytes))
        /\ Cut(b, o, bytes) => DecodedField(f.type, b, o) = Throws
  BY <1>1, <1>3, <1>6
<1> QED BY <1>5, <1>6, <1>7, ReadableIf

LEMMA BoolReadable ==
  ASSUME NEW f, f.type = "Bool", f.value \in BOOLEAN
  PROVE  Readable(f)
<1>1. PICK c : c = IF f.value THEN 1 ELSE 0
  OBVIOUS
<1>2. c \in Byte
  <2>1. 0 \in Byte /\ 1 \in Byte
    BY Widths DEF Byte
  <2> QED BY <1>1, <2>1
<1>3. PICK bytes : bytes = <<c>>
  OBVIOUS
<1>4. bytes \in Seq(Byte) /\ Len(bytes) = 1
  BY <1>2, <1>3
<1>5. bytes = EncodedField(f.type, f.value)
  <2>1. EncodedField("Bool", f.value) = IF f.value THEN <<1>> ELSE <<0>>
    BY EncodedIs
  <2> QED BY <1>1, <1>3, <2>1
<1>6. ASSUME NEW b \in Seq(Byte), NEW o \in Nat
      PROVE  /\ At(b, o, bytes) => DecodedField(f.type, b, o) = Gives(f.value, o + Len(bytes))
             /\ Cut(b, o, bytes) => DecodedField(f.type, b, o) = Throws
  <2>1. DecodedField(f.type, b, o) = readBool(b, o)
    BY DecodedIs
  <2>2. Cut(b, o, bytes) => readBool(b, o) = Throws
    BY <1>2, <1>3, ReadBoolAt
  <2>3. CASE f.value = TRUE
    <3>1. At(b, o, bytes) => readBool(b, o) = Gives(TRUE, o + 1)
      <4>1. c = 1 /\ c # 0
        BY <1>1, <2>3
      <4> QED BY <1>2, <1>3, <4>1, ReadBoolAt
    <3> QED BY <1>4, <2>1, <2>2, <2>3, <3>1
  <2>4. CASE f.value = FALSE
    <3>1. At(b, o, bytes) => readBool(b, o) = Gives(FALSE, o + 1)
      <4>1. c = 0
        BY <1>1, <2>4
      <4> QED BY <1>2, <1>3, <4>1, ReadBoolAt
    <3> QED BY <1>4, <2>1, <2>2, <2>4, <3>1
  <2> QED BY <2>3, <2>4
<1> QED BY <1>4, <1>5, <1>6, ReadableIf

LEMMA StringReadable ==
  ASSUME NEW f, f.type = "String", f.value \in Seq(Byte), Len(f.value) < Span(WordBytes)
  PROVE  Readable(f)
<1>1. PICK s \in Seq(Byte) : s = f.value /\ Len(s) < Span(WordBytes)
  OBVIOUS
<1>2. PICK bytes : bytes = writeString(s)
  OBVIOUS
<1>3. bytes \in Seq(Byte)
  BY <1>1, <1>2, StringIs
<1>4. bytes = EncodedField(f.type, f.value) /\ \A b, o : DecodedField(f.type, b, o) = readString(b, o)
  BY <1>1, <1>2, EncodedIs, DecodedIs
<1>5. ASSUME NEW b \in Seq(Byte), NEW o \in Nat
      PROVE  /\ At(b, o, bytes) => DecodedField(f.type, b, o) = Gives(f.value, o + Len(bytes))
             /\ Cut(b, o, bytes) => DecodedField(f.type, b, o) = Throws
  <2>1. At(b, o, bytes) => readString(b, o) = Gives(s, o + Len(bytes))
    BY <1>1, <1>2, ReadStringAt
  <2>2. Cut(b, o, bytes) => readString(b, o) = Throws
    BY <1>1, <1>2, ReadStringCut
  <2> QED BY <1>1, <1>4, <2>1, <2>2
<1> QED BY <1>3, <1>4, <1>5, ReadableIf

LEMMA UUIDReadable ==
  ASSUME NEW f, f.type = "UUID", f.value \in Seq(Byte), Len(f.value) = IdBytes
  PROVE  Readable(f)
<1>1. PICK s \in Seq(Byte) : s = f.value /\ Len(s) = IdBytes
  OBVIOUS
<1>2. PICK bytes : bytes = writeUUID(s)
  OBVIOUS
<1>3. bytes \in Seq(Byte) /\ Len(bytes) = IdBytes
  BY <1>1, <1>2, UUIDIs
<1>4. bytes = EncodedField(f.type, f.value) /\ \A b, o : DecodedField(f.type, b, o) = readUUID(b, o, IdBytes)
  BY <1>1, <1>2, EncodedIs, DecodedIs
<1>5. ASSUME NEW b \in Seq(Byte), NEW o \in Nat
      PROVE  /\ At(b, o, bytes) => DecodedField(f.type, b, o) = Gives(f.value, o + Len(bytes))
             /\ Cut(b, o, bytes) => DecodedField(f.type, b, o) = Throws
  <2>1. At(b, o, bytes) => readUUID(b, o, Len(s)) = Gives(s, o + Len(s))
    BY <1>2, ReadUUIDAt
  <2>2. Cut(b, o, bytes) => readUUID(b, o, Len(s)) = Throws
    BY <1>2, ReadUUIDAt
  <2> QED BY <1>1, <1>3, <1>4, <2>1, <2>2
<1> QED BY <1>3, <1>4, <1>5, ReadableIf

\* The two strings of a request, in a string of their own.
LEMMA LoginRequestReadable ==
  ASSUME NEW f, f.type = "LoginRequest", NEW auth \in Seq(Byte), NEW data \in Seq(Byte),
         f.value = <<auth, data>>, 2 * WordBytes + Len(auth) + Len(data) < Span(WordBytes)
  PROVE  Readable(f)
<1>1. /\ WordBytes \in Nat /\ Span(WordBytes) \in Nat /\ Len(auth) \in Nat /\ Len(data) \in Nat
      /\ Len(auth) < Span(WordBytes) /\ Len(data) < Span(WordBytes)
  <2>1. WordBytes \in Nat /\ Span(WordBytes) \in Nat
    BY Widths
  <2>2. Len(auth) \in Nat /\ Len(data) \in Nat
    OBVIOUS
  <2> QED BY <2>1, <2>2
<1>2. PICK x, y : x = writeStringU32LE(auth) /\ y = writeStringU32LE(data)
  OBVIOUS
<1>3. x \in Seq(Byte) /\ Len(x) = WordBytes + Len(auth)
  BY <1>1, <1>2, ReadStringU32LEAt
<1>4. y \in Seq(Byte) /\ Len(y) = WordBytes + Len(data)
  BY <1>1, <1>2, ReadStringU32LEAt
<1>5. PICK s : s = x \o y
  OBVIOUS
<1>6. s \in Seq(Byte) /\ Len(s) = Len(x) + Len(y)
  BY <1>3, <1>4, <1>5, Joined
<1>7. Len(s) < Span(WordBytes)
  BY <1>1, <1>3, <1>4, <1>6
<1>8. PICK bytes : bytes = writeString(s)
  OBVIOUS
<1>9. bytes \in Seq(Byte)
  BY <1>6, <1>7, <1>8, StringIs
<1>10. bytes = EncodedField(f.type, f.value)
  <2>1. f.value[1] = auth /\ f.value[2] = data
    OBVIOUS
  <2>2. EncodedField("LoginRequest", f.value) =
          writeString(writeStringU32LE(f.value[1]) \o writeStringU32LE(f.value[2]))
    BY EncodedIs
  <2> QED BY <1>2, <1>5, <1>8, <2>1, <2>2
<1>11. At(s, 0, x) /\ At(s, Len(x), y)
  <2>1. At(s, 0, s)
    <3>1. 0 + Len(s) <= Len(s) /\ \A i \in 1 .. Len(s) : s[0 + i] = s[i]
      BY <1>6
    <3> QED BY <3>1 DEF At
  <2>2. At(s, 0, x) /\ At(s, 0 + Len(x), y)
    BY <1>3, <1>4, <1>5, <1>6, <2>1, AtConcat
  <2>3. 0 + Len(x) = Len(x)
    BY <1>3
  <2> QED BY <2>2, <2>3
<1>12. readStringU32LE(s, 0) = Gives(auth, Len(x))
  <2>1. readStringU32LE(s, 0) = Gives(auth, 0 + Len(x))
    BY <1>1, <1>2, <1>6, <1>11, ReadStringU32LEAt
  <2>2. 0 + Len(x) = Len(x)
    BY <1>3
  <2> QED BY <2>1, <2>2
<1>13. \E next : readStringU32LE(s, Len(x)) = Gives(data, next)
  <2>1. Len(x) \in Nat
    BY <1>3
  <2> QED BY <1>1, <1>2, <1>6, <1>11, <2>1, ReadStringU32LEAt
<1>14. ASSUME NEW b \in Seq(Byte), NEW o \in Nat
       PROVE  /\ At(b, o, bytes) => DecodedField(f.type, b, o) = Gives(f.value, o + Len(bytes))
              /\ Cut(b, o, bytes) => DecodedField(f.type, b, o) = Throws
  <2>1. DecodedField(f.type, b, o) = readLoginRequest(b, o)
    BY DecodedIs
  <2>2. ASSUME At(b, o, bytes)
        PROVE  readLoginRequest(b, o) = Gives(f.value, o + Len(bytes))
    <3>1. readString(b, o) = Gives(s, o + Len(bytes))
      BY <1>6, <1>7, <1>8, <2>2, ReadStringAt
    <3>2. PICK whole, first, second :
            whole = readString(b, o) /\ first = readStringU32LE(s, 0) /\ second = readStringU32LE(s, Len(x))
      OBVIOUS
    <3>3. whole.threw = FALSE /\ whole.value = s /\ whole.next = o + Len(bytes)
      BY <3>1, <3>2, GivesIs
    <3>4. first.threw = FALSE /\ first.value = auth /\ first.next = Len(x)
      BY <1>12, <3>2, GivesIs
    <3>5. second.threw = FALSE /\ second.value = data
      BY <1>13, <3>2, GivesIs
    <3>6. readLoginRequest(b, o) = Gives(<<first.value, second.value>>, whole.next)
      BY <3>2, <3>3, <3>4, <3>5 DEF readLoginRequest
    <3> QED BY <3>3, <3>4, <3>5, <3>6
  <2>3. ASSUME Cut(b, o, bytes)
        PROVE  readLoginRequest(b, o) = Throws
    <3>1. readString(b, o) = Throws
      BY <1>6, <1>7, <1>8, <2>3, ReadStringCut
    <3> QED BY <3>1, GivesIs DEF readLoginRequest
  <2> QED BY <2>1, <2>2, <2>3
<1> QED BY <1>9, <1>10, <1>14, ReadableIf

\* The text of an id in a buffer, alone.
LEMMA IdTextReadable ==
  ASSUME NEW f, f.type = "IdText", f.value \in Seq(Byte), Len(f.value) = IdBytes,
         2 * IdBytes < Span(WordBytes)
  PROVE  Readable(f)
<1>1. PICK id \in Seq(Byte) : id = f.value /\ Len(id) = IdBytes
  OBVIOUS
<1>2. PICK s \in Seq(Byte) : s = toString(id) /\ Len(s) = 2 * IdBytes /\ fromString(s, IdBytes) = Gives(id, 0)
  BY <1>1, IdTextIs
<1>3. Len(s) < Span(WordBytes)
  BY <1>2
<1>4. PICK bytes : bytes = writeString(s)
  OBVIOUS
<1>5. bytes \in Seq(Byte)
  BY <1>3, <1>4, StringIs
<1>6. bytes = EncodedField(f.type, f.value)
  BY <1>1, <1>2, <1>4, EncodedIs
<1>7. ASSUME NEW b \in Seq(Byte), NEW o \in Nat
      PROVE  /\ At(b, o, bytes) => DecodedField(f.type, b, o) = Gives(f.value, o + Len(bytes))
             /\ Cut(b, o, bytes) => DecodedField(f.type, b, o) = Throws
  <2>1. DecodedField(f.type, b, o) = readPackId(b, o)
    BY DecodedIs
  <2>2. At(b, o, bytes) => readString(b, o) = Gives(s, o + Len(bytes))
    BY <1>3, <1>4, ReadStringAt
  <2>3. Cut(b, o, bytes) => readString(b, o) = Throws
    BY <1>3, <1>4, ReadStringCut
  <2> QED BY <1>1, <1>2, <2>1, <2>2, <2>3, GivesIs DEF readPackId
<1> QED BY <1>5, <1>6, <1>7, ReadableIf

\* The rest behind an id: nothing, or a version behind an underscore.
NamesPack(pack) ==
  /\ pack.id \in Seq(Byte) /\ Len(pack.id) = IdBytes /\ pack.rest \in Seq(Byte)
  /\ pack = [id |-> pack.id, rest |-> pack.rest]
  /\ NamesVersion(pack) => Len(pack.rest) >= 1 /\ pack.rest[1] = Underscore
  /\ 2 * IdBytes + Len(pack.rest) < Span(WordBytes)

LEMMA PackTextIs ==
  ASSUME NEW pack, NamesPack(pack), IdBytes \in Nat
  PROVE  LET text == toString(pack.id) \o pack.rest
         IN  /\ text \in Seq(Byte) /\ Len(text) = 2 * IdBytes + Len(pack.rest)
             /\ Len(text) < Span(WordBytes)
             /\ SubSeq(text, 1, 2 * IdBytes) = toString(pack.id)
             /\ SubSeq(text, 2 * IdBytes + 1, Len(text)) = pack.rest
             /\ \A i \in 1 .. 2 * IdBytes : text[i] < Digits
             /\ NamesVersion(pack) => text[2 * IdBytes + 1] = Underscore
             /\ ~NamesVersion(pack) => text = toString(pack.id) /\ pack.rest = <<>>
             /\ fromString(toString(pack.id), IdBytes) = Gives(pack.id, 0)
<1>1. PICK s \in Seq(Byte), rest \in Seq(Byte), m \in Nat :
        /\ s = toString(pack.id) /\ rest = pack.rest /\ m = 2 * IdBytes /\ Len(s) = m
        /\ \A i \in 1 .. m : s[i] < Digits
        /\ fromString(s, IdBytes) = Gives(pack.id, 0)
  <2>1. 2 * IdBytes \in Nat
    OBVIOUS
  <2> QED BY <2>1, IdTextIs DEF NamesPack
<1>2. PICK text : text = s \o rest
  OBVIOUS
<1>3. /\ text \in Seq(Byte) /\ Len(text) = m + Len(rest)
      /\ SubSeq(text, 1, m) = s /\ SubSeq(text, m + 1, Len(text)) = rest
  <2>1. /\ text \in Seq(Byte) /\ Len(text) = Len(s) + Len(rest)
        /\ SubSeq(text, 1, Len(s)) = s /\ SubSeq(text, Len(s) + 1, Len(s) + Len(rest)) = rest
    BY <1>2, Joined
  <2> QED BY <1>1, <2>1
<1>4. \A i \in 1 .. m : text[i] < Digits
  <2>1. \A i \in 1 .. Len(s) : text[i] = s[i]
    BY <1>2
  <2> QED BY <1>1, <2>1
<1>5. NamesVersion(pack) => text[m + 1] = Underscore
  <2>1. \A i \in 1 .. Len(rest) : text[Len(s) + i] = rest[i]
    BY <1>2
  <2>2. NamesVersion(pack) => 1 \in 1 .. Len(rest) /\ rest[1] = Underscore
    BY <1>1 DEF NamesPack
  <2> QED BY <1>1, <2>1, <2>2
<1>6. ~NamesVersion(pack) => rest = <<>>
  BY <1>1 DEF NamesVersion
<1>7. ~NamesVersion(pack) => text = s
  <2>1. s \o <<>> = s
    OBVIOUS
  <2> QED BY <1>2, <1>6, <2>1
<1>8. Len(text) < Span(WordBytes)
  BY <1>1, <1>3 DEF NamesPack
<1> QED BY <1>1, <1>2, <1>3, <1>4, <1>5, <1>6, <1>7, <1>8

LEMMA PackIdReadable ==
  ASSUME NEW f, f.type = "PackId", NamesPack(f.value), IdBytes \in Nat
  PROVE  Readable(f)
<1>1. PICK pack : pack = f.value /\ NamesPack(pack)
  OBVIOUS
<1>2. PICK text : text = toString(pack.id) \o pack.rest
  OBVIOUS
<1>3. /\ text \in Seq(Byte) /\ Len(text) = 2 * IdBytes + Len(pack.rest) /\ Len(text) < Span(WordBytes)
      /\ ~NamesVersion(pack) => text = toString(pack.id)
      /\ fromString(toString(pack.id), IdBytes) = Gives(pack.id, 0)
  BY <1>1, <1>2, PackTextIs
<1>4. PICK bytes : bytes = writeString(text)
  OBVIOUS
<1>5. bytes \in Seq(Byte)
  BY <1>3, <1>4, StringIs
<1>6. bytes = EncodedField(f.type, f.value)
  BY <1>1, <1>2, <1>4, EncodedIs
<1>7. PICK result : result = fromString(text, IdBytes)
  OBVIOUS
<1>8. ~NamesVersion(pack) => ~ result.threw /\ result.value = pack.id
  BY <1>3, <1>7, GivesIs
<1>9. NamesVersion(pack) => result = Throws
  <2>1. NamesVersion(pack) => Len(text) # 2 * IdBytes
    <3>1. NamesVersion(pack) => Len(pack.rest) >= 1
      BY <1>1 DEF NamesPack
    <3>2. PICK l \in Nat, m \in Nat : l = Len(pack.rest) /\ m = 2 * IdBytes
      BY <1>1 DEF NamesPack
    <3>3. Len(text) = m + l
      BY <1>3, <3>2
    <3>4. NamesVersion(pack) => l >= 1
      BY <3>1, <3>2
    <3>5. l >= 1 => m + l # m
      OBVIOUS
    <3> QED BY <3>2, <3>3, <3>4, <3>5
  <2> QED BY <1>7, <2>1 DEF fromString
<1>10. Refused(f) <=> NamesVersion(pack)
  BY <1>1 DEF Refused
<1>11. Same(f, pack.id)
  BY <1>1, SameIs
<1>12. ASSUME NEW b \in Seq(Byte), NEW o \in Nat
       PROVE  /\ At(b, o, bytes) =>
                   DecodedField(f.type, b, o) = IF Refused(f) THEN Throws ELSE Gives(pack.id, o + Len(bytes))
              /\ Cut(b, o, bytes) => DecodedField(f.type, b, o) = Throws
  <2>1. DecodedField(f.type, b, o) = readPackId(b, o)
    BY DecodedIs
  <2>2. ASSUME At(b, o, bytes)
        PROVE  readPackId(b, o) = IF Refused(f) THEN Throws ELSE Gives(pack.id, o + Len(bytes))
    <3>1. readString(b, o) = Gives(text, o + Len(bytes))
      BY <1>3, <1>4, <2>2, ReadStringAt
    <3>2. readPackId(b, o) = IF result.threw THEN Throws ELSE Gives(result.value, o + Len(bytes))
      BY <1>7, <3>1, GivesIs DEF readPackId
    <3>3. CASE NamesVersion(pack)
      BY <1>9, <1>10, <3>2, <3>3, GivesIs
    <3>4. CASE ~NamesVersion(pack)
      BY <1>8, <1>10, <3>2, <3>4
    <3> QED BY <3>3, <3>4
  <2>3. ASSUME Cut(b, o, bytes)
        PROVE  readPackId(b, o) = Throws
    <3>1. readString(b, o) = Throws
      BY <1>3, <1>4, <2>3, ReadStringCut
    <3> QED BY <3>1, GivesIs DEF readPackId
  <2> QED BY <2>1, <2>2, <2>3
<1>13. \E x : /\ ~ Refused(f) => Same(f, x)
              /\ \A b \in Seq(Byte), o \in Nat : At(b, o, bytes) =>
                   DecodedField(f.type, b, o) = IF Refused(f) THEN Throws ELSE Gives(x, o + Len(bytes))
  BY <1>11, <1>12
<1> QED BY <1>5, <1>6, <1>12, <1>13 DEF Readable

LEMMA PackEntryReadable ==
  ASSUME NEW f, f.type = "PackEntry", NamesPack(f.value), IdBytes \in Nat,
         Underscore \in Nat, Digits <= Underscore
  PROVE  Readable(f)
<1>1. PICK pack : pack = f.value /\ NamesPack(pack)
  OBVIOUS
<1>2. PICK text : text = toString(pack.id) \o pack.rest
  OBVIOUS
<1>3. /\ text \in Seq(Byte) /\ Len(text) = 2 * IdBytes + Len(pack.rest) /\ Len(text) < Span(WordBytes)
      /\ SubSeq(text, 1, 2 * IdBytes) = toString(pack.id)
      /\ SubSeq(text, 2 * IdBytes + 1, Len(text)) = pack.rest
      /\ \A i \in 1 .. 2 * IdBytes : text[i] < Digits
      /\ NamesVersion(pack) => text[2 * IdBytes + 1] = Underscore
      /\ ~NamesVersion(pack) => text = toString(pack.id) /\ pack.rest = <<>>
      /\ fromString(toString(pack.id), IdBytes) = Gives(pack.id, 0)
  BY <1>1, <1>2, PackTextIs
<1>4. PICK bytes : bytes = writeString(text)
  OBVIOUS
<1>5. bytes \in Seq(Byte)
  BY <1>3, <1>4, StringIs
<1>6. bytes = EncodedField(f.type, f.value)
  BY <1>1, <1>2, <1>4, EncodedIs
<1>7. ~ Refused(f)
  BY DEF Refused
<1>8. \A i \in 1 .. 2 * IdBytes : text[i] # Underscore
  <2>1. \A i \in 1 .. 2 * IdBytes : text[i] \in Nat
    <3>1. \A i \in 1 .. Len(text) : text[i] \in Byte
      <4>1. text \in Seq(Byte)
        BY <1>3
      <4> QED BY <4>1
    <3>2. \A i \in 1 .. 2 * IdBytes : i \in 1 .. Len(text)
      <4>1. PICK l \in Nat, m \in Nat : l = Len(pack.rest) /\ m = 2 * IdBytes
        BY <1>1 DEF NamesPack
      <4>2. Len(text) = m + l
        BY <1>3, <4>1
      <4>3. \A i \in 1 .. m : i \in 1 .. m + l
        OBVIOUS
      <4> QED BY <4>1, <4>2, <4>3
    <3>3. \A z \in Byte : z \in Nat
      BY Widths DEF Byte
    <3> QED BY <3>1, <3>2, <3>3
  <2>2. \A i \in 1 .. 2 * IdBytes : text[i] < Digits
    BY <1>3
  <2> QED BY <2>1, <2>2, DigitsAre
<1>9. DOMAIN text = 1 .. Len(text)
  BY <1>3
<1>10. PICK x : x = IF NamesVersion(pack) THEN pack ELSE [id |-> NilId, rest |-> <<>>]
  OBVIOUS
<1>11. Same(f, x)
  BY <1>1, <1>10, SameIs
<1>12. ASSUME NEW b \in Seq(Byte), NEW o \in Nat
       PROVE  /\ At(b, o, bytes) => DecodedField(f.type, b, o) = Gives(x, o + Len(bytes))
              /\ Cut(b, o, bytes) => DecodedField(f.type, b, o) = Throws
  <2>1. DecodedField(f.type, b, o) = readPackEntry(b, o)
    BY DecodedIs
  <2>2. ASSUME At(b, o, bytes)
        PROVE  readPackEntry(b, o) = Gives(x, o + Len(bytes))
    <3>1. readString(b, o) = Gives(text, o + Len(bytes))
      BY <1>3, <1>4, <2>2, ReadStringAt
    <3>2. PICK id, rest : /\ id = fromString(SubSeq(text, 1, SplitAt(text) - 1), IdBytes)
                          /\ rest = SubSeq(text, SplitAt(text), Len(text))
      OBVIOUS
    <3>3. readPackEntry(b, o) =
            IF Underscores(text) = {} THEN Gives([id |-> NilId, rest |-> <<>>], o + Len(bytes))
            ELSE IF id.threw THEN Throws
            ELSE Gives([id |-> id.value, rest |-> rest], o + Len(bytes))
      <4>1. PICK whole : whole = readString(b, o)
        OBVIOUS
      <4>2. whole.threw = FALSE /\ whole.value = text /\ whole.next = o + Len(bytes)
        BY <3>1, <4>1, GivesIs
      <4> QED BY <3>2, <4>1, <4>2 DEF readPackEntry
    <3>4. CASE ~NamesVersion(pack)
      <4>1. Underscores(text) = {}
        <5>1. Len(text) = 2 * IdBytes
          <6>1. Len(pack.rest) = 0 /\ 2 * IdBytes \in Nat
            BY <1>3, <3>4
          <6>2. Len(text) = 2 * IdBytes + Len(pack.rest)
            BY <1>3
          <6> QED BY <6>1, <6>2
        <5> QED BY <1>8, <1>9, <5>1 DEF Underscores
      <4> QED BY <1>10, <3>3, <3>4, <4>1
    <3>5. CASE NamesVersion(pack)
      <4>1. PICK m \in Nat : m = 2 * IdBytes + 1
        OBVIOUS
      <4>2. m \in Underscores(text)
        <5>1. Len(pack.rest) >= 1 /\ Len(pack.rest) \in Nat
          BY <1>1, <3>5 DEF NamesPack
        <5>2. m \in 1 .. Len(text)
          BY <1>3, <4>1, <5>1
        <5> QED BY <1>3, <1>9, <3>5, <4>1, <5>2 DEF Underscores
      <4>3. \A j \in Underscores(text) : j \in Nat /\ m <= j
        <5>1. \A j \in 1 .. Len(text) : j < m => j \in 1 .. 2 * IdBytes
          BY <4>1
        <5>2. \A j \in Underscores(text) : j \in 1 .. Len(text) /\ text[j] = Underscore
          BY <1>9 DEF Underscores
        <5>3. \A j \in 1 .. Len(text) : j \in Nat /\ (j < m \/ m <= j)
          OBVIOUS
        <5> QED BY <1>8, <5>1, <5>2, <5>3
      <4>4. SplitAt(text) = m
        <5>1. \A k \in Underscores(text) : (\A j \in Underscores(text) : k <= j) => k = m
          BY <4>2, <4>3
        <5> QED BY <4>2, <4>3, <5>1 DEF SplitAt
      <4>5. m - 1 = 2 * IdBytes
        BY <4>1
      <4>6. id = Gives(pack.id, 0) /\ rest = pack.rest
        BY <1>3, <3>2, <4>1, <4>4, <4>5
      <4>7. Underscores(text) # {}
        BY <4>2
      <4>8. readPackEntry(b, o) = Gives([id |-> pack.id, rest |-> pack.rest], o + Len(bytes))
        BY <3>3, <4>6, <4>7, GivesIs
      <4>9. pack = [id |-> pack.id, rest |-> pack.rest]
        BY <1>1 DEF NamesPack
      <4> QED BY <1>10, <3>5, <4>8, <4>9
    <3> QED BY <3>4, <3>5
  <2>3. ASSUME Cut(b, o, bytes)
        PROVE  readPackEntry(b, o) = Throws
    <3>1. readString(b, o) = Throws
      BY <1>3, <1>4, <2>3, ReadStringCut
    <3> QED BY <3>1, GivesIs DEF readPackEntry
  <2> QED BY <2>1, <2>2, <2>3
<1>13. \A b \in Seq(Byte), o \in Nat : At(b, o, bytes) =>
         DecodedField(f.type, b, o) = IF Refused(f) THEN Throws ELSE Gives(x, o + Len(bytes))
  BY <1>7, <1>12
<1> QED BY <1>5, <1>6, <1>7, <1>11, <1>12, <1>13 DEF Readable

CountType == {"U16LE", "U32LE", "VarUInt"}
FieldType ==
  DOMAIN Fixed \cup {"VarUInt", "VarULong", "VarInt", "VarLong", "Optional", "Bool", "String",
                     "LoginRequest", "UUID", "IdText", "ChunkIndex", "PackId", "PackEntry"}

LEMMA ValuesAre ==
  /\ \A type \in DOMAIN Fixed :
       Values(type) = {v \in Numbers : Fits(v, Fixed[type].bytes, Fixed[type].signed)}
  /\ Values("VarUInt") = {v \in Numbers : Fits(v, WordBytes, FALSE)}
  /\ Values("ChunkIndex") = {v \in Numbers : Fits(v, WordBytes, FALSE)}
  /\ Values("VarULong") = {v \in Numbers : Fits(v, LongBytes, FALSE)}
  /\ Values("VarInt") = {v \in Numbers : Fits(v, WordBytes, TRUE)}
  /\ Values("VarLong") = {v \in Numbers : Fits(v, LongBytes, TRUE)}
  /\ Values("Optional") = {<<>>} \cup {<<v>> : v \in {w \in Numbers : Fits(w, WordBytes, FALSE)}}
  /\ Values("Bool") = BOOLEAN
  /\ Values("String") = Strings
  /\ Values("LoginRequest") = Strings \X Strings
  /\ Values("UUID") = Ids
  /\ Values("IdText") = Ids
  /\ Values("PackId") = NamedPack
  /\ Values("PackEntry") = NamedPack
BY FixedAre DEF Values

LEMMA SizesFit ==
  /\ \A s \in Strings : s \in Seq(Byte) /\ Len(s) < Span(WordBytes)
  /\ \A s, t \in Strings : 2 * WordBytes + Len(s) + Len(t) < Span(WordBytes)
  /\ \A id \in Ids : id \in Seq(Byte) /\ Len(id) = IdBytes
  /\ IdBytes \in Nat /\ 2 * IdBytes < Span(WordBytes)
  /\ Underscore \in Nat /\ Digits <= Underscore
  /\ \A pack \in NamedPack : NamesPack(pack)
<1>1. WordBytes \in Nat /\ Span(WordBytes) \in Nat /\ Radix \in Nat /\ Digits \in Nat
  BY Widths, DigitsAre
<1>2. /\ IdBytes \in Nat /\ Underscore \in Digits .. Radix - 1 /\ <<>> \in Strings
      /\ \A s \in Strings : s \in Seq(Byte)
      /\ \A id \in Ids : id \in Seq(Byte) /\ Len(id) = IdBytes
  BY ValueAssumption
<1>3. \A s, t \in Strings : 2 * WordBytes + Len(s) + Len(t) < Span(WordBytes)
  BY StringAssumption
<1>4. \A s \in Strings : 2 * IdBytes + 1 + Len(s) < Span(WordBytes)
  BY StringAssumption
<1>5. \A s \in Strings : Len(s) \in Nat
  BY <1>2
<1>6. \A s \in Strings : Len(s) < Span(WordBytes)
  <2> TAKE s \in Strings
  <2>1. 2 * WordBytes + Len(s) + Len(s) < Span(WordBytes) /\ Len(s) \in Nat
    BY <1>3, <1>5
  <2> QED BY <1>1, <2>1
<1>7. 2 * IdBytes + 1 < Span(WordBytes)
  <2>1. 2 * IdBytes + 1 + Len(<<>>) < Span(WordBytes) /\ Len(<<>>) = 0
    BY <1>2, <1>4
  <2> QED BY <1>1, <1>2, <2>1
<1>8. Underscore \in Nat /\ Digits <= Underscore /\ Underscore \in Byte
  BY <1>1, <1>2 DEF Byte
<1>9. ASSUME NEW pack \in NamedPack
      PROVE  NamesPack(pack)
  <2>1. /\ pack.id \in Ids /\ pack = [id |-> pack.id, rest |-> pack.rest]
        /\ pack.rest = <<>> \/ \E s \in Strings : pack.rest = <<Underscore>> \o s
    BY DEF NamedPack
  <2>2. pack.id \in Seq(Byte) /\ Len(pack.id) = IdBytes
    BY <1>2, <2>1
  <2>3. CASE pack.rest = <<>>
    <3>1. pack.rest \in Seq(Byte) /\ Len(pack.rest) = 0
      BY <2>3
    <3>2. 2 * IdBytes + Len(pack.rest) < Span(WordBytes)
      BY <1>1, <1>2, <1>7, <3>1
    <3>3. ~ NamesVersion(pack)
      BY <2>3 DEF NamesVersion
    <3> QED BY <2>1, <2>2, <3>1, <3>2, <3>3 DEF NamesPack
  <2>4. ASSUME NEW s \in Strings, pack.rest = <<Underscore>> \o s
        PROVE  NamesPack(pack)
    <3>1. s \in Seq(Byte) /\ 2 * IdBytes + 1 + Len(s) < Span(WordBytes)
      BY <1>2, <1>4
    <3>2. PICK first : first = <<Underscore>>
      OBVIOUS
    <3>3. first \in Seq(Byte) /\ Len(first) = 1 /\ first[1] = Underscore
      BY <1>8, <3>2
    <3>4. \A a, b \in Seq(Byte) :
            /\ a \o b \in Seq(Byte) /\ Len(a \o b) = Len(a) + Len(b) /\ Len(b) \in Nat
            /\ \A i \in 1 .. Len(a) : (a \o b)[i] = a[i]
      OBVIOUS
    <3>5. /\ pack.rest \in Seq(Byte) /\ Len(pack.rest) = 1 + Len(s) /\ pack.rest[1] = Underscore
          /\ Len(s) \in Nat
      BY <2>4, <3>1, <3>2, <3>3, <3>4
    <3>6. 2 * IdBytes + Len(pack.rest) < Span(WordBytes) /\ Len(pack.rest) >= 1
      BY <1>1, <1>2, <3>1, <3>5
    <3> QED BY <2>1, <2>2, <3>5, <3>6 DEF NamesPack
  <2> QED BY <2>1, <2>3, <2>4
<1>10. 2 * IdBytes < Span(WordBytes)
  BY <1>1, <1>2, <1>7
<1> QED BY <1>2, <1>3, <1>6, <1>8, <1>9, <1>10

\* A value of the run, or the number of entries of a list.
Writable(type, v) == v \in Values(type) \/ (type \in CountType /\ v \in 0 .. MaxEntries)

LEMMA WritableReadable ==
  ASSUME NEW f, f.type \in FieldType, Writable(f.type, f.value)
  PROVE  Readable(f)
<1>1. \A v \in Numbers : v \in Int
  BY ValueAssumption
<1>2. \A v \in Numbers : \A n : Fits(v, n, FALSE) => v \in Nat /\ v < Span(n)
  BY <1>1 DEF Fits
<1>3. CASE f.type \in CountType /\ f.value \in 0 .. MaxEntries
  <2>1. ShortBytes \in Nat /\ WordBytes \in Nat /\ ShortBytes <= WordBytes
    <3>1. \A n \in Nat : n \div 2 \in Nat /\ n \div 2 <= n
      BY Z3
    <3> QED BY <3>1, Widths DEF ShortBytes
  <2>2. f.value \in Nat /\ f.value < Span(ShortBytes) /\ f.value < Span(WordBytes)
    <3>1. Span(ShortBytes) \in Nat /\ Span(WordBytes) \in Nat /\ Span(ShortBytes) <= Span(WordBytes)
      BY <2>1, Widths
    <3>2. MaxEntries \in Nat /\ MaxEntries < Span(ShortBytes)
      BY PayloadBounds
    <3> QED BY <1>3, <3>1, <3>2
  <2>3. CASE f.type = "VarUInt"
    BY <2>2, <2>3, VarUIntReadable
  <2>4. CASE f.type \in {"U16LE", "U32LE"}
    <3>1. /\ f.type \in DOMAIN Fixed
          /\ Fixed[f.type] = Integer(IF f.type = "U16LE" THEN ShortBytes ELSE WordBytes, FALSE, FALSE)
      BY <2>4, FixedAre
    <3>2. Fits(f.value, Fixed[f.type].bytes, Fixed[f.type].signed)
      BY <2>2, <2>4, <3>1 DEF Fits, Integer
    <3>3. f.value \in Int
      BY <2>2
    <3> QED BY <3>1, <3>2, <3>3, FixedReadable
  <2> QED BY <1>3, <2>3, <2>4 DEF CountType
<1>4. CASE f.value \in Values(f.type) /\ f.type \in DOMAIN Fixed
  BY <1>1, <1>4, ValuesAre, FixedReadable
<1>5. CASE f.value \in Values(f.type) /\ f.type \in {"VarUInt", "VarULong"}
  BY <1>2, <1>5, ValuesAre, VarUIntReadable
<1>6. CASE f.value \in Values(f.type) /\ f.type \in {"VarInt", "VarLong"}
  BY <1>1, <1>6, ValuesAre, VarIntReadable
<1>7. CASE f.value \in Values(f.type) /\ f.type = "ChunkIndex"
  BY <1>2, <1>7, ValuesAre, ChunkIndexReadable
<1>8. CASE f.value \in Values(f.type) /\ f.type = "Optional"
  <2>1. f.value = <<>> \/ \E w \in Nat : w < Span(WordBytes) /\ f.value = <<w>>
    BY <1>2, <1>8, ValuesAre
  <2> QED BY <1>8, <2>1, OptionalReadable
<1>9. CASE f.value \in Values(f.type) /\ f.type = "Bool"
  BY <1>9, ValuesAre, BoolReadable
<1>10. CASE f.value \in Values(f.type) /\ f.type = "String"
  BY <1>10, ValuesAre, SizesFit, StringReadable
<1>11. CASE f.value \in Values(f.type) /\ f.type = "LoginRequest"
  <2>1. f.value \in Strings \X Strings
    BY <1>11, ValuesAre
  <2>2. PICK auth \in Strings, data \in Strings : f.value = <<auth, data>>
    BY <2>1
  <2>3. auth \in Seq(Byte) /\ data \in Seq(Byte) /\ 2 * WordBytes + Len(auth) + Len(data) < Span(WordBytes)
    BY SizesFit
  <2> QED BY <1>11, <2>2, <2>3, LoginRequestReadable
<1>12. CASE f.value \in Values(f.type) /\ f.type = "UUID"
  BY <1>12, ValuesAre, SizesFit, UUIDReadable
<1>13. CASE f.value \in Values(f.type) /\ f.type = "IdText"
  BY <1>13, ValuesAre, SizesFit, IdTextReadable
<1>14. CASE f.value \in Values(f.type) /\ f.type = "PackId"
  BY <1>14, ValuesAre, SizesFit, PackIdReadable
<1>15. CASE f.value \in Values(f.type) /\ f.type = "PackEntry"
  BY <1>15, ValuesAre, SizesFit, PackEntryReadable
<1>16. \/ f.type \in DOMAIN Fixed \/ f.type \in {"VarUInt", "VarULong"}
       \/ f.type \in {"VarInt", "VarLong"} \/ f.type = "ChunkIndex" \/ f.type = "Optional"
       \/ f.type = "Bool" \/ f.type = "String" \/ f.type = "LoginRequest" \/ f.type = "UUID"
       \/ f.type = "IdText" \/ f.type = "PackId" \/ f.type = "PackEntry"
  BY DEF FieldType
<1> QED BY <1>3, <1>4, <1>5, <1>6, <1>7, <1>8, <1>9, <1>10, <1>11, <1>12, <1>13, <1>14, <1>15,
            <1>16 DEF Writable

-----------------------------------------------------------------------------
(* The layouts *)

FieldSpec ==
  {d \in [type : FieldType, entry : Seq(FieldType)] : d.entry # <<>> => d.type \in CountType}

LEMMA PlainIs ==
  ASSUME NEW types \in Seq(FieldType)
  PROVE  Plain(types) \in Seq(FieldSpec)
<1> DEFINE p == [i \in 1 .. Len(types) |-> [type |-> types[i], entry |-> <<>>]]
<1>1. \A i \in 1 .. Len(types) : types[i] \in FieldType
  OBVIOUS
<1>2. \A t \in FieldType : [type |-> t, entry |-> <<>>] \in FieldSpec
  BY DEF FieldSpec
<1>3. Len(types) \in Nat /\ \A i \in 1 .. Len(types) : p[i] \in FieldSpec
  BY <1>1, <1>2
<1>4. p \in Seq(FieldSpec)
  <2>1. p \in [1 .. Len(types) -> FieldSpec]
    BY <1>1, <1>2
  <2> HIDE DEF p
  <2> QED BY <1>3, <2>1
<1> QED BY <1>4 DEF Plain

LEMMA CountedIs ==
  ASSUME NEW type \in CountType, NEW entry \in Seq(FieldType)
  PROVE  Counted(type, entry) \in Seq(FieldSpec)
<1>1. type \in FieldType
  BY FixedAre DEF CountType, FieldType
<1>2. [type |-> type, entry |-> entry] \in FieldSpec
  BY <1>1 DEF FieldSpec
<1> QED BY <1>2 DEF Counted

LEMMA BehindIs ==
  ASSUME NEW todo \in Seq(FieldSpec), todo # <<>>, NEW v, Head(todo).entry # <<>> => v \in Nat
  PROVE  Behind(todo, v) \in Seq(FieldSpec)
<1>1. Tail(todo) \in Seq(FieldSpec) /\ Head(todo) \in FieldSpec
  OBVIOUS
<1>2. PICK entry \in Seq(FieldType) : entry = Head(todo).entry
  BY <1>1 DEF FieldSpec
<1>3. CASE entry = <<>>
  BY <1>1, <1>2, <1>3 DEF Behind
<1>4. CASE entry # <<>>
  <2>1. PICK k \in Nat \ {0} : k = Len(entry)
    BY <1>4
  <2>2. v \in Nat /\ v * k \in Nat
    <3>1. v \in Nat
      BY <1>2, <1>4
    <3> QED BY <3>1, Z3
  <2>3. \A i \in 1 .. v * k : entry[((i - 1) % k) + 1] \in FieldType
    <3> TAKE i \in 1 .. v * k
    <3>1. i - 1 \in Nat
      OBVIOUS
    <3>2. (i - 1) % k \in 0 .. k - 1
      BY <3>1, Division
    <3>3. ((i - 1) % k) + 1 \in 1 .. k
      BY <3>2
    <3> QED BY <2>1, <3>3
  <2>4. PICK m \in Nat : m = v * k
    BY <2>2
  <2>5. [i \in 1 .. m |-> entry[((i - 1) % k) + 1]] \in Seq(FieldType)
    <3>1. PICK f : f = [i \in 1 .. m |-> entry[((i - 1) % k) + 1]]
      OBVIOUS
    <3>2. f \in [1 .. m -> FieldType]
      BY <2>3, <2>4, <3>1, Zenon
    <3>3. f \in Seq(FieldType)
      BY <2>4, <3>2
    <3> QED BY <3>1, <3>3
  <2>6. Repeated(entry, v) \in Seq(FieldType)
    BY <2>1, <2>4, <2>5 DEF Repeated
  <2>7. Plain(Repeated(entry, v)) \in Seq(FieldSpec)
    BY <2>6, PlainIs
  <2>8. \A a, b \in Seq(FieldSpec) : a \o b \in Seq(FieldSpec)
    OBVIOUS
  <2> QED BY <1>1, <1>2, <1>4, <2>7, <2>8 DEF Behind
<1> QED BY <1>3, <1>4

LEMMA LayoutsAre == \A l \in Layouts : l \in Seq(FieldSpec)
<1>1. \A a, b \in Seq(FieldSpec) : a \o b \in Seq(FieldSpec)
  OBVIOUS
<1>2. \A t \in {"U8", "I8", "U16LE", "U16BE", "I16LE", "I16BE", "U32LE", "U32BE", "I32LE", "I32BE",
                "U64LE", "U64BE", "I64LE", "I64BE", "FloatLE", "DoubleLE", "VarUInt", "VarULong",
                "VarInt", "VarLong", "Optional", "Bool", "String", "LoginRequest", "UUID", "IdText",
                "ChunkIndex", "PackId", "PackEntry"} : t \in FieldType
  BY FixedAre DEF FieldType
<1>3. RequestNetworkSettingsPacket \in Seq(FieldSpec)
  <2>1. <<"U32BE">> \in Seq(FieldType)
    BY <1>2
  <2> QED BY <2>1, PlainIs DEF RequestNetworkSettingsPacket
<1>4. NetworkSettingsPacket \in Seq(FieldSpec)
  <2>1. <<"I16LE", "I16LE", "Bool", "I8", "FloatLE">> \in Seq(FieldType)
    BY <1>2
  <2> QED BY <2>1, PlainIs DEF NetworkSettingsPacket
<1>5. LoginPacket \in Seq(FieldSpec)
  <2>1. <<"U32BE", "LoginRequest">> \in Seq(FieldType)
    BY <1>2
  <2> QED BY <2>1, PlainIs DEF LoginPacket
<1>6. PlayStatusPacket \in Seq(FieldSpec)
  <2>1. <<"U32BE">> \in Seq(FieldType)
    BY <1>2
  <2> QED BY <2>1, PlainIs DEF PlayStatusPacket
<1>7. ServerToClientHandshakePacket \in Seq(FieldSpec)
  <2>1. <<"String">> \in Seq(FieldType)
    BY <1>2
  <2> QED BY <2>1, PlainIs DEF ServerToClientHandshakePacket
<1>8. ClientToServerHandshakePacket \in Seq(FieldSpec)
  BY DEF ClientToServerHandshakePacket
<1>9. ClientCacheStatusPacket \in Seq(FieldSpec)
  <2>1. <<"Bool">> \in Seq(FieldType)
    BY <1>2
  <2> QED BY <2>1, PlainIs DEF ClientCacheStatusPacket
<1>10. ResourcePacksInfoPacket \in Seq(FieldSpec)
  <2>1. Plain(<<"Bool", "Bool", "Bool", "Bool", "UUID", "String">>) \in Seq(FieldSpec)
    <3>1. <<"Bool", "Bool", "Bool", "Bool", "UUID", "String">> \in Seq(FieldType)
      BY <1>2
    <3> QED BY <3>1, PlainIs
  <2>2. ResourcePackInfoEntry \in Seq(FieldType)
    BY <1>2 DEF ResourcePackInfoEntry
  <2>3. Counted("U16LE", ResourcePackInfoEntry) \in Seq(FieldSpec)
    BY <2>2, CountedIs DEF CountType
  <2> QED BY <1>1, <2>1, <2>3 DEF ResourcePacksInfoPacket
<1>11. ResourcePackStackPacket \in Seq(FieldSpec)
  <2>1. Plain(<<"Bool">>) \in Seq(FieldSpec) /\ Plain(<<"String">>) \in Seq(FieldSpec)
    <3>1. <<"Bool">> \in Seq(FieldType) /\ <<"String">> \in Seq(FieldType)
      BY <1>2
    <3> QED BY <3>1, PlainIs
  <2>2. ResourcePackStackEntry \in Seq(FieldType) /\ ExperimentEntry \in Seq(FieldType)
    BY <1>2 DEF ResourcePackStackEntry, ExperimentEntry
  <2>3. /\ Counted("VarUInt", ResourcePackStackEntry) \in Seq(FieldSpec)
        /\ Counted("U32LE", ExperimentEntry) \in Seq(FieldSpec)
    BY <2>2, CountedIs DEF CountType
  <2>4. Experiments \in Seq(FieldSpec)
    BY <1>1, <2>1, <2>3 DEF Experiments
  <2>5. PICK a \in Seq(FieldSpec), b \in Seq(FieldSpec), c \in Seq(FieldSpec), d \in Seq(FieldSpec) :
          /\ a = Plain(<<"Bool">>) /\ b = Counted("VarUInt", ResourcePackStackEntry)
          /\ c = Plain(<<"String">>) /\ d = Experiments
    BY <2>1, <2>3, <2>4
  <2>6. ResourcePackStackPacket = a \o b \o c \o d \o a
    BY <2>5 DEF ResourcePackStackPacket
  <2>7. a \o b \in Seq(FieldSpec)
    BY <1>1
  <2>8. a \o b \o c \in Seq(FieldSpec)
    BY <1>1, <2>7
  <2>9. a \o b \o c \o d \in Seq(FieldSpec)
    BY <1>1, <2>8
  <2> QED BY <1>1, <2>6, <2>9
<1>12. ResourcePackDataInfoPacket \in Seq(FieldSpec)
  <2>1. <<"IdText", "I32LE", "I32LE", "U64LE", "String", "Bool", "U8">> \in Seq(FieldType)
    BY <1>2
  <2> QED BY <2>1, PlainIs DEF ResourcePackDataInfoPacket
<1>13. ResourcePackChunkDataPacket \in Seq(FieldSpec)
  <2>1. <<"IdText", "U32LE", "U64LE", "String">> \in Seq(FieldType)
    BY <1>2
  <2> QED BY <2>1, PlainIs DEF ResourcePackChunkDataPacket
<1>14. ResourcePackClientResponsePacket \in Seq(FieldSpec)
  <2>1. Plain(<<"U8">>) \in Seq(FieldSpec)
    <3>1. <<"U8">> \in Seq(FieldType)
      BY <1>2
    <3> QED BY <3>1, PlainIs
  <2>2. <<"PackEntry">> \in Seq(FieldType)
    BY <1>2
  <2>3. Counted("U16LE", <<"PackEntry">>) \in Seq(FieldSpec)
    BY <2>2, CountedIs DEF CountType
  <2> QED BY <1>1, <2>1, <2>3 DEF ResourcePackClientResponsePacket
<1>15. ResourcePackChunkRequestPacket \in Seq(FieldSpec)
  <2>1. <<"PackId", "ChunkIndex">> \in Seq(FieldType)
    BY <1>2
  <2> QED BY <2>1, PlainIs DEF ResourcePackChunkRequestPacket
<1>16. \A name \in DOMAIN Layout : Layout[name] \in Seq(FieldSpec)
  <2> DEFINE S == Seq(FieldSpec)
  <2>1. Layout \in [DOMAIN Layout -> S]
    <3> HIDE DEF S
    <3>1. /\ RequestNetworkSettingsPacket \in S /\ NetworkSettingsPacket \in S /\ LoginPacket \in S
          /\ PlayStatusPacket \in S /\ ServerToClientHandshakePacket \in S
          /\ ClientToServerHandshakePacket \in S /\ ClientCacheStatusPacket \in S
          /\ ResourcePacksInfoPacket \in S /\ ResourcePackStackPacket \in S
          /\ ResourcePackDataInfoPacket \in S /\ ResourcePackChunkDataPacket \in S
          /\ ResourcePackClientResponsePacket \in S /\ ResourcePackChunkRequestPacket \in S
      BY <1>3, <1>4, <1>5, <1>6, <1>7, <1>8, <1>9, <1>10, <1>11, <1>12, <1>13, <1>14, <1>15 DEF S
    <3> QED BY <3>1 DEF Layout
  <2> QED BY <2>1
<1>17. \A pair \in UnusedTypes \X UnusedTypes : Plain(pair) \in Seq(FieldSpec)
  <2> TAKE pair \in UnusedTypes \X UnusedTypes
  <2>1. \A t \in UnusedTypes : t \in FieldType
    BY <1>2 DEF UnusedTypes
  <2>2. PICK first \in UnusedTypes, second \in UnusedTypes : pair = <<first, second>>
    OBVIOUS
  <2>3. pair \in Seq(FieldType)
    BY <2>1, <2>2
  <2> QED BY <2>3, PlainIs
<1>18. \A name \in PacketName : Layout[name] \in Seq(FieldSpec)
  BY <1>16, LayoutAssumption
<1> QED BY <1>17, <1>18 DEF Layouts

-----------------------------------------------------------------------------
(* What the bytes stand for *)

FieldBytes(f) == EncodedField(f.type, f.value)

\* The fields fs, written one behind the other as whole: left[j] is what was
\* left of the layout behind the first j of them, start[j] where they end.
Written(first, fs, rest, left, start, whole) ==
  /\ left \in [0 .. Len(fs) -> Seq(FieldSpec)] /\ start \in [0 .. Len(fs) -> Nat]
  /\ whole \in Seq(Byte)
  /\ left[0] = first /\ left[Len(fs)] = rest
  /\ start[0] = 0 /\ start[Len(fs)] = Len(whole)
  /\ \A j \in 0 .. Len(fs) : start[j] <= Len(whole)
  /\ \A j \in 1 .. Len(fs) :
       /\ left[j - 1] # <<>> /\ Head(left[j - 1]).type = fs[j].type
       /\ left[j] = Behind(left[j - 1], fs[j].value)
       /\ Readable(fs[j])
       /\ start[j] = start[j - 1] + Len(FieldBytes(fs[j])) /\ At(whole, start[j - 1], FieldBytes(fs[j]))

\* Nothing was read before the writer was done.
Untaken == values = <<>> /\ consumed = 0 /\ threw = FALSE /\ toRead = layout

\* The first fields were read, each the same and none of them refused; a read
\* that threw met the end of the bytes or a field that is refused.
Taken(left, start) ==
  /\ Len(values) <= Len(fields)
  /\ toRead = left[Len(values)]
  /\ consumed = start[Len(values)] /\ consumed <= Len(buffer)
  /\ \A k \in 1 .. Len(values) : Same(fields[k], values[k]) /\ ~ Refused(fields[k])
  /\ threw \in BOOLEAN
  /\ threw => /\ Len(values) < Len(fields)
              /\ Len(buffer) < start[Len(values) + 1] \/ Refused(fields[Len(values) + 1])

Stands(W, V, left, start, whole) ==
  /\ fields \in Seq(W) /\ values \in Seq(V)
  /\ Written(layout, fields, toWrite, left, start, whole)
  /\ \/ written = Writing /\ buffer = whole /\ Untaken
     \/ /\ written = Len(whole) /\ toWrite = <<>>
        /\ \E m \in 0 .. Len(whole) : buffer = SubSeq(whole, 1, m)
        /\ Taken(left, start)

PayloadInv == \E W, V, left, start, whole : Stands(W, V, left, start, whole)

LEMMA PrefixIs ==
  ASSUME NEW whole \in Seq(Byte), NEW m \in 0 .. Len(whole)
  PROVE  LET b == SubSeq(whole, 1, m)
         IN  /\ b \in Seq(Byte) /\ Len(b) = m
             /\ \A o \in 0 .. m, bytes \in Seq(Byte) : At(whole, o, bytes) =>
                  IF o + Len(bytes) <= m THEN At(b, o, bytes) ELSE Cut(b, o, bytes)
<1> DEFINE b == SubSeq(whole, 1, m)
<1>1. b \in Seq(Byte) /\ Len(b) = m /\ \A i \in 1 .. m : b[i] = whole[i]
  OBVIOUS
<1> HIDE DEF b
<1>2. ASSUME NEW o \in 0 .. m, NEW bytes \in Seq(Byte), At(whole, o, bytes)
      PROVE  IF o + Len(bytes) <= m THEN At(b, o, bytes) ELSE Cut(b, o, bytes)
  <2>1. Len(bytes) \in Nat /\ m \in Nat /\ \A i \in 1 .. Len(bytes) : whole[o + i] = bytes[i]
    BY <1>2 DEF At
  <2>2. CASE o + Len(bytes) <= m
    <3>1. \A i \in 1 .. Len(bytes) : o + i \in 1 .. m
      BY <2>1, <2>2
    <3>2. \A i \in 1 .. Len(bytes) : b[o + i] = bytes[i]
      BY <1>1, <2>1, <3>1
    <3> QED BY <1>1, <2>2, <3>2 DEF At
  <2>3. CASE ~ (o + Len(bytes) <= m)
    <3>1. \A i \in 1 .. m - o : o + i \in 1 .. m /\ i \in 1 .. Len(bytes)
      BY <2>1, <2>3
    <3>2. \A i \in 1 .. m - o : b[o + i] = bytes[i]
      BY <1>1, <2>1, <3>1
    <3>3. o <= m /\ m < o + Len(bytes)
      BY <2>1, <2>3
    <3> QED BY <1>1, <3>2, <3>3 DEF Cut
  <2> QED BY <2>2, <2>3
<1> QED BY <1>1, <1>2 DEF b

\* One more field behind what was written.
LEMMA WrittenGrows ==
  ASSUME NEW W, NEW fs \in Seq(W), NEW first, NEW rest, rest # <<>>, NEW left, NEW start, NEW whole,
         Written(first, fs, rest, left, start, whole),
         NEW f, f.type = Head(rest).type, Readable(f), NEW fs2, fs2 = Append(fs, f),
         Head(rest).entry # <<>> => f.value \in Nat
  PROVE  \E left2, start2 :
           Written(first, fs2, Behind(rest, f.value), left2, start2, whole \o FieldBytes(f))
<1> DEFINE n == Len(fs)
<1>1. n \in Nat /\ Len(fs2) = n + 1 /\ fs2[n + 1] = f /\ \A j \in 1 .. n : fs2[j] = fs[j]
  OBVIOUS
<1>2. /\ left \in [0 .. n -> Seq(FieldSpec)] /\ start \in [0 .. n -> Nat] /\ whole \in Seq(Byte)
      /\ left[0] = first /\ left[n] = rest /\ start[0] = 0 /\ start[n] = Len(whole)
      /\ \A j \in 0 .. n : start[j] <= Len(whole)
  BY DEF Written
<1>3. \A j \in 1 .. n :
       /\ left[j - 1] # <<>> /\ Head(left[j - 1]).type = fs[j].type
       /\ left[j] = Behind(left[j - 1], fs[j].value)
       /\ Readable(fs[j])
       /\ start[j] = start[j - 1] + Len(FieldBytes(fs[j])) /\ At(whole, start[j - 1], FieldBytes(fs[j]))
  BY DEF Written
<1> HIDE DEF n
<1>4. n \in 0 .. n
  BY <1>1
<1>5. PICK todo \in Seq(FieldSpec) : todo = Behind(rest, f.value)
  <2>1. rest \in Seq(FieldSpec)
    BY <1>2, <1>4
  <2> QED BY <2>1, BehindIs
<1>6. PICK bytes \in Seq(Byte) : bytes = FieldBytes(f)
  BY DEF Readable, FieldBytes
<1>7. PICK more : more = whole \o bytes
  OBVIOUS
<1>8. /\ more \in Seq(Byte) /\ Len(more) = Len(whole) + Len(bytes)
      /\ Len(whole) \in Nat /\ Len(bytes) \in Nat
      /\ \A i \in 1 .. Len(whole) : more[i] = whole[i]
      /\ \A i \in 1 .. Len(bytes) : more[Len(whole) + i] = bytes[i]
  BY <1>2, <1>7
<1>9. PICK left2 : left2 = [j \in 0 .. n + 1 |-> IF j = n + 1 THEN todo ELSE left[j]]
  OBVIOUS
<1>10. PICK start2 : start2 = [j \in 0 .. n + 1 |-> IF j = n + 1 THEN Len(more) ELSE start[j]]
  OBVIOUS
<1>11. \A j \in 0 .. n + 1 : j = n + 1 \/ j \in 0 .. n
  BY <1>1
<1>12. \A j \in 0 .. n : j \in 0 .. n + 1 /\ j # n + 1
  BY <1>1
<1>13. n + 1 \in 0 .. n + 1
  BY <1>1
<1>14. left2 \in [0 .. n + 1 -> Seq(FieldSpec)] /\ left2[n + 1] = todo /\ \A j \in 0 .. n : left2[j] = left[j]
  <2>1. left2[n + 1] = todo /\ \A j \in 0 .. n : left2[j] = left[j]
    BY <1>9, <1>12, <1>13
  <2>2. \A j \in 0 .. n + 1 : (IF j = n + 1 THEN todo ELSE left[j]) \in Seq(FieldSpec)
    BY <1>2, <1>11
  <2> QED BY <1>9, <2>1, <2>2
<1>15. start2 \in [0 .. n + 1 -> Nat] /\ start2[n + 1] = Len(more) /\ \A j \in 0 .. n : start2[j] = start[j]
  <2>1. start2[n + 1] = Len(more) /\ \A j \in 0 .. n : start2[j] = start[j]
    BY <1>10, <1>12, <1>13
  <2>2. \A j \in 0 .. n + 1 : (IF j = n + 1 THEN Len(more) ELSE start[j]) \in Nat
    BY <1>2, <1>8, <1>11
  <2> QED BY <1>10, <2>1, <2>2
<1>16. left2[0] = first /\ start2[0] = 0
  <2>1. 0 \in 0 .. n
    BY <1>1
  <2> QED BY <1>2, <1>14, <1>15, <2>1
<1>17. \A j \in 0 .. n + 1 : start2[j] <= Len(more)
  <2>1. ASSUME NEW j \in 0 .. n PROVE start2[j] <= Len(more)
    <3>1. start2[j] = start[j] /\ start[j] \in Nat /\ start[j] <= Len(whole)
      BY <1>2, <1>15
    <3> QED BY <1>8, <3>1
  <2>2. Len(more) <= Len(more)
    BY <1>8
  <2> QED BY <1>11, <1>15, <2>1, <2>2
<1>18. ASSUME NEW j \in 1 .. n
       PROVE  /\ left2[j - 1] # <<>> /\ Head(left2[j - 1]).type = fs2[j].type
              /\ left2[j] = Behind(left2[j - 1], fs2[j].value)
              /\ Readable(fs2[j])
              /\ start2[j] = start2[j - 1] + Len(FieldBytes(fs2[j]))
              /\ At(more, start2[j - 1], FieldBytes(fs2[j]))
  <2>1. j \in 0 .. n /\ j - 1 \in 0 .. n
    BY <1>1
  <2>2. /\ left2[j] = left[j] /\ left2[j - 1] = left[j - 1] /\ start2[j] = start[j]
        /\ start2[j - 1] = start[j - 1] /\ fs2[j] = fs[j]
    BY <1>1, <1>14, <1>15, <2>1
  <2>3. At(more, start[j - 1], FieldBytes(fs[j]))
    <3>1. PICK e \in Seq(Byte), o \in Nat : e = FieldBytes(fs[j]) /\ o = start[j - 1]
      <4>1. FieldBytes(fs[j]) \in Seq(Byte)
        BY <1>3 DEF Readable, FieldBytes
      <4> QED BY <1>2, <2>1, <4>1
    <3>2. o + Len(e) <= Len(whole) /\ \A i \in 1 .. Len(e) : whole[o + i] = e[i]
      BY <1>3, <3>1 DEF At
    <3>3. Len(e) \in Nat /\ o + Len(e) <= Len(more) /\ \A i \in 1 .. Len(e) : o + i \in 1 .. Len(whole)
      BY <1>8, <3>2
    <3>4. \A i \in 1 .. Len(e) : more[o + i] = e[i]
      BY <1>8, <3>2, <3>3
    <3> QED BY <3>1, <3>3, <3>4 DEF At
  <2> QED BY <1>3, <2>2, <2>3
<1>19. /\ left2[(n + 1) - 1] # <<>> /\ Head(left2[(n + 1) - 1]).type = fs2[n + 1].type
       /\ left2[n + 1] = Behind(left2[(n + 1) - 1], fs2[n + 1].value)
       /\ Readable(fs2[n + 1])
       /\ start2[n + 1] = start2[(n + 1) - 1] + Len(FieldBytes(fs2[n + 1]))
       /\ At(more, start2[(n + 1) - 1], FieldBytes(fs2[n + 1]))
  <2>1. (n + 1) - 1 = n /\ left2[n] = rest /\ start2[n] = Len(whole) /\ fs2[n + 1] = f
    BY <1>1, <1>2, <1>4, <1>14, <1>15
  <2>2. At(more, Len(whole), bytes)
    BY <1>8 DEF At
  <2> QED BY <1>5, <1>6, <1>8, <1>14, <1>15, <2>1, <2>2
<1>20. \A j \in 1 .. n + 1 : j \in 1 .. n \/ j = n + 1
  BY <1>1
<1>21. Written(first, fs2, todo, left2, start2, more)
  <2>1. Len(fs2) = n + 1
    BY <1>1
  <2>2. \A j \in 1 .. n + 1 :
          /\ left2[j - 1] # <<>> /\ Head(left2[j - 1]).type = fs2[j].type
          /\ left2[j] = Behind(left2[j - 1], fs2[j].value)
          /\ Readable(fs2[j])
          /\ start2[j] = start2[j - 1] + Len(FieldBytes(fs2[j]))
          /\ At(more, start2[j - 1], FieldBytes(fs2[j]))
    BY <1>18, <1>19, <1>20
  <2> QED BY <1>8, <1>14, <1>15, <1>16, <1>17, <2>1, <2>2 DEF Written
<1> QED BY <1>5, <1>6, <1>7, <1>21

LEMMA PayloadInitInv == PayloadInit => PayloadInv
<1> SUFFICES ASSUME PayloadInit PROVE PayloadInv
  OBVIOUS
<1>1. PICK lay \in Seq(FieldSpec) : lay = layout
  BY LayoutsAre DEF PayloadInit
<1>2. PICK left, start, none, whole :
        /\ left = [j \in 0 .. 0 |-> lay] /\ start = [j \in 0 .. 0 |-> 0]
        /\ none = {} /\ whole = <<>>
  OBVIOUS
<1>3. left \in [0 .. 0 -> Seq(FieldSpec)] /\ start \in [0 .. 0 -> Nat] /\ left[0] = lay /\ start[0] = 0
  BY <1>2
<1>4. whole \in Seq(Byte) /\ Len(whole) = 0 /\ <<>> \in Seq(none) /\ Len(<<>>) = 0
  BY <1>2
<1>5. Written(lay, <<>>, lay, left, start, whole)
  BY <1>3, <1>4 DEF Written
<1>6. Stands(none, none, left, start, whole)
  BY <1>1, <1>2, <1>4, <1>5 DEF PayloadInit, Stands, Untaken
<1> QED BY <1>6 DEF PayloadInv

LEMMA WriteInv ==
  ASSUME PayloadInv, NEW v, toWrite # <<>>, v \in FieldValues(Head(toWrite)), Write(v)
  PROVE  PayloadInv'
<1>1. PICK W, V, left, start, whole : Stands(W, V, left, start, whole)
  BY DEF PayloadInv
<1>2. PICK lay, fs, vs, rest :
        fs \in Seq(W) /\ vs \in Seq(V) /\ lay = layout /\ fs = fields /\ vs = values /\ rest = toWrite
  <2>1. fields \in Seq(W) /\ values \in Seq(V)
    BY <1>1 DEF Stands
  <2> QED BY <2>1
<1> fs \in Seq(W) /\ vs \in Seq(V)
  BY <1>2
<1>3. /\ Written(lay, fs, rest, left, start, whole)
      /\ written = Writing /\ buffer = whole /\ Untaken
  BY <1>1, <1>2 DEF Stands
<1>4. PICK f : f = [type |-> Head(rest).type, value |-> v,
                    special |-> Head(rest).entry = <<>> /\ Special(Head(rest).type, v)]
  OBVIOUS
<1>5. f.type = Head(rest).type /\ f.value = v
  BY <1>4
<1>6. fields' = Append(fs, f) /\ buffer' = whole \o FieldBytes(f) /\ toWrite' = Behind(rest, f.value)
  BY <1>2, <1>3, <1>4, <1>5 DEF Write, FieldBytes
<1>7. Head(rest) \in FieldSpec /\ rest # <<>>
  <2>1. Len(fs) \in 0 .. Len(fs) /\ rest = left[Len(fs)] /\ left \in [0 .. Len(fs) -> Seq(FieldSpec)]
    BY <1>3 DEF Written
  <2>2. rest \in Seq(FieldSpec) /\ rest # <<>>
    BY <1>2, <2>1
  <2> QED BY <2>2
<1>8. IF Head(rest).entry # <<>> THEN v \in 0 .. MaxEntries ELSE v \in Values(f.type)
  BY <1>2, <1>5 DEF FieldValues
<1>9. f.type \in FieldType /\ Writable(f.type, f.value)
  BY <1>5, <1>7, <1>8 DEF FieldSpec, Writable
<1>10. Head(rest).entry # <<>> => f.value \in Nat
  BY <1>5, <1>8, PayloadBounds
<1>11. Readable(f)
  BY <1>9, WritableReadable
<1>12. PICK fs2 : fs2 = Append(fs, f)
  OBVIOUS
<1>13. PICK left2, start2 :
         Written(lay, fs2, Behind(rest, f.value), left2, start2, whole \o FieldBytes(f))
  BY <1>3, <1>5, <1>7, <1>10, <1>11, <1>12, WrittenGrows
<1>14. PICK W2 : W2 = W \cup {f}
  OBVIOUS
<1>15. fs2 \in Seq(W2)
  <2>1. fs \in Seq(W2) /\ f \in W2
    BY <1>14
  <2> QED BY <1>12, <2>1
<1>16. PICK more : more = whole \o FieldBytes(f)
  OBVIOUS
<1>17. layout' = lay /\ values' = vs /\ written' = Writing
  BY <1>2, <1>3 DEF Write, readerState
<1>18. Untaken'
  BY <1>2, <1>3, <1>17 DEF Untaken, Write, readerState
<1>19. /\ fields' \in Seq(W2) /\ values' \in Seq(V) /\ buffer' = more
       /\ Written(layout', fields', toWrite', left2, start2, more)
  BY <1>6, <1>12, <1>13, <1>15, <1>16, <1>17
<1>20. Stands(W2, V, left2, start2, more)'
  BY <1>17, <1>18, <1>19 DEF Stands
<1> QED BY <1>20 DEF PayloadInv

LEMMA DeliverInv ==
  ASSUME PayloadInv, NEW n \in 0 .. Len(buffer), Deliver(n)
  PROVE  PayloadInv'
<1>1. PICK W, V, left, start, whole : Stands(W, V, left, start, whole)
  BY DEF PayloadInv
<1>2. PICK lay, fs, vs, rest :
        fs \in Seq(W) /\ vs \in Seq(V) /\ lay = layout /\ fs = fields /\ vs = values /\ rest = toWrite
  <2>1. fields \in Seq(W) /\ values \in Seq(V)
    BY <1>1 DEF Stands
  <2> QED BY <2>1
<1> fs \in Seq(W) /\ vs \in Seq(V)
  BY <1>2
<1>3. /\ Written(lay, fs, rest, left, start, whole)
      /\ written = Writing /\ rest = <<>>
  BY <1>1, <1>2 DEF Stands, Deliver
<1>4. whole \in Seq(Byte) /\ start[0] = 0 /\ left[0] = lay
  BY <1>3 DEF Written
<1>5. buffer = whole /\ Untaken
  <2>1. Len(whole) # Writing
    BY <1>4 DEF Writing
  <2> QED BY <1>1, <1>3, <2>1 DEF Stands
<1>6. /\ layout' = lay /\ fields' = fs /\ values' = vs /\ toWrite' = <<>> /\ written' = Len(whole)
      /\ buffer' = SubSeq(whole, 1, n) /\ n \in 0 .. Len(whole)
      /\ vs = <<>> /\ consumed' = 0 /\ threw' = FALSE /\ toRead' = lay
  BY <1>2, <1>3, <1>5 DEF Deliver, Untaken, readerState
<1>7. Len(values') = 0 /\ Len(buffer') = n /\ Len(fields') \in Nat
  BY <1>4, <1>6, PrefixIs
<1>8. Taken(left, start)'
  <2>1. Len(values') <= Len(fields') /\ consumed' <= Len(buffer') /\ ~ threw' /\ threw' \in BOOLEAN
    <3>1. n \in Nat
      BY <1>4, <1>6
    <3>2. threw' = FALSE
      BY <1>6
    <3>3. Len(values') <= Len(fields')
      BY <1>7
    <3>4. consumed' <= Len(buffer')
      BY <1>6, <1>7, <3>1
    <3> QED BY <3>2, <3>3, <3>4
  <2>2. toRead' = left[Len(values')] /\ consumed' = start[Len(values')]
    BY <1>4, <1>6, <1>7
  <2>3. \A k \in 1 .. Len(values') : FALSE
    BY <1>7
  <2> QED BY <2>1, <2>2, <2>3 DEF Taken
<1>9. Stands(W, V, left, start, whole)'
  BY <1>2, <1>3, <1>6, <1>8 DEF Stands
<1> QED BY <1>9 DEF PayloadInv

\* The next read, of a packet whose fields so far were read.
LEMMA NextIs ==
  ASSUME NEW W, NEW V, NEW left, NEW start, NEW whole, Stands(W, V, left, start, whole), Reading
  PROVE  LET j == Len(values)
             f == fields[j + 1]
         IN  /\ j \in Nat /\ j + 1 <= Len(fields) /\ j + 1 \in 1 .. Len(fields)
             /\ left[j + 1] = Behind(toRead, f.value) /\ toRead = left[j] /\ toRead \in Seq(FieldSpec)
             /\ Head(toRead).type = f.type /\ start[j + 1] \in Nat
             /\ NextField.threw <=> (Len(buffer) < start[j + 1] \/ Refused(f))
             /\ ~ NextField.threw =>
                  /\ NextField.next = start[j + 1] /\ start[j + 1] <= Len(buffer)
                  /\ Same(f, NextField.value)
<1>1. /\ fields \in Seq(W) /\ values \in Seq(V)
      /\ Written(layout, fields, toWrite, left, start, whole)
      /\ written = Len(whole) /\ toWrite = <<>> /\ Taken(left, start)
  BY DEF Stands, Reading
<1>2. PICK m \in 0 .. Len(whole) : buffer = SubSeq(whole, 1, m)
  BY DEF Stands, Reading
<1>3. PICK j, n, todo, b :
        /\ j \in Nat /\ n \in Nat
        /\ j = Len(values) /\ n = Len(fields) /\ todo = toRead /\ b = buffer
  <2>1. Len(values) \in Nat /\ Len(fields) \in Nat
    BY <1>1
  <2> QED BY <2>1
<1> j \in Nat /\ n \in Nat
  BY <1>3
<1>4. /\ left \in [0 .. n -> Seq(FieldSpec)] /\ start \in [0 .. n -> Nat] /\ whole \in Seq(Byte)
      /\ left[n] = <<>>
  BY <1>1, <1>3 DEF Written
<1>5. /\ j <= n /\ todo = left[j] /\ todo # <<>> /\ consumed = start[j] /\ consumed <= Len(b)
  BY <1>1, <1>3 DEF Taken, Reading
<1>6. j + 1 \in 1 .. n /\ j \in 0 .. n /\ j + 1 \in 0 .. n /\ (j + 1) - 1 = j
  <2>1. j # n
    BY <1>4, <1>5
  <2> QED BY <1>5, <2>1
<1>7. PICK f, o : o \in Nat /\ f = fields[j + 1] /\ o = start[j]
  BY <1>4, <1>6
<1> o \in Nat
  BY <1>7
<1>8. /\ Head(todo).type = f.type /\ left[j + 1] = Behind(todo, f.value) /\ Readable(f)
      /\ start[j + 1] = o + Len(FieldBytes(f)) /\ At(whole, o, FieldBytes(f))
  <2>1. /\ Head(left[(j + 1) - 1]).type = fields[j + 1].type
        /\ left[j + 1] = Behind(left[(j + 1) - 1], fields[j + 1].value) /\ Readable(fields[j + 1])
        /\ start[j + 1] = start[(j + 1) - 1] + Len(FieldBytes(fields[j + 1]))
        /\ At(whole, start[(j + 1) - 1], FieldBytes(fields[j + 1]))
    BY <1>1, <1>3, <1>6 DEF Written
  <2> QED BY <1>5, <1>6, <1>7, <2>1
<1>9. PICK bytes \in Seq(Byte) : bytes = FieldBytes(f)
  BY <1>8 DEF Readable, FieldBytes
<1>10. PICK x : /\ ~ Refused(f) => Same(f, x)
                /\ \A c \in Seq(Byte), p \in Nat : At(c, p, bytes) =>
                     DecodedField(f.type, c, p) = IF Refused(f) THEN Throws ELSE Gives(x, p + Len(bytes))
  BY <1>8, <1>9 DEF Readable, FieldBytes
<1>11. \A c \in Seq(Byte), p \in Nat : Cut(c, p, bytes) => DecodedField(f.type, c, p) = Throws
  BY <1>8, <1>9 DEF Readable, FieldBytes
<1>12. b \in Seq(Byte) /\ Len(b) = m /\ o \in 0 .. m
  <2>1. b \in Seq(Byte) /\ Len(b) = m
    BY <1>2, <1>3, <1>4, PrefixIs
  <2> QED BY <1>5, <1>7, <2>1
<1>13. IF o + Len(bytes) <= m THEN At(b, o, bytes) ELSE Cut(b, o, bytes)
  BY <1>2, <1>3, <1>4, <1>8, <1>9, <1>12, PrefixIs
<1>14. PICK r : r = NextField
  OBVIOUS
<1>15. r = DecodedField(f.type, b, o)
  BY <1>3, <1>5, <1>7, <1>8, <1>14 DEF NextField
<1>16. PICK e \in Nat : e = o + Len(bytes)
  BY <1>9
<1>17. CASE e <= m /\ ~ Refused(f)
  <2>1. r = Gives(x, e)
    BY <1>10, <1>12, <1>13, <1>15, <1>16, <1>17
  <2>2. r.threw = FALSE /\ r.value = x /\ r.next = e
    BY <2>1, GivesIs
  <2>3. ~ (m < e)
    BY <1>17
  <2> QED BY <1>3, <1>5, <1>6, <1>7, <1>8, <1>9, <1>10, <1>12, <1>14, <1>16, <1>17, <1>4, <2>2, <2>3
<1>18. CASE e <= m /\ Refused(f)
  <2>1. r = Throws
    BY <1>10, <1>12, <1>13, <1>15, <1>16, <1>18
  <2>2. r.threw
    BY <2>1, GivesIs
  <2> QED BY <1>3, <1>5, <1>6, <1>7, <1>8, <1>9, <1>14, <1>16, <1>18, <1>4, <2>2
<1>19. CASE ~ (e <= m)
  <2>1. r = Throws
    BY <1>11, <1>12, <1>13, <1>15, <1>16, <1>19
  <2>2. r.threw /\ m < e
    BY <1>19, <2>1, GivesIs
  <2> QED BY <1>3, <1>5, <1>6, <1>7, <1>8, <1>9, <1>12, <1>14, <1>16, <1>4, <2>2
<1> QED BY <1>17, <1>18, <1>19

LEMMA ReadFieldInv ==
  ASSUME PayloadInv, ReadField
  PROVE  PayloadInv'
<1>1. PICK W, V, left, start, whole : Stands(W, V, left, start, whole)
  BY DEF PayloadInv
<1>2. PICK j, f, x, vs, fs, todo, b :
        /\ vs \in Seq(V) /\ fs \in Seq(W)
        /\ j = Len(values) /\ f = fields[j + 1] /\ x = NextField.value /\ vs = values /\ fs = fields
        /\ todo = toRead /\ b = buffer
  <2>1. fields \in Seq(W) /\ values \in Seq(V)
    BY <1>1 DEF Stands
  <2> QED BY <2>1
<1> vs \in Seq(V) /\ fs \in Seq(W)
  BY <1>2
<1>3. /\ j \in Nat /\ j + 1 <= Len(fs) /\ left[j + 1] = Behind(todo, f.value)
      /\ todo = left[j] /\ todo \in Seq(FieldSpec) /\ Head(todo).type = f.type
      /\ ~ (Len(b) < start[j + 1] \/ Refused(f))
      /\ NextField.next = start[j + 1] /\ start[j + 1] <= Len(b) /\ Same(f, x)
  BY <1>1, <1>2, NextIs DEF ReadField
<1>4. /\ Written(layout, fs, toWrite, left, start, whole)
      /\ written = Len(whole) /\ toWrite = <<>> /\ Taken(left, start)
      /\ \E m \in 0 .. Len(whole) : b = SubSeq(whole, 1, m)
  BY <1>1, <1>2 DEF Stands, ReadField, Reading
<1>5. Behind(todo, x) = Behind(todo, f.value)
  <2>1. CASE Head(todo).entry = <<>>
    BY <2>1 DEF Behind
  <2>2. CASE Head(todo).entry # <<>>
    <3>1. todo # <<>>
      BY <1>2 DEF ReadField, Reading
    <3>2. Head(todo) \in FieldSpec
      BY <1>3, <3>1
    <3>3. f.type \in CountType
      BY <1>3, <2>2, <3>2 DEF FieldSpec
    <3>4. x = f.value
      BY <1>3, <3>3, SameIs DEF CountType
    <3> QED BY <3>4
  <2> QED BY <2>1, <2>2
<1>6. /\ layout' = layout /\ fields' = fs /\ toWrite' = toWrite /\ written' = written /\ buffer' = b
      /\ values' = Append(vs, x) /\ consumed' = start[j + 1] /\ toRead' = left[j + 1] /\ threw' = FALSE
  <2>1. threw = FALSE
    BY <1>4 DEF ReadField, Reading, Taken
  <2> QED BY <1>2, <1>3, <1>5, <2>1 DEF ReadField, writerVars
<1>7. PICK V2, vs2 : V2 = V \cup {x} /\ vs2 = Append(vs, x)
  OBVIOUS
<1>8. vs2 \in Seq(V2) /\ Len(vs2) = j + 1 /\ vs2[j + 1] = x /\ \A k \in 1 .. j : vs2[k] = vs[k]
  <2>1. vs \in Seq(V2) /\ x \in V2
    BY <1>7
  <2> QED BY <1>2, <1>7, <2>1
<1>9. \A k \in 1 .. j + 1 : Same(fs[k], vs2[k]) /\ ~ Refused(fs[k])
  <2>1. \A k \in 1 .. j : Same(fs[k], vs[k]) /\ ~ Refused(fs[k])
    BY <1>2, <1>4 DEF Taken
  <2>2. \A k \in 1 .. j + 1 : k \in 1 .. j \/ k = j + 1
    BY <1>3
  <2> QED BY <1>2, <1>3, <1>8, <2>1, <2>2
<1>10. Taken(left, start)'
  BY <1>3, <1>6, <1>7, <1>8, <1>9 DEF Taken
<1>11. Stands(W, V2, left, start, whole)'
  BY <1>2, <1>4, <1>6, <1>7, <1>8, <1>10 DEF Stands
<1> QED BY <1>11 DEF PayloadInv

LEMMA ReadThrowsInv ==
  ASSUME PayloadInv, ReadThrows
  PROVE  PayloadInv'
<1>1. PICK W, V, left, start, whole : Stands(W, V, left, start, whole)
  BY DEF PayloadInv
<1>2. /\ Len(values) + 1 <= Len(fields) /\ Len(values) \in Nat /\ Len(fields) \in Nat
      /\ Len(buffer) < start[Len(values) + 1] \/ Refused(fields[Len(values) + 1])
  <2>1. Len(fields) \in Nat
    BY <1>1 DEF Stands
  <2> QED BY <1>1, <2>1, NextIs DEF ReadThrows
<1>3. /\ fields \in Seq(W) /\ values \in Seq(V)
      /\ Written(layout, fields, toWrite, left, start, whole)
      /\ written = Len(whole) /\ toWrite = <<>> /\ Taken(left, start)
      /\ \E m \in 0 .. Len(whole) : buffer = SubSeq(whole, 1, m)
  BY <1>1 DEF Stands, ReadThrows, Reading
<1>4. /\ layout' = layout /\ fields' = fields /\ toWrite' = toWrite /\ written' = written
      /\ buffer' = buffer /\ values' = values /\ consumed' = consumed /\ toRead' = toRead /\ threw' = TRUE
  BY DEF ReadThrows, writerVars
<1>5. Len(values) < Len(fields)
  BY <1>2
<1>6. Taken(left, start)'
  BY <1>2, <1>3, <1>4, <1>5 DEF Taken
<1>7. Stands(W, V, left, start, whole)'
  BY <1>3, <1>4, <1>6 DEF Stands
<1> QED BY <1>7 DEF PayloadInv

LEMMA PayloadNextInv == PayloadInv /\ [PayloadNext]_payloadVars => PayloadInv'
<1> SUFFICES ASSUME PayloadInv, [PayloadNext]_payloadVars PROVE PayloadInv'
  OBVIOUS
<1>1. CASE toWrite # <<>> /\ \E v \in FieldValues(Head(toWrite)) : Write(v)
  BY <1>1, WriteInv
<1>2. CASE \E n \in 0 .. Len(buffer) : Deliver(n)
  BY <1>2, DeliverInv
<1>3. CASE ReadField
  BY <1>3, ReadFieldInv
<1>4. CASE ReadThrows
  BY <1>4, ReadThrowsInv
<1>5. CASE UNCHANGED payloadVars
  BY <1>5 DEF PayloadInv, Stands, Untaken, Taken, payloadVars, writerVars, readerState
<1> QED BY <1>1, <1>2, <1>3, <1>4, <1>5 DEF PayloadNext

LEMMA PayloadInvSuffices == PayloadInv => ReadBack /\ ThrowsExactlyWhenCut
<1> SUFFICES ASSUME PayloadInv PROVE ReadBack /\ ThrowsExactlyWhenCut
  OBVIOUS
<1>1. PICK W, V, left, start, whole : Stands(W, V, left, start, whole)
  BY DEF PayloadInv
<1>2. fields \in Seq(W) /\ values \in Seq(V) /\ Written(layout, fields, toWrite, left, start, whole)
  BY <1>1 DEF Stands
<1>3. PICK j \in Nat, n \in Nat : j = Len(values) /\ n = Len(fields) /\ DOMAIN values = 1 .. j /\ DOMAIN fields = 1 .. n
  BY <1>2
<1>4. CASE written = Writing /\ Untaken
  <2>1. j = 0 /\ ~ Decided
    BY <1>3, <1>4 DEF Untaken, Decided
  <2> QED BY <1>3, <2>1 DEF ReadBack, ThrowsExactlyWhenCut
<1>5. ASSUME written = Len(whole), toWrite = <<>>, Taken(left, start),
             NEW m \in 0 .. Len(whole), buffer = SubSeq(whole, 1, m)
      PROVE  ReadBack /\ ThrowsExactlyWhenCut
  <2>1. /\ start \in [0 .. n -> Nat] /\ whole \in Seq(Byte) /\ start[n] = Len(whole)
        /\ \A k \in 0 .. n : start[k] <= Len(whole)
        /\ \A k \in 1 .. n : left[k - 1] # <<>>
    BY <1>2, <1>3 DEF Written
  <2>2. Len(buffer) = m /\ Len(whole) \in Nat
    BY <1>5, <2>1, PrefixIs
  <2>3. /\ j <= n /\ toRead = left[j] /\ consumed = start[j] /\ consumed <= m
        /\ \A k \in 1 .. j : Same(fields[k], values[k]) /\ ~ Refused(fields[k])
        /\ threw \in BOOLEAN
        /\ threw => j < n /\ (m < start[j + 1] \/ Refused(fields[j + 1]))
    BY <1>3, <1>5, <2>2 DEF Taken
  <2>4. toRead = <<>> => j = n
    <3>1. j < n => j + 1 \in 1 .. n /\ (j + 1) - 1 = j
      OBVIOUS
    <3>2. j < n => left[j] # <<>>
      BY <2>1, <3>1
    <3> QED BY <2>3, <3>2
  <2>5. Decided /\ ~ threw => j = n
    BY <2>4 DEF Decided
  <2>6. ReadBack
    BY <1>3, <2>3, <2>5 DEF ReadBack
  <2>7. threw => m < Len(whole) \/ \E k \in 1 .. n : Refused(fields[k])
    <3>1. threw => j + 1 \in 1 .. n /\ j + 1 \in 0 .. n
      BY <2>3
    <3>2. ASSUME threw, m < start[j + 1] PROVE m < Len(whole)
      <4>1. start[j + 1] \in Nat /\ start[j + 1] <= Len(whole)
        BY <2>1, <3>1, <3>2
      <4> QED BY <2>2, <3>2, <4>1
    <3> QED BY <2>3, <3>1, <3>2
  <2>8. Decided /\ ~ threw => m = Len(whole) /\ consumed = Len(whole) /\ \A k \in 1 .. n : ~ Refused(fields[k])
    BY <2>1, <2>2, <2>3, <2>5
  <2>9. Decided => (threw <=> (m < Len(whole) \/ \E k \in 1 .. n : Refused(fields[k])))
    <3>1. Decided /\ ~ threw => ~ (m < Len(whole))
      BY <2>2, <2>8
    <3> QED BY <2>7, <2>8, <3>1
  <2> QED BY <1>3, <1>5, <2>2, <2>6, <2>8, <2>9 DEF ThrowsExactlyWhenCut, Refused
<1> QED BY <1>1, <1>4, <1>5 DEF Stands

\* Each field of every packet comes back as encodePayload wrote it and at its
\* place, but for the exceptions Same names.
THEOREM PayloadsReadBack == PayloadSpec => []ReadBack
<1>1. PayloadInv => ReadBack
  BY PayloadInvSuffices
<1> QED BY <1>1, PayloadInitInv, PayloadNextInv, PTL DEF PayloadSpec

\* decodePayload throws whenever bytes are missing, wherever they are cut off, and
\* on a whole packet only at the version of a pack a chunk is asked of.
THEOREM PayloadsThrowExactlyWhenCut == PayloadSpec => []ThrowsExactlyWhenCut
<1>1. PayloadInv => ThrowsExactlyWhenCut
  BY PayloadInvSuffices
<1> QED BY <1>1, PayloadInitInv, PayloadNextInv, PTL DEF PayloadSpec
=============================================================================
