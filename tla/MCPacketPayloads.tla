--------------------------- MODULE MCPacketPayloads ---------------------------
(* Values of the run of PacketPayloads, with bytes of 4 bits, words of 4 and *)
(* longs of 7 bytes: a group has 3 bits, a word 6 groups and a long 10, the  *)
(* last of them with a single bit as in a uint64_t.                          *)
EXTENDS PacketPayloads

EveryPacket == DOMAIN Layout

\* Both sides of the powers of the byte and of the group, and of the widths.
MCNumbers ==
  {0, 1, 7, 8, 127, 128, 255, 256, 511, 512, 32767, 32768, 65535, 65536,
   2 ^ 27 - 1, 2 ^ 27, 2 ^ 28 - 1, -1, -2, -128, -32768, -(2 ^ 27)}

\* Nine bytes need a length of two groups; 9 is the underscore.
MCStrings == {<<>>, <<9, 15>>, [i \in 1 .. 9 |-> i]}
MCIds == {<<0, 0, 0, 0>>, <<1, 15, 8, 3>>}
===============================================================================
