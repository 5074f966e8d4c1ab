--------------------------- MODULE MCPacketFraming ---------------------------
(* Values of the run of PacketFraming: ids and lengths on both sides of one *)
(* group (3 bits), one id without an entry in the factory.                  *)
EXTENDS PacketFraming

MCText == {<<>>, <<15, 8>>}
MCExtra == {<<>>, [i \in 1 .. 7 |-> 9]}
==============================================================================
