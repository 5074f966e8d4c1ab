------------------------ MODULE MCRaknetConnections ------------------------
(* RaknetConnections for TLC: the clients are model values.                 *)
EXTENDS RaknetConnections
=============================================================================
