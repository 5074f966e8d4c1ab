---------------------- MODULE MCResourcePackTransfer ----------------------
(* Values of the constants of ResourcePackTransfer for TLC. *)
EXTENDS ResourcePackTransfer

CONSTANTS a, b

\* With chunks of 2 bytes: a has a full chunk and a half one, b exactly one.
MCInitialSize == [p \in Pack |-> IF p = a THEN 3 ELSE 2]
=============================================================================
