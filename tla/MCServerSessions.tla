-------------------------- MODULE MCServerSessions --------------------------
(* Values of the constants of ServerSessions for TLC.                       *)
EXTENDS ServerSessions, TLC

\* One chunk; half of it is left when the archive shrinks.
MCInitialSize == [p \in Pack |-> 2]

\* The table and the files treat all connections alike.
Alike == Permutations(Connection)
=============================================================================
