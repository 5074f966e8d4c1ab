-------------------------- MODULE MCServerProcess --------------------------
(* Model values of the runs of ServerProcess: every start of the first run *)
(* finds a number that was not given out before.                           *)
EXTENDS ServerProcess

MCStarts == 4
MCPid == 1..MCStarts
=============================================================================
