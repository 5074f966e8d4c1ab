-------------------------- MODULE MCNetworkSession --------------------------
(* NetworkSession for TLC: versions below, at and above the current one, and  *)
(* the zero that fills acceptedProtocols.                                     *)
EXTENDS NetworkSession

MCVersion == {0, currentProtocol - 1, currentProtocol, currentProtocol + 1}
MCFewVersions == {currentProtocol - 1, currentProtocol}
=============================================================================
