------------------------ MODULE MCServerProperties ------------------------
(* Model values of the runs of ServerProperties.                           *)
EXTENDS ServerProperties

\* The widths 2^16, 2^31, 2^32 and 2^64 scaled to what TLC can count.
Port == 32768
Integer == 65536
Count == 131072
Long == 262144

\* A port that wraps, one out of range, a negative number of players, modes by
\* a short and by an unknown name, a text that is no number, a comment.
SomeEdits ==
  {Line("server-port", Value("40000", {40000})),
   Line("server-port", Value("70000", {70000})),
   Line("max-players", Value("-1", {-1})),
   Line("max-players", Value("many", {})),
   Line("gamemode", Value("S", {})),
   Line("gamemode", Value("hardcore", {})),
   Line("force-resources", Value("yes", {})),
   Line("other", Value("# comment", {}))}
=============================================================================
