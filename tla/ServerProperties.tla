-------------------------- MODULE ServerProperties --------------------------
(***************************************************************************)
(* The file server.properties over many starts of the server:              *)
(* ServerProperties::load reads it, or creates it with the defaults when   *)
(* it is missing (src/util/server_properties.cpp), main hands the result   *)
(* to the Server (server/main.cpp).  The process may die at any time, an   *)
(* administrator may edit, remove, lock or unlock the file.                *)
(*                                                                         *)
(* A line is a key and a value.  A value is its text and the number        *)
(* std::stoi or std::stoul reads at its start, a set with at most one      *)
(* element.  Comments, lines without '=' and unknown keys are lines with   *)
(* the key "other".  The text written by one start reaches the file in one *)
(* write, when the stream is closed.                                       *)
(***************************************************************************)
EXTENDS Integers, Sequences

CONSTANTS
  Edits,      \* the lines an administrator may add
  MaxEdits,   \* bound on the lines of a file that the server did not write
  PortSpan,   \* 2^16, the values of a uint16_t
  IntSpan,    \* 2^31: std::stoi throws outside -IntSpan .. IntSpan - 1
  CountSpan,  \* 2^32, the values of a uint32_t
  LongSpan    \* 2^64: std::stoul throws from LongSpan on

ASSUME SpanAssumption ==
  /\ {PortSpan, IntSpan, CountSpan, LongSpan} \subseteq Nat
  /\ 19133 < PortSpan                     \* the defaults fit
  /\ PortSpan <= IntSpan /\ IntSpan <= CountSpan /\ CountSpan <= LongSpan
  /\ LongSpan % CountSpan = 0

VARIABLES
  exists,     \* there is a file
  openable,   \* the process may open it, or create it
  lines,      \* its lines
  pc,         \* "down", "creating", "writing" or "up"
  settings,   \* {what the last load returned}, {} when it threw
  untouched   \* history: nobody but the server changed the file since

file == <<exists, openable, lines>>
vars == <<file, pc, settings, untouched>>

PortKeys == {"server-port", "server-portv6"}
TextKeys == {"server-name", "motd"}
Keys == PortKeys \cup TextKeys \cup {"max-players", "gamemode", "force-resources"}

-----------------------------------------------------------------------------
(* GameMode.hpp *)

GameModes ==
  {"SURVIVAL", "CREATIVE", "ADVENTURE", "SURVIVAL_VIEWER", "CREATIVE_VIEWER", "DEFAULT"}

toGameModeString(mode) ==
  CASE mode = "SURVIVAL" -> "Survival"
    [] mode = "CREATIVE" -> "Creative"
    [] mode = "ADVENTURE" -> "Adventure"
    [] mode = "SURVIVAL_VIEWER" -> "Survival Viewer"
    [] mode = "CREATIVE_VIEWER" -> "Creative Viewer"
    [] mode = "DEFAULT" -> "Default"

\* Two texts that differ in case only: those the program writes and the
\* lower-case ones it compares with, and S for s.
CaseClasses ==
  {{"Survival", "survival"}, {"Creative", "creative"}, {"Adventure", "adventure"},
   {"Survival Viewer", "survival viewer"}, {"Creative Viewer", "creative viewer"},
   {"Default", "default"}, {"S", "s"}}

\* (Bug... definitions are deliberate faults that show the properties can fail.)
BugSameCase(a, b) == a = b
iequals(a, b) == a = b \/ \E class \in CaseClasses : {a, b} \subseteq class

Spellings ==
  [SURVIVAL        |-> {"survival", "s"},
   CREATIVE        |-> {"creative", "c"},
   ADVENTURE       |-> {"adventure", "a"},
   SURVIVAL_VIEWER |-> {"survival_viewer", "survival viewer", "spectator", "spec"},
   CREATIVE_VIEWER |-> {"creative_viewer", "creative viewer"}]

parseGameMode(text) ==
  LET named == {mode \in DOMAIN Spellings : \E s \in Spellings[mode] : iequals(text, s)}
  IN  IF named = {} THEN "DEFAULT" ELSE CHOOSE mode \in named : TRUE

-----------------------------------------------------------------------------
(* server_properties.cpp *)

Default(key) ==
  CASE key = "server-port" -> 19132
    [] key = "server-portv6" -> 19133
    [] key = "max-players" -> 100
    [] key = "server-name" -> "CyrexMC"
    [] key = "motd" -> "Cyrex MCBE Software"
    [] key = "gamemode" -> "SURVIVAL"
    [] key = "force-resources" -> FALSE
defaults == [key \in Keys |-> Default(key)]

Value(text, digits) == [text |-> text, digits |-> digits]
Line(key, value) == [key |-> key, value |-> value]

\* A line per setting in this order; a bool is written as 0 or 1 (the text of
\* the other numbers is of no account).
WrittenLines(cfg) ==
  <<Line("server-port", Value("", {cfg["server-port"]})),
    Line("server-portv6", Value("", {cfg["server-portv6"]})),
    Line("max-players", Value("", {cfg["max-players"]})),
    Line("server-name", Value(cfg["server-name"], {})),
    Line("motd", Value(cfg["motd"], {})),
    Line("gamemode", Value(toGameModeString(cfg["gamemode"]), {})),
    Line("force-resources",
         IF cfg["force-resources"] THEN Value("1", {1}) ELSE Value("0", {0}))>>

\* std::stoi and std::stoul throw: no number, or one out of range.
Throws(line) ==
  \/ line.key \in PortKeys /\ line.value.digits \cap (-IntSpan .. IntSpan - 1) = {}
  \/ line.key = "max-players" /\ line.value.digits \cap (1 - LongSpan .. LongSpan - 1) = {}

Number(value) == CHOOSE n \in value.digits : TRUE

\* What a line assigns to the setting its key names: a number is cut to the
\* width of its setting, a negative one wraps.
Assigned(line) ==
  LET key == line.key
  IN  CASE key \in PortKeys -> Number(line.value) % PortSpan
        [] key = "max-players" -> Number(line.value) % CountSpan
        [] key \in TextKeys -> line.value.text
        [] key = "gamemode" -> parseGameMode(line.value.text)
        [] key = "force-resources" -> line.value.text \in {"1", "true", "yes"}

\* The lines are read one after the other: of two with the same key the last
\* one wins, and a setting no line names keeps its default.
Naming(read, key) == {i \in DOMAIN read : read[i].key = key}
Greatest(S) == CHOOSE i \in S : \A j \in S : j <= i
Loaded(read) ==
  [k \in Keys |-> IF Naming(read, k) = {} THEN defaults[k]
                  ELSE Assigned(read[Greatest(Naming(read, k))])]

LoadedSettings == IF openable THEN Loaded(lines) ELSE defaults

-----------------------------------------------------------------------------
Init ==
  /\ exists = FALSE /\ openable \in BOOLEAN /\ lines = <<>>
  /\ pc = "down" /\ settings = {} /\ untouched = FALSE

LoadExisting ==
  /\ pc = "down" /\ exists
  /\ openable => \A i \in DOMAIN lines : ~Throws(lines[i])
  /\ settings' = {LoadedSettings}
  /\ untouched' = TRUE /\ pc' = "up"
  /\ UNCHANGED file

\* main catches nothing: the process ends.
FailLoad ==
  /\ pc = "down" /\ exists /\ openable
  /\ \E i \in DOMAIN lines : Throws(lines[i])
  /\ settings' = {}
  /\ untouched' = TRUE
  /\ UNCHANGED <<file, pc>>

\* std::filesystem::exists answers no.
FindNothing ==
  /\ pc = "down" /\ ~exists
  /\ pc' = "creating"
  /\ UNCHANGED <<file, settings, untouched>>

\* std::ios::trunc, whatever there is by now.
OpenForWriting ==
  /\ pc = "creating" /\ openable
  /\ exists' = TRUE /\ lines' = <<>>
  /\ settings' = {defaults} /\ untouched' = TRUE /\ pc' = "writing"
  /\ UNCHANGED openable

WriteNothing ==
  /\ pc = "creating" /\ ~openable
  /\ settings' = {defaults} /\ untouched' = TRUE /\ pc' = "up"
  /\ UNCHANGED file

CloseWritten ==
  /\ pc = "writing"
  /\ lines' = IF exists THEN WrittenLines(defaults) ELSE <<>>
  /\ pc' = "up"
  /\ UNCHANGED <<exists, openable, settings, untouched>>

\* The process stops or is killed; text that was not written is lost.
End ==
  /\ pc # "down"
  /\ pc' = "down"
  /\ UNCHANGED <<file, settings, untouched>>

-----------------------------------------------------------------------------
(* The administrator; nobody edits the file in the moment it is written *)

AddLine(line) ==
  /\ pc # "writing" /\ Len(SelectSeq(lines, LAMBDA l : l \in Edits)) < MaxEdits
  /\ exists' = TRUE /\ lines' = Append(lines, line)
  /\ untouched' = FALSE
  /\ UNCHANGED <<openable, pc, settings>>

RemoveFile ==
  /\ exists
  /\ exists' = FALSE /\ lines' = <<>>
  /\ untouched' = FALSE
  /\ UNCHANGED <<openable, pc, settings>>

ChangeAccess ==
  /\ openable' = ~openable
  /\ untouched' = FALSE
  /\ UNCHANGED <<exists, lines, pc, settings>>

Next ==
  \/ LoadExisting \/ FailLoad \/ FindNothing
  \/ OpenForWriting \/ WriteNothing \/ CloseWritten \/ End
  \/ \E line \in Edits : AddLine(line)
  \/ RemoveFile \/ ChangeAccess

Spec == Init /\ [][Next]_vars

-----------------------------------------------------------------------------
(* Property *)

\* A restart with a file nobody touched since the last start gives the same
\* settings, or fails the same way: what writeDefaults writes, load reads back;
\* a process that died with the file created and still empty, or that could
\* not create it, is no exception.
SettingsSurviveRestart == [][untouched => settings' = settings]_vars
=============================================================================
