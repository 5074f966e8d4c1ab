--------------------------- MODULE ConsoleCommands ---------------------------
(***************************************************************************)
(* What a line typed at the console does: CommandManager::executeConsole   *)
(* with the table CommandRegistry builds of the commands and their aliases *)
(* (src/command).  Of a line only the first word is kept; no command looks *)
(* at the others.                                                          *)
(***************************************************************************)
EXTENDS Naturals, Sequences

\* CommandManager::registerDefaults, in order
Registered == <<"stop", "performance", "serverinfo">>

aliases(name) ==
  CASE name = "stop" -> {"shutdown", "exit"}
    [] name = "performance" -> {}
    [] name = "serverinfo" -> {"info", "sinfo"}

\* enum class PermissionLevel
Level == [PLAYER |-> 0, OP |-> 1, CONSOLE |-> 2]

permission(name) == IF name = "stop" THEN Level.CONSOLE ELSE Level.OP

\* (Bug... definitions are deliberate faults that show the properties can fail.)
BugNoAliases(k) == {Registered[k]}
Names(k) == {Registered[k]} \cup aliases(Registered[k])

\* m_lookup: of two commands with a name in common the later one has it.
Lookup(word) ==
  {k \in DOMAIN Registered :
     word \in Names(k) /\ \A j \in k + 1 .. Len(Registered) : word \notin Names(j)}

hasPermission(source, required) == source >= required

\* The command executeConsole runs: at most one, none for an empty line.
Executed(word) ==
  {Registered[k] : k \in {k \in Lookup(word) :
                            hasPermission(Level.CONSOLE, permission(Registered[k]))}}

\* StopCommand::execute calls Server::stop; the other commands only print.
StopsServer(word) == "stop" \in Executed(word)
=============================================================================
