--------------------------- MODULE ServerProcess ---------------------------
(***************************************************************************)
(* The life of the server's processes: main() of server/main.cpp, with the *)
(* file server.lock that is meant to keep a second instance out, and the   *)
(* two threads of Server::run (the main loop and the reader of commands,   *)
(* whose lines go to ConsoleCommands).                                     *)
(* Several instances are started in the same directory by the same user.   *)
(* Anything may be killed at any time and leaves the disk as it is.        *)
(***************************************************************************)
EXTENDS Integers, FiniteSets, ConsoleCommands

CONSTANTS
  Instance,   \* the processes that may exist at the same time
  Pid,        \* the process numbers the system hands out
  Word,       \* first words of the lines typed, "" for an empty line
  Careful,    \* instances are started and stopped one at a time
  ReusePids,  \* the number of a process that has ended is given out again
  MaxStarts   \* bound: how often an instance is started

ASSUME InstancesAssumption == IsFiniteSet(Instance)
ASSUME PidsAssumption == Pid \subseteq Nat \ {0}
ASSUME WordsAssumption == "(none)" \notin Word
ASSUME SwitchesAssumption == Careful \in BOOLEAN /\ ReusePids \in BOOLEAN
ASSUME StartsAssumption == MaxStarts \in Nat

VARIABLES
  pc,         \* where main() is in each instance; "none" without a process
  pid,        \* the process number of each instance
  found,      \* the local variable pid of main(), read from the file
  lockFile,   \* server.lock exists
  lockPid,    \* the number in it, 0 when it is empty
  writing,    \* the instances whose stream `out` is open on the present file
  running,    \* Server::m_running of each instance
  listening,  \* commandLoop has not ended
  line,       \* its local variable: the line it hands to executeConsole
  used,       \* the numbers given out so far
  starts,     \* counts Start, for MaxStarts
  wronged,    \* an instance was turned away while no other one held the lock
  killed      \* a process was ended without running its handlers

lock == <<lockFile, lockPid, writing>>
threads == <<running, listening, line>>
history == <<used, starts>>
vars == <<pc, pid, found, lock, threads, history, wronged, killed>>

Starting == {"exists", "read", "alive", "clear", "open", "write", "install"}
Stopping == {"join", "unlock", "atexit", "handler"}
NoLine == "(none)"
Place == {"none", "run", "refused"} \cup Starting \cup Stopping

Init ==
  /\ pc = [i \in Instance |-> "none"]
  /\ pid = [i \in Instance |-> 0]
  /\ found = [i \in Instance |-> 0]
  /\ lockFile = FALSE /\ lockPid = 0 /\ writing = {}
  /\ running = [i \in Instance |-> FALSE]
  /\ listening = [i \in Instance |-> FALSE]
  /\ line = [i \in Instance |-> NoLine]
  /\ used = {} /\ starts = 0 /\ wronged = FALSE /\ killed = FALSE

Go(i, place) == pc' = [pc EXCEPT ![i] = place]

Alive == {i \in Instance : pc[i] # "none"}

\* Nobody else is between two states an administrator would wait for.
Settled(i) == \A j \in Instance \ {i} :
  pc[j] \in {"none", "refused"} \/ (pc[j] = "run" /\ running[j] /\ line[j] = NoLine)

InTurn(i) == Careful => Settled(i)

-----------------------------------------------------------------------------
(* The file.                                                               *)

\* std::filesystem::remove: a stream open on the file no longer reaches it.
removeLock(i) == lockFile' = FALSE /\ lockPid' = 0 /\ writing' = {}

\* kill(pid, 0) = 0: some process, possibly the caller, has this number.
isProcessAlive(p) == \E i \in Alive : pid[i] = p

-----------------------------------------------------------------------------
(* main() up to Server::run.                                               *)

Start(i) ==
  /\ pc[i] = "none" /\ starts < MaxStarts /\ InTurn(i)
  /\ \E p \in Pid :
       /\ ~isProcessAlive(p)
       /\ ReusePids \/ p \notin used
       /\ pid' = [pid EXCEPT ![i] = p]
       /\ used' = used \cup {p}
  /\ starts' = starts + 1
  /\ Go(i, "exists")
  /\ UNCHANGED <<found, lock, threads, wronged, killed>>

LookForLock(i) ==
  /\ pc[i] = "exists"
  /\ Go(i, IF lockFile THEN "read" ELSE "open")
  /\ UNCHANGED <<pid, found, lock, threads, history, wronged, killed>>

\* A file that is gone or empty leaves the local pid at 0.
ReadLock(i) ==
  /\ pc[i] = "read"
  /\ found' = [found EXCEPT ![i] = lockPid]
  /\ Go(i, "alive")
  /\ UNCHANGED <<pid, lock, threads, history, wronged, killed>>

\* (Bug... definitions are deliberate faults that show the properties can fail.)
\* kill(0, 0) addresses the caller's own group and succeeds.
BugZeroIsAlive(i) == found[i] = 0 \/ isProcessAlive(found[i])
AnotherRuns(i) == found[i] # 0 /\ isProcessAlive(found[i])

TurnAway(i) ==
  /\ pc[i] = "alive" /\ AnotherRuns(i)
  /\ wronged' = (wronged \/ ~ \E j \in Alive \ {i} :
                                 pc[j] \in {"install", "run"} \cup Stopping)
  /\ Go(i, "refused")
  /\ UNCHANGED <<pid, found, lock, threads, history, killed>>

Proceed(i) ==
  /\ pc[i] = "alive" /\ ~AnotherRuns(i)
  /\ Go(i, "clear")
  /\ UNCHANGED <<pid, found, lock, threads, history, wronged, killed>>

ClearLock(i) ==
  /\ pc[i] = "clear"
  /\ removeLock(i)
  /\ Go(i, "open")
  /\ UNCHANGED <<pid, found, threads, history, wronged, killed>>

\* std::ios::trunc creates the file or empties the one that is there.
OpenLock(i) ==
  /\ pc[i] = "open"
  /\ lockFile' = TRUE /\ lockPid' = 0
  /\ writing' = writing \cup {i}
  /\ Go(i, "write")
  /\ UNCHANGED <<pid, found, threads, history, wronged, killed>>

\* The number reaches the file when the stream is closed.
BugWriteNothing(i) == lockPid
WrittenPid(i) == IF i \in writing THEN pid[i] ELSE lockPid

\* The block around `out` ends before the handlers are installed.
BugStillOpen(i) == writing
Closed(i) == writing \ {i}

WritePid(i) ==
  /\ pc[i] = "write"
  /\ lockPid' = WrittenPid(i)
  /\ writing' = Closed(i)
  /\ Go(i, "install")
  /\ UNCHANGED <<pid, found, lockFile, threads, history, wronged, killed>>

\* The handlers are installed, the server is built, both threads run.
EnterRun(i) ==
  /\ pc[i] = "install"
  /\ running' = [running EXCEPT ![i] = TRUE]
  /\ listening' = [listening EXCEPT ![i] = TRUE]
  /\ Go(i, "run")
  /\ UNCHANGED <<pid, found, lock, line, history, wronged, killed>>

-----------------------------------------------------------------------------
(* Server::run: the command thread and the main thread.                    *)

\* getline returns a line.
ReadLine(i) ==
  /\ pc[i] = "run" /\ listening[i] /\ line[i] = NoLine /\ InTurn(i)
  /\ \E word \in Word : line' = [line EXCEPT ![i] = word]
  /\ UNCHANGED <<pc, pid, found, lock, running, listening, history, wronged, killed>>

\* executeConsole, and the loop looks at m_running again.
BugKeepListening(i) == listening
HeardStop(i) == [listening EXCEPT ![i] = running'[i]]

Execute(i) ==
  /\ line[i] # NoLine
  /\ running' = [running EXCEPT ![i] = @ /\ ~StopsServer(line[i])]
  /\ listening' = HeardStop(i)
  /\ line' = [line EXCEPT ![i] = NoLine]
  /\ UNCHANGED <<pc, pid, found, lock, history, wronged, killed>>

\* Standard input is closed: the thread ends and the server runs on.
EndOfInput(i) ==
  /\ pc[i] = "run" /\ listening[i] /\ line[i] = NoLine
  /\ listening' = [listening EXCEPT ![i] = FALSE]
  /\ UNCHANGED <<pc, pid, found, lock, running, line, history, wronged, killed>>

LeaveLoop(i) ==
  /\ pc[i] = "run" /\ ~running[i]
  /\ Go(i, "join")
  /\ UNCHANGED <<pid, found, lock, threads, history, wronged, killed>>

Join(i) ==
  /\ pc[i] = "join" /\ ~listening[i]
  /\ Go(i, "unlock")
  /\ UNCHANGED <<pid, found, lock, threads, history, wronged, killed>>

Unlock(i) ==
  /\ pc[i] = "unlock"
  /\ removeLock(i)
  /\ Go(i, "atexit")
  /\ UNCHANGED <<pid, found, threads, history, wronged, killed>>

-----------------------------------------------------------------------------
(* The ways a process ends.                                                *)

Gone(i) ==
  /\ Go(i, "none")
  /\ pid' = [pid EXCEPT ![i] = 0]
  /\ found' = [found EXCEPT ![i] = 0]
  /\ running' = [running EXCEPT ![i] = FALSE]
  /\ listening' = [listening EXCEPT ![i] = FALSE]
  /\ line' = [line EXCEPT ![i] = NoLine]

\* main() has returned: onExit removes the file a second time.
AtExit(i) ==
  /\ pc[i] = "atexit"
  /\ removeLock(i)
  /\ Gone(i)
  /\ UNCHANGED <<history, wronged, killed>>

\* ENTER in an instance that was turned away: return 1 before std::atexit.
BugDismissUnlocks(i) == removeLock(i)
DismissLeaves(i) == UNCHANGED lock

Dismiss(i) ==
  /\ pc[i] = "refused"
  /\ DismissLeaves(i)
  /\ Gone(i)
  /\ UNCHANGED <<history, wronged, killed>>

\* onSignal removes the file first; the other thread still runs till _Exit.
BugHandlerForgets(i) == UNCHANGED lock
HandlerUnlocks(i) == removeLock(i)

Signal(i) ==
  /\ pc[i] \in {"run", "join", "unlock", "atexit"} /\ InTurn(i)
  /\ HandlerUnlocks(i)
  /\ Go(i, "handler")
  /\ UNCHANGED <<pid, found, threads, history, wronged, killed>>

HandlerExit(i) ==
  /\ pc[i] = "handler"
  /\ Gone(i)
  /\ UNCHANGED <<lock, history, wronged, killed>>

\* SIGKILL, an exception nobody catches, or a signal before its handler.
Kill(i) ==
  /\ i \in Alive
  /\ writing' = writing \ {i}
  /\ killed' = TRUE
  /\ Gone(i)
  /\ UNCHANGED <<lockFile, lockPid, history, wronged>>

-----------------------------------------------------------------------------
BeforeRun(i) ==
  LookForLock(i) \/ ReadLock(i) \/ TurnAway(i) \/ Proceed(i) \/ ClearLock(i)
    \/ OpenLock(i) \/ WritePid(i) \/ EnterRun(i)

AfterRun(i) ==
  LeaveLoop(i) \/ Join(i) \/ Unlock(i) \/ AtExit(i) \/ HandlerExit(i)

Outside(i) ==
  Start(i) \/ ReadLine(i) \/ EndOfInput(i) \/ Dismiss(i) \/ Signal(i) \/ Kill(i)

Next == \E i \in Instance : BeforeRun(i) \/ AfterRun(i) \/ Execute(i) \/ Outside(i)

\* Both threads of a process keep running; nobody has to type or to signal.
Spec == Init /\ [][Next]_vars
FairSpec ==
  /\ Spec
  /\ \A i \in Instance :
       WF_vars(BeforeRun(i)) /\ WF_vars(AfterRun(i)) /\ WF_vars(Execute(i))

-----------------------------------------------------------------------------
(* Properties.                                                             *)

\* Every variable keeps its type.
TypeOK ==
  /\ pc \in [Instance -> Place]
  /\ pid \in [Instance -> Pid \cup {0}] /\ found \in [Instance -> Pid \cup {0}]
  /\ lockFile \in BOOLEAN /\ lockPid \in Pid \cup {0}
  /\ writing \subseteq {i \in Instance : pc[i] = "write"}
  /\ running \in [Instance -> BOOLEAN] /\ listening \in [Instance -> BOOLEAN]
  /\ line \in [Instance -> Word \cup {NoLine}]
  /\ used \subseteq Pid /\ starts \in 0..MaxStarts
  /\ wronged \in BOOLEAN /\ killed \in BOOLEAN

Serving == {i \in Instance : pc[i] = "run"}

\* At most one instance serves: what the check of server.lock and the message
\* "Another instance of the server is already running" are for.
OneInstance == \A i, j \in Serving : i = j

\* While an instance serves, the file names it, so that the next one sees it.
LockNamesRunner == \A i \in Serving : lockFile /\ lockPid = pid[i]

\* An instance is turned away only when another one is past its own check:
\* no stale file, whatever was killed and when, keeps the server from starting.
RefusedOnlyBesideAnother == ~wronged

\* A file nobody owns was left by a process that was killed; every other way
\* out, with its one to two removals, leaves none.
StaleOnlyAfterKill == (Alive = {} /\ lockFile) => killed

\* The command stop, by any of its names, ends the process: it is found in the
\* table and allowed, the main loop is left and the command thread, which could
\* still be waiting for a line, can be joined.
StopTerminates ==
  \A i \in Instance :
    line[i] \in {"stop", "shutdown", "exit"} ~> pc[i] = "none"

=============================================================================
