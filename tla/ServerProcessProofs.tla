------------------------- MODULE ServerProcessProofs -------------------------
(***************************************************************************)
(* Proofs about ServerProcess, for any set of instances, process numbers,  *)
(* commands and number of starts.  What the lock file promises is proved   *)
(* under exactly the hypotheses it needs: nothing for the file that stays  *)
(* behind, Careful for the single instance, and ~ReusePids as well for an  *)
(* instance that is turned away.                                           *)
(***************************************************************************)
EXTENDS ServerProcess, TLAPS

-----------------------------------------------------------------------------
(* Type correctness *)

LEMMA TypeInit == Init => TypeOK
<1> SUFFICES ASSUME Init PROVE TypeOK
  OBVIOUS
<1>1. starts \in 0 .. MaxStarts
  BY StartsAssumption DEF Init
<1>2. writing \subseteq {i \in Instance : pc[i] = "write"}
  BY DEF Init
<1> QED BY <1>1, <1>2 DEF Init, TypeOK, Place, Starting, Stopping

LEMMA TypeStep == TypeOK /\ [Next]_vars => TypeOK'
<1> SUFFICES ASSUME TypeOK, [Next]_vars
             PROVE  TypeOK'
  OBVIOUS
<1> USE DEF Go, Place, Starting, Stopping, lock, threads, history
<1>1. ASSUME NEW i \in Instance, BeforeRun(i) PROVE TypeOK'
  <2>1. CASE LookForLock(i)
    BY <2>1 DEF TypeOK, LookForLock
  <2>2. CASE ReadLock(i)
    BY <2>2 DEF TypeOK, ReadLock
  <2>3. CASE TurnAway(i)
    BY <2>3 DEF TypeOK, TurnAway
  <2>4. CASE Proceed(i)
    BY <2>4 DEF TypeOK, Proceed
  <2>5. CASE ClearLock(i)
    BY <2>5 DEF TypeOK, ClearLock, removeLock
  <2>6. CASE OpenLock(i)
    BY <2>6 DEF TypeOK, OpenLock
  <2>7. CASE WritePid(i)
    BY <2>7 DEF TypeOK, WritePid, WrittenPid, Closed
  <2>8. CASE EnterRun(i)
    BY <2>8 DEF TypeOK, EnterRun
  <2> QED BY <1>1, <2>1, <2>2, <2>3, <2>4, <2>5, <2>6, <2>7, <2>8 DEF BeforeRun
<1>2. ASSUME NEW i \in Instance, AfterRun(i) PROVE TypeOK'
  <2>1. CASE LeaveLoop(i)
    BY <2>1 DEF TypeOK, LeaveLoop
  <2>2. CASE Join(i)
    BY <2>2 DEF TypeOK, Join
  <2>3. CASE Unlock(i)
    BY <2>3 DEF TypeOK, Unlock, removeLock
  <2>4. CASE AtExit(i)
    BY <2>4 DEF TypeOK, AtExit, removeLock, Gone
  <2>5. CASE HandlerExit(i)
    BY <2>5 DEF TypeOK, HandlerExit, Gone
  <2> QED BY <1>2, <2>1, <2>2, <2>3, <2>4, <2>5 DEF AfterRun
<1>3. ASSUME NEW i \in Instance, Execute(i) PROVE TypeOK'
  BY <1>3 DEF TypeOK, Execute, HeardStop
<1>4. ASSUME NEW i \in Instance, Outside(i) PROVE TypeOK'
  <2>1. CASE Start(i)
    BY <2>1, StartsAssumption DEF TypeOK, Start
  <2>2. CASE ReadLine(i)
    BY <2>2 DEF TypeOK, ReadLine
  <2>3. CASE EndOfInput(i)
    BY <2>3 DEF TypeOK, EndOfInput
  <2>4. CASE Dismiss(i)
    BY <2>4 DEF TypeOK, Dismiss, DismissLeaves, Gone
  <2>5. CASE Signal(i)
    BY <2>5 DEF TypeOK, Signal, HandlerUnlocks, removeLock
  <2>6. CASE Kill(i)
    BY <2>6 DEF TypeOK, Kill, Gone
  <2> QED BY <1>4, <2>1, <2>2, <2>3, <2>4, <2>5, <2>6 DEF Outside
<1>5. CASE UNCHANGED vars
  BY <1>5 DEF TypeOK, vars
<1> QED BY <1>1, <1>2, <1>3, <1>4, <1>5 DEF Next

\* TypeOK of ServerProcess: a process that ended keeps no stream, the file and
\* main() only ever hold numbers that the system hands out.
THEOREM TypeCorrect == Spec => []TypeOK
BY TypeInit, TypeStep, PTL DEF Spec

-----------------------------------------------------------------------------
(* The parts of the inductive invariant *)

\* main() of i stands between two states an administrator would wait for.
Busy(i) ==
  ~ (pc[i] \in {"none", "refused"} \/ (pc[i] = "run" /\ running[i] /\ line[i] = NoLine))

\* Starts and stops are one at a time.
OneBusy == \A i, j \in Instance : Busy(i) /\ Busy(j) => i = j

\* A process has a number of its own, one that was given out.
Numbers ==
  /\ \A i \in Alive : pid[i] \in used
  /\ \A i, j \in Alive : pid[i] = pid[j] => i = j
  /\ lockPid \in used \cup {0}

\* The places from the decision to take the file to the end of the process.
Owns == {"clear", "open", "write", "install", "run"} \cup Stopping

\* One instance at most has decided to take the file. While it writes or runs
\* the file is its own, and who asks has seen what the file says.
FileOwned ==
  /\ \A i, j \in Instance : pc[i] \in Owns /\ pc[j] \in Owns => i = j
  /\ \A i \in Instance : pc[i] = "write" => i \in writing /\ lockFile
  /\ \A i \in Instance : pc[i] \in {"install", "run"} => lockFile /\ lockPid = pid[i]
  /\ \A i \in Instance : pc[i] = "alive" => found[i] = lockPid

\* A number in the file that belongs to a process is of one that wrote it there.
Written ==
  \A i \in Alive : pid[i] = lockPid => pc[i] \in {"install", "run"} \cup Stopping

\* As long as nothing was killed, a file has an instance that will remove it.
Kept ==
  lockFile /\ ~killed =>
    \E i \in Instance : pc[i] \in {"write", "install", "run", "join", "unlock"}

LEMMA InvInit == Init => OneBusy /\ Numbers /\ FileOwned /\ Written /\ Kept
BY DEF Init, OneBusy, Busy, Numbers, Alive, Owns, Stopping, FileOwned, Written, Kept

Step(i) == BeforeRun(i) \/ AfterRun(i) \/ Execute(i) \/ Outside(i)

LEMMA Steps ==
  ASSUME [Next]_vars
  PROVE  UNCHANGED vars \/ \E i \in Instance : Step(i)
BY DEF Next, Step

\* A step is of one instance: what main() keeps in the others does not change.
LEMMA OthersStay ==
  ASSUME TypeOK, NEW i \in Instance, Step(i), NEW j \in Instance, j # i
  PROVE  /\ pc'[j] = pc[j] /\ pid'[j] = pid[j] /\ found'[j] = found[j]
         /\ running'[j] = running[j] /\ line'[j] = line[j]
<1> USE DEF Go, TypeOK, lock, threads, history
<1>1. CASE BeforeRun(i)
  BY <1>1 DEF BeforeRun, LookForLock, ReadLock, TurnAway, Proceed, ClearLock, OpenLock,
              WritePid, EnterRun
<1>2. CASE AfterRun(i)
  BY <1>2 DEF AfterRun, LeaveLoop, Join, Unlock, AtExit, HandlerExit, Gone
<1>3. CASE Execute(i)
  BY <1>3 DEF Execute
<1>4. CASE Outside(i)
  BY <1>4 DEF Outside, Start, ReadLine, EndOfInput, Dismiss, Signal, Kill, Gone
<1> QED BY <1>1, <1>2, <1>3, <1>4 DEF Step

-----------------------------------------------------------------------------
(* A file that nobody owns *)

LEMMA KeptStep == TypeOK /\ Kept /\ [Next]_vars => Kept'
<1> SUFFICES ASSUME TypeOK, Kept, [Next]_vars, lockFile', ~killed'
             PROVE  \E k \in Instance :
                      pc'[k] \in {"write", "install", "run", "join", "unlock"}
  BY DEF Kept
<1> DEFINE Keeper(place) == place \in {"write", "install", "run", "join", "unlock"}
<1> HIDE DEF Keeper
<1>1. CASE UNCHANGED vars
  BY <1>1 DEF vars, lock, Kept
<1>2. ASSUME NEW i \in Instance, Step(i) PROVE \E k \in Instance : Keeper(pc'[k])
  <2> USE DEF Go, TypeOK, lock, threads, history, removeLock
  <2>1. CASE OpenLock(i)
    BY <2>1 DEF OpenLock, Keeper
  <2>2. CASE lockFile /\ ~killed /\ (Keeper(pc[i]) => Keeper(pc'[i]))
    <3>1. PICK k \in Instance : Keeper(pc[k])
      BY <2>2 DEF Kept, Keeper
    <3>2. CASE k = i
      BY <3>1, <3>2, <2>2
    <3>3. CASE k # i
      BY <3>1, <3>3, <1>2, OthersStay
    <3> QED BY <3>2, <3>3
  <2>3. OpenLock(i) \/ (lockFile /\ ~killed /\ (Keeper(pc[i]) => Keeper(pc'[i])))
    <3>1. CASE BeforeRun(i)
      BY <3>1 DEF BeforeRun, LookForLock, ReadLock, TurnAway, Proceed, ClearLock, OpenLock,
                  WritePid, EnterRun, Keeper
    <3>2. CASE AfterRun(i)
      BY <3>2 DEF AfterRun, LeaveLoop, Join, Unlock, AtExit, HandlerExit, Gone, Keeper
    <3>3. CASE Execute(i)
      BY <3>3 DEF Execute
    <3>4. CASE Outside(i)
      BY <3>4 DEF Outside, Start, ReadLine, EndOfInput, Dismiss, DismissLeaves, Signal,
                  HandlerUnlocks, Kill, Gone, Keeper
    <3> QED BY <1>2, <3>1, <3>2, <3>3, <3>4 DEF Step
  <2> QED BY <2>1, <2>2, <2>3
<1> QED BY <1>1, <1>2, Steps DEF Keeper

\* StaleOnlyAfterKill of ServerProcess: whatever way main() or the handler takes
\* out of the process, with its one to two removals, a server.lock without a
\* process was left by one that was killed. However instances are started.
THEOREM StaleFileOnlyAfterKill == Spec => []StaleOnlyAfterKill
<1>1. Kept => StaleOnlyAfterKill
  BY DEF Kept, StaleOnlyAfterKill, Alive
<1> QED BY <1>1, InvInit, KeptStep, TypeInit, TypeStep, PTL DEF Spec

-----------------------------------------------------------------------------
(* The numbers of the processes *)

LEMMA NumbersStep == TypeOK /\ Numbers /\ [Next]_vars => Numbers'
<1> SUFFICES ASSUME TypeOK, Numbers, [Next]_vars
             PROVE  Numbers'
  OBVIOUS
<1>1. CASE UNCHANGED vars
  BY <1>1 DEF vars, lock, history, Numbers, Alive
<1>2. ASSUME NEW i \in Instance, Step(i) PROVE Numbers'
  <2> USE DEF Go, TypeOK, lock, threads, history, removeLock
  <2>1. CASE Start(i)
    <3>1. PICK p \in Pid : /\ ~isProcessAlive(p) /\ pid' = [pid EXCEPT ![i] = p]
                          /\ used' = used \cup {p}
      BY <2>1 DEF Start
    <3>2. pid'[i] = p /\ lockPid' = lockPid /\ pc[i] = "none" /\ pc' = [pc EXCEPT ![i] = "exists"]
      BY <2>1, <3>1 DEF Start
    <3>3. \A j \in Instance \ {i} : pid'[j] = pid[j] /\ pc'[j] = pc[j]
      BY <1>2, OthersStay
    <3>4. \A j \in Alive : pid[j] # p
      BY <3>1 DEF isProcessAlive
    <3> QED BY <3>1, <3>2, <3>3, <3>4 DEF Numbers, Alive
  <2>2. CASE ~Start(i)
    <3>1. used' = used /\ \A j \in Alive' : j \in Alive /\ pid'[j] = pid[j]
      <4>1. CASE BeforeRun(i)
        BY <4>1 DEF BeforeRun, LookForLock, ReadLock, TurnAway, Proceed, ClearLock, OpenLock,
                    WritePid, EnterRun, Alive
      <4>2. CASE AfterRun(i)
        BY <4>2 DEF AfterRun, LeaveLoop, Join, Unlock, AtExit, HandlerExit, Gone, Alive
      <4>3. CASE Execute(i)
        BY <4>3 DEF Execute, Alive
      <4>4. CASE Outside(i)
        BY <4>4, <2>2 DEF Outside, ReadLine, EndOfInput, Dismiss, Signal, Kill, Gone, Alive
      <4> QED BY <1>2, <4>1, <4>2, <4>3, <4>4 DEF Step
    <3>2. lockPid' \in {lockPid, 0} \/ (i \in Alive /\ lockPid' = pid[i])
      <4>1. CASE BeforeRun(i)
        BY <4>1 DEF BeforeRun, LookForLock, ReadLock, TurnAway, Proceed, ClearLock, OpenLock,
                    WritePid, WrittenPid, EnterRun, Alive
      <4>2. CASE AfterRun(i)
        BY <4>2 DEF AfterRun, LeaveLoop, Join, Unlock, AtExit, HandlerExit
      <4>3. CASE Execute(i)
        BY <4>3 DEF Execute
      <4>4. CASE Outside(i)
        BY <4>4, <2>2 DEF Outside, ReadLine, EndOfInput, Dismiss, DismissLeaves, Signal,
                          HandlerUnlocks, Kill
      <4> QED BY <1>2, <4>1, <4>2, <4>3, <4>4 DEF Step
    <3> QED BY <3>1, <3>2 DEF Numbers
  <2> QED BY <2>1, <2>2
<1> QED BY <1>1, <1>2, Steps

-----------------------------------------------------------------------------
(* One start or stop at a time *)

\* Who is between two states was so before, or found everybody else settled.
LEMMA BusyBefore ==
  ASSUME Careful, TypeOK, NEW i \in Instance, Step(i), Busy(i)'
  PROVE  Busy(i) \/ \A j \in Instance \ {i} : ~Busy(j)
<1> USE DEF Go, TypeOK, lock, threads, history, Busy
<1>1. CASE BeforeRun(i)
  BY <1>1 DEF BeforeRun, LookForLock, ReadLock, TurnAway, Proceed, ClearLock, OpenLock,
              WritePid, EnterRun
<1>2. CASE AfterRun(i)
  BY <1>2 DEF AfterRun, LeaveLoop, Join, Unlock, AtExit, HandlerExit, Gone
<1>3. CASE Execute(i)
  BY <1>3 DEF Execute
<1>4. CASE Outside(i)
  <2>1. CASE InTurn(i)
    BY <2>1 DEF InTurn, Settled
  <2>2. CASE ~InTurn(i)
    BY <1>4, <2>2 DEF Outside, Start, ReadLine, EndOfInput, Dismiss, Signal, Kill, Gone
  <2> QED BY <2>1, <2>2
<1> QED BY <1>1, <1>2, <1>3, <1>4 DEF Step

LEMMA BusyStep == Careful /\ TypeOK /\ OneBusy /\ [Next]_vars => OneBusy'
<1> SUFFICES ASSUME Careful, TypeOK, OneBusy, [Next]_vars
             PROVE  OneBusy'
  OBVIOUS
<1>1. CASE UNCHANGED vars
  BY <1>1 DEF vars, threads, OneBusy, Busy
<1>2. ASSUME NEW i \in Instance, Step(i) PROVE OneBusy'
  <2>1. \A j \in Instance \ {i} : Busy(j)' <=> Busy(j)
    BY <1>2, OthersStay DEF Busy
  <2>2. Busy(i)' => Busy(i) \/ \A j \in Instance \ {i} : ~Busy(j)
    BY <1>2, BusyBefore
  <2> QED BY <2>1, <2>2 DEF OneBusy
<1> QED BY <1>1, <1>2, Steps

-----------------------------------------------------------------------------
(* One owner of the file *)

\* Who changes the file owns it, and nobody else is between two states.
LEMMA WhoChangesTheFile ==
  ASSUME Careful, TypeOK, NEW i \in Instance, Step(i)
  PROVE  \/ lockFile' = lockFile /\ lockPid' = lockPid
         \/ pc[i] \in Owns /\ (Busy(i) \/ \A j \in Instance \ {i} : ~Busy(j))
<1> USE DEF Go, TypeOK, lock, threads, history, Busy, Owns, Stopping
<1>1. CASE BeforeRun(i)
  BY <1>1 DEF BeforeRun, LookForLock, ReadLock, TurnAway, Proceed, ClearLock, OpenLock,
              WritePid, EnterRun
<1>2. CASE AfterRun(i)
  BY <1>2 DEF AfterRun, LeaveLoop, Join, Unlock, AtExit, HandlerExit, Gone
<1>3. CASE Execute(i)
  BY <1>3 DEF Execute
<1>4. CASE Outside(i)
  BY <1>4 DEF Outside, Start, ReadLine, EndOfInput, Dismiss, DismissLeaves, Signal, InTurn,
              Settled, Kill, Gone
<1> QED BY <1>1, <1>2, <1>3, <1>4 DEF Step

\* Whoever may decide to take the file finds no owner: an owner that is settled
\* serves, the file names it, and it is alive.
LEMMA TakesUnowned ==
  ASSUME Careful, TypeOK, Numbers, OneBusy, FileOwned,
         NEW i \in Instance, Step(i), pc[i] \notin Owns, pc'[i] \in Owns
  PROVE  \A j \in Instance : pc[j] \notin Owns
<1> USE DEF Go, TypeOK, lock, threads, history
<1>1. (LookForLock(i) /\ ~lockFile) \/ Proceed(i)
  <2>1. CASE BeforeRun(i)
    BY <2>1 DEF BeforeRun, LookForLock, ReadLock, TurnAway, Proceed, ClearLock, OpenLock,
                WritePid, EnterRun, Owns, Stopping
  <2>2. CASE AfterRun(i)
    BY <2>2 DEF AfterRun, LeaveLoop, Join, Unlock, AtExit, HandlerExit, Gone, Owns, Stopping
  <2>3. CASE Execute(i)
    BY <2>3 DEF Execute
  <2>4. CASE Outside(i)
    BY <2>4 DEF Outside, Start, ReadLine, EndOfInput, Dismiss, Signal, Kill, Gone, Owns, Stopping
  <2> QED BY <2>1, <2>2, <2>3, <2>4 DEF Step
<1>2. ASSUME NEW j \in Instance, pc[j] \in Owns PROVE FALSE
  <2>1. Busy(i) /\ j # i
    BY <1>1, <1>2 DEF LookForLock, Proceed, Busy
  <2>2. pc[j] = "run" /\ lockFile /\ lockPid = pid[j]
    BY <1>2, <2>1 DEF OneBusy, Busy, FileOwned, Owns, Stopping
  <2>3. Proceed(i) /\ found[i] = pid[j]
    BY <1>1, <2>2 DEF FileOwned, Proceed, LookForLock
  <2>4. pid[j] \in Pid /\ j \in Alive
    BY <2>2 DEF Alive, Numbers
  <2>5. found[i] # 0 /\ isProcessAlive(found[i])
    BY <2>3, <2>4, PidsAssumption DEF isProcessAlive
  <2> QED BY <2>3, <2>5 DEF Proceed, AnotherRuns
<1> QED BY <1>2

LEMMA OwnedStep ==
  Careful /\ TypeOK /\ Numbers /\ OneBusy /\ FileOwned /\ [Next]_vars => FileOwned'
<1> SUFFICES ASSUME Careful, TypeOK, Numbers, OneBusy, FileOwned, [Next]_vars
             PROVE  FileOwned'
  OBVIOUS
<1>1. CASE UNCHANGED vars
  BY <1>1 DEF vars, lock, FileOwned
<1>2. ASSUME NEW i \in Instance, Step(i) PROVE FileOwned'
  <2> DEFINE Says(j) == /\ pc[j] = "write" => j \in writing /\ lockFile
                        /\ pc[j] \in {"install", "run"} => lockFile /\ lockPid = pid[j]
                        /\ pc[j] = "alive" => found[j] = lockPid
  <2>1. \A j \in Instance : Says(j)
    BY DEF FileOwned
  <2>2. \A j, k \in Instance : pc'[j] \in Owns /\ pc'[k] \in Owns => j = k
    <3>1. \A j \in Instance \ {i} : pc'[j] = pc[j]
      BY <1>2, OthersStay
    <3>2. pc[i] \in Owns \/ pc'[i] \notin Owns \/ \A j \in Instance : pc[j] \notin Owns
      BY <1>2, TakesUnowned
    <3> QED BY <3>1, <3>2 DEF FileOwned
  <2>3. Says(i)'
    <3> USE <2>1 DEF Go, TypeOK, lock, threads, history, removeLock
    <3>1. CASE BeforeRun(i)
      BY <3>1 DEF BeforeRun, LookForLock, ReadLock, TurnAway, Proceed, ClearLock, OpenLock,
                  WritePid, WrittenPid, EnterRun
    <3>2. CASE AfterRun(i)
      BY <3>2 DEF AfterRun, LeaveLoop, Join, Unlock, AtExit, HandlerExit, Gone
    <3>3. CASE Execute(i)
      BY <3>3 DEF Execute
    <3>4. CASE Outside(i)
      BY <3>4 DEF Outside, Start, ReadLine, EndOfInput, Dismiss, Signal, Kill, Gone
    <3> QED BY <1>2, <3>1, <3>2, <3>3, <3>4 DEF Step
  <2>4. ASSUME NEW j \in Instance \ {i} PROVE Says(j)'
    <3>1. pc'[j] = pc[j] /\ found'[j] = found[j] /\ pid'[j] = pid[j]
      BY <1>2, OthersStay
    <3>2. pc[j] \in {"write", "install", "run", "alive"} => lockFile' = lockFile /\ lockPid' = lockPid
      <4>1. CASE pc[j] \in {"write", "install", "run"}
        BY <4>1, <1>2, WhoChangesTheFile DEF FileOwned, Owns
      <4>2. CASE pc[j] = "alive"
        BY <4>2, <1>2, WhoChangesTheFile DEF OneBusy, Busy
      <4> QED BY <4>1, <4>2
    <3>3. pc[j] = "write" => (j \in writing => j \in writing')
      <4> SUFFICES ASSUME pc[j] = "write" PROVE j \in writing => j \in writing'
        OBVIOUS
      <4>1. pc[i] \notin Owns /\ Busy(j)
        BY DEF FileOwned, Owns, Busy
      <4> USE DEF Go, TypeOK, lock, threads, history
      <4>2. CASE BeforeRun(i)
        BY <4>1, <4>2 DEF BeforeRun, LookForLock, ReadLock, TurnAway, Proceed, ClearLock, OpenLock,
                    WritePid, EnterRun, Owns
      <4>3. CASE AfterRun(i)
        BY <4>1, <4>3 DEF AfterRun, LeaveLoop, Join, Unlock, AtExit, HandlerExit, Gone, Owns, Stopping
      <4>4. CASE Execute(i)
        BY <4>4 DEF Execute
      <4>5. CASE Outside(i)
        BY <4>1, <4>5 DEF Outside, Start, ReadLine, EndOfInput, Dismiss, DismissLeaves, Signal,
                    Kill, Gone, Owns, Stopping
      <4> QED BY <1>2, <4>2, <4>3, <4>4, <4>5 DEF Step
    <3> QED BY <2>1, <3>1, <3>2, <3>3
  <2> QED BY <2>2, <2>3, <2>4 DEF FileOwned
<1> QED BY <1>1, <1>2, Steps

\* OneInstance of ServerProcess: of instances that are started and stopped one
\* at a time, and killed at any time, two never serve, also when the system
\* hands out old numbers again.
THEOREM OneInstanceServes == Careful => (Spec => []OneInstance)
<1> SUFFICES ASSUME Careful PROVE Spec => []OneInstance
  OBVIOUS
<1>1. FileOwned => OneInstance
  BY DEF FileOwned, OneInstance, Serving, Owns
<1>2. Numbers /\ OneBusy /\ FileOwned /\ TypeOK /\ [Next]_vars
        => Numbers' /\ OneBusy' /\ FileOwned' /\ TypeOK'
  BY NumbersStep, BusyStep, OwnedStep, TypeStep
<1> QED BY <1>1, <1>2, InvInit, TypeInit, PTL DEF Spec

\* LockNamesRunner of ServerProcess: under the same hypothesis the file names
\* the instance that serves for as long as it does.
THEOREM LockFileNamesRunner == Careful => (Spec => []LockNamesRunner)
<1> SUFFICES ASSUME Careful PROVE Spec => []LockNamesRunner
  OBVIOUS
<1>1. FileOwned => LockNamesRunner
  BY DEF FileOwned, LockNamesRunner, Serving
<1>2. Numbers /\ OneBusy /\ FileOwned /\ TypeOK /\ [Next]_vars
        => Numbers' /\ OneBusy' /\ FileOwned' /\ TypeOK'
  BY NumbersStep, BusyStep, OwnedStep, TypeStep
<1> QED BY <1>1, <1>2, InvInit, TypeInit, PTL DEF Spec

-----------------------------------------------------------------------------
(* Who is turned away *)

\* The number in the file is that of the process that wrote it, or of none.
LEMMA WrittenStep ==
  Careful /\ ~ReusePids /\ TypeOK /\ Numbers /\ FileOwned /\ Written /\ [Next]_vars => Written'
<1> SUFFICES ASSUME Careful, ~ReusePids, TypeOK, Numbers, FileOwned, Written, [Next]_vars
             PROVE  Written'
  OBVIOUS
<1> USE PidsAssumption
<1>1. CASE UNCHANGED vars
  BY <1>1 DEF vars, lock, Written, Alive
<1>2. ASSUME NEW i \in Instance, Step(i) PROVE Written'
  <2> DEFINE Late(place) == place \in {"install", "run"} \cup Stopping
  <2> HIDE DEF Late
  <2>1. \A j \in Instance \ {i} : pid'[j] = pid[j] /\ pc'[j] = pc[j]
    BY <1>2, OthersStay
  <2>2. \A j \in Alive : pid[j] # 0
    BY DEF Numbers, TypeOK
  <2>3. CASE WritePid(i)
    <3>1. lockPid' = pid[i] /\ pid' = pid /\ pc'[i] = "install" /\ i \in Alive
      BY <2>3 DEF WritePid, WrittenPid, FileOwned, Go, TypeOK, Alive
    <3>2. \A j \in Alive \ {i} : pid[j] # pid[i]
      BY <3>1 DEF Numbers
    <3> QED BY <2>1, <3>1, <3>2 DEF Written, Alive
  <2>4. CASE Start(i)
    <3>1. pid'[i] \in Pid \ used /\ lockPid' = lockPid
      BY <2>4 DEF Start, TypeOK, lock
    <3>2. lockPid \in used \cup {0}
      BY DEF Numbers
    <3> QED BY <2>1, <3>1, <3>2 DEF Written, Alive, TypeOK
  <2>5. CASE ~WritePid(i) /\ ~Start(i)
    <3>1. /\ lockPid' \in {lockPid, 0}
          /\ i \in Alive' => i \in Alive /\ pid'[i] = pid[i] /\ (Late(pc[i]) => Late(pc'[i]))
      <4> USE DEF Go, TypeOK, lock, threads, history, Alive, Late, Stopping
      <4>1. CASE BeforeRun(i)
        BY <2>5, <4>1 DEF BeforeRun, LookForLock, ReadLock, TurnAway, Proceed, ClearLock, OpenLock,
                    removeLock, EnterRun
      <4>2. CASE AfterRun(i)
        BY <4>2 DEF AfterRun, LeaveLoop, Join, Unlock, AtExit, HandlerExit, removeLock, Gone
      <4>3. CASE Execute(i)
        BY <4>3 DEF Execute
      <4>4. CASE Outside(i)
        BY <2>5, <4>4 DEF Outside, ReadLine, EndOfInput, Dismiss, DismissLeaves, Signal,
                    HandlerUnlocks, removeLock, Kill, Gone
      <4> QED BY <1>2, <4>1, <4>2, <4>3, <4>4 DEF Step
    <3>2. ASSUME NEW j \in Alive', pid'[j] = lockPid' PROVE Late(pc'[j])
      <4>1. j \in Alive /\ pid'[j] = pid[j]
        BY <2>1, <3>1 DEF Alive
      <4>2. Late(pc[j])
        BY <4>1, <3>1, <3>2, <2>2 DEF Written, Late
      <4> QED BY <4>2, <2>1, <3>1, <3>2 DEF Alive
    <3> QED BY <3>2 DEF Written, Late
  <2> QED BY <2>3, <2>4, <2>5
<1> QED BY <1>1, <1>2, Steps

\* main() of i reads the number of another process, past its own check.
LEMMA TurnedAwayBeside ==
  ASSUME TypeOK, FileOwned, Written, NEW i \in Instance, TurnAway(i)
  PROVE  \E j \in Alive \ {i} : pc[j] \in {"install", "run"} \cup Stopping
<1>1. PICK j \in Alive : pid[j] = found[i]
  BY DEF TurnAway, AnotherRuns, isProcessAlive
<1>2. pid[j] = lockPid
  BY <1>1 DEF TurnAway, FileOwned
<1>3. pc[j] \in {"install", "run"} \cup Stopping
  BY <1>2 DEF Written
<1>4. j # i
  BY <1>3 DEF TurnAway, Stopping
<1> QED BY <1>3, <1>4

LEMMA WrongedStep ==
  TypeOK /\ FileOwned /\ Written /\ ~wronged /\ [Next]_vars => ~wronged'
<1> SUFFICES ASSUME TypeOK, FileOwned, Written, ~wronged, [Next]_vars
             PROVE  ~wronged'
  OBVIOUS
<1>1. CASE UNCHANGED vars
  BY <1>1 DEF vars
<1>2. ASSUME NEW i \in Instance, Step(i) PROVE ~wronged'
  <2>1. CASE TurnAway(i)
    BY <2>1, TurnedAwayBeside DEF TurnAway
  <2>2. CASE ~TurnAway(i)
    <3>1. CASE BeforeRun(i)
      BY <2>2, <3>1 DEF BeforeRun, LookForLock, ReadLock, Proceed, ClearLock, OpenLock,
                        WritePid, EnterRun
    <3>2. CASE AfterRun(i)
      BY <3>2 DEF AfterRun, LeaveLoop, Join, Unlock, AtExit, HandlerExit
    <3>3. CASE Execute(i)
      BY <3>3 DEF Execute
    <3>4. CASE Outside(i)
      BY <3>4 DEF Outside, Start, ReadLine, EndOfInput, Dismiss, Signal, Kill
    <3> QED BY <1>2, <3>1, <3>2, <3>3, <3>4 DEF Step
  <2> QED BY <2>1, <2>2
<1> QED BY <1>1, <1>2, Steps

\* RefusedOnlyBesideAnother of ServerProcess: when a number is given out once,
\* "Another instance of the server is already running" is only said beside an
\* instance past its own check; a file that a killed process left is cleared.
THEOREM RefusedBesideAnother == Careful /\ ~ReusePids => (Spec => []RefusedOnlyBesideAnother)
<1> SUFFICES ASSUME Careful, ~ReusePids PROVE Spec => []RefusedOnlyBesideAnother
  OBVIOUS
<1>1. Init => ~wronged
  BY DEF Init
<1>2. Numbers /\ OneBusy /\ FileOwned /\ Written /\ ~wronged /\ TypeOK /\ [Next]_vars
        => Numbers' /\ OneBusy' /\ FileOwned' /\ Written' /\ ~wronged' /\ TypeOK'
  BY NumbersStep, BusyStep, OwnedStep, WrittenStep, WrongedStep, TypeStep
<1> QED BY <1>1, <1>2, InvInit, TypeInit, PTL DEF Spec, RefusedOnlyBesideAnother

=============================================================================
