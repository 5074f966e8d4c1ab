----------------------- MODULE RaknetConnectionsProofs -----------------------
(***************************************************************************)
(* Proofs about RaknetConnections, for any clients, limits and bounds:     *)
(* types, the flush before a session is erased, and who is served (the     *)
(* limit of sessions in use, no session without a connection, every live   *)
(* connection with its own).  They end in the refinement of                *)
(* ConnectionTable.                                                        *)
(***************************************************************************)
EXTENDS RaknetConnections, FiniteSetTheorems, SequenceTheorems, TLAPS

-----------------------------------------------------------------------------
(* Type correctness *)

LEMMA TypeInit == Init => TypeOK
BY EmptySeq DEF Init, TypeOK

\* Taking the first event of the queue.
LEMMA Taken ==
  ASSUME TypeOK, rx # <<>>
  PROVE  /\ Head(rx) \in Event /\ Tail(rx) \in Seq(Event)
         /\ Head(rx) = rx[1] /\ 1 \in DOMAIN rx
         /\ Len(rx) \in Nat \ {0} /\ DOMAIN rx = 1 .. Len(rx)
         /\ Len(Tail(rx)) = Len(rx) - 1 /\ DOMAIN Tail(rx) = 1 .. Len(rx) - 1
         /\ \A k \in 1 .. Len(rx) - 1 : Tail(rx)[k] = rx[k + 1]
<1>1. rx \in Seq(Event)
  BY DEF TypeOK
<1>2. Head(rx) \in Event /\ Tail(rx) \in Seq(Event) /\ Len(Tail(rx)) = Len(rx) - 1
  BY <1>1, HeadTailProperties
<1>3. Len(rx) \in Nat \ {0} /\ DOMAIN rx = 1 .. Len(rx)
  BY <1>1, EmptySeq, LenProperties
<1>4. DOMAIN Tail(rx) = 1 .. Len(rx) - 1
  BY <1>2, LenProperties
<1>5. \A k \in 1 .. Len(rx) - 1 : Tail(rx)[k] = rx[k + 1]
  BY <1>1, HeadTailProperties
<1> QED BY <1>2, <1>3, <1>4, <1>5

\* Adding one behind.
LEMMA Added ==
  ASSUME TypeOK, NEW e \in Event
  PROVE  /\ Append(rx, e) \in Seq(Event)
         /\ Len(rx) \in Nat /\ DOMAIN rx = 1 .. Len(rx)
         /\ Len(Append(rx, e)) = Len(rx) + 1 /\ DOMAIN Append(rx, e) = 1 .. Len(rx) + 1
         /\ Append(rx, e)[Len(rx) + 1] = e
         /\ \A k \in 1 .. Len(rx) : Append(rx, e)[k] = rx[k]
<1>1. rx \in Seq(Event)
  BY DEF TypeOK
<1> QED BY <1>1, AppendProperties, LenProperties

\* The event that a step of the network adds.
LEMMA NewEvents ==
  ASSUME TypeOK, NEW g \in Guid
  PROVE  /\ [kind |-> "new", guid |-> g, epoch |-> epoch[g] + 1] \in Event
         /\ [kind |-> "lost", guid |-> g, epoch |-> epoch[g]] \in Event
         /\ [kind |-> "frame", guid |-> g, epoch |-> epoch[g]] \in Event
BY DEF TypeOK, Event

LEMMA ReceiversType ==
  ASSUME TypeOK, NEW G \in SUBSET Guid
  PROVE  Receivers(G) \subseteq Guid \X Nat \X Nat
BY DEF TypeOK, Receivers

LEMMA TypeStep == TypeOK /\ [Next]_vars => TypeOK'
<1> SUFFICES ASSUME TypeOK, [Next]_vars
             PROVE  TypeOK'
  OBVIOUS
<1> USE DEF netVars, sessionVars, historyVars
<1>1. ASSUME NEW g \in Guid, Connect(g) PROVE TypeOK'
  <2>1. rx' \in Seq(Event)
    BY <1>1, NewEvents, Added DEF Connect
  <2>2. /\ up' = up \cup {g} /\ epoch' = [epoch EXCEPT ![g] = @ + 1]
        /\ UNCHANGED <<frames, running, pc, sessionVars, historyVars>>
    BY <1>1 DEF Connect
  <2>3. epoch' \in [Guid -> Nat]
    BY <2>2 DEF TypeOK
  <2> QED BY <2>1, <2>2, <2>3 DEF TypeOK
<1>2. ASSUME NEW g \in Guid, Leave(g) PROVE TypeOK'
  BY <1>2, NewEvents, Added DEF Leave, TypeOK
<1>3. ASSUME NEW g \in Guid, SendFrame(g) PROVE TypeOK'
  <2>1. rx' \in Seq(Event)
    BY <1>3, NewEvents, Added DEF SendFrame
  <2> QED BY <1>3, <2>1 DEF SendFrame, TypeOK
<1>4. CASE EnterPoll \/ LeaveRun \/ EndReceive
  BY <1>4 DEF EnterPoll, LeaveRun, EndReceive, TypeOK
<1>5. CASE OnConnect
  <2>1. Head(rx).guid \in Guid /\ Head(rx).epoch \in Nat /\ Tail(rx) \in Seq(Event)
    BY <1>5, Taken DEF OnConnect, Takes, Event
  <2> DEFINE g == Head(rx).guid
  <2>2. /\ owner' = owner \/ owner' = [owner EXCEPT ![g] = Head(rx).epoch]
        /\ marked' = marked \/ marked' = [marked EXCEPT ![g] = FALSE]
        /\ sendQueue' = sendQueue \/ sendQueue' = [sendQueue EXCEPT ![g] = 0]
        /\ rx' = Tail(rx) /\ sessions' = sessions \cup {g}
        /\ UNCHANGED <<netVars, running, pc, historyVars>>
    BY <1>5 DEF OnConnect
  <2> HIDE DEF g
  <2>3. g \in Guid
    BY <2>1 DEF g
  <2>4. owner' \in [Guid -> Nat]
    BY <2>1, <2>2, <2>3 DEF TypeOK
  <2>5. marked' \in [Guid -> BOOLEAN]
    BY <2>2, <2>3, Zenon DEF TypeOK
  <2>6. sendQueue' \in [Guid -> Nat]
    <3>1. sendQueue \in [Guid -> Nat]
      BY DEF TypeOK
    <3>2. sendQueue' = sendQueue \/ sendQueue' = [sendQueue EXCEPT ![g] = 0]
      BY <2>2
    <3> QED BY <2>3, <3>1, <3>2
  <2> QED BY <2>1, <2>2, <2>3, <2>4, <2>5, <2>6 DEF TypeOK
<1>6. CASE OnDisconnect
  <2>1. Head(rx).guid \in Guid /\ Tail(rx) \in Seq(Event)
    BY <1>6, Taken DEF OnDisconnect, Takes, Event
  <2> QED BY <1>6, <2>1 DEF OnDisconnect, MarkLost, TypeOK
<1>7. CASE DropFrame
  BY <1>7, Taken DEF DropFrame, Takes, TypeOK
<1>8. ASSUME NEW outcome \in Outcome, Route(outcome) PROVE TypeOK'
  <2> DEFINE g == Head(rx).guid
  <2>1. g \in Guid /\ Tail(rx) \in Seq(Event)
    BY <1>8, Taken DEF Route, Takes, Event
  <2>2. Receivers({g}) \subseteq Guid \X Nat \X Nat /\ <<g, owner[g]>> \in Guid \X Nat
    BY <2>1, ReceiversType DEF TypeOK
  <2> HIDE DEF g
  <2>3. /\ rx' = Tail(rx)
        /\ received' = IF outcome = "answer" THEN received \cup Receivers({g}) ELSE received
        /\ sendQueue' = [sendQueue EXCEPT ![g] = IF outcome = "queue" THEN @ + 1 ELSE @]
        /\ marked' = [marked EXCEPT ![g] = @ \/ outcome = "mark"]
        /\ kicked' = IF outcome = "mark" THEN kicked \cup {<<g, owner[g]>>} ELSE kicked
        /\ pc' = IF outcome = "throw" THEN "aborted" ELSE pc
        /\ UNCHANGED <<up, epoch, frames, running, sessions, owner>>
    BY <1>8 DEF Route, g
  <2>4. marked' \in [Guid -> BOOLEAN]
    BY <2>1, <2>3 DEF TypeOK
  <2>5. sendQueue' \in [Guid -> Nat]
    BY <2>1, <2>3 DEF TypeOK
  <2>6. received' \subseteq Guid \X Nat \X Nat /\ kicked' \subseteq Guid \X Nat
    BY <2>2, <2>3 DEF TypeOK
  <2>7. pc' \in {"check", "receive", "tick", "cleanup", "done", "aborted"}
    BY <2>3 DEF TypeOK
  <2> QED BY <2>1, <2>3, <2>4, <2>5, <2>6, <2>7 DEF TypeOK
<1>9. CASE Tick
  <2>1. Receivers({g \in Flushed : sendQueue[g] > 0}) \subseteq Guid \X Nat \X Nat
    BY ReceiversType DEF Flushed, TypeOK
  <2> QED BY <1>9, <2>1 DEF Tick, AfterFlush, TypeOK
<1>10. CASE Cleanup
  BY <1>10 DEF Cleanup, Kept, TypeOK
<1>11. CASE Stop
  BY <1>11 DEF Stop, TypeOK
<1>12. CASE UNCHANGED vars
  BY <1>12 DEF vars, TypeOK
<1> QED BY <1>1, <1>2, <1>3, <1>4, <1>5, <1>6, <1>7, <1>8, <1>9, <1>10, <1>11, <1>12
        DEF Next, Network, Poll

\* The variables of the table and the main loop always hold values of their types.
THEOREM TypeCorrect == Spec => []TypeOK
BY TypeInit, TypeStep, PTL DEF Spec

-----------------------------------------------------------------------------
(* Nothing is erased that still has something to send.                       *)

FlushedAtCleanup == pc = "cleanup" => \A g \in sessions : sendQueue[g] = 0

\* tick empties every queue and only cleanup erases: in between nothing queues.
THEOREM FlushCorrect == Spec => FlushedBeforeErased
<1> DEFINE Erased == \A g \in sessions : g \notin sessions' => sendQueue[g] = 0
<1>1. Init => FlushedAtCleanup
  BY DEF Init, FlushedAtCleanup
<1>2. TypeOK /\ FlushedAtCleanup /\ [Next]_vars => FlushedAtCleanup'
  <2> SUFFICES ASSUME TypeOK, FlushedAtCleanup, [Next]_vars
               PROVE  FlushedAtCleanup'
    OBVIOUS
  <2>1. CASE Tick
    BY <2>1 DEF Tick, Flushed, AfterFlush, FlushedAtCleanup, TypeOK
  <2>2. CASE Network \/ Stop \/ UNCHANGED vars
    BY <2>2 DEF Network, Connect, Leave, SendFrame, Stop, vars, sessionVars, FlushedAtCleanup
  <2>3. CASE Poll /\ ~Tick
    <3>1. pc' # "cleanup"
      BY <2>3 DEF Poll, EnterPoll, LeaveRun, OnConnect, OnDisconnect, DropFrame, Route,
                  EndReceive, Cleanup, Takes
    <3> QED BY <3>1 DEF FlushedAtCleanup
  <2> QED BY <2>1, <2>2, <2>3 DEF Next
<1>3. FlushedAtCleanup /\ [Next]_vars => [Erased]_vars
  <2> SUFFICES ASSUME FlushedAtCleanup, [Next]_vars
               PROVE  Erased
    OBVIOUS
  <2>1. CASE Cleanup
    BY <2>1 DEF Cleanup, FlushedAtCleanup
  <2>2. CASE ~Cleanup
    <3>1. sessions \subseteq sessions'
      BY <2>2 DEF Next, Network, Connect, Leave, SendFrame, Stop, vars, sessionVars, Poll,
                  EnterPoll, LeaveRun, OnConnect, OnDisconnect, DropFrame, Route, EndReceive, Tick
    <3> QED BY <3>1
  <2> QED BY <2>1, <2>2
<1>4. Spec => [](TypeOK /\ FlushedAtCleanup)
  BY <1>1, <1>2, TypeInit, TypeStep, PTL DEF Spec
<1> QED BY <1>3, <1>4, PTL DEF Spec, FlushedBeforeErased

-----------------------------------------------------------------------------
(* The limit.  The table is behind RakNet by the events in the queue, so    *)
(* the invariant looks at the clients that were up before each of them.     *)

Active == {g \in sessions : ~marked[g]}

Follows(U, e) ==
  CASE e.kind = "new" -> U \cup {e.guid}
    [] e.kind = "lost" -> U \ {e.guid}
    [] e.kind = "frame" -> U

\* U[k] were up when the first k events of the queue had happened.
History(U) ==
  /\ U \in [0 .. Len(rx) -> SUBSET Guid]
  /\ U[Len(rx)] = up
  /\ \A k \in 0 .. Len(rx) : Cardinality(U[k]) <= MaxPlayers
  /\ \A k \in 1 .. Len(rx) : U[k] = Follows(U[k - 1], rx[k])

\* The sessions in use are of clients that were up when the table last looked.
Behind == \E U \in [0 .. Len(rx) -> SUBSET Guid] : History(U) /\ Active \subseteq U[0]

LEMMA BehindInit == Init => Behind
<1> SUFFICES ASSUME Init PROVE Behind
  OBVIOUS
<1> DEFINE U == [k \in 0 .. 0 |-> {}]
<1>1. rx = <<>> /\ Len(rx) = 0 /\ up = {} /\ Active = {}
  BY DEF Init, Active
<1>2. U \in [0 .. Len(rx) -> SUBSET Guid] /\ U[0] = {}
  BY <1>1
<1>3. Cardinality({}) <= MaxPlayers
  BY FS_EmptySet, MaxPlayersAssumption
<1>4. History(U)
  BY <1>1, <1>2, <1>3 DEF History
<1> QED BY <1>1, <1>2, <1>4 DEF Behind

\* One more event.
LEMMA BehindAdd ==
  ASSUME TypeOK, Behind, NEW e \in Event,
         rx' = Append(rx, e), up' \in SUBSET Guid, up' = Follows(up, e),
         Cardinality(up') <= MaxPlayers,
         UNCHANGED <<sessions, marked>>
  PROVE  Behind'
<1>1. PICK U \in [0 .. Len(rx) -> SUBSET Guid] : History(U) /\ Active \subseteq U[0]
  BY DEF Behind
<1>0. PICK n \in Nat : n = Len(rx)
  BY Added
<1>2. /\ Len(rx') = n + 1 /\ rx'[n + 1] = e
      /\ \A k \in 1 .. n : rx'[k] = rx[k]
  BY <1>0, Added
<1>3. PICK V \in [0 .. n + 1 -> SUBSET Guid] :
        V = [k \in 0 .. n + 1 |-> IF k <= n THEN U[k] ELSE up']
  BY <1>0, <1>1
<1>4. V[n + 1] = up' /\ V[0] = U[0] /\ \A k \in 0 .. n : V[k] = U[k]
  BY <1>3
<1>5. \A k \in 0 .. n + 1 : Cardinality(V[k]) <= MaxPlayers
  BY <1>0, <1>1, <1>4 DEF History
<1>6. \A k \in 1 .. n + 1 : V[k] = Follows(V[k - 1], rx'[k])
  <2> TAKE k \in 1 .. n + 1
  <2>1. CASE k = n + 1
    <3>1. k - 1 = n /\ n \in 0 .. n
      BY <1>2, <2>1
    <3>2. V[k - 1] = up
      BY <1>0, <1>1, <1>4, <3>1 DEF History
    <3> QED BY <1>2, <1>4, <2>1, <3>2
  <2>2. CASE k # n + 1
    <3>1. k \in 1 .. n /\ k \in 0 .. n /\ k - 1 \in 0 .. n
      BY <1>2, <2>2
    <3>2. V[k] = U[k] /\ V[k - 1] = U[k - 1] /\ rx'[k] = rx[k]
      BY <1>2, <1>4, <3>1
    <3>3. U[k] = Follows(U[k - 1], rx[k])
      BY <1>0, <1>1, <3>1 DEF History
    <3> QED BY <3>2, <3>3
  <2> QED BY <2>1, <2>2
<1>7. History(V)'
  BY <1>2, <1>4, <1>5, <1>6 DEF History, Follows
<1>8. Active' \subseteq V[0]
  BY <1>1, <1>4 DEF Active
<1> QED BY <1>2, <1>7, <1>8 DEF Behind

\* One event less, which the table has followed.
LEMMA BehindTake ==
  ASSUME TypeOK, Behind, rx # <<>>, rx' = Tail(rx), UNCHANGED up,
         \A W \in SUBSET Guid : Active \subseteq W => Active' \subseteq Follows(W, Head(rx))
  PROVE  Behind'
<1>1. PICK U \in [0 .. Len(rx) -> SUBSET Guid] : History(U) /\ Active \subseteq U[0]
  BY DEF Behind
<1>0. PICK n \in Nat \ {0} : n = Len(rx)
  BY Taken
<1>2. /\ Len(rx') = n - 1 /\ Head(rx) = rx[1]
      /\ \A k \in 1 .. n - 1 : rx'[k] = rx[k + 1]
  BY <1>0, Taken
<1>3. PICK V \in [0 .. n - 1 -> SUBSET Guid] : V = [k \in 0 .. n - 1 |-> U[k + 1]]
  <2>1. \A k \in 0 .. n - 1 : k + 1 \in 0 .. n
    BY <1>0
  <2>2. \A k \in 0 .. n - 1 : U[k + 1] \in SUBSET Guid
    BY <1>0, <1>1, <2>1
  <2> QED BY <2>2
<1>4. \A k \in 0 .. n - 1 : V[k] = U[k + 1]
  BY <1>3
<1>5. V[n - 1] = up' /\ V[0] = U[1]
  <2>1. n - 1 \in 0 .. n - 1 /\ 0 \in 0 .. n - 1 /\ (n - 1) + 1 = n /\ 0 + 1 = 1
    BY <1>2
  <2>2. U[n] = up
    BY <1>0, <1>1 DEF History
  <2>3. V[n - 1] = U[n] /\ V[0] = U[1]
    BY <1>4, <2>1
  <2> QED BY <2>2, <2>3
<1>6. \A k \in 0 .. n - 1 : Cardinality(V[k]) <= MaxPlayers
  BY <1>0, <1>1, <1>4 DEF History
<1>7. \A k \in 1 .. n - 1 : V[k] = Follows(V[k - 1], rx'[k])
  <2> TAKE k \in 1 .. n - 1
  <2>1. k + 1 \in 1 .. n /\ (k + 1) - 1 = k /\ k - 1 \in 0 .. n - 1 /\ k \in 0 .. n - 1
        /\ (k - 1) + 1 = k
    BY <1>2
  <2>2. U[k + 1] = Follows(U[k], rx[k + 1])
    BY <1>0, <1>1, <2>1 DEF History
  <2>3. V[k] = U[k + 1] /\ V[k - 1] = U[k] /\ rx'[k] = rx[k + 1]
    BY <1>2, <1>4, <2>1
  <2> QED BY <2>2, <2>3
<1>8. History(V)'
  BY <1>2, <1>5, <1>6, <1>7 DEF History, Follows
<1>9. Active' \subseteq V[0]
  <2>1. 1 \in 1 .. n /\ 1 - 1 = 0 /\ 0 \in 0 .. n
    BY <1>2
  <2>2. U[1] = Follows(U[0], rx[1])
    BY <1>0, <1>1, <2>1 DEF History
  <2>3. U[0] \in SUBSET Guid
    BY <1>0, <1>1, <2>1
  <2> QED BY <1>1, <1>2, <1>5, <2>2, <2>3
<1> QED BY <1>2, <1>8, <1>9 DEF Behind

\* Steps that leave the queue alone.
LEMMA BehindFrame ==
  ASSUME TypeOK, Behind, UNCHANGED <<rx, up>>, Active' \subseteq Active
  PROVE  Behind'
<1>1. PICK U \in [0 .. Len(rx) -> SUBSET Guid] : History(U) /\ Active \subseteq U[0]
  BY DEF Behind
<1>2. History(U)'
  BY <1>1 DEF History, Follows
<1> QED BY <1>1, <1>2 DEF Behind

\* The clients that are up are finitely many and within RakNet's limit.
LEMMA UpLimit ==
  ASSUME TypeOK, Behind
  PROVE  IsFiniteSet(up) /\ Cardinality(up) \in Nat /\ Cardinality(up) <= MaxPlayers
<1>1. IsFiniteSet(up) /\ Cardinality(up) \in Nat
  BY GuidAssumption, FS_Subset, FS_CardinalityType DEF TypeOK
<1>2. Len(rx) \in Nat
  BY LenProperties DEF TypeOK
<1>3. Len(rx) \in 0 .. Len(rx)
  BY <1>2
<1> QED BY <1>1, <1>3 DEF Behind, History

LEMMA BehindStep == TypeOK /\ Behind /\ [Next]_vars => Behind'
<1> SUFFICES ASSUME TypeOK, Behind, [Next]_vars
             PROVE  Behind'
  OBVIOUS
<1>1. ASSUME NEW g \in Guid, Connect(g) PROVE Behind'
  <2> DEFINE e == [kind |-> "new", guid |-> g, epoch |-> epoch[g] + 1]
  <2>1. /\ rx' = Append(rx, e) /\ up' = up \cup {g} /\ g \notin up
        /\ Cardinality(up) < MaxPlayers /\ UNCHANGED <<sessions, marked>>
    BY <1>1 DEF Connect, sessionVars
  <2>2. e \in Event /\ up' = Follows(up, e) /\ up' \in SUBSET Guid
    BY <2>1, NewEvents DEF Follows, TypeOK
  <2>3. Cardinality(up') <= MaxPlayers
    <3>1. /\ IsFiniteSet(up) /\ Cardinality(up) \in Nat
          /\ Cardinality(up \cup {g}) = Cardinality(up) + 1
      BY <2>1, UpLimit, FS_AddElement
    <3> QED BY <2>1, <3>1, MaxPlayersAssumption
  <2> HIDE DEF e
  <2> QED BY <2>1, <2>2, <2>3, BehindAdd
<1>2. ASSUME NEW g \in Guid, Leave(g) PROVE Behind'
  <2> DEFINE e == [kind |-> "lost", guid |-> g, epoch |-> epoch[g]]
  <2>1. rx' = Append(rx, e) /\ up' = up \ {g} /\ g \in up /\ UNCHANGED <<sessions, marked>>
    BY <1>2 DEF Leave, sessionVars
  <2>2. e \in Event /\ up' = Follows(up, e) /\ up' \in SUBSET Guid
    BY <2>1, NewEvents DEF Follows, TypeOK
  <2>3. Cardinality(up') <= MaxPlayers
    <3>1. /\ Cardinality(up) \in Nat /\ Cardinality(up) <= MaxPlayers
          /\ Cardinality(up \ {g}) = Cardinality(up) - 1
      BY <2>1, UpLimit, FS_RemoveElement
    <3> QED BY <2>1, <3>1, MaxPlayersAssumption
  <2> HIDE DEF e
  <2> QED BY <2>1, <2>2, <2>3, BehindAdd
<1>3. ASSUME NEW g \in Guid, SendFrame(g) PROVE Behind'
  <2> DEFINE e == [kind |-> "frame", guid |-> g, epoch |-> epoch[g]]
  <2>1. rx' = Append(rx, e) /\ UNCHANGED <<up, sessions, marked>>
    BY <1>3 DEF SendFrame, sessionVars
  <2>2. e \in Event /\ up' = Follows(up, e) /\ up' \in SUBSET Guid
    BY <2>1, NewEvents DEF Follows, TypeOK
  <2>3. Cardinality(up') <= MaxPlayers
    BY <2>1, UpLimit
  <2> HIDE DEF e
  <2> QED BY <2>1, <2>2, <2>3, BehindAdd
<1>4. CASE OnConnect
  <2> DEFINE g == Head(rx).guid
  <2>1. /\ rx # <<>> /\ Head(rx).kind = "new" /\ rx' = Tail(rx) /\ UNCHANGED up
        /\ sessions' = sessions \cup {g}
        /\ \/ g \notin sessions /\ marked' = [marked EXCEPT ![g] = FALSE]
           \/ marked' = marked
    BY <1>4 DEF OnConnect, FreshSession, Takes, netVars
  <2>2. g \in Guid
    BY <2>1, Taken DEF Event
  <2>3. Active' \subseteq Active \cup {g}
    BY <2>1, <2>2 DEF Active, TypeOK
  <2>4. \A W \in SUBSET Guid : Active \subseteq W => Active' \subseteq Follows(W, Head(rx))
    BY <2>1, <2>3 DEF Follows
  <2> QED BY <2>1, <2>4, BehindTake
<1>5. CASE OnDisconnect
  <2> DEFINE g == Head(rx).guid
  <2>1. /\ rx # <<>> /\ Head(rx).kind = "lost" /\ rx' = Tail(rx) /\ UNCHANGED <<up, sessions>>
        /\ marked' = MarkLost(g)
    BY <1>5 DEF OnDisconnect, Takes, netVars
  <2>2. g \in Guid
    BY <2>1, Taken DEF Event
  <2>3. Active' \subseteq Active \ {g}
    BY <2>1, <2>2 DEF Active, MarkLost, TypeOK
  <2>4. \A W \in SUBSET Guid : Active \subseteq W => Active' \subseteq Follows(W, Head(rx))
    BY <2>1, <2>3 DEF Follows
  <2> QED BY <2>1, <2>4, BehindTake
<1>6. CASE DropFrame \/ \E outcome \in Outcome : Route(outcome)
  <2>1. /\ rx # <<>> /\ Head(rx).kind = "frame" /\ rx' = Tail(rx) /\ UNCHANGED <<up, sessions>>
    BY <1>6 DEF DropFrame, Route, Takes, netVars, sessionVars
  <2>2. Active' \subseteq Active
    <3>1. CASE DropFrame
      BY <3>1 DEF DropFrame, sessionVars, Active
    <3>2. ASSUME NEW outcome \in Outcome, Route(outcome) PROVE Active' \subseteq Active
      <4>1. Head(rx).guid \in Guid
        BY <2>1, Taken DEF Event
      <4>2. marked' = [marked EXCEPT ![Head(rx).guid] = @ \/ outcome = "mark"]
        BY <3>2 DEF Route
      <4> QED BY <2>1, <4>1, <4>2 DEF Active, TypeOK
    <3> QED BY <1>6, <3>1, <3>2
  <2>3. \A W \in SUBSET Guid : Active \subseteq W => Active' \subseteq Follows(W, Head(rx))
    BY <2>1, <2>2 DEF Follows
  <2> QED BY <2>1, <2>3, BehindTake
<1>7. CASE EnterPoll \/ LeaveRun \/ EndReceive \/ Tick \/ Stop \/ UNCHANGED vars
  <2>1. UNCHANGED <<rx, up, sessions, marked>>
    BY <1>7 DEF EnterPoll, LeaveRun, EndReceive, Tick, Stop, vars, netVars, sessionVars
  <2> QED BY <2>1, BehindFrame DEF Active
<1>8. CASE Cleanup
  <2>1. UNCHANGED <<rx, up, marked>> /\ sessions' \subseteq sessions
    BY <1>8 DEF Cleanup, Kept, netVars
  <2> QED BY <2>1, BehindFrame DEF Active
<1> QED BY <1>1, <1>2, <1>3, <1>4, <1>5, <1>6, <1>7, <1>8 DEF Next, Network, Poll

LEMMA BehindCorrect == Spec => [](TypeOK /\ Behind)
BY TypeInit, TypeStep, BehindInit, BehindStep, PTL DEF Spec

\* The sessions in use never outnumber the players RakNet admits.
THEOREM LimitHolds == Spec => []ActiveWithinLimit
<1>1. TypeOK /\ Behind => ActiveWithinLimit
  <2> SUFFICES ASSUME TypeOK, Behind PROVE Cardinality(Active) <= MaxPlayers
    BY DEF ActiveWithinLimit, Active
  <2>1. PICK U \in [0 .. Len(rx) -> SUBSET Guid] : History(U) /\ Active \subseteq U[0]
    BY DEF Behind
  <2>2. 0 \in 0 .. Len(rx)
    BY LenProperties DEF TypeOK
  <2>3. IsFiniteSet(U[0]) /\ Cardinality(U[0]) <= MaxPlayers
    BY <2>1, <2>2, GuidAssumption, FS_Subset DEF History
  <2>4. /\ IsFiniteSet(Active) /\ Cardinality(Active) \in Nat /\ Cardinality(U[0]) \in Nat
        /\ Cardinality(Active) <= Cardinality(U[0])
    BY <2>1, <2>3, FS_Subset, FS_CardinalityType
  <2> QED BY <2>3, <2>4, MaxPlayersAssumption
<1> QED BY <1>1, BehindCorrect, PTL

-----------------------------------------------------------------------------
(* No session outlives its connection.                                       *)

\* Outside poll no session is marked: cleanup was its last step.
Clean == pc \in {"check", "done"} => \A g \in sessions : ~marked[g]

LEMMA CleanStep == TypeOK /\ Clean /\ [Next]_vars => Clean'
<1> SUFFICES ASSUME TypeOK, Clean, [Next]_vars
             PROVE  Clean'
  OBVIOUS
<1>1. CASE Network \/ Stop \/ UNCHANGED vars
  BY <1>1 DEF Network, Connect, Leave, SendFrame, Stop, vars, sessionVars, Clean
<1>2. CASE LeaveRun
  BY <1>2 DEF LeaveRun, sessionVars, Clean
<1>3. CASE Cleanup
  BY <1>3 DEF Cleanup, Kept, Clean
<1>4. CASE Poll /\ ~LeaveRun /\ ~Cleanup
  <2>1. pc' \notin {"check", "done"}
    BY <1>4 DEF Poll, EnterPoll, OnConnect, OnDisconnect, DropFrame, Route, EndReceive, Tick, Takes
  <2> QED BY <2>1 DEF Clean
<1> QED BY <1>1, <1>2, <1>3, <1>4 DEF Next

\* When the table has caught up with RakNet it holds live connections only.
THEOREM NoneStale == Spec => []NoStaleSession
<1>1. TypeOK /\ Behind /\ Clean => NoStaleSession
  <2> SUFFICES ASSUME TypeOK, Behind, Clean, pc \in {"check", "done"}, rx = <<>>
               PROVE  sessions \subseteq up
    BY DEF NoStaleSession
  <2>1. Len(rx) = 0
    OBVIOUS
  <2>2. Active \subseteq up
    BY <2>1 DEF Behind, History
  <2> QED BY <2>2 DEF Active, Clean
<1>2. Init => Clean
  BY DEF Init, Clean
<1>3. Spec => []Clean
  BY <1>2, CleanStep, TypeCorrect, PTL DEF Spec
<1> QED BY <1>1, <1>3, BehindCorrect, PTL

-----------------------------------------------------------------------------
(* The clients that stay away until the server saw them leave: every live  *)
(* connection has its own session, and the table implements ConnectionTable *)

\* The events of g in the queue are of its last connection, and the one that
\* makes its session is still to come only while it has none.
Queued(g) ==
  /\ \A k \in DOMAIN rx : rx[k].guid = g =>
       /\ rx[k].epoch = epoch[g]
       /\ rx[k].kind = "lost" => g \notin up
       /\ rx[k].kind = "new" => g \notin sessions /\ owner[g] < epoch[g]
  /\ \A j, k \in DOMAIN rx :
       /\ rx[j].guid = g /\ rx[j].kind = "new"
       /\ rx[k].guid = g /\ rx[k].kind = "new"
       => j = k

\* Only a handler of its own session takes the session from a live connection.
Serves(g) ==
  g \in up /\ ~Pending(g) /\ <<g, epoch[g]>> \notin kicked => g \in sessions /\ ~marked[g]

PatientOK(g) ==
  /\ Queued(g) /\ Serves(g)
  /\ g \in sessions => owner[g] = epoch[g]
  /\ owner[g] <= epoch[g]
  /\ g \in up \/ Traces(g) => epoch[g] >= 1

AllPatient == \A g \in Patient : PatientOK(g)

-----------------------------------------------------------------------------
LEMMA PatientInit == Init => AllPatient
<1> SUFFICES ASSUME Init, NEW g \in Patient PROVE PatientOK(g)
  BY DEF AllPatient
<1>1. /\ DOMAIN rx = {} /\ sessions = {} /\ up = {} /\ g \in Guid
      /\ owner[g] = 0 /\ epoch[g] = 0
  BY DEF Init, Patient
<1> QED BY <1>1 DEF PatientOK, Queued, Serves, Traces

\* An event of another client, or a frame of this one.
LEMMA PatientAdd ==
  ASSUME TypeOK, NEW g \in Guid, PatientOK(g), NEW e \in Event,
         rx' = Append(rx, e),
         e.guid = g => e.kind = "frame" /\ e.epoch = epoch[g] /\ epoch[g] >= 1,
         g \in up' <=> g \in up, epoch'[g] = epoch[g],
         UNCHANGED <<sessions, owner, marked, kicked>>
  PROVE  PatientOK(g)'
<1> DEFINE n == Len(rx)
<1>1. /\ n \in Nat /\ DOMAIN rx = 1 .. n /\ DOMAIN rx' = 1 .. n + 1
      /\ rx'[n + 1] = e /\ \A k \in 1 .. n : rx'[k] = rx[k]
  BY Added
<1> HIDE DEF n
<1>2. \A k \in DOMAIN rx' : (k \in DOMAIN rx /\ rx'[k] = rx[k]) \/ (k = n + 1 /\ rx'[k] = e)
  BY <1>1
<1>3. \A k \in DOMAIN rx : k \in DOMAIN rx' /\ rx'[k] = rx[k]
  BY <1>1
<1>4. Queued(g)'
  BY <1>2 DEF PatientOK, Queued
<1>5. Pending(g)' <=> Pending(g)
  BY <1>2, <1>3 DEF Pending
<1>6. Serves(g)'
  BY <1>5 DEF PatientOK, Serves
<1>7. Traces(g)' => Traces(g) \/ epoch[g] >= 1
  BY <1>2 DEF Traces
<1> QED BY <1>4, <1>6, <1>7 DEF PatientOK

\* An event is taken that does not make this client's session.
LEMMA PatientTake ==
  ASSUME TypeOK, NEW g \in Guid, PatientOK(g), rx # <<>>, rx' = Tail(rx),
         ~(Head(rx).guid = g /\ Head(rx).kind = "new"),
         UNCHANGED <<up, epoch>>,
         g \in sessions' <=> g \in sessions, owner'[g] = owner[g],
         kicked \subseteq kicked',
         \/ marked'[g] = marked[g]
         \/ g \notin up
         \/ <<g, epoch[g]>> \in kicked'
  PROVE  PatientOK(g)'
<1> DEFINE n == Len(rx)
<1>1. /\ n \in Nat \ {0} /\ DOMAIN rx = 1 .. n /\ DOMAIN rx' = 1 .. n - 1
      /\ rx[1] = Head(rx) /\ \A k \in 1 .. n - 1 : rx'[k] = rx[k + 1]
  BY Taken
<1> HIDE DEF n
<1>2. \A k \in DOMAIN rx' : k \in Nat /\ k + 1 \in DOMAIN rx /\ rx'[k] = rx[k + 1]
  BY <1>1
<1>3. \A k \in DOMAIN rx : k = 1 \/ (k - 1 \in DOMAIN rx' /\ rx'[k - 1] = rx[k])
  <2> TAKE k \in DOMAIN rx
  <2>1. k = 1 \/ (k - 1 \in 1 .. n - 1 /\ (k - 1) + 1 = k)
    BY <1>1
  <2> QED BY <1>1, <2>1
<1>4. Queued(g)'
  <2>1. \A k \in DOMAIN rx' : rx'[k].guid = g =>
          /\ rx'[k].epoch = epoch[g]
          /\ rx'[k].kind = "lost" => g \notin up
          /\ rx'[k].kind = "new" => g \notin sessions /\ owner[g] < epoch[g]
    BY <1>2 DEF PatientOK, Queued
  <2>2. \A j, k \in DOMAIN rx' :
          /\ rx'[j].guid = g /\ rx'[j].kind = "new"
          /\ rx'[k].guid = g /\ rx'[k].kind = "new"
          => j + 1 = k + 1
    BY <1>2 DEF PatientOK, Queued
  <2>3. \A j, k \in DOMAIN rx' : j + 1 = k + 1 => j = k
    BY <1>2
  <2> QED BY <2>1, <2>2, <2>3 DEF Queued
<1>5. Pending(g)' <=> Pending(g)
  BY <1>1, <1>2, <1>3 DEF Pending
<1>6. Serves(g)'
  BY <1>5 DEF PatientOK, Serves
<1>7. Traces(g)' => Traces(g)
  BY <1>2 DEF Traces
<1> QED BY <1>4, <1>6, <1>7 DEF PatientOK

\* The queue stays; a marked session may go.
LEMMA PatientFrame ==
  ASSUME TypeOK, NEW g \in Guid, PatientOK(g),
         UNCHANGED <<up, epoch, rx, owner, kicked, marked>>,
         sessions' \subseteq sessions,
         g \in sessions \ sessions' => marked[g]
  PROVE  PatientOK(g)'
<1>1. Queued(g)'
  BY DEF PatientOK, Queued
<1>2. Serves(g)'
  BY DEF PatientOK, Serves, Pending
<1>3. Traces(g)' => Traces(g)
  BY DEF Traces
<1> QED BY <1>1, <1>2, <1>3 DEF PatientOK

\* A patient client connects when the server has nothing of it.
LEMMA PatientConnect ==
  ASSUME TypeOK, NEW g \in Patient, PatientOK(g), Connect(g)
  PROVE  PatientOK(g)'
<1> DEFINE n == Len(rx)
           e == [kind |-> "new", guid |-> g, epoch |-> epoch[g] + 1]
<1>1. /\ g \in Guid /\ ~Traces(g) /\ rx' = Append(rx, e) /\ epoch' = [epoch EXCEPT ![g] = @ + 1]
      /\ UNCHANGED <<sessions, owner, marked, kicked>>
  BY DEF Connect, Patient, sessionVars, historyVars
<1>2. /\ n \in Nat /\ DOMAIN rx = 1 .. n /\ DOMAIN rx' = 1 .. n + 1
      /\ rx'[n + 1] = e /\ \A k \in 1 .. n : rx'[k] = rx[k]
  BY <1>1, Added, NewEvents
<1> HIDE DEF n
<1>3. \A k \in DOMAIN rx' : rx'[k].guid = g => k = n + 1 /\ rx'[k] = e
  BY <1>1, <1>2 DEF Traces
<1>4. /\ epoch'[g] = epoch[g] + 1 /\ epoch[g] \in Nat /\ owner[g] \in Nat
      /\ owner[g] <= epoch[g] /\ g \notin sessions
  BY <1>1 DEF TypeOK, PatientOK, Traces
<1>5. Queued(g)'
  BY <1>1, <1>3, <1>4 DEF Queued
<1>6. n + 1 \in DOMAIN rx' /\ rx'[n + 1].guid = g /\ rx'[n + 1].kind = "new"
  BY <1>2
<1>7. Serves(g)'
  BY <1>6 DEF Serves, Pending
<1> QED BY <1>1, <1>4, <1>5, <1>7 DEF PatientOK

LEMMA PatientLeave ==
  ASSUME TypeOK, NEW g \in Patient, PatientOK(g), Leave(g)
  PROVE  PatientOK(g)'
<1> DEFINE n == Len(rx)
           e == [kind |-> "lost", guid |-> g, epoch |-> epoch[g]]
<1>1. /\ g \in Guid /\ g \in up /\ rx' = Append(rx, e) /\ up' = up \ {g}
      /\ UNCHANGED <<epoch, sessions, owner, marked, kicked>>
  BY DEF Leave, Patient, sessionVars, historyVars
<1>2. /\ n \in Nat /\ DOMAIN rx = 1 .. n /\ DOMAIN rx' = 1 .. n + 1
      /\ rx'[n + 1] = e /\ \A k \in 1 .. n : rx'[k] = rx[k]
  BY <1>1, Added, NewEvents
<1> HIDE DEF n
<1>3. \A k \in DOMAIN rx' : (k \in DOMAIN rx /\ rx'[k] = rx[k]) \/ (k = n + 1 /\ rx'[k] = e)
  BY <1>2
<1>4. Queued(g)'
  BY <1>1, <1>3 DEF PatientOK, Queued
<1>5. Serves(g)'
  BY <1>1 DEF Serves
<1> QED BY <1>1, <1>4, <1>5 DEF PatientOK

\* The server reads that the client connected: the session is new and its own.
LEMMA PatientOnConnect ==
  ASSUME TypeOK, NEW g \in Patient, PatientOK(g), OnConnect, Head(rx).guid = g
  PROVE  PatientOK(g)'
<1> DEFINE n == Len(rx)
<1>1. g \in Guid /\ rx # <<>> /\ Head(rx).kind = "new" /\ rx' = Tail(rx) /\ UNCHANGED <<up, epoch, kicked>>
  BY DEF OnConnect, Takes, Patient, netVars, historyVars
<1>2. /\ n \in Nat \ {0} /\ DOMAIN rx = 1 .. n /\ DOMAIN rx' = 1 .. n - 1
      /\ rx[1] = Head(rx) /\ \A k \in 1 .. n - 1 : rx'[k] = rx[k + 1]
  BY <1>1, Taken
<1> HIDE DEF n
<1>3. 1 \in DOMAIN rx /\ rx[1].guid = g /\ rx[1].kind = "new"
  BY <1>1, <1>2
<1>4. g \notin sessions /\ Head(rx).epoch = epoch[g] /\ owner[g] < epoch[g]
  BY <1>2, <1>3 DEF PatientOK, Queued
<1>5. /\ sessions' = sessions \cup {g}
      /\ owner' = [owner EXCEPT ![g] = epoch[g]] /\ marked' = [marked EXCEPT ![g] = FALSE]
  BY <1>4 DEF OnConnect, FreshSession
<1>6. owner'[g] = epoch[g] /\ marked'[g] = FALSE /\ epoch[g] \in Nat /\ owner[g] \in Nat
  BY <1>1, <1>5 DEF TypeOK
<1>7. \A k \in DOMAIN rx' : k + 1 \in DOMAIN rx /\ k + 1 # 1 /\ rx'[k] = rx[k + 1]
  BY <1>2
<1>8. \A k \in DOMAIN rx' : ~(rx'[k].guid = g /\ rx'[k].kind = "new")
  BY <1>3, <1>7 DEF PatientOK, Queued
<1>9. Queued(g)'
  BY <1>1, <1>7, <1>8 DEF PatientOK, Queued
<1>10. Serves(g)'
  BY <1>5, <1>6 DEF Serves
<1>11. epoch[g] >= 1
  BY <1>4, <1>6
<1> QED BY <1>1, <1>5, <1>6, <1>9, <1>10, <1>11 DEF PatientOK

LEMMA PatientStep == TypeOK /\ AllPatient /\ [Next]_vars => AllPatient'
<1> SUFFICES ASSUME TypeOK, AllPatient, [Next]_vars, NEW g \in Patient
             PROVE  PatientOK(g)'
  BY DEF AllPatient, Patient
<1>0. g \in Guid /\ PatientOK(g) /\ epoch \in [Guid -> Nat]
  BY DEF AllPatient, Patient, TypeOK
<1>1. ASSUME NEW h \in Guid, Connect(h) PROVE PatientOK(g)'
  <2>1. CASE h = g
    BY <1>0, <1>1, <2>1, PatientConnect
  <2>2. CASE h # g
    <3> DEFINE e == [kind |-> "new", guid |-> h, epoch |-> epoch[h] + 1]
    <3>1. /\ rx' = Append(rx, e) /\ up' = up \cup {h} /\ epoch' = [epoch EXCEPT ![h] = @ + 1]
          /\ UNCHANGED <<sessions, owner, marked, kicked>>
      BY <1>1 DEF Connect, sessionVars, historyVars
    <3>2. e \in Event /\ e.guid # g /\ epoch'[g] = epoch[g]
      BY <1>0, <2>2, <3>1, NewEvents
    <3> HIDE DEF e
    <3> QED BY <1>0, <2>2, <3>1, <3>2, PatientAdd
  <2> QED BY <2>1, <2>2
<1>2. ASSUME NEW h \in Guid, Leave(h) PROVE PatientOK(g)'
  <2>1. CASE h = g
    BY <1>0, <1>2, <2>1, PatientLeave
  <2>2. CASE h # g
    <3> DEFINE e == [kind |-> "lost", guid |-> h, epoch |-> epoch[h]]
    <3>1. /\ rx' = Append(rx, e) /\ up' = up \ {h}
          /\ UNCHANGED <<epoch, sessions, owner, marked, kicked>>
      BY <1>2 DEF Leave, sessionVars, historyVars
    <3>2. e \in Event /\ e.guid # g
      BY <2>2, NewEvents
    <3> HIDE DEF e
    <3> QED BY <1>0, <2>2, <3>1, <3>2, PatientAdd
  <2> QED BY <2>1, <2>2
<1>3. ASSUME NEW h \in Guid, SendFrame(h) PROVE PatientOK(g)'
  <2> DEFINE e == [kind |-> "frame", guid |-> h, epoch |-> epoch[h]]
  <2>1. /\ rx' = Append(rx, e) /\ h \in up
        /\ UNCHANGED <<up, epoch, sessions, owner, marked, kicked>>
    BY <1>3 DEF SendFrame, sessionVars, historyVars
  <2>2. e \in Event /\ (e.guid = g => e.kind = "frame" /\ e.epoch = epoch[g] /\ epoch[g] >= 1)
    BY <1>0, <2>1, NewEvents DEF PatientOK
  <2> HIDE DEF e
  <2> QED BY <1>0, <2>1, <2>2, PatientAdd
<1>4. CASE OnConnect
  <2>1. CASE Head(rx).guid = g
    BY <1>0, <1>4, <2>1, PatientOnConnect
  <2>2. CASE Head(rx).guid # g
    <3> DEFINE h == Head(rx).guid
    <3>1. /\ rx # <<>> /\ rx' = Tail(rx) /\ UNCHANGED <<up, epoch, kicked>>
          /\ sessions' = sessions \cup {h}
      BY <1>4 DEF OnConnect, Takes, netVars, historyVars
    <3>2. /\ owner' = owner \/ owner' = [owner EXCEPT ![h] = Head(rx).epoch]
          /\ marked' = marked \/ marked' = [marked EXCEPT ![h] = FALSE]
      BY <1>4 DEF OnConnect
    <3> HIDE DEF h
    <3>3. h # g
      BY <2>2 DEF h
    <3>4. owner'[g] = owner[g] /\ marked'[g] = marked[g]
      BY <1>0, <3>2, <3>3 DEF TypeOK
    <3> QED BY <1>0, <2>2, <3>1, <3>3, <3>4, PatientTake
  <2> QED BY <2>1, <2>2
<1>5. CASE OnDisconnect
  <2>1. /\ rx # <<>> /\ Head(rx).kind = "lost" /\ rx' = Tail(rx)
        /\ marked' = MarkLost(Head(rx).guid)
        /\ UNCHANGED <<up, epoch, sessions, owner, kicked>>
    BY <1>5 DEF OnDisconnect, Takes, netVars, historyVars
  <2>2. Head(rx).guid = g => g \notin up
    BY <1>0, <2>1, Taken DEF PatientOK, Queued
  <2>3. Head(rx).guid # g => marked'[g] = marked[g]
    BY <1>0, <2>1 DEF MarkLost, TypeOK
  <2> QED BY <1>0, <2>1, <2>2, <2>3, PatientTake
<1>6. CASE DropFrame
  BY <1>0, <1>6, PatientTake DEF DropFrame, Takes, netVars, sessionVars, historyVars
<1>7. ASSUME NEW outcome \in Outcome, Route(outcome) PROVE PatientOK(g)'
  <2> DEFINE h == Head(rx).guid
  <2>1. /\ rx # <<>> /\ Head(rx).kind = "frame" /\ rx' = Tail(rx) /\ h \in sessions
        /\ marked' = [marked EXCEPT ![h] = @ \/ outcome = "mark"]
        /\ kicked' = IF outcome = "mark" THEN kicked \cup {<<h, owner[h]>>} ELSE kicked
        /\ UNCHANGED <<up, epoch, sessions, owner>>
    BY <1>7 DEF Route, Takes, netVars
  <2> HIDE DEF h
  <2>2. CASE h = g /\ outcome = "mark"
    <3>1. <<g, epoch[g]>> \in kicked'
      BY <1>0, <2>1, <2>2 DEF PatientOK
    <3> QED BY <1>0, <2>1, <3>1, PatientTake
  <2>3. CASE h # g \/ outcome # "mark"
    <3>1. marked'[g] = marked[g]
      BY <1>0, <2>1, <2>3 DEF TypeOK
    <3> QED BY <1>0, <2>1, <3>1, PatientTake
  <2> QED BY <2>2, <2>3
<1>8. CASE EnterPoll \/ LeaveRun \/ EndReceive \/ Tick \/ Stop \/ UNCHANGED vars
  <2>1. UNCHANGED <<up, epoch, rx, owner, kicked, marked, sessions>>
    BY <1>8 DEF EnterPoll, LeaveRun, EndReceive, Tick, Stop, vars, netVars, sessionVars, historyVars
  <2> QED BY <1>0, <2>1, PatientFrame
<1>9. CASE Cleanup
  <2>1. UNCHANGED <<up, epoch, rx, owner, kicked, marked>> /\ sessions' = Kept
    BY <1>9 DEF Cleanup, netVars, historyVars
  <2> QED BY <1>0, <2>1, PatientFrame DEF Kept
<1> QED BY <1>1, <1>2, <1>3, <1>4, <1>5, <1>6, <1>7, <1>8, <1>9 DEF Next, Network, Poll

LEMMA PatientCorrect == Spec => [](TypeOK /\ AllPatient)
BY TypeInit, TypeStep, PatientInit, PatientStep, PTL DEF Spec

\* A live connection the server has heard of has a session of its own, whatever
\* the impatient clients do.
THEOREM LiveIsServed == Spec => []LiveConnectionHasSession
<1>1. TypeOK /\ AllPatient => LiveConnectionHasSession
  <2> SUFFICES ASSUME TypeOK, AllPatient, NEW g \in up \ Quick,
                      ~Pending(g), <<g, epoch[g]>> \notin kicked
               PROVE  g \in sessions /\ owner[g] = epoch[g] /\ ~marked[g]
    BY DEF LiveConnectionHasSession
  <2>1. PatientOK(g)
    BY DEF AllPatient, Patient, TypeOK
  <2> QED BY <2>1 DEF PatientOK, Serves
<1> QED BY <1>1, PatientCorrect, PTL

-----------------------------------------------------------------------------
(* The refinement: every step is one of ConnectionTable's for the patient   *)
(* clients, or changes nothing it sees.                                     *)

LEMMA TableInit == Init => Table!Init
BY DEF Init, Table!Init, Patient

\* Nothing changes that the specification sees of a patient client.
LEMMA TableStutter ==
  ASSUME \A g \in Patient : /\ epoch'[g] = epoch[g] /\ owner'[g] = owner[g]
                            /\ g \in up' <=> g \in up
                            /\ g \in sessions' <=> g \in sessions,
         {k \in kicked' : k[1] \in Patient} = {k \in kicked : k[1] \in Patient},
         {r \in received' : r[1] \in Patient} = {r \in received : r[1] \in Patient}
  PROVE  UNCHANGED Table!vars
BY DEF Table!vars, Table!clientVars

LEMMA TableArrive ==
  ASSUME TypeOK, NEW g \in Patient, Connect(g)
  PROVE  Table!Arrive(g)
<1>1. /\ g \in Guid /\ g \notin up /\ up' = up \cup {g} /\ epoch' = [epoch EXCEPT ![g] = @ + 1]
      /\ UNCHANGED <<sessions, owner, kicked, received>>
  BY DEF Connect, Patient, sessionVars, historyVars
<1>2. \A h \in Patient : epoch'[h] = IF h = g THEN epoch[g] + 1 ELSE epoch[h]
  BY <1>1 DEF TypeOK, Patient
<1> QED BY <1>1, <1>2 DEF Table!Arrive

LEMMA TableDepart ==
  ASSUME TypeOK, NEW g \in Patient, PatientOK(g), Leave(g)
  PROVE  Table!Depart(g)
<1>1. /\ g \in up /\ up' = up \ {g} /\ UNCHANGED <<epoch, sessions, owner, kicked, received>>
  BY DEF Leave, sessionVars, historyVars
<1>2. epoch[g] # 0
  BY <1>1 DEF PatientOK, TypeOK, Patient
<1> QED BY <1>1, <1>2 DEF Table!Depart, Table!clientVars

LEMMA TableAdmit ==
  ASSUME TypeOK, NEW g \in Patient, PatientOK(g), OnConnect, Head(rx).guid = g
  PROVE  Table!Admit(g)
<1>1. /\ g \in Guid /\ rx # <<>> /\ Head(rx).kind = "new" /\ rx' = Tail(rx)
      /\ UNCHANGED <<up, epoch, kicked, received>>
  BY DEF OnConnect, Takes, Patient, netVars, historyVars
<1>2. 1 \in DOMAIN rx /\ rx[1] = Head(rx)
  BY <1>1, Taken
<1>3. g \notin sessions /\ Head(rx).epoch = epoch[g] /\ owner[g] < epoch[g]
  BY <1>1, <1>2 DEF PatientOK, Queued
<1>4. sessions' = sessions \cup {g} /\ owner' = [owner EXCEPT ![g] = epoch[g]]
  BY <1>3 DEF OnConnect, FreshSession
<1>5. \A h \in Patient : owner'[h] = IF h = g THEN epoch[g] ELSE owner[h]
  BY <1>4 DEF TypeOK, Patient
<1> QED BY <1>1, <1>3, <1>4, <1>5 DEF Table!Admit, Table!clientVars

\* The answers of some sessions are given to RakNet.
LEMMA TableAnswer ==
  ASSUME TypeOK, AllPatient, NEW F \in SUBSET sessions,
         received' = received \cup Receivers(F),
         UNCHANGED <<up, epoch, sessions, owner, kicked>>
  PROVE  Table!Next
<1> DEFINE serving == [g \in Patient |-> IF g \in sessions THEN owner[g] ELSE 0]
           here == [g \in Patient |-> IF g \in up THEN epoch[g] ELSE 0]
<1>0. PICK G \in SUBSET Patient : G = F \cap Patient
  OBVIOUS
<1> DEFINE A == {<<g, serving[g], serving[g]>> :
                   g \in {h \in G : serving[h] # 0 /\ serving[h] = here[h]}}
<1>1. \A g \in G : owner[g] = epoch[g] /\ epoch[g] >= 1 /\ epoch[g] \in Nat
  BY <1>0 DEF AllPatient, PatientOK, Traces, TypeOK, Patient
<1>2. \A g \in G : /\ serving[g] = epoch[g] /\ owner[g] = epoch[g]
                   /\ (serving[g] # 0 /\ serving[g] = here[g]) <=> g \in up
  BY <1>0, <1>1
<1>3. A = {<<g, epoch[g], epoch[g]>> : g \in G \cap up}
  BY <1>2
<1>4. {<<g, epoch[g], epoch[g]>> : g \in G \cap up} = {<<g, owner[g], epoch[g]>> : g \in G \cap up}
  BY <1>2
<1>5. \A g \in F \cap up : g \in Patient <=> g \in G \cap up
  BY <1>0
<1>6. {r \in Receivers(F) : r[1] \in Patient} = {<<g, owner[g], epoch[g]>> : g \in G \cap up}
  BY <1>0, <1>5 DEF Receivers
<1> HIDE DEF A
<1>7. {r \in received' : r[1] \in Patient} = {r \in received : r[1] \in Patient} \cup A
  BY <1>3, <1>4, <1>6
<1>8. Table!Answer(G)
  BY <1>7 DEF Table!Answer, Table!clientVars, A
<1> QED BY <1>8 DEF Table!Next

\* A handler marks its own session.
LEMMA TableDrop ==
  ASSUME TypeOK, NEW g \in Patient, PatientOK(g), g \in sessions,
         kicked' = kicked \cup {<<g, owner[g]>>},
         UNCHANGED <<up, epoch, sessions, owner, received>>
  PROVE  Table!Drop(g)
<1>1. owner[g] # 0
  BY DEF PatientOK, Traces, TypeOK, Patient
<1>2. {k \in kicked' : k[1] \in Patient} = {k \in kicked : k[1] \in Patient} \cup {<<g, owner[g]>>}
  OBVIOUS
<1> QED BY <1>1, <1>2 DEF Table!Drop, Table!clientVars

\* The marked sessions go: each was dropped by itself, or its connection is over.
LEMMA TableDismiss ==
  ASSUME TypeOK, AllPatient, Cleanup
  PROVE  Table!Next
<1>0. PICK G \in SUBSET Patient : G = {g \in sessions \cap Patient : marked[g]}
  OBVIOUS
<1>1. UNCHANGED <<up, epoch, owner, kicked, received>> /\ sessions' = Kept
  BY DEF Cleanup, netVars, historyVars
<1>2. ASSUME NEW g \in G PROVE Table!Over(g)
  <2>1. PatientOK(g) /\ owner[g] = epoch[g] /\ epoch[g] # 0 /\ g \in sessions /\ marked[g]
    BY <1>0 DEF AllPatient, PatientOK, Traces, TypeOK, Patient
  <2>2. ~Pending(g)
    BY <2>1 DEF PatientOK, Queued, Pending
  <2>3. g \in up => <<g, owner[g]>> \in kicked
    BY <2>1, <2>2 DEF PatientOK, Serves
  <2> QED BY <2>1, <2>3 DEF Table!Over
<1>3. \A g \in Patient : g \in sessions' <=> (g \in sessions /\ g \notin G)
  BY <1>0, <1>1 DEF Kept
<1>4. Table!Dismiss(G)
  BY <1>1, <1>2, <1>3 DEF Table!Dismiss, Table!clientVars
<1> QED BY <1>4 DEF Table!Next

LEMMA TableStep ==
  TypeOK /\ AllPatient /\ [Next]_vars => [Table!Next]_(Table!vars)
<1> SUFFICES ASSUME TypeOK, AllPatient, [Next]_vars PROVE Table!Next \/ UNCHANGED Table!vars
  OBVIOUS
<1>0. \A g \in Patient : g \in Guid /\ PatientOK(g)
  BY DEF AllPatient, Patient
<1>1. ASSUME NEW h \in Guid, Connect(h) PROVE Table!Next \/ UNCHANGED Table!vars
  <2>1. CASE h \in Patient
    BY <1>1, <2>1, TableArrive DEF Table!Next
  <2>2. CASE h \notin Patient
    <3>1. /\ up' = up \cup {h} /\ epoch' = [epoch EXCEPT ![h] = @ + 1]
          /\ UNCHANGED <<sessions, owner, kicked, received>>
      BY <1>1 DEF Connect, sessionVars, historyVars
    <3>2. \A g \in Patient : epoch'[g] = epoch[g]
      BY <1>0, <2>2, <3>1 DEF TypeOK
    <3> QED BY <2>2, <3>1, <3>2, TableStutter
  <2> QED BY <2>1, <2>2
<1>2. ASSUME NEW h \in Guid, Leave(h) PROVE Table!Next \/ UNCHANGED Table!vars
  <2>1. CASE h \in Patient
    BY <1>0, <1>2, <2>1, TableDepart DEF Table!Next
  <2>2. CASE h \notin Patient
    BY <1>2, <2>2, TableStutter DEF Leave, sessionVars, historyVars
  <2> QED BY <2>1, <2>2
<1>3. CASE OnConnect
  <2>1. CASE Head(rx).guid \in Patient
    BY <1>0, <1>3, <2>1, TableAdmit DEF Table!Next
  <2>2. CASE Head(rx).guid \notin Patient
    <3> DEFINE h == Head(rx).guid
    <3>1. /\ UNCHANGED <<up, epoch, kicked, received>> /\ sessions' = sessions \cup {h}
          /\ owner' = owner \/ owner' = [owner EXCEPT ![h] = Head(rx).epoch]
      BY <1>3 DEF OnConnect, netVars, historyVars
    <3>2. \A g \in Patient : owner'[g] = owner[g]
      BY <1>0, <2>2, <3>1 DEF TypeOK
    <3> QED BY <2>2, <3>1, <3>2, TableStutter
  <2> QED BY <2>1, <2>2
<1>4. ASSUME NEW outcome \in Outcome, Route(outcome) PROVE Table!Next \/ UNCHANGED Table!vars
  <2> DEFINE h == Head(rx).guid
  <2>1. /\ h \in sessions /\ UNCHANGED <<up, epoch, sessions, owner>>
        /\ received' = IF outcome = "answer" THEN received \cup Receivers({h}) ELSE received
        /\ kicked' = IF outcome = "mark" THEN kicked \cup {<<h, owner[h]>>} ELSE kicked
    BY <1>4 DEF Route, netVars
  <2> HIDE DEF h
  <2>2. CASE outcome = "answer"
    <3>1. {h} \in SUBSET sessions /\ received' = received \cup Receivers({h}) /\ kicked' = kicked
      BY <2>1, <2>2
    <3> QED BY <2>1, <3>1, TableAnswer
  <2>3. CASE outcome = "mark" /\ h \in Patient
    BY <1>0, <2>1, <2>3, TableDrop DEF Table!Next
  <2>4. CASE outcome = "mark" /\ h \notin Patient
    <3>1. {k \in kicked' : k[1] \in Patient} = {k \in kicked : k[1] \in Patient}
      BY <2>1, <2>4
    <3> QED BY <2>1, <2>4, <3>1, TableStutter
  <2>5. CASE outcome \notin {"answer", "mark"}
    BY <2>1, <2>5, TableStutter
  <2> QED BY <2>2, <2>3, <2>4, <2>5
<1>5. CASE Tick
  <2> DEFINE F == {g \in Flushed : sendQueue[g] > 0}
  <2>1. received' = received \cup Receivers(F) /\ UNCHANGED <<up, epoch, sessions, owner, kicked>>
    BY <1>5 DEF Tick, netVars
  <2>2. F \in SUBSET sessions
    BY DEF Flushed
  <2> HIDE DEF F
  <2> QED BY <2>1, <2>2, TableAnswer
<1>6. CASE Cleanup
  BY <1>6, TableDismiss
<1>7. CASE \/ \E h \in Guid : SendFrame(h)
           \/ EnterPoll \/ LeaveRun \/ OnDisconnect \/ DropFrame \/ EndReceive
           \/ Stop \/ UNCHANGED vars
  <2>1. UNCHANGED <<up, epoch, sessions, owner, kicked, received>>
    BY <1>7 DEF SendFrame, EnterPoll, LeaveRun, OnDisconnect, DropFrame, EndReceive, Stop,
                vars, netVars, sessionVars, historyVars
  <2> QED BY <2>1, TableStutter
<1> QED BY <1>1, <1>2, <1>3, <1>4, <1>5, <1>6, <1>7 DEF Next, Network, Poll

\* To a client that stays away until the server saw it leave, the table is what
\* ConnectionTable promises: one session per connection, given up only when the
\* connection is over or by the session itself, its answers never to another.
THEOREM TableImplemented == Spec => ImplementsTable
<1>1. Spec => Table!Init /\ [][Table!Next]_(Table!vars)
  BY TableInit, TableStep, PatientCorrect, PTL DEF Spec
<1> QED BY <1>1 DEF ImplementsTable, Table!Spec
=============================================================================
