------------------------- MODULE RaknetConnections -------------------------
(***************************************************************************)
(* The server's main loop and its table of sessions: Server::run           *)
(* (src/server.cpp), RaknetHandler::poll and handlePacket                  *)
(* (src/network/raknet/handler/raknet_handler.cpp), McbePacketRouter::route*)
(* and RaknetConnections (src/network/raknet/connection).                  *)
(*                                                                         *)
(* RakNet is external: its own thread accepts and loses connections and    *)
(* queues what happened, in order; the main thread takes one packet per    *)
(* step.  A client is known by its guid only.  When it connects again under*)
(* the same guid that is another connection, with a number (its epoch) the *)
(* code does not have; the model keeps it to say whose session is whose.   *)
(*                                                                         *)
(* What a session does with the packets of a frame is reduced to what this *)
(* table can see: it answers at once, queues an answer, marks the session, *)
(* does nothing, or throws.                                                *)
(***************************************************************************)
EXTENDS Naturals, Sequences, FiniteSets
LOCAL INSTANCE Functions    \* FoldFunction

CONSTANTS
  Guid,            \* the clients
  MaxPlayers,      \* Server::getMaxPlayers(), RakNet's limit of connections
  Quick,           \* clients that may be back before the server saw them leave
  MaxConnects,     \* bound: connections made by all clients together
  MaxFrames        \* bound: frames sent by all clients together

ASSUME GuidAssumption == IsFiniteSet(Guid)
ASSUME MaxPlayersAssumption == MaxPlayers \in Nat
ASSUME BoundAssumption ==
  MaxConnects \in Nat /\ MaxFrames \in Nat /\ Quick \subseteq Guid

Outcome == {"answer", "queue", "mark", "nothing", "throw"}

VARIABLES
  up,          \* clients with a live RakNet connection
  epoch,       \* number of the last connection of a client
  frames,      \* frames sent so far
  rx,          \* what RakNet::Receive will return, in order
  running,     \* Server::m_running
  pc,          \* where the main thread is
  sessions,    \* keys of m_sessions
  owner,       \* the connection a session was made for
  marked,      \* markedForDisconnect of a session
  sendQueue,   \* length of a session's m_sendQueue
  received,    \* history: <<guid, epoch of session, epoch of receiver>>
  kicked       \* history: connections whose session marked itself

netVars == <<up, epoch, frames>>
sessionVars == <<sessions, owner, marked, sendQueue>>
historyVars == <<received, kicked>>
vars == <<netVars, rx, running, pc, sessionVars, historyVars>>

-----------------------------------------------------------------------------
Init ==
  /\ up = {} /\ epoch = [g \in Guid |-> 0] /\ frames = 0
  /\ rx = <<>>
  /\ running = TRUE /\ pc = "check"
  /\ sessions = {}
  /\ owner = [g \in Guid |-> 0]
  /\ marked = [g \in Guid |-> FALSE]
  /\ sendQueue = [g \in Guid |-> 0]
  /\ received = {} /\ kicked = {}

-----------------------------------------------------------------------------
(* RakNet and the clients *)

\* The server still has something of an earlier connection of g.
Traces(g) == g \in sessions \/ \E k \in DOMAIN rx : rx[k].guid = g

Connect(g) ==
  /\ g \notin up
  /\ Cardinality(up) < MaxPlayers
  /\ FoldFunction(+, 0, epoch) < MaxConnects
  /\ g \in Quick \/ ~Traces(g)
  /\ up' = up \cup {g}
  /\ epoch' = [epoch EXCEPT ![g] = @ + 1]
  /\ rx' = Append(rx, [kind |-> "new", guid |-> g, epoch |-> epoch[g] + 1])
  /\ UNCHANGED <<frames, running, pc, sessionVars, historyVars>>

\* Left or lost: ID_DISCONNECTION_NOTIFICATION and ID_CONNECTION_LOST.
Leave(g) ==
  /\ g \in up
  /\ up' = up \ {g}
  /\ rx' = Append(rx, [kind |-> "lost", guid |-> g, epoch |-> epoch[g]])
  /\ UNCHANGED <<epoch, frames, running, pc, sessionVars, historyVars>>

SendFrame(g) ==
  /\ g \in up
  /\ frames < MaxFrames
  /\ frames' = frames + 1
  /\ rx' = Append(rx, [kind |-> "frame", guid |-> g, epoch |-> epoch[g]])
  /\ UNCHANGED <<up, epoch, running, pc, sessionVars, historyVars>>

\* RakPeerInterface::Send by guid: it reaches whichever connection the guid
\* has now, or nobody.
Receivers(G) == {<<g, owner[g], epoch[g]>> : g \in G \cap up}

-----------------------------------------------------------------------------
(* The main thread *)

\* while (m_running)
EnterPoll ==
  /\ pc = "check" /\ running
  /\ pc' = "receive"
  /\ UNCHANGED <<netVars, rx, running, sessionVars, historyVars>>

LeaveRun ==
  /\ pc = "check" /\ ~running
  /\ pc' = "done"
  /\ UNCHANGED <<netVars, rx, running, sessionVars, historyVars>>

Takes(kind) == pc = "receive" /\ rx # <<>> /\ Head(rx).kind = kind

\* m_sessions.emplace: the new session is dropped if the guid has one already.
\* (Bug... definitions are deliberate faults that show the properties can fail.)
BugReuseOld(g) == owner[g] = 0
FreshSession(g) == g \notin sessions

OnConnect ==
  LET g == Head(rx).guid IN
  /\ Takes("new")
  /\ rx' = Tail(rx)
  /\ sessions' = sessions \cup {g}
  /\ IF FreshSession(g)
     THEN /\ owner' = [owner EXCEPT ![g] = Head(rx).epoch]
          /\ marked' = [marked EXCEPT ![g] = FALSE]
          /\ sendQueue' = [sendQueue EXCEPT ![g] = 0]
     ELSE UNCHANGED <<owner, marked, sendQueue>>
  /\ UNCHANGED <<netVars, running, pc, historyVars>>

BugForgetMark(g) == marked
MarkLost(g) == IF g \in sessions THEN [marked EXCEPT ![g] = TRUE] ELSE marked

OnDisconnect ==
  /\ Takes("lost")
  /\ rx' = Tail(rx)
  /\ marked' = MarkLost(Head(rx).guid)
  /\ UNCHANGED <<netVars, running, pc, sessions, owner, sendQueue, historyVars>>

\* A frame of a client without a session is dropped.
DropFrame ==
  /\ Takes("frame") /\ Head(rx).guid \notin sessions
  /\ rx' = Tail(rx)
  /\ UNCHANGED <<netVars, running, pc, sessionVars, historyVars>>

\* The session handles the frame, with one of the outcomes.
Route(outcome) ==
  LET g == Head(rx).guid IN
  /\ Takes("frame") /\ g \in sessions
  /\ rx' = Tail(rx)
  /\ received' = IF outcome = "answer" THEN received \cup Receivers({g}) ELSE received
  /\ sendQueue' = [sendQueue EXCEPT ![g] = IF outcome = "queue" THEN @ + 1 ELSE @]
  /\ marked' = [marked EXCEPT ![g] = @ \/ outcome = "mark"]
  /\ kicked' = IF outcome = "mark" THEN kicked \cup {<<g, owner[g]>>} ELSE kicked
  \* nothing between the handler and main catches an exception
  /\ pc' = IF outcome = "throw" THEN "aborted" ELSE pc
  /\ UNCHANGED <<netVars, running, sessions, owner>>

\* peer->receive() returned nullptr: poll goes on with m_connections.tick().
BugWaitForMore == rx # <<>>
DrainedRx == rx = <<>>
EndReceive ==
  /\ pc = "receive" /\ DrainedRx
  /\ pc' = "tick"
  /\ UNCHANGED <<netVars, rx, running, sessionVars, historyVars>>

\* Every session is flushed, the marked ones too: that is how the last answer
\* of a session still gets out.
BugFlushUnmarked == {g \in sessions : ~marked[g]}
Flushed == sessions
BugSendOne(n) == n - 1
AfterFlush(n) == 0
Tick ==
  /\ pc = "tick"
  /\ received' = received \cup Receivers({g \in Flushed : sendQueue[g] > 0})
  /\ sendQueue' = [g \in Guid |-> IF g \in Flushed THEN AfterFlush(sendQueue[g]) ELSE sendQueue[g]]
  /\ pc' = "cleanup"
  /\ UNCHANGED <<netVars, rx, running, sessions, owner, marked, kicked>>

Kept == {g \in sessions : ~marked[g]}
Cleanup ==
  /\ pc = "cleanup"
  /\ sessions' = Kept
  /\ pc' = "check"
  /\ UNCHANGED <<netVars, rx, running, owner, marked, sendQueue, historyVars>>

-----------------------------------------------------------------------------
\* Server::stop, called by the command thread.
Stop ==
  /\ running
  /\ running' = FALSE
  /\ UNCHANGED <<netVars, rx, pc, sessionVars, historyVars>>

Network == \E g \in Guid : Connect(g) \/ Leave(g) \/ SendFrame(g)

Poll == \/ EnterPoll \/ LeaveRun
        \/ OnConnect \/ OnDisconnect \/ DropFrame
        \/ \E outcome \in Outcome : Route(outcome)
        \/ EndReceive \/ Tick \/ Cleanup

Next == Network \/ Poll \/ Stop

Spec == Init /\ [][Next]_vars

\* The operating system keeps scheduling the main thread.  Clients owe nothing.
FairSpec == Spec /\ WF_vars(Poll)

-----------------------------------------------------------------------------
(* Properties *)

Event == [kind : {"new", "lost", "frame"}, guid : Guid, epoch : Nat]

\* The values the variables take.
TypeOK ==
  /\ up \subseteq Guid
  /\ epoch \in [Guid -> Nat]
  /\ frames \in Nat
  /\ rx \in Seq(Event)
  /\ running \in BOOLEAN
  /\ pc \in {"check", "receive", "tick", "cleanup", "done", "aborted"}
  /\ sessions \subseteq Guid
  /\ owner \in [Guid -> Nat]
  /\ marked \in [Guid -> BOOLEAN]
  /\ sendQueue \in [Guid -> Nat]
  /\ received \subseteq Guid \X Nat \X Nat
  /\ kicked \subseteq Guid \X Nat

\* A session is erased only after its queued answers were given to RakNet.
FlushedBeforeErased ==
  [][\A g \in sessions : g \notin sessions' => sendQueue[g] = 0]_vars

\* The sessions that are not about to be erased never outnumber the players
\* RakNet admits, although the table learns of a departure later than RakNet.
ActiveWithinLimit == Cardinality({g \in sessions : ~marked[g]}) <= MaxPlayers

Pending(g) == \E k \in DOMAIN rx : rx[k].guid = g /\ rx[k].kind = "new"

\* A live connection the server has heard of has a session of its own, unless
\* that session was marked by a handler, whatever the quick clients do.  (A quick
\* client may lose its session: emplace keeps the old one, cleanup erases it.)
LiveConnectionHasSession ==
  \A g \in up \ Quick :
    ~Pending(g) /\ <<g, epoch[g]>> \notin kicked =>
      g \in sessions /\ owner[g] = epoch[g] /\ ~marked[g]

\* No session outlives its connection: when the table has caught up with
\* RakNet, every session it keeps belongs to a live connection.
NoStaleSession ==
  pc \in {"check", "done"} /\ rx = <<>> => sessions \subseteq up

\* The session of a connection that is over is erased in the end, whatever its
\* client does meanwhile, unless the server stops first.
DepartedAreForgotten ==
  \A g \in Guid : \A n \in 1 .. MaxConnects :
    (g \in sessions /\ owner[g] = n /\ ~(g \in up /\ epoch[g] = n))
      ~> (~(g \in sessions /\ owner[g] = n) \/ ~running \/ pc = "aborted")

\* For the clients that stay away until the server saw them leave, the table
\* with its marks, its polls and its lookups by guid is a ConnectionTable: one
\* session per connection, dismissed only when it is over, and every answer
\* reaches the connection whose session produced it, or nobody.
Patient == Guid \ Quick
Table ==
  INSTANCE ConnectionTable WITH
    Client <- Patient,
    made <- [g \in Patient |-> epoch[g]],
    here <- [g \in Patient |-> IF g \in up THEN epoch[g] ELSE 0],
    admitted <- [g \in Patient |-> owner[g]],
    serving <- [g \in Patient |-> IF g \in sessions THEN owner[g] ELSE 0],
    dropped <- {k \in kicked : k[1] \in Patient},
    answered <- {r \in received : r[1] \in Patient}
ImplementsTable == Table!Spec

\* stop() ends the run of the main thread.
StopEndsRun == ~running ~> pc \in {"done", "aborted"}
=============================================================================
