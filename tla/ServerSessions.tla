---------------------------- MODULE ServerSessions ----------------------------
(***************************************************************************)
(* Several sessions that download resource packs from one server: the      *)
(* table of RaknetConnections (src/network/raknet/connection) with the     *)
(* sessions of ResourcePackTransfer in it.                                 *)
(*                                                                         *)
(* One thread handles the packets of all sessions.  The variables of       *)
(* ResourcePackTransfer are the members of the session it is in (`this`),  *)
(* and `saved` holds those of the others.  The archives and their open     *)
(* streams belong to the ResourcePackFactory, which all sessions share, so *)
(* pathSize, streamSize, changed and streamFailed are the same for all.    *)
(*                                                                         *)
(* ResourcePackTransfer looks at one session and has the others in one     *)
(* action, ShortReadElsewhere.  Here they are real, and every one of them  *)
(* is shown to behave as ResourcePackTransfer says.                        *)
(***************************************************************************)
EXTENDS ResourcePackTransfer

CONSTANT Connection     \* bound: the connections clients make, each used once

VARIABLES
  this,      \* the session whose handler the thread is in, or was last
  saved,     \* the members of every other session
  sessions,  \* m_sessions: the sessions of connections that are not erased
  used       \* the connections made so far

tableVars == <<this, saved, sessions, used>>
serverVars == <<vars, tableVars>>

ownVars == <<metaVars, queueVars, marked, aborted, announced, wire, historyVars>>
sharedVars == <<fileVars, streamFailed>>

\* The members of the session the thread is in.
Members ==
  [loadedPacks |-> loadedPacks, chunkCount |-> chunkCount, want |-> want, sent |-> sent,
   nextToSend |-> nextToSend, packQueue |-> packQueue, pendingChunks |-> pendingChunks,
   currentPack |-> currentPack, queueProcessing |-> queueProcessing, marked |-> marked,
   aborted |-> aborted, announced |-> announced, wire |-> wire, asked |-> asked,
   provoked |-> provoked]

\* The members of session c, wherever they are.
Of(c) == IF c = this THEN Members ELSE saved[c]

-----------------------------------------------------------------------------
ServerInit ==
  /\ Init
  /\ this \in Connection
  /\ saved = [c \in Connection |-> Members]   \* what a new session begins with
  /\ sessions = {} /\ used = {}

\* RaknetConnections::onConnect
OnConnect(c) ==
  /\ Idle
  /\ c \notin used
  /\ used' = used \cup {c}
  /\ sessions' = sessions \cup {c}
  /\ UNCHANGED <<vars, this, saved>>

\* The next packet is for another session of the table.  The thread is in no
\* handler: onRaw has come back from the last one.
\* (Bug... definitions are deliberate faults that show the properties can fail.)
BugTwoThreads == ~aborted
HandlerIsDone == Idle

Enter(c) ==
  /\ HandlerIsDone
  /\ c \in sessions \ {this}
  /\ this' = c
  /\ saved' = [saved EXCEPT ![this] = Members]
  /\ loadedPacks' = saved[c].loadedPacks
  /\ chunkCount' = saved[c].chunkCount
  /\ want' = saved[c].want
  /\ sent' = saved[c].sent
  /\ nextToSend' = saved[c].nextToSend
  /\ packQueue' = saved[c].packQueue
  /\ pendingChunks' = saved[c].pendingChunks
  /\ currentPack' = saved[c].currentPack
  /\ queueProcessing' = saved[c].queueProcessing
  /\ marked' = saved[c].marked
  /\ aborted' = saved[c].aborted
  /\ announced' = saved[c].announced
  /\ wire' = saved[c].wire
  /\ asked' = saved[c].asked
  /\ provoked' = saved[c].provoked
  /\ UNCHANGED <<sharedVars, sessions, used>>

\* A packet of the session, or the next turn of its loop.
Session ==
  /\ this \in sessions
  /\ Handle \/ Loop
  /\ UNCHANGED tableVars

\* RaknetConnections::cleanup: the marked sessions go, whatever they still had
\* to send.
Cleanup ==
  /\ Idle
  /\ sessions' = {c \in sessions : ~Of(c).marked}
  /\ sessions' # sessions
  /\ UNCHANGED <<vars, this, saved, used>>

\* Somebody changes the archives; ShortReadElsewhere is not among these steps.
TouchFiles ==
  /\ \E p \in Mutable : Remove(p) \/ \E n \in NewSizes : Rewrite(p, n) \/ Replace(p, n)
  /\ UNCHANGED tableVars

ServerNext ==
  \/ \E c \in Connection : OnConnect(c) \/ Enter(c)
  \/ Session \/ Cleanup \/ TouchFiles

ServerSpec == ServerInit /\ [][ServerNext]_serverVars

-----------------------------------------------------------------------------
(* Properties *)

\* Session c as ResourcePackTransfer sees it.
Transfer(c) ==
  INSTANCE ResourcePackTransfer WITH
    loadedPacks <- Of(c).loadedPacks, chunkCount <- Of(c).chunkCount,
    want <- Of(c).want, sent <- Of(c).sent, nextToSend <- Of(c).nextToSend,
    packQueue <- Of(c).packQueue, pendingChunks <- Of(c).pendingChunks,
    currentPack <- Of(c).currentPack, queueProcessing <- Of(c).queueProcessing,
    marked <- Of(c).marked, aborted <- Of(c).aborted, announced <- Of(c).announced,
    wire <- Of(c).wire, asked <- Of(c).asked, provoked <- Of(c).provoked

\* Every session of the server implements ResourcePackTransfer: however the
\* packets of the sessions come in between each other, all that one of them sees
\* of another is that a stream has failed, between two of its own packets and
\* only after the archive was touched.
EachSessionTransfers ==
  /\ \A c \in Connection : Transfer(c)!Init
  /\ [][\A c \in Connection : [Transfer(c)!Next]_(Transfer(c)!vars)]_serverVars
=============================================================================
