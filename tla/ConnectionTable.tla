--------------------------- MODULE ConnectionTable ---------------------------
(***************************************************************************)
(* What the clients may rely on of the server's table of sessions, with    *)
(* none of its packets, guids that are looked up, marks or polls: every    *)
(* connection is served by at most one session, made for it alone and once *)
(* only; the session is given up only when its connection is over or when  *)
(* the session itself dropped it; and what it answers reaches its own      *)
(* connection or nobody.                                                   *)
(*                                                                         *)
(* RaknetConnections implements this specification for all clients that    *)
(* stay away until the server saw them leave.                              *)
(***************************************************************************)
EXTENDS Naturals

CONSTANT Client

VARIABLES
  made,      \* how many connections a client has made
  here,      \* the number of its live connection, 0 without one
  admitted,  \* the last of its connections that got a session
  serving,   \* the connection its present session serves, 0 without one
  dropped,   \* <<client, connection>> whose session gave it up
  answered   \* <<client, connection of the session, connection it reached>>

clientVars == <<made, here>>
vars == <<clientVars, admitted, serving, dropped, answered>>

Init ==
  /\ made = [g \in Client |-> 0] /\ here = [g \in Client |-> 0]
  /\ admitted = [g \in Client |-> 0] /\ serving = [g \in Client |-> 0]
  /\ dropped = {} /\ answered = {}

Arrive(g) ==
  /\ here[g] = 0
  /\ made' = [made EXCEPT ![g] = @ + 1]
  /\ here' = [here EXCEPT ![g] = made[g] + 1]
  /\ UNCHANGED <<admitted, serving, dropped, answered>>

Depart(g) ==
  /\ here[g] # 0
  /\ here' = [here EXCEPT ![g] = 0]
  /\ UNCHANGED <<made, admitted, serving, dropped, answered>>

\* The last connection gets the client's session; it may be over by now.
Admit(g) ==
  /\ serving[g] = 0
  /\ admitted[g] < made[g]
  /\ admitted' = [admitted EXCEPT ![g] = made[g]]
  /\ serving' = [serving EXCEPT ![g] = made[g]]
  /\ UNCHANGED <<clientVars, dropped, answered>>

Answer(G) ==
  /\ answered' = answered \cup {<<g, serving[g], serving[g]>> :
                                  g \in {h \in G : serving[h] # 0 /\ serving[h] = here[h]}}
  /\ UNCHANGED <<clientVars, admitted, serving, dropped>>

Drop(g) ==
  /\ serving[g] # 0
  /\ dropped' = dropped \cup {<<g, serving[g]>>}
  /\ UNCHANGED <<clientVars, admitted, serving, answered>>

\* The sessions of G end together.
Over(g) == serving[g] # here[g] \/ <<g, serving[g]>> \in dropped
Dismiss(G) ==
  /\ \A g \in G : Over(g)
  /\ serving' = [g \in Client |-> IF g \in G THEN 0 ELSE serving[g]]
  /\ UNCHANGED <<clientVars, admitted, dropped, answered>>

Next ==
  \/ \E g \in Client : Arrive(g) \/ Depart(g) \/ Admit(g) \/ Drop(g)
  \/ \E G \in SUBSET Client : Answer(G) \/ Dismiss(G)

Spec == Init /\ [][Next]_vars
=============================================================================
