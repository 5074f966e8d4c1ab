--------------------------- MODULE ChunkDelivery ---------------------------
(***************************************************************************)
(* What a client may rely on while it downloads resource packs, with none  *)
(* of the server's bookkeeping: a chunk is served at most once, and, as    *)
(* long as the session is healthy, in the order in which the chunks were   *)
(* first asked for.  Once the session is broken (it is marked for          *)
(* disconnection, or the process died) the order and completeness are      *)
(* lost, but a chunk is still never served twice nor without being asked.  *)
(*                                                                         *)
(* ResourcePackTransfer implements this specification.                     *)
(***************************************************************************)
EXTENDS Naturals, Sequences

CONSTANT Chunk          \* the chunks of all packs of one server

VARIABLES asked,        \* the chunks asked for, in the order of first request
          served,       \* the chunks served, in order
          broken        \* the session will be dropped

vars == <<asked, served, broken>>

InSeq(c, s) == \E i \in DOMAIN s : s[i] = c

Init == asked = <<>> /\ served = <<>> /\ broken = FALSE

Ask(c) ==
  /\ ~InSeq(c, asked)
  /\ asked' = Append(asked, c)
  /\ UNCHANGED <<served, broken>>

\* The next chunk in the order of the requests.
Serve ==
  /\ ~broken
  /\ Len(served) < Len(asked)
  /\ served' = Append(served, asked[Len(served) + 1])
  /\ UNCHANGED <<asked, broken>>

\* On a broken session chunks may be skipped.
ServeBroken(c) ==
  /\ broken
  /\ InSeq(c, asked) /\ ~InSeq(c, served)
  /\ served' = Append(served, c)
  /\ UNCHANGED <<asked, broken>>

Break ==
  /\ ~broken
  /\ broken' = TRUE
  /\ UNCHANGED <<asked, served>>

Next == Serve \/ Break \/ \E c \in Chunk : Ask(c) \/ ServeBroken(c)

\* A healthy session keeps serving: weak fairness of Serve only.  Nothing
\* forces a client to ask or a session to break.
Spec == Init /\ [][Next]_vars /\ WF_vars(Serve)
=============================================================================
