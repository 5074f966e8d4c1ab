--------------------------- MODULE MCPackRegistry ---------------------------
(* Model values of the runs of PackRegistry.                               *)
EXTENDS PackRegistry

AllKinds == {"other", "broken", "incomplete", "noUuid", "noVersion", "good"}
=============================================================================
