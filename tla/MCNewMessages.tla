--------------------------- MODULE MCNewMessages ----------------------------
(***************************************************************************)
(* Instances of NewMessages for TLC: polls and an ack of one agent in one  *)
(* process.                                                                *)
(***************************************************************************)
EXTENDS NewMessages

MCCallerProc == [c \in Callers |-> "p1"]
MCCallerAgent == [c \in Callers |-> "a1"]
=============================================================================
