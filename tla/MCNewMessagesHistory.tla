------------------------ MODULE MCNewMessagesHistory ------------------------
(***************************************************************************)
(* The instance of NewMessagesHistory for TLC: one agent and one process.  *)
(***************************************************************************)
EXTENDS NewMessagesHistory

MCCallerProc == [c \in Callers |-> "p1"]
MCCallerAgent == [c \in Callers |-> "a1"]
=============================================================================
