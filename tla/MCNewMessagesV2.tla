-------------------------- MODULE MCNewMessagesV2 ---------------------------
(***************************************************************************)
(* Instances of NewMessagesV2 for TLC: one agent, whose polls and acks are *)
(* served by one process while either process may flag messages.           *)
(***************************************************************************)
EXTENDS NewMessagesV2

MCCallerProc == [c \in Callers |-> "p1"]
MCCallerAgent == [c \in Callers |-> "a1"]
=============================================================================
