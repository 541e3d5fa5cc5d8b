------------------------------ MODULE MCMailbox -----------------------------
(***************************************************************************)
(* An instance of Mailbox for TLC: two messages for two connections of one *)
(* agent, through two processes.                                           *)
(***************************************************************************)
EXTENDS Mailbox

MCConnAgent == [c \in Conns |-> "a1"]
MCDeliveryProc == [d \in Deliveries |-> IF d = "d2" THEN "p2" ELSE "p1"]
MCDeliveryConn == [d \in Deliveries |-> IF d = "d2" THEN "c2" ELSE "c1"]
=============================================================================
