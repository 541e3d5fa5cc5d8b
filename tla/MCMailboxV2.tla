---------------------------- MODULE MCMailboxV2 ----------------------------
(***************************************************************************)
(* An instance of MailboxV2 for TLC: three messages, two of them through   *)
(* one process.                                                            *)
(***************************************************************************)
EXTENDS MailboxV2

MCDeliveryProc == [d \in Deliveries |-> IF d = "d2" THEN "p2" ELSE "p1"]
=============================================================================
