---------------------------- MODULE MCOnboarding ----------------------------
(***************************************************************************)
(* An instance of Onboarding for TLC: an owner connects to two processes,  *)
(* then a pairwise DID is sent to its agent twice through one of them and  *)
(* another one through the other.                                          *)
(***************************************************************************)
EXTENDS Onboarding

MCReqProc == [r \in Requests |-> IF r \in {"r1", "k3"} THEN "p1" ELSE "p2"]
MCWalletOf == [r \in Requests |-> IF r \in {"r1", "r2"} THEN "agent"
                                  ELSE IF r \in {"k1", "k2"} THEN "conn1" ELSE "conn2"]
MCTargetOf == [k \in CreateKeys |-> "r1"]
=============================================================================
