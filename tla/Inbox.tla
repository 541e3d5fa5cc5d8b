------------------------------- MODULE Inbox --------------------------------
(***************************************************************************)
(* What an agency promises of the messages it is sent, without processes,  *)
(* flags, webhooks and connections.  The sender of a message is told that  *)
(* it was accepted only when it is stored; an error says nothing about it. *)
(* The owner downloads what is stored, as often as it likes, and a message *)
(* is marked as read, and thereby given up to pruning, only after it was   *)
(* downloaded.                                                             *)
(***************************************************************************)
CONSTANT Messages

VARIABLES
  row,        \* [Messages -> Row]: the status code of each, if it is stored
  answer,     \* [Messages -> Answer]: what its sender was told
  downloaded  \* messages the owner has downloaded

vars == <<row, answer, downloaded>>

Row == {"none", "MS-103", "MS-106", "pruned"}
Answer == {"none", "accepted", "failed"}

Init ==
  /\ row = [m \in Messages |-> "none"]
  /\ answer = [m \in Messages |-> "none"]
  /\ downloaded = {}

\* The sender may be told of an error although its message was stored.
Store(m) ==
  /\ row[m] = "none" /\ answer[m] = "none"
  /\ row' = [row EXCEPT ![m] = "MS-103"]
  /\ answer' \in {answer, [answer EXCEPT ![m] = "failed"]}
  /\ UNCHANGED downloaded

Accept(m) ==
  /\ answer[m] = "none" /\ row[m] # "none"
  /\ answer' = [answer EXCEPT ![m] = "accepted"]
  /\ UNCHANGED <<row, downloaded>>

\* One sender, or all those of a process that dies, are not told of any success.
Fail(failing) ==
  /\ \A m \in failing : answer[m] = "none"
  /\ answer' = [m \in Messages |-> IF m \in failing THEN "failed" ELSE answer[m]]
  /\ UNCHANGED <<row, downloaded>>

Stored(ms) == \A m \in ms : row[m] \in {"MS-103", "MS-106"}

Download(ms) ==
  /\ Stored(ms)
  /\ downloaded' = downloaded \cup ms
  /\ UNCHANGED <<row, answer>>

MarkRead(ms) ==
  /\ Stored(ms) /\ ms \subseteq downloaded
  /\ row' = [m \in Messages |-> IF m \in ms THEN "MS-106" ELSE row[m]]
  /\ UNCHANGED <<answer, downloaded>>

Prune ==
  /\ row' = [m \in Messages |-> IF row[m] = "MS-106" THEN "pruned" ELSE row[m]]
  /\ UNCHANGED <<answer, downloaded>>

Next ==
  \/ \E m \in Messages : Store(m) \/ Accept(m)
  \/ \E ms \in SUBSET Messages : Fail(ms) \/ Download(ms) \/ MarkRead(ms)
  \/ Prune

Spec == Init /\ [][Next]_vars
=============================================================================
