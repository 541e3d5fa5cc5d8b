------------------------------ MODULE LongPoll ------------------------------
(***************************************************************************)
(* What the long poll of longpoll.js promises its callers, without redis,  *)
(* subscriptions or callbacks.  A poll is answered once.  It is answered   *)
(* `true' because it read the flag of its agent while it was up, or        *)
(* because it was the one poll of its process that a flagging woke up; a   *)
(* flagging reaches a process at most once.  Otherwise it is answered      *)
(* `false' or fails.                                                       *)
(***************************************************************************)
EXTENDS Naturals

CONSTANTS
  Procs, Agents, Polls,
  PollProc,   \* [Polls -> Procs]
  PollAgent   \* [Polls -> Agents]

VARIABLES
  flag,     \* [Agents -> BOOLEAN]: the new-message flag
  status,   \* [Polls -> Status]
  sawFlag,  \* polls that read the flag while it was up
  wakes     \* [Procs -> [Agents -> Nat]]: flaggings that have yet to reach a process

vars == <<flag, status, sawFlag, wakes>>

Status == {"idle", "waiting", "true", "false", "error"}

Init ==
  /\ flag = [a \in Agents |-> FALSE]
  /\ status = [c \in Polls |-> "idle"]
  /\ sawFlag = {}
  /\ wakes = [p \in Procs |-> [a \in Agents |-> 0]]

Start(c) ==
  /\ status[c] = "idle"
  /\ status' = [status EXCEPT ![c] = "waiting"]
  /\ UNCHANGED <<flag, sawFlag, wakes>>

ReadFlag(c) ==
  /\ status[c] = "waiting"
  /\ flag[PollAgent[c]]
  /\ sawFlag' = sawFlag \cup {c}
  /\ UNCHANGED <<flag, status, wakes>>

AnswerTrue(c) ==
  /\ status[c] = "waiting"
  /\ c \in sawFlag
  /\ status' = [status EXCEPT ![c] = "true"]
  /\ UNCHANGED <<flag, sawFlag, wakes>>

AnswerFalse(c) ==
  /\ status[c] = "waiting"
  /\ c \notin sawFlag
  /\ status' = [status EXCEPT ![c] = "false"]
  /\ UNCHANGED <<flag, sawFlag, wakes>>

\* A flagging is sent to the processes in `reached', the ones that listen.
Raise(a, reached) ==
  /\ flag' = [flag EXCEPT ![a] = TRUE]
  /\ wakes' = [p \in Procs |-> [b \in Agents |->
                 IF b = a /\ p \in reached THEN wakes[p][b] + 1 ELSE wakes[p][b]]]
  /\ UNCHANGED <<status, sawFlag>>

Lower(a) ==
  /\ flag' = [flag EXCEPT ![a] = FALSE]
  /\ UNCHANGED <<status, sawFlag, wakes>>

\* It reaches a process, where it wakes up one waiting poll or none.
Wake(p, a) ==
  /\ wakes[p][a] > 0
  /\ wakes' = [wakes EXCEPT ![p][a] = @ - 1]
  /\ \/ UNCHANGED status
     \/ \E c \in Polls : /\ PollProc[c] = p /\ PollAgent[c] = a
                         /\ status[c] = "waiting"
                         /\ status' = [status EXCEPT ![c] = "true"]
  /\ UNCHANGED <<flag, sawFlag>>

\* A crash or a lost connection fails some polls of p and loses what was on its way.
Fail(p) ==
  /\ \E failed \in SUBSET {c \in Polls : PollProc[c] = p /\ status[c] = "waiting"} :
       status' = [c \in Polls |-> IF c \in failed THEN "error" ELSE status[c]]
  /\ wakes' = [wakes EXCEPT ![p] = [a \in Agents |-> 0]]
  /\ UNCHANGED <<flag, sawFlag>>

Next ==
  \/ \E c \in Polls : Start(c) \/ ReadFlag(c) \/ AnswerTrue(c) \/ AnswerFalse(c)
  \/ \E a \in Agents : Lower(a) \/ \E reached \in SUBSET Procs : Raise(a, reached)
  \/ \E p \in Procs : Fail(p) \/ \E a \in Agents : Wake(p, a)

Spec == Init /\ [][Next]_vars
=============================================================================
