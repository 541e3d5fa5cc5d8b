----------------------------- MODULE LongPollV2 -----------------------------
(***************************************************************************)
(* What the long poll of longpoll-v2.js promises its callers, without      *)
(* redis, subscriptions or the map of callbacks.  A poll is answered once. *)
(* It is answered with the flag it has read itself, or through a callback: *)
(* a flagging reaches a process at most once and leads to at most one      *)
(* callback there, which reads the flag once more and may find it acked.   *)
(* Either way the answer was the flag at some moment of the poll.  A poll  *)
(* that found no flag may time out, and any poll may fail.                 *)
(***************************************************************************)
EXTENDS Naturals

CONSTANTS
  Procs, Agents, Polls,
  PollProc,    \* [Polls -> Procs]
  PollAgent,   \* [Polls -> Agents]
  Value, Nil,  \* a flag is the time of a message, or Nil
  Pending, NoMessage, NotANumber, Failed  \* what a promise may be besides a time

VARIABLES
  flag,     \* [Agents -> Value or Nil]
  started,  \* polls that were received
  result,   \* [Polls -> Value or Pending, NoMessage, NotANumber, Failed]
  found,    \* [Polls -> Value or Nil]: the flag a poll has read itself
  seen,     \* [Polls -> SUBSET Value]: the flags there were during a poll
  wakes,    \* [Procs -> [Agents -> Nat]]: flaggings that have yet to reach a process
  calls     \* [Polls -> Nat]: callbacks on their way

vars == <<flag, started, result, found, seen, wakes, calls>>

Waiting(c) == c \in started /\ result[c] = Pending

Init ==
  /\ flag = [a \in Agents |-> Nil]
  /\ started = {}
  /\ result = [c \in Polls |-> Pending]
  /\ found = [c \in Polls |-> Nil]
  /\ seen = [c \in Polls |-> {}]
  /\ wakes = [p \in Procs |-> [a \in Agents |-> 0]]
  /\ calls = [c \in Polls |-> 0]

Start(c) ==
  /\ c \notin started
  /\ started' = started \cup {c}
  /\ seen' = [seen EXCEPT ![c] = {flag[PollAgent[c]]} \ {Nil}]
  /\ UNCHANGED <<flag, result, found, wakes, calls>>

ReadFlag(c) ==
  /\ Waiting(c)
  /\ found[c] = Nil
  /\ found' = [found EXCEPT ![c] = flag[PollAgent[c]]]
  /\ UNCHANGED <<flag, started, result, seen, wakes, calls>>

AnswerFound(c) ==
  /\ Waiting(c)
  /\ found[c] \in seen[c]
  /\ result' = [result EXCEPT ![c] = found[c]]
  /\ UNCHANGED <<flag, started, found, seen, wakes, calls>>

TimeOut(c) ==
  /\ Waiting(c)
  /\ found[c] = Nil
  /\ result' = [result EXCEPT ![c] = NoMessage]
  /\ UNCHANGED <<flag, started, found, seen, wakes, calls>>

\* A flagging with time t is sent to the processes in `reached', the ones that listen.
Raise(a, t, reached) ==
  /\ flag' = [flag EXCEPT ![a] = t]
  /\ seen' = [c \in Polls |-> IF PollAgent[c] = a /\ Waiting(c) THEN seen[c] \cup {t} ELSE seen[c]]
  /\ wakes' = [p \in Procs |-> [b \in Agents |->
                 IF b = a /\ p \in reached THEN wakes[p][b] + 1 ELSE wakes[p][b]]]
  /\ UNCHANGED <<started, result, found, calls>>

Lower(a) ==
  /\ flag' = [flag EXCEPT ![a] = Nil]
  /\ UNCHANGED <<started, result, found, seen, wakes, calls>>

\* It reaches a process, where it leads to the callback of one poll or none.
Wake(p, a) ==
  /\ wakes[p][a] > 0
  /\ wakes' = [wakes EXCEPT ![p][a] = @ - 1]
  /\ \/ UNCHANGED calls
     \/ \E c \in started : /\ PollProc[c] = p /\ PollAgent[c] = a
                           /\ calls' = [calls EXCEPT ![c] = @ + 1]
  /\ UNCHANGED <<flag, started, result, found, seen>>

\* Its callback answers a poll that still waits, NaN when the flag was gone.
CallBack(c) ==
  /\ calls[c] > 0
  /\ calls' = [calls EXCEPT ![c] = @ - 1]
  /\ \/ ~Waiting(c) /\ UNCHANGED result
     \/ /\ Waiting(c)
        /\ \E t \in seen[c] \cup {NotANumber} : result' = [result EXCEPT ![c] = t]
  /\ UNCHANGED <<flag, started, found, seen, wakes>>

\* A crash or a lost connection fails some polls of p and loses what was on its way;
\* only a crash loses callbacks.
Fail(p) ==
  /\ \E failed \in SUBSET {c \in Polls : PollProc[c] = p /\ Waiting(c)} :
       result' = [c \in Polls |-> IF c \in failed THEN Failed ELSE result[c]]
  /\ wakes' = [wakes EXCEPT ![p] = [a \in Agents |-> 0]]
  /\ \/ UNCHANGED calls
     \/ calls' = [c \in Polls |-> IF PollProc[c] = p THEN 0 ELSE calls[c]]
  /\ UNCHANGED <<flag, started, found, seen>>

Next ==
  \/ \E c \in Polls : Start(c) \/ ReadFlag(c) \/ AnswerFound(c) \/ TimeOut(c) \/ CallBack(c)
  \/ \E a \in Agents : Lower(a) \/ \E t \in Value, reached \in SUBSET Procs : Raise(a, t, reached)
  \/ \E p \in Procs : Fail(p) \/ \E a \in Agents : Wake(p, a)

Spec == Init /\ [][Next]_vars
=============================================================================
