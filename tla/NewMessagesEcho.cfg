\* A poll that starts after an ack while an event is still on its way; no failures.
SPECIFICATION HSpec
CONSTANTS
  Procs = {"p1"}
  Agents = {"a1"}
  Polls = {"c1", "c2"}
  Acks = {"k1"}
  Callers = {"c1", "c2", "k1"}
  NoCaller = "nobody"
  NoPoll = "nopoll"
  Value = {"true"}
  Nil = "nil"
  CallerProc <- MCCallerProc
  CallerAgent <- MCCallerAgent
  MaxFlags = 1
  MaxCrashes = 0
  MaxLosses = 0
INVARIANTS
  TrueOnlyForAMessage
\* The requests and flaggings of an instance run out.
CHECK_DEADLOCK FALSE
