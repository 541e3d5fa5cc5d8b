\* Two polls and an ack in one process, a crash and a lost connection.
SPECIFICATION Spec
CONSTANTS
  Procs = {"p1"}
  Agents = {"a1"}
  Polls = {"c1", "c2"}
  Acks = {"k1"}
  Callers = {"c1", "c2", "k1"}
  NoCaller = "nobody"
  NoPoll = "nopoll"
  Value = {1}
  Nil = Nil
  Pending = Pending
  NoMessage = NoMessage
  NotANumber = NotANumber
  Failed = Failed
  CallerProc <- MCCallerProc
  CallerAgent <- MCCallerAgent
  MaxFlags = 1
  MaxCrashes = 1
  MaxLosses = 1
INVARIANTS
  SubscriptionAgreement
PROPERTIES
  EveryRequestEnds
  ImplementsLongPoll
\* The requests, flaggings and failures of an instance run out.
CHECK_DEADLOCK FALSE
