\* Two polls, an ack and two messages, a crash and a lost connection.
SPECIFICATION Spec
CONSTANTS
  Procs = {"p1"}
  Agents = {"a1"}
  Polls = {"c1", "c2"}
  Acks = {"k1"}
  Callers = {"c1", "c2", "k1"}
  NoCaller = "nobody"
  NoPoll = "nopoll"
  Value = {"true"}
  Nil = "nil"
  CallerProc <- MCCallerProc
  CallerAgent <- MCCallerAgent
  MaxFlags = 2
  MaxCrashes = 1
  MaxLosses = 1
INVARIANTS
  NobodyWaitsInVain
  SubscriptionAgreement
  WakeupNotLost
PROPERTIES
  ImplementsLongPoll
  WokenWhenArmed
  RemovedByOwnerOrAck
  EveryRequestEnds
\* The requests, flaggings and failures of an instance run out.
CHECK_DEADLOCK FALSE
