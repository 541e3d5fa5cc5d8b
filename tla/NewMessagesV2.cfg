\* Two polls, an ack and two messages in any order; no failures.
SPECIFICATION Spec
CONSTANTS
  Procs = {"p1", "p2"}
  Agents = {"a1"}
  Polls = {"c1", "c2"}
  Acks = {"k1"}
  Callers = {"c1", "c2", "k1"}
  NoCaller = "nobody"
  NoPoll = "nopoll"
  Value = {1, 2}
  Nil = Nil
  Pending = Pending
  NoMessage = NoMessage
  NotANumber = NotANumber
  Failed = Failed
  CallerProc <- MCCallerProc
  CallerAgent <- MCCallerAgent
  MaxFlags = 2
  MaxCrashes = 0
  MaxLosses = 0
INVARIANTS
  WakeupNotLost
  AnswerFresh
PROPERTIES
  LaterFlagLostOnlyByRace
\* The requests, flaggings and failures of an instance run out.
CHECK_DEADLOCK FALSE
