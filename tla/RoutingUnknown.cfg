\* A message for a DID that nobody has.
SPECIFICATION Spec
CONSTANTS
  Dids = {"a", "b", "p", "q", "s"}
  Keys = {"ka", "kb", "kp", "kq"}
  NoOne = NoOne
  Requests = {"r1", "r2", "r3"}
  Urls = {"http"}
  NoUrl = "nourl"
  BadUrl = "badurl"
  Sendable <- MCSendable
  OwnerAtStart <- MCOwnerAtStart
  AgentAtStart <- MCAgentAtStart
  PairwiseAtStart <- MCPairwiseAtStart
  Strangers = {"s"}
  MaxFailures = 1
INVARIANT
  UnknownIsNotFound
\* The requests of an instance run out.
CHECK_DEADLOCK FALSE
