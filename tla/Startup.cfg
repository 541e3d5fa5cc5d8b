\* Two processes that start, with an outage and one failure or death.
SPECIFICATION Spec
CONSTANTS
  Processes = {"p1", "p2"}
  Seeds = {"s1", "s2"}
  NoKey = NoKey
  Seed <- MCSeed
  Deployments <- MCDeployments
  AttemptsThreshold = 1
  Attempts = 2
  MaxOutages = 1
  MaxFailures = 1
INVARIANTS
  OneIdentity
  NoVerkeyOnlyAfterAllAttempts
PROPERTIES
  SpoiltIsFinal
  EveryStartEnds
  HealthyStartSucceeds
