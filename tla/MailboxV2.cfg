\* Three messages through two processes whose clocks may differ, and a fault.
SPECIFICATION Spec
CONSTANTS
  Procs = {"p1", "p2"}
  Deliveries = {"d1", "d2", "d3"}
  DeliveryProc <- MCDeliveryProc
  Nobody = Nobody
  MaxTime = 2
  MaxSkew = 1
  MaxFaults = 1
INVARIANTS
  AckIsOnItsWay
  StoredIsAnnounced
PROPERTIES
  ExactInStep
  FlagGoesBackOnlyAcross
  DeliveredInTheEnd
