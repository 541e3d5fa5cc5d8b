\* Two messages for two connections of an agent, and a fault, in both types of agencies.
SPECIFICATION Spec
CONSTANTS
  Procs = {"p1", "p2"}
  Agents = {"a1"}
  Conns = {"c1", "c2"}
  ConnAgent <- MCConnAgent
  Deliveries = {"d1", "d2"}
  DeliveryProc <- MCDeliveryProc
  DeliveryConn <- MCDeliveryConn
  Urls = {"url"}
  NoUrl = "nourl"
  MaxUrls = 1
  MaxFaults = 1
INVARIANTS
  StoredIsAnnounced
  AcceptedIsStored
  PrunedWasSeen
PROPERTIES
  ImplementsInbox
  DeliveredInTheEnd
