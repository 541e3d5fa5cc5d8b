\* Two Connects of one owner, three CreateKeys for its agent, a crash and a failure.
SPECIFICATION Spec
CONSTANTS
  Procs = {"p1", "p2"}
  Connects = {"r1", "r2"}
  CreateKeys = {"k1", "k2", "k3"}
  Wallets = {"agent", "conn1", "conn2"}
  ReqProc <- MCReqProc
  WalletOf <- MCWalletOf
  TargetOf <- MCTargetOf
  NoKey = "nokey"
  MaxCrashes = 1
  MaxFailures = 1
INVARIANTS
  OneEntityPerWallet
  RecordsOpenTheirWallet
  AnsweredIsComplete
  OpenWalletsAreCached
  NoRequestIsStuck
PROPERTIES
  ImplementsRegistry
  EveryRequestEnds
\* The requests and the failures of an instance run out.
CHECK_DEADLOCK FALSE
