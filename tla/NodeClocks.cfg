SPECIFICATION ClocksSpec
CONSTANTS
  None = none
  Actor = {a1, a2}
  Arm = {1, 2}
  Levels = {1, 2}
  MaxDelay = 2
  MaxOps = 4
  Trees <- MCTrees
  MaxRestarts = 1
  Window = 1
  MaxId = 8
  MaxCalls = 2
  MaxTime = 1
  MaxTies = 2
  Node = {1, 2, 3}
  Seed = 1
  Home = 3
  HeartbeatTimeout = 1
  Suspicion = 1
  Confirmation = 3
  Retention = 3
  ActiveSize = 2
  PassiveSize = 2
  Expected = 3
  Mortal = {1, 2, 3}
  Partition <- MCIsolations
  MaxFaults = 1
CHECK_DEADLOCK FALSE
INVARIANTS
  ClocksTypeOK
  MailIsScheduledOnce
  NoMatchIsMissed
  RestartsAreBounded
  
  WatchersAreTold
  NoFalseSuspicion
  OneLiveCopy
PROPERTIES
  
  WaitsEnd
  
  IsolatedNodeGoesDown
  OrphansReturn
