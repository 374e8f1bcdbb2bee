SPECIFICATION ClusterSpec
CONSTANTS
  Node = {1, 2, 3}
  Seed = 1
  Home = 3
  HeartbeatTimeout = 1
  Suspicion = 1
  Confirmation = 2
  Retention = 2
  ActiveSize = 2
  PassiveSize = 2
  Expected = 3
  Mortal = {}
  Partition <- MCRejoin
  MaxFaults = 2
INVARIANT OneLiveCopy
