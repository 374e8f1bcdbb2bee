SPECIFICATION ReplicasSpec
CONSTANTS
  n1 = n1
  n2 = n2
  x = x
  y = y
  Node <- MCNodes
  Score <- MCScore
  Payload <- MCPayload
  ReplicationFactor = 2
  MaxSequence = 2
  Peer = {1, 2}
  Creator = 1
  Element = {x}
  MaxTag = 2
  Tag <- MCTag
  Bounds <- MCBounds
  FullEvery = 3
INVARIANTS
  TypeOK
  FollowersMirrorLeader
  CommitsAreQuorumDurable
  TailIsReconstructible
  RecoveryAlwaysSucceeds
  ProgressIsDurable
  
  
PROPERTIES
  ImplementsCommittedLog
  TailEventuallyCommits
  
