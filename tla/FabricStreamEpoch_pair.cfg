SPECIFICATION EpochSpec
CONSTANTS
  n1 = n1
  n2 = n2
  n3 = n3
  x = x
  y = y
  Node <- MCNodes2
  Score <- MCScore2
  Payload <- MCPayload
  ReplicationFactor = 2
  MaxSequence = 2
  Views <- MCViews2
  Factors = {1, 2}
  MaxRecords = 1
  MaxEpoch = 3
  MaxFaults = 1
SYMMETRY MCSymmetry
INVARIANTS
  LeaderCanRecover
PROPERTIES
  EpochImplementsCommittedLog
