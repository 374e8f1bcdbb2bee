SPECIFICATION EpochSpec
CONSTANTS
  n1 = n1
  n2 = n2
  n3 = n3
  x = x
  y = y
  Node <- MCNodes3
  Score <- MCScore3
  Payload <- MCOnePayload
  ReplicationFactor = 3
  MaxSequence = 2
  Views <- MCViews
  Factors = {1}
  MaxRecords = 1
  MaxEpoch = 2
  MaxFaults = 2
INVARIANTS
  LatestLeaderIsComplete
