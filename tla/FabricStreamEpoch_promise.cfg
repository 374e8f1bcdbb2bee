SPECIFICATION EpochFairSpec
CONSTANTS
  n1 = n1
  n2 = n2
  n3 = n3
  x = x
  y = y
  Node <- MCNodes3
  Score <- MCScore3
  Payload = {x}
  ReplicationFactor = 3
  MaxSequence = 1
  Views <- MCViews
  Factors = {2}
  MaxRecords = 1
  MaxEpoch = 3
  MaxFaults = 2
PROPERTIES
  FailoverConverges
