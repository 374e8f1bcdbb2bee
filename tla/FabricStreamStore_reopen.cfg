SPECIFICATION Spec
CONSTANTS
  small = small
  large = large
  torn = torn
  c1 = c1
  Payload <- MCPayload
  Torn = torn
  Consumer = {c1}
  Size <- MCSize
  SegmentMax = 5
  MaxSequence = 2
CHECK_DEADLOCK FALSE
INVARIANTS
  CrashedStreamReopens
