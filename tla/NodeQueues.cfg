SPECIFICATION QueuesSpec
CONSTANTS
  p1 = p1
  p2 = p2
  Producer <- MCProducer
  Scheduler = sched
  Behavior = {1, 2}
  ReceiveArms <- MCArms
  Capacity = 1
  MaxSent = 3
  small = small
  large = large
  torn = torn
  c1 = c1
  Payload <- MCPayload
  Torn = torn
  Consumer = {c1}
  Size <- MCSize
  SegmentMax = 5
  MaxSequence = 4
CHECK_DEADLOCK FALSE
INVARIANTS
  QueuesTypeOK
  CapacityIsRespected
  NothingLostOrRepeated
  SkippedMessagesKeepOrder
  CandidateIsEarliest
  CachedStateIsExact
  AckedRecordsSurvive
PROPERTIES
  NoAnswerIsMissed
  ImplementsDurableLog
SYMMETRY MCSymmetry
