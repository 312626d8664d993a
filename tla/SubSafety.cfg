CONSTANTS
  t1 = t1
  t2 = t2
  d1 = d1
  NoTopic = NoTopic
  Topics <- MCTopics
  Intervals <- MCIntervals
  Decoders <- MCDecoders
  MaxMsgs = 1
  MaxCalls = 3
SYMMETRY MCSymmetry
SPECIFICATION Spec
INVARIANTS
  TypeOK
  CallbackFollowsTopic
  NobodyInsideWhenGone
  AppliedOrReported
  StaleIntervalIsForced
  NestedAreAlive
