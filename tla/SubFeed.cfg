CONSTANTS
  t1 = t1
  t2 = t2
  d1 = d1
  NoTopic = NoTopic
  Topics <- MCOneTopic
  Intervals <- MCIntervals
  Decoders <- MCNoDecoders
  MaxMsgs = 2
  MaxCalls = 2
SPECIFICATION Spec
PROPERTIES
  BatchSeesOneConfiguration
  FeedSpec
  EveryCallReturns
  FalselyReceivedEnds
