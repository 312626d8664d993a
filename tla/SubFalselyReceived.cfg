CONSTANTS
  t1 = t1
  t2 = t2
  d1 = d1
  NoTopic = NoTopic
  Topics <- MCOneTopic
  Intervals <- MCNoInterval
  Decoders <- MCNoDecoders
  MaxMsgs = 1
  MaxCalls = 2
SPECIFICATION Spec
INVARIANT ReceivedMeansHeard
