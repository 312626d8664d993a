CONSTANTS
  s1 = s1
  s2 = s2
  n1 = n1
  n2 = n2
  NoSignal = NoSignal
  Signals <- MCSignals
  Names <- MCNames
  Kinds <- MCKinds
  Settings <- MCSettings
  MaxPort = 1
  MaxOps = 4
  MaxData = 1
SYMMETRY MCSymmetry
SPECIFICATION Spec
INVARIANTS
  TypeOK
  PortsInOrder
  PreviewsMatchPorts
  NoChangeLost
  StatusesFollowFlags
  ReaderMatchesPorts
  CallbacksMatchMap
