CONSTANTS
  MaxFaults = 5
SPECIFICATION Spec
INVARIANTS
  TypeOK
  PromiseOutlivesClosure
  CreatedMeansConnected
  StatusFollowsConnection
  ErrorMeansReconnecting
PROPERTY WaitingEnds
