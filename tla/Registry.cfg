CONSTANTS
  b1 = b1
  b2 = b2
  t1 = t1
  t2 = t2
  Nobody = Nobody
  NoTopic = NoTopic
  Blocks <- MCBlocks
  Topics <- MCTopics
  Previews <- MCPreviews
  MaxCalls = 4
SPECIFICATION Spec
SYMMETRY MCSymmetry
CHECK_DEADLOCK FALSE
INVARIANTS
  RegistryTypeOK
  CallbacksHaveOwners
  Served
  PreviewFollowsProperties
