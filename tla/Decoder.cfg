CONSTANTS
  HalfRange = 4
  FieldNames = {"", "a", "b"}
  Units = {"", "u"}
  Documents <- MCDocuments
  Clock = {1, 2}
  MaxChanges = 2
  MaxMessages = 2
SPECIFICATION Spec
CHECK_DEADLOCK FALSE
INVARIANTS
  DecoderTypeOK
  PacketsFitSignal
  StatusFollowsMessages
PROPERTIES
  PublishedAsPromised
