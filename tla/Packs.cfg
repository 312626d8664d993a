CONSTANTS
  s1 = s1
  s2 = s2
  Signals <- MCSignals
  Types = {"Float64", "Struct"}
  Supported = {"Float64"}
  Kinds = {"each", "array", "group", "groupArray"}
  PackSize = 2
  BuffersSize = 3
  MaxTick = 4
  MaxOps <- MCMaxOps
SPECIFICATION Spec
SYMMETRY MCSymmetry
INVARIANTS
  FieldsAreRows
  LessThanAPackWaits
PROPERTIES
  NeverTwice
