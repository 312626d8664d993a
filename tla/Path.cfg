CONSTANTS
  MaxLength = 5
  MaxIndex = 10
  Paths <- MCPaths
  Written <- MCWritten
SPECIFICATION Spec
INVARIANTS
  AsksForItsMeaning
  WithinPath
PROPERTIES
  ReadsBackWhatWasMeant
