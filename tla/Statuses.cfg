CONSTANTS
  user = user
  proc = proc
  a = a
  b = b
  NoThread = NoThread
  NoText = NoText
  Threads <- MCThreads
  Texts <- MCTexts
  Writes <- MCWrites
  N = 3
  MaxChanges = 4
SPECIFICATION Spec
INVARIANTS
  TypeOK
  NothingUnshown
PROPERTY ShownInTheEnd
