CONSTANTS
  NumEvents = 3
  Base = 4
  Own <- MCOwn
  Default <- MCDefault
  Erased = Erased
  Foreign <- MCForeign
  CallsLibrary = TRUE
  FailsWriting = FALSE
SPECIFICATION Spec
INVARIANTS
  TypeOK
  MemoryValid
PROPERTIES
  NodeIDKept
  SessionIDsUnique
