CONSTANTS
  NumEvents = 2
  Base = 4
  Own <- MCOwn
  Default <- MCDefault
  Erased = Erased
  Foreign <- MCForeign
  CallsLibrary = FALSE
  FailsWriting = TRUE
SPECIFICATION Spec
INVARIANT
  MemoryValid
