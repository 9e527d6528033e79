SPECIFICATION BoardSpec
CONSTANTS
  Frame = {f1, f2}
  NoFrame = NoFrame
  SIZE = 3
  Direct = TRUE
  Mixed = Mixed
  TxSize = 1
  RxSize = 2
INVARIANTS
  TypeOK
  DriverInv
  FreeStaysFree
  At90SendsCounted
  At90AloneKept
PROPERTIES
  ImplementsChannel
  SpinEnds
  At90QueueMoves
  McpInOrder
  McpSecondRead
