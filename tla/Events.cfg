CONSTANTS
  a = a
  b = b
  c = c
  N = 2
  EventID = {a, b, c}
  Hash <- MCHash
  Types <- MCTypes
  Boards <- MCBoards
  Nothing = Nothing
  Idle = Idle
  MaxMarks = 1
SPECIFICATION FairSpec
INVARIANTS
  TypeOK
  NothingSkipped
  CallbacksRight
  LearntTold
PROPERTIES
  ImplementsRequests
  Drains
