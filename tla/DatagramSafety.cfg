CONSTANTS
  n1 = n1
  n2 = n2
  n3 = n3
  short = short
  long = long
  odd = odd
  Node = {n1, n2, n3}
  Content = {short, long, odd}
  Size <- MCSize
  Posts <- MCPosts
  Accepts <- MCAccepts
  RejectLength <- MCRejectLength
  Nothing = Nothing
  TxSlots = 1
  RxSlots = 1
  Fickle = {n3}
  Enquired = {n1}
  Contested = {n2}
  MaxChanges <- OneChange
SPECIFICATION Spec
INVARIANTS
  TypeOK
  FitsBuffer
PROPERTIES
  DeliversWhole
  RepliesFromDest
  ImplementsMailbox
