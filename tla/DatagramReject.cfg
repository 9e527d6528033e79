CONSTANTS
  n1 = n1
  n2 = n2
  n3 = n3
  short = short
  long = long
  odd = odd
  Node = {n1, n2, n3}
  Content = {short, long, odd}
  Size <- MCSize
  Posts <- MCPosts
  Accepts <- MCAccepts
  RejectLength <- OwnRejectLength
  Nothing = Nothing
  TxSlots = 1
  RxSlots = 2
  Fickle = {}
  Enquired = {}
  Contested = {}
  MaxChanges <- NoChange
SPECIFICATION Spec
PROPERTY
  PermanentDropped
