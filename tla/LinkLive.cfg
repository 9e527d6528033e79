CONSTANTS
  n1 = n1
  n2 = n2
  a1 = a1
  a2 = a2
  a3 = a3
  Node = {n1, n2}
  Alias = {a1, a2, a3}
  Outside = Outside
  Anyone = Anyone
  NoFrame = NoFrame
  Period = 2
  AliasAt <- PartingAliases
  TxSlots = 1
  Enquiries = {}
  Fickle = {}
  RxSlots = 2
  MaxQueue = 0
SPECIFICATION FairSpec
PROPERTY
  LinkComesUp
