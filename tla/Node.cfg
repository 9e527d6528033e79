CONSTANTS
  c1 = c1
  c2 = c2
  Client = {c1, c2}
  Nobody = Nobody
  Settings <- MCSettings
  NumEvents = 2
  NumInputs = 2
  MaxInputScan = 2
  ReplyLength = 2
  ConstCount = 2
  VarOffset = 2
  VarSize = 4
  FrameBytes = 2
  Texts <- MCTexts
  TxSlots = 1
  RxSlots = 1
  MaxEnquiries = 1
SPECIFICATION FairSpec
INVARIANTS
  TypeOK
  AnswersAsked
  IdentifiesWhole
  TellsLastState
  PanelTells
PROPERTIES
  EveryoneServed
  BufferReleased
  NoticesInputs
