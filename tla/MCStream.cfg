\* frames of every length on one connection, in pieces of any size
SPECIFICATION FairSpec
CONSTANTS
  Client = Client
  Server = Server
  SendSize <- MCSendSize
  RecvSize <- MCRecvSize
  Wire = 2
  Low = 2
  Header <- MCHeader
  Greeting <- MCGreeting
  Length = {1, 2}
  MaxFrame <- MCMaxFrame
  Stray = TRUE
INVARIANTS
  TypeOK
  InOrder
  FullHoldsMessage
PROPERTIES
  Delivered
  LearnsOfEnd
CHECK_DEADLOCK FALSE
