\* connections come and go, one thread may fail, the server is closed
SPECIFICATION FairSpec
CONSTANTS
  NWorker = 2
  NConn = 3
  MaxClient = 2
  MaxFail = 1
  None = None
INVARIANTS
  TypeOK
  DeletedIsDone
  NothingLeft
  CountHolds
  OneHome
  OwnAlive
PROPERTIES
  CloseReturns
  TakenOver
CHECK_DEADLOCK FALSE
