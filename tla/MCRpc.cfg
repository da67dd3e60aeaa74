\* a client with one pool thread and a service; a connection breaks
SPECIFICATION SysFairSpec
CONSTANTS
  Process = {"ctl", "svc"}
  Service = {"svc"}
  JobThread = {"j1"}
  NetThread = "net"
  Timeout = Timeout
  Progress = Progress
  Api = "x"
  OwnApi = "y"
  Null = Null
  Dangling = Dangling
  Quiet = {"ctl"}
  MaxMsg = 3
  MaxDrop = 1
  MaxProgress = 1
  Conn = {c1, c2, c3}
  Fd = {3, 4}
  NoFd = NoFd
  Group = {"0000", "0001"}
  DefaultGroup = "0000"
  NoGroup = ""
  Cmd <- MCCmd
  ExitCmd = "ss_msg_client_exit"
  LinkMask = 100000
  MsgId = {1, 2, 3, 4, 5}
  Data <- MCData
  NoData = NoData
  Input <- NoInput
  RecvCap = 4
  SendCap = 4
INVARIANT OneOutcome
PROPERTIES
  
  ServiceComesBack
CHECK_DEADLOCK FALSE
