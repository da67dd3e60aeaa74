\* does a callback get the answer to its own request: two pool threads, nothing breaks
SPECIFICATION SysSpec
CONSTANTS
  Process = {"ctl", "svc"}
  Service = {"svc"}
  JobThread = {"j1", "j2"}
  NetThread = "net"
  Timeout = Timeout
  Progress = Progress
  Api = "x"
  OwnApi = "y"
  Null = Null
  Dangling = Dangling
  Quiet = {}
  MaxMsg = 3
  MaxDrop = 0
  MaxProgress = 0
  Conn = {c1, c2}
  Fd = {3, 4}
  NoFd = NoFd
  Group = {"0000", "0001"}
  DefaultGroup = "0000"
  NoGroup = ""
  Cmd <- MCCmd
  ExitCmd = "ss_msg_client_exit"
  LinkMask = 100000
  MsgId = {1, 2, 3, 4}
  Data <- MCData
  NoData = NoData
  Input <- NoInput
  RecvCap = 3
  SendCap = 3
INVARIANT AnswersMine
CHECK_DEADLOCK FALSE
