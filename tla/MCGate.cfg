\* three objects on two descriptors send every kind of message
CONSTANTS
  d0 = d0
  MaxOut = 1
  Conn = {c1, c2, c3}
  Fd = {3, 4}
  NoFd = NoFd
  Group = {"0000", "g1"}
  DefaultGroup = "0000"
  NoGroup = ""
  Cmd <- MCCmd
  ExitCmd = "ss_msg_client_exit"
  LinkMask = 100000
  MsgId = {1}
  Data = {d0}
  NoData = d0
  Input <- AllInput
  RecvCap = 1
  SendCap = 1
SYMMETRY Symmetry
SPECIFICATION MCSpec
CHECK_DEADLOCK FALSE
INVARIANTS
  TypeOK
  ListenersLive
  ListenersUnique
  RoundRobin
