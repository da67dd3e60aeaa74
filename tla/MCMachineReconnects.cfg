\* is a command sent again after the connection broke
SPECIFICATION FairSpec
CONSTANTS
  Worker = {w1, w2}
  Reader = {k1}
  Request = {r1}
  Asked = {"mailbox in"}
  NDrive = 1
  NDisc = 1
  Garbage = {}
  Loaded = {}
  None = None
  Event = {}
  Code = {"ok"}
  MaxTask = 4
  MaxEvent = 0
  MaxTimeout = 0
  MaxDrop = 1
PROPERTY
  FrontAnswered
CHECK_DEADLOCK FALSE
