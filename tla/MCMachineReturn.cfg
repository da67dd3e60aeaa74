\* discs return from two drives while another is carried to the mailbox; commands may fail
SPECIFICATION FairSpec
CONSTANTS
  Worker = {w1, w2}
  Reader = {}
  Request = {r1, r2}
  Asked = {"return disc", "mailbox export disc"}
  NDrive = 2
  NDisc = 2
  Garbage = {}
  Loaded = {1, 2}
  None = None
  Event = {}
  Code = {"ok", "fail"}
  MaxTask = 7
  MaxEvent = 0
  MaxTimeout = 0
  MaxDrop = 1
INVARIANTS
  LedgerAgrees
  NothingUndefined
PROPERTIES
  EveryRequestAnswered
  InitEnds
CHECK_DEADLOCK FALSE
