\* does a closing door spoil the answers
SPECIFICATION Spec
CONSTANTS
  Worker = {w1, w2}
  Reader = {k1}
  Request = {r1}
  Asked = {"mailbox in"}
  NDrive = 1
  NDisc = 1
  Garbage = {}
  Loaded = {}
  None = None
  Event = {"DOORCLOSE"}
  Code = {"ok"}
  MaxTask = 4
  MaxEvent = 1
  MaxTimeout = 0
  MaxDrop = 0
INVARIANTS
  AnswersMatch
SYMMETRY Symmetry
CHECK_DEADLOCK FALSE
