\* requests of every kind while the at91 fails, falls silent, reports a door or drops the link
SPECIFICATION Spec
CONSTANTS
  Worker = {w1, w2}
  Reader = {k1}
  Request = {r1, r2}
  Asked = {"inventory", "move disc to cdrom", "return disc", "", "query station", "mailbox in", "mailbox import disc", "printer export disc", "printer import disc"}
  NDrive = 1
  NDisc = 2
  Garbage = {1}
  Loaded = {}
  None = None
  Event = {"DOOROPEN"}
  Code = {"ok", "fail"}
  MaxTask = 5
  MaxEvent = 1
  MaxTimeout = 1
  MaxDrop = 1
INVARIANTS
  TypeOK
  AnswersMatch
  OneCommand
  RepliedOnce
  StillFree
  ReadOnce
  ReservedOnce
SYMMETRY Symmetry
CHECK_DEADLOCK FALSE
