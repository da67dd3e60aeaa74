\* does the service pause while a door is open
SPECIFICATION Spec
CONSTANTS
  Worker = {w1, w2}
  Reader = {k1}
  Request = {r1}
  Asked = {"return disc"}
  NDrive = 1
  NDisc = 1
  Garbage = {}
  Loaded = {1}
  None = None
  Event = {"DOOROPEN"}
  Code = {"ok"}
  MaxTask = 4
  MaxEvent = 1
  MaxTimeout = 0
  MaxDrop = 0
PROPERTY
  OpenDoorPauses
SYMMETRY Symmetry
CHECK_DEADLOCK FALSE
