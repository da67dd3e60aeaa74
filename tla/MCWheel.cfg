\* a timer on three wheels, at every phase of their turns
SPECIFICATION Spec
CONSTANTS
  NLevel = 3
  Scales <- MCScales
  Unit <- MCUnit
  Step = 2
  Timer = {t1}
  Delay <- MCDelay
  Interval = {0, 11}
  Lag = 1
  None = None
INVARIANTS
  TypeOK
  NotLate
PROPERTIES
  CancelledNeverRuns
  NotEarly
CHECK_DEADLOCK FALSE
