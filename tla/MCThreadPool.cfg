\* the three threads of an inventory and four jobs, one of which may expire
SPECIFICATION FairSpec
CONSTANTS
  Thread = {t1, t2, t3}
  Owner = owner
  NJob = 4
  Expiring = {2}
  NoJob = 0
INVARIANTS
  TypeOK
  StoppedMeansSettled
PROPERTIES
  StopReturns
  ImplementsJobQueue
CHECK_DEADLOCK FALSE
