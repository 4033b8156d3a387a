SPECIFICATION FairSpec
CONSTANTS
  t1 = t1
  t2 = t2
  Threads = {t1, t2}
  Free = free
  Handles = {1, 2}
  NoProc <- MCNone
  Requests <- MCRequests
  OpenMonitor = FALSE
INVARIANTS
  OnlyTrainingsBlock
  NoOrphan
  OneTraining
PROPERTY OnlyEmbraceHangs
CHECK_DEADLOCK FALSE
