SPECIFICATION FairSpec
CONSTANTS
  t1 = t1
  t2 = t2
  Threads = {t1, t2}
  Free = free
  Handles = {1, 2}
  NoProc <- MCNone
  Requests <- MCTrainCard
  OpenMonitor = TRUE
PROPERTY TrainCardAnswers
CHECK_DEADLOCK FALSE
