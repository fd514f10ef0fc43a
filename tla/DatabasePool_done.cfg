SPECIFICATION FairSpec
CONSTANTS
  w1 = w1
  w2 = w2
  s1 = s1
  ann = ann
  row1 = row1
  Worker <- TwoWorkers
  Sync <- OneSync
  Caller <- OneCaller
  Row <- OneRow
  None = None
  MaxOps = 3
  MaxFaults = 2
  Attempts = 2
INVARIANTS
  Accounted
  StartedInOrder
  NotUsedClosed
PROPERTIES
  WorkDone
  CloseEnds
CHECK_DEADLOCK FALSE
