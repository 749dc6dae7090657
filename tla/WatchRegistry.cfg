CONSTANTS
  Watchers = {w1, w2}
  Objects = {o1}
  MaxEvents = 3
  NoWatcher = NoWatcher
SPECIFICATION FairSpec
INVARIANTS
  NoSendOnClosed
  GapFree
PROPERTY
  StopReturns
\* The goroutines can block each other for good (Blocked).
CHECK_DEADLOCK FALSE
