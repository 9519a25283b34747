\* Two tasks, one of them with a faulty panic callback; a window of five ticks.
CONSTANTS
  cleanup = cleanup
  Task = {t1, t2}
  Stopper = {cleanup}
  Main = cleanup
  Outside = outside
  Cooperative = {}
  FaultyHandler = {t2}
  Window = 5
  Interval = 2
  NamesAdmin = TRUE
SPECIFICATION FairAppSpec
INVARIANTS
  ExitIsOrderly
  NilOnlyAfterGrace
  PoolOutlivesHandlers
  RecoveryWindow
PROPERTIES
  ProcessEnds
CHECK_DEADLOCK FALSE
