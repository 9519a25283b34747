\* A cooperative task, one with a faulty panic callback and a deaf one; two Stops.
CONSTANTS
  Task = {t1, t2, t3}
  Stopper = {s1, s2}
  Outside = outside
  Cooperative = {t1}
  FaultyHandler = {t2}
SPECIFICATION FairSpec
INVARIANTS
  DrainedMeansFinished
  NoUncancelledSurvivor
  NoCancelBeforeTimeout
  ReportMatchesContext
  PanicContained
PROPERTIES
  NoAddDuringWait
  ImplementsLifecycle
  StopReturns
  ShutdownCompletes
CHECK_DEADLOCK FALSE
