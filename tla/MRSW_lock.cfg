\* Four threads that use every entry point of the lock.
SPECIFICATION FairSpec
CONSTANTS
  Threads = {t1, t2, t3, t4}
  NoThread = NoThread
INVARIANTS
  MutualExclusion
  ReleasePicksMode
PROPERTIES
  Refinement
  LockProgress
