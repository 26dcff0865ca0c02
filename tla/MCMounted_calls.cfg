\* Two callers, two calls, two resets or removals; two FUSE threads, two mounts;
\* two callers short of cache blocks.
SPECIFICATION MCSpec
CONSTANTS
  Threads = {t1, t2}
  Ops = {"query", "write", "sync", "unmount"}
  HitBy = {"query", "write", "sync"}
  MaxOps = 2
  MaxResets = 2
  MaxWrites = 3
  FuseThreads = {"f1", "f2"}
  SyncTypes = {"time", "close", "unmount"}
  MaxUserWrites = 3
  MaxMounts = 2
  MaxCalls = 2
  CacheSize = 1
  Writers = {w1, w2}
  Values = {a}
  FileMax = 3
  MaxWrite = 1
  CacheBlocks = 2
  MaxIPSize = 3
  CanRename = FALSE
  Faults = {}
INVARIANTS
  LockCountsHolders
  CallsValidated
  WritesReachIndex
  LeavesNothingBehind
PROPERTIES
  CallsEnd
  UmountEnds
  WaitersServed
\* The calls, and the mounts, are used up.
CHECK_DEADLOCK FALSE
