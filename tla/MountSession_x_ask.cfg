\* A user asks for a sync while the timer has one at work.
CONSTANTS
  FuseThreads = {"f1", "f2"}
  SyncTypes = {"time", "close"}
  MaxMounts = 1
  MaxUserWrites = 1
  MaxCalls = 2
SPECIFICATION SessionSpec
PROPERTY AskReturns
CHECK_DEADLOCK FALSE
