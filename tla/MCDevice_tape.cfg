\* Three records in a partition, of which the second meets the early warning: two
\* are written if a command fails, three if none does. Three files in a partition
\* of the directory, one crash.
SPECIFICATION MCSpec
CONSTANTS
  Capacity = 3
  EwAt = 2
  Unreadable = FALSE
  Faults = 1
  MaxStamp = 2
  LongStamp = 3
  MaxBlock = 2
  MaxPass = 1
  Warning <- LateWarning
  Crashes = 1
  Recover = FALSE
VIEW AllButResult
INVARIANTS
  PositionsTrue
  DirectoryKnown
PROPERTIES
  TapeKept
  FileRefinement
