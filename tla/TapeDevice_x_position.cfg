\* A READ POSITION that fails.
CONSTANTS
  Capacity = 3
  EwAt = 3
  Unreadable = TRUE
  Faults = 1
  MaxStamp = 3
SPECIFICATION Spec
PROPERTY NoRecordLost
