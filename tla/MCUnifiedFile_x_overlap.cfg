\* A write over two requests leaves an overlap.
SPECIFICATION Spec
CONSTANTS
  CacheSize = 4
  Writers = {w1}
  Values = {a, b}
  FileMax = 4
  MaxWrite = 3
  CacheBlocks = 3
  MaxIPSize = 0
  CanRename = FALSE
  Faults <- NoFaults
SYMMETRY Symm
CHECK_DEADLOCK FALSE
INVARIANTS
  ReadsSeeWrites
