\* What callers write is what they read and what reaches the medium, in
\* either partition: a file that may be renamed and may outgrow the policy.
SPECIFICATION MCSpec
CONSTANTS
  CacheSize = 2
  Writers = {w1}
  Values = {a, b}
  OneValue = {c}
  FileMax = 3
  MaxWrite = 2
  CacheBlocks = 2
  MaxIPSize = 2
  CanRename = FALSE
  Faults <- NoFaults
SYMMETRY Symm
CHECK_DEADLOCK FALSE
INVARIANTS
  BooksAgree
  ReadsBack
  MediumExact
