\* Three threads on four dentries; two on open files; two setters of attributes.
SPECIFICATION MCSpec
CONSTANTS
  t1 = t1
  t2 = t2
  t3 = t3
  Threads = {t1, t2, t3}
  root = root
  d1 = d1
  d2 = d2
  d3 = d3
  Dentries = {root, d1, d2, d3}
  Root = root
  a = a
  b = b
  Names = {a, b}
  None = None
  Workloads <- Loads
  u1 = u1
  u2 = u2
  e1 = e1
  e2 = e2
  h1 = h1
  h2 = h2
  FuseThreads = {u1, u2}
  Addresses = {e1, e2}
  Handles = {h1, h2}
  MaxWrites = 1
  MaxMeta = 2
  SyncClose = TRUE
  BufferFits = TRUE
  Users = {u1, u2}
  Texts = {a, b}
  NoText = None
  FrontScenarios <- OpenFiles
  XattrScenarios <- Attributes
SYMMETRY Symm
INVARIANTS
  TreeSound
  WalksSafe
  IdleHoldsNothing
  HandlesMatch
  
  LocksAgree
  CleanIsOnTape
PROPERTIES
  Irrevocable
  EntriesGuarded
