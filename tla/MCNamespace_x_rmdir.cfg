\* A directory that gets a child while it is removed.
SPECIFICATION Spec
CONSTANTS
  t1 = t1
  t2 = t2
  t3 = t3
  Threads = {t1, t2, t3}
  root = root
  d1 = d1
  d2 = d2
  d3 = d3
  Dentries = {root, d1, d2, d3}
  Root = root
  a = a
  b = b
  Names = {a, b}
  None = None
  Workloads <- Races
INVARIANTS
  RemovedAreEmpty
