\* A pool of 1 to 5 objects; a file of 3 bytes in blocks of 2; indexes of a few
\* entries, and of 8 bytes in blocks of 3; three runs of the programs with two
\* faults; rules of up to 4 characters; two files of
\* the scheduler, each with or without a name for the index partition, with four
\* calls of two users and one write error.
SPECIFICATION MCSpec
CONSTANTS
  Objects = {o1, o2, o3, o4, o5, o6}
  InitialCapacity = 1
  MaxCapacity = 5
  MaxRefs = 2
  BytesPerBlock = 2
  FileMax = 3
  MaxCount = 3
  MaxBlock <- Blocks
  FileNames <- XmlNames
  StartIndices <- XmlStarts
  MaxSaves = 2
  BlockSize = 3
  MaxBytes = 8
  MaxPiece = 7
  FirstCartridges <- Carts
  CommandLines <- Lines
  MaxRuns = 3
  MaxFaults = 2
  Rules <- CriteriaRules
  Names <- CriteriaNames
  Threads <- OneThread
  MaxFiles = 1
  Users = {u1, u2}
  Files = {f1, f2}
  NoFile = NoFile
  Does = {"open", "write", "truncate", "unlink", "sync"}
  Dprs = {1, 2}
  MaxActs = 4
  MaxErrors = 1
SYMMETRY Symm
INVARIANTS
  PoolServes
  ListsExact
  
  StreamExact
  ReportsTrue
  PolicyKept
  FilesHeld
PROPERTIES
  CountsBlocks
  VolumesAreSpared
\* Documents, programs and rules are used up.
CHECK_DEADLOCK FALSE
