\* One file, that one user writes and closes while another unlinks it.
SPECIFICATION SchedSpec
CONSTANTS
  Users = {u1, u2}
  Files = {f1}
  NoFile = NoFile
  Does = {"open", "write", "unlink"}
  Dprs = {1}
  MaxActs = 3
  MaxErrors = 0
INVARIANT NotFreedUnderWriter
CHECK_DEADLOCK FALSE
