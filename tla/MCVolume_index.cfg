\* Two data blocks, another change and one fault; or one block, a change, a rollback and one fault.
SPECIFICATION MCSpec
CONSTANTS
  MaxUpdates = 1
  MaxData = 2
  RollData = 1
  MaxFaults = 1
  FaultKinds <- AllFaultKinds
  RollFaults = {"crash", "locate"}
  Modes <- MCModes
  MaxRollbacks = 1
  EraseHistory = {TRUE, FALSE}
INVARIANTS
  PlainRefsIntact
  PlainRecoverable
  PlainIndexChain
  SafeRollback
