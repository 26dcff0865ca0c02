------------------------------ MODULE MCVolume ------------------------------
(***************************************************************************)
(* A volume for TLC: behaviours of IndexCommit with more data blocks, and   *)
(* behaviours of Rollback, which adds ltfsck --rollback to it.              *)
(***************************************************************************)
EXTENDS IndexCommit

CONSTANTS RollData,      \* MaxData with rollbacks
          RollFaults,    \* FaultKinds with rollbacks
          MaxRollbacks, EraseHistory

VARIABLES rb,
          rolling  \* this behaviour has rollbacks

Rolling == INSTANCE Rollback WITH MaxData <- RollData, FaultKinds <- RollFaults

\* The ways the programs call ltfs_mount.
Mount    == [full |-> FALSE, deep |-> FALSE, extra |-> FALSE]  \* ltfs, ltfsck --rollback
Recovery == [full |-> TRUE, deep |-> TRUE, extra |-> TRUE]     \* ltfsck -f
Check    == [full |-> TRUE, deep |-> TRUE, extra |-> FALSE]    \* ltfsck

MCModes      == {Mount, Recovery}
MCCheckModes == {Mount, Check}

MCInit == Init /\ rb = Rolling!NoRollback /\ rolling \in BOOLEAN

Committing == ~rolling /\ Next /\ UNCHANGED <<rb, rolling>>
RollingBack == rolling /\ Rolling!RNext /\ UNCHANGED rolling
\* With the bounds used up a behaviour with rollbacks may end.
Ended == rolling /\ UNCHANGED <<vars, rb, rolling>>

MCNext == Committing \/ RollingBack \/ Ended
MCSpec == MCInit /\ [][MCNext]_<<vars, rb, rolling>>

\* Without rollbacks a volume is recovered as of its last commit, by the full check
\* and by the cartridge memory alike: a rollback goes back behind it on purpose.
\* (ltfs.c:2207-2337, 1715)
PlainRecoverable == ~rolling => Recoverable

\* Nothing that is still referred to is lost, before a rollback that erases.
PlainRefsIntact == ~rolling => RefsIntact

\* Generations and back pointers tell the history, and a volume that was unmounted
\* cleanly needs no recovery. (ltfs.c:1822, 2308)
PlainIndexChain == ~rolling => IndexChain

\* A rollback happens or it does not, can be undone, and the volume goes on from
\* it. (ltfsck.c:1581-1620, 1750-1767)
SafeRollback == rolling => Rolling!RollbackIsAtomic /\ Rolling!RollbackSafe
=============================================================================
