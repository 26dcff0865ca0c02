------------------------------ MODULE MCDevice ------------------------------
(***************************************************************************)
(* What libltfs uses as a tape, for TLC: the device layer above the LTO     *)
(* drive, or the drive that keeps its records in files.                    *)
(***************************************************************************)
EXTENDS TapeDevice, FileTape

CONSTANT LongStamp  \* records written in a behaviour without a failing command

VARIABLE drive  \* "lto", "long" or "file"

Long == INSTANCE TapeDevice WITH Faults <- 0, MaxStamp <- LongStamp

\* The warning positions of the two partitions; 0 is none.
LateWarning == 0 :> 0 @@ 1 :> 2

MCInit ==
  /\ drive \in {"lto", "long", "file"}
  /\ IF drive = "long" THEN Long!Init ELSE Init
  /\ FileInit
LtoStep == drive = "lto" /\ Next /\ UNCHANGED <<fileVars, drive>>
LongStep == drive = "long" /\ Long!Next /\ UNCHANGED <<fileVars, drive>>
FileStep == drive = "file" /\ FileNext /\ UNCHANGED <<vars, drive>>
MCNext == LtoStep \/ LongStep \/ FileStep

\* What a call on the directory returned is written and never read; whether the
\* drive of files is reserved and locked only bears on that.
AllButResult ==
  <<vars, files, vcr, [st EXCEPT !.device_reserved = FALSE, !.medium_locked = FALSE], crashes, drive>>

MCSpec == MCInit /\ [][MCNext]_<<vars, fileVars, drive>>
=============================================================================
