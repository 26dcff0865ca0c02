------------------------------- MODULE RWLock -------------------------------
(***************************************************************************)
(* What a MultiReaderSingleWriter promises to the rest of the file system: *)
(* a set of readers or one writer, and a downgrade that turns the writer   *)
(* into a reader with no other writer in between.  libltfs relies on the   *)
(* last point in _ltfs_fsraw_write_data_unlocked, which keeps using what   *)
(* it learnt under the write lock after writetoread_mrsw.                  *)
(***************************************************************************)
CONSTANT Threads

VARIABLES readers, writers

rwVars == <<readers, writers>>

RWInit == readers = {} /\ writers = {}

AcquireRead(t) ==
  /\ writers = {}
  /\ readers' = readers \cup {t}
  /\ UNCHANGED writers

ReleaseRead(t) ==
  /\ t \in readers
  /\ readers' = readers \ {t}
  /\ UNCHANGED writers

AcquireWrite(t) ==
  /\ readers = {} /\ writers = {}
  /\ writers' = {t}
  /\ UNCHANGED readers

ReleaseWrite(t) ==
  /\ t \in writers
  /\ writers' = {}
  /\ UNCHANGED readers

Downgrade(t) ==
  /\ t \in writers
  /\ writers' = {}
  /\ readers' = readers \cup {t}

RWNext ==
  \E t \in Threads :
    \/ AcquireRead(t) \/ ReleaseRead(t)
    \/ AcquireWrite(t) \/ ReleaseWrite(t)
    \/ Downgrade(t)

RWSpec == RWInit /\ [][RWNext]_rwVars
=============================================================================
