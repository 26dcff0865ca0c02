------------------------------ MODULE FileTape ------------------------------
(***************************************************************************)
(* The file back end (filedebug_tc.c): a cartridge kept as a directory     *)
(* with one file per record, filemark and end of data.  A call that        *)
(* changes several files may be cut off between two of them, when the      *)
(* process dies; the next load looks for the end of data again.            *)
(*                                                                         *)
(* The texts of names, the device list and what is refused for its size    *)
(* are left out; so is every system call that fails.                       *)
(***************************************************************************)
EXTENDS Integers, FiniteSets, FiniteSetsExt, SequencesExt

CONSTANTS MaxBlock,            \* the last block of a partition that is used
          MaxPass,             \* the last write pass a cartridge is loaded with
          Warning,             \* p0_warning and p1_warning; 0 is none
          Crashes,             \* crashes in a behaviour
          Recover              \* whether a partition without end of data is written to

Parts == {0, 1}
MISSING_EOD == 1000            \* larger than any block

VARIABLES files,               \* the files of the directory: <<partition, block, suffix>>
          vcr,                 \* the write pass in attr_0_9; 0 is no such file
          st,                  \* struct filedebug_data
          result,              \* what the last call returned
          crashes

fileVars == <<files, vcr, st, result, crashes>>

NewState ==
  [device_reserved |-> FALSE, medium_locked |-> FALSE, ready |-> FALSE, partition |-> 0, block |-> 0,
   filemarks |-> 0, last_block |-> [p \in Parts |-> 0], eod |-> [p \in Parts |-> 0], partitions |-> 0,
   write_pass_prev |-> 0, write_pass |-> 0, early_warning |-> FALSE]

FileInit == files = {} /\ vcr = 0 /\ st = NewState /\ result = "good" /\ crashes = 0

-----------------------------------------------------------------------------
(* Helpers.  A change of the directory is the sequence of the directories    *)
(* it goes through.                                                          *)

Exists(fs, p, b, s) == <<p, b, s>> \in fs
RemoveRecord(fs, p, b) == fs \ {<<p, b, s>> : s \in {"R", "F", "E"}}
RemoveCurrent(fs, s) == RemoveRecord(fs, s.partition, s.block)
Final(dirs) == dirs[Len(dirs)]

\* A mutation: what is known to be behind the new end is not removed first.
EodLeavesRest(fs, s) ==
  LET p == s.partition
      gone == RemoveCurrent(fs, s)
  IN  [dirs |-> <<gone, gone \cup {<<p, s.block, "E">>}>>, st |-> [s EXCEPT !.last_block[p] = s.block - 1, !.eod[p] = Max({@, s.block})]]

\* _filedebug_write_eod: what is at the position goes, then the mark is made,
\* then what is known to be behind it goes, one block after the other.
WriteEod(fs, s) ==
  LET p == s.partition
      gone == RemoveCurrent(fs, s)
      marked == gone \cup {<<p, s.block, "E">>}
      extra == IF s.eod[p] = MISSING_EOD \/ s.eod[p] < s.block THEN 0 ELSE s.eod[p] - s.block
      After(i) == {f \in marked : f[1] = p => f[2] \notin s.block + 1 .. s.block + i}
  IN  [dirs |-> <<gone, marked>> \o [i \in 1 .. extra |-> After(i)],
       st |-> [s EXCEPT !.last_block[p] = s.block - 1, !.eod[p] = s.block]]

\* filedebug_search_eod: the first block that is no record, or an end of data.
\* Without a mark the position in front of which the records end is kept as the
\* last block.
SearchEod(fs, s, p) ==
  LET Stops(b) == Exists(fs, p, b, "E") \/ ~(Exists(fs, p, b, "R") \/ Exists(fs, p, b, "F"))
      n == Min({b \in 0 .. MaxBlock + 2 : Stops(b)})
      there == [s EXCEPT !.partition = p, !.block = n]
  IN  IF ~Exists(fs, p, n, "E") /\ n # 0
      THEN [dirs |-> <<fs>>, st |-> [there EXCEPT !.last_block[p] = n, !.eod[p] = MISSING_EOD]]
      ELSE WriteEod(fs, there)

MarksBefore(fs, p, b) == Cardinality({f \in fs : f[1] = p /\ f[2] < b /\ f[3] = "F"})
CountFilemarks(s) == [s EXCEPT !.filemarks = MarksBefore(files, s.partition, s.block)]
Warn(s) == [s EXCEPT !.early_warning = @ \/ (Warning[s.partition] # 0 /\ s.block >= Warning[s.partition])]

\* The first write after a load raises the write pass.
RaisePass(s) == IF s.write_pass_prev = s.write_pass THEN [s EXCEPT !.write_pass = @ + 1] ELSE s

Returns(s, rc) == st' = s /\ result' = rc
Only(s, rc) == Returns(s, rc) /\ UNCHANGED <<files, vcr, crashes>>

\* A change of the directory is carried out, or the process dies on the way.
Commit(dirs, pass, s, rc) ==
  /\ vcr' = pass
  /\ \/ files' = Final(dirs) /\ Returns(s, rc) /\ UNCHANGED crashes
     \/ /\ crashes < Crashes /\ crashes' = crashes + 1
        /\ \E i \in 1 .. Len(dirs) - 1 : files' = dirs[i]
        /\ Returns(NewState, "dead")
Pass(s) == IF s.write_pass # s.write_pass_prev THEN s.write_pass ELSE vcr

-----------------------------------------------------------------------------
(* Calls.                                                                  *)

\* filedebug_load: a cartridge whose write pass cannot be read gets one.
FileLoad ==
  IF st.ready THEN Only(st, "good")
  ELSE /\ vcr <= MaxPass
       /\ LET zero == SearchEod(files, [st EXCEPT !.ready = TRUE], 0)
              one == SearchEod(Final(zero.dirs), zero.st, 1)
          IN  Commit(zero.dirs \o one.dirs, IF vcr = 0 THEN 1 ELSE vcr,
                     [one.st EXCEPT !.partition = 0, !.block = 0, !.filemarks = 0, !.partitions = 2,
                                    !.write_pass_prev = vcr, !.write_pass = vcr], "good")
FileUnload == Only([st EXCEPT !.ready = FALSE, !.partition = 0, !.block = 0, !.filemarks = 0], "good")
FileTestUnitReady == Only(st, IF st.ready THEN "good" ELSE "need_initialize")
FileReserveUnit == Only([st EXCEPT !.device_reserved = TRUE], IF st.device_reserved THEN "illegal_request" ELSE "good")
FileReleaseUnit == Only([st EXCEPT !.device_reserved = FALSE], "good")
FilePreventRemoval == Only([st EXCEPT !.medium_locked = st.ready \/ @], IF st.ready THEN "good" ELSE "not_ready")
FileAllowRemoval == Only([st EXCEPT !.medium_locked = ~st.ready /\ @], IF st.ready THEN "good" ELSE "not_ready")
Die == crashes < Crashes /\ crashes' = crashes + 1 /\ Returns(NewState, "dead") /\ UNCHANGED <<files, vcr>>

\* filedebug_read: the record, a filemark, or neither.
FileRead ==
  LET p == st.partition
      next == [st EXCEPT !.block = @ + 1]
  IN  /\ st.ready
      /\ IF st.block = st.eod[p] THEN Only(st, "eod_detected")
         ELSE IF Exists(files, p, st.block, "E") THEN Only(st, "eod_not_found")
         ELSE IF Exists(files, p, st.block, "F") THEN Only([next EXCEPT !.filemarks = @ + 1], "good")
         ELSE IF Exists(files, p, st.block, "R") THEN Only(next, "good")
         ELSE Only(st, "rw_perm")

\* libltfs does not write where the end of data is missing before it has been
\* recovered, and keeps inside the partition.
MayWrite == st.ready /\ st.block < MaxBlock /\ (Recover \/ st.eod[st.partition] # MISSING_EOD)

\* A mutation: the record behind which data end is taken for the one to go.
PutOverPrevious(suffix) ==
  LET s == [RaisePass(st) EXCEPT !.block = @ + 1, !.filemarks = @ + (IF suffix = "F" THEN 1 ELSE 0)]
      made == RemoveRecord(files, st.partition, st.block - 1) \cup {<<st.partition, st.block, suffix>>}
      eod == WriteEod(made, s)
  IN  [dirs |-> <<made>> \o eod.dirs, st |-> eod.st]

\* filedebug_write and filedebug_writefm: the file of the block, then the end of
\* data behind it.
PutRecord(suffix) ==
  LET gone == RemoveCurrent(files, st)
      made == gone \cup {<<st.partition, st.block, suffix>>}
      s == [RaisePass(st) EXCEPT !.block = @ + 1, !.filemarks = @ + (IF suffix = "F" THEN 1 ELSE 0)]
      eod == WriteEod(made, s)
  IN  [dirs |-> <<gone, made>> \o eod.dirs, st |-> eod.st]
FileWrite == MayWrite /\ LET x == PutRecord("R") IN Commit(x.dirs, Pass(x.st), Warn(x.st), "good")
FileWriteFm == MayWrite /\ LET x == PutRecord("F") IN Commit(x.dirs, Pass(x.st), Warn(x.st), "good")

FileRewind ==
  st.ready /\ Only([st EXCEPT !.block = 0, !.filemarks = 0, !.early_warning = FALSE], "good")

\* filedebug_locate: not behind the end of data, or one behind the last block.
FileLocate(p, b) ==
  LET to == IF st.eod[p] = MISSING_EOD /\ st.last_block[p] < b THEN st.last_block[p] + 1
            ELSE IF st.eod[p] < b THEN st.eod[p] ELSE b
  IN  st.ready /\ Only(Warn(CountFilemarks([st EXCEPT !.partition = p, !.block = to])), "good")

\* _filedebug_space_fm: behind the n-th filemark ahead, or in front of the n-th
\* one behind; else as far as there is something.
SpaceFm(n, back) ==
  LET p == st.partition
      end == IF st.eod[p] = MISSING_EOD THEN st.last_block[p] + 1 ELSE st.eod[p]
      marks == {b \in 0 .. MaxBlock + 1 : Exists(files, p, b, "F") /\ IF back THEN b < st.block ELSE b >= st.block /\ b < end}
      Nth == CHOOSE b \in marks : Cardinality({c \in marks : IF back THEN c >= b ELSE c <= b}) = n
  IN  IF n = 0 THEN [to |-> st.block, rc |-> "good"]
      ELSE IF Cardinality(marks) >= n THEN [to |-> IF back THEN Nth ELSE Nth + 1, rc |-> "good"]
      ELSE IF back THEN [to |-> 0, rc |-> "bop_detected"]
      ELSE [to |-> end, rc |-> IF st.eod[p] = MISSING_EOD THEN "rw_perm" ELSE "eod_detected"]

\* _filedebug_space_rec stops behind a filemark ahead, and in front of the
\* filemark it meets behind after the first record.
SpaceRec(n, back) ==
  LET p == st.partition
      end == IF st.eod[p] = MISSING_EOD THEN st.last_block[p] + 1 ELSE st.eod[p]
      ahead == {b \in st.block .. st.block + n - 1 : b = end \/ Exists(files, p, b, "F")}
      behind == {b \in st.block - n + 1 .. st.block : b = 0 \/ (b < st.block /\ Exists(files, p, b, "F"))}
  IN  IF n = 0 THEN [to |-> st.block, rc |-> "good"]
      ELSE IF back THEN IF behind = {} THEN [to |-> st.block - n, rc |-> "good"]
                        ELSE [to |-> Max(behind), rc |-> IF Exists(files, p, Max(behind), "F") THEN "rw_perm" ELSE "bop_detected"]
      ELSE IF ahead = {} THEN [to |-> st.block + n, rc |-> "good"]
      ELSE IF Min(ahead) = end THEN [to |-> end, rc |-> "eod_detected"]
      ELSE [to |-> Min(ahead) + 1, rc |-> "rw_perm"]

\* filedebug_space counts the filemarks again whatever came of it.
FileSpace(type, n) ==
  LET p == st.partition
      x == CASE type = "eod" -> [to |-> st.eod[p], rc |-> "good"]
             [] type = "fm_f" -> SpaceFm(n, FALSE) [] type = "fm_b" -> SpaceFm(n, TRUE)
             [] type = "f" -> SpaceRec(n, FALSE) [] type = "b" -> SpaceRec(n, TRUE)
  IN  st.ready /\ IF st.block = MISSING_EOD /\ type # "eod" THEN Only(st, "rw_perm")
                  ELSE IF x.to = MISSING_EOD THEN Only([st EXCEPT !.block = x.to], "rw_perm")
                  ELSE Only(Warn(CountFilemarks([st EXCEPT !.block = x.to])), x.rc)

FileErase == MayWrite /\ LET x == WriteEod(files, st) IN Commit(x.dirs, vcr, x.st, "good")

\* filedebug_format and filedebug_setcap: both partitions are cut at their
\* beginning, only from the beginning of the first.
FileFormat(n) ==
  LET one == WriteEod(files, [st EXCEPT !.partition = 1, !.block = 0])
      zero == WriteEod(Final(one.dirs), [one.st EXCEPT !.partition = 0, !.block = 0])
  IN  /\ st.ready
      /\ IF st.partition # 0 \/ st.block # 0 THEN Only(st, "illegal_request")
         ELSE Commit(one.dirs \o zero.dirs, vcr, [zero.st EXCEPT !.partitions = n], "good")

FileNext ==
  \/ FileLoad \/ FileUnload \/ FileTestUnitReady \/ Die
  \/ FileReserveUnit \/ FileReleaseUnit \/ FilePreventRemoval \/ FileAllowRemoval
  \/ FileRead \/ FileWrite \/ FileWriteFm \/ FileRewind \/ FileErase
  \/ \E p \in Parts, b \in 0 .. MaxBlock \cup {MISSING_EOD - 1} : FileLocate(p, b)
  \/ \E type \in {"eod", "fm_f", "fm_b", "f", "b"}, n \in 1 .. MaxBlock : FileSpace(type, n)
  \/ \E n \in {1, 2} : FileFormat(n)
FileSpec == FileInit /\ [][FileNext]_fileVars

-----------------------------------------------------------------------------
(* Properties.                                                             *)

\* What a load would find in a partition.
RecordAt(p, b) == IF Exists(files, p, b, "F") THEN "F" ELSE "R"
Readable(p) == Min({b \in 0 .. MaxBlock + 2 :
                     Exists(files, p, b, "E") \/ ~(Exists(files, p, b, "R") \/ Exists(files, p, b, "F"))})
Medium == [p \in Parts |-> [i \in 1 .. Readable(p) |-> RecordAt(p, i - 1)]]

\* The end of data a loaded cartridge is written at is the end of what can be
\* read back: no record is missing in front of it.
EodIsEnd == st.ready => \A p \in Parts : st.eod[p] \in {MISSING_EOD, Readable(p)}

\* The count of filemarks in front of the head, which reads and writes carry on
\* and locates and spaces take again, is what the directory holds.
FilemarksCounted ==
  st.ready /\ st.block # MISSING_EOD => st.filemarks = MarksBefore(files, st.partition, st.block)

\* The directory is a cartridge: it is cut and written at the head only, and a
\* crash at any point of a call leaves all in front of the head.
Cartridge == INSTANCE TapeMedium WITH medium <- Medium, at <- <<st.partition, st.block>>
FileRefinement ==
  Cartridge!TMInit /\ [][UNCHANGED fileVars \/ Cartridge!TMNext]_<<Medium, <<st.partition, st.block>>>>

\* What the emulated drive remembers of the directory is what is in it: the ends
\* of data and the file marks before the head. (filedebug_tc.c)
DirectoryKnown == EodIsEnd /\ FilemarksCounted
=============================================================================
