----------------------------- MODULE TapeDevice -----------------------------
(***************************************************************************)
(* The device layer (tape.c) on the LTO back end: what libltfs believes of *)
(* the drive (struct device_data) next to the drive itself.  Every action  *)
(* is one call, made under the device lock.  A call that asks the back end *)
(* several times goes through the drive's results one after the other.     *)
(*                                                                         *)
(* The LTO back end never returns a code that asks for revalidation, so    *)
(* the loops on NEED_REVAL end at once; the fence is in VolumeLock.        *)
(***************************************************************************)
EXTENDS LtoDrive

CONSTANTS Faults,              \* commands that may fail
          MaxStamp             \* records written in a behaviour

VARIABLES dev,                 \* struct device_data
          drv,                 \* the drive and its cartridge
          user                 \* what libltfs has just done: where it may write

vars == <<dev, drv, user>>

ASSUME DeviceAssumption == Faults \in Nat /\ MaxStamp \in Nat

Space3 == {"writable", "less", "no"}
BOM == [partition |-> 0, block |-> 0, ew |-> FALSE, pew |-> FALSE]
Closed == [open |-> FALSE, position |-> BOM, append_pos |-> [p \in Partition |-> 0],
           write_protect |-> FALSE, write_error |-> FALSE, ready |-> FALSE,
           partition_space |-> [p \in Partition |-> "writable"],
           device_reserved |-> FALSE, medium_locked |-> FALSE, append_only_mode |-> FALSE]

Init == dev = Closed /\ drv = NewDrive(Faults) /\ user = "none"

-----------------------------------------------------------------------------
(* Helpers: what a call leaves in struct device_data.  A pair <<v, d>> is a  *)
(* device_data and a drive.                                                  *)

Took(v, r) == [v EXCEPT !.position = r.pos]

\* tape_seek and tape_seek_eod note the warnings for the partition they reach.
NoteWarning(v) ==
  LET p == v.position.partition
  IN  [v EXCEPT !.partition_space[p] = IF v.position.ew THEN "no"
                                       ELSE IF v.partition_space[p] # "no" /\ v.position.pew THEN "less"
                                       ELSE v.partition_space[p]]

\* tape_seek: nothing is done if the head is believed to be there.
There(v, dest) == v.position.partition = dest.partition /\ v.position.block = dest.block
Seek(v, d, dest) ==
  IF There(v, dest) THEN {<<v, d, "ok">>}
  ELSE {LET w == IF r.rc = "ok" THEN NoteWarning(Took(v, r)) ELSE Took(v, r)
        IN  <<w, r.drv, IF r.rc = "ok" /\ (r.pos.partition # dest.partition
                                           \/ (dest.block # EOD /\ r.pos.block # dest.block))
                        THEN "error" ELSE r.rc>>
        : r \in Locate(d, dest, v.position)}

SeekEodResults(v, d, p) ==
  {IF r.rc # "ok" \/ r.pos.partition # p THEN <<Took(v, r), r.drv, "error">>
   ELSE <<[NoteWarning(Took(v, r)) EXCEPT !.append_pos[p] = r.pos.block], r.drv, "ok">>
   : r \in Locate(d, [partition |-> p, block |-> EOD], v.position)}

SpaceResults(v, d, n) == {<<Took(v, r), r.drv, r.rc>> : r \in Space(d, n, v.position)}

\* One call after another, the second only if the first went well.
Then(results, F(_, _)) == UNION {IF x[3] = "ok" THEN F(x[1], x[2]) ELSE {x} : x \in results}

\* Flags that follow a command whatever it returned.
SetFlag(results, v, F(_, _)) == {<<F(v, r.rc = "ok"), r.drv, r.rc>> : r \in results}
Reserve(v, d) ==
  IF v.device_reserved THEN {<<v, d, "ok">>}
  ELSE SetFlag(ReserveUnit(d), v, LAMBDA w, ok : [w EXCEPT !.device_reserved = ok])
Release(v, d) ==
  IF ~v.device_reserved THEN {<<v, d, "ok">>}
  ELSE SetFlag(ReleaseUnit(d), v, LAMBDA w, ok : [w EXCEPT !.device_reserved = ~ok])
Prevent(v, d) ==
  IF v.medium_locked THEN {<<v, d, "ok">>}
  ELSE SetFlag(PreventRemoval(d), v, LAMBDA w, ok : [w EXCEPT !.medium_locked = ok])
Allow(v, d, force) ==
  IF ~(v.medium_locked \/ force) THEN {<<v, d, "ok">>}
  ELSE SetFlag(AllowRemoval(d), v, LAMBDA w, ok : [w EXCEPT !.medium_locked = ~ok])

\* tape_enable_append_only_mode: the cartridge is unloaded and held while the
\* mode of a loaded one is switched off, and loaded first to switch it on.
SetAom(v, d, on) ==
  LET Select(w, e) == {<<IF r.rc = "ok" THEN [w EXCEPT !.append_only_mode = on] ELSE w, r.drv, r.rc>>
                         : r \in ModeSelectAom(e, on)}
      Moved(results) == {<<Took(v, r), r.drv, IF r.rc = "nomedium" THEN "error" ELSE r.rc>> : r \in results}
  IN  IF d.cart # "loaded" THEN Select(v, d)
      ELSE IF on THEN Then(Moved(Load(d, v.position)), Select)
      ELSE IF ~d.aom THEN Select(v, d)
      ELSE Then(Then(Moved(Unload(d, v.position)),
                     LAMBDA w, e : {<<w, r.drv, r.rc>> : r \in ModeSelectAom(e, FALSE)}),
                LAMBDA w, e : {<<[w EXCEPT !.position = r.pos, !.append_only_mode = r.rc # "ok" /\ @],
                                 r.drv, r.rc>> : r \in Load(e, w.position)})

-----------------------------------------------------------------------------
(* Opening, loading, closing.                                              *)

\* tape_load_tape behind the load itself.  What the capacity says of the
\* partitions is replaced by what the early warning attribute says: SET closes
\* partition 1, anything else opens both.
Loaded(v, d) ==
  LET closed == d.mam.ewstate = "set"
      BySize(p) == IF Remaining(d, p) = 0 THEN "no" ELSE "writable"
  IN  [v EXCEPT !.ready = TRUE, !.write_protect = FALSE, !.write_error = FALSE,
                !.partition_space = IF closed THEN [p \in Partition |-> IF p = 1 THEN "no" ELSE BySize(p)]
                                    ELSE [p \in Partition |-> "writable"],
                !.position.ew = closed /\ v.position.ew]
Forget(v) == [v EXCEPT !.append_pos = [p \in Partition |-> 0]]
LoadTape(v, d) ==
  LET Loadable == {<<v, r.drv, IF r.rc \in {"ok", "init"} THEN "ok" ELSE "error">> : r \in TestUnitReady(d)}
      Insert(w, e) == {<<IF r.rc = "ok" THEN Forget(Took(w, r)) ELSE Took(w, r), r.drv,
                         IF r.rc = "ok" THEN "ok" ELSE "error">> : r \in Load(e, w.position)}
      Ask(w, e) == {<<Took(w, r), r.drv, r.rc>> : r \in ReadPosition(e, w.position)}
  IN  {IF x[3] = "ok" THEN <<Loaded(x[1], x[2]), x[2], "ok">> ELSE <<[x[1] EXCEPT !.ready = FALSE], x[2], x[3]>>
       : x \in Then(Then(Then(Loadable, Insert), Prevent), Ask)}

Outcome(x, next) == dev' = x[1] /\ drv' = x[2] /\ user' = IF x[3] = "ok" THEN next ELSE "none"

\* Reserving is tried three times; the lock of another user is taken off.
Open ==
  /\ ~dev.open
  /\ LET Tries == UNION {IF x[3] = "ok" THEN {x} ELSE
               UNION {IF y[3] = "ok" THEN {y} ELSE Reserve(y[1], y[2]) : y \in Reserve(x[1], x[2])}
               : x \in Reserve(Closed, drv)}
     IN  \E x \in Tries : IF x[3] # "ok" THEN \E y \in Allow(x[1], x[2], FALSE) :
                               drv' = y[2] /\ UNCHANGED <<dev, user>>
                          ELSE \E y \in Allow([x[1] EXCEPT !.open = TRUE], x[2], TRUE) :
                               dev' = y[1] /\ drv' = y[2] /\ user' = "none"

LoadTapeCall == dev.open /\ \E x \in LoadTape(dev, drv) : Outcome(x, "none")

UnloadResults(v, d) ==
  UNION {UNION {UNION {{<<[y[1] EXCEPT !.ready = FALSE], y[2], y[3]>> : y \in SetAom(Took(w[1], u), u.drv, FALSE)}
                         : u \in Unload(r.drv, r.pos)}
                  : r \in Rewind(w[2], w[1].position)}
           : w \in Allow(v, d, FALSE)}
UnloadTape == dev.open /\ dev.ready /\ \E x \in UnloadResults(dev, drv) : Outcome(x, "none")

EnableAppendOnly(on) == dev.open /\ dev.ready /\ user = "none" /\ \E x \in SetAom(dev, drv, on) : Outcome(x, "none")

\* Closing goes on whatever fails; the flags are gone with the back end.
Close(skip_aom) ==
  /\ dev.open
  /\ \E a \in Allow(dev, drv, FALSE) :
       \E b \in IF skip_aom THEN {a} ELSE SetAom(a[1], a[2], FALSE) :
         \E c \in Release(b[1], b[2]) :
           \E r \in Rewind(c[2], c[1].position) :
             dev' = [c[1] EXCEPT !.open = FALSE, !.ready = FALSE] /\ drv' = r.drv /\ user' = "none"
\* The cartridge is taken out by hand, which the drive allows unless locked.
Eject ==
  /\ ~drv.prevent /\ drv.cart # "out" /\ ~dev.ready
  /\ drv' = [drv EXCEPT !.cart = "out", !.head = [partition |-> 0, block |-> 0]]
  /\ UNCHANGED <<dev, user>>
Insert ==
  /\ drv.cart = "out"
  /\ drv' = [drv EXCEPT !.cart = "in", !.head = [partition |-> 0, block |-> 0]]
  /\ UNCHANGED <<dev, user>>

-----------------------------------------------------------------------------
(* Positioning.                                                            *)

Usable == dev.open /\ dev.ready /\ user \in {"none", "append"}

SeekBlock(p, b) == Usable /\ \E x \in Seek(dev, drv, [partition |-> p, block |-> b]) : Outcome(x, "none")
SeekEod(p) == Usable /\ \E x \in SeekEodResults(dev, drv, p) : Outcome(x, "append")

\* The index partition is written from the block the last index is behind.
SetAppendPosition(p, b) ==
  Usable /\ dev' = [dev EXCEPT !.append_pos[p] = b] /\ UNCHANGED drv /\ user' = "none"

\* 0 stands for EOD; the place found is kept as the append position.
SeekAppendResults(v, d, p, unlock) ==
  LET dest == [partition |-> p, block |-> IF v.append_pos[p] = 0 THEN EOD ELSE v.append_pos[p]]
      Unlock(w, e) == IF unlock /\ w.append_only_mode /\ dest.block # EOD
                      THEN {<<w, r.drv, r.rc>> : r \in AllowOverwrite(e, w.position)}
                      ELSE {<<w, e, "ok">>}
      Keep(x) == <<[x[1] EXCEPT !.append_pos[p] = IF x[1].append_pos[p] = 0 THEN x[1].position.block
                                                         ELSE x[1].append_pos[p]], x[2], x[3]>>
  IN  UNION {IF x[3] = "ok" THEN {Keep(y) : y \in Unlock(x[1], x[2])} ELSE {x} : x \in Seek(v, d, dest)}
SeekAppendPosition(p) == Usable /\ \E x \in SeekAppendResults(dev, drv, p, p = 0) : Outcome(x, "append")

LocateNextIndex == Usable /\ \E x \in SpaceResults(dev, drv, 1) : Outcome(x, "none")
LocatePreviousIndex ==
  Usable /\ \E x \in Then(SpaceResults(dev, drv, -4), LAMBDA v, d : SpaceResults(v, d, 1)) : Outcome(x, "none")
LocateFirstIndex(p) ==
  Usable /\ \E x \in Then(Seek(dev, drv, [partition |-> p, block |-> 4]),
                          LAMBDA v, d : SpaceResults(v, d, 1)) : Outcome(x, "none")
LocateLastIndex(p) ==
  Usable /\ \E x \in Then(Then(SeekEodResults(dev, drv, p), LAMBDA v, d : SpaceResults(v, d, -2)),
                          LAMBDA v, d : SpaceResults(v, d, 1)) : Outcome(x, "none")

-----------------------------------------------------------------------------
(* Reading and writing.                                                    *)

\* Without a key manager a read is one command.
ReadBlock ==
  Usable /\ \E r \in Read(drv, dev.position) : Outcome(<<Took(dev, r), r.drv, r.rc>>, "none")

\* What tape_write and tape_write_filemark refuse: the answer of tape_read_only,
\* but for the warnings the caller ignores.
Refused(v, ignore_less, ignore_nospc) ==
  LET s == v.partition_space[v.position.partition]
  IN  v.write_protect \/ v.write_error \/ (s = "no" /\ ~ignore_nospc) \/ (s = "less" /\ ~ignore_less)

\* The volume lock state after a write error: which partitions have failed.
FailedState(state, is_index_part) ==
  IF is_index_part THEN IF state # "dppwe" THEN "ippwe" ELSE "dp_ip_pwe"
  ELSE IF state # "ippwe" THEN "dppwe" ELSE "dp_ip_pwe"
Blame(d, is_index_part) ==
  UNION {IF s[2] \in {"locked", "permlocked"} THEN {s[1]}
         ELSE {r.drv : r \in WriteLock(s[1], FailedState(s[2], is_index_part))} : s \in ReadLock(d)}

\* A mutation: the append position is not taken along.
AppendedNot(v) == v
Appended(v) == [v EXCEPT !.append_pos[v.position.partition] = v.position.block]
Full(v) == [v EXCEPT !.partition_space[v.position.partition] = "no"]

\* tape_write: an error closes the device and names the partition, an early
\* warning closes the partition and is remembered on the cartridge.
WriteResults(v, d, is_index_part, ignore_nospc) ==
  UNION {LET w == Took(v, r)
         IN  IF r.rc = "error" THEN {<<[w EXCEPT !.write_error = TRUE], e, "error">> : e \in Blame(r.drv, is_index_part)}
             ELSE IF w.position.ew
             THEN {<<Appended(Full(w)), q.drv, IF ignore_nospc THEN "ok" ELSE "nospace">> : q \in WriteEwstate(r.drv, "set")}
             ELSE {<<Appended(w), r.drv, "ok">>}
         : r \in Write(d, v.position)}
WriteBlock(is_index_part, ignore_less, ignore_nospc) ==
  /\ Usable /\ user = "append" /\ drv.stamp < MaxStamp
  /\ is_index_part = (dev.position.partition = 0)
  /\ IF Refused(dev, ignore_less, ignore_nospc) THEN user' = "none" /\ UNCHANGED <<dev, drv>>
     ELSE \E x \in WriteResults(dev, drv, is_index_part, ignore_nospc) : Outcome(x, "append")

\* A mutation: a filemark leaves the append position.
FilemarkNotCounted(v, d, ignore_nospc) ==
  {IF r.rc = "error" THEN <<[Took(v, r) EXCEPT !.write_error = TRUE], r.drv, "error">>
   ELSE <<Took(v, r), r.drv, "ok">> : r \in WriteFm(d, v.position)}

\* tape_write_filemark: an error only closes the device, and a warning only
\* the partition.
FilemarkResults(v, d, ignore_nospc) ==
  {LET w == Took(v, r)
   IN  IF r.rc = "error" THEN <<[w EXCEPT !.write_error = TRUE], r.drv, "error">>
       ELSE IF w.position.ew THEN <<Appended(Full(w)), r.drv, IF ignore_nospc THEN "ok" ELSE "nospace">>
       ELSE <<Appended(w), r.drv, "ok">>
   : r \in WriteFm(d, v.position)}
WriteFilemark(ignore_less, ignore_nospc) ==
  /\ Usable /\ user = "append" /\ drv.stamp < MaxStamp
  /\ IF Refused(dev, ignore_less, ignore_nospc) THEN user' = "none" /\ UNCHANGED <<dev, drv>>
     ELSE \E x \in FilemarkResults(dev, drv, ignore_nospc) : Outcome(x, "append")

\* tape_recover_eod_status ends with a seek to the place where reading failed
\* and an erase there: GENERIC_OEM takes the block before it.
RecoverEod ==
  /\ Usable /\ user = "none"
  /\ \E r \in ReadPosition(drv, dev.position) :
       IF r.rc # "ok" \/ r.pos.block = 0 THEN drv' = r.drv /\ UNCHANGED <<dev, user>>
       ELSE \E x \in Then(Then(LoadTape(dev, r.drv),
                               LAMBDA v, d : Seek(v, d, [partition |-> r.pos.partition, block |-> r.pos.block - 1])),
                          LAMBDA v, d : {<<Took(v, e), e.drv, e.rc>> : e \in Erase(d, v.position)}) :
              Outcome(x, "erased")

\* tape_format and tape_unformat: both load again, and clear the early warning.
FormatTape(format) ==
  /\ dev.open /\ dev.ready
  /\ \E x \in Then({<<Took(dev, l), l.drv, l.rc>> : l \in Load(drv, dev.position)},
                   LAMBDA v, d : {<<Took(v, f), f.drv, f.rc>> : f \in Format(d, format, v.position)}) :
       IF x[3] # "ok" THEN dev' = x[1] /\ drv' = x[2] /\ user' = "failed"
       ELSE \E r \in WriteEwstate(x[2], "clear") :
              /\ dev' = [x[1] EXCEPT !.partition_space = [p \in Partition |-> "writable"]]
              /\ drv' = r.drv /\ user' = IF format = "dest" THEN "label1" ELSE "failed"

\* The labels are written at the beginning of both partitions before anything
\* else; who fails to gives the cartridge up.
LabelOf == [label1 |-> 1, label0 |-> 0]
WriteLabel ==
  /\ dev.open /\ user \in DOMAIN LabelOf /\ drv.stamp < MaxStamp
  /\ LET p == LabelOf[user]
         Block(v, d) == IF Refused(v, TRUE, FALSE) THEN {<<v, d, "error">>} ELSE WriteResults(v, d, p = 0, FALSE)
         Mark(v, d) == IF Refused(v, TRUE, FALSE) THEN {<<v, d, "error">>} ELSE FilemarkResults(v, d, FALSE)
     IN  \E x \in Then(Then(Seek(dev, drv, [partition |-> p, block |-> 0]), Block), Mark) :
           dev' = x[1] /\ drv' = x[2]
           /\ user' = IF x[3] # "ok" THEN "failed" ELSE IF p = 1 THEN "label0" ELSE "none"

Next ==
  \/ Open \/ LoadTapeCall \/ UnloadTape \/ Eject \/ Insert
  \/ \E b \in BOOLEAN : EnableAppendOnly(b) \/ Close(b)
  \/ \E p \in Partition : \/ SeekEod(p) \/ SeekAppendPosition(p) \/ LocateLastIndex(p)
                          \/ LocateFirstIndex(p)
                          \/ \E b \in 0 .. Len(drv.recs[p]) : SeekBlock(p, b)
  \/ \E b \in Filemarks(drv.recs[0]) : SetAppendPosition(0, b - 1)
  \/ LocateNextIndex \/ LocatePreviousIndex
  \/ ReadBlock
  \/ WriteBlock(TRUE, TRUE, TRUE) \/ WriteBlock(FALSE, FALSE, TRUE) \/ WriteBlock(FALSE, TRUE, TRUE)
  \/ WriteFilemark(TRUE, TRUE)
  \/ RecoverEod
  \/ \E f \in {"dest", "default"} : FormatTape(f)
  \/ WriteLabel

-----------------------------------------------------------------------------
(* Properties.                                                             *)

TypeOK ==
  /\ dev.position.partition \in Partition /\ dev.position.block \in 0 .. EOD
  /\ dev.append_pos \in [Partition -> 0 .. EOD]
  /\ dev.partition_space \in [Partition -> Space3]
  /\ drv.head.partition \in Partition /\ drv.head.block \in 0 .. Len0(drv)
  /\ user \in {"none", "append", "erased", "failed", "label0", "label1"}

\* No record of the data partition is overwritten, whatever was sought, read and
\* failed before: a write at the append position goes behind the last record
\* (tape_seek trusts the position it remembers, tape_seek_append_position the
\* append position).
NoRecordLost ==
  [][drv'.stamp # drv.stamp => IsPrefix(drv.recs[1], drv'.recs[1])]_vars

\* While the device takes writes, the append position it remembers for the data
\* partition is where the records end (append_pos is set by tape_write,
\* tape_write_filemark and tape_seek_eod, and forgotten by tape_load_tape).
AppendPosTrue ==
  dev.open /\ dev.ready /\ ~dev.write_error /\ user \in {"none", "append"}
    => dev.append_pos[1] \in {0, Len(drv.recs[1])}

\* A data partition found full, and noted to be on the cartridge, is opened again
\* by nothing but a format: not by loading the cartridge again, nor by a seek.
ClosedStaysClosed ==
  [][dev.open /\ dev.ready /\ dev.partition_space[1] = "no" /\ drv.mam.ewstate = "set"
     /\ user' \notin {"label1", "failed"} /\ dev'.open /\ dev'.ready
       => dev'.partition_space[1] = "no"]_vars

\* A write error adds its partition to the volume lock state of the cartridge and
\* takes no other one off: tape.c says that write errors are set per partition.
Names(lock) == [unlocked |-> {}, locked |-> {}, permlocked |-> {}, dppwe |-> {1}, ippwe |-> {0},
                dp_ip_pwe |-> {0, 1}][lock]
FailuresNamed ==
  [][dev'.write_error /\ ~dev.write_error => Names(drv.mam.lock) \subseteq Names(drv'.mam.lock)]_vars

\* A partition is only taken for full once the drive has warned of its end:
\* tape_ops.h asks locate to set the warnings of the position it reaches.
FullOnlyIfWarned ==
  \A p \in Partition : dev.open /\ dev.ready /\ user # "erased" /\ dev.partition_space[p] = "no"
                         => Len(drv.recs[p]) >= EwAt

Spec == Init /\ [][Next]_vars

\* The remembered positions are those of the drive. (tape.c:1013)
PositionsTrue == TypeOK /\ AppendPosTrue

\* No record is written over by accident, and a partition that was found full takes
\* no more records. (tape.c:1013-1180, ltotape.c:862-873)
TapeKept == NoRecordLost /\ ClosedStaysClosed
=============================================================================
