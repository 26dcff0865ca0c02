---------------------------- MODULE IndexCommit ----------------------------
(***************************************************************************)
(* How a volume stays consistent: ltfs_write_index, the data written       *)
(* between indexes (ltfs_fsraw_write_data), sync, unmount, and what        *)
(* ltfs_mount and ltfs_check_medium make of the tape after a crash at any  *)
(* place.                                                                  *)
(*                                                                         *)
(* A partition is the sequence of records behind its label; record i is    *)
(* block i + 3 of the tape.  An index is one block.  vol->lock is held for *)
(* writing during a whole ltfs_write_index and the device lock during a    *)
(* data write, so that one job at a time uses the drive.                   *)
(*                                                                         *)
(* The drive is external.  It buffers records and writes them in order; a  *)
(* crash keeps any prefix of the buffer.  Writing to the medium changes    *)
(* the volume change reference.  Errors that make the drive read-only      *)
(* (dev->write_error, write protection, lock states) and device resets are *)
(* left out, as are rollback mounts and WORM cartridges.                   *)
(***************************************************************************)
EXTENDS Integers, Sequences, FiniteSets

CONSTANTS
  MaxUpdates,   \* bound: changes of the file tree
  MaxData,      \* bound: data blocks written
  MaxFaults,    \* bound: crashes and failures
  FaultKinds,   \* which of "crash", "locate", "schema", "mam" and "space" occur
  Modes         \* how ltfs_mount is called: [full, deep, extra]

Parts == {"IP", "DP"}
AllFaultKinds == {"crash", "locate", "schema", "mam", "space"}

ASSUME IndexCommitAssumption ==
  /\ MaxUpdates \in Nat /\ MaxData \in Nat /\ MaxFaults \in Nat
  /\ FaultKinds \subseteq AllFaultKinds
  /\ Modes \subseteq [full : BOOLEAN, deep : BOOLEAN, extra : BOOLEAN]

VARIABLES
  tape,         \* the records on the medium, for each partition
  head,         \* where the drive's buffer goes: <<partition, record>>
  buf,          \* records the drive has accepted and not yet written
  mam,          \* coherency attributes: [current, count, set]; current says
                \* that the volume change reference in it is that of the tape
  index,        \* vol->index, the file tree as a version and a set of extents
  file_end,     \* vol->ip_index_file_end, vol->dp_index_file_end
  coh,          \* vol->ip_coh, vol->dp_coh
  append_pos,   \* dev->append_pos, 0: at end of data
  pending,      \* blocks written and in no extent yet
  want,         \* the partition ltfs_sync_index has chosen, without a lock
  job,          \* the ltfs_write_index calls under way and what follows them
  phase,        \* "mount", "up", "unmount"; "closing" when ltfs_unmount has
                \* returned 0 and "failed" when it or ltfs_mount has not; then
                \* "out" and "down" with the device closed
  less,         \* the partitions filled up to the programmable early warning
  committed,    \* the latest version in an index that was reported written
  clean,        \* nothing has failed since the last full check of the medium
  written,      \* data blocks written so far
  faults        \* crashes and failures so far

medium == <<tape, head, buf, mam>>
volume == <<index, file_end, coh, append_pos, pending, want>>
ghosts == <<committed, clean>>
vars == <<medium, volume, job, phase, less, ghosts, written, faults>>

-----------------------------------------------------------------------------
(***************************************************************************)
(* Records, and the drive.                                                 *)
(***************************************************************************)
FM   == [kind |-> "fm"]
Junk == [kind |-> "junk"]                       \* part of an index
Data(id) == [kind |-> "data", id |-> id]
IndexBlock(ix) == [kind |-> "index", gen |-> ix.gen, self |-> ix.self,
                   back |-> ix.back, ver |-> ix.ver, refs |-> ix.refs]

None == <<"none", 0>>
Ref(p, pos, id) == [at |-> <<p, pos>>, id |-> id]

Greatest(S) == CHOOSE n \in S : \A k \in S : k <= n

\* A partition, with what the drive still has to write to it.
Seen(p) ==
  IF head[1] = p /\ buf # <<>> THEN SubSeq(tape[p], 1, head[2] - 1) \o buf ELSE tape[p]

EOD(s) == Len(s) + 1
Here == <<head[1], head[2] + Len(buf)>>

\* The first k records in the buffer reach the medium; then it holds recs.
Written(k, recs) ==
  /\ tape' = IF k = 0 THEN tape
             ELSE [tape EXCEPT ![head[1]] = SubSeq(@, 1, head[2] - 1) \o SubSeq(buf, 1, k)]
  /\ mam' = IF k = 0 THEN mam ELSE [p \in Parts |-> [mam[p] EXCEPT !.current = FALSE]]
  /\ buf' = recs

\* tape_seek, which does nothing when the drive is there already, and tape_write
\* of recs.
Locate(to, recs) ==
  IF Here = to
  THEN buf' = buf \o recs /\ UNCHANGED <<tape, head, mam>>
  ELSE Written(Len(buf), recs) /\ head' = to

\* tape_write and tape_write_filemark with the immediate bit, where the drive is.
Put(p, recs) ==
  /\ Locate(Here, recs)
  /\ append_pos' = [append_pos EXCEPT ![p] = Here[2] + Len(recs)]

AppendAt(p) == IF append_pos[p] = 0 THEN EOD(Seen(p)) ELSE append_pos[p]

Fault(kind) ==
  /\ kind \in FaultKinds /\ faults < MaxFaults
  /\ faults' = faults + 1

-----------------------------------------------------------------------------
(***************************************************************************)
(* What is read of a partition s when a volume is mounted.                 *)
(***************************************************************************)
\* ltfs_seek_index: the last index behind a file mark, 0 if there is none.
FoundIn(s) ==
  Greatest({0} \cup {i \in 2..Len(s) : s[i].kind = "index" /\ s[i-1] = FM})

FMAfter(s) == FoundIn(s) < Len(s) /\ s[FoundIn(s) + 1] = FM

\* Where the index ends, 0 when there is none.
EndOfIndex(s) == IF FoundIn(s) = 0 THEN 0 ELSE FoundIn(s) + IF FMAfter(s) THEN 2 ELSE 1

ExtraBlocks(s) ==
  IF FoundIn(s) = 0 THEN s # <<>> ELSE EndOfIndex(s) # EOD(s)

\* The file mark that ltfs_check_medium adds to an index at the end.
Filled(s) == IF FoundIn(s) # 0 /\ FoundIn(s) = Len(s) THEN Append(s, FM) ELSE s

\* _ltfs_last_ref: the block after the last one of partition p in an extent.
LastRef(p, refs) == Greatest({0} \cup {r.at[2] + 1 : r \in {x \in refs : x.at[1] = p}})

\* _ltfs_check_extents.
ExtentsValid(ix, ip, dp) ==
  \A r \in ix.refs : r.at[2] + 1 < EOD(IF r.at[1] = "IP" THEN ip ELSE dp)

\* _ltfs_check_pointers, for the two indexes found.
Newer(ip, dp, s) ==
  IF ip.gen >= dp.gen /\ ip.back = dp.self THEN "IP"
  ELSE IF ip.gen > dp.gen THEN "invalid"
  ELSE IF ip.gen = dp.gen /\ ip.back = None THEN "DP"
  ELSE IF dp.back[2] > ip.back[2]
          /\ \/ dp.back[2] \notin DOMAIN s
             \/ s[dp.back[2]].kind # "index"
             \/ ip.back = None /\ s[dp.back[2]].gen < ip.gen
  THEN "invalid"
  ELSE "DP"

\* Which index ltfs_check_medium takes, or the error it ends with.
Verdict(ip, dp, deep) ==
  LET i == FoundIn(ip)
      d == FoundIn(dp)
  IN  IF i = 0 /\ d = 0 THEN "none"
      ELSE IF ~deep /\ (ExtraBlocks(ip) \/ ExtraBlocks(dp)) THEN "inconsistent"
      ELSE IF d = 0 THEN IF ip[i].back # None \/ ~ExtentsValid(ip[i], ip, dp)
                         THEN "invalid" ELSE "IP"
      ELSE IF i = 0 THEN IF ~ExtentsValid(dp[d], ip, dp) THEN "invalid" ELSE "DP"
      ELSE Newer(ip[i], dp[d], dp)

Chosen(ip, dp, deep) ==
  IF Verdict(ip, dp, deep) = "IP" THEN ip[FoundIn(ip)] ELSE dp[FoundIn(dp)]

\* _ltfs_populate_lost_found, for partition p.
LostFound(p, s, refs) ==
  LET from == IF LastRef(p, refs) >= EndOfIndex(s) THEN LastRef(p, refs) + 1
              ELSE EndOfIndex(s)
  IN  {Ref(p, k, IF s[k].kind = "data" THEN s[k].id ELSE 0) :
         k \in {k \in DOMAIN s : k >= from /\ s[k] # FM}}

\* The append position of a partition in the recovery that erases.
EraseFrom(p, s, refs) ==
  LET last == LastRef(p, refs)
  IN  IF FoundIn(s) = 0 THEN IF s = <<>> THEN EOD(s) ELSE 1
      ELSE IF ~ExtraBlocks(s) THEN IF p = "IP" THEN FoundIn(s) - 1 ELSE EOD(s)
      ELSE IF last >= EOD(s) THEN EOD(s)
      ELSE IF last >= EndOfIndex(s) THEN last
      ELSE IF p = "IP" THEN FoundIn(s) - 1 ELSE EndOfIndex(s)

-----------------------------------------------------------------------------
\* A mutation: the partition is rewritten from its first block.
IndexAppendFirst(self) == 1

\* "append" in the index partition overwrites the last index.
IndexAppend(self) == self[2] - 1

NoJob == [calls |-> <<>>, step |-> "begin", tried |-> FALSE, then |-> "none", old |-> <<>>]
Idle == job = NoJob

\* ltfs_write_index(p) for each p in calls, then what comes next.
StartJob(calls, then) == job' = [NoJob EXCEPT !.calls = calls, !.then = then]

NoIndex == [gen |-> 0, self |-> None, back |-> None, ver |-> 0, refs |-> {},
            dirty |-> FALSE]

\* The volume is not mounted.
Forgotten ==
  /\ index' = NoIndex
  /\ file_end' = [p \in Parts |-> FALSE]
  /\ coh' = [p \in Parts |-> [count |-> 0, set |-> 0]]
  /\ append_pos' = [p \in Parts |-> 0]
  /\ pending' = {} /\ want' = "none"
  /\ job' = NoJob
  /\ head' = <<"none", 1>>

\* A volume that mkltfs (ltfs_format_tape) has made.
Init ==
  LET ix(p) == IndexBlock([gen |-> 1, self |-> <<p, 2>>, ver |-> 0, refs |-> {},
                           back |-> IF p = "IP" THEN <<"DP", 2>> ELSE None])
  IN  /\ tape = [p \in Parts |-> <<FM, ix(p), FM>>]
      /\ head = <<"none", 1>> /\ buf = <<>>
      /\ mam = [p \in Parts |-> [current |-> TRUE, count |-> 1, set |-> 2]]
      /\ index = NoIndex
      /\ file_end = [p \in Parts |-> FALSE]
      /\ coh = [p \in Parts |-> [count |-> 0, set |-> 0]]
      /\ append_pos = [p \in Parts |-> 0]
      /\ pending = {} /\ want = "none"
      /\ job = NoJob
      /\ phase = "out" /\ less = {}
      /\ committed = 0 /\ clean = TRUE
      /\ written = 0 /\ faults = 0

-----------------------------------------------------------------------------
(***************************************************************************)
(* ltfs_write_index.                                                       *)
(***************************************************************************)
Part == Head(job.calls)

\* A mutation: only for a data partition that does not end in an index.
NeedsDPAtEnd == ~file_end["DP"]

\* "write to data partition first if required"
NeedsDP == ~file_end["DP"] \/ (file_end["IP"] /\ index.self[1] = "IP")

DataPartitionFirst ==
  /\ job.calls # <<>> /\ job.step = "begin"
  /\ Part = "IP" /\ ~job.tried /\ NeedsDP
  /\ job' = [job EXCEPT !.calls = <<"DP">> \o @, !.tried = TRUE]
  /\ UNCHANGED <<medium, volume, phase, less, ghosts, written, faults>>

\* What follows the last of the calls, when it has failed or succeeded.
Finish(ok) ==
  CASE job.then = "mount" /\ ok ->
         /\ file_end' = [p \in Parts |-> TRUE]
         /\ phase' = "up" /\ job' = NoJob
    [] job.then \in Parts /\ ok -> job' = [NoJob EXCEPT !.then = job.then]
                                   /\ UNCHANGED <<file_end, phase>>
    [] OTHER -> /\ phase' = IF job.then \notin {"mount", "unmount"} THEN phase
                             ELSE IF ok THEN "closing" ELSE "failed"
                /\ job' = NoJob
                /\ UNCHANGED file_end

\* "point to first data block, not preceding filemark"
SelfPointer(to) == <<to[1], to[2] + 1>>

NextGeneration(ix) == IF ix.dirty THEN ix.gen + 1 ELSE ix.gen

\* A mutation: the self pointer of the index that was not written stays.
FailedKeepsSelf(old) ==
  /\ index' = [old EXCEPT !.self = index.self]
  /\ clean' = FALSE
  /\ IF Len(job.calls) > 1
     THEN /\ job' = [job EXCEPT !.calls = Tail(@), !.step = "begin"]
          /\ UNCHANGED <<phase, file_end>>
     ELSE Finish(FALSE)

\* A failed call takes its changes of vol->index back.  The failure is ignored
\* when it is that of the data partition index before the other one.
Failed(old) ==
  /\ index' = old
  /\ clean' = FALSE
  /\ IF Len(job.calls) > 1
     THEN /\ job' = [job EXCEPT !.calls = Tail(@), !.step = "begin"]
          /\ UNCHANGED <<phase, file_end>>
     ELSE Finish(FALSE)

\* tape_seek_append_position, the pointers, and the flush of the data that may
\* precede an index in the index partition.
LocateAppend ==
  /\ job.calls # <<>> /\ job.step = "begin"
  /\ ~(Part = "IP" /\ ~job.tried /\ NeedsDP)
  /\ UNCHANGED <<coh, pending, want, less, committed, written>>
  /\ \/ LET to == <<Part, AppendAt(Part)>>
        IN  /\ IF Part = "IP" /\ ~file_end["IP"]
               THEN Written(Len(buf), <<>>) /\ head' = to
               ELSE Locate(to, <<>>)
            /\ append_pos' = [append_pos EXCEPT ![Part] = to[2]]
            /\ index' = [index EXCEPT !.gen = NextGeneration(index),
                                      !.back = IF index.self[1] = "DP" THEN index.self ELSE @,
                                      !.self = SelfPointer(to)]
            /\ job' = [job EXCEPT !.step = "write", !.old = index]
            /\ UNCHANGED <<file_end, phase, clean, faults>>
     \/ /\ Fault("locate")
        /\ Failed(index)
        /\ UNCHANGED <<medium, append_pos>>

\* The two file marks and the index go to the drive.
WriteIndex ==
  /\ job.step = "write"
  /\ UNCHANGED <<coh, pending, want, less, committed, written>>
  /\ \/ /\ Put(Part, <<FM, IndexBlock(index), FM>>)
        /\ job' = [job EXCEPT !.step = "flush"]
        /\ UNCHANGED <<index, file_end, phase, clean, faults>>
     \/ \* xml_schema_to_tape fails, before or after it has written something
        /\ Fault("schema")
        /\ \E recs \in {<<FM>>, <<FM, Junk>>} : Put(Part, recs)
        /\ Failed(job.old)

\* The second file mark, and none: everything is on the medium.
FlushIndex ==
  /\ job.step = "flush"
  /\ Written(Len(buf), <<>>) /\ head' = Here
  /\ file_end' = [file_end EXCEPT ![Part] = TRUE]
  /\ job' = [job EXCEPT !.step = "mam"]
  /\ UNCHANGED <<index, coh, append_pos, pending, want, phase, less, ghosts, written,
                 faults>>

\* ltfs_update_cart_coherency, partition by partition; a failure is ignored.
SetCoherency(c, lost) ==
  /\ coh' = c
  /\ mam' = [p \in Parts |-> IF file_end[p] /\ p \notin lost
                             THEN [current |-> TRUE, count |-> c[p].count, set |-> c[p].set]
                             ELSE mam[p]]

UpdateCoherency(lost) ==
  SetCoherency(IF file_end[index.self[1]]
               THEN [coh EXCEPT ![index.self[1]] = [count |-> index.gen,
                                                     set |-> index.self[2]]]
               ELSE coh, lost)

EndWriteIndex ==
  /\ job.step = "mam"
  /\ \E lost \in SUBSET Parts :
       /\ IF lost = {} THEN UNCHANGED faults ELSE Fault("mam")
       /\ UpdateCoherency(lost)
  /\ append_pos' = IF Part = "IP" THEN [append_pos EXCEPT !["IP"] = IndexAppend(index.self)]
                   ELSE append_pos
  /\ index' = [index EXCEPT !.dirty = FALSE]
  /\ committed' = index.ver
  /\ IF Len(job.calls) > 1
     THEN /\ job' = [job EXCEPT !.calls = Tail(@), !.step = "begin"]
          /\ UNCHANGED <<phase, file_end>>
     ELSE Finish(TRUE)
  /\ UNCHANGED <<tape, head, buf, pending, want, less, clean, written>>

-----------------------------------------------------------------------------
(***************************************************************************)
(* _ltfs_fsraw_write_data_unlocked, and the changes of the file tree.      *)
(***************************************************************************)
\* ltfs_write_index_conditional, for the partition that is not written to.
WriteData(p) ==
  /\ phase = "up" /\ Idle /\ written < MaxData /\ p \notin less
  /\ LET other == IF p = "IP" THEN "DP" ELSE "IP"
         need  == IF p = "IP" THEN NeedsDP ELSE ~file_end["IP"]
     IN  StartJob(IF need THEN <<other>> ELSE <<>>, p)
  /\ UNCHANGED <<medium, volume, phase, less, ghosts, written, faults>>

\* Seek to the append position and write a block.  The block that reaches the
\* programmable early warning is on the tape and is reported as an error.
PutData ==
  /\ job.then \in Parts /\ job.calls = <<>>
  /\ file_end' = [file_end EXCEPT ![job.then] = FALSE]
  /\ job' = NoJob
  /\ UNCHANGED <<index, coh, want, phase, committed>>
  /\ \/ LET p  == job.then
            at == <<p, AppendAt(p)>>
        IN  /\ Locate(at, <<Data(written + 1)>>)
            /\ append_pos' = [append_pos EXCEPT ![p] = at[2] + 1]
            /\ written' = written + 1
            /\ \/ /\ pending' = pending \cup {Ref(p, at[2], written + 1)}
                  /\ UNCHANGED <<less, clean, faults>>
               \/ /\ Fault("space")
                  /\ less' = less \cup {p}
                  /\ clean' = FALSE
                  /\ UNCHANGED pending
     \/ /\ Fault("locate")
        /\ clean' = FALSE
        /\ UNCHANGED <<medium, append_pos, pending, less, written>>

\* The file tree changes: ltfs_set_index_dirty.
Change(refs) ==
  index' = [index EXCEPT !.refs = refs, !.ver = @ + 1, !.dirty = TRUE]

\* ltfs_fsraw_add_extent, for data in the data partition; the file may have been
\* unlinked meanwhile.
AddExtent ==
  /\ phase = "up" /\ Idle
  /\ \E r \in pending :
       /\ r.at[1] = "DP"
       /\ Change(index.refs \cup {r}) \/ Change(index.refs)
       /\ pending' = pending \ {r}
  /\ UNCHANGED <<medium, file_end, coh, append_pos, want, job, phase, less, ghosts,
                 written, faults>>

\* Something else changes: a file is created, or one is unlinked.
Update ==
  /\ phase = "up" /\ Idle /\ index.ver < MaxUpdates
  /\ \/ Change(index.refs)
     \/ \E r \in index.refs : Change(index.refs \ {r})
  /\ UNCHANGED <<medium, file_end, coh, append_pos, pending, want, job, phase, less,
                 ghosts, written, faults>>

(***************************************************************************)
(* ltfs_sync_index: the partition is chosen under a read lock, and written *)
(* under a write lock taken later.                                         *)
(***************************************************************************)
ChoosePartition ==
  /\ phase = "up" /\ Idle /\ want = "none" /\ index.dirty /\ "DP" \notin less
  /\ want' = IF file_end["DP"] /\ ~file_end["IP"] THEN "IP" ELSE "DP"
  /\ UNCHANGED <<medium, index, file_end, coh, append_pos, pending, job, phase, less,
                 ghosts, written, faults>>

Sync ==
  /\ phase = "up" /\ Idle /\ want # "none"
  /\ StartJob(<<want>>, "sync")
  /\ want' = "none"
  /\ UNCHANGED <<medium, index, file_end, coh, append_pos, pending, phase, less,
                 ghosts, written, faults>>

-----------------------------------------------------------------------------
(***************************************************************************)
(* ltfs_unmount, after unified_destroy has waited for the writes and has   *)
(* pushed the extents of the index partition that still count.             *)
(***************************************************************************)
\* ltfs_is_dirty(vol) || vol->index->selfptr.partition != ltfs_ip_id(vol)
WriteAtUnmount(dirty) == dirty \/ index.self[1] # "IP"

Unmount ==
  /\ phase = "up" /\ Idle /\ want = "none"
  /\ \A r \in pending : r.at[1] = "IP"
  /\ \E push \in SUBSET pending :
       LET changed == push # {}
       IN  /\ IF changed THEN Change(index.refs \cup push) ELSE UNCHANGED index
           /\ IF WriteAtUnmount(changed \/ index.dirty)
              THEN StartJob(<<"IP">>, "unmount") /\ phase' = "unmount"
              ELSE phase' = "closing" /\ UNCHANGED job
  /\ pending' = {}
  /\ UNCHANGED <<medium, file_end, coh, append_pos, want, less, ghosts, written, faults>>

\* The device is closed; the drive empties its buffer.
Close ==
  /\ phase \in {"closing", "failed"}
  /\ Written(Len(buf), <<>>)
  /\ Forgotten
  /\ phase' = IF phase = "closing" THEN "out" ELSE "down"
  /\ UNCHANGED <<less, ghosts, written, faults>>

\* The host, the program or the drive stops at any point.
Crash ==
  /\ phase \notin {"down", "out"} /\ Fault("crash")
  /\ \E k \in 0..Len(buf) : Written(k, <<>>)
  /\ Forgotten
  /\ phase' = "down"
  /\ clean' = FALSE
  /\ UNCHANGED <<less, committed, written>>

-----------------------------------------------------------------------------
(***************************************************************************)
(* ltfs_mount.                                                             *)
(***************************************************************************)
Loaded(block, dirty, refs) ==
  index' = [gen |-> block.gen, self |-> block.self, back |-> block.back,
            ver |-> block.ver, refs |-> refs, dirty |-> dirty]

\* The index the coherency attributes name.
QuickPart == IF mam["IP"].count < mam["DP"].count THEN "DP" ELSE "IP"

\* The attributes are up to date, and the block they name is not behind the end
\* of data: a seek that meets it (EDEV_EOD_DETECTED) leads to the full check.
Current ==
  /\ mam["IP"].current /\ mam["DP"].current
  /\ mam[QuickPart].set \in DOMAIN tape[QuickPart]

QuickMount ==
  /\ phase \in {"down", "out"} /\ Current /\ \E m \in Modes : ~m.full
  /\ LET block == tape[QuickPart][mam[QuickPart].set]
     IN  /\ block.kind = "index"  \* ltfs_read_index fails otherwise, and the mount
         /\ Loaded(block, FALSE, block.refs)
         /\ IF QuickPart = "DP"
            THEN /\ StartJob(<<"IP">>, "mount")
                 /\ phase' = "mount"
                 /\ UNCHANGED <<append_pos, file_end>>
            ELSE /\ phase' = "up"
                 /\ append_pos' = [append_pos EXCEPT !["IP"] = IndexAppend(block.self)]
                 /\ file_end' = [p \in Parts |-> TRUE]
                 /\ UNCHANGED job
  /\ coh' = [p \in Parts |-> [count |-> mam[p].count, set |-> mam[p].set]]
  /\ UNCHANGED <<medium, pending, want, less, ghosts, written, faults>>

\* ltfs_check_medium once it has chosen an index of the tape t, the missing
\* file marks filled in.
Checked(t, mode) ==
  LET block == Chosen(t["IP"], t["DP"], mode.deep)
      extra == {p \in Parts : ExtraBlocks(t[p])}
      have  == {p \in Parts : FoundIn(t[p]) # 0}
      lost  == IF extra = {} \/ ~mode.extra THEN {}
               ELSE UNION {LostFound(p, t[p], block.refs) : p \in Parts}
      dirty == have # Parts \/ extra # {} \/ block.self[1] = "DP"
      whole == [p \in Parts |-> p \in have /\ p \notin extra]
      pos(p) == IF extra # {} /\ ~mode.extra THEN EraseFrom(p, t[p], block.refs)
                ELSE IF p = "IP" /\ whole[p] THEN FoundIn(t[p]) - 1
                ELSE EOD(t[p])
  IN  /\ Loaded(block, dirty, block.refs \cup lost)
      /\ append_pos' = [p \in Parts |-> pos(p)]
      /\ file_end' = IF dirty THEN whole ELSE [p \in Parts |-> TRUE]
      /\ coh' = [p \in Parts |-> IF p \in have
                                 THEN [count |-> t[p][FoundIn(t[p])].gen, set |-> FoundIn(t[p])]
                                 ELSE [count |-> mam[p].count, set |-> mam[p].set]]
      /\ IF dirty
         THEN /\ LastRef("DP", block.refs \cup lost) <= pos("DP")
              /\ StartJob(IF whole["DP"] THEN <<"IP">> ELSE <<"DP", "IP">>, "mount")
              /\ phase' = "mount"
              /\ mam' = IF t = tape THEN mam
                        ELSE [p \in Parts |-> [mam[p] EXCEPT !.current = FALSE]]
         ELSE /\ UNCHANGED job
              /\ phase' = "up"
              /\ mam' = [p \in Parts |-> [current |-> TRUE, count |-> coh'[p].count,
                                          set |-> coh'[p].set]]

FullMount ==
  /\ phase \in {"down", "out"}
  /\ \E mode \in Modes :
       LET t == [p \in Parts |-> Filled(tape[p])]
       IN  /\ mode.full \/ ~Current
           /\ Verdict(t["IP"], t["DP"], mode.deep) \in Parts
           /\ Checked(t, mode)
           /\ tape' = t
  /\ clean' = TRUE
  /\ UNCHANGED <<head, buf, pending, want, less, committed, written, faults>>

-----------------------------------------------------------------------------
Next ==
  \/ DataPartitionFirst \/ LocateAppend \/ WriteIndex \/ FlushIndex \/ EndWriteIndex
  \/ \E p \in Parts : WriteData(p)
  \/ PutData \/ AddExtent \/ Update \/ ChoosePartition \/ Sync
  \/ Unmount \/ Close \/ Crash
  \/ QuickMount \/ FullMount

Spec == Init /\ [][Next]_vars

-----------------------------------------------------------------------------
(***************************************************************************)
(* Properties.                                                             *)
(***************************************************************************)
Complete(s) == {i \in 2..Len(s) : s[i].kind = "index" /\ s[i-1] = FM}

\* Every index on the tape, as the drive has it.
OnTape == UNION {{Seen(p)[i] : i \in Complete(Seen(p))} : p \in Parts}

Intact(refs) ==
  \A r \in refs : /\ r.at[2] \in DOMAIN Seen(r.at[1])
                  /\ LET rec == Seen(r.at[1])[r.at[2]]
                     IN  rec = Data(r.id) \/ (r.id = 0 /\ rec.kind # "fm")

\* The state has its type, an index names the place it is at, and a job is under
\* way only while a volume is mounted.
TypeOK ==
  /\ \A p \in Parts : \A i \in DOMAIN tape[p] :
       tape[p][i].kind = "index" => tape[p][i].self = <<p, i>>
  /\ index.gen \in Nat /\ index.ver \in Nat /\ index.dirty \in BOOLEAN
  /\ file_end \in [Parts -> BOOLEAN] /\ append_pos \in [Parts -> Nat]
  /\ want \in Parts \cup {"none"} /\ less \subseteq Parts
  /\ phase \in {"down", "out", "mount", "up", "unmount", "closing", "failed"}
  /\ Idle \/ phase \in {"mount", "up", "unmount"}

Down == phase \in {"down", "out"}

\* No index, in memory or on the tape, names a block that something else has been
\* written over: the place the next write goes to after a mount, a recovery or an
\* index never falls before data that an index still counts on.
RefsIntact == Intact(index.refs) /\ \A ix \in OnTape : Intact(ix.refs)

\* Whatever one failure or crash has done, the check of the medium finds an index,
\* and one at least as new as the last that ltfs_write_index reported written: an
\* index is never overwritten in place while it is the only one of its generation.
CommittedSurvives ==
  Down =>
    LET ip == Filled(tape["IP"])
        dp == Filled(tape["DP"])
    IN  /\ Verdict(ip, dp, TRUE) \in Parts
        /\ Chosen(ip, dp, TRUE).ver >= committed

\* When the attributes in the cartridge memory are accepted, they lead to the file
\* tree that the full check would choose.
QuickAgrees ==
  Down /\ Current =>
    LET s == tape[QuickPart]
        i == mam[QuickPart].set
        full == Chosen(Filled(tape["IP"]), Filled(tape["DP"]), TRUE)
    IN  /\ i \in DOMAIN s /\ s[i].kind = "index"
        /\ s[i].ver = full.ver /\ s[i].refs = full.refs

Consistent == Verdict(Filled(tape["IP"]), Filled(tape["DP"]), FALSE) \in Parts

\* Without failures since the last full check a volume that was unmounted passes
\* the check without recovery.
CleanMountable == phase = "out" /\ clean => Consistent

\* A generation names one state of the file tree, whichever partition and whichever
\* mount wrote it; ltfsck rolls back by generation.
GenerationNamesContent ==
  \A x, y \in OnTape : x.gen = y.gen => x.ver = y.ver /\ x.refs = y.refs

\* A back pointer leads to an index of the data partition that is still there,
\* before the one it is in, and no newer.
BackPointersResolve ==
  LET dp == Seen("DP")
  IN  \A ix \in OnTape :
        \/ ix.back = None
        \/ /\ ix.back[1] = "DP" /\ ix.back[2] \in Complete(dp)
           /\ dp[ix.back[2]].gen <= ix.gen
           /\ ix.self[1] = "DP" => ix.back[2] < ix.self[2]

\* A volume that lost power, or a command, is recovered as of its last commit, by
\* the full check and by the cartridge memory alike. (ltfs.c:2207-2337, 1715)
Recoverable == CommittedSurvives /\ QuickAgrees

\* Generations and back pointers tell the history as it was, and tie the partitions
\* of a volume together that was unmounted cleanly. (ltfs.c:1822, 2308)
IndexChain ==
  TypeOK /\ GenerationNamesContent /\ BackPointersResolve /\ CleanMountable
=============================================================================
