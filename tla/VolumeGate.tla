----------------------------- MODULE VolumeGate -----------------------------
(***************************************************************************)
(* The volume lock and revalidation (ltfs.c, tape.c, label.c): how the     *)
(* operations of libltfs pass the volume lock and the device lock, what    *)
(* they do when the back end reports that the drive was reset, and what    *)
(* ltfs_revalidate compares before it lets them in again.                  *)
(*                                                                         *)
(* A reset is what tape.h calls NEED_REVAL.  The back ends kept in the     *)
(* repository do not report it; the protocol is the one libltfs promises   *)
(* to any back end that does.  The volume lock is a reader and writer      *)
(* lock here: its own protocol is in MRSW.                                 *)
(***************************************************************************)
EXTENDS Integers, FiniteSets, Sequences

CONSTANTS Threads,             \* callers of libltfs
          Ops,                 \* the operations they call
          HitBy,               \* the operations whose commands may meet a reset or a removal
          MaxOps,              \* calls in a behaviour
          MaxResets,           \* resets and removals in a behaviour
          MaxWrites            \* writes and indexes in a behaviour

\* A query is a call for the state of the unit, the capacity, the tape alert, the
\* health of the cartridge or a vendor unique attribute: all have the same form.
Queries == {"query"}
AllOps == Queries \cup {"write", "sync", "setattr", "unmount"}
ASSUME GateAssumption == Ops \subseteq AllOps /\ HitBy \subseteq Ops
ASSUME ThreadsAssumption == IsFiniteSet(Threads) /\ "none" \notin Threads

VARIABLES pc, op,              \* where each thread is, and in which call
          holds,               \* what each thread was given: "no", "r" or "w"
          lock,                \* the counts of the volume lock
          devlock,             \* who has backend_mutex, or "none"
          fence, reval,        \* struct device_data's fence, struct ltfs_volume's reval
          vol,                 \* what the volume knows of the cartridge
          tape, known,         \* the cartridge, and as this volume left it
          stale,               \* a reset that has not been revalidated
          calls, resets, writes

vars == <<pc, op, holds, lock, devlock, fence, reval, vol, tape, known, stale, calls, resets, writes>>

Part == {"ip", "dp"}
Base == 4                      \* the label construct of a partition
EodAt(t, p) == Base + Len(t.recs[p])

\* As a mount leaves them: one index in each partition, and the next index of
\* the index partition to be written over the last.
Mounted ==
  [app |-> [ip |-> Base, dp |-> 0], ends |-> [p \in Part |-> TRUE], coh |-> [p \in Part |-> 0],
   self |-> [part |-> "ip", block |-> Base + 1], back |-> [part |-> "dp", block |-> Base + 1], dirty |-> FALSE]
Blank == [label |-> "ours", recs |-> [p \in Part |-> <<"fm", "ix", "fm">>],
          coh |-> [p \in Part |-> 0], eod |-> TRUE]

Init ==
  /\ pc = [t \in Threads |-> "idle"] /\ op = [t \in Threads |-> "none"]
  /\ holds = [t \in Threads |-> "no"] /\ lock = [w |-> FALSE, r |-> 0] /\ devlock = "none"
  /\ fence = FALSE /\ reval = "no" /\ vol = Mounted /\ tape = Blank /\ known = Blank
  /\ stale = FALSE /\ calls = 0 /\ resets = 0 /\ writes = 0

-----------------------------------------------------------------------------
(* The locks.                                                              *)

Goto(t, l) == pc' = [pc EXCEPT ![t] = l]
Exclusive(t) == op[t] \in {"write", "sync2", "unmount"}

CanAcquire(w) == ~lock.w /\ (w => lock.r = 0)
Acquire(t, w) ==
  /\ CanAcquire(w)
  /\ lock' = IF w THEN [lock EXCEPT !.w = TRUE] ELSE [lock EXCEPT !.r = @ + 1]
  /\ holds' = [holds EXCEPT ![t] = IF w THEN "w" ELSE "r"]

\* release_mrsw looks at the lock, not at the caller.
Release(t) ==
  /\ lock' = IF lock.w THEN [lock EXCEPT !.w = FALSE]
             ELSE [lock EXCEPT !.r = IF @ > 0 THEN @ - 1 ELSE @]
  /\ holds' = [holds EXCEPT ![t] = "no"]

\* A write has the lock exclusively only until the partition it goes to is open:
\* there, and on every way out before, writetoread_mrsw.
Opening(t) == op[t] = "write" /\ holds[t] = "w"
Lower(t) ==
  IF Opening(t)
  THEN lock' = [lock EXCEPT !.w = FALSE, !.r = @ + 1] /\ holds' = [holds EXCEPT ![t] = "r"]
  ELSE UNCHANGED <<holds, lock>>

content == <<vol, tape, known, stale, writes>>
counts == <<calls, resets>>

\* A call begins.  ltfs_fsops_setxattr asks for the unit first, which is a
\* query of its own.
Call(t, o) ==
  /\ pc[t] = "idle" /\ calls < MaxOps /\ calls' = calls + 1
  /\ op' = [op EXCEPT ![t] = o] /\ Goto(t, "gate")
  /\ UNCHANGED <<holds, lock, devlock, fence, reval, content, resets>>

\* ltfs_get_volume_lock: wait for a revalidation, take the lock, and look again.
Gate(t) ==
  /\ pc[t] = "gate" /\ reval # "running" /\ Goto(t, "acquire")
  /\ UNCHANGED <<op, holds, lock, devlock, fence, reval, content, counts>>
AcquireVolume(t) ==
  /\ pc[t] = "acquire" /\ Acquire(t, Exclusive(t)) /\ Goto(t, "check")
  /\ UNCHANGED <<op, devlock, fence, reval, content, counts>>

\* A mutation: a revalidation in progress is not seen behind the lock.
CheckPast(t) ==
  /\ pc[t] = "check"
  /\ IF reval = "failed" THEN Release(t) /\ Goto(t, "idle") ELSE UNCHANGED <<holds, lock>> /\ Goto(t, "device")
  /\ UNCHANGED <<op, devlock, fence, reval, content, counts>>

\* A mutation: who waits for a revalidation keeps the lock.
CheckHolding(t) ==
  /\ pc[t] = "check"
  /\ IF reval = "failed" THEN Release(t) ELSE UNCHANGED <<holds, lock>>
  /\ Goto(t, CASE reval = "no" -> "device" [] reval = "failed" -> "idle" [] OTHER -> "gate")
  /\ UNCHANGED <<op, devlock, fence, reval, content, counts>>

Check(t) ==
  /\ pc[t] = "check"
  /\ IF reval = "no" THEN UNCHANGED <<holds, lock>> /\ Goto(t, "device")
     ELSE Release(t) /\ Goto(t, IF reval = "failed" THEN "idle" ELSE "gate")
  /\ UNCHANGED <<op, devlock, fence, reval, content, counts>>

\* tape_device_lock.  ltfs_sync_index and the second half of ltfs_fsops_setxattr
\* give up when the device is fenced, the others wait.
DeviceLock(t) ==
  /\ pc[t] = "device" /\ op[t] \notin {"unmount", "sync"} /\ devlock = "none"
  /\ \/ ~fence /\ devlock' = t /\ Goto(t, "command") /\ UNCHANGED <<holds, lock>>
     \/ /\ fence /\ devlock' = devlock /\ Lower(t)
        /\ Goto(t, IF op[t] \in {"sync2", "setattr2"} THEN "release" ELSE "fenced")
  /\ UNCHANGED <<op, fence, reval, content, counts>>

\* ltfs_fsops_setxattr goes on to xattr_set whatever xattr_get has done, also
\* when that has given the volume lock away.
Attribute(t, l) ==
  IF op[t] = "setattr" THEN op' = [op EXCEPT ![t] = "setattr2"] /\ Goto(t, "device")
  ELSE op' = op /\ Goto(t, l)

\* ltfs_wait_revalidation.
Fenced(t) ==
  /\ pc[t] = "fenced" /\ Release(t) /\ Goto(t, "wait")
  /\ UNCHANGED <<op, devlock, fence, reval, content, counts>>

\* A mutation: who learns of a failure releases the lock it has lost.
WaitReleases(t) ==
  /\ pc[t] = "wait" /\ reval # "running" /\ Attribute(t, IF reval = "failed" THEN "release" ELSE "gate")
  /\ UNCHANGED <<holds, lock, devlock, fence, reval, content, counts>>

WaitRevalidation(t) ==
  /\ pc[t] = "wait" /\ reval # "running" /\ Attribute(t, IF reval = "failed" THEN "idle" ELSE "gate")
  /\ UNCHANGED <<holds, lock, devlock, fence, reval, content, counts>>

-----------------------------------------------------------------------------
(* What the commands do to the cartridge.                                  *)

\* A pair <<v, c>> is what the volume knows and the cartridge.
Dest(v, c, p) == IF v.app[p] = 0 THEN EodAt(c, p) ELSE v.app[p]
Put(c, p, at, recs) == [c EXCEPT !.recs[p] = SubSeq(@, 1, at - Base) \o recs]

\* ltfs_write_index: an index in the data partition first where it is due.
NeedsDP(v) == ~v.ends["dp"] \/ (v.ends["ip"] /\ v.self.part = "ip")
OneIndex(v, c, p) ==
  LET at == Dest(v, c, p)
      d == Put(c, p, at, <<"fm", "ix", "fm">>)
      w == [v EXCEPT !.back = IF v.self.part = "dp" THEN v.self ELSE @,
                     !.self = [part |-> p, block |-> at + 1], !.ends[p] = TRUE, !.dirty = FALSE,
                     !.app[p] = IF p = "ip" THEN at ELSE EodAt(d, p)]
      coh == [q \in Part |-> IF w.ends[q] THEN writes + 1 ELSE c.coh[q]]
  IN  <<[w EXCEPT !.coh = coh], [d EXCEPT !.coh = coh]>>
WriteIndex(v, c, p) ==
  IF p = "ip" /\ NeedsDP(v)
  THEN LET x == OneIndex(v, c, "dp") IN OneIndex(x[1], x[2], "ip")
  ELSE OneIndex(v, c, p)

\* _ltfs_fsraw_write_data_unlocked: the other partition must end in an index
\* before this one stops to.
IndexFirst(v, c, p) ==
  IF p = "dp" /\ ~v.ends["ip"] THEN WriteIndex(v, c, "ip")
  ELSE IF p = "ip" /\ NeedsDP(v) THEN WriteIndex(v, c, "dp") ELSE <<v, c>>
Opened(v, c, p) == LET x == IndexFirst(v, c, p) IN <<[x[1] EXCEPT !.ends[p] = FALSE], x[2]>>
WriteData(v, c, p) ==
  LET d == Put(c, p, Dest(v, c, p), <<"data">>)
  IN  <<[v EXCEPT !.app[p] = EodAt(d, p), !.dirty = TRUE], d>>
OpenParts == {p \in Part : ~vol.ends[p]}     \* one of them, when a write comes to it

\* The partition ltfs_sync_index writes to.
SyncPart(v) == IF v.ends["dp"] /\ ~v.ends["ip"] THEN "ip" ELSE "dp"

\* What a command that goes well does.
Writing(o) == o \in {"write", "sync2", "unmount"}
Done(o) ==
  CASE o = "write" -> {WriteData(vol, tape, p) : p \in OpenParts}
    [] o = "sync2" -> {IF vol.dirty THEN WriteIndex(vol, tape, SyncPart(vol)) ELSE <<vol, tape>>}
    [] o = "unmount" -> {IF vol.dirty \/ vol.self.part # "ip" THEN WriteIndex(vol, tape, "ip") ELSE <<vol, tape>>}
    [] OTHER -> {<<vol, tape>>}

\* What a command that meets a reset may have done: nothing, or the write, which
\* the volume is not told.
Cut(t) ==
  {<<vol, tape, tape>>}
  \cup {<<vol, WriteData(vol, tape, p)[2], tape>> : p \in IF op[t] = "write" /\ ~Opening(t) THEN OpenParts ELSE {}}

\* What else may have happened to the cartridge: nothing; another cartridge; data
\* or an index added by another host; the end of data lost.
Elsewhere(c) ==
  {c, [c EXCEPT !.label = "other"], [c EXCEPT !.eod = FALSE],
   Put(c, "dp", EodAt(c, "dp"), <<"data">>), Put(c, "ip", EodAt(c, "ip"), <<"data">>),
   [Put(c, "dp", EodAt(c, "dp"), <<"fm", "ix", "fm">>) EXCEPT !.coh["dp"] = 100],
   Put(c, "dp", EodAt(c, "dp"), <<"fm", "ix", "fm">>)}

\* ltfs_unmount writes the index without the device lock; ltfs_sync_index first
\* only looks at the dirty flag.
AtCommand(t) == pc[t] = "command" \/ (pc[t] = "device" /\ op[t] = "unmount")
OwnDevice(t) == devlock' = IF devlock = t THEN "none" ELSE devlock
Hit(t) ==
  /\ Opening(t) => \E p \in Part : IndexFirst(vol, tape, p) # <<vol, tape>>
  /\ AtCommand(t) /\ resets < MaxResets /\ resets' = resets + 1 /\ OwnDevice(t)
  /\ IF op[t] = "sync2" THEN "sync" \in HitBy ELSE IF op[t] = "setattr2" THEN "setattr" \in HitBy ELSE op[t] \in HitBy

\* The index that is due, and the mark that this partition no longer ends in one.
OpenPartition(t) ==
  /\ pc[t] = "command" /\ Opening(t) /\ Lower(t)
  /\ \E p \in Part : LET x == Opened(vol, tape, p) IN vol' = x[1] /\ tape' = x[2] /\ known' = x[2]
  /\ UNCHANGED <<pc, op, devlock, fence, reval, stale, writes, counts>>

CommandGood(t) ==
  /\ AtCommand(t) /\ ~Opening(t) /\ OwnDevice(t) /\ Attribute(t, "release")
  /\ Writing(op[t]) => writes < MaxWrites
  /\ writes' = IF Writing(op[t]) THEN writes + 1 ELSE writes
  /\ \E x \in Done(op[t]) : vol' = x[1] /\ tape' = x[2] /\ known' = x[2]
  /\ UNCHANGED <<holds, lock, fence, reval, stale, calls, resets>>
LookDirty(t) ==
  /\ pc[t] = "device" /\ op[t] = "sync" /\ Goto(t, IF vol.dirty THEN "dirty" ELSE "release")
  /\ UNCHANGED <<op, holds, lock, devlock, fence, reval, content, counts>>

\* All but ltfs_sync_index and ltfs_unmount fence the device before they leave it.
CommandReset(t) ==
  /\ Hit(t) /\ stale' = TRUE /\ fence' = (fence \/ op[t] \notin {"sync2", "unmount"})
  /\ \E x \in Cut(t) : vol' = x[1] /\ known' = x[3] /\ \E c \in Elsewhere(x[2]) : tape' = c
  /\ Goto(t, "reval") /\ Lower(t)
  /\ UNCHANGED <<op, reval, calls, writes>>

\* An operator's request to remove the cartridge fails the volume for good.
CommandRemoval(t) ==
  /\ Hit(t) /\ reval' = "failed" /\ Attribute(t, "release") /\ Lower(t)
  /\ UNCHANGED <<fence, content, calls>>

\* The call lets the volume go; ltfs_unmount does so again after a revalidation,
\* which has let it go already.
EndOp(t) ==
  /\ pc[t] \in {"release", "dirty", "again", "gaveup"} /\ Release(t)
  /\ op' = IF pc[t] = "dirty" THEN [op EXCEPT ![t] = "sync2"] ELSE op
  /\ Goto(t, IF pc[t] \in {"dirty", "again"} THEN "gate" ELSE "idle")
  /\ UNCHANGED <<devlock, fence, reval, content, counts>>

-----------------------------------------------------------------------------
(* ltfs_revalidate.                                                        *)

\* Only ltfs_sync_index and ltfs_unmount say that they hold the write lock.
HaveWrite(t) == op[t] \in {"sync2", "unmount"}
RevalStart(t) ==
  /\ pc[t] = "reval" /\ reval' = "running" /\ Goto(t, IF HaveWrite(t) THEN "validate" ELSE "upgrade")
  /\ IF HaveWrite(t) THEN UNCHANGED <<holds, lock>> ELSE Release(t)
  /\ UNCHANGED <<op, devlock, fence, content, counts>>
RevalUpgrade(t) ==
  /\ pc[t] = "upgrade" /\ Acquire(t, TRUE) /\ Goto(t, "validate")
  /\ UNCHANGED <<op, devlock, fence, reval, content, counts>>

\* The block behind the last filemark before record n; behind the label if none.
BehindFm(s, n) == LET fms == {i \in 1 .. n : s[i] = "fm"}
                  IN  Base + (IF fms = {} THEN 0 ELSE CHOOSE i \in fms : \A j \in fms : j <= i)

\* label_compare, ltfs_check_eod_status and _ltfs_revalidate_mam.
SameVolume(v, c) == c.label = "ours" /\ c.eod /\ c.coh = v.coh

\* The end of a partition: if it is known to end in an index, it does, in the
\* last one this volume knows to have written there; else the append position
\* is known.
EndsInIndex(c, p) == LET s == c.recs[p] IN s # <<>> /\ s[Len(s)] = "fm"
LastIndexAt(c, p) == BehindFm(c.recs[p], Len(c.recs[p]) - 1)
DataEndKnown(v, c) ==
  /\ IF v.ends["dp"]
     THEN /\ EndsInIndex(c, "dp")
          /\ v.self.part = "dp" => v.self.block = LastIndexAt(c, "dp")
          /\ v.self.part # "dp" => v.back.block = LastIndexAt(c, "dp")
     ELSE v.app["dp"] # 0
  /\ v.app["dp"] \in {0, EodAt(c, "dp")}

\* The index partition is expected to be continued in front of what was found,
\* whether that is the last index or the end of data.
IndexEndKnown(v, c) ==
  LET pos == IF v.ends["ip"] THEN LastIndexAt(c, "ip") ELSE EodAt(c, "ip")
  IN  /\ v.ends["ip"] => EndsInIndex(c, "ip") /\ (v.self.part = "ip" => v.self.block = pos)
      /\ v.ends["ip"] \/ v.app["ip"] # 0
      /\ v.app["ip"] \in {0, pos - 1}

CheckVolume(v, c) == SameVolume(v, c) /\ DataEndKnown(v, c) /\ IndexEndKnown(v, c)

\* The drive may also fail any of the commands this takes.
Validate(t) ==
  /\ pc[t] = "validate"
  /\ \/ CheckVolume(vol, tape) /\ Goto(t, "pass") /\ stale' = FALSE
     \/ (~CheckVolume(vol, tape) \/ resets < MaxResets) /\ Goto(t, "fail") /\ UNCHANGED stale
  /\ fence' = FALSE
  /\ UNCHANGED <<op, holds, lock, devlock, reval, vol, tape, known, writes, counts>>
RevalEnd(t) ==
  /\ pc[t] \in {"pass", "fail"}
  /\ reval' = IF pc[t] = "pass" THEN "no" ELSE "failed"
  /\ Goto(t, IF pc[t] = "pass" THEN "passed" ELSE "failed")
  /\ UNCHANGED <<op, holds, lock, devlock, fence, content, counts>>

\* The write lock goes, and a call that has been revalidated starts again.
\* ltfs_unmount forgets a failure.
RevalRelease(t) ==
  /\ pc[t] \in {"passed", "failed"} /\ Release(t)
  /\ CASE op[t] = "unmount" -> op' = op /\ Goto(t, IF pc[t] = "passed" THEN "again" ELSE "gaveup")
       [] op[t] = "setattr2" -> op' = [op EXCEPT ![t] = "setattr"] /\ Goto(t, IF pc[t] = "passed" THEN "gate" ELSE "idle")
       [] op[t] = "sync2" -> op' = [op EXCEPT ![t] = "sync"] /\ Goto(t, IF pc[t] = "passed" THEN "gate" ELSE "idle")
       [] OTHER -> Attribute(t, IF pc[t] = "passed" THEN "gate" ELSE "idle")
  /\ reval' = IF op[t] = "unmount" THEN "no" ELSE reval
  /\ UNCHANGED <<devlock, fence, content, counts>>

Step(t) ==
  \/ Gate(t) \/ AcquireVolume(t) \/ Check(t) \/ DeviceLock(t) \/ Fenced(t) \/ WaitRevalidation(t)
  \/ OpenPartition(t) \/ CommandGood(t) \/ LookDirty(t) \/ CommandReset(t) \/ CommandRemoval(t) \/ EndOp(t)
  \/ RevalStart(t) \/ RevalUpgrade(t) \/ Validate(t) \/ RevalEnd(t) \/ RevalRelease(t)
Next == \E t \in Threads : Step(t) \/ \E o \in Ops : Call(t, o)
Spec == Init /\ [][Next]_vars

\* Every step of a call that is under way is taken; that a new call begins is not
\* promised.
FairSpec == Spec /\ \A t \in Threads : WF_vars(Step(t))

-----------------------------------------------------------------------------
(* Properties.                                                             *)

InReval(t) == pc[t] \in {"upgrade", "validate", "pass", "fail"}

\* The volume lock counts exactly those it was given to: nobody releases it who
\* has lost it to a revalidation or given it back (ltfs_revalidate and
\* ltfs_wait_revalidation release it behind their callers' backs).
LockCountsHolders ==
  /\ lock.w = (\E t \in Threads : holds[t] = "w")
  /\ lock.r = Cardinality({t \in Threads : holds[t] = "r"})

\* The fence, and the mark that a revalidation runs, are only up while a thread is
\* on its way to take them down: else every caller of ltfs_get_volume_lock would
\* wait, or spin, for ever.
FenceHasOwner ==
  /\ fence => \E t \in Threads : pc[t] = "reval" \/ InReval(t)
  /\ reval = "running" => \E t \in Threads : InReval(t)

\* Between a reset and a revalidation that passes nobody else's command reaches
\* the cartridge (tape_start_fence in the same hold of backend_mutex as the reset).
NothingOnUnvalidated == stale => ~\E t \in Threads : AtCommand(t)

\* A revalidation that passes has found all this volume knows to be there: the
\* same volume, all records up to where the next one goes, and nothing behind
\* them where a partition ends in an index.
PassedIsKnown ==
  \A t \in Threads : pc[t] = "passed" =>
    /\ tape.label = "ours" /\ tape.eod
    /\ \A p \in Part : IF vol.ends[p] THEN tape.recs[p] = known.recs[p]
                       ELSE SubSeq(tape.recs[p], 1, vol.app[p] - Base) = SubSeq(known.recs[p], 1, vol.app[p] - Base)

\* Every call ends: it is served, or told that the volume has failed.
CallsEnd == \A t \in Threads : pc[t] = "gate" ~> pc[t] = "idle"

\* No command goes to a tape that is not known to be the mounted one, and a
\* revalidation only passes on that. (ltfs.c:3094-3324)
CallsValidated == NothingOnUnvalidated /\ PassedIsKnown /\ FenceHasOwner
=============================================================================
