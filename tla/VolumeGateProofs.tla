--------------------------- MODULE VolumeGateProofs ---------------------------
(***************************************************************************)
(* What the volume lock and revalidation promise, for any finite set of    *)
(* callers: the lock counts exactly those who were given it, whoever fences *)
(* the device is on the way to take the fence down, and no command reaches  *)
(* a cartridge between a reset and a revalidation that passes.              *)
(*                                                                         *)
(* Two callers of libltfs break this, and are left out by Settled: a        *)
(* setxattr goes on with a lock it has lost, and an unmount that has been   *)
(* revalidated gives its lock back twice (VolumeGate_x_release.cfg).        *)
(***************************************************************************)
EXTENDS VolumeGate, FiniteSetTheorems, SequenceTheorems, TLAPS

Settled == "setattr" \notin Ops /\ "unmount" \notin HitBy

-----------------------------------------------------------------------------
(* The inductive invariant.                                                *)

\* Where a thread has no lock, has the one its call takes, has the write lock of
\* a revalidation, or is about to release what it has.
Outside == {"idle", "gate", "acquire", "wait", "upgrade"}
Inside == {"check", "device", "command", "fenced", "reval"}
Validating == {"validate", "pass", "fail", "passed", "failed"}
Ending == {"release", "dirty"}
Owners == {"reval", "upgrade", "validate", "pass", "fail"}

GateType ==
  /\ pc \in [Threads -> Outside \cup Inside \cup Validating \cup Ending]
  /\ op \in [Threads -> {"none", "query", "write", "sync", "sync2", "unmount"}]
  /\ holds \in [Threads -> {"no", "r", "w"}]
  /\ lock \in [w : BOOLEAN, r : Nat]
  /\ fence \in BOOLEAN /\ reval \in {"no", "running", "failed"} /\ stale \in BOOLEAN

\* What a thread holds follows from where it is; a write may have the lock still
\* exclusively or no longer when it is at the drive.
HoldsByPlace ==
  \A t \in Threads :
    /\ pc[t] \in Outside => holds[t] = "no"
    /\ pc[t] \in Inside /\ (op[t] = "write" => pc[t] \in {"check", "device"})
         => holds[t] = IF Exclusive(t) THEN "w" ELSE "r"
    /\ op[t] = "write" => /\ pc[t] = "command" => holds[t] # "no"
                          /\ pc[t] \in {"fenced", "reval"} => holds[t] = "r"
    /\ pc[t] \in Validating => holds[t] = "w"
    /\ pc[t] \in Ending => holds[t] # "no"
    /\ op[t] = "unmount" => pc[t] \notin Owners \cup Validating \cup {"wait", "fenced", "command"}
    /\ op[t] = "sync2" => pc[t] # "upgrade"
    /\ pc[t] = "dirty" => op[t] = "sync"

OneWriter == \A t, u \in Threads : t # u /\ holds[t] = "w" => holds[u] = "no"

\* One thread at a time revalidates, and while it does no other has a command at
\* the drive.
OneOwner ==
  /\ \A t, u \in Threads : t # u /\ pc[t] \in Owners => pc[u] \notin Owners
  /\ \A t, u \in Threads : AtCommand(t) => pc[u] \notin Owners
  /\ \A t \in Threads : pc[t] = "command" => devlock = t

\* The fence, and the mark of a revalidation, are those of the thread on its way.
Marked ==
  /\ \A t \in Threads : pc[t] \in {"reval", "upgrade"} /\ op[t] # "sync2" => fence
  /\ fence => \E t \in Threads : pc[t] \in {"reval", "upgrade", "validate"}
  /\ (reval = "running") <=> \E t \in Threads : pc[t] \in {"upgrade", "validate", "pass", "fail"}

\* A reset is on its way to be revalidated, or has failed the volume for good.
StaleIsKnown ==
  stale => \/ \E t \in Threads : pc[t] \in {"reval", "upgrade", "validate", "fail"}
           \/ reval = "failed" /\ \A t \in Threads : pc[t] \notin {"device", "command"}

LockInv == GateType /\ HoldsByPlace /\ LockCountsHolders /\ OneWriter /\ OneOwner /\ Marked /\ StaleIsKnown

-----------------------------------------------------------------------------
(* The lock.                                                               *)

\* Taking the lock adds its new holder to the count.
LEMMA AcquireCounts ==
  ASSUME GateType, LockCountsHolders, OneWriter,
         NEW t \in Threads, NEW w \in BOOLEAN, holds[t] = "no", Acquire(t, w)
  PROVE  /\ holds' = [holds EXCEPT ![t] = IF w THEN "w" ELSE "r"]
         /\ lock' \in [w : BOOLEAN, r : Nat]
         /\ LockCountsHolders' /\ OneWriter'
<1> DEFINE R == {u \in Threads : holds[u] = "r"}
<1>1. IsFiniteSet(R) /\ R \subseteq Threads /\ Cardinality(R) = lock.r
  BY ThreadsAssumption, FS_Subset DEF LockCountsHolders
<1>2. holds' = [holds EXCEPT ![t] = IF w THEN "w" ELSE "r"] /\ holds \in [Threads -> {"no", "r", "w"}]
  BY DEF Acquire, GateType
<1>3. ~lock.w /\ \A u \in Threads : holds[u] # "w"
  BY DEF Acquire, CanAcquire, LockCountsHolders
<1>4. CASE w
  <2>1. R = {}
    BY <1>1, <1>4, FS_EmptySet DEF Acquire, CanAcquire
  <2>2. lock' = [w |-> TRUE, r |-> 0]
    BY <1>4 DEF Acquire, CanAcquire, GateType
  <2>3. R' = {}
    BY <1>2, <1>4, <2>1
  <2>4. Cardinality(R') = 0
    BY <2>3, FS_EmptySet
  <2>5. LockCountsHolders'
    BY <1>2, <1>4, <2>2, <2>4 DEF LockCountsHolders
  <2>6. OneWriter'
    BY <1>2, <1>3, <1>4, <2>1 DEF OneWriter
  <2>7. QED
    BY <1>2, <2>2, <2>5, <2>6
<1>5. CASE ~w
  <2>1. R' = R \cup {t} /\ t \notin R
    BY <1>2, <1>5
  <2>2. Cardinality(R') = lock.r + 1
    BY <1>1, <2>1, FS_AddElement
  <2>3. lock' = [w |-> FALSE, r |-> lock.r + 1]
    BY <1>3, <1>5 DEF Acquire, GateType
  <2>4. LockCountsHolders'
    BY <1>2, <1>3, <1>5, <2>2, <2>3 DEF LockCountsHolders
  <2>5. OneWriter'
    BY <1>2, <1>3, <1>5 DEF OneWriter
  <2>6. lock' \in [w : BOOLEAN, r : Nat]
    BY <2>3 DEF GateType
  <2>7. QED
    BY <1>2, <2>4, <2>5, <2>6
<1>6. QED
  BY <1>4, <1>5

\* A holder that releases the lock releases its own hold of it, although
\* release_mrsw only looks at the lock.
LEMMA ReleaseCounts ==
  ASSUME GateType, LockCountsHolders, OneWriter,
         NEW t \in Threads, holds[t] # "no", Release(t)
  PROVE  /\ holds' = [holds EXCEPT ![t] = "no"]
         /\ lock' \in [w : BOOLEAN, r : Nat]
         /\ LockCountsHolders' /\ OneWriter'
<1> DEFINE R == {u \in Threads : holds[u] = "r"}
<1>1. IsFiniteSet(R) /\ R \subseteq Threads /\ Cardinality(R) = lock.r
  BY ThreadsAssumption, FS_Subset DEF LockCountsHolders
<1>2. holds' = [holds EXCEPT ![t] = "no"] /\ holds \in [Threads -> {"no", "r", "w"}]
  BY DEF Release, GateType
<1>3. OneWriter'
  BY <1>2 DEF OneWriter
<1>4. CASE holds[t] = "w"
  <2>1. lock.w /\ \A u \in Threads : u # t => holds[u] = "no"
    BY <1>4 DEF LockCountsHolders, OneWriter
  <2>2. R' = {} /\ R = {}
    BY <1>2, <1>4, <2>1
  <2>3. lock' = [w |-> FALSE, r |-> 0]
    BY <1>1, <2>1, <2>2, FS_EmptySet DEF Release, GateType
  <2>4. LockCountsHolders'
    <3>1. Cardinality(R') = 0
      BY <2>2, FS_EmptySet
    <3>2. \A u \in Threads : holds'[u] # "w"
      BY <1>2, <2>1
    <3>3. QED
      BY <2>3, <3>1, <3>2 DEF LockCountsHolders
  <2>5. QED
    BY <1>2, <1>3, <2>3, <2>4
<1>5. CASE holds[t] = "r"
  <2>1. ~lock.w /\ \A u \in Threads : holds[u] # "w"
    BY <1>5 DEF LockCountsHolders, OneWriter, GateType
  <2>2. R' = R \ {t} /\ t \in R
    BY <1>2, <1>5
  <2>3. Cardinality(R') = lock.r - 1 /\ lock.r - 1 \in Nat
    <3>1. IsFiniteSet(R') /\ Cardinality(R') = Cardinality(R) - 1
      BY <1>1, <2>2, FS_RemoveElement
    <3>2. Cardinality(R') \in Nat
      BY <3>1, FS_CardinalityType
    <3>3. QED
      BY <1>1, <3>1, <3>2
  <2>4. lock' = [w |-> FALSE, r |-> lock.r - 1]
    <3>1. lock \in [w : BOOLEAN, r : Nat] /\ lock.r > 0
      BY <2>3 DEF GateType
    <3>2. lock' = [lock EXCEPT !.r = lock.r - 1]
      BY <2>1, <3>1 DEF Release
    <3>3. QED
      BY <2>1, <3>1, <3>2
  <2>5. LockCountsHolders'
    BY <1>2, <2>1, <2>3, <2>4 DEF LockCountsHolders
  <2>6. QED
    BY <1>2, <1>3, <2>3, <2>4, <2>5
<1>6. QED
  BY <1>2, <1>4, <1>5

\* A write that lowers its lock becomes one of the readers.
LEMMA LowerCounts ==
  ASSUME GateType, LockCountsHolders, OneWriter, NEW t \in Threads, Lower(t)
  PROVE  /\ holds' = IF Opening(t) THEN [holds EXCEPT ![t] = "r"] ELSE holds
         /\ lock' \in [w : BOOLEAN, r : Nat]
         /\ LockCountsHolders' /\ OneWriter'
<1> DEFINE R == {u \in Threads : holds[u] = "r"}
<1>1. CASE ~Opening(t)
  <2>1. holds' = holds /\ lock' = lock
    BY <1>1 DEF Lower
  <2>2. LockCountsHolders' /\ OneWriter'
    BY <2>1 DEF LockCountsHolders, OneWriter
  <2>3. QED
    BY <1>1, <2>1, <2>2 DEF GateType
<1>2. CASE Opening(t)
  <2>1. holds' = [holds EXCEPT ![t] = "r"] /\ holds \in [Threads -> {"no", "r", "w"}] /\ holds[t] = "w"
    BY <1>2 DEF Lower, Opening, GateType
  <2>2. lock.w /\ \A u \in Threads : u # t => holds[u] = "no"
    BY <2>1 DEF LockCountsHolders, OneWriter
  <2>3. R = {} /\ R' = {t}
    BY <2>1, <2>2
  <2>4. Cardinality(R) = lock.r /\ lock.r = 0 /\ Cardinality(R') = 1
    <3>1. Cardinality(R) = 0 /\ Cardinality(R') = 1
      BY <2>3, FS_EmptySet, FS_Singleton
    <3>2. Cardinality(R) = lock.r
      BY DEF LockCountsHolders
    <3>3. QED
      BY <3>1, <3>2
  <2>5. lock' = [w |-> FALSE, r |-> 1]
    <3>1. lock' = [lock EXCEPT !.w = FALSE, !.r = @ + 1] /\ lock \in [w : BOOLEAN, r : Nat]
      BY <1>2 DEF Lower, GateType
    <3>2. lock.r + 1 = 1
      BY <2>4
    <3>3. QED
      BY <3>1, <3>2
  <2>6. LockCountsHolders'
    BY <2>1, <2>2, <2>4, <2>5 DEF LockCountsHolders
  <2>7. OneWriter'
    BY <2>1, <2>2 DEF OneWriter
  <2>8. QED
    BY <1>2, <2>1, <2>5, <2>6, <2>7
<1>3. QED
  BY <1>1, <1>2

\* The invariant holds at the start.
LEMMA LockInit == Init => LockInv
<1> SUFFICES ASSUME Init PROVE LockInv
  OBVIOUS
<1>1. GateType /\ HoldsByPlace /\ OneWriter /\ OneOwner /\ Marked /\ StaleIsKnown
  BY DEF Init, GateType, HoldsByPlace, OneWriter, OneOwner, Marked, StaleIsKnown, AtCommand,
         Outside, Inside, Validating, Ending, Owners
<1>2. {t \in Threads : holds[t] = "r"} = {}
  BY DEF Init
<1>3. LockCountsHolders
  BY <1>2, FS_EmptySet DEF Init, LockCountsHolders
<1>4. QED
  BY <1>1, <1>3 DEF LockInv

\* Every step keeps it.
LEMMA LockStep == ASSUME Settled, LockInv, [Next]_vars PROVE LockInv'
<1> USE DEF LockInv
<1>0. /\ "setattr" \notin Ops /\ "unmount" \notin HitBy /\ "sync2" \notin Ops /\ "setattr2" \notin Ops /\ "none" \notin Ops
      /\ HitBy \subseteq Ops
      /\ Ops \subseteq {"query", "write", "sync", "unmount"}
  BY GateAssumption DEF Settled, AllOps, Queries
<1>1. CASE UNCHANGED vars
  BY <1>1 DEF vars, content, counts, GateType, HoldsByPlace, LockCountsHolders, OneWriter, OneOwner, Marked,
              StaleIsKnown, AtCommand, Exclusive
<1>2. ASSUME NEW t \in Threads, NEW o \in Ops, Call(t, o) PROVE LockInv'
  <2>1. UNCHANGED <<holds, lock>>
    BY <1>2 DEF Call
  <2>2. LockCountsHolders' /\ OneWriter'
    BY <2>1 DEF LockCountsHolders, OneWriter
  <2>3. GateType'
    BY <1>0, <1>2, <2>1 DEF Call, Goto, content, counts, GateType, Outside, Inside, Validating, Ending, Owners
  <2>4. HoldsByPlace'
    BY <1>0, <1>2, <2>1 DEF Call, Goto, content, counts, AtCommand, GateType, HoldsByPlace, Exclusive, Outside, Inside, Validating, Ending, Owners
  <2>5. OneOwner'
    BY <1>0, <1>2, <2>1, ThreadsAssumption DEF Call, Goto, content, counts, AtCommand, GateType, HoldsByPlace, Exclusive, OneWriter, OneOwner, Marked, Outside, Inside, Validating, Ending, Owners
  <2>6. Marked'
    BY <1>0, <1>2, <2>1 DEF Call, Goto, content, counts, AtCommand, GateType, HoldsByPlace, Exclusive, OneWriter, OneOwner, Marked, Outside, Inside, Validating, Ending, Owners
  <2>7. StaleIsKnown'
    BY <1>0, <1>2, <2>1 DEF Call, Goto, content, counts, AtCommand, GateType, HoldsByPlace, Exclusive, OneWriter, OneOwner, Marked, StaleIsKnown, Outside, Inside, Validating, Ending, Owners
  <2>8. QED
    BY <2>2, <2>3, <2>4, <2>5, <2>6, <2>7
<1>3. ASSUME NEW t \in Threads, Gate(t) PROVE LockInv'
  <2>1. UNCHANGED <<holds, lock>>
    BY <1>3 DEF Gate
  <2>2. LockCountsHolders' /\ OneWriter'
    BY <2>1 DEF LockCountsHolders, OneWriter
  <2>3. GateType'
    BY <1>0, <1>3, <2>1 DEF Gate, Goto, content, counts, GateType, Outside, Inside, Validating, Ending, Owners
  <2>4. HoldsByPlace'
    BY <1>0, <1>3, <2>1 DEF Gate, Goto, content, counts, AtCommand, GateType, HoldsByPlace, Exclusive, Outside, Inside, Validating, Ending, Owners
  <2>5. OneOwner'
    BY <1>0, <1>3, <2>1, ThreadsAssumption DEF Gate, Goto, content, counts, AtCommand, GateType, HoldsByPlace, Exclusive, OneWriter, OneOwner, Marked, Outside, Inside, Validating, Ending, Owners
  <2>6. Marked'
    BY <1>0, <1>3, <2>1 DEF Gate, Goto, content, counts, AtCommand, GateType, HoldsByPlace, Exclusive, OneWriter, OneOwner, Marked, Outside, Inside, Validating, Ending, Owners
  <2>7. StaleIsKnown'
    BY <1>0, <1>3, <2>1 DEF Gate, Goto, content, counts, AtCommand, GateType, HoldsByPlace, Exclusive, OneWriter, OneOwner, Marked, StaleIsKnown, Outside, Inside, Validating, Ending, Owners
  <2>8. QED
    BY <2>2, <2>3, <2>4, <2>5, <2>6, <2>7
<1>4. ASSUME NEW t \in Threads, AcquireVolume(t) PROVE LockInv'
  <2>1. /\ holds' = [holds EXCEPT ![t] = IF Exclusive(t) THEN "w" ELSE "r"]
        /\ lock' \in [w : BOOLEAN, r : Nat]
        /\ LockCountsHolders' /\ OneWriter'
    <3>1. holds[t] = "no" /\ Acquire(t, Exclusive(t)) /\ Exclusive(t) \in BOOLEAN
      BY <1>4 DEF AcquireVolume, HoldsByPlace, Outside, Exclusive
    <3>2. QED
      BY <3>1, AcquireCounts
  <2>2. LockCountsHolders' /\ OneWriter'
    BY <2>1
  <2>3. GateType'
    BY <1>0, <1>4, <2>1 DEF AcquireVolume, Goto, content, counts, GateType, Outside, Inside, Validating, Ending, Owners
  <2>4. HoldsByPlace'
    BY <1>0, <1>4, <2>1 DEF AcquireVolume, Goto, content, counts, AtCommand, GateType, HoldsByPlace, Exclusive, Outside, Inside, Validating, Ending, Owners
  <2>5. OneOwner'
    BY <1>0, <1>4, <2>1, ThreadsAssumption DEF AcquireVolume, Goto, content, counts, AtCommand, GateType, HoldsByPlace, Exclusive, OneWriter, OneOwner, Marked, Outside, Inside, Validating, Ending, Owners
  <2>6. Marked'
    BY <1>0, <1>4, <2>1 DEF AcquireVolume, Goto, content, counts, AtCommand, GateType, HoldsByPlace, Exclusive, OneWriter, OneOwner, Marked, Outside, Inside, Validating, Ending, Owners
  <2>7. StaleIsKnown'
    BY <1>0, <1>4, <2>1 DEF AcquireVolume, Goto, content, counts, AtCommand, GateType, HoldsByPlace, Exclusive, OneWriter, OneOwner, Marked, StaleIsKnown, Outside, Inside, Validating, Ending, Owners
  <2>8. QED
    BY <2>2, <2>3, <2>4, <2>5, <2>6, <2>7
<1>5. ASSUME NEW t \in Threads, Check(t) PROVE LockInv'
  <2>1. /\ \/ UNCHANGED <<holds, lock>>
           \/ Release(t) /\ holds' = [holds EXCEPT ![t] = "no"] /\ lock' \in [w : BOOLEAN, r : Nat]
        /\ LockCountsHolders' /\ OneWriter'
    <3>1. holds[t] # "no"
      BY <1>5 DEF Check, GateType, HoldsByPlace, Outside, Inside, Validating, Ending, Owners
    <3>2. CASE UNCHANGED <<holds, lock>>
      BY <3>2 DEF LockCountsHolders, OneWriter
    <3>3. CASE Release(t)
      BY <3>1, <3>3, ReleaseCounts
    <3>4. QED
      BY <1>5, <3>2, <3>3 DEF Check
  <2>2. LockCountsHolders' /\ OneWriter'
    BY <2>1
  <2>3. GateType'
    BY <1>0, <1>5, <2>1 DEF Check, Goto, content, counts, GateType, Outside, Inside, Validating, Ending, Owners
  <2>4. HoldsByPlace'
    <3>1. CASE reval = "no"
      BY <1>0, <1>5, <3>1 DEF Check, Goto, GateType, HoldsByPlace, Exclusive, Outside, Inside, Validating, Ending, Owners
    <3>2. CASE reval # "no"
      <4>1. pc' = [pc EXCEPT ![t] = IF reval = "failed" THEN "idle" ELSE "gate"] /\ op' = op
        BY <1>5, <3>2 DEF Check, Goto
      <4>2. holds' = [holds EXCEPT ![t] = "no"]
        BY <1>5, <3>2 DEF Check, Release
      <4>3. QED
        BY <4>1, <4>2 DEF GateType, HoldsByPlace, Exclusive, Outside, Inside, Validating, Ending, Owners
    <3>3. QED
      BY <3>1, <3>2
  <2>5. OneOwner'
    BY <1>0, <1>5, <2>1, ThreadsAssumption DEF Check, Goto, content, counts, AtCommand, GateType, HoldsByPlace, Exclusive, OneWriter, OneOwner, Marked, Outside, Inside, Validating, Ending, Owners
  <2>6. Marked'
    BY <1>0, <1>5, <2>1 DEF Check, Goto, content, counts, AtCommand, GateType, HoldsByPlace, Exclusive, OneWriter, OneOwner, Marked, Outside, Inside, Validating, Ending, Owners
  <2>7. StaleIsKnown'
    BY <1>0, <1>5, <2>1 DEF Check, Goto, content, counts, AtCommand, GateType, HoldsByPlace, Exclusive, OneWriter, OneOwner, Marked, StaleIsKnown, Outside, Inside, Validating, Ending, Owners
  <2>8. QED
    BY <2>2, <2>3, <2>4, <2>5, <2>6, <2>7
<1>6. ASSUME NEW t \in Threads, DeviceLock(t) PROVE LockInv'
  <2>1. /\ holds' = IF fence /\ Opening(t) THEN [holds EXCEPT ![t] = "r"] ELSE holds
        /\ lock' \in [w : BOOLEAN, r : Nat]
        /\ LockCountsHolders' /\ OneWriter'
    <3>1. CASE UNCHANGED <<holds, lock>> /\ ~fence
      BY <3>1 DEF GateType, LockCountsHolders, OneWriter
    <3>2. CASE Lower(t) /\ fence
      BY <3>2, LowerCounts
    <3>3. QED
      BY <1>6, <3>1, <3>2 DEF DeviceLock
  <2>2. LockCountsHolders' /\ OneWriter'
    BY <2>1
  <2>3. GateType'
    BY <1>0, <1>6, <2>1 DEF DeviceLock, Opening, Goto, content, counts, GateType, Outside, Inside, Validating, Ending, Owners
  <2>4. HoldsByPlace'
    BY <1>0, <1>6, <2>1 DEF DeviceLock, Opening, Goto, content, counts, AtCommand, GateType, HoldsByPlace, Exclusive, Outside, Inside, Validating, Ending, Owners
  <2>5. OneOwner'
    BY <1>0, <1>6, <2>1, ThreadsAssumption DEF DeviceLock, Opening, Goto, content, counts, AtCommand, GateType, HoldsByPlace, Exclusive, OneWriter, OneOwner, Marked, Outside, Inside, Validating, Ending, Owners
  <2>6. Marked'
    BY <1>0, <1>6, <2>1 DEF DeviceLock, Opening, Goto, content, counts, AtCommand, GateType, HoldsByPlace, Exclusive, OneWriter, OneOwner, Marked, Outside, Inside, Validating, Ending, Owners
  <2>7. StaleIsKnown'
    BY <1>0, <1>6, <2>1 DEF DeviceLock, Opening, Goto, content, counts, AtCommand, GateType, HoldsByPlace, Exclusive, OneWriter, OneOwner, Marked, StaleIsKnown, Outside, Inside, Validating, Ending, Owners
  <2>8. QED
    BY <2>2, <2>3, <2>4, <2>5, <2>6, <2>7
<1>7. ASSUME NEW t \in Threads, Fenced(t) PROVE LockInv'
  <2>1. /\ holds' = [holds EXCEPT ![t] = "no"]
        /\ lock' \in [w : BOOLEAN, r : Nat]
        /\ LockCountsHolders' /\ OneWriter'
    <3>1. holds[t] # "no" /\ Release(t)
      BY <1>7 DEF Fenced, GateType, HoldsByPlace, Outside, Inside, Validating, Ending, Owners
    <3>2. QED
      BY <3>1, ReleaseCounts
  <2>2. LockCountsHolders' /\ OneWriter'
    BY <2>1
  <2>3. GateType'
    BY <1>0, <1>7, <2>1 DEF Fenced, Goto, content, counts, GateType, Outside, Inside, Validating, Ending, Owners
  <2>4. HoldsByPlace'
    BY <1>0, <1>7, <2>1 DEF Fenced, Goto, content, counts, AtCommand, GateType, HoldsByPlace, Exclusive, Outside, Inside, Validating, Ending, Owners
  <2>5. OneOwner'
    BY <1>0, <1>7, <2>1, ThreadsAssumption DEF Fenced, Goto, content, counts, AtCommand, GateType, HoldsByPlace, Exclusive, OneWriter, OneOwner, Marked, Outside, Inside, Validating, Ending, Owners
  <2>6. Marked'
    BY <1>0, <1>7, <2>1 DEF Fenced, Goto, content, counts, AtCommand, GateType, HoldsByPlace, Exclusive, OneWriter, OneOwner, Marked, Outside, Inside, Validating, Ending, Owners
  <2>7. StaleIsKnown'
    BY <1>0, <1>7, <2>1 DEF Fenced, Goto, content, counts, AtCommand, GateType, HoldsByPlace, Exclusive, OneWriter, OneOwner, Marked, StaleIsKnown, Outside, Inside, Validating, Ending, Owners
  <2>8. QED
    BY <2>2, <2>3, <2>4, <2>5, <2>6, <2>7
<1>8. ASSUME NEW t \in Threads, WaitRevalidation(t) PROVE LockInv'
  <2>1. UNCHANGED <<holds, lock>>
    BY <1>8 DEF WaitRevalidation, Attribute
  <2>2. LockCountsHolders' /\ OneWriter'
    BY <2>1 DEF LockCountsHolders, OneWriter
  <2>3. GateType'
    BY <1>0, <1>8, <2>1 DEF WaitRevalidation, Attribute, Goto, content, counts, GateType, Outside, Inside, Validating, Ending, Owners
  <2>4. HoldsByPlace'
    BY <1>0, <1>8, <2>1 DEF WaitRevalidation, Attribute, Goto, content, counts, AtCommand, GateType, HoldsByPlace, Exclusive, Outside, Inside, Validating, Ending, Owners
  <2>5. OneOwner'
    BY <1>0, <1>8, <2>1, ThreadsAssumption DEF WaitRevalidation, Attribute, Goto, content, counts, AtCommand, GateType, HoldsByPlace, Exclusive, OneWriter, OneOwner, Marked, Outside, Inside, Validating, Ending, Owners
  <2>6. Marked'
    BY <1>0, <1>8, <2>1 DEF WaitRevalidation, Attribute, Goto, content, counts, AtCommand, GateType, HoldsByPlace, Exclusive, OneWriter, OneOwner, Marked, Outside, Inside, Validating, Ending, Owners
  <2>7. StaleIsKnown'
    BY <1>0, <1>8, <2>1 DEF WaitRevalidation, Attribute, Goto, content, counts, AtCommand, GateType, HoldsByPlace, Exclusive, OneWriter, OneOwner, Marked, StaleIsKnown, Outside, Inside, Validating, Ending, Owners
  <2>8. QED
    BY <2>2, <2>3, <2>4, <2>5, <2>6, <2>7
<1>9. ASSUME NEW t \in Threads, CommandGood(t) PROVE LockInv'
  <2>1. UNCHANGED <<holds, lock>>
    BY <1>9 DEF CommandGood, Attribute, OwnDevice
  <2>2. LockCountsHolders' /\ OneWriter'
    BY <2>1 DEF LockCountsHolders, OneWriter
  <2>3. GateType'
    BY <1>0, <1>9, <2>1 DEF CommandGood, Opening, Attribute, OwnDevice, Goto, content, counts, GateType, Outside, Inside, Validating, Ending, Owners
  <2>4. HoldsByPlace'
    BY <1>0, <1>9, <2>1 DEF CommandGood, Opening, Attribute, OwnDevice, Goto, content, counts, AtCommand, GateType, HoldsByPlace, Exclusive, Outside, Inside, Validating, Ending, Owners
  <2>5. OneOwner'
    BY <1>0, <1>9, <2>1, ThreadsAssumption DEF CommandGood, Opening, Attribute, OwnDevice, Goto, content, counts, AtCommand, GateType, HoldsByPlace, Exclusive, OneWriter, OneOwner, Marked, Outside, Inside, Validating, Ending, Owners
  <2>6. Marked'
    BY <1>0, <1>9, <2>1 DEF CommandGood, Opening, Attribute, OwnDevice, Goto, content, counts, AtCommand, GateType, HoldsByPlace, Exclusive, OneWriter, OneOwner, Marked, Outside, Inside, Validating, Ending, Owners
  <2>7. StaleIsKnown'
    BY <1>0, <1>9, <2>1 DEF CommandGood, Opening, Attribute, OwnDevice, Goto, content, counts, AtCommand, GateType, HoldsByPlace, Exclusive, OneWriter, OneOwner, Marked, StaleIsKnown, Outside, Inside, Validating, Ending, Owners
  <2>8. QED
    BY <2>2, <2>3, <2>4, <2>5, <2>6, <2>7
<1>10. ASSUME NEW t \in Threads, LookDirty(t) PROVE LockInv'
  <2>1. UNCHANGED <<holds, lock>>
    BY <1>10 DEF LookDirty
  <2>2. LockCountsHolders' /\ OneWriter'
    BY <2>1 DEF LockCountsHolders, OneWriter
  <2>3. GateType'
    BY <1>0, <1>10, <2>1 DEF LookDirty, Goto, content, counts, GateType, Outside, Inside, Validating, Ending, Owners
  <2>4. HoldsByPlace'
    BY <1>0, <1>10, <2>1 DEF LookDirty, Goto, content, counts, AtCommand, GateType, HoldsByPlace, Exclusive, Outside, Inside, Validating, Ending, Owners
  <2>5. OneOwner'
    BY <1>0, <1>10, <2>1, ThreadsAssumption DEF LookDirty, Goto, content, counts, AtCommand, GateType, HoldsByPlace, Exclusive, OneWriter, OneOwner, Marked, Outside, Inside, Validating, Ending, Owners
  <2>6. Marked'
    BY <1>0, <1>10, <2>1 DEF LookDirty, Goto, content, counts, AtCommand, GateType, HoldsByPlace, Exclusive, OneWriter, OneOwner, Marked, Outside, Inside, Validating, Ending, Owners
  <2>7. StaleIsKnown'
    BY <1>0, <1>10, <2>1 DEF LookDirty, Goto, content, counts, AtCommand, GateType, HoldsByPlace, Exclusive, OneWriter, OneOwner, Marked, StaleIsKnown, Outside, Inside, Validating, Ending, Owners
  <2>8. QED
    BY <2>2, <2>3, <2>4, <2>5, <2>6, <2>7
<1>11. ASSUME NEW t \in Threads, CommandReset(t) PROVE LockInv'
  <2>1. /\ holds' = IF Opening(t) THEN [holds EXCEPT ![t] = "r"] ELSE holds
        /\ lock' \in [w : BOOLEAN, r : Nat]
        /\ LockCountsHolders' /\ OneWriter'
    BY <1>11, LowerCounts DEF CommandReset
  <2>2. LockCountsHolders' /\ OneWriter'
    BY <2>1
  <2>3. GateType'
    BY <1>0, <1>11, <2>1 DEF CommandReset, Opening, Hit, OwnDevice, Goto, content, counts, GateType, Outside, Inside, Validating, Ending, Owners
  <2>4. HoldsByPlace'
    BY <1>0, <1>11, <2>1 DEF CommandReset, Opening, Hit, OwnDevice, Goto, content, counts, AtCommand, GateType, HoldsByPlace, Exclusive, Outside, Inside, Validating, Ending, Owners
  <2>5. OneOwner'
    BY <1>0, <1>11, <2>1, ThreadsAssumption DEF CommandReset, Opening, Hit, OwnDevice, Goto, content, counts, AtCommand, GateType, HoldsByPlace, Exclusive, OneWriter, OneOwner, Marked, Outside, Inside, Validating, Ending, Owners
  <2>6. Marked'
    <3>1. \A u \in Threads : pc[u] \notin Owners
      BY <1>11 DEF CommandReset, Hit, OneOwner
    <3>2. op[t] # "unmount"
      BY <1>0, <1>11 DEF CommandReset, Hit
    <3>3. pc' = [pc EXCEPT ![t] = "reval"] /\ op' = op /\ reval' = reval /\ fence' = (fence \/ op[t] # "sync2")
      BY <1>11, <3>2 DEF CommandReset, Goto
    <3>4. \A u \in Threads : pc'[u] = IF u = t THEN "reval" ELSE pc[u]
      BY <3>3 DEF GateType
    <3>5. QED
      BY <3>1, <3>3, <3>4 DEF GateType, Marked, Owners
  <2>7. StaleIsKnown'
    BY <1>0, <1>11, <2>1 DEF CommandReset, Opening, Hit, OwnDevice, Goto, content, counts, AtCommand, GateType, HoldsByPlace, Exclusive, OneWriter, OneOwner, Marked, StaleIsKnown, Outside, Inside, Validating, Ending, Owners
  <2>8. QED
    BY <2>2, <2>3, <2>4, <2>5, <2>6, <2>7
<1>12. ASSUME NEW t \in Threads, CommandRemoval(t) PROVE LockInv'
  <2>1. /\ holds' = IF Opening(t) THEN [holds EXCEPT ![t] = "r"] ELSE holds
        /\ lock' \in [w : BOOLEAN, r : Nat]
        /\ LockCountsHolders' /\ OneWriter'
    BY <1>12, LowerCounts DEF CommandRemoval
  <2>2. LockCountsHolders' /\ OneWriter'
    BY <2>1
  <2>3. GateType'
    BY <1>0, <1>12, <2>1 DEF CommandRemoval, Opening, Hit, OwnDevice, Attribute, Goto, content, counts, GateType, Outside, Inside, Validating, Ending, Owners
  <2>4. HoldsByPlace'
    BY <1>0, <1>12, <2>1 DEF CommandRemoval, Opening, Hit, OwnDevice, Attribute, Goto, content, counts, AtCommand, GateType, HoldsByPlace, Exclusive, Outside, Inside, Validating, Ending, Owners
  <2>5. OneOwner'
    BY <1>0, <1>12, <2>1, ThreadsAssumption DEF CommandRemoval, Opening, Hit, OwnDevice, Attribute, Goto, content, counts, AtCommand, GateType, HoldsByPlace, Exclusive, OneWriter, OneOwner, Marked, Outside, Inside, Validating, Ending, Owners
  <2>6. Marked'
    BY <1>0, <1>12, <2>1 DEF CommandRemoval, Opening, Hit, OwnDevice, Attribute, Goto, content, counts, AtCommand, GateType, HoldsByPlace, Exclusive, OneWriter, OneOwner, Marked, Outside, Inside, Validating, Ending, Owners
  <2>7. StaleIsKnown'
    BY <1>0, <1>12, <2>1 DEF CommandRemoval, Opening, Hit, OwnDevice, Attribute, Goto, content, counts, AtCommand, GateType, HoldsByPlace, Exclusive, OneWriter, OneOwner, Marked, StaleIsKnown, Outside, Inside, Validating, Ending, Owners
  <2>8. QED
    BY <2>2, <2>3, <2>4, <2>5, <2>6, <2>7
<1>13. ASSUME NEW t \in Threads, EndOp(t) PROVE LockInv'
  <2>1. /\ holds' = [holds EXCEPT ![t] = "no"]
        /\ lock' \in [w : BOOLEAN, r : Nat]
        /\ LockCountsHolders' /\ OneWriter'
    <3>1. holds[t] # "no" /\ Release(t)
      BY <1>13 DEF EndOp, GateType, HoldsByPlace, Outside, Inside, Validating, Ending, Owners
    <3>2. QED
      BY <3>1, ReleaseCounts
  <2>2. LockCountsHolders' /\ OneWriter'
    BY <2>1
  <2>3. GateType'
    BY <1>0, <1>13, <2>1 DEF EndOp, Goto, content, counts, GateType, Outside, Inside, Validating, Ending, Owners
  <2>4. HoldsByPlace'
    BY <1>0, <1>13, <2>1 DEF EndOp, Goto, content, counts, AtCommand, GateType, HoldsByPlace, Exclusive, Outside, Inside, Validating, Ending, Owners
  <2>5. OneOwner'
    BY <1>0, <1>13, <2>1, ThreadsAssumption DEF EndOp, Goto, content, counts, AtCommand, GateType, HoldsByPlace, Exclusive, OneWriter, OneOwner, Marked, Outside, Inside, Validating, Ending, Owners
  <2>6. Marked'
    BY <1>0, <1>13, <2>1 DEF EndOp, Goto, content, counts, AtCommand, GateType, HoldsByPlace, Exclusive, OneWriter, OneOwner, Marked, Outside, Inside, Validating, Ending, Owners
  <2>7. StaleIsKnown'
    BY <1>0, <1>13, <2>1 DEF EndOp, Goto, content, counts, AtCommand, GateType, HoldsByPlace, Exclusive, OneWriter, OneOwner, Marked, StaleIsKnown, Outside, Inside, Validating, Ending, Owners
  <2>8. QED
    BY <2>2, <2>3, <2>4, <2>5, <2>6, <2>7
<1>14. ASSUME NEW t \in Threads, RevalStart(t) PROVE LockInv'
  <2>1. /\ \/ UNCHANGED <<holds, lock>>
           \/ Release(t) /\ holds' = [holds EXCEPT ![t] = "no"] /\ lock' \in [w : BOOLEAN, r : Nat]
        /\ LockCountsHolders' /\ OneWriter'
    <3>1. holds[t] # "no"
      BY <1>14 DEF RevalStart, HaveWrite, GateType, HoldsByPlace, Outside, Inside, Validating, Ending, Owners
    <3>2. CASE UNCHANGED <<holds, lock>>
      BY <3>2 DEF LockCountsHolders, OneWriter
    <3>3. CASE Release(t)
      BY <3>1, <3>3, ReleaseCounts
    <3>4. QED
      BY <1>14, <3>2, <3>3 DEF RevalStart, HaveWrite
  <2>2. LockCountsHolders' /\ OneWriter'
    BY <2>1
  <2>3. GateType'
    BY <1>0, <1>14, <2>1 DEF RevalStart, HaveWrite, Goto, content, counts, GateType, Outside, Inside, Validating, Ending, Owners
  <2>4. HoldsByPlace'
    <3>1. CASE HaveWrite(t)
      BY <1>0, <1>14, <3>1 DEF RevalStart, HaveWrite, Goto, GateType, HoldsByPlace, Exclusive,
         Outside, Inside, Validating, Ending, Owners
    <3>2. CASE ~HaveWrite(t)
      <4>1. pc' = [pc EXCEPT ![t] = "upgrade"] /\ op' = op
        BY <1>14, <3>2 DEF RevalStart, Goto
      <4>2. holds' = [holds EXCEPT ![t] = "no"]
        BY <1>14, <3>2 DEF RevalStart, Release
      <4>3. QED
        BY <1>14, <3>2, <4>1, <4>2 DEF RevalStart, HaveWrite, GateType, HoldsByPlace, Exclusive,
           Outside, Inside, Validating, Ending, Owners
    <3>3. QED
      BY <3>1, <3>2
  <2>5. OneOwner'
    BY <1>0, <1>14, <2>1, ThreadsAssumption DEF RevalStart, HaveWrite, Goto, content, counts, AtCommand, GateType, HoldsByPlace, Exclusive, OneWriter, OneOwner, Marked, Outside, Inside, Validating, Ending, Owners
  <2>6. Marked'
    BY <1>0, <1>14, <2>1 DEF RevalStart, HaveWrite, Goto, content, counts, AtCommand, GateType, HoldsByPlace, Exclusive, OneWriter, OneOwner, Marked, Outside, Inside, Validating, Ending, Owners
  <2>7. StaleIsKnown'
    BY <1>0, <1>14, <2>1 DEF RevalStart, HaveWrite, Goto, content, counts, AtCommand, GateType, HoldsByPlace, Exclusive, OneWriter, OneOwner, Marked, StaleIsKnown, Outside, Inside, Validating, Ending, Owners
  <2>8. QED
    BY <2>2, <2>3, <2>4, <2>5, <2>6, <2>7
<1>15. ASSUME NEW t \in Threads, RevalUpgrade(t) PROVE LockInv'
  <2>1. /\ holds' = [holds EXCEPT ![t] = IF TRUE THEN "w" ELSE "r"]
        /\ lock' \in [w : BOOLEAN, r : Nat]
        /\ LockCountsHolders' /\ OneWriter'
    <3>1. holds[t] = "no" /\ Acquire(t, TRUE) /\ TRUE \in BOOLEAN
      BY <1>15 DEF RevalUpgrade, HoldsByPlace, Outside, Exclusive
    <3>2. QED
      BY <3>1, AcquireCounts
  <2>2. LockCountsHolders' /\ OneWriter'
    BY <2>1
  <2>3. GateType'
    BY <1>0, <1>15, <2>1 DEF RevalUpgrade, Goto, content, counts, GateType, Outside, Inside, Validating, Ending, Owners
  <2>4. HoldsByPlace'
    BY <1>0, <1>15, <2>1 DEF RevalUpgrade, Goto, content, counts, AtCommand, GateType, HoldsByPlace, Exclusive, Outside, Inside, Validating, Ending, Owners
  <2>5. OneOwner'
    BY <1>0, <1>15, <2>1, ThreadsAssumption DEF RevalUpgrade, Goto, content, counts, AtCommand, GateType, HoldsByPlace, Exclusive, OneWriter, OneOwner, Marked, Outside, Inside, Validating, Ending, Owners
  <2>6. Marked'
    BY <1>0, <1>15, <2>1 DEF RevalUpgrade, Goto, content, counts, AtCommand, GateType, HoldsByPlace, Exclusive, OneWriter, OneOwner, Marked, Outside, Inside, Validating, Ending, Owners
  <2>7. StaleIsKnown'
    BY <1>0, <1>15, <2>1 DEF RevalUpgrade, Goto, content, counts, AtCommand, GateType, HoldsByPlace, Exclusive, OneWriter, OneOwner, Marked, StaleIsKnown, Outside, Inside, Validating, Ending, Owners
  <2>8. QED
    BY <2>2, <2>3, <2>4, <2>5, <2>6, <2>7
<1>16. ASSUME NEW t \in Threads, Validate(t) PROVE LockInv'
  <2>1. UNCHANGED <<holds, lock>>
    BY <1>16 DEF Validate
  <2>2. LockCountsHolders' /\ OneWriter'
    BY <2>1 DEF LockCountsHolders, OneWriter
  <2>3. GateType'
    BY <1>0, <1>16, <2>1 DEF Validate, Goto, content, counts, GateType, Outside, Inside, Validating, Ending, Owners
  <2>4. HoldsByPlace'
    BY <1>0, <1>16, <2>1 DEF Validate, Goto, content, counts, AtCommand, GateType, HoldsByPlace, Exclusive, Outside, Inside, Validating, Ending, Owners
  <2>5. OneOwner'
    BY <1>0, <1>16, <2>1, ThreadsAssumption DEF Validate, Goto, content, counts, AtCommand, GateType, HoldsByPlace, Exclusive, OneWriter, OneOwner, Marked, Outside, Inside, Validating, Ending, Owners
  <2>6. Marked'
    BY <1>0, <1>16, <2>1 DEF Validate, Goto, content, counts, AtCommand, GateType, HoldsByPlace, Exclusive, OneWriter, OneOwner, Marked, Outside, Inside, Validating, Ending, Owners
  <2>7. StaleIsKnown'
    BY <1>0, <1>16, <2>1 DEF Validate, Goto, content, counts, AtCommand, GateType, HoldsByPlace, Exclusive, OneWriter, OneOwner, Marked, StaleIsKnown, Outside, Inside, Validating, Ending, Owners
  <2>8. QED
    BY <2>2, <2>3, <2>4, <2>5, <2>6, <2>7
<1>17. ASSUME NEW t \in Threads, RevalEnd(t) PROVE LockInv'
  <2>1. UNCHANGED <<holds, lock>>
    BY <1>17 DEF RevalEnd
  <2>2. LockCountsHolders' /\ OneWriter'
    BY <2>1 DEF LockCountsHolders, OneWriter
  <2>3. GateType'
    BY <1>0, <1>17, <2>1 DEF RevalEnd, Goto, content, counts, GateType, Outside, Inside, Validating, Ending, Owners
  <2>4. HoldsByPlace'
    BY <1>0, <1>17, <2>1 DEF RevalEnd, Goto, content, counts, AtCommand, GateType, HoldsByPlace, Exclusive, Outside, Inside, Validating, Ending, Owners
  <2>5. OneOwner'
    BY <1>0, <1>17, <2>1, ThreadsAssumption DEF RevalEnd, Goto, content, counts, AtCommand, GateType, HoldsByPlace, Exclusive, OneWriter, OneOwner, Marked, Outside, Inside, Validating, Ending, Owners
  <2>6. Marked'
    BY <1>0, <1>17, <2>1 DEF RevalEnd, Goto, content, counts, AtCommand, GateType, HoldsByPlace, Exclusive, OneWriter, OneOwner, Marked, Outside, Inside, Validating, Ending, Owners
  <2>7. StaleIsKnown'
    BY <1>0, <1>17, <2>1 DEF RevalEnd, Goto, content, counts, AtCommand, GateType, HoldsByPlace, Exclusive, OneWriter, OneOwner, Marked, StaleIsKnown, Outside, Inside, Validating, Ending, Owners
  <2>8. QED
    BY <2>2, <2>3, <2>4, <2>5, <2>6, <2>7
<1>18. ASSUME NEW t \in Threads, RevalRelease(t) PROVE LockInv'
  <2>1. /\ holds' = [holds EXCEPT ![t] = "no"]
        /\ lock' \in [w : BOOLEAN, r : Nat]
        /\ LockCountsHolders' /\ OneWriter'
    <3>1. holds[t] # "no" /\ Release(t)
      BY <1>18 DEF RevalRelease, Attribute, GateType, HoldsByPlace, Outside, Inside, Validating, Ending, Owners
    <3>2. QED
      BY <3>1, ReleaseCounts
  <2>2. LockCountsHolders' /\ OneWriter'
    BY <2>1
  <2>3. GateType'
    <3>1. op[t] # "unmount" /\ op[t] # "setattr2" /\ op[t] # "setattr"
      BY <1>0, <1>18 DEF RevalRelease, GateType, HoldsByPlace, Validating
    <3>2. op' = IF op[t] = "sync2" THEN [op EXCEPT ![t] = "sync"] ELSE op
      BY <1>18, <3>1 DEF RevalRelease, Attribute
    <3>3. QED
      BY <1>0, <1>18, <2>1, <3>1, <3>2 DEF RevalRelease, Attribute, Goto, content, GateType, Outside, Inside, Validating, Ending, Owners
  <2>4. HoldsByPlace'
    BY <1>0, <1>18, <2>1 DEF RevalRelease, Attribute, Goto, content, counts, AtCommand, GateType, HoldsByPlace, Exclusive, Outside, Inside, Validating, Ending, Owners
  <2>5. OneOwner'
    BY <1>0, <1>18, <2>1, ThreadsAssumption DEF RevalRelease, Attribute, Goto, content, counts, AtCommand, GateType, HoldsByPlace, Exclusive, OneWriter, OneOwner, Marked, Outside, Inside, Validating, Ending, Owners
  <2>6. Marked'
    BY <1>0, <1>18, <2>1 DEF RevalRelease, Attribute, Goto, content, counts, AtCommand, GateType, HoldsByPlace, Exclusive, OneWriter, OneOwner, Marked, Outside, Inside, Validating, Ending, Owners
  <2>7. StaleIsKnown'
    BY <1>0, <1>18, <2>1 DEF RevalRelease, Attribute, Goto, content, counts, AtCommand, GateType, HoldsByPlace, Exclusive, OneWriter, OneOwner, Marked, StaleIsKnown, Outside, Inside, Validating, Ending, Owners
  <2>8. QED
    BY <2>2, <2>3, <2>4, <2>5, <2>6, <2>7
<1>19. ASSUME NEW t \in Threads, OpenPartition(t) PROVE LockInv'
  <2>1. /\ holds' = [holds EXCEPT ![t] = "r"]
        /\ lock' \in [w : BOOLEAN, r : Nat]
        /\ LockCountsHolders' /\ OneWriter'
    BY <1>19, LowerCounts DEF OpenPartition
  <2>2. UNCHANGED <<pc, op, devlock, fence, reval, stale>> /\ pc[t] = "command" /\ op[t] = "write"
    BY <1>19 DEF OpenPartition, Opening
  <2>3. GateType'
    BY <2>1, <2>2 DEF GateType
  <2>4. HoldsByPlace'
    BY <2>1, <2>2 DEF GateType, HoldsByPlace, Exclusive, Outside, Inside, Validating, Ending, Owners
  <2>5. OneOwner' /\ Marked' /\ StaleIsKnown'
    BY <2>2 DEF OneOwner, AtCommand, Marked, StaleIsKnown
  <2>6. QED
    BY <2>1, <2>3, <2>4, <2>5
<1>20. QED
  BY <1>1, <1>2, <1>3, <1>4, <1>5, <1>6, <1>7, <1>8, <1>9, <1>10, <1>11, <1>12, <1>13, <1>14, <1>15, <1>16, <1>17, <1>18, <1>19 DEF Next, Step

-----------------------------------------------------------------------------
(* What the volume knows of the cartridge.                                 *)

Rec == {"fm", "ix", "data"}
Place == [part : Part, block : Int]
Volumes ==
  [app : [Part -> Int], ends : [Part -> BOOLEAN], coh : [Part -> Int],
   self : Place, back : Place, dirty : BOOLEAN]
Records == Seq(Rec)
Tapes == [label : {"ours", "other"}, recs : [Part -> Records], coh : [Part -> Int], eod : BOOLEAN]

\* A partition ends in an index, whose first block is b.
LastIndexIs(c, p, b) == EndsInIndex(c, p) /\ LastIndexAt(c, p) = b /\ Base <= b /\ b < EodAt(c, p)
DataIndex(v) == IF v.self.part = "dp" THEN v.self.block ELSE v.back.block

\* The next append goes to a place within the records, and where a partition ends
\* in an index the volume knows which.
KnowsTape(v, c) ==
  /\ v \in Volumes /\ c \in Tapes
  /\ \A p \in Part : v.app[p] = 0 \/ v.app[p] \in Base .. EodAt(c, p)
  /\ v.ends["dp"] => LastIndexIs(c, "dp", DataIndex(v))
  /\ v.ends["ip"] => LastIndexIs(c, "ip", v.app["ip"] + 1)

\* What a reset leaves of it: the records of a partition that ends in an index,
\* with some of another host behind them; or else all up to the append position.
Grown(s) == {s, s \o <<"data">>, s \o <<"fm", "ix", "fm">>}
UpTo(s, n) == SubSeq(s, 1, n)
StillThere(v, k, c) ==
  \A p \in Part : IF v.ends[p] THEN c.recs[p] \in Grown(k.recs[p])
                  ELSE UpTo(c.recs[p], v.app[p] - Base) = UpTo(k.recs[p], v.app[p] - Base)
AsKnown(v, k, c) ==
  \A p \in Part : IF v.ends[p] THEN c.recs[p] = k.recs[p]
                  ELSE UpTo(c.recs[p], v.app[p] - Base) = UpTo(k.recs[p], v.app[p] - Base)

KnownInv ==
  /\ writes \in Nat
  /\ ~stale => KnowsTape(vol, tape)
  /\ stale => KnowsTape(vol, known) /\ tape \in Tapes /\ StillThere(vol, known, tape)
  /\ \A t \in Threads : pc[t] \in {"reval", "upgrade", "validate"} => stale
  /\ \A t \in Threads : pc[t] \in {"pass", "passed"} =>
       tape.label = "ours" /\ tape.eod /\ AsKnown(vol, known, tape)

\* Writing over the records from n on keeps those before.
LEMMA CutAndPut ==
  ASSUME NEW s \in Seq(Rec), NEW n \in 0 .. Len(s), NEW r \in Seq(Rec)
  PROVE  /\ UpTo(s, n) \o r \in Seq(Rec)
         /\ Len(UpTo(s, n) \o r) = n + Len(r)
         /\ UpTo(UpTo(s, n) \o r, n) = UpTo(s, n)
         /\ \A i \in 1 .. Len(r) : (UpTo(s, n) \o r)[n + i] = r[i]
<1> DEFINE u == UpTo(s, n)
<1>1. u \in Seq(Rec) /\ Len(u) = n /\ \A i \in 1 .. n : u[i] = s[i]
  <2>1. \A i \in 1 .. n : s[i] \in Rec
    BY ElementOfSeq
  <2>2. QED
    BY <2>1, SubSeqProperties DEF UpTo
<1>2. /\ u \o r \in Seq(Rec) /\ Len(u \o r) = n + Len(r)
      /\ \A i \in 1 .. n + Len(r) : (u \o r)[i] = IF i <= n THEN u[i] ELSE r[i - n]
  <2>1. /\ u \o r \in Seq(Rec) /\ Len(u \o r) = Len(u) + Len(r)
        /\ \A i \in 1 .. Len(u) + Len(r) : (u \o r)[i] = IF i <= Len(u) THEN u[i] ELSE r[i - Len(u)]
    BY <1>1, ConcatProperties, Zenon
  <2>2. QED
    BY <1>1, <2>1
<1>3. UpTo(u \o r, n) = u
  <2>1. \A i \in 1 .. n : (u \o r)[i] \in Rec
    BY <1>2, ElementOfSeq, LenProperties
  <2>2. /\ UpTo(u \o r, n) \in Seq(Rec) /\ Len(UpTo(u \o r, n)) = n
        /\ \A i \in 1 .. n : UpTo(u \o r, n)[i] = (u \o r)[i]
    BY <2>1, SubSeqProperties DEF UpTo
  <2>3. \A i \in 1 .. n : (u \o r)[i] = u[i]
    BY <1>2, LenProperties
  <2>4. QED
    BY <1>1, <2>2, <2>3, SeqEqual
<1>4. \A i \in 1 .. Len(r) : (u \o r)[n + i] = r[i]
  BY <1>2, LenProperties
<1>5. QED
  BY <1>2, <1>3, <1>4

\* The records of an index: the last of them behind its first file mark.
LEMMA IndexRecords ==
  /\ <<"fm", "ix", "fm">> \in Seq(Rec) /\ Len(<<"fm", "ix", "fm">>) = 3
  /\ <<"data">> \in Seq(Rec) /\ Len(<<"data">>) = 1
  BY DEF Rec

\* An index that has been written is found as the last one.
LEMMA IndexFound ==
  ASSUME NEW s \in Seq(Rec), NEW n \in Nat, Len(s) = n + 3,
         s[n + 1] = "fm", s[n + 2] = "ix", s[n + 3] = "fm"
  PROVE  s # <<>> /\ s[Len(s)] = "fm" /\ BehindFm(s, Len(s) - 1) = Base + n + 1
<1> DEFINE fms == {i \in 1 .. Len(s) - 1 : s[i] = "fm"}
<1>1. n + 1 \in fms /\ \A j \in fms : j <= n + 1
  <2>1. n + 1 \in fms
    OBVIOUS
  <2>2. ASSUME NEW j \in fms PROVE j <= n + 1
    <3>1. j \in 1 .. n + 2 /\ s[j] = "fm"
      OBVIOUS
    <3>2. j # n + 2
      BY <3>1
    <3>3. QED
      BY <3>1, <3>2
  <2>3. QED
    BY <2>1, <2>2
<1>2. \A i \in fms : (\A j \in fms : j <= i) => i = n + 1
  BY <1>1
<1>3. (CHOOSE i \in fms : \A j \in fms : j <= i) = n + 1
  BY <1>1, <1>2
<1>4. BehindFm(s, Len(s) - 1) = Base + n + 1
  BY <1>1, <1>3 DEF BehindFm, Base
<1>5. QED
  BY <1>4, EmptySeq

\* What is added behind the records changes nothing before it, and where they end
\* in an index it only goes unnoticed if it is nothing.
LEMMA GrownKeeps ==
  ASSUME NEW s \in Seq(Rec), NEW c \in Grown(s)
  PROVE  /\ c \in Seq(Rec)
         /\ \A n \in Int : n <= Len(s) => UpTo(c, n) = UpTo(s, n)
         /\ c # s /\ c[Len(c)] = "fm" => BehindFm(c, Len(c) - 1) = Base + Len(s) + 1
<1>1. CASE c = s
  BY <1>1
<1>2. ASSUME NEW r \in {<<"data">>, <<"fm", "ix", "fm">>}, c = s \o r
      PROVE  /\ c \in Seq(Rec) /\ Len(c) = Len(s) + Len(r)
             /\ \A i \in 1 .. Len(r) : c[Len(s) + i] = r[i]
             /\ \A n \in Int : n <= Len(s) => UpTo(c, n) = UpTo(s, n)
  <2>1. r \in Seq(Rec)
    BY IndexRecords
  <2>2. /\ c \in Seq(Rec) /\ Len(c) = Len(s) + Len(r)
        /\ \A i \in 1 .. Len(s) + Len(r) : c[i] = IF i <= Len(s) THEN s[i] ELSE r[i - Len(s)]
    BY <1>2, <2>1, ConcatProperties, Zenon
  <2>3. ASSUME NEW n \in Int, n <= Len(s) PROVE UpTo(c, n) = UpTo(s, n)
    <3>1. CASE n < 1
      BY <3>1, SubSeqEmpty DEF UpTo
    <3>2. CASE n >= 1
      BY <1>2, <2>1, <2>3, <3>2, SubSeqOfConcat1, LenProperties DEF UpTo
    <3>3. QED
      BY <3>1, <3>2
  <2>4. QED
    BY <2>1, <2>2, <2>3, LenProperties
<1>3. CASE c = s \o <<"data">>
  <2>1. c \in Seq(Rec) /\ Len(c) = Len(s) + 1 /\ c[Len(s) + 1] = "data"
        /\ \A n \in Int : n <= Len(s) => UpTo(c, n) = UpTo(s, n)
    BY <1>2, <1>3
  <2>2. QED
    BY <2>1
<1>4. CASE c = s \o <<"fm", "ix", "fm">>
  <2>1. /\ c \in Seq(Rec) /\ Len(c) = Len(s) + 3
        /\ c[Len(s) + 1] = "fm" /\ c[Len(s) + 2] = "ix" /\ c[Len(s) + 3] = "fm"
        /\ \A n \in Int : n <= Len(s) => UpTo(c, n) = UpTo(s, n)
    BY <1>2, <1>4
  <2>2. QED
    BY <2>1, IndexFound, LenProperties
<1>5. QED
  BY <1>1, <1>3, <1>4 DEF Grown

\* The same as one operator, for the proofs about the volume.
Over(s, n, r) == UpTo(s, n) \o r
IndexRecs == <<"fm", "ix", "fm">>
LEMMA OverRecords ==
  ASSUME NEW s \in Records, NEW n \in Int, 0 <= n, n <= Len(s), NEW r \in Records
  PROVE  /\ Over(s, n, r) \in Records
         /\ Len(Over(s, n, r)) = n + Len(r) /\ Len(s) \in Nat /\ Len(r) \in Nat
         /\ UpTo(Over(s, n, r), n) = UpTo(s, n)
<1>1. n \in 0 .. Len(s) /\ Len(s) \in Nat /\ Len(r) \in Nat
  BY LenProperties DEF Records
<1>2. QED
  BY <1>1, CutAndPut DEF Over, Records

LEMMA OverIndex ==
  ASSUME NEW s \in Records, NEW n \in Int, 0 <= n, n <= Len(s)
  PROVE  /\ Over(s, n, IndexRecs) \in Records
         /\ Len(Over(s, n, IndexRecs)) = n + 3
         /\ Over(s, n, IndexRecs) # <<>>
         /\ Over(s, n, IndexRecs)[n + 3] = "fm"
         /\ BehindFm(Over(s, n, IndexRecs), n + 2) = Base + n + 1
<1> DEFINE d == Over(s, n, IndexRecs)
<1>1. n \in 0 .. Len(s) /\ IndexRecs \in Seq(Rec) /\ Len(IndexRecs) = 3 /\ s \in Seq(Rec)
  BY LenProperties, IndexRecords DEF Records, IndexRecs
<1>2. /\ d \in Seq(Rec) /\ Len(d) = n + 3
      /\ \A i \in 1 .. 3 : d[n + i] = IndexRecs[i]
  <2> DEFINE r == IndexRecs
  <2>1. n \in 0 .. Len(s) /\ s \in Seq(Rec)
    BY <1>1
  <2>2. r \in Seq(Rec) /\ Len(r) = 3
    BY <1>1
  <2> HIDE DEF r
  <2>3. /\ UpTo(s, n) \o r \in Seq(Rec) /\ Len(UpTo(s, n) \o r) = n + Len(r)
        /\ \A i \in 1 .. Len(r) : (UpTo(s, n) \o r)[n + i] = r[i]
    BY <2>1, <2>2, CutAndPut
  <2>4. QED
    BY <2>2, <2>3 DEF Over, r
<1> HIDE DEF d
<1>3. d[n + 1] = "fm" /\ d[n + 2] = "ix" /\ d[n + 3] = "fm"
  <2>1. d[n + 1] = IndexRecs[1] /\ d[n + 2] = IndexRecs[2] /\ d[n + 3] = IndexRecs[3]
    BY <1>2
  <2>2. QED
    BY <2>1 DEF IndexRecs
<1>4. d # <<>> /\ d[Len(d)] = "fm" /\ BehindFm(d, Len(d) - 1) = Base + n + 1
  BY <1>2, <1>3, IndexFound
<1>5. QED
  BY <1>2, <1>3, <1>4 DEF d, Records

\* Writing at a place within the records of a partition.
LEMMA PutRecords ==
  ASSUME NEW c \in Tapes, NEW p \in Part, NEW at \in Int, Base <= at, at <= EodAt(c, p), NEW r \in Records
  PROVE  /\ Put(c, p, at, r) \in Tapes
         /\ Put(c, p, at, r).recs[p] = Over(c.recs[p], at - Base, r)
         /\ EodAt(Put(c, p, at, r), p) = at + Len(r)
         /\ \A q \in Part : q # p => Put(c, p, at, r).recs[q] = c.recs[q]
<1>1. c.recs[p] \in Records /\ at - Base \in Int /\ 0 <= at - Base /\ at - Base <= Len(c.recs[p])
  BY LenProperties DEF Tapes, EodAt, Base, Records
<1>2. /\ Over(c.recs[p], at - Base, r) \in Records
      /\ Len(Over(c.recs[p], at - Base, r)) = at - Base + Len(r) /\ Len(r) \in Nat
  BY <1>1, OverRecords
<1>3. Put(c, p, at, r) = [c EXCEPT !.recs = [c.recs EXCEPT ![p] = Over(c.recs[p], at - Base, r)]]
  BY DEF Put, UpTo, Over
<1>4. [c.recs EXCEPT ![p] = Over(c.recs[p], at - Base, r)] \in [Part -> Records] /\ c.recs \in [Part -> Records]
  BY <1>2 DEF Tapes
<1>5. /\ Put(c, p, at, r) \in Tapes
      /\ Put(c, p, at, r).recs = [c.recs EXCEPT ![p] = Over(c.recs[p], at - Base, r)]
  BY <1>3, <1>4 DEF Tapes
<1>6. QED
  BY <1>2, <1>4, <1>5 DEF EodAt, Base

LEMMA PutIndex ==
  ASSUME NEW c \in Tapes, NEW p \in Part, NEW at \in Int, Base <= at, at <= EodAt(c, p)
  PROVE  /\ Put(c, p, at, IndexRecs) \in Tapes
         /\ EodAt(Put(c, p, at, IndexRecs), p) = at + 3
         /\ LastIndexIs(Put(c, p, at, IndexRecs), p, at + 1)
         /\ \A q \in Part : q # p => Put(c, p, at, IndexRecs).recs[q] = c.recs[q]
<1> DEFINE d == Put(c, p, at, IndexRecs)
<1>1. IndexRecs \in Records /\ Len(IndexRecs) = 3
  BY IndexRecords DEF IndexRecs, Records
<1>2. /\ d \in Tapes /\ d.recs[p] = Over(c.recs[p], at - Base, IndexRecs)
      /\ EodAt(d, p) = at + 3 /\ \A q \in Part : q # p => d.recs[q] = c.recs[q]
  <2>1. IndexRecs \in Records /\ at + Len(IndexRecs) = at + 3
    BY <1>1
  <2>2. QED
    BY <2>1, PutRecords, ZenonT(40)
<1> HIDE DEF d
<1>3. c.recs[p] \in Records /\ at - Base \in Int /\ 0 <= at - Base /\ at - Base <= Len(c.recs[p])
  BY LenProperties DEF Tapes, EodAt, Base, Records
<1>4. /\ Len(d.recs[p]) = at - Base + 3 /\ d.recs[p] # <<>> /\ d.recs[p][at - Base + 3] = "fm"
      /\ BehindFm(d.recs[p], at - Base + 2) = Base + (at - Base) + 1
  BY <1>2, <1>3, OverIndex
<1>5. LastIndexIs(d, p, at + 1)
  BY <1>2, <1>4 DEF LastIndexIs, EndsInIndex, LastIndexAt, Base
<1>6. QED
  BY <1>2, <1>5 DEF d

LEMMA DestWithin ==
  ASSUME NEW v, NEW c, KnowsTape(v, c), NEW p \in Part
  PROVE  /\ c \in Tapes /\ Dest(v, c, p) \in Int /\ EodAt(c, p) \in Int
         /\ Base <= Dest(v, c, p) /\ Dest(v, c, p) <= EodAt(c, p)
<1>1. Len(c.recs[p]) \in Nat
  BY LenProperties DEF KnowsTape, Tapes, Records
<1>2. QED
  BY <1>1 DEF KnowsTape, Volumes, Dest, EodAt, Base

\* A partition that has not been touched ends as it did.
LEMMA LastIndexKept ==
  ASSUME NEW c, NEW d, NEW q \in Part, d.recs[q] = c.recs[q]
  PROVE  /\ EodAt(d, q) = EodAt(c, q)
         /\ \A b : LastIndexIs(c, q, b) => LastIndexIs(d, q, b)
  BY DEF LastIndexIs, EndsInIndex, LastIndexAt, EodAt

\* ltfs_write_index to one partition leaves the volume with a partition that ends
\* in an index, which it knows.
IndexLeft(v, p, at, x) ==
  /\ x \in Volumes
  /\ x.app = [v.app EXCEPT ![p] = IF p = "ip" THEN at ELSE at + 3]
  /\ x.ends = [v.ends EXCEPT ![p] = TRUE]
  /\ x.self = [part |-> p, block |-> at + 1]
  /\ x.back = IF v.self.part = "dp" THEN v.self ELSE v.back

LEMMA IndexKnown ==
  ASSUME NEW v, NEW c, KnowsTape(v, c), NEW p \in Part, NEW at \in Int, Base <= at,
         NEW x, IndexLeft(v, p, at, x), NEW d \in Tapes,
         EodAt(d, p) = at + 3, LastIndexIs(d, p, at + 1),
         \A q \in Part : q # p => d.recs[q] = c.recs[q]
  PROVE  KnowsTape(x, d)
<1>1. /\ v.app \in [Part -> Int] /\ v.ends \in [Part -> BOOLEAN]
      /\ x.app = [v.app EXCEPT ![p] = IF p = "ip" THEN at ELSE at + 3]
      /\ x.ends = [v.ends EXCEPT ![p] = TRUE]
  BY DEF KnowsTape, Volumes, IndexLeft
<1>2. \A q \in Part : x.app[q] = 0 \/ x.app[q] \in Base .. EodAt(d, q)
  <2>1. x.app[p] \in Base .. EodAt(d, p)
    BY <1>1 DEF Base
  <2>2. ASSUME NEW q \in Part, q # p PROVE x.app[q] = v.app[q] /\ EodAt(d, q) = EodAt(c, q)
    BY <1>1, <2>2, LastIndexKept
  <2>3. QED
    BY <2>1, <2>2 DEF KnowsTape
<1>3. x.ends["dp"] => LastIndexIs(d, "dp", DataIndex(x))
  <2>1. CASE p = "dp"
    BY <2>1 DEF DataIndex, IndexLeft
  <2>2. CASE p = "ip"
    <3>1. DataIndex(x) = DataIndex(v)
      BY <2>2 DEF DataIndex, IndexLeft
    <3>2. (x.ends["dp"] => v.ends["dp"]) /\ d.recs["dp"] = c.recs["dp"] /\ "dp" \in Part
      BY <1>1, <2>2 DEF Part
    <3>3. QED
      BY <3>1, <3>2, LastIndexKept DEF KnowsTape
  <2>3. QED
    BY <2>1, <2>2 DEF Part
<1>4. x.ends["ip"] => LastIndexIs(d, "ip", x.app["ip"] + 1)
  <2>1. CASE p = "ip"
    <3>1. x.app["ip"] = at
      BY <1>1, <2>1 DEF Part
    <3>2. QED
      BY <2>1, <3>1
  <2>2. CASE p = "dp"
    <3>1. x.app["ip"] = v.app["ip"] /\ (x.ends["ip"] => v.ends["ip"]) /\ d.recs["ip"] = c.recs["ip"] /\ "ip" \in Part
      BY <1>1, <2>2 DEF Part
    <3>2. QED
      BY <3>1, LastIndexKept DEF KnowsTape
  <2>3. QED
    BY <2>1, <2>2 DEF Part
<1>5. QED
  BY <1>2, <1>3, <1>4 DEF KnowsTape, IndexLeft

\* ltfs_write_index to one partition.
LEMMA OneIndexKnows ==
  ASSUME NEW v, NEW c, KnowsTape(v, c), NEW p \in Part, writes \in Nat
  PROVE  KnowsTape(OneIndex(v, c, p)[1], OneIndex(v, c, p)[2])
<1> DEFINE at == Dest(v, c, p)
           d == Put(c, p, at, IndexRecs)
           w == [v EXCEPT !.back = IF v.self.part = "dp" THEN v.self ELSE @,
                          !.self = [part |-> p, block |-> at + 1], !.ends[p] = TRUE, !.dirty = FALSE,
                          !.app[p] = IF p = "ip" THEN at ELSE EodAt(d, p)]
           coh == [q \in Part |-> IF w.ends[q] THEN writes + 1 ELSE c.coh[q]]
           x == [w EXCEPT !.coh = coh]
           y == [d EXCEPT !.coh = coh]
<1>1. OneIndex(v, c, p) = <<x, y>>
  BY DEF OneIndex, IndexRecs
<1>2. /\ v \in Volumes /\ c \in Tapes /\ at \in Int /\ Base <= at /\ at <= EodAt(c, p)
  BY DestWithin DEF KnowsTape
<1> HIDE DEF at
<1>3. /\ d \in Tapes /\ EodAt(d, p) = at + 3 /\ LastIndexIs(d, p, at + 1)
      /\ \A q \in Part : q # p => d.recs[q] = c.recs[q]
  BY <1>2, PutIndex
<1> HIDE DEF d
<1>4. IndexLeft(v, p, at, w)
  <2>1. /\ v.app \in [Part -> Int] /\ v.ends \in [Part -> BOOLEAN] /\ v.self \in Place /\ v.back \in Place
        /\ v.coh \in [Part -> Int]
    BY <1>2 DEF Volumes
  <2>2. /\ w.app = [v.app EXCEPT ![p] = IF p = "ip" THEN at ELSE at + 3]
        /\ w.ends = [v.ends EXCEPT ![p] = TRUE]
        /\ w.self = [part |-> p, block |-> at + 1]
        /\ w.back = IF v.self.part = "dp" THEN v.self ELSE v.back
        /\ w.dirty = FALSE /\ w.coh = v.coh
    BY <1>2, <1>3 DEF Volumes
  <2>3. /\ w.app \in [Part -> Int] /\ w.ends \in [Part -> BOOLEAN] /\ w.self \in Place /\ w.back \in Place
    BY <1>2, <2>1, <2>2 DEF Place
  <2>4. w \in Volumes
    BY <1>2, <2>1, <2>2, <2>3 DEF Volumes
  <2>5. QED
    BY <2>2, <2>4 DEF IndexLeft
<1> HIDE DEF w
<1>5. coh \in [Part -> Int]
  <2>1. c.coh \in [Part -> Int] /\ writes + 1 \in Int
    BY <1>2 DEF Tapes
  <2>2. QED
    BY <2>1
<1> HIDE DEF coh
<1>6. IndexLeft(v, p, at, x) /\ y \in Tapes /\ y.recs = d.recs
  BY <1>3, <1>4, <1>5 DEF Volumes, Tapes, IndexLeft
<1> HIDE DEF x, y
<1>7. EodAt(y, p) = at + 3 /\ LastIndexIs(y, p, at + 1)
  BY <1>3, <1>6, LastIndexKept
<1>8. KnowsTape(x, y)
  BY <1>2, <1>3, <1>6, <1>7, IndexKnown
<1>9. QED
  BY <1>1, <1>8

LEMMA WriteIndexKnows ==
  ASSUME NEW v, NEW c, KnowsTape(v, c), NEW p \in Part, writes \in Nat
  PROVE  KnowsTape(WriteIndex(v, c, p)[1], WriteIndex(v, c, p)[2])
<1> DEFINE x == OneIndex(v, c, "dp")
<1>1. KnowsTape(x[1], x[2]) /\ "ip" \in Part
  BY OneIndexKnows DEF Part
<1>2. KnowsTape(OneIndex(x[1], x[2], "ip")[1], OneIndex(x[1], x[2], "ip")[2])
  BY <1>1, OneIndexKnows
<1>3. KnowsTape(OneIndex(v, c, p)[1], OneIndex(v, c, p)[2])
  BY OneIndexKnows
<1>4. WriteIndex(v, c, p) \in {OneIndex(v, c, p), OneIndex(x[1], x[2], "ip")}
  BY DEF WriteIndex
<1>5. QED
  BY <1>2, <1>3, <1>4

\* The partition to be written to no longer ends in an index.
LEMMA OpenedKnows ==
  ASSUME NEW v, NEW c, KnowsTape(v, c), NEW p \in Part, writes \in Nat
  PROVE  /\ KnowsTape(Opened(v, c, p)[1], Opened(v, c, p)[2])
         /\ ~Opened(v, c, p)[1].ends[p]
<1> DEFINE x == IndexFirst(v, c, p)
           w == [x[1] EXCEPT !.ends[p] = FALSE]
<1>1. KnowsTape(x[1], x[2])
  <2>1. x \in {WriteIndex(v, c, "ip"), WriteIndex(v, c, "dp"), <<v, c>>}
    BY DEF IndexFirst
  <2>2. /\ KnowsTape(WriteIndex(v, c, "ip")[1], WriteIndex(v, c, "ip")[2])
        /\ KnowsTape(WriteIndex(v, c, "dp")[1], WriteIndex(v, c, "dp")[2])
    BY WriteIndexKnows DEF Part
  <2>3. QED
    BY <2>1, <2>2
<1>2. Opened(v, c, p) = <<w, x[2]>>
  BY DEF Opened
<1> HIDE DEF x
<1>3. /\ w \in Volumes /\ w.app = x[1].app /\ w.ends = [x[1].ends EXCEPT ![p] = FALSE]
      /\ DataIndex(w) = DataIndex(x[1])
  BY <1>1 DEF KnowsTape, Volumes, DataIndex
<1>4. x[1].ends \in [Part -> BOOLEAN]
  BY <1>1 DEF KnowsTape, Volumes
<1>5. ~w.ends[p] /\ \A q \in Part : w.ends[q] => x[1].ends[q]
  BY <1>3, <1>4
<1> HIDE DEF w
<1>6. KnowsTape(w, x[2])
  BY <1>1, <1>3, <1>5 DEF KnowsTape, Part
<1>7. QED
  BY <1>2, <1>5, <1>6

\* What is there, up to where the volume goes on, when the last write was lost: the
\* records of a partition that ends in an index, all of the others to the append
\* position.
Below(v, k, d) ==
  \A p \in Part : IF v.ends[p] THEN d.recs[p] = k.recs[p]
                  ELSE /\ UpTo(d.recs[p], v.app[p] - Base) = UpTo(k.recs[p], v.app[p] - Base)
                       /\ v.app[p] - Base <= Len(d.recs[p])

LEMMA KnownIsBelow ==
  ASSUME NEW v, NEW c, KnowsTape(v, c)
  PROVE  c \in Tapes /\ Below(v, c, c)
<1>1. ASSUME NEW p \in Part PROVE v.app[p] - Base <= Len(c.recs[p])
  <2>1. Len(c.recs[p]) \in Nat /\ (v.app[p] = 0 \/ v.app[p] \in Base .. EodAt(c, p)) /\ v.app[p] \in Int
    BY LenProperties DEF KnowsTape, Tapes, Records, Volumes
  <2>2. QED
    BY <2>1 DEF EodAt, Base
<1>2. QED
  BY <1>1 DEF Below, KnowsTape

\* A write to a partition that does not end in an index goes behind what it knows.
LEMMA WriteDataKnows ==
  ASSUME NEW x, NEW y, KnowsTape(x, y), NEW p \in Part, ~x.ends[p]
  PROVE  /\ KnowsTape(WriteData(x, y, p)[1], WriteData(x, y, p)[2])
         /\ WriteData(x, y, p)[2] \in Tapes
         /\ Below(x, y, WriteData(x, y, p)[2])
<1> DEFINE at == Dest(x, y, p)
           r == <<"data">>
           d == Put(y, p, at, r)
           w == [x EXCEPT !.app[p] = EodAt(d, p), !.dirty = TRUE]
<1>1. WriteData(x, y, p) = <<w, d>>
  BY DEF WriteData
<1>2. KnowsTape(x, y) /\ ~x.ends[p]
  OBVIOUS
<1>3. /\ y \in Tapes /\ at \in Int /\ Base <= at /\ at <= EodAt(y, p) /\ EodAt(y, p) \in Int
      /\ (x.app[p] = 0 \/ at = x.app[p]) /\ x.app[p] \in Int
  BY <1>2, DestWithin DEF Dest, KnowsTape, Volumes
<1>4. r \in Records /\ Len(r) = 1
  BY IndexRecords DEF Records
<1> HIDE DEF at, r
<1>5. /\ d \in Tapes /\ d.recs[p] = Over(y.recs[p], at - Base, r)
      /\ EodAt(d, p) = at + Len(r)
      /\ \A q \in Part : q # p => d.recs[q] = y.recs[q]
  BY <1>3, <1>4, PutRecords
<1> HIDE DEF d
<1>6. /\ w \in Volumes /\ w.app = [x.app EXCEPT ![p] = EodAt(d, p)] /\ w.ends = x.ends
      /\ DataIndex(w) = DataIndex(x)
  <2>1. x \in Volumes /\ EodAt(d, p) \in Int
    BY <1>2, <1>3, <1>4, <1>5 DEF KnowsTape
  <2>2. QED
    BY <2>1 DEF Volumes, DataIndex
<1>7. x.app \in [Part -> Int]
  BY <1>2 DEF KnowsTape, Volumes
<1> HIDE DEF w
<1>8. KnowsTape(w, d)
  <2>1. w.app[p] \in Base .. EodAt(d, p)
    BY <1>3, <1>4, <1>5, <1>6, <1>7 DEF Base
  <2>2. ASSUME NEW q \in Part, q # p
        PROVE  w.app[q] = x.app[q] /\ EodAt(d, q) = EodAt(y, q) /\ \A b : LastIndexIs(y, q, b) => LastIndexIs(d, q, b)
    BY <1>5, <1>6, <1>7, <2>2, LastIndexKept
  <2>3. \A q \in Part : w.app[q] = 0 \/ w.app[q] \in Base .. EodAt(d, q)
    BY <1>2, <2>1, <2>2 DEF KnowsTape
  <2>4. w.ends["dp"] => LastIndexIs(d, "dp", DataIndex(w))
    <3>1. w.ends["dp"] => "dp" # p /\ "dp" \in Part
      BY <1>2, <1>6 DEF Part
    <3>2. QED
      BY <1>2, <1>6, <2>2, <3>1 DEF KnowsTape
  <2>5. w.ends["ip"] => LastIndexIs(d, "ip", w.app["ip"] + 1)
    <3>1. w.ends["ip"] => "ip" # p /\ "ip" \in Part
      BY <1>2, <1>6 DEF Part
    <3>2. QED
      BY <1>2, <1>6, <2>2, <3>1 DEF KnowsTape
  <2>6. QED
    BY <1>5, <1>6, <2>3, <2>4, <2>5 DEF KnowsTape
<1>9. Below(x, y, d)
  <2>1. Below(x, y, y)
    BY <1>2, KnownIsBelow
  <2>2. UpTo(d.recs[p], x.app[p] - Base) = UpTo(y.recs[p], x.app[p] - Base) /\ x.app[p] - Base <= Len(d.recs[p])
    <3>1. y.recs[p] \in Records /\ at - Base \in Int /\ 0 <= at - Base /\ at - Base <= Len(y.recs[p])
      BY <1>3, LenProperties DEF Tapes, EodAt, Base, Records
    <3>2. /\ d.recs[p] \in Records /\ Len(d.recs[p]) = at - Base + Len(r)
          /\ UpTo(d.recs[p], at - Base) = UpTo(y.recs[p], at - Base)
      BY <1>4, <1>5, <3>1, OverRecords, ZenonT(60)
    <3>3. CASE at = x.app[p]
      BY <1>3, <1>4, <3>2, <3>3 DEF Base
    <3>4. CASE x.app[p] = 0
      <4>1. UpTo(d.recs[p], 0 - Base) = <<>> /\ UpTo(y.recs[p], 0 - Base) = <<>>
        BY <3>1, <3>2, SubSeqEmpty DEF UpTo, Base, Records
      <4>2. QED
        BY <1>3, <1>4, <3>1, <3>2, <3>4, <4>1 DEF Base
    <3>5. QED
      BY <1>3, <3>3, <3>4
  <2>3. QED
    BY <1>2, <1>5, <2>1, <2>2 DEF Below
<1>10. QED
  BY <1>1, <1>5, <1>8, <1>9

-----------------------------------------------------------------------------
(* What a reset leaves, and what a revalidation that passes has found.      *)

\* Another host only adds to the end of a partition.
LEMMA ElsewhereGrows ==
  ASSUME NEW d \in Tapes, NEW c \in Elsewhere(d)
  PROVE  c \in Tapes /\ \A q \in Part : d.recs[q] \in Records /\ c.recs[q] \in Grown(d.recs[q])
<1>1. \A q \in Part : d.recs[q] \in Records /\ d.recs[q] \in Grown(d.recs[q])
  BY DEF Tapes, Grown
<1>2. ASSUME NEW p \in Part, NEW r \in {<<"data">>, IndexRecs}
      PROVE  /\ Put(d, p, EodAt(d, p), r) \in Tapes
             /\ \A q \in Part : Put(d, p, EodAt(d, p), r).recs[q] \in Grown(d.recs[q])
  <2> DEFINE e == Put(d, p, EodAt(d, p), r)
  <2>1. /\ EodAt(d, p) \in Int /\ Base <= EodAt(d, p) /\ EodAt(d, p) - Base = Len(d.recs[p])
        /\ Len(d.recs[p]) \in Nat
    BY <1>1, LenProperties DEF EodAt, Base, Records
  <2>2. r \in Records
    BY IndexRecords DEF Records, IndexRecs
  <2>3. /\ e \in Tapes /\ e.recs[p] = Over(d.recs[p], Len(d.recs[p]), r)
        /\ \A q \in Part : q # p => e.recs[q] = d.recs[q]
    <3>1. EodAt(d, p) <= EodAt(d, p)
      BY <2>1
    <3>2. QED
      BY <2>1, <2>2, <3>1, PutRecords
  <2> HIDE DEF e
  <2>4. UpTo(d.recs[p], Len(d.recs[p])) = d.recs[p]
    BY <1>1, SubSeqFull DEF UpTo, Records
  <2>5. e.recs[p] = d.recs[p] \o r
    BY <2>3, <2>4 DEF Over
  <2>6. e.recs[p] \in Grown(d.recs[p])
    BY <2>5 DEF Grown, IndexRecs
  <2>7. QED
    BY <1>1, <2>3, <2>6 DEF e
<1>3. /\ "dp" \in Part /\ "ip" \in Part
      /\ \A e \in Tapes : [e EXCEPT !.coh["dp"] = 100] \in Tapes /\ [e EXCEPT !.coh["dp"] = 100].recs = e.recs
      /\ [d EXCEPT !.label = "other"] \in Tapes /\ [d EXCEPT !.label = "other"].recs = d.recs
      /\ [d EXCEPT !.eod = FALSE] \in Tapes /\ [d EXCEPT !.eod = FALSE].recs = d.recs
  <2>1. ASSUME NEW e \in Tapes PROVE [e EXCEPT !.coh["dp"] = 100] \in Tapes /\ [e EXCEPT !.coh["dp"] = 100].recs = e.recs
    <3>1. [e.coh EXCEPT !["dp"] = 100] \in [Part -> Int]
      <4> DEFINE f == e.coh
      <4>1. f \in [Part -> Int] /\ 100 \in Int
        BY DEF Tapes
      <4> HIDE DEF f
      <4>2. [f EXCEPT !["dp"] = 100] \in [Part -> Int]
        BY <4>1
      <4>3. QED
        BY <4>2 DEF f
    <3>2. QED
      BY <3>1 DEF Tapes
  <2>2. [d EXCEPT !.label = "other"] \in Tapes /\ [d EXCEPT !.label = "other"].recs = d.recs
    BY DEF Tapes
  <2>3. [d EXCEPT !.eod = FALSE] \in Tapes /\ [d EXCEPT !.eod = FALSE].recs = d.recs
    BY DEF Tapes
  <2>4. QED
    BY <2>1, <2>2, <2>3 DEF Part
<1>4. c \in {d, [d EXCEPT !.label = "other"], [d EXCEPT !.eod = FALSE],
             Put(d, "dp", EodAt(d, "dp"), <<"data">>), Put(d, "ip", EodAt(d, "ip"), <<"data">>),
             [Put(d, "dp", EodAt(d, "dp"), IndexRecs) EXCEPT !.coh["dp"] = 100],
             Put(d, "dp", EodAt(d, "dp"), IndexRecs)}
  BY DEF Elsewhere, IndexRecs
<1>5. /\ Put(d, "dp", EodAt(d, "dp"), <<"data">>) \in Tapes /\ Put(d, "ip", EodAt(d, "ip"), <<"data">>) \in Tapes
      /\ Put(d, "dp", EodAt(d, "dp"), IndexRecs) \in Tapes
      /\ \A q \in Part : /\ Put(d, "dp", EodAt(d, "dp"), <<"data">>).recs[q] \in Grown(d.recs[q])
                         /\ Put(d, "ip", EodAt(d, "ip"), <<"data">>).recs[q] \in Grown(d.recs[q])
                         /\ Put(d, "dp", EodAt(d, "dp"), IndexRecs).recs[q] \in Grown(d.recs[q])
  BY <1>2, <1>3
<1>6. QED
  BY <1>1, <1>3, <1>4, <1>5

LEMMA ElsewhereStill ==
  ASSUME NEW v \in Volumes, NEW k, NEW d \in Tapes, Below(v, k, d), NEW c \in Elsewhere(d)
  PROVE  c \in Tapes /\ StillThere(v, k, c)
<1>1. ASSUME NEW p \in Part, ~v.ends[p]
      PROVE  UpTo(c.recs[p], v.app[p] - Base) = UpTo(k.recs[p], v.app[p] - Base)
  <2>1. /\ UpTo(d.recs[p], v.app[p] - Base) = UpTo(k.recs[p], v.app[p] - Base)
        /\ v.app[p] - Base <= Len(d.recs[p]) /\ v.app[p] - Base \in Int
    BY <1>1 DEF Below, Volumes, Base
  <2>2. d.recs[p] \in Seq(Rec) /\ c.recs[p] \in Grown(d.recs[p])
    BY ElsewhereGrows DEF Records
  <2>3. \A n \in Int : n <= Len(d.recs[p]) => UpTo(c.recs[p], n) = UpTo(d.recs[p], n)
    BY <2>2, GrownKeeps
  <2>4. QED
    BY <2>1, <2>3
<1>2. QED
  BY <1>1, ElsewhereGrows DEF StillThere, Below

\* The checks of ltfs_revalidate tell the cartridge as it was left from all that a
\* reset may have left.
LEMMA CheckIsEnough ==
  ASSUME NEW v, NEW k, KnowsTape(v, k), NEW c \in Tapes, StillThere(v, k, c), CheckVolume(v, c)
  PROVE  KnowsTape(v, c) /\ AsKnown(v, k, c) /\ c.label = "ours" /\ c.eod
<1>1. ASSUME NEW p \in Part, v.ends[p], c.recs[p] # k.recs[p], EndsInIndex(c, p)
      PROVE  LastIndexAt(c, p) = EodAt(k, p) + 1
  <2>1. k.recs[p] \in Seq(Rec) /\ c.recs[p] \in Grown(k.recs[p])
    BY <1>1 DEF KnowsTape, StillThere, Tapes, Records
  <2>2. BehindFm(c.recs[p], Len(c.recs[p]) - 1) = Base + Len(k.recs[p]) + 1
    BY <1>1, <2>1, GrownKeeps DEF EndsInIndex
  <2>3. QED
    BY <2>2 DEF LastIndexAt, EodAt
<1>2. \A p \in Part : EodAt(k, p) \in Int /\ EodAt(c, p) \in Int
  BY LenProperties DEF KnowsTape, Tapes, Records, EodAt, Base
<1>3. v.app \in [Part -> Int] /\ "dp" \in Part /\ "ip" \in Part
  BY DEF KnowsTape, Volumes, Part
<1>4. v.ends["dp"] => c.recs["dp"] = k.recs["dp"]
  <2>1. SUFFICES ASSUME v.ends["dp"], c.recs["dp"] # k.recs["dp"] PROVE FALSE
    OBVIOUS
  <2>2. EndsInIndex(c, "dp") /\ DataIndex(v) = LastIndexAt(c, "dp")
    BY <2>1 DEF CheckVolume, DataEndKnown, DataIndex
  <2>3. LastIndexAt(c, "dp") = EodAt(k, "dp") + 1
    BY <1>1, <1>3, <2>1, <2>2
  <2>4. DataIndex(v) < EodAt(k, "dp")
    BY <2>1 DEF KnowsTape, LastIndexIs
  <2>5. QED
    BY <1>2, <1>3, <2>2, <2>3, <2>4
<1>5. v.ends["ip"] => c.recs["ip"] = k.recs["ip"]
  <2>1. SUFFICES ASSUME v.ends["ip"], c.recs["ip"] # k.recs["ip"] PROVE FALSE
    OBVIOUS
  <2>2. EndsInIndex(c, "ip") /\ v.app["ip"] \in {0, LastIndexAt(c, "ip") - 1}
    BY <2>1 DEF CheckVolume, IndexEndKnown
  <2>3. LastIndexAt(c, "ip") = EodAt(k, "ip") + 1
    BY <1>1, <1>3, <2>1, <2>2
  <2>4. v.app["ip"] + 1 < EodAt(k, "ip") /\ Base <= v.app["ip"] + 1
    BY <2>1 DEF KnowsTape, LastIndexIs
  <2>5. QED
    BY <1>2, <1>3, <2>2, <2>3, <2>4 DEF Base
<1>6. AsKnown(v, k, c)
  BY <1>4, <1>5 DEF AsKnown, StillThere, Part
<1>7. ASSUME NEW p \in Part PROVE v.app[p] = 0 \/ v.app[p] \in Base .. EodAt(c, p)
  <2>1. CASE v.ends[p]
    <3>1. c.recs[p] = k.recs[p]
      BY <1>4, <1>5, <2>1 DEF Part
    <3>2. QED
      BY <3>1, LastIndexKept DEF KnowsTape
  <2>2. CASE ~v.ends[p]
    <3>1. v.app[p] \in {0, EodAt(c, p), EodAt(c, p) - 1}
      BY <2>2 DEF CheckVolume, DataEndKnown, IndexEndKnown, Part
    <3>2. v.app[p] = 0 \/ v.app[p] >= Base
      BY <1>2 DEF KnowsTape, Base
    <3>3. QED
      BY <1>2, <1>3, <3>1, <3>2 DEF Base
  <2>3. QED
    BY <2>1, <2>2
<1>8. /\ v.ends["dp"] => LastIndexIs(c, "dp", DataIndex(v))
      /\ v.ends["ip"] => LastIndexIs(c, "ip", v.app["ip"] + 1)
  BY <1>3, <1>4, <1>5, LastIndexKept DEF KnowsTape
<1>9. KnowsTape(v, c)
  BY <1>7, <1>8 DEF KnowsTape
<1>10. QED
  BY <1>6, <1>9 DEF CheckVolume, SameVolume

\* What a command that goes well does, and what one that is cut off leaves.
LEMMA DoneKnows ==
  ASSUME KnowsTape(vol, tape), writes \in Nat, NEW o, NEW x \in Done(o)
  PROVE  KnowsTape(x[1], x[2])
<1>1. /\ \A p \in OpenParts : KnowsTape(WriteData(vol, tape, p)[1], WriteData(vol, tape, p)[2])
      /\ \A p \in Part : KnowsTape(WriteIndex(vol, tape, p)[1], WriteIndex(vol, tape, p)[2])
  BY WriteDataKnows, WriteIndexKnows DEF OpenParts
<1>2. SyncPart(vol) \in Part /\ "ip" \in Part
  BY DEF SyncPart, Part
<1>3. \/ \E p \in OpenParts : x = WriteData(vol, tape, p)
      \/ x \in {WriteIndex(vol, tape, SyncPart(vol)), WriteIndex(vol, tape, "ip"), <<vol, tape>>}
  BY DEF Done
<1>4. QED
  BY <1>1, <1>2, <1>3

LEMMA CutKnows ==
  ASSUME KnowsTape(vol, tape), NEW t \in Threads, NEW x \in Cut(t)
  PROVE  KnowsTape(x[1], x[3]) /\ x[2] \in Tapes /\ Below(x[1], x[3], x[2])
<1>1. CASE x = <<vol, tape, tape>>
  BY <1>1, KnownIsBelow
<1>2. ASSUME NEW p \in OpenParts, x = <<vol, WriteData(vol, tape, p)[2], tape>>
      PROVE  KnowsTape(x[1], x[3]) /\ x[2] \in Tapes /\ Below(x[1], x[3], x[2])
  <2> DEFINE d == WriteData(vol, tape, p)[2]
  <2>1. d \in Tapes /\ Below(vol, tape, d)
    BY WriteDataKnows DEF OpenParts
  <2>2. x = <<vol, d, tape>>
    BY <1>2
  <2> HIDE DEF d
  <2>3. QED
    BY <2>1, <2>2
<1>3. QED
  BY <1>1, <1>2 DEF Cut

\* A step that leaves the cartridge and what is known of it alone.
Quiet == /\ UNCHANGED content
         /\ \A u \in Threads : /\ pc'[u] \in {"reval", "upgrade", "validate"} => pc[u] \in {"reval", "upgrade", "validate"}
                               /\ pc'[u] \in {"pass", "passed"} => pc[u] \in {"pass", "passed"}
LEMMA QuietKeeps ==
  ASSUME KnownInv, Quiet
  PROVE  KnownInv'
  BY DEF KnownInv, Quiet, content

\* A command at the drive is alone with what has been validated.
LEMMA AloneAtCommand ==
  ASSUME LockInv, NEW t \in Threads, AtCommand(t)
  PROVE  ~stale /\ \A u \in Threads : pc[u] \notin {"reval", "upgrade", "validate", "pass", "passed"}
<1>1. \A u \in Threads : pc[u] \notin Owners
  BY DEF LockInv, OneOwner
<1>2. ~stale
  BY <1>1 DEF LockInv, StaleIsKnown, AtCommand, Owners
<1>3. \A u \in Threads : pc[u] # "passed"
  <2>1. pc[t] \in Inside /\ pc[t] # "passed"
    BY DEF AtCommand, Inside
  <2>2. holds[t] # "no"
    <3>1. CASE pc[t] = "command" /\ op[t] = "write"
      BY <3>1 DEF LockInv, HoldsByPlace
    <3>2. CASE pc[t] = "device" \/ op[t] # "write"
      BY <2>1, <3>2 DEF LockInv, HoldsByPlace
    <3>3. QED
      BY <3>1, <3>2 DEF AtCommand
  <2>3. ASSUME NEW u \in Threads, pc[u] = "passed" PROVE FALSE
    <3>1. holds[u] = "w" /\ u # t
      BY <2>1, <2>3 DEF LockInv, HoldsByPlace, Validating
    <3>2. QED
      BY <2>2, <3>1 DEF LockInv, OneWriter
  <2>4. QED
    BY <2>3
<1>4. QED
  BY <1>1, <1>2, <1>3 DEF Owners

LEMMA KnownStep ==
  ASSUME Settled, LockInv, KnownInv, [Next]_vars
  PROVE  KnownInv'
<1>0. pc \in [Threads -> Outside \cup Inside \cup Validating \cup Ending] /\ \A t \in Threads : op[t] # "setattr"
  BY DEF LockInv, GateType
<1>1. CASE UNCHANGED vars
  <2>1. Quiet
    BY <1>1 DEF vars, Quiet, content
  <2>2. QED
    BY <2>1, QuietKeeps
<1>2. ASSUME NEW t \in Threads, NEW o \in Ops, Call(t, o) PROVE Quiet
  BY <1>0, <1>2 DEF Quiet, Call, Goto, content
<1>3. ASSUME NEW t \in Threads, Gate(t) \/ AcquireVolume(t) \/ Check(t) \/ DeviceLock(t) \/ Fenced(t) PROVE Quiet
  BY <1>0, <1>3 DEF Quiet, Gate, AcquireVolume, Check, DeviceLock, Fenced, Goto, content
<1>4. ASSUME NEW t \in Threads, WaitRevalidation(t) \/ LookDirty(t) \/ CommandRemoval(t) \/ EndOp(t) PROVE Quiet
  BY <1>0, <1>4 DEF Quiet, WaitRevalidation, LookDirty, CommandRemoval, EndOp, Attribute, Goto, content
<1>5. ASSUME NEW t \in Threads, RevalStart(t) \/ RevalUpgrade(t) \/ RevalEnd(t) PROVE Quiet
  BY <1>0, <1>5 DEF Quiet, RevalStart, RevalUpgrade, RevalEnd, Goto, content
<1>6. ASSUME NEW t \in Threads, RevalRelease(t) PROVE Quiet
  <2>1. \E l \in {"again", "gaveup", "gate", "idle"} : pc' = [pc EXCEPT ![t] = l]
    BY <1>0, <1>6 DEF RevalRelease, Attribute, Goto
  <2>2. QED
    BY <1>0, <1>6, <2>1 DEF Quiet, RevalRelease, content
<1>7. ASSUME NEW t \in Threads, CommandGood(t) PROVE KnownInv'
  <2>1. ~stale /\ \A u \in Threads : pc[u] \notin {"reval", "upgrade", "validate", "pass", "passed"}
    BY <1>7, AloneAtCommand DEF CommandGood
  <2>2. stale' = stale /\ pc' = [pc EXCEPT ![t] = "release"] /\ writes' \in Nat
    BY <1>0, <1>7 DEF CommandGood, Attribute, Goto, KnownInv
  <2>3. KnowsTape(vol', tape')
    <3>1. KnowsTape(vol, tape) /\ writes \in Nat
      BY <2>1 DEF KnownInv
    <3>2. PICK x \in Done(op[t]) : vol' = x[1] /\ tape' = x[2]
      BY <1>7 DEF CommandGood
    <3>3. QED
      BY <3>1, <3>2, DoneKnows
  <2>4. \A u \in Threads : pc'[u] \notin {"reval", "upgrade", "validate", "pass", "passed"}
    BY <1>0, <2>1, <2>2
  <2>5. QED
    BY <2>1, <2>2, <2>3, <2>4 DEF KnownInv
<1>8. ASSUME NEW t \in Threads, CommandReset(t) PROVE KnownInv'
  <2>1. ~stale /\ \A u \in Threads : pc[u] \notin {"reval", "upgrade", "validate", "pass", "passed"}
    BY <1>8, AloneAtCommand DEF CommandReset, Hit
  <2>2. stale' = TRUE /\ pc' = [pc EXCEPT ![t] = "reval"] /\ writes' = writes
    BY <1>8 DEF CommandReset, Goto
  <2>3. KnowsTape(vol', known') /\ tape' \in Tapes /\ StillThere(vol', known', tape')
    <3>1. KnowsTape(vol, tape) /\ writes \in Nat
      BY <2>1 DEF KnownInv
    <3>2. PICK x \in Cut(t) : vol' = x[1] /\ known' = x[3] /\ \E c \in Elsewhere(x[2]) : tape' = c
      BY <1>8 DEF CommandReset
    <3>3. KnowsTape(x[1], x[3]) /\ x[2] \in Tapes /\ Below(x[1], x[3], x[2])
      BY <3>1, CutKnows
    <3>4. tape' \in Tapes /\ StillThere(x[1], x[3], tape')
      BY <3>2, <3>3, ElsewhereStill DEF KnowsTape
    <3>5. QED
      BY <3>2, <3>3, <3>4
  <2>4. \A u \in Threads : pc'[u] \notin {"pass", "passed"}
    BY <1>0, <2>1, <2>2
  <2>5. QED
    BY <2>2, <2>3, <2>4 DEF KnownInv
<1>9. ASSUME NEW t \in Threads, Validate(t) PROVE KnownInv'
  <2>1. stale /\ writes' = writes /\ vol' = vol /\ known' = known /\ tape' = tape
    BY <1>9 DEF Validate, KnownInv
  <2>2. KnowsTape(vol, known) /\ tape \in Tapes /\ StillThere(vol, known, tape)
    BY <2>1 DEF KnownInv
  <2>3. CASE CheckVolume(vol, tape) /\ Goto(t, "pass") /\ stale' = FALSE
    <3>1. KnowsTape(vol, tape) /\ AsKnown(vol, known, tape) /\ tape.label = "ours" /\ tape.eod
      BY <2>2, <2>3, CheckIsEnough
    <3>2. \A u \in Threads : u # t => pc[u] \notin Owners
      BY <1>9 DEF Validate, LockInv, OneOwner, Owners
    <3>3. \A u \in Threads : pc'[u] \notin {"reval", "upgrade", "validate"}
      BY <1>0, <2>3, <3>2 DEF Goto, Owners
    <3>4. QED
      BY <2>1, <2>3, <3>1, <3>3 DEF KnownInv
  <2>4. CASE Goto(t, "fail") /\ UNCHANGED stale
    <3>1. Quiet
      BY <1>0, <1>9, <2>1, <2>4 DEF Quiet, Goto, content
    <3>2. QED
      BY <3>1, QuietKeeps
  <2>5. QED
    BY <1>9, <2>3, <2>4 DEF Validate
<1>10. ASSUME NEW t \in Threads, OpenPartition(t) PROVE KnownInv'
  <2>1. ~stale /\ \A u \in Threads : pc[u] \notin {"reval", "upgrade", "validate", "pass", "passed"}
    BY <1>10, AloneAtCommand DEF OpenPartition, AtCommand
  <2>2. UNCHANGED <<stale, pc, writes>>
    BY <1>10 DEF OpenPartition
  <2>3. KnowsTape(vol', tape')
    <3>1. KnowsTape(vol, tape) /\ writes \in Nat
      BY <2>1 DEF KnownInv
    <3>2. PICK p \in Part : vol' = Opened(vol, tape, p)[1] /\ tape' = Opened(vol, tape, p)[2]
      BY <1>10 DEF OpenPartition
    <3>3. QED
      BY <3>1, <3>2, OpenedKnows
  <2>4. QED
    BY <2>1, <2>2, <2>3 DEF KnownInv
<1>11. QED
  BY <1>1, <1>2, <1>3, <1>4, <1>5, <1>6, <1>7, <1>8, <1>9, <1>10, QuietKeeps DEF Next, Step

\* As mounted, the volume knows its two indexes.
LEMMA KnownInit == Init => KnownInv
<1> SUFFICES ASSUME Init PROVE KnownInv
  OBVIOUS
<1> DEFINE s == <<"fm", "ix", "fm">>
<1>1. s \in Records /\ Len(s) = 0 + 3 /\ s[0 + 1] = "fm" /\ s[0 + 2] = "ix" /\ s[0 + 3] = "fm"
  BY IndexRecords DEF Records
<1>2. s # <<>> /\ s[Len(s)] = "fm" /\ BehindFm(s, Len(s) - 1) = Base + 0 + 1
  <2>1. s \in Seq(Rec)
    BY <1>1 DEF Records
  <2> HIDE DEF s
  <2>2. QED
    BY <1>1, <2>1, IndexFound
<1>3. vol = Mounted /\ tape = Blank /\ ~stale /\ writes = 0 /\ \A t \in Threads : pc[t] = "idle"
  BY DEF Init
<1>4. \A p \in Part : Blank.recs[p] = s
  BY DEF Blank
<1> HIDE DEF s
<1>5. \A p \in Part : EodAt(Blank, p) = Base + 3 /\ LastIndexIs(Blank, p, Base + 1)
  <2> SUFFICES ASSUME NEW p \in Part
               PROVE  EodAt(Blank, p) = Base + 3 /\ LastIndexIs(Blank, p, Base + 1)
    OBVIOUS
  <2>1. Blank.recs[p] = s
    BY <1>4
  <2>2. EodAt(Blank, p) = Base + 3
    <3>1. Len(s) = 3
      BY <1>1
    <3>2. Len(Blank.recs[p]) = 3
      BY <2>1, <3>1
    <3>3. QED
      BY <3>2 DEF EodAt, Base
  <2>3. EndsInIndex(Blank, p) /\ LastIndexAt(Blank, p) = Base + 1
    BY <1>2, <2>1 DEF EndsInIndex, LastIndexAt, Base
  <2>4. QED
    BY <2>2, <2>3 DEF LastIndexIs, Base
<1>6. Mounted \in Volumes
  <2>1. /\ [ip |-> Base, dp |-> 0] \in [Part -> Int] /\ [p \in Part |-> 0] \in [Part -> Int]
        /\ [p \in Part |-> TRUE] \in [Part -> BOOLEAN]
        /\ [part |-> "ip", block |-> Base + 1] \in Place /\ [part |-> "dp", block |-> Base + 1] \in Place
    BY DEF Part, Place, Base
  <2>2. QED
    BY <2>1 DEF Mounted, Volumes
<1>7. Blank \in Tapes
  <2>1. [p \in Part |-> s] \in [Part -> Records] /\ [p \in Part |-> 0] \in [Part -> Int]
    BY <1>1
  <2>2. QED
    BY <2>1 DEF Blank, Tapes, s
<1>8. KnowsTape(Mounted, Blank)
  <2>1. \A p \in Part : Mounted.app[p] = 0 \/ Mounted.app[p] \in Base .. EodAt(Blank, p)
    BY <1>5 DEF Mounted, Part, Base
  <2>2. DataIndex(Mounted) = Base + 1 /\ Mounted.app["ip"] + 1 = Base + 1
    BY DEF DataIndex, Mounted
  <2>3. QED
    BY <1>5, <1>6, <1>7, <2>1, <2>2 DEF KnowsTape, Part
<1>9. QED
  BY <1>3, <1>8 DEF KnownInv

-----------------------------------------------------------------------------
(* The theorems.                                                           *)

\* The volume lock counts exactly those it was given to: nobody gives it back who
\* does not have it, although ltfs_revalidate and ltfs_wait_revalidation release it
\* behind their callers' backs.
THEOREM LockCounts ==
  ASSUME Settled
  PROVE  Spec => []LockCountsHolders
<1>1. Init => LockInv
  BY LockInit
<1>2. LockInv /\ [Next]_vars => LockInv'
  BY LockStep
<1>3. LockInv => LockCountsHolders
  BY DEF LockInv
<1>4. QED
  BY <1>1, <1>2, <1>3, PTL DEF Spec

\* No command goes to a cartridge that was reset and not revalidated since, a
\* revalidation only passes on the cartridge as this volume left it, and the fence
\* is only up while a thread is on its way to take it down.
THEOREM Validated ==
  ASSUME Settled
  PROVE  Spec => []CallsValidated
<1>1. Init => LockInv /\ KnownInv
  BY LockInit, KnownInit
<1>2. LockInv /\ KnownInv /\ [Next]_vars => (LockInv /\ KnownInv)'
  BY LockStep, KnownStep
<1>3. LockInv /\ KnownInv => CallsValidated
  <2> SUFFICES ASSUME LockInv, KnownInv PROVE CallsValidated
    OBVIOUS
  <2>1. NothingOnUnvalidated
    BY AloneAtCommand DEF NothingOnUnvalidated
  <2>2. PassedIsKnown
    BY DEF PassedIsKnown, KnownInv, AsKnown, UpTo
  <2>3. FenceHasOwner
    BY DEF FenceHasOwner, LockInv, Marked, InReval
  <2>4. QED
    BY <2>1, <2>2, <2>3 DEF CallsValidated
<1>4. QED
  BY <1>1, <1>2, <1>3, PTL DEF Spec
=============================================================================
