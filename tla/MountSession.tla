---------------------------- MODULE MountSession ----------------------------
(***************************************************************************)
(* One run of the ltfs program: the steps of ltfs_fuse_mount and what is    *)
(* given back when one fails, the periodic sync thread beside the FUSE      *)
(* threads while the volume is served, and the steps of ltfs_fuse_umount,   *)
(* which has to stop the thread, empty the scheduler and write the index in *)
(* that order. As built for Windows: init and destroy open and close the    *)
(* device, and can be called again for the next cartridge. Writes to the    *)
(* tape succeed here: what happens when they fail is in VolumeGate.         *)
(***************************************************************************)
EXTENDS Integers, Sequences, FiniteSets

CONSTANTS FuseThreads,
          SyncTypes,   \* values of the sync_type option to try
          MaxMounts,   \* bound: calls of ltfs_fuse_mount
          MaxUserWrites,   \* bound: writes in all
          MaxCalls     \* bound: wake-ups by the timer, and syncs that users ask for

Syncer == "syncer"
ASSUME FuseThreadsAssumption == {"free", Syncer} \cap FuseThreads = {}
Actors == FuseThreads \cup {Syncer}

VARIABLES
  stage,       \* the step the main thread is at
  held,     \* what it holds: the volume structure, the reserved drive, the
            \* medium locked into it, the I/O scheduler, the periodic sync
  reply,    \* how init ended: "mounted", "refused" (an error for FUSE), "void"
            \* (NULL, but no error), or "none" so far
  ro,       \* the file system was made read-only
  type,     \* sync_type
  keep,     \* keepalive of the periodic sync thread
  mutex,    \* who holds periodic_sync_thread_mutex, or "free"
  vlock,    \* who holds the volume lock for writing, or "free"
  at,       \* what each thread does
  cached, onTape, indexed, \* writes: in the scheduler, in an extent, in an index
  n         \* [mounts, writes, calls]: counters for the bounds
sessionVars == <<stage, held, reply, ro, type, keep, mutex, vlock, at, cached, onTape, indexed, n>>
main == <<stage, held, reply, ro, type>>
thread == <<keep, mutex>>
data == <<cached, onTape, indexed>>

SessionInit ==
  /\ stage = "out" /\ held = {} /\ reply = "none" /\ ro = FALSE
  /\ type \in SyncTypes
  /\ keep = FALSE /\ mutex = "free" /\ vlock = "free"
  /\ at = [a \in Actors |-> "idle"]
  /\ cached = {} /\ onTape = {} /\ indexed = {}
  /\ n = [mounts |-> 0, writes |-> 0, calls |-> 0]

-----------------------------------------------------------------------------
(***************************************************************************)
(* ltfs_fuse_mount.                                                        *)
(***************************************************************************)
\* Nothing more happens after a reply that says neither success nor failure.
MountStart ==
  /\ stage = "out" /\ reply # "void" /\ n.mounts < MaxMounts
  /\ stage' = "open" /\ held' = held \cup {"volume"} /\ reply' = "none" /\ ro' = FALSE
  /\ n' = [n EXCEPT !.mounts = @ + 1]
  /\ UNCHANGED <<type, thread, vlock, at, data>>

\* A step that succeeds, and what it acquires.
Succeeds(step, next, gain) ==
  stage = step /\ stage' = next /\ held' = held \cup gain /\ UNCHANGED <<reply, ro, type>>

\* A mutation: ltfs_device_close leaves the lock of the medium to the eject.
CloseKeepsLock(h) == h \ {"reserved"}

\* ltfs_device_close, ltfs_volume_free.
Closed(h) == h \ {"reserved", "locked"}
Freed(h) == Closed(h) \ {"volume"}

\* A step that fails: what is still held, and what FUSE is told.
Failed(step, left, told) ==
  stage = step /\ stage' = "out" /\ held' = left /\ reply' = told /\ UNCHANGED <<ro, type>>

\* Nothing gives the drive back when its largest block size cannot be read.
OpenDevice ==
  \/ Succeeds("open", "setup", {"reserved"})
  \/ \E left \in {held, held \cup {"reserved"}} : Failed("open", left, "refused")

SetupVolume ==
  \/ Succeeds("setup", "mount", {})
  \/ Failed("setup", Closed(held), "refused")

\* ltfs_mount, which loads the cartridge first.
MountVolume ==
  \/ \E next \in {"latest", "policy"} : Succeeds("mount", next, {"locked"})
  \/ \E got \in SUBSET {"locked"} : Failed("mount", Closed(held \cup got), "refused")

\* A permanent write error is known of: the newest index of either partition.
MountLatest ==
  \/ Succeeds("latest", "policy", {})
  \/ Failed("latest", held, "void")

OverrideRules ==
  \/ Succeeds("policy", "status", {})
  \/ Failed("policy", Freed(held), "void")

\* The state of the medium, the archive, and the volume may be found read-only.
CheckStatus ==
  \/ /\ stage = "status" /\ stage' = "iosched" /\ ro' \in BOOLEAN
     /\ UNCHANGED <<held, reply, type>>
  \/ Failed("status", Freed(held), "void")

\* Without a scheduler the file system goes on, writing through.
StartScheduler == \E got \in SUBSET {"iosched"} : Succeeds("iosched", "sync", got)

MountStep ==
  /\ \/ OpenDevice \/ SetupVolume \/ MountVolume \/ MountLatest
     \/ OverrideRules \/ CheckStatus \/ StartScheduler
  /\ UNCHANGED <<thread, vlock, at, data, n>>

\* The last step starts the periodic sync thread, if it can.
StartSync ==
  /\ stage = "sync" /\ stage' = "serving" /\ reply' = "mounted"
  /\ \/ /\ type = "time"
        /\ held' = held \cup {"sync"} /\ keep' = TRUE
        /\ at' = [at EXCEPT ![Syncer] = "start"]
     \/ UNCHANGED <<held, keep, at>>
  /\ UNCHANGED <<ro, type, mutex, vlock, data, n>>

-----------------------------------------------------------------------------
(***************************************************************************)
(* Writing and syncing.                                                    *)
(***************************************************************************)
Move(a, from, to) == at[a] = from /\ at' = [at EXCEPT ![a] = to]

WriteFile(t) ==
  /\ stage = "serving" /\ ~ro /\ at[t] = "idle" /\ vlock = "free" /\ n.writes < MaxUserWrites
  /\ n' = [n EXCEPT !.writes = @ + 1]
  /\ IF "iosched" \in held
     THEN cached' = cached \cup {n.writes + 1} /\ UNCHANGED onTape
     ELSE onTape' = onTape \cup {n.writes + 1} /\ UNCHANGED cached
  /\ UNCHANGED <<main, thread, vlock, at, indexed>>

\* The scheduler's own thread writes blocks when it likes.
Drain ==
  /\ "iosched" \in held /\ vlock = "free"
  /\ \E w \in cached : cached' = cached \ {w} /\ onTape' = onTape \cup {w}
  /\ UNCHANGED <<main, thread, vlock, at, indexed, n>>

Flushed == cached' = {} /\ onTape' = onTape \cup cached /\ UNCHANGED indexed

Dirty == onTape # indexed

\* ltfs_fsops_flush, then ltfs_sync_index with its two sections under the lock.
Flush(a, step, next) ==
  vlock = "free" /\ Move(a, step, next) /\ Flushed /\ UNCHANGED <<main, thread, vlock, n>>

CheckDirty(a) ==
  /\ vlock = "free" /\ at[a] = "check"
  /\ at' = [at EXCEPT ![a] = IF Dirty THEN "dirty" ELSE "synced"]
  /\ UNCHANGED <<main, thread, vlock, data, n>>

LockForIndex(a) ==
  /\ vlock = "free" /\ Move(a, "dirty", "write") /\ vlock' = a
  /\ UNCHANGED <<main, thread, data, n>>

IndexWritten(a) ==
  /\ Move(a, "write", "synced") /\ vlock' = "free"
  /\ indexed' = onTape
  /\ UNCHANGED <<main, thread, cached, onTape, n>>

\* The last close of a file, with sync_type=close.
CloseFile(t) ==
  /\ stage = "serving" /\ type = "close" /\ Dirty /\ Move(t, "idle", "flush")
  /\ UNCHANGED <<main, thread, vlock, data, n>>

\* The attribute ltfs.sync of the root is set: the scheduler is flushed, and then
\* the volume lock is held for writing throughout.
AskSync(t) ==
  /\ stage = "serving" /\ ~ro /\ n.calls < MaxCalls
  /\ Move(t, "idle", "ask")
  /\ n' = [n EXCEPT !.calls = @ + 1]
  /\ UNCHANGED <<main, thread, vlock, data>>

AskedSync(t) ==
  /\ vlock = "free" /\ Move(t, "lock", "asked") /\ vlock' = t
  /\ UNCHANGED <<main, thread, data, n>>

\* periodic_sync_thread_signal, if there is such a thread.
SignalSync(t) ==
  /\ at[t] = "asked" /\ "sync" \in held
  /\ mutex = "free"
  /\ at' = [at EXCEPT ![t] = "idle", ![Syncer] = IF @ = "wait" THEN "wake" ELSE @]
  /\ vlock' = "free"
  /\ UNCHANGED <<main, thread, data, n>>

\* ltfs_sync_index, without the lock it already has.
SyncHere(t) ==
  /\ at[t] = "asked" /\ "sync" \notin held
  /\ Move(t, "asked", "idle") /\ vlock' = "free"
  /\ indexed' = onTape
  /\ UNCHANGED <<main, thread, cached, onTape, n>>

Return(t) == Move(t, "synced", "idle") /\ UNCHANGED <<main, thread, vlock, data, n>>

FuseThread(t) ==
  \/ Flush(t, "flush", "check") \/ Flush(t, "ask", "lock") \/ AskedSync(t) \/ CheckDirty(t) \/ LockForIndex(t) \/ IndexWritten(t)
  \/ SignalSync(t) \/ SyncHere(t) \/ Return(t)

-----------------------------------------------------------------------------
(***************************************************************************)
(* periodic_sync_thread, which holds its mutex all the time it syncs.      *)
(***************************************************************************)
\* A mutation: keepalive is only looked at after a sync.
AliveAlways(k) == TRUE

\* The thread goes on with its work.
Alive(k) == k

TakeMutex(next) ==
  /\ mutex = "free" /\ mutex' = Syncer
  /\ at' = [at EXCEPT ![Syncer] = next]
  /\ UNCHANGED <<main, keep, vlock, data, n>>

Wait ==
  /\ Move(Syncer, "loop", IF Alive(keep) THEN "wait" ELSE "ended") /\ mutex' = "free"
  /\ UNCHANGED <<main, keep, vlock, data, n>>

Timer ==
  /\ n.calls < MaxCalls /\ Move(Syncer, "wait", "wake")
  /\ n' = [n EXCEPT !.calls = @ + 1]
  /\ UNCHANGED <<main, thread, vlock, data>>

SyncThread ==
  \/ at[Syncer] = "start" /\ TakeMutex("loop")
  \/ Wait
  \/ at[Syncer] = "wake" /\ TakeMutex(IF Alive(keep) THEN "flush" ELSE "loop")
  \/ Flush(Syncer, "flush", "check") \/ CheckDirty(Syncer) \/ LockForIndex(Syncer) \/ IndexWritten(Syncer)
  \/ Move(Syncer, "synced", "loop") /\ UNCHANGED <<main, thread, vlock, data, n>>

-----------------------------------------------------------------------------
(***************************************************************************)
(* ltfs_fuse_umount, called by FUSE when no operation is under way.        *)
(***************************************************************************)
Umount ==
  /\ stage = "serving" /\ \A t \in FuseThreads : at[t] = "idle"
  /\ stage' = "stop"
  /\ UNCHANGED <<held, reply, ro, type, thread, vlock, at, data, n>>

\* periodic_sync_thread_initialized and periodic_sync_thread_destroy.
StopSync ==
  /\ stage = "stop"
  /\ IF "sync" \in held
     THEN /\ mutex = "free" /\ keep' = FALSE /\ stage' = "join"
          /\ at' = [at EXCEPT ![Syncer] = IF @ = "wait" THEN "wake" ELSE @]
     ELSE stage' = "flush" /\ UNCHANGED <<keep, at>>
  /\ UNCHANGED <<held, reply, ro, type, mutex, vlock, data, n>>

JoinSync ==
  /\ stage = "join" /\ at[Syncer] = "ended"
  /\ stage' = "flush" /\ held' = held \ {"sync"} /\ at' = [at EXCEPT ![Syncer] = "idle"]
  /\ UNCHANGED <<reply, ro, type, thread, vlock, data, n>>

\* A mutation: the index is written before the scheduler has been emptied.
LastStepsIndexFirst == <<"unmount", "flush", "close">>

LastSteps == <<"flush", "unmount", "close">>

\* What comes after a step of the umount.
After(step) ==
  LET i == CHOOSE j \in DOMAIN LastSteps : LastSteps[j] = step
  IN  IF i = Len(LastSteps) THEN "out" ELSE LastSteps[i + 1]

\* ltfs_fsops_flush and iosched_destroy.
DestroyScheduler ==
  /\ stage = "flush"
  /\ stage' = After("flush") /\ held' = held \ {"iosched"} /\ Flushed
  /\ UNCHANGED <<reply, ro, type, thread, vlock, at, n>>

\* ltfs_unmount.
UnmountVolume ==
  /\ stage = "unmount" /\ vlock = "free"
  /\ indexed' = IF Dirty THEN onTape ELSE indexed
  /\ stage' = After("unmount")
  /\ UNCHANGED <<held, reply, ro, type, thread, vlock, at, cached, onTape, n>>

\* The cartridge is ejected if asked for, the device closed and the volume freed.
CloseDevice ==
  /\ stage = "close" /\ stage' = After("close") /\ held' = Freed(held)
  /\ UNCHANGED <<reply, ro, type, thread, vlock, at, data, n>>

Main == MountStep \/ StartSync \/ StopSync \/ JoinSync \/ DestroyScheduler \/ UnmountVolume \/ CloseDevice

SessionNext ==
  \/ MountStart \/ Main \/ Umount \/ SyncThread \/ Timer \/ Drain
  \/ \E t \in FuseThreads : WriteFile(t) \/ CloseFile(t) \/ AskSync(t) \/ FuseThread(t)

\* Every thread that can go on does; users, the timer and the scheduler's own
\* thread may do nothing.
Fairness == WF_sessionVars(Main) /\ WF_sessionVars(SyncThread) /\ \A t \in FuseThreads : WF_sessionVars(FuseThread(t))
SessionSpec == SessionInit /\ [][SessionNext]_sessionVars /\ Fairness

-----------------------------------------------------------------------------
\* Between mounts every write that was accepted is in an index, whichever of the
\* timer, a close, a user or the umount wrote it: the umount stops whatever could
\* still change the volume before it writes the last index. (ltfs_fuse.c:1741-1758)
WritesReachIndex == stage = "out" => cached = {} /\ indexed = 1..n.writes

\* When the mount is refused, and when an unmount is over, the medium is not locked
\* in the drive any more, and nothing runs: no step forgets what the steps before
\* it had acquired. (A failure with the reply "void" is not reported at all.)
LeavesNothingBehind ==
  stage = "out" /\ reply # "void" =>
    /\ held \cap {"locked", "iosched", "sync"} = {} /\ mutex = "free" /\ vlock = "free"
    /\ reply = "mounted" => held = {}

\* An unmount comes to its end, whatever the periodic sync is doing when it is
\* told to stop. (periodic_sync_thread_destroy)
UmountEnds == stage = "stop" ~> stage = "out"

\* Setting ltfs.sync wakes the periodic sync thread up and returns.
\* (periodic_sync.c:231: "We use this function to signal the periodic sync thread to
\* wake up and sync an index")
AskReturns == \A t \in FuseThreads : at[t] = "asked" ~> at[t] = "idle"
=============================================================================
