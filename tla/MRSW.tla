-------------------------------- MODULE MRSW --------------------------------
(***************************************************************************)
(* The multi-reader single-writer lock of libltfs/ltfs_locking.h, one      *)
(* action per mutex operation.  The three pthread mutexes are shared       *)
(* variables; pc[t] says where thread t stands in the inline function it   *)
(* is executing.                                                           *)
(*                                                                         *)
(* write_exclusive_mutex and read_count_mutex are always unlocked by the   *)
(* thread that locked them, so they hold their owner.  reading_mutex is    *)
(* locked by the first reader of a group and unlocked by the last, which   *)
(* may be another thread, so it is only locked or not.                     *)
(***************************************************************************)
EXTENDS Naturals, FiniteSets

CONSTANTS
  Threads,   \* the threads that use one lock
  NoThread   \* owner of a free mutex

ASSUME ThreadsAssumption == IsFiniteSet(Threads) /\ NoThread \notin Threads

VARIABLES
  write_exclusive_mutex,  \* the gate: a thread, or NoThread
  reading_mutex,          \* locked by a writer or by the group of readers
  read_count_mutex,       \* a thread, or NoThread
  read_count,
  writer,                 \* is there a write lock acquired?
  long_lock,              \* was it acquired by acquirewrite_mrsw_long?
  pc

vars == <<write_exclusive_mutex, reading_mutex, read_count_mutex, read_count,
          writer, long_lock, pc>>

(***************************************************************************)
(* Places of a thread, by what it holds.                                   *)
(***************************************************************************)
\* Places inside a section guarded by write_exclusive_mutex.
GateHolder == {"gated", "shortgated", "wwait", "wwaitlong", "tried",
               "tryfailed", "writing", "writinglong", "wreleased",
               "downcount", "downfirst", "downcounted", "downgate"}

\* Places inside a section guarded by read_count_mutex.
CountHolder == {"first", "counted", "downfirst", "downcounted"}

\* Threads counted in read_count.
Counted == {"first", "counted", "reading", "downfirst", "downcounted",
            "downgate"}

Writing == {"writing", "writinglong"}

Places == GateHolder \cup CountHolder \cup Counted
          \cup {"idle", "gate", "short", "count", "wgate", "wgatelong"}

Init ==
  /\ write_exclusive_mutex = NoThread
  /\ reading_mutex = FALSE
  /\ read_count_mutex = NoThread
  /\ read_count = 0
  /\ writer = 0
  /\ long_lock = 0
  /\ pc = [t \in Threads |-> "idle"]

Goto(t, from, to) == pc[t] = from /\ pc' = [pc EXCEPT ![t] = to]

LockGate(t) ==
  /\ write_exclusive_mutex = NoThread
  /\ write_exclusive_mutex' = t

UnlockGate(t) == write_exclusive_mutex' = NoThread

(***************************************************************************)
(* acquirewrite_mrsw and acquirewrite_mrsw_long: the gate first, then the  *)
(* readers are waited out on reading_mutex.                                *)
(***************************************************************************)
StartWrite(t) ==
  /\ Goto(t, "idle", "wgate") \/ Goto(t, "idle", "wgatelong")
  /\ UNCHANGED <<write_exclusive_mutex, reading_mutex, read_count_mutex,
                 read_count, writer, long_lock>>

WriteGate(t) ==
  /\ Goto(t, "wgate", "wwait") \/ Goto(t, "wgatelong", "wwaitlong")
  /\ LockGate(t)
  /\ UNCHANGED <<reading_mutex, read_count_mutex, read_count, writer, long_lock>>

WriteEnter(t) ==
  /\ \/ Goto(t, "wwait", "writing") /\ long_lock' = 0
     \/ Goto(t, "wwaitlong", "writinglong") /\ long_lock' = 1
  /\ ~reading_mutex
  /\ reading_mutex' = TRUE
  /\ writer' = 1
  /\ UNCHANGED <<write_exclusive_mutex, read_count_mutex, read_count>>

(***************************************************************************)
(* try_acquirewrite_mrsw: two trylocks; it leaves long_lock alone.         *)
(***************************************************************************)
TryGate(t) ==
  /\ Goto(t, "idle", "tried")
  /\ LockGate(t)
  /\ UNCHANGED <<reading_mutex, read_count_mutex, read_count, writer, long_lock>>

\* A mutation: try_acquirewrite_mrsw forgets the flag.
TryReadingNoFlag(t) ==
  /\ \/ Goto(t, "tried", "writing") /\ ~reading_mutex /\ reading_mutex' = TRUE
     \/ Goto(t, "tried", "tryfailed") /\ reading_mutex /\ UNCHANGED reading_mutex
  /\ UNCHANGED <<write_exclusive_mutex, read_count_mutex, read_count, writer,
                 long_lock>>

TryReading(t) ==
  /\ \/ /\ Goto(t, "tried", "writing")
        /\ ~reading_mutex
        /\ reading_mutex' = TRUE
        /\ writer' = 1
     \/ /\ Goto(t, "tried", "tryfailed")
        /\ reading_mutex
        /\ UNCHANGED <<reading_mutex, writer>>
  /\ UNCHANGED <<write_exclusive_mutex, read_count_mutex, read_count, long_lock>>

TryGiveUp(t) ==
  /\ Goto(t, "tryfailed", "idle")
  /\ UnlockGate(t)
  /\ UNCHANGED <<reading_mutex, read_count_mutex, read_count, writer, long_lock>>

(***************************************************************************)
(* releasewrite_mrsw: the flags and reading_mutex, then the gate.          *)
(***************************************************************************)
ReleaseWriteReading(t) ==
  /\ \E w \in Writing : Goto(t, w, "wreleased")
  /\ writer' = 0
  /\ long_lock' = 0
  /\ reading_mutex' = FALSE
  /\ UNCHANGED <<write_exclusive_mutex, read_count_mutex, read_count>>

ReleaseWriteGate(t) ==
  /\ Goto(t, "wreleased", "idle")
  /\ UnlockGate(t)
  /\ UNCHANGED <<reading_mutex, read_count_mutex, read_count, writer, long_lock>>

(***************************************************************************)
(* acquireread_mrsw: pass the gate, then join the group of readers.  The   *)
(* first of a group takes reading_mutex while it holds read_count_mutex.   *)
(***************************************************************************)
StartRead(t) ==
  /\ Goto(t, "idle", "gate")
  /\ UNCHANGED <<write_exclusive_mutex, reading_mutex, read_count_mutex,
                 read_count, writer, long_lock>>

ReadGate(t) ==
  /\ Goto(t, "gate", "gated")
  /\ LockGate(t)
  /\ UNCHANGED <<reading_mutex, read_count_mutex, read_count, writer, long_lock>>

ReadPassGate(t) ==
  /\ Goto(t, "gated", "count")
  /\ long_lock' = 0
  /\ UnlockGate(t)
  /\ UNCHANGED <<reading_mutex, read_count_mutex, read_count, writer>>

\* The counting section, shared by the readers and by writetoread_mrsw.
EnterCount(t, from, first, later) ==
  /\ read_count_mutex = NoThread
  /\ read_count_mutex' = t
  /\ read_count' = read_count + 1
  /\ IF read_count = 0 THEN Goto(t, from, first) ELSE Goto(t, from, later)
  /\ UNCHANGED <<write_exclusive_mutex, reading_mutex, writer, long_lock>>

LockReading(t, first, later) ==
  /\ Goto(t, first, later)
  /\ ~reading_mutex
  /\ reading_mutex' = TRUE
  /\ UNCHANGED <<write_exclusive_mutex, read_count_mutex, read_count, writer,
                 long_lock>>

LeaveCount(t, later, done) ==
  /\ Goto(t, later, done)
  /\ read_count_mutex' = NoThread
  /\ UNCHANGED <<write_exclusive_mutex, reading_mutex, read_count, writer,
                 long_lock>>

ReadCount(t)      == EnterCount(t, "count", "first", "counted")
ReadLockFirst(t)  == LockReading(t, "first", "counted")
ReadLeaveCount(t) == LeaveCount(t, "counted", "reading")

(***************************************************************************)
(* acquireread_mrsw_short: gives up when the lock is held for a long time, *)
(* else polls the gate (one sleep per failed trylock).                     *)
(***************************************************************************)
StartShort(t) ==
  /\ IF long_lock = 1 THEN Goto(t, "idle", "idle") ELSE Goto(t, "idle", "short")
  /\ UNCHANGED <<write_exclusive_mutex, reading_mutex, read_count_mutex,
                 read_count, writer, long_lock>>

ShortGate(t) ==
  /\ Goto(t, "short", "shortgated")
  /\ LockGate(t)
  /\ UNCHANGED <<reading_mutex, read_count_mutex, read_count, writer, long_lock>>

ShortGiveUp(t) ==
  /\ Goto(t, "short", "idle")
  /\ write_exclusive_mutex # NoThread
  /\ long_lock = 1
  /\ UNCHANGED <<write_exclusive_mutex, reading_mutex, read_count_mutex,
                 read_count, writer, long_lock>>

ShortPassGate(t) ==
  /\ Goto(t, "shortgated", "count")
  /\ UnlockGate(t)
  /\ UNCHANGED <<reading_mutex, read_count_mutex, read_count, writer, long_lock>>

(***************************************************************************)
(* releaseread_mrsw.  Nothing in the section waits and no trylock looks at *)
(* read_count_mutex, so the section is one action.                         *)
(***************************************************************************)
\* Two mutations: reading_mutex is unlocked one reader too early, or too late.
ReleaseReadEarly(t) ==
  /\ Goto(t, "reading", "idle")
  /\ read_count_mutex = NoThread
  /\ read_count' = read_count - 1
  /\ reading_mutex' = IF read_count <= 2 THEN FALSE ELSE reading_mutex
  /\ UNCHANGED <<write_exclusive_mutex, read_count_mutex, writer, long_lock>>

ReleaseReadLate(t) ==
  /\ Goto(t, "reading", "idle")
  /\ read_count_mutex = NoThread
  /\ read_count' = IF read_count = 0 THEN 0 ELSE read_count - 1
  /\ reading_mutex' = IF read_count = 0 THEN FALSE ELSE reading_mutex
  /\ UNCHANGED <<write_exclusive_mutex, read_count_mutex, writer, long_lock>>

ReleaseReadCount(t) ==
  /\ Goto(t, "reading", "idle")
  /\ read_count_mutex = NoThread
  /\ read_count' = IF read_count = 0 THEN 0 ELSE read_count - 1
  /\ reading_mutex' = IF read_count = 1 THEN FALSE ELSE reading_mutex
  /\ UNCHANGED <<write_exclusive_mutex, read_count_mutex, writer, long_lock>>

(***************************************************************************)
(* release_mrsw: whoever holds the lock releases it in the mode the writer *)
(* flag says.  The wrong mode is a step the flag must never allow.         *)
(***************************************************************************)
ReleaseEither(t) ==
  /\ pc[t] \in Writing \cup {"reading"}
  /\ IF writer = 1
     THEN /\ pc' = [pc EXCEPT ![t] = "wreleased"]
          /\ writer' = 0
          /\ long_lock' = 0
          /\ reading_mutex' = FALSE
          /\ UNCHANGED <<write_exclusive_mutex, read_count_mutex, read_count>>
     ELSE /\ read_count_mutex = NoThread
          /\ pc' = [pc EXCEPT ![t] = "idle"]
          /\ read_count' = IF read_count = 0 THEN 0 ELSE read_count - 1
          /\ reading_mutex' = IF read_count = 1 THEN FALSE ELSE reading_mutex
          /\ UNCHANGED <<write_exclusive_mutex, read_count_mutex, writer,
                         long_lock>>

(***************************************************************************)
(* writetoread_mrsw: reading_mutex is freed first, so that a reader that   *)
(* had passed the gate gets in; the gate stays closed until the caller is  *)
(* counted as a reader.                                                    *)
(***************************************************************************)
\* A mutation: the gate is opened at once.
DowngradeStartOpen(t) ==
  /\ \E w \in Writing : Goto(t, w, "downcount")
  /\ writer' = 0
  /\ long_lock' = 0
  /\ reading_mutex' = FALSE
  /\ UnlockGate(t)
  /\ UNCHANGED <<read_count_mutex, read_count>>

DowngradeStart(t) ==
  /\ \E w \in Writing : Goto(t, w, "downcount")
  /\ writer' = 0
  /\ long_lock' = 0
  /\ reading_mutex' = FALSE
  /\ UNCHANGED <<write_exclusive_mutex, read_count_mutex, read_count>>

DowngradeCount(t)      == EnterCount(t, "downcount", "downfirst", "downcounted")
DowngradeLockFirst(t)  == LockReading(t, "downfirst", "downcounted")
DowngradeLeaveCount(t) == LeaveCount(t, "downcounted", "downgate")

DowngradeOpenGate(t) ==
  /\ Goto(t, "downgate", "reading")
  /\ UnlockGate(t)
  /\ UNCHANGED <<reading_mutex, read_count_mutex, read_count, writer, long_lock>>

-----------------------------------------------------------------------------
Acquire(t) ==
  \/ WriteGate(t) \/ WriteEnter(t)
  \/ TryReading(t) \/ TryGiveUp(t)
  \/ ReadGate(t) \/ ReadPassGate(t)
  \/ ReadCount(t) \/ ReadLockFirst(t) \/ ReadLeaveCount(t)
  \/ ShortGate(t) \/ ShortGiveUp(t) \/ ShortPassGate(t)

Release(t) ==
  \/ ReleaseWriteReading(t) \/ ReleaseWriteGate(t)
  \/ ReleaseReadCount(t) \/ ReleaseEither(t)

Downgrade(t) ==
  \/ DowngradeStart(t) \/ DowngradeCount(t) \/ DowngradeLockFirst(t)
  \/ DowngradeLeaveCount(t) \/ DowngradeOpenGate(t)

Request(t) == StartWrite(t) \/ StartRead(t) \/ StartShort(t) \/ TryGate(t)

Next == \E t \in Threads : Request(t) \/ Acquire(t) \/ Release(t) \/ Downgrade(t)

Spec == Init /\ [][Next]_vars

\* A thread inside one of the functions keeps running and a holder releases
\* the lock in the end; nothing makes a thread ask for it again.
Fairness ==
  \A t \in Threads :
    WF_vars(Acquire(t) \/ Downgrade(t) \/ Release(t))

FairSpec == Spec /\ Fairness

-----------------------------------------------------------------------------
(***************************************************************************)
(* Properties.                                                             *)
(***************************************************************************)
\* Every variable has the type of its C counterpart.
TypeOK ==
  /\ write_exclusive_mutex \in Threads \cup {NoThread}
  /\ reading_mutex \in BOOLEAN
  /\ read_count_mutex \in Threads \cup {NoThread}
  /\ read_count \in Nat
  /\ writer \in {0, 1}
  /\ long_lock \in {0, 1}
  /\ pc \in [Threads -> Places]

\* A thread that will read from now on without asking again: it holds the
\* lock, or is a writer turning into a reader.
HoldsRead(t) == pc[t] \in {"counted", "reading", "downcount", "downfirst",
                           "downcounted", "downgate"}
HoldsWrite(t) == pc[t] \in Writing

\* acquirewrite_mrsw excludes readers and other writers, writetoread_mrsw
\* included: while the downgrading thread waits for read_count_mutex no
\* other writer may slip in.
MutualExclusion ==
  \A t, u \in Threads : HoldsWrite(t) /\ u # t => ~HoldsRead(u) /\ ~HoldsWrite(u)

\* release_mrsw picks the mode from the unlocked flag mrsw->writer: the flag
\* must tell every holder its own mode ("If there is a writer, and we hold a
\* lock, we must be the writer").
ReleasePicksMode ==
  \A t \in Threads : /\ HoldsWrite(t) => writer = 1
                     /\ pc[t] = "reading" => writer = 0

\* acquireread_mrsw_short refuses exactly when a long writer holds the lock.
LongLockExact ==
  long_lock = 1 <=> \E t \in Threads : pc[t] = "writinglong"

(***************************************************************************)
(* The inductive invariant behind them.                                    *)
(***************************************************************************)
Inside == {"counted", "reading", "downcounted", "downgate"}

CountedThreads == {t \in Threads : pc[t] \in Counted}

\* The two owned mutexes are held by exactly the thread inside their section.
OwnersExact ==
  \A t \in Threads :
    /\ pc[t] \in GateHolder <=> write_exclusive_mutex = t
    /\ pc[t] \in CountHolder <=> read_count_mutex = t

\* read_count is exact, and the thread that makes it 1 is alone until it has
\* reading_mutex.
CountExact ==
  /\ read_count = Cardinality(CountedThreads)
  /\ \A t \in Threads : pc[t] \in {"first", "downfirst"} => CountedThreads = {t}

\* reading_mutex is locked for a writer or for a group of readers, never both.
ReadingExact ==
  /\ reading_mutex <=> \E t \in Threads : pc[t] \in Writing \cup Inside
  /\ \A t, u \in Threads : pc[t] \in Writing => pc[u] \notin Inside

FlagsExact ==
  /\ writer = 1 <=> \E t \in Threads : pc[t] \in Writing
  /\ LongLockExact

\* The state of a MultiReaderSingleWriter agrees with the places of its users.
IInv == TypeOK /\ OwnersExact /\ CountExact /\ ReadingExact /\ FlagsExact

\* The lock implements RWLock: every step is an acquisition, a release, an
\* atomic downgrade, or invisible.
RW == INSTANCE RWLock WITH
        readers <- {t \in Threads : HoldsRead(t)},
        writers <- {t \in Threads : HoldsWrite(t)}

Refinement == RW!RWSpec

\* A writer that has closed the gate gets the lock: readers that arrive
\* later cannot starve it.
WriterGetsIn ==
  \A t \in Threads :
    pc[t] \in {"wwait", "wwaitlong"} ~> HoldsWrite(t)

\* writetoread_mrsw never hangs ("will not block on reading mutex").
DowngradeEnds ==
  \A t \in Threads : pc[t] = "downcount" ~> pc[t] = "reading"

\* Nobody is kept out for ever: not the writer behind the gate, nor the thread
\* that gives up writing for reading. (ltfs_locking.h:205 and 337)
LockProgress == WriterGetsIn /\ DowngradeEnds
=============================================================================
