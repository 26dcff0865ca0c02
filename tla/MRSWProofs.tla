----------------------------- MODULE MRSWProofs -----------------------------
(***************************************************************************)
(* Proofs about MRSW: the inductive invariant IInv holds for every finite  *)
(* set of threads, and with it mutual exclusion, the agreement between the *)
(* writer flag and the mode of every holder, and the refinement of RWLock. *)
(***************************************************************************)
EXTENDS MRSW, FiniteSetTheorems, TLAPS

-----------------------------------------------------------------------------
(* The set of counted threads, and its cardinality, across one step of t.  *)

\* CountedThreads is a finite subset of Threads.
LEMMA CountedFinite == IsFiniteSet(CountedThreads)
  BY FS_Subset, ThreadsAssumption DEF CountedThreads

\* A thread that moves to a counted place adds one to the cardinality.
LEMMA CountJoin ==
  ASSUME TypeOK, NEW t \in Threads, NEW p \in Counted, pc[t] \notin Counted,
         pc' = [pc EXCEPT ![t] = p]
  PROVE  /\ CountedThreads' = CountedThreads \cup {t}
         /\ Cardinality(CountedThreads') = Cardinality(CountedThreads) + 1
  <1>1. CountedThreads' = CountedThreads \cup {t}
    BY DEF CountedThreads, TypeOK
  <1>2. t \notin CountedThreads
    BY DEF CountedThreads
  <1> QED
    BY <1>1, <1>2, CountedFinite, FS_AddElement

\* A thread that moves out of the counted places takes one away.
LEMMA CountLeave ==
  ASSUME TypeOK, NEW t \in Threads, NEW p \in Places \ Counted, pc[t] \in Counted,
         pc' = [pc EXCEPT ![t] = p]
  PROVE  /\ CountedThreads' = CountedThreads \ {t}
         /\ Cardinality(CountedThreads') = Cardinality(CountedThreads) - 1
         /\ Cardinality(CountedThreads) \in Nat \ {0}
         /\ Cardinality(CountedThreads) = 1 => CountedThreads = {t}
  <1>1. CountedThreads' = CountedThreads \ {t}
    BY DEF CountedThreads, TypeOK
  <1>2. t \in CountedThreads
    BY DEF CountedThreads
  <1>3. /\ IsFiniteSet(CountedThreads \ {t})
        /\ Cardinality(CountedThreads \ {t}) = Cardinality(CountedThreads) - 1
    BY <1>2, CountedFinite, FS_RemoveElement
  <1>4. Cardinality(CountedThreads) \in Nat \ {0}
    BY <1>2, CountedFinite, FS_CardinalityType, FS_EmptySet
  <1>5. ASSUME Cardinality(CountedThreads) = 1 PROVE CountedThreads = {t}
    <2>1. PICK x : CountedThreads = {x}
      BY <1>5, CountedFinite, FS_Singleton
    <2> QED BY <2>1, <1>2
  <1> QED
    BY <1>1, <1>3, <1>4, <1>5

\* A move within, or outside, the counted places changes nothing.
LEMMA CountSame ==
  ASSUME TypeOK, NEW t \in Threads, NEW p \in Places,
         pc[t] \in Counted <=> p \in Counted,
         pc' = [pc EXCEPT ![t] = p]
  PROVE  CountedThreads' = CountedThreads
  BY DEF CountedThreads, TypeOK

-----------------------------------------------------------------------------
\* The lock starts in a state that satisfies the invariant (init_mrsw).
LEMMA InitIInv == Init => IInv
  <1> SUFFICES ASSUME Init PROVE IInv
    OBVIOUS
  <1> USE DEF Init
  <1>1. TypeOK
    BY DEF TypeOK, Places
  <1>2. OwnersExact
    BY ThreadsAssumption DEF OwnersExact, GateHolder, CountHolder
  <1>3. CountExact
    <2>1. CountedThreads = {}
      BY DEF CountedThreads, Counted
    <2> QED BY <2>1, FS_EmptySet DEF CountExact
  <1>4. ReadingExact /\ FlagsExact
    BY DEF ReadingExact, FlagsExact, LongLockExact, Writing, Inside
  <1> QED BY <1>1, <1>2, <1>3, <1>4 DEF IInv

-----------------------------------------------------------------------------
\* Every step of a thread preserves the invariant.
LEMMA NextIInv == IInv /\ [Next]_vars => IInv'
  <1> SUFFICES ASSUME IInv, [Next]_vars PROVE IInv'
    OBVIOUS
  <1> USE DEF IInv, TypeOK, OwnersExact, ReadingExact, FlagsExact, LongLockExact,
              Goto, LockGate, UnlockGate, Places, GateHolder, CountHolder,
              Counted, Writing, Inside
  <1>1. ASSUME NEW t \in Threads, StartWrite(t) PROVE IInv'
    <2>1. TypeOK' /\ OwnersExact'
      BY <1>1, ThreadsAssumption DEF StartWrite
    <2>2. CountExact'
      BY <1>1, CountSame DEF StartWrite, CountExact
    <2>3. ReadingExact' /\ FlagsExact'
      BY <1>1 DEF StartWrite, CountExact
    <2> QED BY <2>1, <2>2, <2>3
  <1>2. ASSUME NEW t \in Threads, WriteGate(t) PROVE IInv'
    <2>1. TypeOK' /\ OwnersExact'
      BY <1>2, ThreadsAssumption DEF WriteGate
    <2>2. CountExact'
      BY <1>2, CountSame DEF WriteGate, CountExact
    <2>3. ReadingExact' /\ FlagsExact'
      BY <1>2 DEF WriteGate, CountExact
    <2> QED BY <2>1, <2>2, <2>3
  <1>3. ASSUME NEW t \in Threads, WriteEnter(t) PROVE IInv'
    <2>1. TypeOK' /\ OwnersExact'
      BY <1>3, ThreadsAssumption DEF WriteEnter
    <2>2. CountExact'
      BY <1>3, CountSame DEF WriteEnter, CountExact
    <2>3. ReadingExact' /\ FlagsExact'
      BY <1>3 DEF WriteEnter, CountExact
    <2> QED BY <2>1, <2>2, <2>3
  <1>4. ASSUME NEW t \in Threads, TryGate(t) PROVE IInv'
    <2>1. TypeOK' /\ OwnersExact'
      BY <1>4, ThreadsAssumption DEF TryGate
    <2>2. CountExact'
      BY <1>4, CountSame DEF TryGate, CountExact
    <2>3. ReadingExact' /\ FlagsExact'
      BY <1>4 DEF TryGate, CountExact
    <2> QED BY <2>1, <2>2, <2>3
  <1>5. ASSUME NEW t \in Threads, TryReading(t) PROVE IInv'
    <2>1. TypeOK' /\ OwnersExact'
      BY <1>5, ThreadsAssumption, ZenonT(60) DEF TryReading
    <2>2. CountExact'
      BY <1>5, CountSame DEF TryReading, CountExact
    <2>3. ReadingExact' /\ FlagsExact'
      BY <1>5 DEF TryReading, CountExact
    <2> QED BY <2>1, <2>2, <2>3
  <1>6. ASSUME NEW t \in Threads, TryGiveUp(t) PROVE IInv'
    <2>1. TypeOK' /\ OwnersExact'
      BY <1>6, ThreadsAssumption DEF TryGiveUp
    <2>2. CountExact'
      BY <1>6, CountSame DEF TryGiveUp, CountExact
    <2>3. ReadingExact' /\ FlagsExact'
      BY <1>6 DEF TryGiveUp, CountExact
    <2> QED BY <2>1, <2>2, <2>3
  <1>7. ASSUME NEW t \in Threads, ReleaseWriteReading(t) PROVE IInv'
    <2>1. TypeOK' /\ OwnersExact'
      BY <1>7, ThreadsAssumption DEF ReleaseWriteReading
    <2>2. CountExact'
      <3>1. CountedThreads' = CountedThreads
        <4>1. PICK w \in Writing : Goto(t, w, "wreleased")
          BY <1>7 DEF ReleaseWriteReading
        <4> QED BY <4>1, CountSame
      <3> QED BY <1>7, <3>1 DEF ReleaseWriteReading, CountExact
    <2>3. ReadingExact' /\ FlagsExact'
      BY <1>7 DEF ReleaseWriteReading, CountExact
    <2> QED BY <2>1, <2>2, <2>3
  <1>8. ASSUME NEW t \in Threads, ReleaseWriteGate(t) PROVE IInv'
    <2>1. TypeOK' /\ OwnersExact'
      BY <1>8, ThreadsAssumption DEF ReleaseWriteGate
    <2>2. CountExact'
      BY <1>8, CountSame DEF ReleaseWriteGate, CountExact
    <2>3. ReadingExact' /\ FlagsExact'
      BY <1>8 DEF ReleaseWriteGate, CountExact
    <2> QED BY <2>1, <2>2, <2>3
  <1>9. ASSUME NEW t \in Threads, StartRead(t) PROVE IInv'
    <2>1. TypeOK' /\ OwnersExact'
      BY <1>9, ThreadsAssumption DEF StartRead
    <2>2. CountExact'
      BY <1>9, CountSame DEF StartRead, CountExact
    <2>3. ReadingExact' /\ FlagsExact'
      BY <1>9 DEF StartRead, CountExact
    <2> QED BY <2>1, <2>2, <2>3
  <1>10. ASSUME NEW t \in Threads, ReadGate(t) PROVE IInv'
    <2>1. TypeOK' /\ OwnersExact'
      BY <1>10, ThreadsAssumption DEF ReadGate
    <2>2. CountExact'
      BY <1>10, CountSame DEF ReadGate, CountExact
    <2>3. ReadingExact' /\ FlagsExact'
      BY <1>10 DEF ReadGate, CountExact
    <2> QED BY <2>1, <2>2, <2>3
  <1>11. ASSUME NEW t \in Threads, ReadPassGate(t) PROVE IInv'
    <2>1. TypeOK' /\ OwnersExact'
      BY <1>11, ThreadsAssumption DEF ReadPassGate
    <2>2. CountExact'
      BY <1>11, CountSame DEF ReadPassGate, CountExact
    <2>3. ReadingExact' /\ FlagsExact'
      BY <1>11 DEF ReadPassGate, CountExact
    <2> QED BY <2>1, <2>2, <2>3
  <1>12. ASSUME NEW t \in Threads, ReadLockFirst(t) PROVE IInv'
    <2>1. TypeOK' /\ OwnersExact'
      BY <1>12, ThreadsAssumption DEF ReadLockFirst, LockReading
    <2>2. CountExact'
      BY <1>12, CountSame DEF ReadLockFirst, LockReading, CountExact
    <2>3. ReadingExact' /\ FlagsExact'
      BY <1>12 DEF ReadLockFirst, LockReading, CountExact
    <2> QED BY <2>1, <2>2, <2>3
  <1>13. ASSUME NEW t \in Threads, ReadLeaveCount(t) PROVE IInv'
    <2>1. TypeOK' /\ OwnersExact'
      BY <1>13, ThreadsAssumption DEF ReadLeaveCount, LeaveCount
    <2>2. CountExact'
      BY <1>13, CountSame DEF ReadLeaveCount, LeaveCount, CountExact
    <2>3. ReadingExact' /\ FlagsExact'
      BY <1>13 DEF ReadLeaveCount, LeaveCount, CountExact
    <2> QED BY <2>1, <2>2, <2>3
  <1>14. ASSUME NEW t \in Threads, StartShort(t) PROVE IInv'
    <2>1. TypeOK' /\ OwnersExact'
      BY <1>14, ThreadsAssumption DEF StartShort
    <2>2. CountExact'
      BY <1>14, CountSame DEF StartShort, CountExact
    <2>3. ReadingExact' /\ FlagsExact'
      BY <1>14 DEF StartShort, CountExact
    <2> QED BY <2>1, <2>2, <2>3
  <1>15. ASSUME NEW t \in Threads, ShortGate(t) PROVE IInv'
    <2>1. TypeOK' /\ OwnersExact'
      BY <1>15, ThreadsAssumption DEF ShortGate
    <2>2. CountExact'
      BY <1>15, CountSame DEF ShortGate, CountExact
    <2>3. ReadingExact' /\ FlagsExact'
      BY <1>15 DEF ShortGate, CountExact
    <2> QED BY <2>1, <2>2, <2>3
  <1>16. ASSUME NEW t \in Threads, ShortGiveUp(t) PROVE IInv'
    <2>1. TypeOK' /\ OwnersExact'
      BY <1>16, ThreadsAssumption DEF ShortGiveUp
    <2>2. CountExact'
      BY <1>16, CountSame DEF ShortGiveUp, CountExact
    <2>3. ReadingExact' /\ FlagsExact'
      BY <1>16 DEF ShortGiveUp, CountExact
    <2> QED BY <2>1, <2>2, <2>3
  <1>17. ASSUME NEW t \in Threads, ShortPassGate(t) PROVE IInv'
    <2>1. TypeOK' /\ OwnersExact'
      BY <1>17, ThreadsAssumption DEF ShortPassGate
    <2>2. CountExact'
      BY <1>17, CountSame DEF ShortPassGate, CountExact
    <2>3. ReadingExact' /\ FlagsExact'
      BY <1>17 DEF ShortPassGate, CountExact
    <2> QED BY <2>1, <2>2, <2>3
  <1>18. ASSUME NEW t \in Threads, DowngradeStart(t) PROVE IInv'
    <2>1. TypeOK' /\ OwnersExact'
      BY <1>18, ThreadsAssumption DEF DowngradeStart
    <2>2. CountExact'
      <3>1. CountedThreads' = CountedThreads
        <4>1. PICK w \in Writing : Goto(t, w, "downcount")
          BY <1>18 DEF DowngradeStart
        <4> QED BY <4>1, CountSame
      <3> QED BY <1>18, <3>1 DEF DowngradeStart, CountExact
    <2>3. ReadingExact' /\ FlagsExact'
      BY <1>18 DEF DowngradeStart, CountExact
    <2> QED BY <2>1, <2>2, <2>3
  <1>19. ASSUME NEW t \in Threads, DowngradeLockFirst(t) PROVE IInv'
    <2>1. TypeOK' /\ OwnersExact'
      BY <1>19, ThreadsAssumption DEF DowngradeLockFirst, LockReading
    <2>2. CountExact'
      BY <1>19, CountSame DEF DowngradeLockFirst, LockReading, CountExact
    <2>3. ReadingExact' /\ FlagsExact'
      BY <1>19 DEF DowngradeLockFirst, LockReading, CountExact
    <2> QED BY <2>1, <2>2, <2>3
  <1>20. ASSUME NEW t \in Threads, DowngradeLeaveCount(t) PROVE IInv'
    <2>1. TypeOK' /\ OwnersExact'
      BY <1>20, ThreadsAssumption DEF DowngradeLeaveCount, LeaveCount
    <2>2. CountExact'
      BY <1>20, CountSame DEF DowngradeLeaveCount, LeaveCount, CountExact
    <2>3. ReadingExact' /\ FlagsExact'
      BY <1>20 DEF DowngradeLeaveCount, LeaveCount, CountExact
    <2> QED BY <2>1, <2>2, <2>3
  <1>21. ASSUME NEW t \in Threads, DowngradeOpenGate(t) PROVE IInv'
    <2>1. TypeOK' /\ OwnersExact'
      BY <1>21, ThreadsAssumption DEF DowngradeOpenGate
    <2>2. CountExact'
      BY <1>21, CountSame DEF DowngradeOpenGate, CountExact
    <2>3. ReadingExact' /\ FlagsExact'
      BY <1>21 DEF DowngradeOpenGate, CountExact
    <2> QED BY <2>1, <2>2, <2>3
  <1>22. ASSUME NEW t \in Threads, ReadCount(t) PROVE IInv'
    <2>1. TypeOK' /\ OwnersExact'
      BY <1>22, ThreadsAssumption DEF ReadCount, EnterCount
    <2>2. CountExact'
      <3>1. CountedThreads' = CountedThreads \cup {t}
            /\ Cardinality(CountedThreads') = Cardinality(CountedThreads) + 1
        BY <1>22, CountJoin DEF ReadCount, EnterCount
      <3>2. read_count' = Cardinality(CountedThreads')
        BY <1>22, <3>1 DEF ReadCount, EnterCount, CountExact
      <3>3. read_count = 0 => CountedThreads = {}
        BY CountedFinite, FS_EmptySet DEF CountExact
      <3>4. \A u \in Threads : pc[u] \notin CountHolder
        BY <1>22, ThreadsAssumption DEF ReadCount, EnterCount
      <3>5. \A u \in Threads : pc'[u] \in {"first", "downfirst"} => CountedThreads' = {u}
        BY <1>22, <3>1, <3>3, <3>4 DEF ReadCount, EnterCount
      <3> QED BY <3>2, <3>5 DEF CountExact
    <2>3. ReadingExact' /\ FlagsExact'
      <3>1. read_count # 0 => \E u \in Threads : pc[u] \in Inside
        <4>1. \A u \in Threads : pc[u] \notin CountHolder
          BY <1>22, ThreadsAssumption DEF ReadCount, EnterCount
        <4>2. read_count # 0 => CountedThreads # {}
          BY FS_EmptySet DEF CountExact
        <4> QED BY <4>1, <4>2 DEF CountedThreads
      <3> QED BY <1>22, <3>1 DEF ReadCount, EnterCount
    <2> QED BY <2>1, <2>2, <2>3
  <1>23. ASSUME NEW t \in Threads, DowngradeCount(t) PROVE IInv'
    <2>1. TypeOK' /\ OwnersExact'
      BY <1>23, ThreadsAssumption DEF DowngradeCount, EnterCount
    <2>2. CountExact'
      <3>1. CountedThreads' = CountedThreads \cup {t}
            /\ Cardinality(CountedThreads') = Cardinality(CountedThreads) + 1
        BY <1>23, CountJoin DEF DowngradeCount, EnterCount
      <3>2. read_count' = Cardinality(CountedThreads')
        BY <1>23, <3>1 DEF DowngradeCount, EnterCount, CountExact
      <3>3. read_count = 0 => CountedThreads = {}
        BY CountedFinite, FS_EmptySet DEF CountExact
      <3>4. \A u \in Threads : pc[u] \notin CountHolder
        BY <1>23, ThreadsAssumption DEF DowngradeCount, EnterCount
      <3>5. \A u \in Threads : pc'[u] \in {"first", "downfirst"} => CountedThreads' = {u}
        BY <1>23, <3>1, <3>3, <3>4 DEF DowngradeCount, EnterCount
      <3> QED BY <3>2, <3>5 DEF CountExact
    <2>3. ReadingExact' /\ FlagsExact'
      <3>1. read_count # 0 => \E u \in Threads : pc[u] \in Inside
        <4>1. \A u \in Threads : pc[u] \notin CountHolder
          BY <1>23, ThreadsAssumption DEF DowngradeCount, EnterCount
        <4>2. read_count # 0 => CountedThreads # {}
          BY FS_EmptySet DEF CountExact
        <4> QED BY <4>1, <4>2 DEF CountedThreads
      <3> QED BY <1>23, <3>1 DEF DowngradeCount, EnterCount
    <2> QED BY <2>1, <2>2, <2>3
  <1>24. ASSUME NEW t \in Threads, ReleaseReadCount(t) PROVE IInv'
    <2>1. CountedThreads' = CountedThreads \ {t}
          /\ Cardinality(CountedThreads') = Cardinality(CountedThreads) - 1
          /\ Cardinality(CountedThreads) \in Nat \ {0}
          /\ (Cardinality(CountedThreads) = 1 => CountedThreads = {t})
      BY <1>24, CountLeave DEF ReleaseReadCount
    <2>2. \A u \in Threads : pc[u] \notin CountHolder
      BY <1>24, ThreadsAssumption DEF ReleaseReadCount
    <2>3. TypeOK' /\ OwnersExact'
      <3>1. read_count' \in Nat
        BY <1>24 DEF ReleaseReadCount
      <3>2. reading_mutex' \in BOOLEAN
        BY <1>24 DEF ReleaseReadCount
      <3>3. TypeOK'
        BY <1>24, <3>1, <3>2 DEF ReleaseReadCount
      <3>4. OwnersExact'
        BY <1>24, ThreadsAssumption DEF ReleaseReadCount
      <3> QED BY <3>3, <3>4
    <2>4. CountExact'
      BY <1>24, <2>1, <2>2 DEF ReleaseReadCount, CountExact
    <2>5. read_count # 1 => \E u \in Threads \ {t} : pc[u] \in Inside
      <3>1. ASSUME CountedThreads \ {t} = {} PROVE read_count = 1
        <4>1. Cardinality(CountedThreads') = 0
          BY <3>1, <2>1, FS_EmptySet
        <4> QED BY <4>1, <2>1 DEF CountExact
      <3> QED BY <3>1, <2>2 DEF CountedThreads
    <2>6. read_count = 1 => \A u \in Threads \ {t} : pc[u] \notin Counted
      BY <2>1 DEF CountExact, CountedThreads
    <2>7. ReadingExact' /\ FlagsExact'
      BY <1>24, <2>1, <2>5, <2>6 DEF ReleaseReadCount, CountExact
    <2> QED BY <2>3, <2>4, <2>7
  <1>25. ASSUME NEW t \in Threads, ReleaseEither(t) PROVE IInv'
    <2>1. CASE writer = 1
      <3>1. ReleaseWriteReading(t)
        BY <1>25, <2>1 DEF ReleaseEither, ReleaseWriteReading
      <3> QED BY <3>1, <1>7
    <2>2. CASE writer # 1
      <3>1. ReleaseReadCount(t)
        BY <1>25, <2>2 DEF ReleaseEither, ReleaseReadCount
      <3> QED BY <3>1, <1>24
    <2> QED BY <2>1, <2>2
  <1>26. CASE UNCHANGED vars
    <2>1. CountedThreads' = CountedThreads
      BY <1>26 DEF vars, CountedThreads
    <2> QED BY <1>26, <2>1 DEF vars, CountExact
  <1> QED
    BY <1>1, <1>2, <1>3, <1>4, <1>5, <1>6, <1>7, <1>8, <1>9, <1>10, <1>11,
       <1>12, <1>13, <1>14, <1>15, <1>16, <1>17, <1>18, <1>19, <1>20, <1>21,
       <1>22, <1>23, <1>24, <1>25, <1>26
    DEF Next, Request, Acquire, Release, Downgrade

-----------------------------------------------------------------------------
\* The fields of a MultiReaderSingleWriter agree with the places of the
\* threads inside the functions of ltfs_locking.h, in every reachable state.
THEOREM Invariance == Spec => []IInv
  <1>1. Init => IInv
    BY InitIInv
  <1>2. IInv /\ [Next]_vars => IInv'
    BY NextIInv
  <1> QED BY <1>1, <1>2, PTL DEF Spec

\* No thread holds the lock for writing while another holds it, whichever of
\* the acquire functions and of writetoread_mrsw brought it there.
THEOREM MutualExclusionHolds == Spec => []MutualExclusion
  <1>1. IInv => MutualExclusion
    <2> SUFFICES ASSUME IInv, NEW t \in Threads, NEW u \in Threads,
                        HoldsWrite(t), u # t
                 PROVE  ~HoldsRead(u) /\ ~HoldsWrite(u)
      BY DEF MutualExclusion
    <2>1. write_exclusive_mutex = t
      BY DEF IInv, OwnersExact, HoldsWrite, Writing, GateHolder
    <2>2. pc[u] \notin GateHolder
      BY <2>1, ThreadsAssumption DEF IInv, OwnersExact
    <2>3. pc[u] \notin Inside
      BY DEF IInv, ReadingExact, HoldsWrite
    <2> QED
      BY <2>2, <2>3 DEF HoldsRead, HoldsWrite, Inside, GateHolder, Writing
  <1> QED BY <1>1, Invariance, PTL

\* release_mrsw, which reads mrsw->writer without a lock, takes the branch of
\* the mode in which its caller holds the lock.
THEOREM ReleasePicksModeHolds == Spec => []ReleasePicksMode
  <1>1. IInv => ReleasePicksMode
    BY DEF IInv, TypeOK, FlagsExact, ReadingExact, ReleasePicksMode,
           HoldsWrite, Writing, Inside
  <1> QED BY <1>1, Invariance, PTL

-----------------------------------------------------------------------------
(* MRSW implements RWLock.                                                 *)

\* Every step moves one thread, and never from reading to writing: the lock
\* has no upgrade.
LEMMA StepMoves ==
  ASSUME TypeOK, NEW t \in Threads,
         Request(t) \/ Acquire(t) \/ Release(t) \/ Downgrade(t)
  PROVE  \E p \in Places : /\ pc' = [pc EXCEPT ![t] = p]
                           /\ HoldsRead(t) => p \notin Writing
  <1>1. ASSUME NEW p \in Places, NEW q \in Places, Goto(t, p, q),
               p \in {"counted", "reading", "downcount", "downfirst",
                      "downcounted", "downgate"} => q \notin Writing
        PROVE  \E r \in Places : /\ pc' = [pc EXCEPT ![t] = r]
                                 /\ HoldsRead(t) => r \notin Writing
    BY <1>1 DEF Goto, HoldsRead
  <1>2. CASE Request(t)
    BY <1>1, <1>2 DEF Request, StartWrite, StartRead, StartShort, TryGate,
       Places, GateHolder, CountHolder, Counted, Writing
  <1>3. CASE Acquire(t)
    BY <1>1, <1>3 DEF Acquire, WriteGate, WriteEnter, TryReading, TryGiveUp, ReadGate,
       ReadPassGate, ReadCount, ReadLockFirst, ReadLeaveCount, ShortGate,
       ShortGiveUp, ShortPassGate, EnterCount, LockReading, LeaveCount,
       Places, GateHolder, CountHolder, Counted, Writing
  <1>4. CASE Release(t)
    <2>1. CASE ReleaseEither(t)
      BY <2>1 DEF ReleaseEither, Places, GateHolder, CountHolder, Counted, Writing
    <2>2. CASE ReleaseWriteReading(t) \/ ReleaseWriteGate(t) \/ ReleaseReadCount(t)
      BY <1>1, <2>2 DEF ReleaseWriteReading, ReleaseWriteGate, ReleaseReadCount,
         Places, GateHolder, CountHolder, Counted, Writing
    <2> QED BY <1>4, <2>1, <2>2 DEF Release
  <1>5. CASE Downgrade(t)
    BY <1>1, <1>5 DEF Downgrade, DowngradeStart, DowngradeCount, DowngradeLockFirst,
       DowngradeLeaveCount, DowngradeOpenGate, EnterCount, LockReading, LeaveCount,
       Places, GateHolder, CountHolder, Counted, Writing
  <1> QED BY <1>2, <1>3, <1>4, <1>5

\* The threads that hold the lock in each mode: the state of RWLock.
Readers == {u \in Threads : HoldsRead(u)}
WritersNow == {u \in Threads : HoldsWrite(u)}

\* A move of one thread between states that exclude each other is a step of
\* the abstract lock, or changes nothing of it.
LEMMA MoveMaps ==
  ASSUME TypeOK, MutualExclusion, MutualExclusion', NEW t \in Threads,
         NEW p \in Places, pc' = [pc EXCEPT ![t] = p],
         HoldsRead(t) => p \notin Writing
  PROVE  [RW!RWNext]_(RW!rwVars)
  <1>1. \A u \in Threads \ {t} : /\ HoldsRead(u)' <=> HoldsRead(u)
                                 /\ HoldsWrite(u)' <=> HoldsWrite(u)
    BY DEF TypeOK, HoldsRead, HoldsWrite
  <1>2. HoldsWrite(t)' => ~HoldsRead(t)
    BY DEF TypeOK, HoldsRead, HoldsWrite
  <1>3. ~(HoldsRead(t) /\ HoldsWrite(t)) /\ ~(HoldsRead(t)' /\ HoldsWrite(t)')
    BY DEF HoldsRead, HoldsWrite, Writing
  <1>4. \A u \in Threads \ {t} :
          /\ HoldsWrite(t) => ~HoldsRead(u) /\ ~HoldsWrite(u)
          /\ HoldsWrite(t)' => ~HoldsRead(u) /\ ~HoldsWrite(u)
          /\ HoldsRead(t)' => ~HoldsWrite(u)
    BY <1>1 DEF MutualExclusion
  <1>5. CASE HoldsWrite(t)
    <2>1. WritersNow = {t} /\ Readers = {}
      BY <1>3, <1>4, <1>5 DEF Readers, WritersNow
    <2>2. CASE HoldsWrite(t)'
      <3>1. WritersNow' = WritersNow /\ Readers' = Readers
        BY <1>1, <1>3, <1>5, <2>2 DEF Readers, WritersNow
      <3> QED BY <3>1 DEF RW!rwVars, Readers, WritersNow
    <2>3. CASE HoldsRead(t)'
      <3>1. WritersNow' = {} /\ Readers' = Readers \cup {t}
        BY <1>1, <1>3, <1>4, <1>5, <2>3 DEF Readers, WritersNow
      <3> QED BY <2>1, <3>1 DEF RW!RWNext, RW!Downgrade, Readers, WritersNow
    <2>4. CASE ~HoldsWrite(t)' /\ ~HoldsRead(t)'
      <3>1. WritersNow' = {} /\ Readers' = Readers
        BY <1>1, <1>3, <1>4, <1>5, <2>4 DEF Readers, WritersNow
      <3> QED BY <2>1, <3>1 DEF RW!RWNext, RW!ReleaseWrite, Readers, WritersNow
    <2> QED BY <2>2, <2>3, <2>4
  <1>6. CASE HoldsRead(t)
    <2>1. ~HoldsWrite(t)' /\ WritersNow' = WritersNow
      BY <1>1, <1>2, <1>3, <1>6 DEF WritersNow
    <2>2. CASE HoldsRead(t)'
      <3>1. Readers' = Readers
        BY <1>1, <1>6, <2>2 DEF Readers
      <3> QED BY <2>1, <3>1 DEF RW!rwVars, Readers, WritersNow
    <2>3. CASE ~HoldsRead(t)'
      <3>1. t \in Readers /\ Readers' = Readers \ {t}
        BY <1>1, <1>6, <2>3 DEF Readers
      <3> QED BY <2>1, <3>1 DEF RW!RWNext, RW!ReleaseRead, Readers, WritersNow
    <2> QED BY <2>2, <2>3
  <1>7. CASE ~HoldsRead(t) /\ ~HoldsWrite(t)
    <2>1. CASE HoldsWrite(t)'
      <3>1. Readers = {} /\ WritersNow = {} /\ Readers' = Readers /\ WritersNow' = {t}
        BY <1>1, <1>3, <1>4, <1>7, <2>1 DEF Readers, WritersNow
      <3> QED BY <3>1 DEF RW!RWNext, RW!AcquireWrite, Readers, WritersNow
    <2>2. CASE HoldsRead(t)'
      <3>1. WritersNow = {} /\ WritersNow' = WritersNow /\ Readers' = Readers \cup {t}
        BY <1>1, <1>3, <1>4, <1>7, <2>2 DEF Readers, WritersNow
      <3> QED BY <3>1 DEF RW!RWNext, RW!AcquireRead, Readers, WritersNow
    <2>3. CASE ~HoldsWrite(t)' /\ ~HoldsRead(t)'
      <3>1. WritersNow' = WritersNow /\ Readers' = Readers
        BY <1>1, <1>7, <2>3 DEF Readers, WritersNow
      <3> QED BY <3>1 DEF RW!rwVars, Readers, WritersNow
    <2> QED BY <2>1, <2>2, <2>3
  <1> QED BY <1>5, <1>6, <1>7

\* The three mutexes, the count and the flags implement a readers-writer lock
\* with an atomic downgrade: each mutex operation of ltfs_locking.h is one of
\* its steps or invisible.
THEOREM ImplementsRWLock == Spec => Refinement
  <1>1. Init => RW!RWInit
    BY DEF Init, RW!RWInit, HoldsRead, HoldsWrite, Writing
  <1>2. IInv /\ IInv' /\ MutualExclusion /\ MutualExclusion' /\ [Next]_vars
          => [RW!RWNext]_(RW!rwVars)
    <2> SUFFICES ASSUME IInv, MutualExclusion, MutualExclusion', [Next]_vars
                 PROVE  [RW!RWNext]_(RW!rwVars)
      OBVIOUS
    <2>1. CASE UNCHANGED vars
      BY <2>1 DEF vars, RW!rwVars, HoldsRead, HoldsWrite
    <2>2. CASE Next
      <3>1. PICK t \in Threads : Request(t) \/ Acquire(t) \/ Release(t) \/ Downgrade(t)
        BY <2>2 DEF Next
      <3>2. TypeOK
        BY DEF IInv
      <3>3. PICK p \in Places : /\ pc' = [pc EXCEPT ![t] = p]
                                /\ HoldsRead(t) => p \notin Writing
        BY <3>1, <3>2, StepMoves
      <3> QED BY <3>2, <3>3, MoveMaps
    <2> QED BY <2>1, <2>2
  <1> QED
    BY <1>1, <1>2, Invariance, MutualExclusionHolds, PTL DEF Spec, Refinement, RW!RWSpec
=============================================================================
