---------------------------- MODULE SchedulerProofs ---------------------------
(***************************************************************************)
(* What the I/O scheduler promises, for any number of users, files,        *)
(* dentry_priv structures and cache objects and any number of calls.       *)
(*                                                                         *)
(* CachePool: the capacity is the number of objects, a caller below the    *)
(* limit is served, and the pool implements the counter of blocks of       *)
(* BlockPool.                                                              *)
(*                                                                         *)
(* UnifiedSched: FilesInv is inductive and gives FilesHeld. It says more   *)
(* than FilesHeld where a step would otherwise not keep it: who has which  *)
(* lock (LocksHeld), what a close may still rely on (Claims), who is left  *)
(* to write data that are not written (Unwritten), that no structure is on *)
(* a queue twice (OnQueues), and how far a flush of all files or an        *)
(* unmount is (Finished).                                                  *)
(***************************************************************************)
EXTENDS CachePool, UnifiedSched, FiniteSetTheorems, SequenceTheorems, TLAPS

-----------------------------------------------------------------------------
(* The cache pool.                                                         *)

\* Nobody holds an object at the start.
LEMMA HeldInit == Init => Held = {}
  BY DEF Init, Held

\* Handing out an object nobody holds adds it to Held.
LEMMA HeldAdds ==
  ASSUME TypeOK, NEW o \in Objects, o \notin Held,
         refcount' = [refcount EXCEPT ![o] = 1]
  PROVE  /\ Held' = Held \cup {o}
         /\ IsFiniteSet(Held')
         /\ Cardinality(Held') = Cardinality(Held) + 1
         /\ refcount' \in [Objects -> Nat]
<1>1. Held' = Held \cup {o}
  BY DEF TypeOK, Held
<1>2. QED
  BY <1>1, FS_AddElement DEF TypeOK

\* The last reference to an object takes it out of Held, any other leaves Held
\* as it is.
LEMMA HeldDrops ==
  ASSUME TypeOK, NEW o \in Objects, refcount[o] > 0,
         refcount' = [refcount EXCEPT ![o] = @ - 1]
  PROVE  /\ refcount' \in [Objects -> Nat]
         /\ refcount[o] > 1 => Held' = Held
         /\ ~(refcount[o] > 1) => Held' = Held \ {o}
         /\ IsFiniteSet(Held \ {o})
         /\ Cardinality(Held \ {o}) = Cardinality(Held) - 1
<1>1. refcount[o] \in Nat /\ o \in Held
  BY DEF TypeOK, Held
<1>2. refcount' \in [Objects -> Nat]
  BY <1>1 DEF TypeOK
<1>3. refcount[o] > 1 => Held' = Held
  BY <1>1 DEF TypeOK, Held
<1>4. ~(refcount[o] > 1) => Held' = Held \ {o}
  BY <1>1 DEF TypeOK, Held
<1>5. IsFiniteSet(Held \ {o}) /\ Cardinality(Held \ {o}) = Cardinality(Held) - 1
  BY <1>1, FS_RemoveElement DEF TypeOK
<1>6. QED
  BY <1>2, <1>3, <1>4, <1>5

\* A pool that may grow has room: NewSize is above the capacity and within the
\* limit, which the doubling of cache_manager_allocate_object relies on.
LEMMA NewSizeGrows ==
  ASSUME current_capacity \in InitialCapacity..MaxCapacity, current_capacity # MaxCapacity
  PROVE  NewSize \in (current_capacity + 1)..MaxCapacity
  BY CapacityAssumption DEF NewSize

\* The invariant, action by action.
LEMMA InitInv == Init => IInv
<1> SUFFICES ASSUME Init PROVE IInv
  OBVIOUS
<1>1. Held = {} /\ IsFiniteSet(Held) /\ Cardinality(Held) = 0
  BY HeldInit, FS_EmptySet
<1>2. QED
  BY <1>1, CapacityAssumption DEF Init, IInv, TypeOK, CapacityExact

LEMMA AllocateReadyInv == IInv /\ AllocateReady => IInv'
<1> SUFFICES ASSUME IInv, AllocateReady PROVE IInv'
  OBVIOUS
<1> USE DEF IInv
<1>1. PICK o \in pool :
        /\ pool' = pool \ {o}
        /\ refcount' = [refcount EXCEPT ![o] = 1]
        /\ UNCHANGED current_capacity
  BY DEF AllocateReady
<1>2. o \in Objects /\ o \notin Held
  BY DEF TypeOK, CapacityExact
<1>3. /\ Held' = Held \cup {o} /\ IsFiniteSet(Held')
      /\ Cardinality(Held') = Cardinality(Held) + 1
      /\ refcount' \in [Objects -> Nat]
  BY <1>1, <1>2, HeldAdds
<1>4. IsFiniteSet(pool') /\ Cardinality(pool') = Cardinality(pool) - 1
  BY <1>1, FS_RemoveElement DEF TypeOK
<1>5. TypeOK'
  BY <1>1, <1>3, <1>4 DEF TypeOK
<1>6. Cardinality(pool) \in Nat /\ Cardinality(Held) \in Nat
  BY FS_CardinalityType DEF TypeOK
<1>7. CapacityExact'
  BY <1>1, <1>3, <1>4, <1>6 DEF CapacityExact
<1>8. QED
  BY <1>5, <1>7

LEMMA AllocateGrowInv == IInv /\ AllocateGrow => IInv'
<1> SUFFICES ASSUME IInv, AllocateGrow PROVE IInv'
  OBVIOUS
<1> USE DEF IInv
<1>1. PICK new \in SUBSET Unborn :
        /\ IsFiniteSet(new)
        /\ Cardinality(new) \in 1..(NewSize - current_capacity)
        /\ current_capacity' = current_capacity + Cardinality(new)
        /\ \E o \in new : pool' = new \ {o} /\ refcount' = [refcount EXCEPT ![o] = 1]
  BY DEF AllocateGrow
<1>2. PICK o \in new : pool' = new \ {o} /\ refcount' = [refcount EXCEPT ![o] = 1]
  BY <1>1
<1>3. /\ pool = {} /\ Cardinality(pool) = 0
      /\ NewSize \in (current_capacity + 1)..MaxCapacity
  BY NewSizeGrows, FS_EmptySet DEF AllocateGrow, CapacityExact
<1>4. o \in Objects /\ o \notin Held /\ new \subseteq Objects /\ new \cap Held = {}
  BY DEF Unborn
<1>5. /\ Held' = Held \cup {o} /\ IsFiniteSet(Held')
      /\ Cardinality(Held') = Cardinality(Held) + 1
      /\ refcount' \in [Objects -> Nat]
  BY <1>2, <1>4, HeldAdds
<1>6. IsFiniteSet(pool') /\ Cardinality(pool') = Cardinality(new) - 1
  BY <1>1, <1>2, FS_RemoveElement
<1>7. Cardinality(new) \in Nat /\ Cardinality(Held) \in Nat
  BY <1>1, FS_CardinalityType DEF TypeOK
<1>8. TypeOK'
  BY <1>1, <1>2, <1>4, <1>5, <1>6, <1>7 DEF TypeOK
<1>9. pool' \cap Held' = {}
  BY <1>2, <1>4, <1>5
<1>10. current_capacity' = Cardinality(pool') + Cardinality(Held')
  BY <1>1, <1>3, <1>5, <1>6, <1>7 DEF CapacityExact, TypeOK
<1>11. current_capacity' \in InitialCapacity..MaxCapacity
  BY <1>1, <1>3, <1>7, CapacityAssumption DEF CapacityExact, TypeOK
<1>12. QED
  BY <1>8, <1>9, <1>10, <1>11 DEF CapacityExact

LEMMA GetObjectInv ==
  ASSUME IInv, NEW o \in Objects, GetObject(o)
  PROVE  IInv' /\ Held' = Held
<1> USE DEF IInv
<1>1. refcount[o] \in Nat /\ refcount[o] > 0
  BY CapacityAssumption DEF GetObject, TypeOK
<1>2. Held' = Held /\ refcount' \in [Objects -> Nat]
  BY <1>1 DEF GetObject, Held, TypeOK
<1>3. QED
  BY <1>2 DEF GetObject, TypeOK, CapacityExact

LEMMA FreeObjectInv ==
  ASSUME IInv, NEW o \in Objects, FreeObject(o)
  PROVE  IInv'
<1> USE DEF IInv
<1>1. refcount[o] > 0 /\ refcount' = [refcount EXCEPT ![o] = @ - 1]
  BY DEF FreeObject
<1>2. /\ refcount' \in [Objects -> Nat]
      /\ refcount[o] > 1 => Held' = Held
      /\ ~(refcount[o] > 1) => Held' = Held \ {o}
      /\ IsFiniteSet(Held \ {o})
      /\ Cardinality(Held \ {o}) = Cardinality(Held) - 1
  BY <1>1, HeldDrops
<1>3. Cardinality(pool) \in Nat /\ Cardinality(Held) \in Nat /\ o \in Held
  BY <1>1, FS_CardinalityType DEF TypeOK, Held
<1>4. CASE refcount[o] > 1
  BY <1>2, <1>4 DEF FreeObject, TypeOK, CapacityExact
<1>5. CASE ~(refcount[o] > 1) /\ current_capacity > InitialCapacity
  <2>1. UNCHANGED pool /\ current_capacity' = current_capacity - 1 /\ Held' = Held \ {o}
    BY <1>2, <1>5 DEF FreeObject
  <2>2. TypeOK'
    BY <1>2, <1>5, <2>1, CapacityAssumption DEF TypeOK
  <2>3. CapacityExact'
    BY <1>2, <1>3, <1>5, <2>1, CapacityAssumption DEF CapacityExact, TypeOK
  <2>4. QED
    BY <2>2, <2>3
<1>6. CASE ~(refcount[o] > 1) /\ ~(current_capacity > InitialCapacity)
  <2>1. UNCHANGED current_capacity /\ pool' = pool \cup {o} /\ Held' = Held \ {o}
    BY <1>2, <1>6 DEF FreeObject
  <2>2. o \notin pool
    BY <1>3 DEF CapacityExact
  <2>3. IsFiniteSet(pool') /\ Cardinality(pool') = Cardinality(pool) + 1
    BY <2>1, <2>2, FS_AddElement DEF TypeOK
  <2>4. TypeOK'
    BY <1>2, <2>1, <2>3 DEF TypeOK
  <2>5. CapacityExact'
    BY <1>2, <1>3, <2>1, <2>3 DEF CapacityExact, TypeOK
  <2>6. QED
    BY <2>4, <2>5
<1>7. QED
  BY <1>4, <1>5, <1>6

LEMMA NextInv == IInv /\ [Next]_vars => IInv'
<1> SUFFICES ASSUME IInv, [Next]_vars PROVE IInv'
  OBVIOUS
<1>1. CASE AllocateReady
  BY <1>1, AllocateReadyInv
<1>2. CASE AllocateGrow
  BY <1>2, AllocateGrowInv
<1>3. ASSUME NEW o \in Objects, GetObject(o) PROVE IInv'
  BY <1>3, GetObjectInv
<1>4. ASSUME NEW o \in Objects, FreeObject(o) PROVE IInv'
  BY <1>4, FreeObjectInv
<1>5. CASE UNCHANGED vars
  BY <1>5 DEF vars, IInv, TypeOK, CapacityExact, Held
<1>6. QED
  BY <1>1, <1>2, <1>3, <1>4, <1>5 DEF Next

\* The capacity cache_manager.c keeps is the number of objects there are, ready
\* or handed out, and stays between the low and the high water mark.
THEOREM Conservation == Spec => []IInv
<1>1. QED
  BY InitInv, NextInv, PTL DEF Spec

\* A caller of cache_manager_allocate_object is refused only at the high water
\* mark (or without memory).
THEOREM AvailableHolds == Spec => []Available
<1>1. IInv => Available
  <2> SUFFICES ASSUME IInv, Cardinality(Held) < MaxCapacity, pool = {}
               PROVE  current_capacity # MaxCapacity /\ NewSize > current_capacity
    BY DEF Available
  <2>1. current_capacity = Cardinality(Held) /\ Cardinality(Held) \in Nat
    BY FS_EmptySet, FS_CardinalityType DEF IInv, TypeOK, CapacityExact
  <2>2. current_capacity # MaxCapacity
    BY <2>1, CapacityAssumption
  <2>3. QED
    BY <2>2, NewSizeGrows DEF IInv, CapacityExact
<1>2. QED
  BY <1>1, Conservation, PTL

\* At every moment the pool counts what it made and serves who is below the high
\* water mark.
THEOREM PoolServesHolds == Spec => []PoolServes
<1>1. IInv /\ Available => PoolServes
  BY DEF PoolServes
<1>2. QED
  BY <1>1, Conservation, AvailableHolds, PTL

-----------------------------------------------------------------------------
\* Every step of the pool takes a block, gives one back, or changes nothing a
\* user of the pool can tell.
LEMMA StepCounts == IInv /\ [Next]_vars => [Counter!Take \/ Counter!Give]_(Cardinality(Held))
<1> SUFFICES ASSUME IInv, [Next]_vars
             PROVE  Counter!Take \/ Counter!Give \/ Cardinality(Held)' = Cardinality(Held)
  OBVIOUS
<1> DEFINE n == Cardinality(Held)
<1>1. n \in Nat /\ TypeOK
  BY FS_CardinalityType DEF IInv, TypeOK
<1>2. IInv' /\ n' \in Nat /\ n' <= MaxCapacity
  <2>1. IInv'
    BY NextInv
  <2>2. Cardinality(Held') \in Nat /\ Cardinality(pool') \in Nat
    BY <2>1, FS_CardinalityType DEF IInv, TypeOK
  <2>3. QED
    BY <2>1, <2>2, CapacityAssumption DEF IInv, CapacityExact
<1>3. ASSUME NEW o \in Objects, o \notin Held, refcount' = [refcount EXCEPT ![o] = 1]
      PROVE  Counter!Take
  <2>1. n' = n + 1
    BY <1>1, <1>3, HeldAdds
  <2>2. QED
    BY <1>1, <1>2, <2>1, CapacityAssumption DEF Counter!Take
<1>4. CASE AllocateReady
  BY <1>3, <1>4 DEF AllocateReady, IInv, TypeOK, CapacityExact
<1>5. CASE AllocateGrow
  BY <1>3, <1>5 DEF AllocateGrow, Unborn
<1>6. ASSUME NEW o \in Objects, GetObject(o) PROVE n' = n
  BY <1>6, GetObjectInv
<1>7. ASSUME NEW o \in Objects, FreeObject(o) PROVE Counter!Give \/ n' = n
  <2>1. refcount[o] > 0 /\ refcount' = [refcount EXCEPT ![o] = @ - 1]
    BY <1>7 DEF FreeObject
  <2>2. Held' = Held \/ n' = n - 1
    BY <1>1, <2>1, HeldDrops
  <2>3. n' = n - 1 => n > 0
    BY <1>1, <1>2
  <2>4. QED
    BY <2>2, <2>3 DEF Counter!Give
<1>8. CASE UNCHANGED vars
  BY <1>8 DEF vars, Held
<1>9. QED
  BY <1>4, <1>5, <1>6, <1>7, <1>8 DEF Next

\* The pool implements a counter of at most max_capacity blocks, which is how
\* unified.c uses it and UnifiedFile models it.
THEOREM PoolCountsBlocks == Spec => CountsBlocks
<1>1. Init => Counter!BPInit
  BY HeldInit, FS_EmptySet DEF Counter!BPInit
<1>2. QED
  BY <1>1, StepCounts, Conservation, PTL DEF Spec, CountsBlocks, Counter!BPSpec

-----------------------------------------------------------------------------
(* The files of the scheduler: the invariant.                              *)

\* A truncation that takes alternate extents forgets the place on the ext_queue.
ExtentsStay == "cut" \notin Does

InClose == {"flush", "free", "freeing", "leave"}
InCall == InClose \cup {"place", "put"}
AllFiles == {"flushall", "flushed"}
DataStates == {"PARTIAL", "DP"}

DentryStates == [alive : BOOLEAN, linked : BOOLEAN, matches : BOOLEAN, handles : Nat, priv : Dprs \cup {None}]
DprStates ==
  [live : BOOLEAN, file : Files \cup {NoFile}, reqs : SUBSET States, alt : BOOLEAN, wip : BOOLEAN, err : BOOLEAN]

UserStates == [at : {"idle"} \cup AllFiles, file : {NoFile}] \cup [at : InCall, file : Files]
BgStates ==
  [at : {"idle", "pick", "lock", "write", "error", "index", "flushall", "destroy", "gone"},
   q : {"DP", "PARTIAL"}, left : Nat, file : Files \cup {NoFile}, dpr : Dprs \cup {None}, taken : SUBSET States]

SchedTypes ==
  /\ dentry \in [Files -> DentryStates]
  /\ dpr \in [Dprs -> DprStates]
  /\ queue \in [States -> Seq(Dprs)] /\ ext_queue \in Seq(Dprs)
  /\ opens \in [Users -> SUBSET Files] /\ dirty \in [Users -> SUBSET Files]
  /\ user \in [Users -> UserStates]
  /\ bg \in BgStates
  /\ bg.at \in {"lock", "write", "error"} => bg.file \in Files
  /\ bg.at # "write" => bg.dpr = None
  /\ stopping \in BOOLEAN /\ fault \in {"none", "dentry"} /\ acts \in Nat /\ errors \in Nat

\* A dentry is there as long as there are handles on it.
Alive == \A d \in Files : dentry[d].alive = (dentry[d].handles > 0)

\* A dentry_priv that is there is that of its dentry, and one that is freed is
\* empty.
Owned ==
  /\ \A d \in Files : dentry[d].priv # None => dpr[dentry[d].priv].live /\ dpr[dentry[d].priv].file = d
  /\ \A p \in Dprs : IF dpr[p].live THEN dpr[p].file \in Files /\ dentry[dpr[p].file].priv = p ELSE dpr[p] = NoDpr

\* It is on a queue once, and just when there is something to be done for it,
\* but while a close writes what it has taken off the data queues.
Flushing(p) == \E u \in Users : user[u].at = "flush" /\ dentry[user[u].file].priv = p
Once(s) == \A i, j \in 1 .. Len(s) : s[i] = s[j] => i = j
Placed(p) ==
  /\ (p \in ToSet(queue["IP"])) = ("IP" \in dpr[p].reqs)
  /\ \A s \in DataStates : (p \in ToSet(queue[s])) = (s \in dpr[p].reqs /\ ~Flushing(p))
  /\ (p \in ToSet(ext_queue)) = dpr[p].alt
OnQueues == (\A s \in States : Once(queue[s])) /\ Once(ext_queue) /\ \A p \in Dprs : Placed(p)

\* Data that are not written have a user who will flush them, or are in a flush.
FlushedFile(d) == \E u \in Users : user[u].at = "flush" /\ user[u].file = d
Carried(p) ==
  dpr[p].reqs \cap DataStates # {} =>
    ~dpr[p].err /\ ((\E u \in Users : dpr[p].file \in dirty[u]) \/ FlushedFile(dpr[p].file))
Unwritten == (\A u \in Users : dirty[u] \subseteq opens[u]) /\ \A p \in Dprs : Carried(p)

\* Who has which lock.
LocksHeld ==
  /\ \A u, v \in Users : user[u].at \in InClose /\ user[v].at \in InClose /\ user[u].file = user[v].file => u = v
  /\ bg.at \in {"index", "flushall", "destroy"} => \A u \in Users : user[u].at \notin InClose \cup AllFiles
  /\ \A u, v \in Users : user[u].at \in AllFiles => user[v].at \notin InClose /\ (user[v].at \in AllFiles => u = v)
  /\ bg.at \in {"pick", "lock", "write", "error"} => \A u \in Users : user[u].at \notin AllFiles

\* What a close found out under them stays true.
Claim(u) ==
  LET p == dentry[user[u].file].priv
  IN  /\ user[u].at = "flush" => p # None
      /\ user[u].at = "freeing" => p # None /\ dpr[p].reqs = {} /\ ~dpr[p].alt
Claims == \A u \in Users : Claim(u)

\* How far a flush of all files and an unmount are.
Finished ==
  /\ (\E u \in Users : user[u].at = "flushed") => queue["DP"] = <<>> /\ queue["PARTIAL"] = <<>>
  /\ stopping => \A u \in Users : user[u] = Resting /\ opens[u] = {}
  /\ bg.at \in {"flushall", "destroy", "gone"} => stopping
  /\ stopping => bg.at \in {"flushall", "index", "destroy", "gone"}
  /\ bg.at \in {"destroy", "gone"} => queue["IP"] = <<>>
  /\ bg.at = "gone" => ext_queue = <<>>

FilesInv == SchedTypes /\ HandlesCounted /\ Alive /\ Owned /\ OnQueues /\ Unwritten /\ LocksHeld /\ Claims /\ Finished

-----------------------------------------------------------------------------
(* Queues.                                                                 *)

QueueOf(s) == s \in Seq(Dprs) /\ Once(s)

\* Taking a structure off a queue that has it once leaves the others there.
LEMMA Removal ==
  ASSUME NEW s, QueueOf(s), NEW p \in Dprs
  PROVE  QueueOf(RemoveFirst(s, p)) /\ ToSet(RemoveFirst(s, p)) = ToSet(s) \ {p}
<1> DEFINE n == Len(s)
           t == RemoveFirst(s, p)
<1>0. s \in Seq(Dprs) /\ n \in Nat /\ \A i, j \in 1 .. n : s[i] = s[j] => i = j
  BY DEF QueueOf, Once
<1>1. ToSet(s) = {s[i] : i \in 1 .. n}
  BY <1>0 DEF ToSet
<1>2. CASE \E i \in 1 .. n : s[i] = p
  <2> DEFINE k == SelectInSeq(s, LAMBDA v : v = p)
             I == {i \in 1 .. n : s[i] = p}
  <2>1. PICK i \in 1 .. n : s[i] = p
    BY <1>2
  <2>2. I = {i}
    BY <1>0, <2>1
  <2>3. k = i
    <3>1. k = Min(I)
      BY <2>2 DEF SelectInSeq
    <3>2. Min({i}) = i
      BY <2>1 DEF Min
    <3>3. QED
      BY <2>2, <3>1, <3>2
  <2>4. t = SubSeq(s, 1, i - 1) \o SubSeq(s, i + 1, n)
    BY <1>2, <2>3 DEF RemoveFirst, RemoveAt
  <2> HIDE DEF k, I
  <2>5. /\ SubSeq(s, 1, i - 1) \in Seq(Dprs) /\ Len(SubSeq(s, 1, i - 1)) = i - 1
        /\ \A j \in 1 .. i - 1 : SubSeq(s, 1, i - 1)[j] = s[j]
    BY <1>0, <2>1
  <2>6. /\ SubSeq(s, i + 1, n) \in Seq(Dprs) /\ Len(SubSeq(s, i + 1, n)) = n - i
        /\ \A j \in 1 .. n - i : SubSeq(s, i + 1, n)[j] = s[i + j]
    BY <1>0, <2>1
  <2>7. /\ t \in Seq(Dprs) /\ Len(t) = n - 1
        /\ \A j \in 1 .. n - 1 : t[j] = IF j <= i - 1 THEN s[j] ELSE s[j + 1]
    <3> DEFINE a == SubSeq(s, 1, i - 1)
               b == SubSeq(s, i + 1, n)
    <3> HIDE DEF a, b, t
    <3>1. t = a \o b /\ a \in Seq(Dprs) /\ b \in Seq(Dprs) /\ Len(a) = i - 1 /\ Len(b) = n - i
      BY <2>4, <2>5, <2>6 DEF a, b
    <3>2. t \in Seq(Dprs) /\ Len(t) = n - 1 /\ Len(a) + Len(b) = n - 1
      <4>0. ASSUME NEW x \in Seq(Dprs), NEW y \in Seq(Dprs)
            PROVE  x \o y \in Seq(Dprs) /\ Len(x \o y) = Len(x) + Len(y)
        OBVIOUS
      <4>1. t \in Seq(Dprs) /\ Len(t) = Len(a) + Len(b)
        BY <3>1, <4>0
      <4> HIDE DEF n
      <4>2. Len(a) + Len(b) = n - 1
        BY <1>0, <2>1, <3>1
      <4>3. QED
        BY <4>1, <4>2
    <3>3. ASSUME NEW j \in 1 .. n - 1
          PROVE  t[j] = IF j <= i - 1 THEN s[j] ELSE s[j + 1]
      <4>1. t[j] = IF j <= i - 1 THEN a[j] ELSE b[j - (i - 1)]
        <5>1. \A m \in 1 .. Len(a) + Len(b) : (a \o b)[m] = IF m <= Len(a) THEN a[m] ELSE b[m - Len(a)]
          BY <3>1
        <5>2. QED
          BY <3>1, <3>2, <5>1
      <4>2. CASE j <= i - 1
        BY <2>5, <4>1, <4>2 DEF a
      <4>3. CASE ~(j <= i - 1)
        <5>1. j - (i - 1) \in 1 .. n - i /\ i + (j - (i - 1)) = j + 1
          BY <1>0, <2>1, <4>3
        <5>2. b[j - (i - 1)] = s[i + (j - (i - 1))]
          BY <2>6, <5>1 DEF b
        <5>3. QED
          BY <4>1, <4>3, <5>1, <5>2
      <4>4. QED
        BY <4>2, <4>3
    <3>4. QED
      BY <3>2, <3>3 DEF t
  <2> HIDE DEF t
  <2>8. Once(t)
    <3>1. ASSUME NEW j \in 1 .. n - 1, NEW m \in 1 .. n - 1, t[j] = t[m]
          PROVE  j = m
      <4> DEFINE J == IF j <= i - 1 THEN j ELSE j + 1
                 M == IF m <= i - 1 THEN m ELSE m + 1
      <4>1. t[j] = s[J] /\ t[m] = s[M]
        BY <2>7
      <4>2. J \in 1 .. n /\ M \in 1 .. n /\ (J = M => j = m)
        BY <1>0, <2>1
      <4> HIDE DEF J, M
      <4>3. QED
        BY <1>0, <3>1, <4>1, <4>2
    <3>2. QED
      BY <2>7, <3>1 DEF Once
  <2>9. ToSet(t) = {t[j] : j \in 1 .. n - 1}
    BY <2>7 DEF ToSet
  <2>10. \A x \in ToSet(t) : x \in ToSet(s) /\ x # p
    <3>1. ASSUME NEW j \in 1 .. n - 1
          PROVE  t[j] \in ToSet(s) /\ t[j] # p
      <4> DEFINE J == IF j <= i - 1 THEN j ELSE j + 1
      <4>1. t[j] = s[J]
        BY <2>7
      <4>2. J \in 1 .. n /\ J # i
        BY <1>0, <2>1
      <4> HIDE DEF J
      <4>3. QED
        BY <1>0, <1>1, <2>1, <4>1, <4>2
    <3>2. QED
      BY <2>9, <3>1
  <2>11. \A x \in ToSet(s) : x # p => x \in ToSet(t)
    <3>1. ASSUME NEW m \in 1 .. n, s[m] # p
          PROVE  s[m] \in ToSet(t)
      <4> DEFINE J == IF m < i THEN m ELSE m - 1
      <4>1. m # i
        BY <2>1, <3>1
      <4>2. J \in 1 .. n - 1 /\ (IF J <= i - 1 THEN J ELSE J + 1) = m
        BY <1>0, <2>1, <4>1
      <4> HIDE DEF J
      <4>3. t[J] = s[m]
        BY <2>7, <4>2
      <4>4. QED
        BY <2>9, <4>2, <4>3
    <3>2. QED
      BY <1>1, <3>1
  <2>12. QED
    BY <2>7, <2>8, <2>10, <2>11 DEF QueueOf, t
<1>3. CASE ~\E i \in 1 .. n : s[i] = p
  <2>1. t = s
    BY <1>3 DEF RemoveFirst
  <2>2. p \notin ToSet(s)
    BY <1>1, <1>3
  <2>3. QED
    BY <2>1, <2>2
<1>4. QED
  BY <1>2, <1>3

\* A structure put behind a queue that does not have it is there once.
LEMMA Insertion ==
  ASSUME NEW s, QueueOf(s), NEW p \in Dprs, p \notin ToSet(s)
  PROVE  QueueOf(Append(s, p)) /\ ToSet(Append(s, p)) = ToSet(s) \cup {p}
<1> DEFINE n == Len(s)
           t == Append(s, p)
<1>0. s \in Seq(Dprs) /\ n \in Nat /\ \A i, j \in 1 .. n : s[i] = s[j] => i = j
  BY DEF QueueOf, Once
<1>1. ToSet(s) = {s[i] : i \in 1 .. n}
  BY <1>0 DEF ToSet
<1>2. t \in Seq(Dprs) /\ Len(t) = n + 1 /\ t[n + 1] = p /\ \A i \in 1 .. n : t[i] = s[i]
  BY <1>0
<1> HIDE DEF t
<1>3. ToSet(t) = {t[i] : i \in 1 .. n + 1}
  BY <1>2 DEF ToSet
<1>4. \A i \in 1 .. n + 1 : i \in 1 .. n \/ i = n + 1
  BY <1>0
<1>5. Once(t)
  <2>1. ASSUME NEW i \in 1 .. n + 1, NEW j \in 1 .. n + 1, t[i] = t[j]
        PROVE  i = j
    BY <1>0, <1>1, <1>2, <1>4, <2>1
  <2>2. QED
    BY <1>2, <2>1 DEF Once
<1>6. n + 1 \in 1 .. n + 1 /\ 1 .. n \subseteq 1 .. n + 1
  BY <1>0
<1>7. ToSet(t) = ToSet(s) \cup {p}
  BY <1>1, <1>2, <1>3, <1>4, <1>6
<1>8. QED
  BY <1>2, <1>5, <1>7 DEF QueueOf, t

\* The first of a queue, and the rest of it.
LEMMA HeadTail ==
  ASSUME NEW s, QueueOf(s), s # <<>>
  PROVE  /\ Head(s) \in Dprs /\ Head(s) \in ToSet(s)
         /\ QueueOf(Tail(s)) /\ ToSet(Tail(s)) = ToSet(s) \ {Head(s)}
<1> DEFINE n == Len(s)
           t == Tail(s)
<1>0. s \in Seq(Dprs) /\ n \in Nat /\ n > 0 /\ \A i, j \in 1 .. n : s[i] = s[j] => i = j
  BY DEF QueueOf, Once
<1>1. ToSet(s) = {s[i] : i \in 1 .. n} /\ Head(s) = s[1] /\ 1 \in 1 .. n
  BY <1>0 DEF ToSet
<1>2. t \in Seq(Dprs) /\ Len(t) = n - 1 /\ \A i \in 1 .. n - 1 : t[i] = s[i + 1]
  BY <1>0
<1> HIDE DEF t
<1>3. ToSet(t) = {t[i] : i \in 1 .. n - 1}
  BY <1>2 DEF ToSet
<1>4. \A i \in 1 .. n - 1 : i + 1 \in 1 .. n /\ i + 1 # 1
  BY <1>0
<1>5. Once(t)
  <2>1. ASSUME NEW i \in 1 .. n - 1, NEW j \in 1 .. n - 1, t[i] = t[j]
        PROVE  i = j
    <3>1. i + 1 = j + 1
      BY <1>0, <1>2, <1>4, <2>1
    <3>2. QED
      BY <3>1
  <2>2. QED
    BY <1>2, <2>1 DEF Once
<1>6. \A x \in ToSet(t) : x \in ToSet(s) /\ x # Head(s)
  BY <1>0, <1>1, <1>2, <1>3, <1>4
<1>7. \A x \in ToSet(s) : x # Head(s) => x \in ToSet(t)
  <2>1. ASSUME NEW i \in 1 .. n, s[i] # s[1]
        PROVE  s[i] \in ToSet(t)
    <3>1. i - 1 \in 1 .. n - 1 /\ (i - 1) + 1 = i
      BY <1>0, <2>1
    <3>2. t[i - 1] = s[i]
      BY <1>2, <3>1
    <3>3. QED
      BY <1>3, <3>1, <3>2
  <2>2. QED
    BY <1>1, <2>1
<1>8. Head(s) \in Dprs
  BY <1>0, <1>1
<1>9. QED
  BY <1>1, <1>2, <1>5, <1>6, <1>7, <1>8 DEF QueueOf, t

\* Nothing is on a queue just when it is empty.
LEMMA EmptyQueue ==
  ASSUME NEW s, QueueOf(s)
  PROVE  s = <<>> <=> ToSet(s) = {}
<1>1. s \in Seq(Dprs) /\ ToSet(s) = {s[i] : i \in 1 .. Len(s)}
  BY DEF QueueOf, ToSet
<1>2. CASE s = <<>>
  BY <1>1, <1>2
<1>3. CASE s # <<>>
  <2>1. 1 \in 1 .. Len(s)
    BY <1>1, <1>3
  <2>2. QED
    BY <1>1, <1>3, <2>1
<1>4. QED
  BY <1>2, <1>3

\* The queues by request state: what each operation leaves on them.
Queues(q) == q \in [States -> Seq(Dprs)] /\ \A s \in States : Once(q[s])

\* What is on the queues when a structure is taken off one of them.
LEMMA OffIs ==
  ASSUME NEW q, Queues(q), NEW s \in States, NEW p \in Dprs
  PROVE  /\ Queues(Off(q, s, p))
         /\ \A x \in States : \A o : o \in ToSet(Off(q, s, p)[x]) <=> o \in ToSet(q[x]) /\ ~(x = s /\ o = p)
<1> DEFINE r == RemoveFirst(q[s], p)
<1>1. QueueOf(q[s]) /\ q \in [States -> Seq(Dprs)]
  BY DEF Queues, QueueOf
<1>2. QueueOf(r) /\ ToSet(r) = ToSet(q[s]) \ {p}
  BY <1>1, Removal
<1> HIDE DEF r
<1>3. Off(q, s, p) = [q EXCEPT ![s] = r]
  BY DEF Off, r
<1>4. Queues(Off(q, s, p))
  BY <1>1, <1>2, <1>3 DEF Queues, QueueOf
<1>5. QED
  BY <1>1, <1>2, <1>3, <1>4

\* The same for the index queue.
LEMMA OffIPIs ==
  ASSUME NEW q, Queues(q), NEW p \in Dprs
  PROVE  /\ Queues(Off(q, "IP", p))
         /\ \A x \in States : \A o : o \in ToSet(Off(q, "IP", p)[x]) <=> o \in ToSet(q[x]) /\ ~(x = "IP" /\ o = p)
<1>1. "IP" \in States
  BY DEF States
<1>2. QED
  BY <1>1, OffIs

\* What is on them when it is put on one that may have it.
LEMMA OnIs ==
  ASSUME NEW q, Queues(q), NEW s \in States, NEW p \in Dprs
  PROVE  /\ Queues(On(q, s, p))
         /\ \A x \in States : \A o : o \in ToSet(On(q, s, p)[x]) <=> o \in ToSet(q[x]) \/ (x = s /\ o = p)
<1>1. CASE p \in ToSet(q[s])
  BY <1>1 DEF On
<1>2. CASE p \notin ToSet(q[s])
  <2> DEFINE r == Append(q[s], p)
  <2>1. QueueOf(q[s]) /\ q \in [States -> Seq(Dprs)]
    BY DEF Queues, QueueOf
  <2>2. QueueOf(r) /\ ToSet(r) = ToSet(q[s]) \cup {p}
    BY <1>2, <2>1, Insertion
  <2> HIDE DEF r
  <2>3. On(q, s, p) = [q EXCEPT ![s] = r]
    BY <1>2 DEF On, r
  <2>4. Queues(On(q, s, p))
    BY <2>1, <2>2, <2>3 DEF Queues, QueueOf
  <2>5. QED
    BY <2>1, <2>2, <2>3, <2>4
<1>3. QED
  BY <1>1, <1>2

\* Off both data queues.
LEMMA OffDataIs ==
  ASSUME NEW q, Queues(q), NEW p \in Dprs
  PROVE  /\ Queues(OffData(q, p))
         /\ \A x \in States : \A o : o \in ToSet(OffData(q, p)[x]) <=> o \in ToSet(q[x]) /\ ~(x \in DataStates /\ o = p)
<1> DEFINE a == Off(q, "DP", p)
<1>1. "DP" \in States /\ "PARTIAL" \in States
  BY DEF States
<1>2. Queues(a) /\ \A x \in States : \A o : o \in ToSet(a[x]) <=> o \in ToSet(q[x]) /\ ~(x = "DP" /\ o = p)
  BY <1>1, OffIs
<1> HIDE DEF a
<1>3. /\ Queues(Off(a, "PARTIAL", p))
      /\ \A x \in States : \A o : o \in ToSet(Off(a, "PARTIAL", p)[x]) <=> o \in ToSet(a[x]) /\ ~(x = "PARTIAL" /\ o = p)
  BY <1>1, <1>2, OffIs
<1>4. OffData(q, p) = Off(a, "PARTIAL", p)
  BY DEF OffData, a
<1>5. QED
  BY <1>2, <1>3, <1>4 DEF DataStates

\* After a write error: off the data queues, and off the index queue if both.
LEMMA DropIs ==
  ASSUME NEW q, Queues(q), NEW p \in Dprs, NEW both \in BOOLEAN
  PROVE  /\ Queues(Drop(q, p, both))
         /\ \A x \in States : \A o : o \in ToSet(Drop(q, p, both)[x]) <=> o \in ToSet(q[x]) /\ ~((both \/ x \in DataStates) /\ o = p)
<1> DEFINE a == OffData(q, p)
<1>1. Queues(a) /\ \A x \in States : \A o : o \in ToSet(a[x]) <=> o \in ToSet(q[x]) /\ ~(x \in DataStates /\ o = p)
  BY OffDataIs
<1>2. Drop(q, p, both) = IF both THEN Off(a, "IP", p) ELSE a
  BY DEF Drop
<1> HIDE DEF a
<1>3. Queues(Off(a, "IP", p)) /\ \A x \in States : \A o : o \in ToSet(Off(a, "IP", p)[x]) <=> o \in ToSet(a[x]) /\ ~(x = "IP" /\ o = p)
  BY <1>1, OffIs DEF States
<1>4. CASE both
  BY <1>1, <1>2, <1>3, <1>4 DEF States, DataStates
<1>5. CASE ~both
  BY <1>1, <1>2, <1>5
<1>6. QED
  BY <1>4, <1>5

\* The queues are those before for all but one structure.
Beside(q, p) == Queues(q) /\ \A s \in States, o \in Dprs : o # p => (o \in ToSet(q[s]) <=> o \in ToSet(queue[s]))

-----------------------------------------------------------------------------
(* Handles.                                                                *)

OpenedBy(d) == {u \in Users : d \in opens[u]}
CalledBy(d) == {u \in Users : user[u].file = d}

\* One user more or less in a set of users.
LEMMA CountedBy ==
  ASSUME NEW S \in SUBSET Users
  PROVE  /\ IsFiniteSet(S) /\ Cardinality(S) \in Nat /\ (S # {} => Cardinality(S) > 0)
         /\ \A u \in Users : Cardinality(S \cup {u}) = Cardinality(S) + (IF u \in S THEN 0 ELSE 1)
         /\ \A u \in Users : Cardinality(S \ {u}) = Cardinality(S) - (IF u \in S THEN 1 ELSE 0)
<1>1. IsFiniteSet(S)
  BY SchedAssumption, FS_Subset
<1>2. Cardinality(S) \in Nat
  BY <1>1, FS_CardinalityType
<1>3. \A u \in Users : Cardinality(S \cup {u}) = IF u \in S THEN Cardinality(S) ELSE Cardinality(S) + 1
  BY <1>1, FS_AddElement
<1>4. \A u \in Users : Cardinality(S \ {u}) = IF u \in S THEN Cardinality(S) - 1 ELSE Cardinality(S)
  BY <1>1, FS_RemoveElement
<1>5. S # {} => Cardinality(S) > 0
  BY <1>1, <1>2, FS_EmptySet
<1>6. QED
  BY <1>1, <1>2, <1>3, <1>4, <1>5


-----------------------------------------------------------------------------
(* What a step leaves alone.                                               *)

\* What the types say of a structure, a dentry and a user in a close.
LEMMA Privs ==
  ASSUME SchedTypes
  PROVE  /\ None \notin Dprs
         /\ \A d \in Files : dentry[d].priv \in Dprs \cup {None} /\ dentry[d] \in DentryStates
         /\ \A p \in Dprs : dpr[p] \in DprStates
         /\ \A u \in Users : user[u].at \in InClose => user[u].file \in Files
  BY SchedAssumption DEF SchedTypes, DentryStates, UserStates, InClose, AllFiles, None

\* A step that leaves the structures and their queues alone, and no close gets
\* into its flush or out of it.
SameFlushes ==
  \A v \in Users : user[v].at = "flush" \/ user'[v].at = "flush" => user'[v] = user[v]

LEMMA NoneChanged ==
  ASSUME SchedTypes, Owned, OnQueues, Unwritten,
         UNCHANGED <<dpr, queue, ext_queue>>, SameFlushes,
         \A d \in Files : dentry'[d].priv = dentry[d].priv,
         \A v \in Users, d \in Files : d \in dirty[v] => d \in dirty'[v] \/ dentry[d].priv = None,
         \A v \in Users : dirty'[v] \subseteq opens'[v]
  PROVE  Owned' /\ OnQueues' /\ Unwritten'
<1>1. Owned'
  BY DEF Owned
<1>2. ASSUME NEW p \in Dprs PROVE Flushing(p)' = Flushing(p)
  BY Privs DEF Flushing, SameFlushes, InClose
<1>3. ASSUME NEW d \in Files PROVE FlushedFile(d)' = FlushedFile(d)
  BY DEF FlushedFile, SameFlushes
<1>4. OnQueues'
  BY <1>2 DEF OnQueues, Placed
<1>5. ASSUME NEW p \in Dprs PROVE Carried(p)'
  <2>1. SUFFICES ASSUME dpr[p].reqs \cap DataStates # {}
                 PROVE  ~dpr[p].err /\ ((\E u \in Users : dpr[p].file \in dirty'[u]) \/ FlushedFile(dpr[p].file)')
    BY DEF Carried
  <2>2. dpr[p].file \in Files /\ dentry[dpr[p].file].priv # None
    BY <2>1, Privs DEF Owned, NoDpr
  <2>3. QED
    BY <1>3, <2>1, <2>2 DEF Unwritten, Carried
<1>6. QED
  BY <1>1, <1>4, <1>5 DEF Unwritten

\* A step that changes what one structure is and where it is queued, for one
\* file: others keep theirs.
Elsewhere(d) ==
  \A v \in Users :
    /\ user[v].at \in {"flush", "freeing"} => user'[v] = user[v] \/ user[v].file = d
    /\ user'[v].at \in {"flush", "freeing"} =>
         \/ user'[v] = user[v] /\ user[v].file # d
         \/ user'[v].at = "flush" /\ user'[v].file = d

OneChanged(d, p, r) ==
  /\ dpr' = [dpr EXCEPT ![p] = r]
  /\ dentry[d].priv = p \/ (dentry[d].priv = None /\ ~dpr[p].live)
  /\ \A e \in Files : dentry'[e].priv = IF e = d THEN (IF r.live THEN p ELSE None) ELSE dentry[e].priv
  /\ IF r.live THEN r.file = d ELSE r = NoDpr
  /\ Beside(queue', p)
  /\ QueueOf(ext_queue') /\ \A o \in Dprs : o # p => (o \in ToSet(ext_queue') <=> o \in ToSet(ext_queue))
  /\ Elsewhere(d)
  /\ ~r.live => ~FlushedFile(d)'
  /\ (p \in ToSet(queue'["IP"])) = ("IP" \in r.reqs)
  /\ \A s \in DataStates : (p \in ToSet(queue'[s])) = (s \in r.reqs /\ ~FlushedFile(d)')
  /\ (p \in ToSet(ext_queue')) = r.alt

\* Such a change leaves every other structure with its dentry,
LEMMA OneOwned ==
  ASSUME SchedTypes, Owned, NEW d \in Files, NEW p \in Dprs, NEW r \in DprStates, OneChanged(d, p, r)
  PROVE  Owned' /\ \A o \in Dprs : o # p => dpr'[o] = dpr[o] /\ (dpr[o].live => dpr[o].file # d)
<1>1. None \notin Dprs /\ dpr'[p] = r /\ \A o \in Dprs : o # p => dpr'[o] = dpr[o]
  BY Privs DEF OneChanged, SchedTypes
<1>2. \A o \in Dprs : o # p /\ dpr[o].live => dpr[o].file # d
  BY <1>1 DEF Owned, OneChanged
<1>3. ASSUME NEW e \in Files, dentry'[e].priv # None
      PROVE  dpr'[dentry'[e].priv].live /\ dpr'[dentry'[e].priv].file = e
  <2>1. CASE e = d
    BY <1>1, <1>3, <2>1 DEF OneChanged
  <2>2. CASE e # d
    <3>1. dentry'[e].priv = dentry[e].priv /\ dentry[e].priv \in Dprs
      BY <1>3, <2>2, Privs DEF OneChanged
    <3>2. dentry[e].priv # p
      BY <1>1, <2>2, <3>1 DEF Owned, OneChanged
    <3>3. QED
      BY <1>1, <1>3, <3>1, <3>2 DEF Owned
  <2>3. QED
    BY <2>1, <2>2
<1>4. ASSUME NEW o \in Dprs
      PROVE  IF dpr'[o].live THEN dpr'[o].file \in Files /\ dentry'[dpr'[o].file].priv = o ELSE dpr'[o] = NoDpr
  <2>1. CASE o = p
    BY <1>1, <2>1 DEF OneChanged
  <2>2. CASE o # p
    BY <1>1, <1>2, <2>2 DEF OneChanged, Owned
  <2>3. QED
    BY <2>1, <2>2
<1>5. QED
  BY <1>1, <1>2, <1>3, <1>4 DEF Owned

\* on the queues it was on,
LEMMA OneQueued ==
  ASSUME SchedTypes, Owned, OnQueues, NEW d \in Files, NEW p \in Dprs, NEW r \in DprStates, OneChanged(d, p, r)
  PROVE  OnQueues'
<1>1. None \notin Dprs /\ dpr'[p] = r
  BY Privs DEF OneChanged, SchedTypes
<1>2. Owned' /\ \A o \in Dprs : o # p => dpr'[o] = dpr[o] /\ (dpr[o].live => dpr[o].file # d)
  BY OneOwned
<1>3. (\A s \in States : Once(queue'[s])) /\ Once(ext_queue')
  BY DEF OneChanged, Beside, Queues, QueueOf
<1>a. \A v \in Users : user[v].at = "flush" => user[v].file \in Files
  BY Privs DEF InClose
<1>4. ASSUME NEW o \in Dprs, o # p PROVE Placed(o)'
  <2>1. Flushing(o)' = Flushing(o)
    <3>1. ASSUME NEW v \in Users, user[v].at = "flush", dentry[user[v].file].priv = o
          PROVE  user'[v].at = "flush" /\ dentry'[user'[v].file].priv = o
      <4>1. user[v].file # d
        BY <1>1, <1>4, <3>1 DEF OneChanged
      <4>2. QED
        BY <1>a, <3>1, <4>1 DEF OneChanged, Elsewhere
    <3>2. ASSUME NEW v \in Users, user'[v].at = "flush", dentry'[user'[v].file].priv = o
          PROVE  user[v].at = "flush" /\ dentry[user[v].file].priv = o
      <4>1. CASE user'[v] = user[v] /\ user[v].file # d
        BY <1>a, <3>2, <4>1 DEF OneChanged
      <4>2. CASE user'[v].file = d
        BY <1>1, <1>4, <3>2, <4>2 DEF OneChanged
      <4>3. QED
        BY <3>2, <4>1, <4>2 DEF OneChanged, Elsewhere
    <3>3. QED
      BY <3>1, <3>2 DEF Flushing
  <2>2. "IP" \in States /\ DataStates \subseteq States
    BY DEF States, DataStates
  <2>3. /\ \A s \in States : (o \in ToSet(queue'[s])) = (o \in ToSet(queue[s]))
        /\ (o \in ToSet(ext_queue')) = (o \in ToSet(ext_queue))
    BY <1>4 DEF OneChanged, Beside
  <2>4. QED
    BY <1>2, <1>4, <2>1, <2>2, <2>3 DEF OnQueues, Placed
<1>5. Placed(p)'
  <2>1. CASE r.live
    <3>1. Flushing(p)' = FlushedFile(d)'
      <4>1. ASSUME NEW v \in Users, user'[v].at = "flush"
            PROVE  (dentry'[user'[v].file].priv = p) = (user'[v].file = d)
        <5>1. user'[v].file \in Files
          BY <1>a, <4>1 DEF OneChanged, Elsewhere
        <5>2. dpr'[p].file = d
          BY <1>1, <2>1 DEF OneChanged
        <5>3. QED
          BY <1>1, <1>2, <2>1, <5>1, <5>2 DEF Owned, OneChanged
      <4>2. QED
        BY <4>1 DEF Flushing, FlushedFile
    <3>2. QED
      BY <1>1, <3>1 DEF OneChanged, Placed
  <2>2. CASE ~r.live
    <3>1. r.reqs = {}
      BY <2>2 DEF OneChanged, NoDpr
    <3>2. QED
      BY <1>1, <3>1 DEF OneChanged, Placed
  <2>3. QED
    BY <2>1, <2>2
<1>6. QED
  BY <1>3, <1>4, <1>5 DEF OnQueues

\* with what the closes know of it,
LEMMA OneClaimed ==
  ASSUME SchedTypes, Owned, Claims, NEW d \in Files, NEW p \in Dprs, NEW r \in DprStates, OneChanged(d, p, r)
  PROVE  Claims'
<1>1. None \notin Dprs /\ \A o \in Dprs : o # p => dpr'[o] = dpr[o]
  BY OneOwned, Privs
<1>2. ASSUME NEW v \in Users PROVE Claim(v)'
  <2>1. CASE user'[v].at \notin {"flush", "freeing"}
    BY <2>1 DEF Claim
  <2>2. CASE user'[v] = user[v] /\ user[v].file # d /\ user[v].at \in {"flush", "freeing"}
    <3>1. user[v].file \in Files
      BY <2>2, Privs DEF InClose
    <3>2. dentry'[user'[v].file].priv = dentry[user[v].file].priv
      BY <2>2, <3>1 DEF OneChanged
    <3>3. dentry[user[v].file].priv # p
      BY <1>1, <2>2, <3>1 DEF OneChanged, Owned
    <3>4. dentry[user[v].file].priv # None => dentry[user[v].file].priv \in Dprs
      BY <3>1, Privs
    <3>5. QED
      BY <1>1, <2>2, <3>2, <3>3, <3>4 DEF Claims, Claim
  <2>3. CASE user'[v].at = "flush" /\ user'[v].file = d
    <3>1. r.live
      BY <2>3 DEF OneChanged, FlushedFile
    <3>2. QED
      BY <1>1, <2>3, <3>1 DEF OneChanged, Claim
  <2>4. QED
    BY <2>1, <2>2, <2>3 DEF OneChanged, Elsewhere
<1>3. QED
  BY <1>2 DEF Claims

\* and with the user who will flush it.
LEMMA OneUnwritten ==
  ASSUME SchedTypes, Owned, Unwritten, NEW d \in Files, NEW p \in Dprs, NEW r \in DprStates, OneChanged(d, p, r),
         \A v \in Users : dirty'[v] \subseteq opens'[v],
         \A v \in Users, e \in Files : e \in dirty[v] /\ e # d => e \in dirty'[v],
         r.reqs \cap DataStates # {} => ~r.err /\ ((\E v \in Users : d \in dirty'[v]) \/ FlushedFile(d)')
  PROVE  Unwritten'
<1>0. dpr'[p] = r
  BY DEF OneChanged, SchedTypes
<1>1. dpr'[p] = r /\ \A o \in Dprs : o # p => dpr'[o] = dpr[o] /\ (dpr[o].live => dpr[o].file # d)
  BY <1>0, OneOwned
<1>2. Carried(p)'
  BY <1>1 DEF Carried, OneChanged, NoDpr
<1>3. ASSUME NEW o \in Dprs, o # p PROVE Carried(o)'
  <2>1. SUFFICES ASSUME dpr[o].reqs \cap DataStates # {}
                 PROVE  ~dpr[o].err /\ ((\E u \in Users : dpr[o].file \in dirty'[u]) \/ FlushedFile(dpr[o].file)')
    BY <1>1, <1>3 DEF Carried
  <2>2. dpr[o].file \in Files /\ dpr[o].file # d
    BY <1>1, <1>3, <2>1 DEF Owned, NoDpr
  <2>3. ~dpr[o].err /\ ((\E u \in Users : dpr[o].file \in dirty[u]) \/ FlushedFile(dpr[o].file))
    BY <2>1 DEF Unwritten, Carried
  <2>4. FlushedFile(dpr[o].file) => FlushedFile(dpr[o].file)'
    <3>1. ASSUME NEW v \in Users, user[v].at = "flush", user[v].file = dpr[o].file
          PROVE  user'[v].at = "flush" /\ user'[v].file = dpr'[o].file
      BY <1>1, <1>3, <2>2, <3>1 DEF OneChanged, Elsewhere
    <3>2. dpr'[o] = dpr[o]
      BY <1>1, <1>3
    <3>3. QED
      BY <3>1, <3>2 DEF FlushedFile
  <2>5. QED
    BY <2>2, <2>3, <2>4
<1>4. QED
  BY <1>2, <1>3 DEF Unwritten

\* Handles that nobody takes or gives back.
LEMMA SameHandles ==
  ASSUME HandlesCounted, Alive, UNCHANGED opens,
         \A d \in Files : /\ dentry'[d].handles = dentry[d].handles /\ dentry'[d].alive = dentry[d].alive
                          /\ dentry'[d].linked = dentry[d].linked /\ (dentry'[d].priv = None) = (dentry[d].priv = None),
         \A d \in Files, v \in Users : (user'[v].file = d) = (user[v].file = d)
  PROVE  HandlesCounted' /\ Alive'
<1>1. ASSUME NEW d \in Files
      PROVE  {u \in Users : user'[u].file = d} = {u \in Users : user[u].file = d}
  OBVIOUS
<1>2. ASSUME NEW d \in Files
      PROVE  dentry'[d].handles = One(dentry'[d].linked) + One(dentry'[d].priv # None)
               + Cardinality({u \in Users : d \in opens'[u]}) + Cardinality({u \in Users : user'[u].file = d})
  <2>1. One(dentry'[d].priv # None) = One(dentry[d].priv # None)
    BY DEF One
  <2>2. {u \in Users : d \in opens'[u]} = {u \in Users : d \in opens[u]}
    OBVIOUS
  <2>3. dentry[d].handles = One(dentry[d].linked) + One(dentry[d].priv # None)
               + Cardinality({u \in Users : d \in opens[u]}) + Cardinality({u \in Users : user[u].file = d})
    BY DEF HandlesCounted
  <2>4. QED
    BY <1>1, <2>1, <2>2, <2>3
<1>3. QED
  BY <1>2, SMTT(30) DEF Alive, HandlesCounted

\* The user goes on in its call, or is in none.
LEMMA UserMoves ==
  ASSUME SchedTypes, NEW u \in Users, user[u].at \in InCall, NEW a \in InCall, user' = [user EXCEPT ![u].at = a]
  PROVE  /\ user' \in [Users -> UserStates] /\ user'[u] = [at |-> a, file |-> user[u].file]
         /\ user[u].file \in Files /\ \A v \in Users : v # u => user'[v] = user[v]
         /\ \A d \in Files, v \in Users : (user'[v].file = d) = (user[v].file = d)
<1>1. user[u] \in [at : InCall, file : Files]
  BY DEF SchedTypes, UserStates, InCall, InClose, AllFiles
<1>2. user'[u] = [at |-> a, file |-> user[u].file] /\ \A v \in Users : v # u => user'[v] = user[v]
  BY <1>1 DEF SchedTypes
<1>3. QED
  BY <1>1, <1>2 DEF SchedTypes, UserStates

\* A user who goes to a place without a file.
LEMMA UserIsIn ==
  ASSUME SchedTypes, NEW u \in Users, NEW a \in {"idle"} \cup AllFiles, user[u].file = NoFile,
         user' = [user EXCEPT ![u] = [at |-> a, file |-> NoFile]]
  PROVE  /\ user' \in [Users -> UserStates] /\ user'[u] = [at |-> a, file |-> NoFile]
         /\ \A v \in Users : v # u => user'[v] = user[v]
         /\ \A d \in Files, v \in Users : (user'[v].file = d) = (user[v].file = d)
  BY SchedAssumption DEF SchedTypes, UserStates

\* One who is at such a place is in a call for no file.
LEMMA NoCall ==
  ASSUME SchedTypes, NEW u \in Users, user[u].at \in {"idle"} \cup AllFiles
  PROVE  user[u].file = NoFile /\ user[u] = [at |-> user[u].at, file |-> NoFile]
  BY DEF SchedTypes, UserStates, InCall, InClose, AllFiles

\* A step that moves users and the writer thread and nothing else.
LEMMA OnlyControl ==
  ASSUME FilesInv, UNCHANGED <<dentry, dpr, queue, ext_queue, opens, dirty>>, SameFlushes,
         \A d \in Files, v \in Users : (user'[v].file = d) = (user[v].file = d)
  PROVE  HandlesCounted' /\ Alive' /\ Owned' /\ OnQueues' /\ Unwritten'
<1>1. HandlesCounted' /\ Alive'
  BY SameHandles DEF FilesInv
<1>2. \A v \in Users : dirty'[v] \subseteq opens'[v]
  BY DEF FilesInv, Unwritten
<1>3. QED
  BY <1>1, <1>2, NoneChanged DEF FilesInv

\* A user keeps the lock of its file, gives up what it has, or takes one that is
\* free.
LEMMA LocksMove ==
  ASSUME SchedTypes, LocksHeld, UNCHANGED bg, NEW u \in Users, \A v \in Users : v # u => user'[v] = user[v],
         \/ user'[u].at \notin InClose \cup AllFiles
         \/ user[u].at \in InClose /\ user'[u].at \in InClose /\ user'[u].file = user[u].file
         \/ user[u].at \in AllFiles /\ user'[u].at \in AllFiles
         \/ /\ user'[u].at \in InClose /\ ~Exclusive
            /\ \A v \in Users : user[v].at \in InClose => user[v].file # user'[u].file
         \/ user'[u].at \in AllFiles /\ ~Exclusive /\ ~Reading
  PROVE  LocksHeld'
<1>1. CASE user'[u].at \notin InClose \cup AllFiles
  BY <1>1 DEF LocksHeld
<1>2. CASE user[u].at \in InClose /\ user'[u].at \in InClose /\ user'[u].file = user[u].file
  BY <1>2 DEF LocksHeld, InClose, AllFiles
<1>3. CASE user[u].at \in AllFiles /\ user'[u].at \in AllFiles
  BY <1>3 DEF LocksHeld, InClose, AllFiles
<1>4. CASE /\ user'[u].at \in InClose /\ ~Exclusive
           /\ \A v \in Users : user[v].at \in InClose => user[v].file # user'[u].file
  BY <1>4 DEF LocksHeld, InClose, AllFiles, Exclusive
<1>5. CASE user'[u].at \in AllFiles /\ ~Exclusive /\ ~Reading
  <2>1. \A v \in Users : user[v].at \in InClose => user[v].file \in Files
    BY Privs
  <2>2. \A v \in Users : user[v].at \notin InClose \cup AllFiles
    BY <1>5, <2>1 DEF Exclusive, Reading, Locked, InClose, AllFiles
  <2>3. bg.at \notin {"index", "flushall", "destroy", "pick", "lock", "write", "error"}
    BY <1>5 DEF Exclusive, Reading
  <2>4. QED
    BY <1>5, <2>2, <2>3 DEF LocksHeld, InClose, AllFiles
<1>6. QED
  BY <1>1, <1>2, <1>3, <1>4, <1>5

LEMMA DecideInv ==
  ASSUME FilesInv, NEW u \in Users, Decide(u)
  PROVE  FilesInv'
<1> DEFINE a == IF MayFree(user[u].file, 3) THEN "freeing" ELSE "leave"
           d == user[u].file
<1>1. /\ a \in InCall /\ user[u].at = "free" /\ user' = [user EXCEPT ![u].at = a]
      /\ UNCHANGED <<dentry, dpr, queue, ext_queue, opens, dirty, bg, stopping, fault, acts, errors>>
  BY DEF Decide, InCall, InClose
<1>2. a = "freeing" => /\ dentry[d].priv # None
                       /\ dpr[dentry[d].priv].reqs = {} /\ ~dpr[dentry[d].priv].alt
  BY DEF MayFree
<1> HIDE DEF a, d
<1>3. /\ user' \in [Users -> UserStates] /\ user'[u] = [at |-> a, file |-> d]
      /\ \A v \in Users : v # u => user'[v] = user[v]
      /\ \A e \in Files, v \in Users : (user'[v].file = e) = (user[v].file = e)
  BY <1>1, UserMoves DEF FilesInv, InCall, InClose, d
<1>4. a \in {"freeing", "leave"}
  BY DEF a
<1>5. SameFlushes
  <2>1. user[u].at # "flush" /\ user'[u].at # "flush"
    BY <1>1, <1>3, <1>4
  <2>2. QED
    BY <1>3, <2>1 DEF SameFlushes
<1>6. HandlesCounted' /\ Alive' /\ Owned' /\ OnQueues' /\ Unwritten'
  BY <1>1, <1>3, <1>5, OnlyControl
<1>7. SchedTypes'
  BY <1>1, <1>3 DEF FilesInv, SchedTypes
<1>8. LocksHeld'
  <2>1. user[u].at \in InClose /\ user'[u].at \in InClose /\ user'[u].file = user[u].file
    BY <1>1, <1>3, <1>4 DEF InClose, d
  <2>2. QED
    BY <1>1, <1>3, <2>1, LocksMove DEF FilesInv
<1>9. Claims'
  BY <1>1, <1>2, <1>3, <1>4 DEF FilesInv, Claims, Claim, d
<1>10. Finished'
  BY <1>1, <1>3, <1>4 DEF FilesInv, Finished, Resting
<1>11. QED
  BY <1>6, <1>7, <1>8, <1>9, <1>10 DEF FilesInv

LEMMA LeaveInv ==
  ASSUME FilesInv, NEW u \in Users, Leave(u)
  PROVE  FilesInv'
<1> DEFINE d == user[u].file
<1>1. /\ "put" \in InCall /\ user[u].at = "leave" /\ user' = [user EXCEPT ![u].at = "put"]
      /\ UNCHANGED <<dentry, dpr, queue, ext_queue, opens, dirty, bg, stopping, fault, acts, errors>>
  BY DEF Leave, InCall
<1> HIDE DEF d
<1>3. /\ user' \in [Users -> UserStates] /\ user'[u] = [at |-> "put", file |-> d]
      /\ \A v \in Users : v # u => user'[v] = user[v]
      /\ \A e \in Files, v \in Users : (user'[v].file = e) = (user[v].file = e)
  BY <1>1, UserMoves DEF FilesInv, InCall, InClose, d
<1>5. SameFlushes
  <2>1. user[u].at # "flush" /\ user'[u].at # "flush"
    BY <1>1, <1>3
  <2>2. QED
    BY <1>3, <2>1 DEF SameFlushes
<1>6. HandlesCounted' /\ Alive' /\ Owned' /\ OnQueues' /\ Unwritten'
  BY <1>1, <1>3, <1>5, OnlyControl
<1>7. SchedTypes'
  BY <1>1, <1>3 DEF FilesInv, SchedTypes
<1>8. LocksHeld'
  BY <1>1, <1>3 DEF FilesInv, LocksHeld, InClose, AllFiles
<1>9. Claims'
  BY <1>1, <1>3 DEF FilesInv, Claims, Claim
<1>10. Finished'
  BY <1>1, <1>3 DEF FilesInv, Finished, Resting
<1>11. QED
  BY <1>6, <1>7, <1>8, <1>9, <1>10 DEF FilesInv

\* A sync of the volume takes priv->lock for writing and gives it back.
LEMMA SyncInv ==
  ASSUME FilesInv, NEW u \in Users, Sync(u) \/ Synced(u)
  PROVE  FilesInv'
<1> DEFINE a == IF Sync(u) THEN "flushall" ELSE "idle"
<1>1. /\ user[u].at \in {"idle", "flushed"} /\ a \in {"flushall", "idle"}
      /\ user' = [user EXCEPT ![u] = [at |-> a, file |-> NoFile]]
      /\ UNCHANGED <<dentry, dpr, queue, ext_queue, opens, dirty, bg, stopping, fault, errors>> /\ acts' \in Nat
  <2>1. CASE Sync(u)
    <3>1. user[u] = Resting /\ user' = [user EXCEPT ![u].at = "flushall"]
      BY <2>1 DEF Sync
    <3>0. [user[u] EXCEPT !.at = "flushall"] = [at |-> "flushall", file |-> NoFile]
      BY <3>1 DEF Resting
    <3>2. [user EXCEPT ![u].at = "flushall"] = [user EXCEPT ![u] = [at |-> "flushall", file |-> NoFile]]
      BY <3>0
    <3>3. QED
      BY <2>1, <3>1, <3>2 DEF Sync, Act, Resting, FilesInv, SchedTypes
  <2>2. CASE ~Sync(u) /\ Synced(u)
    BY <2>2 DEF Synced, Resting, FilesInv, SchedTypes
  <2>3. QED
    BY <2>1, <2>2
<1>2. a = "flushall" => /\ ~stopping /\ bg.at \notin {"pick", "lock", "write", "error", "index", "flushall", "destroy"}
                        /\ \A v \in Users : user[v].at \notin InClose \cup AllFiles
  <2>1. SUFFICES ASSUME Sync(u)
                 PROVE /\ ~stopping /\ bg.at \notin {"pick", "lock", "write", "error", "index", "flushall", "destroy"}
                       /\ \A v \in Users : user[v].at \notin InClose \cup AllFiles
    OBVIOUS
  <2>2. \A v \in Users : user[v].at \in InClose => user[v].file \in Files
    BY Privs DEF FilesInv
  <2>3. QED
    BY <2>1, <2>2 DEF Sync, Act, Reading, Exclusive, Locked, InClose, AllFiles
<1> HIDE DEF a
<1>3. /\ user' \in [Users -> UserStates] /\ user'[u] = [at |-> a, file |-> NoFile]
      /\ \A v \in Users : v # u => user'[v] = user[v]
      /\ \A e \in Files, v \in Users : (user'[v].file = e) = (user[v].file = e)
  BY <1>1, NoCall, UserIsIn DEF FilesInv, AllFiles
<1>5. SameFlushes
  <2>1. user[u].at # "flush" /\ user'[u].at # "flush"
    BY <1>1, <1>3
  <2>2. QED
    BY <1>3, <2>1 DEF SameFlushes
<1>6. HandlesCounted' /\ Alive' /\ Owned' /\ OnQueues' /\ Unwritten'
  BY <1>1, <1>3, <1>5, OnlyControl
<1>7. SchedTypes'
  BY <1>1, <1>3 DEF FilesInv, SchedTypes
<1>8. LocksHeld'
  BY <1>1, <1>2, <1>3 DEF FilesInv, LocksHeld, InClose, AllFiles
<1>9. Claims'
  BY <1>1, <1>3 DEF FilesInv, Claims, Claim
<1>10. Finished'
  BY <1>1, <1>2, <1>3 DEF FilesInv, Finished, Resting
<1>11. QED
  BY <1>6, <1>7, <1>8, <1>9, <1>10 DEF FilesInv

-----------------------------------------------------------------------------
(* The writer thread, between the files.                                   *)

\* A step of the writer thread that changes no structure.
LEMMA SameUsers ==
  ASSUME FilesInv, UNCHANGED <<dentry, dpr, queue, ext_queue, opens, dirty, user>>
  PROVE  HandlesCounted' /\ Alive' /\ Owned' /\ OnQueues' /\ Unwritten' /\ Claims'
<1>1. HandlesCounted' /\ Alive' /\ Owned' /\ OnQueues' /\ Unwritten'
  BY OnlyControl DEF SameFlushes
<1>2. Claims'
  BY DEF FilesInv, Claims, Claim
<1>3. QED
  BY <1>1, <1>2

\* Where nobody reads the lock of the scheduler no close is under way.
LEMMA NotReading ==
  ASSUME SchedTypes, ~Reading
  PROVE  \A v \in Users : user[v].at \notin InClose
  BY Privs DEF Reading, Locked, InClose

LEMMA BeginInv ==
  ASSUME FilesInv, Begin
  PROVE  FilesInv'
<1>1. UNCHANGED <<dentry, dpr, queue, ext_queue, opens, dirty, user, stopping, fault, acts, errors>>
  BY DEF Begin
<1>2. HandlesCounted' /\ Alive' /\ Owned' /\ OnQueues' /\ Unwritten' /\ Claims'
  BY <1>1, SameUsers
<1>3. bg = Waits /\ ~stopping /\ \A v \in Users : user[v].at \notin AllFiles
  BY DEF Begin, Exclusive, AllFiles
<1>4. bg' \in BgStates /\ bg'.dpr = None /\ (bg'.at = "pick" \/ (bg'.at = "index" /\ ~Reading))
  <2>1. Len(queue["DP"]) \in Nat /\ Len(queue["PARTIAL"]) \in Nat
    BY DEF FilesInv, SchedTypes, States
  <2>2. ASSUME NEW q \in {"DP", "PARTIAL"},
               bg' = [bg EXCEPT !.at = "pick", !.q = q,
                                !.left = Len(queue["DP"]) + IF q = "PARTIAL" THEN Len(queue["PARTIAL"]) ELSE 0]
        PROVE  bg' \in BgStates /\ bg'.dpr = None /\ bg'.at = "pick"
    <3> DEFINE n == Len(queue["DP"]) + IF q = "PARTIAL" THEN Len(queue["PARTIAL"]) ELSE 0
    <3>0. \A i, j \in Nat : i + j \in Nat
      OBVIOUS
    <3>1. n \in Nat
      BY <2>1, <3>0
    <3>2. bg' = [bg EXCEPT !.at = "pick", !.q = q, !.left = n]
      BY <2>2
    <3> HIDE DEF n
    <3>3. bg' = [at |-> "pick", q |-> q, left |-> n, file |-> NoFile, dpr |-> None, taken |-> {}]
      BY <1>3, <3>2 DEF Waits
    <3>4. QED
      BY <3>1, <3>3 DEF BgStates
  <2>3. CASE ~Reading /\ bg' = [bg EXCEPT !.at = "index"]
    BY <1>3, <2>3 DEF BgStates, Waits
  <2>4. QED
    BY <2>2, <2>3 DEF Begin
<1>5. SchedTypes'
  BY <1>1, <1>4 DEF FilesInv, SchedTypes
<1>6. LocksHeld'
  <2>1. bg'.at = "index" => \A v \in Users : user[v].at \notin InClose
    BY <1>4, NotReading DEF FilesInv
  <2>2. QED
    BY <1>1, <1>3, <1>4, <2>1 DEF FilesInv, LocksHeld
<1>7. Finished'
  BY <1>1, <1>3, <1>4 DEF FilesInv, Finished
<1>8. QED
  BY <1>2, <1>5, <1>6, <1>7 DEF FilesInv

\* The first of a queue has a dentry.
LEMMA HeadLives ==
  ASSUME FilesInv, NEW s \in States, queue[s] # <<>>
  PROVE  /\ Head(queue[s]) \in Dprs /\ Head(queue[s]) \in ToSet(queue[s])
         /\ s \in dpr[Head(queue[s])].reqs /\ dpr[Head(queue[s])].live /\ dpr[Head(queue[s])].file \in Files
         /\ dentry[dpr[Head(queue[s])].file].priv = Head(queue[s])
<1> DEFINE p == Head(queue[s])
<1>1. QueueOf(queue[s])
  BY DEF FilesInv, SchedTypes, OnQueues, QueueOf
<1>2. p \in Dprs /\ p \in ToSet(queue[s])
  BY <1>1, HeadTail
<1> HIDE DEF p
<1>3. s \in dpr[p].reqs
  BY <1>2 DEF FilesInv, OnQueues, Placed, States, DataStates
<1>4. dpr[p].live /\ dpr[p].file \in Files /\ dentry[dpr[p].file].priv = p
  BY <1>2, <1>3 DEF FilesInv, Owned, NoDpr
<1>5. QED
  BY <1>2, <1>3, <1>4 DEF p

LEMMA PickInv ==
  ASSUME FilesInv, Pick
  PROVE  FilesInv'
<1>1. UNCHANGED <<dentry, dpr, queue, ext_queue, opens, dirty, user, stopping, acts, errors>> /\ bg.at = "pick"
  BY DEF Pick
<1>2. HandlesCounted' /\ Alive' /\ Owned' /\ OnQueues' /\ Unwritten' /\ Claims'
  BY <1>1, SameUsers
<1>3. bg \in BgStates /\ bg.dpr = None /\ ~stopping
  BY <1>1 DEF FilesInv, SchedTypes, Finished
<1>4. bg' \in BgStates /\ bg'.dpr = None /\ fault' \in {"none", "dentry"}
      /\ (bg'.at = "idle" \/ (bg'.at = "lock" /\ bg'.file \in Files))
  <2> DEFINE from == IF queue["DP"] # <<>> THEN queue["DP"] ELSE IF bg.q = "PARTIAL" THEN queue["PARTIAL"] ELSE <<>>
  <2>1. CASE bg.left = 0 \/ from = <<>>
    <3>1. bg' = Waits /\ fault' = fault
      BY <2>1 DEF Pick
    <3>2. QED
      BY <3>1 DEF BgStates, Waits, FilesInv, SchedTypes
  <2>2. CASE bg.left # 0 /\ from # <<>>
    <3>1. \E s \in States : queue[s] # <<>> /\ from = queue[s]
      BY <2>2 DEF States
    <3>2. Head(from) \in Dprs /\ dpr[Head(from)].live /\ dpr[Head(from)].file \in Files
      BY <3>1, HeadLives
    <3>3. /\ fault' = IF dpr[Head(from)].live THEN "none" ELSE "dpr"
          /\ bg' = [bg EXCEPT !.at = "lock", !.left = @ - 1, !.file = dpr[Head(from)].file]
      BY <2>2 DEF Pick
    <3> HIDE DEF from
    <3>4. bg.left - 1 \in Nat
      BY <1>3, <2>2 DEF BgStates
    <3>5. QED
      BY <1>3, <3>2, <3>3, <3>4 DEF BgStates
  <2>3. QED
    BY <2>1, <2>2
<1>5. SchedTypes'
  BY <1>1, <1>4 DEF FilesInv, SchedTypes
<1>6. LocksHeld'
  BY <1>1, <1>4 DEF FilesInv, LocksHeld
<1>7. Finished'
  BY <1>1, <1>3, <1>4 DEF FilesInv, Finished
<1>8. QED
  BY <1>2, <1>5, <1>6, <1>7 DEF FilesInv

LEMMA UseFreedInv ==
  ASSUME FilesInv, UseFreed("lock") \/ UseFreed("error")
  PROVE  FilesInv'
<1>1. UNCHANGED <<dentry, dpr, queue, ext_queue, opens, dirty, user, bg, stopping, acts, errors>> /\ fault' = "dentry"
  BY DEF UseFreed
<1>2. HandlesCounted' /\ Alive' /\ Owned' /\ OnQueues' /\ Unwritten' /\ Claims'
  BY <1>1, SameUsers
<1>3. SchedTypes' /\ LocksHeld' /\ Finished'
  BY <1>1 DEF FilesInv, SchedTypes, LocksHeld, Finished
<1>4. QED
  BY <1>2, <1>3 DEF FilesInv

LEMMA WriteTakenInv ==
  ASSUME FilesInv, WriteTaken
  PROVE  FilesInv'
<1>1. UNCHANGED <<dentry, dpr, queue, ext_queue, opens, dirty, user, stopping, fault, acts>> /\ bg.at = "write"
  BY DEF WriteTaken
<1>2. HandlesCounted' /\ Alive' /\ Owned' /\ OnQueues' /\ Unwritten' /\ Claims'
  BY <1>1, SameUsers
<1>3. bg \in BgStates /\ bg.file \in Files /\ ~stopping
  BY <1>1 DEF FilesInv, SchedTypes, Finished
<1>4. bg' \in BgStates /\ bg'.dpr = None /\ bg'.file \in Files /\ bg'.at \in {"pick", "error"} /\ errors' \in Nat
  <2>1. [bg EXCEPT !.at = "pick", !.dpr = None, !.taken = {}] \in BgStates
    BY <1>3 DEF BgStates
  <2>2. [bg EXCEPT !.at = "error", !.dpr = None, !.taken = {}] \in BgStates
    BY <1>3 DEF BgStates
  <2>3. errors \in Nat /\ (errors' = errors \/ errors' = errors + 1)
    BY DEF WriteTaken, FilesInv, SchedTypes
  <2>4. bg' = [bg EXCEPT !.at = "pick", !.dpr = None, !.taken = {}]
        \/ bg' = [bg EXCEPT !.at = "error", !.dpr = None, !.taken = {}]
    BY DEF WriteTaken
  <2>5. bg' \in BgStates
    BY <2>1, <2>2, <2>4
  <2>6. bg'.dpr = None /\ bg'.file \in Files /\ bg'.at \in {"pick", "error"}
    BY <1>3, <2>4 DEF BgStates
  <2>7. errors' \in Nat
    BY <2>3
  <2>8. QED
    BY <2>5, <2>6, <2>7
<1>5. SchedTypes'
  BY <1>1, <1>4 DEF FilesInv, SchedTypes
<1>6. LocksHeld'
  BY <1>1, <1>4 DEF FilesInv, LocksHeld
<1>7. Finished'
  BY <1>1, <1>3, <1>4 DEF FilesInv, Finished
<1>8. QED
  BY <1>2, <1>5, <1>6, <1>7 DEF FilesInv

LEMMA IndexDoneInv ==
  ASSUME FilesInv, IndexDone
  PROVE  FilesInv'
<1>1. UNCHANGED <<dentry, dpr, queue, ext_queue, opens, dirty, user, stopping, fault, acts, errors>>
      /\ bg.at = "index" /\ queue["IP"] = <<>>
  BY DEF IndexDone
<1>2. HandlesCounted' /\ Alive' /\ Owned' /\ OnQueues' /\ Unwritten' /\ Claims'
  BY <1>1, SameUsers
<1>3. bg \in BgStates /\ bg.dpr = None
  BY <1>1 DEF FilesInv, SchedTypes
<1>4. bg' \in BgStates /\ bg'.dpr = None /\ bg'.at = IF stopping THEN "destroy" ELSE "idle"
  <2>1. [bg EXCEPT !.at = "destroy"] \in BgStates
    BY <1>3 DEF BgStates
  <2>2. QED
    BY <1>3, <2>1 DEF IndexDone, BgStates, Waits
<1>5. SchedTypes'
  BY <1>1, <1>4 DEF FilesInv, SchedTypes
<1>6. LocksHeld'
  BY <1>1, <1>4 DEF FilesInv, LocksHeld
<1>7. Finished'
  BY <1>1, <1>3, <1>4 DEF FilesInv, Finished
<1>8. QED
  BY <1>2, <1>5, <1>6, <1>7 DEF FilesInv

LEMMA StopInv ==
  ASSUME FilesInv, Stop
  PROVE  FilesInv'
<1>1. UNCHANGED <<dentry, dpr, queue, ext_queue, opens, dirty, user, fault, acts, errors>>
      /\ bg = Waits /\ stopping' = TRUE /\ bg' = [bg EXCEPT !.at = "flushall"]
      /\ \A u \in Users : user[u] = Resting /\ opens[u] = {}
  BY DEF Stop
<1>2. HandlesCounted' /\ Alive' /\ Owned' /\ OnQueues' /\ Unwritten' /\ Claims'
  BY <1>1, SameUsers
<1>3. bg' \in BgStates /\ bg'.dpr = None /\ bg'.at = "flushall"
  BY <1>1 DEF Waits, BgStates
<1>5. SchedTypes'
  BY <1>1, <1>3 DEF FilesInv, SchedTypes
<1>6. LocksHeld'
  BY <1>1, <1>3 DEF FilesInv, LocksHeld, Resting, InClose, AllFiles
<1>7. Finished'
  BY <1>1, <1>3 DEF FilesInv, Finished, Resting
<1>8. QED
  BY <1>2, <1>5, <1>6, <1>7 DEF FilesInv

LEMMA DestroyedInv ==
  ASSUME FilesInv, Destroyed
  PROVE  FilesInv'
<1>1. UNCHANGED <<dentry, dpr, queue, ext_queue, opens, dirty, user, stopping, fault, acts, errors>>
      /\ bg.at = "destroy" /\ bg' = [bg EXCEPT !.at = "gone"] /\ ext_queue = <<>>
  BY DEF Destroyed
<1>2. HandlesCounted' /\ Alive' /\ Owned' /\ OnQueues' /\ Unwritten' /\ Claims'
  BY <1>1, SameUsers
<1>3. bg' \in BgStates /\ bg'.dpr = None /\ bg'.at = "gone"
  BY <1>1 DEF BgStates, FilesInv, SchedTypes
<1>5. SchedTypes'
  BY <1>1, <1>3 DEF FilesInv, SchedTypes
<1>6. LocksHeld'
  BY <1>1, <1>3 DEF FilesInv, LocksHeld
<1>7. Finished'
  BY <1>1, <1>3 DEF FilesInv, Finished
<1>8. QED
  BY <1>2, <1>5, <1>6, <1>7 DEF FilesInv

-----------------------------------------------------------------------------
(* Users who take a handle or give one back.                               *)

HandlesAt(d) ==
  One(dentry[d].linked) + One(dentry[d].priv # None) + Cardinality(OpenedBy(d)) + Cardinality(CalledBy(d))

\* Handles taken or given back on one dentry.
LEMMA HandlesChange ==
  ASSUME HandlesCounted, Alive, NEW d \in Files,
         \A e \in Files : e # d =>
           /\ dentry'[e] = dentry[e]
           /\ \A v \in Users : (e \in opens'[v]) = (e \in opens[v]) /\ (user'[v].file = e) = (user[v].file = e),
         dentry'[d].handles = HandlesAt(d)', dentry'[d].alive = (dentry'[d].handles > 0)
  PROVE  HandlesCounted' /\ Alive'
<1>1. ASSUME NEW e \in Files, e # d
      PROVE  dentry'[e].handles = One(dentry'[e].linked) + One(dentry'[e].priv # None)
               + Cardinality({u \in Users : e \in opens'[u]}) + Cardinality({u \in Users : user'[u].file = e})
  <2>1. {u \in Users : e \in opens'[u]} = {u \in Users : e \in opens[u]}
    BY <1>1
  <2>2. {u \in Users : user'[u].file = e} = {u \in Users : user[u].file = e}
    BY <1>1
  <2>3. dentry[e].handles = One(dentry[e].linked) + One(dentry[e].priv # None)
               + Cardinality({u \in Users : e \in opens[u]}) + Cardinality({u \in Users : user[u].file = e})
    BY DEF HandlesCounted
  <2>4. QED
    BY <1>1, <2>1, <2>2, <2>3
<1>2. HandlesCounted'
  <2>1. dentry'[d].handles = One(dentry'[d].linked) + One(dentry'[d].priv # None)
               + Cardinality({u \in Users : d \in opens'[u]}) + Cardinality({u \in Users : user'[u].file = d})
    BY DEF HandlesAt, OpenedBy, CalledBy
  <2>2. ASSUME NEW e \in Files
        PROVE  dentry'[e].handles = One(dentry'[e].linked) + One(dentry'[e].priv # None)
               + Cardinality({u \in Users : e \in opens'[u]}) + Cardinality({u \in Users : user'[u].file = e})
    <3>1. CASE e = d
      BY <2>1, <3>1
    <3>2. CASE e # d
      BY <1>1, <3>2
    <3>3. QED
      BY <3>1, <3>2
  <2>3. QED
    BY <2>2 DEF HandlesCounted
<1>3. QED
  BY <1>2 DEF Alive

\* The two sets of users that hold a dentry, as numbers.
LEMMA Counts ==
  ASSUME SchedTypes, HandlesCounted, NEW d \in Files
  PROVE  /\ dentry[d].handles = HandlesAt(d) /\ dentry[d].handles \in Nat
         /\ Cardinality(OpenedBy(d)) \in Nat /\ Cardinality(CalledBy(d)) \in Nat
         /\ OpenedBy(d) # {} => Cardinality(OpenedBy(d)) > 0
         /\ CalledBy(d) # {} => Cardinality(CalledBy(d)) > 0
         /\ \A u \in Users :
              /\ Cardinality(OpenedBy(d) \cup {u}) = Cardinality(OpenedBy(d)) + IF d \in opens[u] THEN 0 ELSE 1
              /\ Cardinality(OpenedBy(d) \ {u}) = Cardinality(OpenedBy(d)) - IF d \in opens[u] THEN 1 ELSE 0
              /\ Cardinality(CalledBy(d) \cup {u}) = Cardinality(CalledBy(d)) + IF user[u].file = d THEN 0 ELSE 1
              /\ Cardinality(CalledBy(d) \ {u}) = Cardinality(CalledBy(d)) - IF user[u].file = d THEN 1 ELSE 0
<1>1. dentry[d].handles = HandlesAt(d) /\ dentry[d].handles \in Nat
  BY DEF HandlesCounted, HandlesAt, OpenedBy, CalledBy, SchedTypes, DentryStates
<1>2. OpenedBy(d) \in SUBSET Users /\ CalledBy(d) \in SUBSET Users
      /\ \A u \in Users : (u \in OpenedBy(d)) = (d \in opens[u]) /\ (u \in CalledBy(d)) = (user[u].file = d)
  BY DEF OpenedBy, CalledBy
<1>3. /\ Cardinality(OpenedBy(d)) \in Nat
      /\ OpenedBy(d) # {} => Cardinality(OpenedBy(d)) > 0
      /\ \A u \in Users : Cardinality(OpenedBy(d) \cup {u}) = Cardinality(OpenedBy(d)) + (IF u \in OpenedBy(d) THEN 0 ELSE 1)
      /\ \A u \in Users : Cardinality(OpenedBy(d) \ {u}) = Cardinality(OpenedBy(d)) - (IF u \in OpenedBy(d) THEN 1 ELSE 0)
  BY <1>2, CountedBy
<1>4. /\ Cardinality(CalledBy(d)) \in Nat
      /\ CalledBy(d) # {} => Cardinality(CalledBy(d)) > 0
      /\ \A u \in Users : Cardinality(CalledBy(d) \cup {u}) = Cardinality(CalledBy(d)) + (IF u \in CalledBy(d) THEN 0 ELSE 1)
      /\ \A u \in Users : Cardinality(CalledBy(d) \ {u}) = Cardinality(CalledBy(d)) - (IF u \in CalledBy(d) THEN 1 ELSE 0)
  BY <1>2, CountedBy
<1>5. QED
  BY <1>1, <1>2, <1>3, <1>4

LEMMA OpenInv ==
  ASSUME FilesInv, NEW u \in Users, NEW d \in Files, Open(u, d)
  PROVE  FilesInv'
<1>1. /\ UNCHANGED <<dpr, queue, ext_queue, dirty, user, bg, stopping, fault, errors>>
      /\ ~stopping /\ d \notin opens[u] /\ dentry[d].linked /\ acts' = acts + 1
      /\ opens' = [opens EXCEPT ![u] = @ \cup {d}]
      /\ dentry' = [dentry EXCEPT ![d].handles = @ + 1]
  BY DEF Open, Act
<1>2. dentry \in [Files -> DentryStates] /\ dentry[d].handles \in Nat /\ opens \in [Users -> SUBSET Files]
  BY DEF FilesInv, SchedTypes, DentryStates
<1>3. /\ dentry'[d].handles = dentry[d].handles + 1 /\ dentry'[d].linked /\ dentry'[d].priv = dentry[d].priv
      /\ dentry'[d].alive = dentry[d].alive /\ \A e \in Files : e # d => dentry'[e] = dentry[e]
  BY <1>1, <1>2
<1>4. dentry' \in [Files -> DentryStates]
  <2>1. [dentry[d] EXCEPT !.handles = @ + 1] \in DentryStates
    BY <1>2 DEF DentryStates
  <2>2. dentry' = [dentry EXCEPT ![d] = [dentry[d] EXCEPT !.handles = @ + 1]]
    BY <1>1
  <2>3. QED
    BY <1>2, <2>1, <2>2
<1>5. opens' \in [Users -> SUBSET Files] /\ opens'[u] = opens[u] \cup {d} /\ \A v \in Users : v # u => opens'[v] = opens[v]
  BY <1>1, <1>2
<1>6. HandlesCounted' /\ Alive'
  <2>1. dentry[d].handles = HandlesAt(d)
    BY Counts DEF FilesInv
  <2>2. OpenedBy(d)' = OpenedBy(d) \cup {u} /\ CalledBy(d)' = CalledBy(d)
    BY <1>1, <1>5 DEF OpenedBy, CalledBy
  <2>3. Cardinality(OpenedBy(d) \cup {u}) = Cardinality(OpenedBy(d)) + 1
    BY <1>1, Counts DEF FilesInv
  <2>4. Cardinality(OpenedBy(d)) \in Nat /\ Cardinality(CalledBy(d)) \in Nat
    BY Counts DEF FilesInv
  <2>5. dentry'[d].handles = HandlesAt(d)'
    BY <1>1, <1>3, <2>1, <2>2, <2>3, <2>4 DEF HandlesAt, One
  <2>6. dentry'[d].alive = (dentry'[d].handles > 0)
    <3>1. dentry[d].handles > 0
      BY <1>1, <2>1, <2>4 DEF HandlesAt, One
    <3>2. QED
      BY <1>2, <1>3, <3>1 DEF FilesInv, Alive
  <2>7. QED
    BY <1>1, <1>3, <1>5, <2>5, <2>6, HandlesChange DEF FilesInv
<1>7. Owned' /\ OnQueues' /\ Unwritten'
  <2>1. \A v \in Users : dirty'[v] \subseteq opens'[v]
    BY <1>1, <1>5 DEF FilesInv, Unwritten
  <2>2. \A e \in Files : dentry'[e].priv = dentry[e].priv
    BY <1>3
  <2>3. QED
    BY <1>1, <2>1, <2>2, NoneChanged DEF FilesInv, SameFlushes
<1>8. SchedTypes'
  BY <1>1, <1>4, <1>5 DEF FilesInv, SchedTypes
<1>9. LocksHeld' /\ Finished'
  BY <1>1 DEF FilesInv, LocksHeld, Finished
<1>10. Claims'
  <2>1. \A v \in Users : user[v].at \in {"flush", "freeing"} => dentry'[user[v].file].priv = dentry[user[v].file].priv
    BY <1>3, Privs DEF InClose, FilesInv
  <2>2. QED
    BY <1>1, <2>1 DEF FilesInv, Claims, Claim
<1>11. QED
  BY <1>6, <1>7, <1>8, <1>9, <1>10 DEF FilesInv

LEMMA UnlinkInv ==
  ASSUME FilesInv, NEW u \in Users, NEW d \in Files, Unlink(u, d)
  PROVE  FilesInv'
<1>1. /\ UNCHANGED <<dpr, queue, ext_queue, opens, dirty, bg, stopping, fault, errors>>
      /\ ~stopping /\ user[u] = Resting /\ dentry[d].linked /\ acts' = acts + 1
      /\ user' = [user EXCEPT ![u] = [at |-> "place", file |-> d]]
      /\ dentry' = [dentry EXCEPT ![d].linked = FALSE]
  BY DEF Unlink, Act
<1>2. dentry \in [Files -> DentryStates] /\ user \in [Users -> UserStates]
  BY DEF FilesInv, SchedTypes
<1>3. /\ dentry'[d].handles = dentry[d].handles /\ ~dentry'[d].linked /\ dentry'[d].priv = dentry[d].priv
      /\ dentry'[d].alive = dentry[d].alive /\ \A e \in Files : e # d => dentry'[e] = dentry[e]
  BY <1>1, <1>2 DEF DentryStates
<1>4. dentry' \in [Files -> DentryStates]
  <2>1. [dentry[d] EXCEPT !.linked = FALSE] \in DentryStates
    BY <1>2 DEF DentryStates
  <2>2. dentry' = [dentry EXCEPT ![d] = [dentry[d] EXCEPT !.linked = FALSE]]
    BY <1>1
  <2>3. QED
    BY <1>2, <2>1, <2>2
<1>5. /\ user' \in [Users -> UserStates] /\ user'[u] = [at |-> "place", file |-> d]
      /\ \A v \in Users : v # u => user'[v] = user[v]
  <2>1. [at |-> "place", file |-> d] \in UserStates
    BY DEF UserStates, InCall
  <2>2. QED
    BY <1>1, <1>2, <2>1
<1>6. HandlesCounted' /\ Alive'
  <2>1. dentry[d].handles = HandlesAt(d)
    BY Counts DEF FilesInv
  <2>0. user[u].file = NoFile /\ NoFile \notin Files
    BY <1>1, SchedAssumption DEF Resting
  <2>2. OpenedBy(d)' = OpenedBy(d) /\ CalledBy(d)' = CalledBy(d) \cup {u}
    BY <1>1, <1>5 DEF OpenedBy, CalledBy
  <2>3. Cardinality(CalledBy(d) \cup {u}) = Cardinality(CalledBy(d)) + 1
    BY <2>0, Counts DEF FilesInv
  <2>4. Cardinality(OpenedBy(d)) \in Nat /\ Cardinality(CalledBy(d)) \in Nat
    BY Counts DEF FilesInv
  <2>5. dentry'[d].handles = HandlesAt(d)'
    BY <1>1, <1>3, <2>1, <2>2, <2>3, <2>4 DEF HandlesAt, One
  <2>6. dentry'[d].alive = (dentry'[d].handles > 0)
    BY <1>3 DEF FilesInv, Alive
  <2>7. \A e \in Files : e # d => \A v \in Users : (user'[v].file = e) = (user[v].file = e)
    BY <1>5, <2>0
  <2>8. QED
    BY <1>1, <1>3, <2>5, <2>6, <2>7, HandlesChange DEF FilesInv
<1>7. SameFlushes /\ \A e \in Files : dentry'[e].priv = dentry[e].priv
  <2>1. user[u].at # "flush" /\ user'[u].at # "flush"
    BY <1>1, <1>5 DEF Resting
  <2>2. QED
    BY <1>3, <1>5, <2>1 DEF SameFlushes
<1>8. Owned' /\ OnQueues' /\ Unwritten'
  <2>1. \A v \in Users : dirty'[v] \subseteq opens'[v]
    BY <1>1 DEF FilesInv, Unwritten
  <2>2. QED
    BY <1>1, <1>7, <2>1, NoneChanged DEF FilesInv
<1>9. SchedTypes'
  BY <1>1, <1>4, <1>5 DEF FilesInv, SchedTypes
<1>10. LocksHeld'
  <2>1. user'[u].at \notin InClose \cup AllFiles
    BY <1>5 DEF InClose, AllFiles
  <2>2. QED
    BY <1>1, <1>5, <2>1, LocksMove DEF FilesInv
<1>11. Finished'
  BY <1>1, <1>5 DEF FilesInv, Finished
<1>12. Claims'
  <2>1. \A v \in Users : user[v].at \in {"flush", "freeing"} => dentry'[user[v].file].priv = dentry[user[v].file].priv
    BY <1>7, Privs DEF InClose, FilesInv
  <2>2. QED
    BY <1>1, <1>5, <2>1 DEF FilesInv, Claims, Claim
<1>13. QED
  BY <1>6, <1>8, <1>9, <1>10, <1>11, <1>12 DEF FilesInv

LEMMA PutInv ==
  ASSUME FilesInv, NEW u \in Users, Put(u)
  PROVE  FilesInv'
<1>0. user[u].file \in Files /\ NoFile \notin Files
  BY SchedAssumption DEF Put, FilesInv, SchedTypes, UserStates, AllFiles
<1>a. PICK d \in Files : user[u].file = d
  BY <1>0
<1>1. /\ UNCHANGED <<dpr, queue, ext_queue, opens, dirty, bg, stopping, fault, acts, errors>>
      /\ user[u].at = "put" /\ user' = [user EXCEPT ![u] = Resting]
      /\ dentry' = [dentry EXCEPT ![d] = Released(@)]
  BY <1>a DEF Put
<1>2. dentry \in [Files -> DentryStates] /\ user \in [Users -> UserStates]
  BY DEF FilesInv, SchedTypes
<1>3. /\ dentry'[d].handles = dentry[d].handles - 1 /\ dentry'[d].linked = dentry[d].linked
      /\ dentry'[d].priv = dentry[d].priv
      /\ dentry'[d].alive = (dentry[d].handles > 1) /\ \A e \in Files : e # d => dentry'[e] = dentry[e]
  BY <1>1, <1>2 DEF DentryStates, Released
<1>e. CalledBy(d) # {}
  BY <1>a DEF CalledBy
<1>b. /\ dentry[d].handles = HandlesAt(d) /\ dentry[d].handles \in Nat
      /\ Cardinality(OpenedBy(d)) \in Nat /\ Cardinality(CalledBy(d)) \in Nat /\ Cardinality(CalledBy(d)) > 0
  BY <1>e, Counts DEF FilesInv
<1>c. Cardinality(CalledBy(d) \ {u}) = Cardinality(CalledBy(d)) - 1
  BY <1>a, Counts DEF FilesInv
<1>d. dentry[d].handles > 0
  BY <1>b DEF HandlesAt, One
<1>4. dentry' \in [Files -> DentryStates]
  <2>1. Released(dentry[d]) \in DentryStates
    <3>1. dentry[d].handles - 1 \in Nat
      BY <1>b, <1>d
    <3>2. dentry[d] \in DentryStates /\ (dentry[d].handles > 1) \in BOOLEAN
      BY <1>2
    <3>3. QED
      BY <3>1, <3>2 DEF DentryStates, Released
  <2>2. dentry' = [dentry EXCEPT ![d] = Released(dentry[d])]
    BY <1>1
  <2>3. QED
    BY <1>2, <2>1, <2>2
<1>5. /\ user' \in [Users -> UserStates] /\ user'[u] = [at |-> "idle", file |-> NoFile]
      /\ \A v \in Users : v # u => user'[v] = user[v]
  <2>1. [at |-> "idle", file |-> NoFile] \in UserStates
    BY DEF UserStates
  <2>2. QED
    BY <1>1, <1>2, <2>1 DEF Resting
<1>6. HandlesCounted' /\ Alive'
  <2>2. OpenedBy(d)' = OpenedBy(d) /\ CalledBy(d)' = CalledBy(d) \ {u}
    BY <1>0, <1>1, <1>5 DEF OpenedBy, CalledBy
  <2>5. dentry'[d].handles = HandlesAt(d)'
    BY <1>3, <1>b, <1>c, <2>2 DEF HandlesAt, One
  <2>6. dentry'[d].alive = (dentry'[d].handles > 0)
    BY <1>3, <1>b
  <2>7. \A e \in Files : e # d => \A v \in Users : (user'[v].file = e) = (user[v].file = e)
    BY <1>0, <1>5, <1>a
  <2>8. QED
    BY <1>1, <1>3, <1>a, <2>5, <2>6, <2>7, HandlesChange DEF FilesInv
<1>7. SameFlushes /\ \A e \in Files : dentry'[e].priv = dentry[e].priv
  <2>1. user[u].at # "flush" /\ user'[u].at # "flush"
    BY <1>1, <1>5
  <2>2. QED
    BY <1>3, <1>5, <2>1 DEF SameFlushes
<1>8. Owned' /\ OnQueues' /\ Unwritten'
  <2>1. \A v \in Users : dirty'[v] \subseteq opens'[v]
    BY <1>1 DEF FilesInv, Unwritten
  <2>2. QED
    BY <1>1, <1>7, <2>1, NoneChanged DEF FilesInv
<1>9. SchedTypes'
  BY <1>1, <1>4, <1>5 DEF FilesInv, SchedTypes
<1>10. LocksHeld'
  <2>1. user'[u].at \notin InClose \cup AllFiles
    BY <1>5 DEF InClose, AllFiles
  <2>2. QED
    BY <1>1, <1>5, <2>1, LocksMove DEF FilesInv
<1>11. Finished'
  BY <1>1, <1>5 DEF FilesInv, Finished, Resting
<1>12. Claims'
  <2>1. \A v \in Users : user[v].at \in {"flush", "freeing"} => dentry'[user[v].file].priv = dentry[user[v].file].priv
    BY <1>7, Privs DEF InClose, FilesInv
  <2>2. QED
    BY <1>1, <1>5, <2>1 DEF FilesInv, Claims, Claim
<1>13. QED
  BY <1>6, <1>8, <1>9, <1>10, <1>11, <1>12 DEF FilesInv

-----------------------------------------------------------------------------
(* Steps on the structure of one file.                                     *)

\* The structure p is that of d, and where it is queued.
PrivOf(d, p) ==
  /\ p \in Dprs /\ dentry[d].priv = p /\ dpr[p] \in DprStates /\ dpr[p].live /\ dpr[p].file = d
  /\ Queues(queue) /\ QueueOf(ext_queue)
  /\ (p \in ToSet(queue["IP"])) = ("IP" \in dpr[p].reqs)
  /\ \A s \in DataStates : (p \in ToSet(queue[s])) = (s \in dpr[p].reqs /\ ~FlushedFile(d))
  /\ (p \in ToSet(ext_queue)) = dpr[p].alt
  /\ dpr[p].reqs \cap DataStates # {} => ~dpr[p].err /\ ((\E v \in Users : d \in dirty[v]) \/ FlushedFile(d))

\* All that the invariant says of one structure and its dentry.
LEMMA PrivIs ==
  ASSUME FilesInv, NEW d \in Files, dentry[d].priv # None
  PROVE  PrivOf(d, dentry[d].priv)
<1> DEFINE p == dentry[d].priv
<1>1. p \in Dprs /\ dpr[p] \in DprStates
  BY Privs DEF FilesInv
<1>2. dpr[p].live /\ dpr[p].file = d
  BY DEF FilesInv, Owned
<1>3. Queues(queue) /\ QueueOf(ext_queue)
  BY DEF FilesInv, SchedTypes, OnQueues, Queues, QueueOf
<1>4. Flushing(p) = FlushedFile(d)
  <2>1. ASSUME NEW v \in Users, user[v].at = "flush"
        PROVE  (dentry[user[v].file].priv = p) = (user[v].file = d)
    <3>1. user[v].file \in Files
      BY <2>1, Privs DEF FilesInv, InClose
    <3>2. dentry[user[v].file].priv = p => dpr[p].file = user[v].file
      BY <3>1 DEF FilesInv, Owned
    <3>3. QED
      BY <1>2, <3>2
  <2>2. QED
    BY <2>1 DEF Flushing, FlushedFile
<1>5. Placed(p) /\ Carried(p)
  BY <1>1 DEF FilesInv, OnQueues, Unwritten
<1> HIDE DEF p
<1>6. p = dentry[d].priv
  BY DEF p
<1>7. PrivOf(d, p)
  BY <1>1, <1>2, <1>3, <1>4, <1>5, <1>6 DEF PrivOf, Placed, Carried
<1>8. QED
  BY <1>6, <1>7

\* A file whose lock is free is in no close, and nobody has the scheduler.
LEMMA FreeFile ==
  ASSUME SchedTypes, NEW d \in Files, Free(d)
  PROVE  /\ \A v \in Users : user[v].at \in InClose => user[v].file # d
         /\ \A v \in Users : user[v].at \notin AllFiles
         /\ bg.at \notin {"index", "flushall", "destroy"} /\ ~Exclusive
         /\ ~FlushedFile(d)
  BY DEF Free, Locked, Exclusive, InClose, AllFiles, FlushedFile

\* What is left of a step of a user on the structure of a file.
LEMMA Touched ==
  ASSUME FilesInv, NEW d \in Files, NEW p \in Dprs, NEW r \in DprStates, OneChanged(d, p, r),
         UNCHANGED <<dentry, opens>>,
         \A e \in Files, v \in Users : (user'[v].file = e) = (user[v].file = e),
         \A v \in Users : dirty[v] \subseteq dirty'[v] /\ dirty'[v] \subseteq opens[v],
         r.reqs \cap DataStates # {} => ~r.err /\ ((\E v \in Users : d \in dirty'[v]) \/ FlushedFile(d)')
  PROVE  /\ HandlesCounted' /\ Alive' /\ Owned' /\ OnQueues' /\ Unwritten' /\ Claims'
         /\ dpr' \in [Dprs -> DprStates] /\ queue' \in [States -> Seq(Dprs)] /\ ext_queue' \in Seq(Dprs)
<1>1. HandlesCounted' /\ Alive'
  BY SameHandles DEF FilesInv
<1>2. Owned'
  BY OneOwned DEF FilesInv
<1>3. OnQueues'
  BY OneQueued DEF FilesInv
<1>4. Claims'
  BY OneClaimed DEF FilesInv
<1>5. Unwritten'
  <2>1. \A v \in Users : dirty'[v] \subseteq opens'[v]
    OBVIOUS
  <2>2. \A v \in Users, e \in Files : e \in dirty[v] /\ e # d => e \in dirty'[v]
    OBVIOUS
  <2>3. SchedTypes /\ Owned /\ Unwritten
    BY DEF FilesInv
  <2>4. QED
    BY <2>1, <2>2, <2>3, OneUnwritten
<1>6. dpr' \in [Dprs -> DprStates] /\ queue' \in [States -> Seq(Dprs)] /\ ext_queue' \in Seq(Dprs)
  BY DEF OneChanged, Beside, Queues, QueueOf, FilesInv, SchedTypes
<1>7. QED
  BY <1>1, <1>2, <1>3, <1>4, <1>5, <1>6

\* The scheduler is in use.
LEMMA Going ==
  ASSUME FilesInv, ~stopping, UNCHANGED stopping, bg'.at \notin {"flushall", "destroy", "gone"},
         \A v \in Users : user'[v].at # "flushed"
  PROVE  Finished'
  BY DEF FilesInv, Finished

\* After a write, none of the requests for the data partition is left.
Emptied(p, r) ==
  /\ dpr' = [dpr EXCEPT ![p] = r] /\ r \in DprStates
  /\ r.live = dpr[p].live /\ r.file = dpr[p].file /\ r.alt = dpr[p].alt /\ r.reqs \subseteq {"IP"}
  /\ Beside(queue', p)
  /\ (p \in ToSet(queue'["IP"])) = ("IP" \in r.reqs)
  /\ \A s \in DataStates : p \notin ToSet(queue'[s])

\* A failed write leaves nothing for the data partition,
LEMMA FailsAfterIs ==
  ASSUME NEW p \in Dprs, NEW q, Beside(q, p), NEW r \in DprStates,
         r.live = dpr[p].live, r.file = dpr[p].file, r.alt = dpr[p].alt,
         (p \in ToSet(q["IP"])) = ("IP" \in r.reqs), FailsAfter(p, q, r)
  PROVE  \E x : Emptied(p, x)
<1>1. PICK both \in BOOLEAN, some \in BOOLEAN :
        LET first == IF some /\ r.wip THEN [r EXCEPT !.reqs = @ \cup {"IP"}] ELSE r
        IN  /\ dpr' = [dpr EXCEPT ![p] = [Failing(first, both) EXCEPT !.err = r.err]]
            /\ queue' = Drop(IF some /\ r.wip THEN On(q, "IP", p) ELSE q, p, both)
  BY DEF FailsAfter
<1> DEFINE first == IF some /\ r.wip THEN [r EXCEPT !.reqs = @ \cup {"IP"}] ELSE r
           x == [Failing(first, both) EXCEPT !.err = r.err]
           a == IF some /\ r.wip THEN On(q, "IP", p) ELSE q
<1>2. dpr' = [dpr EXCEPT ![p] = x] /\ queue' = Drop(a, p, both)
  BY <1>1
<1>3. /\ Queues(a)
      /\ \A s \in States : \A o : o \in ToSet(a[s]) <=> o \in ToSet(q[s]) \/ (s = "IP" /\ o = p /\ some /\ r.wip)
  <2>1. "IP" \in States
    BY DEF States
  <2>2. QED
    BY <2>1, OnIs DEF Beside
<1>4. first \in DprStates /\ first.live = r.live /\ first.file = r.file /\ first.alt = r.alt
      /\ first.reqs = r.reqs \cup (IF some /\ r.wip THEN {"IP"} ELSE {})
  BY DEF DprStates, States
<1> HIDE DEF first, a
<1>5. x \in DprStates /\ x.live = first.live /\ x.file = first.file /\ x.alt = first.alt
      /\ x.reqs = IF both THEN {} ELSE first.reqs \cap {"IP"}
  BY <1>4 DEF DprStates, Failing
<1> HIDE DEF x
<1>6. /\ Queues(Drop(a, p, both))
      /\ \A s \in States : \A o : o \in ToSet(Drop(a, p, both)[s]) <=> o \in ToSet(a[s]) /\ ~((both \/ s \in DataStates) /\ o = p)
  BY <1>3, DropIs
<1>7. "IP" \in States /\ "IP" \notin DataStates /\ DataStates \subseteq States
  BY DEF States, DataStates
<1>8. Beside(queue', p)
  BY <1>2, <1>3, <1>6 DEF Beside
<1>9. (p \in ToSet(queue'["IP"])) = ("IP" \in x.reqs)
  <2>1. p \in ToSet(queue'["IP"]) <=> p \in ToSet(a["IP"]) /\ ~both
    BY <1>2, <1>6, <1>7
  <2>2. p \in ToSet(a["IP"]) <=> "IP" \in first.reqs
    BY <1>3, <1>4, <1>7
  <2>3. QED
    BY <1>5, <2>1, <2>2
<1>10. \A s \in DataStates : p \notin ToSet(queue'[s])
  BY <1>2, <1>6, <1>7
<1>11. x.reqs \subseteq {"IP"}
  BY <1>5
<1>12. Emptied(p, x)
  BY <1>2, <1>4, <1>5, <1>8, <1>9, <1>10, <1>11 DEF Emptied
<1>13. QED
  BY <1>12

\* nor does one that does not fail.
LEMMA FlushToIs ==
  ASSUME FilesInv, NEW d \in Files, NEW p, PrivOf(d, p), FlushTo(p)
  PROVE  (\E x : Emptied(p, x)) /\ errors' \in Nat
<1>0. "IP" \in States /\ "IP" \notin DataStates /\ DataStates \subseteq States
  BY DEF States, DataStates
<1>1. p \in Dprs /\ Queues(queue) /\ dpr[p] \in DprStates /\ (p \in ToSet(queue["IP"])) = ("IP" \in dpr[p].reqs) /\ errors \in Nat
  BY DEF PrivOf, FilesInv, SchedTypes
<1> DEFINE q == OffData(queue, p)
<1>2. Queues(q) /\ \A x \in States : \A o : o \in ToSet(q[x]) <=> o \in ToSet(queue[x]) /\ ~(x \in DataStates /\ o = p)
  BY <1>1, OffDataIs
<1> HIDE DEF q
<1>3. Beside(q, p) /\ (p \in ToSet(q["IP"])) = ("IP" \in dpr[p].reqs)
  BY <1>0, <1>1, <1>2 DEF Beside
<1>4. CASE /\ dpr' = [dpr EXCEPT ![p].reqs = (@ \ (dpr[p].reqs \cap {"PARTIAL", "DP"}))
                                              \cup IF dpr[p].wip /\ dpr[p].reqs \cap {"PARTIAL", "DP"} # {} THEN {"IP"} ELSE {}]
           /\ queue' = IF dpr[p].wip /\ dpr[p].reqs \cap {"PARTIAL", "DP"} # {} THEN On(q, "IP", p) ELSE q
           /\ UNCHANGED errors
  <2> DEFINE m == dpr[p].wip /\ dpr[p].reqs \cap {"PARTIAL", "DP"} # {}
             n == (dpr[p].reqs \ (dpr[p].reqs \cap {"PARTIAL", "DP"})) \cup IF m THEN {"IP"} ELSE {}
             x == [dpr[p] EXCEPT !.reqs = n]
  <2>1. dpr' = [dpr EXCEPT ![p] = x]
    BY <1>4
  <2>2. n \subseteq {"IP"} /\ n \in SUBSET States /\ ("IP" \in n <=> "IP" \in dpr[p].reqs \/ m)
    BY <1>1 DEF DprStates, States
  <2>3. queue' = IF m THEN On(q, "IP", p) ELSE q
    BY <1>4
  <2> HIDE DEF m, n
  <2>4. x \in DprStates /\ x.live = dpr[p].live /\ x.file = dpr[p].file /\ x.alt = dpr[p].alt /\ x.reqs = n
    BY <1>1, <2>2 DEF DprStates
  <2>5. /\ Queues(On(q, "IP", p))
        /\ \A s \in States : \A o : o \in ToSet(On(q, "IP", p)[s]) <=> o \in ToSet(q[s]) \/ (s = "IP" /\ o = p)
    BY <1>0, <1>1, <1>2, OnIs
  <2> HIDE DEF x
  <2>6. Beside(queue', p)
    BY <1>2, <1>3, <2>3, <2>5 DEF Beside
  <2>7. (p \in ToSet(queue'["IP"])) = ("IP" \in n)
    BY <1>0, <1>3, <2>2, <2>3, <2>5
  <2>8. \A s \in DataStates : p \notin ToSet(queue'[s])
    BY <1>0, <1>2, <2>3, <2>5
  <2>9. Emptied(p, x)
    BY <2>1, <2>2, <2>4, <2>6, <2>7, <2>8 DEF Emptied
  <2>10. QED
    BY <1>1, <1>4, <2>9
<1>5. CASE errors' = errors + 1 /\ FailsAfter(p, q, dpr[p])
  BY <1>1, <1>3, <1>5, FailsAfterIs
<1>6. QED
  BY <1>4, <1>5 DEF FlushTo, q

\* No close has the file: whoever is in one goes on as before.
SameClaims ==
  \A v \in Users : user[v].at \in {"flush", "freeing"} \/ user'[v].at \in {"flush", "freeing"} => user'[v] = user[v]

\* Closes of other files are not disturbed.
LEMMA NotInClose ==
  ASSUME NEW d \in Files, SameClaims, \A v \in Users : user[v].at \in InClose => user[v].file # d
  PROVE  Elsewhere(d) /\ ~FlushedFile(d)'
  BY DEF SameClaims, Elsewhere, FlushedFile, InClose

\* Emptied is a change of one structure.
LEMMA EmptiedChanged ==
  ASSUME NEW d \in Files, NEW p, NEW x, PrivOf(d, p), Emptied(p, x), Elsewhere(d), UNCHANGED <<dentry, ext_queue>>
  PROVE  OneChanged(d, p, x)
  BY DEF PrivOf, Emptied, OneChanged

\* The place on the ext_queue goes with the alternate extents.
LEMMA ClearedIs ==
  ASSUME NEW d \in Files, NEW p, PrivOf(d, p), NEW r, r.alt = dpr[p].alt, NEW turned \in BOOLEAN, Cleared(p, r, turned)
  PROVE  /\ QueueOf(ext_queue') /\ \A o \in Dprs : o # p => (o \in ToSet(ext_queue') <=> o \in ToSet(ext_queue))
         /\ (p \in ToSet(ext_queue')) = (dpr[p].alt /\ ~turned)
<1>1. p \in Dprs /\ QueueOf(ext_queue) /\ (p \in ToSet(ext_queue)) = dpr[p].alt
  BY DEF PrivOf
<1>2. CASE turned /\ r.alt
  <2>1. QueueOf(RemoveFirst(ext_queue, p)) /\ ToSet(RemoveFirst(ext_queue, p)) = ToSet(ext_queue) \ {p}
    BY <1>1, Removal
  <2>2. ext_queue' = RemoveFirst(ext_queue, p)
    BY <1>2 DEF Cleared
  <2>3. QED
    BY <1>1, <1>2, <2>1, <2>2
<1>3. CASE ~(turned /\ r.alt)
  <2>1. ext_queue' = ext_queue
    BY <1>3 DEF Cleared
  <2>2. QED
    BY <1>1, <1>3, <2>1 DEF PrivOf, DprStates
<1>4. QED
  BY <1>2, <1>3

LEMMA PlaceInv ==
  ASSUME FilesInv, NEW u \in Users, Place(u)
  PROVE  FilesInv'
<1>0. user[u].file \in Files
  BY DEF Place, FilesInv, SchedTypes, UserStates, AllFiles
<1>a. PICK d \in Files : user[u].file = d
  BY <1>0
<1>1. /\ UNCHANGED <<dentry, opens, dirty, bg, stopping, fault, acts, errors>>
      /\ user[u].at = "place" /\ user' = [user EXCEPT ![u].at = "put"] /\ Free(d)
      /\ IF dentry[d].priv # None /\ dpr[dentry[d].priv].wip
         THEN /\ dpr' = [dpr EXCEPT ![dentry[d].priv] = ToDataPartition(@)]
              /\ queue' = Off(queue, "IP", dentry[d].priv) /\ Cleared(dentry[d].priv, dpr[dentry[d].priv], TRUE)
         ELSE UNCHANGED <<dpr, queue, ext_queue>>
  BY <1>a DEF Place
<1>2. /\ user' \in [Users -> UserStates] /\ user'[u] = [at |-> "put", file |-> d]
      /\ \A v \in Users : v # u => user'[v] = user[v]
      /\ \A e \in Files, v \in Users : (user'[v].file = e) = (user[v].file = e)
  BY <1>a, <1>1, UserMoves DEF FilesInv, InCall, InClose
<1>3. SameFlushes /\ SameClaims
  <2>1. user[u].at \notin {"flush", "freeing"} /\ user'[u].at \notin {"flush", "freeing"}
    BY <1>1, <1>2
  <2>2. QED
    BY <1>2, <2>1 DEF SameFlushes, SameClaims
<1>4. /\ HandlesCounted' /\ Alive' /\ Owned' /\ OnQueues' /\ Unwritten' /\ Claims'
      /\ dpr' \in [Dprs -> DprStates] /\ queue' \in [States -> Seq(Dprs)] /\ ext_queue' \in Seq(Dprs)
  <2>1. CASE dentry[d].priv # None /\ dpr[dentry[d].priv].wip
    <3>1. PICK p : p = dentry[d].priv
      OBVIOUS
    <3>2. PrivOf(d, p)
      BY <2>1, <3>1, PrivIs
    <3>3. PICK x : x = ToDataPartition(dpr[p])
      OBVIOUS
    <3>4. dpr' = [dpr EXCEPT ![p] = x] /\ queue' = Off(queue, "IP", p) /\ Cleared(p, dpr[p], TRUE)
      BY <1>1, <2>1, <3>1, <3>3
    <3>5. p \in Dprs /\ dpr[p] \in DprStates /\ dpr[p].live /\ dpr[p].file = d /\ dentry[d].priv = p /\ Queues(queue)
      BY <3>2 DEF PrivOf
    <3>6. x \in DprStates /\ x.live /\ x.file = d /\ x.reqs = dpr[p].reqs \ {"IP"} /\ ~x.alt /\ x.alt \in BOOLEAN /\ x.err = dpr[p].err
      BY <3>3, <3>5 DEF ToDataPartition, DprStates
    <3>7. "IP" \in States /\ "IP" \notin DataStates /\ DataStates \subseteq States
      BY DEF States, DataStates
    <3>8. /\ Queues(queue')
          /\ \A s \in States : \A o : o \in ToSet(queue'[s]) <=> o \in ToSet(queue[s]) /\ ~(s = "IP" /\ o = p)
      <4>1. /\ Queues(Off(queue, "IP", p))
            /\ \A s \in States : \A o : o \in ToSet(Off(queue, "IP", p)[s]) <=> o \in ToSet(queue[s]) /\ ~(s = "IP" /\ o = p)
        BY <3>5, OffIPIs
      <4>2. queue' = Off(queue, "IP", p)
        BY <3>4
      <4>3. QED
        BY <4>1, <4>2
    <3>9. QueueOf(ext_queue') /\ (\A o \in Dprs : o # p => (o \in ToSet(ext_queue') <=> o \in ToSet(ext_queue)))
          /\ p \notin ToSet(ext_queue')
      BY <3>2, <3>4, ClearedIs
    <3>10. Elsewhere(d) /\ ~FlushedFile(d)' /\ ~FlushedFile(d)
      BY <1>1, <1>3, FreeFile, NotInClose DEF FilesInv
    <3>11. /\ (p \in ToSet(queue'["IP"])) = ("IP" \in x.reqs)
           /\ \A s \in DataStates : (p \in ToSet(queue'[s])) = (s \in x.reqs /\ ~FlushedFile(d)')
      BY <3>2, <3>6, <3>7, <3>8, <3>10 DEF PrivOf
    <3>12. OneChanged(d, p, x)
      <4>1. \A e \in Files : dentry'[e].priv = IF e = d THEN (IF x.live THEN p ELSE None) ELSE dentry[e].priv
        BY <1>1, <3>5, <3>6
      <4>2. Beside(queue', p)
        BY <3>8 DEF Beside
      <4>3. (p \in ToSet(ext_queue')) = x.alt
        BY <3>6, <3>9
      <4>4. IF x.live THEN x.file = d ELSE x = NoDpr
        BY <3>6
      <4>5. QED
        BY <3>4, <3>5, <3>6, <3>9, <3>10, <3>11, <4>1, <4>2, <4>3, <4>4 DEF OneChanged
    <3>13. x.reqs \cap DataStates # {} => ~x.err /\ \E v \in Users : d \in dirty'[v]
      BY <1>1, <3>2, <3>6, <3>10 DEF PrivOf
    <3>14. \A v \in Users : dirty[v] \subseteq dirty'[v] /\ dirty'[v] \subseteq opens[v]
      BY <1>1 DEF FilesInv, Unwritten
    <3>15. QED
      BY <1>1, <1>2, <3>5, <3>6, <3>12, <3>13, <3>14, Touched
  <2>2. CASE ~(dentry[d].priv # None /\ dpr[dentry[d].priv].wip)
    <3>1. UNCHANGED <<dpr, queue, ext_queue>>
      BY <1>1, <2>2
    <3>2. Claims'
      BY <1>1, <1>2, <1>3, <3>1 DEF FilesInv, Claims, Claim, SameClaims
    <3>3. QED
      BY <1>1, <1>2, <1>3, <3>1, <3>2, OnlyControl DEF FilesInv, SchedTypes
  <2>3. QED
    BY <2>1, <2>2
<1>5. SchedTypes'
  BY <1>1, <1>2, <1>4 DEF FilesInv, SchedTypes
<1>6. LocksHeld'
  <2>1. user'[u].at \notin InClose \cup AllFiles
    BY <1>2 DEF InClose, AllFiles
  <2>2. QED
    BY <1>1, <1>2, <2>1, LocksMove DEF FilesInv
<1>7. Finished'
  <2>1. ~stopping
    BY <1>1 DEF FilesInv, Finished, Resting
  <2>2. bg'.at \notin {"flushall", "destroy", "gone"}
    BY <1>1, <2>1 DEF FilesInv, Finished
  <2>3. \A v \in Users : user'[v].at # "flushed"
    BY <1>1, <1>2, FreeFile DEF FilesInv, AllFiles
  <2>4. QED
    BY <1>1, <2>1, <2>2, <2>3, Going
<1>8. QED
  BY <1>4, <1>5, <1>6, <1>7 DEF FilesInv

LEMMA FlushInv ==
  ASSUME FilesInv, NEW u \in Users, Flush(u)
  PROVE  FilesInv'
<1>0. user[u].file \in Files
  BY DEF Flush, FilesInv, SchedTypes, UserStates, AllFiles
<1>a. PICK d \in Files : user[u].file = d
  BY <1>0
<1>b. PICK p : p = dentry[d].priv
  OBVIOUS
<1>1. /\ UNCHANGED <<dentry, ext_queue, opens, dirty, bg, stopping, fault, acts>>
      /\ user[u].at = "flush" /\ user' = [user EXCEPT ![u].at = "free"] /\ FlushTo(p)
  BY <1>a, <1>b DEF Flush
<1>2. /\ user' \in [Users -> UserStates] /\ user'[u] = [at |-> "free", file |-> d]
      /\ \A v \in Users : v # u => user'[v] = user[v]
      /\ \A e \in Files, v \in Users : (user'[v].file = e) = (user[v].file = e)
  BY <1>a, <1>1, UserMoves DEF FilesInv, InCall, InClose
<1>c. PrivOf(d, p)
  <2>1. p # None
    BY <1>a, <1>b, <1>1 DEF FilesInv, Claims, Claim
  <2>2. QED
    BY <1>b, <2>1, PrivIs
<1>d. (\E x : Emptied(p, x)) /\ errors' \in Nat
  BY <1>1, <1>c, FlushToIs
<1>e. PICK x : Emptied(p, x)
  BY <1>d
<1>3. Elsewhere(d)
  <2>1. \A v \in Users : v # u /\ user[v].at \in {"flush", "freeing"} => user[v].file # d
    BY <1>a, <1>1 DEF FilesInv, LocksHeld, InClose
  <2>2. QED
    BY <1>a, <1>1, <1>2, <2>1 DEF Elsewhere
<1>4. /\ HandlesCounted' /\ Alive' /\ Owned' /\ OnQueues' /\ Unwritten' /\ Claims'
      /\ dpr' \in [Dprs -> DprStates] /\ queue' \in [States -> Seq(Dprs)] /\ ext_queue' \in Seq(Dprs)
  <2>1. OneChanged(d, p, x)
    BY <1>1, <1>3, <1>c, <1>e, EmptiedChanged
  <2>2. x \in DprStates /\ x.reqs \cap DataStates = {} /\ p \in Dprs
    BY <1>c, <1>e DEF Emptied, PrivOf, DataStates
  <2>3. \A v \in Users : dirty[v] \subseteq dirty'[v] /\ dirty'[v] \subseteq opens[v]
    BY <1>1 DEF FilesInv, Unwritten
  <2>4. QED
    BY <1>1, <1>2, <2>1, <2>2, <2>3, Touched
<1>5. SchedTypes'
  BY <1>1, <1>2, <1>4, <1>d DEF FilesInv, SchedTypes
<1>6. LocksHeld'
  <2>1. user[u].at \in InClose /\ user'[u].at \in InClose /\ user'[u].file = user[u].file
    BY <1>1, <1>2, <1>a DEF InClose
  <2>2. QED
    BY <1>1, <1>2, <2>1, LocksMove DEF FilesInv
<1>7. Finished'
  <2>1. ~stopping
    BY <1>1 DEF FilesInv, Finished, Resting
  <2>2. bg'.at \notin {"flushall", "destroy", "gone"}
    BY <1>1, <2>1 DEF FilesInv, Finished
  <2>3. \A v \in Users : user'[v].at # "flushed"
    <3>1. \A v \in Users : user[v].at \notin AllFiles
      BY <1>1 DEF FilesInv, LocksHeld, InClose
    <3>2. QED
      BY <1>2, <3>1 DEF AllFiles
  <2>4. QED
    BY <1>1, <2>1, <2>2, <2>3, Going
<1>8. QED
  BY <1>4, <1>5, <1>6, <1>7 DEF FilesInv

\* A user who writes, truncates or closes: the scheduler is in use, and no one
\* else is in a close of the file.
LEMMA InUse ==
  ASSUME FilesInv, NEW u \in Users, NEW d \in Files, Uses(u, d)
  PROVE  /\ ~stopping /\ user[u] = [at |-> "idle", file |-> NoFile] /\ d \in opens[u] /\ Free(d)
         /\ bg.at \notin {"index", "flushall", "destroy", "gone"}
         /\ \A v \in Users : user[v].at \in InClose => user[v].file # d
         /\ \A v \in Users : user[v].at \notin AllFiles
         /\ ~FlushedFile(d) /\ ~Exclusive
<1>1. d \in opens[u] /\ user[u] = Resting /\ Free(d)
  BY DEF Uses
<1>2. ~stopping
  BY <1>1 DEF FilesInv, Finished
<1>3. bg.at # "gone"
  BY <1>2 DEF FilesInv, Finished
<1>4. /\ \A v \in Users : user[v].at \in InClose => user[v].file # d
      /\ \A v \in Users : user[v].at \notin AllFiles
      /\ bg.at \notin {"index", "flushall", "destroy"} /\ ~Exclusive
      /\ ~FlushedFile(d)
  BY <1>1, FreeFile DEF FilesInv
<1>5. QED
  BY <1>1, <1>2, <1>3, <1>4 DEF Resting

LEMMA CloseInv ==
  ASSUME FilesInv, NEW u \in Users, NEW d \in Files, Close(u, d)
  PROVE  FilesInv'
<1>p. PICK p : p = dentry[d].priv
  OBVIOUS
<1> DEFINE flush == d \in dirty[u] /\ p # None /\ ~dpr[p].err
           a == IF flush /\ dpr[p].reqs # {} THEN "flush" ELSE "free"
<1>1. /\ Uses(u, d) /\ UNCHANGED <<dentry, ext_queue, bg, stopping, fault, acts, errors>>
      /\ opens' = [opens EXCEPT ![u] = @ \ {d}] /\ dirty' = [dirty EXCEPT ![u] = @ \ {d}]
      /\ dpr' = [r \in Dprs |-> IF r = p THEN [dpr[r] EXCEPT !.err = FALSE] ELSE dpr[r]]
      /\ queue' = IF flush THEN OffData(queue, p) ELSE queue
      /\ user' = [user EXCEPT ![u] = [file |-> d, at |-> a]]
  BY <1>p DEF Close
<1>2. /\ ~stopping /\ user[u] = [at |-> "idle", file |-> NoFile] /\ d \in opens[u] /\ Free(d)
      /\ bg.at \notin {"index", "flushall", "destroy", "gone"}
      /\ \A v \in Users : user[v].at \in InClose => user[v].file # d
      /\ \A v \in Users : user[v].at \notin AllFiles
      /\ ~FlushedFile(d) /\ ~Exclusive
  BY <1>1, InUse
<1>3. a \in {"flush", "free"} /\ (a = "flush" <=> flush /\ dpr[p].reqs # {})
  OBVIOUS
<1>4. flush <=> d \in dirty[u] /\ p # None /\ ~dpr[p].err
  OBVIOUS
<1> HIDE DEF a, flush
<1>t. /\ user \in [Users -> UserStates] /\ opens \in [Users -> SUBSET Files] /\ dirty \in [Users -> SUBSET Files]
      /\ dpr \in [Dprs -> DprStates] /\ p \in Dprs \cup {None} /\ None \notin Dprs /\ NoFile \notin Files
  BY <1>p, Privs, SchedAssumption DEF FilesInv, SchedTypes
<1>5. /\ user' \in [Users -> UserStates] /\ user'[u] = [at |-> a, file |-> d]
      /\ \A v \in Users : v # u => user'[v] = user[v]
  <2>1. [at |-> a, file |-> d] \in UserStates
    BY <1>3 DEF UserStates, InCall, InClose
  <2>2. [file |-> d, at |-> a] = [at |-> a, file |-> d]
    OBVIOUS
  <2>3. QED
    BY <1>1, <1>t, <2>1, <2>2
<1>6. /\ opens' \in [Users -> SUBSET Files] /\ dirty' \in [Users -> SUBSET Files]
      /\ opens'[u] = opens[u] \ {d} /\ dirty'[u] = dirty[u] \ {d}
      /\ \A v \in Users : v # u => opens'[v] = opens[v] /\ dirty'[v] = dirty[v]
  BY <1>1, <1>t
<1>7. \A v \in Users : dirty'[v] \subseteq opens'[v]
  BY <1>6 DEF FilesInv, Unwritten
<1>8. HandlesCounted' /\ Alive'
  <2>1. /\ dentry[d].handles = HandlesAt(d)
        /\ Cardinality(OpenedBy(d)) \in Nat /\ Cardinality(CalledBy(d)) \in Nat
        /\ Cardinality(OpenedBy(d) \ {u}) = Cardinality(OpenedBy(d)) - 1
        /\ Cardinality(CalledBy(d) \cup {u}) = Cardinality(CalledBy(d)) + 1
    <3>1. user[u].file # d
      BY <1>2, <1>t
    <3>2. Cardinality(OpenedBy(d) \ {u}) = Cardinality(OpenedBy(d)) - IF d \in opens[u] THEN 1 ELSE 0
      BY Counts DEF FilesInv
    <3>3. Cardinality(CalledBy(d) \cup {u}) = Cardinality(CalledBy(d)) + IF user[u].file = d THEN 0 ELSE 1
      BY Counts DEF FilesInv
    <3>4. /\ dentry[d].handles = HandlesAt(d)
          /\ Cardinality(OpenedBy(d)) \in Nat /\ Cardinality(CalledBy(d)) \in Nat
      BY Counts DEF FilesInv
    <3>5. QED
      BY <1>2, <3>1, <3>2, <3>3, <3>4
  <2>2. OpenedBy(d)' = OpenedBy(d) \ {u} /\ CalledBy(d)' = CalledBy(d) \cup {u}
    BY <1>5, <1>6 DEF OpenedBy, CalledBy
  <2>3. dentry'[d].handles = HandlesAt(d)'
    BY <1>1, <2>1, <2>2 DEF HandlesAt, One
  <2>4. dentry'[d].alive = (dentry'[d].handles > 0)
    BY <1>1 DEF FilesInv, Alive
  <2>5. \A e \in Files : e # d => \A v \in Users : (e \in opens'[v]) = (e \in opens[v]) /\ (user'[v].file = e) = (user[v].file = e)
    BY <1>2, <1>5, <1>6, <1>t
  <2>6. QED
    BY <1>1, <2>3, <2>4, <2>5, HandlesChange DEF FilesInv
<1>9. /\ Owned' /\ OnQueues' /\ Unwritten' /\ Claims'
      /\ dpr' \in [Dprs -> DprStates] /\ queue' \in [States -> Seq(Dprs)] /\ ext_queue' \in Seq(Dprs)
  <2>1. CASE p = None
    <3>1. ~flush /\ a = "free"
      BY <1>3, <1>4, <2>1
    <3>2. dpr' = dpr /\ queue' = queue /\ ext_queue' = ext_queue
      BY <1>1, <1>t, <2>1, <3>1
    <3>3. SameFlushes
      <4>1. user[u].at # "flush" /\ user'[u].at # "flush"
        BY <1>2, <1>5, <3>1
      <4>2. QED
        BY <1>5, <4>1 DEF SameFlushes
    <3>4. \A v \in Users, e \in Files : e \in dirty[v] => e \in dirty'[v] \/ dentry[e].priv = None
      BY <1>6, <1>p, <2>1
    <3>5. Owned' /\ OnQueues' /\ Unwritten'
      BY <1>1, <1>7, <3>2, <3>3, <3>4, NoneChanged DEF FilesInv
    <3>6. Claims'
      BY <1>1, <1>5, <3>1, <3>2 DEF FilesInv, Claims, Claim
    <3>7. QED
      BY <3>2, <3>5, <3>6 DEF FilesInv, SchedTypes
  <2>2. CASE p # None
    <3>1. PrivOf(d, p)
      BY <1>p, <2>2, PrivIs
    <3>2. PICK x : x = [dpr[p] EXCEPT !.err = FALSE]
      OBVIOUS
    <3>3. p \in Dprs /\ dpr[p] \in DprStates /\ dpr[p].live /\ dpr[p].file = d /\ Queues(queue) /\ QueueOf(ext_queue)
      BY <3>1 DEF PrivOf
    <3>4. x \in DprStates /\ x.live /\ x.file = d /\ x.reqs = dpr[p].reqs /\ x.alt = dpr[p].alt /\ ~x.err
      BY <3>2, <3>3 DEF DprStates
    <3>5. dpr' = [dpr EXCEPT ![p] = x]
      BY <1>1, <1>t, <3>2, <3>3
    <3>6. /\ Queues(queue')
          /\ \A s \in States : \A o : o \in ToSet(queue'[s]) <=> o \in ToSet(queue[s]) /\ ~(flush /\ s \in DataStates /\ o = p)
      <4>1. /\ Queues(OffData(queue, p))
            /\ \A s \in States : \A o : o \in ToSet(OffData(queue, p)[s]) <=> o \in ToSet(queue[s]) /\ ~(s \in DataStates /\ o = p)
        BY <3>3, OffDataIs
      <4>2. CASE flush
        BY <1>1, <4>1, <4>2
      <4>3. CASE ~flush
        BY <1>1, <3>3, <4>3
      <4>4. QED
        BY <4>2, <4>3
    <3>7. FlushedFile(d)' <=> a = "flush"
      <4>1. \A v \in Users : v # u => ~(user'[v].at = "flush" /\ user'[v].file = d)
        BY <1>2, <1>5 DEF InClose
      <4>2. CASE a = "flush"
        BY <1>5, <4>2 DEF FlushedFile
      <4>3. CASE a # "flush"
        BY <1>5, <4>1, <4>3 DEF FlushedFile
      <4>4. QED
        BY <4>2, <4>3
    <3>8. Elsewhere(d)
      <4>1. \A v \in Users : v # u /\ user[v].at \in {"flush", "freeing"} => user[v].file # d
        BY <1>2 DEF InClose
      <4>2. QED
        BY <1>2, <1>3, <1>5, <4>1 DEF Elsewhere
    <3>9. "IP" \in States /\ "IP" \notin DataStates /\ DataStates \subseteq States
      BY DEF States, DataStates
    <3>10. (p \in ToSet(queue'["IP"])) = ("IP" \in x.reqs)
      BY <3>1, <3>4, <3>6, <3>9 DEF PrivOf
    <3>11. ASSUME NEW s \in DataStates
           PROVE  (p \in ToSet(queue'[s])) = (s \in x.reqs /\ ~FlushedFile(d)')
      <4>1. (p \in ToSet(queue[s])) = (s \in dpr[p].reqs)
        BY <1>2, <3>1 DEF PrivOf
      <4>2. p \in ToSet(queue'[s]) <=> s \in dpr[p].reqs /\ ~flush
        BY <3>6, <3>9, <4>1
      <4>3. s \in dpr[p].reqs => (a = "flush" <=> flush)
        BY <1>3
      <4>4. (p \in ToSet(queue'[s])) <=> (s \in x.reqs /\ ~FlushedFile(d)')
        BY <3>4, <3>7, <4>2, <4>3
      <4>5. QED
        BY <4>4
    <3>12. OneChanged(d, p, x)
      <4>1. \A e \in Files : dentry'[e].priv = IF e = d THEN (IF x.live THEN p ELSE None) ELSE dentry[e].priv
        BY <1>1, <1>p, <3>4
      <4>2. Beside(queue', p)
        BY <3>6 DEF Beside
      <4>3. (p \in ToSet(ext_queue')) = x.alt
        BY <1>1, <3>1, <3>4 DEF PrivOf
      <4>4. QED
        BY <1>1, <1>p, <3>3, <3>4, <3>5, <3>8, <3>10, <3>11, <4>1, <4>2, <4>3 DEF OneChanged
    <3>13. x.reqs \cap DataStates # {} => ~x.err /\ ((\E v \in Users : d \in dirty'[v]) \/ FlushedFile(d)')
      <4>1. SUFFICES ASSUME dpr[p].reqs \cap DataStates # {}
                     PROVE  (\E v \in Users : d \in dirty'[v]) \/ a = "flush"
        BY <3>4, <3>7
      <4>2. ~dpr[p].err /\ \E v \in Users : d \in dirty[v]
        BY <1>2, <3>1, <4>1 DEF PrivOf
      <4>3. CASE d \in dirty[u]
        BY <1>3, <1>4, <2>2, <4>1, <4>2, <4>3
      <4>4. CASE d \notin dirty[u]
        BY <1>6, <4>2, <4>4
      <4>5. QED
        BY <4>3, <4>4
    <3>14. Owned' /\ OnQueues' /\ Claims'
      BY <3>3, <3>4, <3>12, OneOwned, OneQueued, OneClaimed DEF FilesInv
    <3>15. Unwritten'
      <4>1. \A v \in Users, e \in Files : e \in dirty[v] /\ e # d => e \in dirty'[v]
        BY <1>6
      <4>2. SchedTypes /\ Owned /\ Unwritten /\ x \in DprStates /\ p \in Dprs
        BY <3>3, <3>4 DEF FilesInv
      <4>3. QED
        BY <1>7, <3>12, <3>13, <4>1, <4>2, OneUnwritten
    <3>16. QED
      BY <1>1, <1>t, <3>3, <3>4, <3>5, <3>6, <3>14, <3>15 DEF Queues, QueueOf
  <2>3. QED
    BY <2>1, <2>2
<1>10. SchedTypes'
  BY <1>1, <1>5, <1>6, <1>9 DEF FilesInv, SchedTypes
<1>11. LocksHeld'
  <2>1. user'[u].at \in InClose /\ user'[u].file = d
    BY <1>3, <1>5 DEF InClose
  <2>2. QED
    BY <1>1, <1>2, <1>5, <2>1, LocksMove DEF FilesInv
<1>12. Finished'
  <2>1. \A v \in Users : user'[v].at # "flushed"
    BY <1>2, <1>3, <1>5 DEF AllFiles
  <2>2. QED
    BY <1>1, <1>2, <2>1, Going
<1>13. QED
  BY <1>8, <1>9, <1>10, <1>11, <1>12 DEF FilesInv

LEMMA TruncateInv ==
  ASSUME FilesInv, ExtentsStay, NEW u \in Users, NEW d \in Files, Truncate(u, d)
  PROVE  FilesInv'
<1>p. PICK p : p = dentry[d].priv
  OBVIOUS
<1>1. /\ Uses(u, d) /\ UNCHANGED <<dentry, opens, dirty, user, bg, stopping, fault, errors>>
      /\ acts' = acts + 1 /\ p # None
  BY <1>p DEF Truncate, Act
<1>2. /\ ~stopping /\ d \in opens[u] /\ Free(d)
      /\ bg.at \notin {"index", "flushall", "destroy", "gone"}
      /\ \A v \in Users : user[v].at \in InClose => user[v].file # d
      /\ \A v \in Users : user[v].at \notin AllFiles
      /\ ~FlushedFile(d) /\ ~Exclusive
  BY <1>1, InUse
<1>3. PrivOf(d, p)
  BY <1>p, <1>1, PrivIs
<1> DEFINE was == dentry[d].priv
<1>4. PICK gone \in SUBSET dpr[was].reqs, cut \in BOOLEAN, zero \in BOOLEAN :
        /\ cut => "cut" \in Does \/ ~dpr[was].alt
        /\ zero => gone = dpr[was].reqs /\ (cut \/ ~dpr[was].alt)
        /\ LET r == [dpr[was] EXCEPT !.reqs = @ \ gone, !.alt = @ /\ ~cut]
               stays == dentry[d].matches /\ dentry[d].linked
               turned == r.wip /\ ~stays
           IN  /\ dpr' = [dpr EXCEPT ![was] = IF turned THEN ToDataPartition(r) ELSE [r EXCEPT !.wip = @ \/ (zero /\ stays)]]
               /\ queue' = [s \in States |-> IF s \in gone \/ (turned /\ s = "IP") THEN RemoveFirst(queue[s], was) ELSE queue[s]]
               /\ Cleared(was, r, turned)
  BY DEF Truncate
<1> HIDE DEF was
<1>o. was = p
  BY <1>p DEF was
<1>5. p \in Dprs /\ dpr[p] \in DprStates /\ dpr[p].live /\ dpr[p].file = d /\ Queues(queue) /\ QueueOf(ext_queue)
  BY <1>3 DEF PrivOf
<1>6. PICK r : r = [dpr[p] EXCEPT !.reqs = @ \ gone, !.alt = @ /\ ~cut]
  OBVIOUS
<1>7. r \in DprStates /\ r.live /\ r.file = d /\ r.reqs = dpr[p].reqs \ gone /\ r.alt = dpr[p].alt /\ r.err = dpr[p].err
  <2>1. (dpr[p].alt /\ ~cut) = dpr[p].alt
    BY <1>4, <1>5, <1>o DEF ExtentsStay, DprStates
  <2>2. r = [dpr[p] EXCEPT !.reqs = dpr[p].reqs \ gone, !.alt = dpr[p].alt]
    BY <1>6, <2>1
  <2>3. QED
    BY <1>5, <2>2 DEF DprStates
<1> DEFINE stays == dentry[d].matches /\ dentry[d].linked
           turned == r.wip /\ ~stays
<1>8. PICK x : x = IF turned THEN ToDataPartition(r) ELSE [r EXCEPT !.wip = @ \/ (zero /\ stays)]
  OBVIOUS
<1>9. /\ dpr' = [dpr EXCEPT ![p] = x] /\ Cleared(p, r, turned) /\ turned \in BOOLEAN
      /\ queue' = [s \in States |-> IF s \in gone \/ (turned /\ s = "IP") THEN RemoveFirst(queue[s], p) ELSE queue[s]]
  BY <1>4, <1>6, <1>8, <1>o
<1>10. /\ x \in DprStates /\ x.live /\ x.file = d /\ x.err = dpr[p].err
       /\ x.reqs = (dpr[p].reqs \ gone) \ (IF turned THEN {"IP"} ELSE {})
       /\ x.alt = (dpr[p].alt /\ ~turned)
  <2>1. CASE turned
    <3>1. x = ToDataPartition(r)
      BY <1>8, <2>1
    <3> HIDE DEF turned
    <3>2. QED
      BY <1>7, <2>1, <3>1 DEF ToDataPartition, DprStates
  <2>2. CASE ~turned
    <3>1. PICK w \in BOOLEAN : w = (r.wip \/ (zero /\ stays))
      OBVIOUS
    <3>2. x = [r EXCEPT !.wip = w]
      BY <1>8, <2>2, <3>1
    <3> HIDE DEF turned, stays
    <3>3. x \in DprStates /\ x.live = r.live /\ x.file = r.file /\ x.err = r.err /\ x.reqs = r.reqs /\ x.alt = r.alt
      BY <1>7, <3>2 DEF DprStates
    <3>4. dpr[p].alt \in BOOLEAN
      BY <1>5 DEF DprStates
    <3>5. QED
      BY <1>7, <2>2, <3>3, <3>4
  <2>3. QED
    BY <2>1, <2>2
<1> HIDE DEF turned, stays
<1>11. /\ Queues(queue')
       /\ \A s \in States : \A o : o \in ToSet(queue'[s]) <=> o \in ToSet(queue[s]) /\ ~((s \in gone \/ (turned /\ s = "IP")) /\ o = p)
  <2>1. ASSUME NEW s \in States
        PROVE  QueueOf(queue[s]) /\ QueueOf(RemoveFirst(queue[s], p)) /\ ToSet(RemoveFirst(queue[s], p)) = ToSet(queue[s]) \ {p}
    <3>1. QueueOf(queue[s])
      BY <1>5 DEF Queues, QueueOf
    <3>2. QED
      BY <1>5, <3>1, Removal
  <2>2. ASSUME NEW s \in States
        PROVE  /\ QueueOf(queue'[s])
               /\ \A o : o \in ToSet(queue'[s]) <=> o \in ToSet(queue[s]) /\ ~((s \in gone \/ (turned /\ s = "IP")) /\ o = p)
    <3>1. queue'[s] = IF s \in gone \/ (turned /\ s = "IP") THEN RemoveFirst(queue[s], p) ELSE queue[s]
      BY <1>9
    <3>2. CASE s \in gone \/ (turned /\ s = "IP")
      BY <2>1, <3>1, <3>2
    <3>3. CASE ~(s \in gone \/ (turned /\ s = "IP"))
      BY <2>1, <3>1, <3>3
    <3>4. QED
      BY <3>2, <3>3
  <2>3. queue' \in [States -> Seq(Dprs)]
    <3>1. queue' = [s \in States |-> queue'[s]]
      BY <1>9
    <3>2. \A s \in States : queue'[s] \in Seq(Dprs)
      BY <2>2 DEF QueueOf
    <3>3. QED
      BY <3>1, <3>2
  <2>4. QED
    BY <2>2, <2>3 DEF Queues, QueueOf
<1>12. /\ QueueOf(ext_queue') /\ \A o \in Dprs : o # p => (o \in ToSet(ext_queue') <=> o \in ToSet(ext_queue))
       /\ (p \in ToSet(ext_queue')) = (dpr[p].alt /\ ~turned)
  BY <1>3, <1>7, <1>9, ClearedIs
<1>13. Elsewhere(d) /\ ~FlushedFile(d)'
  BY <1>1, <1>2, NotInClose DEF SameClaims
<1>14. "IP" \in States /\ "IP" \notin DataStates /\ DataStates \subseteq States
  BY DEF States, DataStates
<1>15. (p \in ToSet(queue'["IP"])) = ("IP" \in x.reqs)
  BY <1>3, <1>10, <1>11, <1>14 DEF PrivOf
<1>16. \A s \in DataStates : (p \in ToSet(queue'[s])) = (s \in x.reqs /\ ~FlushedFile(d)')
  BY <1>2, <1>3, <1>10, <1>11, <1>13, <1>14 DEF PrivOf
<1>17. OneChanged(d, p, x)
  <2>1. \A e \in Files : dentry'[e].priv = IF e = d THEN (IF x.live THEN p ELSE None) ELSE dentry[e].priv
    BY <1>1, <1>p, <1>10
  <2>2. Beside(queue', p)
    BY <1>5, <1>11 DEF Beside
  <2>3. (p \in ToSet(ext_queue')) = x.alt
    BY <1>10, <1>12
  <2>4. QED
    BY <1>p, <1>9, <1>10, <1>12, <1>13, <1>15, <1>16, <2>1, <2>2, <2>3 DEF OneChanged
<1>18. x.reqs \cap DataStates # {} => ~x.err /\ \E v \in Users : d \in dirty'[v]
  BY <1>1, <1>2, <1>3, <1>10 DEF PrivOf
<1>19. /\ HandlesCounted' /\ Alive' /\ Owned' /\ OnQueues' /\ Unwritten' /\ Claims'
       /\ dpr' \in [Dprs -> DprStates] /\ queue' \in [States -> Seq(Dprs)] /\ ext_queue' \in Seq(Dprs)
  <2>1. \A v \in Users : dirty[v] \subseteq dirty'[v] /\ dirty'[v] \subseteq opens[v]
    BY <1>1 DEF FilesInv, Unwritten
  <2>2. \A e \in Files, v \in Users : (user'[v].file = e) = (user[v].file = e)
    BY <1>1
  <2>3. QED
    BY <1>1, <1>5, <1>10, <1>17, <1>18, <2>1, <2>2, Touched
<1>20. SchedTypes'
  BY <1>1, <1>19 DEF FilesInv, SchedTypes
<1>21. LocksHeld'
  BY <1>1 DEF FilesInv, LocksHeld
<1>22. Finished'
  <2>1. \A v \in Users : user'[v].at # "flushed"
    BY <1>1, <1>2 DEF AllFiles
  <2>2. QED
    BY <1>1, <1>2, <2>1, Going
<1>23. QED
  BY <1>19, <1>20, <1>21, <1>22 DEF FilesInv

\* The first write of a file gives it its structure.
LEMMA WriteFirstInv ==
  ASSUME FilesInv, NEW u \in Users, NEW d \in Files, Write(u, d), dentry[d].priv = None
  PROVE  FilesInv'
<1>1. /\ Uses(u, d) /\ UNCHANGED <<opens, user, bg, stopping, fault, errors>>
      /\ acts' = acts + 1 /\ dirty' = [dirty EXCEPT ![u] = @ \cup {d}]
  BY DEF Write, Act
<1>2. PICK p \in Dprs, s \in {"PARTIAL", "DP"}, small \in BOOLEAN :
        /\ Unused(p) /\ queue' = On(queue, s, p)
        /\ dpr' = [dpr EXCEPT ![p] = [live |-> TRUE, file |-> d, reqs |-> {s}, alt |-> FALSE, err |-> FALSE,
                                      wip |-> dentry[d].matches /\ small]]
        /\ dentry' = [dentry EXCEPT ![d].priv = p, ![d].handles = @ + 1]
        /\ UNCHANGED ext_queue
  BY DEF Write
<1>3. /\ ~stopping /\ d \in opens[u] /\ Free(d)
      /\ bg.at \notin {"index", "flushall", "destroy", "gone"}
      /\ \A v \in Users : user[v].at \in InClose => user[v].file # d
      /\ \A v \in Users : user[v].at \notin AllFiles
      /\ ~FlushedFile(d) /\ ~Exclusive
  BY <1>1, InUse
<1>4. PICK x : x = [live |-> TRUE, file |-> d, reqs |-> {s}, alt |-> FALSE, err |-> FALSE, wip |-> dentry[d].matches /\ small]
  OBVIOUS
<1>5. x \in DprStates /\ x.live /\ x.file = d /\ x.reqs = {s} /\ ~x.alt /\ x.alt \in BOOLEAN /\ ~x.err
  <2>1. (dentry[d].matches /\ small) \in BOOLEAN /\ {s} \in SUBSET States
    BY DEF States
  <2>2. QED
    BY <1>4, <2>1 DEF DprStates
<1>6. dpr' = [dpr EXCEPT ![p] = x]
  BY <1>2, <1>4
<1>7. /\ s \in States /\ s \in DataStates /\ "IP" \in States /\ "IP" \notin DataStates /\ DataStates \subseteq States
      /\ None \notin Dprs
  BY SchedAssumption DEF States, DataStates, None
<1>8. Queues(queue) /\ QueueOf(ext_queue) /\ ~dpr[p].live /\ p \notin ToSet(ext_queue) /\ \A z \in States : p \notin ToSet(queue[z])
  BY <1>2 DEF Unused, FilesInv, SchedTypes, OnQueues, Queues, QueueOf
<1>9. /\ Queues(queue')
      /\ \A z \in States : \A o : o \in ToSet(queue'[z]) <=> o \in ToSet(queue[z]) \/ (z = s /\ o = p)
  <2>1. /\ Queues(On(queue, s, p))
        /\ \A z \in States : \A o : o \in ToSet(On(queue, s, p)[z]) <=> o \in ToSet(queue[z]) \/ (z = s /\ o = p)
    BY <1>7, <1>8, OnIs
  <2>2. queue' = On(queue, s, p)
    BY <1>2
  <2>3. QED
    BY <2>1, <2>2
<1>10. Elsewhere(d) /\ ~FlushedFile(d)'
  BY <1>1, <1>3, NotInClose DEF SameClaims
<1>11. dentry \in [Files -> DentryStates] /\ dentry[d].handles \in Nat
  BY DEF FilesInv, SchedTypes, DentryStates
<1>12. /\ dentry'[d].handles = dentry[d].handles + 1 /\ dentry'[d].linked = dentry[d].linked /\ dentry'[d].priv = p
       /\ dentry'[d].alive = dentry[d].alive /\ \A e \in Files : e # d => dentry'[e] = dentry[e]
  BY <1>2, <1>11 DEF DentryStates
<1>13. dentry' \in [Files -> DentryStates]
  <2>1. [dentry[d] EXCEPT !.priv = p, !.handles = @ + 1] \in DentryStates
    <3>1. dentry[d] \in DentryStates /\ dentry[d].handles + 1 \in Nat
      BY <1>11
    <3>2. PICK n \in Nat : n = dentry[d].handles + 1
      BY <3>1
    <3>3. [dentry[d] EXCEPT !.priv = p, !.handles = n] \in DentryStates
      BY <3>1 DEF DentryStates
    <3>4. QED
      BY <3>2, <3>3
  <2>2. dentry' = [dentry EXCEPT ![d] = [dentry[d] EXCEPT !.priv = p, !.handles = @ + 1]]
    BY <1>2, <1>11 DEF DentryStates
  <2>3. QED
    BY <1>11, <2>1, <2>2
<1>14. OneChanged(d, p, x)
  <2>1. \A e \in Files : dentry'[e].priv = IF e = d THEN (IF x.live THEN p ELSE None) ELSE dentry[e].priv
    BY <1>5, <1>12
  <2>2. Beside(queue', p)
    BY <1>9 DEF Beside
  <2>3. (p \in ToSet(ext_queue')) = x.alt
    BY <1>2, <1>5, <1>8
  <2>4. (p \in ToSet(queue'["IP"])) = ("IP" \in x.reqs)
    BY <1>5, <1>7, <1>8, <1>9
  <2>5. \A z \in DataStates : (p \in ToSet(queue'[z])) = (z \in x.reqs /\ ~FlushedFile(d)')
    BY <1>5, <1>7, <1>8, <1>9, <1>10
  <2>6. QED
    BY <1>2, <1>5, <1>6, <1>8, <1>10, <2>1, <2>2, <2>3, <2>4, <2>5 DEF OneChanged
<1>15. /\ dirty' \in [Users -> SUBSET Files] /\ dirty'[u] = dirty[u] \cup {d} /\ \A v \in Users : v # u => dirty'[v] = dirty[v]
  BY <1>1 DEF FilesInv, SchedTypes
<1>16. HandlesCounted' /\ Alive'
  <2>1. dentry[d].handles = HandlesAt(d) /\ Cardinality(OpenedBy(d)) \in Nat /\ Cardinality(CalledBy(d)) \in Nat
    BY Counts DEF FilesInv
  <2>2. OpenedBy(d)' = OpenedBy(d) /\ CalledBy(d)' = CalledBy(d)
    BY <1>1 DEF OpenedBy, CalledBy
  <2>3. dentry'[d].handles = HandlesAt(d)'
    <3>1. One(dentry[d].priv # None) = 0 /\ One(dentry'[d].priv # None) = 1
      BY <1>7, <1>12 DEF One
    <3>2. One(dentry[d].linked) \in Nat
      BY DEF One
    <3>3. QED
      BY <1>12, <2>1, <2>2, <3>1, <3>2 DEF HandlesAt
  <2>4. dentry'[d].alive = (dentry'[d].handles > 0)
    <3>1. Cardinality(OpenedBy(d)) > 0
      <4>1. OpenedBy(d) # {}
        BY <1>3 DEF OpenedBy
      <4>2. QED
        BY <4>1, Counts DEF FilesInv
    <3>2. dentry[d].handles > 0
      <4>1. One(dentry[d].linked) \in Nat /\ One(dentry[d].priv # None) \in Nat
        BY DEF One
      <4>2. QED
        BY <2>1, <3>1, <4>1 DEF HandlesAt
    <3>3. dentry[d].alive = TRUE
      BY <1>11, <3>2 DEF FilesInv, Alive, DentryStates
    <3>4. dentry'[d].handles > 0
      BY <1>11, <1>12
    <3>5. QED
      BY <1>12, <3>3, <3>4
  <2>5. \A e \in Files : e # d => \A v \in Users : (e \in opens'[v]) = (e \in opens[v]) /\ (user'[v].file = e) = (user[v].file = e)
    BY <1>1
  <2>6. QED
    BY <1>12, <2>3, <2>4, <2>5, HandlesChange DEF FilesInv
<1>17. Owned' /\ OnQueues' /\ Claims'
  BY <1>5, <1>14, OneOwned, OneQueued, OneClaimed DEF FilesInv
<1>18. Unwritten'
  <2>1. \A v \in Users, e \in Files : e \in dirty[v] /\ e # d => e \in dirty'[v]
    BY <1>15
  <2>2. \A v \in Users : dirty'[v] \subseteq opens'[v]
    BY <1>1, <1>3, <1>15 DEF FilesInv, Unwritten
  <2>3. x.reqs \cap DataStates # {} => ~x.err /\ \E v \in Users : d \in dirty'[v]
    BY <1>5, <1>15
  <2>4. QED
    BY <1>5, <1>14, <2>1, <2>2, <2>3, OneUnwritten DEF FilesInv
<1>19. SchedTypes'
  <2>1. dpr' \in [Dprs -> DprStates] /\ queue' \in [States -> Seq(Dprs)] /\ ext_queue' \in Seq(Dprs)
    BY <1>2, <1>5, <1>6, <1>9 DEF FilesInv, SchedTypes, Queues
  <2>2. QED
    BY <1>1, <1>13, <1>15, <2>1 DEF FilesInv, SchedTypes
<1>20. LocksHeld'
  BY <1>1 DEF FilesInv, LocksHeld
<1>21. Finished'
  <2>1. \A v \in Users : user'[v].at # "flushed"
    BY <1>1, <1>3 DEF AllFiles
  <2>2. QED
    BY <1>1, <1>3, <2>1, Going
<1>22. QED
  BY <1>16, <1>17, <1>18, <1>19, <1>20, <1>21 DEF FilesInv

LEMMA WriteInv ==
  ASSUME FilesInv, NEW u \in Users, NEW d \in Files, Write(u, d), dentry[d].priv # None
  PROVE  FilesInv'
<1>1. /\ Uses(u, d) /\ UNCHANGED <<opens, user, bg, stopping, fault, errors>>
      /\ acts' = acts + 1
  BY DEF Write, Act
<1>2. PICK p \in Dprs, s \in {"PARTIAL", "DP"}, small \in BOOLEAN :
        /\ p = dentry[d].priv
        /\ LET turned == dpr[p].wip /\ ~small
               r == IF turned THEN ToDataPartition(dpr[p]) ELSE dpr[p]
           IN  IF dpr[p].err
               THEN dpr' = [dpr EXCEPT ![p].err = FALSE] /\ UNCHANGED <<queue, ext_queue>>
               ELSE /\ dpr' = [dpr EXCEPT ![p] = [r EXCEPT !.reqs = @ \cup {s}]]
                    /\ queue' = On(IF turned THEN Off(queue, "IP", p) ELSE queue, s, p)
                    /\ Cleared(p, dpr[p], turned)
        /\ UNCHANGED dentry
  BY DEF Write
<1>3. /\ ~stopping /\ d \in opens[u] /\ Free(d)
      /\ bg.at \notin {"index", "flushall", "destroy", "gone"}
      /\ \A v \in Users : user[v].at \in InClose => user[v].file # d
      /\ \A v \in Users : user[v].at \notin AllFiles
      /\ ~FlushedFile(d) /\ ~Exclusive
  BY <1>1, InUse
<1>4. PrivOf(d, p)
  BY <1>2, PrivIs
<1>5. p \in Dprs /\ dpr[p] \in DprStates /\ dpr[p].live /\ dpr[p].file = d /\ dentry[d].priv = p /\ Queues(queue) /\ QueueOf(ext_queue)
  BY <1>4 DEF PrivOf
<1>6. dirty' = IF dpr[p].err THEN dirty ELSE [dirty EXCEPT ![u] = @ \cup {d}]
  BY <1>2 DEF Write
<1>7. /\ s \in States /\ s \in DataStates /\ "IP" \in States /\ "IP" \notin DataStates /\ DataStates \subseteq States
  BY DEF States, DataStates
<1>8. Elsewhere(d) /\ ~FlushedFile(d)'
  BY <1>1, <1>3, NotInClose DEF SameClaims
<1>9. /\ dirty' \in [Users -> SUBSET Files]
      /\ \A v \in Users : dirty[v] \subseteq dirty'[v] /\ dirty'[v] \subseteq opens[v]
      /\ ~dpr[p].err => d \in dirty'[u]
  BY <1>3, <1>6 DEF FilesInv, SchedTypes, Unwritten
<1>10. PICK x \in DprStates :
         /\ OneChanged(d, p, x)
         /\ x.reqs \cap DataStates # {} => ~x.err /\ \E v \in Users : d \in dirty'[v]
  <2>0. ASSUME NEW x \in DprStates, dpr' = [dpr EXCEPT ![p] = x], x.live, x.file = d, Beside(queue', p),
               QueueOf(ext_queue') /\ \A o \in Dprs : o # p => (o \in ToSet(ext_queue') <=> o \in ToSet(ext_queue)),
               (p \in ToSet(ext_queue')) = x.alt, (p \in ToSet(queue'["IP"])) = ("IP" \in x.reqs),
               \A z \in DataStates : (p \in ToSet(queue'[z])) = (z \in x.reqs)
        PROVE  OneChanged(d, p, x)
    <3>1. \A e \in Files : dentry'[e].priv = IF e = d THEN (IF x.live THEN p ELSE None) ELSE dentry[e].priv
      BY <1>2, <2>0
    <3>2. \A z \in DataStates : (p \in ToSet(queue'[z])) = (z \in x.reqs /\ ~FlushedFile(d)')
      BY <1>8, <2>0
    <3>3. QED
      BY <1>5, <1>8, <2>0, <3>1, <3>2 DEF OneChanged
  <2>1. CASE dpr[p].err
    <3>1. PICK x : x = [dpr[p] EXCEPT !.err = FALSE]
      OBVIOUS
    <3>2. dpr' = [dpr EXCEPT ![p] = x] /\ UNCHANGED <<queue, ext_queue>>
      BY <1>2, <2>1, <3>1
    <3>3. x \in DprStates /\ x.live /\ x.file = d /\ x.reqs = dpr[p].reqs /\ x.alt = dpr[p].alt
      BY <1>5, <3>1 DEF DprStates
    <3>4. x.reqs \cap DataStates = {}
      BY <1>4, <2>1, <3>3 DEF PrivOf
    <3>5. Beside(queue', p)
      BY <1>5, <3>2 DEF Beside
    <3>6. /\ (p \in ToSet(ext_queue')) = x.alt /\ (p \in ToSet(queue'["IP"])) = ("IP" \in x.reqs)
          /\ \A z \in DataStates : (p \in ToSet(queue'[z])) = (z \in x.reqs)
      BY <1>3, <1>4, <3>2, <3>3 DEF PrivOf
    <3>7. OneChanged(d, p, x)
      BY <1>5, <2>0, <3>2, <3>3, <3>5, <3>6
    <3>8. QED
      BY <3>3, <3>4, <3>7
  <2>2. CASE ~dpr[p].err
    <3> DEFINE turned == dpr[p].wip /\ ~small
               q == IF turned THEN Off(queue, "IP", p) ELSE queue
    <3>1. PICK r : r = IF turned THEN ToDataPartition(dpr[p]) ELSE dpr[p]
      OBVIOUS
    <3>2. PICK x : x = [r EXCEPT !.reqs = @ \cup {s}]
      OBVIOUS
    <3>3. dpr' = [dpr EXCEPT ![p] = x] /\ queue' = On(q, s, p) /\ Cleared(p, dpr[p], turned) /\ turned \in BOOLEAN
      BY <1>2, <2>2, <3>1, <3>2
    <3>a. q = IF turned THEN Off(queue, "IP", p) ELSE queue
      OBVIOUS
    <3> HIDE DEF turned, q
    <3>4. /\ r \in DprStates /\ r.live /\ r.file = d /\ r.err = dpr[p].err
          /\ r.reqs = dpr[p].reqs \ (IF turned THEN {"IP"} ELSE {}) /\ r.alt = (dpr[p].alt /\ ~turned)
      <4>1. CASE turned
        BY <1>5, <3>1, <4>1 DEF ToDataPartition, DprStates
      <4>2. CASE ~turned
        <5>1. r = dpr[p] /\ dpr[p].alt \in BOOLEAN
          BY <1>5, <3>1, <4>2 DEF DprStates
        <5>2. QED
          BY <1>5, <4>2, <5>1
      <4>3. QED
        BY <4>1, <4>2
    <3>5. x \in DprStates /\ x.live /\ x.file = d /\ x.err = dpr[p].err /\ x.reqs = r.reqs \cup {s} /\ x.alt = r.alt
      BY <1>7, <3>2, <3>4 DEF DprStates
    <3>6. /\ Queues(q)
          /\ \A z \in States : \A o : o \in ToSet(q[z]) <=> o \in ToSet(queue[z]) /\ ~(turned /\ z = "IP" /\ o = p)
      <4>1. /\ Queues(Off(queue, "IP", p))
            /\ \A z \in States : \A o : o \in ToSet(Off(queue, "IP", p)[z]) <=> o \in ToSet(queue[z]) /\ ~(z = "IP" /\ o = p)
        BY <1>5, OffIPIs
      <4>2. CASE turned
        BY <3>a, <4>1, <4>2
      <4>3. CASE ~turned
        BY <1>5, <3>a, <4>3
      <4>4. QED
        BY <4>2, <4>3
    <3>7. /\ Queues(queue')
          /\ \A z \in States : \A o : o \in ToSet(queue'[z]) <=> o \in ToSet(q[z]) \/ (z = s /\ o = p)
      <4>1. /\ Queues(On(q, s, p))
            /\ \A z \in States : \A o : o \in ToSet(On(q, s, p)[z]) <=> o \in ToSet(q[z]) \/ (z = s /\ o = p)
        BY <1>7, <3>6, OnIs
      <4>2. queue' = On(q, s, p)
        BY <3>3
      <4>3. QED
        BY <4>1, <4>2
    <3>8. /\ QueueOf(ext_queue') /\ \A o \in Dprs : o # p => (o \in ToSet(ext_queue') <=> o \in ToSet(ext_queue))
          /\ (p \in ToSet(ext_queue')) = (dpr[p].alt /\ ~turned)
      BY <1>4, <3>3, ClearedIs
    <3>9. Beside(queue', p)
      BY <1>7, <3>6, <3>7 DEF Beside
    <3>10. (p \in ToSet(queue'["IP"])) = ("IP" \in x.reqs)
      <4>1. (p \in ToSet(queue["IP"])) = ("IP" \in dpr[p].reqs)
        BY <1>4 DEF PrivOf
      <4>2. p \in ToSet(queue'["IP"]) <=> "IP" \in dpr[p].reqs /\ ~turned
        BY <1>7, <3>6, <3>7, <4>1
      <4>3. "IP" \in x.reqs <=> "IP" \in dpr[p].reqs /\ ~turned
        BY <1>7, <3>4, <3>5
      <4>4. QED
        BY <4>2, <4>3
    <3>11. ASSUME NEW z \in DataStates
           PROVE  (p \in ToSet(queue'[z])) = (z \in x.reqs)
      <4>1. (p \in ToSet(queue[z])) = (z \in dpr[p].reqs)
        BY <1>3, <1>4 DEF PrivOf
      <4>2. p \in ToSet(queue'[z]) <=> z \in dpr[p].reqs \/ z = s
        BY <1>7, <3>6, <3>7, <4>1
      <4>3. z \in x.reqs <=> z \in dpr[p].reqs \/ z = s
        BY <1>7, <3>4, <3>5
      <4>4. QED
        BY <4>2, <4>3
    <3>12. (p \in ToSet(ext_queue')) = x.alt
      BY <3>4, <3>5, <3>8
    <3>13. OneChanged(d, p, x)
      BY <2>0, <3>3, <3>5, <3>8, <3>9, <3>10, <3>11, <3>12
    <3>14. QED
      BY <1>9, <2>2, <3>5, <3>13
  <2>3. QED
    BY <2>1, <2>2
<1>11. /\ HandlesCounted' /\ Alive' /\ Owned' /\ OnQueues' /\ Unwritten' /\ Claims'
       /\ dpr' \in [Dprs -> DprStates] /\ queue' \in [States -> Seq(Dprs)] /\ ext_queue' \in Seq(Dprs)
  <2>1. \A e \in Files, v \in Users : (user'[v].file = e) = (user[v].file = e)
    BY <1>1
  <2>2. UNCHANGED <<dentry, opens>>
    BY <1>1, <1>2
  <2>3. QED
    BY <1>5, <1>9, <1>10, <2>1, <2>2, Touched
<1>12. SchedTypes'
  BY <1>1, <1>2, <1>9, <1>11 DEF FilesInv, SchedTypes
<1>13. LocksHeld'
  BY <1>1 DEF FilesInv, LocksHeld
<1>14. Finished'
  <2>1. \A v \in Users : user'[v].at # "flushed"
    BY <1>1, <1>3 DEF AllFiles
  <2>2. QED
    BY <1>1, <1>3, <2>1, Going
<1>15. QED
  BY <1>11, <1>12, <1>13, <1>14 DEF FilesInv

-----------------------------------------------------------------------------
(* The writer thread, on a file.                                           *)

\* It has a file and its lock.
LEMMA Working ==
  ASSUME FilesInv, bg.at \in {"lock", "error"}, Free(bg.file)
  PROVE  /\ bg.file \in Files /\ bg \in BgStates /\ bg.dpr = None /\ ~stopping
         /\ \A v \in Users : user[v].at \in InClose => user[v].file # bg.file
         /\ \A v \in Users : user[v].at \notin AllFiles
         /\ ~FlushedFile(bg.file)
<1>1. bg.file \in Files /\ bg \in BgStates /\ bg.dpr = None
  BY DEF FilesInv, SchedTypes
<1>2. ~stopping
  BY DEF FilesInv, Finished
<1>3. QED
  BY <1>1, <1>2, FreeFile DEF FilesInv

\* What is left of a step of the writer thread on the structure of a file.
LEMMA BgTouched ==
  ASSUME FilesInv, NEW d \in Files, NEW p, PrivOf(d, p), NEW x \in DprStates, OneChanged(d, p, x),
         UNCHANGED <<dentry, opens, dirty, user>>,
         x.reqs \cap DataStates # {} => x.reqs \cap DataStates \subseteq dpr[p].reqs /\ x.err = dpr[p].err,
         ~FlushedFile(d)
  PROVE  /\ HandlesCounted' /\ Alive' /\ Owned' /\ OnQueues' /\ Unwritten' /\ Claims'
         /\ dpr' \in [Dprs -> DprStates] /\ queue' \in [States -> Seq(Dprs)] /\ ext_queue' \in Seq(Dprs)
<1>1. x.reqs \cap DataStates # {} => ~x.err /\ \E v \in Users : d \in dirty'[v]
  BY DEF PrivOf
<1>2. \A v \in Users : dirty[v] \subseteq dirty'[v] /\ dirty'[v] \subseteq opens[v]
  BY DEF FilesInv, Unwritten
<1>3. \A e \in Files, v \in Users : (user'[v].file = e) = (user[v].file = e)
  OBVIOUS
<1>4. p \in Dprs
  BY DEF PrivOf
<1>5. QED
  BY <1>1, <1>2, <1>3, <1>4, Touched

LEMMA TakeInv ==
  ASSUME FilesInv, Take
  PROVE  FilesInv'
<1>1. /\ bg.at = "lock" /\ Free(bg.file)
      /\ UNCHANGED <<dentry, ext_queue, opens, dirty, user, stopping, fault, acts>>
  BY DEF Take
<1>2. /\ bg.file \in Files /\ bg \in BgStates /\ bg.dpr = None /\ ~stopping
      /\ \A v \in Users : user[v].at \in InClose => user[v].file # bg.file
      /\ \A v \in Users : user[v].at \notin AllFiles
      /\ ~FlushedFile(bg.file)
  BY <1>1, Working
<1>3. PICK d \in Files : d = bg.file
  BY <1>2
<1>4. PICK p : p = dentry[d].priv
  OBVIOUS
<1> DEFINE T == IF bg.q = "PARTIAL" THEN {"DP", "PARTIAL"} ELSE {"DP"}
           q == IF bg.q = "PARTIAL" THEN OffData(queue, p) ELSE Off(queue, "DP", p)
<1>5. PICK mine : mine = dpr[p].reqs \cap T
  OBVIOUS
<1>6. IF p = None THEN bg' = [bg EXCEPT !.at = "pick"] /\ UNCHANGED <<dpr, queue, errors>>
      ELSE \/ /\ ~dpr[p].wip
              /\ dpr' = [dpr EXCEPT ![p].reqs = @ \ mine] /\ queue' = q
              /\ bg' = [bg EXCEPT !.at = "write", !.dpr = p, !.taken = mine]
              /\ UNCHANGED errors
           \/ /\ dpr[p].wip
              /\ dpr' = [dpr EXCEPT ![p].reqs = IF mine = {} THEN @ ELSE (@ \ mine) \cup {"IP"}]
              /\ queue' = IF mine = {} THEN q ELSE On(q, "IP", p)
              /\ bg' = [bg EXCEPT !.at = "pick"] /\ UNCHANGED errors
           \/ /\ errors' = errors + 1
              /\ FailsAfter(p, q, [dpr[p] EXCEPT !.err = TRUE])
              /\ bg' = [bg EXCEPT !.at = "pick"]
  BY <1>3, <1>4, <1>5 DEF Take
<1>7. T \subseteq DataStates
  BY DEF DataStates
<1>8. q = IF bg.q = "PARTIAL" THEN OffData(queue, p) ELSE Off(queue, "DP", p)
  OBVIOUS
<1>9. "IP" \in States /\ "IP" \notin DataStates /\ DataStates \subseteq States /\ "DP" \in States
  BY DEF States, DataStates
<1>10. ASSUME p # None
       PROVE  /\ PrivOf(d, p) /\ Queues(q)
              /\ \A s \in States : \A o : o \in ToSet(q[s]) <=> o \in ToSet(queue[s]) /\ ~(s \in T /\ o = p)
  <2>1. PrivOf(d, p)
    BY <1>4, <1>10, PrivIs
  <2>2. p \in Dprs /\ Queues(queue)
    BY <2>1 DEF PrivOf
  <2>3. /\ Queues(OffData(queue, p))
        /\ \A s \in States : \A o : o \in ToSet(OffData(queue, p)[s]) <=> o \in ToSet(queue[s]) /\ ~(s \in DataStates /\ o = p)
    BY <2>2, OffDataIs
  <2>4. /\ Queues(Off(queue, "DP", p))
        /\ \A s \in States : \A o : o \in ToSet(Off(queue, "DP", p)[s]) <=> o \in ToSet(queue[s]) /\ ~(s = "DP" /\ o = p)
    BY <1>9, <2>2, OffIs
  <2>5. CASE bg.q = "PARTIAL"
    BY <2>1, <2>3, <2>5 DEF DataStates
  <2>6. CASE bg.q # "PARTIAL"
    BY <2>1, <2>4, <2>6
  <2>7. QED
    BY <2>5, <2>6
<1> HIDE DEF q, T
<1>11. Elsewhere(d) /\ ~FlushedFile(d)' /\ ~FlushedFile(d)
  <2>1. \A v \in Users : user[v].at \in InClose => user[v].file # d
    BY <1>2, <1>3
  <2>2. QED
    BY <1>1, <1>2, <1>3, <2>1, NotInClose DEF SameClaims
<1>12. /\ HandlesCounted' /\ Alive' /\ Owned' /\ OnQueues' /\ Unwritten' /\ Claims'
       /\ dpr' \in [Dprs -> DprStates] /\ queue' \in [States -> Seq(Dprs)] /\ ext_queue' \in Seq(Dprs)
       /\ errors' \in Nat /\ bg' \in BgStates /\ bg'.file \in Files /\ bg'.at \in {"pick", "write"}
       /\ (bg'.at # "write" => bg'.dpr = None)
  <2>0. errors \in Nat /\ [bg EXCEPT !.at = "pick"] \in BgStates /\ [bg EXCEPT !.at = "pick"].file \in Files
        /\ [bg EXCEPT !.at = "pick"].dpr = None
    BY <1>2 DEF FilesInv, SchedTypes, BgStates
  <2>1. CASE p = None
    <3>1. bg' = [bg EXCEPT !.at = "pick"] /\ UNCHANGED <<dpr, queue, errors>>
      BY <1>6, <2>1
    <3>2. HandlesCounted' /\ Alive' /\ Owned' /\ OnQueues' /\ Unwritten' /\ Claims'
      BY <1>1, <3>1, SameUsers
    <3>3. dpr' \in [Dprs -> DprStates] /\ queue' \in [States -> Seq(Dprs)] /\ ext_queue' \in Seq(Dprs) /\ errors' \in Nat
      BY <1>1, <3>1 DEF FilesInv, SchedTypes
    <3>4. bg'.at = "pick"
      BY <1>2, <3>1 DEF BgStates
    <3>5. QED
      BY <2>0, <3>1, <3>2, <3>3, <3>4
  <2>2. CASE p # None
    <3>1. /\ PrivOf(d, p) /\ Queues(q)
          /\ \A s \in States : \A o : o \in ToSet(q[s]) <=> o \in ToSet(queue[s]) /\ ~(s \in T /\ o = p)
      BY <1>10, <2>2
    <3>2. p \in Dprs /\ dpr[p] \in DprStates /\ dpr[p].live /\ dpr[p].file = d /\ dentry[d].priv = p /\ QueueOf(ext_queue)
      BY <3>1 DEF PrivOf
    <3>3. Beside(q, p)
      BY <3>1 DEF Beside
    <3>4. (p \in ToSet(q["IP"])) = ("IP" \in dpr[p].reqs)
      <4>1. (p \in ToSet(queue["IP"])) = ("IP" \in dpr[p].reqs)
        BY <3>1 DEF PrivOf
      <4>2. p \in ToSet(q["IP"]) <=> p \in ToSet(queue["IP"])
        BY <1>7, <1>9, <3>1
      <4>3. QED
        BY <4>1, <4>2
    <3>5. ASSUME NEW s \in DataStates
          PROVE  p \in ToSet(q[s]) <=> s \in dpr[p].reqs \ mine
      <4>1. (p \in ToSet(queue[s])) = (s \in dpr[p].reqs)
        BY <1>11, <3>1 DEF PrivOf
      <4>2. p \in ToSet(q[s]) <=> s \in dpr[p].reqs /\ s \notin T
        BY <1>9, <3>1, <4>1
      <4>3. QED
        BY <1>5, <4>2
    <3>6. ASSUME NEW x \in DprStates, dpr' = [dpr EXCEPT ![p] = x], x.live, x.file = d, x.alt = dpr[p].alt, Beside(queue', p),
                 (p \in ToSet(queue'["IP"])) = ("IP" \in x.reqs),
                 \A z \in DataStates : p \in ToSet(queue'[z]) <=> z \in x.reqs
          PROVE  OneChanged(d, p, x)
      <4>1. \A e \in Files : dentry'[e].priv = IF e = d THEN (IF x.live THEN p ELSE None) ELSE dentry[e].priv
        BY <1>1, <1>4, <3>6
      <4>2. \A z \in DataStates : (p \in ToSet(queue'[z])) = (z \in x.reqs /\ ~FlushedFile(d)')
        BY <1>11, <3>6
      <4>3. (p \in ToSet(ext_queue')) = x.alt
        BY <1>1, <3>1, <3>6 DEF PrivOf
      <4>4. QED
        BY <1>1, <1>11, <3>2, <3>6, <4>1, <4>2, <4>3 DEF OneChanged
    <3>7. CASE /\ dpr' = [dpr EXCEPT ![p].reqs = @ \ mine] /\ queue' = q
               /\ bg' = [bg EXCEPT !.at = "write", !.dpr = p, !.taken = mine]
               /\ UNCHANGED errors
      <4>1. PICK x : x = [dpr[p] EXCEPT !.reqs = dpr[p].reqs \ mine]
        OBVIOUS
      <4>2. dpr' = [dpr EXCEPT ![p] = x]
        BY <3>7, <4>1
      <4>3. x \in DprStates /\ x.live /\ x.file = d /\ x.alt = dpr[p].alt /\ x.err = dpr[p].err /\ x.reqs = dpr[p].reqs \ mine
        BY <3>2, <4>1 DEF DprStates
      <4>4. (p \in ToSet(queue'["IP"])) = ("IP" \in x.reqs)
        <5>1. "IP" \notin mine
          BY <1>5, <1>7, <1>9
        <5>2. QED
          BY <3>4, <3>7, <4>3, <5>1
      <4>5. \A z \in DataStates : p \in ToSet(queue'[z]) <=> z \in x.reqs
        BY <3>5, <3>7, <4>3
      <4>6. Beside(queue', p)
        BY <3>3, <3>7
      <4>7. OneChanged(d, p, x)
        BY <3>6, <4>2, <4>3, <4>4, <4>5, <4>6
      <4>8. /\ HandlesCounted' /\ Alive' /\ Owned' /\ OnQueues' /\ Unwritten' /\ Claims'
            /\ dpr' \in [Dprs -> DprStates] /\ queue' \in [States -> Seq(Dprs)] /\ ext_queue' \in Seq(Dprs)
        BY <1>1, <1>11, <3>1, <4>3, <4>7, BgTouched
      <4>9. mine \in SUBSET States
        BY <1>5, <3>2 DEF DprStates
      <4>10. bg' \in BgStates /\ bg'.file \in Files /\ bg'.at = "write"
        BY <1>2, <3>2, <3>7, <4>9 DEF BgStates
      <4>11. QED
        BY <2>0, <3>7, <4>8, <4>10
    <3>8. CASE /\ dpr' = [dpr EXCEPT ![p].reqs = IF mine = {} THEN @ ELSE (@ \ mine) \cup {"IP"}]
               /\ queue' = IF mine = {} THEN q ELSE On(q, "IP", p)
               /\ bg' = [bg EXCEPT !.at = "pick"] /\ UNCHANGED errors
      <4>0. PICK n : n = IF mine = {} THEN dpr[p].reqs ELSE (dpr[p].reqs \ mine) \cup {"IP"}
        OBVIOUS
      <4>1. PICK x : x = [dpr[p] EXCEPT !.reqs = n]
        OBVIOUS
      <4>2. dpr' = [dpr EXCEPT ![p] = x]
        BY <3>8, <4>0, <4>1
      <4>a. n \in SUBSET States /\ "IP" \notin mine
        BY <1>5, <1>7, <1>9, <3>2, <4>0 DEF DprStates
      <4>3. x \in DprStates /\ x.live /\ x.file = d /\ x.alt = dpr[p].alt /\ x.err = dpr[p].err /\ x.reqs = n
        BY <3>2, <4>1, <4>a DEF DprStates
      <4>b. /\ Queues(queue')
            /\ \A s \in States : \A o : o \in ToSet(queue'[s]) <=> o \in ToSet(q[s]) \/ (mine # {} /\ s = "IP" /\ o = p)
        <5>1. /\ Queues(On(q, "IP", p))
              /\ \A s \in States : \A o : o \in ToSet(On(q, "IP", p)[s]) <=> o \in ToSet(q[s]) \/ (s = "IP" /\ o = p)
          BY <1>9, <3>1, <3>2, OnIs
        <5>2. CASE mine = {}
          BY <3>1, <3>8, <5>2
        <5>3. CASE mine # {}
          BY <3>8, <5>1, <5>3
        <5>4. QED
          BY <5>2, <5>3
      <4>4. (p \in ToSet(queue'["IP"])) = ("IP" \in x.reqs)
        BY <1>9, <3>4, <4>0, <4>3, <4>a, <4>b
      <4>5. \A z \in DataStates : p \in ToSet(queue'[z]) <=> z \in x.reqs
        BY <1>9, <3>5, <4>0, <4>3, <4>b
      <4>6. Beside(queue', p)
        BY <1>9, <3>3, <4>b DEF Beside
      <4>7. OneChanged(d, p, x)
        BY <3>6, <4>2, <4>3, <4>4, <4>5, <4>6
      <4>c. x.reqs \cap DataStates \subseteq dpr[p].reqs
        BY <1>9, <4>0, <4>3
      <4>8. /\ HandlesCounted' /\ Alive' /\ Owned' /\ OnQueues' /\ Unwritten' /\ Claims'
            /\ dpr' \in [Dprs -> DprStates] /\ queue' \in [States -> Seq(Dprs)] /\ ext_queue' \in Seq(Dprs)
        BY <1>1, <1>11, <3>1, <4>3, <4>7, <4>c, BgTouched
      <4>9. bg'.at = "pick"
        BY <1>2, <3>8 DEF BgStates
      <4>10. QED
        BY <2>0, <3>8, <4>8, <4>9
    <3>9. CASE /\ errors' = errors + 1
               /\ FailsAfter(p, q, [dpr[p] EXCEPT !.err = TRUE])
               /\ bg' = [bg EXCEPT !.at = "pick"]
      <4>1. PICK r : r = [dpr[p] EXCEPT !.err = TRUE]
        OBVIOUS
      <4>2. r \in DprStates /\ r.live = dpr[p].live /\ r.file = dpr[p].file /\ r.alt = dpr[p].alt /\ r.reqs = dpr[p].reqs
        BY <3>2, <4>1 DEF DprStates
      <4>3. FailsAfter(p, q, r)
        BY <3>9, <4>1
      <4>4. \E x : Emptied(p, x)
        BY <3>2, <3>3, <3>4, <4>2, <4>3, FailsAfterIs
      <4>5. PICK x : Emptied(p, x)
        BY <4>4
      <4>6. OneChanged(d, p, x)
        BY <1>1, <1>11, <3>1, <4>5, EmptiedChanged
      <4>7. x \in DprStates /\ x.reqs \cap DataStates = {}
        BY <1>9, <4>5 DEF Emptied
      <4>8. /\ HandlesCounted' /\ Alive' /\ Owned' /\ OnQueues' /\ Unwritten' /\ Claims'
            /\ dpr' \in [Dprs -> DprStates] /\ queue' \in [States -> Seq(Dprs)] /\ ext_queue' \in Seq(Dprs)
        BY <1>1, <1>11, <3>1, <4>6, <4>7, BgTouched
      <4>9. bg'.at = "pick"
        BY <1>2, <3>9 DEF BgStates
      <4>10. QED
        BY <2>0, <3>9, <4>8, <4>9
    <3>10. QED
      BY <1>6, <2>2, <3>7, <3>8, <3>9
  <2>3. QED
    BY <2>1, <2>2
<1>13. SchedTypes'
  BY <1>1, <1>12 DEF FilesInv, SchedTypes
<1>14. LocksHeld'
  BY <1>1, <1>12 DEF FilesInv, LocksHeld
<1>15. Finished'
  <2>1. \A v \in Users : user'[v].at # "flushed"
    BY <1>1, <1>2 DEF AllFiles
  <2>2. QED
    BY <1>1, <1>2, <1>12, <2>1, Going
<1>16. QED
  BY <1>12, <1>13, <1>14, <1>15 DEF FilesInv

LEMMA TakenFailedInv ==
  ASSUME FilesInv, TakenFailed
  PROVE  FilesInv'
<1>1. /\ bg.at = "error" /\ Free(bg.file) /\ bg' = [bg EXCEPT !.at = "pick"]
      /\ UNCHANGED <<dentry, ext_queue, opens, dirty, user, stopping, fault, acts, errors>>
  BY DEF TakenFailed
<1>2. /\ bg.file \in Files /\ bg \in BgStates /\ bg.dpr = None /\ ~stopping
      /\ \A v \in Users : user[v].at \in InClose => user[v].file # bg.file
      /\ \A v \in Users : user[v].at \notin AllFiles
      /\ ~FlushedFile(bg.file)
  BY <1>1, Working
<1>3. PICK d \in Files : d = bg.file
  BY <1>2
<1>4. PICK p : p = dentry[d].priv
  OBVIOUS
<1>5. IF p = None THEN UNCHANGED <<dpr, queue>>
      ELSE \E both \in BOOLEAN :
             /\ dpr' = [dpr EXCEPT ![p] = Failing(@, both)]
             /\ queue' = IF dpr[p].reqs = {} THEN queue ELSE Drop(queue, p, both)
  BY <1>3, <1>4 DEF TakenFailed
<1>6. Elsewhere(d) /\ ~FlushedFile(d)' /\ ~FlushedFile(d)
  <2>1. \A v \in Users : user[v].at \in InClose => user[v].file # d
    BY <1>2, <1>3
  <2>2. QED
    BY <1>1, <1>2, <1>3, <2>1, NotInClose DEF SameClaims
<1>7. bg' \in BgStates /\ bg'.at = "pick" /\ bg'.dpr = None
  BY <1>1, <1>2 DEF BgStates
<1>8. /\ HandlesCounted' /\ Alive' /\ Owned' /\ OnQueues' /\ Unwritten' /\ Claims'
      /\ dpr' \in [Dprs -> DprStates] /\ queue' \in [States -> Seq(Dprs)] /\ ext_queue' \in Seq(Dprs)
  <2>1. CASE p = None
    <3>1. UNCHANGED <<dpr, queue>>
      BY <1>5, <2>1
    <3>2. HandlesCounted' /\ Alive' /\ Owned' /\ OnQueues' /\ Unwritten' /\ Claims'
      BY <1>1, <3>1, SameUsers
    <3>3. QED
      BY <1>1, <3>1, <3>2 DEF FilesInv, SchedTypes
  <2>2. CASE p # None
    <3>1. PICK both \in BOOLEAN :
            /\ dpr' = [dpr EXCEPT ![p] = Failing(@, both)]
            /\ queue' = IF dpr[p].reqs = {} THEN queue ELSE Drop(queue, p, both)
      BY <1>5, <2>2
    <3>2. PrivOf(d, p)
      BY <1>4, <2>2, PrivIs
    <3>3. p \in Dprs /\ dpr[p] \in DprStates /\ dpr[p].live /\ Queues(queue)
      BY <3>2 DEF PrivOf
    <3>4. PICK x : x = Failing(dpr[p], both)
      OBVIOUS
    <3>5. /\ x \in DprStates /\ x.live = dpr[p].live /\ x.file = dpr[p].file /\ x.alt = dpr[p].alt
          /\ x.reqs = IF both THEN {} ELSE dpr[p].reqs \cap {"IP"}
      BY <3>3, <3>4 DEF Failing, DprStates
    <3>6. dpr' = [dpr EXCEPT ![p] = x]
      BY <3>1, <3>4
    <3>7. "IP" \in States /\ "IP" \notin DataStates /\ DataStates \subseteq States
      BY DEF States, DataStates
    <3>8. Emptied(p, x)
      <4>1. CASE dpr[p].reqs = {}
        <5>1. queue' = queue /\ x.reqs = {}
          BY <3>1, <3>5, <4>1
        <5>2. Beside(queue', p)
          BY <3>3, <5>1 DEF Beside
        <5>3. p \notin ToSet(queue["IP"]) /\ \A s \in DataStates : p \notin ToSet(queue[s])
          BY <3>2, <4>1 DEF PrivOf
        <5>4. QED
          BY <3>5, <3>6, <5>1, <5>2, <5>3 DEF Emptied
      <4>2. CASE dpr[p].reqs # {}
        <5>1. /\ Queues(Drop(queue, p, both))
              /\ \A s \in States : \A o : o \in ToSet(Drop(queue, p, both)[s])
                                            <=> o \in ToSet(queue[s]) /\ ~((both \/ s \in DataStates) /\ o = p)
          BY <3>3, DropIs
        <5>2. queue' = Drop(queue, p, both)
          BY <3>1, <4>2
        <5>3. /\ Queues(queue')
              /\ \A s \in States : \A o : o \in ToSet(queue'[s]) <=> o \in ToSet(queue[s]) /\ ~((both \/ s \in DataStates) /\ o = p)
          BY <5>1, <5>2
        <5>4. Beside(queue', p)
          BY <5>3 DEF Beside
        <5>5. (p \in ToSet(queue'["IP"])) = ("IP" \in x.reqs)
          <6>1. (p \in ToSet(queue["IP"])) = ("IP" \in dpr[p].reqs)
            BY <3>2 DEF PrivOf
          <6>2. p \in ToSet(queue'["IP"]) <=> "IP" \in dpr[p].reqs /\ ~both
            BY <3>7, <5>3, <6>1
          <6>3. "IP" \in x.reqs <=> "IP" \in dpr[p].reqs /\ ~both
            BY <3>5
          <6>4. QED
            BY <6>2, <6>3
        <5>6. \A s \in DataStates : p \notin ToSet(queue'[s])
          BY <3>7, <5>3
        <5>7. x.reqs \subseteq {"IP"}
          BY <3>5
        <5>8. QED
          BY <3>5, <3>6, <5>4, <5>5, <5>6, <5>7 DEF Emptied
      <4>3. QED
        BY <4>1, <4>2
    <3>9. OneChanged(d, p, x)
      BY <1>1, <1>6, <3>2, <3>8, EmptiedChanged
    <3>10. x.reqs \cap DataStates = {}
      BY <3>5, <3>7
    <3>11. QED
      BY <1>1, <1>6, <3>2, <3>5, <3>9, <3>10, BgTouched
  <2>3. QED
    BY <2>1, <2>2
<1>9. SchedTypes'
  BY <1>1, <1>7, <1>8 DEF FilesInv, SchedTypes
<1>10. LocksHeld'
  BY <1>1, <1>7 DEF FilesInv, LocksHeld
<1>11. Finished'
  <2>1. \A v \in Users : user'[v].at # "flushed"
    BY <1>1, <1>2 DEF AllFiles
  <2>2. QED
    BY <1>1, <1>2, <1>7, <2>1, Going
<1>12. QED
  BY <1>8, <1>9, <1>10, <1>11 DEF FilesInv

-----------------------------------------------------------------------------
(* A flush of all files, and an unmount.                                   *)

\* The first of the two data queues together is the first of one of them.
LEMMA QueuedEmpty ==
  ASSUME FilesInv
  PROVE  /\ Queued = <<>> <=> queue["DP"] = <<>> /\ queue["PARTIAL"] = <<>>
         /\ Queued # <<>> => \E s \in DataStates : queue[s] # <<>> /\ Head(Queued) = Head(queue[s])
<1>1. queue["DP"] \in Seq(Dprs) /\ queue["PARTIAL"] \in Seq(Dprs)
  BY DEF FilesInv, SchedTypes, States
<1>2. ASSUME NEW a \in Seq(Dprs), NEW b \in Seq(Dprs)
      PROVE  (a \o b = <<>> <=> a = <<>> /\ b = <<>>) /\ (a # <<>> => Head(a \o b) = Head(a)) /\ <<>> \o b = b
  OBVIOUS
<1>3. QED
  BY <1>1, <1>2 DEF Queued, DataStates

LEMMA SyncOneInv ==
  ASSUME FilesInv, NEW u \in Users, SyncOne(u)
  PROVE  FilesInv'
<1>1. /\ user[u].at = "flushall" /\ UNCHANGED <<dentry, ext_queue, opens, dirty, stopping, fault, acts>>
      /\ FlushHead(user' = [user EXCEPT ![u].at = "flushed"] /\ UNCHANGED bg,
                   user' = [user EXCEPT ![u] = Resting] /\ UNCHANGED bg)
  BY DEF SyncOne
<1>2. /\ user \in [Users -> UserStates] /\ user[u] = [at |-> "flushall", file |-> NoFile]
      /\ \A v \in Users : user[v].at \notin InClose /\ (user[v].at \in AllFiles => u = v)
  <2>1. user[u] = [at |-> "flushall", file |-> NoFile]
    BY <1>1, NoCall DEF FilesInv, AllFiles
  <2>2. QED
    BY <1>1, <2>1 DEF FilesInv, LocksHeld, AllFiles, SchedTypes
<1>3. ~stopping
  BY <1>2 DEF FilesInv, Finished, Resting
<1>4. bg.at \notin {"flushall", "destroy", "gone"}
  BY <1>3 DEF FilesInv, Finished
<1>5. CASE Queued = <<>>
  <2>1. /\ user' = [user EXCEPT ![u].at = "flushed"] /\ UNCHANGED <<bg, dpr, queue, errors>>
    BY <1>1, <1>5 DEF FlushHead
  <2>2. [user EXCEPT ![u].at = "flushed"] = [user EXCEPT ![u] = [at |-> "flushed", file |-> NoFile]]
    <3>1. [user[u] EXCEPT !.at = "flushed"] = [at |-> "flushed", file |-> NoFile]
      BY <1>2
    <3>2. QED
      BY <3>1
  <2>3. /\ user' \in [Users -> UserStates] /\ user'[u] = [at |-> "flushed", file |-> NoFile]
        /\ \A v \in Users : v # u => user'[v] = user[v]
        /\ \A d \in Files, v \in Users : (user'[v].file = d) = (user[v].file = d)
    BY <1>2, <2>1, <2>2, UserIsIn DEF FilesInv, AllFiles
  <2>4. SameFlushes
    BY <1>2, <2>3 DEF SameFlushes
  <2>5. HandlesCounted' /\ Alive' /\ Owned' /\ OnQueues' /\ Unwritten'
    BY <1>1, <2>1, <2>3, <2>4, OnlyControl
  <2>6. SchedTypes'
    BY <1>1, <2>1, <2>3 DEF FilesInv, SchedTypes
  <2>7. LocksHeld'
    <3>1. user[u].at \in AllFiles /\ user'[u].at \in AllFiles
      BY <1>1, <2>3 DEF AllFiles
    <3>2. QED
      BY <2>1, <2>3, <3>1, LocksMove DEF FilesInv
  <2>8. Claims'
    BY <1>1, <2>1, <2>3 DEF FilesInv, Claims, Claim
  <2>9. queue["DP"] = <<>> /\ queue["PARTIAL"] = <<>>
    BY <1>5, QueuedEmpty
  <2>10. Finished'
    BY <1>1, <1>3, <1>4, <2>1, <2>9 DEF FilesInv, Finished
  <2>11. QED
    BY <2>5, <2>6, <2>7, <2>8, <2>10 DEF FilesInv
<1>6. CASE Queued # <<>>
  <2>1. PICK s \in DataStates : queue[s] # <<>> /\ Head(Queued) = Head(queue[s])
    BY <1>6, QueuedEmpty
  <2>2. PICK p : p = Head(Queued)
    OBVIOUS
  <2>3. p \in Dprs /\ s \in dpr[p].reqs /\ dpr[p].live /\ dpr[p].file \in Files /\ dentry[dpr[p].file].priv = p
    BY <2>1, <2>2, HeadLives DEF States, DataStates
  <2>4. PICK d \in Files : d = dpr[p].file
    BY <2>3
  <2>5. PrivOf(d, p)
    <3>1. None \notin Dprs
      BY Privs DEF FilesInv
    <3>2. QED
      BY <2>3, <2>4, <3>1, PrivIs
  <2>6. ~dpr[p].err
    BY <2>1, <2>3, <2>5 DEF PrivOf
  <2>7. FlushTo(p) /\ IF errors' = errors THEN UNCHANGED <<user, bg>> ELSE user' = [user EXCEPT ![u] = Resting] /\ UNCHANGED bg
    BY <1>1, <1>6, <2>2, <2>6 DEF FlushHead
  <2>8. (\E x : Emptied(p, x)) /\ errors' \in Nat
    BY <2>5, <2>7, FlushToIs
  <2>9. PICK x : Emptied(p, x)
    BY <2>8
  <2>10. /\ user' \in [Users -> UserStates]
         /\ \A v \in Users : user'[v] = user[v] \/ (v = u /\ user'[v] = [at |-> "idle", file |-> NoFile])
         /\ \A e \in Files, v \in Users : (user'[v].file = e) = (user[v].file = e)
    <3>1. CASE user' = user
      BY <1>2, <3>1
    <3>2. CASE user' = [user EXCEPT ![u] = [at |-> "idle", file |-> NoFile]]
      <4>1. user[u].file = NoFile /\ "idle" \in {"idle"} \cup AllFiles
        BY <1>2
      <4>2. /\ user' \in [Users -> UserStates] /\ user'[u] = [at |-> "idle", file |-> NoFile]
            /\ \A v \in Users : v # u => user'[v] = user[v]
            /\ \A e \in Files, v \in Users : (user'[v].file = e) = (user[v].file = e)
        BY <3>2, <4>1, UserIsIn DEF FilesInv
      <4>3. QED
        BY <4>2
    <3>3. QED
      BY <2>7, <3>1, <3>2 DEF Resting
  <2>11. SameClaims
    BY <1>2, <2>10 DEF SameClaims, InClose
  <2>12. Elsewhere(d)
    BY <1>2, <2>11, NotInClose
  <2>13. OneChanged(d, p, x)
    BY <1>1, <2>5, <2>9, <2>12, EmptiedChanged
  <2>14. x \in DprStates /\ x.reqs \cap DataStates = {}
    BY <2>9 DEF Emptied, DataStates
  <2>15. \A v \in Users : dirty[v] \subseteq dirty'[v] /\ dirty'[v] \subseteq opens[v]
    BY <1>1 DEF FilesInv, Unwritten
  <2>16. /\ HandlesCounted' /\ Alive' /\ Owned' /\ OnQueues' /\ Unwritten' /\ Claims'
         /\ dpr' \in [Dprs -> DprStates] /\ queue' \in [States -> Seq(Dprs)] /\ ext_queue' \in Seq(Dprs)
    BY <1>1, <2>3, <2>10, <2>13, <2>14, <2>15, Touched
  <2>17. bg' = bg
    BY <2>7
  <2>18. SchedTypes'
    BY <1>1, <2>8, <2>10, <2>16, <2>17 DEF FilesInv, SchedTypes
  <2>19. LocksHeld'
    <3>1. user'[u].at \notin InClose \cup AllFiles \/ user'[u].at \in AllFiles
      BY <1>2, <2>10 DEF InClose, AllFiles
    <3>2. \A v \in Users : v # u => user'[v] = user[v]
      BY <2>10
    <3>3. user[u].at \in AllFiles
      BY <1>1 DEF AllFiles
    <3>4. QED
      BY <2>17, <3>1, <3>2, <3>3, LocksMove DEF FilesInv
  <2>20. Finished'
    <3>1. \A v \in Users : user'[v].at # "flushed"
      BY <1>2, <2>10 DEF AllFiles
    <3>2. QED
      BY <1>1, <1>3, <1>4, <2>17, <3>1, Going
  <2>21. QED
    BY <2>16, <2>18, <2>19, <2>20 DEF FilesInv
<1>7. QED
  BY <1>5, <1>6

\* At an unmount nothing is left to be flushed: no file is open.
LEMMA FlushOneInv ==
  ASSUME FilesInv, FlushOne
  PROVE  FilesInv'
<1>1. /\ bg.at = "flushall" /\ UNCHANGED <<dentry, ext_queue, opens, dirty, stopping, fault, acts>>
      /\ FlushHead(bg' = [bg EXCEPT !.at = "index"] /\ UNCHANGED user, bg' = [bg EXCEPT !.at = "index"] /\ UNCHANGED user)
  BY DEF FlushOne
<1>2. stopping /\ \A v \in Users : user[v] = Resting /\ opens[v] = {}
  BY <1>1 DEF FilesInv, Finished
<1>3. ASSUME NEW p \in Dprs PROVE dpr[p].reqs \cap DataStates = {}
  <2>1. \A v \in Users : dirty[v] = {}
    BY <1>2 DEF FilesInv, Unwritten
  <2>2. ~FlushedFile(dpr[p].file)
    BY <1>2 DEF FlushedFile, Resting
  <2>3. QED
    BY <2>1, <2>2 DEF FilesInv, Unwritten, Carried
<1>4. Queued = <<>>
  <2>1. SUFFICES ASSUME Queued # <<>> PROVE FALSE
    OBVIOUS
  <2>2. PICK s \in DataStates : queue[s] # <<>>
    BY <2>1, QueuedEmpty
  <2>3. Head(queue[s]) \in Dprs /\ s \in dpr[Head(queue[s])].reqs
    BY <2>2, HeadLives DEF States, DataStates
  <2>4. QED
    BY <1>3, <2>3
<1>5. bg' = [bg EXCEPT !.at = "index"] /\ UNCHANGED <<user, dpr, queue, errors>>
  BY <1>1, <1>4 DEF FlushHead
<1>6. HandlesCounted' /\ Alive' /\ Owned' /\ OnQueues' /\ Unwritten' /\ Claims'
  BY <1>1, <1>5, SameUsers
<1>7. bg' \in BgStates /\ bg'.dpr = None /\ bg'.at = "index"
  BY <1>1, <1>5 DEF BgStates, FilesInv, SchedTypes
<1>8. SchedTypes'
  BY <1>1, <1>5, <1>7 DEF FilesInv, SchedTypes
<1>9. LocksHeld'
  BY <1>1, <1>5, <1>7 DEF FilesInv, LocksHeld
<1>10. Finished'
  BY <1>1, <1>5, <1>7 DEF FilesInv, Finished
<1>11. QED
  BY <1>6, <1>8, <1>9, <1>10 DEF FilesInv

-----------------------------------------------------------------------------
(* A structure is freed.                                                   *)

FreedDentry(d) == dentry' = [dentry EXCEPT ![d] = Released([@ EXCEPT !.priv = None])]

\* The dentry of a structure that is freed: one handle less.
LEMMA FreedIs ==
  ASSUME SchedTypes, HandlesCounted, Alive, NEW d \in Files, dentry[d].priv # None, FreedDentry(d), UNCHANGED opens,
         \A e \in Files, v \in Users : (user'[v].file = e) = (user[v].file = e)
  PROVE  /\ dentry' \in [Files -> DentryStates] /\ HandlesCounted' /\ Alive'
         /\ \A e \in Files : dentry'[e].priv = IF e = d THEN None ELSE dentry[e].priv
<1>1. dentry \in [Files -> DentryStates] /\ dentry[d] \in DentryStates
  BY DEF SchedTypes
<1>2. /\ dentry[d].handles = HandlesAt(d) /\ dentry[d].handles \in Nat
      /\ Cardinality(OpenedBy(d)) \in Nat /\ Cardinality(CalledBy(d)) \in Nat
  BY Counts
<1>3. One(dentry[d].linked) \in Nat /\ One(dentry[d].priv # None) = 1
  BY DEF One
<1>4. dentry[d].handles > 0
  BY <1>2, <1>3 DEF HandlesAt
<1>5. PICK n \in Nat : n = dentry[d].handles - 1
  BY <1>2, <1>4
<1>6. PICK x : x = Released([dentry[d] EXCEPT !.priv = None])
  OBVIOUS
<1>7. x \in DentryStates /\ x.handles = n /\ x.alive = (n > 0) /\ x.linked = dentry[d].linked /\ x.priv = None
  <2>1. (dentry[d].handles > 1) = (n > 0)
    BY <1>2, <1>5
  <2>2. x = [[dentry[d] EXCEPT !.priv = None] EXCEPT !.handles = n, !.alive = (n > 0)]
    BY <1>1, <1>5, <1>6, <2>1 DEF Released, DentryStates
  <2>3. (n > 0) \in BOOLEAN
    OBVIOUS
  <2>4. QED
    BY <1>1, <2>2, <2>3 DEF DentryStates
<1>8. dentry' = [dentry EXCEPT ![d] = x]
  BY <1>6 DEF FreedDentry
<1>9. dentry' \in [Files -> DentryStates] /\ dentry'[d] = x /\ \A e \in Files : e # d => dentry'[e] = dentry[e]
  BY <1>1, <1>7, <1>8
<1>10. dentry'[d].handles = HandlesAt(d)'
  <2>1. OpenedBy(d)' = OpenedBy(d) /\ CalledBy(d)' = CalledBy(d)
    BY DEF OpenedBy, CalledBy
  <2>2. One(dentry'[d].priv # None) = 0
    BY <1>7, <1>9 DEF One
  <2>3. QED
    BY <1>2, <1>3, <1>5, <1>7, <1>9, <2>1, <2>2 DEF HandlesAt
<1>11. HandlesCounted' /\ Alive'
  BY <1>7, <1>9, <1>10, HandlesChange
<1>12. QED
  BY <1>7, <1>9, <1>11

\* It had nothing to be done for it, or what it had is taken off the queues.
LEMMA FreedChanged ==
  ASSUME FilesInv, NEW d \in Files, NEW p, PrivOf(d, p), dpr' = [dpr EXCEPT ![p] = NoDpr],
         FreedDentry(d), UNCHANGED <<opens, dirty>>, Elsewhere(d), ~FlushedFile(d)',
         \A e \in Files, v \in Users : (user'[v].file = e) = (user[v].file = e),
         Beside(queue', p), \A s \in States : p \notin ToSet(queue'[s]),
         QueueOf(ext_queue') /\ \A o \in Dprs : o # p => (o \in ToSet(ext_queue') <=> o \in ToSet(ext_queue)),
         p \notin ToSet(ext_queue')
  PROVE  /\ dentry' \in [Files -> DentryStates] /\ HandlesCounted' /\ Alive' /\ Owned' /\ OnQueues' /\ Unwritten' /\ Claims'
         /\ dpr' \in [Dprs -> DprStates] /\ queue' \in [States -> Seq(Dprs)] /\ ext_queue' \in Seq(Dprs)
<1>1. p \in Dprs /\ dentry[d].priv = p /\ None \notin Dprs
  BY Privs DEF PrivOf, FilesInv
<1>2. /\ dentry' \in [Files -> DentryStates] /\ HandlesCounted' /\ Alive'
      /\ \A e \in Files : dentry'[e].priv = IF e = d THEN None ELSE dentry[e].priv
  BY <1>1, FreedIs DEF FilesInv
<1>3. NoDpr \in DprStates /\ ~NoDpr.live /\ NoDpr.reqs = {} /\ ~NoDpr.alt /\ NoDpr.alt \in BOOLEAN
  BY DEF NoDpr, DprStates
<1>4. OneChanged(d, p, NoDpr)
  <2>1. "IP" \in States /\ DataStates \subseteq States
    BY DEF States, DataStates
  <2>2. (p \in ToSet(ext_queue')) = NoDpr.alt
    BY <1>3
  <2>3. (p \in ToSet(queue'["IP"])) = ("IP" \in NoDpr.reqs)
    BY <1>3, <2>1
  <2>4. \A s \in DataStates : (p \in ToSet(queue'[s])) = (s \in NoDpr.reqs /\ ~FlushedFile(d)')
    BY <1>3, <2>1
  <2>5. QED
    BY <1>1, <1>2, <1>3, <2>2, <2>3, <2>4 DEF OneChanged
<1>5. Owned' /\ OnQueues' /\ Claims'
  BY <1>1, <1>3, <1>4, OneOwned, OneQueued, OneClaimed DEF FilesInv
<1>6. Unwritten'
  <2>1. \A v \in Users : dirty'[v] \subseteq opens'[v]
    BY DEF FilesInv, Unwritten
  <2>2. \A v \in Users, e \in Files : e \in dirty[v] /\ e # d => e \in dirty'[v]
    OBVIOUS
  <2>3. NoDpr.reqs \cap DataStates = {}
    BY <1>3
  <2>4. QED
    BY <1>1, <1>3, <1>4, <2>1, <2>2, <2>3, OneUnwritten DEF FilesInv
<1>7. dpr' \in [Dprs -> DprStates] /\ queue' \in [States -> Seq(Dprs)] /\ ext_queue' \in Seq(Dprs)
  BY <1>3 DEF Beside, Queues, QueueOf, FilesInv, SchedTypes
<1>8. QED
  BY <1>2, <1>5, <1>6, <1>7

LEMMA FreeDprInv ==
  ASSUME FilesInv, NEW u \in Users, FreeDpr(u)
  PROVE  FilesInv'
<1>0. user[u].file \in Files
  BY DEF FreeDpr, FilesInv, SchedTypes, UserStates, AllFiles
<1>1. PICK d \in Files : user[u].file = d
  BY <1>0
<1>2. PICK p : p = dentry[d].priv
  OBVIOUS
<1>3. /\ user[u].at = "freeing" /\ user' = [user EXCEPT ![u].at = "leave"]
      /\ dpr' = [dpr EXCEPT ![p] = NoDpr] /\ FreedDentry(d)
      /\ UNCHANGED <<queue, ext_queue, opens, dirty, bg, stopping, fault, acts, errors>>
  BY <1>1, <1>2 DEF FreeDpr, Freed, FreedDentry
<1>4. p # None /\ dpr[p].reqs = {} /\ ~dpr[p].alt
  BY <1>1, <1>2, <1>3 DEF FilesInv, Claims, Claim
<1>5. PrivOf(d, p)
  BY <1>2, <1>4, PrivIs
<1>6. /\ user' \in [Users -> UserStates] /\ user'[u] = [at |-> "leave", file |-> d]
      /\ \A v \in Users : v # u => user'[v] = user[v]
      /\ \A e \in Files, v \in Users : (user'[v].file = e) = (user[v].file = e)
  BY <1>1, <1>3, UserMoves DEF FilesInv, InCall, InClose
<1>7. Elsewhere(d) /\ ~FlushedFile(d)'
  <2>1. \A v \in Users : v # u /\ user[v].at \in {"flush", "freeing"} => user[v].file # d
    BY <1>1, <1>3 DEF FilesInv, LocksHeld, InClose
  <2>2. QED
    BY <1>1, <1>3, <1>6, <2>1 DEF Elsewhere, FlushedFile
<1>8. /\ Beside(queue', p) /\ \A s \in States : p \notin ToSet(queue'[s])
  BY <1>3, <1>4, <1>5 DEF PrivOf, Beside, States, DataStates
<1>9. /\ QueueOf(ext_queue') /\ \A o \in Dprs : o # p => (o \in ToSet(ext_queue') <=> o \in ToSet(ext_queue))
  BY <1>3, <1>5 DEF PrivOf
<1>10. p \notin ToSet(ext_queue')
  BY <1>3, <1>4, <1>5 DEF PrivOf
<1>11. /\ dentry' \in [Files -> DentryStates] /\ HandlesCounted' /\ Alive' /\ Owned' /\ OnQueues' /\ Unwritten' /\ Claims'
       /\ dpr' \in [Dprs -> DprStates] /\ queue' \in [States -> Seq(Dprs)] /\ ext_queue' \in Seq(Dprs)
  BY <1>3, <1>5, <1>6, <1>7, <1>8, <1>9, <1>10, FreedChanged
<1>12. SchedTypes'
  BY <1>3, <1>6, <1>11 DEF FilesInv, SchedTypes
<1>13. LocksHeld'
  <2>1. user[u].at \in InClose /\ user'[u].at \in InClose /\ user'[u].file = user[u].file
    BY <1>1, <1>3, <1>6 DEF InClose
  <2>2. QED
    BY <1>3, <1>6, <2>1, LocksMove DEF FilesInv
<1>14. Finished'
  BY <1>3, <1>6 DEF FilesInv, Finished, Resting
<1>15. QED
  BY <1>11, <1>12, <1>13, <1>14 DEF FilesInv

LEMMA DestroyOneInv ==
  ASSUME FilesInv, DestroyOne
  PROVE  FilesInv'
<1>1. PICK p : p = Head(ext_queue)
  OBVIOUS
<1>2. /\ bg.at = "destroy" /\ ext_queue # <<>>
      /\ UNCHANGED <<queue, opens, dirty, user, bg, stopping, acts, errors>>
      /\ IF ~dpr[p].live THEN fault' = "dpr" /\ UNCHANGED <<dentry, dpr, ext_queue>>
         ELSE Freed(dpr[p].file) /\ ext_queue' = Tail(ext_queue) /\ UNCHANGED fault
  BY <1>1 DEF DestroyOne
<1>3. QueueOf(ext_queue)
  BY DEF FilesInv, SchedTypes, OnQueues, QueueOf
<1>4. p \in Dprs /\ p \in ToSet(ext_queue) /\ QueueOf(Tail(ext_queue)) /\ ToSet(Tail(ext_queue)) = ToSet(ext_queue) \ {p}
  BY <1>1, <1>2, <1>3, HeadTail
<1>5. dpr[p].live /\ dpr[p].file \in Files /\ dentry[dpr[p].file].priv = p
  <2>1. dpr[p].alt
    BY <1>4 DEF FilesInv, OnQueues, Placed
  <2>2. dpr[p].live
    BY <1>4, <2>1 DEF FilesInv, Owned, NoDpr
  <2>3. QED
    BY <1>4, <2>2 DEF FilesInv, Owned
<1>6. PICK d \in Files : d = dpr[p].file
  BY <1>5
<1>7. None \notin Dprs
  BY Privs DEF FilesInv
<1>8. PrivOf(d, p)
  BY <1>4, <1>5, <1>6, <1>7, PrivIs
<1>9. dpr' = [dpr EXCEPT ![p] = NoDpr] /\ FreedDentry(d) /\ ext_queue' = Tail(ext_queue) /\ UNCHANGED fault
  BY <1>2, <1>5, <1>6 DEF Freed, FreedDentry
<1>10. stopping /\ queue["IP"] = <<>> /\ \A v \in Users : user[v] = Resting /\ opens[v] = {}
  BY <1>2 DEF FilesInv, Finished
<1>11. ~FlushedFile(d) /\ ~FlushedFile(d)' /\ Elsewhere(d)
  BY <1>2, <1>10 DEF FlushedFile, Elsewhere, Resting
<1>12. \A s \in States : p \notin ToSet(queue[s])
  <2>1. p \notin ToSet(queue["IP"])
    BY <1>8, <1>10, EmptyQueue DEF PrivOf, Queues, QueueOf, States
  <2>2. dpr[p].reqs \cap DataStates = {}
    BY <1>8, <1>10, <1>11 DEF PrivOf, FilesInv, Unwritten
  <2>3. QED
    BY <1>8, <2>1, <2>2 DEF PrivOf, States, DataStates
<1>13. Beside(queue', p) /\ \A s \in States : p \notin ToSet(queue'[s])
  BY <1>2, <1>8, <1>12 DEF PrivOf, Beside
<1>14. /\ QueueOf(ext_queue') /\ \A o \in Dprs : o # p => (o \in ToSet(ext_queue') <=> o \in ToSet(ext_queue))
  BY <1>4, <1>9
<1>15. p \notin ToSet(ext_queue')
  BY <1>4, <1>9
<1>16. \A e \in Files, v \in Users : (user'[v].file = e) = (user[v].file = e)
  BY <1>2
<1>17. /\ dentry' \in [Files -> DentryStates] /\ HandlesCounted' /\ Alive' /\ Owned' /\ OnQueues' /\ Unwritten' /\ Claims'
       /\ dpr' \in [Dprs -> DprStates] /\ queue' \in [States -> Seq(Dprs)] /\ ext_queue' \in Seq(Dprs)
  BY <1>2, <1>8, <1>9, <1>11, <1>13, <1>14, <1>15, <1>16, FreedChanged
<1>18. SchedTypes'
  BY <1>2, <1>9, <1>17 DEF FilesInv, SchedTypes
<1>19. LocksHeld' /\ Finished'
  BY <1>2, <1>9, <1>10 DEF FilesInv, LocksHeld, Finished
<1>20. QED
  BY <1>17, <1>18, <1>19 DEF FilesInv

\* The index partition.
LEMMA LinkedIs ==
  ASSUME NEW d \in Files, NEW p, PrivOf(d, p), NEW some \in BOOLEAN,
         ext_queue' = IF some /\ ~dpr[p].alt THEN Append(ext_queue, p) ELSE ext_queue
  PROVE  /\ QueueOf(ext_queue') /\ \A o \in Dprs : o # p => (o \in ToSet(ext_queue') <=> o \in ToSet(ext_queue))
         /\ p \in ToSet(ext_queue') <=> dpr[p].alt \/ some
<1>1. p \in Dprs /\ QueueOf(ext_queue) /\ (p \in ToSet(ext_queue)) = dpr[p].alt
  BY DEF PrivOf
<1>2. CASE some /\ ~dpr[p].alt
  <2>1. QueueOf(Append(ext_queue, p)) /\ ToSet(Append(ext_queue, p)) = ToSet(ext_queue) \cup {p}
    BY <1>1, <1>2, Insertion
  <2>2. ext_queue' = Append(ext_queue, p)
    BY <1>2
  <2>3. QED
    BY <1>2, <2>1, <2>2
<1>3. CASE ~(some /\ ~dpr[p].alt)
  <2>1. ext_queue' = ext_queue
    BY <1>3
  <2>2. QED
    BY <1>1, <1>3, <2>1
<1>4. QED
  BY <1>2, <1>3

LEMMA IndexOneInv ==
  ASSUME FilesInv, IndexOne
  PROVE  FilesInv'
<1>1. PICK p : p = Head(queue["IP"])
  OBVIOUS
<1>2. PICK d : d = dpr[p].file
  OBVIOUS
<1>3. /\ bg.at = "index" /\ queue["IP"] # <<>>
      /\ UNCHANGED <<opens, dirty, user, bg, stopping, fault, acts>>
  BY DEF IndexOne
<1>4. "IP" \in States /\ "IP" \notin DataStates /\ DataStates \subseteq States
  BY DEF States, DataStates
<1>5. p \in Dprs /\ "IP" \in dpr[p].reqs /\ dpr[p].live /\ d \in Files /\ dentry[d].priv = p
  BY <1>1, <1>2, <1>3, <1>4, HeadLives
<1>6. PrivOf(d, p)
  <2>1. None \notin Dprs
    BY Privs DEF FilesInv
  <2>2. QED
    BY <1>5, <2>1, PrivIs
<1>7. dpr[p] \in DprStates /\ dpr[p].file = d /\ Queues(queue) /\ QueueOf(ext_queue)
  BY <1>6 DEF PrivOf
<1>8. \A v \in Users : user[v].at \notin InClose \cup AllFiles
  BY <1>3 DEF FilesInv, LocksHeld
<1>9. ~FlushedFile(d) /\ ~FlushedFile(d)' /\ Elsewhere(d)
  BY <1>3, <1>8 DEF FlushedFile, Elsewhere, InClose
<1>10. PICK r \in DprStates, both \in BOOLEAN, some \in BOOLEAN :
         /\ r.live /\ r.file = d /\ r.reqs = (IF both THEN {} ELSE dpr[p].reqs \ {"IP"})
         /\ (r.alt <=> dpr[p].alt \/ some) /\ (both \/ r.err = dpr[p].err)
         /\ IF dentry[d].handles <= 2 /\ r.reqs = {} /\ ~r.alt
            THEN dpr' = [dpr EXCEPT ![p] = NoDpr] /\ FreedDentry(d)
            ELSE dpr' = [dpr EXCEPT ![p] = r] /\ dentry' = dentry
         /\ ext_queue' = IF some /\ ~dpr[p].alt THEN Append(ext_queue, p) ELSE ext_queue
         /\ queue' = IF both THEN OffData(Off(queue, "IP", p), p) ELSE Off(queue, "IP", p)
         /\ errors' \in Nat
  <2>0. errors \in Nat
    BY DEF FilesInv, SchedTypes
  <2> DEFINE free(r) == dentry[d].handles <= 2 /\ r.reqs = {} /\ ~r.alt
             left(r) == /\ dpr' = [dpr EXCEPT ![p] = IF free(r) THEN NoDpr ELSE r]
                        /\ dentry' = IF free(r) THEN [dentry EXCEPT ![d] = Released([@ EXCEPT !.priv = None])] ELSE dentry
             a == [dpr[p] EXCEPT !.reqs = @ \ {"IP"}, !.alt = @ \/ "IP" \in dpr[p].reqs]
             b(both, told, some) ==
               [dpr[p] EXCEPT !.reqs = IF both THEN {} ELSE @ \ {"IP"}, !.alt = @ \/ some, !.err = @ \/ told]
  <2>1. \/ /\ left(a) /\ queue' = Off(queue, "IP", p)
           /\ ext_queue' = IF "IP" \in dpr[p].reqs /\ ~dpr[p].alt THEN Append(ext_queue, p) ELSE ext_queue
           /\ UNCHANGED errors
        \/ \E both, told, some \in BOOLEAN :
             /\ told => both
             /\ left(b(both, told, some)) /\ errors' = errors + 1
             /\ ext_queue' = IF some /\ ~dpr[p].alt THEN Append(ext_queue, p) ELSE ext_queue
             /\ queue' = IF both THEN OffData(Off(queue, "IP", p), p) ELSE Off(queue, "IP", p)
    <3> DEFINE hp == Head(queue["IP"])
               hd == dpr[hp].file
               hfree(r) == dentry[hd].handles <= 2 /\ r.reqs = {} /\ ~r.alt
               hleft(r) == /\ dpr' = [dpr EXCEPT ![hp] = IF hfree(r) THEN NoDpr ELSE r]
                           /\ dentry' = IF hfree(r) THEN [dentry EXCEPT ![hd] = Released([@ EXCEPT !.priv = None])]
                                        ELSE dentry
               linked(some) == ext_queue' = IF some /\ ~dpr[hp].alt THEN Append(ext_queue, hp) ELSE ext_queue
    <3>1. \/ /\ hleft([dpr[hp] EXCEPT !.reqs = @ \ {"IP"}, !.alt = @ \/ "IP" \in dpr[hp].reqs])
             /\ queue' = Off(queue, "IP", hp)
             /\ linked("IP" \in dpr[hp].reqs) /\ UNCHANGED errors
          \/ /\ "IP" \in dpr[hp].reqs /\ errors < MaxErrors /\ errors' = errors + 1
             /\ \E both, told, some \in BOOLEAN :
                  /\ told => both
                  /\ hleft([dpr[hp] EXCEPT !.reqs = IF both THEN {} ELSE @ \ {"IP"}, !.alt = @ \/ some, !.err = @ \/ told])
                  /\ linked(some)
                  /\ queue' = IF both THEN OffData(Off(queue, "IP", hp), hp) ELSE Off(queue, "IP", hp)
      BY DEF IndexOne
    <3>2. hd = d
      BY <1>1, <1>2
    <3> HIDE DEF hd
    <3>3. hp = p
      BY <1>1
    <3> HIDE DEF hp
    <3>4. \A r : hleft(r) => left(r)
      BY <3>2, <3>3
    <3>5. [dpr[hp] EXCEPT !.reqs = @ \ {"IP"}, !.alt = @ \/ "IP" \in dpr[hp].reqs] = a
      BY <3>3
    <3>6. ASSUME NEW both \in BOOLEAN, NEW told \in BOOLEAN, NEW some \in BOOLEAN
          PROVE  [dpr[hp] EXCEPT !.reqs = IF both THEN {} ELSE @ \ {"IP"}, !.alt = @ \/ some, !.err = @ \/ told]
                   = b(both, told, some)
      BY <3>3
    <3> HIDE DEF hleft, left, a, b
    <3>7. ASSUME NEW some
          PROVE  linked(some) => ext_queue' = IF some /\ ~dpr[p].alt THEN Append(ext_queue, p) ELSE ext_queue
      BY <3>3
    <3> HIDE DEF linked
    <3>8. CASE /\ hleft([dpr[hp] EXCEPT !.reqs = @ \ {"IP"}, !.alt = @ \/ "IP" \in dpr[hp].reqs])
               /\ queue' = Off(queue, "IP", hp)
               /\ linked("IP" \in dpr[hp].reqs) /\ UNCHANGED errors
      <4>1. left(a)
        BY <3>4, <3>5, <3>8
      <4>2. queue' = Off(queue, "IP", p)
        BY <3>3, <3>8
      <4>3. ext_queue' = IF "IP" \in dpr[p].reqs /\ ~dpr[p].alt THEN Append(ext_queue, p) ELSE ext_queue
        <5>1. PICK y : y = ("IP" \in dpr[hp].reqs)
          OBVIOUS
        <5>2. linked(y)
          BY <3>8, <5>1
        <5>3. ext_queue' = IF y /\ ~dpr[p].alt THEN Append(ext_queue, p) ELSE ext_queue
          BY <3>7, <5>2
        <5>4. y = ("IP" \in dpr[p].reqs)
          BY <3>3, <5>1
        <5>5. QED
          BY <5>3, <5>4
      <4>4. QED
        BY <3>8, <4>1, <4>2, <4>3
    <3>9. ASSUME NEW both \in BOOLEAN, NEW told \in BOOLEAN, NEW some \in BOOLEAN,
                 told => both, errors' = errors + 1,
                 hleft([dpr[hp] EXCEPT !.reqs = IF both THEN {} ELSE @ \ {"IP"}, !.alt = @ \/ some, !.err = @ \/ told]),
                 linked(some),
                 queue' = IF both THEN OffData(Off(queue, "IP", hp), hp) ELSE Off(queue, "IP", hp)
          PROVE  /\ told => both
                 /\ left(b(both, told, some)) /\ errors' = errors + 1
                 /\ ext_queue' = IF some /\ ~dpr[p].alt THEN Append(ext_queue, p) ELSE ext_queue
                 /\ queue' = IF both THEN OffData(Off(queue, "IP", p), p) ELSE Off(queue, "IP", p)
      <4>1. left(b(both, told, some))
        <5>1. PICK x : x = [dpr[hp] EXCEPT !.reqs = IF both THEN {} ELSE @ \ {"IP"}, !.alt = @ \/ some, !.err = @ \/ told]
          OBVIOUS
        <5>2. hleft(x)
          BY <3>9, <5>1
        <5>3. x = b(both, told, some)
          BY <3>6, <5>1
        <5>4. QED
          BY <3>4, <5>2, <5>3
      <4>2. queue' = IF both THEN OffData(Off(queue, "IP", p), p) ELSE Off(queue, "IP", p)
        BY <3>3, <3>9
      <4>3. ext_queue' = IF some /\ ~dpr[p].alt THEN Append(ext_queue, p) ELSE ext_queue
        BY <3>7, <3>9
      <4>4. QED
        BY <3>9, <4>1, <4>2, <4>3
    <3>10. QED
      BY <3>1, <3>8, <3>9
  <2>2. ASSUME NEW r, left(r)
        PROVE  IF dentry[d].handles <= 2 /\ r.reqs = {} /\ ~r.alt
               THEN dpr' = [dpr EXCEPT ![p] = NoDpr] /\ FreedDentry(d)
               ELSE dpr' = [dpr EXCEPT ![p] = r] /\ dentry' = dentry
    BY <2>2 DEF FreedDentry
  <2>3. CASE /\ left(a) /\ queue' = Off(queue, "IP", p)
             /\ ext_queue' = IF "IP" \in dpr[p].reqs /\ ~dpr[p].alt THEN Append(ext_queue, p) ELSE ext_queue
             /\ UNCHANGED errors
    <3>1. a = [dpr[p] EXCEPT !.reqs = dpr[p].reqs \ {"IP"}, !.alt = TRUE]
      BY <1>5, <1>7 DEF DprStates
    <3>2. PICK r : r = a
      OBVIOUS
    <3>3. left(r)
      BY <2>3, <3>2
    <3>4. IF dentry[d].handles <= 2 /\ r.reqs = {} /\ ~r.alt
          THEN dpr' = [dpr EXCEPT ![p] = NoDpr] /\ FreedDentry(d)
          ELSE dpr' = [dpr EXCEPT ![p] = r] /\ dentry' = dentry
      BY <2>2, <3>3
    <3>5. r \in DprStates /\ r.live /\ r.file = d /\ r.reqs = dpr[p].reqs \ {"IP"} /\ r.alt /\ r.err = dpr[p].err
      BY <1>5, <1>7, <3>1, <3>2 DEF DprStates
    <3>6. ext_queue' = IF TRUE /\ ~dpr[p].alt THEN Append(ext_queue, p) ELSE ext_queue
      BY <1>5, <2>3
    <3>7. queue' = Off(queue, "IP", p) /\ errors' \in Nat
      BY <2>0, <2>3
    <3>8. /\ r \in DprStates /\ r.live /\ r.file = d /\ r.reqs = (IF FALSE THEN {} ELSE dpr[p].reqs \ {"IP"})
          /\ (r.alt <=> dpr[p].alt \/ TRUE) /\ (FALSE \/ r.err = dpr[p].err)
          /\ queue' = IF FALSE THEN OffData(Off(queue, "IP", p), p) ELSE Off(queue, "IP", p)
      BY <3>5, <3>7
    <3>9. TRUE \in BOOLEAN /\ FALSE \in BOOLEAN
      OBVIOUS
    <3> HIDE DEF left, free, a
    <3>10. QED
      BY <3>4, <3>6, <3>7, <3>8, <3>9
  <2>4. CASE \E both, told, some \in BOOLEAN :
             /\ told => both
             /\ left(b(both, told, some)) /\ errors' = errors + 1
             /\ ext_queue' = IF some /\ ~dpr[p].alt THEN Append(ext_queue, p) ELSE ext_queue
             /\ queue' = IF both THEN OffData(Off(queue, "IP", p), p) ELSE Off(queue, "IP", p)
    <3>1. PICK both \in BOOLEAN, told \in BOOLEAN, some \in BOOLEAN :
             /\ told => both
             /\ left(b(both, told, some)) /\ errors' = errors + 1
             /\ ext_queue' = IF some /\ ~dpr[p].alt THEN Append(ext_queue, p) ELSE ext_queue
             /\ queue' = IF both THEN OffData(Off(queue, "IP", p), p) ELSE Off(queue, "IP", p)
      BY <2>4
    <3>2. PICK r : r = b(both, told, some)
      OBVIOUS
    <3>3. left(r)
      BY <3>1, <3>2
    <3>4. IF dentry[d].handles <= 2 /\ r.reqs = {} /\ ~r.alt
          THEN dpr' = [dpr EXCEPT ![p] = NoDpr] /\ FreedDentry(d)
          ELSE dpr' = [dpr EXCEPT ![p] = r] /\ dentry' = dentry
      BY <2>2, <3>3
    <3>a. PICK n : n = IF both THEN {} ELSE dpr[p].reqs \ {"IP"}
      OBVIOUS
    <3>b. PICK al \in BOOLEAN : al <=> dpr[p].alt \/ some
      OBVIOUS
    <3>c. PICK er \in BOOLEAN : er <=> dpr[p].err \/ told
      OBVIOUS
    <3>d. dpr[p].alt \in BOOLEAN /\ dpr[p].err \in BOOLEAN /\ n \in SUBSET States
      BY <1>7, <3>a DEF DprStates
    <3>e. (dpr[p].alt \/ some) = al /\ (dpr[p].err \/ told) = er
      BY <3>b, <3>c
    <3>f. r = [dpr[p] EXCEPT !.reqs = n, !.alt = al, !.err = er]
      BY <3>2, <3>a, <3>e
    <3>g. r \in DprStates /\ r.live /\ r.file = d /\ r.reqs = n /\ r.alt = al /\ r.err = er
      BY <1>5, <1>7, <3>d, <3>f DEF DprStates
    <3>5. /\ r \in DprStates /\ r.live /\ r.file = d /\ r.reqs = (IF both THEN {} ELSE dpr[p].reqs \ {"IP"})
          /\ (r.alt <=> dpr[p].alt \/ some)
      BY <3>a, <3>b, <3>g
    <3>6. both \/ r.err = dpr[p].err
      BY <3>1, <3>c, <3>d, <3>g
    <3>7. errors' \in Nat
      BY <2>0, <3>1
    <3> HIDE DEF left, free, b
    <3>8. QED
      BY <3>1, <3>4, <3>5, <3>6, <3>7
  <2>5. QED
    BY <2>1, <2>3, <2>4
<1>11. /\ Queues(queue') /\ Beside(queue', p)
       /\ p \notin ToSet(queue'["IP"])
       /\ \A s \in DataStates : p \in ToSet(queue'[s]) <=> s \in dpr[p].reqs /\ ~both
  <2>1. PICK q : q = Off(queue, "IP", p)
    OBVIOUS
  <2>2. /\ Queues(q)
        /\ \A s \in States : \A o : o \in ToSet(q[s]) <=> o \in ToSet(queue[s]) /\ ~(s = "IP" /\ o = p)
    BY <1>5, <1>7, <2>1, OffIPIs
  <2>3. /\ Queues(OffData(q, p))
        /\ \A s \in States : \A o : o \in ToSet(OffData(q, p)[s]) <=> o \in ToSet(q[s]) /\ ~(s \in DataStates /\ o = p)
    BY <1>5, <2>2, OffDataIs
  <2>4. queue' = IF both THEN OffData(q, p) ELSE q
    BY <1>10, <2>1
  <2>5. /\ Queues(queue')
        /\ \A s \in States : \A o : o \in ToSet(queue'[s]) <=> o \in ToSet(q[s]) /\ ~(both /\ s \in DataStates /\ o = p)
    <3>1. CASE both
      BY <2>3, <2>4, <3>1
    <3>2. CASE ~both
      BY <2>2, <2>4, <3>2
    <3>3. QED
      BY <3>1, <3>2
  <2>6. Beside(queue', p)
    BY <2>2, <2>5 DEF Beside
  <2>7. p \notin ToSet(queue'["IP"])
    BY <1>4, <2>2, <2>5
  <2>8. ASSUME NEW s \in DataStates PROVE p \in ToSet(queue'[s]) <=> s \in dpr[p].reqs /\ ~both
    <3>1. (p \in ToSet(queue[s])) = (s \in dpr[p].reqs)
      BY <1>6, <1>9 DEF PrivOf
    <3>2. QED
      BY <1>4, <2>2, <2>5, <3>1
  <2>9. QED
    BY <2>5, <2>6, <2>7, <2>8
<1>12. /\ QueueOf(ext_queue') /\ \A o \in Dprs : o # p => (o \in ToSet(ext_queue') <=> o \in ToSet(ext_queue))
       /\ p \in ToSet(ext_queue') <=> dpr[p].alt \/ some
  BY <1>5, <1>6, <1>10, LinkedIs
<1>13. \A e \in Files, v \in Users : (user'[v].file = e) = (user[v].file = e)
  BY <1>3
<1>14. /\ dentry' \in [Files -> DentryStates] /\ HandlesCounted' /\ Alive' /\ Owned' /\ OnQueues' /\ Unwritten' /\ Claims'
       /\ dpr' \in [Dprs -> DprStates] /\ queue' \in [States -> Seq(Dprs)] /\ ext_queue' \in Seq(Dprs)
  <2>1. CASE dentry[d].handles <= 2 /\ r.reqs = {} /\ ~r.alt
    <3>1. dpr' = [dpr EXCEPT ![p] = NoDpr] /\ FreedDentry(d)
      BY <1>10, <2>1
    <3>2. p \notin ToSet(ext_queue')
      BY <1>10, <1>12, <2>1
    <3>3. \A s \in States : p \notin ToSet(queue'[s])
      <4>1. \A s \in DataStates : s \in dpr[p].reqs => both
        BY <1>4, <1>10, <2>1
      <4>2. QED
        BY <1>11, <4>1 DEF States, DataStates
    <3>4. QED
      BY <1>3, <1>5, <1>6, <1>9, <1>11, <1>12, <1>13, <3>1, <3>2, <3>3, FreedChanged
  <2>2. CASE ~(dentry[d].handles <= 2 /\ r.reqs = {} /\ ~r.alt)
    <3>1. dpr' = [dpr EXCEPT ![p] = r] /\ dentry' = dentry
      BY <1>10, <2>2
    <3>2. OneChanged(d, p, r)
      <4>1. \A e \in Files : dentry'[e].priv = IF e = d THEN (IF r.live THEN p ELSE None) ELSE dentry[e].priv
        BY <1>5, <1>10, <3>1
      <4>2. (p \in ToSet(ext_queue')) = r.alt
        <5>1. p \in ToSet(ext_queue') <=> r.alt
          BY <1>10, <1>12
        <5>2. r.alt \in BOOLEAN
          BY <1>10 DEF DprStates
        <5>3. QED
          BY <5>1, <5>2
      <4>3. (p \in ToSet(queue'["IP"])) = ("IP" \in r.reqs)
        BY <1>10, <1>11
      <4>4. \A s \in DataStates : (p \in ToSet(queue'[s])) = (s \in r.reqs /\ ~FlushedFile(d)')
        BY <1>4, <1>9, <1>10, <1>11
      <4>5. QED
        BY <1>5, <1>9, <1>10, <1>11, <1>12, <3>1, <4>1, <4>2, <4>3, <4>4 DEF OneChanged
    <3>3. r.reqs \cap DataStates # {} => r.reqs \cap DataStates \subseteq dpr[p].reqs /\ r.err = dpr[p].err
      BY <1>10
    <3>4. dentry' \in [Files -> DentryStates]
      BY <3>1 DEF FilesInv, SchedTypes
    <3>5. QED
      BY <1>3, <1>5, <1>6, <1>9, <1>10, <3>1, <3>2, <3>3, <3>4, BgTouched
  <2>3. QED
    BY <2>1, <2>2
<1>15. SchedTypes'
  BY <1>3, <1>10, <1>14 DEF FilesInv, SchedTypes
<1>16. LocksHeld'
  BY <1>3 DEF FilesInv, LocksHeld
<1>17. Finished'
  BY <1>3, <1>8 DEF FilesInv, Finished, AllFiles
<1>18. QED
  BY <1>14, <1>15, <1>16, <1>17 DEF FilesInv

-----------------------------------------------------------------------------
(* The invariant.                                                          *)

LEMMA FilesInitially == SchedInit => FilesInv
<1> SUFFICES ASSUME SchedInit PROVE FilesInv
  OBVIOUS
<1>1. PICK named \in SUBSET Files : dentry = [d \in Files |-> [Fresh EXCEPT !.matches = d \in named]]
  BY DEF SchedInit
<1>2. ASSUME NEW d \in Files
      PROVE  /\ dentry[d] \in DentryStates
             /\ dentry[d].alive = TRUE /\ dentry[d].linked = TRUE /\ dentry[d].handles = 1 /\ dentry[d].priv = None
  <2>1. PICK m \in BOOLEAN : m <=> d \in named
    OBVIOUS
  <2>2. (d \in named) = m
    BY <2>1
  <2>3. dentry[d] = [alive |-> TRUE, linked |-> TRUE, matches |-> m, handles |-> 1, priv |-> None]
    BY <1>1, <2>2 DEF Fresh
  <2>4. None \in Dprs \cup {None} /\ 1 \in Nat /\ TRUE \in BOOLEAN
    OBVIOUS
  <2>5. QED
    BY <2>3, <2>4 DEF DentryStates
<1>3. dentry \in [Files -> DentryStates]
  <2>1. \A d \in Files : dentry[d] \in DentryStates
    BY <1>2
  <2>2. QED
    BY <1>1, <2>1
<1>4. /\ dpr = [p \in Dprs |-> NoDpr] /\ queue = [s \in States |-> <<>>] /\ ext_queue = <<>>
      /\ opens = [u \in Users |-> {}] /\ dirty = [u \in Users |-> {}] /\ user = [u \in Users |-> Resting] /\ bg = Waits
      /\ stopping = FALSE /\ fault = "none" /\ acts = 0 /\ errors = 0
  BY DEF SchedInit
<1>5. NoDpr \in DprStates /\ Resting \in UserStates /\ Waits \in BgStates /\ <<>> \in Seq(Dprs)
  BY DEF NoDpr, DprStates, Resting, UserStates, Waits, BgStates
<1>6. SchedTypes
  <2>1. bg.at = "idle" /\ bg.dpr = None
    BY <1>4 DEF Waits
  <2>2. QED
    BY <1>3, <1>4, <1>5, <2>1 DEF SchedTypes
<1>7. HandlesCounted /\ Alive
  <2>1. ASSUME NEW d \in Files
        PROVE  {u \in Users : d \in opens[u]} = {} /\ {u \in Users : user[u].file = d} = {}
    BY <1>4, SchedAssumption DEF Resting
  <2>2. Cardinality({}) = 0
    BY FS_EmptySet
  <2>3. ASSUME NEW d \in Files
        PROVE  dentry[d].handles = One(dentry[d].linked) + One(dentry[d].priv # None)
                 + Cardinality({u \in Users : d \in opens[u]}) + Cardinality({u \in Users : user[u].file = d})
    <3>1. One(dentry[d].linked) = 1 /\ One(dentry[d].priv # None) = 0
      BY <1>2 DEF One
    <3>2. Cardinality({u \in Users : d \in opens[u]}) = 0 /\ Cardinality({u \in Users : user[u].file = d}) = 0
      BY <2>1, <2>2
    <3>3. dentry[d].handles = 1
      BY <1>2
    <3>4. QED
      BY <3>1, <3>2, <3>3
  <2>4. HandlesCounted
    BY <2>3 DEF HandlesCounted
  <2>5. ASSUME NEW d \in Files PROVE dentry[d].alive = (dentry[d].handles > 0)
    <3>1. dentry[d].handles = 1 /\ dentry[d].alive = TRUE
      BY <1>2
    <3>2. dentry[d].handles > 0
      BY <3>1
    <3>3. QED
      BY <3>1, <3>2
  <2>6. Alive
    BY <2>5 DEF Alive
  <2>7. QED
    BY <2>4, <2>6
<1>8. Owned
  <2>1. \A d \in Files : dentry[d].priv = None
    BY <1>2
  <2>2. \A p \in Dprs : dpr[p] = NoDpr /\ dpr[p].live = FALSE
    BY <1>4 DEF NoDpr
  <2>3. QED
    BY <2>1, <2>2 DEF Owned
<1>9. OnQueues
  <2>1. \A s \in States : queue[s] = <<>>
    BY <1>4
  <2>2. Once(<<>>) /\ ToSet(<<>>) = {}
    BY DEF Once, ToSet
  <2>3. ASSUME NEW p \in Dprs PROVE Placed(p)
    <3>1. dpr[p].reqs = {} /\ dpr[p].alt = FALSE
      BY <1>4 DEF NoDpr
    <3>2. \A s \in States : (p \in ToSet(queue[s])) = FALSE
      BY <2>1, <2>2
    <3>3. (p \in ToSet(ext_queue)) = FALSE
      BY <1>4, <2>2
    <3>4. "IP" \in States /\ DataStates \subseteq States
      BY DEF States, DataStates
    <3>5. (p \in ToSet(queue["IP"])) = ("IP" \in dpr[p].reqs)
      BY <3>1, <3>2, <3>4
    <3>6. ASSUME NEW s \in DataStates PROVE (p \in ToSet(queue[s])) = (s \in dpr[p].reqs /\ ~Flushing(p))
      BY <3>1, <3>2, <3>4
    <3>7. QED
      BY <3>1, <3>3, <3>5, <3>6 DEF Placed
  <2>4. QED
    BY <1>4, <2>1, <2>2, <2>3 DEF OnQueues
<1>10. Unwritten
  BY <1>4 DEF Unwritten, Carried, NoDpr
<1>11. LocksHeld /\ Claims
  BY <1>4 DEF LocksHeld, Claims, Claim, Resting, Waits, InClose, AllFiles
<1>12. Finished
  BY <1>4 DEF Finished, Resting, Waits
<1>13. QED
  BY <1>6, <1>7, <1>8, <1>9, <1>10, <1>11, <1>12 DEF FilesInv

LEMMA FilesStep == ASSUME FilesInv, ExtentsStay, [SchedNext]_schedVars PROVE FilesInv'
<1>1. CASE UNCHANGED schedVars
  <2>1. SchedTypes'
    BY <1>1 DEF schedVars, FilesInv, SchedTypes
  <2>2. HandlesCounted'
    BY <1>1 DEF schedVars, FilesInv, HandlesCounted
  <2>3. Alive'
    BY <1>1 DEF schedVars, FilesInv, Alive
  <2>4. Owned'
    BY <1>1 DEF schedVars, FilesInv, Owned
  <2>5. OnQueues'
    <3>1. \A p \in Dprs : Placed(p)' = Placed(p)
      BY <1>1 DEF schedVars, Placed, Flushing
    <3>2. QED
      BY <1>1, <3>1 DEF schedVars, FilesInv, OnQueues
  <2>6. Unwritten'
    <3>1. \A p \in Dprs : Carried(p)' = Carried(p)
      BY <1>1 DEF schedVars, Carried, FlushedFile
    <3>2. QED
      BY <1>1, <3>1 DEF schedVars, FilesInv, Unwritten
  <2>7. LocksHeld'
    BY <1>1 DEF schedVars, FilesInv, LocksHeld
  <2>8. Claims'
    BY <1>1 DEF schedVars, FilesInv, Claims, Claim
  <2>9. Finished'
    BY <1>1 DEF schedVars, FilesInv, Finished
  <2>10. QED
    BY <2>1, <2>2, <2>3, <2>4, <2>5, <2>6, <2>7, <2>8, <2>9 DEF FilesInv
<1>2. ASSUME NEW u \in Users, NEW d \in Files, Open(u, d) \/ Write(u, d) \/ Truncate(u, d) \/ Unlink(u, d) \/ Close(u, d)
      PROVE  FilesInv'
  BY <1>2, OpenInv, WriteInv, WriteFirstInv, TruncateInv, UnlinkInv, CloseInv
<1>3. ASSUME NEW u \in Users, Sync(u) \/ SyncOne(u) \/ Synced(u)
      PROVE  FilesInv'
  BY <1>3, SyncInv, SyncOneInv
<1>4. ASSUME NEW u \in Users, Place(u) \/ Put(u) \/ Flush(u) \/ Decide(u) \/ FreeDpr(u) \/ Leave(u)
      PROVE  FilesInv'
  BY <1>4, PlaceInv, PutInv, FlushInv, DecideInv, FreeDprInv, LeaveInv
<1>5. CASE WriterStep
  BY <1>5, BeginInv, PickInv, UseFreedInv, TakeInv, WriteTakenInv, TakenFailedInv, IndexOneInv, IndexDoneInv, FlushOneInv,
     DestroyOneInv, DestroyedInv DEF WriterStep
<1>6. QED
  BY <1>1, <1>2, <1>3, <1>4, <1>5, StopInv DEF SchedNext, UserStep

LEMMA FilesInvHolds == FilesInv => FilesHeld
<1> SUFFICES ASSUME FilesInv PROVE FilesHeld
  OBVIOUS
<1>1. fault # "dpr" /\ HandlesCounted
  BY DEF FilesInv, SchedTypes
<1>2. PrivsOwned
  <2>1. ASSUME NEW p \in Dprs, dpr[p].live
        PROVE  dentry[dpr[p].file].alive /\ dentry[dpr[p].file].priv = p
    <3>1. dpr[p].file \in Files /\ dentry[dpr[p].file].priv = p
      BY <2>1 DEF FilesInv, Owned
    <3>2. PICK d \in Files : d = dpr[p].file
      BY <3>1
    <3>3. /\ dentry[d].handles = HandlesAt(d) /\ Cardinality(OpenedBy(d)) \in Nat /\ Cardinality(CalledBy(d)) \in Nat
      BY Counts DEF FilesInv
    <3>4. One(dentry[d].priv # None) = 1 /\ One(dentry[d].linked) \in Nat
      BY <3>1, <3>2, Privs DEF FilesInv, One
    <3>5. dentry[d].handles > 0
      BY <3>3, <3>4 DEF HandlesAt
    <3>6. dentry[d].alive
      BY <3>5 DEF FilesInv, Alive
    <3>7. QED
      BY <3>1, <3>2, <3>6
  <2>2. QED
    BY <2>1 DEF FilesInv, Owned, PrivsOwned
<1>3. QueuesExact
  <2>1. ASSUME NEW p \in Dprs
        PROVE  /\ (p \in ToSet(ext_queue)) = dpr[p].alt
               /\ \A s \in States : (p \in ToSet(queue[s])) = (s \in dpr[p].reqs) \/ Flushing(p)
    BY DEF FilesInv, OnQueues, Placed, States, DataStates
  <2>2. QED
    BY <2>1 DEF QueuesExact, Flushing
<1>4. NothingLeft
  <2>1. QueueOf(ext_queue) /\ \A s \in States : QueueOf(queue[s])
    BY DEF FilesInv, SchedTypes, OnQueues, QueueOf
  <2>2. ASSUME NEW u \in Users, user[u].at = "flushed", NEW p \in Dprs
        PROVE  dpr[p].reqs \subseteq {"IP"}
    <3>1. ~Flushing(p)
      BY <2>2 DEF FilesInv, LocksHeld, AllFiles, InClose, Flushing
    <3>2. p \notin ToSet(queue["DP"]) /\ p \notin ToSet(queue["PARTIAL"])
      BY <2>1, <2>2, EmptyQueue DEF FilesInv, Finished, States
    <3>3. "DP" \notin dpr[p].reqs /\ "PARTIAL" \notin dpr[p].reqs
      BY <3>1, <3>2 DEF FilesInv, OnQueues, Placed, DataStates
    <3>4. dpr[p].reqs \in SUBSET States
      BY DEF FilesInv, SchedTypes, DprStates
    <3>5. QED
      BY <3>3, <3>4 DEF States
  <2>3. ASSUME bg.at = "gone", NEW p \in Dprs
        PROVE  dpr[p].reqs = {} /\ ~dpr[p].alt
    <3>1. queue["IP"] = <<>> /\ ext_queue = <<>> /\ \A v \in Users : user[v] = Resting /\ opens[v] = {}
      BY <2>3 DEF FilesInv, Finished
    <3>2. p \notin ToSet(queue["IP"]) /\ p \notin ToSet(ext_queue)
      BY <2>1, <3>1, EmptyQueue DEF States
    <3>3. "IP" \notin dpr[p].reqs /\ ~dpr[p].alt
      BY <3>2 DEF FilesInv, OnQueues, Placed
    <3>4. ~FlushedFile(dpr[p].file) /\ \A v \in Users : dirty[v] = {}
      BY <3>1 DEF FlushedFile, Resting, FilesInv, Unwritten
    <3>5. dpr[p].reqs \cap DataStates = {}
      BY <3>4 DEF FilesInv, Unwritten, Carried
    <3>6. dpr[p].reqs \in SUBSET States
      BY DEF FilesInv, SchedTypes, DprStates
    <3>7. QED
      BY <3>3, <3>5, <3>6 DEF States, DataStates
  <2>4. QED
    BY <2>2, <2>3 DEF NothingLeft
<1>5. QED
  BY <1>1, <1>2, <1>3, <1>4 DEF FilesHeld

\* For any users, files and structures, any number of calls and any write
\* errors, as long as no truncation takes an alternate extent: the handles of a
\* dentry are those counted, a dentry_priv belongs to one living dentry, is on
\* the queues its requests call for and on no other, and is never used after
\* it was freed; a flush of all files and an unmount leave nothing behind.
\* (unified.c:1411-1462, 1603-1705, 2067-2107)
THEOREM FilesAreHeld == ASSUME ExtentsStay PROVE SchedSpec => []FilesHeld
<1>1. SchedInit => FilesInv
  BY FilesInitially
<1>2. FilesInv /\ [SchedNext]_schedVars => FilesInv'
  BY FilesStep
<1>3. FilesInv => FilesHeld
  BY FilesInvHolds
<1>4. QED
  BY <1>1, <1>2, <1>3, PTL DEF SchedSpec
=============================================================================
