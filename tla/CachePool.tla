----------------------------- MODULE CachePool -----------------------------
(***************************************************************************)
(* The cache pool of iosched/cache_manager.c: a list of ready objects that *)
(* grows on demand up to max_capacity and shrinks again, as objects come   *)
(* back, to initial_capacity.  The callers hold cache_lock (unified.c), so *)
(* a call is one step; what an object holds is left out.                   *)
(***************************************************************************)
EXTENDS Integers, FiniteSets

CONSTANTS
  Objects,          \* names for the objects calloc returns
  InitialCapacity,
  MaxCapacity,
  MaxRefs           \* bound: references to one object

\* main.c refuses a pool of 0 MiB and min_pool_size > max_pool_size, and a tape
\* block is smaller than 1 MiB.
ASSUME CapacityAssumption ==
  /\ InitialCapacity \in Nat \ {0} /\ MaxCapacity \in Nat
  /\ InitialCapacity <= MaxCapacity
  /\ MaxRefs \in Nat

VARIABLES
  pool,              \* the ready objects
  refcount,          \* of the objects handed out; 0 for all others
  current_capacity

vars == <<pool, refcount, current_capacity>>

Held == {o \in Objects : refcount[o] > 0}
Unborn == Objects \ (pool \cup Held)

\* cache_manager_init, if there is memory for the initial objects.
Init ==
  /\ pool \in {S \in SUBSET Objects : IsFiniteSet(S) /\ Cardinality(S) = InitialCapacity}
  /\ refcount = [o \in Objects |-> 0]
  /\ current_capacity = InitialCapacity

\* A mutation: the limit is forgotten.
NewSizeUnlimited == 2 * current_capacity

\* The capacity a pool that has run dry grows to.
NewSize ==
  IF 2 * current_capacity < MaxCapacity
  THEN IF current_capacity # 0 THEN 2 * current_capacity ELSE MaxCapacity \div 2
  ELSE MaxCapacity

\* cache_manager_allocate_object, with a ready object.
AllocateReady ==
  \E o \in pool :
    /\ pool' = pool \ {o}
    /\ refcount' = [refcount EXCEPT ![o] = 1]
    /\ UNCHANGED current_capacity

\* Without one: up to NewSize objects are created, fewer when memory runs out,
\* and one of them is handed out.
AllocateGrow ==
  /\ pool = {} /\ current_capacity # MaxCapacity
  /\ \E new \in SUBSET Unborn :
       /\ IsFiniteSet(new)
       /\ Cardinality(new) \in 1..(NewSize - current_capacity)
       /\ current_capacity' = current_capacity + Cardinality(new)
       /\ \E o \in new :
            /\ pool' = new \ {o}
            /\ refcount' = [refcount EXCEPT ![o] = 1]

GetObject(o) ==
  /\ refcount[o] \in 1..(MaxRefs - 1)
  /\ refcount' = [refcount EXCEPT ![o] = @ + 1]
  /\ UNCHANGED <<pool, current_capacity>>

\* A mutation: the object goes, the capacity stays.
FreeObjectUncounted(o) ==
  /\ refcount[o] > 0
  /\ refcount' = [refcount EXCEPT ![o] = @ - 1]
  /\ pool' = IF refcount[o] = 1 /\ current_capacity <= InitialCapacity
             THEN pool \cup {o} ELSE pool
  /\ UNCHANGED current_capacity

\* cache_manager_free_object.
FreeObject(o) ==
  /\ refcount[o] > 0
  /\ refcount' = [refcount EXCEPT ![o] = @ - 1]
  /\ IF refcount[o] > 1
     THEN UNCHANGED <<pool, current_capacity>>
     ELSE IF current_capacity > InitialCapacity
     THEN UNCHANGED pool /\ current_capacity' = current_capacity - 1
     ELSE UNCHANGED current_capacity /\ pool' = pool \cup {o}

Next ==
  \/ AllocateReady \/ AllocateGrow
  \/ \E o \in Objects : GetObject(o) \/ FreeObject(o)

Spec == Init /\ [][Next]_vars

-----------------------------------------------------------------------------
\* The type invariant: what current_capacity, the ready list and the reference
\* counts of cache_manager.c can hold.
TypeOK ==
  /\ pool \subseteq Objects /\ IsFiniteSet(pool)
  /\ refcount \in [Objects -> Nat] /\ IsFiniteSet(Held)
  /\ current_capacity \in Nat

\* current_capacity counts the objects there are, ready and handed out, through
\* every growth (a failed one included) and shrinkage, and no object is both.
CapacityExact ==
  /\ pool \cap Held = {}
  /\ current_capacity = Cardinality(pool) + Cardinality(Held)
  /\ current_capacity \in InitialCapacity..MaxCapacity

\* The invariant the proofs rest on: the pool of cache_manager.c is well formed
\* and its capacity is the number of objects there are.
IInv == TypeOK /\ CapacityExact

\* cache_manager_allocate_object gives NULL only "if out of memory or if the
\* high water mark for this pool has been reached": with fewer objects handed
\* out than that, one is ready or the pool may grow.
Available ==
  Cardinality(Held) < MaxCapacity =>
    pool # {} \/ (current_capacity # MaxCapacity /\ NewSize > current_capacity)

\* The capacity is what there is, and nobody below the high water mark is refused,
\* whatever allocations of memory failed before. (cache_manager.c:206-257)
PoolServes == IInv /\ Available

\* The pool is a counter of blocks for its users: a block is taken or given at
\* a time, never more than max_capacity of them.
Counter == INSTANCE BlockPool WITH Blocks <- MaxCapacity, taken <- Cardinality(Held)

CountsBlocks == Counter!BPSpec
=============================================================================
