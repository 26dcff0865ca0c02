---------------------------- MODULE RequestProofs ----------------------------
(***************************************************************************)
(* What the FUSE front end, the attributes of the volume and the path        *)
(* operations promise.                                                     *)
(*                                                                         *)
(* FUSE front end, for any threads, handles and dentries: references and     *)
(* the table of open files agree with the handles FUSE has, and where an     *)
(* index that is clean differs from the files, a step that sets no dirty     *)
(* flag is on the way. A readlink into a small buffer keeps its reference,   *)
(* which is left out.                                                      *)
(*                                                                         *)
(* Attributes, for any users and texts: the copies of the lock state agree   *)
(* where no failed update is between them, a clean index is the one on       *)
(* tape, and a write error and a permanent lock stay.                        *)
(*                                                                         *)
(* Path operations, for any threads, dentries, names and workloads: which    *)
(* locks a request has follows from where it stands and which count it is    *)
(* changing.  So none is kept; and no list or count changes without its      *)
(* lock, nor is a lock released by another thread, until an unlink that      *)
(* leaves without the meta_lock of the parent meets somebody who has it.     *)
(***************************************************************************)
EXTENDS Namespace, FuseFront, VolumeXattr, FiniteSetTheorems, TLAPS

-----------------------------------------------------------------------------
(* The inductive invariant.                                                *)

\* Where a request is: on a path, on a handle, or letting the handle go; the
\* reference of the handle is given back first.
OnPath == {"opened", "created", "close", "symlink", "getattr", "utimens", "readonly", "truncate", "readlink"}
Using == {"wrote", "marked", "flush", "clean", "reset"}
Closing == {"sync", "forget"}
Away == {"release"} \cup Closing

Requests ==
  [pc : OnPath, h : {0}, d : Addresses, w : BOOLEAN]
  \cup [pc : {"wrote", "marked"}, h : Handles, d : Addresses, n : Nat]
  \cup [pc : {"flush", "clean", "reset"}, h : Handles, d : Addresses, sync : BOOLEAN, must : SUBSET Nat]
  \cup [pc : Away, h : Handles, d : Addresses, dirty : BOOLEAN, sync : BOOLEAN]
LiveDentries ==
  [linked : BOOLEAN, refs : Nat, isdir : BOOLEAN, isslink : BOOLEAN, target : BOOLEAN,
   openforwrite : BOOLEAN, meta : Nat, mtime : Nat, pending : SUBSET Nat]
OpenHandles == [dentry : Addresses, dirty : BOOLEAN, w : BOOLEAN, acked : SUBSET Nat]
Entries == [open_count : Nat \ {0}, write_index : BOOLEAN]

IsIndex(i) == i \in [dirty : BOOLEAN, saved : {i.saved}]

FrontTypes ==
  /\ den \in [Addresses -> {Freed} \cup LiveDentries]
  /\ table \in [Addresses -> {NoEntry} \cup Entries]
  /\ hnd \in [Handles -> {NoHandle} \cup OpenHandles]
  /\ th \in [FuseThreads -> {NoRequest} \cup Requests]
  /\ IsIndex(index)
  /\ written \in Nat /\ offered \in FrontScenarios

\* A request on a handle has it open, and one that lets it go is alone with it.
HandlesServed ==
  /\ \A t \in FuseThreads : th[t].pc \in Using \cup Away => Opened(th[t].h) /\ On(th[t].h) = th[t].d
  /\ \A t, u \in FuseThreads : t # u /\ th[t].pc \in Away /\ th[u].pc \in Using \cup Away => th[u].h # th[t].h

HeldOf(d) == {h \in Handles : Opened(h) /\ On(h) = d /\ ~\E t \in FuseThreads : th[t].pc \in Closing /\ th[t].h = h}
UsedOf(d) == {t \in FuseThreads : th[t].pc \in OnPath /\ th[t].d = d}
OpenOf(d) == {h \in Handles : Opened(h) /\ On(h) = d}
CountsMatch ==
  \A d \in Addresses : /\ den[d].refs = Cardinality(HeldOf(d)) + Cardinality(UsedOf(d))
                       /\ table[d].open_count = Cardinality(OpenOf(d))

FrontInv == FrontTypes /\ HandlesServed /\ CountsMatch

-----------------------------------------------------------------------------
(* Requests, handles and dentries.                                         *)

LEMMA RequestShape ==
  ASSUME FrontTypes, NEW t \in FuseThreads
  PROVE  /\ th[t] = NoRequest <=> th[t].pc = "idle"
         /\ th[t] \notin Requests => th[t] = NoRequest
         /\ th[t].pc \in OnPath => th[t].h = 0 /\ th[t].d \in Addresses /\ th[t].w \in BOOLEAN
         /\ th[t].pc \in Using \cup Away => th[t].h \in Handles /\ th[t].d \in Addresses
         /\ th[t].pc \in {"wrote", "marked"} => th[t].n \in Nat
         /\ th[t].pc \in {"flush", "clean", "reset"} \cup Away => th[t].sync \in BOOLEAN
         /\ th[t].pc \in Away => th[t].dirty \in BOOLEAN
         /\ th[t].pc \in {"idle"} \cup OnPath \cup Using \cup Away
<1>1. th[t] \in {NoRequest} \cup Requests
  BY DEF FrontTypes
<1>2. CASE th[t] = NoRequest
  BY <1>2 DEF NoRequest, OnPath, Using, Away, Closing
<1>3. CASE th[t] \in [pc : OnPath, h : {0}, d : Addresses, w : BOOLEAN]
  BY <1>3 DEF NoRequest, OnPath, Using, Away, Closing, Requests
<1>4. CASE th[t] \in [pc : {"wrote", "marked"}, h : Handles, d : Addresses, n : Nat]
  BY <1>4 DEF NoRequest, OnPath, Using, Away, Closing, Requests
<1>5. CASE th[t] \in [pc : {"flush", "clean", "reset"}, h : Handles, d : Addresses, sync : BOOLEAN, must : SUBSET Nat]
  BY <1>5 DEF NoRequest, OnPath, Using, Away, Closing, Requests
<1>6. CASE th[t] \in [pc : Away, h : Handles, d : Addresses, dirty : BOOLEAN, sync : BOOLEAN]
  BY <1>6 DEF NoRequest, OnPath, Using, Away, Closing, Requests
<1>7. QED
  BY <1>1, <1>2, <1>3, <1>4, <1>5, <1>6 DEF Requests

\* A request that goes on to its next step.
LEMMA GotoShape ==
  ASSUME FrontTypes, NEW t \in FuseThreads, NEW pc, Goto(t, pc),
         \/ th[t].pc \in OnPath /\ pc \in OnPath
         \/ th[t].pc \in {"wrote", "marked"} /\ pc \in {"wrote", "marked"}
         \/ th[t].pc \in {"flush", "clean", "reset"} /\ pc \in {"flush", "clean", "reset"}
         \/ th[t].pc \in Away /\ pc \in Away
  PROVE  \E r \in Requests :
           /\ th' = [th EXCEPT ![t] = r] /\ r.pc = pc /\ r.h = th[t].h /\ r.d = th[t].d
           /\ pc \in Using \cup Away /\ pc \notin {"wrote", "marked"} => r.sync = th[t].sync
<1> DEFINE r == [th[t] EXCEPT !.pc = pc]
<1>1. th' = [th EXCEPT ![t] = r]
  BY DEF Goto
<1>2. th[t] \in {NoRequest} \cup Requests
  BY DEF FrontTypes
<1>3. CASE th[t] \in [pc : OnPath, h : {0}, d : Addresses, w : BOOLEAN]
  <2>1. pc \in OnPath
    BY <1>3 DEF OnPath, Away, Closing
  <2>2. r \in [pc : OnPath, h : {0}, d : Addresses, w : BOOLEAN] /\ r.pc = pc /\ r.h = th[t].h /\ r.d = th[t].d
    BY <1>3, <2>1
  <2>3. QED
    BY <1>1, <2>1, <2>2 DEF Requests, OnPath, Using, Away, Closing
<1>4. CASE th[t] \in [pc : {"wrote", "marked"}, h : Handles, d : Addresses, n : Nat]
  <2>1. pc \in {"wrote", "marked"}
    BY <1>4 DEF OnPath, Away, Closing
  <2>2. r \in [pc : {"wrote", "marked"}, h : Handles, d : Addresses, n : Nat] /\ r.pc = pc /\ r.h = th[t].h /\ r.d = th[t].d
    BY <1>4, <2>1
  <2>3. QED
    BY <1>1, <2>1, <2>2 DEF Requests
<1>5. CASE th[t] \in [pc : {"flush", "clean", "reset"}, h : Handles, d : Addresses, sync : BOOLEAN, must : SUBSET Nat]
  <2>1. pc \in {"flush", "clean", "reset"}
    BY <1>5 DEF OnPath, Away, Closing
  <2>2. /\ r \in [pc : {"flush", "clean", "reset"}, h : Handles, d : Addresses, sync : BOOLEAN, must : SUBSET Nat]
        /\ r.pc = pc /\ r.h = th[t].h /\ r.d = th[t].d /\ r.sync = th[t].sync
    BY <1>5, <2>1
  <2>3. QED
    BY <1>1, <2>1, <2>2 DEF Requests
<1>6. CASE th[t] \in [pc : Away, h : Handles, d : Addresses, dirty : BOOLEAN, sync : BOOLEAN]
  <2>1. pc \in Away
    BY <1>6 DEF OnPath, Away, Closing
  <2>2. /\ r \in [pc : Away, h : Handles, d : Addresses, dirty : BOOLEAN, sync : BOOLEAN]
        /\ r.pc = pc /\ r.h = th[t].h /\ r.d = th[t].d /\ r.sync = th[t].sync
    BY <1>6, <2>1
  <2>3. QED
    BY <1>1, <2>1, <2>2 DEF Requests
<1>7. CASE th[t] = NoRequest
  BY <1>7 DEF NoRequest, OnPath, Away, Closing
<1>8. QED
  BY <1>2, <1>3, <1>4, <1>5, <1>6, <1>7 DEF Requests

LEMMA HandleShape ==
  ASSUME FrontTypes, NEW h \in Handles
  PROVE  /\ Opened(h) <=> hnd[h] \in OpenHandles
         /\ Opened(h) => On(h) \in Addresses
         /\ NoHandle \notin OpenHandles
<1>1. hnd[h] \in {NoHandle} \cup OpenHandles
  BY DEF FrontTypes
<1>2. \A r \in OpenHandles : r.dentry \in Addresses
  BY DEF OpenHandles
<1>3. NoHandle.dentry \notin Addresses
  BY FrontAssumption DEF NoHandle
<1>4. QED
  BY <1>1, <1>2, <1>3 DEF Opened, On

LEMMA DentryShape ==
  ASSUME FrontTypes, NEW d \in Addresses
  PROVE  /\ den[d].refs \in Nat /\ den[d].linked \in BOOLEAN
         /\ InMemory(d) => den[d] \in LiveDentries
         /\ Linked(d) => den[d] \in LiveDentries
         /\ den[d].refs # 0 => den[d] \in LiveDentries
<1>1. den[d] \in {Freed} \cup LiveDentries
  BY DEF FrontTypes
<1>2. CASE den[d] = Freed
  BY <1>2 DEF Freed, InMemory, Linked
<1>3. CASE den[d] \in LiveDentries
  BY <1>3 DEF LiveDentries
<1>4. QED
  BY <1>1, <1>2, <1>3

\* What may happen to the files without an index that was true becoming false.
SameTold(e, g) == \A x \in Addresses :
  /\ g[x].linked <=> e[x].linked
  /\ e[x].linked => /\ g[x].meta = e[x].meta
                    /\ g[x].pending = {} => e[x].pending = {} /\ g[x].mtime = e[x].mtime
                    /\ (e[x].isslink => g[x].isslink) /\ (e[x].target => g[x].target)

LEMMA StaysTrue ==
  ASSUME NEW saved, NEW e, NEW g, IsTrueOf(saved, e), SameTold(e, g)
  PROVE  IsTrueOf(saved, g)
<1>1. {x \in Addresses : g[x].linked} = {x \in Addresses : e[x].linked}
  BY DEF SameTold
<1>2. \A s \in saved : s.file \in Addresses /\ e[s.file].linked
  BY DEF IsTrueOf
<1>3. QED
  BY <1>1, <1>2 DEF IsTrueOf, SameTold

\* An index that is written now is true.
LEMMA WrittenIsTrue ==
  ASSUME NEW e
  PROVE  IsTrueOf(Content(e), e)
<1>1. \A d \in Addresses : /\ Told(e, d).file = d /\ Told(e, d).meta = e[d].meta /\ Told(e, d).mtime = e[d].mtime
                          /\ Told(e, d).isslink = e[d].isslink /\ Told(e, d).target = e[d].target
  BY DEF Told
<1>2. \A s \in Content(e) : \E d \in Addresses : e[d].linked /\ s = Told(e, d)
  BY DEF Content
<1>3. {s.file : s \in Content(e)} = {d \in Addresses : e[d].linked}
  BY <1>1 DEF Content
<1>4. QED
  BY <1>1, <1>2, <1>3 DEF IsTrueOf

\* Giving a reference back.
LEMMA DroppedRefs ==
  ASSUME NEW e \in [Addresses -> {Freed} \cup LiveDentries], NEW d \in Addresses, e[d].refs # 0
  PROVE  /\ Dropped(d, e) \in [Addresses -> {Freed} \cup LiveDentries]
         /\ e[d].refs \in Nat /\ Dropped(d, e)[d].refs = e[d].refs - 1
         /\ \A x \in Addresses : x # d => Dropped(d, e)[x] = e[x]
         /\ SameTold(e, Dropped(d, e))
<1> DEFINE r == IF e[d].refs = 1 /\ ~e[d].linked THEN Freed ELSE [e[d] EXCEPT !.refs = e[d].refs - 1]
<1>1. e[d] \in LiveDentries
  BY DEF Freed
<1>2. Dropped(d, e) = [e EXCEPT ![d] = r]
  BY DEF Dropped
<1>3. CASE e[d].refs = 1 /\ ~e[d].linked
  <2>1. r = Freed
    BY <1>3
  <2>2. r \in {Freed} \cup LiveDentries /\ r.refs = e[d].refs - 1 /\ ~r.linked
    BY <1>3, <2>1 DEF Freed
  <2> HIDE DEF r
  <2>3. Dropped(d, e)[d] = r /\ \A x \in Addresses : x # d => Dropped(d, e)[x] = e[x]
    BY <1>2
  <2>4. SameTold(e, Dropped(d, e))
    BY <1>3, <2>2, <2>3 DEF SameTold
  <2>5. QED
    BY <1>1, <1>2, <2>2, <2>3, <2>4 DEF LiveDentries
<1>4. CASE ~(e[d].refs = 1 /\ ~e[d].linked)
  <2>1. r = [e[d] EXCEPT !.refs = e[d].refs - 1]
    BY <1>4
  <2>2. /\ r \in LiveDentries /\ r.refs = e[d].refs - 1 /\ r.linked = e[d].linked
        /\ r.meta = e[d].meta /\ r.isslink = e[d].isslink /\ r.target = e[d].target
        /\ r.mtime = e[d].mtime /\ r.pending = e[d].pending
    BY <1>1, <2>1 DEF LiveDentries
  <2> HIDE DEF r
  <2>3. Dropped(d, e)[d] = r /\ \A x \in Addresses : x # d => Dropped(d, e)[x] = e[x]
    BY <1>2
  <2>4. SameTold(e, Dropped(d, e))
    BY <2>2, <2>3 DEF SameTold
  <2>5. QED
    BY <1>1, <1>2, <2>2, <2>3, <2>4 DEF LiveDentries
<1>5. QED
  BY <1>3, <1>4

\* Taking one, and what a flush does.
LEMMA TakenRefs ==
  ASSUME FrontTypes, NEW d \in Addresses, Linked(d), NEW w \in BOOLEAN
  PROVE  /\ Taken(d, w) \in [Addresses -> {Freed} \cup LiveDentries]
         /\ Taken(d, w)[d].refs = den[d].refs + 1
         /\ \A x \in Addresses : x # d => Taken(d, w)[x] = den[x]
         /\ SameTold(den, Taken(d, w))
<1>1. den[d] \in LiveDentries /\ den \in [Addresses -> {Freed} \cup LiveDentries]
  BY DentryShape DEF FrontTypes
<1> DEFINE b == den[d].openforwrite \/ (w /\ ~den[d].isdir)
           r == [den[d] EXCEPT !.refs = den[d].refs + 1, !.openforwrite = b]
<1>2. Taken(d, w) = [den EXCEPT ![d] = r]
  BY <1>1 DEF Taken, LiveDentries
<1>b. b \in BOOLEAN
  OBVIOUS
<1>m. den[d].refs + 1 \in Nat
  BY <1>1 DEF LiveDentries
<1> HIDE DEF b
<1>3. /\ r \in LiveDentries /\ r.refs = den[d].refs + 1 /\ r.linked = den[d].linked
      /\ r.meta = den[d].meta /\ r.isslink = den[d].isslink /\ r.target = den[d].target
      /\ r.mtime = den[d].mtime /\ r.pending = den[d].pending
  BY <1>1, <1>b, <1>m DEF LiveDentries
<1> HIDE DEF r
<1>4. Taken(d, w)[d] = r /\ \A x \in Addresses : x # d => Taken(d, w)[x] = den[x]
  BY <1>1, <1>2
<1>5. SameTold(den, Taken(d, w))
  BY <1>3, <1>4 DEF SameTold
<1>6. QED
  BY <1>1, <1>2, <1>3, <1>4, <1>5

LEMMA FlushedRefs ==
  ASSUME FrontTypes, NEW d \in Addresses
  PROVE  /\ Flushed(d, den) \in [Addresses -> {Freed} \cup LiveDentries]
         /\ \A x \in Addresses : Flushed(d, den)[x].refs = den[x].refs /\ (x # d => Flushed(d, den)[x] = den[x])
         /\ ~(InMemory(d) /\ den[d].pending # {}) => Flushed(d, den) = den
<1>1. den \in [Addresses -> {Freed} \cup LiveDentries]
  BY DEF FrontTypes
<1>2. CASE ~(InMemory(d) /\ den[d].pending # {})
  <2>1. Flushed(d, den) = [den EXCEPT ![d] = den[d]]
    BY <1>2 DEF Flushed
  <2>2. Flushed(d, den) = den
    BY <1>1, <2>1
  <2>3. QED
    BY <1>1, <2>2
<1>3. CASE InMemory(d) /\ den[d].pending # {}
  <2> DEFINE r == [den[d] EXCEPT !.pending = {}, !.meta = den[d].meta + 1]
  <2> DEFINE c == IF ~InMemory(d) \/ den[d].pending = {} THEN den[d] ELSE r
  <2>1. Flushed(d, den) = [den EXCEPT ![d] = c]
    BY DEF Flushed
  <2>c. c = r
    BY <1>3
  <2>2. den[d] \in LiveDentries
    BY <1>3, DentryShape
  <2>m. den[d].meta + 1 \in Nat /\ {} \in SUBSET Nat
    BY <2>2 DEF LiveDentries
  <2>3. r \in LiveDentries /\ r.refs = den[d].refs
    BY <2>2, <2>m DEF LiveDentries
  <2> HIDE DEF c
  <2> HIDE DEF r
  <2>4. QED
    BY <1>1, <1>3, <2>1, <2>3, <2>c
<1>4. QED
  BY <1>2, <1>3

-----------------------------------------------------------------------------
(* Counting.                                                               *)

LEMMA Counting ==
  ASSUME NEW S, S \subseteq Handles \/ S \subseteq FuseThreads
  PROVE  /\ IsFiniteSet(S) /\ Cardinality(S) \in Nat
         /\ \A x \in S : Cardinality(S) # 0 /\ Cardinality(S \ {x}) = Cardinality(S) - 1
         /\ \A x : x \notin S => Cardinality(S \cup {x}) = Cardinality(S) + 1
<1>1. IsFiniteSet(S)
  BY FrontAssumption, FS_Subset
<1>2. Cardinality(S) \in Nat
  BY <1>1, FS_CardinalityType
<1>3. \A x \in S : Cardinality(S) # 0
  BY <1>1, FS_EmptySet
<1>4. QED
  BY <1>1, <1>2, <1>3, FS_AddElement, FS_RemoveElement

\* What a request or a handle works on is there.
LEMMA PathLive ==
  ASSUME FrontInv, NEW t \in FuseThreads, th[t].pc \in OnPath
  PROVE  th[t].d \in Addresses /\ den[th[t].d].refs # 0 /\ den[th[t].d] \in LiveDentries
<1>1. th[t].d \in Addresses
  BY RequestShape DEF FrontInv
<1>2. t \in UsedOf(th[t].d) /\ UsedOf(th[t].d) \subseteq FuseThreads /\ HeldOf(th[t].d) \subseteq Handles
  BY DEF UsedOf, HeldOf
<1>3. Cardinality(UsedOf(th[t].d)) \in Nat \ {0} /\ Cardinality(HeldOf(th[t].d)) \in Nat
  BY <1>2, Counting
<1>4. den[th[t].d].refs # 0
  BY <1>1, <1>3 DEF FrontInv, CountsMatch
<1>5. QED
  BY <1>1, <1>4, DentryShape DEF FrontInv

LEMMA HandleLive ==
  ASSUME FrontInv, NEW h \in Handles, Opened(h)
  PROVE  /\ On(h) \in Addresses
         /\ table[On(h)] \in Entries
         /\ (\A u \in FuseThreads : th[u].pc \in Closing => th[u].h # h) =>
              h \in HeldOf(On(h)) /\ den[On(h)].refs # 0 /\ den[On(h)] \in LiveDentries
<1>1. On(h) \in Addresses
  BY HandleShape DEF FrontInv
<1>2. h \in OpenOf(On(h)) /\ OpenOf(On(h)) \subseteq Handles
  BY DEF OpenOf
<1>3. Cardinality(OpenOf(On(h))) # 0
  BY <1>2, Counting
<1>4. table[On(h)] \in Entries
  BY <1>1, <1>3 DEF FrontInv, CountsMatch, FrontTypes, NoEntry
<1>5. ASSUME \A u \in FuseThreads : th[u].pc \in Closing => th[u].h # h
      PROVE  h \in HeldOf(On(h)) /\ den[On(h)].refs # 0 /\ den[On(h)] \in LiveDentries
  <2>1. h \in HeldOf(On(h)) /\ HeldOf(On(h)) \subseteq Handles /\ UsedOf(On(h)) \subseteq FuseThreads
    BY <1>5 DEF HeldOf, UsedOf
  <2>2. Cardinality(HeldOf(On(h))) \in Nat \ {0} /\ Cardinality(UsedOf(On(h))) \in Nat
    BY <2>1, Counting
  <2>3. den[On(h)].refs # 0
    BY <1>1, <2>2 DEF FrontInv, CountsMatch
  <2>4. QED
    BY <1>1, <2>1, <2>3, DentryShape DEF FrontInv
<1>6. QED
  BY <1>1, <1>4, <1>5

\* A request on a handle finds its dentry.
LEMMA UsingLive ==
  ASSUME FrontInv, NEW t \in FuseThreads, th[t].pc \in Using \cup {"release"}
  PROVE  /\ th[t].h \in Handles /\ Opened(th[t].h) /\ On(th[t].h) = th[t].d /\ th[t].h \in HeldOf(th[t].d)
         /\ th[t].d \in Addresses /\ den[th[t].d].refs # 0 /\ den[th[t].d] \in LiveDentries
         /\ table[th[t].d] \in Entries
<1>1. th[t].h \in Handles /\ Opened(th[t].h) /\ On(th[t].h) = th[t].d
  BY RequestShape DEF FrontInv, HandlesServed, Away
<1>2. ASSUME NEW u \in FuseThreads, th[u].pc \in Closing
      PROVE  th[u].h # th[t].h
  <2>1. u # t
    BY <1>2 DEF Using, Closing
  <2>2. QED
    BY <1>2, <2>1 DEF FrontInv, HandlesServed, Away
<1>3. QED
  BY <1>1, <1>2, HandleLive

-----------------------------------------------------------------------------
(* Steps, by what they do to references.                                   *)

\* The requests of the other threads, and the handles they have open, are as they were.
Others(t) == \A u \in FuseThreads : u # t => th'[u] = th[u]
SameHandles == \A h \in Handles : Opened(h)' = Opened(h) /\ (Opened(h) => On(h)' = On(h))
SameEntries == \A d \in Addresses : table'[d].open_count = table[d].open_count
SameRefs == \A d \in Addresses : den'[d].refs = den[d].refs

\* A request that keeps what it has: the references stay.
LEMMA QuietStep ==
  ASSUME FrontInv, NEW t \in FuseThreads, Others(t), SameHandles, SameEntries, SameRefs,
         th'[t].pc \in OnPath <=> th[t].pc \in OnPath,
         th[t].pc \in OnPath => th'[t].d = th[t].d,
         th'[t].pc \in Closing <=> th[t].pc \in Closing,
         th[t].pc \in Closing => th'[t].h = th[t].h
  PROVE  CountsMatch'
<1> SUFFICES ASSUME NEW d \in Addresses
             PROVE  /\ den'[d].refs = Cardinality(HeldOf(d)') + Cardinality(UsedOf(d)')
                    /\ table'[d].open_count = Cardinality(OpenOf(d)')
  BY DEF CountsMatch
<1>1. \A u \in FuseThreads : (th'[u].pc \in OnPath /\ th'[u].d = d) <=> (th[u].pc \in OnPath /\ th[u].d = d)
  BY DEF Others
<1>2. UsedOf(d)' = UsedOf(d)
  BY <1>1 DEF UsedOf
<1>3. \A u \in FuseThreads, h \in Handles : (th'[u].pc \in Closing /\ th'[u].h = h) <=> (th[u].pc \in Closing /\ th[u].h = h)
  BY DEF Others
<1>4. HeldOf(d)' = HeldOf(d)
  BY <1>3 DEF HeldOf, SameHandles
<1>5. OpenOf(d)' = OpenOf(d)
  BY DEF OpenOf, SameHandles
<1>6. QED
  BY <1>2, <1>4, <1>5 DEF FrontInv, CountsMatch, SameEntries, SameRefs

\* A request begins on a path, and its reference is counted.
LEMMA TakesStep ==
  ASSUME FrontInv, NEW t \in FuseThreads, NEW d \in Addresses, Others(t), SameHandles, SameEntries,
         th[t] = NoRequest, th'[t].pc \in OnPath, th'[t].d = d,
         den'[d].refs = den[d].refs + 1,
         \A x \in Addresses : x # d => den'[x] = den[x]
  PROVE  CountsMatch' /\ HandlesServed'
<1>0. th[t].pc = "idle"
  BY DEF NoRequest
<1>1. ASSUME NEW x \in Addresses
      PROVE  /\ den'[x].refs = Cardinality(HeldOf(x)') + Cardinality(UsedOf(x)')
             /\ table'[x].open_count = Cardinality(OpenOf(x)')
  <2>1. \A u \in FuseThreads, h \in Handles : (th'[u].pc \in Closing /\ th'[u].h = h) <=> (th[u].pc \in Closing /\ th[u].h = h)
    BY <1>0 DEF Others, OnPath, Closing
  <2>2. HeldOf(x)' = HeldOf(x) /\ OpenOf(x)' = OpenOf(x)
    BY <2>1 DEF HeldOf, OpenOf, SameHandles
  <2>3. HeldOf(x) \subseteq Handles /\ UsedOf(x) \subseteq FuseThreads
    BY DEF HeldOf, UsedOf
  <2>4. Cardinality(HeldOf(x)) \in Nat /\ Cardinality(UsedOf(x)) \in Nat
    BY <2>3, Counting
  <2>5. CASE x = d
    <3>1. t \notin UsedOf(d) /\ UsedOf(d)' = UsedOf(d) \cup {t}
      BY <1>0 DEF UsedOf, Others, OnPath
    <3>2. Cardinality(UsedOf(d) \cup {t}) = Cardinality(UsedOf(d)) + 1
      BY <2>3, <2>5, <3>1, Counting
    <3>3. QED
      BY <2>2, <2>4, <2>5, <3>1, <3>2 DEF FrontInv, CountsMatch, SameEntries
  <2>6. CASE x # d
    <3>1. UsedOf(x)' = UsedOf(x)
      BY <1>0, <2>6 DEF UsedOf, Others, OnPath
    <3>2. QED
      BY <2>2, <2>6, <3>1 DEF FrontInv, CountsMatch, SameEntries
  <2>7. QED
    BY <2>5, <2>6
<1>2. th'[t].pc \notin Using \cup Away
  BY DEF OnPath, Using, Away, Closing
<1>3. HandlesServed'
  <2>1. ASSUME NEW u \in FuseThreads, th'[u].pc \in Using \cup Away
        PROVE  u # t /\ th'[u] = th[u] /\ Opened(th[u].h)' /\ On(th[u].h)' = th[u].d
    BY <1>2, <2>1, RequestShape DEF FrontInv, HandlesServed, Others, SameHandles
  <2>2. QED
    BY <2>1 DEF FrontInv, HandlesServed
<1>4. QED
  BY <1>1, <1>3 DEF CountsMatch

\* It ends, and gives its reference back.
LEMMA DropsStep ==
  ASSUME FrontInv, NEW t \in FuseThreads, Others(t), SameHandles, SameEntries,
         th[t].pc \in OnPath, th'[t] = NoRequest,
         den'[th[t].d].refs = den[th[t].d].refs - 1,
         \A x \in Addresses : x # th[t].d => den'[x] = den[x]
  PROVE  CountsMatch' /\ HandlesServed'
<1>0. th'[t].pc = "idle"
  BY DEF NoRequest
<1> DEFINE d == th[t].d
<1>1. ASSUME NEW x \in Addresses
      PROVE  /\ den'[x].refs = Cardinality(HeldOf(x)') + Cardinality(UsedOf(x)')
             /\ table'[x].open_count = Cardinality(OpenOf(x)')
  <2>1. \A u \in FuseThreads, h \in Handles : (th'[u].pc \in Closing /\ th'[u].h = h) <=> (th[u].pc \in Closing /\ th[u].h = h)
    BY <1>0 DEF Others, OnPath, Closing
  <2>2. HeldOf(x)' = HeldOf(x) /\ OpenOf(x)' = OpenOf(x)
    BY <2>1 DEF HeldOf, OpenOf, SameHandles
  <2>3. HeldOf(x) \subseteq Handles /\ UsedOf(x) \subseteq FuseThreads
    BY DEF HeldOf, UsedOf
  <2>4. Cardinality(HeldOf(x)) \in Nat /\ Cardinality(UsedOf(x)) \in Nat
    BY <2>3, Counting
  <2>5. CASE x = d
    <3>1. t \in UsedOf(x) /\ UsedOf(x)' = UsedOf(x) \ {t}
      BY <1>0, <2>5 DEF UsedOf, Others, OnPath
    <3>2. Cardinality(UsedOf(x) \ {t}) = Cardinality(UsedOf(x)) - 1
      BY <2>3, <3>1, Counting
    <3>3. QED
      BY <2>2, <2>4, <2>5, <3>1, <3>2 DEF FrontInv, CountsMatch, SameEntries
  <2>6. CASE x # d
    <3>1. UsedOf(x)' = UsedOf(x)
      BY <1>0, <2>6 DEF UsedOf, Others, OnPath
    <3>2. QED
      BY <2>2, <2>6, <3>1 DEF FrontInv, CountsMatch, SameEntries
  <2>7. QED
    BY <2>5, <2>6
<1>2. th'[t].pc \notin Using \cup Away
  BY <1>0 DEF Using, Away, Closing
<1>3. HandlesServed'
  <2>1. ASSUME NEW u \in FuseThreads, th'[u].pc \in Using \cup Away
        PROVE  u # t /\ th'[u] = th[u] /\ Opened(th[u].h)' /\ On(th[u].h)' = th[u].d
    BY <1>2, <2>1, RequestShape DEF FrontInv, HandlesServed, Others, SameHandles
  <2>2. QED
    BY <2>1 DEF FrontInv, HandlesServed
<1>4. QED
  BY <1>1, <1>3 DEF CountsMatch

\* What a request does with the handle it had before.
LEMMA KeptStep ==
  ASSUME FrontInv, NEW t \in FuseThreads, Others(t), SameHandles,
         th'[t].pc \in Using \cup Away =>
           /\ th[t].pc \in Using \cup Away /\ (th'[t].pc \in Away => th[t].pc \in Away)
           /\ th'[t].h = th[t].h /\ th'[t].d = th[t].d
  PROVE  HandlesServed'
<1>1. ASSUME NEW u \in FuseThreads, th'[u].pc \in Using \cup Away
      PROVE  /\ th[u].pc \in Using \cup Away /\ (th'[u].pc \in Away => th[u].pc \in Away)
             /\ th'[u].h = th[u].h /\ th'[u].d = th[u].d
             /\ th[u].h \in Handles
  BY <1>1, RequestShape DEF Others, FrontInv
<1>2. ASSUME NEW u \in FuseThreads, th'[u].pc \in Using \cup Away
      PROVE  Opened(th[u].h)' /\ On(th[u].h)' = th'[u].d
  BY <1>1, <1>2 DEF FrontInv, HandlesServed, SameHandles
<1>3. ASSUME NEW u \in FuseThreads, NEW v \in FuseThreads, u # v, th'[u].pc \in Away, th'[v].pc \in Using \cup Away
      PROVE  th'[v].h # th'[u].h
  BY <1>1, <1>3 DEF FrontInv, HandlesServed
<1>4. QED
  BY <1>2, <1>3 DEF HandlesServed

\* What it does with a handle it takes up.
LEMMA BeginsStep ==
  ASSUME FrontInv, NEW t \in FuseThreads, Others(t), SameHandles, th[t] = NoRequest,
         th'[t].pc \in Using \cup Away, th'[t].h \in Handles, Opened(th'[t].h), On(th'[t].h) = th'[t].d,
         \A u \in FuseThreads : th[u].pc \in Away \/ (th[u].pc \in Using /\ th'[t].pc \in Away) => th[u].h # th'[t].h
  PROVE  HandlesServed'
<1>1. ASSUME NEW u \in FuseThreads, u # t, th[u].pc \in Using \cup Away
      PROVE  th[u].h \in Handles
  BY <1>1, RequestShape DEF FrontInv
<1>2. ASSUME NEW u \in FuseThreads, th'[u].pc \in Using \cup Away
      PROVE  Opened(th[u].h)' /\ On(th[u].h)' = th'[u].d
  <2>1. CASE u = t
    BY <2>1 DEF SameHandles
  <2>2. CASE u # t
    BY <1>1, <1>2, <2>2 DEF FrontInv, HandlesServed, SameHandles, Others
  <2>3. QED
    BY <2>1, <2>2
<1>3. ASSUME NEW u \in FuseThreads, NEW v \in FuseThreads, u # v, th'[u].pc \in Away, th'[v].pc \in Using \cup Away
      PROVE  th'[v].h # th'[u].h
  <2>1. CASE u = t
    BY <1>3, <2>1 DEF Others
  <2>2. CASE v = t
    BY <1>3, <2>2 DEF Others
  <2>3. CASE u # t /\ v # t
    BY <1>3, <2>3 DEF FrontInv, HandlesServed, Others
  <2>4. QED
    BY <2>1, <2>2, <2>3
<1>4. QED
  BY <1>2, <1>3 DEF HandlesServed

LEMMA ThreadStep ==
  ASSUME FrontTypes, NEW t \in FuseThreads, NEW r \in {NoRequest} \cup Requests, th' = [th EXCEPT ![t] = r]
  PROVE  th'[t] = r /\ Others(t) /\ th' \in [FuseThreads -> {NoRequest} \cup Requests]
BY DEF FrontTypes, Others

LEMMA IndexShape ==
  ASSUME FrontTypes, NEW e, NEW d
  PROVE  IsIndex(Dirty(index)) /\ IsIndex(Saved(e, index)) /\ IsIndex(Saved(e, Dirty(index))) /\ IsIndex(AfterFlush(d, index))
<1>1. IsIndex(index) /\ IsIndex(Dirty(index)) /\ Dirty(index).dirty
  BY DEF FrontTypes, IsIndex, Dirty
<1>2. IsIndex([dirty |-> FALSE, saved |-> Content(e)])
  BY DEF IsIndex
<1>3. QED
  BY <1>1, <1>2 DEF Saved, AfterFlush

\* A change of a dentry that leaves its references.
LEMMA DentryStep ==
  ASSUME FrontTypes, NEW d \in Addresses, NEW r \in {Freed} \cup LiveDentries, r.refs = den[d].refs, den' = [den EXCEPT ![d] = r]
  PROVE  den' \in [Addresses -> {Freed} \cup LiveDentries] /\ SameRefs
BY DEF FrontTypes, SameRefs

LEMMA ChangedStep ==
  ASSUME FrontTypes, NEW d \in Addresses, den[d] \in LiveDentries, den' = Changed(d) \/ den' = den
  PROVE  den' \in [Addresses -> {Freed} \cup LiveDentries] /\ SameRefs
<1> DEFINE r == [den[d] EXCEPT !.meta = den[d].meta + 1]
<1>1. den[d].meta + 1 \in Nat
  BY DEF LiveDentries
<1>2. r \in LiveDentries /\ r.refs = den[d].refs
  BY <1>1 DEF LiveDentries
<1>3. Changed(d) = [den EXCEPT ![d] = r]
  BY DEF Changed
<1> HIDE DEF r
<1>4. CASE den' = Changed(d)
  BY <1>2, <1>3, <1>4, DentryStep
<1>5. CASE den' = den
  BY <1>5 DEF FrontTypes, SameRefs
<1>6. QED
  BY <1>4, <1>5

-----------------------------------------------------------------------------
(* The steps.                                                              *)

LEMMA OpenStep ==
  ASSUME FrontInv, NEW t \in FuseThreads, OpenFile(t) \/ CreateFile(t) \/ OpenPath(t) \/ Symlink(t)
  PROVE  FrontInv'
<1>1. PICK d \in Addresses, pc \in OnPath, w \in BOOLEAN :
        /\ th[t] = NoRequest /\ Begin(t, pc, 0, d, w)
        /\ \/ Linked(d) /\ den' = Taken(d, w) /\ index' = index
           \/ ~InMemory(d) /\ (\E b \in BOOLEAN : den' = [den EXCEPT ![d] = New(b, FALSE)]) /\ index' = Dirty(index)
  BY DEF OpenFile, CreateFile, OpenPath, Symlink, May, OnPath
<1>2. UNCHANGED <<table, hnd, written, offered>>
  BY DEF OpenFile, CreateFile, OpenPath, Symlink
<1> DEFINE r == [pc |-> pc, h |-> 0, d |-> d, w |-> w]
<1>3. r \in Requests
  BY DEF Requests
<1>4. th' = [th EXCEPT ![t] = r]
  BY <1>1 DEF Begin
<1>5. th'[t] = r /\ Others(t) /\ th' \in [FuseThreads -> {NoRequest} \cup Requests]
  BY <1>3, <1>4, ThreadStep DEF FrontInv
<1>6. /\ den' \in [Addresses -> {Freed} \cup LiveDentries] /\ den'[d].refs = den[d].refs + 1
      /\ \A x \in Addresses : x # d => den'[x] = den[x]
  <2>1. CASE Linked(d) /\ den' = Taken(d, w)
    BY <2>1, TakenRefs DEF FrontInv
  <2>2. ASSUME NEW b \in BOOLEAN, ~InMemory(d), den' = [den EXCEPT ![d] = New(b, FALSE)]
        PROVE  /\ den' \in [Addresses -> {Freed} \cup LiveDentries] /\ den'[d].refs = den[d].refs + 1
               /\ \A x \in Addresses : x # d => den'[x] = den[x]
    <3> DEFINE n == New(b, FALSE)
    <3>1. n \in LiveDentries /\ n.refs = 1
      BY DEF New, LiveDentries
    <3>2. den[d].refs = 0 /\ den' = [den EXCEPT ![d] = n]
      BY <2>2, DentryShape DEF FrontInv, InMemory
    <3> HIDE DEF n
    <3>3. den \in [Addresses -> {Freed} \cup LiveDentries]
      BY DEF FrontInv, FrontTypes
    <3>4. den'[d] = n /\ (\A x \in Addresses : x # d => den'[x] = den[x])
      BY <3>2, <3>3
    <3>5. den' \in [Addresses -> {Freed} \cup LiveDentries]
      BY <3>1, <3>2, <3>3
    <3>6. QED
      BY <3>1, <3>2, <3>4, <3>5
  <2>3. QED
    BY <1>1, <2>1, <2>2
<1>7. SameHandles /\ SameEntries
  BY <1>2 DEF SameHandles, SameEntries, Opened, On
<1>8. CountsMatch' /\ HandlesServed'
  BY <1>1, <1>5, <1>6, <1>7, TakesStep
<1>9. IsIndex(index')
  BY <1>1, IndexShape DEF FrontInv, FrontTypes
<1>10. QED
  BY <1>2, <1>5, <1>6, <1>8, <1>9 DEF FrontInv, FrontTypes

LEMMA CloseStep ==
  ASSUME FrontInv, NEW t \in FuseThreads, OpenNoMemory(t) \/ ClosePath(t)
  PROVE  FrontInv'
<1>1. th[t].pc \in OnPath /\ den' = Dropped(th[t].d, den) /\ th' = [th EXCEPT ![t] = NoRequest]
  BY DEF OpenNoMemory, ClosePath, OnPath, End
<1>2. UNCHANGED <<table, hnd, index, written, offered>>
  BY DEF OpenNoMemory, ClosePath
<1>3. th'[t] = NoRequest /\ Others(t) /\ th' \in [FuseThreads -> {NoRequest} \cup Requests]
  BY <1>1, ThreadStep DEF FrontInv
<1>4. th[t].d \in Addresses /\ den[th[t].d].refs # 0
  BY <1>1, PathLive
<1>5. /\ den' \in [Addresses -> {Freed} \cup LiveDentries] /\ den'[th[t].d].refs = den[th[t].d].refs - 1
      /\ \A x \in Addresses : x # th[t].d => den'[x] = den[x]
  BY <1>1, <1>4, DroppedRefs DEF FrontInv, FrontTypes
<1>6. SameHandles /\ SameEntries
  BY <1>2 DEF SameHandles, SameEntries, Opened, On
<1>7. CountsMatch' /\ HandlesServed'
  BY <1>1, <1>3, <1>5, <1>6, DropsStep
<1>8. QED
  BY <1>2, <1>3, <1>5, <1>7 DEF FrontInv, FrontTypes

\* The reference of the request becomes that of a handle.
LEMMA NewHandleStep ==
  ASSUME FrontInv, NEW t \in FuseThreads, NewHandle(t)
  PROVE  FrontInv'
<1> DEFINE d == th[t].d
<1>1. PICK h \in Handles : /\ ~Opened(h)
                           /\ hnd' = [hnd EXCEPT ![h] = [dentry |-> d, dirty |-> FALSE, w |-> th[t].w, acked |-> {}]]
  BY DEF NewHandle
<1>2. /\ th[t].pc \in OnPath /\ FileOpen(d) /\ th' = [th EXCEPT ![t] = NoRequest]
      /\ UNCHANGED <<den, index, written, offered>>
  BY DEF NewHandle, OnPath, End
<1>3. th'[t] = NoRequest /\ Others(t) /\ th' \in [FuseThreads -> {NoRequest} \cup Requests] /\ th'[t].pc = "idle"
  BY <1>2, ThreadStep DEF FrontInv, NoRequest
<1>4. d \in Addresses /\ th[t].w \in BOOLEAN
  BY <1>2, RequestShape DEF FrontInv
<1> DEFINE r == [dentry |-> d, dirty |-> FALSE, w |-> th[t].w, acked |-> {}]
<1>5. r \in OpenHandles /\ r.dentry = d
  BY <1>4 DEF OpenHandles
<1>6. hnd' = [hnd EXCEPT ![h] = r] /\ hnd \in [Handles -> {NoHandle} \cup OpenHandles]
  BY <1>1 DEF FrontInv, FrontTypes
<1> HIDE DEF r
<1>7. /\ hnd' \in [Handles -> {NoHandle} \cup OpenHandles] /\ hnd'[h] = r
      /\ \A k \in Handles : k # h => hnd'[k] = hnd[k]
  BY <1>5, <1>6
<1>8. /\ Opened(h)' /\ On(h)' = d
      /\ \A k \in Handles : k # h => (Opened(k)' <=> Opened(k)) /\ On(k)' = On(k)
  <2>1. r # NoHandle
    BY <1>5, HandleShape DEF FrontInv
  <2>2. QED
    BY <1>5, <1>7, <2>1 DEF Opened, On
<1>9. \A u \in FuseThreads : th[u].pc \in Using \cup Away => th[u].h \in Handles /\ th[u].h # h
  BY <1>1, RequestShape DEF FrontInv, HandlesServed
<1>10. table' \in [Addresses -> {NoEntry} \cup Entries] /\ table'[d].open_count = table[d].open_count + 1
       /\ \A x \in Addresses : x # d => table'[x] = table[x]
  <2>1. table[d] \in {NoEntry} \cup Entries /\ table \in [Addresses -> {NoEntry} \cup Entries]
    BY <1>4 DEF FrontInv, FrontTypes
  <2> DEFINE e == IF table[d].open_count = 0 THEN [open_count |-> 1, write_index |-> FALSE]
                  ELSE [table[d] EXCEPT !.open_count = table[d].open_count + 1]
  <2>2. table' = [table EXCEPT ![d] = e]
    BY <1>2 DEF FileOpen
  <2>3. e \in Entries /\ e.open_count = table[d].open_count + 1
    <3>1. CASE table[d] = NoEntry
      <4>1. table[d].open_count = 0 /\ e = [open_count |-> 1, write_index |-> FALSE]
        BY <3>1 DEF NoEntry
      <4>2. QED
        BY <4>1 DEF Entries
    <3>2. CASE table[d] \in Entries
      <4>1. table[d].open_count \in Nat \ {0} /\ e = [table[d] EXCEPT !.open_count = table[d].open_count + 1]
        BY <3>2 DEF Entries
      <4>2. QED
        BY <3>2, <4>1 DEF Entries
    <3>3. QED
      BY <2>1, <3>1, <3>2
  <2> HIDE DEF e
  <2>4. QED
    BY <1>4, <2>1, <2>2, <2>3
<1>11. ASSUME NEW x \in Addresses
       PROVE  /\ den'[x].refs = Cardinality(HeldOf(x)') + Cardinality(UsedOf(x)')
              /\ table'[x].open_count = Cardinality(OpenOf(x)')
  <2>1. \A u \in FuseThreads, k \in Handles : (th'[u].pc \in Closing /\ th'[u].h = k) <=> (th[u].pc \in Closing /\ th[u].h = k)
    BY <1>2, <1>3 DEF Others, OnPath, Closing
  <2>2. HeldOf(x) \subseteq Handles /\ OpenOf(x) \subseteq Handles /\ UsedOf(x) \subseteq FuseThreads
    BY DEF HeldOf, OpenOf, UsedOf
  <2>3. h \notin HeldOf(x) /\ h \notin OpenOf(x)
    BY <1>1 DEF HeldOf, OpenOf
  <2>4. CASE x = d
    <3>1. t \in UsedOf(x) /\ UsedOf(x)' = UsedOf(x) \ {t}
      BY <1>2, <1>3, <2>4 DEF UsedOf, Others, OnPath
    <3>2. HeldOf(x)' = HeldOf(x) \cup {h}
      BY <1>8, <1>9, <2>1, <2>4 DEF HeldOf, Away
    <3>3. OpenOf(x)' = OpenOf(x) \cup {h}
      BY <1>8, <2>4 DEF OpenOf
    <3>4. /\ Cardinality(UsedOf(x) \ {t}) = Cardinality(UsedOf(x)) - 1
          /\ Cardinality(HeldOf(x) \cup {h}) = Cardinality(HeldOf(x)) + 1
          /\ Cardinality(OpenOf(x) \cup {h}) = Cardinality(OpenOf(x)) + 1
          /\ Cardinality(UsedOf(x)) \in Nat /\ Cardinality(HeldOf(x)) \in Nat
      BY <2>2, <2>3, <3>1, Counting
    <3>5. QED
      BY <1>2, <1>10, <2>4, <3>1, <3>2, <3>3, <3>4 DEF FrontInv, CountsMatch
  <2>5. CASE x # d
    <3>1. UsedOf(x)' = UsedOf(x)
      BY <1>3, <2>5 DEF UsedOf, Others, OnPath
    <3>2. HeldOf(x)' = HeldOf(x)
      BY <1>1, <1>8, <2>1, <2>5 DEF HeldOf
    <3>3. OpenOf(x)' = OpenOf(x)
      BY <1>1, <1>8, <2>5 DEF OpenOf
    <3>4. QED
      BY <1>2, <1>10, <2>5, <3>1, <3>2, <3>3 DEF FrontInv, CountsMatch
  <2>6. QED
    BY <2>4, <2>5
<1>12. HandlesServed'
  <2>1. ASSUME NEW u \in FuseThreads, th'[u].pc \in Using \cup Away
        PROVE  u # t /\ th'[u] = th[u] /\ Opened(th[u].h)' /\ On(th[u].h)' = th[u].d
    <3>1. u # t /\ th'[u] = th[u]
      BY <1>3, <2>1 DEF Others, Using, Away, Closing
    <3>2. QED
      BY <1>8, <1>9, <2>1, <3>1 DEF FrontInv, HandlesServed
  <2>2. QED
    BY <2>1 DEF FrontInv, HandlesServed
<1>13. QED
  BY <1>2, <1>3, <1>7, <1>10, <1>11, <1>12 DEF FrontInv, FrontTypes, CountsMatch

\* The reference of the handle is given back, before the handle goes.
LEMMA ReleaseCloseStep ==
  ASSUME FrontInv, NEW t \in FuseThreads, ReleaseClose(t)
  PROVE  FrontInv'
<1> DEFINE d == th[t].d
           h == th[t].h
<1>1. PICK flushes \in BOOLEAN :
        /\ den' = Dropped(d, IF flushes THEN Flushed(d, den) ELSE den)
        /\ index' = IF flushes THEN AfterFlush(d, index) ELSE index
  BY RequestShape DEF ReleaseClose, FrontInv, Away
<1>2. PICK pc \in Closing : Goto(t, pc)
  BY DEF ReleaseClose, Closing
<1>3. th[t].pc = "release" /\ UNCHANGED <<table, hnd, written, offered>>
  BY DEF ReleaseClose
<1>4. /\ h \in Handles /\ Opened(h) /\ On(h) = d /\ h \in HeldOf(d)
      /\ d \in Addresses /\ den[d].refs # 0
  BY <1>3, UsingLive
<1>5. PICK r \in Requests : th' = [th EXCEPT ![t] = r] /\ r.pc = pc /\ r.h = h /\ r.d = d
  BY <1>2, <1>3, GotoShape DEF FrontInv, Away
<1>6. th'[t] = r /\ Others(t) /\ th' \in [FuseThreads -> {NoRequest} \cup Requests]
  BY <1>5, ThreadStep DEF FrontInv
<1>7. /\ den' \in [Addresses -> {Freed} \cup LiveDentries] /\ den'[d].refs = den[d].refs - 1
      /\ \A x \in Addresses : x # d => den'[x] = den[x]
  <2> DEFINE e == IF flushes THEN Flushed(d, den) ELSE den
  <2>1. /\ e \in [Addresses -> {Freed} \cup LiveDentries] /\ e[d].refs = den[d].refs
        /\ \A x \in Addresses : x # d => e[x] = den[x]
    BY <1>4, FlushedRefs DEF FrontInv, FrontTypes
  <2>2. den' = Dropped(d, e)
    BY <1>1
  <2> HIDE DEF e
  <2>3. QED
    BY <1>4, <2>1, <2>2, DroppedRefs
<1>8. IsIndex(index')
  BY <1>1, IndexShape DEF FrontInv, FrontTypes
<1>9. SameHandles
  BY <1>3 DEF SameHandles, Opened, On
<1>10. HandlesServed'
  BY <1>2, <1>3, <1>5, <1>6, <1>9, KeptStep DEF Away
<1>11. ASSUME NEW x \in Addresses
       PROVE  /\ den'[x].refs = Cardinality(HeldOf(x)') + Cardinality(UsedOf(x)')
              /\ table'[x].open_count = Cardinality(OpenOf(x)')
  <2>1. OpenOf(x)' = OpenOf(x)
    BY <1>9 DEF OpenOf, SameHandles
  <2>2. UsedOf(x)' = UsedOf(x)
    BY <1>2, <1>3, <1>5, <1>6 DEF UsedOf, Others, OnPath, Closing
  <2>3. \A k \in Handles : (\E u \in FuseThreads : th'[u].pc \in Closing /\ th'[u].h = k)
                             <=> (k = h \/ \E u \in FuseThreads : th[u].pc \in Closing /\ th[u].h = k)
    BY <1>2, <1>3, <1>5, <1>6 DEF Others, Closing
  <2>4. HeldOf(x)' = HeldOf(x) \ {h}
    BY <1>9, <2>3 DEF HeldOf, SameHandles
  <2>5. HeldOf(x) \subseteq Handles /\ UsedOf(x) \subseteq FuseThreads
    BY DEF HeldOf, UsedOf
  <2>6. Cardinality(HeldOf(x)) \in Nat /\ Cardinality(UsedOf(x)) \in Nat
    BY <2>5, Counting
  <2>7. CASE x = d
    <3>1. Cardinality(HeldOf(x) \ {h}) = Cardinality(HeldOf(x)) - 1
      BY <1>4, <2>5, <2>7, Counting
    <3>2. QED
      BY <1>3, <1>7, <2>1, <2>2, <2>4, <2>6, <2>7, <3>1 DEF FrontInv, CountsMatch
  <2>8. CASE x # d
    <3>1. h \notin HeldOf(x)
      BY <1>4, <2>8 DEF HeldOf
    <3>2. HeldOf(x) \ {h} = HeldOf(x)
      BY <3>1
    <3>3. QED
      BY <1>3, <1>7, <2>1, <2>2, <2>4, <2>8, <3>2 DEF FrontInv, CountsMatch
  <2>9. QED
    BY <2>7, <2>8
<1>12. QED
  BY <1>3, <1>6, <1>7, <1>8, <1>10, <1>11 DEF FrontInv, FrontTypes, CountsMatch

\* Last, the handle goes and the file leaves the table.
LEMMA ReleaseForgetStep ==
  ASSUME FrontInv, NEW t \in FuseThreads, ReleaseForget(t)
  PROVE  FrontInv'
<1>0. PICK h \in Handles, d \in Addresses : h = th[t].h /\ d = th[t].d
  BY RequestShape DEF ReleaseForget, FrontInv, Away, Closing
<1>1. /\ th[t].pc = "forget" /\ FileClose(d) /\ hnd' = [hnd EXCEPT ![h] = NoHandle]
      /\ th' = [th EXCEPT ![t] = NoRequest] /\ UNCHANGED <<den, index, written, offered>>
  BY <1>0 DEF ReleaseForget, End
<1>2. Opened(h) /\ On(h) = d
  BY <1>0, <1>1, RequestShape DEF FrontInv, HandlesServed, Away, Closing
<1>3. th'[t] = NoRequest /\ Others(t) /\ th' \in [FuseThreads -> {NoRequest} \cup Requests] /\ th'[t].pc = "idle"
  BY <1>1, ThreadStep DEF FrontInv, NoRequest
<1>4. /\ hnd' \in [Handles -> {NoHandle} \cup OpenHandles] /\ hnd'[h] = NoHandle
      /\ \A k \in Handles : k # h => hnd'[k] = hnd[k]
  BY <1>1, <1>2 DEF FrontInv, FrontTypes
<1>5. ~Opened(h)' /\ \A k \in Handles : k # h => (Opened(k)' <=> Opened(k)) /\ On(k)' = On(k)
  BY <1>4 DEF Opened, On
<1>6. \A u \in FuseThreads : u # t /\ th[u].pc \in Using \cup Away => th[u].h \in Handles /\ th[u].h # h
  BY <1>0, <1>1, RequestShape DEF FrontInv, HandlesServed, Away, Closing
<1>7. table[d] \in Entries
  BY <1>2, HandleLive
<1>8. /\ table' \in [Addresses -> {NoEntry} \cup Entries] /\ table'[d].open_count = table[d].open_count - 1
      /\ \A x \in Addresses : x # d => table'[x] = table[x]
  <2>1. table \in [Addresses -> {NoEntry} \cup Entries] /\ table[d].open_count \in Nat \ {0}
    BY <1>7 DEF FrontInv, FrontTypes, Entries
  <2> DEFINE e == IF table[d].open_count = 1 THEN NoEntry
                  ELSE [table[d] EXCEPT !.open_count = table[d].open_count - 1]
  <2>2. table' = [table EXCEPT ![d] = e]
    BY <1>1 DEF FileClose
  <2>3. e \in {NoEntry} \cup Entries /\ e.open_count = table[d].open_count - 1
    <3>1. CASE table[d].open_count = 1
      BY <3>1 DEF NoEntry
    <3>2. CASE table[d].open_count # 1
      <4>1. e = [table[d] EXCEPT !.open_count = table[d].open_count - 1]
        BY <3>2
      <4>2. QED
        BY <1>7, <2>1, <3>2, <4>1 DEF Entries
    <3>3. QED
      BY <3>1, <3>2
  <2> HIDE DEF e
  <2>4. QED
    BY <1>2, <2>1, <2>2, <2>3
<1>9. ASSUME NEW x \in Addresses
      PROVE  /\ den'[x].refs = Cardinality(HeldOf(x)') + Cardinality(UsedOf(x)')
             /\ table'[x].open_count = Cardinality(OpenOf(x)')
  <2>1. UsedOf(x)' = UsedOf(x)
    BY <1>1, <1>3 DEF UsedOf, Others, OnPath
  <2>2. h \notin HeldOf(x)
    BY <1>0, <1>1 DEF HeldOf, Closing
  <2>3. \A k \in Handles : k # h => ((\E u \in FuseThreads : th'[u].pc \in Closing /\ th'[u].h = k)
                             <=> (\E u \in FuseThreads : th[u].pc \in Closing /\ th[u].h = k))
    BY <1>0, <1>1, <1>3 DEF Others, Closing
  <2>4. HeldOf(x)' = HeldOf(x)
    BY <1>5, <2>2, <2>3 DEF HeldOf
  <2>5. OpenOf(x)' = OpenOf(x) \ {h}
    BY <1>5 DEF OpenOf
  <2>6. OpenOf(x) \subseteq Handles
    BY DEF OpenOf
  <2>7. CASE x = d
    <3>1. h \in OpenOf(x)
      BY <1>2, <2>7 DEF OpenOf
    <3>2. Cardinality(OpenOf(x) \ {h}) = Cardinality(OpenOf(x)) - 1
      BY <2>6, <3>1, Counting
    <3>3. QED
      BY <1>1, <1>8, <2>1, <2>4, <2>5, <2>7, <3>2 DEF FrontInv, CountsMatch
  <2>8. CASE x # d
    <3>1. h \notin OpenOf(x)
      BY <1>2, <2>8 DEF OpenOf
    <3>2. OpenOf(x) \ {h} = OpenOf(x)
      BY <3>1
    <3>3. QED
      BY <1>1, <1>8, <2>1, <2>4, <2>5, <2>8, <3>2 DEF FrontInv, CountsMatch
  <2>9. QED
    BY <2>7, <2>8
<1>10. HandlesServed'
  <2>1. ASSUME NEW u \in FuseThreads, th'[u].pc \in Using \cup Away
        PROVE  u # t /\ th'[u] = th[u] /\ Opened(th[u].h)' /\ On(th[u].h)' = th[u].d
    <3>1. u # t /\ th'[u] = th[u]
      BY <1>3, <2>1 DEF Others, Using, Away, Closing
    <3>2. QED
      BY <1>5, <1>6, <2>1, <3>1 DEF FrontInv, HandlesServed
  <2>2. QED
    BY <2>1 DEF FrontInv, HandlesServed
<1>11. QED
  BY <1>1, <1>3, <1>4, <1>8, <1>9, <1>10 DEF FrontInv, FrontTypes, CountsMatch

\* Steps of the volume, in which no request moves.
LEMMA StillStep ==
  ASSUME FrontInv, SameHandles, SameEntries, SameRefs, th' = th
  PROVE  CountsMatch' /\ HandlesServed'
<1>1. ASSUME NEW d \in Addresses
      PROVE  /\ den'[d].refs = Cardinality(HeldOf(d)') + Cardinality(UsedOf(d)')
             /\ table'[d].open_count = Cardinality(OpenOf(d)')
  <2>1. UsedOf(d)' = UsedOf(d) /\ HeldOf(d)' = HeldOf(d) /\ OpenOf(d)' = OpenOf(d)
    BY DEF UsedOf, HeldOf, OpenOf, SameHandles
  <2>2. QED
    BY <2>1 DEF FrontInv, CountsMatch, SameEntries, SameRefs
<1>2. \A t \in FuseThreads : th[t].pc \in Using \cup Away => th[t].h \in Handles
  BY RequestShape DEF FrontInv
<1>3. HandlesServed'
  BY <1>2 DEF FrontInv, HandlesServed, SameHandles
<1>4. QED
  BY <1>1, <1>3 DEF CountsMatch

\* A handle is marked: it stays open on its dentry.
LEMMA MarkedStep ==
  ASSUME FrontInv, NEW h \in Handles, Opened(h), NEW r \in OpenHandles, r.dentry = On(h), hnd' = [hnd EXCEPT ![h] = r]
  PROVE  hnd' \in [Handles -> {NoHandle} \cup OpenHandles] /\ SameHandles
<1>1. r # NoHandle
  BY HandleShape DEF FrontInv
<1>2. hnd \in [Handles -> {NoHandle} \cup OpenHandles]
  BY DEF FrontInv, FrontTypes
<1>3. hnd' \in [Handles -> {NoHandle} \cup OpenHandles] /\ hnd'[h] = r /\ \A k \in Handles : k # h => hnd'[k] = hnd[k]
  BY <1>2
<1>4. QED
  BY <1>1, <1>3 DEF SameHandles, Opened, On

LEMMA WriteFileStep ==
  ASSUME FrontInv, NEW t \in FuseThreads, WriteFile(t)
  PROVE  FrontInv'
<1>1. PICK h \in Handles :
        /\ OnHandle(t, "write", h) /\ written' = written + 1
        /\ den' = [den EXCEPT ![On(h)].pending = @ \cup {written'}, ![On(h)].mtime = written']
        /\ th' = [th EXCEPT ![t] = [pc |-> "wrote", h |-> h, d |-> On(h), n |-> written']]
        /\ UNCHANGED <<table, hnd, index, offered>>
  BY DEF WriteFile
<1>2. th[t] = NoRequest /\ Opened(h) /\ \A u \in FuseThreads : th[u].pc \in Away => th[u].h # h
  BY <1>1 DEF OnHandle, May, Leaving, Away, Closing
<1>3. On(h) \in Addresses /\ den[On(h)] \in LiveDentries
  BY <1>2, HandleLive DEF Away
<1>4. written \in Nat /\ written' \in Nat
  BY <1>1 DEF FrontInv, FrontTypes
<1> DEFINE r == [pc |-> "wrote", h |-> h, d |-> On(h), n |-> written']
           e == [den[On(h)] EXCEPT !.pending = den[On(h)].pending \cup {written'}, !.mtime = written']
<1>5. r \in Requests /\ r.pc = "wrote" /\ r.h = h /\ r.d = On(h)
  BY <1>3, <1>4 DEF Requests
<1>6. th'[t] = r /\ Others(t) /\ th' \in [FuseThreads -> {NoRequest} \cup Requests]
  BY <1>1, <1>5, ThreadStep DEF FrontInv
<1>7. den[On(h)].pending \cup {written'} \in SUBSET Nat
  BY <1>3, <1>4 DEF LiveDentries
<1>8. e \in LiveDentries /\ e.refs = den[On(h)].refs
  BY <1>3, <1>4, <1>7 DEF LiveDentries
<1>9. den' = [den EXCEPT ![On(h)] = e]
  BY <1>1
<1> HIDE DEF e, r
<1>10. den' \in [Addresses -> {Freed} \cup LiveDentries] /\ SameRefs
  BY <1>3, <1>8, <1>9, DentryStep DEF FrontInv
<1>11. SameHandles /\ SameEntries
  BY <1>1 DEF SameHandles, SameEntries, Opened, On
<1>12. th[t].pc = "idle"
  BY <1>2 DEF NoRequest
<1>13. CountsMatch'
  BY <1>5, <1>6, <1>10, <1>11, <1>12, QuietStep DEF OnPath, Closing
<1>14. HandlesServed'
  BY <1>2, <1>5, <1>6, <1>11, BeginsStep DEF Using, Away, Closing
<1>15. QED
  BY <1>1, <1>4, <1>6, <1>10, <1>13, <1>14 DEF FrontInv, FrontTypes

LEMMA WriteMarkStep ==
  ASSUME FrontInv, NEW t \in FuseThreads, WriteDirty(t) \/ WriteMark(t) \/ FlushReset(t)
  PROVE  FrontInv'
<1>0. th[t].pc \in Using
  BY DEF WriteDirty, WriteMark, FlushReset, Using
<1>1. PICK h \in Handles, d \in Addresses : h = th[t].h /\ d = th[t].d
  BY <1>0, UsingLive
<1>2. Opened(h) /\ On(h) = d /\ hnd[h] \in OpenHandles /\ table[d] \in Entries
  BY <1>0, <1>1, UsingLive, HandleShape DEF FrontInv
<1>3. PICK r \in OpenHandles : hnd' = [hnd EXCEPT ![h] = r] /\ r.dentry = On(h)
  <2>1. CASE WriteDirty(t)
    <3> DEFINE r == [hnd[h] EXCEPT !.dirty = TRUE]
    <3>1. r \in OpenHandles /\ r.dentry = hnd[h].dentry
      BY <1>2 DEF OpenHandles
    <3>2. hnd' = [hnd EXCEPT ![h] = r]
      BY <1>1, <2>1 DEF WriteDirty
    <3>3. QED
      BY <3>1, <3>2 DEF On
  <2>2. CASE WriteMark(t)
    <3> DEFINE r == [hnd[h] EXCEPT !.acked = hnd[h].acked \cup {th[t].n}]
    <3>1. th[t].n \in Nat
      BY <2>2, RequestShape DEF WriteMark, FrontInv
    <3>2. hnd[h].acked \cup {th[t].n} \in SUBSET Nat
      BY <1>2, <3>1 DEF OpenHandles
    <3>3. r \in OpenHandles /\ r.dentry = hnd[h].dentry
      BY <1>2, <3>2 DEF OpenHandles
    <3>4. hnd' = [hnd EXCEPT ![h] = r]
      BY <1>1, <2>2 DEF WriteMark
    <3>5. QED
      BY <3>3, <3>4 DEF On
  <2>3. CASE FlushReset(t)
    <3> DEFINE r == [hnd[h] EXCEPT !.dirty = FALSE]
    <3>1. r \in OpenHandles /\ r.dentry = hnd[h].dentry
      BY <1>2 DEF OpenHandles
    <3>2. hnd' = [hnd EXCEPT ![h] = r]
      BY <1>1, <2>3 DEF FlushReset
    <3>3. QED
      BY <3>1, <3>2 DEF On
  <2>4. QED
    BY <2>1, <2>2, <2>3
<1>4. hnd' \in [Handles -> {NoHandle} \cup OpenHandles] /\ SameHandles
  BY <1>2, <1>3, MarkedStep
<1>5. UNCHANGED <<den, index, written, offered>>
  BY DEF WriteDirty, WriteMark, FlushReset
<1>6. table' \in [Addresses -> {NoEntry} \cup Entries] /\ SameEntries
  <2>1. CASE table' = table
    BY <2>1 DEF FrontInv, FrontTypes, SameEntries
  <2>2. CASE WriteMark(t)
    <3> DEFINE e == [table[d] EXCEPT !.write_index = TRUE]
    <3>1. e \in Entries /\ e.open_count = table[d].open_count
      BY <1>2 DEF Entries
    <3>2. table' = [table EXCEPT ![d] = e]
      BY <1>1, <2>2 DEF WriteMark
    <3> HIDE DEF e
    <3>3. QED
      BY <3>1, <3>2 DEF FrontInv, FrontTypes, SameEntries
  <2>3. QED
    BY <2>1, <2>2 DEF WriteDirty, FlushReset
<1>7. PICK q \in {NoRequest} \cup Requests :
        /\ th' = [th EXCEPT ![t] = q]
        /\ q = NoRequest \/ (q.pc \in Using /\ q.h = th[t].h /\ q.d = th[t].d)
  <2>1. CASE WriteDirty(t)
    BY <2>1, GotoShape DEF WriteDirty, Using, FrontInv
  <2>2. CASE WriteMark(t)
    BY <2>2 DEF WriteMark, End
  <2>3. CASE FlushReset(t)
    BY <2>3, GotoShape DEF FlushReset, Using, FrontInv
  <2>4. QED
    BY <2>1, <2>2, <2>3
<1>8. th'[t] = q /\ Others(t) /\ th' \in [FuseThreads -> {NoRequest} \cup Requests]
  BY <1>7, ThreadStep DEF FrontInv
<1>9. th'[t].pc \notin Away \cup OnPath
  BY <1>7, <1>8 DEF NoRequest, Using, Away, Closing, OnPath
<1>10. th'[t].pc \in Using => th'[t].h = th[t].h /\ th'[t].d = th[t].d
  BY <1>7, <1>8 DEF NoRequest, Using
<1>11. CountsMatch'
  BY <1>0, <1>4, <1>5, <1>6, <1>8, <1>9, QuietStep DEF SameRefs, OnPath, Using, Away, Closing
<1>12. HandlesServed'
  BY <1>0, <1>4, <1>8, <1>9, <1>10, KeptStep
<1>13. QED
  BY <1>4, <1>5, <1>6, <1>8, <1>11, <1>12 DEF FrontInv, FrontTypes

\* A request on a handle begins.
LEMMA FlushStep ==
  ASSUME FrontInv, NEW t \in FuseThreads, Flush(t) \/ ReleaseHandle(t)
  PROVE  FrontInv'
<1>1. PICK h \in Handles, r \in Requests :
        /\ th' = [th EXCEPT ![t] = r] /\ th[t] = NoRequest /\ Opened(h)
        /\ r.h = h /\ r.d = On(h)
        /\ \/ r.pc \in {"flush", "clean"} /\ ~Leaving(h)
           \/ r.pc = "release" /\ ~InUse(h)
  <2>1. CASE Flush(t)
    <3>1. PICK h \in Handles, request \in {"flush", "fsync"} :
            /\ OnHandle(t, request, h)
            /\ th' = [th EXCEPT ![t] = [pc |-> IF hnd[h].dirty THEN "flush" ELSE "clean", h |-> h, d |-> On(h),
                                        sync |-> request = "fsync", must |-> hnd[h].acked]]
      BY <2>1 DEF Flush
    <3> DEFINE pc == IF hnd[h].dirty THEN "flush" ELSE "clean"
               sync == request = "fsync"
               r == [pc |-> pc, h |-> h, d |-> On(h), sync |-> sync, must |-> hnd[h].acked]
    <3>2. th[t] = NoRequest /\ Opened(h) /\ ~Leaving(h)
      BY <3>1 DEF OnHandle, May
    <3>3. On(h) \in Addresses /\ hnd[h].acked \in SUBSET Nat
      BY <3>2, HandleShape DEF FrontInv, OpenHandles
    <3>4. pc \in {"flush", "clean"} /\ sync \in BOOLEAN
      OBVIOUS
    <3>5. th' = [th EXCEPT ![t] = r]
      BY <3>1
    <3> HIDE DEF pc, sync
    <3>6. r \in Requests /\ r.pc = pc /\ r.h = h /\ r.d = On(h)
      BY <3>3, <3>4 DEF Requests
    <3> HIDE DEF r
    <3>7. QED
      BY <3>2, <3>4, <3>5, <3>6
  <2>2. CASE ReleaseHandle(t)
    <3>1. PICK h \in Handles :
            /\ May(t, "open") /\ Opened(h) /\ ~InUse(h)
            /\ th' = [th EXCEPT ![t] = [pc |-> "release", h |-> h, d |-> On(h), dirty |-> hnd[h].dirty,
                                        sync |-> SyncClose /\ table[On(h)].write_index]]
      BY <2>2 DEF ReleaseHandle
    <3> DEFINE sync == SyncClose /\ table[On(h)].write_index
               r == [pc |-> "release", h |-> h, d |-> On(h), dirty |-> hnd[h].dirty, sync |-> sync]
    <3>2. th[t] = NoRequest
      BY <3>1 DEF May
    <3>3. On(h) \in Addresses /\ hnd[h].dirty \in BOOLEAN
      BY <3>1, HandleShape DEF FrontInv, OpenHandles
    <3>4. sync \in BOOLEAN
      OBVIOUS
    <3>5. th' = [th EXCEPT ![t] = r]
      BY <3>1
    <3> HIDE DEF sync
    <3>6. r \in Requests /\ r.pc = "release" /\ r.h = h /\ r.d = On(h)
      BY <3>3, <3>4 DEF Requests, Away
    <3> HIDE DEF r
    <3>7. QED
      BY <3>1, <3>2, <3>5, <3>6
  <2>3. QED
    BY <2>1, <2>2
<1>2. th'[t] = r /\ Others(t) /\ th' \in [FuseThreads -> {NoRequest} \cup Requests]
  BY <1>1, ThreadStep DEF FrontInv
<1>3. UNCHANGED <<den, table, hnd, index, written, offered>>
  BY DEF Flush, ReleaseHandle
<1>4. SameHandles /\ SameEntries /\ SameRefs
  BY <1>3 DEF SameHandles, SameEntries, SameRefs, Opened, On
<1>5. th[t].pc = "idle"
  BY <1>1 DEF NoRequest
<1>6. CountsMatch'
  BY <1>1, <1>2, <1>4, <1>5, QuietStep DEF OnPath, Closing
<1>7. th'[t].pc \in Using \cup Away /\ th'[t].h = h /\ th'[t].d = On(h)
  BY <1>1, <1>2 DEF Using, Away
<1>8. ASSUME NEW u \in FuseThreads, th[u].pc \in Away \/ (th[u].pc \in Using /\ th'[t].pc \in Away)
      PROVE  th[u].h # h
  <2>1. CASE r.pc = "release" /\ ~InUse(h)
    BY <1>8, <2>1, RequestShape DEF InUse, FrontInv, Using, Away, Closing
  <2>2. CASE r.pc \in {"flush", "clean"} /\ ~Leaving(h)
    BY <1>2, <1>8, <2>2 DEF Leaving, Away, Closing
  <2>3. QED
    BY <1>1, <2>1, <2>2
<1>9. HandlesServed'
  BY <1>1, <1>2, <1>4, <1>7, <1>8, BeginsStep
<1>10. QED
  BY <1>2, <1>3, <1>6, <1>9 DEF FrontInv, FrontTypes

\* A request on a handle goes on, or ends.
LEMMA FlushDataStep ==
  ASSUME FrontInv, NEW t \in FuseThreads, FlushData(t) \/ FlushFails(t) \/ FlushDone(t)
  PROVE  FrontInv'
<1>0. th[t].pc \in {"flush", "clean"}
  BY DEF FlushData, FlushFails, FlushDone
<1>1. th[t].d \in Addresses /\ den[th[t].d] \in LiveDentries
  BY <1>0, UsingLive DEF Using
<1>2. den' \in [Addresses -> {Freed} \cup LiveDentries] /\ SameRefs
  <2>1. CASE FlushData(t)
    BY <1>1, <2>1, FlushedRefs DEF FlushData, SameRefs, FrontInv
  <2>2. CASE den' = den
    BY <2>2 DEF FrontInv, FrontTypes, SameRefs
  <2>3. CASE den' = [den EXCEPT ![th[t].d].openforwrite = FALSE]
    <3> DEFINE e == [den[th[t].d] EXCEPT !.openforwrite = FALSE]
    <3>1. e \in LiveDentries /\ e.refs = den[th[t].d].refs
      BY <1>1 DEF LiveDentries
    <3>2. den' = [den EXCEPT ![th[t].d] = e]
      BY <2>3
    <3> HIDE DEF e
    <3>3. QED
      BY <1>1, <3>1, <3>2, DentryStep DEF FrontInv
  <2>4. QED
    BY <2>1, <2>2, <2>3 DEF FlushFails, FlushDone
<1>3. IsIndex(index')
  BY IndexShape DEF FlushData, FlushFails, FlushDone, FrontInv, FrontTypes
<1>4. PICK r \in {NoRequest} \cup Requests :
        /\ th' = [th EXCEPT ![t] = r]
        /\ r = NoRequest \/ (r.pc \in Using /\ r.h = th[t].h /\ r.d = th[t].d)
  <2>1. CASE FlushData(t)
    BY <2>1, GotoShape DEF FlushData, Using, FrontInv
  <2>2. CASE FlushFails(t) \/ FlushDone(t)
    BY <2>2 DEF FlushFails, FlushDone, End
  <2>3. QED
    BY <2>1, <2>2
<1>5. th'[t] = r /\ Others(t) /\ th' \in [FuseThreads -> {NoRequest} \cup Requests]
  BY <1>4, ThreadStep DEF FrontInv
<1>6. th'[t].pc \notin Away \cup OnPath
  BY <1>4, <1>5 DEF NoRequest, Using, Away, Closing, OnPath
<1>7. th'[t].pc \in Using => th'[t].h = th[t].h /\ th'[t].d = th[t].d
  BY <1>4, <1>5 DEF NoRequest, Using
<1>8. UNCHANGED <<table, hnd, written, offered>>
  BY DEF FlushData, FlushFails, FlushDone
<1>9. SameHandles /\ SameEntries
  BY <1>8 DEF SameHandles, SameEntries, Opened, On
<1>10. CountsMatch'
  BY <1>0, <1>2, <1>5, <1>6, <1>9, QuietStep DEF OnPath, Using, Away, Closing
<1>11. HandlesServed'
  BY <1>0, <1>5, <1>6, <1>7, <1>9, KeptStep DEF Using
<1>12. QED
  BY <1>2, <1>3, <1>5, <1>8, <1>10, <1>11 DEF FrontInv, FrontTypes

LEMMA ReleaseSyncStep ==
  ASSUME FrontInv, NEW t \in FuseThreads, ReleaseSync(t)
  PROVE  FrontInv'
<1>1. th[t].pc = "sync" /\ index' = Saved(den, index) /\ Goto(t, "forget") /\ UNCHANGED <<den, table, hnd, written, offered>>
  BY DEF ReleaseSync
<1>2. PICK r \in Requests : th' = [th EXCEPT ![t] = r] /\ r.pc = "forget" /\ r.h = th[t].h /\ r.d = th[t].d
  BY <1>1, GotoShape DEF Away, Closing, FrontInv
<1>3. th'[t] = r /\ Others(t) /\ th' \in [FuseThreads -> {NoRequest} \cup Requests]
  BY <1>2, ThreadStep DEF FrontInv
<1>4. SameHandles /\ SameEntries /\ SameRefs
  BY <1>1 DEF SameHandles, SameEntries, SameRefs, Opened, On
<1>5. CountsMatch'
  BY <1>1, <1>2, <1>3, <1>4, QuietStep DEF OnPath, Closing
<1>6. HandlesServed'
  BY <1>1, <1>2, <1>3, <1>4, KeptStep DEF Away, Closing
<1>7. IsIndex(index')
  BY <1>1, IndexShape DEF FrontInv
<1>8. QED
  BY <1>1, <1>3, <1>5, <1>6, <1>7 DEF FrontInv, FrontTypes

\* A request on a path does its work; a link is made of a file so.
LEMMA ServingStep ==
  ASSUME FrontInv, NEW t \in FuseThreads,
         \/ GetAttr(t) \/ Utimens(t) \/ SetReadonly(t) \/ Truncate(t) \/ SymlinkTarget(t)
         \/ ReadLink(t) /\ BufferFits
  PROVE  FrontInv'
<1>1. th[t].pc \in OnPath /\ Goto(t, "close") /\ UNCHANGED <<table, hnd, written, offered>>
  BY DEF GetAttr, Utimens, SetReadonly, Truncate, SymlinkTarget, ReadLink, Serving, OnPath
<1>2. th[t].d \in Addresses /\ den[th[t].d] \in LiveDentries
  BY <1>1, PathLive
<1>3. den' \in [Addresses -> {Freed} \cup LiveDentries] /\ SameRefs
  <2>1. CASE SymlinkTarget(t)
    <3> DEFINE e == [den[th[t].d] EXCEPT !.target = TRUE, !.isslink = TRUE]
    <3>1. e \in LiveDentries /\ e.refs = den[th[t].d].refs
      BY <1>2 DEF LiveDentries
    <3>2. den' = [den EXCEPT ![th[t].d] = e]
      BY <2>1 DEF SymlinkTarget
    <3> HIDE DEF e
    <3>3. QED
      BY <1>2, <3>1, <3>2, DentryStep DEF FrontInv
  <2>2. CASE ~SymlinkTarget(t)
    <3>1. den' = Changed(th[t].d) \/ den' = den
      BY <2>2 DEF GetAttr, Utimens, SetReadonly, Truncate, ReadLink, Serving, Change, Same
    <3>2. QED
      BY <1>2, <3>1, ChangedStep DEF FrontInv
  <2>3. QED
    BY <2>1, <2>2
<1>4. index' = index \/ index' = Dirty(index)
  BY DEF GetAttr, Utimens, SetReadonly, Truncate, SymlinkTarget, ReadLink, Change, Same
<1>5. PICK r \in Requests : th' = [th EXCEPT ![t] = r] /\ r.pc = "close" /\ r.h = th[t].h /\ r.d = th[t].d
  BY <1>1, GotoShape DEF OnPath, FrontInv
<1>6. th'[t] = r /\ Others(t) /\ th' \in [FuseThreads -> {NoRequest} \cup Requests]
  BY <1>5, ThreadStep DEF FrontInv
<1>7. SameHandles /\ SameEntries
  BY <1>1 DEF SameHandles, SameEntries, Opened, On
<1>8. CountsMatch'
  BY <1>1, <1>3, <1>5, <1>6, <1>7, QuietStep DEF OnPath, Closing
<1>9. HandlesServed'
  BY <1>5, <1>6, <1>7, KeptStep DEF Using, Away, Closing
<1>10. IsIndex(index')
  BY <1>4, IndexShape DEF FrontInv, FrontTypes
<1>11. QED
  BY <1>1, <1>3, <1>6, <1>8, <1>9, <1>10 DEF FrontInv, FrontTypes

\* Calls that keep the volume locked, truncation through a handle, removal of a name.
LEMMA LockedStep ==
  ASSUME FrontInv, NEW t \in FuseThreads,
         \/ SetXattr(t) \/ RemoveXattr(t) \/ ReadXattr(t) \/ ReadDir(t) \/ Ftruncate(t) \/ UnlinkFile(t)
  PROVE  FrontInv'
<1>1. UNCHANGED <<table, hnd, written, th, offered>>
  BY DEF SetXattr, RemoveXattr, ReadXattr, ReadDir, Ftruncate, UnlinkFile, Locked, frontVars
<1>2. den' \in [Addresses -> {Freed} \cup LiveDentries] /\ SameRefs
  <2>1. CASE SetXattr(t) \/ RemoveXattr(t) \/ ReadXattr(t)
    <3>1. PICK d \in Addresses : Linked(d) /\ (den' = Changed(d) \/ den' = den)
      BY <2>1 DEF SetXattr, RemoveXattr, ReadXattr, Locked, Change, Same
    <3>2. QED
      BY <3>1, DentryShape, ChangedStep DEF FrontInv
  <2>2. CASE ReadDir(t)
    BY <2>2 DEF ReadDir, frontVars, FrontInv, FrontTypes, SameRefs
  <2>3. CASE Ftruncate(t)
    <3>1. PICK h \in Handles : /\ Opened(h) /\ ~Leaving(h)
                               /\ \E left \in SUBSET den[On(h)].pending : den' = [Changed(On(h)) EXCEPT ![On(h)].pending = left]
      BY <2>3 DEF Ftruncate, OnHandle
    <3>2. On(h) \in Addresses /\ den[On(h)] \in LiveDentries
      BY <3>1, HandleLive DEF Leaving, Closing
    <3>3. PICK left \in SUBSET den[On(h)].pending : den' = [Changed(On(h)) EXCEPT ![On(h)].pending = left]
      BY <3>1
    <3> DEFINE e == [den[On(h)] EXCEPT !.meta = den[On(h)].meta + 1, !.pending = left]
    <3>4. den[On(h)].meta + 1 \in Nat /\ left \in SUBSET Nat
      BY <3>2 DEF LiveDentries
    <3>5. e \in LiveDentries /\ e.refs = den[On(h)].refs
      BY <3>2, <3>4 DEF LiveDentries
    <3>6. den \in [Addresses -> {Freed} \cup LiveDentries]
      BY DEF FrontInv, FrontTypes
    <3>7. den' = [den EXCEPT ![On(h)] = e]
      BY <3>2, <3>3, <3>6 DEF Changed
    <3> HIDE DEF e
    <3>8. QED
      BY <3>2, <3>5, <3>7, DentryStep DEF FrontInv
  <2>4. CASE UnlinkFile(t)
    <3>1. PICK d \in Addresses :
            Linked(d) /\ den' = [den EXCEPT ![d] = IF @.refs = 0 THEN Freed ELSE [@ EXCEPT !.linked = FALSE]]
      BY <2>4 DEF UnlinkFile
    <3> DEFINE e == IF den[d].refs = 0 THEN Freed ELSE [den[d] EXCEPT !.linked = FALSE]
    <3>2. den[d] \in LiveDentries
      BY <3>1, DentryShape DEF FrontInv
    <3>3. e \in {Freed} \cup LiveDentries /\ e.refs = den[d].refs
      <4>1. CASE den[d].refs = 0
        BY <4>1 DEF Freed
      <4>2. CASE den[d].refs # 0
        <5>1. e = [den[d] EXCEPT !.linked = FALSE]
          BY <4>2
        <5>2. QED
          BY <3>2, <5>1 DEF LiveDentries
      <4>3. QED
        BY <4>1, <4>2
    <3>4. den' = [den EXCEPT ![d] = e]
      BY <3>1
    <3> HIDE DEF e
    <3>5. QED
      BY <3>3, <3>4, DentryStep DEF FrontInv
  <2>5. QED
    BY <2>1, <2>2, <2>3, <2>4
<1>3. index' = index \/ index' = Dirty(index)
  BY DEF SetXattr, RemoveXattr, ReadXattr, ReadDir, Ftruncate, UnlinkFile, Change, Same, frontVars
<1>4. SameHandles /\ SameEntries
  BY <1>1 DEF SameHandles, SameEntries, Opened, On
<1>5. CountsMatch' /\ HandlesServed'
  BY <1>1, <1>2, <1>4, StillStep
<1>6. IsIndex(index')
  BY <1>3, IndexShape DEF FrontInv, FrontTypes
<1>7. QED
  BY <1>1, <1>2, <1>5, <1>6 DEF FrontInv, FrontTypes

LEMMA PeriodicSyncStep ==
  ASSUME FrontInv, PeriodicSync
  PROVE  FrontInv'
<1>1. UNCHANGED <<table, hnd, written, th, offered>>
  BY DEF PeriodicSync
<1>2. den' \in [Addresses -> {Freed} \cup LiveDentries] /\ SameRefs
  <2>1. CASE den' = den
    BY <2>1 DEF FrontInv, FrontTypes, SameRefs
  <2>2. CASE den' = [d \in Addresses |-> Flushed(d, den)[d]]
    <3>1. \A d \in Addresses : Flushed(d, den)[d] \in {Freed} \cup LiveDentries /\ Flushed(d, den)[d].refs = den[d].refs
      BY FlushedRefs DEF FrontInv
    <3>2. QED
      BY <2>2, <3>1 DEF SameRefs
  <2>3. QED
    BY <2>1, <2>2 DEF PeriodicSync
<1>3. IsIndex(index')
  <2>1. \/ index' = Saved(den', index) \/ index' = Saved(den', Dirty(index))
    BY DEF PeriodicSync
  <2>2. QED
    BY <2>1, IndexShape DEF FrontInv
<1>4. SameHandles /\ SameEntries
  BY <1>1 DEF SameHandles, SameEntries, Opened, On
<1>5. CountsMatch' /\ HandlesServed'
  BY <1>1, <1>2, <1>4, StillStep
<1>6. QED
  BY <1>1, <1>2, <1>3, <1>5 DEF FrontInv, FrontTypes

THEOREM FrontStart == FrontInit => FrontInv
<1> SUFFICES ASSUME FrontInit PROVE FrontInv
  OBVIOUS
<1>1. FrontTypes
  <2>1. IsIndex(index)
    BY DEF FrontInit, IsIndex
  <2>2. den \in [Addresses -> {Freed} \cup LiveDentries] /\ table \in [Addresses -> {NoEntry} \cup Entries]
    BY DEF FrontInit
  <2>3. hnd \in [Handles -> {NoHandle} \cup OpenHandles] /\ th \in [FuseThreads -> {NoRequest} \cup Requests]
    BY DEF FrontInit
  <2>4. QED
    BY <2>1, <2>2, <2>3 DEF FrontInit, FrontTypes
<1>2. \A t \in FuseThreads : th[t].pc = "idle"
  BY DEF FrontInit, NoRequest
<1>3. HandlesServed
  BY <1>2 DEF HandlesServed, Using, Away, Closing
<1>4. ASSUME NEW d \in Addresses
      PROVE  /\ den[d].refs = Cardinality(HeldOf(d)) + Cardinality(UsedOf(d))
             /\ table[d].open_count = Cardinality(OpenOf(d))
  <2>1. HeldOf(d) = {} /\ OpenOf(d) = {}
    BY DEF FrontInit, HeldOf, OpenOf, Opened
  <2>2. UsedOf(d) = {}
    BY <1>2 DEF UsedOf, OnPath
  <2>3. den[d].refs = 0 /\ table[d].open_count = 0
    BY DEF FrontInit, Freed, NoEntry
  <2>4. QED
    BY <2>1, <2>2, <2>3, FS_EmptySet
<1>5. QED
  BY <1>1, <1>3, <1>4 DEF FrontInv, CountsMatch

\* With room for every target no step loses a reference.
THEOREM FrontSteps ==
  ASSUME BufferFits, FrontInv, [FrontNext]_frontVars
  PROVE  FrontInv'
<1>1. CASE UNCHANGED frontVars
  <2>1. UNCHANGED <<den, table, hnd, index, written, th, offered>>
    BY <1>1 DEF frontVars
  <2>2. SameHandles /\ SameEntries /\ SameRefs
    BY <2>1 DEF SameHandles, SameEntries, SameRefs, Opened, On
  <2>3. QED
    BY <2>1, <2>2, StillStep DEF FrontInv, FrontTypes
<1>2. CASE PeriodicSync
  BY <1>2, PeriodicSyncStep
<1>3. ASSUME NEW t \in FuseThreads,
             \/ OpenFile(t) \/ OpenNoMemory(t) \/ CreateFile(t) \/ NewHandle(t) \/ ClosePath(t)
             \/ WriteFile(t) \/ WriteDirty(t) \/ WriteMark(t)
             \/ Flush(t) \/ FlushData(t) \/ FlushFails(t) \/ FlushReset(t) \/ FlushDone(t)
             \/ ReleaseHandle(t) \/ ReleaseClose(t) \/ ReleaseSync(t) \/ ReleaseForget(t) \/ Ftruncate(t)
             \/ OpenPath(t) \/ GetAttr(t) \/ Utimens(t) \/ SetReadonly(t) \/ Truncate(t) \/ ReadLink(t)
             \/ SetXattr(t) \/ RemoveXattr(t) \/ ReadXattr(t) \/ ReadDir(t)
             \/ Symlink(t) \/ SymlinkTarget(t) \/ UnlinkFile(t)
      PROVE  FrontInv'
  <2>1. CASE OpenFile(t) \/ CreateFile(t) \/ OpenPath(t) \/ Symlink(t)
    BY <2>1, OpenStep
  <2>2. CASE OpenNoMemory(t) \/ ClosePath(t)
    BY <2>2, CloseStep
  <2>3. CASE NewHandle(t)
    BY <2>3, NewHandleStep
  <2>4. CASE WriteFile(t)
    BY <2>4, WriteFileStep
  <2>5. CASE WriteDirty(t) \/ WriteMark(t) \/ FlushReset(t)
    BY <2>5, WriteMarkStep
  <2>6. CASE Flush(t) \/ ReleaseHandle(t)
    BY <2>6, FlushStep
  <2>7. CASE FlushData(t) \/ FlushFails(t) \/ FlushDone(t)
    BY <2>7, FlushDataStep
  <2>8. CASE ReleaseClose(t)
    BY <2>8, ReleaseCloseStep
  <2>9. CASE ReleaseSync(t)
    BY <2>9, ReleaseSyncStep
  <2>10. CASE ReleaseForget(t)
    BY <2>10, ReleaseForgetStep
  <2>11. CASE GetAttr(t) \/ Utimens(t) \/ SetReadonly(t) \/ Truncate(t) \/ SymlinkTarget(t) \/ ReadLink(t)
    BY <2>11, ServingStep
  <2>12. CASE SetXattr(t) \/ RemoveXattr(t) \/ ReadXattr(t) \/ ReadDir(t) \/ Ftruncate(t) \/ UnlinkFile(t)
    BY <2>12, LockedStep
  <2>13. QED
    BY <1>3, <2>1, <2>2, <2>3, <2>4, <2>5, <2>6, <2>7, <2>8, <2>9, <2>10, <2>11, <2>12
<1>4. QED
  BY <1>1, <1>2, <1>3 DEF FrontNext

\* The counts the run checks are those of the invariant.
LEMMA CountsShown == FrontInv => HandlesMatch
<1> SUFFICES ASSUME FrontInv PROVE HandlesMatch
  OBVIOUS
<1>1. \A t \in FuseThreads : (th[t] # NoRequest /\ th[t].h = 0) <=> th[t].pc \in OnPath
  <2>1. TAKE t \in FuseThreads
  <2>2. CASE th[t].pc \in OnPath
    BY <2>2, RequestShape DEF FrontInv, OnPath
  <2>3. CASE th[t].pc \in Using \cup Away
    BY <2>3, RequestShape, FrontAssumption DEF FrontInv, OnPath, Using, Away, Closing
  <2>4. CASE th[t].pc = "idle"
    BY <2>4, RequestShape DEF FrontInv, OnPath
  <2>5. QED
    BY <2>2, <2>3, <2>4, RequestShape DEF FrontInv
<1>2. \A d \in Addresses : UsedOf(d) = {t \in FuseThreads : th[t] # NoRequest /\ th[t].h = 0 /\ th[t].d = d}
  BY <1>1 DEF UsedOf
<1>3. RefsExact
  BY <1>2 DEF RefsExact, FrontInv, CountsMatch, HeldOf, Closing
<1>4. TableExact
  BY DEF TableExact, FrontInv, CountsMatch, OpenOf
<1>5. QED
  BY <1>3, <1>4 DEF HandlesMatch

\* However opens, releases and removals of names are interleaved, by however many
\* threads on however many handles: a dentry has the references of its handles and
\* requests, and the table of open files counts the handles (ltfs_fuse.c:104-283,
\* ltfs_fsops.c).  A readlink whose buffer is too small loses a reference.
THEOREM ReferencesKept == ASSUME BufferFits PROVE FrontSpec => []HandlesMatch
<1>1. FrontInit => FrontInv
  BY FrontStart
<1>2. FrontInv /\ [FrontNext]_frontVars => FrontInv'
  BY FrontSteps
<1>3. FrontInv => HandlesMatch
  BY CountsShown
<1>4. QED
  BY <1>1, <1>2, <1>3, PTL DEF FrontSpec

-----------------------------------------------------------------------------
(* An index that is clean.                                                 *)

\* A change that a clean index would have to tell marks it; writing it tells all.
LEMMA TellsStep ==
  ASSUME FrontInv, CleanIndexIsTrue, FrontNext
  PROVE  CleanIndexIsTrue'
<1>1. IsIndex(index) /\ Dirty(index).dirty /\ IsIndex(Dirty(index))
  BY DEF FrontInv, FrontTypes, IsIndex, Dirty
<1>2. CASE index' = index /\ SameTold(den, den')
  BY <1>2, StaysTrue DEF CleanIndexIsTrue
<1>3. CASE index' = Dirty(index)
  BY <1>1, <1>3 DEF CleanIndexIsTrue
<1>4. CASE (index' = Saved(den', index) /\ den' = den) \/ index' = Saved(den', Dirty(index))
  <2>1. ASSUME NEW i, IsIndex(i), index' = Saved(den', i), i.dirty
        PROVE  CleanIndexIsTrue'
    <3>1. index'.saved = Content(den')
      BY <2>1 DEF Saved
    <3>2. IsTrueOf(Content(den'), den')
      BY WrittenIsTrue
    <3>3. QED
      BY <3>1, <3>2 DEF CleanIndexIsTrue
  <2>2. CASE index' = Saved(den', index) /\ den' = den /\ ~index.dirty
    BY <2>2 DEF Saved, CleanIndexIsTrue
  <2>3. QED
    BY <1>1, <1>4, <2>1, <2>2
<1>5. ASSUME NEW t \in FuseThreads, OpenFile(t) \/ OpenPath(t)
      PROVE  index' = index /\ SameTold(den, den')
  <2>1. PICK d \in Addresses, w \in BOOLEAN : Linked(d) /\ den' = Taken(d, w) /\ index' = index
    BY <1>5 DEF OpenFile, OpenPath
  <2>2. SameTold(den, Taken(d, w))
    BY <2>1, TakenRefs DEF FrontInv
  <2>3. QED
    BY <2>1, <2>2
<1>6. ASSUME NEW t \in FuseThreads, OpenNoMemory(t) \/ ClosePath(t)
      PROVE  index' = index /\ SameTold(den, den')
  <2>1. th[t].pc \in OnPath /\ den' = Dropped(th[t].d, den) /\ index' = index
    BY <1>6 DEF OpenNoMemory, ClosePath, OnPath
  <2>2. SameTold(den, Dropped(th[t].d, den))
    BY <2>1, PathLive, DroppedRefs DEF FrontInv, FrontTypes
  <2>3. QED
    BY <2>1, <2>2
<1>7. ASSUME NEW t \in FuseThreads, CreateFile(t) \/ Symlink(t) \/ Ftruncate(t) \/ SetXattr(t) \/ Truncate(t) \/ UnlinkFile(t)
      PROVE  index' = Dirty(index)
  BY <1>7 DEF CreateFile, Symlink, Ftruncate, SetXattr, Truncate, UnlinkFile, Change
<1>8. ASSUME NEW t \in FuseThreads, Utimens(t) \/ SetReadonly(t) \/ RemoveXattr(t)
      PROVE  index' = Dirty(index) \/ (index' = index /\ den' = den)
  BY <1>8 DEF Utimens, SetReadonly, RemoveXattr, Change, Same
<1>9. ASSUME NEW t \in FuseThreads,
             \/ NewHandle(t) \/ WriteDirty(t) \/ WriteMark(t) \/ Flush(t) \/ FlushFails(t) \/ FlushReset(t)
             \/ ReleaseHandle(t) \/ ReleaseForget(t) \/ GetAttr(t) \/ ReadLink(t) \/ ReadXattr(t) \/ ReadDir(t)
      PROVE  index' = index /\ den' = den
  BY <1>9 DEF NewHandle, WriteDirty, WriteMark, Flush, FlushFails, FlushReset, ReleaseHandle, ReleaseForget, GetAttr,
              ReadLink, ReadXattr, ReadDir, Same, frontVars
<1>10. ASSUME NEW d \in Addresses, den[d] \in LiveDentries, NEW e, den' = [den EXCEPT ![d] = e],
              e.linked = den[d].linked, e.meta = den[d].meta, e.pending = {} => den[d].pending = {} /\ e.mtime = den[d].mtime,
              den[d].isslink => e.isslink, den[d].target => e.target
       PROVE  SameTold(den, den')
  <2>1. den'[d] = e /\ \A x \in Addresses : x # d => den'[x] = den[x]
    BY <1>10 DEF FrontInv, FrontTypes
  <2>2. QED
    BY <1>10, <2>1 DEF SameTold
<1>11. ASSUME NEW t \in FuseThreads, WriteFile(t)
       PROVE  index' = index /\ SameTold(den, den')
  <2>1. PICK h \in Handles :
          /\ OnHandle(t, "write", h) /\ index' = index
          /\ den' = [den EXCEPT ![On(h)].pending = @ \cup {written'}, ![On(h)].mtime = written']
    BY <1>11 DEF WriteFile
  <2>2. On(h) \in Addresses /\ den[On(h)] \in LiveDentries
    BY <2>1, HandleLive DEF OnHandle, Leaving, Closing
  <2> DEFINE e == [den[On(h)] EXCEPT !.pending = den[On(h)].pending \cup {written'}, !.mtime = written']
  <2>3. /\ e.linked = den[On(h)].linked /\ e.meta = den[On(h)].meta /\ e.pending # {}
        /\ e.isslink = den[On(h)].isslink /\ e.target = den[On(h)].target
    BY <2>2 DEF LiveDentries
  <2>4. den' = [den EXCEPT ![On(h)] = e]
    BY <2>1
  <2> HIDE DEF e
  <2>5. /\ e.linked = den[On(h)].linked /\ e.meta = den[On(h)].meta
        /\ e.pending = {} => den[On(h)].pending = {} /\ e.mtime = den[On(h)].mtime
        /\ den[On(h)].isslink => e.isslink
        /\ den[On(h)].target => e.target
    BY <2>3
  <2>6. SameTold(den, den')
    BY <1>10, <2>2, <2>4, <2>5, Zenon
  <2>7. QED
    BY <2>1, <2>6
<1>12. ASSUME NEW t \in FuseThreads, FlushDone(t) \/ SymlinkTarget(t)
       PROVE  index' = index /\ SameTold(den, den')
  <2> DEFINE d == th[t].d
             e == [den[d] EXCEPT !.openforwrite = FALSE]
             g == [den[d] EXCEPT !.target = TRUE, !.isslink = TRUE]
  <2>1. d \in Addresses /\ den[d] \in LiveDentries
    <3>1. CASE FlushDone(t)
      BY <3>1, UsingLive DEF FlushDone, Using
    <3>2. CASE SymlinkTarget(t)
      <4>1. th[t].pc \in OnPath
        BY <3>2 DEF SymlinkTarget, OnPath
      <4>2. QED
        BY <4>1, PathLive, DentryShape DEF FrontInv
    <3>3. QED
      BY <1>12, <3>1, <3>2
  <2>2. /\ e.linked = den[d].linked /\ e.meta = den[d].meta /\ e.mtime = den[d].mtime /\ e.pending = den[d].pending
        /\ e.isslink = den[d].isslink /\ e.target = den[d].target
        /\ g.linked = den[d].linked /\ g.meta = den[d].meta /\ g.mtime = den[d].mtime /\ g.pending = den[d].pending
        /\ g.isslink /\ g.target
    BY <2>1 DEF LiveDentries
  <2>3. index' = index /\ (den' = den \/ den' = [den EXCEPT ![d] = e] \/ den' = [den EXCEPT ![d] = g])
    BY <1>12 DEF FlushDone, SymlinkTarget
  <2> HIDE DEF e, g
  <2>4. CASE den' = den
    BY <2>3, <2>4 DEF SameTold
  <2>5. CASE den' = [den EXCEPT ![d] = e]
    BY <1>10, <2>1, <2>2, <2>3, <2>5
  <2>6. CASE den' = [den EXCEPT ![d] = g]
    BY <1>10, <2>1, <2>2, <2>3, <2>6
  <2>7. QED
    BY <2>3, <2>4, <2>5, <2>6
<1>13. ASSUME NEW t \in FuseThreads, FlushData(t)
       PROVE  index' = Dirty(index) \/ (index' = index /\ SameTold(den, den'))
  <2>1. th[t].d \in Addresses /\ den' = Flushed(th[t].d, den) /\ index' = AfterFlush(th[t].d, index)
    BY <1>13, UsingLive DEF FlushData, Using
  <2>2. CASE InMemory(th[t].d) /\ den[th[t].d].pending # {}
    BY <2>1, <2>2 DEF AfterFlush
  <2>3. CASE ~(InMemory(th[t].d) /\ den[th[t].d].pending # {})
    <3>1. den' = den
      BY <2>1, <2>3, FlushedRefs DEF FrontInv
    <3>2. QED
      BY <2>1, <2>3, <3>1 DEF AfterFlush, SameTold
  <2>4. QED
    BY <2>2, <2>3
<1>14. ASSUME NEW t \in FuseThreads, ReleaseClose(t)
       PROVE  index' = Dirty(index) \/ (index' = index /\ SameTold(den, den'))
  <2> DEFINE d == th[t].d
  <2>1. PICK flushes \in BOOLEAN :
          /\ den' = Dropped(d, IF flushes THEN Flushed(d, den) ELSE den)
          /\ index' = IF flushes THEN AfterFlush(d, index) ELSE index
    BY <1>14, RequestShape DEF ReleaseClose, FrontInv, Away
  <2>2. d \in Addresses /\ den[d].refs # 0
    BY <1>14, UsingLive DEF ReleaseClose
  <2>3. CASE flushes /\ InMemory(d) /\ den[d].pending # {}
    BY <2>1, <2>3 DEF AfterFlush
  <2>4. CASE ~(flushes /\ InMemory(d) /\ den[d].pending # {})
    <3>1. den' = Dropped(d, den) /\ index' = index
      BY <2>1, <2>2, <2>4, FlushedRefs DEF FrontInv, AfterFlush
    <3>2. SameTold(den, Dropped(d, den))
      BY <2>2, DroppedRefs DEF FrontInv, FrontTypes
    <3>3. QED
      BY <3>1, <3>2
  <2>5. QED
    BY <2>3, <2>4
<1>15. ASSUME NEW t \in FuseThreads, ReleaseSync(t)
       PROVE  index' = Saved(den', index) /\ den' = den
  BY <1>15 DEF ReleaseSync
<1>16. CASE PeriodicSync
  <2>1. CASE den' = den /\ index' = Saved(den, index)
    BY <1>4, <2>1
  <2>2. CASE /\ den' = [d \in Addresses |-> Flushed(d, den)[d]]
             /\ index' = Saved(den', IF \E d \in Addresses : InMemory(d) /\ den[d].pending # {} THEN Dirty(index) ELSE index)
    <3>1. CASE \E d \in Addresses : InMemory(d) /\ den[d].pending # {}
      BY <1>4, <2>2, <3>1
    <3>2. CASE ~\E d \in Addresses : InMemory(d) /\ den[d].pending # {}
      <4>1. \A d \in Addresses : Flushed(d, den)[d] = den[d]
        BY <3>2, FlushedRefs DEF FrontInv
      <4>2. den \in [Addresses -> {Freed} \cup LiveDentries]
        BY DEF FrontInv, FrontTypes
      <4>3. den' = den
        BY <2>2, <4>1, <4>2
      <4>4. QED
        BY <1>4, <2>2, <3>2, <4>3
    <3>3. QED
      BY <3>1, <3>2
  <2>3. QED
    BY <1>16, <2>1, <2>2 DEF PeriodicSync
<1>17. den' = den => SameTold(den, den')
  BY DEF SameTold
<1>18. QED
  BY <1>2, <1>3, <1>4, <1>5, <1>6, <1>7, <1>8, <1>9, <1>11, <1>12, <1>13, <1>14, <1>15, <1>16, <1>17 DEF FrontNext

\* When an index is clean the one on tape is true of the files, whatever was created,
\* linked, changed, written or removed, and by how many threads (ltfs_fsops.c,
\* ltfs_fuse.c:1114-1134): it names all of them and no others, with their attributes and
\* the time of the last write that the scheduler does not hold.
THEOREM CleanIndexTold == ASSUME BufferFits PROVE FrontSpec => []CleanIndexIsTrue
<1> DEFINE Inv == FrontInv /\ CleanIndexIsTrue
<1>1. FrontInit => Inv
  <2> SUFFICES ASSUME FrontInit PROVE CleanIndexIsTrue
    BY FrontStart
  <2>1. {d \in Addresses : den[d].linked} = {} /\ index.saved = {}
    BY DEF FrontInit, Freed
  <2>2. QED
    BY <2>1 DEF CleanIndexIsTrue, IsTrueOf
<1>2. Inv /\ [FrontNext]_frontVars => Inv'
  <2> SUFFICES ASSUME FrontInv, CleanIndexIsTrue, [FrontNext]_frontVars PROVE Inv'
    OBVIOUS
  <2>1. FrontInv'
    BY FrontSteps
  <2>2. CASE FrontNext
    BY <2>1, <2>2, TellsStep
  <2>3. CASE UNCHANGED frontVars
    BY <2>1, <2>3 DEF frontVars, CleanIndexIsTrue, IsTrueOf
  <2>4. QED
    BY <2>2, <2>3
<1>3. QED
  BY <1>1, <1>2, PTL DEF FrontSpec

-----------------------------------------------------------------------------
(* Attributes of the volume.                                              *)

XattrRequests ==
  {NoCall} \cup [op : {"refresh", "set"}, to : DOMAIN LockString] \cup [op : {"mam"}, to : Texts \cup {NoText}]
Indexes ==
  [lock : Advisory, name : Texts \cup {NoText}, comment : Texts \cup {NoText},
   stored : [Keys -> Texts \cup {NoText}]]
AllBits == {"LOCKED", "PERM_LOCKED", "PHY_WRITE_PRTCT", "PWE", "DPPWE", "IPPWE"}
Errors == {"PWE", "DPPWE", "IPPWE"}

XattrTypes ==
  /\ mam \in [lock : MamStates, label : Texts \cup {NoText}]
  /\ tape \in Indexes /\ idx \in Indexes
  /\ bits \subseteq AllBits
  /\ mounted \in BOOLEAN /\ dirty \in BOOLEAN /\ behind \in {"none", "mam", "index"}
  /\ call \in [Users -> XattrRequests]

\* The bit of a write error comes with the one that locks the volume, so that it
\* is found.
ErrorsLock == \A e \in Errors : e \in bits => "LOCKED" \in bits

\* An index that says permlocked is only in memory, and only replaces one, with a
\* bit that keeps it.
PermHeld ==
  mounted => /\ idx.lock = "permlocked" => bits \cap (Errors \cup {"PERM_LOCKED"}) # {}
             /\ tape.lock = "permlocked" => idx.lock = "permlocked"

XattrInv == XattrTypes /\ LockCopiesAgree /\ CleanIsOnTape /\ ErrorsLock /\ PermHeld

-----------------------------------------------------------------------------
(* The bit field.                                                          *)

LEMMA BitOfText ==
  BitOf("unlocked") = "UNLOCKED" /\ BitOf("locked") = "LOCKED" /\ BitOf("permlocked") = "PERM_LOCKED"
<1>1. /\ DOMAIN LockString = {"UNLOCKED", "LOCKED", "PERM_LOCKED"}
      /\ LockString["UNLOCKED"] = "unlocked" /\ LockString["LOCKED"] = "locked"
      /\ LockString["PERM_LOCKED"] = "permlocked"
  BY DEF LockString
<1> HIDE DEF LockString
<1>2. BitOf("unlocked") = "UNLOCKED"
  BY <1>1 DEF BitOf
<1>3. BitOf("locked") = "LOCKED"
  BY <1>1 DEF BitOf
<1>4. BitOf("permlocked") = "PERM_LOCKED"
  BY <1>1 DEF BitOf
<1>5. QED
  BY <1>2, <1>3, <1>4

LEMMA LockTexts ==
  /\ DOMAIN LockString = {"UNLOCKED", "LOCKED", "PERM_LOCKED"} /\ DOMAIN MamOf = {"UNLOCKED", "LOCKED", "PERM_LOCKED"}
  /\ LockString["UNLOCKED"] = "unlocked" /\ MamOf["UNLOCKED"] = "UNLOCKED"
  /\ LockString["LOCKED"] = "locked" /\ MamOf["LOCKED"] = "LOCKED"
  /\ LockString["PERM_LOCKED"] = "permlocked" /\ MamOf["PERM_LOCKED"] = "PERMLOCKED"
  BY DEF LockString, MamOf

\* A user may not change the state of a volume with a write error, nor lift a
\* permanent lock.
LEMMA MayBecomeKeeps ==
  ASSUME NEW field, NEW b \in {"UNLOCKED", "LOCKED", "PERM_LOCKED"}, MayBecome(field, b),
         \A e \in Errors : e \in field => "LOCKED" \in field
  PROVE  field \cap Errors = {} /\ ("PERM_LOCKED" \in field => b = "PERM_LOCKED")
<1>1. ASSUME NEW e \in Errors, e \in field PROVE FALSE
  <2>1. ~BitFound(field, e)
    BY <1>1 DEF MayBecome, Errors
  <2>2. "LOCKED" \in field
    BY <1>1
  <2>3. QED
    BY <1>1, <2>1, <2>2 DEF BitFound, Errors
<1>2. b # "PERM_LOCKED" => "PERM_LOCKED" \notin field
  BY DEF MayBecome, BitFound
<1>3. QED
  BY <1>1, <1>2

LEMMA WithBitChanges ==
  ASSUME NEW field \in SUBSET AllBits, NEW b \in {"UNLOCKED", "LOCKED", "PERM_LOCKED"}, field \cap Errors = {},
         "PERM_LOCKED" \in field => b = "PERM_LOCKED"
  PROVE  /\ WithBit(field, b) \subseteq AllBits /\ WithBit(field, b) \cap Errors = {}
         /\ WithBit(field, b) \cap {"LOCKED", "PERM_LOCKED"} = UserBitsOf(b)
         /\ "PHY_WRITE_PRTCT" \in WithBit(field, b) <=> "PHY_WRITE_PRTCT" \in field
<1>1. CASE b = "UNLOCKED"
  BY <1>1 DEF WithBit, Errors, AllBits, UserBitsOf
<1>2. CASE b = "LOCKED"
  BY <1>2 DEF WithBit, Updated, Errors, AllBits, UserBitsOf
<1>3. CASE b = "PERM_LOCKED"
  BY <1>3 DEF WithBit, Errors, AllBits, UserBitsOf
<1>4. QED
  BY <1>1, <1>2, <1>3

\* What a getxattr adds: the bits of a write error, with the lock.
LEMMA RefreshedAdds ==
  ASSUME NEW field \in SUBSET AllBits, NEW lock \in MamStates
  PROVE  /\ field \subseteq Refreshed(field, lock) /\ Refreshed(field, lock) \subseteq AllBits
         /\ Refreshed(field, lock) \in {field} \/ "LOCKED" \in Refreshed(field, lock)
         /\ lock \notin WriteErrors => Refreshed(field, lock) = field
         /\ "PHY_WRITE_PRTCT" \in Refreshed(field, lock) <=> "PHY_WRITE_PRTCT" \in field
<1>1. ASSUME NEW g \in SUBSET AllBits, NEW e \in Errors
      PROVE  WithBit(g, e) = g \cup {e, "LOCKED"}
  BY <1>1 DEF WithBit, Updated, Errors
<1>2. CASE lock = "DP_IP_PWE"
  <2>1. WithBit(field, "IPPWE") = field \cup {"IPPWE", "LOCKED"}
    BY <1>1 DEF Errors
  <2>2. WithBit(WithBit(field, "IPPWE"), "DPPWE") = field \cup {"IPPWE", "LOCKED", "DPPWE"}
    <3>1. field \cup {"IPPWE", "LOCKED"} \in SUBSET AllBits
      BY DEF AllBits
    <3>2. QED
      BY <1>1, <2>1, <3>1 DEF Errors
  <2>3. QED
    BY <1>2, <2>2 DEF Refreshed, AllBits, WriteErrors
<1>3. CASE lock \in Errors
  <2>1. Refreshed(field, lock) = field \cup {lock, "LOCKED"}
    BY <1>1, <1>3 DEF Refreshed, Errors
  <2>2. QED
    BY <1>3, <2>1 DEF AllBits, WriteErrors, Errors
<1>4. CASE lock \notin WriteErrors
  BY <1>4 DEF Refreshed, WriteErrors
<1>5. QED
  BY <1>2, <1>3, <1>4 DEF WriteErrors, Errors

\* The bit field of a mount: the lock of the index, or what keeps it.
LEMMA AtMountBits ==
  ASSUME XattrTypes, NEW protected \in BOOLEAN
  PROVE  /\ AtMount(protected) \subseteq AllBits
         /\ \A e \in Errors : e \in AtMount(protected) => "LOCKED" \in AtMount(protected)
         /\ tape.lock = "permlocked" => AtMount(protected) \cap (Errors \cup {"PERM_LOCKED"}) # {}
         /\ protected => "PHY_WRITE_PRTCT" \in AtMount(protected)
         /\ FromIndex(tape.lock) /\ ~protected =>
              AtMount(protected) \cap {"LOCKED", "PERM_LOCKED"} = UserBitsOf(BitOf(tape.lock))
<1> DEFINE base == IF protected THEN {"PHY_WRITE_PRTCT"} ELSE {}
<1>1. mam.lock \in MamStates /\ tape.lock \in Advisory
  BY DEF XattrTypes, Indexes
<1>2. base \subseteq {"PHY_WRITE_PRTCT"} /\ (protected => "PHY_WRITE_PRTCT" \in base)
      /\ (~protected => base = {})
  OBVIOUS
<1>3. AtMount(protected) =
        CASE mam.lock = "DP_IP_PWE" -> Updated(Updated(base, "DPPWE"), "IPPWE")
          [] mam.lock \in WriteErrors \ {"DP_IP_PWE"} -> Updated(base, mam.lock)
          [] FromIndex(tape.lock) -> Updated(base, BitOf(tape.lock))
          [] OTHER -> base
  BY DEF AtMount
<1> HIDE DEF base
<1>4. CASE mam.lock = "DP_IP_PWE"
  <2>1. AtMount(protected) = base \cup {"DPPWE", "IPPWE", "LOCKED"}
    BY <1>3, <1>4 DEF Updated, WriteErrors, FromIndex
  <2>2. QED
    BY <1>2, <1>4, <2>1 DEF AllBits, Errors, FromIndex, WriteErrors
<1>5. CASE mam.lock \in Errors
  <2>1. AtMount(protected) = base \cup {mam.lock, "LOCKED"}
    BY <1>3, <1>5 DEF Updated, WriteErrors, FromIndex, Errors
  <2>2. QED
    BY <1>2, <1>5, <2>1 DEF AllBits, Errors, FromIndex, WriteErrors
<1>6. CASE mam.lock \notin WriteErrors /\ tape.lock = "none"
  <2>1. AtMount(protected) = base
    BY <1>3, <1>6 DEF FromIndex, WriteErrors
  <2>2. QED
    BY <1>2, <1>6, <2>1 DEF AllBits, Errors, FromIndex
<1>7. CASE mam.lock \notin WriteErrors /\ tape.lock # "none"
  <2>1. AtMount(protected) = Updated(base, BitOf(tape.lock))
    BY <1>3, <1>7 DEF FromIndex, WriteErrors
  <2>2. CASE tape.lock = "unlocked"
    BY <1>2, <2>1, <2>2, BitOfText DEF AllBits, Errors, Updated, UserBitsOf
  <2>3. CASE tape.lock = "locked"
    BY <1>2, <2>1, <2>3, BitOfText DEF AllBits, Errors, Updated, UserBitsOf
  <2>4. CASE tape.lock = "permlocked"
    BY <1>2, <2>1, <2>4, BitOfText DEF AllBits, Errors, Updated, UserBitsOf
  <2>5. QED
    BY <1>1, <1>7, <2>2, <2>3, <2>4 DEF Advisory
<1>8. QED
  BY <1>1, <1>4, <1>5, <1>6, <1>7 DEF Errors, WriteErrors

-----------------------------------------------------------------------------
(* The steps.                                                              *)

LEMMA XattrStarts == XattrInit => XattrInv
<1> SUFFICES ASSUME XattrInit PROVE XattrInv
  OBVIOUS
<1>1. mam \in [lock : MamStates, label : Texts \cup {NoText}]
  BY DEF XattrInit, MamStates
<1>2. tape \in Indexes /\ idx = tape
  <2>1. [k \in Keys |-> NoText] \in [Keys -> Texts \cup {NoText}]
    OBVIOUS
  <2>2. QED
    BY <2>1 DEF XattrInit, Indexes, Advisory
<1>3. XattrTypes
  BY <1>1, <1>2 DEF XattrInit, XattrTypes, XattrRequests
<1>4. QED
  BY <1>3 DEF XattrInit, XattrInv, LockCopiesAgree, CleanIsOnTape, ErrorsLock, PermHeld

\* What a user sets in the index without the lock state: the copies of that are as
\* they were, and the index is dirty.
LEMMA IndexChanges ==
  ASSUME XattrInv, mam'.lock = mam.lock, mam' \in [lock : MamStates, label : Texts \cup {NoText}],
         idx' \in Indexes, idx'.lock = idx.lock, mounted' = mounted, dirty' \in BOOLEAN,
         dirty' \/ (idx' = idx /\ dirty' = dirty),
         behind' = behind, tape' = tape, bits' = bits, call' \in [Users -> XattrRequests]
  PROVE  XattrInv'
<1>1. XattrTypes'
  BY DEF XattrInv, XattrTypes
<1>2. LockCopiesAgree'
  BY DEF XattrInv, LockCopiesAgree, UserBits
<1>3. CleanIsOnTape'
  BY DEF XattrInv, CleanIsOnTape
<1>4. ErrorsLock' /\ PermHeld'
  BY DEF XattrInv, ErrorsLock, PermHeld
<1>5. QED
  BY <1>1, <1>2, <1>3, <1>4 DEF XattrInv

LEMMA MountKeeps == ASSUME XattrInv, Mount PROVE XattrInv'
<1>1. PICK protected \in BOOLEAN :
        /\ bits' = AtMount(protected)
        /\ \/ /\ mam' = IF FromIndex(tape.lock) THEN [mam EXCEPT !.lock = MamOf[BitOf(tape.lock)]] ELSE mam
              /\ behind' = "none"
           \/ FromIndex(tape.lock) /\ behind' = "mam" /\ UNCHANGED mam
  BY DEF Mount
<1>2. /\ mounted' = TRUE /\ idx' = tape /\ UNCHANGED <<tape, dirty, call>>
      /\ XattrTypes /\ tape.lock \in Advisory /\ tape \in Indexes
  BY DEF Mount, XattrInv, XattrTypes, Indexes
<1>3. /\ bits' \subseteq AllBits
      /\ \A e \in Errors : e \in bits' => "LOCKED" \in bits'
      /\ tape.lock = "permlocked" => bits' \cap (Errors \cup {"PERM_LOCKED"}) # {}
      /\ protected => "PHY_WRITE_PRTCT" \in bits'
      /\ FromIndex(tape.lock) /\ ~protected => UserBits' = UserBitsOf(BitOf(tape.lock))
  BY <1>1, <1>2, AtMountBits DEF UserBits
<1>4. FromIndex(tape.lock) => BitOf(tape.lock) \in DOMAIN MamOf /\ MamOf[BitOf(tape.lock)] \in MamStates
  BY <1>2, BitOfText, LockTexts DEF FromIndex, Advisory, MamStates
<1>5. /\ mam' \in [lock : MamStates, label : Texts \cup {NoText}]
      /\ FromIndex(tape.lock) /\ behind' = "none" => mam'.lock = MamOf[BitOf(tape.lock)]
      /\ ~FromIndex(tape.lock) => mam' = mam /\ behind' = "none"
      /\ behind' \in {"none", "mam"}
  BY <1>1, <1>2, <1>4 DEF XattrTypes
<1>6. XattrTypes'
  BY <1>2, <1>3, <1>5 DEF XattrTypes
<1>7. LockCopiesAgree'
  <2> SUFFICES ASSUME ~protected, mam'.lock \notin WriteErrors, tape.lock # "none"
               PROVE  /\ behind' = "none" => \E b \in DOMAIN MamOf : mam'.lock = MamOf[b] /\ UserBits' = UserBitsOf(b)
                      /\ UserBits' = UserBitsOf(BitOf(tape.lock))
    BY <1>2, <1>3, <1>5 DEF LockCopiesAgree
  <2>1. FromIndex(tape.lock)
    BY <1>5 DEF FromIndex
  <2>2. QED
    BY <1>3, <1>4, <1>5, <2>1
<1>8. CleanIsOnTape' /\ ErrorsLock' /\ PermHeld'
  BY <1>2, <1>3 DEF CleanIsOnTape, ErrorsLock, PermHeld
<1>9. QED
  BY <1>6, <1>7, <1>8 DEF XattrInv

LEMMA LockSetKeeps == ASSUME XattrInv, NEW u \in Users, LockSet(u) PROVE XattrInv'
<1> DEFINE b == call[u].to
<1>1. b \in {"UNLOCKED", "LOCKED", "PERM_LOCKED"}
  <2>1. call[u] \in XattrRequests /\ call[u].op = "set"
    BY DEF LockSet, XattrInv, XattrTypes
  <2>2. QED
    BY <2>1, LockTexts DEF XattrRequests, NoCall
<1>2. /\ call' \in [Users -> XattrRequests] /\ UNCHANGED <<tape, mounted>>
      /\ bits \subseteq AllBits /\ idx \in Indexes /\ mam \in [lock : MamStates, label : Texts \cup {NoText}]
  BY DEF LockSet, XattrInv, XattrTypes, XattrRequests
<1>3. CASE UNCHANGED <<mam, idx, dirty, bits, behind>>
  BY <1>2, <1>3, IndexChanges DEF XattrInv, XattrTypes
<1>4. ASSUME MayBecome(bits, b), bits' = WithBit(bits, b)
      PROVE  /\ bits \cap Errors = {} /\ ("PERM_LOCKED" \in bits => b = "PERM_LOCKED")
             /\ bits' \subseteq AllBits /\ bits' \cap Errors = {}
             /\ UserBits' = UserBitsOf(b)
             /\ "PHY_WRITE_PRTCT" \in bits' <=> "PHY_WRITE_PRTCT" \in bits
  <2>1. bits \cap Errors = {} /\ ("PERM_LOCKED" \in bits => b = "PERM_LOCKED")
    BY <1>1, <1>4, MayBecomeKeeps DEF XattrInv, ErrorsLock
  <2>2. QED
    BY <1>1, <1>2, <1>4, <2>1, WithBitChanges DEF UserBits
<1>5. CASE /\ MayBecome(bits, b) /\ mam' = [mam EXCEPT !.lock = MamOf[b]] /\ bits' = WithBit(bits, b)
           /\ \/ idx' = [idx EXCEPT !.lock = LockString[b]] /\ dirty' = TRUE /\ behind' = "none"
              \/ behind' = "index" /\ UNCHANGED <<idx, dirty>>
  <2>1. mam'.lock = MamOf[b] /\ mam' \in [lock : MamStates, label : Texts \cup {NoText}]
    <3>1. MamOf[b] \in MamStates
      BY <1>1, LockTexts DEF MamStates
    <3>2. QED
      BY <1>2, <1>5, <3>1
  <2>2. CASE idx' = [idx EXCEPT !.lock = LockString[b]] /\ dirty' = TRUE /\ behind' = "none"
    <3>1. idx' \in Indexes /\ idx'.lock = LockString[b]
      <4>1. LockString[b] \in Advisory
        BY <1>1, LockTexts DEF Advisory
      <4>2. QED
        BY <1>2, <2>2, <4>1 DEF Indexes
    <3>2. BitOf(idx'.lock) = b /\ (idx'.lock = "permlocked" <=> b = "PERM_LOCKED")
      BY <1>1, <3>1, BitOfText, LockTexts
    <3>3. XattrTypes'
      BY <1>2, <1>4, <1>5, <2>1, <2>2, <3>1 DEF XattrInv, XattrTypes
    <3>4. LockCopiesAgree'
      BY <1>1, <1>4, <1>5, <2>1, <2>2, <3>2, LockTexts DEF LockCopiesAgree
    <3>5. CleanIsOnTape' /\ ErrorsLock'
      BY <1>4, <1>5, <2>2 DEF CleanIsOnTape, ErrorsLock
    <3>6. PermHeld'
      <4>1. b = "PERM_LOCKED" => "PERM_LOCKED" \in bits'
        BY <1>4, <1>5 DEF UserBits, UserBitsOf
      <4>2. mounted /\ idx.lock = "permlocked" => b = "PERM_LOCKED"
        BY <1>4, <1>5 DEF XattrInv, PermHeld
      <4>3. QED
        BY <1>2, <3>2, <4>1, <4>2 DEF XattrInv, PermHeld
    <3>7. QED
      BY <3>3, <3>4, <3>5, <3>6 DEF XattrInv
  <2>3. CASE behind' = "index" /\ UNCHANGED <<idx, dirty>>
    <3>1. XattrTypes'
      BY <1>2, <1>4, <1>5, <2>1, <2>3 DEF XattrInv, XattrTypes
    <3>2. LockCopiesAgree'
      BY <1>1, <1>4, <1>5, <2>1, <2>3, LockTexts DEF LockCopiesAgree
    <3>3. CleanIsOnTape' /\ ErrorsLock'
      BY <1>2, <1>4, <1>5, <2>3 DEF XattrInv, CleanIsOnTape, ErrorsLock
    <3>4. PermHeld'
      <4>1. "PERM_LOCKED" \in bits => "PERM_LOCKED" \in bits'
        BY <1>4, <1>5 DEF UserBits, UserBitsOf
      <4>2. QED
        BY <1>2, <1>4, <1>5, <2>3, <4>1 DEF XattrInv, PermHeld
    <3>5. QED
      BY <3>1, <3>2, <3>3, <3>4 DEF XattrInv
  <2>4. QED
    BY <1>5, <2>2, <2>3
<1>6. QED
  BY <1>3, <1>5 DEF LockSet

LEMMA XattrStep == ASSUME XattrInv, [XattrNext]_xattrVars PROVE XattrInv'
<1>0. /\ XattrTypes /\ idx \in Indexes /\ mam \in [lock : MamStates, label : Texts \cup {NoText}]
      /\ call \in [Users -> XattrRequests] /\ dirty \in BOOLEAN
  BY DEF XattrInv, XattrTypes
<1>1. CASE Mount
  BY <1>1, MountKeeps
<1>2. CASE WriteBlock
  BY <1>0, <1>2, IndexChanges DEF WriteBlock, medium
<1>3. CASE WriteFails
  <2>1. /\ mam' \in [lock : MamStates, label : Texts \cup {NoText}]
        /\ mam'.lock = mam.lock \/ mam'.lock \in WriteErrors
    <3>1. CASE mam' = mam
      BY <1>0, <3>1
    <3>2. ASSUME NEW part \in {"ip", "dp"}, mam' = [mam EXCEPT !.lock = RecordError(part)]
          PROVE  /\ mam' \in [lock : MamStates, label : Texts \cup {NoText}]
                 /\ mam'.lock = mam.lock \/ mam'.lock \in WriteErrors
      <4>1. RecordError(part) \in MamStates /\ (RecordError(part) = mam.lock \/ RecordError(part) \in WriteErrors)
        BY <1>0, <3>2 DEF RecordError, MamStates, WriteErrors
      <4>2. QED
        BY <1>0, <3>2, <4>1
    <3>3. QED
      BY <1>3, <3>1, <3>2 DEF WriteFails
  <2>2. XattrTypes'
    BY <1>3, <2>1 DEF WriteFails, XattrInv, XattrTypes
  <2>3. LockCopiesAgree'
    BY <1>3, <2>1 DEF WriteFails, XattrInv, LockCopiesAgree, UserBits
  <2>4. CleanIsOnTape' /\ ErrorsLock' /\ PermHeld'
    BY <1>3 DEF WriteFails, XattrInv, CleanIsOnTape, ErrorsLock, PermHeld
  <2>5. QED
    BY <2>2, <2>3, <2>4 DEF XattrInv
<1>4. CASE SyncIndex
  BY <1>4 DEF SyncIndex, IndexToTape, XattrInv, XattrTypes, LockCopiesAgree, UserBits, CleanIsOnTape, ErrorsLock, PermHeld
<1>5. CASE Unmount
  <2>1. tape' \in {tape, idx} /\ mounted' = FALSE /\ dirty' = FALSE /\ bits' = {} /\ UNCHANGED <<mam, idx, call, behind>>
    BY <1>5 DEF Unmount, IndexToTape
  <2>2. QED
    BY <2>1 DEF XattrInv, XattrTypes, LockCopiesAgree, UserBits, CleanIsOnTape, ErrorsLock, PermHeld
<1>6. CASE Crash
  <2>1. call' \in [Users -> XattrRequests] /\ mounted' = FALSE /\ dirty' = FALSE /\ bits' = {} /\ UNCHANGED <<mam, tape, idx, behind>>
    BY <1>6 DEF Crash, medium, XattrRequests
  <2>2. QED
    BY <2>1 DEF XattrInv, XattrTypes, LockCopiesAgree, UserBits, CleanIsOnTape, ErrorsLock, PermHeld
<1>7. ASSUME NEW u \in Users, LockGate(u) PROVE XattrInv'
  <2>1. call' \in [Users -> XattrRequests]
    <3>1. PICK b \in DOMAIN LockString : call' = [call EXCEPT ![u] = [op |-> "refresh", to |-> b]]
      BY <1>7 DEF LockGate
    <3>2. QED
      BY <1>0, <3>1 DEF XattrRequests
  <2>2. QED
    BY <1>0, <1>7, <2>1, IndexChanges DEF LockGate, medium
<1>8. ASSUME NEW u \in Users, LockRefresh(u) PROVE XattrInv'
  <2>1. call' \in [Users -> XattrRequests]
    <3>1. call[u] \in XattrRequests /\ call[u].op = "refresh" /\ call' = [call EXCEPT ![u].op = "set"]
      BY <1>0, <1>8 DEF LockRefresh
    <3>2. call[u] \in [op : {"refresh", "set"}, to : DOMAIN LockString]
      BY <3>1 DEF XattrRequests, NoCall
    <3>3. [call[u] EXCEPT !.op = "set"] \in XattrRequests
      BY <3>2 DEF XattrRequests
    <3>4. QED
      BY <1>0, <3>1, <3>3
  <2>2. /\ bits' \in {bits, Refreshed(bits, mam.lock)} /\ UNCHANGED <<mam, tape, idx, dirty, mounted, behind>>
        /\ bits \in SUBSET AllBits /\ mam.lock \in MamStates
    BY <1>0, <1>8 DEF LockRefresh, medium, XattrTypes
  <2>3. /\ bits \subseteq bits' /\ bits' \subseteq AllBits
        /\ bits' = bits \/ "LOCKED" \in bits'
        /\ mam.lock \notin WriteErrors => bits' = bits
        /\ "PHY_WRITE_PRTCT" \in bits' <=> "PHY_WRITE_PRTCT" \in bits
    BY <2>2, RefreshedAdds
  <2>4. XattrTypes' /\ LockCopiesAgree' /\ CleanIsOnTape' /\ ErrorsLock'
    BY <2>1, <2>2, <2>3 DEF XattrInv, XattrTypes, LockCopiesAgree, UserBits, CleanIsOnTape, ErrorsLock
  <2>5. PermHeld'
    BY <2>2, <2>3 DEF XattrInv, PermHeld
  <2>6. QED
    BY <2>4, <2>5 DEF XattrInv
<1>9. ASSUME NEW u \in Users, LockSet(u) PROVE XattrInv'
  BY <1>9, LockSetKeeps
<1>10. ASSUME NEW u \in Users, NameIndex(u) PROVE XattrInv'
  <2>1. PICK t \in Texts \cup {NoText} :
          idx' = [idx EXCEPT !.name = t] /\ call' = [call EXCEPT ![u] = [op |-> "mam", to |-> t]]
    BY <1>10 DEF NameIndex
  <2>2. call' \in [Users -> XattrRequests] /\ idx' \in Indexes /\ idx'.lock = idx.lock
    BY <1>0, <2>1 DEF XattrRequests, Indexes
  <2>3. QED
    BY <1>0, <1>10, <2>2, IndexChanges DEF NameIndex, medium
<1>11. ASSUME NEW u \in Users, NameMam(u) PROVE XattrInv'
  <2>1. call' \in [Users -> XattrRequests]
    BY <1>0, <1>11 DEF NameMam, XattrRequests
  <2>2. call[u].to \in Texts \cup {NoText}
    <3>1. call[u] \in XattrRequests /\ call[u].op = "mam"
      BY <1>0, <1>11 DEF NameMam
    <3>2. QED
      BY <3>1 DEF XattrRequests, NoCall
  <2>3. mam' \in [lock : MamStates, label : Texts \cup {NoText}] /\ mam'.lock = mam.lock
    BY <1>0, <1>11, <2>2 DEF NameMam
  <2>4. QED
    BY <1>0, <1>11, <2>1, <2>3, IndexChanges DEF NameMam
<1>12. ASSUME NEW u \in Users, NameRemove(u) PROVE XattrInv'
  <2>1. idx' \in Indexes /\ idx'.lock = idx.lock
    BY <1>0, <1>12 DEF NameRemove, Indexes
  <2>2. QED
    BY <1>0, <1>12, <2>1, IndexChanges DEF NameRemove, medium
<1>13. ASSUME NEW u \in Users, SetComment(u) PROVE XattrInv'
  <2>1. PICK t \in Texts \cup {NoText} : idx' = [idx EXCEPT !.comment = t]
    BY <1>13 DEF SetComment
  <2>2. idx' \in Indexes /\ idx'.lock = idx.lock
    BY <1>0, <2>1 DEF Indexes
  <2>3. QED
    BY <1>0, <1>13, <2>2, IndexChanges DEF SetComment, medium
<1>14. ASSUME NEW k \in Keys, NEW t \in Texts \cup {NoText}, idx' = [idx EXCEPT !.stored[k] = t]
       PROVE  idx' \in Indexes /\ idx'.lock = idx.lock
  <2>1. idx.stored \in [Keys -> Texts \cup {NoText}]
    BY <1>0 DEF Indexes
  <2>2. [idx.stored EXCEPT ![k] = t] \in [Keys -> Texts \cup {NoText}]
    BY <2>1
  <2>3. QED
    BY <1>0, <1>14, <2>2 DEF Indexes
<1>15. ASSUME NEW u \in Users, SetStored(u) PROVE XattrInv'
  <2>1. idx' \in Indexes /\ idx'.lock = idx.lock
    BY <1>14, <1>15 DEF SetStored
  <2>2. QED
    BY <1>0, <1>15, <2>1, IndexChanges DEF SetStored, medium
<1>16. ASSUME NEW u \in Users, RemoveStored(u) PROVE XattrInv'
  <2>1. idx' \in Indexes /\ idx'.lock = idx.lock
    BY <1>14, <1>16 DEF RemoveStored
  <2>2. QED
    BY <1>0, <1>16, <2>1, IndexChanges DEF RemoveStored, medium
<1>17. CASE UNCHANGED xattrVars
  BY <1>0, <1>17, IndexChanges DEF xattrVars
<1>18. QED
  BY <1>1, <1>2, <1>3, <1>4, <1>5, <1>6, <1>7, <1>8, <1>9, <1>10, <1>11, <1>12, <1>13, <1>15, <1>16, <1>17
     DEF XattrNext, UserStep

\* A volume with a write error is not written to, and the error stays.
LEMMA ErrorStays ==
  ASSUME XattrInv, [XattrNext]_xattrVars, mounted, \E b \in Errors : b \in bits
  PROVE  (mam.lock \in WriteErrors => mam'.lock \in WriteErrors) /\ writes' = writes
<1>1. AdvisoryReadonly(bits)
  BY DEF XattrInv, ErrorsLock, AdvisoryReadonly, BitFound, Errors
<1>2. CASE \E u \in Users : LockSet(u)
  <2>1. PICK u \in Users : LockSet(u)
    BY <1>2
  <2>2. call[u].to \in {"UNLOCKED", "LOCKED", "PERM_LOCKED"}
    <3>1. call[u] \in XattrRequests /\ call[u].op = "set"
      BY <2>1 DEF LockSet, XattrInv, XattrTypes
    <3>2. QED
      BY <3>1, LockTexts DEF XattrRequests, NoCall
  <2>3. ~MayBecome(bits, call[u].to)
    BY <2>2, MayBecomeKeeps DEF XattrInv, ErrorsLock
  <2>4. QED
    BY <2>1, <2>3 DEF LockSet
<1>3. CASE WriteFails
  <2>1. CASE mam' = mam
    BY <1>3, <2>1 DEF WriteFails
  <2>2. ASSUME NEW part \in {"ip", "dp"}, mam' = [mam EXCEPT !.lock = RecordError(part)]
        PROVE  mam.lock \in WriteErrors => mam'.lock \in WriteErrors
    <3>1. mam'.lock = RecordError(part)
      BY <2>2 DEF XattrInv, XattrTypes
    <3>2. mam.lock \in WriteErrors => RecordError(part) \in WriteErrors
      BY <2>2 DEF RecordError, WriteErrors
    <3>3. QED
      BY <3>1, <3>2
  <2>3. QED
    BY <1>3, <2>1, <2>2 DEF WriteFails
<1>4. CASE \E u \in Users : NameMam(u)
  BY <1>4 DEF NameMam, XattrInv, XattrTypes
<1>5. CASE \/ SyncIndex \/ Unmount \/ Crash \/ UNCHANGED xattrVars
           \/ \E u \in Users : \/ LockGate(u) \/ LockRefresh(u) \/ NameIndex(u) \/ NameRemove(u)
                               \/ SetComment(u) \/ SetStored(u) \/ RemoveStored(u)
  BY <1>5 DEF SyncIndex, Unmount, Crash, xattrVars, medium, LockGate, LockRefresh, NameIndex, NameRemove,
     SetComment, SetStored, RemoveStored
<1>6. ~WriteBlock /\ ~Mount
  BY <1>1 DEF WriteBlock, Mount
<1>7. QED
  BY <1>2, <1>3, <1>4, <1>5, <1>6 DEF XattrNext, UserStep

\* An index on tape that says permlocked is only replaced by one that does.
LEMMA PermanentStays ==
  ASSUME XattrInv, [XattrNext]_xattrVars, tape.lock = "permlocked"
  PROVE  tape'.lock = "permlocked" /\ writes' = writes
<1>1. mounted => idx.lock = "permlocked" /\ AdvisoryReadonly(bits)
  BY DEF XattrInv, PermHeld, ErrorsLock, AdvisoryReadonly, BitFound, Errors
<1>2. ~WriteBlock
  BY <1>1 DEF WriteBlock
<1>3. CASE SyncIndex \/ Unmount
  BY <1>1, <1>3 DEF SyncIndex, Unmount, IndexToTape
<1>4. CASE Mount \/ WriteFails \/ Crash \/ UNCHANGED xattrVars \/ \E u \in Users : UserStep(u)
  BY <1>4 DEF Mount, WriteFails, Crash, xattrVars, medium, UserStep, LockGate, LockRefresh, LockSet, NameIndex,
     NameMam, NameRemove, SetComment, SetStored, RemoveStored
<1>5. QED
  BY <1>2, <1>3, <1>4 DEF XattrNext

-----------------------------------------------------------------------------
(* The theorems.                                                           *)

\* The index, the cartridge memory and the bit field agree on the lock state, for
\* any users that set it between each other's steps; of a change that failed only the
\* copy it did not reach is behind, and which that is (xattr.c:1307-1376, ltfs.c:4537).
THEOREM LockStatesAgree == XattrSpec => []LocksAgree
<1>1. XattrInv => LocksAgree
  BY DEF XattrInv, XattrTypes, Indexes, LocksAgree, XattrTypeOK, AllBits
<1>2. QED
  BY <1>1, XattrStarts, XattrStep, PTL DEF XattrSpec

\* No setter of an attribute that is kept in the index forgets the dirty mark.
THEOREM SettersMarkDirty == XattrSpec => []CleanIsOnTape
<1>1. XattrInv => CleanIsOnTape
  BY DEF XattrInv
<1>2. QED
  BY <1>1, XattrStarts, XattrStep, PTL DEF XattrSpec

\* A write error and a permanent lock outlive every unmount and crash, and let no
\* write through.
THEOREM ErrorsAndLocksStay == XattrSpec => Irrevocable
<1>1. XattrInv /\ [XattrNext]_xattrVars =>
        [(mounted /\ \E b \in {"PWE", "DPPWE", "IPPWE"} : b \in bits) =>
           (mam.lock \in WriteErrors => mam'.lock \in WriteErrors) /\ writes' = writes]_xattrVars
  BY ErrorStays DEF Errors
<1>2. XattrInv /\ [XattrNext]_xattrVars =>
        [tape.lock = "permlocked" => tape'.lock = "permlocked" /\ writes' = writes]_xattrVars
  BY PermanentStays
<1>3. QED
  BY <1>1, <1>2, XattrStarts, XattrStep, PTL DEF XattrSpec, Irrevocable, WriteErrorSticks, PermanentOnceWritten

-----------------------------------------------------------------------------
(* Path operations: the locks a request has, by where it stands.            *)

Lookups == {"root", "walk", "walk_enter", "child", "leave"}
OneByOne == {"r_gate", "r_enter", "r_meta", "r_find"}
BothLocked == {"r_check", "r_unlink", "r_move", "r_out"}
HasBoth(r) == r.pc \in BothLocked \/ (r.pc = "drop" /\ r.then = "r_out")
FirstSide(r) == IF r.first = "to" THEN r.todir ELSE r.fromdir

\* The directories of which it has shut the gate, those of which the readers are
\* out, those it reads, and those whose meta_lock it has.
Entered(r, d) ==
  \/ r.pc = "child" /\ LastLocked(r) /\ d = r.at
  \/ r.pc = "c_find" /\ d = r.at
  \/ r.pc \in {"u_check", "u_meta", "u_remove"} /\ d = r.up
  \/ r.pc \in {"r_meta", "r_find"} /\ d = Side(r)
  \/ r.pc \in OneByOne /\ r.side = 2 /\ d = FirstSide(r)
  \/ HasBoth(r) /\ d \in {r.fromdir, r.todir}
Gated(r, d) ==
  \/ Entered(r, d)
  \/ r.pc \in {"walk_enter", "c_enter"} /\ d = r.at
  \/ r.pc = "r_enter" /\ d = Side(r)
Reads(r, d) ==
  \/ r.pc \in {"walk", "walk_enter"} /\ d = r.chain
  \/ r.pc = "child" /\ ~LastLocked(r) /\ d = r.at
  \/ r.pc = "leave" /\ d = r.up
  \/ r.pc = "counting" /\ d = r.at
HasMeta(r, d) ==
  \/ r.pc = "u_remove" /\ d = r.up
  \/ r.pc = "r_find" /\ d = Side(r)
  \/ r.pc \in OneByOne /\ r.side = 2 /\ d = FirstSide(r)
  \/ HasBoth(r) /\ d \in {r.fromdir, r.todir}
Renames(r) ==
  \/ r.pc \in Lookups /\ r.op = "rename"
  \/ r.pc \in {"r_nodir", "r_same"} \cup OneByOne
  \/ HasBoth(r)
  \/ r.pc = "drop" /\ r.then = "r_nodir"

IsRequest(r) ==
  /\ DOMAIN r = DOMAIN Idle
  /\ r.pc \notin {"walk", "walk_enter"} => r.chain = None
  /\ r.pc = "root" => r.up = None
  /\ r.pc = "walk_enter" => LastLocked(r)
  /\ r.pc \in Lookups => r.side = 1 /\ r.op \in {"open", "create", "unlink", "rename"}
  /\ r.pc \in OneByOne => r.side \in {1, 2}
  /\ r.pc = "drop" => r.then \in {"idle", "open", "r_nodir", "r_out"}

\* It has the meta_lock for a while, or for the change of one count.
Has(r, d) == HasMeta(r, d) \/ d = r.held

\* The locks of dentry d are those that thread t says it has; an exit that strayed
\* may have released a meta_lock that t still believes it has.
LocksOf(t, r, d) ==
  /\ contents[d].writer = t <=> Gated(r, d)
  /\ meta[d] = t => Has(r, d)
  /\ ~strayed /\ Has(r, d) => meta[d] = t
  /\ ~strayed /\ d = r.held => ~HasMeta(r, d)
  /\ t \in contents[d].readers => Reads(r, d)
  /\ Entered(r, d) => contents[d].readers = {}

LockTypes ==
  /\ contents \in [Dentries -> [writer : Threads \cup {None}, readers : SUBSET Threads]]
  /\ meta \in [Dentries -> Threads \cup {None}]
  /\ rename_lock \in Threads \cup {None}
  /\ thr = [t \in Threads |-> thr[t]]

\* No count is being changed by who has nothing to do.
HeldInside(r) == r.pc \in {"idle", "open"} => r.held = None

LocksMatch ==
  /\ LockTypes
  /\ \A t \in Threads : IsRequest(thr[t]) /\ HeldInside(thr[t])
  /\ \A t \in Threads, d \in Dentries : LocksOf(t, thr[t], d)
  /\ \A t \in Threads : rename_lock = t <=> Renames(thr[t])

\* What a step of thread t to r2 does to the locks of d.
Moves(t, d) ==
  /\ contents'[d].writer # contents[d].writer =>
       contents[d].writer \in {t, None} /\ contents'[d].writer \in {t, None}
  /\ meta'[d] # meta[d] => meta'[d] \in {t, None} /\ (~strayed' => meta[d] \in {t, None})
  /\ contents'[d].readers \subseteq contents[d].readers \cup {t}
  /\ t \in contents'[d].readers \ contents[d].readers => contents[d].writer = None
Step(t, r2) ==
  /\ thr' = [thr EXCEPT ![t] = r2]
  /\ IsRequest(r2) /\ HeldInside(r2)
  /\ LockTypes' /\ (strayed => strayed')
  /\ \A d \in Dentries : LocksOf(t, r2, d)' /\ Moves(t, d)
  /\ rename_lock' = t <=> Renames(r2)
  /\ rename_lock' # rename_lock => rename_lock \in {t, None} /\ rename_lock' \in {t, None}

\* If what the step does to every lock fits where t was and where it is, it keeps the match.
LEMMA StepKeeps ==
  ASSUME LocksMatch, NEW t \in Threads, NEW r2, Step(t, r2)
  PROVE  LocksMatch'
  <1>1. \A s \in Threads : thr'[s] = IF s = t THEN r2 ELSE thr[s]
    BY DEF LocksMatch, LockTypes, Step
  <1>2. LockTypes' /\ \A s \in Threads : (IsRequest(thr[s]) /\ HeldInside(thr[s]))'
    BY <1>1 DEF LocksMatch, Step
  <1>3. ASSUME NEW s \in Threads, NEW d \in Dentries PROVE LocksOf(s, thr[s], d)'
    <2>1. CASE s = t
      BY <1>1, <2>1 DEF Step, LocksOf
    <2>2. CASE s # t
      <3>1. LocksOf(s, thr[s], d) /\ Moves(t, d) /\ thr'[s] = thr[s] /\ (strayed => strayed')
        BY <1>1, <2>2 DEF LocksMatch, Step
      <3>2. s # None
        BY TreeAssumption
      <3>3. contents'[d].writer = s <=> Gated(thr[s], d)
        BY <3>1, <3>2, <2>2 DEF LocksOf, Moves
      <3>4. /\ meta'[d] = s => Has(thr[s], d)
            /\ ~strayed' /\ Has(thr[s], d) => meta'[d] = s
            /\ ~strayed' /\ d = thr[s].held => ~HasMeta(thr[s], d)
        BY <3>1, <3>2, <2>2 DEF LocksOf, Moves
      <3>5. s \in contents'[d].readers => Reads(thr[s], d)
        BY <3>1, <2>2 DEF LocksOf, Moves
      <3>6. Entered(thr[s], d) => contents'[d].readers = {}
        <4>1. SUFFICES ASSUME Entered(thr[s], d) PROVE contents'[d].readers = {}
          OBVIOUS
        <4>2. contents[d].writer = s /\ contents[d].readers = {}
          BY <3>1, <4>1 DEF LocksOf, Gated
        <4> QED
          BY <3>1, <3>2, <4>2 DEF Moves
      <3> QED
        BY <3>1, <3>3, <3>4, <3>5, <3>6 DEF LocksOf
    <2> QED
      BY <2>1, <2>2
  <1>4. ASSUME NEW s \in Threads PROVE (rename_lock = s <=> Renames(thr[s]))'
    <2>1. s # None
      BY TreeAssumption
    <2> QED
      BY <1>1, <2>1 DEF LocksMatch, Step
  <1> QED
    BY <1>2, <1>3, <1>4 DEF LocksMatch
-----------------------------------------------------------------------------
ContentsLocks == [Dentries -> [writer : Threads \cup {None}, readers : SUBSET Threads]]

\* The multi-reader lock, one operation at a time. (libltfs/ltfs_locking.h)
LEMMA ReadingLock ==
  ASSUME NEW C \in ContentsLocks, NEW p, NEW t \in Threads
  PROVE  /\ Reading(C, p, t) \in ContentsLocks
         /\ \A d \in Dentries :
              /\ Reading(C, p, t)[d].writer = C[d].writer
              /\ Reading(C, p, t)[d].readers = IF d = p THEN C[d].readers \cup {t} ELSE C[d].readers
  BY DEF ContentsLocks, Reading

LEMMA ReadDoneLock ==
  ASSUME NEW C \in ContentsLocks, NEW p, NEW t \in Threads
  PROVE  /\ ReadDone(C, p, t) \in ContentsLocks
         /\ \A d \in Dentries :
              /\ ReadDone(C, p, t)[d].writer = C[d].writer
              /\ ReadDone(C, p, t)[d].readers = IF d = p THEN C[d].readers \ {t} ELSE C[d].readers
  <1>1. CASE p = None
    BY <1>1, TreeAssumption DEF ContentsLocks, ReadDone
  <1>2. CASE p # None
    BY <1>2 DEF ContentsLocks, ReadDone
  <1> QED
    BY <1>1, <1>2

LEMMA WritingLock ==
  ASSUME NEW C \in ContentsLocks, NEW p, NEW t \in Threads
  PROVE  /\ Writing(C, p, t) \in ContentsLocks
         /\ \A d \in Dentries :
              /\ Writing(C, p, t)[d].writer = IF d = p THEN t ELSE C[d].writer
              /\ Writing(C, p, t)[d].readers = C[d].readers
  BY DEF ContentsLocks, Writing

LEMMA WriteDoneLock ==
  ASSUME NEW C \in ContentsLocks, NEW p
  PROVE  /\ WriteDone(C, p) \in ContentsLocks
         /\ \A d \in Dentries :
              /\ WriteDone(C, p)[d].writer = IF d = p THEN None ELSE C[d].writer
              /\ WriteDone(C, p)[d].readers = C[d].readers
  BY DEF ContentsLocks, WriteDone

-----------------------------------------------------------------------------
\* A step of t from r to s takes and gives back the locks that s has and r has not,
\* and the other way round.
ContentsStep(t, r, s) ==
  /\ contents' \in ContentsLocks
  /\ \A d \in Dentries :
       /\ contents'[d].writer = IF Gated(s, d) THEN t ELSE IF Gated(r, d) THEN None ELSE contents[d].writer
       /\ Gated(s, d) /\ ~Gated(r, d) => contents[d].writer = None
       /\ contents'[d].readers \subseteq contents[d].readers \cup {t}
       /\ t \in contents'[d].readers \ contents[d].readers => contents[d].writer = None
       /\ t \in contents'[d].readers => Reads(s, d)
       /\ Entered(s, d) => contents'[d].readers = {}
MetaStep(t, r, s) ==
  /\ meta' \in [Dentries -> Threads \cup {None}]
  /\ \A d \in Dentries :
       /\ meta'[d] \in {meta[d], None, t}
       /\ meta'[d] = t => HasMeta(s, d)
       /\ ~strayed => meta'[d] = IF HasMeta(s, d) THEN t ELSE IF Has(r, d) THEN None ELSE meta[d]
       /\ HasMeta(s, d) /\ ~HasMeta(r, d) => meta[d] = None
\* The lock of the count is given back, and nothing else.
MetaLeft(r) == meta' = Unlocked(meta, r.held)
RenameStep(t, r, s) ==
  \/ rename_lock' = rename_lock /\ (Renames(s) <=> Renames(r))
  \/ rename_lock = None /\ rename_lock' = t /\ Renames(s)
  \/ Renames(r) /\ rename_lock' = None /\ ~Renames(s)
Now(t, r) ==
  /\ r = thr[t] /\ IsRequest(r) /\ contents \in ContentsLocks
  /\ meta \in [Dentries -> Threads \cup {None}] /\ rename_lock \in Threads \cup {None}
  /\ \A d \in Dentries : LocksOf(t, r, d)
  /\ rename_lock = t <=> Renames(r)

\* The locks of thread t, from the invariant.
LEMMA NowIs == ASSUME LocksMatch, NEW t \in Threads, NEW r, r = thr[t] PROVE Now(t, r)
  BY DEF LocksMatch, LockTypes, ContentsLocks, Now

\* Which count it is changing tells nothing of the other locks of a request.
Apart(q, r, h, n) == q = [r EXCEPT !.held = h, !.seen = n]
AsBefore(q, r) ==
  /\ IsRequest(q) /\ q.pc = r.pc /\ (Renames(q) <=> Renames(r))
  /\ \A d \in Dentries : /\ Gated(q, d) <=> Gated(r, d)
                         /\ Entered(q, d) <=> Entered(r, d)
                         /\ Reads(q, d) <=> Reads(r, d)
                         /\ HasMeta(q, d) <=> HasMeta(r, d)

LEMMA HeldApart ==
  ASSUME NEW r, IsRequest(r), NEW h, NEW n, NEW q, Apart(q, r, h, n)
  PROVE  AsBefore(q, r) /\ q.held = h
  <1>1. /\ DOMAIN q = DOMAIN Idle /\ q.held = h /\ q.pc = r.pc /\ q.op = r.op /\ q.todo = r.todo /\ q.at = r.at
        /\ q.up = r.up /\ q.chain = r.chain /\ q.then = r.then /\ q.fromdir = r.fromdir /\ q.todir = r.todir
        /\ q.first = r.first /\ q.side = r.side
    BY DEF Apart, IsRequest, Idle
  <1>2. /\ Side(q) = Side(r) /\ FirstSide(q) = FirstSide(r) /\ (HasBoth(q) <=> HasBoth(r))
        /\ (LastLocked(q) <=> LastLocked(r))
    BY <1>1 DEF Side, IsTo, FirstSide, HasBoth, LastLocked
  <1>3. IsRequest(q) /\ (Renames(q) <=> Renames(r))
    BY <1>1, <1>2 DEF IsRequest, Renames
  <1>4. ASSUME NEW d \in Dentries
        PROVE  /\ Gated(q, d) <=> Gated(r, d)
               /\ Entered(q, d) <=> Entered(r, d)
               /\ Reads(q, d) <=> Reads(r, d)
               /\ HasMeta(q, d) <=> HasMeta(r, d)
    BY <1>1, <1>2 DEF Gated, Entered, Reads, HasMeta
  <1> QED
    BY <1>1, <1>3, <1>4 DEF AsBefore

\* A step of t whose locks change as its request says keeps the match.
LEMMA LockStep ==
  ASSUME LocksMatch, NEW t \in Threads, NEW r, NEW s, Now(t, r), IsRequest(s), Become(t, s),
         ContentsStep(t, r, s), MetaStep(t, r, s), RenameStep(t, r, s)
  PROVE  LocksMatch'
  <1>0. PICK q : Apart(q, s, None, 0)
    BY DEF Apart
  <1>1. t # None /\ strayed' = strayed
    BY TreeAssumption DEF Become
  <1>q. /\ IsRequest(q) /\ q.held = None /\ (Renames(q) <=> Renames(s))
        /\ \A d \in Dentries : /\ Gated(q, d) <=> Gated(s, d)
                               /\ Entered(q, d) <=> Entered(s, d)
                               /\ Reads(q, d) <=> Reads(s, d)
                               /\ HasMeta(q, d) <=> HasMeta(s, d)
    <2>1. AsBefore(q, s) /\ q.held = None
      BY <1>0, HeldApart
    <2> QED
      BY <2>1 DEF AsBefore
  <1>2. ASSUME NEW d \in Dentries PROVE LocksOf(t, q, d)' /\ Moves(t, d)
    <2>1. LocksOf(t, r, d)
      BY DEF Now
    <2>2. contents'[d].writer = t <=> Gated(q, d)
      BY <1>1, <1>q, <2>1 DEF ContentsStep, LocksOf
    <2>h. d # q.held
      BY <1>q, TreeAssumption
    <2>3. /\ meta'[d] = t => Has(q, d)
          /\ ~strayed' /\ Has(q, d) => meta'[d] = t
      BY <1>1, <1>q, <2>1, <2>h DEF MetaStep, LocksOf, Has
    <2>4. LocksOf(t, q, d)'
      BY <1>q, <2>2, <2>3, <2>h DEF ContentsStep, LocksOf
    <2>5. contents'[d].writer # contents[d].writer =>
            contents[d].writer \in {t, None} /\ contents'[d].writer \in {t, None}
      BY <1>1, <2>1 DEF ContentsStep, LocksOf
    <2>6. meta'[d] # meta[d] => meta'[d] \in {t, None} /\ (~strayed' => meta[d] \in {t, None})
      BY <1>1, <2>1 DEF MetaStep, LocksOf, Has
    <2>7. Moves(t, d)
      BY <2>5, <2>6 DEF ContentsStep, Moves
    <2> QED
      BY <2>4, <2>7
  <1>3. LockTypes'
    BY DEF LockTypes, ContentsLocks, ContentsStep, MetaStep, RenameStep, Now, LocksMatch, Become
  <1>4. /\ rename_lock' = t <=> Renames(q)
        /\ rename_lock' # rename_lock => rename_lock \in {t, None} /\ rename_lock' \in {t, None}
    BY <1>1, <1>q DEF RenameStep, Now
  <1>5. Step(t, q)
    BY <1>0, <1>1, <1>q, <1>2, <1>3, <1>4 DEF Step, Become, HeldInside, Apart
  <1> QED
    BY <1>5, StepKeeps

\* The ways in which contents_locks change.
LEMMA ContentsQuiet ==
  ASSUME NEW t \in Threads, NEW r, NEW s, Now(t, r), contents' = contents,
         \A d \in Dentries : /\ Gated(s, d) <=> Gated(r, d)
                             /\ Reads(r, d) => Reads(s, d)
                             /\ Entered(s, d) => Entered(r, d) \/ contents[d].readers = {}
  PROVE  ContentsStep(t, r, s)
  <1>1. ASSUME NEW d \in Dentries
        PROVE  /\ contents[d].writer = IF Gated(s, d) THEN t ELSE IF Gated(r, d) THEN None ELSE contents[d].writer
               /\ t \in contents[d].readers => Reads(s, d)
               /\ Entered(s, d) => contents[d].readers = {}
    <2>1. LocksOf(t, r, d)
      BY DEF Now
    <2> QED
      BY <2>1 DEF LocksOf
  <1> QED
    BY <1>1 DEF ContentsStep, Now

LEMMA ContentsReading ==
  ASSUME NEW t \in Threads, NEW r, NEW s, Now(t, r), NEW p, contents' = Reading(contents, p, t),
         p \in Dentries => contents[p].writer = None,
         \A d \in Dentries : /\ Gated(s, d) <=> Gated(r, d)
                             /\ Reads(r, d) \/ d = p => Reads(s, d)
                             /\ ~Entered(s, d)
  PROVE  ContentsStep(t, r, s)
  <1>0. contents \in ContentsLocks
    BY DEF Now
  <1>1. /\ contents' \in ContentsLocks
        /\ \A d \in Dentries : /\ contents'[d].writer = contents[d].writer
                               /\ contents'[d].readers = IF d = p THEN contents[d].readers \cup {t} ELSE contents[d].readers
    BY <1>0, ReadingLock
  <1>2. ASSUME NEW d \in Dentries
        PROVE  /\ contents[d].writer = IF Gated(s, d) THEN t ELSE IF Gated(r, d) THEN None ELSE contents[d].writer
               /\ t \in contents'[d].readers => Reads(s, d)
    <2>1. LocksOf(t, r, d)
      BY DEF Now
    <2> QED
      BY <1>1, <2>1 DEF LocksOf
  <1> QED
    BY <1>1, <1>2 DEF ContentsStep

LEMMA ContentsReadDone ==
  ASSUME NEW t \in Threads, NEW r, NEW s, Now(t, r), NEW p, contents' = ReadDone(contents, p, t),
         \A d \in Dentries : /\ Gated(s, d) <=> Gated(r, d)
                             /\ Reads(r, d) /\ d # p => Reads(s, d)
                             /\ Entered(s, d) => Entered(r, d) \/ contents[d].readers = {}
  PROVE  ContentsStep(t, r, s)
  <1>0. contents \in ContentsLocks
    BY DEF Now
  <1>1. /\ contents' \in ContentsLocks
        /\ \A d \in Dentries : /\ contents'[d].writer = contents[d].writer
                               /\ contents'[d].readers = IF d = p THEN contents[d].readers \ {t} ELSE contents[d].readers
    BY <1>0, ReadDoneLock
  <1>2. ASSUME NEW d \in Dentries
        PROVE  /\ contents[d].writer = IF Gated(s, d) THEN t ELSE IF Gated(r, d) THEN None ELSE contents[d].writer
               /\ t \in contents'[d].readers => Reads(s, d)
               /\ Entered(s, d) => contents'[d].readers = {}
    <2>1. LocksOf(t, r, d)
      BY DEF Now
    <2> QED
      BY <1>1, <2>1 DEF LocksOf
  <1> QED
    BY <1>1, <1>2 DEF ContentsStep

LEMMA ContentsWriting ==
  ASSUME NEW t \in Threads, NEW r, NEW s, Now(t, r), NEW p, contents' = Writing(contents, p, t),
         p \in Dentries => contents[p].writer = None,
         \A d \in Dentries : /\ Gated(s, d) <=> Gated(r, d) \/ d = p
                             /\ Reads(r, d) => Reads(s, d)
                             /\ Entered(s, d) => Entered(r, d)
  PROVE  ContentsStep(t, r, s)
  <1>0. contents \in ContentsLocks
    BY DEF Now
  <1>1. /\ contents' \in ContentsLocks
        /\ \A d \in Dentries : /\ contents'[d].writer = IF d = p THEN t ELSE contents[d].writer
                               /\ contents'[d].readers = contents[d].readers
    BY <1>0, WritingLock
  <1>2. ASSUME NEW d \in Dentries
        PROVE  /\ contents'[d].writer = IF Gated(s, d) THEN t ELSE IF Gated(r, d) THEN None ELSE contents[d].writer
               /\ Gated(s, d) /\ ~Gated(r, d) => contents[d].writer = None
               /\ t \in contents'[d].readers => Reads(s, d)
               /\ Entered(s, d) => contents'[d].readers = {}
    <2>1. LocksOf(t, r, d)
      BY DEF Now
    <2> QED
      BY <1>1, <2>1 DEF LocksOf
  <1> QED
    BY <1>1, <1>2 DEF ContentsStep

LEMMA ContentsWriteDone ==
  ASSUME NEW t \in Threads, NEW r, NEW s, Now(t, r), NEW p, NEW q,
         contents' = WriteDone(WriteDone(contents, p), q),
         \A d \in Dentries : /\ Gated(r, d) <=> Gated(s, d) \/ d \in {p, q}
                             /\ d \in {p, q} => ~Gated(s, d)
                             /\ Reads(r, d) => Reads(s, d)
                             /\ Entered(s, d) => Entered(r, d)
  PROVE  ContentsStep(t, r, s)
  <1> DEFINE C1 == WriteDone(contents, p)
  <1>0. contents \in ContentsLocks
    BY DEF Now
  <1>1. /\ C1 \in ContentsLocks
        /\ \A d \in Dentries : /\ C1[d].writer = IF d = p THEN None ELSE contents[d].writer
                               /\ C1[d].readers = contents[d].readers
    BY <1>0, WriteDoneLock
  <1>2. contents' = WriteDone(C1, q)
    OBVIOUS
  <1> HIDE DEF C1
  <1>3. /\ contents' \in ContentsLocks
        /\ \A d \in Dentries : /\ contents'[d].writer = IF d = q THEN None ELSE C1[d].writer
                               /\ contents'[d].readers = C1[d].readers
    BY <1>1, <1>2, WriteDoneLock
  <1>4. ASSUME NEW d \in Dentries
        PROVE  /\ contents'[d].writer = IF Gated(s, d) THEN t ELSE IF Gated(r, d) THEN None ELSE contents[d].writer
               /\ Gated(s, d) /\ ~Gated(r, d) => contents[d].writer = None
               /\ t \in contents'[d].readers => Reads(s, d)
               /\ Entered(s, d) => contents'[d].readers = {}
               /\ contents'[d].readers = contents[d].readers
    <2>1. LocksOf(t, r, d)
      BY DEF Now
    <2> QED
      BY <1>1, <1>3, <2>1 DEF LocksOf
  <1> QED
    BY <1>3, <1>4 DEF ContentsStep

\* The ways in which meta_locks change.
LEMMA MetaQuiet ==
  ASSUME NEW t \in Threads, NEW r, NEW s, Now(t, r), MetaLeft(r),
         \A d \in Dentries : HasMeta(s, d) <=> HasMeta(r, d)
  PROVE  MetaStep(t, r, s)
  <1>1. /\ meta' \in [Dentries -> Threads \cup {None}]
        /\ \A d \in Dentries : meta'[d] = IF d = r.held THEN None ELSE meta[d]
    BY TreeAssumption DEF Now, MetaLeft, Unlocked
  <1>2. ASSUME NEW d \in Dentries
        PROVE  /\ meta'[d] = t => HasMeta(s, d)
               /\ ~strayed => meta'[d] = IF HasMeta(s, d) THEN t ELSE IF Has(r, d) THEN None ELSE meta[d]
    <2>1. LocksOf(t, r, d) /\ t # None
      BY TreeAssumption DEF Now
    <2> QED
      BY <1>1, <2>1 DEF LocksOf, Has
  <1> QED
    BY <1>1, <1>2 DEF MetaStep

LEMMA MetaTaken ==
  ASSUME NEW t \in Threads, NEW r, NEW s, Now(t, r), r.held = None, NEW p, meta' = [meta EXCEPT ![p] = t],
         p \in Dentries => meta[p] = None,
         \A d \in Dentries : HasMeta(s, d) <=> HasMeta(r, d) \/ d = p
  PROVE  MetaStep(t, r, s)
  <1>1. /\ meta' \in [Dentries -> Threads \cup {None}]
        /\ \A d \in Dentries : meta'[d] = IF d = p THEN t ELSE meta[d]
    BY DEF Now
  <1>2. ASSUME NEW d \in Dentries
        PROVE  /\ meta'[d] = t => HasMeta(s, d)
               /\ ~strayed => meta'[d] = IF HasMeta(s, d) THEN t ELSE IF Has(r, d) THEN None ELSE meta[d]
               /\ HasMeta(s, d) /\ ~HasMeta(r, d) => meta[d] = None
    <2>1. LocksOf(t, r, d) /\ t # None /\ d # r.held
      BY TreeAssumption DEF Now
    <2> QED
      BY <1>1, <2>1 DEF LocksOf, Has
  <1> QED
    BY <1>1, <1>2 DEF MetaStep

LEMMA MetaGiven ==
  ASSUME NEW t \in Threads, NEW r, NEW s, Now(t, r), NEW p, NEW q,
         meta' \in [Dentries -> Threads \cup {None}],
         \A d \in Dentries : meta'[d] = IF d \in {p, q, r.held} THEN None ELSE meta[d],
         \A d \in Dentries : HasMeta(r, d) <=> d \in {p, q}, \A d \in Dentries : ~HasMeta(s, d)
  PROVE  MetaStep(t, r, s)
  <1>1. ASSUME NEW d \in Dentries
        PROVE  /\ meta'[d] = t => HasMeta(s, d)
               /\ ~strayed => meta'[d] = IF HasMeta(s, d) THEN t ELSE IF Has(r, d) THEN None ELSE meta[d]
    <2>1. LocksOf(t, r, d) /\ t # None
      BY TreeAssumption DEF Now
    <2> QED
      BY <2>1 DEF LocksOf, Has
  <1> QED
    BY <1>1 DEF MetaStep

\* A contents_lock that is let go with another one still shut.
LEMMA ContentsWriteDoneOne ==
  ASSUME NEW t \in Threads, NEW r, NEW s, Now(t, r), NEW p, contents' = WriteDone(contents, p),
         \A d \in Dentries : /\ Gated(r, d) <=> Gated(s, d) \/ d = p
                             /\ d = p => ~Gated(s, d)
                             /\ Reads(r, d) => Reads(s, d)
                             /\ Entered(s, d) => Entered(r, d)
  PROVE  ContentsStep(t, r, s)
  <1>0. contents \in ContentsLocks
    BY DEF Now
  <1>1. /\ contents' \in ContentsLocks
        /\ \A d \in Dentries : /\ contents'[d].writer = IF d = p THEN None ELSE contents[d].writer
                               /\ contents'[d].readers = contents[d].readers
    BY <1>0, WriteDoneLock
  <1>2. ASSUME NEW d \in Dentries
        PROVE  /\ contents'[d].writer = IF Gated(s, d) THEN t ELSE IF Gated(r, d) THEN None ELSE contents[d].writer
               /\ Gated(s, d) /\ ~Gated(r, d) => contents[d].writer = None
               /\ t \in contents'[d].readers => Reads(s, d)
               /\ Entered(s, d) => contents'[d].readers = {}
    <2>1. LocksOf(t, r, d)
      BY DEF Now
    <2> QED
      BY <1>1, <2>1 DEF LocksOf
  <1> QED
    BY <1>1, <1>2 DEF ContentsStep

-----------------------------------------------------------------------------
(* Where the operations go on.                                             *)

Nothing(s) == \A d \in Dentries : ~Gated(s, d) /\ ~Entered(s, d) /\ ~Reads(s, d) /\ ~HasMeta(s, d)
Both(s, p, q) ==
  \A d \in Dentries : /\ Gated(s, d) <=> d \in {p, q}
                      /\ Entered(s, d) <=> d \in {p, q}
                      /\ HasMeta(s, d) <=> d \in {p, q}
                      /\ ~Reads(s, d)

\* A request that gives back handles has the locks of the place it goes on at.
LEMMA DroppingIs ==
  ASSUME NEW r, DOMAIN r = DOMAIN Idle, r.chain = None, NEW ds, NEW pc \in {"idle", "open", "r_nodir", "r_out"},
         NEW s, s = Dropping(r, ds, pc)
  PROVE  /\ IsRequest(s)
         /\ Renames(s) <=> pc \in {"r_nodir", "r_out"}
         /\ pc # "r_out" => Nothing(s)
         /\ pc = "r_out" => Both(s, r.fromdir, r.todir)
  <1>1. /\ DOMAIN s = DOMAIN Idle /\ s.chain = None /\ s.then = pc /\ s.pc \in {"drop", pc}
        /\ s.fromdir = r.fromdir /\ s.todir = r.todir
    BY DEF Dropping, Idle
  <1>2. IsRequest(s)
    BY <1>1 DEF IsRequest, Lookups, OneByOne
  <1>3. Renames(s) <=> pc \in {"r_nodir", "r_out"}
    BY <1>1 DEF Renames, Lookups, OneByOne, HasBoth, BothLocked
  <1>4. pc # "r_out" => Nothing(s)
    BY <1>1 DEF Nothing, Gated, Entered, Reads, HasMeta, OneByOne, HasBoth, BothLocked
  <1>5. pc = "r_out" => Both(s, r.fromdir, r.todir)
    BY <1>1 DEF Both, Gated, Entered, Reads, HasMeta, OneByOne, HasBoth, BothLocked
  <1> QED
    BY <1>2, <1>3, <1>4, <1>5

\* A lookup that starts has no lock yet.
LEMMA LookingIs ==
  ASSUME NEW r, DOMAIN r = DOMAIN Idle, r.chain = None, r.side = 1, r.up = None,
         r.op \in {"open", "create", "unlink", "rename"}, NEW path, NEW s, s = Looking(r, path)
  PROVE  IsRequest(s) /\ Nothing(s) /\ (Renames(s) <=> r.op = "rename")
  <1>1. /\ DOMAIN s = DOMAIN Idle /\ s.chain = None /\ s.pc = "root" /\ s.op = r.op /\ s.side = 1 /\ s.up = None
    BY DEF Looking, Idle
  <1>2. IsRequest(s)
    BY <1>1 DEF IsRequest, Lookups, OneByOne
  <1>3. Nothing(s)
    BY <1>1 DEF Nothing, Gated, Entered, Reads, HasMeta, OneByOne, HasBoth, BothLocked
  <1>4. Renames(s) <=> r.op = "rename"
    BY <1>1 DEF Renames, Lookups, OneByOne, HasBoth, BothLocked
  <1> QED
    BY <1>2, <1>3, <1>4

\* A request that is over has none either.
LEMMA IdleIs ==
  ASSUME NEW s, DOMAIN s = DOMAIN Idle, s.chain = None, s.pc \in {"idle", "open", "r_same", "u_exit", "u_stray"}
  PROVE  IsRequest(s) /\ Nothing(s) /\ (Renames(s) <=> s.pc = "r_same")
  <1>1. IsRequest(s)
    BY DEF IsRequest, Lookups, OneByOne
  <1>2. Nothing(s)
    BY DEF Nothing, Gated, Entered, Reads, HasMeta, OneByOne, HasBoth, BothLocked
  <1>3. Renames(s) <=> s.pc = "r_same"
    BY DEF Renames, Lookups, OneByOne, HasBoth, BothLocked
  <1> QED
    BY <1>1, <1>2, <1>3

UpOnly(s, p) ==
  \A d \in Dentries : /\ Gated(s, d) <=> d = p
                      /\ Entered(s, d) <=> d = p
                      /\ ~HasMeta(s, d) /\ ~Reads(s, d)

\* Where a lookup ends, by what it was for.
LEMMA FoundIs ==
  ASSUME NEW r, DOMAIN r = DOMAIN Idle, r.chain = None, r.side = 1,
         r.op \in {"open", "create", "unlink", "rename"}, NEW s, s = Found(r)
  PROVE  /\ r.op # "unlink" /\ r.up = None => IsRequest(s) /\ Nothing(s) /\ (Renames(s) <=> r.op = "rename")
         /\ r.op = "unlink" => IsRequest(s) /\ UpOnly(s, r.up) /\ ~Renames(s)
  <1>1. CASE r.op = "open"
    <2>1. s = [Idle EXCEPT !.pc = "open", !.at = r.at]
      BY <1>1 DEF Found
    <2>2. DOMAIN s = DOMAIN Idle /\ s.chain = None /\ s.pc = "open"
      BY <2>1 DEF Idle
    <2> QED
      BY <1>1, <2>2, IdleIs
  <1>2. CASE r.op = "create"
    <2>1. s = [r EXCEPT !.pc = "c_gate"]
      BY <1>2 DEF Found
    <2>2. DOMAIN s = DOMAIN Idle /\ s.chain = None /\ s.pc = "c_gate"
      BY <2>1 DEF Idle
    <2>3. IsRequest(s) /\ Nothing(s) /\ ~Renames(s)
      BY <2>2 DEF IsRequest, Lookups, OneByOne, Nothing, Gated, Entered, Reads, HasMeta, HasBoth, BothLocked, Renames
    <2> QED
      BY <1>2, <2>3
  <1>3. CASE r.op = "unlink"
    <2>1. s = [r EXCEPT !.pc = "u_check"]
      BY <1>3 DEF Found
    <2>2. DOMAIN s = DOMAIN Idle /\ s.chain = None /\ s.pc = "u_check" /\ s.up = r.up
      BY <2>1 DEF Idle
    <2>3. IsRequest(s) /\ UpOnly(s, r.up) /\ ~Renames(s)
      BY <2>2 DEF IsRequest, Lookups, OneByOne, UpOnly, Gated, Entered, Reads, HasMeta, HasBoth, BothLocked, Renames
    <2> QED
      BY <1>3, <2>3
  <1>4. CASE r.op = "rename" /\ r.fromdir = None /\ r.up = None
    <2> DEFINE q == [r EXCEPT !.fromdir = r.at, !.at = None]
    <2>1. s = Looking(q, r.arg.todir)
      BY <1>4 DEF Found
    <2>2. DOMAIN q = DOMAIN Idle /\ q.chain = None /\ q.op = "rename" /\ q.side = 1 /\ q.up = None
      BY <1>4 DEF Idle
    <2> HIDE DEF q
    <2> QED
      BY <1>4, <2>1, <2>2, LookingIs
  <1>5. CASE r.op = "rename" /\ r.fromdir # None
    <2>1. s = [r EXCEPT !.pc = "r_gate", !.todir = r.at, !.at = None,
                   !.first = IF IsPredecessor(r.at, r.fromdir) THEN "to" ELSE "from"]
      BY <1>5 DEF Found
    <2>2. DOMAIN s = DOMAIN Idle /\ s.chain = None /\ s.pc = "r_gate" /\ s.side = 1
      BY <2>1 DEF Idle
    <2>3. IsRequest(s) /\ Nothing(s) /\ Renames(s)
      BY <2>2 DEF IsRequest, Lookups, OneByOne, Nothing, Gated, Entered, Reads, HasMeta, HasBoth, BothLocked, Renames
    <2> QED
      BY <1>5, <2>3
  <1> QED
    BY <1>1, <1>2, <1>3, <1>4, <1>5

-----------------------------------------------------------------------------
(* Every operation keeps the match.                                         *)

\* The steps that shut a gate, wait for the readers, or read for a close. (fs.c:720)
LEMMA LookupGateKeeps ==
  ASSUME LocksMatch, NEW t \in Threads, LookupGate(t)
  PROVE  LocksMatch'
  <1>r. PICK r : r = thr[t]
    OBVIOUS
  <1>s. PICK s : s = [r EXCEPT !.pc = "walk_enter"]
    OBVIOUS
  <1>1. Now(t, r)
    BY <1>r, NowIs
  <1>2. /\ r.pc = "walk" /\ LastLocked(r) /\ contents[r.at].writer = None
        /\ contents' = Writing(contents, r.at, t)
        /\ Become(t, s) /\ rename_lock' = rename_lock /\ MetaLeft(r)
    BY <1>r, <1>s DEF LookupGate, Become, At, GateOpen, Unheld, Drained, Within, MetaLeft, Unlocked
  <1>3. IsRequest(s) /\ s.pc = "walk_enter" /\ s.at = r.at /\ s.chain = r.chain /\ s.op = r.op /\ s.todo = r.todo /\ LastLocked(s)
    BY <1>1, <1>2, <1>s DEF Now, IsRequest, Idle, Lookups, OneByOne, LastLocked
  <1>h. ASSUME NEW d \in Dentries
        PROVE  /\ Gated(s, d) <=> Gated(r, d) \/ d = r.at
               /\ Reads(r, d) => Reads(s, d)
               /\ Entered(s, d) => Entered(r, d)
               /\ HasMeta(s, d) <=> HasMeta(r, d)
    BY <1>1, <1>2, <1>3 DEF Gated, Entered, Reads, HasMeta, OneByOne, HasBoth, BothLocked, LastLocked
  <1>4. IsRequest(s)
    BY <1>3
  <1>5. ContentsStep(t, r, s)
    BY <1>1, <1>2, <1>h, ContentsWriting
  <1>6. MetaStep(t, r, s)
    BY <1>1, <1>2, <1>h, MetaQuiet
  <1>7. RenameStep(t, r, s)
    BY <1>2, <1>3 DEF Renames, HasBoth, Lookups, OneByOne, BothLocked, RenameStep
  <1> QED
    BY <1>1, <1>2, <1>4, <1>5, <1>6, <1>7, LockStep

LEMMA LookupEnterKeeps ==
  ASSUME LocksMatch, NEW t \in Threads, LookupEnter(t)
  PROVE  LocksMatch'
  <1>r. PICK r : r = thr[t]
    OBVIOUS
  <1>s. PICK s : s = [r EXCEPT !.pc = "child", !.chain = None]
    OBVIOUS
  <1>1. Now(t, r)
    BY <1>r, NowIs
  <1>2. /\ r.pc = "walk_enter" /\ contents[r.at].readers = {}
        /\ contents' = ReadDone(contents, r.chain, t)
        /\ Become(t, s) /\ rename_lock' = rename_lock /\ MetaLeft(r)
    BY <1>r, <1>s DEF LookupEnter, Become, At, GateOpen, Unheld, Drained, Within, MetaLeft, Unlocked
  <1>3. IsRequest(s) /\ s.pc = "child" /\ s.at = r.at /\ s.op = r.op /\ s.todo = r.todo /\ LastLocked(s)
    BY <1>1, <1>2, <1>s DEF Now, IsRequest, Idle, Lookups, OneByOne, LastLocked
  <1>h. ASSUME NEW d \in Dentries
        PROVE  /\ Gated(s, d) <=> Gated(r, d)
               /\ Reads(r, d) /\ d # r.chain => Reads(s, d)
               /\ Entered(s, d) => Entered(r, d) \/ contents[d].readers = {}
               /\ HasMeta(s, d) <=> HasMeta(r, d)
    BY <1>1, <1>2, <1>3 DEF Gated, Entered, Reads, HasMeta, OneByOne, HasBoth, BothLocked, LastLocked
  <1>4. IsRequest(s)
    BY <1>3
  <1>5. ContentsStep(t, r, s)
    BY <1>1, <1>2, <1>h, ContentsReadDone
  <1>6. MetaStep(t, r, s)
    BY <1>1, <1>2, <1>h, MetaQuiet
  <1>7. RenameStep(t, r, s)
    BY <1>2, <1>3 DEF Renames, HasBoth, Lookups, OneByOne, BothLocked, RenameStep
  <1> QED
    BY <1>1, <1>2, <1>4, <1>5, <1>6, <1>7, LockStep

LEMMA CloseCountKeeps ==
  ASSUME LocksMatch, NEW t \in Threads, CloseCount(t)
  PROVE  LocksMatch'
  <1>r. PICK r : r = thr[t]
    OBVIOUS
  <1>s. PICK s : s = [r EXCEPT !.pc = "counting"]
    OBVIOUS
  <1>1. Now(t, r)
    BY <1>r, NowIs
  <1>2. /\ r.pc = "open" /\ contents[r.at].writer = None
        /\ contents' = Reading(contents, r.at, t)
        /\ Become(t, s) /\ rename_lock' = rename_lock /\ MetaLeft(r)
    BY <1>r, <1>s DEF CloseCount, Become, At, GateOpen, Unheld, Drained, Within, MetaLeft, Unlocked
  <1>3. IsRequest(s) /\ s.pc = "counting" /\ s.at = r.at
    BY <1>1, <1>2, <1>s DEF Now, IsRequest, Idle, Lookups, OneByOne, LastLocked
  <1>h. ASSUME NEW d \in Dentries
        PROVE  /\ Gated(s, d) <=> Gated(r, d)
               /\ Reads(r, d) \/ d = r.at => Reads(s, d)
               /\ ~Entered(s, d)
               /\ HasMeta(s, d) <=> HasMeta(r, d)
    BY <1>1, <1>2, <1>3 DEF Gated, Entered, Reads, HasMeta, OneByOne, HasBoth, BothLocked, LastLocked
  <1>4. IsRequest(s)
    BY <1>3
  <1>5. ContentsStep(t, r, s)
    BY <1>1, <1>2, <1>h, ContentsReading
  <1>6. MetaStep(t, r, s)
    BY <1>1, <1>2, <1>h, MetaQuiet
  <1>7. RenameStep(t, r, s)
    BY <1>2, <1>3 DEF Renames, HasBoth, Lookups, OneByOne, BothLocked, RenameStep
  <1> QED
    BY <1>1, <1>2, <1>4, <1>5, <1>6, <1>7, LockStep

LEMMA CreateGateKeeps ==
  ASSUME LocksMatch, NEW t \in Threads, CreateGate(t)
  PROVE  LocksMatch'
  <1>r. PICK r : r = thr[t]
    OBVIOUS
  <1>s. PICK s : s = [r EXCEPT !.pc = "c_enter"]
    OBVIOUS
  <1>1. Now(t, r)
    BY <1>r, NowIs
  <1>2. /\ r.pc = "c_gate" /\ contents[r.at].writer = None
        /\ contents' = Writing(contents, r.at, t)
        /\ Become(t, s) /\ rename_lock' = rename_lock /\ MetaLeft(r)
    BY <1>r, <1>s DEF CreateGate, Become, At, GateOpen, Unheld, Drained, Within, MetaLeft, Unlocked
  <1>3. IsRequest(s) /\ s.pc = "c_enter" /\ s.at = r.at
    BY <1>1, <1>2, <1>s DEF Now, IsRequest, Idle, Lookups, OneByOne, LastLocked
  <1>h. ASSUME NEW d \in Dentries
        PROVE  /\ Gated(s, d) <=> Gated(r, d) \/ d = r.at
               /\ Reads(r, d) => Reads(s, d)
               /\ Entered(s, d) => Entered(r, d)
               /\ HasMeta(s, d) <=> HasMeta(r, d)
    BY <1>1, <1>2, <1>3 DEF Gated, Entered, Reads, HasMeta, OneByOne, HasBoth, BothLocked, LastLocked
  <1>4. IsRequest(s)
    BY <1>3
  <1>5. ContentsStep(t, r, s)
    BY <1>1, <1>2, <1>h, ContentsWriting
  <1>6. MetaStep(t, r, s)
    BY <1>1, <1>2, <1>h, MetaQuiet
  <1>7. RenameStep(t, r, s)
    BY <1>2, <1>3 DEF Renames, HasBoth, Lookups, OneByOne, BothLocked, RenameStep
  <1> QED
    BY <1>1, <1>2, <1>4, <1>5, <1>6, <1>7, LockStep

LEMMA CreateEnterKeeps ==
  ASSUME LocksMatch, NEW t \in Threads, CreateEnter(t)
  PROVE  LocksMatch'
  <1>r. PICK r : r = thr[t]
    OBVIOUS
  <1>s. PICK s : s = [r EXCEPT !.pc = "c_find"]
    OBVIOUS
  <1>1. Now(t, r)
    BY <1>r, NowIs
  <1>2. /\ r.pc = "c_enter" /\ contents[r.at].readers = {}
        /\ contents' = contents
        /\ Become(t, s) /\ rename_lock' = rename_lock /\ MetaLeft(r)
    BY <1>r, <1>s DEF CreateEnter, Become, At, GateOpen, Unheld, Drained, Within, MetaLeft, Unlocked
  <1>3. IsRequest(s) /\ s.pc = "c_find" /\ s.at = r.at
    BY <1>1, <1>2, <1>s DEF Now, IsRequest, Idle, Lookups, OneByOne, LastLocked
  <1>h. ASSUME NEW d \in Dentries
        PROVE  /\ Gated(s, d) <=> Gated(r, d)
               /\ Reads(r, d) => Reads(s, d)
               /\ Entered(s, d) => Entered(r, d) \/ contents[d].readers = {}
               /\ HasMeta(s, d) <=> HasMeta(r, d)
    BY <1>1, <1>2, <1>3 DEF Gated, Entered, Reads, HasMeta, OneByOne, HasBoth, BothLocked, LastLocked
  <1>4. IsRequest(s)
    BY <1>3
  <1>5. ContentsStep(t, r, s)
    BY <1>1, <1>2, <1>h, ContentsQuiet
  <1>6. MetaStep(t, r, s)
    BY <1>1, <1>2, <1>h, MetaQuiet
  <1>7. RenameStep(t, r, s)
    BY <1>2, <1>3 DEF Renames, HasBoth, Lookups, OneByOne, BothLocked, RenameStep
  <1> QED
    BY <1>1, <1>2, <1>4, <1>5, <1>6, <1>7, LockStep

LEMMA UnlinkEmptyKeeps ==
  ASSUME LocksMatch, NEW t \in Threads, UnlinkEmpty(t)
  PROVE  LocksMatch'
  <1>r. PICK r : r = thr[t]
    OBVIOUS
  <1>s. PICK s : s = [r EXCEPT !.pc = "u_meta"]
    OBVIOUS
  <1>1. Now(t, r)
    BY <1>r, NowIs
  <1>2. /\ r.pc = "u_check"
        /\ contents' = contents
        /\ Become(t, s) /\ rename_lock' = rename_lock /\ MetaLeft(r)
    BY <1>r, <1>s DEF UnlinkEmpty, Become, At, GateOpen, Unheld, Drained, Within, MetaLeft, Unlocked
  <1>3. IsRequest(s) /\ s.pc = "u_meta" /\ s.up = r.up
    BY <1>1, <1>2, <1>s DEF Now, IsRequest, Idle, Lookups, OneByOne, LastLocked
  <1>h. ASSUME NEW d \in Dentries
        PROVE  /\ Gated(s, d) <=> Gated(r, d)
               /\ Reads(r, d) => Reads(s, d)
               /\ Entered(s, d) => Entered(r, d)
               /\ HasMeta(s, d) <=> HasMeta(r, d)
    BY <1>1, <1>2, <1>3 DEF Gated, Entered, Reads, HasMeta, OneByOne, HasBoth, BothLocked, LastLocked
  <1>4. IsRequest(s)
    BY <1>3
  <1>5. ContentsStep(t, r, s)
    BY <1>1, <1>2, <1>h, ContentsQuiet
  <1>6. MetaStep(t, r, s)
    BY <1>1, <1>2, <1>h, MetaQuiet
  <1>7. RenameStep(t, r, s)
    BY <1>2, <1>3 DEF Renames, HasBoth, Lookups, OneByOne, BothLocked, RenameStep
  <1> QED
    BY <1>1, <1>2, <1>4, <1>5, <1>6, <1>7, LockStep

-----------------------------------------------------------------------------
SameLocks(r, s) ==
  /\ Renames(r) <=> Renames(s)
  /\ \A d \in Dentries : /\ Gated(r, d) <=> Gated(s, d)
                         /\ Entered(r, d) <=> Entered(s, d)
                         /\ HasMeta(r, d) <=> HasMeta(s, d)
                         /\ Reads(r, d) => Reads(s, d)

\* A step that changes no lock keeps the match if the next place has the same locks.
LEMMA MoveOn ==
  ASSUME LocksMatch, NEW t \in Threads, NEW r, NEW s, Now(t, r), IsRequest(s), SameLocks(r, s),
         Become(t, s), UNCHANGED <<contents, rename_lock>>, MetaLeft(r)
  PROVE  LocksMatch'
  <1>1. ContentsStep(t, r, s)
    BY ContentsQuiet DEF SameLocks
  <1>2. MetaStep(t, r, s)
    BY MetaQuiet DEF SameLocks
  <1>3. RenameStep(t, r, s)
    BY DEF SameLocks, RenameStep
  <1> QED
    BY <1>1, <1>2, <1>3, LockStep

\* Two places without any lock, or with both directories, have the same locks.
LEMMA NothingSame ==
  ASSUME NEW r, NEW s, Nothing(r), Nothing(s), Renames(r) <=> Renames(s)
  PROVE  SameLocks(r, s)
  BY DEF Nothing, SameLocks

LEMMA BothSame ==
  ASSUME NEW r, NEW s, NEW p, NEW q, Both(r, p, q), Both(s, p, q), Renames(r), Renames(s)
  PROVE  SameLocks(r, s)
  BY DEF Both, SameLocks

LEMMA BothIs ==
  ASSUME NEW r, r.pc \in BothLocked
  PROVE  Both(r, r.fromdir, r.todir) /\ Renames(r)
  BY DEF Both, Renames, Gated, Entered, Reads, HasMeta, OneByOne, HasBoth, BothLocked

\* Places where a request has no lock of a dentry.
Lockless == {"idle", "open", "root", "c_gate", "r_nodir", "r_same", "u_exit", "u_stray"}
LEMMA LocklessIs ==
  ASSUME NEW r, r.pc \in Lockless
  PROVE  Nothing(r)
  BY DEF Nothing, Lockless, Gated, Entered, Reads, HasMeta, OneByOne, HasBoth, BothLocked

LEMMA LocklessRenames ==
  ASSUME NEW r, r.pc \in Lockless
  PROVE  Renames(r) <=> r.pc \in {"r_nodir", "r_same"} \/ (r.pc = "root" /\ r.op = "rename")
  BY DEF Renames, Lockless, Lookups, OneByOne, HasBoth, BothLocked

-----------------------------------------------------------------------------
\* The start of a request is the start of its lookup. (fs.c:675)
LEMMA LookupStarts ==
  ASSUME LocksMatch, NEW t \in Threads, NEW r, r = thr[t], r.pc = "idle", UNCHANGED <<contents, rename_lock>>, MetaLeft(r),
         NEW q, DOMAIN q = DOMAIN Idle, q.chain = None, q.side = 1, q.up = None, q.op \in {"open", "create", "unlink"},
         NEW path, Become(t, Looking(q, path))
  PROVE  LocksMatch'
  <1>s. PICK s : s = Looking(q, path)
    OBVIOUS
  <1>1. Now(t, r) /\ Nothing(r) /\ ~Renames(r)
    BY NowIs, LocklessIs, LocklessRenames DEF Lockless
  <1>2. IsRequest(s) /\ Nothing(s) /\ ~Renames(s)
    BY <1>s, LookingIs
  <1>3. SameLocks(r, s)
    BY <1>1, <1>2, NothingSame
  <1>4. Become(t, s)
    BY <1>s
  <1> QED
    BY <1>1, <1>2, <1>3, <1>4, MoveOn

LEMMA StartKeeps ==
  ASSUME LocksMatch, NEW t \in Threads, Open(t) \/ Create(t) \/ Unlink(t)
  PROVE  LocksMatch'
  <1>r. PICK r : r = thr[t]
    OBVIOUS
  <1>1. r.pc = "idle" /\ UNCHANGED <<contents, rename_lock>> /\ MetaLeft(r)
    BY <1>r DEF Open, Create, Unlink, At, Within, MetaLeft, Unlocked
  <1>2. ASSUME NEW q, DOMAIN q = DOMAIN Idle, q.chain = None, q.side = 1, q.up = None, q.op \in {"open", "create", "unlink"},
               NEW path, Become(t, Looking(q, path))
        PROVE  LocksMatch'
    BY <1>r, <1>1, <1>2, LookupStarts
  <1>3. CASE Open(t)
    <2>1. PICK a : Become(t, Looking([Idle EXCEPT !.op = "open"], a.path))
      BY <1>3 DEF Open
    <2>2. PICK q : q = [Idle EXCEPT !.op = "open"]
      OBVIOUS
    <2>3. DOMAIN q = DOMAIN Idle /\ q.chain = None /\ q.side = 1 /\ q.up = None /\ q.op = "open"
      BY <2>2 DEF Idle
    <2> QED
      BY <1>2, <2>1, <2>2, <2>3
  <1>4. CASE Create(t)
    <2>1. PICK a : Become(t, Looking([Idle EXCEPT !.op = "create", !.arg = a], a.dir))
      BY <1>4 DEF Create
    <2>2. PICK q : q = [Idle EXCEPT !.op = "create", !.arg = a]
      OBVIOUS
    <2>3. DOMAIN q = DOMAIN Idle /\ q.chain = None /\ q.side = 1 /\ q.up = None /\ q.op = "create"
      BY <2>2 DEF Idle
    <2> QED
      BY <1>2, <2>1, <2>2, <2>3
  <1>5. CASE Unlink(t)
    <2>1. PICK a : Become(t, Looking([Idle EXCEPT !.op = "unlink", !.arg = a], a.path))
      BY <1>5 DEF Unlink
    <2>2. PICK q : q = [Idle EXCEPT !.op = "unlink", !.arg = a]
      OBVIOUS
    <2>3. DOMAIN q = DOMAIN Idle /\ q.chain = None /\ q.side = 1 /\ q.up = None /\ q.op = "unlink"
      BY <2>2 DEF Idle
    <2> QED
      BY <1>2, <2>1, <2>2, <2>3
  <1> QED
    BY <1>3, <1>4, <1>5

LEMMA CloseKeeps ==
  ASSUME LocksMatch, NEW t \in Threads, Close(t)
  PROVE  LocksMatch'
  <1>r. PICK r : r = thr[t]
    OBVIOUS
  <1>q. PICK q : q = [Idle EXCEPT !.op = "close"]
    OBVIOUS
  <1>s. PICK s : s = Dropping(q, <<r.at>>, "idle")
    OBVIOUS
  <1>1. Now(t, r) /\ r.pc = "open" /\ Nothing(r) /\ ~Renames(r)
    BY <1>r, NowIs, LocklessIs, LocklessRenames DEF Close, At, Lockless, Within
  <1>2. DOMAIN q = DOMAIN Idle /\ q.chain = None
    BY <1>q DEF Idle
  <1>3. IsRequest(s) /\ Nothing(s) /\ ~Renames(s)
    BY <1>2, <1>s, DroppingIs
  <1>4. SameLocks(r, s)
    BY <1>1, <1>3, NothingSame
  <1>5. Become(t, s) /\ UNCHANGED <<contents, rename_lock>> /\ MetaLeft(r)
    BY <1>r, <1>q, <1>s DEF Close, Become, At, Within, MetaLeft, Unlocked
  <1> QED
    BY <1>1, <1>3, <1>4, <1>5, MoveOn

LEMMA CloseCountedKeeps ==
  ASSUME LocksMatch, NEW t \in Threads, CloseCounted(t)
  PROVE  LocksMatch'
  <1>r. PICK r : r = thr[t]
    OBVIOUS
  <1>q. PICK q : q = [Idle EXCEPT !.op = "close"]
    OBVIOUS
  <1>s. PICK s : s = Dropping(q, <<r.at>>, "idle")
    OBVIOUS
  <1>1. Now(t, r) /\ r.pc = "counting"
    BY <1>r, NowIs DEF CloseCounted, At, Within
  <1>2. DOMAIN q = DOMAIN Idle /\ q.chain = None
    BY <1>q DEF Idle
  <1>3. IsRequest(s) /\ Nothing(s) /\ ~Renames(s)
    BY <1>2, <1>s, DroppingIs
  <1>4. ~Renames(r) /\ \A d \in Dentries : ~Gated(r, d) /\ ~HasMeta(r, d) /\ (Reads(r, d) <=> d = r.at)
    BY <1>1 DEF Gated, Entered, Reads, HasMeta, Renames, OneByOne, HasBoth, BothLocked, Lookups
  <1>5. Become(t, s) /\ UNCHANGED rename_lock /\ MetaLeft(r) /\ contents' = ReadDone(contents, r.at, t)
    BY <1>r, <1>q, <1>s DEF CloseCounted, Become, At, Within, MetaLeft, Unlocked
  <1>6. \A d \in Dentries : /\ Gated(s, d) <=> Gated(r, d)
                            /\ Reads(r, d) /\ d # r.at => Reads(s, d)
                            /\ Entered(s, d) => Entered(r, d) \/ contents[d].readers = {}
                            /\ HasMeta(s, d) <=> HasMeta(r, d)
    BY <1>3, <1>4 DEF Nothing
  <1>7. ContentsStep(t, r, s)
    BY <1>1, <1>5, <1>6, ContentsReadDone
  <1>8. MetaStep(t, r, s)
    BY <1>1, <1>5, <1>6, MetaQuiet
  <1>9. RenameStep(t, r, s)
    BY <1>3, <1>4, <1>5 DEF RenameStep
  <1> QED
    BY <1>1, <1>3, <1>5, <1>7, <1>8, <1>9, LockStep

-----------------------------------------------------------------------------
(* A lookup.                                                               *)

\* Steps of fs.c:675-788.
LEMMA LookupRootKeeps ==
  ASSUME LocksMatch, NEW t \in Threads, LookupRoot(t)
  PROVE  LocksMatch'
  <1>r. PICK r : r = thr[t]
    OBVIOUS
  <1>q. PICK q : q = [r EXCEPT !.at = Root]
    OBVIOUS
  <1>1. Now(t, r) /\ r.pc = "root" /\ Nothing(r) /\ (Renames(r) <=> r.op = "rename")
    BY <1>r, NowIs, LocklessIs, LocklessRenames DEF LookupRoot, At, Lockless, Within
  <1>2. /\ DOMAIN q = DOMAIN Idle /\ q.chain = None /\ q.side = 1 /\ q.up = None /\ q.op = r.op /\ q.todo = r.todo
        /\ q.op \in {"open", "create", "unlink", "rename"}
    BY <1>1, <1>q DEF Now, IsRequest, Idle, Lookups
  <1>3. UNCHANGED <<contents, rename_lock>> /\ MetaLeft(r)
    BY <1>r DEF LookupRoot, At, Within, MetaLeft, Unlocked
  <1>4. CASE r.todo = <<>>
    <2>1. PICK s : s = Found(q)
      OBVIOUS
    <2>2. IsRequest(s) /\ (Nothing(s) \/ UpOnly(s, None)) /\ (Renames(s) <=> r.op = "rename")
      BY <1>2, <2>1, FoundIs
    <2>3. Nothing(s)
      BY <2>2, TreeAssumption DEF Nothing, UpOnly
    <2>4. SameLocks(r, s)
      BY <1>1, <2>2, <2>3, NothingSame
    <2>5. Become(t, s)
      BY <1>r, <1>q, <1>2, <1>4, <2>1 DEF LookupRoot, Become
    <2> QED
      BY <1>1, <1>3, <2>2, <2>4, <2>5, MoveOn
  <1>5. CASE r.todo # <<>>
    <2>1. PICK s : s = [q EXCEPT !.pc = "walk"]
      OBVIOUS
    <2>2. DOMAIN s = DOMAIN Idle /\ s.pc = "walk" /\ s.chain = None /\ s.side = 1 /\ s.op = r.op
      BY <1>2, <2>1 DEF Idle
    <2>3. IsRequest(s)
      BY <1>2, <2>2 DEF IsRequest, Lookups, OneByOne
    <2>4. Nothing(s)
      BY <2>2, TreeAssumption DEF Nothing, Gated, Entered, Reads, HasMeta, OneByOne, HasBoth, BothLocked
    <2>5. Renames(s) <=> r.op = "rename"
      BY <2>2 DEF Renames, Lookups, OneByOne, HasBoth, BothLocked
    <2>6. SameLocks(r, s)
      BY <1>1, <2>4, <2>5, NothingSame
    <2>7. Become(t, s)
      BY <1>r, <1>q, <1>2, <1>5, <2>1 DEF LookupRoot, Become
    <2> QED
      BY <1>1, <1>3, <2>3, <2>6, <2>7, MoveOn
  <1> QED
    BY <1>4, <1>5

LEMMA LookupReadKeeps ==
  ASSUME LocksMatch, NEW t \in Threads, LookupRead(t)
  PROVE  LocksMatch'
  <1>r. PICK r : r = thr[t]
    OBVIOUS
  <1>s. PICK s : s = [r EXCEPT !.pc = "child", !.chain = None]
    OBVIOUS
  <1>1. Now(t, r) /\ contents \in ContentsLocks
    BY <1>r, NowIs DEF Now
  <1>2. /\ r.pc = "walk" /\ ~LastLocked(r) /\ contents[r.at].writer = None
        /\ contents' = ReadDone(Reading(contents, r.at, t), r.chain, t)
        /\ Become(t, s) /\ rename_lock' = rename_lock /\ MetaLeft(r)
    BY <1>r, <1>s DEF LookupRead, Become, At, GateOpen, Within, MetaLeft, Unlocked
  <1>3. IsRequest(s) /\ s.pc = "child" /\ s.at = r.at /\ s.todo = r.todo /\ s.op = r.op
    BY <1>1, <1>2, <1>s DEF Now, IsRequest, Idle, Lookups, OneByOne
  <1>4. /\ contents' \in ContentsLocks
        /\ \A d \in Dentries :
              /\ contents'[d].writer = contents[d].writer
              /\ contents'[d].readers = (contents[d].readers \cup IF d = r.at THEN {t} ELSE {}) \ (IF d = r.chain THEN {t} ELSE {})
    <2> DEFINE C1 == Reading(contents, r.at, t)
    <2>0. contents \in ContentsLocks
      BY <1>1
    <2>1. /\ C1 \in ContentsLocks
          /\ \A d \in Dentries : C1[d].writer = contents[d].writer
                               /\ C1[d].readers = IF d = r.at THEN contents[d].readers \cup {t} ELSE contents[d].readers
      BY <2>0, ReadingLock
    <2>2. contents' = ReadDone(C1, r.chain, t)
      BY <1>2
    <2> HIDE DEF C1
    <2>3. /\ contents' \in ContentsLocks
          /\ \A d \in Dentries : contents'[d].writer = C1[d].writer
                               /\ contents'[d].readers = IF d = r.chain THEN C1[d].readers \ {t} ELSE C1[d].readers
      BY <2>1, <2>2, ReadDoneLock
    <2> QED
      BY <2>1, <2>3, ZenonT(60)
  <1>5. ASSUME NEW d \in Dentries
        PROVE  /\ ~Gated(r, d) /\ ~Gated(s, d) /\ ~Entered(s, d) /\ ~HasMeta(r, d) /\ ~HasMeta(s, d)
               /\ (Reads(r, d) <=> d = r.chain) /\ (Reads(s, d) <=> d = r.at)
    BY <1>2, <1>3 DEF Gated, Entered, Reads, HasMeta, HasBoth, OneByOne, BothLocked, LastLocked
  <1>6. ASSUME NEW d \in Dentries
        PROVE  t \in contents'[d].readers => d = r.at
    BY <1>1, <1>4, <1>5 DEF Now, LocksOf
  <1>7. ContentsStep(t, r, s)
    BY <1>2, <1>4, <1>5, <1>6 DEF ContentsStep
  <1>8. MetaStep(t, r, s)
    BY <1>1, <1>2, <1>5, MetaQuiet
  <1>9. RenameStep(t, r, s)
    BY <1>2, <1>3 DEF Renames, HasBoth, Lookups, OneByOne, BothLocked, RenameStep
  <1> QED
    BY <1>1, <1>2, <1>3, <1>7, <1>8, <1>9, LockStep

LEMMA LookupMissKeeps ==
  ASSUME LocksMatch, NEW t \in Threads, LookupMiss(t)
  PROVE  LocksMatch'
  <1>r. PICK r : r = thr[t]
    OBVIOUS
  <1>q. PICK q : q = [r EXCEPT !.at = None, !.todo = <<>>]
    OBVIOUS
  <1>c. PICK c : c = IF r.op = "rename" THEN "r_nodir" ELSE "idle"
    OBVIOUS
  <1>s. PICK s : s = Dropping(q, <<r.at>>, c)
    OBVIOUS
  <1>1. Now(t, r) /\ r.pc = "child"
    BY <1>r, NowIs DEF LookupMiss, At, Within
  <1>2. DOMAIN q = DOMAIN Idle /\ q.chain = None
    BY <1>1, <1>q DEF Now, IsRequest, Idle
  <1>3. IsRequest(s) /\ Nothing(s) /\ (Renames(s) <=> r.op = "rename")
    BY <1>2, <1>s, <1>c, DroppingIs
  <1>4. Renames(r) <=> r.op = "rename"
    BY <1>1 DEF Renames, OneByOne, HasBoth, BothLocked, Lookups
  <1>5. Become(t, s) /\ UNCHANGED rename_lock /\ MetaLeft(r)
    BY <1>r, <1>q, <1>s, <1>c DEF LookupMiss, Become, At, Within, MetaLeft, Unlocked
  <1>6. \A d \in Dentries : /\ Gated(r, d) <=> LastLocked(r) /\ d = r.at
                            /\ Reads(r, d) <=> ~LastLocked(r) /\ d = r.at
                            /\ ~HasMeta(r, d)
    BY <1>1 DEF Gated, Entered, Reads, HasMeta, OneByOne, HasBoth, BothLocked
  <1>7. ContentsStep(t, r, s)
    <2>1. CASE LastLocked(r)
      <3>1. contents' = WriteDone(contents, r.at)
        BY <1>r, <2>1 DEF LookupMiss
      <3>2. \A d \in Dentries : /\ Gated(r, d) <=> Gated(s, d) \/ d = r.at
                                /\ d = r.at => ~Gated(s, d)
                                /\ Reads(r, d) => Reads(s, d)
                                /\ Entered(s, d) => Entered(r, d)
        BY <1>3, <1>6, <2>1 DEF Nothing
      <3> QED
        BY <1>1, <3>1, <3>2, ContentsWriteDoneOne
    <2>2. CASE ~LastLocked(r)
      <3>1. contents' = ReadDone(contents, r.at, t)
        BY <1>r, <2>2 DEF LookupMiss
      <3>2. \A d \in Dentries : /\ Gated(s, d) <=> Gated(r, d)
                                /\ Reads(r, d) /\ d # r.at => Reads(s, d)
                                /\ Entered(s, d) => Entered(r, d) \/ contents[d].readers = {}
        BY <1>3, <1>6, <2>2 DEF Nothing
      <3> QED
        BY <1>1, <3>1, <3>2, ContentsReadDone
    <2> QED
      BY <2>1, <2>2
  <1>8. MetaStep(t, r, s)
    BY <1>1, <1>3, <1>5, <1>6, MetaQuiet DEF Nothing
  <1>9. RenameStep(t, r, s)
    BY <1>3, <1>4, <1>5 DEF RenameStep
  <1> QED
    BY <1>1, <1>3, <1>5, <1>7, <1>8, <1>9, LockStep

LEMMA LookupChildKeeps ==
  ASSUME LocksMatch, NEW t \in Threads, LookupChild(t)
  PROVE  LocksMatch'
  <1>r. PICK r : r = thr[t]
    OBVIOUS
  <1>q. PICK q : q = [r EXCEPT !.up = r.at, !.at = Child(r.at, Head(r.todo)), !.todo = Tail(@), !.pc = "leave"]
    OBVIOUS
  <1>1. Now(t, r) /\ r.pc = "child"
    BY <1>r, NowIs DEF LookupChild, At, Within
  <1>2. DOMAIN q = DOMAIN Idle /\ q.chain = None /\ q.side = 1 /\ q.op = r.op /\ q.up = r.at /\ q.pc = "leave"
        /\ q.op \in {"open", "create", "unlink", "rename"}
    BY <1>1, <1>q DEF Now, IsRequest, Idle, Lookups
  <1>3. UNCHANGED <<contents, rename_lock>> /\ MetaLeft(r)
    BY <1>r DEF LookupChild, At, Within, MetaLeft, Unlocked
  <1>4. \A d \in Dentries : /\ Gated(r, d) <=> LastLocked(r) /\ d = r.at
                            /\ Entered(r, d) <=> LastLocked(r) /\ d = r.at
                            /\ Reads(r, d) <=> ~LastLocked(r) /\ d = r.at
                            /\ ~HasMeta(r, d)
    BY <1>1 DEF Gated, Entered, Reads, HasMeta, OneByOne, HasBoth, BothLocked
  <1>5. Renames(r) <=> r.op = "rename"
    BY <1>1 DEF Renames, OneByOne, HasBoth, BothLocked, Lookups
  <1>6. CASE LastLocked(r)
    <2>1. PICK s : s = Found(q)
      OBVIOUS
    <2>2. r.op = "unlink" /\ IsRequest(s) /\ UpOnly(s, r.at) /\ ~Renames(s)
      BY <1>2, <1>6, <2>1, FoundIs DEF LastLocked
    <2>3. SameLocks(r, s)
      BY <1>4, <1>5, <1>6, <2>2 DEF SameLocks, UpOnly
    <2>4. Become(t, s)
      BY <1>r, <1>q, <1>6, <2>1 DEF LookupChild, Become
    <2> QED
      BY <1>1, <1>3, <2>2, <2>3, <2>4, MoveOn
  <1>7. CASE ~LastLocked(r)
    <2>1. IsRequest(q)
      BY <1>2 DEF IsRequest, Lookups, OneByOne
    <2>2. SameLocks(r, q)
      <3>1. \A d \in Dentries : ~Gated(q, d) /\ ~Entered(q, d) /\ ~HasMeta(q, d) /\ (Reads(q, d) <=> d = r.at)
        BY <1>2 DEF Gated, Entered, Reads, HasMeta, OneByOne, HasBoth, BothLocked
      <3>2. Renames(q) <=> r.op = "rename"
        BY <1>2 DEF Renames, OneByOne, HasBoth, BothLocked, Lookups
      <3> QED
        BY <1>4, <1>5, <1>7, <3>1, <3>2 DEF SameLocks
    <2>3. Become(t, q)
      BY <1>r, <1>q, <1>7 DEF LookupChild, Become
    <2> QED
      BY <1>1, <1>3, <2>1, <2>2, <2>3, MoveOn
  <1> QED
    BY <1>6, <1>7

LEMMA LookupLeaveKeeps ==
  ASSUME LocksMatch, NEW t \in Threads, LookupLeave(t)
  PROVE  LocksMatch'
  <1>r. PICK r : r = thr[t]
    OBVIOUS
  <1>1. Now(t, r) /\ r.pc = "leave"
    BY <1>r, NowIs DEF LookupLeave, At, Within
  <1>2. \A d \in Dentries : ~Gated(r, d) /\ ~Entered(r, d) /\ (Reads(r, d) <=> d = r.up) /\ ~HasMeta(r, d)
    BY <1>1 DEF Gated, Entered, Reads, HasMeta, OneByOne, HasBoth, BothLocked
  <1>3. Renames(r) <=> r.op = "rename"
    BY <1>1 DEF Renames, OneByOne, HasBoth, BothLocked, Lookups
  <1>4. CASE r.todo = <<>>
    <2>q. PICK q : q = [r EXCEPT !.up = None]
      OBVIOUS
    <2>s. PICK s : s = Found(q)
      OBVIOUS
    <2>1. DOMAIN q = DOMAIN Idle /\ q.chain = None /\ q.side = 1 /\ q.op = r.op /\ q.up = None
          /\ q.op \in {"open", "create", "unlink", "rename"}
      BY <1>1, <2>q DEF Now, IsRequest, Idle, Lookups
    <2>2. IsRequest(s) /\ (Nothing(s) \/ UpOnly(s, None)) /\ (Renames(s) <=> r.op = "rename")
      BY <2>1, <2>s, FoundIs
    <2>3. Nothing(s)
      BY <2>2, TreeAssumption DEF Nothing, UpOnly
    <2>4. Become(t, s) /\ contents' = ReadDone(contents, r.up, t) /\ UNCHANGED rename_lock /\ MetaLeft(r)
      BY <1>r, <1>4, <2>q, <2>s DEF LookupLeave, Become, At, Within, MetaLeft, Unlocked
    <2>5. \A d \in Dentries : /\ Gated(s, d) <=> Gated(r, d)
                              /\ Reads(r, d) /\ d # r.up => Reads(s, d)
                              /\ Entered(s, d) => Entered(r, d) \/ contents[d].readers = {}
                              /\ HasMeta(s, d) <=> HasMeta(r, d)
      BY <1>2, <2>3 DEF Nothing
    <2>6. ContentsStep(t, r, s)
      BY <1>1, <2>4, <2>5, ContentsReadDone
    <2>7. MetaStep(t, r, s)
      BY <1>1, <2>4, <2>5, MetaQuiet
    <2>8. RenameStep(t, r, s)
      BY <1>3, <2>2, <2>4 DEF RenameStep
    <2> QED
      BY <1>1, <2>2, <2>4, <2>6, <2>7, <2>8, LockStep
  <1>5. CASE r.todo # <<>>
    <2>s. PICK s : s = [r EXCEPT !.pc = "walk", !.chain = r.up, !.up = None]
      OBVIOUS
    <2>1. IsRequest(s) /\ s.pc = "walk" /\ s.chain = r.up /\ s.op = r.op
      BY <1>1, <2>s DEF Now, IsRequest, Idle, Lookups, OneByOne
    <2>2. SameLocks(r, s)
      <3>1. \A d \in Dentries : ~Gated(s, d) /\ ~Entered(s, d) /\ ~HasMeta(s, d) /\ (Reads(s, d) <=> d = r.up)
        BY <2>1 DEF Gated, Entered, Reads, HasMeta, OneByOne, HasBoth, BothLocked
      <3>2. Renames(s) <=> r.op = "rename"
        BY <2>1 DEF Renames, OneByOne, HasBoth, BothLocked, Lookups
      <3> QED
        BY <1>2, <1>3, <3>1, <3>2 DEF SameLocks
    <2>3. Become(t, s) /\ UNCHANGED <<contents, rename_lock>> /\ MetaLeft(r)
      BY <1>r, <1>5, <2>s DEF LookupLeave, Become, At, Within, MetaLeft, Unlocked
    <2> QED
      BY <1>1, <2>1, <2>2, <2>3, MoveOn
  <1> QED
    BY <1>4, <1>5

LEMMA DropKeeps ==
  ASSUME LocksMatch, NEW t \in Threads, Drop(t)
  PROVE  LocksMatch'
  <1>r. PICK r : r = thr[t]
    OBVIOUS
  <1>s. PICK s : s = IF Len(r.drops) > 1 THEN [r EXCEPT !.drops = Tail(@)]
                     ELSE IF r.then = "idle" THEN Idle
                     ELSE IF r.then = "open" THEN [Idle EXCEPT !.pc = "open", !.at = r.at]
                     ELSE [r EXCEPT !.drops = <<>>, !.pc = r.then]
    OBVIOUS
  <1>1. Now(t, r) /\ r.pc = "drop" /\ DOMAIN r = DOMAIN Idle /\ r.chain = None
        /\ r.then \in {"idle", "open", "r_nodir", "r_out"}
    BY <1>r, NowIs DEF Drop, At, Now, IsRequest, Within
  <1>2. Become(t, s) /\ UNCHANGED <<contents, rename_lock>> /\ MetaLeft(r)
    BY <1>r, <1>s DEF Drop, Become, At, Within, MetaLeft, Unlocked
  <1>3. /\ Renames(r) <=> r.then \in {"r_nodir", "r_out"}
        /\ r.then # "r_out" => Nothing(r)
        /\ r.then = "r_out" => Both(r, r.fromdir, r.todir)
    BY <1>1 DEF Nothing, Both, Renames, Gated, Entered, Reads, HasMeta, OneByOne, HasBoth, BothLocked, Lookups
  <1>4. DOMAIN s = DOMAIN Idle /\ s.chain = None /\ (s.pc = "drop" => s.then = r.then)
        /\ s.pc \in {"drop", r.then} /\ (s.pc = "drop" \/ r.then \in {"r_nodir", "r_out"} => s.fromdir = r.fromdir /\ s.todir = r.todir)
    BY <1>1, <1>s DEF Idle
  <1>5. IsRequest(s)
    BY <1>1, <1>4 DEF IsRequest, Lookups, OneByOne
  <1>6. /\ Renames(s) <=> r.then \in {"r_nodir", "r_out"}
        /\ r.then # "r_out" => Nothing(s)
        /\ r.then = "r_out" => Both(s, r.fromdir, r.todir)
    BY <1>1, <1>4 DEF Nothing, Both, Renames, Gated, Entered, Reads, HasMeta, OneByOne, HasBoth, BothLocked, Lookups
  <1>7. SameLocks(r, s)
    BY <1>3, <1>6, NothingSame, BothSame
  <1> QED
    BY <1>1, <1>2, <1>5, <1>7, MoveOn

-----------------------------------------------------------------------------
(* Create and unlink.                                                      *)

\* The end of an operation that has one directory for writing, and no meta_lock.
LEMMA GatedLeaves ==
  ASSUME LocksMatch, NEW t \in Threads, NEW r, NEW s, Now(t, r), NEW p,
         \A d \in Dentries : (Gated(r, d) <=> d = p) /\ ~Reads(r, d) /\ ~HasMeta(r, d),
         Renames(r) <=> Renames(s), IsRequest(s), Nothing(s),
         Become(t, s), contents' = WriteDone(contents, p), UNCHANGED rename_lock, MetaLeft(r)
  PROVE  LocksMatch'
  <1>1. \A d \in Dentries : /\ Gated(r, d) <=> Gated(s, d) \/ d = p
                            /\ d = p => ~Gated(s, d)
                            /\ Reads(r, d) => Reads(s, d)
                            /\ Entered(s, d) => Entered(r, d)
                            /\ HasMeta(s, d) <=> HasMeta(r, d)
    BY DEF Nothing
  <1>2. ContentsStep(t, r, s)
    BY <1>1, ContentsWriteDoneOne
  <1>3. MetaStep(t, r, s)
    BY <1>1, MetaQuiet
  <1>4. RenameStep(t, r, s)
    BY DEF RenameStep
  <1> QED
    BY <1>2, <1>3, <1>4, LockStep

LEMMA CreateEndKeeps ==
  ASSUME LocksMatch, NEW t \in Threads, CreateExists(t) \/ CreateNoMemory(t) \/ CreateNew(t)
  PROVE  LocksMatch'
  <1>r. PICK r : r = thr[t]
    OBVIOUS
  <1>1. Now(t, r) /\ r.pc = "c_find"
    BY <1>r, NowIs DEF CreateExists, CreateNoMemory, CreateNew, At, Within
  <1>2. ~Renames(r) /\ \A d \in Dentries : (Gated(r, d) <=> d = r.at) /\ ~Reads(r, d) /\ ~HasMeta(r, d)
    BY <1>1 DEF Gated, Entered, Reads, HasMeta, Renames, OneByOne, HasBoth, BothLocked, Lookups
  <1>3. contents' = WriteDone(contents, r.at) /\ UNCHANGED rename_lock /\ MetaLeft(r)
    BY <1>r DEF CreateExists, CreateNoMemory, CreateNew, At, Within, MetaLeft, Unlocked
  <1>4. ASSUME NEW x, NEW q, q = [r EXCEPT !.at = x], NEW ds, NEW pc \in {"idle", "open"},
               Become(t, Dropping(q, ds, pc))
        PROVE  LocksMatch'
    <2>1. DOMAIN q = DOMAIN Idle /\ q.chain = None
      BY <1>1, <1>4 DEF Now, IsRequest, Idle
    <2>2. PICK s : s = Dropping(q, ds, pc)
      OBVIOUS
    <2>3. IsRequest(s) /\ Nothing(s) /\ ~Renames(s)
      BY <2>1, <2>2, DroppingIs
    <2>4. Become(t, s)
      BY <1>4, <2>2
    <2> QED
      BY <1>1, <1>2, <1>3, <2>3, <2>4, GatedLeaves
  <1>5. CASE CreateExists(t)
    <2>1. PICK q : q = [r EXCEPT !.at = None]
      OBVIOUS
    <2>2. Become(t, Dropping(q, <<Child(r.at, r.arg.name), r.at>>, "idle"))
      BY <1>5, <1>r, <2>1 DEF CreateExists, Become
    <2> QED
      BY <1>4, <2>1, <2>2
  <1>6. CASE CreateNoMemory(t)
    <2>1. PICK q : q = [r EXCEPT !.at = None]
      OBVIOUS
    <2>2. Become(t, Dropping(q, <<r.at>>, "idle"))
      BY <1>6, <1>r, <2>1 DEF CreateNoMemory, Become
    <2> QED
      BY <1>4, <2>1, <2>2
  <1>7. CASE CreateNew(t)
    <2>1. PICK d : d = CHOOSE x \in Dentries \ Live(dentry) : TRUE
      OBVIOUS
    <2>2. CASE r.arg.isdir
      <3>1. PICK q : q = [r EXCEPT !.at = None]
        OBVIOUS
      <3>2. Become(t, Dropping(q, <<r.at, d>>, "idle"))
        BY <1>7, <1>r, <2>1, <2>2, <3>1 DEF CreateNew, Become
      <3> QED
        BY <1>4, <3>1, <3>2
    <2>3. CASE ~r.arg.isdir
      <3>1. PICK q : q = [r EXCEPT !.at = d]
        OBVIOUS
      <3>2. Become(t, Dropping(q, <<r.at>>, "open"))
        BY <1>7, <1>r, <2>1, <2>3, <3>1 DEF CreateNew, Become
      <3> QED
        BY <1>4, <3>1, <3>2
    <2> QED
      BY <2>2, <2>3
  <1> QED
    BY <1>5, <1>6, <1>7

\* The exit for a directory that is not empty: it gives back what it has, and
\* what it releases besides strays or was free. (ltfs_fsops.c:453, 511)
LEMMA UnlinkNotEmptyKeeps ==
  ASSUME LocksMatch, NEW t \in Threads, UnlinkNotEmpty(t)
  PROVE  LocksMatch'
  <1>r. PICK r : r = thr[t]
    OBVIOUS
  <1>s. PICK s : s = [r EXCEPT !.pc = "u_exit"]
    OBVIOUS
  <1>1. Now(t, r) /\ r.pc = "u_check"
    BY <1>r, NowIs DEF UnlinkNotEmpty, At
  <1>2. ~Renames(r) /\ \A d \in Dentries : (Gated(r, d) <=> d = r.up) /\ ~Reads(r, d) /\ ~HasMeta(r, d)
    BY <1>1 DEF Gated, Entered, Reads, HasMeta, Renames, OneByOne, HasBoth, BothLocked, Lookups
  <1>3. DOMAIN s = DOMAIN Idle /\ s.chain = None /\ s.pc = "u_exit"
    BY <1>1, <1>s DEF Now, IsRequest, Idle
  <1>4. IsRequest(s) /\ Nothing(s) /\ ~Renames(s)
    BY <1>3, IdleIs
  <1>5. /\ contents' = WriteDone(contents, r.up) /\ MetaLeft(r)
        /\ Become(t, s) /\ rename_lock' = rename_lock
    BY <1>r, <1>s DEF UnlinkNotEmpty, Become, At, MetaLeft, Unlocked
  <1> QED
    BY <1>1, <1>2, <1>4, <1>5, GatedLeaves

LEMMA UnlinkExitReadsKeeps ==
  ASSUME LocksMatch, NEW t \in Threads, UnlinkExitReads(t)
  PROVE  LocksMatch'
  <1>r. PICK r : r = thr[t]
    OBVIOUS
  <1>s. PICK s : s = [r EXCEPT !.pc = "u_stray", !.seen = dentry[r.up].numhandles]
    OBVIOUS
  <1>1. Now(t, r) /\ r.pc = "u_exit" /\ r.held = None
    BY <1>r, NowIs DEF UnlinkExitReads, At
  <1>2. DOMAIN s = DOMAIN Idle /\ s.chain = None /\ s.pc = "u_stray" /\ s.held = None
    BY <1>1, <1>s DEF Now, IsRequest, Idle
  <1>3. Nothing(r) /\ ~Renames(r) /\ IsRequest(s) /\ Nothing(s) /\ ~Renames(s)
    BY <1>1, <1>2, IdleIs, LocklessIs, LocklessRenames DEF Lockless
  <1>4. thr' = [thr EXCEPT ![t] = s] /\ UNCHANGED <<contents, meta, rename_lock, strayed>>
    BY <1>r, <1>s DEF UnlinkExitReads, LocksMatch, LockTypes
  <1>5. ASSUME NEW d \in Dentries PROVE LocksOf(t, s, d)' /\ Moves(t, d)
    <2>1. LocksOf(t, r, d) /\ d # None
      BY <1>1, TreeAssumption DEF Now
    <2> QED
      BY <1>1, <1>2, <1>3, <1>4, <2>1 DEF LocksOf, Moves, Nothing, Has
  <1>6. LockTypes' /\ (rename_lock' = t <=> Renames(s))
    BY <1>1, <1>3, <1>4 DEF LocksMatch, LockTypes, Now
  <1>7. Step(t, s)
    BY <1>2, <1>3, <1>4, <1>5, <1>6 DEF Step, HeldInside
  <1> QED
    BY <1>7, StepKeeps

LEMMA UnlinkExitKeeps ==
  ASSUME LocksMatch, NEW t \in Threads, UnlinkExit(t)
  PROVE  LocksMatch'
  <1>r. PICK r : r = thr[t]
    OBVIOUS
  <1>q. PICK q : q = [r EXCEPT !.at = None, !.up = None, !.seen = 0]
    OBVIOUS
  <1>s. PICK s : s = Dropping(q, <<r.at>>, "idle")
    OBVIOUS
  <1>1. Now(t, r) /\ r.pc = "u_stray" /\ r.held = None
    BY <1>r, NowIs DEF UnlinkExit, At
  <1>2. DOMAIN q = DOMAIN Idle /\ q.chain = None /\ q.held = None
    BY <1>1, <1>q DEF Now, IsRequest, Idle
  <1>3. Nothing(r) /\ ~Renames(r) /\ IsRequest(s) /\ Nothing(s) /\ ~Renames(s)
    BY <1>1, <1>2, <1>s, LocklessIs, LocklessRenames, DroppingIs DEF Lockless
  <1>h. s.held = None
    BY <1>2, <1>s DEF Dropping, Idle
  <1>4. /\ thr' = [thr EXCEPT ![t] = s] /\ UNCHANGED <<contents, rename_lock>>
        /\ meta' = Unlocked(meta, r.up) /\ (strayed => strayed')
        /\ meta[r.up] # None => strayed'
    BY <1>r, <1>q, <1>s DEF UnlinkExit, Unheld
  <1>5. /\ meta' \in [Dentries -> Threads \cup {None}]
        /\ \A d \in Dentries : meta'[d] = IF d = r.up THEN None ELSE meta[d]
    BY <1>1, <1>4, TreeAssumption DEF Now, Unlocked
  <1>6. ASSUME NEW d \in Dentries PROVE LocksOf(t, s, d)' /\ Moves(t, d)
    <2>1. LocksOf(t, r, d) /\ d # None /\ t # None
      BY <1>1, TreeAssumption DEF Now
    <2>2. meta'[d] # t
      BY <1>1, <1>3, <1>5, <2>1 DEF LocksOf, Nothing, Has
    <2>3. LocksOf(t, s, d)'
      BY <1>3, <1>h, <1>4, <2>1, <2>2 DEF LocksOf, Nothing, Has
    <2>4. Moves(t, d)
      BY <1>4, <1>5 DEF Moves
    <2> QED
      BY <2>3, <2>4
  <1>7. LockTypes' /\ (rename_lock' = t <=> Renames(s))
    BY <1>1, <1>3, <1>4, <1>5 DEF LocksMatch, LockTypes, Now
  <1>8. Step(t, s)
    BY <1>3, <1>h, <1>4, <1>6, <1>7 DEF Step, HeldInside
  <1> QED
    BY <1>8, StepKeeps

LEMMA UnlinkMetaKeeps ==
  ASSUME LocksMatch, NEW t \in Threads, UnlinkMeta(t)
  PROVE  LocksMatch'
  <1>r. PICK r : r = thr[t]
    OBVIOUS
  <1>s. PICK s : s = [r EXCEPT !.pc = "u_remove"]
    OBVIOUS
  <1>1. Now(t, r) /\ r.pc = "u_meta" /\ r.held = None
    BY <1>r, NowIs DEF UnlinkMeta, At, Within
  <1>2. meta[r.up] = None /\ meta' = [meta EXCEPT ![r.up] = t] /\ Become(t, s) /\ UNCHANGED <<contents, rename_lock>>
    BY <1>r, <1>s DEF UnlinkMeta, Become, Unheld
  <1>3. IsRequest(s) /\ s.pc = "u_remove" /\ s.up = r.up
    BY <1>1, <1>s DEF Now, IsRequest, Idle, Lookups, OneByOne
  <1>4. /\ Renames(r) <=> Renames(s)
        /\ \A d \in Dentries : /\ Gated(s, d) <=> Gated(r, d)
                               /\ Entered(s, d) => Entered(r, d)
                               /\ Reads(r, d) => Reads(s, d)
                               /\ HasMeta(s, d) <=> HasMeta(r, d) \/ d = r.up
    BY <1>1, <1>3 DEF Gated, Entered, Reads, HasMeta, Renames, OneByOne, HasBoth, BothLocked, Lookups
  <1>5. ContentsStep(t, r, s)
    BY <1>1, <1>2, <1>4, ContentsQuiet
  <1>6. MetaStep(t, r, s)
    BY <1>1, <1>2, <1>4, MetaTaken
  <1>7. RenameStep(t, r, s)
    BY <1>2, <1>4 DEF RenameStep
  <1> QED
    BY <1>1, <1>2, <1>3, <1>5, <1>6, <1>7, LockStep

LEMMA UnlinkRemoveKeeps ==
  ASSUME LocksMatch, NEW t \in Threads, UnlinkRemove(t)
  PROVE  LocksMatch'
  <1>r. PICK r : r = thr[t]
    OBVIOUS
  <1>q. PICK q : q = [r EXCEPT !.at = None, !.up = None]
    OBVIOUS
  <1>s. PICK s : s = Dropping(q, <<r.at>>, "idle")
    OBVIOUS
  <1>1. Now(t, r) /\ r.pc = "u_remove" /\ r.held = r.at
    BY <1>r, NowIs DEF UnlinkRemove, At, Within
  <1>2. ~Renames(r) /\ \A d \in Dentries : (Gated(r, d) <=> d = r.up) /\ ~Reads(r, d) /\ (HasMeta(r, d) <=> d \in {r.up, r.up})
    BY <1>1 DEF Gated, Entered, Reads, HasMeta, Renames, OneByOne, HasBoth, BothLocked, Lookups
  <1>3. DOMAIN q = DOMAIN Idle /\ q.chain = None
    BY <1>1, <1>q DEF Now, IsRequest, Idle
  <1>4. IsRequest(s) /\ Nothing(s) /\ ~Renames(s)
    BY <1>3, <1>s, DroppingIs
  <1>5. /\ contents' = WriteDone(contents, r.up) /\ meta' = Unlocked(Unlocked(meta, r.at), r.up)
        /\ Become(t, s) /\ rename_lock' = rename_lock
    BY <1>r, <1>q, <1>s DEF UnlinkRemove, Become
  <1>6. ContentsStep(t, r, s)
    <2>1. \A d \in Dentries : /\ Gated(r, d) <=> Gated(s, d) \/ d = r.up
                              /\ d = r.up => ~Gated(s, d)
                              /\ Reads(r, d) => Reads(s, d)
                              /\ Entered(s, d) => Entered(r, d)
      BY <1>2, <1>4 DEF Nothing
    <2> QED
      BY <1>1, <1>5, <2>1, ContentsWriteDoneOne
  <1>7. MetaStep(t, r, s)
    <2>0. meta \in [Dentries -> Threads \cup {None}]
      BY <1>1 DEF Now
    <2>1. /\ meta' \in [Dentries -> Threads \cup {None}]
          /\ \A d \in Dentries : meta'[d] = IF d \in {r.up, r.up, r.held} THEN None ELSE meta[d]
      BY <1>1, <1>5, <2>0, TreeAssumption DEF Unlocked
    <2> QED
      BY <1>1, <1>2, <1>4, <2>1, MetaGiven DEF Nothing
  <1>8. RenameStep(t, r, s)
    BY <1>2, <1>4, <1>5 DEF RenameStep
  <1> QED
    BY <1>1, <1>4, <1>5, <1>6, <1>7, <1>8, LockStep

-----------------------------------------------------------------------------
(* Rename.                                                                 *)

LEMMA RenameKeeps ==
  ASSUME LocksMatch, NEW t \in Threads, Rename(t)
  PROVE  LocksMatch'
  <1>1. PICK a : Become(t, Looking([Idle EXCEPT !.op = "rename", !.arg = a], a.fromdir))
    BY DEF Rename
  <1>r. PICK r : r = thr[t]
    OBVIOUS
  <1>q. PICK q : q = [Idle EXCEPT !.op = "rename", !.arg = a]
    OBVIOUS
  <1>s. PICK s : s = Looking(q, a.fromdir)
    OBVIOUS
  <1>2. Now(t, r) /\ r.pc = "idle" /\ Nothing(r) /\ ~Renames(r)
    BY <1>r, NowIs, LocklessIs, LocklessRenames DEF Rename, At, Lockless, Within
  <1>3. DOMAIN q = DOMAIN Idle /\ q.chain = None /\ q.side = 1 /\ q.up = None /\ q.op = "rename"
    BY <1>q DEF Idle
  <1>4. IsRequest(s) /\ Nothing(s) /\ Renames(s)
    BY <1>3, <1>s, LookingIs
  <1>5. Become(t, s) /\ UNCHANGED contents /\ MetaLeft(r) /\ rename_lock = None /\ rename_lock' = t
    BY <1>r, <1>1, <1>q, <1>s DEF Rename, Become, At, Within, MetaLeft, Unlocked
  <1>6. ContentsStep(t, r, s)
    BY <1>2, <1>4, <1>5, ContentsQuiet DEF Nothing
  <1>7. MetaStep(t, r, s)
    BY <1>2, <1>4, <1>5, MetaQuiet DEF Nothing
  <1>8. RenameStep(t, r, s)
    BY <1>4, <1>5 DEF RenameStep
  <1> QED
    BY <1>2, <1>4, <1>5, <1>6, <1>7, <1>8, LockStep

\* The ends of a rename that has given the locks of its directories back.
LEMMA RenameEnds ==
  ASSUME LocksMatch, NEW t \in Threads, NEW r, Now(t, r), r.pc \in {"r_nodir", "r_same"},
         NEW s, IsRequest(s), Nothing(s), ~Renames(s),
         Become(t, s), UNCHANGED contents, MetaLeft(r), rename_lock' = None
  PROVE  LocksMatch'
  <1>1. Nothing(r) /\ Renames(r)
    BY LocklessIs, LocklessRenames DEF Lockless
  <1>2. ContentsStep(t, r, s)
    BY <1>1, ContentsQuiet DEF Nothing
  <1>3. MetaStep(t, r, s)
    BY <1>1, MetaQuiet DEF Nothing
  <1>4. RenameStep(t, r, s)
    BY <1>1 DEF RenameStep
  <1> QED
    BY <1>2, <1>3, <1>4, LockStep

\* What is left to do is at most the release of the source.
AfterRename(s, from) ==
  s = IF from = None THEN Idle ELSE Dropping([Idle EXCEPT !.op = "rename"], <<from>>, "idle")

LEMMA AfterRenameIs ==
  ASSUME NEW s, NEW from, AfterRename(s, from)
  PROVE  IsRequest(s) /\ Nothing(s) /\ ~Renames(s)
  <1>1. CASE from = None
    <2>1. DOMAIN s = DOMAIN Idle /\ s.chain = None /\ s.pc = "idle"
      BY <1>1 DEF AfterRename, Idle
    <2> QED
      BY <2>1, IdleIs
  <1>2. CASE from # None
    <2>1. PICK q : q = [Idle EXCEPT !.op = "rename"]
      OBVIOUS
    <2>2. DOMAIN q = DOMAIN Idle /\ q.chain = None
      BY <2>1 DEF Idle
    <2>3. s = Dropping(q, <<from>>, "idle")
      BY <1>2, <2>1 DEF AfterRename
    <2> QED
      BY <2>2, <2>3, DroppingIs
  <1> QED
    BY <1>1, <1>2

LEMMA RenameNoDirKeeps ==
  ASSUME LocksMatch, NEW t \in Threads, RenameNoDir(t)
  PROVE  LocksMatch'
  <1>r. PICK r : r = thr[t]
    OBVIOUS
  <1>s. PICK s : s = Idle
    OBVIOUS
  <1>1. Now(t, r) /\ r.pc = "r_nodir"
    BY <1>r, NowIs DEF RenameNoDir, At, Within
  <1>2. IsRequest(s) /\ Nothing(s) /\ ~Renames(s)
    BY <1>s, AfterRenameIs DEF AfterRename
  <1>3. Become(t, s) /\ UNCHANGED contents /\ MetaLeft(r) /\ rename_lock' = None
    BY <1>r, <1>s DEF RenameNoDir, Become, At, Within, MetaLeft, Unlocked
  <1> QED
    BY <1>1, <1>2, <1>3, RenameEnds

LEMMA RenameOutSameKeeps ==
  ASSUME LocksMatch, NEW t \in Threads, RenameOutSame(t)
  PROVE  LocksMatch'
  <1>r. PICK r : r = thr[t]
    OBVIOUS
  <1>s. PICK s : AfterRename(s, r.from)
    BY DEF AfterRename
  <1>1. Now(t, r) /\ r.pc = "r_same"
    BY <1>r, NowIs DEF RenameOutSame, At, Within
  <1>2. IsRequest(s) /\ Nothing(s) /\ ~Renames(s)
    BY <1>s, AfterRenameIs
  <1>3. Become(t, s) /\ UNCHANGED contents /\ MetaLeft(r) /\ rename_lock' = None
    BY <1>r, <1>s DEF RenameOutSame, Become, AfterRename, At, Within, MetaLeft, Unlocked
  <1> QED
    BY <1>1, <1>2, <1>3, RenameEnds

\* One directory after the other: the fields that say which one is being locked.
SameSide(r, s) ==
  /\ DOMAIN s = DOMAIN Idle /\ s.chain = None /\ s.side = r.side /\ Side(s) = Side(r) /\ FirstSide(s) = FirstSide(r)
  /\ s.fromdir = r.fromdir /\ s.todir = r.todir /\ s.first = r.first

LEMMA SideKept ==
  ASSUME NEW r, IsRequest(r), r.pc \in OneByOne, NEW pc, NEW s, s = [r EXCEPT !.pc = pc]
  PROVE  SameSide(r, s) /\ s.pc = pc
  <1>1. /\ DOMAIN s = DOMAIN Idle /\ s.chain = None /\ s.side = r.side /\ s.pc = pc
        /\ s.fromdir = r.fromdir /\ s.todir = r.todir /\ s.first = r.first
    BY DEF IsRequest, Idle, OneByOne
  <1> QED
    BY <1>1 DEF SameSide, Side, FirstSide, IsTo

LEMMA OneByOneIs ==
  ASSUME NEW s, s.pc \in OneByOne
  PROVE  /\ Renames(s)
         /\ \A d \in Dentries :
              /\ Gated(s, d) <=> (s.side = 2 /\ d = FirstSide(s)) \/ (s.pc # "r_gate" /\ d = Side(s))
              /\ Entered(s, d) <=> (s.side = 2 /\ d = FirstSide(s)) \/ (s.pc \in {"r_meta", "r_find"} /\ d = Side(s))
              /\ HasMeta(s, d) <=> (s.side = 2 /\ d = FirstSide(s)) \/ (s.pc = "r_find" /\ d = Side(s))
              /\ ~Reads(s, d)
  BY DEF Gated, Entered, Reads, HasMeta, Renames, OneByOne, HasBoth, BothLocked, Lookups

LEMMA RenameGateKeeps ==
  ASSUME LocksMatch, NEW t \in Threads, RenameGate(t)
  PROVE  LocksMatch'
  <1>r. PICK r : r = thr[t]
    OBVIOUS
  <1>s. PICK s : s = [r EXCEPT !.pc = "r_enter"]
    OBVIOUS
  <1>1. Now(t, r) /\ r.pc = "r_gate" /\ IsRequest(r)
    BY <1>r, NowIs DEF RenameGate, At, Now, Within
  <1>2. /\ contents[Side(r)].writer = None /\ contents' = Writing(contents, Side(r), t)
        /\ Become(t, s) /\ UNCHANGED rename_lock /\ MetaLeft(r)
    BY <1>r, <1>s DEF RenameGate, Become, GateOpen, At, Within, MetaLeft, Unlocked
  <1>3. SameSide(r, s) /\ s.pc = "r_enter"
    BY <1>1, <1>s, SideKept DEF OneByOne
  <1>4. IsRequest(s)
    BY <1>1, <1>3 DEF IsRequest, SameSide, Lookups, OneByOne
  <1>5. /\ Renames(r) /\ Renames(s)
        /\ \A d \in Dentries : /\ Gated(s, d) <=> Gated(r, d) \/ d = Side(r)
                               /\ Entered(s, d) => Entered(r, d)
                               /\ Reads(r, d) => Reads(s, d)
                               /\ HasMeta(s, d) <=> HasMeta(r, d)
    BY <1>1, <1>3, OneByOneIs DEF SameSide, OneByOne
  <1>6. ContentsStep(t, r, s)
    BY <1>1, <1>2, <1>5, ContentsWriting
  <1>7. MetaStep(t, r, s)
    BY <1>1, <1>2, <1>5, MetaQuiet
  <1>8. RenameStep(t, r, s)
    BY <1>2, <1>5 DEF RenameStep
  <1> QED
    BY <1>1, <1>2, <1>4, <1>6, <1>7, <1>8, LockStep

LEMMA RenameEnterKeeps ==
  ASSUME LocksMatch, NEW t \in Threads, RenameEnter(t)
  PROVE  LocksMatch'
  <1>r. PICK r : r = thr[t]
    OBVIOUS
  <1>s. PICK s : s = [r EXCEPT !.pc = "r_meta"]
    OBVIOUS
  <1>1. Now(t, r) /\ r.pc = "r_enter" /\ IsRequest(r)
    BY <1>r, NowIs DEF RenameEnter, At, Now, Within
  <1>2. contents[Side(r)].readers = {} /\ Become(t, s) /\ UNCHANGED <<contents, rename_lock>> /\ MetaLeft(r)
    BY <1>r, <1>s DEF RenameEnter, Become, Drained, At, Within, MetaLeft, Unlocked
  <1>3. SameSide(r, s) /\ s.pc = "r_meta"
    BY <1>1, <1>s, SideKept DEF OneByOne
  <1>4. IsRequest(s)
    BY <1>1, <1>3 DEF IsRequest, SameSide, Lookups, OneByOne
  <1>5. /\ Renames(r) /\ Renames(s)
        /\ \A d \in Dentries : /\ Gated(s, d) <=> Gated(r, d)
                               /\ Entered(s, d) => Entered(r, d) \/ contents[d].readers = {}
                               /\ Reads(r, d) => Reads(s, d)
                               /\ HasMeta(s, d) <=> HasMeta(r, d)
    BY <1>1, <1>2, <1>3, OneByOneIs DEF SameSide, OneByOne
  <1>6. ContentsStep(t, r, s)
    BY <1>1, <1>2, <1>5, ContentsQuiet
  <1>7. MetaStep(t, r, s)
    BY <1>1, <1>2, <1>5, MetaQuiet
  <1>8. RenameStep(t, r, s)
    BY <1>2, <1>5 DEF RenameStep
  <1> QED
    BY <1>1, <1>2, <1>4, <1>6, <1>7, <1>8, LockStep

LEMMA RenameMetaKeeps ==
  ASSUME LocksMatch, NEW t \in Threads, RenameMeta(t)
  PROVE  LocksMatch'
  <1>r. PICK r : r = thr[t]
    OBVIOUS
  <1>s. PICK s : s = [r EXCEPT !.pc = "r_find"]
    OBVIOUS
  <1>1. Now(t, r) /\ r.pc = "r_meta" /\ IsRequest(r) /\ r.held = None
    BY <1>r, NowIs DEF RenameMeta, At, Now, Within
  <1>2. /\ meta[Side(r)] = None /\ meta' = [meta EXCEPT ![Side(r)] = t]
        /\ Become(t, s) /\ UNCHANGED <<contents, rename_lock>>
    BY <1>r, <1>s DEF RenameMeta, Become, Unheld
  <1>3. SameSide(r, s) /\ s.pc = "r_find"
    BY <1>1, <1>s, SideKept DEF OneByOne
  <1>4. IsRequest(s)
    BY <1>1, <1>3 DEF IsRequest, SameSide, Lookups, OneByOne
  <1>5. /\ Renames(r) /\ Renames(s)
        /\ \A d \in Dentries : /\ Gated(s, d) <=> Gated(r, d)
                               /\ Entered(s, d) => Entered(r, d) \/ contents[d].readers = {}
                               /\ Reads(r, d) => Reads(s, d)
                               /\ HasMeta(s, d) <=> HasMeta(r, d) \/ d = Side(r)
    BY <1>1, <1>3, OneByOneIs DEF SameSide, OneByOne
  <1>6. ContentsStep(t, r, s)
    BY <1>1, <1>2, <1>5, ContentsQuiet
  <1>7. MetaStep(t, r, s)
    BY <1>1, <1>2, <1>5, MetaTaken
  <1>8. RenameStep(t, r, s)
    BY <1>2, <1>5 DEF RenameStep
  <1> QED
    BY <1>1, <1>2, <1>4, <1>6, <1>7, <1>8, LockStep

LEMMA RenameFindKeeps ==
  ASSUME LocksMatch, NEW t \in Threads, RenameFind(t)
  PROVE  LocksMatch'
  <1>r. PICK r : r = thr[t]
    OBVIOUS
  <1>c. PICK c : c = Sought(r)
    OBVIOUS
  <1>q. PICK q : q = IF IsTo(r) THEN [r EXCEPT !.to = c] ELSE [r EXCEPT !.from = c]
    OBVIOUS
  <1>s. PICK s : s = IF r.side = 2 THEN [q EXCEPT !.pc = "r_check"]
                     ELSE [q EXCEPT !.side = 2, !.pc = IF r.todir = r.fromdir THEN "r_find" ELSE "r_gate"]
    OBVIOUS
  <1>1. Now(t, r) /\ r.pc = "r_find" /\ IsRequest(r) /\ r.side \in {1, 2}
    BY <1>r, NowIs DEF RenameFind, At, Now, IsRequest, OneByOne, Within
  <1>2. Become(t, s) /\ UNCHANGED <<contents, rename_lock>> /\ MetaLeft(r)
    BY <1>r, <1>c, <1>q, <1>s DEF RenameFind, Become, At, Within, MetaLeft, Unlocked
  <1>3. /\ DOMAIN q = DOMAIN Idle /\ q.chain = None /\ q.fromdir = r.fromdir /\ q.todir = r.todir
        /\ q.first = r.first /\ q.side = r.side
    BY <1>1, <1>q DEF IsRequest, Idle
  <1>4. /\ DOMAIN s = DOMAIN Idle /\ s.chain = None /\ s.fromdir = r.fromdir /\ s.todir = r.todir
        /\ s.first = r.first /\ s.side = 2
        /\ s.pc = IF r.side = 2 THEN "r_check" ELSE IF r.todir = r.fromdir THEN "r_find" ELSE "r_gate"
    BY <1>1, <1>3, <1>s DEF Idle
  <1>5. IsRequest(s)
    BY <1>4 DEF IsRequest, Lookups, OneByOne
  <1>6. Renames(r) /\ \A d \in Dentries :
          /\ Gated(r, d) <=> (r.side = 2 /\ d = FirstSide(r)) \/ d = Side(r)
          /\ Entered(r, d) <=> (r.side = 2 /\ d = FirstSide(r)) \/ d = Side(r)
          /\ HasMeta(r, d) <=> (r.side = 2 /\ d = FirstSide(r)) \/ d = Side(r)
          /\ ~Reads(r, d)
    BY <1>1, OneByOneIs DEF OneByOne
  <1>7. SameLocks(r, s)
    <2>1. CASE r.side = 2
      <3>1. Both(s, r.fromdir, r.todir) /\ Renames(s)
        BY <1>4, <2>1, BothIs DEF BothLocked
      <3>2. {FirstSide(r), Side(r)} = {r.fromdir, r.todir}
        BY <2>1 DEF FirstSide, Side, IsTo
      <3> QED
        BY <1>6, <2>1, <3>1, <3>2 DEF Both, SameLocks
    <2>2. CASE r.side = 1
      <3>1. s.pc \in {"r_find", "r_gate"} /\ FirstSide(s) = Side(r)
        BY <1>4, <2>2 DEF FirstSide, Side, IsTo
      <3>2. s.pc = "r_find" => Side(s) = Side(r)
        BY <1>4, <2>2 DEF Side
      <3>3. Renames(s) /\ \A d \in Dentries :
              /\ Gated(s, d) <=> d = Side(r)
              /\ Entered(s, d) <=> d = Side(r)
              /\ HasMeta(s, d) <=> d = Side(r)
        BY <1>4, <3>1, <3>2, OneByOneIs DEF OneByOne
      <3> QED
        BY <1>6, <2>2, <3>3 DEF SameLocks
    <2> QED
      BY <1>1, <2>1, <2>2
  <1> QED
    BY <1>1, <1>2, <1>5, <1>7, MoveOn

\* With both directories locked, a rename goes on or out.
LEMMA BothGoOn ==
  ASSUME LocksMatch, NEW t \in Threads, NEW r, Now(t, r), r.pc \in BothLocked,
         NEW s, DOMAIN s = DOMAIN Idle, s.chain = None, s.pc \in BothLocked,
         s.fromdir = r.fromdir, s.todir = r.todir,
         Become(t, s), UNCHANGED <<contents, rename_lock>>, MetaLeft(r)
  PROVE  LocksMatch'
  <1>1. IsRequest(s)
    BY DEF IsRequest, Lookups, OneByOne, BothLocked
  <1>2. SameLocks(r, s)
    BY BothIs, BothSame
  <1> QED
    BY <1>1, <1>2, MoveOn

LEMMA BothGoOut ==
  ASSUME LocksMatch, NEW t \in Threads, NEW r, Now(t, r), r.pc \in BothLocked,
         NEW q, DOMAIN q = DOMAIN Idle, q.chain = None, q.fromdir = r.fromdir, q.todir = r.todir,
         NEW ds, Become(t, Dropping(q, ds, "r_out")), UNCHANGED <<contents, rename_lock>>, MetaLeft(r)
  PROVE  LocksMatch'
  <1>1. PICK s : s = Dropping(q, ds, "r_out")
    OBVIOUS
  <1>2. IsRequest(s) /\ Renames(s) /\ Both(s, r.fromdir, r.todir)
    BY <1>1, DroppingIs
  <1>3. SameLocks(r, s)
    BY <1>2, BothIs, BothSame
  <1>4. Become(t, s)
    BY <1>1
  <1> QED
    BY <1>2, <1>3, <1>4, MoveOn

LEMMA BothNext ==
  ASSUME NEW r, IsRequest(r), r.pc \in BothLocked
  PROVE  /\ DOMAIN r = DOMAIN Idle /\ r.chain = None
  BY DEF IsRequest, BothLocked

LEMMA RenameRefuseKeeps ==
  ASSUME LocksMatch, NEW t \in Threads, RenameRefuse(t)
  PROVE  LocksMatch'
  <1>r. PICK r : r = thr[t]
    OBVIOUS
  <1>q. PICK q : q = [r EXCEPT !.from = None, !.to = None]
    OBVIOUS
  <1>1. Now(t, r) /\ r.pc \in BothLocked
    BY <1>r, NowIs DEF RenameRefuse, At, BothLocked, Within
  <1>2. DOMAIN q = DOMAIN Idle /\ q.chain = None /\ q.fromdir = r.fromdir /\ q.todir = r.todir
    BY <1>1, <1>q, BothNext DEF Now, Idle
  <1>3. UNCHANGED <<contents, rename_lock>> /\ MetaLeft(r)
    BY <1>r DEF RenameRefuse, At, Within, MetaLeft, Unlocked
  <1>4. PICK ds : Become(t, Dropping(q, ds, "r_out"))
    BY <1>r, <1>q DEF RenameRefuse, Become
  <1> QED
    BY <1>1, <1>2, <1>3, <1>4, BothGoOut

LEMMA RenameTargetGoes ==
  ASSUME LocksMatch, NEW t \in Threads, RenameTarget(t)
  PROVE  LocksMatch'
  <1>r. PICK r : r = thr[t]
    OBVIOUS
  <1>1. Now(t, r) /\ r.pc \in BothLocked
    BY <1>r, NowIs DEF RenameTarget, At, BothLocked, Within
  <1>2. UNCHANGED <<contents, rename_lock>> /\ MetaLeft(r)
    BY <1>r DEF RenameTarget, At, Within, MetaLeft, Unlocked
  <1>3. CASE dentry[r.to].isdir /\ ~Empty(r.to)
    <2>q. PICK q : q = [r EXCEPT !.from = None, !.to = None]
      OBVIOUS
    <2>1. DOMAIN q = DOMAIN Idle /\ q.chain = None /\ q.fromdir = r.fromdir /\ q.todir = r.todir
      BY <1>1, <2>q, BothNext DEF Now, Idle
    <2>2. Become(t, Dropping(q, <<r.from, r.to>>, "r_out"))
      BY <1>r, <1>3, <2>q DEF RenameTarget, Become
    <2> QED
      BY <1>1, <1>2, <2>1, <2>2, BothGoOut
  <1>4. CASE ~(dentry[r.to].isdir /\ ~Empty(r.to))
    <2>s. PICK s : s = [r EXCEPT !.pc = "r_unlink"]
      OBVIOUS
    <2>1. DOMAIN s = DOMAIN Idle /\ s.chain = None /\ s.fromdir = r.fromdir /\ s.todir = r.todir /\ s.pc \in BothLocked
      BY <1>1, <2>s, BothNext DEF Now, Idle, BothLocked
    <2>2. Become(t, s)
      BY <1>r, <1>4, <2>s DEF RenameTarget, Become
    <2> QED
      BY <1>1, <1>2, <2>1, <2>2, BothGoOn
  <1> QED
    BY <1>3, <1>4

LEMMA RenameGoesOnKeeps ==
  ASSUME LocksMatch, NEW t \in Threads, RenameNoTarget(t) \/ RenameUnlink(t) \/ RenameMove(t)
  PROVE  LocksMatch'
  <1>r. PICK r : r = thr[t]
    OBVIOUS
  <1>1. Now(t, r) /\ r.pc \in BothLocked
    BY <1>r, NowIs DEF RenameNoTarget, RenameUnlink, RenameMove, At, BothLocked, Within
  <1>2. UNCHANGED <<contents, rename_lock>> /\ MetaLeft(r)
    BY <1>r DEF RenameNoTarget, RenameUnlink, RenameMove, At, Within, MetaLeft, Unlocked
  <1>3. CASE RenameNoTarget(t) \/ RenameUnlink(t)
    <2>s. PICK s : s = [r EXCEPT !.to = None, !.pc = "r_move"]
      OBVIOUS
    <2>1. DOMAIN s = DOMAIN Idle /\ s.chain = None /\ s.fromdir = r.fromdir /\ s.todir = r.todir /\ s.pc \in BothLocked
      BY <1>1, <2>s, BothNext DEF Now, Idle, BothLocked
    <2>2. Become(t, s)
      BY <1>r, <1>3, <2>s DEF RenameNoTarget, RenameUnlink, Become
    <2> QED
      BY <1>1, <1>2, <2>1, <2>2, BothGoOn
  <1>4. CASE RenameMove(t)
    <2>s. PICK s : s = [r EXCEPT !.pc = "r_out"]
      OBVIOUS
    <2>1. DOMAIN s = DOMAIN Idle /\ s.chain = None /\ s.fromdir = r.fromdir /\ s.todir = r.todir /\ s.pc \in BothLocked
      BY <1>1, <2>s, BothNext DEF Now, Idle, BothLocked
    <2>2. Become(t, s)
      BY <1>r, <1>4, <2>s DEF RenameMove, Become
    <2> QED
      BY <1>1, <1>2, <2>1, <2>2, BothGoOn
  <1> QED
    BY <1>3, <1>4

LEMMA RenameOutKeeps ==
  ASSUME LocksMatch, NEW t \in Threads, RenameOut(t)
  PROVE  LocksMatch'
  <1>r. PICK r : r = thr[t]
    OBVIOUS
  <1>1. Now(t, r) /\ r.pc \in BothLocked
    BY <1>r, NowIs DEF RenameOut, At, BothLocked
  <1>2. Both(r, r.fromdir, r.todir) /\ Renames(r)
    BY <1>1, BothIs
  <1>3. /\ contents' = WriteDone(WriteDone(contents, r.fromdir), r.todir)
        /\ meta' \in [Dentries -> Threads \cup {None}]
        /\ \A d \in Dentries : meta'[d] = IF d \in {r.fromdir, r.todir, r.held} THEN None ELSE meta[d]
    BY <1>r, <1>1, TreeAssumption DEF RenameOut, At, Now
  <1>4. ASSUME NEW s, Nothing(s)
        PROVE  ContentsStep(t, r, s) /\ MetaStep(t, r, s)
    <2>1. \A d \in Dentries : /\ Gated(r, d) <=> Gated(s, d) \/ d \in {r.fromdir, r.todir}
                              /\ d \in {r.fromdir, r.todir} => ~Gated(s, d)
                              /\ Reads(r, d) => Reads(s, d)
                              /\ Entered(s, d) => Entered(r, d)
      BY <1>2, <1>4 DEF Nothing, Both
    <2>2. ContentsStep(t, r, s)
      BY <1>1, <1>3, <2>1, ContentsWriteDone
    <2>3. (\A d \in Dentries : HasMeta(r, d) <=> d \in {r.fromdir, r.todir}) /\ \A d \in Dentries : ~HasMeta(s, d)
      BY <1>2, <1>4 DEF Nothing, Both
    <2>4. MetaStep(t, r, s)
      BY <1>1, <1>3, <2>3, MetaGiven
    <2> QED
      BY <2>2, <2>4
  <1>5. CASE r.fromdir = r.todir
    <2>q. PICK q : q = [Idle EXCEPT !.op = "rename", !.from = r.from, !.todir = r.todir]
      OBVIOUS
    <2>s. PICK s : s = [q EXCEPT !.pc = "r_same"]
      OBVIOUS
    <2>1. DOMAIN s = DOMAIN Idle /\ s.chain = None /\ s.pc = "r_same"
      BY <2>q, <2>s DEF Idle
    <2>2. IsRequest(s) /\ Nothing(s) /\ Renames(s)
      BY <2>1, IdleIs
    <2>3. Become(t, s) /\ rename_lock' = rename_lock
      BY <1>r, <1>5, <2>q, <2>s DEF RenameOut, Become
    <2>4. RenameStep(t, r, s)
      BY <1>2, <2>2, <2>3 DEF RenameStep
    <2>5. ContentsStep(t, r, s) /\ MetaStep(t, r, s)
      BY <1>4, <2>2
    <2> QED
      BY <1>1, <2>2, <2>3, <2>4, <2>5, LockStep
  <1>6. CASE r.fromdir # r.todir
    <2>s. PICK s : AfterRename(s, r.from)
      BY DEF AfterRename
    <2>1. IsRequest(s) /\ Nothing(s) /\ ~Renames(s)
      BY <2>s, AfterRenameIs
    <2>2. Become(t, s) /\ rename_lock' = None
      BY <1>r, <1>6, <2>s DEF RenameOut, Become, AfterRename
    <2>3. RenameStep(t, r, s)
      BY <1>2, <2>1, <2>2 DEF RenameStep
    <2>4. ContentsStep(t, r, s) /\ MetaStep(t, r, s)
      BY <1>4, <2>1
    <2> QED
      BY <1>1, <2>1, <2>2, <2>3, <2>4, LockStep
  <1> QED
    BY <1>5, <1>6

-----------------------------------------------------------------------------
\* The lock of a count is taken while the request stays where it is.
LEMMA TakeMetaKeeps ==
  ASSUME LocksMatch, NEW t \in Threads, TakeMeta(t)
  PROVE  LocksMatch'
  <1>r. PICK r : r = thr[t]
    OBVIOUS
  <1>p. PICK p : p = Wanted(r)
    OBVIOUS
  <1>s. PICK s : s = [r EXCEPT !.held = p, !.seen = dentry[p].numhandles]
    OBVIOUS
  <1>1. Now(t, r) /\ IsRequest(r)
    BY <1>r, NowIs DEF Now
  <1>2. /\ r.held = None /\ p # None /\ meta[p] = None /\ meta' = [meta EXCEPT ![p] = t]
        /\ thr' = [thr EXCEPT ![t] = s] /\ UNCHANGED <<contents, rename_lock, strayed>>
    BY <1>r, <1>p, <1>s DEF TakeMeta, Unheld, LocksMatch, LockTypes
  <1>3. /\ IsRequest(s) /\ s.held = p /\ s.pc = r.pc /\ (Renames(s) <=> Renames(r))
        /\ \A d \in Dentries : /\ Gated(s, d) <=> Gated(r, d)
                               /\ Entered(s, d) <=> Entered(r, d)
                               /\ Reads(s, d) <=> Reads(r, d)
                               /\ HasMeta(s, d) <=> HasMeta(r, d)
    <2>1. Apart(s, r, p, dentry[p].numhandles)
      BY <1>s DEF Apart
    <2>2. AsBefore(s, r) /\ s.held = p
      BY <1>1, <2>1, HeldApart
    <2> QED
      BY <2>2 DEF AsBefore
  <1>4. r.pc \notin {"idle", "open"}
    BY <1>p, <1>2 DEF Wanted
  <1>5. /\ meta' \in [Dentries -> Threads \cup {None}]
        /\ \A d \in Dentries : meta'[d] = IF d = p THEN t ELSE meta[d]
    BY <1>1, <1>2 DEF Now
  <1>6. ASSUME NEW d \in Dentries PROVE LocksOf(t, s, d)' /\ Moves(t, d)
    <2>1. LocksOf(t, r, d) /\ d # None /\ t # None
      BY <1>1, TreeAssumption DEF Now
    <2>2. contents' = contents /\ strayed' = strayed
      BY <1>2
    <2>3. LocksOf(t, s, d)'
      BY <1>2, <1>3, <1>5, <2>1, <2>2 DEF LocksOf, Has
    <2>4. Moves(t, d)
      BY <1>2, <1>5, <2>2 DEF Moves
    <2> QED
      BY <2>3, <2>4
  <1>7. LockTypes' /\ (rename_lock' = t <=> Renames(s))
    BY <1>1, <1>2, <1>3, <1>5 DEF LocksMatch, LockTypes, Now
  <1>8. Step(t, s)
    BY <1>2, <1>3, <1>4, <1>6, <1>7 DEF Step, HeldInside
  <1> QED
    BY <1>8, StepKeeps

-----------------------------------------------------------------------------
\* The invariant, over the whole specification.
LEMMA LocksMatchInit == Init => LocksMatch
  <1>1. SUFFICES ASSUME Init PROVE LocksMatch
    OBVIOUS
  <1>2. PICK s : s = Idle
    OBVIOUS
  <1>3. DOMAIN s = DOMAIN Idle /\ s.chain = None /\ s.pc = "idle" /\ s.held = None
    BY <1>2 DEF Idle
  <1>4. IsRequest(s) /\ Nothing(s) /\ ~Renames(s)
    BY <1>3, IdleIs
  <1>5. thr = [t \in Threads |-> s]
    BY <1>1, <1>2 DEF Init
  <1>6. LockTypes
    BY <1>1, <1>5 DEF Init, LockTypes
  <1>7. ASSUME NEW t \in Threads, NEW d \in Dentries PROVE LocksOf(t, thr[t], d)
    BY <1>1, <1>3, <1>4, <1>5, TreeAssumption DEF Init, LocksOf, Nothing, Has
  <1>8. \A t \in Threads : IsRequest(thr[t]) /\ HeldInside(thr[t]) /\ (rename_lock = t <=> Renames(thr[t]))
    BY <1>1, <1>3, <1>4, <1>5, TreeAssumption DEF Init, HeldInside
  <1> QED
    BY <1>6, <1>7, <1>8 DEF LocksMatch

LEMMA LocksMatchNext == LocksMatch /\ [Next]_vars => LocksMatch'
  <1>1. SUFFICES ASSUME LocksMatch, [Next]_vars PROVE LocksMatch'
    OBVIOUS
  <1>2. CASE UNCHANGED vars
    BY <1>1, <1>2 DEF vars, LocksMatch, LockTypes, LocksOf
  <1>3. CASE Next
    <2>1. PICK t \in Threads :
            TakeMeta(t) \/ Lookup(t) \/ Drop(t) \/ OpenClose(t) \/ Creating(t) \/ Unlinking(t) \/ Renaming(t)
      BY <1>3 DEF Next
    <2>2. CASE TakeMeta(t) \/ Lookup(t) \/ Drop(t)
      BY <1>1, <2>2, TakeMetaKeeps, LookupRootKeeps, LookupReadKeeps, LookupGateKeeps, LookupEnterKeeps, LookupMissKeeps,
         LookupChildKeeps, LookupLeaveKeeps, DropKeeps DEF Lookup
    <2>3. CASE OpenClose(t) \/ Creating(t)
      BY <1>1, <2>3, StartKeeps, CloseCountKeeps, CloseCountedKeeps, CloseKeeps,
         CreateGateKeeps, CreateEnterKeeps, CreateEndKeeps DEF OpenClose, Creating
    <2>4. CASE Unlinking(t)
      BY <1>1, <2>4, StartKeeps, UnlinkEmptyKeeps, UnlinkNotEmptyKeeps, UnlinkExitReadsKeeps, UnlinkExitKeeps,
         UnlinkMetaKeeps, UnlinkRemoveKeeps DEF Unlinking
    <2>5. CASE Renaming(t)
      BY <1>1, <2>5, RenameKeeps, RenameNoDirKeeps, RenameGateKeeps, RenameEnterKeeps, RenameMetaKeeps, RenameFindKeeps,
         RenameRefuseKeeps, RenameGoesOnKeeps, RenameTargetGoes, RenameOutKeeps, RenameOutSameKeeps DEF Renaming
    <2> QED
      BY <2>1, <2>2, <2>3, <2>4, <2>5
  <1> QED
    BY <1>1, <1>2, <1>3

\* A request that is over, or a file that is only open, has no place with a lock.
LEMMA LocksMatchIdle == LocksMatch => IdleHoldsNothing
  <1>1. SUFFICES ASSUME LocksMatch, NEW t \in Threads, thr[t].pc \in {"idle", "open"}
                 PROVE  /\ rename_lock # t
                        /\ \A d \in Dentries : contents[d].writer # t /\ t \notin contents[d].readers /\ meta[d] # t
    BY DEF IdleHoldsNothing
  <1>2. Nothing(thr[t]) /\ ~Renames(thr[t]) /\ thr[t].held = None
    BY <1>1, LocklessIs, LocklessRenames DEF Lockless, LocksMatch, HeldInside
  <1> QED
    BY <1>1, <1>2, TreeAssumption DEF LocksMatch, LocksOf, Nothing, Has

\* Whatever way an operation ends, also on its errors, it has given back every
\* contents_lock and meta_lock it took: a request that is over, or a file that is
\* only open, has none. (ltfs_fsops.c:209-760, fs.c:675-788)
THEOREM NothingKept == Spec => []IdleHoldsNothing
  BY LocksMatchInit, LocksMatchNext, LocksMatchIdle, PTL DEF Spec

-----------------------------------------------------------------------------
(* What a step changes of the dentries.                                    *)

EntryFields == {"isdir", "parent", "child_list", "deleted", "numhandles", "link_count"}
IsTree(D) == D = [x \in Dentries |-> D[x]] /\ \A x \in Dentries : D[x] = Free \/ DOMAIN D[x] = EntryFields
SameList(x, y) == y.child_list = x.child_list
SameCounts(x, y) == y.numhandles = x.numhandles /\ y.link_count = x.link_count /\ y.deleted = x.deleted

\* From D to E, of the dentries that stay only the lists of L and the counts of C
\* change.
Only(D, E, L, C) ==
  /\ IsTree(E)
  /\ \A x \in Dentries : /\ D[x] = Free => E[x] = Free
                         /\ E[x] # Free => /\ x \notin L => SameList(D[x], E[x])
                                           /\ x \notin C => SameCounts(D[x], E[x])

\* One change after the other.
LEMMA OnlyThen ==
  ASSUME NEW D, NEW E, NEW F, NEW L1, NEW C1, NEW L2, NEW C2, Only(D, E, L1, C1), Only(E, F, L2, C2)
  PROVE  Only(D, F, L1 \cup L2, C1 \cup C2)
  BY DEF Only, SameList, SameCounts

\* The helpers that count: fs_acquire_dentry, fs_release_dentry, fs_dispose_dentry. (fs.c)
LEMMA HandleOnly ==
  ASSUME NEW D, IsTree(D), NEW d, NEW n
  PROVE  Only(D, Handle(D, d, n), {}, {d}) /\ Only(D, Unhandle(D, d, n), {}, {d})
  BY DEF IsTree, Handle, Unhandle, EntryFields, Free, Only, SameList, SameCounts

LEMMA DisposeOnly ==
  ASSUME NEW D, IsTree(D), NEW d
  PROVE  Only(D, Dispose(D, d), {}, {})
  <1>1. \A x \in Dentries : \/ Dispose(D, d)[x] = Free
                            \/ Dispose(D, d)[x] = D[x]
                            \/ Dispose(D, d)[x] = [D[x] EXCEPT !.parent = None]
    BY DEF Dispose
  <1>2. Dispose(D, d) = [x \in Dentries |-> Dispose(D, d)[x]]
    BY DEF Dispose
  <1>3. PICK E : E = Dispose(D, d)
    OBVIOUS
  <1> QED
    BY <1>1, <1>2, <1>3, ZenonT(60) DEF IsTree, EntryFields, Free, Only, SameList, SameCounts

LEMMA ReleaseOnly ==
  ASSUME NEW D, IsTree(D), NEW d, NEW n
  PROVE  Only(D, Release(D, d, n), {}, {d})
  <1>1. PICK E : E = Unhandle(D, d, n)
    OBVIOUS
  <1>2. Only(D, E, {}, {d}) /\ IsTree(E)
    BY <1>1, HandleOnly DEF Only
  <1>3. Only(E, Dispose(E, d), {}, {})
    BY <1>2, DisposeOnly
  <1>4. Only(D, Dispose(E, d), {} \cup {}, {d} \cup {})
    BY <1>2, <1>3, OnlyThen
  <1>5. Release(D, d, n) = IF n = 1 THEN Dispose(E, d) ELSE E
    BY <1>1 DEF Release
  <1>6. {} \cup {} = {} /\ {d} \cup {} = {d}
    OBVIOUS
  <1> QED
    BY <1>2, <1>4, <1>5, <1>6

\* An unlink changes the parent and what it removes. (ltfs_fsops.c:461)
LEMMA DetachOnly ==
  ASSUME NEW D, IsTree(D), NEW p, NEW n, NEW d
  PROVE  Only(D, Detach(D, p, n, d), {p}, {p})
  BY DEF IsTree, Detach, EntryFields, Free, Only, SameList, SameCounts

LEMMA UnlinkedOnly ==
  ASSUME NEW D, IsTree(D), NEW p, NEW n, NEW d, NEW count
  PROVE  Only(D, Unlinked(D, p, n, d, count), {p}, {p, d})
  <1>1. PICK E : E = Detach(D, p, n, d)
    OBVIOUS
  <1>2. Only(D, E, {p}, {p}) /\ IsTree(E)
    BY <1>1, DetachOnly DEF Only
  <1>3. PICK F : F = [E EXCEPT ![d].deleted = TRUE, ![d].parent = None, ![d].link_count = @ - 1, ![d].numhandles = count - 1]
    OBVIOUS
  <1>4. Only(E, F, {}, {d})
    BY <1>2, <1>3 DEF IsTree, EntryFields, Free, Only, SameList, SameCounts
  <1>5. F = Unlinked(D, p, n, d, count)
    BY <1>1, <1>3 DEF Unlinked
  <1>6. Only(D, F, {p} \cup {}, {p} \cup {d})
    BY <1>2, <1>4, OnlyThen
  <1>7. {p} \cup {} = {p} /\ {p} \cup {d} = {p, d}
    OBVIOUS
  <1> QED
    BY <1>5, <1>6, <1>7

\* A rename changes its two directories. (ltfs_fsops.c:623)
LEMMA MovedOnly ==
  ASSUME NEW D, IsTree(D), NEW r
  PROVE  Only(D, Moved(D, r), {r.fromdir, r.todir}, {r.fromdir, r.todir})
  <1>1. PICK E : E = Detach(D, r.fromdir, r.arg.fromname, r.from)
    OBVIOUS
  <1>2. Only(D, E, {r.fromdir}, {r.fromdir}) /\ IsTree(E)
    BY <1>1, DetachOnly DEF Only
  <1>3. PICK F : F = [E EXCEPT ![r.todir].child_list = With(@, r.arg.toname, r.from),
                ![r.todir].link_count = IF D[r.from].isdir THEN @ + 1 ELSE @,
                ![r.from].parent = r.todir]
    OBVIOUS
  <1>4. Only(E, F, {r.todir}, {r.todir})
    <2>1. PICK F1 : F1 = [E EXCEPT ![r.todir].child_list = With(@, r.arg.toname, r.from),
                                   ![r.todir].link_count = IF D[r.from].isdir THEN @ + 1 ELSE @]
      OBVIOUS
    <2>2. Only(E, F1, {r.todir}, {r.todir}) /\ IsTree(F1)
      BY <1>2, <2>1 DEF IsTree, EntryFields, Free, Only, SameList, SameCounts
    <2>3. F = [F1 EXCEPT ![r.from].parent = r.todir]
      BY <1>3, <2>1
    <2>4. Only(F1, F, {}, {})
      BY <2>2, <2>3 DEF IsTree, EntryFields, Free, Only, SameList, SameCounts
    <2>5. Only(E, F, {r.todir} \cup {}, {r.todir} \cup {})
      BY <2>2, <2>4, OnlyThen
    <2>6. {r.todir} \cup {} = {r.todir}
      OBVIOUS
    <2> QED
      BY <2>5, <2>6
  <1>5. F = Moved(D, r)
    BY <1>1, <1>3 DEF Moved
  <1>6. Only(D, F, {r.fromdir} \cup {r.todir}, {r.fromdir} \cup {r.todir})
    BY <1>2, <1>4, OnlyThen
  <1>7. {r.fromdir} \cup {r.todir} = {r.fromdir, r.todir}
    OBVIOUS
  <1> QED
    BY <1>5, <1>6, <1>7

-----------------------------------------------------------------------------
(* No step changes a list or a count without its lock.                     *)

Changes(D, E, L, C) ==
  /\ IsTree(E)
  /\ \A x \in Dentries : D[x] # Free /\ E[x] # Free => /\ x \notin L => SameList(D[x], E[x])
                                                       /\ x \notin C => SameCounts(D[x], E[x])

\* Changes is what the guards need of Only.
LEMMA OnlyChanges ==
  ASSUME NEW D, NEW E, NEW L, NEW C, Only(D, E, L, C)
  PROVE  Changes(D, E, L, C)
  BY DEF Only, Changes

\* The entries that thread t changes have their locks, as long as no exit strays.
EntriesBy(t) ==
  \A d \in Live(dentry) \cap Live(dentry') :
    /\ dentry'[d].child_list # dentry[d].child_list => contents[d].writer = t /\ contents[d].readers = {}
    /\ ~SameCounts(dentry[d], dentry'[d])
         => \/ meta[d] = t
            \/ thr[t].pc = "u_stray" /\ thr[t].up = d /\ meta[d] = None
Guarded(t) ==
  /\ IsTree(dentry')
  /\ \A s \in Threads \ {t} : thr'[s] = thr[s]
  /\ strayed' \/ EntriesBy(t)

\* What changes under the locks of a place is guarded.
LEMMA Guards ==
  ASSUME LocksMatch, NEW t \in Threads, NEW r, Now(t, r), NEW q, Become(t, q), NEW L, NEW C,
         Changes(dentry, dentry', L, C),
         \A d \in Dentries : /\ d \in L => Entered(r, d)
                             /\ d \in C => Has(r, d)
  PROVE  Guarded(t)
  <1>1. /\ \A s \in Threads \ {t} : thr'[s] = thr[s]
        /\ strayed' = strayed
    BY DEF Become, LocksMatch, LockTypes
  <1>2. ASSUME NEW d \in Dentries, dentry[d] # Free, dentry'[d] # Free, ~strayed
        PROVE  /\ dentry'[d].child_list # dentry[d].child_list => contents[d].writer = t /\ contents[d].readers = {}
               /\ ~SameCounts(dentry[d], dentry'[d]) => meta[d] = t
    <2>1. /\ d \notin L => SameList(dentry[d], dentry'[d])
          /\ d \notin C => SameCounts(dentry[d], dentry'[d])
      BY <1>2 DEF Changes
    <2>2. LocksOf(t, r, d)
      BY DEF Now
    <2>3. d \in L => contents[d].writer = t /\ contents[d].readers = {}
      BY <2>2 DEF LocksOf, Gated
    <2>4. d \in C => meta[d] = t
      BY <1>2, <2>2 DEF LocksOf
    <2> QED
      BY <2>1, <2>3, <2>4 DEF SameList
  <1>3. IsTree(dentry')
    BY DEF Changes
  <1> QED
    BY <1>1, <1>2, <1>3 DEF Guarded, EntriesBy, Live

\* Steps that leave the dentries alone.
LEMMA QuietGuarded ==
  ASSUME LocksMatch, IsTree(dentry), NEW t \in Threads, NEW q, thr' = [thr EXCEPT ![t] = q], dentry' = dentry
  PROVE  Guarded(t)
  BY DEF Guarded, EntriesBy, SameCounts, LocksMatch, LockTypes

\* Steps that change one count, with the lock.
LEMMA CountGuarded ==
  ASSUME LocksMatch, IsTree(dentry), NEW t \in Threads, NEW r, Now(t, r), NEW q, Become(t, q), NEW n,
         dentry' \in {Handle(dentry, r.held, n), Unhandle(dentry, r.held, n), Release(dentry, r.held, n)}
  PROVE  Guarded(t)
  <1>1. Only(dentry, dentry', {}, {r.held})
    BY HandleOnly, ReleaseOnly
  <1>2. Changes(dentry, dentry', {}, {r.held})
    BY <1>1, OnlyChanges
  <1>3. \A d \in Dentries : d \in {r.held} => Has(r, d)
    BY DEF Has
  <1> QED
    BY <1>2, <1>3, Guards

\* Every operation, step by step.
LEMMA LookupGuarded ==
  ASSUME LocksMatch, IsTree(dentry), NEW t \in Threads, Lookup(t) \/ Drop(t)
  PROVE  Guarded(t)
  <1>r. PICK r : r = thr[t]
    OBVIOUS
  <1>1. Now(t, r)
    BY <1>r, NowIs
  <1>2. PICK q : Become(t, q)
    BY DEF Lookup, LookupRoot, LookupRead, LookupGate, LookupEnter, LookupMiss, LookupChild, LookupLeave, Drop
  <1>3. CASE LookupRead(t) \/ LookupGate(t) \/ LookupEnter(t) \/ LookupMiss(t)
    <2>1. dentry' = dentry
      BY <1>3 DEF LookupRead, LookupGate, LookupEnter, LookupMiss
    <2> QED
      BY <1>2, <2>1, QuietGuarded DEF Become
  <1>4. CASE LookupRoot(t) \/ LookupChild(t) \/ LookupLeave(t) \/ Drop(t)
    <2>1. PICK n : dentry' \in {Handle(dentry, r.held, n), Unhandle(dentry, r.held, n), Release(dentry, r.held, n)}
      BY <1>r, <1>4 DEF LookupRoot, LookupChild, LookupLeave, Drop, Within
    <2> QED
      BY <1>1, <1>2, <2>1, CountGuarded
  <1> QED
    BY <1>3, <1>4 DEF Lookup

LEMMA OpenCloseGuarded ==
  ASSUME LocksMatch, IsTree(dentry), NEW t \in Threads, OpenClose(t)
  PROVE  Guarded(t)
  <1>1. dentry' = dentry
    BY DEF OpenClose, Open, CloseCount, CloseCounted, Close
  <1>2. PICK q : Become(t, q)
    BY DEF OpenClose, Open, CloseCount, CloseCounted, Close
  <1> QED
    BY <1>1, <1>2, QuietGuarded DEF Become

LEMMA CreatingGuarded ==
  ASSUME LocksMatch, IsTree(dentry), NEW t \in Threads, Creating(t)
  PROVE  Guarded(t)
  <1>r. PICK r : r = thr[t]
    OBVIOUS
  <1>1. Now(t, r)
    BY <1>r, NowIs
  <1>2. PICK q : Become(t, q)
    BY DEF Creating, Create, CreateGate, CreateEnter, CreateExists, CreateNoMemory, CreateNew
  <1>3. CASE Create(t) \/ CreateGate(t) \/ CreateEnter(t) \/ CreateNoMemory(t)
    <2>1. dentry' = dentry
      BY <1>3 DEF Create, CreateGate, CreateEnter, CreateNoMemory
    <2> QED
      BY <1>2, <2>1, QuietGuarded DEF Become
  <1>4. CASE CreateExists(t)
    <2>1. PICK n : dentry' = Handle(dentry, r.held, n)
      BY <1>r, <1>4 DEF CreateExists
    <2> QED
      BY <1>1, <1>2, <2>1, CountGuarded
  <1>5. CASE CreateNew(t)
    <2>p. PICK p : p = r.at
      OBVIOUS
    <2>d. PICK d : d = CHOOSE x \in Dentries \ Live(dentry) : TRUE
      OBVIOUS
    <2>1. /\ r.pc = "c_find" /\ r.held = p
          /\ dentry' = [dentry EXCEPT
                      ![d] = NewDentry(p, r.arg.isdir),
                      ![p].child_list = With(@, r.arg.name, d),
                      ![p].link_count = IF r.arg.isdir THEN @ + 1 ELSE @]
      BY <1>5, <1>r, <2>p, <2>d DEF CreateNew
    <2>2. d \in Dentries /\ dentry[d] = Free
      BY <1>5, <2>d DEF CreateNew, Live
    <2>3. PICK E : E = [dentry EXCEPT ![d] = NewDentry(p, r.arg.isdir)]
      OBVIOUS
    <2>4. IsTree(E) /\ \A x \in Dentries : x # d => E[x] = dentry[x]
      BY <2>2, <2>3 DEF IsTree, NewDentry, EntryFields
    <2>5. Only(E, dentry', {p}, {p})
      <3>1. PICK list, links :
              dentry' = [[dentry EXCEPT ![d] = NewDentry(p, r.arg.isdir)] EXCEPT ![p].child_list = list, ![p].link_count = links]
        BY <2>1
      <3>2. dentry' = [E EXCEPT ![p].child_list = list, ![p].link_count = links]
        BY <2>3, <3>1
      <3> QED
        BY <2>4, <3>2 DEF IsTree, EntryFields, Free, Only, SameList, SameCounts
    <2>6. Changes(dentry, dentry', {p}, {p})
      BY <2>2, <2>4, <2>5 DEF Only, Changes
    <2>7. Entered(r, p)
      BY <2>1, <2>p DEF Entered
    <2>8. \A x \in Dentries : /\ x \in {p} => Entered(r, x)
                              /\ x \in {p} => Has(r, x)
      BY <2>1, <2>7 DEF Has
    <2> QED
      BY <1>1, <1>2, <2>6, <2>8, Guards
  <1> QED
    BY <1>3, <1>4, <1>5 DEF Creating

LEMMA UnlinkingGuarded ==
  ASSUME LocksMatch, IsTree(dentry), NEW t \in Threads, Unlinking(t)
  PROVE  Guarded(t)
  <1>r. PICK r : r = thr[t]
    OBVIOUS
  <1>1. Now(t, r)
    BY <1>r, NowIs
  <1>3. CASE Unlink(t) \/ UnlinkEmpty(t) \/ UnlinkNotEmpty(t) \/ UnlinkMeta(t)
    <2>1. dentry' = dentry
      BY <1>3 DEF Unlink, UnlinkEmpty, UnlinkNotEmpty, UnlinkMeta
    <2>2. PICK s : Become(t, s)
      BY <1>3 DEF Unlink, UnlinkEmpty, UnlinkNotEmpty, UnlinkMeta
    <2> QED
      BY <2>1, <2>2, QuietGuarded DEF Become
  <1>x. CASE UnlinkExitReads(t)
    <2>1. dentry' = dentry /\ thr' = [thr EXCEPT ![t] = [r EXCEPT !.pc = "u_stray", !.seen = dentry[r.up].numhandles]]
      BY <1>x, <1>r DEF UnlinkExitReads, LocksMatch, LockTypes
    <2> QED
      BY <2>1, QuietGuarded
  <1>4. CASE UnlinkExit(t)
    <2>1. /\ r.pc = "u_stray" /\ dentry' = Release(dentry, r.up, r.seen)
          /\ meta[r.up] # None => strayed'
          /\ \A s \in Threads \ {t} : thr'[s] = thr[s]
      BY <1>4, <1>r DEF UnlinkExit, At, Unheld, LocksMatch, LockTypes
    <2>2. Only(dentry, dentry', {}, {r.up})
      BY <2>1, ReleaseOnly
    <2>3. ASSUME NEW d \in Dentries, dentry'[d] # Free, ~strayed'
          PROVE  /\ SameList(dentry[d], dentry'[d])
                 /\ SameCounts(dentry[d], dentry'[d]) \/ (d = r.up /\ meta[d] = None)
      BY <2>1, <2>2, <2>3 DEF Only
    <2>4. IsTree(dentry')
      BY <2>2 DEF Only
    <2> QED
      BY <1>r, <2>1, <2>3, <2>4 DEF Guarded, EntriesBy, Live, SameList
  <1>5. CASE UnlinkRemove(t)
    <2>n. PICK n : n = Last(r.arg.path)
      OBVIOUS
    <2>E. PICK E : E = Unlinked(dentry, r.up, n, r.at, r.seen)
      OBVIOUS
    <2>q. PICK s : Become(t, s)
      BY <1>5 DEF UnlinkRemove
    <2>1. r.pc = "u_remove" /\ r.held = r.at /\ dentry' = Release(E, r.up, E[r.up].numhandles)
      BY <1>5, <1>r, <2>n, <2>E DEF UnlinkRemove, Within, Released
    <2>2. Only(dentry, E, {r.up}, {r.up, r.at}) /\ IsTree(E)
      BY <2>E, UnlinkedOnly DEF Only
    <2>3. Only(E, dentry', {}, {r.up})
      BY <2>1, <2>2, ReleaseOnly
    <2>4. Only(dentry, dentry', {r.up} \cup {}, {r.up, r.at} \cup {r.up})
      BY <2>2, <2>3, OnlyThen
    <2>5. {r.up} \cup {} = {r.up} /\ {r.up, r.at} \cup {r.up} = {r.up, r.at}
      OBVIOUS
    <2>6. Changes(dentry, dentry', {r.up}, {r.up, r.at})
      BY <2>4, <2>5, OnlyChanges
    <2>7. Entered(r, r.up) /\ Has(r, r.up) /\ Has(r, r.at)
      BY <2>1 DEF Entered, HasMeta, Has
    <2> QED
      BY <1>1, <2>q, <2>6, <2>7, Guards
  <1> QED
    BY <1>3, <1>x, <1>4, <1>5 DEF Unlinking

LEMMA RenamingGuarded ==
  ASSUME LocksMatch, IsTree(dentry), NEW t \in Threads, Renaming(t)
  PROVE  Guarded(t)
  <1>r. PICK r : r = thr[t]
    OBVIOUS
  <1>1. Now(t, r)
    BY <1>r, NowIs
  <1>2. PICK q : Become(t, q)
    BY DEF Renaming, Rename, RenameNoDir, RenameGate, RenameEnter, RenameMeta, RenameFind, RenameRefuse, RenameNoTarget,
           RenameTarget, RenameUnlink, RenameMove, RenameOut, RenameOutSame
  <1>3. r.pc \in BothLocked => \A d \in {r.fromdir, r.todir} : Entered(r, d) /\ Has(r, d)
    BY DEF Entered, HasMeta, HasBoth, Has
  <1>4. CASE Rename(t) \/ RenameGate(t) \/ RenameEnter(t) \/ RenameMeta(t) \/ RenameTarget(t)
    <2>1. dentry' = dentry
      BY <1>4 DEF Rename, RenameGate, RenameEnter, RenameMeta, RenameTarget
    <2> QED
      BY <1>2, <2>1, QuietGuarded DEF Become
  <1>5. CASE RenameNoDir(t) \/ RenameFind(t) \/ RenameNoTarget(t) \/ RenameOutSame(t)
    <2>1. CASE dentry' = dentry
      BY <1>2, <2>1, QuietGuarded DEF Become
    <2>2. CASE \E n : dentry' \in {Handle(dentry, r.held, n), Unhandle(dentry, r.held, n), Release(dentry, r.held, n)}
      BY <1>1, <1>2, <2>2, CountGuarded
    <2>3. \/ dentry' = dentry
          \/ \E n : dentry' \in {Handle(dentry, r.held, n), Unhandle(dentry, r.held, n), Release(dentry, r.held, n)}
      BY <1>r, <1>5 DEF RenameNoDir, RenameFind, RenameNoTarget, RenameOutSame, Within
    <2> QED
      BY <2>1, <2>2, <2>3
  <1>6. CASE RenameRefuse(t)
    <2>1. r.pc = "r_check"
      BY <1>6, <1>r DEF RenameRefuse, At
    <2>E. PICK E : E = IF r.from # None /\ r.from = r.todir THEN Unhandle(dentry, r.from, dentry[r.from].numhandles) ELSE dentry
      OBVIOUS
    <2>2. dentry' = IF r.to # None /\ r.to = r.fromdir THEN Unhandle(E, r.to, E[r.to].numhandles) ELSE E
      BY <1>6, <1>r, <2>E DEF RenameRefuse
    <2>3. Only(dentry, E, {}, {r.fromdir, r.todir}) /\ IsTree(E)
      <3>1. CASE E = dentry
        BY <3>1 DEF Only, SameList, SameCounts
      <3>2. CASE E = Unhandle(dentry, r.todir, dentry[r.todir].numhandles)
        <4>1. Only(dentry, E, {}, {r.todir})
          BY <3>2, HandleOnly
        <4> QED
          BY <4>1 DEF Only
      <3> QED
        BY <2>E, <3>1, <3>2
    <2>4. Only(E, dentry', {}, {r.fromdir, r.todir})
      <3>1. CASE dentry' = E
        BY <2>3, <3>1 DEF Only, SameList, SameCounts
      <3>2. CASE dentry' = Unhandle(E, r.fromdir, E[r.fromdir].numhandles)
        <4>1. Only(E, dentry', {}, {r.fromdir})
          BY <2>3, <3>2, HandleOnly
        <4> QED
          BY <4>1 DEF Only
      <3> QED
        BY <2>2, <3>1, <3>2
    <2>5. Only(dentry, dentry', {} \cup {}, {r.fromdir, r.todir} \cup {r.fromdir, r.todir})
      BY <2>3, <2>4, OnlyThen
    <2>6. {} \cup {} = {} /\ {r.fromdir, r.todir} \cup {r.fromdir, r.todir} = {r.fromdir, r.todir}
      OBVIOUS
    <2>7. Changes(dentry, dentry', {}, {r.fromdir, r.todir})
      BY <2>5, <2>6, OnlyChanges
    <2> QED
      BY <1>1, <1>2, <1>3, <2>1, <2>7, Guards DEF BothLocked
  <1>7. CASE RenameUnlink(t)
    <2>E. PICK E : E = Unlinked(dentry, r.todir, r.arg.toname, r.to, r.seen)
      OBVIOUS
    <2>1. r.pc = "r_unlink" /\ r.held = r.to /\ dentry' = Release(E, r.to, E[r.to].numhandles)
      BY <1>7, <1>r, <2>E DEF RenameUnlink, Within, Released
    <2>2. Only(dentry, E, {r.todir}, {r.todir, r.to}) /\ IsTree(E)
      BY <2>E, UnlinkedOnly DEF Only
    <2>3. Only(E, dentry', {}, {r.to})
      BY <2>1, <2>2, ReleaseOnly
    <2>4. Only(dentry, dentry', {r.todir} \cup {}, {r.todir, r.to} \cup {r.to})
      BY <2>2, <2>3, OnlyThen
    <2>5. {r.todir} \cup {} = {r.todir} /\ {r.todir, r.to} \cup {r.to} = {r.todir, r.to}
      OBVIOUS
    <2>6. Changes(dentry, dentry', {r.todir}, {r.todir, r.to})
      BY <2>4, <2>5, OnlyChanges
    <2> QED
      BY <1>1, <1>2, <1>3, <2>1, <2>6, Guards DEF BothLocked, Has
  <1>8. CASE RenameMove(t)
    <2>1. r.pc = "r_move" /\ dentry' = Moved(dentry, r)
      BY <1>8, <1>r DEF RenameMove, Within
    <2>2. Changes(dentry, dentry', {r.fromdir, r.todir}, {r.fromdir, r.todir})
      BY <2>1, MovedOnly, OnlyChanges
    <2> QED
      BY <1>1, <1>2, <1>3, <2>1, <2>2, Guards DEF BothLocked
  <1>9. CASE RenameOut(t)
    <2>E. PICK E : E = Release(dentry, r.fromdir, dentry[r.fromdir].numhandles)
      OBVIOUS
    <2>n. PICK n : n = E[r.todir].numhandles
      OBVIOUS
    <2>1. r.pc = "r_out" /\ dentry' \in {E, Release(E, r.todir, n)}
      BY <1>9, <1>r, <2>E, <2>n DEF RenameOut, At, Released
    <2>2. Only(dentry, E, {}, {r.fromdir}) /\ IsTree(E)
      BY <2>E, ReleaseOnly DEF Only
    <2>3. Only(E, Release(E, r.todir, n), {}, {r.todir})
      BY <2>2, ReleaseOnly
    <2>4. Only(dentry, Release(E, r.todir, n), {} \cup {}, {r.fromdir} \cup {r.todir})
      BY <2>2, <2>3, OnlyThen
    <2>5. Changes(dentry, dentry', {}, {r.fromdir, r.todir})
      BY <2>1, <2>2, <2>4 DEF Only, Changes
    <2> QED
      BY <1>1, <1>2, <1>3, <2>1, <2>5, Guards DEF BothLocked
  <1> QED
    BY <1>4, <1>5, <1>6, <1>7, <1>8, <1>9 DEF Renaming

\* The trees that a volume has at mount are made of dentries.
LEMMA TreeInit == Init => IsTree(dentry)
  <1>1. SUFFICES ASSUME Init PROVE IsTree(dentry)
    OBVIOUS
  <1>2. PICK w \in Workloads : dentry = [d \in Dentries |-> IF d \in DOMAIN w.tree THEN w.tree[d] ELSE Free]
    BY <1>1 DEF Init
  <1>3. \A d \in DOMAIN w.tree : w.tree[d] \in Dentry
    BY <1>2, WorkloadsAssumption
  <1>4. \A x \in Dentry : x = Free \/ DOMAIN x = EntryFields
    BY DEF Dentry, EntryFields
  <1> QED
    BY <1>2, <1>3, <1>4 DEF IsTree

\* Who has a meta_lock before a step of another thread has it after.
LEMMA OthersKeep ==
  ASSUME LocksMatch, LocksMatch', NEW t \in Threads, \A s \in Threads \ {t} : thr'[s] = thr[s], ~strayed',
         NEW d \in Dentries, meta'[d] # meta[d]
  PROVE  meta[d] \in {None, t}
  <1>1. SUFFICES ASSUME NEW s \in Threads \ {t}, meta[d] = s PROVE FALSE
    BY DEF LocksMatch, LockTypes
  <1>2. Has(thr[s], d)
    BY <1>1 DEF LocksMatch, LocksOf
  <1>3. LocksOf(s, thr[s], d)'
    BY <1>1 DEF LocksMatch
  <1>4. Has(thr'[s], d) => meta'[d] = s
    BY <1>3 DEF LocksOf
  <1> QED
    BY <1>1, <1>2, <1>4

\* No step of any thread changes a list or a count without its lock.
LEMMA EntriesStep ==
  ASSUME LocksMatch, IsTree(dentry), [Next]_vars
  PROVE  IsTree(dentry)' /\ (UNCHANGED vars \/ strayed' \/ \E t \in Threads : GuardedBy(t))
  <1>1. CASE UNCHANGED vars
    BY <1>1 DEF vars
  <1>2. CASE Next
    <2>1. PICK t \in Threads :
            TakeMeta(t) \/ Lookup(t) \/ Drop(t) \/ OpenClose(t) \/ Creating(t) \/ Unlinking(t) \/ Renaming(t)
      BY <1>2 DEF Next
    <2>2. ASSUME TakeMeta(t) PROVE Guarded(t)
      <3>1. dentry' = dentry /\ \A s \in Threads \ {t} : thr'[s] = thr[s]
        BY <2>2 DEF TakeMeta, LocksMatch, LockTypes
      <3> QED
        BY <3>1 DEF Guarded, EntriesBy, SameCounts
    <2>3. Guarded(t)
      BY <2>1, <2>2, LookupGuarded, OpenCloseGuarded, CreatingGuarded, UnlinkingGuarded, RenamingGuarded
    <2>4. LocksMatch'
      BY LocksMatchNext
    <2>5. ~strayed' => \A d \in Dentries : meta'[d] # meta[d] => meta[d] \in {None, t}
      BY <2>3, <2>4, OthersKeep DEF Guarded
    <2>6. ~strayed' => GuardedBy(t)
      BY <2>3, <2>5 DEF Guarded, EntriesBy, GuardedBy, SameCounts
    <2> QED
      BY <2>3, <2>6 DEF Guarded
  <1> QED
    BY <1>1, <1>2

\* A directory's list changes only under its contents_lock, with no lookup reading
\* there; counts and the deleted flag only under the meta_lock, and nobody's meta_lock
\* is released by another, until the exit of an unlink that has not taken the
\* meta_lock of the parent meets somebody who has. (ltfs_fsops.c:461, 511, fs.c:720)
THEOREM EntriesAreGuarded == Spec => EntriesGuarded
  <1>1. Init => LocksMatch /\ IsTree(dentry)
    BY LocksMatchInit, TreeInit
  <1>2. LocksMatch /\ IsTree(dentry) /\ [Next]_vars => (LocksMatch /\ IsTree(dentry))'
    BY LocksMatchNext, EntriesStep
  <1>3. LocksMatch /\ IsTree(dentry) /\ [Next]_vars => [strayed' \/ \E t \in Threads : GuardedBy(t)]_vars
    BY EntriesStep
  <1> QED
    BY <1>1, <1>2, <1>3, PTL DEF Spec, EntriesGuarded
=============================================================================
