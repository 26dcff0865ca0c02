----------------------------- MODULE Namespace -----------------------------
(***************************************************************************)
(* The tree of dentries (ltfs_fsops.c, fs.c): path lookups that go down    *)
(* hand over hand, create, unlink, rename and close, with the two locks    *)
(* and the handle count of every dentry.                                   *)
(*                                                                         *)
(* A step begins where a thread gets a lock and ends before the next one   *)
(* it has to wait for.  A contents_lock is the lock of module MRSW: its    *)
(* writer first shuts the gate, so that later readers wait, and enters     *)
(* when the readers are gone.  A meta_lock is only taken for writing here. *)
(* One party does not take it: the exit of an unlink that has found a      *)
(* directory not empty counts the parent down and releases its meta_lock   *)
(* all the same.  So a count is not changed in one step: TakeMeta gets the *)
(* lock and reads the count, the step of the operation writes it back and  *)
(* releases the lock, whoever has it by then; and the exit reads and       *)
(* writes without it.  `strayed' tells that such an exit has met another   *)
(* thread in there; memory that was freed under a thread by then is        *)
(* undefined, and the behaviour ends.                                      *)
(* Every operation holds the volume lock for reading, which is left out,   *)
(* as are times, the dirty flag and file_count.  The scheduler is loaded   *)
(* and the dentry cache is not.                                            *)
(***************************************************************************)
EXTENDS Naturals, FiniteSets, SequencesExt

CONSTANTS Threads,      \* requests in progress or open files
          Dentries,     \* memory for dentries, Root among it
          Root,
          Names,
          None,
          Workloads     \* trees a mount has made, and what each thread may ask

ASSUME TreeAssumption == Root \in Dentries /\ None \notin Dentries \cup Threads

VARIABLES dentry,       \* Free, or the fields of a struct dentry
          contents,     \* contents_lock of each: who shut the gate, who reads
          meta,         \* meta_lock of each: who holds it
          rename_lock,
          thr,          \* what each thread does and which handles it has
          requests,     \* what each thread may ask, which never changes
          strayed       \* an exit without the lock has met somebody who has it

vars == <<dentry, contents, meta, rename_lock, thr, requests, strayed>>

Free == [free |-> TRUE]
Dentry == {Free} \cup
  [isdir : BOOLEAN, parent : Dentries \cup {None},
   child_list : UNION {[S -> Dentries] : S \in SUBSET Names}, deleted : BOOLEAN,
   numhandles : Nat, link_count : Nat]

Live(D) == {d \in Dentries : D[d] # Free}

\* A mount hands over a tree of dentries.
ASSUME WorkloadsAssumption ==
  \A w \in Workloads : \A d \in DOMAIN w.tree : w.tree[d] \in Dentry

Idle == [pc |-> "idle", op |-> "none", todo |-> <<>>, at |-> None, up |-> None,
         chain |-> None, drops |-> <<>>, then |-> "idle", arg |-> <<>>,
         fromdir |-> None, todir |-> None, from |-> None, to |-> None,
         first |-> "to", side |-> 1, held |-> None, seen |-> 0]

\* At a place; and there with the meta_lock of d, if there is a d, whose count was
\* `seen' when the lock was taken.
At(t, p) == thr[t].pc = p /\ thr[t].held = None
Within(t, p, d) == thr[t].pc = p /\ thr[t].held = d
Become(t, r) ==
  /\ thr' = [thr EXCEPT ![t] = [r EXCEPT !.held = None, !.seen = 0]]
  /\ UNCHANGED <<requests, strayed>>

-----------------------------------------------------------------------------
(* Locks.                                                                  *)

GateOpen(d) == contents[d].writer = None
Drained(d) == contents[d].readers = {}
Unheld(d) == meta[d] = None

Reading(C, d, t) == [C EXCEPT ![d].readers = @ \cup {t}]
ReadDone(C, d, t) == IF d = None THEN C ELSE [C EXCEPT ![d].readers = @ \ {t}]
Writing(C, d, t) == [C EXCEPT ![d].writer = t]
WriteDone(C, d) == [C EXCEPT ![d].writer = None]
Unlocked(M, d) == IF d = None THEN M ELSE [M EXCEPT ![d] = None]

-----------------------------------------------------------------------------
(* The tree.                                                               *)

HasChild(d, n) == n \in DOMAIN dentry[d].child_list
Child(d, n) == IF HasChild(d, n) THEN dentry[d].child_list[n] ELSE None
Empty(d) == DOMAIN dentry[d].child_list = {}

Without(list, n) == [m \in DOMAIN list \ {n} |-> list[m]]
With(list, n, d) == [m \in DOMAIN list \cup {n} |-> IF m = n THEN d ELSE list[m]]

\* A count that was n goes up or down.
Handle(D, d, n) == IF d = None THEN D ELSE [D EXCEPT ![d].numhandles = n + 1]
Unhandle(D, d, n) == [D EXCEPT ![d].numhandles = n - 1]

\* fs_is_predecessor follows the parents from d2, itself included.
Ancestry(D, d2) ==
  LET Up[i \in 0 .. Cardinality(Dentries)] ==
        IF i = 0 THEN {d2}
        ELSE LET below == Up[i - 1]
             IN  below \cup ({D[x].parent : x \in below} \ {None})
  IN  Up[Cardinality(Dentries)]
IsPredecessor(d1, d2) == d1 \in Ancestry(dentry, d2)

\* A dentry is freed with the children that nobody else has; the others lose
\* their parent.
Dispose(D, d) ==
  LET Kids(x) == {D[x].child_list[n] : n \in DOMAIN D[x].child_list}
      Doomed[i \in 0 .. Cardinality(Dentries)] ==
        IF i = 0 THEN {d}
        ELSE LET above == Doomed[i - 1]
             IN  above \cup {c \in UNION {Kids(x) : x \in above} : D[c].numhandles = 1}
      gone == Doomed[Cardinality(Dentries)]
      orphans == UNION {Kids(x) : x \in gone} \ gone
  IN  [x \in Dentries |-> IF x \in gone THEN Free
                          ELSE IF x \in orphans THEN [D[x] EXCEPT !.parent = None]
                          ELSE D[x]]

\* fs_release_dentry_unlocked, where the count of d was n.
Release(D, d, n) ==
  LET E == Unhandle(D, d, n)
  IN  IF n = 1 THEN Dispose(E, d) ELSE E
Released(D, d) == Release(D, d, D[d].numhandles)

\* Take the child of that name out of directory p; D[d] stays as it is.
Detach(D, p, n, d) ==
  [D EXCEPT ![p].child_list = Without(@, n),
            ![p].link_count = IF D[d].isdir THEN @ - 1 ELSE @]

\* Unlinked: no parent, and the handle of the tree is gone.
Unlinked(D, p, n, d, count) ==
  [Detach(D, p, n, d) EXCEPT ![d].deleted = TRUE, ![d].parent = None,
                             ![d].link_count = @ - 1, ![d].numhandles = count - 1]

\* FUSE resolves the directories of a path before it passes a request on, and
\* refuses one that goes through a file.
Resolves(path) ==
  LET Node[i \in 0 .. Len(path)] ==
        IF i = 0 THEN Root
        ELSE IF Node[i - 1] = None THEN None ELSE Child(Node[i - 1], path[i])
  IN  \A i \in 0 .. Len(path) : Node[i] # None => dentry[Node[i]].isdir

Directories(q) ==
  CASE q.op = "create" -> {q.dir}
    [] q.op = "rename" -> {q.fromdir, q.todir}
    [] OTHER -> {Front(q.path)}

Asked(t, op) == {q \in requests[t] : q.op = op /\ \A p \in Directories(q) : Resolves(p)}

-----------------------------------------------------------------------------
(* fs_path_lookup: Looking starts it, Found is where its caller goes on.   *)

Looking(r, path) == [r EXCEPT !.pc = "root", !.todo = path]

Dropping(r, ds, pc) == [r EXCEPT !.pc = IF ds = <<>> THEN pc ELSE "drop",
                                 !.drops = ds, !.then = pc]

Found(r) ==
  CASE r.op = "open" -> [Idle EXCEPT !.pc = "open", !.at = r.at]
    [] r.op = "create" -> [r EXCEPT !.pc = "c_gate"]
    [] r.op = "unlink" -> [r EXCEPT !.pc = "u_check"]
    [] r.op = "rename" /\ r.fromdir = None ->
         Looking([r EXCEPT !.fromdir = r.at, !.at = None], r.arg.todir)
    [] r.op = "rename" /\ r.fromdir # None ->
         [r EXCEPT !.pc = "r_gate", !.todir = r.at, !.at = None,
                   !.first = IF IsPredecessor(r.at, r.fromdir) THEN "to" ELSE "from"]

\* The caller's LOCK_PARENT_CONTENTS_W: unlink keeps the parent locked.
LastLocked(r) == r.op = "unlink" /\ Len(r.todo) = 1

LookupRoot(t) ==
  /\ Within(t, "root", Root)
  /\ dentry' = Handle(dentry, Root, thr[t].seen) /\ meta' = Unlocked(meta, Root)
  /\ LET r == [thr[t] EXCEPT !.at = Root]
     IN  Become(t, IF r.todo = <<>> THEN Found(r) ELSE [r EXCEPT !.pc = "walk"])
  /\ UNCHANGED <<contents, rename_lock>>

LookupRead(t) ==
  LET r == thr[t]
  IN  /\ At(t, "walk") /\ ~LastLocked(r) /\ GateOpen(r.at)
      /\ contents' = ReadDone(Reading(contents, r.at, t), r.chain, t)
      /\ Become(t, [r EXCEPT !.pc = "child", !.chain = None])
      /\ UNCHANGED <<dentry, meta, rename_lock>>

LookupGate(t) ==
  LET r == thr[t]
  IN  /\ At(t, "walk") /\ LastLocked(r) /\ GateOpen(r.at)
      /\ contents' = Writing(contents, r.at, t)
      /\ Become(t, [r EXCEPT !.pc = "walk_enter"])
      /\ UNCHANGED <<dentry, meta, rename_lock>>

\* A mutation: the readers of the directory are not waited out.
LookupEnterEarly(t) ==
  LET r == thr[t]
  IN  /\ At(t, "walk_enter")
      /\ contents' = ReadDone(contents, r.chain, t)
      /\ Become(t, [r EXCEPT !.pc = "child", !.chain = None])
      /\ UNCHANGED <<dentry, meta, rename_lock>>

LookupEnter(t) ==
  LET r == thr[t]
  IN  /\ At(t, "walk_enter") /\ Drained(r.at)
      /\ contents' = ReadDone(contents, r.chain, t)
      /\ Become(t, [r EXCEPT !.pc = "child", !.chain = None])
      /\ UNCHANGED <<dentry, meta, rename_lock>>

LookupMiss(t) ==
  LET r == thr[t]
  IN  /\ At(t, "child") /\ ~HasChild(r.at, Head(r.todo))
      /\ contents' = IF LastLocked(r) THEN WriteDone(contents, r.at)
                                      ELSE ReadDone(contents, r.at, t)
      /\ Become(t, Dropping([r EXCEPT !.at = None, !.todo = <<>>], <<r.at>>,
                            IF r.op = "rename" THEN "r_nodir" ELSE "idle"))
      /\ UNCHANGED <<dentry, meta, rename_lock>>

LookupChild(t) ==
  LET r == thr[t]
      c == Child(r.at, Head(r.todo))
      s == [r EXCEPT !.up = r.at, !.at = c, !.todo = Tail(@), !.pc = "leave"]
  IN  /\ r.pc = "child" /\ HasChild(r.at, Head(r.todo)) /\ r.held = c
      /\ dentry' = Handle(dentry, c, r.seen) /\ meta' = Unlocked(meta, c)
      /\ Become(t, IF LastLocked(r) THEN Found(s) ELSE s)
      /\ UNCHANGED <<contents, rename_lock>>

\* A mutation: the lock of the parent goes with its handle.
LookupLeaveEarly(t) ==
  LET r == thr[t]
  IN  /\ Within(t, "leave", r.up)
      /\ dentry' = Unhandle(dentry, r.up, r.seen) /\ meta' = Unlocked(meta, r.up)
      /\ contents' = ReadDone(contents, r.up, t)
      /\ Become(t, IF r.todo = <<>> THEN Found([r EXCEPT !.up = None])
                   ELSE [r EXCEPT !.pc = "walk", !.up = None])
      /\ UNCHANGED rename_lock

\* The handle on the parent is given back; its lock only when the next one
\* is taken or the path ends.
LookupLeave(t) ==
  LET r == thr[t]
  IN  /\ Within(t, "leave", r.up)
      /\ dentry' = Unhandle(dentry, r.up, r.seen) /\ meta' = Unlocked(meta, r.up)
      /\ IF r.todo = <<>>
         THEN /\ contents' = ReadDone(contents, r.up, t)
              /\ Become(t, Found([r EXCEPT !.up = None]))
         ELSE /\ Become(t, [r EXCEPT !.pc = "walk", !.chain = r.up, !.up = None])
              /\ UNCHANGED contents
      /\ UNCHANGED rename_lock

\* fs_release_dentry of one dentry after the other, then the rest.
Drop(t) ==
  LET r == thr[t]
      d == Head(r.drops)
  IN  /\ r.pc = "drop" /\ r.held = d
      /\ dentry' = Release(dentry, d, r.seen) /\ meta' = Unlocked(meta, d)
      /\ Become(t, IF Len(r.drops) > 1 THEN [r EXCEPT !.drops = Tail(@)]
                   ELSE IF r.then = "idle" THEN Idle
                   ELSE IF r.then = "open" THEN [Idle EXCEPT !.pc = "open", !.at = r.at]
                   ELSE [r EXCEPT !.drops = <<>>, !.pc = r.then])
      /\ UNCHANGED <<contents, rename_lock>>

-----------------------------------------------------------------------------
(* ltfs_fsops_open and ltfs_fsops_close.                                   *)

Open(t) ==
  /\ At(t, "idle")
  /\ \E q \in Asked(t, "open") : Become(t, Looking([Idle EXCEPT !.op = "open"], q.path))
  /\ UNCHANGED <<dentry, contents, meta, rename_lock>>

\* A file open for writing first counts its blocks, under both locks.
CloseCount(t) ==
  LET d == thr[t].at
  IN  /\ At(t, "open") /\ ~dentry[d].isdir /\ GateOpen(d)
      /\ contents' = Reading(contents, d, t)
      /\ Become(t, [thr[t] EXCEPT !.pc = "counting"])
      /\ UNCHANGED <<dentry, meta, rename_lock>>

CloseCounted(t) ==
  LET d == thr[t].at
  IN  /\ At(t, "counting") /\ Unheld(d)
      /\ contents' = ReadDone(contents, d, t)
      /\ Become(t, Dropping([Idle EXCEPT !.op = "close"], <<d>>, "idle"))
      /\ UNCHANGED <<dentry, meta, rename_lock>>

Close(t) ==
  /\ At(t, "open")
  /\ Become(t, Dropping([Idle EXCEPT !.op = "close"], <<thr[t].at>>, "idle"))
  /\ UNCHANGED <<dentry, contents, meta, rename_lock>>

-----------------------------------------------------------------------------
(* ltfs_fsops_create.                                                      *)

Create(t) ==
  /\ At(t, "idle")
  /\ \E q \in Asked(t, "create") :
       Become(t, Looking([Idle EXCEPT !.op = "create", !.arg = q], q.dir))
  /\ UNCHANGED <<dentry, contents, meta, rename_lock>>

CreateGate(t) ==
  /\ At(t, "c_gate") /\ GateOpen(thr[t].at)
  /\ contents' = Writing(contents, thr[t].at, t)
  /\ Become(t, [thr[t] EXCEPT !.pc = "c_enter"])
  /\ UNCHANGED <<dentry, meta, rename_lock>>

CreateEnter(t) ==
  /\ At(t, "c_enter") /\ Drained(thr[t].at)
  /\ Become(t, [thr[t] EXCEPT !.pc = "c_find"])
  /\ UNCHANGED <<dentry, contents, meta, rename_lock>>

CreateExists(t) ==
  LET r == thr[t]
      c == Child(r.at, r.arg.name)
  IN  /\ r.pc = "c_find" /\ HasChild(r.at, r.arg.name) /\ r.held = c
      /\ dentry' = Handle(dentry, c, r.seen) /\ meta' = Unlocked(meta, c)
      /\ contents' = WriteDone(contents, r.at)
      /\ Become(t, Dropping([r EXCEPT !.at = None], <<c, r.at>>, "idle"))
      /\ UNCHANGED rename_lock

\* Memory for a dentry has run out.
CreateNoMemory(t) ==
  LET r == thr[t]
  IN  /\ At(t, "c_find") /\ ~HasChild(r.at, r.arg.name)
      /\ contents' = WriteDone(contents, r.at)
      /\ Become(t, Dropping([r EXCEPT !.at = None], <<r.at>>, "idle"))
      /\ UNCHANGED <<dentry, meta, rename_lock>>

\* One handle for the tree and one for the caller, who keeps a file open and
\* closes a directory.
NewDentry(p, dir) ==
  [isdir |-> dir, parent |-> p, child_list |-> <<>>, deleted |-> FALSE,
   numhandles |-> 2, link_count |-> IF dir THEN 2 ELSE 1]

\* The new dentry is allocated before the locks are taken.
Spare == Cardinality(Dentries \ Live(dentry)) >
           Cardinality({t \in Threads : thr[t].pc = "c_find" /\ thr[t].held = thr[t].at})

CreateNew(t) ==
  LET r == thr[t]
      p == r.at
      unused == Dentries \ Live(dentry)
      d == CHOOSE x \in unused : TRUE
  IN  /\ r.pc = "c_find" /\ ~HasChild(p, r.arg.name) /\ r.held = p /\ unused # {}
      /\ meta' = Unlocked(meta, p)
      /\ dentry' = [dentry EXCEPT
                      ![d] = NewDentry(p, r.arg.isdir),
                      ![p].child_list = With(@, r.arg.name, d),
                      ![p].link_count = IF r.arg.isdir THEN @ + 1 ELSE @]
      /\ Become(t, IF r.arg.isdir
                   THEN Dropping([r EXCEPT !.at = None], <<p, d>>, "idle")
                   ELSE Dropping([r EXCEPT !.at = d], <<p>>, "open"))
      /\ contents' = WriteDone(contents, p)
      /\ UNCHANGED rename_lock

-----------------------------------------------------------------------------
(* ltfs_fsops_unlink, of files and of directories.                         *)

Unlink(t) ==
  /\ At(t, "idle")
  /\ \E q \in Asked(t, "unlink") :
       Become(t, Looking([Idle EXCEPT !.op = "unlink", !.arg = q], q.path))
  /\ UNCHANGED <<dentry, contents, meta, rename_lock>>

UnlinkEmpty(t) ==
  LET d == thr[t].at
  IN  /\ At(t, "u_check")
      /\ dentry[d].isdir => GateOpen(d) /\ Empty(d)
      /\ Become(t, [thr[t] EXCEPT !.pc = "u_meta"])
      /\ UNCHANGED <<dentry, contents, meta, rename_lock>>

\* The common exit is reached without the meta_lock of the parent: after the
\* contents_lock is released the count is read and written, and whoever has
\* the meta_lock loses it.
UnlinkNotEmpty(t) ==
  LET r == thr[t]
  IN  /\ At(t, "u_check")
      /\ dentry[r.at].isdir /\ GateOpen(r.at) /\ ~Empty(r.at)
      /\ contents' = WriteDone(contents, r.up)
      /\ Become(t, [r EXCEPT !.pc = "u_exit"])
      /\ UNCHANGED <<dentry, meta, rename_lock>>

UnlinkExitReads(t) ==
  /\ At(t, "u_exit")
  /\ thr' = [thr EXCEPT ![t].pc = "u_stray", ![t].seen = dentry[thr[t].up].numhandles]
  /\ UNCHANGED <<dentry, contents, meta, rename_lock, requests, strayed>>

UnlinkExit(t) ==
  LET r == thr[t]
      s == [r EXCEPT !.at = None, !.up = None, !.seen = 0]
  IN  /\ At(t, "u_stray")
      /\ dentry' = Release(dentry, r.up, r.seen)
      /\ meta' = Unlocked(meta, r.up)
      /\ strayed' = (strayed \/ ~Unheld(r.up) \/ dentry[r.up].numhandles # r.seen)
      /\ thr' = [thr EXCEPT ![t] = Dropping(s, <<r.at>>, "idle")]
      /\ UNCHANGED <<contents, rename_lock, requests>>

UnlinkMeta(t) ==
  LET p == thr[t].up
  IN  /\ At(t, "u_meta") /\ Unheld(p)
      /\ meta' = [meta EXCEPT ![p] = t]
      /\ Become(t, [thr[t] EXCEPT !.pc = "u_remove"])
      /\ UNCHANGED <<dentry, contents, rename_lock>>

UnlinkRemove(t) ==
  LET r == thr[t]
      n == Last(r.arg.path)
  IN  /\ Within(t, "u_remove", r.at)
      /\ dentry' = Released(Unlinked(dentry, r.up, n, r.at, r.seen), r.up)
      /\ contents' = WriteDone(contents, r.up)
      /\ meta' = Unlocked(Unlocked(meta, r.at), r.up)
      /\ Become(t, Dropping([r EXCEPT !.at = None, !.up = None], <<r.at>>, "idle"))
      /\ UNCHANGED rename_lock

-----------------------------------------------------------------------------
(* ltfs_fsops_rename: both directories are looked up, then locked, the     *)
(* ancestor first; Side is the directory being locked.                     *)

Rename(t) ==
  /\ At(t, "idle") /\ rename_lock = None
  /\ rename_lock' = t
  /\ \E q \in Asked(t, "rename") :
       Become(t, Looking([Idle EXCEPT !.op = "rename", !.arg = q], q.fromdir))
  /\ UNCHANGED <<dentry, contents, meta>>

\* A directory was not found; of the source a handle may be left.
RenameNoDir(t) ==
  LET d == thr[t].fromdir
  IN  /\ Within(t, "r_nodir", d)
      /\ dentry' = IF d = None THEN dentry ELSE Release(dentry, d, thr[t].seen)
      /\ meta' = Unlocked(meta, d)
      /\ rename_lock' = None
      /\ Become(t, Idle)
      /\ UNCHANGED contents

IsTo(r) == (r.first = "to") = (r.side = 1)
Side(r) == IF IsTo(r) THEN r.todir ELSE r.fromdir
SideName(r) == IF IsTo(r) THEN r.arg.toname ELSE r.arg.fromname

RenameGate(t) ==
  LET r == thr[t]
  IN  /\ At(t, "r_gate") /\ GateOpen(Side(r))
      /\ contents' = Writing(contents, Side(r), t)
      /\ Become(t, [r EXCEPT !.pc = "r_enter"])
      /\ UNCHANGED <<dentry, meta, rename_lock>>

RenameEnter(t) ==
  LET r == thr[t]
  IN  /\ At(t, "r_enter") /\ Drained(Side(r))
      /\ Become(t, [r EXCEPT !.pc = "r_meta"])
      /\ UNCHANGED <<dentry, contents, meta, rename_lock>>

RenameMeta(t) ==
  LET r == thr[t]
  IN  /\ At(t, "r_meta") /\ Unheld(Side(r))
      /\ meta' = [meta EXCEPT ![Side(r)] = t]
      /\ Become(t, [r EXCEPT !.pc = "r_find"])
      /\ UNCHANGED <<dentry, contents, rename_lock>>

\* After the first name the second directory is locked, if it is another one.
\* The destination is not looked up once the source is known to be missing.
Sought(r) == IF r.side = 2 /\ r.first = "from" /\ r.from = None THEN None
             ELSE Child(Side(r), SideName(r))

RenameFind(t) ==
  LET r == thr[t]
      c == Sought(r)
      s == IF IsTo(r) THEN [r EXCEPT !.to = c] ELSE [r EXCEPT !.from = c]
  IN  /\ r.pc = "r_find" /\ r.held = c
      /\ dentry' = Handle(dentry, c, r.seen) /\ meta' = Unlocked(meta, c)
      /\ Become(t, IF r.side = 2 THEN [s EXCEPT !.pc = "r_check"]
                   ELSE [s EXCEPT !.side = 2,
                                  !.pc = IF r.todir = r.fromdir THEN "r_find" ELSE "r_gate"])
      /\ UNCHANGED <<contents, rename_lock>>

\* No source, a directory moved below itself, or an ancestor overwritten.
Refused(r) == \/ r.from = None
              \/ IsPredecessor(r.from, r.todir)
              \/ r.to # None /\ IsPredecessor(r.to, r.fromdir)

\* Of a dentry that is also one of the two directories only the count goes
\* down, because its meta_lock is held; the others are released.
RenameRefuse(t) ==
  LET r == thr[t]
      fromheld == r.from # None /\ r.from = r.todir
      toheld == r.to # None /\ r.to = r.fromdir
      Down(D, d) == Unhandle(D, d, D[d].numhandles)
      D1 == IF fromheld THEN Down(dentry, r.from) ELSE dentry
      drops == SelectSeq(<<IF fromheld THEN None ELSE r.from,
                           IF toheld THEN None ELSE r.to>>, LAMBDA d : d # None)
  IN  /\ At(t, "r_check") /\ Refused(r)
      /\ dentry' = IF toheld THEN Down(D1, r.to) ELSE D1
      /\ Become(t, Dropping([r EXCEPT !.from = None, !.to = None], drops, "r_out"))
      /\ UNCHANGED <<contents, meta, rename_lock>>

\* Nothing to overwrite, or the name changes in case only.
RenameNoTarget(t) ==
  LET r == thr[t]
  IN  /\ Within(t, "r_check", r.to) /\ ~Refused(r) /\ r.to \in {None, r.from}
      /\ dentry' = IF r.to = None THEN dentry ELSE Release(dentry, r.to, r.seen)
      /\ meta' = Unlocked(meta, r.to)
      /\ Become(t, [r EXCEPT !.to = None, !.pc = "r_move"])
      /\ UNCHANGED <<contents, rename_lock>>

\* A mutation: a directory that is not empty keeps the handle of the lookup.
RenameTargetKeeps(t) ==
  LET r == thr[t]
  IN  /\ At(t, "r_check") /\ ~Refused(r) /\ r.to \notin {None, r.from}
      /\ dentry[r.to].isdir => GateOpen(r.to)
      /\ Become(t, IF dentry[r.to].isdir /\ ~Empty(r.to)
                   THEN Dropping([r EXCEPT !.from = None, !.to = None], <<r.from>>, "r_out")
                   ELSE [r EXCEPT !.pc = "r_unlink"])
      /\ UNCHANGED <<dentry, contents, meta, rename_lock>>

RenameTarget(t) ==
  LET r == thr[t]
  IN  /\ At(t, "r_check") /\ ~Refused(r) /\ r.to \notin {None, r.from}
      /\ dentry[r.to].isdir => GateOpen(r.to)
      /\ Become(t, IF dentry[r.to].isdir /\ ~Empty(r.to)
                   THEN Dropping([r EXCEPT !.from = None, !.to = None],
                                 <<r.from, r.to>>, "r_out")
                   ELSE [r EXCEPT !.pc = "r_unlink"])
      /\ UNCHANGED <<dentry, contents, meta, rename_lock>>

RenameUnlink(t) ==
  LET r == thr[t]
  IN  /\ Within(t, "r_unlink", r.to)
      /\ dentry' = Released(Unlinked(dentry, r.todir, r.arg.toname, r.to, r.seen), r.to)
      /\ meta' = Unlocked(meta, r.to)
      /\ Become(t, [r EXCEPT !.to = None, !.pc = "r_move"])
      /\ UNCHANGED <<contents, rename_lock>>

Moved(D, r) ==
  LET E == Detach(D, r.fromdir, r.arg.fromname, r.from)
  IN  [E EXCEPT ![r.todir].child_list = With(@, r.arg.toname, r.from),
                ![r.todir].link_count = IF D[r.from].isdir THEN @ + 1 ELSE @,
                ![r.from].parent = r.todir]

RenameMove(t) ==
  LET r == thr[t]
  IN  /\ Within(t, "r_move", r.from)
      /\ dentry' = Moved(dentry, r) /\ meta' = Unlocked(meta, r.from)
      /\ Become(t, [r EXCEPT !.pc = "r_out"])
      /\ UNCHANGED <<contents, rename_lock>>

\* A mutation: with two directories the second stays locked.
RenameOutOne(t) ==
  LET r == thr[t]
      D1 == Released(dentry, r.fromdir)
  IN  /\ At(t, "r_out")
      /\ contents' = WriteDone(contents, r.fromdir)
      /\ meta' = [meta EXCEPT ![r.fromdir] = None, ![r.todir] = None]
      /\ rename_lock' = None
      /\ dentry' = Released(D1, r.todir)
      /\ Become(t, IF r.from = None THEN Idle
                   ELSE Dropping([Idle EXCEPT !.op = "rename"], <<r.from>>, "idle"))

\* The locks are released, and a handle on each directory; the source keeps
\* one until the scheduler knows its new name.
RenameOut(t) ==
  LET r == thr[t]
      same == r.fromdir = r.todir
      last == [Idle EXCEPT !.op = "rename", !.from = r.from, !.todir = r.todir]
      D1 == Released(dentry, r.fromdir)
  IN  /\ At(t, "r_out")
      /\ contents' = WriteDone(WriteDone(contents, r.fromdir), r.todir)
      /\ meta' = [meta EXCEPT ![r.fromdir] = None, ![r.todir] = None]
      /\ IF same
         THEN /\ dentry' = D1
              /\ Become(t, [last EXCEPT !.pc = "r_same"])
              /\ UNCHANGED rename_lock
         ELSE /\ dentry' = Released(D1, r.todir)
              /\ rename_lock' = None
              /\ Become(t, IF r.from = None THEN Idle
                           ELSE Dropping([Idle EXCEPT !.op = "rename"], <<r.from>>, "idle"))

\* With one directory its second handle needs the lock again.
RenameOutSame(t) ==
  LET r == thr[t]
  IN  /\ Within(t, "r_same", r.todir)
      /\ dentry' = Release(dentry, r.todir, r.seen) /\ meta' = Unlocked(meta, r.todir)
      /\ rename_lock' = None
      /\ Become(t, IF r.from = None THEN Idle
                   ELSE Dropping([Idle EXCEPT !.op = "rename"], <<r.from>>, "idle"))
      /\ UNCHANGED contents

-----------------------------------------------------------------------------
(* acquirewrite_mrsw(&d->meta_lock) where the operations above go on with a *)
(* Within, and the count as it is then.                                    *)

Wanted(r) ==
  CASE r.pc = "root" -> Root
    [] r.pc = "child" -> Child(r.at, Head(r.todo))
    [] r.pc = "leave" -> r.up
    [] r.pc = "drop" -> Head(r.drops)
    [] r.pc = "c_find" -> IF HasChild(r.at, r.arg.name) THEN Child(r.at, r.arg.name)
                          ELSE IF Spare THEN r.at ELSE None
    [] r.pc = "u_remove" -> r.at
    [] r.pc = "r_nodir" -> r.fromdir
    [] r.pc = "r_find" -> Sought(r)
    [] r.pc = "r_check" /\ ~Refused(r) /\ r.to = r.from -> r.to
    [] r.pc = "r_unlink" -> r.to
    [] r.pc = "r_move" -> r.from
    [] r.pc = "r_same" -> r.todir
    [] OTHER -> None

TakeMeta(t) ==
  LET d == Wanted(thr[t])
  IN  /\ thr[t].held = None /\ d # None /\ Unheld(d)
      /\ meta' = [meta EXCEPT ![d] = t]
      /\ thr' = [thr EXCEPT ![t].held = d, ![t].seen = dentry[d].numhandles]
      /\ UNCHANGED <<dentry, contents, rename_lock, requests, strayed>>

-----------------------------------------------------------------------------
(* A tree as a mount leaves it: one handle each, links counted.            *)
Init ==
  /\ \E w \in Workloads :
       /\ dentry = [d \in Dentries |-> IF d \in DOMAIN w.tree THEN w.tree[d] ELSE Free]
       /\ requests = w.requests
  /\ contents = [d \in Dentries |-> [writer |-> None, readers |-> {}]]
  /\ meta = [d \in Dentries |-> None]
  /\ rename_lock = None /\ strayed = FALSE
  /\ thr = [t \in Threads |-> Idle]

Lookup(t) ==
  \/ LookupRoot(t) \/ LookupRead(t) \/ LookupGate(t) \/ LookupEnter(t)
  \/ LookupMiss(t) \/ LookupChild(t) \/ LookupLeave(t)

OpenClose(t) == Open(t) \/ CloseCount(t) \/ CloseCounted(t) \/ Close(t)

Creating(t) ==
  \/ Create(t) \/ CreateGate(t) \/ CreateEnter(t) \/ CreateExists(t)
  \/ CreateNoMemory(t) \/ CreateNew(t)

Unlinking(t) ==
  \/ Unlink(t) \/ UnlinkEmpty(t) \/ UnlinkNotEmpty(t) \/ UnlinkExitReads(t) \/ UnlinkExit(t)
  \/ UnlinkMeta(t) \/ UnlinkRemove(t)

Renaming(t) ==
  \/ Rename(t) \/ RenameNoDir(t) \/ RenameGate(t) \/ RenameEnter(t) \/ RenameMeta(t)
  \/ RenameFind(t) \/ RenameRefuse(t) \/ RenameNoTarget(t) \/ RenameTarget(t)
  \/ RenameUnlink(t) \/ RenameMove(t) \/ RenameOut(t) \/ RenameOutSame(t)

\* The handles of the threads: what their variables point to and they have not
\* yet given back.
Fields == {"at", "up", "fromdir", "todir", "from", "to"}
Pointers(t) == {thr[t][f] : f \in Fields} \cup Range(thr[t].drops)

\* Nobody points to freed memory.
Defined ==
  /\ {Root} \cup UNION {Pointers(t) \cup {thr[t].chain} : t \in Threads}
       \subseteq Live(dentry) \cup {None}
  /\ \A d \in Live(dentry) : Range(dentry[d].child_list) \subseteq Live(dentry)

Next ==
  /\ strayed => Defined
  /\ \E t \in Threads :
       \/ TakeMeta(t) \/ Lookup(t) \/ Drop(t) \/ OpenClose(t)
       \/ Creating(t) \/ Unlinking(t) \/ Renaming(t)

Spec == Init /\ [][Next]_vars

-----------------------------------------------------------------------------
(* Properties.                                                             *)

\* Fields, locks and counts are of the kinds that the code gives them; no
\* count goes below zero.
TypeOK ==
  /\ dentry \in [Dentries -> Dentry] /\ strayed \in BOOLEAN
  /\ \A t \in Threads : thr[t].held \in Dentries \cup {None} /\ thr[t].seen \in Nat
  /\ contents \in [Dentries -> [writer : Threads \cup {None}, readers : SUBSET Threads]]
  /\ meta \in [Dentries -> Threads \cup {None}]
  /\ rename_lock \in Threads \cup {None}

HandlesOn(d) ==
    Cardinality({h \in Threads \X Fields : thr[h[1]][h[2]] = d})
  + Cardinality({h \in UNION {{t} \X DOMAIN thr[t].drops : t \in Threads} : thr[h[1]].drops[h[2]] = d})

LinkedTo(d) == {p \in Live(dentry) : d \in Range(dentry[p].child_list)}

\* numhandles counts one handle for the tree while the dentry is linked, and
\* those of the requests under way and of the open files; so a dentry is
\* freed when the last of them is given back, once, and nobody keeps a pointer
\* to freed memory, whatever lookups, unlinks and failing renames overlap.
HandlesExact ==
  /\ \A d \in Live(dentry) :
       dentry[d].numhandles = HandlesOn(d) + IF dentry[d].deleted THEN 0 ELSE 1
  /\ {thr[t][f] : t \in Threads, f \in Fields} \subseteq Live(dentry) \cup {None}

\* Nobody holds or waits for a lock of freed memory: a lookup keeps the
\* contents_lock of a directory whose handle it has given back.
LocksOutliveUse ==
  \A d \in Dentries \ Live(dentry) :
    contents[d] = [writer |-> None, readers |-> {}] /\ meta[d] = None

\* The list of a directory and the parent of its children agree, no dentry is
\* linked twice, no rename makes a loop, and link_count is what the tree says:
\* of a directory its own entry, its name and its directories.
TreeExact ==
  \A d \in Live(dentry) :
    /\ LET parent == dentry[d].parent
       IN  /\ LinkedTo(d) = {parent} \ {None}
           /\ parent # None => /\ Cardinality({n \in Names : Child(parent, n) = d}) = 1
                              /\ d \notin Ancestry(dentry, parent)
    /\ dentry[d].deleted => dentry[d].parent = None
    /\ dentry[d].link_count =
           (IF dentry[d].deleted \/ d = Root THEN 0 ELSE 1)
         + (IF dentry[d].isdir
            THEN LET list == dentry[d].child_list
                 IN  1 + Cardinality({n \in DOMAIN list : dentry[list[n]].isdir})
            ELSE 0)

\* Every way out of an operation gives back the locks it took: a thread that
\* has finished, or has a file open, holds none.
IdleHoldsNothing ==
  \A t \in Threads : thr[t].pc \in {"idle", "open"} =>
    /\ rename_lock # t
    /\ \A d \in Dentries : contents[d].writer # t /\ t \notin contents[d].readers
                           /\ meta[d] # t

\* fs_path_lookup only decrements the count of a parent it leaves: "Since we
\* know 'parent' has a child (d), it's guaranteed that parent is still linked
\* into the file system tree."
ParentsStayLinked ==
  \A t \in Threads : thr[t].pc = "leave" =>
    Root \in Ancestry(dentry, thr[t].up) /\ dentry[thr[t].up].numhandles > 1

\* "Can't remove non-empty directories": a dentry that leaves the tree has no
\* children.
RemovedAreEmpty ==
  \A d \in Live(dentry) : dentry[d].deleted => Empty(d)

\* Links, handles and children agree: no way out of the path operations forgets
\* a count, and no two of them count a dentry at once, as long as no exit without
\* the meta_lock has met another thread. (ltfs_fsops.c, fs.c:480-482, 714-722)
TreeSound == ~strayed => TypeOK /\ HandlesExact /\ TreeExact

\* What thread t's step may change: a directory's list with its contents_lock for
\* writing and no lookup reading there; a count or the deleted flag with the
\* meta_lock, which it took itself and which nobody else releases. The exit of an
\* unlink that found a directory not empty counts the parent down when nobody has
\* the lock.
GuardedBy(t) ==
  /\ \A s \in Threads \ {t} : thr'[s] = thr[s]
  /\ \A d \in Dentries : meta'[d] # meta[d] => meta[d] \in {None, t}
  /\ \A d \in Live(dentry) \cap Live(dentry') :
       /\ dentry'[d].child_list # dentry[d].child_list => contents[d].writer = t /\ contents[d].readers = {}
       /\ (\/ dentry'[d].numhandles # dentry[d].numhandles
           \/ dentry'[d].link_count # dentry[d].link_count
           \/ dentry'[d].deleted # dentry[d].deleted)
            => \/ meta[d] = t
               \/ thr[t].pc = "u_stray" /\ thr[t].up = d /\ meta[d] = None

\* Lists and counts change under the locks that guard them, and no thread's lock is
\* released by another, until an exit that has not taken the meta_lock of the
\* parent meets somebody who has. (fs.h:93, fs.c:720, ltfs_fsops.c:461, 513)
EntriesGuarded == [][strayed' \/ \E t \in Threads : GuardedBy(t)]_vars

\* A walk down the tree never steps on a dentry that is gone, unless something
\* is put into a directory while it is removed, or a count was lost to an exit
\* without the lock. (fs.c:491-593, ltfs_fsops.c:459)
WalksSafe == ~strayed => LocksOutliveUse /\ ParentsStayLinked
=============================================================================
