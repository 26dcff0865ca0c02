----------------------------- MODULE FuseFront ------------------------------
(***************************************************************************)
(* The FUSE front end (ltfs_fuse.c) on the calls of libltfs it makes       *)
(* (ltfs_fsops.c): handles, the table of open files, references to         *)
(* dentries, and when what was written or changed reaches the tape.        *)
(*                                                                         *)
(* FuseThreads serve requests; a step is what happens between two releases *)
(* of a lock.  A dentry is its address: freed, it may be given to another     *)
(* file.  `meta' numbers the contents of a dentry; the writes that the     *)
(* scheduler still holds are kept by number, `mtime' is that of the write  *)
(* whose time the dentry has.  The program is the one for Windows, where   *)
(* fsync and not the last close says that a file is written.  Path texts,  *)
(* access times, permission bits and the directory a dentry is in are left *)
(* out (see Namespace for the tree); so is the dentry cache, which is off  *)
(* here.                                                                   *)
(***************************************************************************)
EXTENDS Integers, FiniteSets

CONSTANTS FuseThreads, Addresses, Handles,
          MaxWrites, MaxMeta,  \* bounds of the writes and of the changes of a dentry
          SyncClose,           \* priv->sync_type = LTFS_SYNC_CLOSE
          BufferFits,          \* whether readlink is given room for every target
          FrontScenarios       \* sets of the requests that are made in one behaviour

\* A request on a path has 0 where others have their handle.
ASSUME FrontAssumption ==
  /\ IsFiniteSet(FuseThreads) /\ IsFiniteSet(Handles)
  /\ 0 \notin Handles /\ "none" \notin Addresses

NoHandle == [dentry |-> "none"]
NoEntry == [open_count |-> 0]
NoRequest == [pc |-> "idle"]
Freed == [linked |-> FALSE, refs |-> 0]

VARIABLES den,                 \* struct dentry
          table,               \* priv->file_table
          hnd,                 \* struct ltfs_file_handle
          index,               \* vol->index: what was last written, and the dirty flag
          written,             \* the number of the last write
          th,                  \* the request each thread serves
          offered              \* the requests of this behaviour

frontVars == <<den, table, hnd, index, written, th, offered>>

FrontInit ==
  /\ den = [d \in Addresses |-> Freed]
  /\ table = [d \in Addresses |-> NoEntry]
  /\ hnd = [h \in Handles |-> NoHandle]
  /\ index = [dirty |-> FALSE, saved |-> {}]
  /\ written = 0 /\ th = [t \in FuseThreads |-> NoRequest] /\ offered \in FrontScenarios

-----------------------------------------------------------------------------
(* Helpers.                                                                *)

InMemory(d) == den[d].linked \/ den[d].refs > 0
Linked(d) == den[d].linked
Opened(h) == hnd[h] # NoHandle
On(h) == hnd[h].dentry
Room == Cardinality({h \in Handles : Opened(h)}) + Cardinality({t \in FuseThreads : th[t].pc \in {"opened", "created"}}) < Cardinality(Handles)
May(t, request) == request \in offered /\ th[t] = NoRequest
Goto(t, pc) == th' = [th EXCEPT ![t].pc = pc]
Begin(t, pc, h, d, w) == th' = [th EXCEPT ![t] = [pc |-> pc, h |-> h, d |-> d, w |-> w]]
End(t) == th' = [th EXCEPT ![t] = NoRequest]
Dirty(i) == [i EXCEPT !.dirty = TRUE]

New(isdir, isslink) ==
  [linked |-> TRUE, refs |-> 1, isdir |-> isdir, isslink |-> isslink, target |-> FALSE,
   openforwrite |-> ~isdir, meta |-> 0, mtime |-> 0, pending |-> {}]
Changed(d) == [den EXCEPT ![d].meta = @ + 1]
Dropped(d, e) == [e EXCEPT ![d] = IF @.refs = 1 /\ ~@.linked THEN Freed ELSE [e[d] EXCEPT !.refs = e[d].refs - 1]]
Taken(d, w) == [den EXCEPT ![d].refs = @ + 1, ![d].openforwrite = @ \/ (w /\ ~den[d].isdir)]

\* iosched_flush: the writes of a file become extents, which changes it.
Flushed(d, e) == [e EXCEPT ![d] = IF ~InMemory(d) \/ @.pending = {} THEN @ ELSE [e[d] EXCEPT !.pending = {}, !.meta = e[d].meta + 1]]
AfterFlush(d, i) == IF InMemory(d) /\ den[d].pending # {} THEN Dirty(i) ELSE i

\* What a written index says of the files of the volume; of a link not that it is open.
Told(e, d) ==
  [file |-> d, meta |-> e[d].meta, mtime |-> e[d].mtime, isslink |-> e[d].isslink, target |-> e[d].target,
   openforwrite |-> e[d].openforwrite /\ ~e[d].isslink]
Content(e) == {Told(e, d) : d \in {x \in Addresses : e[x].linked}}
Saved(e, i) == IF i.dirty THEN [dirty |-> FALSE, saved |-> Content(e)] ELSE i

\* _file_open and _file_close, under file_table_lock.
FileOpen(d) ==
  table' = [table EXCEPT ![d] = IF @.open_count = 0 THEN [open_count |-> 1, write_index |-> FALSE]
                                ELSE [table[d] EXCEPT !.open_count = table[d].open_count + 1]]
FileClose(d) ==
  table' = [table EXCEPT ![d] = IF @.open_count = 1 THEN NoEntry
                                ELSE [table[d] EXCEPT !.open_count = table[d].open_count - 1]]

-----------------------------------------------------------------------------
(* Opening and creating.                                                   *)

\* ltfs_fuse_open and ltfs_fuse_opendir: a link is not opened for writing.
OpenFile(t) == \E d \in Addresses, w \in BOOLEAN :
  /\ May(t, "open") /\ Room /\ Linked(d) /\ (den[d].isdir \/ den[d].isslink => ~w)
  /\ den' = Taken(d, w) /\ Begin(t, "opened", 0, d, w)
  /\ UNCHANGED <<table, hnd, index, written, offered>>

\* Without memory for the handle the dentry is closed again.
OpenNoMemory(t) ==
  /\ th[t].pc = "opened" /\ den' = Dropped(th[t].d, den) /\ End(t)
  /\ UNCHANGED <<table, hnd, index, written, offered>>

\* ltfs_fuse_create has its memory before the file is created.
CreateFile(t) == \E d \in Addresses, isdir \in BOOLEAN :
  /\ May(t, IF isdir THEN "mkdir" ELSE "create") /\ Room /\ ~InMemory(d)
  /\ den' = [den EXCEPT ![d] = New(isdir, FALSE)] /\ index' = Dirty(index)
  /\ Begin(t, IF isdir THEN "close" ELSE "created", 0, d, TRUE)
  /\ UNCHANGED <<table, hnd, written, offered>>
NewHandle(t) == \E h \in Handles :
  /\ th[t].pc \in {"opened", "created"} /\ ~Opened(h)
  /\ FileOpen(th[t].d) /\ hnd' = [hnd EXCEPT ![h] = [dentry |-> th[t].d, dirty |-> FALSE, w |-> th[t].w, acked |-> {}]]
  /\ End(t) /\ UNCHANGED <<den, index, written, offered>>

\* What ends a request on a path: ltfs_fsops_close.
ClosePath(t) ==
  /\ th[t].pc = "close" /\ den' = Dropped(th[t].d, den) /\ End(t)
  /\ UNCHANGED <<table, hnd, index, written, offered>>

-----------------------------------------------------------------------------
(* Requests on a handle.  The kernel releases a handle once, when no other  *)
(* request is made on it.                                                  *)

InUse(h) == \E t \in FuseThreads : th[t] # NoRequest /\ th[t].h = h
Leaving(h) == \E t \in FuseThreads : th[t].pc \in {"release", "sync", "forget"} /\ th[t].h = h
OnHandle(t, request, h) == May(t, request) /\ Opened(h) /\ ~Leaving(h)

\* ltfs_fuse_write: the data are the scheduler's, and the file has a new time, which
\* does not mark the index; then the handle is marked, then the file.
WriteFile(t) == \E h \in Handles :
  /\ OnHandle(t, "write", h) /\ hnd[h].w /\ written < MaxWrites
  /\ written' = written + 1
  /\ den' = [den EXCEPT ![On(h)].pending = @ \cup {written'}, ![On(h)].mtime = written']
  /\ th' = [th EXCEPT ![t] = [pc |-> "wrote", h |-> h, d |-> On(h), n |-> written']]
  /\ UNCHANGED <<table, hnd, index, offered>>
WriteDirty(t) ==
  /\ th[t].pc = "wrote" /\ hnd' = [hnd EXCEPT ![th[t].h].dirty = TRUE] /\ Goto(t, "marked")
  /\ UNCHANGED <<den, table, index, written, offered>>
WriteMark(t) ==
  /\ th[t].pc = "marked" /\ table' = [table EXCEPT ![th[t].d].write_index = TRUE]
  /\ hnd' = [hnd EXCEPT ![th[t].h].acked = @ \cup {th[t].n}] /\ End(t)
  /\ UNCHANGED <<den, index, written, offered>>

\* _ltfs_fuse_do_flush: the flag is read and reset apart from the flush.
Flush(t) == \E h \in Handles, request \in {"flush", "fsync"} :
  /\ OnHandle(t, request, h) /\ ~den[On(h)].isdir
  /\ th' = [th EXCEPT ![t] = [pc |-> IF hnd[h].dirty THEN "flush" ELSE "clean", h |-> h, d |-> On(h),
                              sync |-> request = "fsync", must |-> hnd[h].acked]]
  /\ UNCHANGED <<den, table, hnd, index, written, offered>>
FlushData(t) ==
  /\ th[t].pc = "flush"
  /\ den' = Flushed(th[t].d, den) /\ index' = AfterFlush(th[t].d, index) /\ Goto(t, "reset")
  /\ UNCHANGED <<table, hnd, written, offered>>
FlushFails(t) ==
  /\ th[t].pc = "flush" /\ den[th[t].d].pending # {} /\ End(t)
  /\ UNCHANGED <<den, table, hnd, index, written, offered>>
FlushReset(t) ==
  /\ th[t].pc = "reset" /\ hnd' = [hnd EXCEPT ![th[t].h].dirty = FALSE] /\ Goto(t, "clean")
  /\ UNCHANGED <<den, table, index, written, offered>>
FlushDone(t) ==
  /\ th[t].pc = "clean" /\ End(t)
  /\ den' = IF th[t].sync THEN [den EXCEPT ![th[t].d].openforwrite = FALSE] ELSE den
  /\ UNCHANGED <<table, hnd, index, written, offered>>

\* A mutation: the dentry is closed when the release begins, and again later.
ReleaseTwice(t) == \E h \in Handles :
  /\ May(t, "open") /\ Opened(h) /\ ~InUse(h)
  /\ th' = [th EXCEPT ![t] = [pc |-> "release", h |-> h, d |-> On(h), dirty |-> hnd[h].dirty, sync |-> FALSE]]
  /\ den' = Dropped(On(h), den)
  /\ UNCHANGED <<table, hnd, index, written, offered>>

\* ltfs_fuse_release and ltfs_fuse_releasedir: the flags are read, the dentry is
\* closed, the index may be written, and last the file leaves the table.
ReleaseHandle(t) == \E h \in Handles :
  /\ May(t, "open") /\ Opened(h) /\ ~InUse(h)
  /\ th' = [th EXCEPT ![t] = [pc |-> "release", h |-> h, d |-> On(h), dirty |-> hnd[h].dirty,
                              sync |-> SyncClose /\ table[On(h)].write_index]]
  /\ UNCHANGED <<den, table, hnd, index, written, offered>>
ReleaseClose(t) == \E flushes \in {th[t].pc = "release" /\ th[t].dirty, FALSE} :
  LET d == th[t].d IN
  /\ th[t].pc = "release"
  /\ den' = Dropped(d, IF flushes THEN Flushed(d, den) ELSE den)
  /\ index' = IF flushes THEN AfterFlush(d, index) ELSE index
  /\ Goto(t, IF th[t].sync THEN "sync" ELSE "forget")
  /\ UNCHANGED <<table, hnd, written, offered>>
ReleaseSync(t) ==
  /\ th[t].pc = "sync" /\ index' = Saved(den, index) /\ Goto(t, "forget")
  /\ UNCHANGED <<den, table, hnd, written, offered>>
ReleaseForget(t) ==
  /\ th[t].pc = "forget" /\ FileClose(th[t].d) /\ hnd' = [hnd EXCEPT ![th[t].h] = NoHandle] /\ End(t)
  /\ UNCHANGED <<den, index, written, offered>>

\* ltfs_fuse_ftruncate: what the scheduler holds behind the new end is dropped.
Ftruncate(t) == \E h \in Handles :
  /\ OnHandle(t, "truncate", h) /\ ~den[On(h)].isdir /\ den[On(h)].meta < MaxMeta
  /\ \E left \in SUBSET den[On(h)].pending : den' = [Changed(On(h)) EXCEPT ![On(h)].pending = left]
  /\ index' = Dirty(index) /\ UNCHANGED <<table, hnd, written, th, offered>>

-----------------------------------------------------------------------------
(* Requests on a path.                                                     *)

\* What is opened, used in a step of its own, and closed.
OpenPath(t) == \E d \in Addresses, request \in {"getattr", "utimens", "readonly", "truncate", "readlink"} :
  /\ May(t, request) /\ Linked(d) /\ den[d].meta < MaxMeta
  /\ (request = "truncate" => ~den[d].isdir /\ ~den[d].isslink)
  /\ den' = Taken(d, request = "truncate") /\ Begin(t, request, 0, d, request = "truncate")
  /\ UNCHANGED <<table, hnd, index, written, offered>>

Serving(t, request) == th[t].pc = request /\ Goto(t, "close") /\ UNCHANGED <<table, hnd, written, offered>>
Change(d) == den' = Changed(d) /\ index' = Dirty(index)
Same == UNCHANGED <<den, index>>

GetAttr(t) == Serving(t, "getattr") /\ Same

\* A mutation: new times are not worth a new index.
UtimensClean(t) == Serving(t, "utimens") /\ UNCHANGED index /\ (den' = Changed(th[t].d) \/ UNCHANGED den)

\* ltfs_fsops_utimens: an access time alone is no change, nor are the times it has.
Utimens(t) == Serving(t, "utimens") /\ (Change(th[t].d) \/ Same)
SetReadonly(t) == Serving(t, "readonly") /\ (Change(th[t].d) \/ Same)
Truncate(t) == Serving(t, "truncate") /\ Change(th[t].d)

\* ltfs_fsops_readlink_path: returns at once when the buffer is too small.
ReadLink(t) ==
  /\ th[t].pc = "readlink" /\ UNCHANGED <<den, table, hnd, index, written, offered>>
  /\ \/ Goto(t, "close")
     \/ den[th[t].d].target /\ ~BufferFits /\ End(t)

\* The calls on extended attributes keep the volume locked; a call that finds
\* nothing to do, or that is refused, changes nothing.
Locked(t, request, d) ==
  May(t, request) /\ Linked(d) /\ den[d].meta < MaxMeta /\ UNCHANGED <<table, hnd, written, th, offered>>
SetXattr(t) == \E d \in Addresses : Locked(t, "xattr", d) /\ Change(d)
RemoveXattr(t) == \E d \in Addresses : Locked(t, "xattr", d) /\ (Change(d) \/ Same)
ReadXattr(t) == \E d \in Addresses : Locked(t, "xattr", d) /\ Same
ReadDir(t) == \E h \in Handles : OnHandle(t, "mkdir", h) /\ den[On(h)].isdir /\ UNCHANGED frontVars

\* ltfs_fsops_symlink_path: a file, and what makes it a link afterwards.
Symlink(t) == \E d \in Addresses :
  /\ May(t, "symlink") /\ ~InMemory(d)
  /\ den' = [den EXCEPT ![d] = New(FALSE, FALSE)] /\ index' = Dirty(index) /\ Begin(t, "symlink", 0, d, TRUE)
  /\ UNCHANGED <<table, hnd, written, offered>>
SymlinkTarget(t) ==
  /\ th[t].pc = "symlink" /\ den' = [den EXCEPT ![th[t].d].target = TRUE, ![th[t].d].isslink = TRUE]
  /\ Goto(t, "close") /\ UNCHANGED <<table, hnd, index, written, offered>>

\* ltfs_fuse_unlink and ltfs_fuse_rmdir; the dentry lives on while it is open.
UnlinkFile(t) == \E d \in Addresses :
  /\ May(t, "unlink") /\ Linked(d)
  /\ den' = [den EXCEPT ![d] = IF @.refs = 0 THEN Freed ELSE [@ EXCEPT !.linked = FALSE]]
  /\ index' = Dirty(index) /\ UNCHANGED <<table, hnd, written, th, offered>>

\* The periodic sync: all files are flushed, or not, and the index is written.
PeriodicSync ==
  /\ "sync" \in offered
  /\ \/ /\ den' = [d \in Addresses |-> Flushed(d, den)[d]]
        /\ index' = Saved(den', IF \E d \in Addresses : InMemory(d) /\ den[d].pending # {} THEN Dirty(index) ELSE index)
     \/ den' = den /\ index' = Saved(den, index)
  /\ UNCHANGED <<table, hnd, written, th, offered>>

FrontNext ==
  \/ \E t \in FuseThreads :
       \/ OpenFile(t) \/ OpenNoMemory(t) \/ CreateFile(t) \/ NewHandle(t) \/ ClosePath(t)
       \/ WriteFile(t) \/ WriteDirty(t) \/ WriteMark(t)
       \/ Flush(t) \/ FlushData(t) \/ FlushFails(t) \/ FlushReset(t) \/ FlushDone(t)
       \/ ReleaseHandle(t) \/ ReleaseClose(t) \/ ReleaseSync(t) \/ ReleaseForget(t) \/ Ftruncate(t)
       \/ OpenPath(t) \/ GetAttr(t) \/ Utimens(t) \/ SetReadonly(t) \/ Truncate(t) \/ ReadLink(t)
       \/ SetXattr(t) \/ RemoveXattr(t) \/ ReadXattr(t) \/ ReadDir(t)
       \/ Symlink(t) \/ SymlinkTarget(t) \/ UnlinkFile(t)
  \/ PeriodicSync
FrontSpec == FrontInit /\ [][FrontNext]_frontVars

-----------------------------------------------------------------------------
(* Properties.                                                             *)

\* References to a dentry are those of its handles that have not been closed and
\* of the requests that work on it: it is freed when the last one goes, however
\* opens, releases and the removal of its name are interleaved.
RefsExact == \A d \in Addresses :
  LET closed(h) == \E t \in FuseThreads : th[t].pc \in {"sync", "forget"} /\ th[t].h = h
      held == {h \in Handles : Opened(h) /\ On(h) = d /\ ~closed(h)}
      used == {t \in FuseThreads : th[t] # NoRequest /\ th[t].h = 0 /\ th[t].d = d}
  IN  den[d].refs = Cardinality(held) + Cardinality(used)

\* The table of open files counts the handles on each address, also when the
\* address has been given to another file before a release is through.
TableExact == \A d \in Addresses : table[d].open_count = Cardinality({h \in Handles : Opened(h) /\ On(h) = d})

\* The index that is on tape when the index is clean tells of the files there are and
\* no others, each with its contents and attributes; with the time of its last write
\* unless the scheduler still holds writes; and no link that is none or has no target.
\* It is not true of what changes without the dirty mark: that a file is open for
\* writing, and the target of a new link. (ltfs.c:3313, ltfs_fsops_raw.c:395)
IsTrueOf(saved, e) ==
  /\ {s.file : s \in saved} = {d \in Addresses : e[d].linked}
  /\ \A s \in saved :
       /\ s.meta = e[s.file].meta
       /\ e[s.file].pending = {} => s.mtime = e[s.file].mtime
       /\ (s.isslink => e[s.file].isslink) /\ (s.target => e[s.file].target)
CleanIndexIsTrue == ~index.dirty => IsTrueOf(index.saved, den)

\* The same of all that an index says of a file: an index that was written when "the
\* file is NOT completely written" would still say so, and one of a file that is would
\* not. (ltfs_fsops_raw.c:98, ltfs_fuse.c:694-698)
CleanIndexTellsAll == ~index.dirty => index.saved = Content(den)

\* When fsync says that all is well, what was written through the handle before
\* it was called is on tape.
FsyncIsDurable == \A t \in FuseThreads :
  th[t].pc = "clean" /\ th[t].sync /\ InMemory(th[t].d) => th[t].must \cap den[th[t].d].pending = {}

\* The table of open files and the references of the dentries agree with the
\* handles FUSE has. (ltfs_fuse.c:104-283)
HandlesMatch == RefsExact /\ TableExact
=============================================================================
