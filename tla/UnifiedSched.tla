---------------------------- MODULE UnifiedSched ----------------------------
(***************************************************************************)
(* The files of the unified I/O scheduler (iosched/unified.c): when a       *)
(* dentry gets a dentry_priv, on which queues that is, who may free it, and *)
(* what the writer thread does with it meanwhile. What is in the requests   *)
(* is UnifiedFile; here a file has requests of a state or has none.         *)
(*                                                                         *)
(* A user holds priv->lock for reading and d->iosched_lock from the flush   *)
(* of a close to its end, and else for one step. The writer thread holds    *)
(* priv->lock for reading while it works on the data queues, for writing    *)
(* while it works on the index queue, and dpr->io_lock while it writes what *)
(* it has taken from a file.                                               *)
(***************************************************************************)
EXTENDS Naturals, Sequences, FiniteSets, SequencesExt

CONSTANTS
  Users, Files,
  NoFile,      \* no dentry
  Does,        \* what users do: "open", "write", "truncate", "cut" (a truncation
               \* that takes alternate extents), "unlink", "sync"
  Dprs,        \* bound: dentry_priv structures
  MaxActs,     \* bound: what users do
  MaxErrors    \* bound: write errors

ASSUME SchedAssumption == IsFiniteSet(Users) /\ NoFile \notin Files /\ Dprs \subseteq Nat \ {0}

VARIABLES
  dentry,      \* each file: [alive, linked, matches, handles, priv]
  dpr,         \* each dentry_priv: [live, file, reqs, alt, wip, err]
  queue,       \* priv->working_set, dp_queue, ip_queue, by request state
  ext_queue,   \* priv->ext_queue
  opens,       \* the files a user has open
  dirty,       \* those it has written to, to be flushed when it closes them
  user,        \* each user: [at, file]
  bg,          \* the writer thread: [at, q, left, file, dpr, taken]
  stopping,    \* priv->writer_keepalive is unset
  fault,       \* freed memory that was used: "none", "dentry" or "dpr"
  acts, errors

schedVars == <<dentry, dpr, queue, ext_queue, opens, dirty, user, bg, stopping, fault, acts, errors>>

States == {"PARTIAL", "DP", "IP"}
None == 0      \* no dentry_priv
NoDpr == [live |-> FALSE, file |-> NoFile, reqs |-> {}, alt |-> FALSE, wip |-> FALSE, err |-> FALSE]
Fresh == [alive |-> TRUE, linked |-> TRUE, matches |-> FALSE, handles |-> 1, priv |-> None]
Resting == [at |-> "idle", file |-> NoFile]
Waits == [at |-> "idle", q |-> "DP", left |-> 0, file |-> NoFile, dpr |-> None, taken |-> {}]

SchedInit ==
  /\ \E named \in SUBSET Files : dentry = [d \in Files |-> [Fresh EXCEPT !.matches = d \in named]]
  /\ dpr = [p \in Dprs |-> NoDpr]
  /\ queue = [s \in States |-> <<>>] /\ ext_queue = <<>>
  /\ opens = [u \in Users |-> {}] /\ dirty = opens /\ user = [u \in Users |-> Resting] /\ bg = Waits
  /\ stopping = FALSE /\ fault = "none" /\ acts = 0 /\ errors = 0

-----------------------------------------------------------------------------
(* The locks. *)
Locked(d) == \E u \in Users : user[u].file = d /\ user[u].at \in {"flush", "free", "freeing", "leave"}
Writing(p) == bg.dpr = p  \* the writer thread has dpr->io_lock
Exclusive ==
  \/ bg.at \in {"index", "flushall", "destroy"}
  \/ \E u \in Users : user[u].at \in {"flushall", "flushed"}
Reading == bg.at \in {"pick", "lock", "write", "error"} \/ \E d \in Files : Locked(d)
Free(d) == ~Locked(d) /\ ~Exclusive /\ fault = "none"

(* _unified_update_queue_membership, with all set.                          *)
Off(q, s, p) == [q EXCEPT ![s] = RemoveFirst(@, p)]
On(q, s, p) == IF p \in ToSet(q[s]) THEN q ELSE [q EXCEPT ![s] = Append(@, p)]
OffData(q, p) == Off(Off(q, "DP", p), "PARTIAL", p)

(* _unified_unset_write_ip, which also clears the alternate extent list and *)
(* with it the place on the ext_queue, and the place on the ip_queue.       *)
ToDataPartition(r) == [r EXCEPT !.wip = FALSE, !.reqs = @ \ {"IP"}, !.alt = FALSE]
Cleared(p, r, turned) == ext_queue' = IF turned /\ r.alt THEN RemoveFirst(ext_queue, p) ELSE ext_queue

(* fs_release_dentry: the last handle frees it.                             *)
Released(d) == [d EXCEPT !.handles = @ - 1, !.alive = d.handles > 1]

(* _unified_free_dentry_priv_conditional, for up to n handles.              *)
MayFree(d, n) ==
  LET p == dentry[d].priv IN p # None /\ dentry[d].handles <= n /\ dpr[p].reqs = {} /\ ~dpr[p].alt
Freed(d) ==
  /\ dpr' = [dpr EXCEPT ![dentry[d].priv] = NoDpr]
  /\ dentry' = [dentry EXCEPT ![d] = Released([@ EXCEPT !.priv = None])]

(* _unified_handle_write_error for a data partition request: the index      *)
(* partition requests go too, unless only space was missing.                *)
Failing(r, both) == [r EXCEPT !.err = TRUE, !.reqs = IF both THEN {} ELSE @ \cap {"IP"}]
Drop(q, p, both) == IF both THEN Off(OffData(q, p), "IP", p) ELSE OffData(q, p)

(* A write that fails, after some that had not and wait for the index       *)
(* partition now if the file is meant for it.                               *)
FailsAfter(p, q, r) ==
  \E both, some \in BOOLEAN :
    LET first == IF some /\ r.wip THEN [r EXCEPT !.reqs = @ \cup {"IP"}] ELSE r
    IN  /\ dpr' = [dpr EXCEPT ![p] = [Failing(first, both) EXCEPT !.err = r.err]]
        /\ queue' = Drop(IF some /\ r.wip THEN On(q, "IP", p) ELSE q, p, both)

(* A structure no one has, not even a queue by mistake. The first one is    *)
(* taken: which one it is makes no difference.                              *)
Unused(p) ==
  /\ ~dpr[p].live /\ bg.dpr # p
  /\ \A s \in States : p \notin ToSet(queue[s])
  /\ p \notin ToSet(ext_queue)

-----------------------------------------------------------------------------
Act(what) == what \in Does /\ ~stopping /\ acts < MaxActs /\ acts' = acts + 1

Open(u, d) ==
  /\ Act("open") /\ fault = "none" /\ user[u] = Resting /\ d \notin opens[u] /\ dentry[d].linked
  /\ opens' = [opens EXCEPT ![u] = @ \cup {d}]
  /\ dentry' = [dentry EXCEPT ![d].handles = @ + 1]
  /\ UNCHANGED <<dpr, queue, ext_queue, dirty, user, bg, stopping, fault, errors>>

Uses(u, d) == user[u] = Resting /\ d \in opens[u] /\ Free(d)

(* unified_write: a dentry_priv if there is none (_unified_get_dentry_priv),*)
(* and a request; an earlier error is reported instead. A file that outgrows*)
(* the largest size for the index partition leaves it.                      *)
Write(u, d) ==
  /\ Act("write") /\ Uses(u, d)
  /\ \E p \in Dprs, s \in {"PARTIAL", "DP"}, small \in BOOLEAN :
       IF dentry[d].priv = None
       THEN /\ Unused(p) /\ (\A o \in Dprs : Unused(o) => p <= o) /\ queue' = On(queue, s, p)
            /\ dpr' = [dpr EXCEPT ![p] = [live |-> TRUE, file |-> d, reqs |-> {s}, alt |-> FALSE, err |-> FALSE,
                                          wip |-> dentry[d].matches /\ small]]
            /\ dentry' = [dentry EXCEPT ![d].priv = p, ![d].handles = @ + 1]
            /\ UNCHANGED ext_queue
       ELSE /\ p = dentry[d].priv
            /\ LET turned == dpr[p].wip /\ ~small
                   r == IF turned THEN ToDataPartition(dpr[p]) ELSE dpr[p]
               IN  IF dpr[p].err
                   THEN dpr' = [dpr EXCEPT ![p].err = FALSE] /\ UNCHANGED <<queue, ext_queue>>
                   ELSE /\ dpr' = [dpr EXCEPT ![p] = [r EXCEPT !.reqs = @ \cup {s}]]
                        /\ queue' = On(IF turned THEN Off(queue, "IP", p) ELSE queue, s, p)
                        /\ Cleared(p, dpr[p], turned)
            /\ UNCHANGED dentry
  /\ dirty' = IF dentry[d].priv # None /\ dpr[dentry[d].priv].err THEN dirty ELSE [dirty EXCEPT ![u] = @ \cup {d}]
  /\ UNCHANGED <<opens, user, bg, stopping, fault, errors>>

(* unified_truncate: some of the requests go, and some or all of the        *)
(* alternate extents; to length zero, all of them, and then the file may be *)
(* meant for the index partition again. The ext_queue is not looked at.     *)
Truncate(u, d) ==
  /\ Act("truncate") /\ Uses(u, d)
  /\ LET p == dentry[d].priv IN
       /\ p # None /\ ~Writing(p)
       /\ \E gone \in SUBSET dpr[p].reqs, cut, zero \in BOOLEAN :
            /\ cut => "cut" \in Does \/ ~dpr[p].alt
            /\ zero => gone = dpr[p].reqs /\ (cut \/ ~dpr[p].alt)
            /\ LET r == [dpr[p] EXCEPT !.reqs = @ \ gone, !.alt = @ /\ ~cut]
                   stays == dentry[d].matches /\ dentry[d].linked
                   turned == r.wip /\ ~stays
               IN  /\ dpr' = [dpr EXCEPT ![p] = IF turned THEN ToDataPartition(r)
                                                ELSE [r EXCEPT !.wip = @ \/ (zero /\ stays)]]
                   /\ queue' = [s \in States |-> IF s \in gone \/ (turned /\ s = "IP")
                                                 THEN RemoveFirst(queue[s], p) ELSE queue[s]]
                   /\ Cleared(p, r, turned)
  /\ UNCHANGED <<dentry, opens, dirty, user, bg, stopping, fault, errors>>

(* ltfs_fsops_unlink, then unified_update_data_placement with a handle held.*)
Unlink(u, d) ==
  /\ Act("unlink") /\ fault = "none" /\ user[u] = Resting /\ dentry[d].linked
  /\ user' = [user EXCEPT ![u] = [at |-> "place", file |-> d]]
  /\ dentry' = [dentry EXCEPT ![d].linked = FALSE]
  /\ UNCHANGED <<dpr, queue, ext_queue, opens, dirty, bg, stopping, fault, errors>>

Place(u) ==
  LET d == user[u].file
      p == dentry[d].priv
  IN  /\ user[u].at = "place" /\ Free(d)
      /\ user' = [user EXCEPT ![u].at = "put"]
      /\ IF p # None /\ dpr[p].wip
         THEN /\ dpr' = [dpr EXCEPT ![p] = ToDataPartition(@)]
              /\ queue' = Off(queue, "IP", p) /\ Cleared(p, dpr[p], TRUE)
         ELSE UNCHANGED <<dpr, queue, ext_queue>>
      /\ UNCHANGED <<dentry, opens, dirty, bg, stopping, fault, acts, errors>>

(* fs_release_dentry, at the end of an unlink and of a close.               *)
Put(u) ==
  /\ user[u].at = "put" /\ fault = "none"
  /\ dentry' = [dentry EXCEPT ![user[u].file] = Released(@)]
  /\ user' = [user EXCEPT ![u] = Resting]
  /\ UNCHANGED <<dpr, queue, ext_queue, opens, dirty, bg, stopping, fault, acts, errors>>

-----------------------------------------------------------------------------
(* unified_close: _unified_flush_unlocked if the user has written, which     *)
(* reports an earlier error instead; then the dentry_priv may go.           *)
Close(u, d) ==
  LET p == dentry[d].priv
      flush == d \in dirty[u] /\ p # None /\ ~dpr[p].err
  IN  /\ Uses(u, d)
      /\ opens' = [opens EXCEPT ![u] = @ \ {d}] /\ dirty' = [dirty EXCEPT ![u] = @ \ {d}]
      /\ dpr' = [r \in Dprs |-> IF r = p THEN [dpr[r] EXCEPT !.err = FALSE] ELSE dpr[r]]
      /\ queue' = IF flush THEN OffData(queue, p) ELSE queue
      /\ user' = [user EXCEPT ![u] = [file |-> d, at |-> IF flush /\ dpr[p].reqs # {} THEN "flush" ELSE "free"]]
      /\ UNCHANGED <<dentry, ext_queue, bg, stopping, fault, acts, errors>>

(* The requests are written, under io_lock; the error is reported at once.  *)
FlushTo(p) ==
  \/ LET r == dpr[p]
         moved == r.reqs \cap {"PARTIAL", "DP"}
     IN  /\ dpr' = [dpr EXCEPT ![p].reqs = (@ \ moved) \cup IF r.wip /\ moved # {} THEN {"IP"} ELSE {}]
         /\ queue' = IF r.wip /\ moved # {} THEN On(OffData(queue, p), "IP", p) ELSE OffData(queue, p)
         /\ UNCHANGED errors
  \/ /\ errors < MaxErrors /\ errors' = errors + 1
     /\ dpr[p].reqs \cap {"PARTIAL", "DP"} # {}
     /\ FailsAfter(p, OffData(queue, p), dpr[p])

Flush(u) ==
  LET p == dentry[user[u].file].priv IN
  /\ user[u].at = "flush" /\ ~Writing(p) /\ fault = "none"
  /\ FlushTo(p)
  /\ user' = [user EXCEPT ![u].at = "free"]
  /\ UNCHANGED <<dentry, ext_queue, opens, dirty, bg, stopping, fault, acts>>

(* The handles may be the tree's, the dentry_priv's and the caller's.       *)
Decide(u) ==
  /\ user[u].at = "free" /\ fault = "none"
  /\ user' = [user EXCEPT ![u].at = IF MayFree(user[u].file, 3) THEN "freeing" ELSE "leave"]
  /\ UNCHANGED <<dentry, dpr, queue, ext_queue, opens, dirty, bg, stopping, fault, acts, errors>>

FreeDpr(u) ==
  /\ user[u].at = "freeing" /\ ~Writing(dentry[user[u].file].priv) /\ fault = "none"
  /\ Freed(user[u].file)
  /\ user' = [user EXCEPT ![u].at = "leave"]
  /\ UNCHANGED <<queue, ext_queue, opens, dirty, bg, stopping, fault, acts, errors>>

(* The locks are given back, and the handle after them.                     *)
Leave(u) ==
  /\ user[u].at = "leave" /\ fault = "none"
  /\ user' = [user EXCEPT ![u].at = "put"]
  /\ UNCHANGED <<dentry, dpr, queue, ext_queue, opens, dirty, bg, stopping, fault, acts, errors>>

-----------------------------------------------------------------------------
(* The writer thread. Callers who wait for cache blocks may make it choose  *)
(* any queue.                                                               *)
Begin ==
  /\ bg = Waits /\ fault = "none" /\ ~stopping /\ ~Exclusive
  /\ \/ \E q \in {"DP", "PARTIAL"} :
          bg' = [bg EXCEPT !.at = "pick", !.q = q,
                           !.left = Len(queue["DP"]) + IF q = "PARTIAL" THEN Len(queue["PARTIAL"]) ELSE 0]
     \/ ~Reading /\ queue["IP"] # <<>> /\ bg' = [bg EXCEPT !.at = "index"]
  /\ UNCHANGED <<dentry, dpr, queue, ext_queue, opens, dirty, user, stopping, fault, acts, errors>>

(* _unified_process_data_queue: the file is read under queue_lock.          *)
Pick ==
  /\ bg.at = "pick" /\ fault = "none"
  /\ LET from == IF queue["DP"] # <<>> THEN queue["DP"] ELSE IF bg.q = "PARTIAL" THEN queue["PARTIAL"] ELSE <<>>
     IN  IF bg.left = 0 \/ from = <<>>
         THEN bg' = Waits /\ UNCHANGED fault
         ELSE /\ fault' = IF dpr[Head(from)].live THEN "none" ELSE "dpr"
              /\ bg' = [bg EXCEPT !.at = "lock", !.left = @ - 1, !.file = dpr[Head(from)].file]
  /\ UNCHANGED <<dentry, dpr, queue, ext_queue, opens, dirty, user, stopping, acts, errors>>

(* ... and its iosched_lock is taken afterwards.                            *)
UseFreed(place) ==
  /\ bg.at = place /\ fault = "none" /\ ~dentry[bg.file].alive
  /\ fault' = "dentry"
  /\ UNCHANGED <<dentry, dpr, queue, ext_queue, opens, dirty, user, bg, stopping, acts, errors>>

Take ==
  /\ bg.at = "lock" /\ dentry[bg.file].alive /\ Free(bg.file)
  /\ LET p == dentry[bg.file].priv
         q == IF bg.q = "PARTIAL" THEN OffData(queue, p) ELSE Off(queue, "DP", p)
         mine == dpr[p].reqs \cap (IF bg.q = "PARTIAL" THEN {"DP", "PARTIAL"} ELSE {"DP"})
     IN  IF p = None THEN bg' = [bg EXCEPT !.at = "pick"] /\ UNCHANGED <<dpr, queue, errors>>
         ELSE \/ /\ ~dpr[p].wip
                 /\ dpr' = [dpr EXCEPT ![p].reqs = @ \ mine] /\ queue' = q
                 /\ bg' = [bg EXCEPT !.at = "write", !.dpr = p, !.taken = mine]
                 /\ UNCHANGED errors
              \/ /\ dpr[p].wip
                 /\ dpr' = [dpr EXCEPT ![p].reqs = IF mine = {} THEN @ ELSE (@ \ mine) \cup {"IP"}]
                 /\ queue' = IF mine = {} THEN q ELSE On(q, "IP", p)
                 /\ bg' = [bg EXCEPT !.at = "pick"] /\ UNCHANGED errors
              \/ /\ dpr[p].wip /\ mine # {} /\ errors < MaxErrors /\ errors' = errors + 1
                 /\ FailsAfter(p, q, [dpr[p] EXCEPT !.err = TRUE])
                 /\ bg' = [bg EXCEPT !.at = "pick"]
  /\ UNCHANGED <<dentry, ext_queue, opens, dirty, user, stopping, fault, acts>>

WriteTaken ==
  /\ bg.at = "write" /\ fault = "none"
  /\ \/ bg' = [bg EXCEPT !.at = "pick", !.dpr = None, !.taken = {}] /\ UNCHANGED errors
     \/ /\ bg.taken # {} /\ errors < MaxErrors /\ errors' = errors + 1
        /\ bg' = [bg EXCEPT !.at = "error", !.dpr = None, !.taken = {}]
  /\ UNCHANGED <<dentry, dpr, queue, ext_queue, opens, dirty, user, stopping, fault, acts>>

(* The error is handled under iosched_lock, which had been given up.        *)
TakenFailed ==
  /\ bg.at = "error" /\ dentry[bg.file].alive /\ Free(bg.file)
  /\ LET p == dentry[bg.file].priv
     IN  IF p = None THEN UNCHANGED <<dpr, queue>>
         ELSE \E both \in BOOLEAN :
                /\ dpr' = [dpr EXCEPT ![p] = Failing(@, both)]
                /\ queue' = IF dpr[p].reqs = {} THEN queue ELSE Drop(queue, p, both)
  /\ bg' = [bg EXCEPT !.at = "pick"]
  /\ UNCHANGED <<dentry, ext_queue, opens, dirty, user, stopping, fault, acts, errors>>

-----------------------------------------------------------------------------
(* _unified_process_index_queue, a file at a time, with priv->lock held for *)
(* writing. An error that is only a lack of space is not reported.          *)
IndexOne ==
  /\ bg.at = "index" /\ fault = "none" /\ queue["IP"] # <<>>
  /\ LET p == Head(queue["IP"])
         d == dpr[p].file
         free(r) == dentry[d].handles <= 2 /\ r.reqs = {} /\ ~r.alt
         left(r) == /\ dpr' = [dpr EXCEPT ![p] = IF free(r) THEN NoDpr ELSE r]
                    /\ dentry' = IF free(r) THEN [dentry EXCEPT ![d] = Released([@ EXCEPT !.priv = None])] ELSE dentry
         linked(some) == ext_queue' = IF some /\ ~dpr[p].alt THEN Append(ext_queue, p) ELSE ext_queue
     IN  \/ /\ left([dpr[p] EXCEPT !.reqs = @ \ {"IP"}, !.alt = @ \/ "IP" \in dpr[p].reqs])
            /\ queue' = Off(queue, "IP", p)
            /\ linked("IP" \in dpr[p].reqs) /\ UNCHANGED errors
         \/ /\ "IP" \in dpr[p].reqs /\ errors < MaxErrors /\ errors' = errors + 1
            /\ \E both, told, some \in BOOLEAN :
                 /\ told => both
                 /\ left([dpr[p] EXCEPT !.reqs = IF both THEN {} ELSE @ \ {"IP"}, !.alt = @ \/ some, !.err = @ \/ told])
                 /\ linked(some)
                 /\ queue' = IF both THEN OffData(Off(queue, "IP", p), p) ELSE Off(queue, "IP", p)
  /\ UNCHANGED <<opens, dirty, user, bg, stopping, fault, acts>>

IndexDone ==
  /\ bg.at = "index" /\ queue["IP"] = <<>> /\ fault = "none"
  /\ bg' = IF stopping THEN [bg EXCEPT !.at = "destroy"] ELSE Waits
  /\ UNCHANGED <<dentry, dpr, queue, ext_queue, opens, dirty, user, stopping, fault, acts, errors>>

-----------------------------------------------------------------------------
(* _unified_flush_all: the data queue, then the working set, up to the first *)
(* file that has an error to report; with priv->lock held for writing.      *)
\* A mutation: the working set is left out.
QueuedNoPartial == queue["DP"]

Queued == queue["DP"] \o queue["PARTIAL"]

FlushHead(finished, failed) ==
  IF Queued = <<>> THEN finished /\ UNCHANGED <<dpr, queue, errors>>
  ELSE LET p == Head(Queued)
       IN  IF dpr[p].err THEN dpr' = [dpr EXCEPT ![p].err = FALSE] /\ failed /\ UNCHANGED <<queue, errors>>
           ELSE FlushTo(p) /\ IF errors' = errors THEN UNCHANGED <<user, bg>> ELSE failed

(* unified_flush of all files, for a sync of the volume.                    *)
Sync(u) ==
  /\ Act("sync") /\ user[u] = Resting /\ ~Reading /\ ~Exclusive /\ fault = "none"
  /\ user' = [user EXCEPT ![u].at = "flushall"]
  /\ UNCHANGED <<dentry, dpr, queue, ext_queue, opens, dirty, bg, stopping, fault, errors>>

SyncOne(u) ==
  /\ user[u].at = "flushall" /\ fault = "none"
  /\ FlushHead(user' = [user EXCEPT ![u].at = "flushed"] /\ UNCHANGED bg,
               user' = [user EXCEPT ![u] = Resting] /\ UNCHANGED bg)
  /\ UNCHANGED <<dentry, ext_queue, opens, dirty, stopping, fault, acts>>

Synced(u) ==
  /\ user[u].at = "flushed" /\ user' = [user EXCEPT ![u] = Resting]
  /\ UNCHANGED <<dentry, dpr, queue, ext_queue, opens, dirty, bg, stopping, fault, acts, errors>>

(* unified_destroy, when no file is open and the writer thread has finished *)
(* what it was at: it flushes all and writes the index queue.               *)
Stop ==
  /\ ~stopping /\ fault = "none" /\ bg = Waits /\ \A u \in Users : user[u] = Resting /\ opens[u] = {}
  /\ stopping' = TRUE /\ bg' = [bg EXCEPT !.at = "flushall"]
  /\ UNCHANGED <<dentry, dpr, queue, ext_queue, opens, dirty, user, fault, acts, errors>>

FlushOne ==
  /\ bg.at = "flushall" /\ fault = "none"
  /\ LET index == bg' = [bg EXCEPT !.at = "index"] /\ UNCHANGED user IN FlushHead(index, index)
  /\ UNCHANGED <<dentry, ext_queue, opens, dirty, stopping, fault, acts>>

(* _unified_free_dentry_priv for what is left on ext_queue.                 *)
DestroyOne ==
  /\ bg.at = "destroy" /\ fault = "none" /\ ext_queue # <<>>
  /\ LET p == Head(ext_queue) IN
       IF ~dpr[p].live THEN fault' = "dpr" /\ UNCHANGED <<dentry, dpr, ext_queue>>
       ELSE Freed(dpr[p].file) /\ ext_queue' = Tail(ext_queue) /\ UNCHANGED fault
  /\ UNCHANGED <<queue, opens, dirty, user, bg, stopping, acts, errors>>

Destroyed ==
  /\ bg.at = "destroy" /\ ext_queue = <<>> /\ fault = "none"
  /\ bg' = [bg EXCEPT !.at = "gone"]
  /\ UNCHANGED <<dentry, dpr, queue, ext_queue, opens, dirty, user, stopping, fault, acts, errors>>

-----------------------------------------------------------------------------
UserStep(u) ==
  \/ \E d \in Files : Open(u, d) \/ Write(u, d) \/ Truncate(u, d) \/ Unlink(u, d) \/ Close(u, d)
  \/ Sync(u) \/ SyncOne(u) \/ Synced(u)
  \/ Place(u) \/ Put(u) \/ Flush(u) \/ Decide(u) \/ FreeDpr(u) \/ Leave(u)

WriterStep ==
  \/ Begin \/ Pick \/ UseFreed("lock") \/ UseFreed("error") \/ Take \/ WriteTaken \/ TakenFailed
  \/ IndexOne \/ IndexDone \/ FlushOne \/ DestroyOne \/ Destroyed

SchedNext == (\E u \in Users : UserStep(u)) \/ Stop \/ WriterStep
SchedSpec == SchedInit /\ [][SchedNext]_schedVars


-----------------------------------------------------------------------------
One(b) == IF b THEN 1 ELSE 0

\* The handles of a dentry are those of the tree, of whoever has it open or
\* is in a call for it, and of its dentry_priv. (unified.c:1460, 2141)
HandlesCounted == \A d \in Files :
  dentry[d].handles = One(dentry[d].linked) + One(dentry[d].priv # None)
                      + Cardinality({u \in Users : d \in opens[u]}) + Cardinality({u \in Users : user[u].file = d})

\* A dentry_priv is that of one dentry, which lives as long. (unified.c:1411-1462)
PrivsOwned ==
  /\ \A d \in Files : dentry[d].priv # None => dpr[dentry[d].priv].file = d
  /\ \A p \in Dprs : dpr[p].live => dentry[dpr[p].file].alive /\ dentry[dpr[p].file].priv = p

\* A dentry_priv is on a queue just when it has requests for it, but while
\* its file is flushed, and on the ext_queue just when it has extents for the
\* index: none is freed while a queue has it. (unified.c:1603-1705, 1985-2005)
QueuesExact == \A p \in Dprs :
  /\ (p \in ToSet(ext_queue)) = dpr[p].alt
  /\ \A s \in States :
       \/ (p \in ToSet(queue[s])) = (s \in dpr[p].reqs)
       \/ \E u \in Users : user[u].at = "flush" /\ dentry[user[u].file].priv = p

\* "If this function returns success, there are no REQUEST_DP or
\* REQUEST_PARTIAL requests left in the scheduler"; and with no write error, an
\* unmount leaves nothing unwritten. (unified.c:2067-2107, 382-416)
NothingLeft ==
  /\ (\E u \in Users : user[u].at = "flushed") => \A p \in Dprs : dpr[p].reqs \subseteq {"IP"}
  /\ bg.at = "gone" /\ errors = 0 => \A p \in Dprs : dpr[p].reqs = {} /\ ~dpr[p].alt

\* The scheduler keeps account of its structures, whatever closes, unlinks
\* and writes come between the steps of the writer thread.
FilesHeld == fault # "dpr" /\ HandlesCounted /\ PrivsOwned /\ QueuesExact /\ NothingLeft

\* "Take I/O lock first. The background thread could be processing this
\* dentry" (unified.c:2133): what the writer thread is processing is not freed
\* under it.
NotFreedUnderWriter == fault # "dentry"

\* "Adds the dentry_priv to the ext_queue if it isn't already there"
\* (unified.c:1466): it is there once, and gone from there when freed.
OnExtQueueOnce == fault # "dpr" /\ Len(ext_queue) = Cardinality(ToSet(ext_queue))
=============================================================================
