---------------------------- MODULE UnifiedFile ----------------------------
(***************************************************************************)
(* One file in the unified I/O scheduler (iosched/unified.c): the callers  *)
(* of unified_write, unified_truncate and unified_flush, the background    *)
(* writer thread, the cache blocks they compete for, and the medium.       *)
(*                                                                         *)
(* A step of a caller is what it does while it holds d->iosched_lock; it   *)
(* gives that lock up only to wait for a cache block.  The writer thread   *)
(* gives it up while it writes the requests it has taken (it holds         *)
(* dpr->io_lock then), and between a failed write and its handling.        *)
(***************************************************************************)
EXTENDS RequestList, FiniteSets

CONSTANTS
  Writers,      \* threads that write to the file
  Values,       \* what they write
  FileMax,      \* bound: cells in the file
  MaxWrite,     \* bound: cells in one unified_write
  CacheBlocks,  \* priv->cache_blocks
  MaxIPSize,    \* index_criteria_get_max_filesize
  CanRename,    \* may the file's name start or stop matching the criteria?
  Faults        \* write errors of the medium: pairs of a partition and a kind

ASSUME UnifiedFileAssumption ==
  /\ FileMax \in Nat /\ MaxWrite \in Nat \ {0} /\ MaxIPSize \in Nat
  /\ CacheBlocks \in Nat \ {0}
  /\ CanRename \in BOOLEAN
  /\ Faults \subseteq ({"DP", "IP"} \X {"space", "fatal"})

VARIABLES
  f,            \* the request list and its counters (RequestList)
  media,        \* the cells libltfs has for the file
  alt,          \* dpr->alt_extentlist, as a function from offsets to cells
  on_ext,       \* how often the file is linked into priv->ext_queue, up to 2
  matches,      \* d->matches_name_criteria and not d->deleted
  write_error,  \* dpr->write_error: "none" or the kind of error
  local_req_list,
  bg,           \* the writer thread: its place, queue, entries left, error
  pend,         \* unified_write waiting for a cache block: what is left to do
  low,          \* partitions that reported LTFS_LESS_SPACE
  dev_error,    \* dev->write_error
  content,      \* what the callers have made of the file
  flushed,      \* "all" when _unified_flush_all has returned 0 since content changed
  stopped       \* unified_destroy is done

vars == <<f, media, alt, on_ext, matches, write_error, local_req_list, bg, pend,
          low, dev_error, content, flushed, stopped>>

Idle == [off |-> 0, buf |-> <<>>, spare |-> 0]
Waiting(c) == pend[c].buf # <<>>
cache_requests == Cardinality({c \in Writers : Waiting(c)})

\* IP_HIGH_WATERMARK * priv->cache_blocks, as an integer.
IPWatermark == (6 * CacheBlocks) \div 10

Resize(s, len) == [k \in 1..len |-> IF k <= Len(s) THEN s[k] ELSE 0]

Init ==
  /\ matches \in BOOLEAN
  /\ f = [reqs |-> <<>>, wip |-> matches /\ MaxIPSize > 0, size |-> 0,
          nr |-> [state \in States |-> 0], dpreq |-> 0, free |-> CacheBlocks,
          spare |-> 0]
  /\ media = <<>>
  /\ alt = <<>>
  /\ on_ext = 0
  /\ write_error = "none"
  /\ local_req_list = <<>>
  /\ bg = [pc |-> "idle", queue |-> "DP", left |-> 0, err |-> "none"]
  /\ pend = [c \in Writers |-> Idle]
  /\ low = {}
  /\ dev_error = FALSE
  /\ content = <<>>
  /\ flushed = "no"
  /\ stopped = FALSE

-----------------------------------------------------------------------------
(***************************************************************************)
(* The medium.  A write that fails for lack of space leaves the partition  *)
(* low; any other failure makes the drive refuse all further writes.       *)
(***************************************************************************)
\* The ways n writes in a row to partition p can go: [at, err], the first
\* failure, at = 0 when there is none.
Outcomes(p, n) ==
  LET sound == [at |-> 0, err |-> "none"]
  IN  IF dev_error THEN {[at |-> 1, err |-> "fatal"]}
      ELSE IF p \in low THEN {[at |-> 1, err |-> "space"]}
      ELSE {sound} \cup {[at |-> k, err |-> e] :
                           k \in 1..n, e \in {x[2] : x \in {y \in Faults : y[1] = p}}}

MediumAfter(p, err) ==
  /\ low' = IF err = "space" THEN low \cup {p} ELSE low
  /\ dev_error' = (dev_error \/ err = "fatal")

\* tape_read_only of the index partition, then of the data partition.
ReadOnly == dev_error \/ "DP" \in low

\* What the callers can expect to read now.
View(g, m) == ReadFrom(g.reqs, m, 0, FileMax)

\* What is left of a list after _unified_handle_write_error has cleared it.
Cleared(g, m, err, silent) ==
  /\ f' = g
  /\ write_error' = IF silent \/ write_error # "none" THEN write_error ELSE err
  /\ content' = IF silent THEN content ELSE View(g, m)

\* _unified_handle_write_error.  State is that of the failed request.
HandleError(g, m, state, err) ==
  LET full(p) == dev_error' \/ p \in low'
  IN  Cleared(ClearRequests(g,
                            state # "IP" \/ err = "fatal" \/ full("DP"),
                            state = "IP" \/ err = "fatal" \/ full("IP"),
                            Len(m)),
              m, err, state = "IP" /\ err = "space")

-----------------------------------------------------------------------------
(***************************************************************************)
(* Data placement.                                                         *)
(***************************************************************************)
SetWriteIP(g) == [g EXCEPT !.wip = TRUE, !.dpreq = @ - g.nr["DP"]]

UnsetWriteIP(g) ==
  LET g1 == [g EXCEPT !.wip = FALSE]
      g2 == IF g.nr["IP"] = 0 THEN g1
            ELSE RemoveAll(Select(g1, LAMBDA r : r.state # "IP"), "IP")
  IN  [g2 EXCEPT !.dpreq = @ + g.nr["DP"]]

\* Leaving the index partition also clears the alt_extentlist.
NoAlt == /\ alt' = <<>>
         /\ on_ext' = IF alt = <<>> THEN on_ext ELSE on_ext - 1

KeepAlt == UNCHANGED <<alt, on_ext>>

-----------------------------------------------------------------------------
(***************************************************************************)
(* unified_write.                                                          *)
(***************************************************************************)
\* The pass w is over: a block left in spare_cache goes back, and a caller
\* that found none waits with the rest of its data.
WriteDone(c, off, buf, w) ==
  /\ f' = [w.f EXCEPT !.free = @ + w.f.spare, !.spare = 0]
  /\ pend' = [pend EXCEPT ![c] = IF w.at = "wait"
                                 THEN [Idle EXCEPT !.off = w.off, !.buf = w.buf]
                                 ELSE Idle]
  /\ content' = Overlay(content, off, SubSeq(buf, 1, Len(buf) - Len(w.buf)))
  /\ flushed' = "no"

\* Everything from write_start on, for a caller with `spare` blocks in hand.
WriteFrom(c, off, buf, spare) ==
  LET leave == f.wip /\ (off + Len(buf) > MaxIPSize \/ "IP" \in low)
      g     == IF leave THEN UnsetWriteIP(f) ELSE f
  IN  /\ IF leave THEN NoAlt ELSE KeepAlt
      /\ WriteDone(c, off, buf, WritePass([g EXCEPT !.spare = spare], off, buf))

\* A pending error of the writer thread is reported, once, by the next write.
WriteError(c) ==
  /\ write_error' = "none"
  /\ pend' = [pend EXCEPT ![c] = Idle]
  /\ UNCHANGED <<f, alt, on_ext, content, flushed>>

Write(c) ==
  /\ ~stopped /\ ~Waiting(c)
  /\ \E off \in 0..(FileMax - 1), v \in Values :
     \E n \in 1..Least(MaxWrite, FileMax - off) :
       IF write_error # "none" THEN WriteError(c)
       ELSE /\ ~ReadOnly
            /\ WriteFrom(c, off, [k \in 1..n |-> v], 0)
            /\ UNCHANGED write_error
  /\ UNCHANGED <<media, matches, local_req_list, bg, low, dev_error, stopped>>

\* _unified_cache_alloc: the waiting caller gets a block that was freed.
Grant(c) ==
  /\ Waiting(c) /\ pend[c].spare = 0 /\ f.free > 0
  /\ f' = [f EXCEPT !.free = @ - 1]
  /\ pend' = [pend EXCEPT ![c].spare = 1]
  /\ UNCHANGED <<media, alt, on_ext, matches, write_error, local_req_list, bg,
                 low, dev_error, content, flushed, stopped>>

\* It goes back to write_start.  On an error the block in spare_cache is
\* not given back.
Resume(c) ==
  /\ pend[c].spare = 1
  /\ IF write_error # "none" THEN WriteError(c)
     ELSE /\ WriteFrom(c, pend[c].off, pend[c].buf, 1)
          /\ UNCHANGED write_error
  /\ UNCHANGED <<media, matches, local_req_list, bg, low, dev_error, stopped>>

(***************************************************************************)
(* unified_truncate, which ends with ltfs_fsraw_truncate under io_lock.    *)
(***************************************************************************)
Truncate ==
  /\ ~stopped /\ ~ReadOnly /\ bg.pc # "writing"
  /\ \E len \in 0..FileMax :
       LET g     == [IF len < f.size THEN CutRequests(f, len) ELSE f
                       EXCEPT !.size = len]
           cut   == [o \in {x \in DOMAIN alt : x < len} |-> alt[o]]
           enter == ~f.wip /\ MaxIPSize > 0 /\ len = 0 /\ matches
           leave == f.wip /\ (len > MaxIPSize \/ ~matches)
       IN  /\ f' = IF enter THEN SetWriteIP(g) ELSE IF leave THEN UnsetWriteIP(g)
                   ELSE g
           /\ alt' = IF leave THEN <<>> ELSE IF len < f.size THEN cut ELSE alt
           /\ on_ext' = IF leave /\ cut # <<>> THEN on_ext - 1 ELSE on_ext
           /\ media' = Resize(media, len)
           /\ content' = Resize(content, len)
           /\ flushed' = "no"
  /\ UNCHANGED <<matches, write_error, local_req_list, bg, pend, low, dev_error,
                 stopped>>

\* A rename or an unlink, and unified_update_data_placement after it.
UpdateDataPlacement ==
  /\ CanRename /\ ~stopped
  /\ matches' = ~matches
  /\ IF ~f.wip /\ MaxIPSize > 0 /\ f.size <= MaxIPSize /\ matches'
     THEN f' = SetWriteIP(f) /\ KeepAlt
     ELSE IF f.wip /\ (f.size > MaxIPSize \/ ~matches')
     THEN f' = UnsetWriteIP(f) /\ NoAlt
     ELSE UNCHANGED f /\ KeepAlt
  /\ UNCHANGED <<media, write_error, local_req_list, bg, pend, low, dev_error,
                 content, flushed, stopped>>

-----------------------------------------------------------------------------
(***************************************************************************)
(* _unified_flush_unlocked.                                                *)
(***************************************************************************)
Dequeued(g) == RemoveAll(RemoveAll(g, "DP"), "PARTIAL")

\* What the walk d over the list leaves; its error goes to the caller.
FlushDone(d, err, mark) ==
  /\ media' = d.media
  /\ UNCHANGED write_error
  /\ IF d.failed = "none"
     THEN /\ f' = d.f
          /\ flushed' = mark
          /\ UNCHANGED <<low, dev_error, content>>
     ELSE /\ MediumAfter("DP", err)
          /\ f' = ClearRequests(d.f, TRUE, err = "fatal" \/ "IP" \in low', Len(d.media))
          /\ content' = View(f', d.media)
          /\ UNCHANGED flushed

\* All requests go to the medium now.  It waits for io_lock, unless there is
\* nothing in the list.  A flush that returns 0 leaves its mark in flushed.
FlushUnlocked(mark) ==
  IF write_error # "none"
  THEN /\ write_error' = "none"
       /\ UNCHANGED <<f, media, low, dev_error, content, flushed>>
  ELSE IF f.reqs = <<>>
  THEN /\ f' = Dequeued(f)
       /\ flushed' = mark
       /\ UNCHANGED <<media, write_error, low, dev_error, content>>
  ELSE /\ bg.pc # "writing"
       /\ \E o \in Outcomes("DP", Len(f.reqs)) :
            FlushDone(Drain(Dequeued(f), media, TRUE, TRUE, o.at), o.err, mark)

\* unified_flush of the file.
Flush ==
  /\ ~stopped
  /\ FlushUnlocked(flushed)
  /\ UNCHANGED <<alt, on_ext, matches, local_req_list, bg, pend, stopped>>

\* A mutation: files with partial requests only are not looked at.
FlushAllDP ==
  /\ ~stopped /\ bg.pc \in {"idle", "picked"}
  /\ IF f.nr["DP"] > 0
     THEN FlushUnlocked("all")
     ELSE /\ flushed' = "all"
          /\ UNCHANGED <<f, media, write_error, low, dev_error, content>>
  /\ UNCHANGED <<alt, on_ext, matches, local_req_list, bg, pend, stopped>>

\* unified_flush of everything: the files on the two queues are flushed, with
\* the writer thread kept out by the write lock on priv->lock.
FlushAll ==
  /\ ~stopped /\ bg.pc \in {"idle", "picked"}
  /\ IF f.nr["DP"] > 0 \/ f.nr["PARTIAL"] > 0
     THEN FlushUnlocked("all")
     ELSE /\ flushed' = "all"
          /\ UNCHANGED <<f, media, write_error, low, dev_error, content>>
  /\ UNCHANGED <<alt, on_ext, matches, local_req_list, bg, pend, stopped>>

-----------------------------------------------------------------------------
(***************************************************************************)
(* _unified_writer_thread.                                                 *)
(***************************************************************************)
\* A mutation: the index queue is left for unified_destroy.
ChosenQueueNotIP ==
  IF cache_requests = 0 \/ f.dpreq > 2 * cache_requests THEN "DP" ELSE "PARTIAL"

\* What the writer thread, awake, works on.
ChosenQueue ==
  IF cache_requests = 0 \/ f.dpreq > 2 * cache_requests THEN "DP"
  ELSE IF f.nr["IP"] < IPWatermark THEN "PARTIAL"
  ELSE "IP"

Pick ==
  /\ bg.pc = "idle" /\ ~stopped
  /\ f.nr["DP"] > 0 \/ cache_requests > 0
  /\ bg' = [bg EXCEPT !.pc = "picked",
                      !.queue = ChosenQueue]
  /\ UNCHANGED <<f, media, alt, on_ext, matches, write_error, local_req_list, pend,
                 low, dev_error, content, flushed, stopped>>

(***************************************************************************)
(* _unified_process_index_queue, under the write lock.                     *)
(***************************************************************************)
OnlyIP(reqs) == SelectSeq(reqs, LAMBDA r : r.state = "IP")
NotIP(reqs)  == SelectSeq(reqs, LAMBDA r : r.state # "IP")

\* IP requests, in order, to the index partition; the first n succeed.
IPWritten(n) ==
  LET ips == SubSeq(OnlyIP(f.reqs), 1, n)
      put(a, r) == [o \in DOMAIN a \cup (r.off..(End(r) - 1)) |->
                      IF o >= r.off /\ o < End(r) THEN r.data[o - r.off + 1] ELSE a[o]]
  IN  FoldLeft(put, alt, ips)

ProcessIndex(then) ==
  LET total == Len(OnlyIP(f.reqs))
      g     == RemoveAll(f, "IP")
  IN  \E o \in Outcomes("IP", total) :
        LET n   == IF o.at = 0 \/ o.at > total THEN total ELSE o.at - 1
            new == IPWritten(n)
            ips == {i \in DOMAIN f.reqs : f.reqs[i].state = "IP"}
            \* where the last successful write is in the list
            p   == IF n = 0 THEN 0
                   ELSE CHOOSE i \in ips : Cardinality({k \in ips : k <= i}) = n
            h   == [g EXCEPT !.reqs = NotIP(SubSeq(@, 1, p)) \o Drop(@, p),
                             !.free = @ + n]
        IN  /\ IF f.nr["IP"] = 0
               THEN UNCHANGED <<f, alt, on_ext, write_error, low, dev_error, content>>
               ELSE /\ alt' = new
                    /\ on_ext' = IF alt = <<>> /\ n > 0 THEN Least(2, on_ext + 1)
                                  ELSE on_ext
                    /\ IF n = total
                       THEN /\ f' = h
                            /\ UNCHANGED <<write_error, low, dev_error, content>>
                       ELSE /\ MediumAfter("IP", o.err)
                            /\ HandleError(h, media, "IP", o.err)
            /\ then

ProcessIndexQueue ==
  /\ bg.pc = "picked" /\ bg.queue = "IP"
  /\ ProcessIndex(bg' = [bg EXCEPT !.pc = "idle"])
  /\ UNCHANGED <<media, matches, local_req_list, pend, flushed, stopped>>

(***************************************************************************)
(* _unified_process_data_queue: Begin counts the queue entries, Take moves *)
(* requests to local_req_list, WriteLocal writes them, HandleLocal deals   *)
(* with a failed one.  The read lock on priv->lock is held throughout.     *)
(***************************************************************************)
Begin ==
  /\ bg.pc = "picked" /\ bg.queue # "IP"
  /\ LET queued(n) == IF n > 0 THEN 1 ELSE 0
     IN  bg' = [bg EXCEPT !.pc = "loop",
                          !.left = IF bg.queue = "DP" THEN queued(f.nr["DP"])
                                   ELSE queued(f.nr["DP"]) + queued(f.nr["PARTIAL"])]
  /\ UNCHANGED <<f, media, alt, on_ext, matches, write_error, local_req_list, pend,
                 low, dev_error, content, flushed, stopped>>

Taken(d, err) ==
  /\ media' = d.media
  /\ local_req_list' = d.local
  /\ bg' = [bg EXCEPT !.pc = IF d.local = <<>> THEN "loop" ELSE "writing",
                      !.left = @ - 1]
  /\ IF d.failed = "none"
     THEN /\ f' = d.f
          /\ UNCHANGED <<write_error, low, dev_error, content>>
     ELSE /\ MediumAfter("DP", err)
          /\ HandleError(d.f, d.media, d.failed, err)

Take ==
  /\ bg.pc = "loop"
  /\ LET partial == bg.queue = "PARTIAL" IN
     IF bg.left = 0 \/ ~(f.nr["DP"] > 0 \/ (partial /\ f.nr["PARTIAL"] > 0))
     THEN /\ bg' = [bg EXCEPT !.pc = "idle", !.left = 0]
          /\ UNCHANGED <<f, media, local_req_list, write_error, low, dev_error, content>>
     ELSE \E o \in IF f.wip THEN Outcomes("DP", Len(f.reqs))
                   ELSE {[at |-> 0, err |-> "none"]} :
            Taken(Drain(IF partial THEN Dequeued(f) ELSE RemoveAll(f, "DP"), media,
                        partial, FALSE, o.at), o.err)
  /\ UNCHANGED <<alt, on_ext, matches, pend, flushed, stopped>>

WriteLocal ==
  /\ bg.pc = "writing"
  /\ LET r == Head(local_req_list) IN
     \E o \in Outcomes("DP", 1) :
       IF o.at = 0
       THEN /\ media' = Overlay(media, r.off, r.data)
            /\ local_req_list' = Tail(local_req_list)
            /\ f' = [f EXCEPT !.free = @ + 1]
            /\ bg' = [bg EXCEPT !.pc = IF Len(local_req_list) = 1 THEN "loop" ELSE @]
            /\ UNCHANGED <<low, dev_error>>
       ELSE /\ MediumAfter("DP", o.err)
            /\ bg' = [bg EXCEPT !.pc = "failed", !.err = o.err]
            /\ UNCHANGED <<f, media, local_req_list>>
  /\ UNCHANGED <<alt, on_ext, matches, write_error, pend, content, flushed,
                 stopped>>

HandleLocal ==
  /\ bg.pc = "failed"
  /\ UNCHANGED <<low, dev_error>>
  /\ HandleError([f EXCEPT !.free = @ + Len(local_req_list)], media,
                 Head(local_req_list).state, bg.err)
  /\ local_req_list' = <<>>
  /\ bg' = [bg EXCEPT !.pc = "loop", !.err = "none"]
  /\ UNCHANGED <<media, alt, on_ext, matches, pend, flushed, stopped>>

-----------------------------------------------------------------------------
(***************************************************************************)
(* unified_destroy, with the file closed: the writer thread flushes what   *)
(* is left and writes the index partition; then the extents there replace  *)
(* those of the data partition.                                            *)
(***************************************************************************)
AltPushed(m, a) ==
  LET top == FoldLeft(LAMBDA x, o : Greatest(x, o + 1), Len(m), SetToSeq(DOMAIN a))
  IN  [k \in 1..top |-> IF k - 1 \in DOMAIN a THEN a[k - 1]
                        ELSE IF k <= Len(m) THEN m[k] ELSE 0]

Destroy ==
  /\ ~stopped /\ bg.pc = "idle" /\ \A c \in Writers : ~Waiting(c)
  /\ f.nr["DP"] = 0 /\ f.nr["PARTIAL"] = 0
  /\ ProcessIndex(media' = IF f'.wip THEN AltPushed(media, alt') ELSE media)
  /\ stopped' = TRUE
  /\ UNCHANGED <<matches, local_req_list, bg, pend, flushed>>

-----------------------------------------------------------------------------
Background ==
  Pick \/ ProcessIndexQueue \/ Begin \/ Take \/ WriteLocal \/ HandleLocal

Next ==
  \/ \E c \in Writers : Write(c) \/ Grant(c) \/ Resume(c)
  \/ Truncate \/ UpdateDataPlacement \/ Flush \/ FlushAll
  \/ Background
  \/ Destroy

Spec == Init /\ [][Next]_vars

\* Weak fairness of the writer thread, of a caller that can have a block and of
\* one that has it, written without ENABLED where that is costly to evaluate:
\* Background is enabled exactly when BackgroundReady, and nothing else changes
\* bg or local_req_list; only Resume(c) ends pend[c].spare = 1.
BackgroundReady == bg.pc = "idle" => ~stopped /\ (f.nr["DP"] > 0 \/ cache_requests > 0)

Fairness ==
  /\ []<>~BackgroundReady \/ []<><<TRUE>>_<<bg, local_req_list>>
  /\ \A c \in Writers : WF_vars(Grant(c)) /\ []<>(pend[c].spare = 0)

FairSpec == Spec /\ Fairness

-----------------------------------------------------------------------------
(***************************************************************************)
(* Properties.                                                             *)
(***************************************************************************)
Cell == Values \cup {0}
Request == [off : 0..(FileMax - 1), data : Seq(Cell), state : States]

\* Every variable has the type of its C counterpart.
TypeOK ==
  /\ f.reqs \in Seq(Request) /\ f.wip \in BOOLEAN /\ f.size \in 0..FileMax
  /\ f.nr \in [States -> Nat] /\ f.dpreq \in Nat
  /\ f.free \in 0..CacheBlocks /\ f.spare = 0
  /\ media \in Seq(Cell) /\ content \in Seq(Cell)
  /\ DOMAIN alt \subseteq 0..(FileMax - 1) /\ \A o \in DOMAIN alt : alt[o] \in Cell
  /\ on_ext \in 0..2
  /\ write_error \in {"none", "space", "fatal"}
  /\ local_req_list \in Seq(Request)
  /\ bg.pc \in {"idle", "picked", "loop", "writing", "failed"}
  /\ bg.queue \in States /\ bg.left \in 0..2
  /\ \A c \in Writers : pend[c].spare \in {0, 1} /\ pend[c].buf \in Seq(Cell)

\* unified_write keeps the requests sorted and apart, so that the order in
\* which they reach the tape does not matter ("List of write requests, sorted
\* by offset").
RequestsApart ==
  /\ \A i \in DOMAIN f.reqs : Count(f.reqs[i]) \in 1..CacheSize
  /\ \A i, k \in DOMAIN f.reqs : i < k => End(f.reqs[i]) <= f.reqs[k].off

\* _unified_update_queue_membership is called in step with every change of the
\* list: the counters that steer the writer thread are exact.
CountersExact ==
  /\ \A state \in States :
        f.nr[state] = Len(SelectSeq(f.reqs, LAMBDA r : r.state = state))
  /\ f.dpreq = IF f.wip THEN 0 ELSE f.nr["DP"]

\* Every cache block is free, in a request, or in the hands of a caller of
\* _unified_cache_alloc: none is lost by unified_write or the writer thread.
BlocksAccounted ==
  CacheBlocks = f.free + Len(f.reqs) + Len(local_req_list)
                + Cardinality({c \in Writers : pend[c].spare = 1})

\* unified_read, at every offset and for every size, returns the bytes last
\* written, wherever they are on their way to the medium, and
\* unified_get_filesize the size that goes with them.
ReadsSeeWrites ==
  ~stopped /\ bg.pc # "failed" =>
    LET m == FoldLeft(LAMBDA s, r : Overlay(s, r.off, r.data), media, local_req_list)
    IN  /\ f.size = Len(content)
        /\ \A off \in 0..(FileMax - 1) : \A n \in 1..(FileMax - off) :
              ReadFrom(f.reqs, m, off, n) = RawRead(content, off, n)

\* Requests for the index partition and extents there exist only while the
\* data placement policy asks for them.
IndexPartitionByPolicy == f.nr["IP"] > 0 \/ alt # <<>> => f.wip

\* _unified_flush_all leaves everything on the medium ("there are no
\* REQUEST_DP or REQUEST_PARTIAL requests left in the scheduler").
FlushAllForces == flushed = "all" /\ ~stopped => media = content

\* Pushing the index partition extents at unmount changes nothing of what the
\* file holds.
DestroyKeepsContent == stopped => media = content

\* A caller that waits for a cache block finishes its write once no new calls
\* get in its way (_unified_cache_alloc keeps no order): the queue the writer
\* thread picks, and the requests it may take from it, free a block in the end.
NoNewCalls == Background \/ \E c \in Writers : Grant(c) \/ Resume(c)

WaitersServed ==
  <>[][NoNewCalls]_vars => \A c \in Writers : Waiting(c) ~> ~Waiting(c)

\* The books of the scheduler, which every decision of the writer thread rests on:
\* the list, the counters and the cache blocks agree. (unified.c:1603-1705)
Bookkeeping == TypeOK /\ RequestsApart /\ CountersExact /\ BlocksAccounted

\* After a flush of everything, and after an unmount, the medium has what the
\* callers made of the file. (_unified_flush_all, unified_destroy)
MediumHoldsContent == FlushAllForces /\ DestroyKeepsContent
=============================================================================
