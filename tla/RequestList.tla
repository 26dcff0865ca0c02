---------------------------- MODULE RequestList ----------------------------
(***************************************************************************)
(* The write request list of one file in iosched/unified.c, as operators   *)
(* on a record f:                                                          *)
(*   reqs   the list: [off, data, state], data a non-empty sequence        *)
(*   wip    dpr->write_ip                                                  *)
(*   size   dpr->file_size                                                 *)
(*   nr     in_working_set, in_dp_queue, in_ip_queue, by request state     *)
(*   dpreq  priv->dp_request_count (this file is the only one)             *)
(*   free   cache blocks nobody holds                                      *)
(*   spare  blocks in the local variable spare_cache of the caller (0, 1)  *)
(* A request holds one block; a byte of the file is one cell.              *)
(***************************************************************************)
EXTENDS Integers, Sequences, SequencesExt

CONSTANT CacheSize   \* priv->cache_size, in cells

ASSUME CacheSizeAssumption == CacheSize \in Nat \ {0}

States == {"PARTIAL", "DP", "IP"}

Least(a, b)    == IF a < b THEN a ELSE b
Greatest(a, b) == IF a < b THEN b ELSE a

Count(r) == Len(r.data)
End(r)   == r.off + Count(r)
Full(r)  == Count(r) = CacheSize
Drop(s, n) == SubSeq(s, n + 1, Len(s))

\* s with the cells of buf stored from offset off on, holes filled with zero.
Overlay(s, off, buf) ==
  IF buf = <<>> THEN s ELSE
  [k \in 1..Greatest(Len(s), off + Len(buf)) |->
     IF k > off /\ k <= off + Len(buf) THEN buf[k - off]
     ELSE IF k <= Len(s) THEN s[k] ELSE 0]

-----------------------------------------------------------------------------
(***************************************************************************)
(* Counters.                                                               *)
(***************************************************************************)
\* _unified_update_queue_membership(true, ...), n times.
AddTo(f, state, n) ==
  [f EXCEPT !.nr[state] = @ + n,
            !.dpreq = IF state = "DP" /\ ~f.wip THEN @ + n ELSE @]

\* _unified_update_queue_membership(false, ...), n times: a counter that is
\* already zero stays there.
RemoveFrom(f, state, n) ==
  LET k == Least(n, f.nr[state])
  IN  [f EXCEPT !.nr[state] = @ - k,
                !.dpreq = IF state = "DP" /\ ~f.wip THEN @ - k ELSE @]

RemoveAll(f, state) == RemoveFrom(f, state, f.nr[state])

(***************************************************************************)
(* Requests and their cache blocks.                                        *)
(***************************************************************************)
Unlink(f, i) == [f EXCEPT !.reqs = RemoveAt(@, i)]

\* _unified_free_request: the block goes back to the pool.
FreeRequest(f, i) == [Unlink(f, i) EXCEPT !.free = @ + 1]

\* A mutation: the block goes to both places.
KeepBlockTwice(f, i, hasSpare) ==
  [FreeRequest(f, i) EXCEPT !.spare = IF hasSpare THEN 1 ELSE @]

\* The block goes to spare_cache when the caller has such a place and it is
\* empty, else back to the pool.
KeepBlock(f, i, hasSpare) ==
  IF hasSpare /\ f.spare = 0
  THEN [Unlink(f, i) EXCEPT !.spare = 1]
  ELSE FreeRequest(f, i)

\* The requests of the set moved, all PARTIAL, are ready to be written.
Promote(f, moved) ==
  AddTo(RemoveFrom([f EXCEPT !.reqs = [k \in DOMAIN @ |->
                      IF k \in moved THEN [@[k] EXCEPT !.state = "DP"] ELSE @[k]]],
                   "PARTIAL", Cardinality(moved)),
        "DP", Cardinality(moved))

\* _unified_update_request: a request that becomes full drags every partial
\* request at or before off into the DP state.
StoreRequest(f, i, off, new) ==
  Promote([f EXCEPT !.reqs[i] = new, !.size = Greatest(@, End(new))],
          {k \in DOMAIN f.reqs : /\ new.state = "PARTIAL" /\ Full(new)
                                 /\ f.reqs[k].state = "PARTIAL"
                                 /\ f.reqs[k].off <= off})

UpdateRequest(f, i, off, buf) ==
  LET r == f.reqs[i]
      n == Least(r.off + CacheSize - off, Len(buf))
  IN  [f |-> StoreRequest(f, i, off,
                          [r EXCEPT !.data = Overlay(@, off - r.off, SubSeq(buf, 1, n))]),
       n |-> n]

\* Request s loses the first cut bytes: those dest covers and those copied.
CutSrc(up, s, over, hasSpare) ==
  LET cut == over + up.n
      src == up.f.reqs[s]
      g   == [up.f EXCEPT !.reqs[s].off = @ + cut, !.reqs[s].data = Drop(@, cut)]
  IN  IF cut = 0 THEN [f |-> up.f, ret |-> 0]
      ELSE IF cut = Count(src)
      THEN [f |-> KeepBlock(RemoveFrom(up.f, src.state, 1), s, hasSpare), ret |-> 2]
      ELSE [f |-> IF src.state # "DP" THEN g
                  ELSE AddTo(RemoveFrom([g EXCEPT !.reqs[s].state = "PARTIAL"], "DP", 1),
                             "PARTIAL", 1),
            ret |-> 1]

\* _unified_merge_requests(dest, src): the bytes of src that dest has room for
\* move to dest if both go to the same partition, dest winning any overlap;
\* then src is cut or freed.  d = 0 stands for a NULL dest.
MergeRequests(f, d, s, hasSpare) ==
  IF d = 0 \/ f.reqs[s].off > End(f.reqs[d])
  THEN [f |-> f, ret |-> 0]
  ELSE
    LET dest  == f.reqs[d]
        src   == f.reqs[s]
        over  == End(dest) - src.off
        move  == /\ (dest.state = "IP") = (src.state = "IP")
                 /\ ~Full(dest) /\ Count(src) > over
    IN  CutSrc(IF move
               THEN UpdateRequest(f, d, src.off + over, Drop(src.data, over))
               ELSE [f |-> f, n |-> 0],
               s, Least(over, Count(src)), hasSpare)

-----------------------------------------------------------------------------
(***************************************************************************)
(* unified_write, from write_start to the end or to a wait for a block.    *)
(* A pass w is [f, off, buf, merged, at, i, prev]: buf is what is still to *)
(* be written, from offset off on; i is the current request and prev the   *)
(* last one that was neither skipped nor freed (0: none); at is the place  *)
(* in the code, "done" at the end and "wait" when there is no block.       *)
(***************************************************************************)
\* _unified_insert_new_request before position i: n = 0 means that no block
\* was to be had, and that the locks were given up to wait for one.
InsertNew(f, i, off, buf, state) ==
  IF f.spare = 0 /\ f.free = 0
  THEN [f |-> f, n |-> 0]
  ELSE LET n == Least(Len(buf), CacheSize)
           st == IF state = "IP" THEN "IP"
                 ELSE IF n = CacheSize THEN "DP" ELSE "PARTIAL"
           r == [off |-> off, data |-> SubSeq(buf, 1, n), state |-> st]
           g == IF f.spare = 1 THEN [f EXCEPT !.spare = 0]
                ELSE [f EXCEPT !.free = @ - 1]
       IN  [f |-> AddTo([g EXCEPT !.reqs = InsertAt(@, i, r),
                                  !.size = Greatest(@, End(r))], st, 1),
            n |-> n]

Consume(w, res) ==
  [w EXCEPT !.f = res.f, !.off = @ + res.n, !.buf = Drop(@, res.n)]

\* The pass after an attempt to write res.n cells into a new request.
Inserted(w, res) ==
  IF res.n = 0 THEN [w EXCEPT !.at = "wait"] ELSE Consume(w, res)

\* do_append: a write at or past the end of the last request extends it if it
\* may.
DoAppend(w) ==
  LET n == Len(w.f.reqs)
      extend == /\ ~Full(w.f.reqs[n])
                /\ End(w.f.reqs[n]) = w.off
                /\ w.f.reqs[n].state # "IP"
  IN  IF n = 0 THEN [w EXCEPT !.at = "tail"]
      ELSE IF w.off < End(w.f.reqs[n])
      THEN [w EXCEPT !.at = "loop", !.i = 1, !.prev = 0]
      ELSE IF extend
      THEN [Consume(w, UpdateRequest(w.f, n, w.off, w.buf)) EXCEPT !.at = "tail"]
      ELSE [w EXCEPT !.at = "tail"]

\* Append new requests to the end of the list.
AppendNew(w) ==
  IF w.buf = <<>> THEN [w EXCEPT !.at = "done"]
  ELSE Inserted(w, InsertNew(w.f, Len(w.f.reqs) + 1, w.off, w.buf, "NEW"))

\* The loop over the list.
Traverse(w) ==
  IF w.i > Len(w.f.reqs) THEN [w EXCEPT !.at = IF w.buf = <<>> THEN "done" ELSE "append"]
  ELSE IF w.off > End(w.f.reqs[w.i]) THEN [w EXCEPT !.i = @ + 1]
  ELSE [w EXCEPT !.at = "before"]

\* do_insert_before, then the merge of request i into the previous one.
InsertBefore(w) ==
  IF w.buf # <<>> /\ w.off < w.f.reqs[w.i].off
  THEN Inserted([w EXCEPT !.i = @ + 1, !.prev = w.i],
                InsertNew(w.f, w.i, w.off, w.buf, "NEW"))
  ELSE LET m  == MergeRequests(w.f, w.prev, w.i, TRUE)
       IN  [w EXCEPT !.f = m.f, !.merged = m.ret # 0,
                     !.at = IF m.ret = 2 THEN "loop"
                            ELSE IF w.buf # <<>> /\ w.off < m.f.reqs[w.i].off
                            THEN "before" ELSE "overlaps"]

\* Overlaps between the new write and request i; with one on its way to the
\* index partition the overlap is taken from the request.
Overlaps(w) ==
  LET r      == w.f.reqs[w.i]
      done   == w.off + Len(w.buf)
      beside == [w EXCEPT !.f.reqs[w.i].data = SubSeq(@, 1, w.off - r.off)]
  IN
  IF w.buf # <<>> /\ r.state = "IP" /\ w.off < End(r)
  THEN IF w.off = r.off /\ done >= End(r)          \* remove
       THEN [w EXCEPT !.f = KeepBlock(RemoveFrom(w.f, "IP", 1), w.i, TRUE),
                      !.at = "loop"]
       ELSE IF w.off = r.off                       \* cut at the beginning
       THEN [w EXCEPT !.f.reqs[w.i].off = done,
                      !.f.reqs[w.i].data = Drop(@, Len(w.buf)), !.at = "before"]
       ELSE IF done >= End(r)                      \* cut at the end
       THEN [beside EXCEPT !.at = "next"]
       ELSE LET res == InsertNew(w.f, w.i + 1, done,  \* split
                                 Drop(r.data, done - r.off), "IP")
            IN  IF res.n = 0 THEN [w EXCEPT !.at = "wait"]
                ELSE [w EXCEPT !.f = [res.f EXCEPT !.reqs[w.i].data =
                                        SubSeq(@, 1, w.off - r.off)],
                               !.at = "before", !.i = @ + 1, !.prev = w.i]
  ELSE IF w.buf # <<>> /\ r.state # "IP"
          /\ (w.off < End(r) \/ (w.off = End(r) /\ ~Full(r)))
  THEN [Consume(w, UpdateRequest(w.f, w.i, w.off, w.buf)) EXCEPT !.merged = TRUE,
                                                                 !.at = "next"]
  ELSE [w EXCEPT !.at = "next"]

NextRequest(w) ==
  IF w.buf = <<>> /\ ~w.merged THEN [w EXCEPT !.at = "done"]
  ELSE [w EXCEPT !.at = "loop", !.i = @ + 1, !.prev = w.i]

RECURSIVE Pass(_)
Pass(w) ==
  IF w.at \in {"done", "wait"} THEN w
  ELSE Pass(CASE w.at = "append"   -> DoAppend(w)
              [] w.at = "tail"     -> AppendNew(w)
              [] w.at = "loop"     -> Traverse(w)
              [] w.at = "before"   -> InsertBefore(w)
              [] w.at = "overlaps" -> Overlaps(w)
              [] w.at = "next"     -> NextRequest(w))

WritePass(f, off, buf) ==
  Pass([f |-> f, off |-> off, buf |-> buf, merged |-> FALSE, at |-> "append",
        i |-> 1, prev |-> 0])

-----------------------------------------------------------------------------
(***************************************************************************)
(* unified_read: cells of the requests, and of the medium where no request *)
(* has them.                                                               *)
(***************************************************************************)
\* ltfs_fsraw_read: at most n cells of the medium.
RawRead(media, off, n) == SubSeq(media, off + 1, Least(off + n, Len(media)))

\* A mutation: no zeros.
HoleReadShort(media, off, n) == RawRead(media, off, n)

\* A hole before a request reads as zeros past the end of the medium.
HoleRead(media, off, n) ==
  LET s == RawRead(media, off, n) IN s \o [k \in 1..(n - Len(s)) |-> 0]

RECURSIVE ReadFrom(_, _, _, _)
ReadFrom(reqs, media, off, size) ==
  IF size = 0 THEN <<>>
  ELSE IF reqs = <<>> THEN RawRead(media, off, size)
  ELSE LET r    == Head(reqs)
           gap  == IF off < r.off THEN Least(r.off - off, size) ELSE 0
           from == off + gap
           n    == IF from < End(r) THEN Least(End(r) - from, size - gap) ELSE 0
       IN  HoleRead(media, off, gap)
           \o SubSeq(r.data, from - r.off + 1, from - r.off + n)
           \o ReadFrom(Tail(reqs), media, from + n, size - gap - n)

(***************************************************************************)
(* The walk over the list of _unified_flush_unlocked (sync) and of         *)
(* _unified_process_data_queue: the requests ready for the data partition  *)
(* are written here and now, or moved to local.  d is [f, media, local,    *)
(* failed, i, left]; write number left fails (0: none does).               *)
(***************************************************************************)
DrainOne(d, partial, sync) ==
  LET r       == d.f.reqs[d.i]
      ready   == r.state = "DP" \/ (r.state = "PARTIAL" /\ partial)
      move    == ready /\ ~sync /\ ~d.f.wip
      written == [d EXCEPT !.media = Overlay(@, r.off, r.data), !.left = @ - 1]
      \* a request kept for the index partition is merged into the one before
      here    == IF ready
                 THEN [written EXCEPT !.f = AddTo([@ EXCEPT !.reqs[d.i].state = "IP"],
                                                  "IP", 1)]
                 ELSE d
      m       == MergeRequests(here.f, d.i - 1, d.i, FALSE)
  IN  IF move
      THEN [d EXCEPT !.f = Unlink(@, d.i), !.local = Append(@, r)]
      ELSE IF ready /\ d.left = 1 THEN [d EXCEPT !.failed = r.state]
      ELSE IF ready /\ ~d.f.wip
      THEN [written EXCEPT !.f = FreeRequest(@, d.i)]
      ELSE IF ready \/ r.state = "IP"
      THEN [here EXCEPT !.f = m.f, !.i = IF m.ret = 2 THEN @ ELSE @ + 1]
      ELSE [d EXCEPT !.i = @ + 1]

RECURSIVE DrainFrom(_, _, _)
DrainFrom(d, partial, sync) ==
  IF d.i > Len(d.f.reqs) \/ d.failed # "none" THEN d
  ELSE DrainFrom(DrainOne(d, partial, sync), partial, sync)

Drain(f, media, partial, sync, left) ==
  DrainFrom([f |-> f, media |-> media, local |-> <<>>, failed |-> "none",
             i |-> 1, left |-> left], partial, sync)

\* Free the requests that Keep does not select.
Select(f, Keep(_)) ==
  LET kept == SelectSeq(f.reqs, Keep)
  IN  [f EXCEPT !.reqs = kept, !.free = @ + Len(f.reqs) - Len(kept)]

\* The list part of _unified_handle_write_error; size is the file size known
\* to libltfs.
ClearRequests(f, clearDP, clearIP, size) ==
  LET keep(r) == IF r.state = "IP" THEN ~clearIP ELSE ~clearDP
      f1 == IF clearDP THEN RemoveAll(RemoveAll(f, "DP"), "PARTIAL") ELSE f
      f2 == IF clearIP THEN RemoveAll(f1, "IP") ELSE f1
      f3 == IF f.reqs = <<>> THEN f ELSE Select(f2, keep)
  IN  [f3 EXCEPT !.size = FoldLeft(LAMBDA a, r : Greatest(a, End(r)), size, f3.reqs)]

\* The list part of unified_truncate: from the end of the list, up to the
\* first request that lies before the new end.
CutRequests(f, len) ==
  LET whole == {i \in DOMAIN f.reqs : End(f.reqs[i]) <= len}
      last  == IF whole = {} THEN 0 ELSE CHOOSE i \in whole : \A k \in whole : k <= i
      gone  == {i \in DOMAIN f.reqs : i > last /\ f.reqs[i].off >= len}
      cut(r) == IF End(r) > len THEN [r EXCEPT !.data = SubSeq(@, 1, len - r.off)]
                ELSE r
      list  == [i \in 1..(Len(f.reqs) - Cardinality(gone)) |->
                  IF i <= last THEN f.reqs[i] ELSE cut(f.reqs[i])]
      nr(state) == Cardinality({i \in gone : f.reqs[i].state = state})
      f1 == [f EXCEPT !.reqs = list, !.free = @ + Cardinality(gone)]
  IN  FoldLeft(LAMBDA g, state : RemoveFrom(g, state, nr(state)), f1,
               <<"PARTIAL", "DP", "IP">>)
============================================================================
