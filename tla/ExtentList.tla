----------------------------- MODULE ExtentList -----------------------------
(***************************************************************************)
(* The extents of one file: d->extentlist as libltfs keeps it              *)
(* (ltfs_fsops_raw.c) and dpr->alt_extentlist of the unified scheduler,    *)
(* the extents in the index partition that replace the others at unmount.  *)
(* A byte on tape is named by its address <<partition, block, byte>>; what *)
(* it holds is left out.                                                   *)
(***************************************************************************)
EXTENDS Integers, FiniteSets, SequencesExt

CONSTANTS
  BytesPerBlock,  \* vol->label->blocksize
  FileMax,      \* bound: bytes in the file
  MaxCount,     \* bound: bytes in one write
  MaxBlock      \* bound: blocks in each partition

Partitions == {"IP", "DP"}

ASSUME ListAssumption ==
  /\ BytesPerBlock \in Nat \ {0} /\ FileMax \in Nat /\ MaxCount \in Nat
  /\ MaxBlock \in [Partitions -> Nat]

VARIABLES
  extentlist,       \* d->extentlist
  size,             \* d->size
  realsize,         \* d->realsize
  alt_extentlist,   \* dpr->alt_extentlist
  append_pos,       \* dev->append_pos: the next block of each partition
  where,            \* where each byte of the file was last written, or Hole
  altwhere          \* the same for the index partition, a partial function

listVars == <<extentlist, size, realsize, alt_extentlist, append_pos, where, altwhere>>

Hole == <<>>

Least(a, b) == IF a < b THEN a ELSE b
EndOf(x) == x.fileoffset + x.bytecount

-----------------------------------------------------------------------------
(***************************************************************************)
(* One extent.                                                             *)
(***************************************************************************)
\* The address of the byte at offset o of the file.
Address(x, o) ==
  LET b == o - x.fileoffset + x.byteoffset
  IN  <<x.partition, x.block + b \div BytesPerBlock, b % BytesPerBlock>>

\* What is left of x from offset o on, and before it.
CutFront(x, o) ==
  LET mod == o - x.fileoffset + x.byteoffset
  IN  [x EXCEPT !.block = @ + mod \div BytesPerBlock, !.byteoffset = mod % BytesPerBlock,
                !.fileoffset = o, !.bytecount = EndOf(x) - o]

CutEnd(x, o) == [x EXCEPT !.bytecount = o - x.fileoffset]

\* y starts in the block after the last one of x, which is full.
Follows(x, y) ==
  LET last == x.byteoffset + x.bytecount
  IN  /\ y.fileoffset = EndOf(x)
      /\ y.partition = x.partition /\ y.byteoffset = 0
      /\ last % BytesPerBlock = 0 /\ y.block = x.block + last \div BytesPerBlock

Joined(x, y) == [x EXCEPT !.bytecount = @ + y.bytecount]

-----------------------------------------------------------------------------
(***************************************************************************)
(* _ltfs_fsraw_add_extent_unlocked: x displaces what it overlaps, and then *)
(* joins the extent before it or is inserted after that.                   *)
(***************************************************************************)
\* Lists are in order of fileoffset, so these are the first entries of one.
Starting(list, o) == Cardinality({i \in DOMAIN list : list[i].fileoffset < o})
Ending(list, o) == Cardinality({i \in DOMAIN list : EndOf(list[i]) <= o})

\* What is left of the entries that start before o; of those that end behind it.
CutList(list, o) ==
  [i \in 1..Starting(list, o) |-> CutEnd(list[i], Least(EndOf(list[i]), o))]

Before(list, x) == CutList(list, x.fileoffset)

\* A mutation: an extent that sticks out of x is not cut.
AfterUncut(list, x) ==
  LET n == Ending(list, EndOf(x)) IN [i \in 1..Len(list) - n |-> list[n + i]]

After(list, x) ==
  LET n == Ending(list, EndOf(x))
      cut(e) == IF e.fileoffset < EndOf(x) THEN CutFront(e, EndOf(x)) ELSE e
  IN  [i \in 1..Len(list) - n |-> cut(list[n + i])]

Bytes(list) ==
  LET sum[i \in 0..Len(list)] == IF i = 0 THEN 0 ELSE sum[i - 1] + list[i].bytecount
  IN  sum[Len(list)]

\* The number of bytes that realsize_new loses on the way.
Displaced(list, x) == Bytes(list) - Bytes(Before(list, x)) - Bytes(After(list, x))

AddExtent(list, x) ==
  LET before == Before(list, x)
  IN  (IF before # <<>> /\ Follows(Last(before), x)
       THEN Front(before) \o <<Joined(Last(before), x)>>
       ELSE Append(before, x))
      \o After(list, x)

(***************************************************************************)
(* _unified_update_alt_extentlist, entry by entry; acc is [out, used].     *)
(* An entry that contains x stays as it is, and x comes after it.          *)
(***************************************************************************)
AltStep(acc, e, x) ==
  LET a == IF ~acc.used /\ x.fileoffset <= e.fileoffset
           THEN [out |-> Append(acc.out, x), used |-> TRUE] ELSE acc
      put(y) == [out |-> Append(a.out, y), used |-> a.used]
  IN  CASE EndOf(e) < x.fileoffset -> put(e)
        [] EndOf(e) = x.fileoffset ->
             IF Follows(e, x) THEN [out |-> Append(a.out, Joined(e, x)), used |-> TRUE] ELSE put(e)
        [] EndOf(e) > x.fileoffset /\ e.fileoffset < x.fileoffset ->
             put(IF EndOf(e) <= EndOf(x) THEN CutEnd(e, x.fileoffset) ELSE e)
        [] e.fileoffset >= x.fileoffset /\ EndOf(e) <= EndOf(x) -> a
        [] e.fileoffset >= x.fileoffset /\ EndOf(e) > EndOf(x) ->
             put(IF e.fileoffset < EndOf(x) THEN CutFront(e, EndOf(x)) ELSE e)

UpdateAlt(list, x) ==
  LET acc[i \in 0..Len(list)] == IF i = 0 THEN [out |-> <<>>, used |-> FALSE]
                                 ELSE AltStep(acc[i - 1], list[i], x)
      r == acc[Len(list)]
  IN  IF r.used THEN r.out ELSE Append(r.out, x)

(***************************************************************************)
(* ltfs_fsraw_read: the addresses it reads, Hole where it fills in zeros.  *)
(***************************************************************************)
ReadStep(acc, e, last) ==
  LET hole == IF acc.next < e.fileoffset THEN Least(e.fileoffset, last) - acc.next ELSE 0
      from == acc.next + hole
      n    == IF EndOf(e) > from THEN Least(EndOf(e), last) - from ELSE 0
  IN  IF acc.next = last THEN acc
      ELSE [next |-> from + n,
            out |-> acc.out \o [k \in 1..hole |-> Hole]
                            \o [k \in 1..n |-> Address(e, from + k - 1)]]

Read(list, sz, off, count) ==
  LET last == off + count
      acc[i \in 0..Len(list)] == IF i = 0 THEN [next |-> off, out |-> <<>>]
                                 ELSE ReadStep(acc[i - 1], list[i], last)
      r    == acc[Len(list)]
      tail == IF r.next < sz THEN Least(last, sz) - r.next ELSE 0
  IN  r.out \o [k \in 1..tail |-> Hole]

(***************************************************************************)
(* _xml_parse_one_extent: an extent of an index goes after the last one    *)
(* that ends before it; "error" when it overlaps another.                  *)
(***************************************************************************)
Parse(list, x) ==
  LET n == Ending(list, x.fileoffset)
  IN  IF \E i \in (n + 1)..Len(list) : EndOf(x) > list[i].fileoffset
      THEN [ok |-> FALSE, list |-> list]
      ELSE [ok |-> TRUE, list |-> InsertAt(list, n + 1, x)]

ParseAll(list) ==
  LET r[i \in 0..Len(list)] == IF i = 0 THEN [ok |-> TRUE, list |-> <<>>]
                               ELSE IF r[i - 1].ok THEN Parse(r[i - 1].list, list[i])
                               ELSE r[i - 1]
  IN  r[Len(list)]

-----------------------------------------------------------------------------
ListInit ==
  /\ extentlist = <<>> /\ size = 0 /\ realsize = 0
  /\ alt_extentlist = <<>>
  /\ append_pos = [p \in Partitions |-> 0]
  /\ where = <<>> /\ altwhere = <<>>

BlocksOf(count) == (count + BytesPerBlock - 1) \div BytesPerBlock

NewExtent(p, off, count) ==
  [partition |-> p, block |-> append_pos[p], byteoffset |-> 0,
   fileoffset |-> off, bytecount |-> count]

\* where, after the bytes of x have been put at its offsets.
Placed(w, x) ==
  [o \in DOMAIN w \cup 0..(EndOf(x) - 1) |->
     IF o >= x.fileoffset /\ o < EndOf(x) THEN Address(x, o)
     ELSE IF o \in DOMAIN w THEN w[o] ELSE Hole]

AltPlaced(w, x) ==
  [o \in DOMAIN w \cup (x.fileoffset..(EndOf(x) - 1)) |->
     IF o >= x.fileoffset /\ o < EndOf(x) THEN Address(x, o) ELSE w[o]]

\* Blocks of other files, of an index, or of a write that failed half way.
Elsewhere(p) ==
  /\ append_pos[p] < MaxBlock[p]
  /\ append_pos' = [append_pos EXCEPT ![p] = @ + 1]
  /\ UNCHANGED <<extentlist, size, realsize, alt_extentlist, where, altwhere>>

\* ltfs_fsraw_write to the data partition.
WriteDP(off, count) ==
  LET x == NewExtent("DP", off, count) IN
  /\ append_pos["DP"] + BlocksOf(count) <= MaxBlock["DP"]
  /\ append_pos' = [append_pos EXCEPT !["DP"] = @ + BlocksOf(count)]
  /\ extentlist' = AddExtent(extentlist, x)
  /\ size' = IF EndOf(x) > size THEN EndOf(x) ELSE size
  /\ realsize' = realsize - Displaced(extentlist, x) + count
  /\ where' = Placed(where, x)
  /\ UNCHANGED <<alt_extentlist, altwhere>>

\* A request of _unified_process_index_queue: ltfs_fsraw_write_data, and the
\* extent is kept in the scheduler.
WriteIP(off, count) ==
  LET x == NewExtent("IP", off, count) IN
  /\ append_pos["IP"] + BlocksOf(count) <= MaxBlock["IP"]
  /\ append_pos' = [append_pos EXCEPT !["IP"] = @ + BlocksOf(count)]
  /\ alt_extentlist' = UpdateAlt(alt_extentlist, x)
  /\ altwhere' = AltPlaced(altwhere, x)
  /\ UNCHANGED <<extentlist, size, realsize, where>>

\* unified_truncate, with ltfs_fsraw_truncate at its end.
TruncateTo(len) ==
  LET cut == IF len < size THEN CutList(extentlist, len) ELSE extentlist IN
  /\ alt_extentlist' = CutList(alt_extentlist, len)
  /\ altwhere' = [o \in {q \in DOMAIN altwhere : q < len} |-> altwhere[o]]
  /\ extentlist' = cut
  /\ size' = len
  /\ realsize' = realsize - (Bytes(extentlist) - Bytes(cut))
  /\ where' = [o \in 0..(len - 1) |-> IF o \in DOMAIN where THEN where[o] ELSE Hole]
  /\ UNCHANGED append_pos

\* _unified_clear_alt_extentlist(true): every extent, in order, through
\* ltfs_fsraw_add_extent.
Push ==
  /\ alt_extentlist # <<>>
  /\ LET push(r, x) == [list |-> AddExtent(r.list, x),
                        size |-> IF EndOf(x) > r.size THEN EndOf(x) ELSE r.size,
                        real |-> r.real - Displaced(r.list, x) + x.bytecount]
         acc[i \in 0..Len(alt_extentlist)] ==
           IF i = 0 THEN [list |-> extentlist, size |-> size, real |-> realsize]
           ELSE push(acc[i - 1], alt_extentlist[i])
         r == acc[Len(alt_extentlist)]
     IN  extentlist' = r.list /\ size' = r.size /\ realsize' = r.real
  /\ where' = [o \in DOMAIN where \cup UNION {0..p : p \in DOMAIN altwhere} |->
                 IF o \in DOMAIN altwhere THEN altwhere[o]
                 ELSE IF o \in DOMAIN where THEN where[o] ELSE Hole]
  /\ alt_extentlist' = <<>> /\ altwhere' = <<>>
  /\ UNCHANGED append_pos

\* _unified_clear_alt_extentlist(false).
Discard ==
  /\ alt_extentlist # <<>>
  /\ alt_extentlist' = <<>> /\ altwhere' = <<>>
  /\ UNCHANGED <<extentlist, size, realsize, append_pos, where>>

ListNext ==
  \/ \E off \in 0..(FileMax - 1) : \E count \in 1..Least(MaxCount, FileMax - off) :
       WriteDP(off, count) \/ WriteIP(off, count)
  \/ \E p \in Partitions : Elsewhere(p)
  \/ \E len \in 0..FileMax : TruncateTo(len)
  \/ Push \/ Discard

ListSpec == ListInit /\ [][ListNext]_listVars

-----------------------------------------------------------------------------
Extent ==
  [partition : Partitions, block : Nat, byteoffset : 0..(BytesPerBlock - 1),
   fileoffset : 0..(FileMax - 1), bytecount : 1..FileMax]

\* The type invariant of the extents and sizes: in particular no extent is
\* empty, and byteoffset stays within a block when an extent is cut.
ListTypes ==
  /\ extentlist \in Seq(Extent) /\ alt_extentlist \in Seq(Extent)
  /\ size \in 0..FileMax /\ realsize \in 0..FileMax
  /\ append_pos \in [Partitions -> Nat]

\* ltfs_fsraw_read, at any offset and for any count, finds each byte where it
\* was last written: an extent that was cut, split or joined still names the
\* right block and byte.
ReadsFindBytes ==
  \A off \in 0..size : \A count \in 1..(FileMax - off + 1) :
    Read(extentlist, size, off, count) =
      [k \in 1..(Least(off + count, size) - off) |-> where[off + k - 1]]

\* The extent list that goes into an index is one that the reader of indexes
\* takes back as it is: sorted, apart and within the file.
ParsesBack ==
  /\ ParseAll(extentlist) = [ok |-> TRUE, list |-> extentlist]
  /\ extentlist # <<>> => EndOf(Last(extentlist)) <= size

\* d->realsize, kept by increments in add_extent and truncate, is the number of
\* bytes in the extents.
RealsizeExact == realsize = Bytes(extentlist)

\* In _unified_update_alt_extentlist an extent inside an older one is put after
\* it without splitting it, "which maintains correctness": later in the list
\* means written later, wherever two entries overlap.
AltListCorrect ==
  LET covers(i, o) == o >= alt_extentlist[i].fileoffset /\ o < EndOf(alt_extentlist[i])
      of(o) == {i \in DOMAIN alt_extentlist : covers(i, o)}
  IN  \A o \in 0..(FileMax - 1) :
        IF o \in DOMAIN altwhere
        THEN /\ of(o) # {}
             /\ LET i == CHOOSE i \in of(o) : \A k \in of(o) : k <= i
                IN  Address(alt_extentlist[i], o) = altwhere[o]
        ELSE of(o) = {}

\* Both lists of a file say where its bytes are, before and after the index was
\* written and read, and realsize counts them. (ltfs_fsops_raw.c:311-444)
ListsExact == ListTypes /\ ReadsFindBytes /\ ParsesBack /\ RealsizeExact /\ AltListCorrect
=============================================================================
