------------------------------ MODULE IndexXml -------------------------------
(***************************************************************************)
(* The index as a document.  The writer turns the index in memory into a    *)
(* tree of elements; the reader checks such a tree and builds the index.    *)
(* A volume alternates between the two: an index is read at mount, changed, *)
(* and written; the document may come from older software or another        *)
(* implementation.                                                          *)
(*                                                                          *)
(* An element is [tag, val]; val is a token, a number or a sequence of      *)
(* elements.  The reader works one level at a time in the same way: no      *)
(* known tag twice, no required tag missing, unknown tags kept (index,      *)
(* directory, file) or skipped (elsewhere).  creationtime stands for the    *)
(* four times that are treated alike, and the writer's order of elements is *)
(* assumed where it matters: fileuid before contents.                       *)
(***************************************************************************)
EXTENDS Integers, Sequences, SequencesExt, FiniteSets

CONSTANTS FileNames,    \* names of files and directories
          StartIndices, \* indices the first document is made from
          MaxSaves      \* bound: how often the index is written

VARIABLES doc,    \* [old, elems]: the document on tape
          idx,    \* the index in memory, or NoIndex
          saved,  \* the index the document was written from, or NoIndex
          saves
vars == <<doc, idx, saved, saves>>

NoIndex == [none |-> TRUE]
Bad == [ok |-> FALSE]

Elem(tag, val) == [tag |-> tag, val |-> val]
Has(kids, tag) == \E i \in DOMAIN kids : kids[i].tag = tag
Val(kids, tag) == kids[CHOOSE i \in DOMAIN kids : kids[i].tag = tag].val
Optional(kids, tag, default) == IF Has(kids, tag) THEN Val(kids, tag) ELSE default
Others(kids, known) == SelectSeq(kids, LAMBDA e : e.tag \notin known)

(* The tracking arrays of the parsers: required and optional tags.          *)
TagsOk(kids, required, optional) ==
  /\ \A t \in required : Has(kids, t)
  /\ \A i, j \in DOMAIN kids : i # j /\ kids[i].tag = kids[j].tag => kids[i].tag \notin required \cup optional

-----------------------------------------------------------------------------
(* Extents: kept in file order, disjoint; before version 2.0.0 a document   *)
(* has no fileoffset and each extent follows the one before.                *)
ExtentTags == {"partition", "startblock", "byteoffset", "bytecount"}
End(x) == x.at + x.len

Insert(xts, x) ==
  LET before == {i \in DOMAIN xts : End(xts[i]) <= x.at}
      p == IF before = {} THEN 0 ELSE CHOOSE i \in before : \A j \in before : j <= i
  IN  IF \E i \in DOMAIN xts : i > p /\ End(x) > xts[i].at THEN <<>>
      ELSE SubSeq(xts, 1, p) \o <<x>> \o SubSeq(xts, p + 1, Len(xts))

ReadExtent(kids, old, xts) ==
  [at |-> IF ~old THEN Val(kids, "fileoffset") ELSE IF xts = <<>> THEN 0 ELSE End(Last(xts)),
   len |-> Val(kids, "bytecount")]

ReadExtents(elems, old) ==
  FoldLeft(LAMBDA acc, e :
    LET required == ExtentTags \cup (IF old THEN {} ELSE {"fileoffset"})
    IN  IF e.tag # "extent" \/ acc = Bad THEN acc
        ELSE IF ~TagsOk(e.val, required, {}) THEN Bad
        ELSE LET xts == Insert(acc.xts, ReadExtent(e.val, old, acc.xts))
             IN  IF xts = <<>> THEN Bad ELSE [acc EXCEPT !.xts = xts],
    [ok |-> TRUE, xts |-> <<>>], elems)

WriteExtents(xts) ==
  [i \in DOMAIN xts |-> Elem("extent", <<Elem("fileoffset", xts[i].at), Elem("partition", "b"), Elem("startblock", 4),
                                         Elem("byteoffset", 0), Elem("bytecount", xts[i].len)>>)]

(* Extended attributes: each needs a key and a value.                       *)
ReadXattrs(elems) ==
  FoldLeft(LAMBDA acc, e :
    IF e.tag # "xattr" \/ acc = Bad THEN acc
    ELSE IF ~TagsOk(e.val, {"key", "value"}, {}) THEN Bad
    ELSE [acc EXCEPT !.xattrs = Append(@, [key |-> Val(e.val, "key"), value |-> Val(e.val, "value")])],
    [ok |-> TRUE, xattrs |-> <<>>], elems)

WriteXattrs(xattrs) ==
  IF xattrs = <<>> THEN <<>>
  ELSE <<Elem("extendedattributes",
         [i \in DOMAIN xattrs |-> Elem("xattr", <<Elem("key", xattrs[i].key), Elem("value", xattrs[i].value)>>)])>>

-----------------------------------------------------------------------------
(* Directory entries.  The reader takes a uid for every entry but the root  *)
(* when it allocates it (fs_allocate_dentry); the document's own fileuid    *)
(* replaces it and raises the counter.  Before 2.0.0 there is no fileuid:   *)
(* a second uid is taken.                                                   *)
MaxOf(a, b) == IF a >= b THEN a ELSE b
EntryTags == {"name", "readonly", "creationtime"}
Dated(old) == IF old THEN {} ELSE {"fileuid", "backuptime"}
Ignored == {"fileuid", "backuptime"}

Uid(kids, old, next) == IF old THEN next + 2 ELSE Val(kids, "fileuid")
NextUid(kids, old, next) == IF old THEN next + 2 ELSE MaxOf(next + 1, Val(kids, "fileuid"))

Entry(kids, old, next) ==
  [name |-> Val(kids, "name"), ro |-> Val(kids, "readonly"), uid |-> Uid(kids, old, next),
   created |-> Val(kids, "creationtime"),
   backup |-> IF old THEN Val(kids, "creationtime") ELSE Val(kids, "backuptime")]

FileTags == EntryTags \cup {"length"}
FileOptional == {"openforwrite", "extendedattributes", "extentinfo", "symlink"}

\* The dentry of a file, from its common elements, extents and attributes.
FileOf(kids, e, x, a, nextUid) ==
  IF x = Bad \/ a = Bad THEN Bad
  ELSE IF (x.xts # <<>> /\ End(Last(x.xts)) > Val(kids, "length")) \/ e.uid = 0 THEN Bad
  ELSE [ok |-> TRUE, next |-> nextUid,
        conflicts |-> IF Has(kids, "symlink") /\ Has(kids, "extentinfo") THEN 1 ELSE 0,
        d |-> [kind |-> "file", name |-> e.name, ro |-> e.ro, uid |-> e.uid, created |-> e.created,
               backup |-> e.backup, xattrs |-> a.xattrs, kids |-> <<>>,
               size |-> Val(kids, "length"), open |-> Optional(kids, "openforwrite", FALSE), xts |-> x.xts,
               link |-> Optional(kids, "symlink", ""),
               extra |-> Others(kids, FileTags \cup FileOptional \cup Ignored)]]

ReadFile(kids, old, next) ==
  IF ~TagsOk(kids, FileTags \cup Dated(old), FileOptional) THEN Bad
  ELSE FileOf(kids, Entry(kids, old, next), ReadExtents(Optional(kids, "extentinfo", <<>>), old),
              ReadXattrs(Optional(kids, "extendedattributes", <<>>)), NextUid(kids, old, next))

DirTags == EntryTags \cup {"contents"}
DirOptional == {"extendedattributes"}

\* The dentry of a directory, from its common elements, contents and attributes.
DirOf(kids, e, uid, c, a, isRoot) ==
  IF c = Bad \/ a = Bad THEN Bad
  ELSE IF (isRoot # (uid = 1)) \/ uid = 0 THEN Bad
  ELSE [ok |-> TRUE, next |-> c.next, conflicts |-> c.conflicts,
        d |-> [kind |-> "dir", name |-> e.name, ro |-> e.ro, uid |-> uid, created |-> e.created,
               backup |-> e.backup, xattrs |-> a.xattrs, kids |-> c.kids,
               size |-> 0, open |-> FALSE, xts |-> <<>>, link |-> "",
               extra |-> Others(kids, DirTags \cup DirOptional \cup Ignored)]]

\* The contents so far, and an entry read after them.
With(acc, r) ==
  IF r = Bad THEN Bad
  ELSE [acc EXCEPT !.next = r.next, !.conflicts = @ + r.conflicts, !.kids = Append(@, r.d)]

RECURSIVE ReadDir(_, _, _, _), ReadContents(_, _, _)
ReadContents(elems, old, next) ==
  FoldLeft(LAMBDA acc, e :
    IF acc = Bad \/ e.tag \notin {"file", "directory"} THEN acc
    ELSE With(acc, IF e.tag = "file" THEN ReadFile(e.val, old, acc.next) ELSE ReadDir(e.val, old, acc.next, FALSE)),
    [ok |-> TRUE, next |-> next, conflicts |-> 0, kids |-> <<>>], elems)

ReadDir(kids, old, next, isRoot) ==
  IF ~TagsOk(kids, DirTags \cup Dated(old), DirOptional) THEN Bad
  ELSE LET uid == IF isRoot /\ old THEN 1 ELSE Uid(kids, old, next)
           start == IF ~isRoot THEN NextUid(kids, old, next) ELSE IF old THEN next ELSE MaxOf(next, uid)
       IN  DirOf(kids, Entry(kids, old, next), uid, ReadContents(Val(kids, "contents"), old, start),
                 ReadXattrs(Optional(kids, "extendedattributes", <<>>)), isRoot)

\* A mutation: the foreign elements of a file are not written back.
KeptOfDirectories(d) == IF d.kind = "file" THEN <<>> ELSE d.extra

(* The elements the reader did not know and preserved.                      *)
Kept(d) == d.extra

(* The writer: children in the order of their uids, unknown tags last.      *)
WriteTimes(d) == <<Elem("creationtime", d.created), Elem("backuptime", d.backup)>>

WriteEntry(d) ==
  <<Elem("name", d.name), Elem("readonly", d.ro)>> \o WriteTimes(d) \o <<Elem("fileuid", d.uid)>> \o WriteXattrs(d.xattrs)

WriteFile(d) ==
  Elem("file",
    WriteEntry(d) \o <<Elem("length", d.size)>>
      \o (IF d.open /\ d.link = "" THEN <<Elem("openforwrite", TRUE)>> ELSE <<>>)
      \o (IF d.link # "" THEN <<Elem("symlink", d.link)>>
          ELSE IF d.xts # <<>> THEN <<Elem("extentinfo", WriteExtents(d.xts))>> ELSE <<>>)
      \o Kept(d))

RECURSIVE WriteDir(_)
WriteDir(d) ==
  LET sorted == SortSeq(d.kids, LAMBDA a, b : a.uid < b.uid)
  IN  Elem("directory",
        WriteEntry(d) \o <<Elem("contents", [i \in DOMAIN sorted |->
                             IF sorted[i].kind = "dir" THEN WriteDir(sorted[i]) ELSE WriteFile(sorted[i])])>> \o Kept(d))

-----------------------------------------------------------------------------
(* The whole index.                                                         *)
IndexTags == {"creator", "volumeuuid", "generationnumber", "updatetime", "location", "allowpolicyupdate", "directory"}
IndexOptional == {"previousgenerationlocation", "dataplacementpolicy", "comment", "volumelockstate"}

IndexOf(kids, r) ==
  IF r = Bad THEN Bad
  ELSE [ok |-> TRUE, conflicts |-> r.conflicts,
        idx |-> [gen |-> Val(kids, "generationnumber"), self |-> Val(kids, "location"),
                 back |-> Optional(kids, "previousgenerationlocation", 0),
                 allow |-> Val(kids, "allowpolicyupdate"), policy |-> Optional(kids, "dataplacementpolicy", ""),
                 comment |-> Optional(kids, "comment", ""), lock |-> Optional(kids, "volumelockstate", ""),
                 next |-> r.next, root |-> r.d,
                 extra |-> Others(kids, IndexTags \cup IndexOptional \cup {"highestfileuid"})]]

ReadSchema(d) ==
  IF ~TagsOk(d.elems, IndexTags \cup (IF d.old THEN {} ELSE {"highestfileuid"}), IndexOptional) THEN Bad
  ELSE IndexOf(d.elems, ReadDir(Val(d.elems, "directory"), d.old,
                                IF d.old THEN 1 ELSE MaxOf(1, Val(d.elems, "highestfileuid")), TRUE))

WriteOptional(tag, val, none) == IF val = none THEN <<>> ELSE <<Elem(tag, val)>>

WriteSchema(x) ==
  [old |-> FALSE,
   elems |-> <<Elem("creator", "ltfs")>> \o WriteOptional("comment", x.comment, "")
     \o <<Elem("volumeuuid", "uuid"), Elem("generationnumber", x.gen), Elem("updatetime", "t"), Elem("location", x.self)>>
     \o WriteOptional("previousgenerationlocation", x.back, 0)
     \o <<Elem("allowpolicyupdate", x.allow)>> \o WriteOptional("dataplacementpolicy", x.policy, "")
     \o WriteOptional("volumelockstate", x.lock, "")
     \o <<Elem("highestfileuid", x.next), WriteDir(x.root)>> \o x.extra]

-----------------------------------------------------------------------------
(* Documents the reader may meet first: one the writer makes, one of older  *)
(* software, one with a foreign element, one with an element missing, one   *)
(* with an element twice - at the top, in the root directory or in a file.  *)
Dropped(kids, i) == SubSeq(kids, 1, i - 1) \o SubSeq(kids, i + 1, Len(kids))
Doubled(kids, i) == SubSeq(kids, 1, i) \o SubSeq(kids, i, Len(kids))
Foreign(kids) == Append(kids, Elem("foreign", "x"))
\* The ways to spoil a list of elements, and the list one of them makes.
Ways(kids) == 0..2 * Len(kids) + 1
Spoiled(kids, n) ==
  CASE n = 0 -> kids
    [] n = 1 -> Foreign(kids)
    [] n % 2 = 0 -> Dropped(kids, n \div 2)
    [] OTHER -> Doubled(kids, n \div 2)

Replaced(kids, tag, val) == [i \in DOMAIN kids |-> IF kids[i].tag = tag THEN Elem(tag, val) ELSE kids[i]]

Init ==
  /\ \E x \in StartIndices, o \in BOOLEAN :
       LET top == WriteSchema(x).elems
           dir == Val(top, "directory")
           all == Val(dir, "contents")
       IN  \/ \E n \in Ways(top) : doc = [old |-> o, elems |-> Spoiled(top, n)]
           \/ \E n \in Ways(dir) : doc = [old |-> o, elems |-> Replaced(top, "directory", Spoiled(dir, n))]
           \/ /\ all # <<>>
              /\ \E n \in Ways(all[1].val) :
                   doc = [old |-> o,
                          elems |-> Replaced(top, "directory",
                                      Replaced(dir, "contents", [all EXCEPT ![1].val = Spoiled(@, n)]))]
  /\ idx = NoIndex /\ saved = NoIndex /\ saves = 0

(* A mount reads the document; one it rejects leaves no index.              *)
Load ==
  /\ idx = NoIndex
  /\ LET r == ReadSchema(doc) IN r # Bad /\ r.conflicts = 0 /\ idx' = r.idx
  /\ UNCHANGED <<doc, saved, saves>>

(* A file or a directory is created in the root: fs_allocate_dentry.        *)
NewEntry(kind, name, uid) ==
  [kind |-> kind, name |-> name, ro |-> FALSE, uid |-> uid, created |-> "now", backup |-> "now", xattrs |-> <<>>,
   kids |-> <<>>, size |-> 0, open |-> FALSE, xts |-> <<>>, link |-> "", extra |-> <<>>]

Create ==
  /\ idx # NoIndex
  /\ \E kind \in {"file", "dir"}, name \in FileNames :
       /\ \A i \in DOMAIN idx.root.kids : idx.root.kids[i].name # name
       /\ idx' = [idx EXCEPT !.next = @ + 1,
                             !.root.kids = Append(@, NewEntry(kind, name, idx.next + 1))]
  /\ UNCHANGED <<doc, saved, saves>>

(* A sync writes the index.                                                 *)
Save ==
  /\ idx # NoIndex /\ saves < MaxSaves
  /\ saved' = [idx EXCEPT !.gen = @ + 1, !.back = idx.self, !.self = @ + 1]
  /\ doc' = WriteSchema(saved') /\ idx' = NoIndex /\ saves' = saves + 1

Next == Load \/ Create \/ Save
Spec == Init /\ [][Next]_vars

-----------------------------------------------------------------------------
RECURSIVE Uids(_), SameEntry(_, _), Sound(_)
(* The uids of a directory and all below it, with repetition.               *)
Uids(d) == FoldLeft(LAMBDA acc, k : acc \o Uids(k), <<d.uid>>, d.kids)

SameEntry(a, b) ==
  /\ [a EXCEPT !.kids = <<>>] = [b EXCEPT !.kids = <<>>]
  /\ Len(a.kids) = Len(b.kids)
  /\ \A i \in DOMAIN a.kids : \E j \in DOMAIN b.kids : SameEntry(a.kids[i], b.kids[j])

Sound(d) ==
  /\ \A i \in 1..Len(d.xts) - 1 : End(d.xts[i]) <= d.xts[i + 1].at
  /\ d.xts # <<>> => End(Last(d.xts)) <= d.size
  /\ d.uid # 0
  /\ \A i \in DOMAIN d.kids : Sound(d.kids[i])

(* What is written is what is read back: after a sync the document is       *)
(* accepted and means the index it was written from, foreign elements       *)
(* included; only the uid counter may have moved on.                        *)
(* (xml_writer_libltfs.c:335-715 against xml_reader_libltfs.c:631-1700)     *)
ReloadsAsWritten ==
  saved # NoIndex =>
    LET r == ReadSchema(doc)
    IN  /\ r # Bad
        /\ [r.idx EXCEPT !.root = 0, !.next = 0] = [saved EXCEPT !.root = 0, !.next = 0]
        /\ SameEntry(r.idx.root, saved.root)

(* An index in memory has no two entries with one uid, and no later entry   *)
(* gets a uid that is in use, whether the document had uids or not          *)
(* (fs.c:359 fs_allocate_uid, xml_reader_libltfs.c:1372).                   *)
UidsDistinct ==
  idx # NoIndex => LET u == Uids(idx.root) IN IsInjective(u) /\ \A i \in DOMAIN u : u[i] <= idx.next

(* Every index the reader accepts has the extents of each file in order,    *)
(* apart and inside the file, in whatever order the document lists them     *)
(* (xml_reader_libltfs.c:1526-1543 and 1389).                               *)
ExtentsSound == idx # NoIndex => Sound(idx.root)

(* What a mount makes of an index: the tree that was written, with uids and *)
(* extents the file system can rely on (xml_reader_libltfs.c).              *)
ReadsBack == ReloadsAsWritten /\ UidsDistinct /\ ExtentsSound
=============================================================================
