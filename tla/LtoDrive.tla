------------------------------ MODULE LtoDrive ------------------------------
(***************************************************************************)
(* The LTO back end (ltotape.c, ltotape_platform.c): what each of its      *)
(* calls makes of the SCSI commands it sends.                              *)
(*                                                                         *)
(* A call is the set of its possible results [drv, pos, rc]: the drive     *)
(* after it, the position it leaves in the caller's struct tc_position and *)
(* its return code.  The drive itself is what the code assumes of it: two  *)
(* partitions of records and filemarks, a head, a report of early warning  *)
(* for every write past EwAt, and at most drv.faults commands that fail.   *)
(* A DAT drive, inquiries, densities and log snapshots are left out.       *)
(***************************************************************************)
EXTENDS Integers, FiniteSets, SequencesExt

CONSTANTS Capacity,            \* records a partition can hold
          EwAt,                \* records from which on early warning is reported
          Unreadable           \* whether READ POSITION may fail too

ASSUME DriveAssumption == Capacity \in Nat /\ EwAt \in 1 .. Capacity /\ Unreadable \in BOOLEAN

Partition == {0, 1}
EOD == 1000                    \* TAPE_BLOCK_MAX
ASSUME EodAssumption == Capacity < EOD

\* The attributes of the cartridge memory that steer the code.
Fresh == [lock |-> "unlocked", ewstate |-> "clear", app |-> FALSE]
NewDrive(n) ==
  [cart |-> "in", head |-> [partition |-> 0, block |-> 0], recs |-> [p \in Partition |-> <<>>],
   stamp |-> 0, eweom |-> "before", mam |-> Fresh, reserved |-> FALSE, prevent |-> FALSE,
   aom |-> FALSE, allowed |-> EOD, faults |-> n]

Len0(d) == Len(d.recs[d.head.partition])
IsFm(r) == r.fm
Filemarks(s) == {i \in 1 .. Len(s) : IsFm(s[i])}
Result(d, pos, rc) == [drv |-> d, pos |-> pos, rc |-> rc]

\* A command that fails: one fault of the drive is spent.
Faulty(d) == IF d.faults = 0 THEN {} ELSE {[d EXCEPT !.faults = @ - 1]}
Anywhere(d) == {[partition |-> p, block |-> b] : p \in Partition, b \in 0 .. Capacity}
Reachable(d) == {h \in Anywhere(d) : h.block <= Len(d.recs[h.partition])}

Simple(d, pos, good) == {Result(good, pos, "ok")} \cup {Result(e, pos, "error") : e \in Faulty(d)}

-----------------------------------------------------------------------------
(* Positions.                                                              *)

\* The warnings in pos are left as they were.
ReadPosition(d, pos) ==
       {Result(d, [pos EXCEPT !.partition = d.head.partition, !.block = d.head.block], "ok")}
  \cup {Result(e, pos, "error") : e \in IF Unreadable THEN Faulty(d) ELSE {}}

\* Most calls read the position back and return the status of the command.
Reposition(d, pos, rc) == {[r EXCEPT !.rc = rc] : r \in ReadPosition(d, pos)}

TestUnitReady(d) ==
       {Result(d, <<>>, IF d.cart = "loaded" THEN "ok" ELSE IF d.cart = "in" THEN "init" ELSE "nomedium")}
  \cup {Result(e, <<>>, "error") : e \in Faulty(d)}

Target(d, dest) ==
  [dest EXCEPT !.block = IF dest.block > Len(d.recs[dest.partition])
                         THEN Len(d.recs[dest.partition]) ELSE dest.block]

\* LOCATE; a blank check at EOD is only good if EOD was asked for.  A drive may
\* report success elsewhere, which the position read back gives away.
LocateVerified(r, dest) ==
  IF r.rc = "ok" /\ dest.block # EOD /\ (r.pos.partition # dest.partition \/ r.pos.block # dest.block)
  THEN [r EXCEPT !.rc = "error"] ELSE r
Locate(d, dest, pos) ==
  LET Stop(e, h, rc) == Reposition([e EXCEPT !.head = h], pos, rc)
      good == IF dest.block = EOD \/ dest.block <= Len(d.recs[dest.partition]) THEN "ok" ELSE "error"
  IN  {LocateVerified(r, dest) :
         r \in Stop(d, Target(d, [partition |-> dest.partition, block |-> dest.block]), good)
               \cup (UNION {Stop(e, h, "error") : e \in Faulty(d), h \in Reachable(d)})
               \cup UNION {Stop(e, d.head, "ok") : e \in IF dest.block = EOD THEN {} ELSE Faulty(d)}}

Rewind(d, pos) ==
       Reposition([d EXCEPT !.head.block = 0], pos, "ok")
  \cup UNION {Reposition(e, pos, "error") : e \in Faulty(d)}

\* SPACE over n filemarks: forward behind the last of them, backward before it.
SpaceTo(d, n) ==
  LET s == d.recs[d.head.partition]
      Between(i, j) == Cardinality({k \in Filemarks(s) : i <= k /\ k <= j})
      last == {i \in Filemarks(s) : IF n > 0 THEN Between(d.head.block + 1, i) = n
                                    ELSE Between(i, d.head.block) = -n}
  IN  IF last = {} THEN [block |-> IF n > 0 THEN Len(s) ELSE 0, rc |-> "error"]
      ELSE [block |-> (CHOOSE i \in last : TRUE) - (IF n > 0 THEN 0 ELSE 1), rc |-> "ok"]
Space(d, n, pos) ==
       Reposition([d EXCEPT !.head.block = SpaceTo(d, n).block], pos, SpaceTo(d, n).rc)
  \cup UNION {Reposition(e, pos, "error") : e \in Faulty(d)}

-----------------------------------------------------------------------------
(* Reading and writing.                                                    *)

\* A record is written at the head and everything behind it is gone.
Recorded(d, fm) ==
  LET p == d.head.partition
  IN  [d EXCEPT !.recs[p] = Append(SubSeq(d.recs[p], 1, d.head.block), [fm |-> fm, id |-> d.stamp]),
                !.head.block = d.head.block + 1, !.stamp = @ + 1]

\* The sense data of a write past early warning; it is noted once.
EarlyWarned(d) ==
  IF Len0(d) >= EwAt /\ d.eweom = "before" THEN [d EXCEPT !.eweom = "report"] ELSE d

\* On an error pos stays, wherever the head is.
TransferError(d, pos) ==
  UNION {{Result(e, pos, "error"), Result([e EXCEPT !.head.block = d.head.block + 1], pos, "error")} :
           e \in IF d.head.block < Len0(d) THEN Faulty(d) ELSE {}}

Read(d, pos) ==
  (IF d.head.block >= Len0(d) THEN {Result(d, pos, "error")}
   ELSE {Result([d EXCEPT !.head.block = d.head.block + 1], [pos EXCEPT !.block = @ + 1], "ok")})
  \cup TransferError(d, pos)

WriteError(d, pos) ==
  UNION {{Result(e, pos, "error"), Result(Recorded(e, FALSE), pos, "error")} : e \in Faulty(d)}

\* In append-only mode the drive takes a write at EOD or where it was allowed.
Protected(d) == d.aom /\ d.head.block < Len0(d) /\ d.allowed # d.head.block
AllowOverwrite(d, pos) == Simple(d, pos, [d EXCEPT !.allowed = pos.block])

Write(d, pos) ==
  LET w == EarlyWarned(Recorded(d, FALSE))
      told == w.eweom = "report"
  IN  (IF d.head.block >= Capacity \/ Protected(d) THEN {Result(d, pos, "error")}
       ELSE {Result(IF told THEN [w EXCEPT !.eweom = "after"] ELSE w,
                    [pos EXCEPT !.block = @ + 1, !.ew = @ \/ told], "ok")} \cup WriteError(d, pos))

\* A filemark is refused at the beginning of a partition; its early warning is
\* left for the next write to report.
WriteFm(d, pos) ==
  UNION {IF r.rc # "ok" \/ (r.pos.block = 0) THEN {[r EXCEPT !.rc = "error"]}
         ELSE (IF r.drv.head.block >= Capacity \/ Protected(r.drv) THEN Reposition(r.drv, r.pos, "error")
               ELSE Reposition(EarlyWarned(Recorded(r.drv, TRUE)), r.pos, "ok"))
              \cup UNION {Reposition(e, r.pos, "error") : e \in Faulty(r.drv)}
         : r \in ReadPosition(d, pos)}

Erase(d, pos) ==
  LET p == d.head.partition
  IN  Reposition([d EXCEPT !.recs[p] = SubSeq(d.recs[p], 1, d.head.block)], pos, "ok")
      \cup UNION {Reposition(e, pos, "error") : e \in Faulty(d)}

-----------------------------------------------------------------------------
(* The cartridge.                                                          *)

\* Without a cartridge nothing is loaded; the media types are all supported ones.
Load(d, pos) ==
  IF d.cart = "out" THEN {Result(d, pos, "nomedium")}
  ELSE Reposition([d EXCEPT !.cart = "loaded",
                            !.head = [partition |-> 0, block |-> 0]], pos, "ok")
       \cup UNION {Reposition(e, pos, "error") : e \in Faulty(d)}

\* On HOLD the cartridge stays in the drive's hands; else it may be taken out.
Unload(d, pos) ==
       Reposition([d EXCEPT !.cart = "in", !.head = [partition |-> 0, block |-> 0]], pos, "ok")
  \cup UNION {Reposition(e, pos, "error") : e \in Faulty(d)}

\* FORMAT MEDIUM empties both partitions; attributes that cannot be written are
\* only warned about.  TC_FORMAT_DEFAULT deletes the attributes instead.
SetMAMattributes(d, format) ==
       {[d EXCEPT !.mam.lock = "unlocked", !.mam.app = format # "default"]}
  \cup {[e EXCEPT !.mam.app = format # "default"] : e \in Faulty(d)}
Format(d, format, pos) ==
  LET blank == [d EXCEPT !.recs = [p \in Partition |-> <<>>], !.head = [partition |-> 0, block |-> 0]]
  IN  {Result(e, pos, "ok") : e \in SetMAMattributes(blank, format)}
      \cup {Result(e, pos, "error") : e \in Faulty(d)}

Remaining(d, p) == Capacity - Len(d.recs[p])
ReserveUnit(d) == Simple(d, <<>>, [d EXCEPT !.reserved = TRUE])
ReleaseUnit(d) == Simple(d, <<>>, [d EXCEPT !.reserved = FALSE])
PreventRemoval(d) == Simple(d, <<>>, [d EXCEPT !.prevent = TRUE])
AllowRemoval(d) == Simple(d, <<>>, [d EXCEPT !.prevent = FALSE])
ModeSelectAom(d, on) == Simple(d, <<>>, [d EXCEPT !.aom = on])
WriteEwstate(d, s) == Simple(d, <<>>, [d EXCEPT !.mam.ewstate = s])
WriteLock(d, s) == Simple(d, <<>>, [d EXCEPT !.mam.lock = s])
\* ReadAttribute: what is read, or that it cannot be.
ReadLock(d) == {<<d, d.mam.lock>>} \cup {<<e, "nolock">> : e \in Faulty(d)}
=============================================================================
