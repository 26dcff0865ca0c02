-------------------------- MODULE TapeDeviceProofs --------------------------
(***************************************************************************)
(* The device layer above a drive whose READ POSITION is answered: what it *)
(* remembers is where the drive stands, and no record of the data          *)
(* partition is lost, whichever commands fail.                             *)
(*                                                                         *)
(* The drive of files: its directory is a cartridge, for any number of      *)
(* blocks, loads and crashes.  What it remembers of the directory is what   *)
(* is in it, and each change of the directory, or the part of it that was   *)
(* made when the process died, is a step of TapeMedium.                     *)
(***************************************************************************)
EXTENDS TapeDevice, FileTape, FiniteSetTheorems, SequenceTheorems, WellFoundedInduction, TLAPS

-----------------------------------------------------------------------------
(* What a drive and a device_data are.                                     *)

Records == [fm : BOOLEAN, id : Nat]
Heads == [partition : Partition, block : Nat]
Locks == {"unlocked", "locked", "permlocked", "dppwe", "ippwe", "dp_ip_pwe"}
Drives == [cart : {"out", "in", "loaded"}, head : Heads, recs : [Partition -> Seq(Records)],
           stamp : Nat, eweom : {"before", "report", "after"},
           mam : [lock : Locks, ewstate : {"clear", "set"}, app : BOOLEAN],
           reserved : BOOLEAN, prevent : BOOLEAN, aom : BOOLEAN, allowed : Nat, faults : Nat]
Positions == [partition : Partition, block : 0 .. EOD, ew : BOOLEAN, pew : BOOLEAN]
Devices == [open : BOOLEAN, position : Positions, append_pos : [Partition -> 0 .. EOD],
            write_protect : BOOLEAN, write_error : BOOLEAN, ready : BOOLEAN,
            partition_space : [Partition -> Space3],
            device_reserved : BOOLEAN, medium_locked : BOOLEAN, append_only_mode : BOOLEAN]

\* The head is between the records, and they are no more than fit.
Sound(d) ==
  /\ d \in Drives
  /\ \A p \in Partition : Len(d.recs[p]) <= Capacity
  /\ d.head.block <= Len(d.recs[d.head.partition])

\* The remembered position is in the partition of the head and not past it: a
\* transfer that fails may have moved the tape.
Near(pos, d) == pos.partition = d.head.partition /\ pos.block <= d.head.block
At(pos, d) == pos.partition = d.head.partition /\ pos.block = d.head.block

\* What is on the tape and in the cartridge memory stays, and so does the
\* cartridge itself.
SameTape(d, e) == /\ e.recs = d.recs /\ e.stamp = d.stamp /\ e.mam = d.mam
                  /\ e.cart = "out" <=> d.cart = "out"

-----------------------------------------------------------------------------
(* The commands of the drive.                                              *)

LEMMA FaultySound ==
  ASSUME NEW d, Sound(d), NEW e \in Faulty(d)
  PROVE  Sound(e) /\ SameTape(d, e) /\ e.head = d.head
<1>1. e = [d EXCEPT !.faults = d.faults - 1] /\ d.faults \in Nat \ {0}
  BY DEF Faulty, Sound, Drives
<1>2. d \in Drives
  BY DEF Sound
<1>3. e \in Drives /\ e.head = d.head /\ e.recs = d.recs /\ e.stamp = d.stamp /\ e.mam = d.mam /\ e.cart = d.cart
  BY <1>1, <1>2 DEF Drives
<1>4. QED
  BY <1>3 DEF Sound, SameTape

\* A command that only changes a flag.
Quiet(d, e) == Sound(e) /\ SameTape(d, e) /\ e.head = d.head

LEMMA SimpleQuiet ==
  ASSUME NEW d, Sound(d), NEW good, Quiet(d, good), NEW pos, NEW r \in Simple(d, pos, good)
  PROVE  Quiet(d, r.drv)
<1>1. r.drv = good \/ r.drv \in Faulty(d)
  BY DEF Simple, Result
<1>2. QED
  BY <1>1, FaultySound DEF Quiet

LEMMA EodNat == EOD \in Nat /\ Capacity \in Nat /\ Capacity < EOD
  BY DriveAssumption, EodAssumption DEF EOD

\* A block number fits a position.
LEMMA BlockFits ==
  ASSUME NEW b \in Nat, b <= Capacity
  PROVE  b \in 0 .. EOD
  BY EodNat

LEMMA HeadFits ==
  ASSUME NEW d, Sound(d)
  PROVE  d.head.partition \in Partition /\ d.head.block \in Nat /\ d.head.block \in 0 .. EOD
<1>1. d.head.partition \in Partition /\ d.head.block \in Nat /\ d.recs \in [Partition -> Seq(Records)]
  BY DEF Sound, Drives, Heads
<1>2. d.head.block <= Capacity
  BY <1>1, DriveAssumption DEF Sound
<1>3. QED
  BY <1>1, <1>2, BlockFits

\* What a command that moves the tape leaves behind: the drive reports where its
\* head is, and the warnings stay.
Landed(d, pos, r) ==
  /\ Sound(r.drv) /\ SameTape(d, r.drv)
  /\ r.pos \in Positions /\ At(r.pos, r.drv) /\ r.pos.ew = pos.ew /\ r.pos.pew = pos.pew

LEMMA MovedLands ==
  ASSUME ~Unreadable, NEW d, NEW e, Sound(e), SameTape(d, e),
         NEW pos \in Positions, NEW rc, NEW r \in Reposition(e, pos, rc)
  PROVE  Landed(d, pos, r) /\ r = Result(e, r.pos, rc)
<1> DEFINE here == [pos EXCEPT !.partition = e.head.partition, !.block = e.head.block]
<1>1. ReadPosition(e, pos) = {Result(e, here, "ok")}
  BY DEF ReadPosition
<1>2. r = [Result(e, here, "ok") EXCEPT !.rc = rc]
  BY <1>1 DEF Reposition
<1>3. r = Result(e, here, rc)
  BY <1>2 DEF Result
<1>4. here \in Positions /\ At(here, e) /\ here.ew = pos.ew /\ here.pew = pos.pew
  BY HeadFits DEF Positions, At
<1>5. r.drv = e /\ r.pos = here
  BY <1>3 DEF Result
<1>6. QED
  BY <1>3, <1>4, <1>5 DEF Landed

\* The head of a drive may be anywhere among its records.
LEMMA HeadMoved ==
  ASSUME NEW d, Sound(d), NEW h \in Heads, h.block <= Len(d.recs[h.partition])
  PROVE  Sound([d EXCEPT !.head = h]) /\ SameTape(d, [d EXCEPT !.head = h]) /\ [d EXCEPT !.head = h].head = h
  BY DEF Sound, SameTape, Drives

LEMMA LengthsNat ==
  ASSUME NEW d, Sound(d), NEW p \in Partition
  PROVE  Len(d.recs[p]) \in 0 .. Capacity /\ d.recs[p] \in Seq(Records)
  BY DriveAssumption DEF Sound, Drives

LEMMA BlockMoved ==
  ASSUME NEW d, Sound(d), NEW b \in 0 .. Len(d.recs[d.head.partition])
  PROVE  Sound([d EXCEPT !.head.block = b]) /\ SameTape(d, [d EXCEPT !.head.block = b])
<1>1. b \in Nat /\ b <= Len(d.recs[d.head.partition])
  BY LengthsNat DEF Sound, Drives, Heads
<1>2. QED
  BY <1>1 DEF Sound, SameTape, Drives, Heads

LEMMA StillSame ==
  ASSUME NEW d, NEW e, NEW f, SameTape(d, e), SameTape(e, f)
  PROVE  SameTape(d, f)
  BY DEF SameTape

\* A command that fails where it stands.
LEMMA FailedLands ==
  ASSUME ~Unreadable, NEW d, Sound(d), NEW pos \in Positions,
         NEW r \in UNION {Reposition(e, pos, "error") : e \in Faulty(d)}
  PROVE  Landed(d, pos, r) /\ r.rc = "error" /\ r.drv.head = d.head
<1>1. PICK e \in Faulty(d) : r \in Reposition(e, pos, "error")
  OBVIOUS
<1>2. Sound(e) /\ SameTape(d, e) /\ e.head = d.head
  BY FaultySound
<1>3. QED
  BY <1>1, <1>2, MovedLands DEF Result

Same(dest, pos) == pos.partition = dest.partition /\ pos.block = dest.block

\* LOCATE ends somewhere on the tape, and where it was sent if it says so.
Places == [partition : Partition, block : 0 .. EOD]
LEMMA LocateLands ==
  ASSUME ~Unreadable, NEW d, Sound(d), NEW dest \in Places, NEW pos \in Positions,
         NEW r \in Locate(d, dest, pos)
  PROVE  /\ Landed(d, pos, r)
         /\ r.rc = "ok" => /\ dest.block # EOD => At(dest, r.drv)
                           /\ dest.block = EOD => /\ r.drv.head.partition = dest.partition
                                                  /\ r.drv.head.block = Len(d.recs[dest.partition])
<1> DEFINE stop(e, h, rc) == Reposition([e EXCEPT !.head = h], pos, rc)
           good == IF dest.block = EOD \/ dest.block <= Len(d.recs[dest.partition]) THEN "ok" ELSE "error"
           goal == Target(d, [partition |-> dest.partition, block |-> dest.block])
           lost == UNION {stop(e, h, "error") : e \in Faulty(d), h \in Reachable(d)}
           stuck == UNION {stop(e, d.head, "ok") : e \in IF dest.block = EOD THEN {} ELSE Faulty(d)}
<1>1. PICK q \in stop(d, goal, good) \cup lost \cup stuck : r = LocateVerified(q, dest)
  <2>1. r \in {LocateVerified(q, dest) : q \in stop(d, goal, good) \cup lost \cup stuck}
    BY DEF Locate
  <2> HIDE DEF lost, stuck, goal, good, stop
  <2>2. QED
    BY <2>1
<1>2. /\ goal \in Heads /\ goal.block <= Len(d.recs[goal.partition])
      /\ dest.block = EOD => goal.partition = dest.partition /\ goal.block = Len(d.recs[dest.partition])
  <2>1. Len(d.recs[dest.partition]) \in 0 .. Capacity
    BY LengthsNat DEF Places
  <2>2. goal = [partition |-> dest.partition,
                block |-> IF dest.block > Len(d.recs[dest.partition]) THEN Len(d.recs[dest.partition]) ELSE dest.block]
    BY DEF Target
  <2>3. goal.partition = dest.partition /\ goal.partition \in Partition /\ dest.block \in Nat
    BY <2>2, EodNat DEF Places
  <2>4. goal.block \in Nat /\ goal.block <= Len(d.recs[dest.partition])
    BY <2>1, <2>2, <2>3
  <2>5. dest.block = EOD => goal.block = Len(d.recs[dest.partition])
    BY <2>1, <2>2, EodNat
  <2>6. goal \in Heads
    BY <2>2, <2>3, <2>4 DEF Heads
  <2> HIDE DEF goal
  <2>7. QED
    BY <2>3, <2>4, <2>5, <2>6
<1> HIDE DEF goal
<1>3. Landed(d, pos, q) /\ (\E e, rc : q = Result(e, q.pos, rc)) /\ (q.rc = "ok" /\ dest.block = EOD => q.drv.head = goal)
  <2>1. CASE q \in stop(d, goal, good)
    <3>1. Sound([d EXCEPT !.head = goal]) /\ SameTape(d, [d EXCEPT !.head = goal]) /\ [d EXCEPT !.head = goal].head = goal
      BY <1>2, HeadMoved
    <3> DEFINE e == [d EXCEPT !.head = goal]
    <3> HIDE DEF good, e
    <3>2. q \in Reposition(e, pos, good)
      BY <2>1 DEF e
    <3>3. Landed(d, pos, q) /\ q = Result(e, q.pos, good)
      BY <3>1, <3>2, MovedLands DEF e
    <3>4. q.drv = e /\ e.head = goal
      BY <3>1, <3>3 DEF Result, e
    <3>5. QED
      BY <3>3, <3>4
  <2>2. CASE q \in lost
    <3>1. PICK e \in Faulty(d), h \in Reachable(d) : q \in stop(e, h, "error")
      BY <2>2
    <3>2. h \in Heads /\ h.block <= Len(d.recs[h.partition])
      BY DriveAssumption DEF Reachable, Anywhere, Heads
    <3>3. Sound(e) /\ SameTape(d, e)
      BY FaultySound
    <3>4. Sound([e EXCEPT !.head = h]) /\ SameTape(d, [e EXCEPT !.head = h])
      BY <3>2, <3>3, HeadMoved, StillSame DEF SameTape
    <3>5. QED
      BY <3>1, <3>4, MovedLands DEF Result
  <2>3. CASE q \in stuck
    <3>1. PICK e \in IF dest.block = EOD THEN {} ELSE Faulty(d) : q \in stop(e, d.head, "ok")
      BY <2>3
    <3>2. dest.block # EOD /\ e \in Faulty(d)
      BY <3>1
    <3>3. Sound(e) /\ SameTape(d, e) /\ e.head = d.head
      BY FaultySound
    <3>4. d.head \in Heads /\ d.head.block <= Len(e.recs[d.head.partition])
      BY <3>3 DEF Sound, Drives
    <3>5. Sound([e EXCEPT !.head = d.head]) /\ SameTape(d, [e EXCEPT !.head = d.head])
      BY <3>3, <3>4, HeadMoved, StillSame
    <3>6. QED
      BY <3>1, <3>2, <3>5, MovedLands DEF Result
  <2>4. QED
    BY <1>1, <2>1, <2>2, <2>3
<1> HIDE DEF lost, stuck, good, stop
<1>4. /\ r.drv = q.drv /\ r.pos = q.pos
      /\ r.rc = "ok" => q.rc = "ok" /\ (dest.block # EOD => Same(dest, r.pos))
  <2>1. PICK e, p, rc : q = [drv |-> e, pos |-> p, rc |-> rc]
    BY <1>3 DEF Result
  <2>2. CASE q.rc = "ok" /\ dest.block # EOD /\ ~Same(dest, q.pos)
    <3>1. r = [q EXCEPT !.rc = "error"]
      BY <1>1, <2>2 DEF LocateVerified, Same
    <3>2. QED
      BY <2>1, <3>1
  <2>3. CASE ~(q.rc = "ok" /\ dest.block # EOD /\ ~Same(dest, q.pos))
    <3>1. r = q
      BY <1>1, <2>3 DEF LocateVerified, Same
    <3>2. QED
      BY <2>3, <3>1
  <2>4. QED
    BY <2>2, <2>3
<1>5. Landed(d, pos, r)
  BY <1>3, <1>4 DEF Landed
<1>6. r.rc = "ok" /\ dest.block # EOD => At(dest, r.drv)
  <2>1. At(r.pos, r.drv)
    BY <1>5 DEF Landed
  <2>2. QED
    BY <1>4, <2>1 DEF At, Same
<1>7. r.rc = "ok" /\ dest.block = EOD => r.drv.head = goal
  BY <1>3, <1>4
<1>8. QED
  BY <1>2, <1>5, <1>6, <1>7

LEMMA RewindLands ==
  ASSUME ~Unreadable, NEW d, Sound(d), NEW pos \in Positions, NEW r \in Rewind(d, pos)
  PROVE  Landed(d, pos, r)
<1> DEFINE e == [d EXCEPT !.head.block = 0]
<1>1. Sound(e) /\ SameTape(d, e)
  <2>1. Len(d.recs[d.head.partition]) \in Nat
    BY LengthsNat, HeadFits
  <2>2. 0 \in 0 .. Len(d.recs[d.head.partition])
    BY <2>1
  <2>3. QED
    BY <2>2, BlockMoved
<1> HIDE DEF e
<1>2. CASE r \in Reposition(e, pos, "ok")
  BY <1>1, <1>2, MovedLands
<1>3. CASE r \in UNION {Reposition(f, pos, "error") : f \in Faulty(d)}
  BY <1>3, FailedLands
<1>4. QED
  BY <1>2, <1>3 DEF Rewind, e

\* SPACE stays among the records, wherever the file marks are.
LEMMA SpaceStays ==
  ASSUME NEW d, Sound(d), NEW n \in Int
  PROVE  SpaceTo(d, n).block \in 0 .. Len(d.recs[d.head.partition])
<1> DEFINE s == d.recs[d.head.partition]
           Between(i, j) == Cardinality({k \in Filemarks(s) : i <= k /\ k <= j})
           last == {i \in Filemarks(s) : IF n > 0 THEN Between(d.head.block + 1, i) = n
                                         ELSE Between(i, d.head.block) = -n}
<1>1. Len(s) \in Nat
  BY LengthsNat, HeadFits
<1>2. last \subseteq 1 .. Len(s)
  BY DEF Filemarks
<1>3. SpaceTo(d, n) = IF last = {} THEN [block |-> IF n > 0 THEN Len(s) ELSE 0, rc |-> "error"]
                      ELSE [block |-> (CHOOSE i \in last : TRUE) - (IF n > 0 THEN 0 ELSE 1), rc |-> "ok"]
  BY DEF SpaceTo
<1>4. CASE last = {}
  <2> HIDE DEF last
  <2>1. SpaceTo(d, n).block = IF n > 0 THEN Len(s) ELSE 0
    BY <1>3, <1>4
  <2>2. QED
    BY <1>1, <2>1
<1>5. CASE last # {}
  <2> DEFINE i == CHOOSE i \in last : TRUE
  <2>1. i \in last
    BY <1>5
  <2> HIDE DEF last
  <2>2. SpaceTo(d, n).block = i - (IF n > 0 THEN 0 ELSE 1)
    BY <1>3, <1>5
  <2> HIDE DEF i
  <2>3. i \in 1 .. Len(s)
    BY <1>2, <2>1
  <2>4. QED
    BY <1>1, <2>2, <2>3
<1>6. QED
  BY <1>4, <1>5

LEMMA SpaceLands ==
  ASSUME ~Unreadable, NEW d, Sound(d), NEW n \in Int, NEW pos \in Positions, NEW r \in Space(d, n, pos)
  PROVE  Landed(d, pos, r)
<1> DEFINE e == [d EXCEPT !.head.block = SpaceTo(d, n).block]
<1>1. Sound(e) /\ SameTape(d, e)
  BY BlockMoved, SpaceStays
<1> HIDE DEF e
<1>2. CASE r \in Reposition(e, pos, SpaceTo(d, n).rc)
  BY <1>1, <1>2, MovedLands
<1>3. CASE r \in UNION {Reposition(f, pos, "error") : f \in Faulty(d)}
  BY <1>3, FailedLands
<1>4. QED
  BY <1>2, <1>3 DEF Space, e

\* Loading and unloading go to the beginning of the tape.
LEMMA LoadedLands ==
  ASSUME ~Unreadable, NEW d, Sound(d), d.cart # "out", NEW cart \in {"in", "loaded"}, NEW pos \in Positions,
         NEW r \in Reposition([d EXCEPT !.cart = cart, !.head = [partition |-> 0, block |-> 0]], pos, "ok")
                   \cup (UNION {Reposition(e, pos, "error") : e \in Faulty(d)})
  PROVE  Landed(d, pos, r) /\ (r.rc = "ok" => r.drv.head = [partition |-> 0, block |-> 0])
<1> DEFINE e == [d EXCEPT !.cart = cart, !.head = [partition |-> 0, block |-> 0]]
<1>1. Len(d.recs[0]) \in Nat /\ d.recs \in [Partition -> Seq(Records)] /\ d \in Drives
  BY LengthsNat DEF Sound, Drives, Partition
<1>2. e \in Drives /\ e.recs = d.recs /\ e.head = [partition |-> 0, block |-> 0]
      /\ e.stamp = d.stamp /\ e.mam = d.mam /\ e.cart = cart
  BY <1>1 DEF Drives, Heads, Partition
<1>3. Sound(e) /\ SameTape(d, e)
  BY <1>1, <1>2 DEF Sound, SameTape
<1> HIDE DEF e
<1>4. CASE r \in Reposition(e, pos, "ok")
  <2>1. Landed(d, pos, r) /\ r = Result(e, r.pos, "ok")
    BY <1>3, <1>4, MovedLands
  <2>2. r.drv = e
    BY <2>1 DEF Result
  <2>3. QED
    BY <1>2, <2>1, <2>2
<1>5. CASE r \in UNION {Reposition(f, pos, "error") : f \in Faulty(d)}
  BY <1>5, FailedLands
<1>6. QED
  BY <1>4, <1>5 DEF e

\* A command that leaves the tape as it was, and what is remembered no worse.
Carried(d, pos, r) ==
  /\ Sound(r.drv) /\ SameTape(d, r.drv)
  /\ r.pos \in Positions /\ (Near(pos, d) => Near(r.pos, r.drv))

LEMMA LandedCarried ==
  ASSUME NEW d, NEW pos, NEW r, Landed(d, pos, r)
  PROVE  Carried(d, pos, r)
<1>1. r.drv.head.block \in Nat /\ At(r.pos, r.drv)
  BY HeadFits DEF Landed
<1>2. QED
  BY <1>1 DEF Landed, Carried, Near, At

LEMMA LoadCarries ==
  ASSUME ~Unreadable, NEW d, Sound(d), NEW pos \in Positions, NEW r \in Load(d, pos)
  PROVE  /\ Carried(d, pos, r)
         /\ r.rc # "nomedium" => d.cart # "out" /\ At(r.pos, r.drv)
         /\ r.rc = "ok" => /\ r.pos.partition = 0 /\ r.pos.block = 0
                           /\ r.drv.head = [partition |-> 0, block |-> 0]
<1>1. CASE d.cart = "out"
  <2>1. r = Result(d, pos, "nomedium")
    BY <1>1 DEF Load
  <2>2. QED
    BY <2>1 DEF Result, Carried, SameTape
<1>2. CASE d.cart # "out"
  <2>1. Landed(d, pos, r)
    BY <1>2, LoadedLands DEF Load
  <2>2. QED
    <3>1. Carried(d, pos, r) /\ At(r.pos, r.drv)
      BY <2>1, LandedCarried DEF Landed
    <3>2. r.rc = "ok" => r.drv.head = [partition |-> 0, block |-> 0]
      BY <1>2, LoadedLands DEF Load
    <3>3. QED
      BY <1>2, <3>1, <3>2 DEF At
<1>3. QED
  BY <1>1, <1>2

\* Unloading a drive without a cartridge would make one of nothing: callers unload
\* what they have loaded.
LEMMA UnloadLands ==
  ASSUME ~Unreadable, NEW d, Sound(d), d.cart # "out", NEW pos \in Positions, NEW r \in Unload(d, pos)
  PROVE  Landed(d, pos, r)
  BY LoadedLands DEF Unload

LEMMA ReadCarries ==
  ASSUME NEW d, Sound(d), NEW pos \in Positions, Near(pos, d), NEW r \in Read(d, pos)
  PROVE  Carried(d, pos, r)
<1>1. d.head.block \in Nat /\ Len(d.recs[d.head.partition]) \in 0 .. Capacity
  BY HeadFits, LengthsNat
<1>2. CASE r = Result(d, pos, "error")
  BY <1>2 DEF Result, Carried, SameTape
<1>3. CASE d.head.block < Len0(d)
           /\ r = Result([d EXCEPT !.head.block = d.head.block + 1], [pos EXCEPT !.block = pos.block + 1], "ok")
  <2> DEFINE e == [d EXCEPT !.head.block = d.head.block + 1]
             q == [pos EXCEPT !.block = pos.block + 1]
  <2>1. d.head.block + 1 \in 0 .. Len(d.recs[d.head.partition])
    BY <1>1, <1>3 DEF Len0
  <2>2. Sound(e) /\ SameTape(d, e)
    BY <2>1, BlockMoved
  <2>3. e.head.partition = d.head.partition /\ e.head.block = d.head.block + 1
    BY DEF Sound, Drives, Heads
  <2>4. pos.block \in Nat /\ pos.block + 1 \in Nat /\ pos.block + 1 <= Capacity
    BY <1>1, <1>3, EodNat DEF Near, Len0, Positions
  <2>5. pos.block + 1 \in 0 .. EOD
    BY <2>4, BlockFits
  <2>6. q \in Positions /\ q.partition = pos.partition /\ q.block = pos.block + 1
    BY <2>5 DEF Positions
  <2>7. Near(q, e)
    BY <1>1, <2>3, <2>4, <2>6 DEF Near
  <2> HIDE DEF e, q
  <2>8. r.drv = e /\ r.pos = q
    BY <1>3 DEF Result, e, q
  <2>9. QED
    BY <2>2, <2>6, <2>7, <2>8 DEF Carried
<1>4. ASSUME d.head.block < Len0(d), NEW e \in Faulty(d),
             r \in {Result(e, pos, "error"), Result([e EXCEPT !.head.block = d.head.block + 1], pos, "error")}
      PROVE  Carried(d, pos, r)
  <2>1. Sound(e) /\ SameTape(d, e) /\ e.head = d.head /\ r.pos = pos
    BY <1>4, FaultySound DEF Result
  <2>2. CASE r.drv = e
    BY <2>1, <2>2 DEF Carried, Near
  <2>3. CASE r.drv = [e EXCEPT !.head.block = d.head.block + 1]
    <3>1. d.head.block + 1 \in 0 .. Len(e.recs[e.head.partition])
      BY <1>1, <1>4, <2>1 DEF Len0, SameTape
    <3>2. Sound(r.drv) /\ SameTape(e, r.drv)
      BY <2>1, <2>3, <3>1, BlockMoved
    <3>3. r.drv.head.partition = d.head.partition /\ r.drv.head.block = d.head.block + 1
      BY <2>1, <2>3 DEF Sound, Drives, Heads
    <3>4. pos.block \in Nat
      BY EodNat DEF Positions
    <3>5. QED
      BY <1>1, <2>1, <3>2, <3>3, <3>4, StillSame DEF Carried, Near
  <2>4. QED
    BY <1>4, <2>2, <2>3 DEF Result
<1>5. QED
  <2>1. CASE r \in TransferError(d, pos)
    BY <1>4, <2>1 DEF TransferError
  <2>2. CASE r \notin TransferError(d, pos)
    BY <1>1, <1>2, <1>3, <2>2 DEF Read, Len0
  <2>3. QED
    BY <2>1, <2>2

\* A record was written at the head: it is the last of its partition now, and if
\* the head was at the end none is lost.
Wrote(d, e) ==
  /\ Sound(e) /\ (e.cart = "out" <=> d.cart = "out")
  /\ e.head.partition = d.head.partition /\ e.head.block = d.head.block + 1
  /\ Len(e.recs[d.head.partition]) = d.head.block + 1
  /\ \A q \in Partition : q # d.head.partition => e.recs[q] = d.recs[q]
  /\ d.head.block = Len(d.recs[d.head.partition])
       => IsPrefix(d.recs[d.head.partition], e.recs[d.head.partition])

LEMMA RecordedWrote ==
  ASSUME NEW d, Sound(d), d.head.block < Capacity, NEW fm \in BOOLEAN
  PROVE  Wrote(d, Recorded(d, fm))
<1> DEFINE p == d.head.partition
           s == SubSeq(d.recs[p], 1, d.head.block)
           x == [fm |-> fm, id |-> d.stamp]
           t == Append(s, x)
           e == Recorded(d, fm)
<1>1. /\ p \in Partition /\ d.head.block \in Nat /\ d.recs \in [Partition -> Seq(Records)]
      /\ d.head.block <= Len(d.recs[p]) /\ d \in Drives /\ Capacity \in Nat /\ x \in Records
  BY EodNat DEF Sound, Drives, Heads, Records
<1>2. d.recs[p] \in Seq(Records)
  BY <1>1
<1>3. s \in Seq(Records) /\ Len(s) = d.head.block
  BY <1>1, <1>2
<1>4. t \in Seq(Records) /\ Len(t) = d.head.block + 1
  BY <1>1, <1>3
<1>5. d.head.block = Len(d.recs[p]) => IsPrefix(d.recs[p], t)
  <2>1. ASSUME d.head.block = Len(d.recs[p]) PROVE s = d.recs[p]
    BY <1>2, <2>1
  <2>2. ASSUME d.head.block = Len(d.recs[p]) PROVE SubSeq(t, 1, Len(d.recs[p])) = SubSeq(d.recs[p], 1, Len(d.recs[p]))
    <3>1. t = Append(d.recs[p], x)
      BY <2>1, <2>2
    <3> HIDE DEF t, s
    <3>2. QED
      BY <1>1, <1>2, <3>1
  <2>3. QED
    BY <1>1, <1>4, <2>2 DEF IsPrefix
<1> HIDE DEF s, x, t
<1>6. e = [d EXCEPT !.recs[p] = t, !.head.block = d.head.block + 1, !.stamp = d.stamp + 1]
  BY DEF Recorded, t, s, x
<1>7. /\ e.head = [d.head EXCEPT !.block = d.head.block + 1] /\ e.recs = [d.recs EXCEPT ![p] = t]
      /\ e.mam = d.mam /\ e.cart = d.cart /\ e.stamp = d.stamp + 1
  BY <1>1, <1>6 DEF Drives
<1> HIDE DEF e
<1>8. e.head \in Heads /\ e.head.partition = p /\ e.head.block = d.head.block + 1
  <2>1. d.head \in Heads
    BY <1>1 DEF Drives
  <2>2. QED
    BY <1>1, <1>7, <2>1 DEF Heads
<1>9. /\ e.recs \in [Partition -> Seq(Records)] /\ e.recs[p] = t
      /\ \A q \in Partition : q # p => e.recs[q] = d.recs[q]
  BY <1>1, <1>4, <1>7
<1>10. e \in Drives
  <2>1. d.stamp + 1 \in Nat
    BY <1>1 DEF Drives
  <2>2. QED
    BY <1>1, <1>6, <1>7, <1>8, <1>9, <2>1 DEF Drives
<1>11. Sound(e)
  <2>1. ASSUME NEW q \in Partition PROVE Len(e.recs[q]) <= Capacity
    <3>1. Len(d.recs[q]) <= Capacity
      BY DEF Sound
    <3>2. CASE q = p
      <4>1. Len(e.recs[q]) = d.head.block + 1
        BY <1>4, <1>9, <3>2
      <4>2. QED
        BY <1>1, <4>1
    <3>3. CASE q # p
      BY <1>9, <3>1, <3>3
    <3>4. QED
      BY <3>2, <3>3
  <2>2. e.head.block <= Len(e.recs[e.head.partition])
    BY <1>1, <1>4, <1>8, <1>9
  <2>3. QED
    BY <1>10, <2>1, <2>2 DEF Sound
<1>12. QED
  BY <1>1, <1>4, <1>5, <1>7, <1>8, <1>9, <1>11 DEF Wrote, e

LEMMA WarnedWrote ==
  ASSUME NEW d, NEW e, Wrote(d, e), NEW f, f = EarlyWarned(e) \/ f = [EarlyWarned(e) EXCEPT !.eweom = "after"]
  PROVE  Wrote(d, f)
<1>1. e \in Drives
  BY DEF Wrote, Sound
<1>2. PICK w \in {"before", "report", "after"} : f = [e EXCEPT !.eweom = w]
  BY <1>1 DEF EarlyWarned, Drives
<1>3. f \in Drives /\ f.head = e.head /\ f.recs = e.recs /\ f.mam = e.mam /\ f.cart = e.cart
  BY <1>1, <1>2 DEF Drives
<1>4. QED
  BY <1>3 DEF Wrote, Sound

LEMMA WriteLands ==
  ASSUME NEW d, Sound(d), NEW pos \in Positions, Near(pos, d), NEW r \in Write(d, pos)
  PROVE  \/ /\ r.rc = "ok" /\ Wrote(d, r.drv)
            /\ r.pos \in Positions /\ r.pos.partition = pos.partition /\ r.pos.block = pos.block + 1
         \/ /\ r.rc = "error" /\ r.pos = pos
            /\ Wrote(d, r.drv) \/ (Sound(r.drv) /\ SameTape(d, r.drv) /\ r.drv.head = d.head)
<1> DEFINE w == EarlyWarned(Recorded(d, FALSE))
           told == w.eweom = "report"
           e == IF told THEN [w EXCEPT !.eweom = "after"] ELSE w
           q == [pos EXCEPT !.block = pos.block + 1, !.ew = pos.ew \/ told]
<1>1. CASE r = Result(d, pos, "error")
  BY <1>1 DEF Result, SameTape
<1>2. CASE d.head.block < Capacity /\ r = Result(e, q, "ok")
  <2>1. Wrote(d, e)
    BY <1>2, RecordedWrote, WarnedWrote
  <2>2. pos.block \in Nat /\ pos.block + 1 \in Nat /\ pos.block + 1 <= Capacity
    BY <1>2, HeadFits, EodNat DEF Near, Positions
  <2>3. pos.block + 1 \in 0 .. EOD
    BY <2>2, BlockFits
  <2> HIDE DEF e, w
  <2>4. q \in Positions /\ q.partition = pos.partition /\ q.block = pos.block + 1
    BY <2>3 DEF Positions
  <2> HIDE DEF q
  <2>5. r.drv = e /\ r.pos = q /\ r.rc = "ok"
    BY <1>2 DEF Result
  <2>6. QED
    BY <2>1, <2>4, <2>5
<1>3. CASE d.head.block < Capacity /\ r \in WriteError(d, pos)
  <2>1. PICK f \in Faulty(d) : r \in {Result(f, pos, "error"), Result(Recorded(f, FALSE), pos, "error")}
    BY <1>3 DEF WriteError
  <2>2. Sound(f) /\ SameTape(d, f) /\ f.head = d.head
    BY FaultySound
  <2>3. Wrote(f, Recorded(f, FALSE))
    BY <1>3, <2>2, RecordedWrote
  <2>4. Wrote(d, Recorded(f, FALSE))
    BY <2>2, <2>3 DEF Wrote, SameTape
  <2>5. r.rc = "error" /\ r.pos = pos /\ r.drv \in {f, Recorded(f, FALSE)}
    <3> DEFINE g == Recorded(f, FALSE)
    <3> HIDE DEF g
    <3>1. r = Result(f, pos, "error") \/ r = Result(g, pos, "error")
      BY <2>1 DEF g
    <3>2. r.rc = "error" /\ r.pos = pos /\ r.drv \in {f, g}
      BY <3>1 DEF Result
    <3>3. QED
      BY <3>2 DEF g
  <2>6. QED
    BY <2>2, <2>4, <2>5
<1>4. d.head.block >= Capacity \/ d.head.block < Capacity
  BY HeadFits, EodNat
<1>5. QED
  <2> DEFINE good == {Result(IF told THEN [w EXCEPT !.eweom = "after"] ELSE w,
                             [pos EXCEPT !.block = pos.block + 1, !.ew = pos.ew \/ told], "ok")}
  <2>1. r \in IF d.head.block >= Capacity \/ Protected(d) THEN {Result(d, pos, "error")} ELSE good \cup WriteError(d, pos)
    BY DEF Write
  <2> HIDE DEF w
  <2>2. r = Result(d, pos, "error") \/ (~(d.head.block >= Capacity) /\ (r = Result(e, q, "ok") \/ r \in WriteError(d, pos)))
    BY <2>1
  <2> HIDE DEF e, q, told
  <2>3. QED
    BY <1>1, <1>2, <1>3, <1>4, <2>2

\* A file mark is a record; the position is read back before and after it.
LEMMA WriteFmLands ==
  ASSUME ~Unreadable, NEW d, Sound(d), NEW pos \in Positions, NEW r \in WriteFm(d, pos)
  PROVE  \/ r.rc = "ok" /\ Wrote(d, r.drv) /\ r.pos \in Positions /\ At(r.pos, r.drv)
         \/ r.rc = "error" /\ Landed(d, pos, r)
<1> DEFINE here == [pos EXCEPT !.partition = d.head.partition, !.block = d.head.block]
           q == Result(d, here, "ok")
           e == EarlyWarned(Recorded(d, TRUE))
<1>1. ReadPosition(d, pos) = {q}
  BY DEF ReadPosition
<1>2. here \in Positions /\ At(here, d) /\ here.ew = pos.ew /\ here.pew = pos.pew
  BY HeadFits DEF Positions, At
<1> HIDE DEF here
<1>3. q.drv = d /\ q.pos = here /\ q.rc = "ok"
  BY DEF Result
<1>4. SameTape(d, d)
  BY DEF SameTape
<1>5. CASE r = [q EXCEPT !.rc = "error"]
  <2>1. r.drv = d /\ r.pos = here /\ r.rc = "error"
    BY <1>5 DEF Result
  <2>2. QED
    BY <1>2, <1>4, <2>1 DEF Landed
<1>6. CASE r \in Reposition(d, here, "error")
  <2>1. Landed(d, here, r) /\ r = Result(d, r.pos, "error")
    BY <1>2, <1>4, <1>6, MovedLands
  <2>2. r.rc = "error"
    BY <2>1 DEF Result
  <2>3. QED
    BY <1>2, <2>1, <2>2 DEF Landed
<1>7. CASE d.head.block < Capacity /\ r \in Reposition(e, here, "ok")
  <2>1. Wrote(d, e)
    BY <1>7, RecordedWrote, WarnedWrote
  <2>2. Sound(e) /\ SameTape(e, e)
    BY <2>1 DEF Wrote, SameTape
  <2> HIDE DEF e, q
  <2>3. Landed(e, here, r) /\ r = Result(e, r.pos, "ok")
    BY <1>2, <1>7, <2>2, MovedLands
  <2>4. r.drv = e /\ r.rc = "ok"
    BY <2>3 DEF Result
  <2>5. QED
    BY <2>1, <2>3, <2>4 DEF Landed
<1>8. CASE r \in UNION {Reposition(f, here, "error") : f \in Faulty(d)}
  <2>1. Landed(d, here, r) /\ r.rc = "error"
    BY <1>2, <1>8, FailedLands
  <2>2. QED
    BY <1>2, <2>1 DEF Landed
<1>9. d.head.block >= Capacity \/ d.head.block < Capacity
  BY HeadFits, EodNat
<1>10. r \in IF q.rc # "ok" \/ q.pos.block = 0 THEN {[q EXCEPT !.rc = "error"]}
             ELSE (IF q.drv.head.block >= Capacity \/ Protected(q.drv) THEN Reposition(q.drv, q.pos, "error")
                   ELSE Reposition(EarlyWarned(Recorded(q.drv, TRUE)), q.pos, "ok"))
                  \cup UNION {Reposition(f, q.pos, "error") : f \in Faulty(q.drv)}
  <2> HIDE DEF q
  <2>1. QED
    BY <1>1 DEF WriteFm
<1>11. r \in IF here.block = 0 THEN {[q EXCEPT !.rc = "error"]}
             ELSE (IF d.head.block >= Capacity \/ Protected(d) THEN Reposition(d, here, "error")
                   ELSE Reposition(e, here, "ok"))
                  \cup UNION {Reposition(f, here, "error") : f \in Faulty(d)}
  <2> HIDE DEF q
  <2>1. QED
    BY <1>3, <1>10
<1> HIDE DEF q, e
<1>12. QED
  BY <1>5, <1>6, <1>7, <1>8, <1>9, <1>11

\* Erasing cuts off what is behind the head.
LEMMA EraseLands ==
  ASSUME ~Unreadable, NEW d, Sound(d), NEW pos \in Positions, NEW r \in Erase(d, pos)
  PROVE  /\ Sound(r.drv) /\ r.drv.stamp = d.stamp /\ r.drv.mam = d.mam
         /\ (r.drv.cart = "out" <=> d.cart = "out")
         /\ r.pos \in Positions /\ At(r.pos, r.drv)
<1> DEFINE p == d.head.partition
           s == SubSeq(d.recs[p], 1, d.head.block)
           e == [d EXCEPT !.recs[p] = s]
<1>1. /\ p \in Partition /\ d.head.block \in Nat /\ d.recs \in [Partition -> Seq(Records)]
      /\ d.head.block <= Len(d.recs[p]) /\ d \in Drives /\ Capacity \in Nat /\ d.recs[p] \in Seq(Records)
  BY EodNat DEF Sound, Drives, Heads
<1>2. s \in Seq(Records) /\ Len(s) = d.head.block
  BY <1>1
<1> HIDE DEF s
<1>3. e \in Drives /\ e.recs = [d.recs EXCEPT ![p] = s] /\ e.head = d.head
      /\ e.stamp = d.stamp /\ e.mam = d.mam /\ e.cart = d.cart
  BY <1>1, <1>2 DEF Drives
<1> HIDE DEF e
<1>4. Sound(e)
  <2>1. ASSUME NEW q \in Partition PROVE Len(e.recs[q]) <= Capacity
    <3>1. Len(d.recs[q]) <= Capacity /\ Len(d.recs[p]) <= Capacity /\ Len(d.recs[p]) \in Nat
      BY <1>1, LengthsNat DEF Sound
    <3>2. QED
      BY <1>1, <1>2, <1>3, <3>1
  <2>2. e.head.block <= Len(e.recs[e.head.partition])
    BY <1>1, <1>2, <1>3
  <2>3. QED
    BY <1>3, <2>1, <2>2 DEF Sound
<1>5. CASE r \in Reposition(e, pos, "ok")
  <2>1. Landed(e, pos, r) /\ r = Result(e, r.pos, "ok")
    BY <1>4, <1>5, MovedLands DEF SameTape
  <2>2. r.drv = e
    BY <2>1 DEF Result
  <2>3. QED
    BY <1>3, <2>1, <2>2 DEF Landed
<1>6. CASE r \in UNION {Reposition(f, pos, "error") : f \in Faulty(d)}
  BY <1>6, FailedLands DEF Landed, SameTape
<1>7. QED
  BY <1>5, <1>6 DEF Erase, e, s

\* Formatting empties both partitions, or does nothing.
LEMMA FormatLands ==
  ASSUME NEW d, Sound(d), NEW format, NEW pos, NEW r \in Format(d, format, pos)
  PROVE  /\ Sound(r.drv) /\ r.drv.stamp = d.stamp /\ r.drv.mam.ewstate = d.mam.ewstate
         /\ (r.drv.cart = "out" <=> d.cart = "out") /\ r.pos = pos
         /\ r.rc = "ok" => r.drv.recs[1] = <<>> /\ r.drv.head = [partition |-> 0, block |-> 0]
         /\ r.rc # "ok" => r.drv.recs = d.recs /\ r.drv.head = d.head
<1> DEFINE none == [p \in Partition |-> <<>>]
           start == [partition |-> 0, block |-> 0]
           blank == [d EXCEPT !.recs = none, !.head = start]
<1>1. d \in Drives /\ none \in [Partition -> Seq(Records)] /\ start \in Heads
      /\ (\A p \in Partition : Len(none[p]) = 0) /\ none[1] = <<>>
      /\ start = [partition |-> 0, block |-> 0]
  BY DEF Sound, Heads, Partition
<1> HIDE DEF none, start
<1>2. blank \in Drives /\ blank.recs = none /\ blank.head = start /\ blank.stamp = d.stamp
      /\ blank.mam = d.mam /\ blank.cart = d.cart
  BY <1>1 DEF Drives
<1>3. Sound(blank)
  BY <1>1, <1>2, EodNat DEF Sound, Heads, start, Partition
<1> HIDE DEF blank
<1>4. ASSUME NEW e \in SetMAMattributes(blank, format)
      PROVE  /\ Sound(e) /\ e.stamp = d.stamp /\ e.mam.ewstate = d.mam.ewstate /\ (e.cart = "out" <=> d.cart = "out")
             /\ e.recs = none /\ e.head = start
  <2>1. blank.mam \in [lock : Locks, ewstate : {"clear", "set"}, app : BOOLEAN]
    BY <1>2 DEF Drives
  <2>2. CASE e = [blank EXCEPT !.mam.lock = "unlocked", !.mam.app = format # "default"]
    <3>1. e.mam = [blank.mam EXCEPT !.lock = "unlocked", !.app = format # "default"]
      BY <1>2, <2>2 DEF Drives
    <3>2. e.mam \in [lock : Locks, ewstate : {"clear", "set"}, app : BOOLEAN] /\ e.mam.ewstate = blank.mam.ewstate
      BY <2>1, <3>1 DEF Locks
    <3>3. e = [blank EXCEPT !.mam = e.mam]
      BY <1>2, <2>2 DEF Drives
    <3>4. QED
      BY <1>2, <1>3, <3>2, <3>3 DEF Drives, Sound
  <2>3. CASE e \in {[f EXCEPT !.mam.app = format # "default"] : f \in Faulty(blank)}
    <3>1. PICK f \in Faulty(blank) : e = [f EXCEPT !.mam.app = format # "default"]
      BY <2>3
    <3>2. Sound(f) /\ SameTape(blank, f) /\ f.head = blank.head
      BY <1>3, FaultySound
    <3>3. f \in Drives /\ f.mam = blank.mam
      BY <3>2 DEF Sound, SameTape
    <3>4. e.mam = [f.mam EXCEPT !.app = format # "default"] /\ e = [f EXCEPT !.mam = e.mam]
      BY <3>1, <3>3 DEF Drives
    <3>5. e.mam \in [lock : Locks, ewstate : {"clear", "set"}, app : BOOLEAN] /\ e.mam.ewstate = blank.mam.ewstate
      BY <2>1, <3>3, <3>4
    <3>6. e \in Drives /\ e.head = f.head /\ e.recs = f.recs /\ e.stamp = f.stamp /\ e.cart = f.cart
      BY <3>3, <3>4, <3>5 DEF Drives
    <3>7. QED
      BY <1>2, <3>2, <3>5, <3>6 DEF Sound, SameTape
  <2>4. QED
    BY <2>2, <2>3 DEF SetMAMattributes
<1>5. CASE \E e \in SetMAMattributes(blank, format) : r = Result(e, pos, "ok")
  <2>1. PICK e \in SetMAMattributes(blank, format) : r = Result(e, pos, "ok")
    BY <1>5
  <2>2. r.drv = e /\ r.pos = pos /\ r.rc = "ok"
    BY <2>1 DEF Result
  <2>3. QED
    BY <1>1, <1>4, <2>2
<1>6. CASE \E e \in Faulty(d) : r = Result(e, pos, "error")
  <2>1. PICK e \in Faulty(d) : r = Result(e, pos, "error")
    BY <1>6
  <2>2. r.drv = e /\ r.pos = pos /\ r.rc = "error"
    BY <2>1 DEF Result
  <2>3. QED
    BY <2>2, FaultySound DEF SameTape
<1>7. QED
  BY <1>5, <1>6 DEF Format, blank, none, start

-----------------------------------------------------------------------------
(* Calls that leave the tape and the append positions as they were.        *)

Keeps(v, d, w, e) ==
  /\ w \in Devices /\ Sound(e) /\ SameTape(d, e)
  /\ w.append_pos = v.append_pos /\ w.write_error = v.write_error
  /\ w.open = v.open /\ w.ready = v.ready
  /\ v.partition_space[1] = "no" => w.partition_space[1] = "no"
  /\ Near(v.position, d) => Near(w.position, e)

LEMMA KeepsOn ==
  ASSUME NEW v, NEW d, NEW w, NEW e, NEW u, NEW f, Keeps(v, d, w, e), Keeps(w, e, u, f)
  PROVE  Keeps(v, d, u, f)
  BY StillSame DEF Keeps

LEMMA KeepsSelf ==
  ASSUME NEW v \in Devices, NEW d, Sound(d)
  PROVE  Keeps(v, d, v, d)
  BY DEF Keeps, SameTape

\* Flags of struct device_data that no property is about.
LEMMA FlagKeeps ==
  ASSUME NEW v \in Devices, NEW d, NEW e, Quiet(d, e), NEW b \in BOOLEAN, NEW w,
         \/ w = v
         \/ w = [v EXCEPT !.device_reserved = b]
         \/ w = [v EXCEPT !.medium_locked = b]
         \/ w = [v EXCEPT !.append_only_mode = b]
  PROVE  Keeps(v, d, w, e)
<1>1. /\ w \in Devices /\ w.append_pos = v.append_pos /\ w.write_error = v.write_error /\ w.open = v.open
      /\ w.ready = v.ready /\ w.partition_space = v.partition_space /\ w.position = v.position
  BY DEF Devices
<1>2. QED
  BY <1>1 DEF Keeps, Quiet, Near

LEMMA QuietFlags ==
  ASSUME NEW d, Sound(d), NEW b \in BOOLEAN
  PROVE  /\ Quiet(d, d) /\ Quiet(d, [d EXCEPT !.reserved = b]) /\ Quiet(d, [d EXCEPT !.prevent = b])
         /\ Quiet(d, [d EXCEPT !.aom = b])
         /\ \A n \in Nat : Quiet(d, [d EXCEPT !.allowed = n])
  BY DEF Quiet, Sound, SameTape, Drives

LEMMA ReserveKeeps ==
  ASSUME NEW v \in Devices, NEW d, Sound(d), NEW x \in Reserve(v, d)
  PROVE  Keeps(v, d, x[1], x[2])
<1>1. CASE x = <<v, d, "ok">>
  BY <1>1, KeepsSelf
<1>2. CASE \E r \in ReserveUnit(d) : x = <<[v EXCEPT !.device_reserved = r.rc = "ok"], r.drv, r.rc>>
  <2>1. PICK r \in ReserveUnit(d) : x = <<[v EXCEPT !.device_reserved = r.rc = "ok"], r.drv, r.rc>>
    BY <1>2
  <2>2. Quiet(d, r.drv)
    BY QuietFlags, SimpleQuiet DEF ReserveUnit
  <2>3. QED
    BY <2>1, <2>2, FlagKeeps
<1>3. QED
  BY <1>1, <1>2 DEF Reserve, SetFlag

LEMMA ReleaseKeeps ==
  ASSUME NEW v \in Devices, NEW d, Sound(d), NEW x \in Release(v, d)
  PROVE  Keeps(v, d, x[1], x[2])
<1>1. CASE x = <<v, d, "ok">>
  BY <1>1, KeepsSelf
<1>2. CASE \E r \in ReleaseUnit(d) : x = <<[v EXCEPT !.device_reserved = ~(r.rc = "ok")], r.drv, r.rc>>
  <2>1. PICK r \in ReleaseUnit(d) : x = <<[v EXCEPT !.device_reserved = ~(r.rc = "ok")], r.drv, r.rc>>
    BY <1>2
  <2>2. Quiet(d, r.drv)
    BY QuietFlags, SimpleQuiet DEF ReleaseUnit
  <2>3. QED
    BY <2>1, <2>2, FlagKeeps
<1>3. QED
  BY <1>1, <1>2 DEF Release, SetFlag

LEMMA PreventKeeps ==
  ASSUME NEW v \in Devices, NEW d, Sound(d), NEW x \in Prevent(v, d)
  PROVE  Keeps(v, d, x[1], x[2])
<1>1. CASE x = <<v, d, "ok">>
  BY <1>1, KeepsSelf
<1>2. CASE \E r \in PreventRemoval(d) : x = <<[v EXCEPT !.medium_locked = r.rc = "ok"], r.drv, r.rc>>
  <2>1. PICK r \in PreventRemoval(d) : x = <<[v EXCEPT !.medium_locked = r.rc = "ok"], r.drv, r.rc>>
    BY <1>2
  <2>2. Quiet(d, r.drv)
    BY QuietFlags, SimpleQuiet DEF PreventRemoval
  <2>3. QED
    BY <2>1, <2>2, FlagKeeps
<1>3. QED
  BY <1>1, <1>2 DEF Prevent, SetFlag

LEMMA AllowKeeps ==
  ASSUME NEW v \in Devices, NEW d, Sound(d), NEW force, NEW x \in Allow(v, d, force)
  PROVE  Keeps(v, d, x[1], x[2])
<1>1. CASE x = <<v, d, "ok">>
  BY <1>1, KeepsSelf
<1>2. CASE \E r \in AllowRemoval(d) : x = <<[v EXCEPT !.medium_locked = ~(r.rc = "ok")], r.drv, r.rc>>
  <2>1. PICK r \in AllowRemoval(d) : x = <<[v EXCEPT !.medium_locked = ~(r.rc = "ok")], r.drv, r.rc>>
    BY <1>2
  <2>2. Quiet(d, r.drv)
    BY QuietFlags, SimpleQuiet DEF AllowRemoval
  <2>3. QED
    BY <2>1, <2>2, FlagKeeps
<1>3. QED
  BY <1>1, <1>2 DEF Allow, SetFlag

\* The position a command leaves is the one that is remembered.
LEMMA TookKeeps ==
  ASSUME NEW v \in Devices, NEW d, NEW r, Carried(d, v.position, r)
  PROVE  Keeps(v, d, Took(v, r), r.drv) /\ Took(v, r).position = r.pos
<1>1. /\ Took(v, r) \in Devices /\ Took(v, r).position = r.pos
      /\ Took(v, r).append_pos = v.append_pos /\ Took(v, r).write_error = v.write_error
      /\ Took(v, r).open = v.open /\ Took(v, r).ready = v.ready
      /\ Took(v, r).partition_space = v.partition_space
  BY DEF Took, Devices, Carried
<1>2. QED
  BY <1>1 DEF Keeps, Carried

LEMMA PositionHere ==
  ASSUME NEW v \in Devices
  PROVE  v.position \in Positions
  BY DEF Devices

LEMMA SelectKeeps ==
  ASSUME NEW v \in Devices, NEW d, Sound(d), NEW on \in BOOLEAN, NEW r \in ModeSelectAom(d, on), NEW w,
         w = v \/ (\E b \in BOOLEAN : w = [v EXCEPT !.append_only_mode = b])
  PROVE  Keeps(v, d, w, r.drv)
<1>1. Quiet(d, r.drv)
  BY QuietFlags, SimpleQuiet DEF ModeSelectAom
<1>2. QED
  BY <1>1, FlagKeeps

\* Loading once more to leave the append-only mode.
LEMMA ReloadKeeps ==
  ASSUME ~Unreadable, NEW v \in Devices, NEW d, Sound(d), NEW r \in Load(d, v.position), NEW w,
         w = [v EXCEPT !.position = r.pos, !.append_only_mode = r.rc # "ok" /\ v.append_only_mode]
  PROVE  Keeps(v, d, w, r.drv)
<1>1. Carried(d, v.position, r)
  BY LoadCarries, PositionHere
<1>2. Keeps(v, d, Took(v, r), r.drv) /\ Took(v, r) \in Devices
  BY <1>1, TookKeeps DEF Keeps
<1> DEFINE b == r.rc # "ok" /\ v.append_only_mode
<1>3. b \in BOOLEAN
  OBVIOUS
<1> HIDE DEF b
<1>4. w = [Took(v, r) EXCEPT !.append_only_mode = b]
  BY DEF Took, Devices, b
<1>5. Quiet(r.drv, r.drv)
  BY <1>1, QuietFlags DEF Carried
<1>6. Keeps(Took(v, r), r.drv, w, r.drv)
  BY <1>2, <1>3, <1>4, <1>5, FlagKeeps
<1>7. QED
  BY <1>2, <1>6, KeepsOn

LEMMA AomKeeps ==
  ASSUME ~Unreadable, NEW v \in Devices, NEW d, Sound(d), NEW on \in BOOLEAN, NEW x \in SetAom(v, d, on)
  PROVE  Keeps(v, d, x[1], x[2])
<1> DEFINE Select(w, e) == {<<IF r.rc = "ok" THEN [w EXCEPT !.append_only_mode = on] ELSE w, r.drv, r.rc>>
                              : r \in ModeSelectAom(e, on)}
           Moved(results) == {<<Took(v, r), r.drv, IF r.rc = "nomedium" THEN "error" ELSE r.rc>> : r \in results}
           Off(w, e) == {<<w, r.drv, r.rc>> : r \in ModeSelectAom(e, FALSE)}
           Again(w, e) == {<<[w EXCEPT !.position = r.pos, !.append_only_mode = r.rc # "ok" /\ w.append_only_mode],
                             r.drv, r.rc>> : r \in Load(e, w.position)}
<1>1. ASSUME NEW w \in Devices, NEW e, Sound(e), NEW y \in Select(w, e)
      PROVE  Keeps(w, e, y[1], y[2])
  <2>1. PICK r \in ModeSelectAom(e, on) :
          y = <<IF r.rc = "ok" THEN [w EXCEPT !.append_only_mode = on] ELSE w, r.drv, r.rc>>
    BY <1>1
  <2>2. y[1] = w \/ (\E b \in BOOLEAN : y[1] = [w EXCEPT !.append_only_mode = b])
    BY <2>1
  <2>3. y[2] = r.drv
    BY <2>1
  <2>4. QED
    BY <1>1, <2>2, <2>3, SelectKeeps
<1>2. ASSUME d.cart = "loaded", NEW y \in Moved(Load(d, v.position)) PROVE Keeps(v, d, y[1], y[2])
  <2>1. PICK r \in Load(d, v.position) : y[1] = Took(v, r) /\ y[2] = r.drv
    BY <1>2
  <2>2. Carried(d, v.position, r)
    BY LoadCarries, PositionHere
  <2>3. QED
    BY <2>1, <2>2, TookKeeps
<1>3. ASSUME d.cart = "loaded", NEW y \in Moved(Unload(d, v.position)) PROVE Keeps(v, d, y[1], y[2])
  <2>1. PICK r \in Unload(d, v.position) : y[1] = Took(v, r) /\ y[2] = r.drv
    BY <1>3
  <2>2. Carried(d, v.position, r)
    BY <1>3, UnloadLands, LandedCarried, PositionHere
  <2>3. QED
    BY <2>1, <2>2, TookKeeps
<1>4. ASSUME NEW w \in Devices, NEW e, Sound(e), NEW y \in Off(w, e) PROVE Keeps(w, e, y[1], y[2])
  <2>1. PICK r \in ModeSelectAom(e, FALSE) : y = <<w, r.drv, r.rc>>
    BY <1>4
  <2>2. y[1] = w /\ y[2] = r.drv
    BY <2>1
  <2>3. QED
    BY <1>4, <2>2, SelectKeeps
<1>5. ASSUME NEW w \in Devices, NEW e, Sound(e), NEW y \in Again(w, e) PROVE Keeps(w, e, y[1], y[2])
  <2>1. PICK r \in Load(e, w.position) :
          y = <<[w EXCEPT !.position = r.pos, !.append_only_mode = r.rc # "ok" /\ w.append_only_mode], r.drv, r.rc>>
    BY <1>5
  <2>2. /\ y[1] = [w EXCEPT !.position = r.pos, !.append_only_mode = r.rc # "ok" /\ w.append_only_mode]
        /\ y[2] = r.drv
    BY <2>1
  <2>3. QED
    BY <1>5, <2>2, ReloadKeeps
<1>6. \/ x \in Select(v, d)
      \/ d.cart = "loaded" /\ x \in Then(Moved(Load(d, v.position)), Select)
      \/ d.cart = "loaded" /\ x \in Then(Then(Moved(Unload(d, v.position)), Off), Again)
  BY DEF SetAom
<1> HIDE DEF Select, Moved, Off, Again
<1>7. CASE x \in Select(v, d)
  BY <1>1, <1>7
<1>8. CASE d.cart = "loaded" /\ x \in Then(Moved(Load(d, v.position)), Select)
  <2>1. PICK y \in Moved(Load(d, v.position)) : x = y \/ x \in Select(y[1], y[2])
    BY <1>8 DEF Then
  <2>2. Keeps(v, d, y[1], y[2]) /\ y[1] \in Devices /\ Sound(y[2])
    BY <1>2, <1>8 DEF Keeps
  <2>3. CASE x \in Select(y[1], y[2])
    <3>1. Keeps(y[1], y[2], x[1], x[2])
      BY <1>1, <2>2, <2>3
    <3>2. QED
      BY <2>2, <3>1, KeepsOn
  <2>4. QED
    BY <2>1, <2>2, <2>3
<1>9. CASE d.cart = "loaded" /\ x \in Then(Then(Moved(Unload(d, v.position)), Off), Again)
  <2>1. PICK z \in Then(Moved(Unload(d, v.position)), Off) : x = z \/ x \in Again(z[1], z[2])
    BY <1>9 DEF Then
  <2>2. PICK y \in Moved(Unload(d, v.position)) : z = y \/ z \in Off(y[1], y[2])
    BY <2>1 DEF Then
  <2>3. Keeps(v, d, y[1], y[2]) /\ y[1] \in Devices /\ Sound(y[2])
    BY <1>3, <1>9, <2>2 DEF Keeps
  <2>4. Keeps(v, d, z[1], z[2]) /\ z[1] \in Devices /\ Sound(z[2])
    <3>1. CASE z \in Off(y[1], y[2])
      <4>1. Keeps(y[1], y[2], z[1], z[2])
        BY <1>4, <2>3, <3>1
      <4>2. QED
        BY <2>3, <4>1, KeepsOn DEF Keeps
    <3>2. QED
      BY <2>2, <2>3, <3>1
  <2>5. CASE x \in Again(z[1], z[2])
    <3>1. Keeps(z[1], z[2], x[1], x[2])
      BY <1>5, <2>4, <2>5
    <3>2. QED
      BY <2>4, <3>1, KeepsOn
  <2>6. QED
    BY <2>1, <2>4, <2>5
<1>10. QED
  BY <1>6, <1>7, <1>8, <1>9

-----------------------------------------------------------------------------
(* Positioning.                                                            *)

LEMMA NoteKeeps ==
  ASSUME NEW v \in Devices, NEW d, Sound(d)
  PROVE  Keeps(v, d, NoteWarning(v), d) /\ NoteWarning(v).position = v.position
<1> DEFINE p == v.position.partition
           s == IF v.position.ew THEN "no"
                ELSE IF v.partition_space[p] # "no" /\ v.position.pew THEN "less" ELSE v.partition_space[p]
<1>1. p \in Partition /\ v.partition_space \in [Partition -> Space3]
  BY DEF Devices, Positions
<1>2. s \in Space3 /\ (v.partition_space[p] = "no" => s = "no")
  BY <1>1 DEF Space3
<1>3. NoteWarning(v) = [v EXCEPT !.partition_space[p] = s]
  BY DEF NoteWarning
<1> HIDE DEF p, s
<1>4. /\ NoteWarning(v) \in Devices
      /\ NoteWarning(v).partition_space = [v.partition_space EXCEPT ![p] = s]
      /\ NoteWarning(v).position = v.position /\ NoteWarning(v).append_pos = v.append_pos
      /\ NoteWarning(v).write_error = v.write_error
      /\ NoteWarning(v).open = v.open /\ NoteWarning(v).ready = v.ready
  BY <1>1, <1>2, <1>3 DEF Devices
<1>5. v.partition_space[1] = "no" => NoteWarning(v).partition_space[1] = "no"
  BY <1>1, <1>2, <1>4 DEF Partition
<1>6. QED
  BY <1>4, <1>5 DEF Keeps, SameTape

LEMMA SeekKeeps ==
  ASSUME ~Unreadable, NEW v \in Devices, NEW d, Sound(d), NEW dest \in Places, NEW x \in Seek(v, d, dest)
  PROVE  /\ Keeps(v, d, x[1], x[2])
         /\ x[3] = "ok" => /\ dest.block # EOD => Same(dest, x[1].position)
                           /\ Same(dest, v.position)
                              \/ (/\ At(x[1].position, x[2]) /\ x[1].position.partition = dest.partition
                                  /\ dest.block = EOD => x[1].position.block = Len(d.recs[dest.partition]))
<1>1. CASE There(v, dest)
  <2>1. x = <<v, d, "ok">> /\ Same(dest, v.position)
    BY <1>1 DEF Seek, There, Same
  <2>2. QED
    BY <2>1, KeepsSelf
<1>2. CASE ~There(v, dest)
  <2> DEFINE w(r) == IF r.rc = "ok" THEN NoteWarning(Took(v, r)) ELSE Took(v, r)
             rc(r) == IF r.rc = "ok" /\ (r.pos.partition # dest.partition
                                         \/ (dest.block # EOD /\ r.pos.block # dest.block))
                      THEN "error" ELSE r.rc
  <2>1. PICK r \in Locate(d, dest, v.position) : x = <<w(r), r.drv, rc(r)>>
    BY <1>2 DEF Seek
  <2>2. Landed(d, v.position, r)
        /\ (r.rc = "ok" /\ dest.block = EOD => r.drv.head.block = Len(d.recs[dest.partition]))
    BY LocateLands, PositionHere
  <2>3. Keeps(v, d, Took(v, r), r.drv) /\ Took(v, r).position = r.pos
    BY <2>2, LandedCarried, TookKeeps
  <2>4. Keeps(v, d, w(r), r.drv) /\ w(r).position = r.pos
    BY <2>3, NoteKeeps, KeepsOn DEF Keeps
  <2>5. x[1] = w(r) /\ x[2] = r.drv /\ x[3] = rc(r)
    <3> HIDE DEF w, rc
    <3>1. QED
      BY <2>1
  <2>6. rc(r) = "ok" => r.rc = "ok" /\ r.pos.partition = dest.partition /\ (dest.block # EOD => r.pos.block = dest.block)
    OBVIOUS
  <2> HIDE DEF w, rc
  <2>7. QED
    BY <2>2, <2>4, <2>5, <2>6 DEF Landed, At, Same
<1>3. QED
  BY <1>1, <1>2

LEMMA SpaceKeeps ==
  ASSUME ~Unreadable, NEW v \in Devices, NEW d, Sound(d), NEW n \in Int, NEW x \in SpaceResults(v, d, n)
  PROVE  Keeps(v, d, x[1], x[2])
<1>1. PICK r \in Space(d, n, v.position) : x[1] = Took(v, r) /\ x[2] = r.drv
  BY DEF SpaceResults
<1>2. Carried(d, v.position, r)
  BY SpaceLands, LandedCarried, PositionHere
<1>3. QED
  BY <1>1, <1>2, TookKeeps

\* The append position may have been set to where the records end.
Stays(v, d, w, e) ==
  /\ w \in Devices /\ Sound(e) /\ SameTape(d, e)
  /\ w.append_pos[1] \in {v.append_pos[1], Len(d.recs[1])} /\ w.write_error = v.write_error
  /\ w.open = v.open /\ w.ready = v.ready
  /\ v.partition_space[1] = "no" => w.partition_space[1] = "no"
  /\ Near(v.position, d) => Near(w.position, e)

LEMMA KeepsStays ==
  ASSUME NEW v, NEW d, NEW w, NEW e, Keeps(v, d, w, e)
  PROVE  Stays(v, d, w, e)
  BY DEF Keeps, Stays

LEMMA StaysOn ==
  ASSUME NEW v, NEW d, NEW w, NEW e, NEW u, NEW f, Stays(v, d, w, e), Keeps(w, e, u, f)
  PROVE  Stays(v, d, u, f)
  BY StillSame DEF Keeps, Stays

LEMMA SeekEodStays ==
  ASSUME ~Unreadable, NEW v \in Devices, NEW d, Sound(d), NEW p \in Partition, NEW x \in SeekEodResults(v, d, p)
  PROVE  /\ Stays(v, d, x[1], x[2])
         /\ x[3] = "ok" => /\ x[1].position.partition = p /\ x[1].position.block = Len(d.recs[p])
                           /\ x[1].append_pos[p] = Len(d.recs[p])
                           /\ At(x[1].position, x[2])
<1> DEFINE dest == [partition |-> p, block |-> EOD]
<1>1. PICK r \in Locate(d, dest, v.position) :
        x = IF r.rc # "ok" \/ r.pos.partition # p THEN <<Took(v, r), r.drv, "error">>
            ELSE <<[NoteWarning(Took(v, r)) EXCEPT !.append_pos[p] = r.pos.block], r.drv, "ok">>
  BY DEF SeekEodResults
<1>2. dest \in Places /\ dest.block = EOD /\ dest.partition = p
  BY EodNat DEF Places
<1> HIDE DEF dest
<1>3. Landed(d, v.position, r)
      /\ (r.rc = "ok" => r.drv.head.block = Len(d.recs[p]))
  BY <1>2, LocateLands, PositionHere
<1>4. Keeps(v, d, Took(v, r), r.drv) /\ Took(v, r).position = r.pos
  BY <1>3, LandedCarried, TookKeeps
<1>5. CASE r.rc # "ok" \/ r.pos.partition # p
  BY <1>1, <1>4, <1>5, KeepsStays
<1>6. CASE ~(r.rc # "ok" \/ r.pos.partition # p)
  <2> DEFINE u == NoteWarning(Took(v, r))
  <2>1. Keeps(v, d, u, r.drv) /\ u.position = r.pos
    BY <1>4, NoteKeeps, KeepsOn DEF Keeps
  <2>2. x[1] = [u EXCEPT !.append_pos[p] = r.pos.block] /\ x[2] = r.drv
    BY <1>1, <1>6
  <2> HIDE DEF u
  <2>3. r.pos.block = Len(d.recs[p]) /\ r.pos.block \in 0 .. EOD /\ r.pos.partition = p
    BY <1>3, <1>6 DEF Landed, At, Positions
  <2>4. u \in Devices /\ u.position = r.pos
    BY <2>1 DEF Keeps
  <2>5. /\ x[1] \in Devices /\ x[1].append_pos = [u.append_pos EXCEPT ![p] = r.pos.block]
        /\ x[1].position = r.pos /\ x[1].write_error = u.write_error
        /\ x[1].open = u.open /\ x[1].ready = u.ready /\ x[1].partition_space = u.partition_space
    <3> DEFINE f == [u.append_pos EXCEPT ![p] = r.pos.block]
    <3>1. f \in [Partition -> 0 .. EOD]
      BY <2>3, <2>4 DEF Devices
    <3>2. x[1] = [u EXCEPT !.append_pos = f]
      BY <2>2, <2>4 DEF Devices
    <3> HIDE DEF f
    <3>3. /\ x[1] \in Devices /\ x[1].append_pos = f
          /\ x[1].position = r.pos /\ x[1].write_error = u.write_error
          /\ x[1].open = u.open /\ x[1].ready = u.ready /\ x[1].partition_space = u.partition_space
      BY <2>4, <3>1, <3>2 DEF Devices
    <3>4. QED
      BY <3>3 DEF f
  <2>6. u.append_pos = v.append_pos /\ v.append_pos \in [Partition -> 0 .. EOD]
    BY <2>1 DEF Keeps, Devices
  <2>7. x[1].append_pos[p] = Len(d.recs[p]) /\ x[1].append_pos[1] \in {v.append_pos[1], Len(d.recs[1])}
    BY <2>3, <2>5, <2>6 DEF Partition
  <2>8. QED
    BY <1>3, <2>1, <2>2, <2>3, <2>5, <2>7 DEF Keeps, Stays, Landed
<1>7. QED
  BY <1>5, <1>6

\* A position near the head is none of EOD.
LEMMA NearBlock ==
  ASSUME NEW d, Sound(d), NEW pos \in Positions, Near(pos, d)
  PROVE  pos.block \in Nat /\ pos.block < EOD
<1>1. Len(d.recs[d.head.partition]) \in 0 .. Capacity /\ d.head.block \in Nat
  BY HeadFits, LengthsNat
<1>2. d.head.block <= Len(d.recs[d.head.partition])
  BY DEF Sound
<1>3. pos.block \in Nat /\ pos.block <= d.head.block
  BY EodNat DEF Near, Positions
<1>4. QED
  BY <1>1, <1>2, <1>3, EodNat

\* tape_seek_append_position: at the append position, or at the end, which
\* becomes the append position.
LEMMA SeekAppendStays ==
  ASSUME ~Unreadable, NEW v \in Devices, NEW d, Sound(d), Near(v.position, d), NEW p \in Partition,
         NEW unlock \in BOOLEAN, NEW x \in SeekAppendResults(v, d, p, unlock)
  PROVE  /\ Stays(v, d, x[1], x[2])
         /\ x[3] = "ok" => /\ x[1].position.partition = p
                           /\ v.append_pos[p] \in {0, Len(d.recs[p])} => x[1].position.block = Len(d.recs[p])
<1> DEFINE dest == [partition |-> p, block |-> IF v.append_pos[p] = 0 THEN EOD ELSE v.append_pos[p]]
           Unlock(w, e) == IF unlock /\ w.append_only_mode /\ dest.block # EOD
                           THEN {<<w, r.drv, r.rc>> : r \in AllowOverwrite(e, w.position)}
                           ELSE {<<w, e, "ok">>}
           n(w) == IF w.append_pos[p] = 0 THEN w.position.block ELSE w.append_pos[p]
           Keep(z) == <<[z[1] EXCEPT !.append_pos[p] = n(z[1])], z[2], z[3]>>
<1>1. v.append_pos \in [Partition -> 0 .. EOD] /\ v.append_pos[p] \in Nat
  BY EodNat DEF Devices
<1>2. /\ dest \in Places /\ dest.partition = p
      /\ v.append_pos[p] = 0 => dest.block = EOD
      /\ v.append_pos[p] # 0 => dest.block = v.append_pos[p]
  BY <1>1, EodNat DEF Places
<1>3. PICK y \in Seek(v, d, dest) : IF y[3] = "ok" THEN x \in {Keep(z) : z \in Unlock(y[1], y[2])} ELSE x = y
  <2>1. x \in UNION {IF y[3] = "ok" THEN {Keep(z) : z \in Unlock(y[1], y[2])} ELSE {y} : y \in Seek(v, d, dest)}
    BY DEF SeekAppendResults
  <2> HIDE DEF dest, Unlock, Keep
  <2>2. QED
    BY <2>1
<1>4. ASSUME NEW w \in Devices, NEW e, Sound(e), NEW z \in Unlock(w, e)
      PROVE  z[1] = w /\ Quiet(e, z[2])
  <2>1. CASE z = <<w, e, "ok">>
    BY <1>4, <2>1, QuietFlags
  <2>2. CASE \E r \in AllowOverwrite(e, w.position) : z = <<w, r.drv, r.rc>>
    <3>1. PICK r \in AllowOverwrite(e, w.position) : z = <<w, r.drv, r.rc>>
      BY <2>2
    <3>2. w.position.block \in Nat
      BY EodNat DEF Devices, Positions
    <3>3. Quiet(e, r.drv)
      BY <1>4, <3>2, QuietFlags, SimpleQuiet DEF AllowOverwrite
    <3>4. QED
      BY <3>1, <3>3
  <2> HIDE DEF dest
  <2>3. QED
    BY <1>4, <2>1, <2>2
<1> HIDE DEF dest, Unlock
<1>5. Keeps(v, d, y[1], y[2])
  BY <1>2, SeekKeeps
<1>6. CASE y[3] # "ok"
  BY <1>3, <1>5, <1>6, KeepsStays
<1>7. CASE y[3] = "ok"
  <2>1. PICK z \in Unlock(y[1], y[2]) : x = Keep(z)
    <3> HIDE DEF Keep
    <3>1. QED
      BY <1>3, <1>7
  <2>2. y[1] \in Devices /\ Sound(y[2]) /\ SameTape(d, y[2]) /\ y[1].append_pos = v.append_pos
    BY <1>5 DEF Keeps
  <2>3. z[1] = y[1] /\ Quiet(y[2], z[2])
    BY <1>4, <2>1, <2>2
  <2> DEFINE m == n(y[1])
  <2>4. x[1] = [y[1] EXCEPT !.append_pos[p] = m] /\ x[2] = z[2]
    BY <2>1, <2>3
  <2>5. m \in 0 .. EOD /\ m = IF v.append_pos[p] = 0 THEN y[1].position.block ELSE v.append_pos[p]
    BY <1>1, <2>2 DEF Devices, Positions
  <2> HIDE DEF m, Keep, n
  <2>6. /\ x[1] \in Devices /\ x[1].append_pos = [v.append_pos EXCEPT ![p] = m]
        /\ x[1].position = y[1].position /\ x[1].write_error = y[1].write_error
        /\ x[1].open = y[1].open /\ x[1].ready = y[1].ready /\ x[1].partition_space = y[1].partition_space
    <3> DEFINE f == [v.append_pos EXCEPT ![p] = m]
    <3>1. f \in [Partition -> 0 .. EOD]
      BY <1>1, <2>5
    <3>2. x[1] = [y[1] EXCEPT !.append_pos = f]
      BY <2>2, <2>4 DEF Devices
    <3> HIDE DEF f
    <3>3. /\ x[1] \in Devices /\ x[1].append_pos = f
          /\ x[1].position = y[1].position /\ x[1].write_error = y[1].write_error
          /\ x[1].open = y[1].open /\ x[1].ready = y[1].ready /\ x[1].partition_space = y[1].partition_space
      BY <2>2, <3>1, <3>2 DEF Devices
    <3>4. QED
      BY <3>3 DEF f
  <2>7. y[1].position.partition = p
        /\ (v.append_pos[p] = 0 => y[1].position.block = Len(d.recs[p]))
        /\ (v.append_pos[p] # 0 /\ v.append_pos[p] # EOD => y[1].position.block = v.append_pos[p])
    <3>1. v.append_pos[p] = 0 => ~Same(dest, v.position)
      <4>1. v.position.block \in Nat /\ v.position.block < EOD
        BY NearBlock, PositionHere
      <4>2. QED
        BY <1>2, <4>1, EodNat DEF Same
    <3>2. dest.block # EOD => Same(dest, y[1].position)
      BY <1>2, <1>7, SeekKeeps
    <3>3. Same(dest, v.position) \/ (/\ y[1].position.partition = dest.partition
                                     /\ dest.block = EOD => y[1].position.block = Len(d.recs[dest.partition]))
      BY <1>2, <1>7, SeekKeeps
    <3>4. Same(dest, v.position) => dest.block # EOD
      <4>1. v.position.block \in Nat /\ v.position.block < EOD
        BY NearBlock, PositionHere
      <4>2. QED
        BY <4>1, EodNat DEF Same
    <3>5. QED
      <4> HIDE DEF Same
      <4>1. Same(dest, y[1].position) =>
              y[1].position.partition = dest.partition /\ y[1].position.block = dest.block
        BY DEF Same
      <4>2. CASE v.append_pos[p] = 0
        BY <1>2, <3>1, <3>3, <4>2
      <4>3. CASE v.append_pos[p] # 0
        BY <1>2, <3>2, <3>3, <3>4, <4>1, <4>3
      <4>4. QED
        BY <4>2, <4>3
  <2>8. x[1].append_pos[1] \in {v.append_pos[1], Len(d.recs[1])}
    BY <1>1, <2>5, <2>6, <2>7 DEF Partition
  <2>9. Near(x[1].position, x[2]) /\ SameTape(d, x[2]) /\ Sound(x[2])
    BY <1>5, <2>2, <2>3, <2>4, <2>6, StillSame DEF Keeps, Quiet, Near
  <2>10. Len(d.recs[p]) # EOD
    BY LengthsNat, EodNat
  <2>11. QED
    BY <1>5, <2>6, <2>7, <2>8, <2>9, <2>10 DEF Keeps, Stays
<1>8. QED
  BY <1>6, <1>7

-----------------------------------------------------------------------------
(* Loading and recovering.                                                 *)

LEMMA TestQuiet ==
  ASSUME NEW d, Sound(d), NEW r \in TestUnitReady(d)
  PROVE  Quiet(d, r.drv)
<1>1. r.drv = d \/ r.drv \in Faulty(d)
  BY DEF TestUnitReady, Result
<1>2. QED
  BY <1>1, FaultySound, QuietFlags DEF Quiet

\* tape_load_tape knows the medium afresh, or the device is not ready.
Fetched(v, d, w, e) ==
  /\ w \in Devices /\ Sound(e) /\ SameTape(d, e) /\ w.open = v.open
  /\ w.ready => /\ e.cart # "out" /\ Near(w.position, e)
                /\ ~w.write_error /\ w.append_pos[1] = 0
                /\ d.mam.ewstate = "set" => w.partition_space[1] = "no"

LEMMA LoadedDevice ==
  ASSUME NEW v \in Devices, NEW d
  PROVE  /\ Loaded(v, d) \in Devices /\ Loaded(v, d).open = v.open /\ ~Loaded(v, d).write_error
         /\ Loaded(v, d).append_pos = v.append_pos
         /\ Loaded(v, d).position.partition = v.position.partition
         /\ Loaded(v, d).position.block = v.position.block
         /\ d.mam.ewstate = "set" => Loaded(v, d).partition_space[1] = "no"
<1> DEFINE closed == d.mam.ewstate = "set"
           BySize(p) == IF Remaining(d, p) = 0 THEN "no" ELSE "writable"
           s == IF closed THEN [p \in Partition |-> IF p = 1 THEN "no" ELSE BySize(p)]
                ELSE [p \in Partition |-> "writable"]
           q == [v.position EXCEPT !.ew = closed /\ v.position.ew]
<1>1. s \in [Partition -> Space3] /\ (closed => s[1] = "no")
  BY DEF Space3, Partition
<1>2. q \in Positions /\ q.partition = v.position.partition /\ q.block = v.position.block
  BY DEF Devices, Positions
<1>3. Loaded(v, d) = [v EXCEPT !.ready = TRUE, !.write_protect = FALSE, !.write_error = FALSE,
                               !.partition_space = s, !.position = q]
  BY DEF Loaded, Devices
<1> HIDE DEF s, q
<1>4. QED
  BY <1>1, <1>2, <1>3 DEF Devices

LEMMA LoadTapeFetches ==
  ASSUME ~Unreadable, NEW v \in Devices, NEW d, Sound(d), NEW x \in LoadTape(v, d)
  PROVE  Fetched(v, d, x[1], x[2]) /\ (x[3] = "ok" => x[1].ready)
<1> DEFINE Loadable == {<<v, r.drv, IF r.rc \in {"ok", "init"} THEN "ok" ELSE "error">> : r \in TestUnitReady(d)}
           Put(w, e) == {<<IF r.rc = "ok" THEN Forget(Took(w, r)) ELSE Took(w, r), r.drv,
                           IF r.rc = "ok" THEN "ok" ELSE "error">> : r \in Load(e, w.position)}
           Ask(w, e) == {<<Took(w, r), r.drv, r.rc>> : r \in ReadPosition(e, w.position)}
           Good(w, e) == /\ w \in Devices /\ Sound(e) /\ SameTape(d, e) /\ w.open = v.open
           Fresh0(w, e) == Good(w, e) /\ e.cart # "out" /\ w.append_pos[1] = 0
<1>1. ASSUME NEW y \in Loadable PROVE Good(y[1], y[2])
  <2>1. PICK r \in TestUnitReady(d) : y[1] = v /\ y[2] = r.drv
    BY <1>1
  <2>2. QED
    BY <2>1, TestQuiet DEF Quiet
<1>2. ASSUME NEW w, NEW e, Good(w, e), NEW y \in Put(w, e)
      PROVE  Good(y[1], y[2]) /\ (y[3] = "ok" => Fresh0(y[1], y[2]))
  <2>1. PICK r \in Load(e, w.position) :
          y = <<IF r.rc = "ok" THEN Forget(Took(w, r)) ELSE Took(w, r), r.drv, IF r.rc = "ok" THEN "ok" ELSE "error">>
    BY <1>2
  <2>2. Carried(e, w.position, r) /\ (r.rc = "ok" => e.cart # "out")
    BY <1>2, LoadCarries, PositionHere
  <2> DEFINE u == Took(w, r)
  <2>3. u \in Devices /\ u.open = v.open /\ Sound(r.drv) /\ SameTape(d, r.drv)
    <3>1. Keeps(w, e, Took(w, r), r.drv)
      BY <1>2, <2>2, TookKeeps
    <3>2. QED
      BY <1>2, <3>1, StillSame DEF Keeps
  <2>4. r.rc = "ok" => r.drv.cart # "out"
    BY <2>2 DEF Carried, SameTape
  <2> HIDE DEF u
  <2>5. Forget(u) \in Devices /\ Forget(u).open = u.open /\ Forget(u).append_pos[1] = 0
    <3> DEFINE f == [p \in Partition |-> 0]
    <3>1. f \in [Partition -> 0 .. EOD] /\ f[1] = 0
      BY EodNat DEF Partition
    <3>2. Forget(u) = [u EXCEPT !.append_pos = f]
      BY DEF Forget
    <3> HIDE DEF f
    <3>3. QED
      BY <2>3, <3>1, <3>2 DEF Devices
  <2>6. y[1] = (IF r.rc = "ok" THEN Forget(u) ELSE u) /\ y[2] = r.drv /\ (y[3] = "ok" => r.rc = "ok")
    BY <2>1 DEF u
  <2>7. QED
    BY <2>3, <2>4, <2>5, <2>6
<1>3. ASSUME NEW w, NEW e, Fresh0(w, e), NEW y \in Prevent(w, e) PROVE Fresh0(y[1], y[2])
  <2>1. Keeps(w, e, y[1], y[2])
    BY <1>3, PreventKeeps
  <2>2. QED
    BY <1>3, <2>1, StillSame DEF Keeps, SameTape
<1>4. ASSUME NEW w, NEW e, Fresh0(w, e), NEW y \in Ask(w, e)
      PROVE  Fresh0(y[1], y[2]) /\ Near(y[1].position, y[2])
  <2>1. PICK r \in ReadPosition(e, w.position) : y = <<Took(w, r), r.drv, r.rc>>
    BY <1>4
  <2>2. r \in Reposition(e, w.position, "ok")
    <3>1. r = Result(e, [w.position EXCEPT !.partition = e.head.partition, !.block = e.head.block], "ok")
      BY <2>1 DEF ReadPosition
    <3>2. r = [r EXCEPT !.rc = "ok"]
      BY <3>1 DEF Result
    <3>3. QED
      BY <2>1, <3>2 DEF Reposition
  <2>3. Landed(e, w.position, r)
    BY <1>4, <2>2, MovedLands, PositionHere DEF SameTape
  <2>4. Keeps(w, e, Took(w, r), r.drv) /\ Took(w, r).position = r.pos /\ At(r.pos, r.drv)
    BY <1>4, <2>3, LandedCarried, TookKeeps DEF Landed
  <2>5. r.drv.head.block \in Nat
    BY <2>3, HeadFits DEF Landed
  <2>6. y[1] = Took(w, r) /\ y[2] = r.drv
    BY <2>1
  <2>7. QED
    BY <1>4, <2>4, <2>5, <2>6, StillSame DEF Keeps, SameTape, At, Near
<1>5. PICK y \in Then(Then(Then(Loadable, Put), Prevent), Ask) :
        x = IF y[3] = "ok" THEN <<Loaded(y[1], y[2]), y[2], "ok">> ELSE <<[y[1] EXCEPT !.ready = FALSE], y[2], y[3]>>
  BY DEF LoadTape
<1> HIDE DEF Loadable, Put, Ask
<1>6. Good(y[1], y[2]) /\ (y[3] = "ok" => Fresh0(y[1], y[2]) /\ Near(y[1].position, y[2]))
  <2>1. PICK c \in Then(Then(Loadable, Put), Prevent) :
          IF c[3] = "ok" THEN y \in Ask(c[1], c[2]) ELSE y = c
    BY <1>5 DEF Then
  <2>2. PICK b \in Then(Loadable, Put) : IF b[3] = "ok" THEN c \in Prevent(b[1], b[2]) ELSE c = b
    BY <2>1 DEF Then
  <2>3. PICK a \in Loadable : IF a[3] = "ok" THEN b \in Put(a[1], a[2]) ELSE b = a
    BY <2>2 DEF Then
  <2> HIDE DEF Good, Fresh0
  <2>4. Good(a[1], a[2])
    BY <1>1, <2>3
  <2>5. Good(b[1], b[2]) /\ (b[3] = "ok" => Fresh0(b[1], b[2]))
    BY <1>2, <2>3, <2>4
  <2>6. Good(c[1], c[2]) /\ (c[3] = "ok" => Fresh0(c[1], c[2]))
    <3>1. CASE b[3] = "ok"
      <4>1. Fresh0(c[1], c[2])
        BY <1>3, <2>2, <2>5, <3>1
      <4>2. QED
        BY <4>1 DEF Fresh0
    <3>2. QED
      BY <2>2, <2>5, <3>1
  <2>7. CASE c[3] = "ok"
    <3>1. Fresh0(y[1], y[2]) /\ Near(y[1].position, y[2])
      BY <1>4, <2>1, <2>6, <2>7
    <3>2. QED
      BY <3>1 DEF Fresh0
  <2>8. QED
    BY <2>1, <2>6, <2>7
<1>7. CASE y[3] = "ok"
  <2>1. x[1] = Loaded(y[1], y[2]) /\ x[2] = y[2]
    BY <1>5, <1>7
  <2>2. y[2].mam = d.mam
    BY <1>6 DEF SameTape
  <2>3. Loaded(y[1], y[2]).ready
    BY <1>6 DEF Loaded, Devices
  <2> DEFINE w == Loaded(y[1], y[2])
  <2>4. /\ w \in Devices /\ w.open = v.open /\ ~w.write_error /\ w.append_pos[1] = 0
        /\ Near(w.position, y[2]) /\ (d.mam.ewstate = "set" => w.partition_space[1] = "no")
    <3>1. y[1] \in Devices /\ y[1].open = v.open /\ y[1].append_pos[1] = 0 /\ Near(y[1].position, y[2])
      BY <1>6, <1>7
    <3>2. /\ w \in Devices /\ w.open = y[1].open /\ ~w.write_error /\ w.append_pos = y[1].append_pos
          /\ w.position.partition = y[1].position.partition /\ w.position.block = y[1].position.block
          /\ y[2].mam.ewstate = "set" => w.partition_space[1] = "no"
      BY <3>1, LoadedDevice
    <3> HIDE DEF w
    <3>3. QED
      BY <2>2, <3>1, <3>2 DEF Near
  <2> HIDE DEF w
  <2>5. QED
    BY <1>6, <1>7, <2>1, <2>3, <2>4 DEF Fetched, w
<1>8. CASE y[3] # "ok"
  <2>1. x[1] = [y[1] EXCEPT !.ready = FALSE] /\ x[2] = y[2] /\ x[3] = y[3]
    BY <1>5, <1>8
  <2>2. x[1] \in Devices /\ x[1].open = y[1].open /\ ~x[1].ready
    BY <1>6, <2>1 DEF Devices
  <2>3. QED
    BY <1>6, <1>8, <2>1, <2>2 DEF Fetched
<1>9. QED
  BY <1>7, <1>8

-----------------------------------------------------------------------------
(* Writing.                                                                *)

\* Only the cartridge memory is touched.
Noted(d, e) ==
  /\ Sound(e) /\ e.recs = d.recs /\ e.head = d.head /\ e.stamp = d.stamp
  /\ e.cart = "out" <=> d.cart = "out"

LEMMA MemoryNoted ==
  ASSUME NEW d, Sound(d), NEW s, NEW e,
         (s \in Locks /\ e = [d EXCEPT !.mam.lock = s]) \/ (s \in {"clear", "set"} /\ e = [d EXCEPT !.mam.ewstate = s])
  PROVE  Noted(d, e)
<1>1. d \in Drives /\ d.mam \in [lock : Locks, ewstate : {"clear", "set"}, app : BOOLEAN]
  BY DEF Sound, Drives
<1>2. PICK m \in [lock : Locks, ewstate : {"clear", "set"}, app : BOOLEAN] : e = [d EXCEPT !.mam = m]
  <2>1. CASE s \in Locks /\ e = [d EXCEPT !.mam.lock = s]
    <3>1. e = [d EXCEPT !.mam = [d.mam EXCEPT !.lock = s]] /\ [d.mam EXCEPT !.lock = s] \in [lock : Locks, ewstate : {"clear", "set"}, app : BOOLEAN]
      BY <1>1, <2>1
    <3>2. QED
      BY <3>1
  <2>2. CASE s \in {"clear", "set"} /\ e = [d EXCEPT !.mam.ewstate = s]
    <3>1. e = [d EXCEPT !.mam = [d.mam EXCEPT !.ewstate = s]] /\ [d.mam EXCEPT !.ewstate = s] \in [lock : Locks, ewstate : {"clear", "set"}, app : BOOLEAN]
      BY <1>1, <2>2
    <3>2. QED
      BY <3>1
  <2>3. QED
    BY <2>1, <2>2
<1>3. e \in Drives /\ e.recs = d.recs /\ e.head = d.head /\ e.stamp = d.stamp /\ e.cart = d.cart
  BY <1>1, <1>2 DEF Drives
<1>4. QED
  BY <1>3 DEF Noted, Sound

LEMMA SimpleNoted ==
  ASSUME NEW d, Sound(d), NEW good, Noted(d, good), NEW pos, NEW r \in Simple(d, pos, good)
  PROVE  Noted(d, r.drv)
<1>1. r.drv = good \/ r.drv \in Faulty(d)
  BY DEF Simple, Result
<1>2. QED
  BY <1>1, FaultySound DEF Noted, SameTape

LEMMA EwstateNoted ==
  ASSUME NEW d, Sound(d), NEW s \in {"clear", "set"}, NEW r \in WriteEwstate(d, s)
  PROVE  Noted(d, r.drv)
<1>1. Noted(d, [d EXCEPT !.mam.ewstate = s])
  BY MemoryNoted
<1>2. QED
  BY <1>1, SimpleNoted DEF WriteEwstate

LEMMA NotedOn ==
  ASSUME NEW d, NEW e, NEW f, Noted(d, e), Noted(e, f)
  PROVE  Noted(d, f)
  BY DEF Noted

LEMMA BlameNoted ==
  ASSUME NEW d, Sound(d), NEW index \in BOOLEAN, NEW e \in Blame(d, index)
  PROVE  Noted(d, e)
<1>1. PICK s \in ReadLock(d) :
        e \in IF s[2] \in {"locked", "permlocked"} THEN {s[1]}
              ELSE {r.drv : r \in WriteLock(s[1], FailedState(s[2], index))}
  BY DEF Blame
<1>2. Noted(d, s[1])
  <2>1. s[1] = d \/ s[1] \in Faulty(d)
    BY DEF ReadLock
  <2>2. QED
    BY <2>1, FaultySound DEF Noted, SameTape
<1>3. CASE s[2] \in {"locked", "permlocked"}
  BY <1>1, <1>2, <1>3
<1>4. CASE s[2] \notin {"locked", "permlocked"}
  <2> DEFINE state == FailedState(s[2], index)
  <2>1. state \in Locks
    BY DEF FailedState, Locks
  <2> HIDE DEF state
  <2>2. PICK r \in WriteLock(s[1], state) : e = r.drv
    BY <1>1, <1>4 DEF state
  <2>3. Sound(s[1])
    BY <1>2 DEF Noted
  <2>4. Noted(s[1], [s[1] EXCEPT !.mam.lock = state])
    BY <2>1, <2>3, MemoryNoted
  <2>5. Noted(s[1], e)
    BY <2>2, <2>3, <2>4, SimpleNoted DEF WriteLock
  <2>6. QED
    BY <1>2, <2>5, NotedOn
<1>5. QED
  BY <1>3, <1>4

LEMMA FullKept ==
  ASSUME NEW v \in Devices
  PROVE  /\ Full(v) \in Devices /\ Full(v).position = v.position /\ Full(v).append_pos = v.append_pos
         /\ Full(v).write_error = v.write_error /\ Full(v).open = v.open /\ Full(v).ready = v.ready
         /\ v.partition_space[1] = "no" => Full(v).partition_space[1] = "no"
<1> DEFINE s == [v.partition_space EXCEPT ![v.position.partition] = "no"]
<1>1. s \in [Partition -> Space3] /\ (v.partition_space[1] = "no" => s[1] = "no")
  BY DEF Devices, Positions, Space3, Partition
<1>2. Full(v) = [v EXCEPT !.partition_space = s]
  BY DEF Full, Devices
<1> HIDE DEF s
<1>3. QED
  BY <1>1, <1>2 DEF Devices

LEMMA AppendedKept ==
  ASSUME NEW v \in Devices
  PROVE  /\ Appended(v) \in Devices /\ Appended(v).position = v.position
         /\ Appended(v).append_pos = [v.append_pos EXCEPT ![v.position.partition] = v.position.block]
         /\ Appended(v).write_error = v.write_error /\ Appended(v).open = v.open /\ Appended(v).ready = v.ready
         /\ Appended(v).partition_space = v.partition_space
<1> DEFINE a == [v.append_pos EXCEPT ![v.position.partition] = v.position.block]
<1>1. a \in [Partition -> 0 .. EOD]
  BY DEF Devices, Positions
<1>2. Appended(v) = [v EXCEPT !.append_pos = a]
  BY DEF Appended, Devices
<1> HIDE DEF a
<1>3. /\ Appended(v) \in Devices /\ Appended(v).position = v.position /\ Appended(v).append_pos = a
      /\ Appended(v).write_error = v.write_error /\ Appended(v).open = v.open /\ Appended(v).ready = v.ready
      /\ Appended(v).partition_space = v.partition_space
  BY <1>1, <1>2 DEF Devices
<1>4. QED
  BY <1>3 DEF a

\* A record or file mark is asked for: it is behind the head, and the append
\* position behind it, or the device takes no more.
Added(v, d, w, e) ==
  /\ w \in Devices /\ Sound(e) /\ (e.cart = "out" <=> d.cart = "out")
  /\ w.open = v.open /\ w.ready = v.ready
  /\ v.partition_space[1] = "no" => w.partition_space[1] = "no"
  /\ Near(w.position, e)
  /\ Wrote(d, e) \/ (e.recs = d.recs /\ e.stamp = d.stamp)
  /\ \/ w.write_error
     \/ /\ Wrote(d, e) /\ w.position.partition = d.head.partition
        /\ w.position.block \in {v.position.block + 1, d.head.block + 1}
        /\ w.append_pos = [v.append_pos EXCEPT ![d.head.partition] = w.position.block]

LEMMA WroteNoted ==
  ASSUME NEW d, NEW e, NEW f, Wrote(d, e), Noted(e, f)
  PROVE  Wrote(d, f) /\ f.head = e.head
  BY DEF Wrote, Noted

LEMMA TookDevice ==
  ASSUME NEW v \in Devices, NEW r, r.pos \in Positions
  PROVE  /\ Took(v, r) \in Devices /\ Took(v, r).position = r.pos /\ Took(v, r).append_pos = v.append_pos
         /\ Took(v, r).write_error = v.write_error /\ Took(v, r).open = v.open /\ Took(v, r).ready = v.ready
         /\ Took(v, r).partition_space = v.partition_space
  BY DEF Took, Devices

\* A write that failed.
LEMMA FailedAdds ==
  ASSUME NEW v \in Devices, NEW d, NEW r, NEW e, r.pos \in Positions, Noted(r.drv, e), Near(r.pos, r.drv),
         Wrote(d, r.drv) \/ SameTape(d, r.drv), r.drv.cart = "out" <=> d.cart = "out"
  PROVE  Added(v, d, [Took(v, r) EXCEPT !.write_error = TRUE], e)
<1> DEFINE w == [Took(v, r) EXCEPT !.write_error = TRUE]
<1>1. /\ w \in Devices /\ w.position = r.pos /\ w.write_error
      /\ w.open = v.open /\ w.ready = v.ready /\ w.partition_space = v.partition_space
  <2> DEFINE u == Took(v, r)
  <2>1. /\ u \in Devices /\ u.position = r.pos
        /\ u.open = v.open /\ u.ready = v.ready /\ u.partition_space = v.partition_space
    BY TookDevice
  <2> HIDE DEF u
  <2>2. w = [u EXCEPT !.write_error = TRUE]
    BY DEF u
  <2>3. QED
    BY <2>1, <2>2 DEF Devices
<1> HIDE DEF w
<1>2. Wrote(d, e) \/ (e.recs = d.recs /\ e.stamp = d.stamp)
  BY WroteNoted DEF SameTape, Noted
<1>3. Near(w.position, e) /\ Sound(e) /\ (e.cart = "out" <=> d.cart = "out")
  BY <1>1 DEF Noted, Near
<1>4. QED
  BY <1>1, <1>2, <1>3 DEF Added, w

\* A write that went well, with the warning or without.
LEMMA DoneAdds ==
  ASSUME NEW v \in Devices, NEW d, NEW r, NEW e, r.pos \in Positions, Noted(r.drv, e), Near(r.pos, r.drv),
         Wrote(d, r.drv), r.pos.partition = d.head.partition, r.pos.block \in {v.position.block + 1, d.head.block + 1},
         NEW w, w = Appended(Took(v, r)) \/ w = Appended(Full(Took(v, r)))
  PROVE  Added(v, d, w, e)
<1>1. PICK u \in Devices :
        /\ w = Appended(u) /\ u.position = r.pos /\ u.append_pos = v.append_pos
        /\ u.open = v.open /\ u.ready = v.ready
        /\ v.partition_space[1] = "no" => u.partition_space[1] = "no"
  BY TookDevice, FullKept
<1>2. /\ w \in Devices /\ w.position = r.pos
      /\ w.append_pos = [v.append_pos EXCEPT ![r.pos.partition] = r.pos.block]
      /\ w.open = v.open /\ w.ready = v.ready
      /\ v.partition_space[1] = "no" => w.partition_space[1] = "no"
  BY <1>1, AppendedKept
<1>3. Wrote(d, e)
  BY WroteNoted
<1>4. Near(w.position, e) /\ Sound(e) /\ (e.cart = "out" <=> d.cart = "out")
  BY <1>2 DEF Noted, Near, Wrote
<1>5. QED
  BY <1>2, <1>3, <1>4 DEF Added

LEMMA WriteAdds ==
  ASSUME NEW v \in Devices, NEW d, Sound(d), Near(v.position, d), NEW index \in BOOLEAN, NEW ignore_nospc,
         NEW x \in WriteResults(v, d, index, ignore_nospc)
  PROVE  Added(v, d, x[1], x[2])
<1>1. PICK r \in Write(d, v.position) :
        x \in IF r.rc = "error" THEN {<<[Took(v, r) EXCEPT !.write_error = TRUE], e, "error">> : e \in Blame(r.drv, index)}
              ELSE IF Took(v, r).position.ew
              THEN {<<Appended(Full(Took(v, r))), q.drv, IF ignore_nospc THEN "ok" ELSE "nospace">>
                      : q \in WriteEwstate(r.drv, "set")}
              ELSE {<<Appended(Took(v, r)), r.drv, "ok">>}
  BY DEF WriteResults
<1>2. \/ /\ r.rc = "ok" /\ Wrote(d, r.drv)
         /\ r.pos \in Positions /\ r.pos.partition = v.position.partition /\ r.pos.block = v.position.block + 1
      \/ /\ r.rc = "error" /\ r.pos = v.position
         /\ Wrote(d, r.drv) \/ (Sound(r.drv) /\ SameTape(d, r.drv) /\ r.drv.head = d.head)
  BY WriteLands, PositionHere
<1>3. Sound(r.drv) /\ r.pos \in Positions /\ (r.drv.cart = "out" <=> d.cart = "out")
  BY <1>2, PositionHere DEF Wrote, SameTape
<1>4. Near(r.pos, r.drv)
  <2>1. v.position.block \in Nat /\ d.head.block \in Nat
    BY NearBlock, HeadFits, PositionHere
  <2>2. QED
    BY <1>2, <2>1 DEF Near, Wrote
<1>5. CASE r.rc = "error"
  <2>1. PICK e \in Blame(r.drv, index) : x = <<[Took(v, r) EXCEPT !.write_error = TRUE], e, "error">>
    BY <1>1, <1>5
  <2>2. Noted(r.drv, e)
    BY <1>3, BlameNoted
  <2>3. Added(v, d, [Took(v, r) EXCEPT !.write_error = TRUE], e)
    BY <1>2, <1>3, <1>4, <2>2, FailedAdds
  <2>4. QED
    BY <2>1, <2>3
<1>6. CASE r.rc # "error"
  <2>1. (x[1] = Appended(Took(v, r)) \/ x[1] = Appended(Full(Took(v, r)))) /\ Noted(r.drv, x[2])
    <3>1. CASE Took(v, r).position.ew
      <4>1. PICK q \in WriteEwstate(r.drv, "set") :
              x = <<Appended(Full(Took(v, r))), q.drv, IF ignore_nospc THEN "ok" ELSE "nospace">>
        BY <1>1, <1>6, <3>1
      <4>2. Noted(r.drv, q.drv)
        BY <1>3, EwstateNoted
      <4>3. QED
        BY <4>1, <4>2
    <3>2. CASE ~Took(v, r).position.ew
      <4>1. x = <<Appended(Took(v, r)), r.drv, "ok">>
        BY <1>1, <1>6, <3>2
      <4>2. QED
        BY <1>3, <4>1 DEF Noted
    <3>3. QED
      BY <3>1, <3>2
  <2>2. r.pos.partition = d.head.partition /\ r.pos.block \in {v.position.block + 1, d.head.block + 1}
    BY <1>2, <1>6 DEF Near
  <2>3. Wrote(d, r.drv)
    BY <1>2, <1>6
  <2> DEFINE w == x[1]
             e == x[2]
  <2> HIDE DEF w, e
  <2>4. (w = Appended(Took(v, r)) \/ w = Appended(Full(Took(v, r)))) /\ Noted(r.drv, e)
    BY <2>1 DEF w, e
  <2>5. Added(v, d, w, e)
    BY <1>3, <1>4, <2>2, <2>3, <2>4, DoneAdds
  <2>6. QED
    BY <2>5 DEF w, e
<1>7. QED
  BY <1>5, <1>6

LEMMA FilemarkAdds ==
  ASSUME ~Unreadable, NEW v \in Devices, NEW d, Sound(d), Near(v.position, d), NEW ignore_nospc,
         NEW x \in FilemarkResults(v, d, ignore_nospc)
  PROVE  Added(v, d, x[1], x[2])
<1>1. PICK r \in WriteFm(d, v.position) :
        x = IF r.rc = "error" THEN <<[Took(v, r) EXCEPT !.write_error = TRUE], r.drv, "error">>
            ELSE IF Took(v, r).position.ew
            THEN <<Appended(Full(Took(v, r))), r.drv, IF ignore_nospc THEN "ok" ELSE "nospace">>
            ELSE <<Appended(Took(v, r)), r.drv, "ok">>
  BY DEF FilemarkResults
<1>2. \/ r.rc = "ok" /\ Wrote(d, r.drv) /\ r.pos \in Positions /\ At(r.pos, r.drv)
      \/ r.rc = "error" /\ Landed(d, v.position, r)
  BY WriteFmLands, PositionHere
<1>3. /\ Sound(r.drv) /\ r.pos \in Positions /\ (r.drv.cart = "out" <=> d.cart = "out") /\ At(r.pos, r.drv)
      /\ Wrote(d, r.drv) \/ SameTape(d, r.drv)
  BY <1>2 DEF Wrote, Landed, SameTape
<1>4. Noted(r.drv, r.drv) /\ Near(r.pos, r.drv)
  <2>1. r.drv.head.block \in Nat
    BY <1>3, HeadFits
  <2>2. QED
    BY <1>3, <2>1 DEF Noted, Near, At
<1>5. CASE r.rc = "error"
  <2>1. Added(v, d, [Took(v, r) EXCEPT !.write_error = TRUE], r.drv)
    BY <1>3, <1>4, FailedAdds
  <2>2. QED
    BY <1>1, <1>5, <2>1
<1>6. CASE r.rc # "error"
  <2>1. (x[1] = Appended(Took(v, r)) \/ x[1] = Appended(Full(Took(v, r)))) /\ x[2] = r.drv
    BY <1>1, <1>6
  <2>2. Wrote(d, r.drv) /\ r.pos.partition = d.head.partition /\ r.pos.block = d.head.block + 1
    BY <1>2, <1>6 DEF At, Wrote
  <2> DEFINE w == x[1]
  <2> HIDE DEF w
  <2>3. w = Appended(Took(v, r)) \/ w = Appended(Full(Took(v, r)))
    BY <2>1 DEF w
  <2>4. Added(v, d, w, r.drv)
    BY <1>3, <1>4, <2>2, <2>3, DoneAdds
  <2>5. QED
    BY <2>1, <2>4 DEF w
<1>7. QED
  BY <1>5, <1>6

-----------------------------------------------------------------------------
(* The inductive invariant.                                                *)

DeviceTypes ==
  /\ dev \in Devices /\ Sound(drv)
  /\ user \in {"none", "append", "erased", "failed", "label0", "label1"}

\* Who is at work has a device that is open and ready, and a ready device has a
\* cartridge and knows where it is.
ReadyHere ==
  /\ user # "none" => dev.ready
  /\ dev.ready => dev.open /\ drv.cart # "out" /\ Near(dev.position, drv)

\* The append position of the data partition is where its records end: not so
\* between a format and the labels, when the format has not reset it.
AppendHeld ==
  dev.ready /\ ~dev.write_error /\ user \notin {"failed", "label1"} => dev.append_pos[1] \in {0, Len(drv.recs[1])}

\* Who may append to the data partition is believed to be at its end.
EndHeld ==
  user = "append" /\ ~dev.write_error /\ drv.head.partition = 1 => dev.position.block = Len(drv.recs[1])

BlankHeld == user = "label1" => drv.recs[1] = <<>>

DeviceInv == DeviceTypes /\ ReadyHere /\ AppendHeld /\ EndHeld /\ BlankHeld

\* What the action properties ask of a step.
NoneLost == drv'.stamp # drv.stamp => IsPrefix(drv.recs[1], drv'.recs[1])
StaysClosed ==
  dev.open /\ dev.ready /\ dev.partition_space[1] = "no" /\ drv.mam.ewstate = "set"
    /\ user' \notin {"label1", "failed"} /\ dev'.open /\ dev'.ready
      => dev'.partition_space[1] = "no"
Good == DeviceInv' /\ NoneLost /\ StaysClosed

LEMMA PrefixSelf ==
  ASSUME NEW d, Sound(d)
  PROVE  IsPrefix(d.recs[1], d.recs[1])
<1>1. d.recs[1] \in Seq(Records)
  BY DEF Sound, Drives, Partition
<1>2. QED
  BY <1>1 DEF IsPrefix

\* A call that leaves the tape as it was.
LEMMA StaysGood ==
  ASSUME DeviceInv, Stays(dev, drv, dev', drv'), user' = "none", user \notin {"failed", "label1"}
  PROVE  Good
<1>1. NoneLost /\ StaysClosed
  BY DEF Stays, SameTape, NoneLost, StaysClosed
<1>2. DeviceTypes' /\ BlankHeld' /\ EndHeld'
  BY DEF Stays, DeviceTypes, BlankHeld, EndHeld
<1>3. ReadyHere'
  BY DEF DeviceInv, ReadyHere, Stays, SameTape
<1>4. AppendHeld'
  BY DEF DeviceInv, AppendHeld, Stays, SameTape
<1>5. QED
  BY <1>1, <1>2, <1>3, <1>4 DEF Good, DeviceInv

LEMMA KeepsGood ==
  ASSUME DeviceInv, Keeps(dev, drv, dev', drv'), user' = "none", user \notin {"failed", "label1"}
  PROVE  Good
<1>1. Stays(dev, drv, dev', drv')
  BY KeepsStays
<1>2. QED
  BY <1>1, StaysGood

\* A call that leaves the device not ready.
LEMMA DownGood ==
  ASSUME DeviceInv, dev' \in Devices, ~dev'.ready, Sound(drv'), drv'.stamp = drv.stamp, user' = "none"
  PROVE  Good
  BY DEF Good, DeviceInv, DeviceTypes, ReadyHere, AppendHeld, EndHeld, BlankHeld, NoneLost, StaysClosed

LEMMA FetchedGood ==
  ASSUME DeviceInv, dev.open, Fetched(dev, drv, dev', drv'), user' = "none"
  PROVE  Good
<1>1. NoneLost /\ StaysClosed
  BY DEF Fetched, SameTape, NoneLost, StaysClosed
<1>2. DeviceTypes' /\ BlankHeld' /\ EndHeld' /\ AppendHeld' /\ ReadyHere'
  BY DEF Fetched, DeviceTypes, BlankHeld, EndHeld, AppendHeld, ReadyHere
<1>3. QED
  BY <1>1, <1>2 DEF Good, DeviceInv

\* What a partition holds after a record was written at its end.
LEMMA WroteBehind ==
  ASSUME NEW d, NEW e, Sound(d), Wrote(d, e)
  PROVE  /\ d.head.partition # 1 => e.recs[1] = d.recs[1]
         /\ d.head.partition = 1 => Len(e.recs[1]) = d.head.block + 1 /\ e.head.block = d.head.block + 1
         /\ d.head.partition = 1 /\ d.head.block = Len(d.recs[1]) => IsPrefix(d.recs[1], e.recs[1])
  BY DEF Wrote, Partition

LEMMA AddedGood ==
  ASSUME DeviceInv, user = "append", ~dev.write_error, Added(dev, drv, dev', drv'), user' \in {"append", "none"}
  PROVE  Good
<1>1. /\ dev \in Devices /\ Sound(drv) /\ dev.ready /\ dev.open /\ drv.cart # "out" /\ Near(dev.position, drv)
      /\ dev.append_pos[1] \in {0, Len(drv.recs[1])}
      /\ drv.head.partition = 1 => dev.position.block = Len(drv.recs[1])
  BY DEF DeviceInv, DeviceTypes, ReadyHere, AppendHeld, EndHeld
<1>2. drv.head.partition = 1 => drv.head.block = Len(drv.recs[1]) /\ dev.position.block = drv.head.block
  <2>1. drv.head.block \in Nat /\ dev.position.block \in Nat
    BY <1>1, HeadFits, NearBlock, PositionHere
  <2>2. drv.head.partition = 1 => drv.head.block <= Len(drv.recs[1]) /\ dev.position.block <= drv.head.block
    BY <1>1 DEF Sound, Near
  <2>3. QED
    BY <1>1, <2>1, <2>2
<1>3. NoneLost
  <2>1. CASE Wrote(drv, drv')
    <3>1. CASE drv.head.partition = 1
      BY <1>1, <1>2, <2>1, <3>1, WroteBehind DEF NoneLost
    <3>2. CASE drv.head.partition # 1
      BY <1>1, <2>1, <3>2, WroteBehind, PrefixSelf DEF NoneLost
    <3>3. QED
      BY <3>1, <3>2
  <2>2. QED
    BY <2>1 DEF Added, NoneLost
<1>4. StaysClosed
  BY DEF Added, StaysClosed
<1>5. DeviceTypes' /\ ReadyHere' /\ BlankHeld'
  BY <1>1 DEF Added, DeviceTypes, ReadyHere, BlankHeld
<1>6. CASE dev'.write_error
  BY <1>3, <1>4, <1>5, <1>6 DEF Good, DeviceInv, AppendHeld, EndHeld
<1>7. CASE ~dev'.write_error
  <2>1. /\ Wrote(drv, drv')
        /\ dev'.position.block \in {dev.position.block + 1, drv.head.block + 1}
        /\ dev'.append_pos = [dev.append_pos EXCEPT ![drv.head.partition] = dev'.position.block]
    BY <1>7 DEF Added
  <2>2. dev.append_pos \in [Partition -> 0 .. EOD] /\ drv.head.partition \in Partition
    BY <1>1, HeadFits DEF Devices
  <2>3. CASE drv.head.partition = 1
    <3>1. dev'.position.block = drv.head.block + 1 /\ Len(drv'.recs[1]) = drv.head.block + 1
      BY <1>1, <1>2, <2>1, <2>3, WroteBehind
    <3>2. dev'.append_pos[1] = dev'.position.block
      BY <2>1, <2>2, <2>3
    <3>3. QED
      BY <1>3, <1>4, <1>5, <3>1, <3>2 DEF Good, DeviceInv, AppendHeld, EndHeld
  <2>4. CASE drv.head.partition # 1
    <3>1. drv'.recs[1] = drv.recs[1] /\ drv'.head.partition # 1
      BY <1>1, <2>1, <2>4, WroteBehind DEF Wrote
    <3>2. dev'.append_pos[1] = dev.append_pos[1]
      BY <2>1, <2>2, <2>4
    <3>3. QED
      BY <1>1, <1>3, <1>4, <1>5, <3>1, <3>2 DEF Good, DeviceInv, AppendHeld, EndHeld
  <2>5. QED
    BY <2>3, <2>4
<1>8. QED
  BY <1>6, <1>7

-----------------------------------------------------------------------------
(* The calls.                                                              *)

LEMMA ClosedDevice == Closed \in Devices /\ ~Closed.ready
  BY EodNat DEF Closed, BOM, Devices, Positions, Partition, Space3

LEMMA OpenGood == ASSUME DeviceInv, Open PROVE Good
<1> DEFINE Tries == UNION {IF x[3] = "ok" THEN {x} ELSE
               UNION {IF y[3] = "ok" THEN {y} ELSE Reserve(y[1], y[2]) : y \in Reserve(x[1], x[2])}
               : x \in Reserve(Closed, drv)}
<1>1. ~dev.open /\ ~dev.ready /\ user = "none" /\ dev \in Devices /\ Sound(drv)
  BY DEF Open, DeviceInv, DeviceTypes, ReadyHere
<1>2. PICK x \in Tries :
        IF x[3] # "ok" THEN \E y \in Allow(x[1], x[2], FALSE) : drv' = y[2] /\ UNCHANGED <<dev, user>>
        ELSE \E y \in Allow([x[1] EXCEPT !.open = TRUE], x[2], TRUE) : dev' = y[1] /\ drv' = y[2] /\ user' = "none"
  BY DEF Open
<1>3. Keeps(Closed, drv, x[1], x[2])
  <2>1. PICK a \in Reserve(Closed, drv) :
          x = a \/ (\E y \in Reserve(a[1], a[2]) : x = y \/ x \in Reserve(y[1], y[2]))
    <3>1. PICK a \in Reserve(Closed, drv) :
            x \in IF a[3] = "ok" THEN {a}
                  ELSE UNION {IF y[3] = "ok" THEN {y} ELSE Reserve(y[1], y[2]) : y \in Reserve(a[1], a[2])}
      BY <1>2
    <3>2. CASE a[3] = "ok"
      BY <3>1, <3>2
    <3>3. CASE a[3] # "ok"
      BY <3>1, <3>3
    <3>4. QED
      BY <3>2, <3>3
  <2>2. Keeps(Closed, drv, a[1], a[2]) /\ a[1] \in Devices /\ Sound(a[2])
    BY <1>1, ClosedDevice, ReserveKeeps DEF Keeps
  <2>3. ASSUME NEW y \in Reserve(a[1], a[2]) PROVE Keeps(Closed, drv, y[1], y[2]) /\ y[1] \in Devices /\ Sound(y[2])
    <3>1. Keeps(a[1], a[2], y[1], y[2])
      BY <2>2, ReserveKeeps
    <3>2. QED
      BY <2>2, <3>1, KeepsOn DEF Keeps
  <2>4. ASSUME NEW y \in Reserve(a[1], a[2]), x \in Reserve(y[1], y[2]) PROVE Keeps(Closed, drv, x[1], x[2])
    <3>1. Keeps(y[1], y[2], x[1], x[2])
      BY <2>3, <2>4, ReserveKeeps
    <3>2. QED
      BY <2>3, <3>1, KeepsOn
  <2>5. QED
    BY <2>1, <2>2, <2>3, <2>4
<1> HIDE DEF Tries
<1>4. x[1] \in Devices /\ Sound(x[2]) /\ x[2].stamp = drv.stamp /\ ~x[1].ready
  BY <1>3, ClosedDevice DEF Keeps, SameTape
<1>5. CASE x[3] # "ok"
  <2>1. PICK y \in Allow(x[1], x[2], FALSE) : drv' = y[2] /\ UNCHANGED <<dev, user>>
    BY <1>2, <1>5
  <2>2. Keeps(x[1], x[2], y[1], y[2])
    BY <1>4, AllowKeeps
  <2>3. QED
    BY <1>1, <1>4, <2>1, <2>2, DownGood DEF Keeps, SameTape
<1>6. CASE x[3] = "ok"
  <2> DEFINE v == [x[1] EXCEPT !.open = TRUE]
  <2>1. PICK y \in Allow(v, x[2], TRUE) : dev' = y[1] /\ drv' = y[2] /\ user' = "none"
    BY <1>2, <1>6
  <2>2. v \in Devices /\ ~v.ready
    BY <1>4 DEF Devices
  <2> HIDE DEF v
  <2>3. Keeps(v, x[2], y[1], y[2])
    BY <1>4, <2>2, AllowKeeps
  <2>4. QED
    BY <1>1, <1>4, <2>1, <2>2, <2>3, DownGood DEF Keeps, SameTape
<1>7. QED
  BY <1>5, <1>6

LEMMA LoadTapeGood == ASSUME ~Unreadable, DeviceInv, LoadTapeCall PROVE Good
<1>1. PICK x \in LoadTape(dev, drv) : dev' = x[1] /\ drv' = x[2] /\ user' = "none"
  BY DEF LoadTapeCall, Outcome
<1>2. Fetched(dev, drv, x[1], x[2])
  BY LoadTapeFetches DEF DeviceInv, DeviceTypes
<1>3. QED
  BY <1>1, <1>2, FetchedGood DEF LoadTapeCall

LEMMA UnloadGood == ASSUME ~Unreadable, DeviceInv, UnloadTape PROVE Good
<1>1. dev \in Devices /\ Sound(drv) /\ drv.cart # "out"
  BY DEF DeviceInv, DeviceTypes, ReadyHere, UnloadTape
<1>2. PICK x \in UnloadResults(dev, drv) : dev' = x[1] /\ drv' = x[2] /\ user' = "none"
  BY DEF UnloadTape, Outcome
<1>3. PICK w \in Allow(dev, drv, FALSE) : \E r \in Rewind(w[2], w[1].position) : \E u \in Unload(r.drv, r.pos) :
        \E y \in SetAom(Took(w[1], u), u.drv, FALSE) : x = <<[y[1] EXCEPT !.ready = FALSE], y[2], y[3]>>
  <2> DEFINE ends(w, u) == {<<[y[1] EXCEPT !.ready = FALSE], y[2], y[3]>> : y \in SetAom(Took(w[1], u), u.drv, FALSE)}
             unloads(w, r) == UNION {ends(w, u) : u \in Unload(r.drv, r.pos)}
             rewinds(w) == UNION {unloads(w, r) : r \in Rewind(w[2], w[1].position)}
  <2>1. x \in UNION {rewinds(w) : w \in Allow(dev, drv, FALSE)}
    BY <1>2 DEF UnloadResults
  <2> HIDE DEF rewinds
  <2>2. PICK w \in Allow(dev, drv, FALSE) : x \in rewinds(w)
    BY <2>1
  <2> HIDE DEF unloads
  <2>3. PICK r \in Rewind(w[2], w[1].position) : x \in unloads(w, r)
    BY <2>2 DEF rewinds
  <2> HIDE DEF ends
  <2>4. PICK u \in Unload(r.drv, r.pos) : x \in ends(w, u)
    BY <2>3 DEF unloads
  <2>5. \E y \in SetAom(Took(w[1], u), u.drv, FALSE) : x = <<[y[1] EXCEPT !.ready = FALSE], y[2], y[3]>>
    BY <2>4 DEF ends
  <2>6. QED
    BY <2>5
<1>4. PICK r \in Rewind(w[2], w[1].position) : \E u \in Unload(r.drv, r.pos) :
        \E y \in SetAom(Took(w[1], u), u.drv, FALSE) : x = <<[y[1] EXCEPT !.ready = FALSE], y[2], y[3]>>
  BY <1>3
<1>5. PICK u \in Unload(r.drv, r.pos) :
        \E y \in SetAom(Took(w[1], u), u.drv, FALSE) : x = <<[y[1] EXCEPT !.ready = FALSE], y[2], y[3]>>
  BY <1>4
<1>6. PICK y \in SetAom(Took(w[1], u), u.drv, FALSE) : x = <<[y[1] EXCEPT !.ready = FALSE], y[2], y[3]>>
  BY <1>5
<1>7. w[1] \in Devices /\ Sound(w[2]) /\ SameTape(drv, w[2])
  BY <1>1, AllowKeeps DEF Keeps
<1>8. Sound(r.drv) /\ SameTape(w[2], r.drv) /\ r.pos \in Positions
  BY <1>7, RewindLands, PositionHere DEF Landed
<1>9. Sound(u.drv) /\ SameTape(r.drv, u.drv) /\ u.pos \in Positions
  <2>1. r.drv.cart # "out"
    BY <1>1, <1>7, <1>8 DEF SameTape
  <2>2. QED
    BY <1>8, <2>1, UnloadLands DEF Landed
<1>10. Took(w[1], u) \in Devices
  BY <1>7, <1>9, TookDevice
<1>11. y[1] \in Devices /\ Sound(y[2]) /\ SameTape(u.drv, y[2])
  BY <1>9, <1>10, AomKeeps DEF Keeps
<1>12. [y[1] EXCEPT !.ready = FALSE] \in Devices /\ ~[y[1] EXCEPT !.ready = FALSE].ready
  BY <1>11 DEF Devices
<1>13. dev' = [y[1] EXCEPT !.ready = FALSE] /\ drv' = y[2]
  BY <1>2, <1>6
<1>14. y[2].stamp = drv.stamp
  BY <1>7, <1>8, <1>9, <1>11 DEF SameTape
<1>15. QED
  BY <1>2, <1>11, <1>12, <1>13, <1>14, DownGood

LEMMA AppendOnlyGood == ASSUME ~Unreadable, DeviceInv, NEW on \in BOOLEAN, EnableAppendOnly(on) PROVE Good
<1>1. PICK x \in SetAom(dev, drv, on) : dev' = x[1] /\ drv' = x[2] /\ user' = "none"
  BY DEF EnableAppendOnly, Outcome
<1>2. Keeps(dev, drv, x[1], x[2])
  BY AomKeeps DEF DeviceInv, DeviceTypes
<1>3. user = "none"
  BY DEF EnableAppendOnly
<1>4. QED
  BY <1>1, <1>2, <1>3, KeepsGood

LEMMA CloseGood == ASSUME ~Unreadable, DeviceInv, NEW skip_aom \in BOOLEAN, Close(skip_aom) PROVE Good
<1>1. dev \in Devices /\ Sound(drv)
  BY DEF DeviceInv, DeviceTypes
<1>2. PICK a \in Allow(dev, drv, FALSE) : \E b \in IF skip_aom THEN {a} ELSE SetAom(a[1], a[2], FALSE) :
        \E c \in Release(b[1], b[2]) : \E r \in Rewind(c[2], c[1].position) :
          dev' = [c[1] EXCEPT !.open = FALSE, !.ready = FALSE] /\ drv' = r.drv /\ user' = "none"
  BY DEF Close
<1>3. a[1] \in Devices /\ Sound(a[2]) /\ SameTape(drv, a[2])
  BY <1>1, AllowKeeps DEF Keeps
<1>4. PICK b \in IF skip_aom THEN {a} ELSE SetAom(a[1], a[2], FALSE) :
        \E c \in Release(b[1], b[2]) : \E r \in Rewind(c[2], c[1].position) :
          dev' = [c[1] EXCEPT !.open = FALSE, !.ready = FALSE] /\ drv' = r.drv /\ user' = "none"
  BY <1>2
<1>5. b[1] \in Devices /\ Sound(b[2]) /\ SameTape(drv, b[2])
  <2>1. CASE b = a
    BY <1>3, <2>1
  <2>2. CASE b \in SetAom(a[1], a[2], FALSE)
    <3>1. b[1] \in Devices /\ Sound(b[2]) /\ SameTape(a[2], b[2])
      BY <1>3, <2>2, AomKeeps DEF Keeps
    <3>2. QED
      BY <1>3, <3>1, StillSame
  <2>3. QED
    BY <2>1, <2>2
<1>6. PICK c \in Release(b[1], b[2]) : \E r \in Rewind(c[2], c[1].position) :
          dev' = [c[1] EXCEPT !.open = FALSE, !.ready = FALSE] /\ drv' = r.drv /\ user' = "none"
  BY <1>4
<1>7. c[1] \in Devices /\ Sound(c[2]) /\ SameTape(b[2], c[2])
  BY <1>5, ReleaseKeeps DEF Keeps
<1>8. PICK r \in Rewind(c[2], c[1].position) :
          dev' = [c[1] EXCEPT !.open = FALSE, !.ready = FALSE] /\ drv' = r.drv /\ user' = "none"
  BY <1>6
<1>9. Sound(r.drv) /\ SameTape(c[2], r.drv)
  BY <1>7, RewindLands, PositionHere DEF Landed
<1>10. dev' \in Devices /\ ~dev'.ready
  BY <1>7, <1>8 DEF Devices
<1>11. r.drv.stamp = drv.stamp
  BY <1>5, <1>7, <1>9 DEF SameTape
<1>12. QED
  BY <1>8, <1>9, <1>10, <1>11, DownGood

\* The cartridge is put in or taken out by hand.
LEMMA HandGood == ASSUME DeviceInv, Eject \/ Insert PROVE Good
<1>1. dev \in Devices /\ Sound(drv) /\ ~dev.ready /\ user = "none"
  BY DEF DeviceInv, DeviceTypes, ReadyHere, Eject, Insert
<1>2. PICK cart \in {"out", "in"} :
        drv' = [drv EXCEPT !.cart = cart, !.head = [partition |-> 0, block |-> 0]] /\ UNCHANGED <<dev, user>>
  BY DEF Eject, Insert
<1> DEFINE start == [partition |-> 0, block |-> 0]
<1>3. start \in Heads /\ start.partition = 0 /\ start.block = 0
  BY DEF Heads, Partition
<1>4. drv \in Drives /\ Len(drv.recs[0]) \in Nat
  BY <1>1, LengthsNat DEF Sound, Partition
<1> HIDE DEF start
<1>5. drv' \in Drives /\ drv'.recs = drv.recs /\ drv'.head = start /\ drv'.stamp = drv.stamp
  BY <1>2, <1>3, <1>4 DEF Drives, start
<1>6. Sound(drv')
  BY <1>1, <1>3, <1>4, <1>5 DEF Sound
<1>7. QED
  BY <1>1, <1>2, <1>5, <1>6, DownGood

LEMMA SeekBlockGood ==
  ASSUME ~Unreadable, DeviceInv, NEW p \in Partition, NEW b \in 0 .. Len(drv.recs[p]), SeekBlock(p, b)
  PROVE  Good
<1>1. dev \in Devices /\ Sound(drv)
  BY DEF DeviceInv, DeviceTypes
<1> DEFINE dest == [partition |-> p, block |-> b]
<1>2. dest \in Places
  <2>1. Len(drv.recs[p]) \in 0 .. Capacity
    BY <1>1, LengthsNat
  <2>2. b \in 0 .. EOD
    BY <2>1, BlockFits, EodNat
  <2>3. QED
    BY <2>2 DEF Places
<1>3. PICK x \in Seek(dev, drv, dest) : dev' = x[1] /\ drv' = x[2] /\ user' = "none"
  BY DEF SeekBlock, Outcome
<1> HIDE DEF dest
<1>4. Keeps(dev, drv, x[1], x[2])
  BY <1>1, <1>2, SeekKeeps
<1>5. user \notin {"failed", "label1"}
  BY DEF SeekBlock, Usable
<1>6. QED
  BY <1>3, <1>4, <1>5, KeepsGood

LEMMA SetAppendGood ==
  ASSUME DeviceInv, NEW b \in Filemarks(drv.recs[0]), SetAppendPosition(0, b - 1)
  PROVE  Good
<1>1. dev \in Devices /\ Sound(drv) /\ Len(drv.recs[0]) \in 0 .. Capacity /\ b \in 1 .. Len(drv.recs[0])
  BY LengthsNat DEF DeviceInv, DeviceTypes, Partition, Filemarks
<1>2. b - 1 \in 0 .. EOD
  BY <1>1, EodNat
<1> DEFINE a == [dev.append_pos EXCEPT ![0] = b - 1]
<1>3. a \in [Partition -> 0 .. EOD] /\ a[1] = dev.append_pos[1]
  BY <1>1, <1>2 DEF Devices, Partition
<1>4. dev' = [dev EXCEPT !.append_pos = a] /\ drv' = drv /\ user' = "none" /\ user \notin {"failed", "label1"}
  BY <1>1 DEF SetAppendPosition, Usable, Devices
<1> HIDE DEF a
<1>5. /\ dev' \in Devices /\ dev'.append_pos = a /\ dev'.position = dev.position /\ dev'.write_error = dev.write_error
      /\ dev'.open = dev.open /\ dev'.ready = dev.ready /\ dev'.partition_space = dev.partition_space
  BY <1>1, <1>3, <1>4 DEF Devices
<1>6. Stays(dev, drv, dev', drv')
  BY <1>1, <1>3, <1>4, <1>5 DEF Stays, SameTape
<1>7. QED
  BY <1>4, <1>6, StaysGood

LEMMA LocateGood ==
  ASSUME ~Unreadable, DeviceInv,
         \/ LocateNextIndex \/ LocatePreviousIndex
         \/ (\E p \in Partition : LocateFirstIndex(p)) \/ (\E p \in Partition : LocateLastIndex(p))
  PROVE  Good
<1>1. dev \in Devices /\ Sound(drv) /\ user \notin {"failed", "label1"}
  BY DEF DeviceInv, DeviceTypes, LocateNextIndex, LocatePreviousIndex, LocateFirstIndex, LocateLastIndex, Usable
<1>2. ASSUME NEW y, Stays(dev, drv, y[1], y[2]), NEW n \in Int, NEW x, x = y \/ x \in SpaceResults(y[1], y[2], n)
      PROVE  Stays(dev, drv, x[1], x[2])
  <2>1. CASE x \in SpaceResults(y[1], y[2], n)
    <3>1. y[1] \in Devices /\ Sound(y[2])
      BY <1>2 DEF Stays
    <3>2. Keeps(y[1], y[2], x[1], x[2])
      BY <2>1, <3>1, SpaceKeeps
    <3>3. QED
      BY <1>2, <3>2, StaysOn
  <2>2. QED
    BY <1>2, <2>1
<1>3. ASSUME NEW n \in Int, NEW y \in SpaceResults(dev, drv, n) PROVE Stays(dev, drv, y[1], y[2])
  BY <1>1, SpaceKeeps, KeepsStays
<1>4. ASSUME NEW x, Stays(dev, drv, x[1], x[2]), Outcome(x, "none") PROVE Good
  BY <1>1, <1>4, StaysGood DEF Outcome
<1>5. 1 \in Int /\ -2 \in Int /\ -4 \in Int
  OBVIOUS
<1>6. CASE LocateNextIndex
  <2>1. PICK x \in SpaceResults(dev, drv, 1) : Outcome(x, "none")
    BY <1>6 DEF LocateNextIndex
  <2>2. QED
    BY <1>3, <1>4, <1>5, <2>1
<1>7. CASE LocatePreviousIndex
  <2>1. \E x : \E y \in SpaceResults(dev, drv, -4) :
          (x = y \/ x \in SpaceResults(y[1], y[2], 1)) /\ Outcome(x, "none")
    BY <1>7 DEF LocatePreviousIndex, Then
  <2>2. PICK x : \E y \in SpaceResults(dev, drv, -4) :
          (x = y \/ x \in SpaceResults(y[1], y[2], 1)) /\ Outcome(x, "none")
    BY <2>1
  <2>3. PICK y \in SpaceResults(dev, drv, -4) : x = y \/ x \in SpaceResults(y[1], y[2], 1)
    BY <2>2
  <2>4. Stays(dev, drv, y[1], y[2])
    BY <1>3, <1>5
  <2>5. Stays(dev, drv, x[1], x[2])
    BY <1>2, <1>5, <2>3, <2>4
  <2>6. QED
    BY <1>4, <2>2, <2>5
<1>8. CASE \E p \in Partition : LocateFirstIndex(p)
  <2>1. PICK p \in Partition : LocateFirstIndex(p)
    BY <1>8
  <2> DEFINE dest == [partition |-> p, block |-> 4]
  <2>2. \E x : \E y \in Seek(dev, drv, dest) :
          (x = y \/ x \in SpaceResults(y[1], y[2], 1)) /\ Outcome(x, "none")
    BY <2>1 DEF LocateFirstIndex, Then
  <2>3. dest \in Places
    <3>1. 4 \in 0 .. EOD
      BY DEF EOD
    <3>2. QED
      BY <3>1 DEF Places
  <2> HIDE DEF dest
  <2>4. PICK x : \E y \in Seek(dev, drv, dest) :
          (x = y \/ x \in SpaceResults(y[1], y[2], 1)) /\ Outcome(x, "none")
    BY <2>2
  <2>5. PICK y \in Seek(dev, drv, dest) : x = y \/ x \in SpaceResults(y[1], y[2], 1)
    BY <2>4
  <2>6. Stays(dev, drv, y[1], y[2])
    BY <1>1, <2>3, SeekKeeps, KeepsStays
  <2>7. Stays(dev, drv, x[1], x[2])
    BY <1>2, <1>5, <2>5, <2>6
  <2>8. QED
    BY <1>4, <2>4, <2>7
<1>9. CASE \E p \in Partition : LocateLastIndex(p)
  <2>1. PICK p \in Partition : LocateLastIndex(p)
    BY <1>9
  <2>2. \E x, z : \E y \in SeekEodResults(dev, drv, p) :
          /\ z = y \/ z \in SpaceResults(y[1], y[2], -2)
          /\ x = z \/ x \in SpaceResults(z[1], z[2], 1)
          /\ Outcome(x, "none")
    BY <2>1 DEF LocateLastIndex, Then
  <2>3. PICK x, z : \E y \in SeekEodResults(dev, drv, p) :
          /\ z = y \/ z \in SpaceResults(y[1], y[2], -2)
          /\ x = z \/ x \in SpaceResults(z[1], z[2], 1)
          /\ Outcome(x, "none")
    BY <2>2
  <2>4. PICK y \in SeekEodResults(dev, drv, p) : z = y \/ z \in SpaceResults(y[1], y[2], -2)
    BY <2>3
  <2>5. Stays(dev, drv, y[1], y[2])
    BY <1>1, SeekEodStays
  <2>6. Stays(dev, drv, z[1], z[2])
    BY <1>2, <1>5, <2>4, <2>5
  <2>7. Stays(dev, drv, x[1], x[2])
    BY <1>2, <1>5, <2>3, <2>6
  <2>8. QED
    BY <1>4, <2>3, <2>7
<1>10. QED
  BY <1>6, <1>7, <1>8, <1>9

LEMMA ReadGood == ASSUME DeviceInv, ReadBlock PROVE Good
<1>1. dev \in Devices /\ Sound(drv) /\ Near(dev.position, drv) /\ user \notin {"failed", "label1"}
  BY DEF DeviceInv, DeviceTypes, ReadyHere, ReadBlock, Usable
<1>2. PICK r \in Read(drv, dev.position) : dev' = Took(dev, r) /\ drv' = r.drv /\ user' = "none"
  BY DEF ReadBlock, Outcome
<1>3. Carried(drv, dev.position, r)
  BY <1>1, ReadCarries, PositionHere
<1>4. Keeps(dev, drv, dev', drv')
  BY <1>1, <1>2, <1>3, TookKeeps
<1>5. QED
  BY <1>1, <1>2, <1>4, KeepsGood

\* A call that says where to append.
LEMMA AppendGood ==
  ASSUME DeviceInv, Stays(dev, drv, dev', drv'), user \notin {"failed", "label1"}, user' \in {"append", "none"},
         user' = "append" => /\ dev.ready
                             /\ ~dev'.write_error /\ drv'.head.partition = 1 => dev'.position.block = Len(drv.recs[1])
  PROVE  Good
<1>1. NoneLost /\ StaysClosed
  BY DEF Stays, SameTape, NoneLost, StaysClosed
<1>2. DeviceTypes' /\ BlankHeld'
  BY DEF Stays, DeviceTypes, BlankHeld
<1>3. ReadyHere'
  BY DEF DeviceInv, ReadyHere, Stays, SameTape
<1>4. AppendHeld'
  BY DEF DeviceInv, AppendHeld, Stays, SameTape
<1>5. EndHeld'
  BY DEF EndHeld, Stays, SameTape
<1>6. QED
  BY <1>1, <1>2, <1>3, <1>4, <1>5 DEF Good, DeviceInv

LEMMA SeekEodGood == ASSUME ~Unreadable, DeviceInv, NEW p \in Partition, SeekEod(p) PROVE Good
<1>1. dev \in Devices /\ Sound(drv) /\ dev.ready /\ user \notin {"failed", "label1"}
  BY DEF DeviceInv, DeviceTypes, SeekEod, Usable
<1>2. PICK x \in SeekEodResults(dev, drv, p) : Outcome(x, "append")
  BY DEF SeekEod
<1>3. Stays(dev, drv, dev', drv')
  BY <1>1, <1>2, SeekEodStays DEF Outcome
<1>4. user' \in {"append", "none"} /\ (user' = "append" => x[3] = "ok")
  BY <1>2 DEF Outcome
<1>5. x[3] = "ok" => /\ dev'.position.partition = p /\ dev'.position.block = Len(drv.recs[p])
                     /\ At(dev'.position, drv')
  BY <1>1, <1>2, SeekEodStays DEF Outcome
<1>6. user' = "append" /\ drv'.head.partition = 1 => dev'.position.block = Len(drv.recs[1])
  BY <1>4, <1>5 DEF At
<1>7. QED
  BY <1>1, <1>3, <1>4, <1>6, AppendGood

LEMMA SeekAppendGood == ASSUME ~Unreadable, DeviceInv, NEW p \in Partition, SeekAppendPosition(p) PROVE Good
<1>1. /\ dev \in Devices /\ Sound(drv) /\ dev.ready /\ user \notin {"failed", "label1"} /\ Near(dev.position, drv)
      /\ ~dev.write_error => dev.append_pos[1] \in {0, Len(drv.recs[1])}
  BY DEF DeviceInv, DeviceTypes, ReadyHere, AppendHeld, SeekAppendPosition, Usable
<1> DEFINE unlock == p = 0
<1>2. PICK x \in SeekAppendResults(dev, drv, p, unlock) : Outcome(x, "append")
  BY DEF SeekAppendPosition
<1>3. unlock \in BOOLEAN
  OBVIOUS
<1> HIDE DEF unlock
<1>4. Stays(dev, drv, dev', drv')
  BY <1>1, <1>2, <1>3, SeekAppendStays DEF Outcome
<1>5. user' \in {"append", "none"} /\ (user' = "append" => x[3] = "ok")
  BY <1>2 DEF Outcome
<1>6. x[3] = "ok" => /\ dev'.position.partition = p
                     /\ dev.append_pos[p] \in {0, Len(drv.recs[p])} => dev'.position.block = Len(drv.recs[p])
  BY <1>1, <1>2, <1>3, SeekAppendStays DEF Outcome
<1>7. dev'.write_error = dev.write_error /\ Near(dev'.position, drv')
  BY <1>1, <1>4 DEF Stays
<1>8. user' = "append" /\ ~dev'.write_error /\ drv'.head.partition = 1 => dev'.position.block = Len(drv.recs[1])
  BY <1>1, <1>5, <1>6, <1>7 DEF Near
<1>9. QED
  BY <1>1, <1>4, <1>5, <1>8, AppendGood

\* A device that refuses a write is left as it is.
LEMMA RefusedGood == ASSUME DeviceInv, user = "append", user' = "none", UNCHANGED <<dev, drv>> PROVE Good
<1>1. Keeps(dev, drv, dev', drv')
  BY KeepsSelf DEF DeviceInv, DeviceTypes
<1>2. QED
  BY <1>1, KeepsGood

LEMMA WriteBlockGood ==
  ASSUME DeviceInv, NEW index \in BOOLEAN, NEW less, NEW nospc, WriteBlock(index, less, nospc)
  PROVE  Good
<1>1. user = "append" /\ dev \in Devices /\ Sound(drv) /\ Near(dev.position, drv)
  BY DEF DeviceInv, DeviceTypes, ReadyHere, WriteBlock
<1>2. CASE Refused(dev, less, nospc)
  BY <1>1, <1>2, RefusedGood DEF WriteBlock
<1>3. CASE ~Refused(dev, less, nospc)
  <2>1. PICK x \in WriteResults(dev, drv, index, nospc) : Outcome(x, "append")
    BY <1>3 DEF WriteBlock
  <2>2. Added(dev, drv, x[1], x[2])
    BY <1>1, WriteAdds
  <2>3. ~dev.write_error
    BY <1>3 DEF Refused
  <2>4. QED
    BY <1>1, <2>1, <2>2, <2>3, AddedGood DEF Outcome
<1>4. QED
  BY <1>2, <1>3

LEMMA WriteFilemarkGood == ASSUME ~Unreadable, DeviceInv, NEW less, NEW nospc, WriteFilemark(less, nospc) PROVE Good
<1>1. user = "append" /\ dev \in Devices /\ Sound(drv) /\ Near(dev.position, drv)
  BY DEF DeviceInv, DeviceTypes, ReadyHere, WriteFilemark
<1>2. CASE Refused(dev, less, nospc)
  BY <1>1, <1>2, RefusedGood DEF WriteFilemark
<1>3. CASE ~Refused(dev, less, nospc)
  <2>1. PICK x \in FilemarkResults(dev, drv, nospc) : Outcome(x, "append")
    BY <1>3 DEF WriteFilemark
  <2>2. Added(dev, drv, x[1], x[2])
    BY <1>1, FilemarkAdds
  <2>3. ~dev.write_error
    BY <1>3 DEF Refused
  <2>4. QED
    BY <1>1, <2>1, <2>2, <2>3, AddedGood DEF Outcome
<1>4. QED
  BY <1>2, <1>3

LEMMA RecoverGood == ASSUME ~Unreadable, DeviceInv, RecoverEod PROVE Good
<1>1. dev \in Devices /\ Sound(drv) /\ dev.open /\ user = "none"
  BY DEF DeviceInv, DeviceTypes, RecoverEod, Usable
<1>2. PICK r \in ReadPosition(drv, dev.position) :
        IF r.rc # "ok" \/ r.pos.block = 0 THEN drv' = r.drv /\ UNCHANGED <<dev, user>>
        ELSE \E x \in LoadTape(dev, r.drv) : \E y :
               /\ (IF x[3] = "ok" THEN y \in Seek(x[1], x[2], [partition |-> r.pos.partition, block |-> r.pos.block - 1])
                  ELSE y = x)
               /\ \E z : /\ (IF y[3] = "ok" THEN \E e \in Erase(y[2], y[1].position) : z = <<Took(y[1], e), e.drv, e.rc>>
                            ELSE z = y)
                         /\ Outcome(z, "erased")
  BY DEF RecoverEod, Then
<1>3. r.drv = drv /\ r.pos \in Positions
  <2> DEFINE here == [dev.position EXCEPT !.partition = drv.head.partition, !.block = drv.head.block]
  <2>1. r = Result(drv, here, "ok")
    BY <1>2 DEF ReadPosition
  <2>2. here \in Positions
    BY <1>1, HeadFits, PositionHere DEF Positions
  <2> HIDE DEF here
  <2>3. QED
    BY <2>1, <2>2 DEF Result
<1>4. CASE r.rc # "ok" \/ r.pos.block = 0
  <2>1. dev' = dev /\ drv' = drv /\ user' = "none"
    BY <1>1, <1>2, <1>3, <1>4
  <2>2. QED
    BY <1>1, <2>1, KeepsSelf, KeepsGood
<1>5. CASE ~(r.rc # "ok" \/ r.pos.block = 0)
  <2> DEFINE dest == [partition |-> r.pos.partition, block |-> r.pos.block - 1]
  <2>1. dest \in Places
    <3>1. r.pos.block \in 0 .. EOD /\ r.pos.block # 0 /\ r.pos.partition \in Partition
      BY <1>3, <1>5 DEF Positions
    <3>2. r.pos.block - 1 \in 0 .. EOD
      BY <3>1, EodNat
    <3>3. QED
      BY <3>1, <3>2 DEF Places
  <2> DEFINE sought(x, y) == IF x[3] = "ok" THEN y \in Seek(x[1], x[2], dest) ELSE y = x
             erased(y, z) == IF y[3] = "ok" THEN \E e \in Erase(y[2], y[1].position) : z = <<Took(y[1], e), e.drv, e.rc>>
                             ELSE z = y
  <2>2. \E x \in LoadTape(dev, drv) : \E y : sought(x, y) /\ (\E z : erased(y, z) /\ Outcome(z, "erased"))
    <3>1. \E x \in LoadTape(dev, r.drv) : \E y : sought(x, y) /\ (\E z : erased(y, z) /\ Outcome(z, "erased"))
      BY <1>2, <1>5, Zenon
    <3> HIDE DEF dest, sought, erased
    <3>2. QED
      BY <1>3, <3>1
  <2> HIDE DEF dest, sought, erased
  <2>3. PICK x \in LoadTape(dev, drv) : \E y : sought(x, y) /\ (\E z : erased(y, z) /\ Outcome(z, "erased"))
    BY <2>2
  <2>4. PICK y : sought(x, y) /\ (\E z : erased(y, z) /\ Outcome(z, "erased"))
    BY <2>3
  <2>5. PICK z : erased(y, z) /\ Outcome(z, "erased")
    BY <2>4
  <2>6. Fetched(dev, drv, x[1], x[2]) /\ (x[3] = "ok" => x[1].ready)
    BY <1>1, LoadTapeFetches
  <2>7. CASE x[3] # "ok"
    <3>1. z = x
      BY <2>4, <2>7, <2>5 DEF sought, erased
    <3>2. dev' = x[1] /\ drv' = x[2] /\ user' = "none"
      BY <2>7, <2>5, <3>1 DEF Outcome
    <3>3. QED
      BY <1>1, <2>6, <3>2, FetchedGood
  <2>8. CASE x[3] = "ok"
    <3> DEFINE Erasing(v, d) == /\ v \in Devices /\ Sound(d) /\ v.open /\ v.ready /\ d.cart # "out"
                                /\ Near(v.position, d) /\ v.append_pos[1] = 0 /\ d.stamp = drv.stamp
                                /\ drv.mam.ewstate = "set" => v.partition_space[1] = "no"
    <3>1. Erasing(x[1], x[2])
      BY <1>1, <2>6, <2>8 DEF Fetched, SameTape
    <3>2. Erasing(y[1], y[2])
      <4>1. Keeps(x[1], x[2], y[1], y[2])
        <5>1. y \in Seek(x[1], x[2], dest)
          BY <2>4, <2>8 DEF sought
        <5>2. QED
          BY <2>1, <3>1, <5>1, SeekKeeps
      <4>2. QED
        BY <3>1, <4>1 DEF Keeps, SameTape
    <3>3. Erasing(z[1], z[2])
      <4>1. CASE z = y
        BY <3>2, <4>1
      <4>2. CASE y[3] = "ok"
        <5>1. PICK e \in Erase(y[2], y[1].position) : z = <<Took(y[1], e), e.drv, e.rc>>
          BY <2>5, <4>2 DEF erased
        <5>2. /\ Sound(e.drv) /\ e.drv.stamp = y[2].stamp
              /\ (e.drv.cart = "out" <=> y[2].cart = "out")
              /\ e.pos \in Positions /\ At(e.pos, e.drv)
          BY <3>2, EraseLands, PositionHere
        <5>3. Near(e.pos, e.drv)
          <6>1. e.drv.head.block \in Nat
            BY <5>2, HeadFits
          <6>2. QED
            BY <5>2, <6>1 DEF At, Near
        <5>4. z[1] = Took(y[1], e) /\ z[2] = e.drv
          BY <5>1
        <5>5. /\ Took(y[1], e) \in Devices /\ Took(y[1], e).position = e.pos
              /\ Took(y[1], e).append_pos = y[1].append_pos
              /\ Took(y[1], e).open = y[1].open /\ Took(y[1], e).ready = y[1].ready
              /\ Took(y[1], e).partition_space = y[1].partition_space
          BY <3>2, <5>2, TookDevice
        <5>6. QED
          BY <3>2, <5>2, <5>3, <5>4, <5>5
      <4>3. QED
        BY <2>5, <4>1, <4>2 DEF erased
    <3>4. dev' = z[1] /\ drv' = z[2] /\ user' \in {"erased", "none"}
      BY <2>5 DEF Outcome
    <3>5. Erasing(dev', drv')
      BY <3>3, <3>4
    <3>6. NoneLost /\ StaysClosed
      BY <3>5 DEF NoneLost, StaysClosed
    <3>7. DeviceInv'
      BY <3>4, <3>5 DEF DeviceInv, DeviceTypes, ReadyHere, AppendHeld, EndHeld, BlankHeld
    <3>8. QED
      BY <3>6, <3>7 DEF Good
  <2>9. QED
    BY <2>7, <2>8
<1>6. QED
  BY <1>4, <1>5

\* After a format, whatever became of it, only the labels may follow.
LEMMA FormattedGood ==
  ASSUME DeviceInv, dev' \in Devices, Sound(drv'), drv'.stamp = drv.stamp, dev'.ready => dev'.open,
         drv'.cart # "out", Near(dev'.position, drv'),
         dev'.ready, user' \in {"failed", "label1"}, user' = "label1" => drv'.recs[1] = <<>>
  PROVE  Good
  BY DEF Good, DeviceInv, DeviceTypes, ReadyHere, AppendHeld, EndHeld, BlankHeld, NoneLost, StaysClosed

LEMMA FormatGood == ASSUME ~Unreadable, DeviceInv, NEW format, FormatTape(format) PROVE Good
<1>1. dev \in Devices /\ Sound(drv) /\ dev.open /\ dev.ready /\ drv.cart # "out" /\ Near(dev.position, drv)
  BY DEF DeviceInv, DeviceTypes, ReadyHere, FormatTape
<1> DEFINE done(x) == IF x[3] # "ok" THEN dev' = x[1] /\ drv' = x[2] /\ user' = "failed"
                      ELSE \E r \in WriteEwstate(x[2], "clear") :
                             /\ dev' = [x[1] EXCEPT !.partition_space = [p \in Partition |-> "writable"]]
                             /\ drv' = r.drv /\ user' = IF format = "dest" THEN "label1" ELSE "failed"
           formatted(y, x) == IF y[3] = "ok"
                              THEN \E f \in Format(y[2], format, y[1].position) : x = <<Took(y[1], f), f.drv, f.rc>>
                              ELSE x = y
           Ready(v, d) == /\ v \in Devices /\ Sound(d) /\ v.open /\ v.ready /\ d.cart # "out"
                          /\ Near(v.position, d) /\ d.stamp = drv.stamp
<1>2. \E l \in Load(drv, dev.position) : \E x : formatted(<<Took(dev, l), l.drv, l.rc>>, x) /\ done(x)
  BY DEF FormatTape, Then
<1> HIDE DEF done, formatted
<1>3. PICK l \in Load(drv, dev.position) : \E x : formatted(<<Took(dev, l), l.drv, l.rc>>, x) /\ done(x)
  BY <1>2
<1>4. PICK x : formatted(<<Took(dev, l), l.drv, l.rc>>, x) /\ done(x)
  BY <1>3
<1>5. Carried(drv, dev.position, l) /\ (l.rc = "ok" => At(l.pos, l.drv) /\ l.drv.head = [partition |-> 0, block |-> 0])
  BY <1>1, LoadCarries, PositionHere
<1> DEFINE v == Took(dev, l)
<1>6. v \in Devices /\ v.position = l.pos /\ Keeps(dev, drv, v, l.drv)
  BY <1>1, <1>5, TookKeeps DEF Keeps
<1>7. Ready(v, l.drv)
  BY <1>1, <1>6 DEF Keeps, SameTape
<1> HIDE DEF v
<1>8. CASE l.rc # "ok"
  <2>1. x = <<v, l.drv, l.rc>>
    BY <1>4, <1>8 DEF formatted, v
  <2>2. dev' = v /\ drv' = l.drv /\ user' = "failed"
    BY <1>4, <1>8, <2>1 DEF done
  <2>3. QED
    BY <1>7, <2>2, FormattedGood
<1>9. CASE l.rc = "ok"
  <2>1. PICK f \in Format(l.drv, format, v.position) : x = <<Took(v, f), f.drv, f.rc>>
    BY <1>4, <1>9 DEF formatted, v
  <2>2. /\ Sound(f.drv) /\ f.drv.stamp = l.drv.stamp
        /\ (f.drv.cart = "out" <=> l.drv.cart = "out") /\ f.pos = v.position
        /\ f.rc = "ok" => f.drv.recs[1] = <<>> /\ f.drv.head = l.drv.head
        /\ f.rc # "ok" => f.drv.head = l.drv.head
    BY <1>5, <1>7, <1>9, FormatLands
  <2> DEFINE w == Took(v, f)
  <2>3. w \in Devices /\ w.position = v.position /\ w.open = v.open /\ w.ready = v.ready
    BY <1>6, <2>2, TookDevice, PositionHere
  <2>4. Ready(w, f.drv)
    BY <1>7, <2>2, <2>3 DEF Near
  <2>5. x[1] = w /\ x[2] = f.drv /\ x[3] = f.rc
    BY <2>1
  <2> HIDE DEF w
  <2>6. CASE f.rc # "ok"
    <3>1. dev' = w /\ drv' = f.drv /\ user' = "failed"
      BY <1>4, <2>5, <2>6 DEF done
    <3>2. QED
      BY <2>4, <3>1, FormattedGood
  <2>7. CASE f.rc = "ok"
    <3> DEFINE s == [p \in Partition |-> "writable"]
    <3>1. PICK r \in WriteEwstate(f.drv, "clear") :
            /\ dev' = [w EXCEPT !.partition_space = s] /\ drv' = r.drv
            /\ user' = IF format = "dest" THEN "label1" ELSE "failed"
      BY <1>4, <2>5, <2>7 DEF done
    <3>2. Noted(f.drv, r.drv)
      BY <2>2, EwstateNoted
    <3>3. s \in [Partition -> Space3]
      BY DEF Space3
    <3> HIDE DEF s
    <3>4. dev' \in Devices /\ dev'.position = w.position /\ dev'.open = w.open /\ dev'.ready = w.ready
      BY <2>3, <3>1, <3>3 DEF Devices
    <3>5. drv'.recs[1] = <<>>
      BY <2>2, <2>7, <3>1, <3>2 DEF Noted
    <3>6. Sound(drv') /\ drv'.stamp = drv.stamp /\ drv'.cart # "out" /\ Near(dev'.position, drv')
      BY <2>4, <3>1, <3>2, <3>4 DEF Noted, Near
    <3>7. QED
      BY <2>4, <3>1, <3>4, <3>5, <3>6, FormattedGood
  <2>8. QED
    BY <2>6, <2>7
<1>10. QED
  BY <1>8, <1>9

\* Writing the labels: the partition is written from its beginning, and the data
\* partition was empty.
Labelling(p, v, d) ==
  /\ v \in Devices /\ Sound(d) /\ v.open /\ v.ready /\ d.cart # "out" /\ Near(v.position, d)
  /\ dev.partition_space[1] = "no" => v.partition_space[1] = "no"
  /\ p = 0 => d.recs[1] = drv.recs[1]
AtLabel(p, v, d) ==
  /\ d.head.partition = p
  /\ p = 1 => d.head.block = Len(d.recs[1]) /\ v.position.block = d.head.block
EndKnown(v, d) == v.append_pos[1] \in {0, Len(d.recs[1])}

LEMMA LabelAdds ==
  ASSUME NEW p \in Partition, NEW v, NEW d, NEW w, NEW e, Labelling(p, v, d), AtLabel(p, v, d), Added(v, d, w, e)
  PROVE  /\ Labelling(p, w, e)
         /\ w.write_error \/ (AtLabel(p, w, e) /\ (p = 1 \/ EndKnown(v, d) => EndKnown(w, e)))
<1>1. Sound(d) /\ d.head.block \in Nat /\ v.append_pos \in [Partition -> 0 .. EOD]
  BY HeadFits DEF Labelling, Devices
<1>2. Labelling(p, w, e)
  <2>1. p = 0 => e.recs[1] = d.recs[1]
    BY <1>1, WroteBehind DEF Added, AtLabel
  <2>2. QED
    BY <2>1 DEF Labelling, Added
<1>3. CASE ~w.write_error
  <2>1. /\ Wrote(d, e) /\ w.position.block \in {v.position.block + 1, d.head.block + 1}
        /\ w.append_pos = [v.append_pos EXCEPT ![d.head.partition] = w.position.block]
    BY <1>3 DEF Added
  <2>2. CASE p = 1
    <3>1. w.position.block = d.head.block + 1 /\ Len(e.recs[1]) = d.head.block + 1 /\ e.head.block = d.head.block + 1
      BY <1>1, <2>1, <2>2, WroteBehind DEF AtLabel
    <3>2. w.append_pos[1] = w.position.block
      BY <1>1, <2>1, <2>2 DEF AtLabel
    <3>3. QED
      BY <1>2, <2>1, <2>2, <3>1, <3>2 DEF AtLabel, EndKnown, Wrote
  <2>3. CASE p = 0
    <3>1. w.append_pos[1] = v.append_pos[1] /\ e.recs[1] = d.recs[1]
      BY <1>1, <2>1, <2>3, WroteBehind DEF AtLabel, Partition
    <3>2. QED
      BY <1>2, <2>1, <2>3, <3>1 DEF AtLabel, EndKnown, Wrote
  <2>4. QED
    BY <2>2, <2>3 DEF Partition
<1>4. QED
  BY <1>2, <1>3

LEMMA LabelGood == ASSUME ~Unreadable, DeviceInv, WriteLabel PROVE Good
<1>1. /\ dev \in Devices /\ Sound(drv) /\ dev.open /\ dev.ready /\ drv.cart # "out" /\ Near(dev.position, drv)
      /\ user \in {"label1", "label0"}
  BY DEF DeviceInv, DeviceTypes, ReadyHere, WriteLabel, LabelOf
<1> DEFINE p == LabelOf[user]
           dest == [partition |-> p, block |-> 0]
           Block(v, d) == IF Refused(v, TRUE, FALSE) THEN {<<v, d, "error">>} ELSE WriteResults(v, d, p = 0, FALSE)
           Mark(v, d) == IF Refused(v, TRUE, FALSE) THEN {<<v, d, "error">>} ELSE FilemarkResults(v, d, FALSE)
<1>2. p \in Partition /\ (user = "label1" => p = 1) /\ (user = "label0" => p = 0)
  BY <1>1 DEF LabelOf, Partition
<1>3. dest \in Places /\ dest.partition = p /\ dest.block = 0
  BY <1>2, EodNat DEF Places
<1>4. \E y \in Seek(dev, drv, dest) : \E z :
        /\ (IF y[3] = "ok" THEN z \in Block(y[1], y[2]) ELSE z = y)
        /\ \E x : /\ (IF z[3] = "ok" THEN x \in Mark(z[1], z[2]) ELSE x = z)
                  /\ dev' = x[1] /\ drv' = x[2]
                  /\ user' = IF x[3] # "ok" THEN "failed" ELSE IF p = 1 THEN "label0" ELSE "none"
  <2>1. \E x \in UNION {IF z[3] = "ok" THEN Mark(z[1], z[2]) ELSE {z} :
                         z \in UNION {IF y[3] = "ok" THEN Block(y[1], y[2]) ELSE {y} : y \in Seek(dev, drv, dest)}} :
          /\ dev' = x[1] /\ drv' = x[2]
          /\ user' = IF x[3] # "ok" THEN "failed" ELSE IF p = 1 THEN "label0" ELSE "none"
    BY DEF WriteLabel, Then
  <2> HIDE DEF Block, Mark, dest, p
  <2>2. PICK x \in UNION {IF z[3] = "ok" THEN Mark(z[1], z[2]) ELSE {z} :
                         z \in UNION {IF y[3] = "ok" THEN Block(y[1], y[2]) ELSE {y} : y \in Seek(dev, drv, dest)}} :
          /\ dev' = x[1] /\ drv' = x[2]
          /\ user' = IF x[3] # "ok" THEN "failed" ELSE IF p = 1 THEN "label0" ELSE "none"
    BY <2>1
  <2>3. PICK z \in UNION {IF y[3] = "ok" THEN Block(y[1], y[2]) ELSE {y} : y \in Seek(dev, drv, dest)} :
          x \in IF z[3] = "ok" THEN Mark(z[1], z[2]) ELSE {z}
    BY <2>2
  <2>4. PICK y \in Seek(dev, drv, dest) : z \in IF y[3] = "ok" THEN Block(y[1], y[2]) ELSE {y}
    BY <2>3
  <2>5. IF y[3] = "ok" THEN z \in Block(y[1], y[2]) ELSE z = y
    BY <2>4
  <2>6. IF z[3] = "ok" THEN x \in Mark(z[1], z[2]) ELSE x = z
    BY <2>3
  <2>7. QED
    BY <2>2, <2>5, <2>6
<1>5. ASSUME NEW v, NEW d, Labelling(p, v, d), AtLabel(p, v, d), NEW x \in Block(v, d) \cup Mark(v, d)
      PROVE  x = <<v, d, "error">> \/ (~v.write_error /\ Added(v, d, x[1], x[2]))
  <2>1. v \in Devices /\ Sound(d) /\ Near(v.position, d)
    BY <1>5 DEF Labelling
  <2>2. CASE x \in WriteResults(v, d, p = 0, FALSE) /\ ~Refused(v, TRUE, FALSE)
    <3> DEFINE index == p = 0
    <3>1. index \in BOOLEAN /\ x \in WriteResults(v, d, index, FALSE)
      BY <2>2
    <3> HIDE DEF index
    <3>2. Added(v, d, x[1], x[2])
      BY <2>1, <3>1, WriteAdds
    <3>3. QED
      BY <2>2, <3>2 DEF Refused
  <2>3. CASE x \in FilemarkResults(v, d, FALSE) /\ ~Refused(v, TRUE, FALSE)
    <3>1. Added(v, d, x[1], x[2])
      BY <2>1, <2>3, FilemarkAdds
    <3>2. QED
      BY <2>3, <3>1 DEF Refused
  <2>4. QED
    BY <1>5, <2>2, <2>3
<1> HIDE DEF Block, Mark, dest, p
<1>6. PICK y \in Seek(dev, drv, dest) : \E z :
        /\ (IF y[3] = "ok" THEN z \in Block(y[1], y[2]) ELSE z = y)
        /\ \E x : /\ (IF z[3] = "ok" THEN x \in Mark(z[1], z[2]) ELSE x = z)
                  /\ dev' = x[1] /\ drv' = x[2]
                  /\ user' = IF x[3] # "ok" THEN "failed" ELSE IF p = 1 THEN "label0" ELSE "none"
  BY <1>4
<1>7. PICK z : /\ (IF y[3] = "ok" THEN z \in Block(y[1], y[2]) ELSE z = y)
               /\ \E x : /\ (IF z[3] = "ok" THEN x \in Mark(z[1], z[2]) ELSE x = z)
                         /\ dev' = x[1] /\ drv' = x[2]
                         /\ user' = IF x[3] # "ok" THEN "failed" ELSE IF p = 1 THEN "label0" ELSE "none"
  BY <1>6
<1>8. PICK x : /\ (IF z[3] = "ok" THEN x \in Mark(z[1], z[2]) ELSE x = z)
               /\ dev' = x[1] /\ drv' = x[2]
               /\ user' = IF x[3] # "ok" THEN "failed" ELSE IF p = 1 THEN "label0" ELSE "none"
  BY <1>7
<1>9. Labelling(p, y[1], y[2]) /\ y[2].stamp = drv.stamp /\ (p = 0 /\ ~dev.write_error => EndKnown(dev, drv))
      /\ y[1].append_pos = dev.append_pos /\ y[2].recs = drv.recs /\ y[1].write_error = dev.write_error
  <2>1. Keeps(dev, drv, y[1], y[2])
    BY <1>1, <1>3, SeekKeeps
  <2>2. p = 0 /\ ~dev.write_error => EndKnown(dev, drv)
    BY <1>1, <1>2 DEF DeviceInv, AppendHeld, EndKnown
  <2>3. QED
    BY <1>1, <2>1, <2>2 DEF Keeps, SameTape, Labelling
<1>10. y[3] = "ok" => AtLabel(p, y[1], y[2])
  <2>1. y[3] = "ok" => Same(dest, y[1].position)
    <3>1. dest.block # EOD
      BY <1>3 DEF EOD
    <3>2. QED
      BY <1>1, <1>3, <3>1, SeekKeeps
  <2>2. ASSUME y[3] = "ok" PROVE y[2].head.partition = p /\ y[1].position.block = 0
    BY <1>3, <1>9, <2>1, <2>2 DEF Labelling, Near, Same
  <2>3. p = 1 => y[2].recs[1] = <<>>
    BY <1>1, <1>2, <1>9 DEF DeviceInv, BlankHeld, Partition
  <2>4. ASSUME y[3] = "ok", p = 1 PROVE y[2].head.block = 0 /\ Len(y[2].recs[1]) = 0
    <3>1. Sound(y[2])
      BY <1>9 DEF Labelling
    <3>2. y[2].head.block \in Nat /\ y[2].head.block <= Len(y[2].recs[y[2].head.partition])
      BY <3>1, HeadFits DEF Sound
    <3>3. QED
      BY <2>2, <2>3, <2>4, <3>2
  <2>5. QED
    BY <2>2, <2>4 DEF AtLabel
<1>11. Labelling(p, z[1], z[2])
       /\ (z[3] = "ok" => z[1].write_error \/ (AtLabel(p, z[1], z[2]) /\ EndKnown(z[1], z[2])))
  <2>1. CASE y[3] # "ok"
    BY <1>7, <1>9, <2>1
  <2>2. CASE y[3] = "ok"
    <3>1. z = <<y[1], y[2], "error">> \/ (~y[1].write_error /\ Added(y[1], y[2], z[1], z[2]))
      BY <1>5, <1>7, <1>9, <1>10, <2>2
    <3>2. CASE z = <<y[1], y[2], "error">>
      BY <1>9, <3>2
    <3>3. CASE ~y[1].write_error /\ Added(y[1], y[2], z[1], z[2])
      <4>1. p = 1 \/ EndKnown(y[1], y[2])
        BY <1>2, <1>9, <3>3 DEF EndKnown, Partition
      <4>2. QED
        BY <1>2, <1>9, <1>10, <2>2, <3>3, <4>1, LabelAdds
    <3>4. QED
      BY <3>1, <3>2, <3>3
  <2>3. QED
    BY <2>1, <2>2
<1>12. Labelling(p, x[1], x[2]) /\ (x[3] = "ok" => x[1].write_error \/ EndKnown(x[1], x[2]))
  <2>1. CASE z[3] # "ok"
    BY <1>8, <1>11, <2>1
  <2>2. CASE z[3] = "ok" /\ z[1].write_error
    <3>1. x = <<z[1], z[2], "error">>
      BY <1>8, <2>2 DEF Mark, Refused
    <3>2. QED
      BY <1>11, <3>1
  <2>3. CASE z[3] = "ok" /\ ~z[1].write_error
    <3>1. AtLabel(p, z[1], z[2]) /\ EndKnown(z[1], z[2])
      BY <1>11, <2>3
    <3>2. x = <<z[1], z[2], "error">> \/ Added(z[1], z[2], x[1], x[2])
      BY <1>5, <1>8, <1>11, <2>3, <3>1
    <3>3. CASE x = <<z[1], z[2], "error">>
      BY <1>11, <3>3
    <3>4. CASE Added(z[1], z[2], x[1], x[2])
      BY <1>2, <1>11, <3>1, <3>4, LabelAdds
    <3>5. QED
      BY <3>2, <3>3, <3>4
  <2>4. QED
    BY <2>1, <2>2, <2>3
<1>13. Labelling(p, dev', drv') /\ user' \in {"failed", "label0", "none"}
       /\ (user' # "failed" => dev'.write_error \/ EndKnown(dev', drv'))
  BY <1>8, <1>12
<1>14. NoneLost
  <2>1. Sound(drv') /\ drv'.recs[1] \in Seq(Records)
    BY <1>13 DEF Labelling, Sound, Drives, Partition
  <2>2. CASE p = 0
    BY <1>1, <1>13, <2>2, PrefixSelf DEF Labelling, NoneLost
  <2>3. CASE p = 1
    <3>1. drv.recs[1] = <<>>
      BY <1>1, <1>2, <2>3 DEF DeviceInv, BlankHeld
    <3>2. IsPrefix(<<>>, drv'.recs[1])
      BY <2>1 DEF IsPrefix
    <3>3. QED
      BY <3>1, <3>2 DEF NoneLost
  <2>4. QED
    BY <1>2, <2>2, <2>3 DEF Partition
<1>15. StaysClosed
  BY <1>13 DEF Labelling, StaysClosed
<1>16. DeviceInv'
  BY <1>13 DEF Labelling, EndKnown, DeviceInv, DeviceTypes, ReadyHere, AppendHeld, EndHeld, BlankHeld
<1>17. QED
  BY <1>14, <1>15, <1>16 DEF Good

-----------------------------------------------------------------------------
(* The theorems.                                                           *)

LEMMA DeviceStarts == ASSUME Init PROVE DeviceInv
<1> DEFINE none == [p \in Partition |-> <<>>]
           start == [partition |-> 0, block |-> 0]
<1>1. none \in [Partition -> Seq(Records)] /\ (\A p \in Partition : Len(none[p]) = 0)
      /\ start \in Heads /\ start.partition = 0 /\ start.block = 0
  BY DEF Heads, Partition
<1>2. Fresh \in [lock : Locks, ewstate : {"clear", "set"}, app : BOOLEAN]
  BY DEF Fresh, Locks
<1>3. drv = [cart |-> "in", head |-> start, recs |-> none, stamp |-> 0, eweom |-> "before", mam |-> Fresh,
             reserved |-> FALSE, prevent |-> FALSE, aom |-> FALSE, allowed |-> EOD, faults |-> Faults]
  BY DEF Init, NewDrive
<1> HIDE DEF none, start
<1>4. drv \in Drives /\ drv.recs = none /\ drv.head = start
  BY <1>1, <1>2, <1>3, EodNat, DeviceAssumption DEF Drives
<1>5. Sound(drv)
  BY <1>1, <1>4, EodNat DEF Sound, Partition
<1>6. QED
  BY <1>5, ClosedDevice DEF Init, DeviceInv, DeviceTypes, ReadyHere, AppendHeld, EndHeld, BlankHeld

LEMMA DeviceSteps == ASSUME ~Unreadable, DeviceInv, Next PROVE Good
<1>1. CASE Open
  BY <1>1, OpenGood
<1>2. CASE LoadTapeCall
  BY <1>2, LoadTapeGood
<1>3. CASE UnloadTape
  BY <1>3, UnloadGood
<1>4. CASE Eject \/ Insert
  BY <1>4, HandGood
<1>5. CASE \E b \in BOOLEAN : EnableAppendOnly(b) \/ Close(b)
  BY <1>5, AppendOnlyGood, CloseGood
<1>6. CASE \E p \in Partition : SeekEod(p) \/ SeekAppendPosition(p)
  BY <1>6, SeekEodGood, SeekAppendGood
<1>7. CASE \E p \in Partition : \E b \in 0 .. Len(drv.recs[p]) : SeekBlock(p, b)
  BY <1>7, SeekBlockGood
<1>8. CASE LocateNextIndex \/ LocatePreviousIndex \/ (\E p \in Partition : LocateFirstIndex(p) \/ LocateLastIndex(p))
  BY <1>8, LocateGood
<1>9. CASE \E b \in Filemarks(drv.recs[0]) : SetAppendPosition(0, b - 1)
  BY <1>9, SetAppendGood
<1>10. CASE ReadBlock
  BY <1>10, ReadGood
<1>11. CASE WriteBlock(TRUE, TRUE, TRUE) \/ WriteBlock(FALSE, FALSE, TRUE) \/ WriteBlock(FALSE, TRUE, TRUE)
  BY <1>11, WriteBlockGood
<1>12. CASE WriteFilemark(TRUE, TRUE)
  BY <1>12, WriteFilemarkGood
<1>13. CASE RecoverEod
  BY <1>13, RecoverGood
<1>14. CASE \E f \in {"dest", "default"} : FormatTape(f)
  BY <1>14, FormatGood
<1>15. CASE WriteLabel
  BY <1>15, LabelGood
<1>16. QED
  BY <1>1, <1>2, <1>3, <1>4, <1>5, <1>6, <1>7, <1>8, <1>9, <1>10, <1>11, <1>12, <1>13, <1>14, <1>15 DEF Next

LEMMA DeviceRests == ASSUME DeviceInv, UNCHANGED vars PROVE Good
  BY DEF vars, Good, DeviceInv, DeviceTypes, ReadyHere, AppendHeld, EndHeld, BlankHeld, NoneLost, StaysClosed

LEMMA DeviceShows == ASSUME DeviceInv PROVE PositionsTrue
<1>1. dev \in Devices /\ Sound(drv)
  BY DEF DeviceInv, DeviceTypes
<1>2. drv.head.block \in 0 .. Len0(drv)
  <2>1. drv.head.block \in Nat /\ drv.head.partition \in Partition
    BY <1>1, HeadFits
  <2>2. Len(drv.recs[drv.head.partition]) \in Nat
    BY <1>1, <2>1, LengthsNat
  <2>3. QED
    BY <1>1, <2>1, <2>2 DEF Sound, Len0
<1>3. TypeOK
  BY <1>1, <1>2, HeadFits DEF TypeOK, DeviceInv, DeviceTypes, Devices, Positions
<1>4. AppendPosTrue
  BY DEF DeviceInv, AppendHeld, AppendPosTrue
<1>5. QED
  BY <1>3, <1>4 DEF PositionsTrue

\* The append position the device remembers for the data partition is where the
\* records end, as long as the drive answers READ POSITION: what tape_seek skips and
\* where tape_seek_append_position goes rest on it. (tape.c:813-875, 1005-1080)
THEOREM PositionsHeld == ASSUME ~Unreadable PROVE Spec => []PositionsTrue
<1>1. Init => DeviceInv
  BY DeviceStarts
<1>2. DeviceInv /\ [Next]_vars => DeviceInv'
  BY DeviceSteps, DeviceRests DEF Good
<1>3. DeviceInv => PositionsTrue
  BY DeviceShows
<1>4. QED
  BY <1>1, <1>2, <1>3, PTL DEF Spec

\* Whichever commands fail, no write takes a record of the data partition away, and
\* a partition that was found full and noted so stays closed. (tape.c:466-486, 1005-1080,
\* 1140-1250, ltotape.c:862-880)
THEOREM RecordsKept == ASSUME ~Unreadable PROVE Spec => TapeKept
<1>1. Init => DeviceInv
  BY DeviceStarts
<1>2. DeviceInv /\ [Next]_vars => DeviceInv'
  BY DeviceSteps, DeviceRests DEF Good
<1>3. DeviceInv /\ [Next]_vars => [NoneLost]_vars /\ [StaysClosed]_vars
  BY DeviceSteps DEF Good
<1>4. NoRecordLost <=> [][NoneLost]_vars
  BY PTL DEF NoRecordLost, NoneLost
<1>5. ClosedStaysClosed <=> [][StaysClosed]_vars
  BY PTL DEF ClosedStaysClosed, StaysClosed
<1>6. QED
  BY <1>1, <1>2, <1>3, <1>4, <1>5, PTL DEF Spec, TapeKept

-----------------------------------------------------------------------------
\* Block numbers are below MISSING_EOD, and a partition whose end of data is
\* missing is not written to before that has been recovered.
Limits ==
  /\ MaxBlock \in Nat /\ MaxBlock + 2 < MISSING_EOD /\ Warning \in [Parts -> Nat]
  /\ ~Recover

-----------------------------------------------------------------------------
(* Directories.                                                            *)

RecordIn(fs, p, b) == Exists(fs, p, b, "R") \/ Exists(fs, p, b, "F")
Stops(fs, p, b) == Exists(fs, p, b, "E") \/ ~RecordIn(fs, p, b)
EndOf(fs, p) == Min({b \in 0 .. MaxBlock + 2 : Stops(fs, p, b)})

\* Records are in front of the last block that is used.
Cells == Parts \X (0 .. MaxBlock) \X {"R", "F", "E"}
Directory(fs) == fs \in SUBSET Cells /\ \A p \in Parts, b \in Nat : RecordIn(fs, p, b) => b < MaxBlock

\* The records of partition p go on up to block b, and end there.
Reaches(fs, p, b) == \A c \in Nat : c < b => ~Stops(fs, p, c)
EndsAt(fs, p, b) == b \in 0 .. MaxBlock /\ Stops(fs, p, b) /\ Reaches(fs, p, b)

\* The two directories differ in partition p from block b on only.
AgreeTo(fs, gs, p, b) ==
  \A q \in Parts, c \in Nat, s \in {"R", "F", "E"} : q # p \/ c < b => (Exists(fs, q, c, s) <=> Exists(gs, q, c, s))

MediumOf(fs) == [p \in Parts |-> [i \in 1 .. EndOf(fs, p) |-> IF Exists(fs, p, i - 1, "F") THEN "F" ELSE "R"]]

LEMMA MinOf ==
  ASSUME NEW S \in SUBSET Nat, S # {}
  PROVE  Min(S) \in S /\ \A k \in S : Min(S) <= k
<1> DEFINE less_than == OpToRel(<, Nat)
<1>1. PICK x \in S : \A y \in S : ~(<<y, x>> \in less_than)
  BY NatLessThanWellFounded, WFMin
<1>2. \A y \in S : ~(y < x)
  BY <1>1 DEF OpToRel
<1>3. \A y \in S : x <= y
  BY <1>2
<1>4. QED
  BY <1>3 DEF Min

LEMMA EndFound ==
  ASSUME Limits, NEW fs, Directory(fs), NEW p \in Parts
  PROVE  EndsAt(fs, p, EndOf(fs, p))
<1> DEFINE S == {b \in 0 .. MaxBlock + 2 : Stops(fs, p, b)}
<1>1. MaxBlock \in S
  BY DEF Limits, Directory, Stops
<1>2. Min(S) \in S /\ \A k \in S : Min(S) <= k
  BY <1>1, MinOf, S \in SUBSET Nat DEF Limits
<1>3. EndOf(fs, p) = Min(S)
  BY DEF EndOf
<1> HIDE DEF S
<1>4. Min(S) \in 0 .. MaxBlock /\ Stops(fs, p, Min(S))
  BY <1>1, <1>2 DEF S, Limits
<1>5. ASSUME NEW c \in Nat, c < Min(S), Stops(fs, p, c)
      PROVE  FALSE
  BY <1>2, <1>4, <1>5 DEF S, Limits
<1>6. QED
  BY <1>3, <1>4, <1>5 DEF EndsAt, Reaches

LEMMA EndUnique ==
  ASSUME Limits, NEW fs, Directory(fs), NEW p \in Parts, NEW b, EndsAt(fs, p, b)
  PROVE  EndOf(fs, p) = b
<1> DEFINE e == EndOf(fs, p)
<1>1. EndsAt(fs, p, e)
  BY EndFound
<1> HIDE DEF e
<1>2. e \in Nat /\ b \in Nat /\ ~(e < b) /\ ~(b < e)
  BY <1>1 DEF EndsAt, Reaches, Limits
<1>3. QED
  BY <1>2 DEF e

LEMMA MediumIs == Medium = MediumOf(files)
BY DEF Medium, MediumOf, Readable, RecordAt, EndOf, Stops, RecordIn

-----------------------------------------------------------------------------
(* What a change of the directory leaves.                                  *)

LEMMA Elsewhere ==
  ASSUME NEW fs, NEW gs, NEW p \in Parts, NEW b \in Nat, AgreeTo(fs, gs, p, b)
  PROVE  /\ \A q \in Parts : \A n : q # p /\ EndsAt(fs, q, n) => EndsAt(gs, q, n)
         /\ Reaches(fs, p, b) => Reaches(gs, p, b)
<1>1. ASSUME NEW q \in Parts, NEW c \in Nat, q # p \/ c < b
      PROVE  Stops(fs, q, c) <=> Stops(gs, q, c)
  BY <1>1 DEF Stops, RecordIn, AgreeTo
<1>2. ASSUME NEW q \in Parts, NEW n, q # p, EndsAt(fs, q, n)
      PROVE  EndsAt(gs, q, n)
  BY <1>1, <1>2 DEF EndsAt, Reaches
<1>3. QED
  BY <1>1, <1>2 DEF Reaches

LEMMA FilemarksSame ==
  ASSUME NEW fs, NEW gs, Directory(fs), Directory(gs), NEW p \in Parts, NEW b \in Nat, AgreeTo(fs, gs, p, b),
         NEW c \in Nat, c <= b
  PROVE  MarksBefore(gs, p, c) = MarksBefore(fs, p, c)
<1>1. ASSUME NEW f \in Cells, f[2] < c
      PROVE  f \in fs <=> f \in gs
  <2>1. f = <<f[1], f[2], f[3]>> /\ f[1] \in Parts /\ f[2] \in Nat /\ f[3] \in {"R", "F", "E"}
    BY DEF Cells
  <2>2. f[2] < b
    BY <1>1, <2>1
  <2>3. QED
    BY <2>1, <2>2 DEF AgreeTo, Exists
<1>2. {f \in gs : f[1] = p /\ f[2] < c /\ f[3] = "F"} = {f \in fs : f[1] = p /\ f[2] < c /\ f[3] = "F"}
  BY <1>1 DEF Directory
<1>3. QED
  BY <1>2 DEF MarksBefore

\* Everything of partition p from block b on is gone, and its records end there.
Cuts(fs, gs, p, b) == Directory(gs) /\ AgreeTo(fs, gs, p, b) /\ EndsAt(gs, p, b)

\* What the drive remembers of an end of data it has written.
AtEod(s) == [s EXCEPT !.last_block[s.partition] = s.block - 1, !.eod[s.partition] = s.block]

\* _filedebug_write_eod, cut off anywhere, cuts the partition at the head.
LEMMA EodCuts ==
  ASSUME Limits, NEW fs, Directory(fs), NEW s, s.partition \in Parts, s.block \in 0 .. MaxBlock,
         s.eod[s.partition] \in Nat, Reaches(fs, s.partition, s.block)
  PROVE  LET x == WriteEod(fs, s)
         IN  /\ x.dirs \in Seq(SUBSET Cells) /\ Len(x.dirs) > 0
             /\ \A i \in 1 .. Len(x.dirs) : Cuts(fs, x.dirs[i], s.partition, s.block)
             /\ x.st = AtEod(s)
<1> DEFINE p == s.partition
           b == s.block
           gone == RemoveCurrent(fs, s)
           marked == gone \cup {<<p, b, "E">>}
           extra == IF s.eod[p] = MISSING_EOD \/ s.eod[p] < b THEN 0 ELSE s.eod[p] - b
           After(i) == {f \in marked : f[1] = p => f[2] \notin b + 1 .. b + i}
           rest == [i \in 1 .. extra |-> After(i)]
           x == WriteEod(fs, s)
<1>0. b \in Nat /\ MaxBlock \in Nat
  BY DEF Limits
<1>1. gone = {f \in fs : ~(f[1] = p /\ f[2] = b)}
  <2>1. \A f \in fs : f = <<f[1], f[2], f[3]>> /\ f[3] \in {"R", "F", "E"}
    BY DEF Directory, Cells
  <2>2. gone = fs \ {<<p, b, t>> : t \in {"R", "F", "E"}}
    BY DEF RemoveCurrent, RemoveRecord
  <2>3. QED
    BY <2>1, <2>2
<1> HIDE DEF gone
<1>2. Cuts(fs, gone, p, b)
  <2>1. Directory(gone)
    BY <1>1 DEF Directory, RecordIn, Exists
  <2>2. AgreeTo(fs, gone, p, b)
    BY <1>1 DEF AgreeTo, Exists
  <2>3. Stops(gone, p, b)
    BY <1>1 DEF Stops, RecordIn, Exists
  <2>4. QED
    BY <1>0, <2>1, <2>2, <2>3, Elsewhere DEF Cuts, EndsAt
<1>3. ASSUME NEW i \in Nat
      PROVE  Cuts(fs, After(i), p, b)
  <2>1. \A q \in Parts, c \in Nat, t \in {"R", "F", "E"} :
          Exists(After(i), q, c, t) <=> /\ Exists(gone, q, c, t) \/ (q = p /\ c = b /\ t = "E")
                                        /\ q = p => c \notin b + 1 .. b + i
    BY DEF Exists
  <2>2. After(i) \in SUBSET Cells
    BY <1>2 DEF Cuts, Directory, Cells
  <2> HIDE DEF After
  <2>3. \A q \in Parts, c \in Nat : RecordIn(After(i), q, c) => RecordIn(gone, q, c)
    BY <2>1 DEF RecordIn
  <2>4. Directory(After(i))
    BY <1>2, <2>2, <2>3 DEF Directory, Cuts
  <2>5. AgreeTo(fs, After(i), p, b)
    BY <1>0, <1>2, <2>1 DEF AgreeTo, Cuts
  <2>6. Stops(After(i), p, b)
    BY <1>0, <2>1 DEF Stops
  <2>7. QED
    BY <1>0, <2>4, <2>5, <2>6, Elsewhere DEF Cuts, EndsAt
<1>4. marked = After(0)
  BY <1>0
<1>5. extra \in Nat
  BY <1>0
<1>6. x.dirs = <<gone, marked>> \o rest
      /\ x.st = AtEod(s)
  BY DEF WriteEod, gone, AtEod
<1> HIDE DEF x, extra, After, marked
<1>7. <<gone, marked>> \in Seq(SUBSET Cells) /\ rest \in Seq(SUBSET Cells) /\ Len(rest) = extra
  <2>1. gone \in SUBSET Cells /\ marked \in SUBSET Cells /\ \A i \in 1 .. extra : After(i) \in SUBSET Cells
    BY <1>2, <1>3, <1>4, <1>5 DEF Cuts, Directory
  <2>2. QED
    BY <1>5, <2>1
<1>8. /\ x.dirs \in Seq(SUBSET Cells) /\ Len(x.dirs) = 2 + extra
      /\ \A i \in 1 .. Len(x.dirs) : x.dirs[i] = IF i = 1 THEN gone ELSE IF i = 2 THEN marked ELSE After(i - 2)
  BY <1>5, <1>6, <1>7
<1>9. \A i \in 1 .. Len(x.dirs) : Cuts(fs, x.dirs[i], p, b)
  <2> SUFFICES ASSUME NEW i \in 1 .. Len(x.dirs)
               PROVE  Cuts(fs, x.dirs[i], p, b)
    OBVIOUS
  <2>1. i = 1 \/ i = 2 \/ i - 2 \in Nat
    BY <1>5, <1>8
  <2>2. QED
    BY <1>2, <1>3, <1>4, <1>8, <2>1
<1>10. Len(x.dirs) > 0
  BY <1>5, <1>8
<1>11. QED
  BY <1>6, <1>8, <1>9, <1>10, Zenon DEF x


-----------------------------------------------------------------------------
(* The cartridge that a load finds in a directory.                         *)

LEMMA MediumSeq ==
  ASSUME Limits, NEW fs, Directory(fs), NEW p \in Parts
  PROVE  /\ MediumOf(fs)[p] \in Seq({"R", "F"}) /\ Len(MediumOf(fs)[p]) = EndOf(fs, p)
         /\ EndOf(fs, p) \in Nat
         /\ \A i \in 1 .. EndOf(fs, p) : MediumOf(fs)[p][i] = IF Exists(fs, p, i - 1, "F") THEN "F" ELSE "R"
         /\ \A b \in Nat : Reaches(fs, p, b) => b <= EndOf(fs, p)
<1> DEFINE e == EndOf(fs, p)
<1>1. EndsAt(fs, p, e)
  BY EndFound
<1>2. MediumOf(fs)[p] = [i \in 1 .. e |-> IF Exists(fs, p, i - 1, "F") THEN "F" ELSE "R"]
  BY DEF MediumOf
<1> HIDE DEF e
<1>3. e \in Nat
  BY <1>1 DEF EndsAt, Limits
<1>4. ASSUME NEW b \in Nat, Reaches(fs, p, b)
      PROVE  b <= e
  BY <1>1, <1>3, <1>4 DEF EndsAt, Reaches
<1>5. MediumOf(fs)[p] \in Seq({"R", "F"}) /\ Len(MediumOf(fs)[p]) = e
  BY <1>2, <1>3
<1>6. \A i \in 1 .. e : MediumOf(fs)[p][i] = IF Exists(fs, p, i - 1, "F") THEN "F" ELSE "R"
  BY <1>2
<1>7. QED
  BY <1>3, <1>4, <1>5, <1>6 DEF e

\* What is in front of the head, and the other partition, are as they were.
LEMMA MediumKept ==
  ASSUME Limits, NEW fs, NEW gs, Directory(fs), Directory(gs), NEW p \in Parts, NEW b \in Nat,
         AgreeTo(fs, gs, p, b), Reaches(fs, p, b)
  PROVE  /\ b <= Len(MediumOf(fs)[p]) /\ b <= Len(MediumOf(gs)[p])
         /\ SubSeq(MediumOf(gs)[p], 1, b) = SubSeq(MediumOf(fs)[p], 1, b)
         /\ MediumOf(gs)[1 - p] = MediumOf(fs)[1 - p]
<1> DEFINE M == MediumOf(fs)
           N == MediumOf(gs)
           q == 1 - p
<1>0. q \in Parts /\ q # p
  BY DEF Parts
<1>1. Reaches(gs, p, b)
  BY Elsewhere
<1>2. b <= Len(M[p]) /\ b <= Len(N[p])
  BY <1>1, MediumSeq
<1>3. EndOf(gs, q) = EndOf(fs, q)
  <2>1. EndsAt(fs, q, EndOf(fs, q))
    BY <1>0, EndFound
  <2>2. EndsAt(gs, q, EndOf(fs, q))
    BY <1>0, <2>1, Elsewhere
  <2>3. QED
    BY <1>0, <2>2, EndUnique
<1>4. N[q] = M[q]
  <2>1. \A i \in 1 .. EndOf(fs, q) : Exists(gs, q, i - 1, "F") <=> Exists(fs, q, i - 1, "F")
    BY <1>0, MediumSeq DEF AgreeTo
  <2>2. QED
    BY <1>0, <1>3, <2>1 DEF MediumOf
<1>5. \A i \in 1 .. b : N[p][i] = M[p][i]
  <2>1. \A i \in 1 .. b : Exists(gs, p, i - 1, "F") <=> Exists(fs, p, i - 1, "F")
    BY DEF AgreeTo
  <2>2. \A i \in 1 .. b : i \in 1 .. EndOf(fs, p) /\ i \in 1 .. EndOf(gs, p)
    BY <1>2, MediumSeq
  <2>3. \A i \in 1 .. EndOf(fs, p) : M[p][i] = IF Exists(fs, p, i - 1, "F") THEN "F" ELSE "R"
    BY MediumSeq
  <2>4. \A i \in 1 .. EndOf(gs, p) : N[p][i] = IF Exists(gs, p, i - 1, "F") THEN "F" ELSE "R"
    BY MediumSeq
  <2> HIDE DEF M, N
  <2>5. QED
    BY <2>1, <2>2, <2>3, <2>4
<1>6. M[p] \in Seq({"R", "F"}) /\ N[p] \in Seq({"R", "F"})
  BY MediumSeq
<1> HIDE DEF M, N
<1>7. SubSeq(N[p], 1, b) = SubSeq(M[p], 1, b)
  BY <1>2, <1>5, <1>6
<1>8. QED
  BY <1>2, <1>4, <1>7 DEF M, N

LEMMA PartOf ==
  ASSUME NEW fs, NEW gs, NEW p \in Parts, MediumOf(gs)[1 - p] = MediumOf(fs)[1 - p]
  PROVE  MediumOf(gs) = [MediumOf(fs) EXCEPT ![p] = MediumOf(gs)[p]]
<1>1. \A q \in Parts : q = p \/ q = 1 - p
  BY DEF Parts
<1>2. MediumOf(fs) = [q \in Parts |-> MediumOf(fs)[q]] /\ MediumOf(gs) = [q \in Parts |-> MediumOf(gs)[q]]
  BY DEF MediumOf
<1>3. QED
  BY <1>1, <1>2

LEMMA MediumCut ==
  ASSUME Limits, NEW fs, NEW gs, Directory(fs), NEW p \in Parts, NEW b \in Nat,
         Cuts(fs, gs, p, b), Reaches(fs, p, b)
  PROVE  MediumOf(gs) = [MediumOf(fs) EXCEPT ![p] = SubSeq(@, 1, b)]
<1> DEFINE M == MediumOf(fs)
           N == MediumOf(gs)
<1>1. b <= Len(M[p]) /\ SubSeq(N[p], 1, b) = SubSeq(M[p], 1, b) /\ N[1 - p] = M[1 - p]
  BY MediumKept DEF Cuts
<1>2. N[p] \in Seq({"R", "F"}) /\ Len(N[p]) = b
  BY MediumSeq, EndUnique DEF Cuts
<1> HIDE DEF M, N
<1>3. SubSeq(N[p], 1, b) = N[p]
  BY <1>2
<1>4. N[p] = SubSeq(M[p], 1, b)
  BY <1>1, <1>3
<1>5. MediumOf(gs)[p] = SubSeq(M[p], 1, b) /\ MediumOf(gs)[1 - p] = MediumOf(fs)[1 - p]
  BY <1>1, <1>4 DEF M, N
<1>6. MediumOf(gs) = [MediumOf(fs) EXCEPT ![p] = MediumOf(gs)[p]]
  BY <1>5, PartOf
<1>7. QED
  BY <1>5, <1>6 DEF M

\* A cut at the end takes nothing.
LEMMA MediumSame ==
  ASSUME Limits, NEW fs, NEW gs, Directory(fs), NEW p \in Parts, NEW b \in Nat,
         Cuts(fs, gs, p, b), EndsAt(fs, p, b)
  PROVE  MediumOf(gs) = MediumOf(fs)
<1> DEFINE M == MediumOf(fs)
<1>1. MediumOf(gs) = [M EXCEPT ![p] = SubSeq(@, 1, b)]
  BY MediumCut DEF EndsAt
<1>2. M[p] \in Seq({"R", "F"}) /\ Len(M[p]) = b
  BY MediumSeq, EndUnique
<1>3. M = [q \in Parts |-> M[q]]
  BY DEF MediumOf
<1> HIDE DEF M
<1>4. SubSeq(M[p], 1, b) = M[p]
  BY <1>2
<1>5. QED
  BY <1>1, <1>3, <1>4 DEF M


\* A record at the head, and the end behind it.
LEMMA MediumPut ==
  ASSUME Limits, NEW fs, NEW made, NEW gs, Directory(fs), NEW p \in Parts, NEW b \in Nat,
         NEW t \in {"R", "F"}, Reaches(fs, p, b), Directory(made),
         made = RemoveRecord(fs, p, b) \cup {<<p, b, t>>}, Cuts(made, gs, p, b + 1)
  PROVE  MediumOf(gs) = [MediumOf(fs) EXCEPT ![p] = Append(SubSeq(@, 1, b), t)]
<1> DEFINE M == MediumOf(fs)
           N == MediumOf(gs)
<1>1. AgreeTo(fs, made, p, b)
  BY DEF AgreeTo, Exists, RemoveRecord
<1>2. AgreeTo(fs, gs, p, b)
  BY <1>1 DEF AgreeTo, Cuts
<1>3. b <= Len(M[p]) /\ SubSeq(N[p], 1, b) = SubSeq(M[p], 1, b) /\ N[1 - p] = M[1 - p]
  BY <1>2, MediumKept DEF Cuts
<1>4. N[p] \in Seq({"R", "F"}) /\ Len(N[p]) = b + 1 /\ M[p] \in Seq({"R", "F"})
  BY MediumSeq, EndUnique DEF Cuts
<1>5. N[p][b + 1] = t
  <2>0. Exists(gs, p, b, "F") <=> Exists(made, p, b, "F")
    <3>1. AgreeTo(made, gs, p, b + 1) /\ b < b + 1
      BY DEF Cuts
    <3>2. QED
      BY <3>1 DEF AgreeTo
  <2>1. Exists(gs, p, b, "F") <=> t = "F"
    BY <2>0 DEF Exists, RemoveRecord
  <2>2. b + 1 \in 1 .. EndOf(gs, p) /\ b + 1 - 1 = b
    BY <1>4, MediumSeq DEF Cuts
  <2>3. N[p][b + 1] = IF Exists(gs, p, b + 1 - 1, "F") THEN "F" ELSE "R"
    BY <2>2, MediumSeq DEF Cuts
  <2>4. QED
    BY <2>1, <2>2, <2>3
<1> HIDE DEF M, N
<1>6. \A i \in 1 .. b : N[p][i] = M[p][i]
  <2> SUFFICES ASSUME NEW i \in 1 .. b
               PROVE  N[p][i] = M[p][i]
    OBVIOUS
  <2>1. SubSeq(N[p], 1, b)[i] = N[p][i] /\ SubSeq(M[p], 1, b)[i] = M[p][i]
    BY <1>3, <1>4
  <2>2. QED
    BY <1>3, <2>1
<1>7. N[p] = Append(SubSeq(M[p], 1, b), t)
  <2> DEFINE A == Append(SubSeq(M[p], 1, b), t)
  <2>1. SubSeq(M[p], 1, b) \in Seq({"R", "F"}) /\ Len(SubSeq(M[p], 1, b)) = b
        /\ \A i \in 1 .. b : SubSeq(M[p], 1, b)[i] = M[p][i]
    BY <1>3, <1>4
  <2>2. A \in Seq({"R", "F"}) /\ Len(A) = b + 1 /\ \A i \in 1 .. b + 1 : A[i] = IF i = b + 1 THEN t ELSE M[p][i]
    BY <2>1
  <2> HIDE DEF A
  <2>3. \A i \in 1 .. b + 1 : N[p][i] = A[i]
    BY <1>5, <1>6, <2>2
  <2>4. QED
    BY <1>4, <2>2, <2>3, SeqEqual DEF A
<1>8. MediumOf(gs)[p] = Append(SubSeq(M[p], 1, b), t) /\ MediumOf(gs)[1 - p] = MediumOf(fs)[1 - p]
  BY <1>3, <1>7 DEF M, N
<1>9. MediumOf(gs) = [MediumOf(fs) EXCEPT ![p] = MediumOf(gs)[p]]
  BY <1>8, PartOf
<1>10. QED
  BY <1>8, <1>9 DEF M


-----------------------------------------------------------------------------
(* The drive.                                                              *)

DriveStates ==
  [device_reserved : BOOLEAN, medium_locked : BOOLEAN, ready : BOOLEAN, partition : Parts, block : Nat,
   filemarks : Nat, last_block : [Parts -> Int], eod : [Parts -> Nat], partitions : Nat,
   write_pass_prev : Nat, write_pass : Nat, early_warning : BOOLEAN]

\* The ends of data that are known are where the records end, and the head is not
\* behind them; it is at the beginning of a cartridge that is not loaded.
EodKnown(fs, s, p) == s.eod[p] = MISSING_EOD \/ EndsAt(fs, p, s.eod[p])
HeadInside(s) == s.eod[s.partition] # MISSING_EOD => s.block <= s.eod[s.partition]
MarksKnown(fs, s) == s.block # MISSING_EOD => s.filemarks = MarksBefore(fs, s.partition, s.block)
Knows(fs, s) ==
  /\ s \in DriveStates
  /\ ~s.ready => s.partition = 0 /\ s.block = 0
  /\ s.ready => /\ \A p \in Parts : EodKnown(fs, s, p) /\ (s.eod[p] = MISSING_EOD => s.last_block[p] \in Nat)
                /\ HeadInside(s) /\ MarksKnown(fs, s)

FInv == Directory(files) /\ vcr \in Nat /\ Knows(files, st)

LEMMA CellsFinite ==
  ASSUME Limits
  PROVE  IsFiniteSet(Cells)
<1> DEFINE U == (Parts \X (0 .. MaxBlock)) \X {"R", "F", "E"}
           pair == [f \in Cells |-> <<<<f[1], f[2]>>, f[3]>>]
<1>0. MaxBlock \in Int /\ 0 \in Int /\ 1 \in Int
  BY DEF Limits
<1>1. IsFiniteSet(0 .. MaxBlock) /\ IsFiniteSet(0 .. 1)
  <2>1. \A a, b \in Int : IsFiniteSet(a .. b)
    BY FS_Interval
  <2>2. QED
    BY <1>0, <2>1, Zenon
<1>2. IsFiniteSet({"R"} \cup {"F"} \cup {"E"})
  <2>1. IsFiniteSet({} \cup {"R"})
    BY FS_EmptySet, FS_AddElement
  <2>2. IsFiniteSet({} \cup {"R"} \cup {"F"})
    BY <2>1, FS_AddElement
  <2>3. IsFiniteSet({} \cup {"R"} \cup {"F"} \cup {"E"})
    BY <2>2, FS_AddElement
  <2>4. QED
    BY <2>3, {} \cup {"R"} = {"R"}
<1>3. Parts = 0 .. 1 /\ {"R", "F", "E"} = {"R"} \cup {"F"} \cup {"E"}
  BY DEF Parts
<1>4. IsFiniteSet(Parts \X (0 .. MaxBlock))
  BY <1>1, <1>3, FS_Product
<1>5. IsFiniteSet(U)
  BY <1>2, <1>3, <1>4, FS_Product
<1>6. pair \in Injection(Cells, U)
  <2>1. pair \in [Cells -> U]
    BY DEF Cells
  <2>2. \A f, g \in Cells : pair[f] = pair[g] => f = g
    BY DEF Cells
  <2>3. QED
    BY <2>1, <2>2 DEF Injection, IsInjective
<1>7. QED
  BY <1>5, <1>6, FS_Injection

LEMMA FilemarksNat ==
  ASSUME Limits, NEW fs, Directory(fs), NEW p, NEW b
  PROVE  MarksBefore(fs, p, b) \in Nat
<1>1. {f \in fs : f[1] = p /\ f[2] < b /\ f[3] = "F"} \in SUBSET Cells
  BY DEF Directory
<1>2. QED
  BY <1>1, CellsFinite, FS_CardinalityType, FS_Subset DEF MarksBefore

LEMMA NewKnows ==
  ASSUME NEW fs
  PROVE  Knows(fs, NewState)
BY DEF Knows, NewState, DriveStates, Parts

LEMMA FilemarksZero ==
  ASSUME NEW fs, Directory(fs), NEW p
  PROVE  MarksBefore(fs, p, 0) = 0
<1>1. \A f \in fs : ~(f[2] < 0)
  BY DEF Directory, Cells
<1>2. {f \in fs : f[1] = p /\ f[2] < 0 /\ f[3] = "F"} = {}
  BY <1>1
<1>3. QED
  BY <1>2, FS_EmptySet DEF MarksBefore

\* The mark or the record at the head is one more, or none, for a head behind it.
LEMMA FilemarksNext ==
  ASSUME Limits, NEW fs, Directory(fs), NEW p \in Parts, NEW b \in Nat
  PROVE  MarksBefore(fs, p, b + 1) = MarksBefore(fs, p, b) + IF Exists(fs, p, b, "F") THEN 1 ELSE 0
<1> DEFINE S == {f \in fs : f[1] = p /\ f[2] < b /\ f[3] = "F"}
           T == {f \in fs : f[1] = p /\ f[2] < b + 1 /\ f[3] = "F"}
<1>1. \A f \in fs : f = <<f[1], f[2], f[3]>> /\ f[2] \in Nat
  BY DEF Directory, Cells
<1>2. \A f \in fs : f[2] < b + 1 <=> f[2] < b \/ f[2] = b
  BY <1>1
<1>3. T = IF Exists(fs, p, b, "F") THEN S \cup {<<p, b, "F">>} ELSE S
  BY <1>1, <1>2 DEF Exists
<1>4. <<p, b, "F">> \notin S
  OBVIOUS
<1>5. IsFiniteSet(S)
  <2>1. S \in SUBSET Cells
    BY DEF Directory
  <2>2. QED
    BY <2>1, CellsFinite, FS_Subset
<1>6. MarksBefore(fs, p, b) = Cardinality(S) /\ MarksBefore(fs, p, b + 1) = Cardinality(T)
  BY DEF MarksBefore
<1> HIDE DEF S, T
<1>7. Cardinality(S \cup {<<p, b, "F">>}) = Cardinality(S) + 1 /\ Cardinality(S) \in Nat
  BY <1>4, <1>5, FS_AddElement, FS_CardinalityType
<1>8. QED
  BY <1>3, <1>6, <1>7


-----------------------------------------------------------------------------
(* Steps.                                                                  *)

\* A change is carried out to its end, or to a part when the process dies.
LEMMA Committed ==
  ASSUME NEW dirs, Len(dirs) \in Nat, Len(dirs) > 0, NEW pass, NEW s, NEW rc, Commit(dirs, pass, s, rc)
  PROVE  /\ vcr' = pass
         /\ \E i \in 1 .. Len(dirs) : files' = dirs[i] /\ ((i = Len(dirs) /\ st' = s) \/ st' = NewState)
BY DEF Commit, Final, Returns

LEMMA WarnOnly ==
  ASSUME Limits, NEW s \in DriveStates
  PROVE  Warn(s) \in DriveStates /\ Warn(s) = [s EXCEPT !.early_warning = Warn(s).early_warning]
<1>1. (s.early_warning \/ (Warning[s.partition] # 0 /\ s.block >= Warning[s.partition])) \in BOOLEAN
  OBVIOUS
<1>2. QED
  BY <1>1 DEF Warn, DriveStates

LEMMA Rests ==
  ASSUME FInv, files' = files, vcr' = vcr, Knows(files, st')
  PROVE  FInv' /\ Cartridge!TMNext
<1>1. FInv'
  BY DEF FInv
<1>2. Medium' = Medium
  BY DEF Medium, Readable, RecordAt
<1>3. QED
  BY <1>1, <1>2 DEF Cartridge!TMNext, Cartridge!Move

\* What is in front of the head is there, when the partition may be written to.
LEMMA HeadReached ==
  ASSUME Limits, FInv, MayWrite
  PROVE  /\ st.ready /\ st.partition \in Parts /\ st.block \in Nat /\ st.block < MaxBlock /\ MaxBlock \in Nat
         /\ st.block # MISSING_EOD
         /\ Reaches(files, st.partition, st.block)
         /\ \A p \in Parts : st.eod[p] \in Nat
<1>1. st.eod[st.partition] # MISSING_EOD /\ st.ready /\ st.block < MaxBlock
  BY DEF MayWrite, Limits
<1>2. st \in DriveStates /\ HeadInside(st) /\ \A p \in Parts : EodKnown(files, st, p)
  BY <1>1 DEF FInv, Knows
<1>3. st.partition \in Parts /\ st.block \in Nat /\ st.eod \in [Parts -> Nat]
  BY <1>2 DEF DriveStates
<1>4. st.block <= st.eod[st.partition] /\ Reaches(files, st.partition, st.eod[st.partition])
  BY <1>1, <1>2, <1>3 DEF HeadInside, EodKnown, EndsAt
<1>5. Reaches(files, st.partition, st.block)
  BY <1>3, <1>4 DEF Reaches
<1>6. MaxBlock \in Nat /\ st.block # MISSING_EOD
  BY <1>1, <1>3 DEF Limits, MISSING_EOD
<1>7. QED
  BY <1>1, <1>3, <1>5, <1>6

LEMMA MediumNext == Medium' = MediumOf(files')
BY DEF Medium, MediumOf, Readable, RecordAt, EndOf, Stops, RecordIn

\* Whatever part of a change is made when the process dies, nothing in front of the
\* head is lost.
LEMMA PartKept ==
  ASSUME Limits, FInv, NEW p \in Parts, p = st.partition, st.block \in Nat, Reaches(files, p, st.block),
         Directory(files'), AgreeTo(files, files', p, st.block), st' = NewState
  PROVE  Cartridge!TMNext
<1>1. /\ st.block <= Len(MediumOf(files)[p]) /\ st.block <= Len(MediumOf(files')[p])
      /\ SubSeq(MediumOf(files')[p], 1, st.block) = SubSeq(MediumOf(files)[p], 1, st.block)
      /\ MediumOf(files')[1 - p] = MediumOf(files)[1 - p]
  BY MediumKept DEF FInv
<1>2. st'.partition = 0 /\ st'.block = 0
  BY DEF NewState
<1>3. Cartridge!PowerLoss
  BY <1>1, <1>2, MediumIs, MediumNext DEF Cartridge!PowerLoss, Cartridge!Keeps
<1>4. QED
  BY <1>3 DEF Cartridge!TMNext

LEMMA DeadKeeps ==
  ASSUME Directory(files'), vcr' \in Nat, st' = NewState
  PROVE  FInv'
BY NewKnows DEF FInv


\* The new end is remembered, and nothing else of the drive changes.
LEMMA EodStates ==
  ASSUME NEW s \in DriveStates
  PROVE  LET r == AtEod(s)
         IN  /\ r \in DriveStates
             /\ r.ready = s.ready /\ r.partition = s.partition /\ r.block = s.block /\ r.filemarks = s.filemarks
             /\ r.eod = [s.eod EXCEPT ![s.partition] = s.block]
             /\ r.last_block = [s.last_block EXCEPT ![s.partition] = s.block - 1]
<1> DEFINE p == s.partition
           b == s.block
           eod == [s.eod EXCEPT ![p] = b]
           last == [s.last_block EXCEPT ![p] = b - 1]
<1>1. s.eod \in [Parts -> Nat] /\ s.last_block \in [Parts -> Int] /\ p \in Parts /\ b \in Nat /\ b - 1 \in Int
  BY DEF DriveStates
<1>2. eod \in [Parts -> Nat] /\ last \in [Parts -> Int]
  BY <1>1
<1>3. AtEod(s) = [s EXCEPT !.last_block = last, !.eod = eod]
  BY DEF DriveStates, AtEod
<1> HIDE DEF last, eod
<1>4. /\ AtEod(s) \in DriveStates
      /\ AtEod(s).ready = s.ready /\ AtEod(s).partition = p /\ AtEod(s).block = b
      /\ AtEod(s).filemarks = s.filemarks /\ AtEod(s).eod = eod /\ AtEod(s).last_block = last
  BY <1>2, <1>3 DEF DriveStates
<1>5. QED
  BY <1>4 DEF last, eod

\* filedebug_write and filedebug_writefm.
LEMMA PutKeeps ==
  ASSUME Limits, FInv, MayWrite, NEW t \in {"R", "F"},
         LET x == PutRecord(t) IN Commit(x.dirs, Pass(x.st), Warn(x.st), "good")
  PROVE  FInv' /\ Cartridge!TMNext
<1> DEFINE p == st.partition
           b == st.block
           gone == RemoveCurrent(files, st)
           made == gone \cup {<<p, b, t>>}
           s == [RaisePass(st) EXCEPT !.block = @ + 1, !.filemarks = @ + (IF t = "F" THEN 1 ELSE 0)]
           eod == WriteEod(made, s)
           x == PutRecord(t)
           n == Len(x.dirs)
<1>0. /\ st.ready /\ p \in Parts /\ b \in Nat /\ b < MaxBlock /\ MaxBlock \in Nat /\ b # MISSING_EOD
      /\ Reaches(files, p, b) /\ \A q \in Parts : st.eod[q] \in Nat
  BY HeadReached
<1>1. Directory(files) /\ st \in DriveStates /\ vcr \in Nat
  BY DEF FInv, Knows
<1>2. x.dirs = <<gone, made>> \o eod.dirs /\ x.st = eod.st
  BY DEF PutRecord
<1>3. gone = RemoveRecord(files, p, b)
  BY DEF RemoveCurrent
<1>4. Directory(gone) /\ AgreeTo(files, gone, p, b)
  <2>1. gone \subseteq files
    BY <1>3 DEF RemoveRecord
  <2>2. QED
    BY <1>1, <1>3, <2>1 DEF Directory, AgreeTo, RecordIn, Exists, RemoveRecord
<1>5. Directory(made) /\ AgreeTo(files, made, p, b) /\ Reaches(made, p, b + 1)
  <2>1. <<p, b, t>> \in Cells
    BY <1>0 DEF Cells
  <2>2. \A q \in Parts, c \in Nat, u \in {"R", "F", "E"} :
          Exists(made, q, c, u) <=> Exists(gone, q, c, u) \/ (q = p /\ c = b /\ u = t)
    BY DEF Exists
  <2>3. \A u \in {"R", "F", "E"} : ~Exists(gone, p, b, u)
    BY <1>3 DEF Exists, RemoveRecord
  <2>4. made \in SUBSET Cells
    BY <1>4, <2>1 DEF Directory
  <2> HIDE DEF made
  <2>5. \A q \in Parts, c \in Nat : RecordIn(made, q, c) => c < MaxBlock
    BY <1>0, <1>4, <2>2 DEF Directory, RecordIn
  <2>6. AgreeTo(files, made, p, b)
    BY <1>0, <1>4, <2>2 DEF AgreeTo
  <2>7. Reaches(made, p, b)
    BY <1>0, <2>6, Elsewhere
  <2>8. ~Stops(made, p, b)
    BY <1>0, <2>2, <2>3 DEF Stops, RecordIn
  <2>9. QED
    BY <1>0, <2>4, <2>5, <2>6, <2>7, <2>8 DEF Directory, Reaches
<1>6. /\ s \in DriveStates /\ s.partition = p /\ s.block = b + 1 /\ s.eod = st.eod /\ s.ready
      /\ s.filemarks = st.filemarks + (IF t = "F" THEN 1 ELSE 0) /\ s.last_block = st.last_block
  <2>1. RaisePass(st) \in DriveStates /\ RaisePass(st) = [st EXCEPT !.write_pass = RaisePass(st).write_pass]
    BY <1>1 DEF RaisePass, DriveStates
  <2>2. /\ RaisePass(st).partition = p /\ RaisePass(st).block = b /\ RaisePass(st).eod = st.eod
        /\ RaisePass(st).ready = st.ready /\ RaisePass(st).filemarks = st.filemarks
        /\ RaisePass(st).last_block = st.last_block /\ st.filemarks \in Nat
    BY <1>1, <2>1 DEF DriveStates
  <2> DEFINE r == RaisePass(st)
             m == r.filemarks + (IF t = "F" THEN 1 ELSE 0)
  <2>3. s = [r EXCEPT !.block = r.block + 1, !.filemarks = m] /\ m \in Nat /\ r.block + 1 \in Nat
    BY <1>0, <2>1, <2>2
  <2> HIDE DEF r, m
  <2>4. s \in DriveStates /\ s.partition = r.partition /\ s.block = r.block + 1 /\ s.eod = r.eod /\ s.ready = r.ready
        /\ s.filemarks = m /\ s.last_block = r.last_block
    BY <2>1, <2>3 DEF DriveStates, r
  <2>5. QED
    BY <1>0, <2>2, <2>4 DEF r, m
<1> HIDE DEF x, s, eod, made, gone
<1>7. /\ eod.dirs \in Seq(SUBSET Cells) /\ Len(eod.dirs) > 0
      /\ \A i \in 1 .. Len(eod.dirs) : Cuts(made, eod.dirs[i], p, b + 1)
      /\ eod.st \in DriveStates /\ eod.st.ready /\ eod.st.partition = p /\ eod.st.block = b + 1
      /\ eod.st.filemarks = s.filemarks
      /\ eod.st.eod = [st.eod EXCEPT ![p] = b + 1] /\ eod.st.last_block = [st.last_block EXCEPT ![p] = b]
  <2>1. s.partition \in Parts /\ s.block \in 0 .. MaxBlock /\ s.eod[s.partition] \in Nat
        /\ Reaches(made, s.partition, s.block)
    BY <1>0, <1>5, <1>6
  <2>2. /\ eod.dirs \in Seq(SUBSET Cells) /\ Len(eod.dirs) > 0
        /\ \A i \in 1 .. Len(eod.dirs) : Cuts(made, eod.dirs[i], s.partition, s.block)
        /\ eod.st = AtEod(s)
    BY <1>5, <2>1, EodCuts DEF eod
  <2>3. /\ eod.st \in DriveStates
        /\ eod.st.ready = s.ready /\ eod.st.partition = s.partition /\ eod.st.block = s.block
        /\ eod.st.filemarks = s.filemarks /\ eod.st.eod = [s.eod EXCEPT ![s.partition] = s.block]
        /\ eod.st.last_block = [s.last_block EXCEPT ![s.partition] = s.block - 1]
    <3>1. s.block \in Nat /\ s.block - 1 \in Int /\ s.partition \in Parts
      BY <1>0, <1>6
    <3>2. QED
      BY <1>6, <2>2, <3>1, EodStates
  <2>4. s.block - 1 = b
    BY <1>0, <1>6
  <2>5. QED
    BY <1>6, <2>2, <2>3, <2>4
<1>8. /\ n \in Nat /\ n > 2
      /\ \A i \in 1 .. n : x.dirs[i] = IF i = 1 THEN gone ELSE IF i = 2 THEN made ELSE eod.dirs[i - 2]
      /\ n - 2 \in 1 .. Len(eod.dirs) /\ Len(eod.dirs) \in Nat /\ n = 2 + Len(eod.dirs)
  <2>1. <<gone, made>> \in Seq(SUBSET Cells)
    BY <1>4, <1>5 DEF Directory
  <2>2. QED
    BY <1>2, <1>7, <2>1
<1>9. \A i \in 1 .. n : Directory(x.dirs[i]) /\ AgreeTo(files, x.dirs[i], p, b)
  <2> SUFFICES ASSUME NEW i \in 1 .. n
               PROVE  Directory(x.dirs[i]) /\ AgreeTo(files, x.dirs[i], p, b)
    OBVIOUS
  <2>1. CASE i = 1
    BY <1>4, <1>8, <2>1
  <2>2. CASE i = 2
    BY <1>5, <1>8, <2>2
  <2>3. CASE i > 2
    <3>1. i - 2 \in 1 .. Len(eod.dirs) /\ x.dirs[i] = eod.dirs[i - 2]
      BY <1>8, <2>3
    <3>2. Cuts(made, x.dirs[i], p, b + 1)
      BY <1>7, <3>1
    <3>3. QED
      BY <1>0, <1>5, <3>2 DEF Cuts, AgreeTo
  <2>4. QED
    BY <1>8, <2>1, <2>2, <2>3
<1>10. /\ vcr' = Pass(x.st)
       /\ \E i \in 1 .. n : files' = x.dirs[i] /\ ((i = n /\ st' = Warn(x.st)) \/ st' = NewState)
  <2>1. Commit(x.dirs, Pass(x.st), Warn(x.st), "good")
    BY DEF x
  <2>2. QED
    BY <1>8, <2>1, Committed
<1>11. x.st \in DriveStates /\ vcr' \in Nat
  <2>1. x.st \in DriveStates
    BY <1>2, <1>7
  <2>2. QED
    BY <1>1, <1>10, <2>1 DEF Pass, DriveStates
<1>12. Directory(files') /\ AgreeTo(files, files', p, b)
  BY <1>9, <1>10
<1>14. CASE st' = NewState
  BY <1>0, <1>11, <1>12, <1>14, PartKept, DeadKeeps
<1>15. CASE st' = Warn(x.st) /\ files' = x.dirs[n]
  <2>1. Cuts(made, files', p, b + 1) /\ EndsAt(files', p, b + 1)
    BY <1>7, <1>8, <1>15 DEF Cuts
  <2>2. /\ st' \in DriveStates /\ st'.ready /\ st'.partition = p /\ st'.block = b + 1
        /\ st'.eod = [st.eod EXCEPT ![p] = b + 1] /\ st'.filemarks = s.filemarks
        /\ st'.last_block = [st.last_block EXCEPT ![p] = b]
    <3>1. st' \in DriveStates /\ st' = [x.st EXCEPT !.early_warning = st'.early_warning]
      BY <1>11, <1>15, WarnOnly
    <3>2. /\ x.st \in DriveStates /\ x.st.ready /\ x.st.partition = p /\ x.st.block = b + 1
          /\ x.st.filemarks = s.filemarks
          /\ x.st.eod = [st.eod EXCEPT ![p] = b + 1] /\ x.st.last_block = [st.last_block EXCEPT ![p] = b]
      BY <1>2, <1>7
    <3> HIDE DEF p, b
    <3>3. QED
      BY <3>1, <3>2 DEF DriveStates
  <2>3. ASSUME NEW q \in Parts
        PROVE  EodKnown(files', st', q) /\ (st'.eod[q] = MISSING_EOD => st'.last_block[q] \in Nat)
    <3>1. CASE q = p
      BY <1>0, <1>1, <2>1, <2>2, <3>1 DEF EodKnown, DriveStates
    <3>2. CASE q # p
      <4>1. EodKnown(files, st, q) /\ (st.eod[q] = MISSING_EOD => st.last_block[q] \in Nat)
        BY <1>0 DEF FInv, Knows
      <4>2. st'.eod[q] = st.eod[q] /\ st'.last_block[q] = st.last_block[q]
        BY <1>0, <1>1, <2>2, <3>2 DEF DriveStates
      <4>3. EndsAt(files, q, st.eod[q]) => EndsAt(files', q, st.eod[q])
        BY <1>0, <1>12, <3>2, Elsewhere
      <4>4. QED
        BY <4>1, <4>2, <4>3 DEF EodKnown
    <3>3. QED
      BY <3>1, <3>2
  <2>4. HeadInside(st')
    BY <1>0, <1>1, <2>2 DEF HeadInside, DriveStates
  <2>5. MarksKnown(files', st')
    <3>1. st.filemarks = MarksBefore(files, p, b)
      BY <1>0 DEF FInv, Knows, MarksKnown
    <3>2. MarksBefore(files', p, b + 1) = MarksBefore(files', p, b) + IF Exists(files', p, b, "F") THEN 1 ELSE 0
      BY <1>0, <1>12, FilemarksNext
    <3>3. MarksBefore(files', p, b) = MarksBefore(files, p, b)
      BY <1>0, <1>1, <1>12, FilemarksSame
    <3>4. Exists(files', p, b, "F") <=> t = "F"
      <4>1. AgreeTo(made, files', p, b + 1) /\ b < b + 1
        BY <1>0, <2>1 DEF Cuts
      <4>2. Exists(files', p, b, "F") <=> Exists(made, p, b, "F")
        BY <1>0, <4>1 DEF AgreeTo
      <4>3. Exists(made, p, b, "F") <=> t = "F"
        BY <1>3 DEF made, Exists, RemoveRecord
      <4>4. QED
        BY <4>2, <4>3
    <3>5. QED
      BY <1>6, <2>2, <3>1, <3>2, <3>3, <3>4 DEF MarksKnown
  <2>6. FInv'
    BY <1>11, <1>12, <2>2, <2>3, <2>4, <2>5 DEF FInv, Knows
  <2>7. Cartridge!TMNext
    <3>1. MediumOf(files') = [MediumOf(files) EXCEPT ![p] = Append(SubSeq(@, 1, b), t)]
      BY <1>0, <1>1, <1>3, <1>5, <2>1, MediumPut, SMTT(30) DEF made
    <3>2. b \in 0 .. Len(MediumOf(files)[p])
      BY <1>0, <1>1, MediumSeq
    <3>3. Cartridge!Put
      <4>1. Medium' = [Medium EXCEPT ![p] = Append(SubSeq(@, 1, b), t)] /\ b \in 0 .. Len(Medium[p])
        BY <3>1, <3>2, MediumIs, MediumNext
      <4>2. <<p, b>>[1] = p /\ <<p, b>>[2] = b /\ <<st'.partition, st'.block>> = <<p, b + 1>>
        BY <2>2
      <4>3. QED
        BY <4>1, <4>2 DEF Cartridge!Put
    <3>4. QED
      BY <3>3 DEF Cartridge!TMNext
  <2>8. QED
    BY <2>6, <2>7
<1>16. QED
  BY <1>10, <1>14, <1>15


\* The end of a partition is known, or the place where its records stop.
PartKnown(fs, s, p) == EodKnown(fs, s, p) /\ (s.eod[p] = MISSING_EOD => s.last_block[p] \in Nat)

LEMMA CutKnown ==
  ASSUME Limits, NEW fs, NEW gs, NEW s \in DriveStates, Cuts(fs, gs, s.partition, s.block)
  PROVE  /\ PartKnown(gs, AtEod(s), s.partition)
         /\ \A q \in Parts : q # s.partition /\ PartKnown(fs, s, q) => PartKnown(gs, AtEod(s), q)
<1> DEFINE p == s.partition
           b == s.block
           r == AtEod(s)
<1>1. p \in Parts /\ b \in Nat /\ s.eod \in [Parts -> Nat] /\ s.last_block \in [Parts -> Int]
  BY DEF DriveStates
<1>2. r.eod = [s.eod EXCEPT ![p] = b] /\ r.last_block = [s.last_block EXCEPT ![p] = b - 1]
  BY EodStates
<1>3. EndsAt(gs, p, b) /\ AgreeTo(fs, gs, p, b)
  BY DEF Cuts
<1> HIDE DEF p, b, r
<1>4. PartKnown(gs, r, p)
  <2>1. r.eod[p] = b
    BY <1>1, <1>2
  <2>2. b # MISSING_EOD
    BY <1>3 DEF EndsAt, Limits
  <2>3. QED
    BY <1>3, <2>1, <2>2 DEF PartKnown, EodKnown
<1>5. ASSUME NEW q \in Parts, q # p, PartKnown(fs, s, q)
      PROVE  PartKnown(gs, r, q)
  <2>1. r.eod[q] = s.eod[q] /\ r.last_block[q] = s.last_block[q]
    BY <1>1, <1>2, <1>5
  <2>2. EndsAt(fs, q, s.eod[q]) => EndsAt(gs, q, s.eod[q])
    BY <1>1, <1>3, <1>5, Elsewhere
  <2>3. QED
    BY <1>5, <2>1, <2>2 DEF PartKnown, EodKnown
<1>6. QED
  BY <1>4, <1>5 DEF p, r

\* filedebug_search_eod changes nothing of what can be read.
LEMMA SearchCuts ==
  ASSUME Limits, NEW fs, Directory(fs), NEW s \in DriveStates, NEW p \in Parts
  PROVE  LET x == SearchEod(fs, s, p)
         IN  /\ x.dirs \in Seq(SUBSET Cells) /\ Len(x.dirs) > 0
             /\ \A i \in 1 .. Len(x.dirs) : Directory(x.dirs[i]) /\ MediumOf(x.dirs[i]) = MediumOf(fs)
             /\ x.st \in DriveStates /\ x.st.ready = s.ready
             /\ PartKnown(Final(x.dirs), x.st, p)
             /\ \A q \in Parts : q # p /\ PartKnown(fs, s, q) => PartKnown(Final(x.dirs), x.st, q)
<1> DEFINE n == EndOf(fs, p)
           there == [s EXCEPT !.partition = p, !.block = n]
           x == SearchEod(fs, s, p)
<1>1. EndsAt(fs, p, n) /\ n \in 0 .. MaxBlock /\ MaxBlock \in Nat /\ n \in Nat
  BY EndFound DEF EndsAt, Limits
<1>2. x = IF ~Exists(fs, p, n, "E") /\ n # 0
          THEN [dirs |-> <<fs>>, st |-> [there EXCEPT !.last_block[p] = n, !.eod[p] = MISSING_EOD]]
          ELSE WriteEod(fs, there)
  BY DEF SearchEod, EndOf, Stops, RecordIn
<1> HIDE DEF n, x
<1>3. /\ there \in DriveStates /\ there.ready = s.ready /\ there.partition = p /\ there.block = n
      /\ there.eod = s.eod /\ there.last_block = s.last_block
  BY <1>1 DEF DriveStates
<1>4. s.eod \in [Parts -> Nat] /\ s.last_block \in [Parts -> Int]
  BY DEF DriveStates
<1> HIDE DEF there
<1>5. CASE ~Exists(fs, p, n, "E") /\ n # 0
  <2> DEFINE last == [s.last_block EXCEPT ![p] = n]
             eod == [s.eod EXCEPT ![p] = MISSING_EOD]
  <2>1. last \in [Parts -> Int] /\ eod \in [Parts -> Nat]
    BY <1>1, <1>4 DEF MISSING_EOD
  <2>2. x.dirs = <<fs>> /\ x.st = [there EXCEPT !.last_block = last, !.eod = eod]
    BY <1>2, <1>3, <1>5 DEF DriveStates
  <2>3. \A q \in Parts : last[q] = (IF q = p THEN n ELSE s.last_block[q]) /\ eod[q] = IF q = p THEN MISSING_EOD ELSE s.eod[q]
    BY <1>4
  <2> HIDE DEF last, eod
  <2>4. x.st \in DriveStates /\ x.st.ready = s.ready /\ x.st.last_block = last /\ x.st.eod = eod
    BY <1>3, <2>1, <2>2 DEF DriveStates
  <2>5. x.dirs \in Seq(SUBSET Cells) /\ Len(x.dirs) = 1 /\ x.dirs[1] = fs /\ Final(x.dirs) = fs
    BY <2>2 DEF Directory, Final
  <2>6. PartKnown(fs, x.st, p) /\ \A q \in Parts : q # p /\ PartKnown(fs, s, q) => PartKnown(fs, x.st, q)
    BY <1>1, <2>3, <2>4 DEF PartKnown, EodKnown
  <2>7. QED
    BY <2>4, <2>5, <2>6 DEF x
<1>6. CASE ~(~Exists(fs, p, n, "E") /\ n # 0)
  <2>1. /\ x.dirs \in Seq(SUBSET Cells) /\ Len(x.dirs) > 0
        /\ \A i \in 1 .. Len(x.dirs) : Cuts(fs, x.dirs[i], p, n)
        /\ x.st = AtEod(there)
    <3>1. there.eod[there.partition] \in Nat /\ Reaches(fs, there.partition, there.block) /\ there.block \in 0 .. MaxBlock
      BY <1>1, <1>3, <1>4 DEF EndsAt
    <3>2. QED
      BY <1>2, <1>3, <1>6, <3>1, EodCuts
  <2>2. x.st \in DriveStates /\ x.st.ready = s.ready
    BY <1>3, <2>1, EodStates
  <2>3. \A i \in 1 .. Len(x.dirs) : Directory(x.dirs[i]) /\ MediumOf(x.dirs[i]) = MediumOf(fs)
    BY <1>1, <2>1, MediumSame DEF Cuts
  <2>4. Cuts(fs, Final(x.dirs), p, n)
    <3>1. Len(x.dirs) \in 1 .. Len(x.dirs)
      BY <2>1
    <3>2. QED
      BY <2>1, <3>1 DEF Final
  <2>5. \A q \in Parts : PartKnown(fs, s, q) => PartKnown(fs, there, q)
    BY <1>3 DEF PartKnown, EodKnown
  <2>6. PartKnown(Final(x.dirs), x.st, p) /\ \A q \in Parts : q # p /\ PartKnown(fs, s, q) => PartKnown(Final(x.dirs), x.st, q)
    BY <1>3, <2>1, <2>4, <2>5, CutKnown
  <2>7. QED
    BY <2>1, <2>2, <2>3, <2>6 DEF x
<1>7. QED
  BY <1>5, <1>6


LEMMA Joined ==
  ASSUME NEW A, NEW s \in Seq(A), NEW t \in Seq(A), Len(t) > 0
  PROVE  /\ s \o t \in Seq(A) /\ Len(s \o t) = Len(s) + Len(t) /\ Len(s \o t) > 0
         /\ Final(s \o t) = Final(t)
         /\ \A i \in 1 .. Len(s \o t) :
              \/ i \in 1 .. Len(s) /\ (s \o t)[i] = s[i]
              \/ i - Len(s) \in 1 .. Len(t) /\ (s \o t)[i] = t[i - Len(s)]
<1> DEFINE u == s \o t
<1>1. u \in Seq(A) /\ Len(u) = Len(s) + Len(t) /\ Len(s) \in Nat /\ Len(t) \in Nat
  OBVIOUS
<1>2. \A i \in 1 .. Len(s) + Len(t) : u[i] = IF i <= Len(s) THEN s[i] ELSE t[i - Len(s)]
  OBVIOUS
<1> HIDE DEF u
<1>3. u[Len(u)] = t[Len(t)]
  <2>1. Len(u) \in 1 .. Len(s) + Len(t) /\ ~(Len(u) <= Len(s)) /\ Len(u) - Len(s) = Len(t)
    BY <1>1
  <2>2. QED
    BY <1>2, <2>1
<1>4. ASSUME NEW i \in 1 .. Len(u)
      PROVE  \/ i \in 1 .. Len(s) /\ u[i] = s[i]
             \/ i - Len(s) \in 1 .. Len(t) /\ u[i] = t[i - Len(s)]
  <2>1. i \in 1 .. Len(s) + Len(t) /\ (i <= Len(s) => i \in 1 .. Len(s)) /\ (~(i <= Len(s)) => i - Len(s) \in 1 .. Len(t))
    BY <1>1
  <2>2. QED
    BY <1>2, <2>1
<1>5. Len(u) > 0
  BY <1>1
<1>6. QED
  BY <1>1, <1>3, <1>4, <1>5 DEF u, Final

\* filedebug_load.
LEMMA LoadKeeps ==
  ASSUME Limits, FInv, FileLoad
  PROVE  FInv' /\ Cartridge!TMNext
<1> DEFINE s == [st EXCEPT !.ready = TRUE]
           zero == SearchEod(files, s, 0)
           one == SearchEod(Final(zero.dirs), zero.st, 1)
           dirs == zero.dirs \o one.dirs
           loaded == [one.st EXCEPT !.partition = 0, !.block = 0, !.filemarks = 0, !.partitions = 2,
                                    !.write_pass_prev = vcr, !.write_pass = vcr]
<1>0. Directory(files) /\ vcr \in Nat /\ st \in DriveStates
  BY DEF FInv, Knows
<1>1. CASE st.ready
  BY <1>1, Rests DEF FileLoad, Only, Returns, FInv
<1>2. CASE ~st.ready
  <2>1. Commit(dirs, IF vcr = 0 THEN 1 ELSE vcr, loaded, "good")
    BY <1>2 DEF FileLoad
  <2>2. s \in DriveStates /\ s.ready
    BY <1>0 DEF DriveStates
  <2>3. 0 \in Parts /\ 1 \in Parts
    BY DEF Parts
  <2> HIDE DEF s
  <2>4. /\ zero.dirs \in Seq(SUBSET Cells) /\ Len(zero.dirs) > 0
        /\ \A i \in 1 .. Len(zero.dirs) : Directory(zero.dirs[i]) /\ MediumOf(zero.dirs[i]) = MediumOf(files)
        /\ zero.st \in DriveStates /\ zero.st.ready /\ PartKnown(Final(zero.dirs), zero.st, 0)
    BY <1>0, <2>2, <2>3, SearchCuts
  <2> HIDE DEF zero
  <2>5. Directory(Final(zero.dirs)) /\ MediumOf(Final(zero.dirs)) = MediumOf(files)
    BY <2>4 DEF Final
  <2>6. /\ one.dirs \in Seq(SUBSET Cells) /\ Len(one.dirs) > 0
        /\ \A i \in 1 .. Len(one.dirs) : Directory(one.dirs[i]) /\ MediumOf(one.dirs[i]) = MediumOf(files)
        /\ one.st \in DriveStates /\ one.st.ready /\ PartKnown(Final(one.dirs), one.st, 1)
        /\ PartKnown(Final(one.dirs), one.st, 0)
    BY <2>3, <2>4, <2>5, SearchCuts
  <2> HIDE DEF one
  <2>7. /\ dirs \in Seq(SUBSET Cells) /\ Len(dirs) > 0 /\ Len(dirs) \in Nat /\ Final(dirs) = Final(one.dirs)
        /\ \A i \in 1 .. Len(dirs) : Directory(dirs[i]) /\ MediumOf(dirs[i]) = MediumOf(files)
    <3>1. /\ dirs \in Seq(SUBSET Cells) /\ Len(dirs) > 0 /\ Final(dirs) = Final(one.dirs)
          /\ \A i \in 1 .. Len(dirs) :
               \/ i \in 1 .. Len(zero.dirs) /\ dirs[i] = zero.dirs[i]
               \/ i - Len(zero.dirs) \in 1 .. Len(one.dirs) /\ dirs[i] = one.dirs[i - Len(zero.dirs)]
      <4>1. zero.dirs \in Seq(SUBSET Cells) /\ one.dirs \in Seq(SUBSET Cells) /\ Len(one.dirs) > 0
        BY <2>4, <2>6
      <4>2. QED
        BY <4>1, Joined, Zenon
    <3> HIDE DEF dirs
    <3>2. QED
      BY <2>4, <2>6, <3>1
  <2> HIDE DEF dirs
  <2>8. vcr' \in Nat /\ \E i \in 1 .. Len(dirs) : files' = dirs[i] /\ ((i = Len(dirs) /\ st' = loaded) \/ st' = NewState)
    BY <1>0, <2>1, <2>7, Committed
  <2>9. Directory(files') /\ MediumOf(files') = MediumOf(files)
    BY <2>7, <2>8
  <2>10. FInv'
    <3>1. CASE st' = NewState
      BY <2>8, <2>9, <3>1, DeadKeeps
    <3>2. CASE st' = loaded /\ files' = Final(dirs)
      <4>1. /\ st' \in DriveStates /\ st'.ready /\ st'.partition = 0 /\ st'.block = 0 /\ st'.filemarks = 0
            /\ st'.eod = one.st.eod /\ st'.last_block = one.st.last_block
        BY <1>0, <2>6, <3>2 DEF DriveStates, Parts
      <4>2. \A p \in Parts : PartKnown(files', st', p)
        BY <2>6, <2>7, <3>2, <4>1 DEF PartKnown, EodKnown, Parts
      <4>3. HeadInside(st')
        BY <4>1 DEF HeadInside, DriveStates
      <4>4. MarksKnown(files', st')
        BY <2>9, <4>1, FilemarksZero DEF MarksKnown
      <4>5. QED
        BY <2>8, <2>9, <4>1, <4>2, <4>3, <4>4 DEF FInv, Knows, PartKnown
    <3>3. QED
      BY <2>8, <3>1, <3>2 DEF Final
  <2>11. Cartridge!TMNext
    BY <2>9, MediumIs, MediumNext DEF Cartridge!TMNext, Cartridge!Move
  <2>12. QED
    BY <2>10, <2>11
<1>3. QED
  BY <1>1, <1>2


\* filedebug_erase: the partition is cut at the head.
LEMMA EraseKeeps ==
  ASSUME Limits, FInv, FileErase
  PROVE  FInv' /\ Cartridge!TMNext
<1> DEFINE p == st.partition
           b == st.block
           x == WriteEod(files, st)
<1>0. /\ st.ready /\ p \in Parts /\ b \in Nat /\ b < MaxBlock /\ MaxBlock \in Nat /\ b # MISSING_EOD
      /\ Reaches(files, p, b) /\ \A q \in Parts : st.eod[q] \in Nat
  BY HeadReached DEF FileErase
<1>1. Directory(files) /\ st \in DriveStates /\ vcr \in Nat /\ \A q \in Parts : PartKnown(files, st, q)
  BY <1>0 DEF FInv, Knows, PartKnown
<1>2. /\ x.dirs \in Seq(SUBSET Cells) /\ Len(x.dirs) > 0 /\ Len(x.dirs) \in Nat
      /\ \A i \in 1 .. Len(x.dirs) : Cuts(files, x.dirs[i], p, b)
      /\ x.st = AtEod(st)
  BY <1>0, <1>1, EodCuts
<1>3. Commit(x.dirs, vcr, x.st, "good")
  BY DEF FileErase
<1> HIDE DEF x
<1>4. vcr' \in Nat /\ \E i \in 1 .. Len(x.dirs) : files' = x.dirs[i] /\ (st' = AtEod(st) \/ st' = NewState)
  BY <1>1, <1>2, <1>3, Committed
<1>5. Cuts(files, files', p, b) /\ Directory(files') /\ AgreeTo(files, files', p, b)
  BY <1>2, <1>4 DEF Cuts
<1>6. CASE st' = NewState
  BY <1>0, <1>4, <1>5, <1>6, PartKept, DeadKeeps
<1>7. CASE st' = AtEod(st)
  <2>1. /\ st' \in DriveStates /\ st'.ready /\ st'.partition = p /\ st'.block = b /\ st'.filemarks = st.filemarks
        /\ st'.eod = [st.eod EXCEPT ![p] = b]
    BY <1>0, <1>1, <1>7, EodStates
  <2>2. \A q \in Parts : PartKnown(files', st', q)
    BY <1>1, <1>5, <1>7, CutKnown
  <2>3. HeadInside(st')
    BY <1>0, <1>1, <2>1 DEF HeadInside, DriveStates
  <2>4. MarksKnown(files', st')
    BY <1>0, <1>1, <1>5, <2>1, FilemarksSame DEF MarksKnown, FInv, Knows
  <2>5. FInv'
    BY <1>4, <1>5, <2>1, <2>2, <2>3, <2>4 DEF FInv, Knows, PartKnown
  <2>6. MediumOf(files') = [MediumOf(files) EXCEPT ![p] = SubSeq(@, 1, b)] /\ b \in 0 .. Len(MediumOf(files)[p])
    BY <1>0, <1>1, <1>5, MediumCut, MediumSeq
  <2>7. Cartridge!Cut
    BY <1>0, <2>1, <2>6, MediumIs, MediumNext DEF Cartridge!Cut, Parts
  <2>8. QED
    BY <2>5, <2>7 DEF Cartridge!TMNext
<1>8. QED
  BY <1>4, <1>6, <1>7

LEMMA CutEmpty ==
  ASSUME Limits, NEW fs, NEW gs, NEW p \in Parts, Cuts(fs, gs, p, 0)
  PROVE  MediumOf(gs)[p] = <<>>
<1>1. MediumOf(gs)[p] \in Seq({"R", "F"}) /\ Len(MediumOf(gs)[p]) = 0
  BY MediumSeq, EndUnique DEF Cuts
<1>2. QED
  BY <1>1

\* filedebug_format and filedebug_setcap: one partition is cut and then the other.
LEMMA FormatKeeps ==
  ASSUME Limits, FInv, NEW n \in Nat, FileFormat(n)
  PROVE  FInv' /\ Cartridge!TMNext
<1> DEFINE s == [st EXCEPT !.partition = 1, !.block = 0]
           one == WriteEod(files, s)
           u == [one.st EXCEPT !.partition = 0, !.block = 0]
           zero == WriteEod(Final(one.dirs), u)
           dirs == one.dirs \o zero.dirs
           made == [zero.st EXCEPT !.partitions = n]
<1>0. Directory(files) /\ vcr \in Nat /\ st \in DriveStates /\ st.ready
  BY DEF FInv, Knows, FileFormat
<1>1. CASE st.partition # 0 \/ st.block # 0
  BY <1>1, Rests DEF FileFormat, Only, Returns, FInv
<1>2. CASE ~(st.partition # 0 \/ st.block # 0)
  <2>1. Commit(dirs, vcr, made, "good")
    BY <1>2 DEF FileFormat
  <2>2. s \in DriveStates /\ s.ready /\ s.partition = 1 /\ s.block = 0 /\ s.filemarks = st.filemarks
        /\ s.eod = st.eod
    BY <1>0 DEF DriveStates, Parts
  <2>3. 0 \in Parts /\ 1 \in Parts /\ 0 \in 0 .. MaxBlock /\ \A p \in Parts : p = 0 \/ p = 1
    BY DEF Parts, Limits
  <2>4. \A fs, p : Reaches(fs, p, 0)
    BY DEF Reaches
  <2> HIDE DEF s
  <2>5. /\ one.dirs \in Seq(SUBSET Cells) /\ Len(one.dirs) > 0
        /\ \A i \in 1 .. Len(one.dirs) : Cuts(files, one.dirs[i], 1, 0)
        /\ one.st = AtEod(s)
    <3>1. s.eod[s.partition] \in Nat /\ s.partition \in Parts /\ s.block \in 0 .. MaxBlock
      BY <2>2, <2>3 DEF DriveStates
    <3>2. QED
      BY <1>0, <2>2, <2>4, <3>1, EodCuts
  <2>6. Cuts(files, Final(one.dirs), 1, 0) /\ Directory(Final(one.dirs))
    BY <2>5 DEF Final, Cuts
  <2>7. PartKnown(Final(one.dirs), one.st, 1) /\ one.st \in DriveStates /\ one.st.ready
    <3>1. s.partition \in Parts /\ s.block \in Nat /\ Cuts(files, Final(one.dirs), s.partition, s.block)
      BY <2>2, <2>3, <2>6
    <3>2. PartKnown(Final(one.dirs), AtEod(s), s.partition)
      BY <2>2, <3>1, CutKnown
    <3>3. AtEod(s) \in DriveStates /\ AtEod(s).ready
      BY <2>2, <3>1, EodStates
    <3>4. QED
      BY <2>2, <2>5, <3>2, <3>3
  <2> HIDE DEF one
  <2>8. /\ u \in DriveStates /\ u.ready /\ u.partition = 0 /\ u.block = 0 /\ u.eod = one.st.eod
        /\ u.last_block = one.st.last_block
    BY <2>7 DEF DriveStates, Parts
  <2> HIDE DEF u
  <2>9. /\ zero.dirs \in Seq(SUBSET Cells) /\ Len(zero.dirs) > 0
        /\ \A i \in 1 .. Len(zero.dirs) : Cuts(Final(one.dirs), zero.dirs[i], 0, 0)
        /\ zero.st = AtEod(u)
    <3>1. u.eod[u.partition] \in Nat /\ u.partition \in Parts /\ u.block \in 0 .. MaxBlock
      BY <2>3, <2>8 DEF DriveStates
    <3>2. QED
      BY <2>4, <2>6, <2>8, <3>1, EodCuts
  <2>10. Cuts(Final(one.dirs), Final(zero.dirs), 0, 0)
    BY <2>9 DEF Final
  <2>11. /\ zero.st \in DriveStates /\ zero.st.ready /\ zero.st.partition = 0 /\ zero.st.block = 0
         /\ \A p \in Parts : PartKnown(Final(zero.dirs), zero.st, p)
    <3>1. PartKnown(Final(one.dirs), u, 1)
      BY <2>7, <2>8 DEF PartKnown, EodKnown
    <3>2. u.partition \in Parts /\ u.block \in Nat /\ Cuts(Final(one.dirs), Final(zero.dirs), u.partition, u.block)
      BY <2>3, <2>8, <2>10
    <3>3. PartKnown(Final(zero.dirs), AtEod(u), 0) /\ PartKnown(Final(zero.dirs), AtEod(u), 1)
      BY <2>3, <2>8, <3>1, <3>2, CutKnown
    <3>4. AtEod(u) \in DriveStates /\ AtEod(u).ready /\ AtEod(u).partition = 0 /\ AtEod(u).block = 0
      BY <2>8, <3>2, EodStates
    <3>5. QED
      BY <2>3, <2>9, <3>3, <3>4
  <2> HIDE DEF zero
  <2>12. /\ dirs \in Seq(SUBSET Cells) /\ Len(dirs) > 0 /\ Len(dirs) \in Nat /\ Final(dirs) = Final(zero.dirs)
         /\ \A i \in 1 .. Len(dirs) : Cuts(files, dirs[i], 1, 0) \/ Cuts(Final(one.dirs), dirs[i], 0, 0)
    <3>1. /\ dirs \in Seq(SUBSET Cells) /\ Len(dirs) > 0 /\ Final(dirs) = Final(zero.dirs)
          /\ \A i \in 1 .. Len(dirs) :
               \/ i \in 1 .. Len(one.dirs) /\ dirs[i] = one.dirs[i]
               \/ i - Len(one.dirs) \in 1 .. Len(zero.dirs) /\ dirs[i] = zero.dirs[i - Len(one.dirs)]
      <4>1. one.dirs \in Seq(SUBSET Cells) /\ zero.dirs \in Seq(SUBSET Cells) /\ Len(zero.dirs) > 0
        BY <2>5, <2>9
      <4>2. QED
        BY <4>1, Joined, Zenon
    <3> HIDE DEF dirs
    <3>2. QED
      BY <2>5, <2>9, <3>1
  <2> HIDE DEF dirs
  <2>13. vcr' \in Nat /\ \E i \in 1 .. Len(dirs) : files' = dirs[i] /\ ((i = Len(dirs) /\ st' = made) \/ st' = NewState)
    BY <1>0, <2>1, <2>12, Committed
  <2>14. Directory(files') /\ (Cuts(files, files', 1, 0) \/ Cuts(Final(one.dirs), files', 0, 0))
    BY <2>12, <2>13 DEF Cuts
  <2>15. made \in DriveStates /\ made.ready /\ made.partition = 0 /\ made.block = 0
         /\ made.eod = zero.st.eod /\ made.last_block = zero.st.last_block /\ made.filemarks = zero.st.filemarks
    BY <2>11 DEF DriveStates
  <2> HIDE DEF made
  <2>16. st'.partition = 0 /\ st'.block = 0
    BY <2>13, <2>15 DEF NewState
  <2>17. Cartridge!TMNext
    <3>1. CASE Cuts(files, files', 1, 0)
      <4>1. MediumOf(files') = [MediumOf(files) EXCEPT ![1] = SubSeq(@, 1, 0)] /\ 0 \in 0 .. Len(MediumOf(files)[1])
        BY <1>0, <2>3, <2>4, <3>1, MediumCut, MediumSeq
      <4>2. Cartridge!Cut
        BY <1>2, <2>3, <2>16, <4>1, MediumIs, MediumNext DEF Cartridge!Cut
      <4>3. QED
        BY <4>2 DEF Cartridge!TMNext
    <3>2. CASE Cuts(Final(one.dirs), files', 0, 0)
      <4>1. MediumOf(files')[0] = <<>>
        BY <2>3, <3>2, CutEmpty
      <4>2. MediumOf(files')[1] = <<>>
        <5>1. MediumOf(files')[1 - 0] = MediumOf(Final(one.dirs))[1 - 0]
          BY <2>3, <2>4, <2>6, <3>2, MediumKept DEF Cuts
        <5>2. QED
          BY <2>3, <2>6, <5>1, CutEmpty
      <4>3. MediumOf(files') = [p \in {0, 1} |-> <<>>]
        BY <2>3, <4>1, <4>2 DEF MediumOf, Parts
      <4>4. Cartridge!Both
        BY <1>2, <2>16, <4>3, MediumNext DEF Cartridge!Both
      <4>5. QED
        BY <4>4 DEF Cartridge!TMNext
    <3>3. QED
      BY <2>14, <3>1, <3>2
  <2>18. made.filemarks = 0
    <3>1. st.filemarks = MarksBefore(files, 0, 0)
      BY <1>0, <1>2 DEF FInv, Knows, MarksKnown, MISSING_EOD
    <3>2. MarksBefore(files, 0, 0) = 0
      BY <1>0, FilemarksZero
    <3>3. one.st.filemarks = st.filemarks
      BY <2>2, <2>5, EodStates
    <3>4. u.filemarks = one.st.filemarks
      BY <2>7 DEF u, DriveStates
    <3>5. zero.st.filemarks = u.filemarks
      BY <2>8, <2>9, EodStates
    <3>6. QED
      BY <2>15, <3>1, <3>2, <3>3, <3>4, <3>5
  <2>19. FInv'
    <3>1. CASE st' = NewState
      BY <2>13, <2>14, <3>1, DeadKeeps
    <3>2. CASE st' = made /\ files' = Final(dirs)
      <4>1. \A p \in Parts : PartKnown(files', st', p)
        BY <2>11, <2>12, <2>15, <3>2 DEF PartKnown, EodKnown
      <4>2. HeadInside(st')
        BY <2>15, <3>2 DEF HeadInside, DriveStates
      <4>3. MarksKnown(files', st')
        BY <1>2, <2>14, <2>15, <2>18, <3>2, FilemarksZero DEF MarksKnown
      <4>4. QED
        BY <2>13, <2>14, <2>15, <3>2, <4>1, <4>2, <4>3 DEF FInv, Knows, PartKnown
    <3>3. QED
      BY <2>13, <3>1, <3>2 DEF Final
  <2>20. QED
    BY <2>17, <2>19
<1>3. QED
  BY <1>1, <1>2

-----------------------------------------------------------------------------
(* Calls that leave the directory alone.                                   *)

LEMMA MaxOf ==
  ASSUME NEW N \in Nat, NEW S \in SUBSET (0 .. N), S # {}
  PROVE  Max(S) \in S /\ \A k \in S : k <= Max(S)
<1> DEFINE T == {N - k : k \in S}
<1>1. T \in SUBSET Nat /\ T # {}
  <2>1. \A k \in S : N - k \in Nat
    OBVIOUS
  <2>2. QED
    BY <2>1
<1>2. Min(T) \in T /\ \A k \in T : Min(T) <= k
  BY <1>1, MinOf
<1>3. PICK x \in S : Min(T) = N - x
  BY <1>2
<1>4. \A k \in S : k <= x
  <2>1. ASSUME NEW k \in S
        PROVE  k <= x
    <3>1. N - x <= N - k
      BY <1>2, <1>3
    <3>2. QED
      BY <3>1
  <2>2. QED
    BY <2>1
<1>5. \E y \in S : \A k \in S : y >= k
  BY <1>4
<1>6. Max(S) \in S /\ \A k \in S : Max(S) >= k
  BY <1>5 DEF Max
<1>7. QED
  BY <1>6

\* Of a set of blocks there is an n-th one from the front,
LEMMA NthUp ==
  ASSUME NEW N \in Nat, NEW S \in SUBSET (0 .. N), NEW n \in Nat, 0 < n, n <= Cardinality(S)
  PROVE  \E b \in S : Cardinality({c \in S : c <= b}) = n
<1> DEFINE Upto(b) == {c \in S : c <= b}
           T == {b \in Nat : n <= Cardinality(Upto(b))}
<1>0. \A c \in S : c \in Nat /\ c <= N
  OBVIOUS
<1>1. IsFiniteSet(S) /\ \A b : IsFiniteSet(Upto(b)) /\ Cardinality(Upto(b)) \in Nat
  <2>1. \A a, b \in Int : IsFiniteSet(a .. b)
    BY FS_Interval
  <2>2. IsFiniteSet(0 .. N)
    BY <2>1, 0 \in Int, N \in Int, Zenon
  <2>3. IsFiniteSet(S)
    BY <2>2, FS_Subset
  <2>4. \A b : Upto(b) \in SUBSET S
    OBVIOUS
  <2>5. QED
    BY <2>3, <2>4, FS_Subset, FS_CardinalityType
<1>2. N \in T
  <2>1. Upto(N) = S
    BY <1>0
  <2>2. QED
    BY <2>1
<1>3. PICK m : m \in T /\ \A k \in T : m <= k
  <2>1. Min(T) \in T /\ \A k \in T : Min(T) <= k
    BY <1>2, MinOf, T \in SUBSET Nat
  <2>2. QED
    BY <2>1
<1>4. m \in Nat /\ n <= Cardinality(Upto(m))
  BY <1>3
<1>5. CASE m \notin S
  <2>1. CASE m = 0
    <3>1. \A c \in S : ~(c <= m)
      BY <1>0, <1>5, <2>1
    <3>2. QED
      <4>1. Upto(m) = {}
        BY <3>1
      <4>2. QED
        BY <1>4, <4>1, FS_EmptySet
  <2>2. CASE m # 0
    <3>1. m - 1 \in Nat /\ \A c \in S : c <= m <=> c <= m - 1
      BY <1>0, <1>4, <1>5, <2>2
    <3>2. Upto(m) = Upto(m - 1)
      BY <3>1
    <3>3. m - 1 \in T
      BY <1>4, <3>1, <3>2
    <3>4. m <= m - 1
      BY <1>3, <3>3
    <3>5. QED
      BY <1>4, <3>4
  <2>3. QED
    BY <2>1, <2>2
<1>6. CASE m \in S
  <2> DEFINE U == {c \in S : c < m}
  <2>1. Upto(m) = U \cup {m} /\ m \notin U
    <3>1. (\A c \in S : c <= m <=> c < m \/ c = m) /\ ~(m < m)
      BY <1>0, <1>4
    <3>2. QED
      BY <1>6, <3>1, Zenon
  <2>2. Cardinality(U) < n
    <3>1. CASE m = 0
      <4>1. \A c \in S : ~(c < m)
        BY <1>0, <3>1
      <4>2. U = {}
        BY <4>1
      <4>3. QED
        BY <4>2, FS_EmptySet
    <3>2. CASE m # 0
      <4>1. m - 1 \in Nat /\ ~(m <= m - 1) /\ \A c \in S : c < m <=> c <= m - 1
        BY <1>0, <1>4, <3>2
      <4>2. U = Upto(m - 1)
        BY <4>1
      <4>3. m - 1 \notin T
        BY <1>3, <4>1
      <4>4. ~(n <= Cardinality(Upto(m - 1))) /\ Cardinality(Upto(m - 1)) \in Nat
        BY <1>1, <4>1, <4>3
      <4> HIDE DEF Upto, U
      <4>5. QED
        BY <4>2, <4>4
    <3>3. QED
      BY <3>1, <3>2
  <2>3. IsFiniteSet(U)
    BY <1>1, FS_Subset, U \in SUBSET S
  <2>4. Cardinality(U) \in Nat /\ Cardinality(U \cup {m}) = Cardinality(U) + 1
    BY <2>1, <2>3, FS_AddElement, FS_CardinalityType
  <2>5. Cardinality(Upto(m)) = n
    <3> HIDE DEF U, Upto
    <3>1. QED
      BY <1>4, <2>1, <2>2, <2>4
  <2>6. QED
    BY <1>6, <2>5
<1>7. QED
  BY <1>5, <1>6

\* and an n-th one from the back.
LEMMA NthDown ==
  ASSUME NEW N \in Nat, NEW S \in SUBSET (0 .. N), NEW n \in Nat, 0 < n, n <= Cardinality(S)
  PROVE  \E b \in S : Cardinality({c \in S : c >= b}) = n
<1>1. IsFiniteSet(S) /\ Cardinality(S) \in Nat
  <2>1. \A a, b \in Int : IsFiniteSet(a .. b)
    BY FS_Interval
  <2>2. IsFiniteSet(0 .. N)
    BY <2>1, 0 \in Int, N \in Int, Zenon
  <2>3. IsFiniteSet(S)
    BY <2>2, FS_Subset
  <2>4. QED
    BY <2>3, FS_CardinalityType
<1> DEFINE m == Cardinality(S) - n + 1
<1>2. m \in Nat /\ 0 < m /\ m <= Cardinality(S)
  BY <1>1
<1>3. PICK b \in S : Cardinality({c \in S : c <= b}) = m
  <2> HIDE DEF m
  <2>1. QED
    BY <1>2, NthUp
<1> DEFINE A == {c \in S : c <= b}
           B == {c \in S : c >= b}
<1>4. A \cup B = S /\ A \cap B = {b}
  <2>1. \A c \in S : c \in Nat
    OBVIOUS
  <2>2. \A c \in S : (c <= b \/ c >= b) /\ (c <= b /\ c >= b => c = b) /\ b <= b /\ b >= b
    BY <2>1
  <2>3. QED
    BY <2>2
<1>5. IsFiniteSet(A) /\ IsFiniteSet(B)
  BY <1>1, FS_Subset, A \in SUBSET S, B \in SUBSET S
<1>6. Cardinality(A \cup B) = Cardinality(A) + Cardinality(B) - Cardinality(A \cap B)
  BY <1>5, FS_Union
<1>7. Cardinality({b}) = 1 /\ Cardinality(B) \in Nat
  BY <1>5, FS_Singleton, FS_CardinalityType
<1>8. Cardinality(B) = n
  <2>1. Cardinality(A) = m
    BY <1>3
  <2> HIDE DEF A, B
  <2>2. Cardinality(S) = m + Cardinality(B) - 1
    BY <1>4, <1>6, <1>7, <2>1
  <2>3. QED
    BY <1>1, <1>7, <2>2
<1>9. QED
  BY <1>8

\* The drive with its flags changed, and nothing it knows of the cartridge.
LEMMA FlagsKnow ==
  ASSUME Limits, FInv, NEW s \in DriveStates, s.ready = st.ready, s.partition = st.partition, s.block = st.block,
         s.filemarks = st.filemarks, s.eod = st.eod, s.last_block = st.last_block
  PROVE  Knows(files, s)
BY DEF FInv, Knows, EodKnown, HeadInside, MarksKnown

\* The head is moved, and the filemarks in front of it are counted.
LEMMA MovedKnows ==
  ASSUME Limits, FInv, st.ready, NEW p \in Parts, NEW b \in Nat, st.eod[p] # MISSING_EOD => b <= st.eod[p]
  PROVE  Knows(files, Warn(CountFilemarks([st EXCEPT !.partition = p, !.block = b])))
<1> DEFINE s == [st EXCEPT !.partition = p, !.block = b]
           m == CountFilemarks(s)
           r == Warn(m)
<1>1. st \in DriveStates /\ Directory(files) /\ \A q \in Parts : EodKnown(files, st, q) /\ (st.eod[q] = MISSING_EOD => st.last_block[q] \in Nat)
  BY DEF FInv, Knows
<1>2. /\ s \in DriveStates /\ s.ready /\ s.partition = p /\ s.block = b /\ s.eod = st.eod /\ s.last_block = st.last_block
  BY <1>1 DEF DriveStates
<1>3. MarksBefore(files, p, b) \in Nat
  BY <1>1, FilemarksNat
<1> HIDE DEF s
<1>4. /\ m \in DriveStates /\ m.ready /\ m.partition = p /\ m.block = b /\ m.eod = st.eod /\ m.last_block = st.last_block
      /\ m.filemarks = MarksBefore(files, p, b)
  BY <1>2, <1>3 DEF CountFilemarks, DriveStates
<1> HIDE DEF m
<1>5. r \in DriveStates /\ r = [m EXCEPT !.early_warning = r.early_warning]
  BY <1>4, WarnOnly
<1> HIDE DEF r
<1>6. /\ r.ready /\ r.partition = p /\ r.block = b /\ r.eod = st.eod /\ r.last_block = st.last_block
      /\ r.filemarks = MarksBefore(files, p, b)
  BY <1>4, <1>5 DEF DriveStates
<1>7. Knows(files, r)
  BY <1>1, <1>5, <1>6 DEF Knows, EodKnown, HeadInside, MarksKnown
<1>8. QED
  BY <1>7 DEF r, m, s

\* Calls about the medium, its door and the drive.
LEMMA FlagsKept ==
  ASSUME Limits, FInv, FileUnload \/ FileTestUnitReady \/ FileReserveUnit \/ FileReleaseUnit \/ FilePreventRemoval \/ FileAllowRemoval
  PROVE  FInv' /\ Cartridge!TMNext
<1>0. st \in DriveStates
  BY DEF FInv, Knows
<1>1. CASE FileUnload
  <2> DEFINE s == [st EXCEPT !.ready = FALSE, !.partition = 0, !.block = 0, !.filemarks = 0]
  <2>1. st' = s /\ files' = files /\ vcr' = vcr
    BY <1>1 DEF FileUnload, Only, Returns
  <2>2. s \in DriveStates /\ ~s.ready /\ s.partition = 0 /\ s.block = 0
    BY <1>0 DEF DriveStates, Parts
  <2> HIDE DEF s
  <2>3. Knows(files, s)
    BY <2>2 DEF Knows
  <2>4. QED
    BY <2>1, <2>3, Rests
<1>2. CASE FileTestUnitReady
  <2>1. st' = st /\ files' = files /\ vcr' = vcr
    BY <1>2 DEF FileTestUnitReady, Only, Returns
  <2>2. QED
    BY <2>1, Rests DEF FInv
<1>3. CASE FileReserveUnit \/ FileReleaseUnit
  <2>1. PICK f \in BOOLEAN : st' = [st EXCEPT !.device_reserved = f] /\ files' = files /\ vcr' = vcr
    BY <1>3 DEF FileReserveUnit, FileReleaseUnit, Only, Returns
  <2>2. /\ st' \in DriveStates /\ st'.ready = st.ready /\ st'.partition = st.partition /\ st'.block = st.block
        /\ st'.filemarks = st.filemarks /\ st'.eod = st.eod /\ st'.last_block = st.last_block
    BY <1>0, <2>1 DEF DriveStates
  <2>3. QED
    BY <2>1, <2>2, FlagsKnow, Rests
<1>4. CASE FilePreventRemoval \/ FileAllowRemoval
  <2>1. st.ready \in BOOLEAN /\ st.medium_locked \in BOOLEAN
    BY <1>0 DEF DriveStates
  <2>2. PICK f \in BOOLEAN : st' = [st EXCEPT !.medium_locked = f] /\ files' = files /\ vcr' = vcr
    <3>1. CASE FilePreventRemoval
      <4>1. st' = [st EXCEPT !.medium_locked = st.ready \/ st.medium_locked] /\ files' = files /\ vcr' = vcr
        BY <1>0, <3>1 DEF FilePreventRemoval, Only, Returns, DriveStates
      <4>2. (st.ready \/ st.medium_locked) \in BOOLEAN
        OBVIOUS
      <4>3. QED
        BY <4>1, <4>2
    <3>2. CASE FileAllowRemoval
      <4>1. st' = [st EXCEPT !.medium_locked = ~st.ready /\ st.medium_locked] /\ files' = files /\ vcr' = vcr
        BY <1>0, <3>2 DEF FileAllowRemoval, Only, Returns, DriveStates
      <4>2. (~st.ready /\ st.medium_locked) \in BOOLEAN
        OBVIOUS
      <4>3. QED
        BY <4>1, <4>2
    <3>3. QED
      BY <1>4, <3>1, <3>2
  <2>3. /\ st' \in DriveStates /\ st'.ready = st.ready /\ st'.partition = st.partition /\ st'.block = st.block
        /\ st'.filemarks = st.filemarks /\ st'.eod = st.eod /\ st'.last_block = st.last_block
    BY <1>0, <2>2 DEF DriveStates
  <2>4. QED
    BY <2>2, <2>3, FlagsKnow, Rests
<1>5. QED
  BY <1>1, <1>2, <1>3, <1>4

LEMMA DieKeeps ==
  ASSUME Limits, FInv, Die
  PROVE  FInv' /\ Cartridge!TMNext
<1>1. st' = NewState /\ files' = files /\ vcr' = vcr
  BY DEF Die, Returns
<1>2. QED
  BY <1>1, NewKnows, Rests

\* filedebug_read.
LEMMA ReadKeeps ==
  ASSUME Limits, FInv, FileRead
  PROVE  FInv' /\ Cartridge!TMNext
<1> DEFINE p == st.partition
           b == st.block
           mark == Exists(files, p, b, "F")
<1>0. /\ st.ready /\ st \in DriveStates /\ Directory(files) /\ p \in Parts /\ b \in Nat /\ st.filemarks \in Nat
      /\ st.eod \in [Parts -> Nat]
      /\ HeadInside(st) /\ MarksKnown(files, st)
      /\ \A q \in Parts : EodKnown(files, st, q) /\ (st.eod[q] = MISSING_EOD => st.last_block[q] \in Nat)
  BY DEF FileRead, FInv, Knows, DriveStates
<1>1. files' = files /\ vcr' = vcr
  BY DEF FileRead, Only
<1>2. CASE st' = st
  BY <1>1, <1>2, Rests DEF FInv
<1>3. CASE st' # st
  <2>1. b # st.eod[p] /\ RecordIn(files, p, b)
    BY <1>0, <1>3 DEF FileRead, Only, Returns, RecordIn
  <2>2. st' = [st EXCEPT !.block = b + 1, !.filemarks = st.filemarks + IF mark THEN 1 ELSE 0]
    <3>1. CASE mark
      <4>1. st' = [[st EXCEPT !.block = @ + 1] EXCEPT !.filemarks = @ + 1]
        BY <1>3, <3>1 DEF FileRead, Only, Returns
      <4>2. QED
        BY <1>0, <3>1, <4>1 DEF DriveStates
    <3>2. CASE ~mark
      <4>1. st' = [st EXCEPT !.block = @ + 1]
        BY <1>3, <3>2 DEF FileRead, Only, Returns
      <4>2. st' = [st EXCEPT !.block = b + 1, !.filemarks = st.filemarks]
        BY <1>0, <4>1 DEF DriveStates
      <4>3. st.filemarks + (IF mark THEN 1 ELSE 0) = st.filemarks
        BY <1>0, <3>2
      <4>4. QED
        BY <4>2, <4>3
    <3>3. QED
      BY <3>1, <3>2
  <2>3. b # MISSING_EOD
    BY <1>0, <2>1 DEF Directory, Limits, MISSING_EOD
  <2>4. st.filemarks = MarksBefore(files, p, b)
    BY <1>0, <2>3 DEF MarksKnown
  <2>5. MarksBefore(files, p, b + 1) = MarksBefore(files, p, b) + IF mark THEN 1 ELSE 0
    BY <1>0, FilemarksNext
  <2>6. (IF mark THEN 1 ELSE 0) \in Nat /\ b + 1 \in Nat
    BY <1>0
  <2> HIDE DEF mark
  <2>7. st.filemarks + (IF mark THEN 1 ELSE 0) \in Nat
    BY <1>0, <2>6
  <2>8. /\ st' \in DriveStates /\ st'.ready /\ st'.partition = p /\ st'.block = b + 1 /\ st'.eod = st.eod
        /\ st'.last_block = st.last_block /\ st'.filemarks = MarksBefore(files, p, b + 1)
    BY <1>0, <2>2, <2>4, <2>5, <2>6, <2>7 DEF DriveStates
  <2>9. st.eod[p] # MISSING_EOD => b + 1 <= st.eod[p]
    BY <1>0, <2>1 DEF HeadInside
  <2>10. Knows(files, st')
    BY <1>0, <2>8, <2>9 DEF Knows, EodKnown, HeadInside, MarksKnown
  <2>11. QED
    BY <1>1, <2>10, Rests
<1>4. QED
  BY <1>2, <1>3

LEMMA RewindKeeps ==
  ASSUME Limits, FInv, FileRewind
  PROVE  FInv' /\ Cartridge!TMNext
<1>1. st.ready /\ files' = files /\ vcr' = vcr /\ st' = [st EXCEPT !.block = 0, !.filemarks = 0, !.early_warning = FALSE]
  BY DEF FileRewind, Only, Returns
<1>2. /\ Directory(files) /\ st \in DriveStates
      /\ \A q \in Parts : EodKnown(files, st, q) /\ (st.eod[q] = MISSING_EOD => st.last_block[q] \in Nat)
  BY <1>1 DEF FInv, Knows
<1>3. /\ st' \in DriveStates /\ st'.ready /\ st'.block = 0 /\ st'.filemarks = 0 /\ st'.eod = st.eod /\ st'.last_block = st.last_block
      /\ st'.partition \in Parts /\ st'.eod[st'.partition] \in Nat
  BY <1>1, <1>2 DEF DriveStates
<1>4. HeadInside(st')
  BY <1>3 DEF HeadInside
<1>5. MarksKnown(files, st')
  BY <1>2, <1>3, FilemarksZero DEF MarksKnown
<1>6. Knows(files, st')
  BY <1>2, <1>3, <1>4, <1>5 DEF Knows, EodKnown
<1>7. QED
  BY <1>1, <1>6, Rests

\* filedebug_locate.
LEMMA LocateKeeps ==
  ASSUME Limits, FInv, NEW p \in Parts, NEW b \in Nat, FileLocate(p, b)
  PROVE  FInv' /\ Cartridge!TMNext
<1> DEFINE to == IF st.eod[p] = MISSING_EOD /\ st.last_block[p] < b THEN st.last_block[p] + 1
                 ELSE IF st.eod[p] < b THEN st.eod[p] ELSE b
<1>1. /\ st.ready /\ files' = files /\ vcr' = vcr
      /\ st' = Warn(CountFilemarks([st EXCEPT !.partition = p, !.block = to]))
  BY DEF FileLocate, Only, Returns
<1>2. st.eod[p] \in Nat /\ (st.eod[p] = MISSING_EOD => st.last_block[p] \in Nat)
  BY <1>1 DEF FInv, Knows, DriveStates
<1>3. to \in Nat /\ (st.eod[p] # MISSING_EOD => to <= st.eod[p])
  BY <1>2
<1> HIDE DEF to
<1>4. Knows(files, st')
  BY <1>1, <1>3, MovedKnows
<1>5. QED
  BY <1>1, <1>4, Rests

\* _filedebug_space_fm goes nowhere behind the end of data.
LEMMA SpaceFmInside ==
  ASSUME Limits, FInv, st.ready, st.block # MISSING_EOD, NEW n \in Nat, NEW back \in BOOLEAN
  PROVE  SpaceFm(n, back).to \in Nat
         /\ (st.eod[st.partition] # MISSING_EOD => SpaceFm(n, back).to <= st.eod[st.partition])
<1> DEFINE p == st.partition
           e == st.eod[p]
           end == IF e = MISSING_EOD THEN st.last_block[p] + 1 ELSE e
           marks == {b \in 0 .. MaxBlock + 1 : Exists(files, p, b, "F") /\ IF back THEN b < st.block ELSE b >= st.block /\ b < end}
           Nth == CHOOSE b \in marks : Cardinality({c \in marks : IF back THEN c >= b ELSE c <= b}) = n
           x == SpaceFm(n, back)
<1>0. /\ p \in Parts /\ st.block \in Nat /\ e \in Nat /\ (e # MISSING_EOD => st.block <= e)
      /\ (e = MISSING_EOD => st.last_block[p] \in Nat) /\ MaxBlock \in Nat
  BY DEF FInv, Knows, DriveStates, HeadInside, Limits
<1>1. x = IF n = 0 THEN [to |-> st.block, rc |-> "good"]
          ELSE IF Cardinality(marks) >= n THEN [to |-> IF back THEN Nth ELSE Nth + 1, rc |-> "good"]
          ELSE IF back THEN [to |-> 0, rc |-> "bop_detected"]
          ELSE [to |-> end, rc |-> IF e = MISSING_EOD THEN "rw_perm" ELSE "eod_detected"]
  BY DEF SpaceFm
<1>2. end \in Nat /\ (e # MISSING_EOD => end = e)
  BY <1>0
<1>3. marks \in SUBSET (0 .. MaxBlock + 1) /\ \A b \in marks : b \in Nat /\ IF back THEN b < st.block ELSE b < end
  OBVIOUS
<1> HIDE DEF end, marks, x
<1>4. ASSUME n # 0, Cardinality(marks) >= n
      PROVE  Nth \in marks
  <2>1. 0 < n /\ n <= Cardinality(marks) /\ MaxBlock + 1 \in Nat
    <3>1. Cardinality(marks) \in Nat
      <4>1. \A a, b \in Int : IsFiniteSet(a .. b)
        BY FS_Interval
      <4>2. 0 \in Int /\ MaxBlock + 1 \in Int
        BY <1>0
      <4>3. IsFiniteSet(0 .. MaxBlock + 1)
        BY <4>1, <4>2, Zenon
      <4>4. QED
        BY <1>3, <4>3, FS_Subset, FS_CardinalityType
    <3>2. QED
      BY <1>0, <1>4, <3>1
  <2>2. \E b \in marks : Cardinality({c \in marks : IF back THEN c >= b ELSE c <= b}) = n
    <3>1. CASE back
      <4>1. \E b \in marks : Cardinality({c \in marks : c >= b}) = n
        BY <1>3, <2>1, NthDown
      <4>2. QED
        BY <3>1, <4>1
    <3>2. CASE ~back
      <4>1. \E b \in marks : Cardinality({c \in marks : c <= b}) = n
        BY <1>3, <2>1, NthUp
      <4>2. QED
        BY <3>2, <4>1
    <3>3. QED
      BY <3>1, <3>2
  <2>3. QED
    BY <2>2
<1> HIDE DEF Nth
<1>5. CASE n # 0 /\ Cardinality(marks) >= n
  <2>1. x.to = IF back THEN Nth ELSE Nth + 1
    BY <1>1, <1>5
  <2>2. Nth \in Nat /\ IF back THEN Nth < st.block ELSE Nth < end
    BY <1>3, <1>4, <1>5
  <2>3. QED
    BY <1>0, <1>2, <2>1, <2>2 DEF x
<1>6. CASE ~(n # 0 /\ Cardinality(marks) >= n)
  <2>1. x.to \in {st.block, 0, end}
    BY <1>1, <1>6
  <2>2. QED
    BY <1>0, <1>2, <2>1 DEF x
<1>7. QED
  BY <1>5, <1>6

\* _filedebug_space_rec goes nowhere behind the end of data.
LEMMA SpaceRecInside ==
  ASSUME Limits, FInv, st.ready, st.block # MISSING_EOD, NEW n \in Nat, NEW back \in BOOLEAN
  PROVE  SpaceRec(n, back).to \in Nat
         /\ (st.eod[st.partition] # MISSING_EOD => SpaceRec(n, back).to <= st.eod[st.partition])
<1> DEFINE p == st.partition
           h == st.block
           e == st.eod[p]
           end == IF e = MISSING_EOD THEN st.last_block[p] + 1 ELSE e
           ahead == {b \in h .. h + n - 1 : b = end \/ Exists(files, p, b, "F")}
           behind == {b \in h - n + 1 .. h : b = 0 \/ (b < h /\ Exists(files, p, b, "F"))}
           x == SpaceRec(n, back)
<1>0. /\ p \in Parts /\ h \in Nat /\ e \in Nat /\ (e # MISSING_EOD => h <= e)
      /\ (e = MISSING_EOD => st.last_block[p] \in Nat) /\ Directory(files)
  BY DEF FInv, Knows, DriveStates, HeadInside
<1>1. x = IF n = 0 THEN [to |-> h, rc |-> "good"]
          ELSE IF back THEN IF behind = {} THEN [to |-> h - n, rc |-> "good"]
                            ELSE [to |-> Max(behind), rc |-> IF Exists(files, p, Max(behind), "F") THEN "rw_perm" ELSE "bop_detected"]
          ELSE IF ahead = {} THEN [to |-> h + n, rc |-> "good"]
          ELSE IF Min(ahead) = end THEN [to |-> end, rc |-> "eod_detected"]
          ELSE [to |-> Min(ahead) + 1, rc |-> "rw_perm"]
  BY DEF SpaceRec
<1>2. end \in Nat /\ (e # MISSING_EOD => end = e)
  BY <1>0
<1> HIDE DEF x
<1>3. CASE n = 0
  BY <1>0, <1>1, <1>3 DEF x
<1>4. CASE n # 0 /\ back
  <2>1. behind \in SUBSET (0 .. h)
    <3>1. \A b \in behind : b \in Nat /\ b <= h
      BY <1>0 DEF Exists, Directory, Cells
    <3>2. QED
      BY <1>0, <3>1
  <2>2. CASE behind = {}
    <3>1. ~(0 \in h - n + 1 .. h)
      BY <2>2
    <3>2. h - n \in Nat /\ h - n <= h
      BY <1>0, <3>1
    <3>3. x.to = h - n
      BY <1>1, <1>4, <2>2
    <3>4. QED
      BY <1>0, <3>2, <3>3 DEF x
  <2>3. CASE behind # {}
    <3>1. x.to = Max(behind)
      BY <1>1, <1>4, <2>3
    <3> HIDE DEF behind
    <3>2. Max(behind) \in 0 .. h
      BY <1>0, <2>1, <2>3, MaxOf
    <3>3. QED
      BY <1>0, <3>1, <3>2 DEF x
  <2>4. QED
    BY <2>2, <2>3
<1>5. CASE n # 0 /\ ~back
  <2>1. ahead \in SUBSET Nat
    BY <1>0
  <2>2. CASE ahead = {}
    <3>1. ~(end \in h .. h + n - 1)
      BY <2>2
    <3>2. x.to = h + n
      BY <1>1, <1>5, <2>2
    <3> HIDE DEF end, ahead
    <3>3. e # MISSING_EOD => h + n <= e
      BY <1>0, <1>2, <3>1
    <3>4. QED
      BY <1>0, <3>2, <3>3 DEF x
  <2>3. CASE ahead # {}
    <3> DEFINE m == Min(ahead)
    <3>1. m \in ahead /\ \A k \in ahead : m <= k
      <4> HIDE DEF ahead
      <4>1. QED
        BY <2>1, <2>3, MinOf
    <3>2. x.to = IF m = end THEN end ELSE m + 1
      BY <1>1, <1>5, <2>3
    <3>3. m \in h .. h + n - 1 /\ (end \in h .. h + n - 1 => m <= end)
      BY <3>1
    <3> HIDE DEF m, end, ahead
    <3>4. e # MISSING_EOD => m = end \/ m + 1 <= end
      BY <1>0, <1>2, <3>3
    <3>5. m \in Nat
      BY <1>0, <3>3
    <3>6. QED
      BY <1>0, <1>2, <3>2, <3>4, <3>5 DEF x
  <2>4. QED
    BY <2>2, <2>3
<1>6. QED
  BY <1>3, <1>4, <1>5

\* filedebug_space.
LEMMA FileSpaceKeeps ==
  ASSUME Limits, FInv, NEW type \in {"eod", "fm_f", "fm_b", "f", "b"}, NEW n \in Nat, FileSpace(type, n)
  PROVE  FInv' /\ Cartridge!TMNext
<1> DEFINE p == st.partition
           x == CASE type = "eod" -> [to |-> st.eod[p], rc |-> "good"]
                  [] type = "fm_f" -> SpaceFm(n, FALSE) [] type = "fm_b" -> SpaceFm(n, TRUE)
                  [] type = "f" -> SpaceRec(n, FALSE) [] type = "b" -> SpaceRec(n, TRUE)
<1>0. /\ st.ready /\ Directory(files) /\ st \in DriveStates /\ p \in Parts /\ st.eod[p] \in Nat
      /\ \A q \in Parts : EodKnown(files, st, q) /\ (st.eod[q] = MISSING_EOD => st.last_block[q] \in Nat)
  BY DEF FileSpace, FInv, Knows, DriveStates
<1>1. CASE st.block = MISSING_EOD /\ type # "eod"
  BY <1>1, Rests DEF FileSpace, Only, Returns, FInv
<1>2. CASE ~(st.block = MISSING_EOD /\ type # "eod")
  <2>1. x.to \in Nat /\ (st.eod[p] # MISSING_EOD => x.to <= st.eod[p])
    <3>1. CASE type = "eod"
      BY <1>0, <3>1
    <3>2. CASE type # "eod"
      <4>1. st.block # MISSING_EOD
        BY <1>2, <3>2
      <4>2. \A back \in BOOLEAN : /\ SpaceFm(n, back).to \in Nat /\ (st.eod[p] # MISSING_EOD => SpaceFm(n, back).to <= st.eod[p])
                                  /\ SpaceRec(n, back).to \in Nat /\ (st.eod[p] # MISSING_EOD => SpaceRec(n, back).to <= st.eod[p])
        BY <1>0, <4>1, SpaceFmInside, SpaceRecInside
      <4>3. x \in {SpaceFm(n, FALSE), SpaceFm(n, TRUE), SpaceRec(n, FALSE), SpaceRec(n, TRUE)}
        BY <3>2
      <4> HIDE DEF x
      <4>4. QED
        BY <4>2, <4>3
    <3>3. QED
      BY <3>1, <3>2
  <2>2. IF x.to = MISSING_EOD THEN Only([st EXCEPT !.block = x.to], "rw_perm")
        ELSE Only(Warn(CountFilemarks([st EXCEPT !.block = x.to])), x.rc)
    BY <1>2 DEF FileSpace
  <2> HIDE DEF x
  <2>3. files' = files /\ vcr' = vcr
    BY <2>2 DEF Only
  <2>4. CASE x.to = MISSING_EOD
    <3>1. st.eod[p] = MISSING_EOD
      <4>1. ASSUME st.eod[p] # MISSING_EOD
            PROVE  FALSE
        <5>1. st.eod[p] \in 0 .. MaxBlock
          BY <1>0, <4>1 DEF EodKnown, EndsAt
        <5>2. QED
          BY <2>1, <2>4, <4>1, <5>1 DEF Limits, MISSING_EOD
      <4>2. QED
        BY <4>1
    <3>2. st' = [st EXCEPT !.block = x.to]
      BY <2>2, <2>4 DEF Only, Returns
    <3>3. /\ st' \in DriveStates /\ st'.ready /\ st'.block = MISSING_EOD /\ st'.partition = p /\ st'.eod = st.eod
          /\ st'.last_block = st.last_block
      BY <1>0, <2>1, <2>4, <3>2 DEF DriveStates
    <3>4. Knows(files, st')
      BY <1>0, <3>1, <3>3 DEF Knows, EodKnown, HeadInside, MarksKnown
    <3>5. QED
      BY <2>3, <3>4, Rests
  <2>5. CASE x.to # MISSING_EOD
    <3>1. st' = Warn(CountFilemarks([st EXCEPT !.block = x.to]))
      BY <2>2, <2>5 DEF Only, Returns
    <3>2. [st EXCEPT !.block = x.to] = [st EXCEPT !.partition = p, !.block = x.to]
      BY <1>0 DEF DriveStates
    <3>3. Knows(files, st')
      BY <1>0, <2>1, <3>1, <3>2, MovedKnows
    <3>4. QED
      BY <2>3, <3>3, Rests
  <2>6. QED
    BY <2>4, <2>5
<1>3. QED
  BY <1>1, <1>2

-----------------------------------------------------------------------------
(* Theorems.                                                               *)

LEMMA InitFInv ==
  ASSUME Limits, FileInit
  PROVE  FInv /\ Cartridge!TMInit
<1>1. Directory(files) /\ vcr \in Nat
  BY DEF FileInit, Directory, RecordIn, Exists
<1>2. FInv
  BY <1>1, NewKnows DEF FInv, FileInit
<1>3. ASSUME NEW p \in Parts
      PROVE  MediumOf(files)[p] = <<>>
  <2>1. EndsAt(files, p, 0)
    BY DEF EndsAt, Reaches, Stops, RecordIn, Exists, FileInit, Limits
  <2>2. EndOf(files, p) = 0
    BY <1>1, <2>1, EndUnique
  <2>3. MediumOf(files)[p] \in Seq({"R", "F"}) /\ Len(MediumOf(files)[p]) = 0
    BY <1>1, <2>2, MediumSeq
  <2>4. QED
    BY <2>3
<1>4. Medium = [p \in {0, 1} |-> <<>>]
  BY <1>3, MediumIs DEF MediumOf, Parts
<1>5. Cartridge!TMInit
  BY <1>4 DEF Cartridge!TMInit, FileInit, NewState
<1>6. QED
  BY <1>2, <1>5

LEMMA NextFInv ==
  ASSUME Limits, FInv, FileNext
  PROVE  FInv' /\ Cartridge!TMNext
<1>1. CASE FileLoad
  BY <1>1, LoadKeeps
<1>2. CASE FileUnload \/ FileTestUnitReady \/ FileReserveUnit \/ FileReleaseUnit \/ FilePreventRemoval \/ FileAllowRemoval
  BY <1>2, FlagsKept
<1>3. CASE Die
  BY <1>3, DieKeeps
<1>4. CASE FileRead
  BY <1>4, ReadKeeps
<1>5. CASE FileWrite
  BY <1>5, PutKeeps DEF FileWrite
<1>6. CASE FileWriteFm
  BY <1>6, PutKeeps DEF FileWriteFm
<1>7. CASE FileRewind
  BY <1>7, RewindKeeps
<1>8. CASE FileErase
  BY <1>8, EraseKeeps
<1>9. CASE \E p \in Parts, b \in 0 .. MaxBlock \cup {MISSING_EOD - 1} : FileLocate(p, b)
  <2>1. PICK p \in Parts, b \in 0 .. MaxBlock \cup {MISSING_EOD - 1} : FileLocate(p, b)
    BY <1>9
  <2>2. b \in Nat
    BY DEF MISSING_EOD
  <2>3. QED
    BY <2>1, <2>2, LocateKeeps
<1>10. CASE \E type \in {"eod", "fm_f", "fm_b", "f", "b"}, n \in 1 .. MaxBlock : FileSpace(type, n)
  <2>1. PICK type \in {"eod", "fm_f", "fm_b", "f", "b"}, n \in 1 .. MaxBlock : FileSpace(type, n)
    BY <1>10
  <2>2. n \in Nat
    OBVIOUS
  <2>3. QED
    BY <2>1, <2>2, FileSpaceKeeps
<1>11. CASE \E n \in {1, 2} : FileFormat(n)
  BY <1>11, FormatKeeps
<1>12. QED
  BY <1>1, <1>2, <1>3, <1>4, <1>5, <1>6, <1>7, <1>8, <1>9, <1>10, <1>11 DEF FileNext

LEMMA StepFInv ==
  ASSUME Limits, FInv, [FileNext]_fileVars
  PROVE  FInv' /\ [Cartridge!TMNext]_<<Medium, <<st.partition, st.block>>>>
<1>1. CASE FileNext
  BY <1>1, NextFInv
<1>2. CASE UNCHANGED fileVars
  <2>1. FInv'
    BY <1>2 DEF fileVars, FInv
  <2>2. UNCHANGED <<Medium, <<st.partition, st.block>>>>
    BY <1>2 DEF fileVars, Medium, Readable, RecordAt
  <2>3. QED
    BY <2>1, <2>2
<1>3. QED
  BY <1>1, <1>2

\* What the drive remembers is what the directory holds: the end of data it has
\* for a partition is unknown or the end of what can be read back, and its count
\* of filemarks is that of the marks in front of the head, however many blocks,
\* loads and crashes there are. (st->eod, st->filemarks of filedebug_tc.c)
THEOREM DirectoryIsKnown ==
  ASSUME Limits
  PROVE  FileSpec => []DirectoryKnown
<1>1. FileInit => FInv
  BY InitFInv
<1>2. FInv /\ [FileNext]_fileVars => FInv'
  BY StepFInv
<1>3. FInv => DirectoryKnown
  <2>1. ASSUME FInv, st.ready, NEW p \in Parts
        PROVE  st.eod[p] \in {MISSING_EOD, Readable(p)}
    <3>1. Directory(files) /\ EodKnown(files, st, p)
      BY <2>1 DEF FInv, Knows
    <3>2. Readable(p) = EndOf(files, p)
      BY DEF Readable, EndOf, Stops, RecordIn
    <3>3. QED
      BY <3>1, <3>2, EndUnique DEF EodKnown
  <2>2. QED
    BY <2>1 DEF DirectoryKnown, EodIsEnd, FilemarksCounted, FInv, Knows, MarksKnown
<1>4. QED
  BY <1>1, <1>2, <1>3, PTL DEF FileSpec

\* The directory of files is a cartridge: every call, and whatever part of one was
\* carried out when the process died, cuts or writes a partition at the head,
\* changes nothing, or loses nothing in front of the head.
\* (_filedebug_write_eod, filedebug_write, filedebug_format)
THEOREM DirectoryIsCartridge ==
  ASSUME Limits
  PROVE  FileSpec => FileRefinement /\ Cartridge!TMSpec
<1> DEFINE at == <<st.partition, st.block>>
           Step == UNCHANGED fileVars \/ Cartridge!TMNext
<1>1. FileInit => FInv /\ Cartridge!TMInit
  BY InitFInv
<1>2. FInv /\ [FileNext]_fileVars => FInv' /\ [Cartridge!TMNext]_<<Medium, at>>
  BY StepFInv
<1>3. [Cartridge!TMNext]_<<Medium, at>> => [Step]_<<Medium, at>>
  OBVIOUS
<1> HIDE DEF Step, at
<1>4. FileSpec => Cartridge!TMInit /\ [][Step]_<<Medium, at>> /\ [][Cartridge!TMNext]_<<Medium, at>>
  BY <1>1, <1>2, <1>3, PTL DEF FileSpec
<1>5. QED
  BY <1>4 DEF FileRefinement, Cartridge!TMSpec, Step, at
=============================================================================
