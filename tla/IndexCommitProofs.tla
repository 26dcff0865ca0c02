--------------------------- MODULE IndexCommitProofs ---------------------------
(***************************************************************************)
(* What the commit protocol of libltfs promises for any number of updates,  *)
(* data blocks, mounts, crashes and failing commands: no index names a      *)
(* block that was written over, a generation names one tree, back pointers  *)
(* lead to older indexes, and what was unmounted cleanly mounts cleanly.    *)
(*                                                                         *)
(* A crash leaves the medium with any part of what the drive has buffered:  *)
(* the invariant is that all of these media are sound.                      *)
(***************************************************************************)
EXTENDS MCVolume, SequenceTheorems, WellFoundedInduction, TLAPS

\* Nobody asks for the recovery that erases: a check of the blocks behind the
\* last index recovers them.  (Otherwise see MCVolume_x_erase.cfg.)
NoErase == \A mode \in Modes : mode.deep => mode.extra

-----------------------------------------------------------------------------
(* Types.                                                                  *)

Places == Parts \X Nat
Pointers == {None} \cup Places
Refs == [at : Places, id : Nat]
IndexRecs == [kind : {"index"}, gen : Nat, self : Places, back : Pointers, ver : Nat, refs : SUBSET Refs]
DataRecs == {Data(n) : n \in Nat}
Recs == {FM, Junk} \cup DataRecs \cup IndexRecs
Tapes == [Parts -> Seq(Recs)]
Indexes == [gen : Nat, self : Pointers, back : Pointers, ver : Nat, refs : SUBSET Refs, dirty : BOOLEAN]
Coherency == [count : Nat, set : Nat]

\* The medium once the drive has written k of the records it has, and all.
Spliced(m, p, a, recs) == [m EXCEPT ![p] = SubSeq(@, 1, a - 1) \o recs]
View(k) == IF k = 0 THEN tape ELSE Spliced(tape, head[1], head[2], SubSeq(buf, 1, k))
Now == View(Len(buf))

-----------------------------------------------------------------------------
(* A sound medium.                                                         *)

IsIndex(m, p, i) == i \in DOMAIN m[p] /\ m[p][i].kind = "index"
Points(m, r) ==
  /\ r.at[2] \in DOMAIN m[r.at[1]]
  /\ m[r.at[1]][r.at[2]] = Data(r.id) \/ (r.id = 0 /\ m[r.at[1]][r.at[2]] = Junk)
Leads(m, b, gen) == b = None \/ (b[1] = "DP" /\ IsIndex(m, "DP", b[2]) /\ m["DP"][b[2]].gen <= gen)

\* The first index of the data partition is never lost; an index is behind a file
\* mark and names the place it is at, what it refers to is there, generations grow
\* along a partition and name one content, and back pointers lead to an index.
Labelled(m) == IsIndex(m, "DP", 2)
Placed(m) == \A p \in Parts, i \in Nat : IsIndex(m, p, i) => i > 1 /\ m[p][i-1] = FM /\ m[p][i].self = <<p, i>>
AllPoint(m) == \A p \in Parts, i \in Nat : IsIndex(m, p, i) => \A r \in m[p][i].refs : Points(m, r)
Ordered(m) ==
  \A p \in Parts, i, j \in Nat : IsIndex(m, p, i) /\ IsIndex(m, p, j) /\ i < j => m[p][i].gen <= m[p][j].gen
Alike(m) ==
  \A p, q \in Parts, i, j \in Nat :
    IsIndex(m, p, i) /\ IsIndex(m, q, j) /\ m[p][i].gen = m[q][j].gen
      => m[p][i].ver = m[q][j].ver /\ m[p][i].refs = m[q][j].refs
AllLead(m) ==
  \A p \in Parts, i \in Nat :
    IsIndex(m, p, i) => /\ Leads(m, m[p][i].back, m[p][i].gen)
                        /\ p = "DP" /\ m[p][i].back # None => m[p][i].back[2] < i
Sound(m) == Labelled(m) /\ Placed(m) /\ AllPoint(m) /\ Ordered(m) /\ Alike(m) /\ AllLead(m)

\* What an index in memory has in common with the medium.
Newest(m, gen) == \A p \in Parts, i \in Nat : IsIndex(m, p, i) => m[p][i].gen <= gen
Same(m, ix) ==
  \A p \in Parts, i \in Nat :
    IsIndex(m, p, i) /\ m[p][i].gen = ix.gen => m[p][i].ver = ix.ver /\ m[p][i].refs = ix.refs
Backed(m, ix) == Newest(m, ix.gen) /\ (\A r \in ix.refs : Points(m, r)) /\ Leads(m, ix.back, ix.gen)
Held(m, ix) ==
  /\ Backed(m, ix)
  /\ ix.self[1] = "DP" => IsIndex(m, "DP", ix.self[2])
  /\ ~ix.dirty => Same(m, ix)

\* Where partition p may be written: at its end, or over the last index of the
\* index partition.
LastAt(m, p, a) == IsIndex(m, p, a + 1) /\ Len(m[p]) <= a + 2 /\ (Len(m[p]) = a + 2 => m[p][a + 2] = FM)
Free(m, p, a) == a = EOD(m[p]) \/ (p = "IP" /\ a > 0 /\ LastAt(m, p, a))

-----------------------------------------------------------------------------
(* The invariant.                                                          *)

DriveOK ==
  /\ tape \in Tapes /\ buf \in Seq(Recs)
  /\ head = <<head[1], head[2]>> /\ head[1] \in {"none"} \cup Parts /\ head[2] \in Nat
  /\ head[1] = "none" => buf = <<>>
  /\ head[1] \in Parts => head[2] \in 1 .. EOD(tape[head[1]])

\* Whatever part of the buffer a crash leaves, the medium is sound.
AllSound == \A k \in 0 .. Len(buf) : Sound(View(k))

Attributes == [Parts -> [current : BOOLEAN, count : Nat, set : Nat]]
Steps == {"begin", "write", "flush", "mam"}
Thens == {"none", "mount", "sync", "unmount"} \cup Parts
Calls == {<<>>, <<"IP">>, <<"DP">>, <<"DP", "IP">>}
Jobs == [calls : Calls, step : Steps, tried : BOOLEAN, then : Thens, old : {<<>>} \cup Indexes]
Phases == {"down", "out", "mount", "up", "unmount", "closing", "failed"}

TypeInv ==
  /\ DriveOK /\ mam \in Attributes
  /\ index \in Indexes /\ file_end \in [Parts -> BOOLEAN]
  /\ coh \in [Parts -> Coherency] /\ append_pos \in [Parts -> Nat]
  /\ pending \subseteq Refs /\ want \in Parts \cup {"none"} /\ less \subseteq Parts
  /\ job \in Jobs /\ phase \in Phases /\ written \in Nat

JobInv ==
  /\ job.calls = <<>> => job.step = "begin" /\ job.then \notin {"mount", "unmount"}
  /\ job.then = "mount" => job.calls \in {<<"IP">>, <<"DP", "IP">>}
  /\ job.step = "write" => job.old \in Indexes
  /\ Idle \/ phase \in {"mount", "up", "unmount"}

\* The records of an index are with the drive, or on the medium.
Writing == job.step \in {"flush", "mam"}

\* The index in memory: what it refers to is there, and nothing is newer.
IndexInv ==
  /\ job.step = "begin" => Held(Now, index)
  /\ job.step = "write" =>
       /\ Held(Now, job.old) /\ Backed(Now, index) /\ Same(Now, index)
       /\ index.self = <<Part, Here[2] + 1>>
       /\ Here = <<Part, append_pos[Part]>> /\ append_pos[Part] # 0
  /\ Writing =>
       /\ index.self[1] = Part
       /\ IsIndex(Now, Part, index.self[2]) /\ Now[Part][index.self[2]] = IndexBlock(index)
       /\ LastAt(Now, Part, index.self[2] - 1)
       /\ Backed(Now, index) /\ Same(Now, index)
  /\ job.step = "flush" => buf # <<>>
  /\ job.step = "mam" => buf = <<>> /\ file_end[Part] /\ \A p \in Parts : ~mam[p].current

\* A coherency value is at least as new as all indexes of its partition; when the
\* block it names is an index, it is that one, and the last of the index partition.
CohOn(m, p, c) ==
  /\ \A i \in Nat : IsIndex(m, p, i) => m[p][i].gen <= c.count
  /\ IsIndex(m, p, c.set) => m[p][c.set].gen = c.count /\ (p = "IP" => LastAt(m, p, c.set - 1))

\* vol->ip_coh is true while the index partition ends in an index, vol->dp_coh always.
CohInv ==
  /\ ~(Writing /\ Part = "DP") => CohOn(Now, "DP", coh["DP"])
  /\ file_end["IP"] /\ ~(Writing /\ Part = "IP") =>
       /\ CohOn(Now, "IP", coh["IP"])
       /\ IsIndex(Now, "IP", coh["IP"].set) => append_pos["IP"] = coh["IP"].set - 1

\* The next write takes nothing away, and what waits for an extent is there.
PlaceInv ==
  /\ \A p \in Parts : Free(Now, p, AppendAt(p))
  /\ \A r \in pending : Points(Now, r)

\* The attributes in the cartridge memory, while they are accepted.
CurrentInv == mam["IP"].current /\ mam["DP"].current => \A p \in Parts : CohOn(tape, p, mam[p])

OffInv ==
  /\ buf = <<>> /\ head = <<"none", 1>> /\ index = NoIndex /\ pending = {} /\ job = NoJob
  /\ append_pos = [p \in Parts |-> 0] /\ file_end = [p \in Parts |-> FALSE]

MountedInv == IndexInv /\ CohInv /\ PlaceInv

IInv ==
  /\ TypeInv /\ AllSound /\ JobInv /\ CurrentInv
  /\ Down => OffInv
  /\ ~Down => MountedInv

-----------------------------------------------------------------------------
(* Records.                                                                *)

LEMMA Kinds ==
  /\ FM \in Recs /\ Junk \in Recs /\ FM # Junk
  /\ FM.kind = "fm" /\ Junk.kind = "junk"
  /\ \A n \in Nat : Data(n) \in Recs /\ Data(n).kind = "data" /\ Data(n).id = n /\ Data(n) # FM /\ Data(n) # Junk
  /\ \A x \in Recs : /\ x.kind = "index" <=> x \in IndexRecs
                     /\ x.kind = "fm" <=> x = FM
                     /\ x.kind = "junk" <=> x = Junk
                     /\ x.kind = "data" <=> x \in DataRecs
<1>1. FM.kind = "fm" /\ Junk.kind = "junk"
  BY DEF FM, Junk
<1>2. \A n \in Nat : Data(n) \in DataRecs /\ Data(n).kind = "data" /\ Data(n).id = n
  BY DEF Data, DataRecs
<1>3. \A x \in DataRecs : x.kind = "data"
  BY DEF Data, DataRecs
<1>4. \A x \in IndexRecs : x.kind = "index"
  BY DEF IndexRecs
<1>5. QED
  BY <1>1, <1>2, <1>3, <1>4 DEF Recs

\* One record more at a.
LEMMA SplicedOne ==
  ASSUME NEW m \in Tapes, NEW p \in Parts, NEW a \in 1 .. EOD(m[p]), NEW x \in Recs
  PROVE  LET t == Spliced(m, p, a, <<x>>)
         IN  /\ t \in Tapes /\ Len(t[p]) = a
             /\ \A i \in 1 .. a - 1 : t[p][i] = m[p][i]
             /\ t[p][a] = x
             /\ \A q \in Parts : q # p => t[q] = m[q]
<1>1. m[p] \in Seq(Recs)
  BY DEF Tapes
<1>2. a - 1 \in 0 .. Len(m[p])
  BY <1>1 DEF EOD
<1> DEFINE s == SubSeq(m[p], 1, a - 1)
<1>3. s \in Seq(Recs) /\ Len(s) = a - 1 /\ \A i \in 1 .. a - 1 : s[i] = m[p][i]
  BY <1>1, <1>2
<1>4. s \o <<x>> \in Seq(Recs) /\ Len(s \o <<x>>) = a /\ (s \o <<x>>)[a] = x
      /\ \A i \in 1 .. a - 1 : (s \o <<x>>)[i] = m[p][i]
  BY <1>3
<1>5. Spliced(m, p, a, <<x>>) = [m EXCEPT ![p] = s \o <<x>>]
  BY DEF Spliced
<1> HIDE DEF s
<1>6. QED
  BY <1>4, <1>5 DEF Tapes

\* What is written where a partition is free takes nothing away that somebody
\* points to.
Keeps(m, t) ==
  /\ \A r \in Refs : Points(m, r) => Points(t, r)
  /\ \A i \in Nat : IsIndex(m, "DP", i) => IsIndex(t, "DP", i) /\ t["DP"][i] = m["DP"][i]

\* The indexes of t are those of m, or one more.
Among(t, m) == \A q \in Parts, i \in Nat : IsIndex(t, q, i) => IsIndex(m, q, i) /\ t[q][i] = m[q][i]
AmongOr(t, m, p, a) ==
  \A q \in Parts, i \in Nat : IsIndex(t, q, i) /\ ~(q = p /\ i = a) => IsIndex(m, q, i) /\ t[q][i] = m[q][i]

LEMMA TapeFacts ==
  ASSUME NEW m \in Tapes, NEW p \in Parts
  PROVE  /\ m[p] \in Seq(Recs) /\ Len(m[p]) \in Nat /\ DOMAIN m[p] = 1 .. Len(m[p])
         /\ EOD(m[p]) = Len(m[p]) + 1
         /\ \A i \in DOMAIN m[p] : m[p][i] \in Recs
         /\ \A i : IsIndex(m, p, i) => i \in 1 .. Len(m[p]) /\ m[p][i] \in IndexRecs
<1>1. m[p] \in Seq(Recs)
  BY DEF Tapes
<1>2. QED
  BY <1>1, Kinds DEF EOD, IsIndex

LEMMA FreeFits ==
  ASSUME NEW m \in Tapes, NEW p \in Parts, NEW a \in Nat, Free(m, p, a)
  PROVE  a \in 1 .. EOD(m[p])
  BY TapeFacts DEF Free, LastAt

LEMMA SplicedKeeps ==
  ASSUME NEW m \in Tapes, NEW p \in Parts, NEW a \in Nat, Free(m, p, a), Placed(m), NEW x \in Recs
  PROVE  LET t == Spliced(m, p, a, <<x>>)
         IN  Keeps(m, t) /\ AmongOr(t, m, p, a) /\ (x.kind # "index" => Among(t, m))
<1>1. a \in 1 .. EOD(m[p])
  BY FreeFits
<1> DEFINE t == Spliced(m, p, a, <<x>>)
<1>2. /\ t \in Tapes /\ Len(t[p]) = a /\ t[p][a] = x
      /\ \A i \in 1 .. a - 1 : t[p][i] = m[p][i]
      /\ \A q \in Parts : q # p => t[q] = m[q]
  BY <1>1, SplicedOne
<1> HIDE DEF t
<1>3. \A i \in DOMAIN m[p] : i >= a => p = "IP" /\ m[p][i].kind \in {"fm", "index"}
  <2> SUFFICES ASSUME NEW i \in DOMAIN m[p], i >= a PROVE p = "IP" /\ m[p][i].kind \in {"fm", "index"}
    OBVIOUS
  <2>1. p = "IP" /\ LastAt(m, p, a)
    BY <1>1, TapeFacts DEF Free
  <2>2. m[p][a] = FM /\ m[p][a + 1].kind = "index"
    BY <2>1 DEF LastAt, Placed, IsIndex
  <2>3. i = a \/ i = a + 1 \/ (i = a + 2 /\ m[p][i] = FM)
    BY <2>1, TapeFacts DEF LastAt
  <2>4. QED
    BY <2>1, <2>2, <2>3, Kinds
<1>4. AmongOr(t, m, p, a)
  BY <1>1, <1>2, TapeFacts DEF AmongOr, IsIndex
<1>5. x.kind # "index" => Among(t, m)
  BY <1>2, <1>4 DEF Among, AmongOr, IsIndex
<1>6. ASSUME NEW r \in Refs, Points(m, r)
      PROVE  Points(t, r)
  <2>1. r.at[1] \in Parts /\ r.at[2] \in Nat /\ r.id \in Nat
    BY DEF Refs, Places
  <2>2. CASE r.at[1] = p
    <3>1. r.at[2] \in DOMAIN m[p] /\ m[p][r.at[2]].kind \in {"data", "junk"}
      BY <1>6, <2>1, <2>2, Kinds DEF Points
    <3>2. r.at[2] < a
      BY <1>1, <1>3, <3>1, TapeFacts
    <3>3. r.at[2] \in DOMAIN t[p] /\ t[p][r.at[2]] = m[p][r.at[2]]
      BY <1>2, <3>1, <3>2, TapeFacts
    <3>4. QED
      BY <1>6, <2>2, <3>3 DEF Points
  <2>3. CASE r.at[1] # p
    BY <1>2, <1>6, <2>1, <2>3 DEF Points
  <2>4. QED
    BY <2>2, <2>3
<1>7. ASSUME NEW i \in Nat, IsIndex(m, "DP", i)
      PROVE  IsIndex(t, "DP", i) /\ t["DP"][i] = m["DP"][i]
  <2>1. CASE p = "DP"
    <3>1. i < a
      BY <1>1, <1>3, <1>7, <2>1, TapeFacts DEF IsIndex
    <3>2. QED
      BY <1>2, <1>7, <2>1, <3>1, TapeFacts DEF IsIndex
  <2>2. CASE p # "DP"
    BY <1>2, <1>7, <2>2 DEF Parts, IsIndex
  <2>3. QED
    BY <2>1, <2>2
<1>8. QED
  BY <1>4, <1>5, <1>6, <1>7 DEF t, Keeps

LEMMA LeadsKept ==
  ASSUME NEW m, NEW t, Keeps(m, t), NEW b \in Pointers, NEW gen, Leads(m, b, gen)
  PROVE  Leads(t, b, gen)
<1>1. CASE b = None
  BY <1>1 DEF Leads
<1>2. CASE b # None
  <2>1. b[2] \in Nat
    BY <1>2 DEF Pointers, Places
  <2>2. QED
    BY <1>2, <2>1 DEF Leads, Keeps
<1>3. QED
  BY <1>1, <1>2

\* An index that may be written at a.
NewIndex(m, p, a, x) ==
  /\ a = EOD(m[p]) /\ a > 1 /\ m[p][a - 1] = FM /\ x.self = <<p, a>>
  /\ Backed(m, x) /\ Same(m, x)

LEMMA SoundMore ==
  ASSUME NEW m \in Tapes, NEW p \in Parts, NEW a \in Nat, Free(m, p, a), Sound(m), NEW x \in Recs,
         x.kind = "index" => NewIndex(m, p, a, x)
  PROVE  Sound(Spliced(m, p, a, <<x>>))
<1> DEFINE t == Spliced(m, p, a, <<x>>)
<1>1. a \in 1 .. EOD(m[p])
  BY FreeFits
<1>2. /\ t \in Tapes /\ Len(t[p]) = a /\ t[p][a] = x
      /\ \A i \in 1 .. a - 1 : t[p][i] = m[p][i]
      /\ \A q \in Parts : q # p => t[q] = m[q]
  BY <1>1, SplicedOne
<1>3. Keeps(m, t) /\ AmongOr(t, m, p, a) /\ (x.kind # "index" => Among(t, m))
  BY SplicedKeeps DEF Sound
<1> HIDE DEF t
<1>4. Labelled(t)
  BY <1>3 DEF Sound, Labelled, Keeps
<1>5. \A q \in Parts, i \in Nat :
        IsIndex(t, q, i) => \/ IsIndex(m, q, i) /\ t[q][i] = m[q][i]
                            \/ q = p /\ i = a /\ t[q][i] = x /\ x \in IndexRecs /\ NewIndex(m, p, a, x)
  BY <1>2, <1>3, Kinds DEF AmongOr, IsIndex
<1>6. Placed(t)
  <2> SUFFICES ASSUME NEW q \in Parts, NEW i \in Nat, IsIndex(t, q, i)
               PROVE  i > 1 /\ t[q][i-1] = FM /\ t[q][i].self = <<q, i>>
    BY DEF Placed
  <2>1. CASE q = p /\ i = a /\ t[q][i] = x /\ NewIndex(m, p, a, x)
    BY <1>1, <1>2, <2>1 DEF NewIndex
  <2>2. CASE IsIndex(m, q, i) /\ t[q][i] = m[q][i]
    <3>1. i > 1 /\ m[q][i-1] = FM /\ m[q][i].self = <<q, i>>
      BY <2>2 DEF Sound, Placed
    <3>2. t[q][i-1] = m[q][i-1]
      <4>1. CASE q = p
        <5>1. i \in 1 .. a
          BY <1>2, <4>1, TapeFacts DEF IsIndex
        <5>2. i - 1 \in 1 .. a - 1
          BY <1>1, <3>1, <5>1
        <5>3. QED
          BY <1>2, <4>1, <5>2
      <4>2. CASE q # p
        BY <1>2, <4>2
      <4>3. QED
        BY <4>1, <4>2
    <3>3. QED
      BY <2>2, <3>1, <3>2
  <2>3. QED
    BY <1>5, <2>1, <2>2
<1>7. AllPoint(t)
  <2> SUFFICES ASSUME NEW q \in Parts, NEW i \in Nat, IsIndex(t, q, i), NEW r \in t[q][i].refs
               PROVE  Points(t, r)
    BY DEF AllPoint
  <2>1. t[q][i] \in IndexRecs
    BY <1>2, TapeFacts
  <2>2. r \in Refs
    BY <2>1 DEF IndexRecs
  <2>3. Points(m, r)
    BY <1>5 DEF Sound, AllPoint, NewIndex, Backed
  <2>4. QED
    BY <1>3, <2>2, <2>3 DEF Keeps
<1>8. Ordered(t)
  <2> SUFFICES ASSUME NEW q \in Parts, NEW i \in Nat, NEW j \in Nat, IsIndex(t, q, i), IsIndex(t, q, j), i < j
               PROVE  t[q][i].gen <= t[q][j].gen
    BY DEF Ordered
  <2>1. i \in 1 .. Len(t[q]) /\ j \in 1 .. Len(t[q])
    BY <1>2, TapeFacts
  <2>2. IsIndex(m, q, i) /\ t[q][i] = m[q][i]
    BY <1>2, <1>5, <2>1
  <2>3. CASE IsIndex(m, q, j) /\ t[q][j] = m[q][j]
    BY <2>2, <2>3 DEF Sound, Ordered
  <2>4. CASE t[q][j] = x /\ NewIndex(m, p, a, x)
    BY <2>2, <2>4 DEF NewIndex, Backed, Newest
  <2>5. QED
    BY <1>5, <2>3, <2>4
<1>9. Alike(t)
  <2> SUFFICES ASSUME NEW q \in Parts, NEW u \in Parts, NEW i \in Nat, NEW j \in Nat,
                      IsIndex(t, q, i), IsIndex(t, u, j), t[q][i].gen = t[u][j].gen
               PROVE  t[q][i].ver = t[u][j].ver /\ t[q][i].refs = t[u][j].refs
    BY DEF Alike
  <2>1. CASE IsIndex(m, q, i) /\ t[q][i] = m[q][i] /\ IsIndex(m, u, j) /\ t[u][j] = m[u][j]
    BY <2>1 DEF Sound, Alike
  <2>2. CASE t[q][i] = x /\ NewIndex(m, p, a, x) /\ IsIndex(m, u, j) /\ t[u][j] = m[u][j]
    BY <2>2 DEF NewIndex, Same
  <2>3. CASE IsIndex(m, q, i) /\ t[q][i] = m[q][i] /\ t[u][j] = x /\ NewIndex(m, p, a, x)
    BY <2>3 DEF NewIndex, Same
  <2>4. CASE t[q][i] = x /\ t[u][j] = x
    BY <2>4
  <2>5. QED
    BY <1>5, <2>1, <2>2, <2>3, <2>4
<1>10. AllLead(t)
  <2> SUFFICES ASSUME NEW q \in Parts, NEW i \in Nat, IsIndex(t, q, i)
               PROVE  /\ Leads(t, t[q][i].back, t[q][i].gen)
                      /\ q = "DP" /\ t[q][i].back # None => t[q][i].back[2] < i
    BY DEF AllLead
  <2>1. t[q][i].back \in Pointers
    BY <1>2, TapeFacts DEF IndexRecs
  <2>2. CASE IsIndex(m, q, i) /\ t[q][i] = m[q][i]
    <3>1. Leads(m, t[q][i].back, t[q][i].gen)
      BY <2>2 DEF Sound, AllLead
    <3>2. QED
      BY <1>3, <2>1, <2>2, <3>1, LeadsKept DEF Sound, AllLead
  <2>3. CASE q = p /\ i = a /\ t[q][i] = x /\ NewIndex(m, p, a, x)
    <3>1. Leads(m, x.back, x.gen)
      BY <2>3 DEF NewIndex, Backed
    <3>2. q = "DP" /\ x.back # None => x.back[2] < i
      <4> SUFFICES ASSUME q = "DP", x.back # None PROVE x.back[2] < i
        OBVIOUS
      <4>1. x.back[2] \in 1 .. Len(m["DP"])
        BY <3>1, TapeFacts DEF Leads, Parts
      <4>2. QED
        BY <2>3, <4>1, TapeFacts DEF NewIndex
    <3>3. QED
      BY <1>3, <2>1, <2>3, <3>1, <3>2, LeadsKept
  <2>4. QED
    BY <1>5, <2>2, <2>3
<1>11. QED
  BY <1>4, <1>6, <1>7, <1>8, <1>9, <1>10 DEF Sound, t

LEMMA BackedKept ==
  ASSUME NEW m, NEW t, Keeps(m, t), Among(t, m), NEW ix, ix.back \in Pointers, ix.refs \subseteq Refs
  PROVE  /\ Backed(m, ix) => Backed(t, ix)
         /\ Same(m, ix) => Same(t, ix)
<1>1. Same(m, ix) => Same(t, ix)
  BY DEF Same, Among
<1>2. Newest(m, ix.gen) => Newest(t, ix.gen)
  BY DEF Newest, Among
<1>3. (\A r \in ix.refs : Points(m, r)) => \A r \in ix.refs : Points(t, r)
  BY DEF Keeps
<1>4. Leads(m, ix.back, ix.gen) => Leads(t, ix.back, ix.gen)
  BY LeadsKept
<1>5. QED
  BY <1>1, <1>2, <1>3, <1>4 DEF Backed

LEMMA HeldKept ==
  ASSUME NEW m, NEW t, Keeps(m, t), Among(t, m), NEW ix \in Indexes, Held(m, ix)
  PROVE  Held(t, ix)
<1>1. ix.back \in Pointers /\ ix.refs \subseteq Refs /\ ix.self \in Pointers
  BY DEF Indexes
<1>2. Backed(t, ix) /\ (~ix.dirty => Same(t, ix))
  BY <1>1, BackedKept DEF Held
<1>3. ix.self[1] = "DP" => ix.self[2] \in Nat
  BY <1>1 DEF Pointers, Places, None
<1>4. QED
  BY <1>2, <1>3 DEF Held, Keeps

-----------------------------------------------------------------------------
(* The drive.                                                              *)

LEMMA SplicedSeq ==
  ASSUME NEW m \in Tapes, NEW p \in Parts, NEW a \in 1 .. EOD(m[p]), NEW recs \in Seq(Recs)
  PROVE  LET t == Spliced(m, p, a, recs)
         IN  /\ t \in Tapes /\ Len(t[p]) = a - 1 + Len(recs)
             /\ t[p] = SubSeq(m[p], 1, a - 1) \o recs
             /\ \A q \in Parts : q # p => t[q] = m[q]
<1>1. m[p] \in Seq(Recs)
  BY DEF Tapes
<1>2. a - 1 \in 0 .. Len(m[p])
  BY <1>1 DEF EOD
<1> DEFINE s == SubSeq(m[p], 1, a - 1)
<1>3. s \in Seq(Recs) /\ Len(s) = a - 1
  BY <1>1, <1>2
<1>4. s \o recs \in Seq(Recs) /\ Len(s \o recs) = a - 1 + Len(recs)
  BY <1>3
<1>5. Spliced(m, p, a, recs) = [m EXCEPT ![p] = s \o recs]
  BY DEF Spliced
<1> HIDE DEF s
<1>6. QED
  BY <1>4, <1>5 DEF Tapes, s

\* Writing twice is writing once.
LEMMA SplicedTwice ==
  ASSUME NEW m \in Tapes, NEW p \in Parts, NEW a \in 1 .. EOD(m[p]), NEW u \in Seq(Recs), NEW w \in Seq(Recs)
  PROVE  Spliced(Spliced(m, p, a, u), p, a + Len(u), w) = Spliced(m, p, a, u \o w)
<1>1. m[p] \in Seq(Recs) /\ a - 1 \in 0 .. Len(m[p])
  BY TapeFacts
<1> DEFINE s == SubSeq(m[p], 1, a - 1)
           t == Spliced(m, p, a, u)
<1>2. s \in Seq(Recs) /\ Len(s) = a - 1
  BY <1>1
<1>3. t \in Tapes /\ t[p] = s \o u /\ \A q \in Parts : q # p => t[q] = m[q]
  BY SplicedSeq
<1>4. t = [m EXCEPT ![p] = s \o u]
  BY DEF Spliced
<1>5. Spliced(m, p, a, u \o w) = [m EXCEPT ![p] = s \o (u \o w)]
  BY DEF Spliced
<1> HIDE DEF s
<1>6. SubSeq(s \o u, 1, (a + Len(u)) - 1) = s \o u
  BY <1>2
<1>7. (s \o u) \o w = s \o (u \o w)
  BY <1>2
<1>8. Spliced(t, p, a + Len(u), w) = [t EXCEPT ![p] = s \o (u \o w)]
  <2> HIDE DEF t
  <2>1. SubSeq(t[p], 1, (a + Len(u)) - 1) \o w = s \o (u \o w)
    <3>1. t[p] = s \o u
      BY <1>3
    <3>2. QED
      BY <3>1, <1>6, <1>7, Zenon
  <2>2. Spliced(t, p, a + Len(u), w) = [t EXCEPT ![p] = SubSeq(t[p], 1, (a + Len(u)) - 1) \o w]
    BY ZenonT(20) DEF Spliced
  <2>3. QED
    BY <2>1, <2>2, Zenon
<1>9. [t EXCEPT ![p] = s \o (u \o w)] = [m EXCEPT ![p] = s \o (u \o w)]
  <2> HIDE DEF t
  <2>1. t = [m EXCEPT ![p] = s \o u]
    BY <1>4
  <2>2. m \in [Parts -> Seq(Recs)]
    BY DEF Tapes
  <2>3. QED
    BY <2>1, <2>2
<1>10. QED
  BY <1>5, <1>8, <1>9

LEMMA BufferFacts ==
  ASSUME DriveOK
  PROVE  /\ Len(buf) \in Nat /\ (buf # <<>> <=> Len(buf) > 0)
         /\ \A k \in 0 .. Len(buf) : SubSeq(buf, 1, k) \in Seq(Recs) /\ Len(SubSeq(buf, 1, k)) = k
         /\ SubSeq(buf, 1, Len(buf)) = buf
         /\ buf # <<>> => head[1] \in Parts
  BY DEF DriveOK

LEMMA ViewFacts ==
  ASSUME DriveOK, NEW k \in 0 .. Len(buf)
  PROVE  /\ View(k) \in Tapes
         /\ k > 0 => /\ head[1] \in Parts
                     /\ View(k) = Spliced(tape, head[1], head[2], SubSeq(buf, 1, k))
                     /\ Len(View(k)[head[1]]) = head[2] - 1 + k
<1>1. CASE k = 0
  BY <1>1 DEF View, DriveOK
<1>2. CASE k # 0
  <2>1. head[1] \in Parts /\ head[2] \in 1 .. EOD(tape[head[1]]) /\ tape \in Tapes
    BY <1>2, BufferFacts DEF DriveOK
  <2>2. SubSeq(buf, 1, k) \in Seq(Recs) /\ Len(SubSeq(buf, 1, k)) = k
    BY BufferFacts
  <2>3. View(k) = Spliced(tape, head[1], head[2], SubSeq(buf, 1, k))
    BY <1>2 DEF View
  <2>4. Spliced(tape, head[1], head[2], SubSeq(buf, 1, k)) \in Tapes
        /\ Len(Spliced(tape, head[1], head[2], SubSeq(buf, 1, k))[head[1]]) = head[2] - 1 + k
    <3> DEFINE p == head[1]
               a == head[2]
               recs == SubSeq(buf, 1, k)
    <3>1. p \in Parts /\ a \in 1 .. EOD(tape[p]) /\ recs \in Seq(Recs) /\ Len(recs) = k
      BY <2>1, <2>2
    <3> HIDE DEF p, a, recs
    <3>2. Spliced(tape, p, a, recs) \in Tapes /\ Len(Spliced(tape, p, a, recs)[p]) = a - 1 + k
      BY <2>1, <3>1, SplicedSeq
    <3>3. QED
      BY <3>2 DEF p, a, recs
  <2>5. QED
    BY <2>1, <2>3, <2>4
<1>3. QED
  BY <1>1, <1>2

LEMMA NowFacts ==
  ASSUME DriveOK
  PROVE  Now \in Tapes /\ (buf = <<>> => Now = tape) /\ \A p \in Parts : Now[p] = Seen(p)
<1>1. Now \in Tapes
  BY ViewFacts, BufferFacts DEF Now
<1>2. CASE buf = <<>>
  <2>1. Now = tape
    BY <1>2, BufferFacts DEF Now, View
  <2>2. QED
    BY <1>1, <1>2, <2>1 DEF Seen
<1>3. CASE buf # <<>>
  <2>1. head[1] \in Parts /\ head[2] \in 1 .. EOD(tape[head[1]]) /\ tape \in Tapes
    BY <1>3, BufferFacts DEF DriveOK
  <2>2. Now = Spliced(tape, head[1], head[2], buf)
    <3>1. Len(buf) # 0 /\ SubSeq(buf, 1, Len(buf)) = buf
      BY <1>3, BufferFacts
    <3>2. QED
      BY <3>1 DEF Now, View
  <2>3. buf \in Seq(Recs)
    BY DEF DriveOK
  <2>4. /\ Now[head[1]] = SubSeq(tape[head[1]], 1, head[2] - 1) \o buf
        /\ \A p \in Parts : p # head[1] => Now[p] = tape[p]
    BY <2>1, <2>2, <2>3, SplicedSeq
  <2>5. QED
    BY <1>1, <1>3, <2>4 DEF Seen
<1>4. QED
  BY <1>2, <1>3

\* The drive writes all it has.
LEMMA FlushKeeps ==
  ASSUME DriveOK, NEW recs, Written(Len(buf), recs)
  PROVE  tape' = Now /\ buf' = recs
<1>1. CASE Len(buf) = 0
  BY <1>1 DEF Written, Now, View
<1>2. CASE Len(buf) # 0
  BY <1>2 DEF Written, Now, View, Spliced
<1>3. QED
  BY <1>1, <1>2 DEF Written

LEMMA EmptyNow ==
  ASSUME DriveOK, tape' = Now, buf' = <<>>,
         head' = <<head'[1], head'[2]>>, head'[1] \in {"none"} \cup Parts, head'[2] \in Nat,
         head'[1] \in Parts => head'[2] \in 1 .. EOD(Now[head'[1]])
  PROVE  /\ DriveOK' /\ Now' = Now
         /\ AllSound => AllSound'
         /\ Here' = head'
<1>1. Len(buf') = 0
  BY SMT
<1>2. Now' = tape'
  BY <1>1 DEF Now, View
<1>3. \A k \in 0 .. Len(buf') : View(k)' = Now
  BY <1>1 DEF View
<1>4. Now' = Now
  BY <1>2
<1>5. AllSound => AllSound'
  <2> SUFFICES ASSUME AllSound PROVE AllSound'
    OBVIOUS
  <2>1. Sound(Now)
    BY BufferFacts DEF AllSound, Now
  <2>2. QED
    BY <1>3, <2>1 DEF AllSound
<1>6. Here' = head'
  BY <1>1 DEF Here
<1>7. DriveOK'
  BY NowFacts DEF DriveOK
<1>8. QED
  BY <1>4, <1>5, <1>6, <1>7

LEMMA HereFits ==
  ASSUME DriveOK, head[1] \in Parts
  PROVE  Here[1] = head[1] /\ Here[2] \in 1 .. EOD(Now[head[1]]) /\ (buf # <<>> => Here[2] = EOD(Now[head[1]]))
<1>1. CASE buf = <<>>
  BY <1>1, NowFacts DEF Here, DriveOK
<1>2. CASE buf # <<>>
  <2>1. Len(buf) \in Nat /\ Len(buf) > 0
    BY <1>2, BufferFacts
  <2>2. Len(Now[head[1]]) = head[2] - 1 + Len(buf)
    BY <2>1, ViewFacts DEF Now
  <2>3. head[2] \in Nat /\ head[2] > 0
    BY TapeFacts DEF DriveOK
  <2>4. QED
    BY <2>1, <2>2, <2>3 DEF Here, EOD
<1>3. QED
  BY <1>1, <1>2

\* A locate changes nothing on the way.
LEMMA LocateKeeps ==
  ASSUME DriveOK, NEW p \in Parts, NEW a \in 1 .. EOD(Now[p]), Locate(<<p, a>>, <<>>)
  PROVE  /\ DriveOK' /\ Now' = Now
         /\ AllSound => AllSound'
         /\ Here' = <<p, a>>
<1>1. CASE Here = <<p, a>>
  <2>1. buf' = buf /\ tape' = tape /\ head' = head
    BY <1>1 DEF Locate, DriveOK
  <2>2. QED
    BY <1>1, <2>1 DEF DriveOK, Now, View, AllSound, Here
<1>2. CASE Here # <<p, a>>
  <2>1. tape' = Now /\ buf' = <<>> /\ head' = <<p, a>>
    BY <1>2, FlushKeeps DEF Locate
  <2>2. a \in Nat
    BY NowFacts, TapeFacts
  <2>3. QED
    BY <2>1, <2>2, EmptyNow
<1>3. QED
  BY <1>1, <1>2

\* What a write makes of the media a crash may leave.
LEMMA PutSplices ==
  ASSUME DriveOK, NEW p \in Parts, NEW a \in 1 .. EOD(Now[p]), NEW recs \in Seq(Recs), recs # <<>>,
         Locate(<<p, a>>, recs)
  PROVE  /\ DriveOK' /\ buf' # <<>>
         /\ Now' = Spliced(Now, p, a, recs)
         /\ Here' = <<p, a + Len(recs)>>
         /\ \A k \in 0 .. Len(buf') :
              \/ \E j \in 0 .. Len(buf) : View(k)' = View(j)
              \/ \E j \in 1 .. Len(recs) : View(k)' = Spliced(Now, p, a, SubSeq(recs, 1, j))
<1>1. CASE Here = <<p, a>>
  <2>1. buf' = buf \o recs /\ tape' = tape /\ head' = head /\ head[1] = p /\ a = head[2] + Len(buf)
    BY <1>1 DEF Locate, Here
  <2>2. buf \in Seq(Recs) /\ Len(buf) \in Nat /\ tape \in Tapes /\ head[2] \in 1 .. EOD(tape[p])
    BY <2>1 DEF DriveOK
  <2>3. /\ buf' \in Seq(Recs) /\ Len(buf') = Len(buf) + Len(recs) /\ buf' # <<>> /\ Len(recs) \in Nat \ {0}
    BY <2>1, <2>2
  <2>4. DriveOK'
    BY <2>1, <2>3 DEF DriveOK, Parts
  <2>5. \A w \in Seq(Recs) : Spliced(tape, p, head[2], buf \o w) = Spliced(Now, p, a, w)
    <3> SUFFICES ASSUME NEW w \in Seq(Recs) PROVE Spliced(tape, p, head[2], buf \o w) = Spliced(Now, p, a, w)
      OBVIOUS
    <3>1. CASE buf = <<>>
      <4>1. buf \o w = w /\ a = head[2] /\ Now = tape
        BY <2>1, <2>2, <3>1, NowFacts
      <4>2. QED
        BY <4>1
    <3>2. CASE buf # <<>>
      <4>1. Now = Spliced(tape, p, head[2], buf)
        <5>1. Len(buf) # 0 /\ SubSeq(buf, 1, Len(buf)) = buf
          BY <3>2, BufferFacts
        <5>2. QED
          BY <2>1, <5>1 DEF Now, View
      <4>2. QED
        BY <2>1, <2>2, <4>1, SplicedTwice
    <3>3. QED
      BY <3>1, <3>2
  <2>6. \A k \in 1 .. Len(buf') : View(k)' = Spliced(tape, p, head[2], SubSeq(buf', 1, k))
    BY <2>1, <2>3 DEF View
  <2>7. ASSUME NEW k \in 0 .. Len(buf)
        PROVE  View(k)' = View(k)
    <3>1. SubSeq(buf \o recs, 1, k) = SubSeq(buf, 1, k)
      BY <2>2
    <3>2. QED
      BY <2>1, <3>1 DEF View
  <2>8. ASSUME NEW j \in 1 .. Len(recs)
        PROVE  \A k : k = Len(buf) + j => View(k)' = Spliced(Now, p, a, SubSeq(recs, 1, j))
    <3>1. SubSeq(buf \o recs, 1, Len(buf) + j) = buf \o SubSeq(recs, 1, j) /\ SubSeq(recs, 1, j) \in Seq(Recs)
      BY <2>2
    <3>2. Len(buf) + j \in 1 .. Len(buf')
      BY <2>2, <2>3
    <3>3. Spliced(tape, p, head[2], SubSeq(buf', 1, Len(buf) + j)) = Spliced(Now, p, a, SubSeq(recs, 1, j))
      BY <2>1, <2>5, <3>1
    <3>4. QED
      BY <2>6, <3>2, <3>3
  <2>9. Now' = Spliced(Now, p, a, recs)
    <3>1. \A k : k = Len(buf) + Len(recs) => Now' = View(k)'
      BY <2>3 DEF Now
    <3>2. SubSeq(recs, 1, Len(recs)) = recs
      OBVIOUS
    <3>3. Len(recs) \in 1 .. Len(recs)
      BY <2>3
    <3>4. QED
      BY <2>8, <3>1, <3>2, <3>3
  <2>10. Here' = <<p, a + Len(recs)>>
    BY <2>1, <2>2, <2>3 DEF Here, DriveOK
  <2>11. ASSUME NEW k \in 0 .. Len(buf')
         PROVE  \/ \E j \in 0 .. Len(buf) : View(k)' = View(j)
                \/ \E j \in 1 .. Len(recs) : View(k)' = Spliced(Now, p, a, SubSeq(recs, 1, j))
    <3>1. CASE k <= Len(buf)
      BY <2>2, <2>7, <3>1
    <3>2. CASE k > Len(buf)
      <4>1. k - Len(buf) \in 1 .. Len(recs) /\ k = Len(buf) + (k - Len(buf))
        BY <2>2, <2>3, <3>2
      <4>2. QED
        BY <2>8, <4>1
    <3>3. QED
      BY <2>2, <3>1, <3>2
  <2>12. QED
    BY <2>3, <2>4, <2>9, <2>10, <2>11
<1>2. CASE Here # <<p, a>>
  <2>1. tape' = Now /\ buf' = recs /\ head' = <<p, a>>
    BY <1>2, FlushKeeps DEF Locate
  <2>2. a \in Nat /\ Len(recs) \in Nat \ {0} /\ Len(buf) \in Nat
    BY NowFacts, TapeFacts, BufferFacts
  <2>3. DriveOK'
    BY <2>1, <2>2, NowFacts DEF DriveOK, Parts
  <2>4. View(0)' = View(Len(buf))
    BY <2>1 DEF View, Now
  <2>5. \A j \in 1 .. Len(recs) : View(j)' = Spliced(Now, p, a, SubSeq(recs, 1, j))
    BY <2>1 DEF View
  <2>6. Now' = Spliced(Now, p, a, recs)
    <3>1. Now' = View(Len(recs))'
      BY <2>1 DEF Now
    <3>2. SubSeq(recs, 1, Len(recs)) = recs
      OBVIOUS
    <3>3. Len(recs) \in 1 .. Len(recs)
      BY <2>2
    <3>4. QED
      BY <2>5, <3>1, <3>2, <3>3
  <2>7. Here' = <<p, a + Len(recs)>>
    BY <2>1 DEF Here
  <2>8. ASSUME NEW k \in 0 .. Len(buf')
        PROVE  \/ \E j \in 0 .. Len(buf) : View(k)' = View(j)
               \/ \E j \in 1 .. Len(recs) : View(k)' = Spliced(Now, p, a, SubSeq(recs, 1, j))
    <3>1. k = 0 \/ k \in 1 .. Len(recs)
      BY <2>1, <2>2
    <3>2. QED
      BY <2>2, <2>4, <2>5, <3>1
  <2>9. QED
    BY <2>1, <2>3, <2>6, <2>7, <2>8
<1>3. QED
  BY <1>1, <1>2

LEMMA StaleKeeps ==
  ASSUME NEW k \in Nat, NEW recs, Written(k, recs), mam \in Attributes, CurrentInv
  PROVE  CurrentInv' /\ mam' \in Attributes
<1>1. CASE k = 0
  BY <1>1 DEF Written, CurrentInv, CohOn, IsIndex, LastAt
<1>2. CASE k # 0
  BY <1>2 DEF Written, CurrentInv, Attributes, Parts
<1>3. QED
  BY <1>1, <1>2

LEMMA LocateStale ==
  ASSUME DriveOK, NEW to, NEW recs, Locate(to, recs), mam \in Attributes, CurrentInv
  PROVE  CurrentInv' /\ mam' \in Attributes
<1>1. CASE Here = to
  BY <1>1 DEF Locate, CurrentInv, CohOn, IsIndex, LastAt
<1>2. CASE Here # to
  BY <1>2, StaleKeeps, BufferFacts DEF Locate
<1>3. QED
  BY <1>1, <1>2

LEMMA SameMedium ==
  ASSUME UNCHANGED medium
  PROVE  /\ DriveOK => DriveOK'
         /\ AllSound => AllSound'
         /\ CurrentInv => CurrentInv'
         /\ Now' = Now /\ Here' = Here
         /\ \A p \in Parts : Seen(p)' = Seen(p)
<1>1. \A k : View(k)' = View(k)
  BY DEF medium, View
<1>2. QED
  BY <1>1 DEF medium, DriveOK, AllSound, CurrentInv, Now, View, Here, Seen, CohOn, IsIndex, LastAt

-----------------------------------------------------------------------------
(* Jobs.                                                                   *)

LEMMA CallFacts ==
  /\ \A c \in Calls : c # <<>> =>
       /\ Head(c) \in Parts
       /\ Len(c) > 1 => c = <<"DP", "IP">> /\ Tail(c) = <<"IP">> /\ Head(c) = "DP"
       /\ ~(Len(c) > 1) => c = <<Head(c)>>
       /\ Head(c) = "IP" => c = <<"IP">>
  /\ \A p \in Parts : <<p>> \in Calls /\ <<p>> # <<>> /\ Head(<<p>>) = p
  /\ <<"DP">> \o <<"IP">> = <<"DP", "IP">> /\ <<"DP", "IP">> \in Calls
  /\ Head(<<"DP", "IP">>) = "DP"
<1>1. /\ Head(<<"DP", "IP">>) = "DP" /\ Tail(<<"DP", "IP">>) = <<"IP">> /\ Len(<<"DP", "IP">>) = 2
      /\ <<"DP">> \o <<"IP">> = <<"DP", "IP">>
  <2>1. <<"DP", "IP">> \in Seq(Parts) /\ <<"DP">> \in Seq(Parts) /\ <<"IP">> \in Seq(Parts)
    BY DEF Parts
  <2>2. Head(<<"DP", "IP">>) = "DP" /\ Len(<<"DP", "IP">>) = 2
    OBVIOUS
  <2>3. Tail(<<"DP", "IP">>) = <<"IP">>
    <3>1. <<"DP", "IP">> # <<>>
      OBVIOUS
    <3>2. Tail(<<"DP", "IP">>) \in Seq(Parts) /\ Len(Tail(<<"DP", "IP">>)) = 1
      BY <2>1, <2>2, <3>1
    <3>3. Tail(<<"DP", "IP">>)[1] = "IP"
      BY <2>1, <2>2, <3>1
    <3>4. \A c \in Seq(Parts) : Len(c) = 1 /\ c[1] = "IP" => c = <<"IP">>
      BY <2>1, SeqEqual
    <3>5. QED
      BY <3>2, <3>3, <3>4
  <2>4. <<"DP">> \o <<"IP">> = <<"DP", "IP">>
    <3>1. LET c == <<"DP">> \o <<"IP">>
          IN  c \in Seq(Parts) /\ Len(c) = 2 /\ c[1] = "DP" /\ c[2] = "IP"
      BY <2>1
    <3>2. \A c \in Seq(Parts) : Len(c) = 2 /\ c[1] = "DP" /\ c[2] = "IP" => c = <<"DP", "IP">>
      BY <2>1, SeqEqual
    <3>3. QED
      BY <3>1, <3>2
  <2>5. QED
    BY <2>2, <2>3, <2>4
<1>2. \A p \in Parts : Len(<<p>>) = 1 /\ Head(<<p>>) = p /\ <<p>> # <<>>
  OBVIOUS
<1>3. \A c \in Calls : c = <<>> \/ c = <<"DP", "IP">> \/ \E p \in Parts : c = <<p>>
  BY DEF Calls, Parts
<1>4. \A p \in Parts : <<p>> \in Calls
  BY DEF Calls, Parts
<1>5. ASSUME NEW c \in Calls, c # <<>>
      PROVE  /\ Head(c) \in Parts
             /\ Len(c) > 1 => c = <<"DP", "IP">> /\ Tail(c) = <<"IP">> /\ Head(c) = "DP"
             /\ ~(Len(c) > 1) => c = <<Head(c)>>
             /\ Head(c) = "IP" => c = <<"IP">>
  <2>1. CASE c = <<"DP", "IP">>
    BY <1>1, <2>1 DEF Parts
  <2>2. CASE \E p \in Parts : c = <<p>>
    BY <1>2, <2>2
  <2>3. QED
    BY <1>3, <1>5, <2>1, <2>2
<1>6. QED
  BY <1>1, <1>2, <1>4, <1>5 DEF Calls

LEMMA JobEnds ==
  ASSUME job \in Jobs, JobInv, phase \in Phases, file_end \in [Parts -> BOOLEAN], job.calls # <<>>, NEW ok \in BOOLEAN,
         IF Len(job.calls) > 1
         THEN /\ job' = [job EXCEPT !.calls = Tail(@), !.step = "begin"]
              /\ UNCHANGED <<phase, file_end>>
         ELSE Finish(ok)
  PROVE  /\ job' \in Jobs /\ job'.step = "begin" /\ JobInv'
         /\ phase' \in Phases /\ ~Down' /\ file_end' \in [Parts -> BOOLEAN]
         /\ file_end' = file_end \/ (Part = "IP" /\ ok /\ file_end' = [p \in Parts |-> TRUE])
<1>1. job.calls \in Calls
  BY DEF Jobs
<1>2. phase \in {"mount", "up", "unmount"}
  BY DEF JobInv, Idle, NoJob
<1>3. CASE Len(job.calls) > 1
  <2>1. job' = [job EXCEPT !.calls = <<"IP">>, !.step = "begin"] /\ UNCHANGED <<phase, file_end>>
    BY <1>1, <1>3, CallFacts
  <2>2. job' \in Jobs /\ job'.step = "begin" /\ job'.calls = <<"IP">>
    BY <2>1 DEF Jobs, Calls, Steps
  <2>3. JobInv'
    BY <1>2, <2>1, <2>2 DEF JobInv, Idle
  <2>4. QED
    BY <1>2, <2>1, <2>2, <2>3 DEF Down
<1>4. CASE ~(Len(job.calls) > 1)
  <2>1. Finish(ok)
    BY <1>4
  <2>2. NoJob \in Jobs /\ \A p \in Parts : [NoJob EXCEPT !.then = p] \in Jobs
    BY DEF NoJob, Jobs, Calls, Steps, Thens, Parts
  <2>3. CASE job.then = "mount" /\ ok
    <3>1. file_end' = [p \in Parts |-> TRUE] /\ phase' = "up" /\ job' = NoJob
      BY <2>1, <2>3 DEF Finish, Parts
    <3>2. Part = "IP"
      BY <1>1, <1>4, <2>3, CallFacts DEF JobInv, Part
    <3>3. QED
      BY <2>2, <2>3, <3>1, <3>2 DEF JobInv, Idle, NoJob, Phases, Down
  <2>4. CASE job.then \in Parts /\ ok
    <3>1. job' = [NoJob EXCEPT !.then = job.then] /\ UNCHANGED <<file_end, phase>>
      BY <2>1, <2>4 DEF Finish, Parts
    <3>2. QED
      BY <1>2, <2>2, <2>4, <3>1 DEF JobInv, Idle, NoJob, Phases, Down, Parts
  <2>5. CASE ~(job.then = "mount" /\ ok) /\ ~(job.then \in Parts /\ ok)
    <3>1. /\ phase' = IF job.then \notin {"mount", "unmount"} THEN phase
                      ELSE IF ok THEN "closing" ELSE "failed"
          /\ job' = NoJob /\ UNCHANGED file_end
      BY <2>1, <2>5 DEF Finish
    <3>2. phase' \in Phases /\ ~Down'
      BY <1>2, <3>1 DEF Phases, Down
    <3>3. QED
      BY <2>2, <3>1, <3>2 DEF JobInv, Idle, NoJob
  <2>6. QED
    BY <2>3, <2>4, <2>5
<1>5. QED
  BY <1>3, <1>4

-----------------------------------------------------------------------------
(* The steps that leave the medium alone.                                  *)

LEMMA OnlyIndex ==
  ASSUME MountedInv, UNCHANGED <<medium, file_end, coh, append_pos>>,
         job.step = "begin", job'.step = "begin", pending' \subseteq pending, Held(Now, index')
  PROVE  MountedInv'
<1>1. Now' = Now /\ Here' = Here /\ \A p \in Parts : Seen(p)' = Seen(p)
  BY SameMedium
<1>2. \A p \in Parts : AppendAt(p)' = AppendAt(p)
  BY <1>1 DEF AppendAt
<1>3. IndexInv'
  BY <1>1 DEF IndexInv, Writing
<1>4. CohInv'
  BY <1>1 DEF MountedInv, CohInv, Writing
<1>5. PlaceInv'
  BY <1>1, <1>2 DEF MountedInv, PlaceInv
<1>6. QED
  BY <1>3, <1>4, <1>5 DEF MountedInv

LEMMA ChangeHeld ==
  ASSUME index \in Indexes, Held(Now, index), NEW refs \in SUBSET Refs, \A r \in refs : Points(Now, r), Change(refs)
  PROVE  index' \in Indexes /\ Held(Now, index')
<1>1. /\ index' \in Indexes /\ index'.refs = refs /\ index'.gen = index.gen /\ index'.self = index.self
      /\ index'.back = index.back /\ index'.dirty
  <2>1. index' = [index EXCEPT !.refs = refs, !.ver = index.ver + 1, !.dirty = TRUE]
    BY DEF Change
  <2>2. index.ver + 1 \in Nat
    BY DEF Indexes
  <2>3. index' = [gen |-> index.gen, self |-> index.self, back |-> index.back, ver |-> index.ver + 1,
                  refs |-> refs, dirty |-> TRUE]
    BY <2>1 DEF Indexes
  <2>4. QED
    BY <2>2, <2>3 DEF Indexes
<1>2. QED
  BY <1>1 DEF Held, Backed

LEMMA BusyIsUp ==
  ASSUME IInv, job # NoJob \/ phase = "up"
  PROVE  ~Down /\ MountedInv
  BY DEF IInv, Down, OffInv

LEMMA IdleHeld ==
  ASSUME IInv, phase = "up", Idle
  PROVE  /\ ~Down /\ MountedInv /\ job.step = "begin" /\ index \in Indexes
         /\ Held(Now, index) /\ \A r \in index.refs \cup pending : Points(Now, r) /\ r \in Refs
<1>1. ~Down /\ MountedInv /\ job.step = "begin" /\ index \in Indexes
  BY BusyIsUp DEF Idle, NoJob, IInv, TypeInv
<1>2. Held(Now, index) /\ \A r \in pending : Points(Now, r)
  BY <1>1 DEF MountedInv, IndexInv, PlaceInv
<1>3. index.refs \subseteq Refs /\ pending \subseteq Refs
  BY <1>1 DEF Indexes, IInv, TypeInv
<1>4. QED
  BY <1>1, <1>2, <1>3 DEF Held, Backed

\* A job that begins, or goes on, without a change of anything else.
LEMMA OnlyJob ==
  ASSUME IInv, UNCHANGED <<medium, index, file_end, coh, append_pos, less, written>>, pending' \subseteq pending,
         ~Down, job.step = "begin", job' \in Jobs, job'.step = "begin",
         phase' \in Phases, ~Down', want' \in Parts \cup {"none"}, JobInv'
  PROVE  IInv'
<1>1. DriveOK' /\ AllSound' /\ CurrentInv'
  BY SameMedium DEF IInv, TypeInv
<1>2. TypeInv'
  BY <1>1 DEF IInv, TypeInv, medium
<1>3. Held(Now, index)
  BY DEF IInv, MountedInv, IndexInv
<1>4. MountedInv'
  BY <1>3, OnlyIndex DEF IInv
<1>5. QED
  BY <1>1, <1>2, <1>4 DEF IInv

LEMMA Started ==
  ASSUME NEW calls \in Calls, NEW then \in Thens, StartJob(calls, then)
  PROVE  /\ job' \in Jobs /\ job'.step = "begin" /\ job'.calls = calls /\ job'.then = then
  BY DEF StartJob, NoJob, Jobs, Steps

LEMMA DataPartitionFirstKeeps ==
  ASSUME IInv, DataPartitionFirst
  PROVE  IInv'
<1>1. job.calls # <<>> /\ job.step = "begin" /\ Part = "IP" /\ job \in Jobs /\ JobInv
      /\ job' = [job EXCEPT !.calls = <<"DP">> \o @, !.tried = TRUE]
  BY DEF DataPartitionFirst, IInv, TypeInv
<1>2. job.calls = <<"IP">>
  BY <1>1, CallFacts DEF Part, Jobs
<1>3. job' = [job EXCEPT !.calls = <<"DP", "IP">>, !.tried = TRUE] /\ <<"DP", "IP">> \in Calls /\ <<"DP", "IP">> # <<>>
  BY <1>1, <1>2, CallFacts
<1>4. job' \in Jobs /\ job'.step = "begin" /\ job'.calls = <<"DP", "IP">> /\ job # NoJob
  <2>1. job # NoJob
    BY <1>1 DEF NoJob
  <2>2. job' \in Jobs /\ job'.step = "begin" /\ job'.calls = <<"DP", "IP">>
    BY <1>1, <1>3 DEF Jobs
  <2>3. QED
    BY <2>1, <2>2
<1>5. phase \in {"mount", "up", "unmount"}
  BY <1>1, <1>4 DEF JobInv, Idle
<1>6. UNCHANGED <<medium, volume, phase, less, ghosts, written>>
  BY DEF DataPartitionFirst
<1>7. JobInv'
  BY <1>3, <1>4, <1>5, <1>6 DEF JobInv
<1>8. QED
  BY <1>1, <1>4, <1>5, <1>6, <1>7, OnlyJob, BusyIsUp DEF IInv, TypeInv, volume, Down

LEMMA WriteDataKeeps ==
  ASSUME IInv, NEW p \in Parts, WriteData(p)
  PROVE  IInv'
<1>1. phase = "up" /\ Idle /\ UNCHANGED <<medium, volume, phase, less, ghosts, written>>
  BY DEF WriteData
<1>2. PICK calls \in {<<>>, <<"IP">>, <<"DP">>} : StartJob(calls, p)
  BY DEF WriteData
<1>3. calls \in Calls /\ p \in Thens /\ p \notin {"mount", "unmount", "none"}
  BY DEF Calls, Thens, Parts
<1>4. job' \in Jobs /\ job'.step = "begin" /\ job'.then = p
  BY <1>2, <1>3, Started
<1>5. JobInv'
  BY <1>1, <1>3, <1>4 DEF JobInv
<1>6. QED
  BY <1>1, <1>4, <1>5, OnlyJob, IdleHeld DEF IInv, TypeInv, volume, Down

LEMMA SyncKeeps ==
  ASSUME IInv, Sync
  PROVE  IInv'
<1>1. phase = "up" /\ Idle /\ want # "none" /\ StartJob(<<want>>, "sync") /\ want' = "none"
      /\ UNCHANGED <<medium, index, file_end, coh, append_pos, pending, phase, less, written>>
  BY DEF Sync
<1>2. want \in Parts
  BY <1>1 DEF IInv, TypeInv
<1>3. <<want>> \in Calls /\ <<want>> # <<>>
  BY <1>2, CallFacts
<1>4. job' \in Jobs /\ job'.step = "begin" /\ job'.then = "sync" /\ job'.calls # <<>>
  BY <1>1, <1>3, Started DEF Thens
<1>5. JobInv'
  BY <1>1, <1>4 DEF JobInv
<1>6. QED
  BY <1>1, <1>4, <1>5, OnlyJob, IdleHeld DEF IInv, TypeInv, Down

LEMMA ChoosePartitionKeeps ==
  ASSUME IInv, ChoosePartition
  PROVE  IInv'
<1>1. phase = "up" /\ Idle /\ want' \in Parts
      /\ UNCHANGED <<medium, index, file_end, coh, append_pos, pending, job, phase, less, written>>
  BY DEF ChoosePartition, Parts
<1>2. JobInv'
  BY <1>1 DEF IInv, JobInv, Idle
<1>3. QED
  BY <1>1, <1>2, OnlyJob, IdleHeld DEF IInv, TypeInv, Down

\* The tree changes, by what refers to what is there.
LEMMA OnlyTree ==
  ASSUME IInv, phase = "up", Idle, UNCHANGED <<medium, file_end, coh, append_pos, less, written>>,
         NEW refs \in SUBSET (index.refs \cup pending), Change(refs), pending' \subseteq pending,
         job' \in Jobs, job'.step = "begin", phase' \in Phases, ~Down', want' = want, JobInv'
  PROVE  IInv'
<1>1. DriveOK' /\ AllSound' /\ CurrentInv'
  BY SameMedium DEF IInv, TypeInv
<1>2. index' \in Indexes /\ Held(Now, index')
  BY IdleHeld, ChangeHeld
<1>3. TypeInv'
  BY <1>1, <1>2 DEF IInv, TypeInv, medium
<1>4. MountedInv'
  BY <1>2, IdleHeld, OnlyIndex
<1>5. QED
  BY <1>1, <1>3, <1>4 DEF IInv

LEMMA AddExtentKeeps ==
  ASSUME IInv, AddExtent
  PROVE  IInv'
<1>1. PICK r \in pending : (Change(index.refs \cup {r}) \/ Change(index.refs)) /\ pending' = pending \ {r}
  BY DEF AddExtent
<1>2. phase = "up" /\ Idle /\ UNCHANGED <<medium, file_end, coh, append_pos, want, job, phase, less, written>>
  BY DEF AddExtent
<1>3. PICK refs \in SUBSET (index.refs \cup pending) : Change(refs)
  BY <1>1
<1>4. JobInv' /\ job \in Jobs /\ phase \in Phases /\ ~Down
  BY <1>2, IdleHeld DEF IInv, TypeInv, JobInv, Idle
<1>5. QED
  BY <1>1, <1>2, <1>3, <1>4, OnlyTree, IdleHeld DEF Down

LEMMA UpdateKeeps ==
  ASSUME IInv, Update
  PROVE  IInv'
<1>1. phase = "up" /\ Idle /\ UNCHANGED <<medium, file_end, coh, append_pos, pending, want, job, phase, less, written>>
  BY DEF Update
<1>2. PICK refs \in SUBSET (index.refs \cup pending) : Change(refs)
  BY DEF Update
<1>3. JobInv' /\ job \in Jobs /\ phase \in Phases /\ ~Down
  BY <1>1, IdleHeld DEF IInv, TypeInv, JobInv, Idle
<1>4. QED
  BY <1>1, <1>2, <1>3, OnlyTree, IdleHeld DEF Down

LEMMA UnmountKeeps ==
  ASSUME IInv, Unmount
  PROVE  IInv'
<1>1. phase = "up" /\ Idle /\ pending' = {} /\ UNCHANGED <<medium, file_end, coh, append_pos, want, less, written>>
  BY DEF Unmount
<1>2. PICK push \in SUBSET pending :
        /\ IF push # {} THEN Change(index.refs \cup push) ELSE UNCHANGED index
        /\ \/ StartJob(<<"IP">>, "unmount") /\ phase' = "unmount"
           \/ phase' = "closing" /\ UNCHANGED job
  BY DEF Unmount
<1>3. job' \in Jobs /\ job'.step = "begin" /\ phase' \in Phases /\ ~Down' /\ JobInv'
  <2>1. CASE StartJob(<<"IP">>, "unmount") /\ phase' = "unmount"
    <3>1. <<"IP">> \in Calls /\ <<"IP">> # <<>> /\ "unmount" \in Thens
      BY CallFacts DEF Thens, Parts
    <3>2. job' \in Jobs /\ job'.step = "begin" /\ job'.calls # <<>> /\ job'.then = "unmount"
      BY <2>1, <3>1, Started
    <3>3. QED
      BY <2>1, <3>2 DEF Phases, Down, JobInv
  <2>2. CASE phase' = "closing" /\ UNCHANGED job
    BY <1>1, <2>2, IdleHeld DEF Phases, Down, JobInv, Idle, IInv, TypeInv
  <2>3. QED
    BY <1>2, <2>1, <2>2
<1>4. CASE push # {}
  <2>1. PICK refs \in SUBSET (index.refs \cup pending) : Change(refs)
    BY <1>2, <1>4
  <2>2. QED
    BY <1>1, <1>3, <2>1, OnlyTree
<1>5. CASE push = {}
  <2>1. UNCHANGED index
    BY <1>2, <1>5
  <2>2. job.step = "begin" /\ ~Down
    BY <1>1, IdleHeld
  <2>3. QED
    BY <1>1, <1>3, <2>1, <2>2, OnlyJob DEF IInv, TypeInv
<1>6. QED
  BY <1>4, <1>5

-----------------------------------------------------------------------------
(* The end of a mount.                                                     *)

LEMMA OffKeeps ==
  ASSUME IInv, NEW k \in 0 .. Len(buf), Written(k, <<>>), Forgotten, phase' \in {"out", "down"},
         UNCHANGED <<less, written>>
  PROVE  IInv'
<1>1. DriveOK /\ k \in Nat /\ mam \in Attributes
  BY BufferFacts DEF IInv, TypeInv
<1>2. tape' = View(k) /\ buf' = <<>>
  BY DEF Written, View, Spliced
<1>3. head' = <<"none", 1>> /\ index' = NoIndex /\ pending' = {} /\ job' = NoJob /\ want' = "none"
      /\ append_pos' = [p \in Parts |-> 0] /\ file_end' = [p \in Parts |-> FALSE]
      /\ coh' = [p \in Parts |-> [count |-> 0, set |-> 0]]
  BY DEF Forgotten
<1>4. DriveOK'
  <2>1. View(k) \in Tapes
    BY <1>1, ViewFacts
  <2>2. "none" \notin Parts
    BY DEF Parts
  <2>3. QED
    BY <1>2, <1>3, <2>1, <2>2 DEF DriveOK
<1>5. AllSound'
  <2>1. Sound(View(k))
    BY DEF IInv, AllSound
  <2>2. Len(buf') = 0
    BY <1>2
  <2>3. \A j \in 0 .. Len(buf') : View(j)' = View(k)
    BY <1>2, <2>2 DEF View
  <2>4. QED
    BY <2>1, <2>3 DEF AllSound
<1>6. CurrentInv' /\ mam' \in Attributes
  BY <1>1, StaleKeeps DEF IInv
<1>7. JobInv'
  BY <1>3 DEF JobInv, NoJob, Idle
<1>8. TypeInv'
  <2>1. index' \in Indexes
    BY <1>3 DEF NoIndex, Indexes, Pointers
  <2>2. job' \in Jobs
    BY <1>3 DEF NoJob, Jobs, Calls, Steps, Thens
  <2>3. file_end' \in [Parts -> BOOLEAN] /\ append_pos' \in [Parts -> Nat] /\ coh' \in [Parts -> Coherency]
    BY <1>3 DEF Coherency
  <2>4. QED
    BY <1>3, <1>4, <1>6, <2>1, <2>2, <2>3 DEF IInv, TypeInv, Phases
<1>9. Down' /\ OffInv'
  BY <1>2, <1>3 DEF Down, OffInv
<1>10. QED
  BY <1>5, <1>6, <1>7, <1>8, <1>9 DEF IInv

LEMMA CloseKeeps ==
  ASSUME IInv, Close
  PROVE  IInv'
<1>1. Len(buf) \in 0 .. Len(buf)
  BY BufferFacts DEF IInv, TypeInv
<1>2. QED
  BY <1>1, OffKeeps DEF Close, ghosts

LEMMA CrashKeeps ==
  ASSUME IInv, Crash
  PROVE  IInv'
<1>1. PICK k \in 0 .. Len(buf) : Written(k, <<>>)
  BY DEF Crash
<1>2. QED
  BY <1>1, OffKeeps DEF Crash

-----------------------------------------------------------------------------
(* The same of the state after a step.                                     *)

SeenIsNow == Now \in Tapes /\ \A p \in Parts : Seen(p) = Now[p]

LEMMA SeenNow == DriveOK => SeenIsNow
  BY NowFacts DEF SeenIsNow

LEMMA SeenNext == DriveOK' => SeenIsNow'
  BY SeenNow, PTL

LEMMA PlaceFacts ==
  ASSUME IInv, ~Down, NEW p \in Parts
  PROVE  /\ DriveOK /\ Now \in Tapes /\ Sound(Now) /\ Seen(p) = Now[p]
         /\ AppendAt(p) \in 1 .. EOD(Now[p]) /\ Free(Now, p, AppendAt(p)) /\ AppendAt(p) \in Nat
         /\ append_pos[p] # 0 => AppendAt(p) = append_pos[p]
<1>1. DriveOK /\ Now \in Tapes /\ Seen(p) = Now[p] /\ append_pos[p] \in Nat
  BY NowFacts DEF IInv, TypeInv
<1>2. Sound(Now)
  BY <1>1, BufferFacts DEF IInv, AllSound, Now
<1>3. Free(Now, p, AppendAt(p))
  BY DEF IInv, MountedInv, PlaceInv
<1>4. AppendAt(p) \in Nat
  BY <1>1, TapeFacts DEF AppendAt
<1>5. AppendAt(p) \in 1 .. EOD(Now[p])
  BY <1>1, <1>3, <1>4, FreeFits
<1>6. QED
  BY <1>1, <1>2, <1>3, <1>4, <1>5 DEF AppendAt

LEMMA PlacesKept ==
  ASSUME DriveOK, DriveOK', Now' = Now, NEW p \in Parts, AppendAt(p) # 0,
         append_pos'[p] = append_pos[p] \/ append_pos'[p] = AppendAt(p)
  PROVE  AppendAt(p)' = AppendAt(p)
<1>1. Seen(p)' = Seen(p)
  BY SeenNow, SeenNext DEF SeenIsNow
<1>2. QED
  BY <1>1 DEF AppendAt

\* The step from one part of ltfs_write_index to the next.
LEMMA StepOn ==
  ASSUME job \in Jobs, JobInv, job.calls # <<>>, NEW s \in Steps, NEW old \in {<<>>} \cup Indexes,
         job' = [job EXCEPT !.step = s, !.old = old], s = "write" => old \in Indexes, UNCHANGED phase
  PROVE  /\ job' \in Jobs /\ JobInv' /\ job'.step = s /\ job'.old = old /\ job'.calls = job.calls
         /\ Part' = Part /\ Part \in Parts /\ phase \in {"mount", "up", "unmount"}
<1>1. job' \in Jobs /\ job'.step = s /\ job'.old = old /\ job'.calls = job.calls /\ job'.then = job.then
  BY DEF Jobs
<1>2. job # NoJob
  BY DEF NoJob
<1>3. phase \in {"mount", "up", "unmount"}
  BY <1>2 DEF JobInv, Idle
<1>4. JobInv'
  BY <1>1, <1>3 DEF JobInv
<1>5. Part' = Part /\ Part \in Parts
  BY <1>1, CallFacts DEF Part, Jobs
<1>6. QED
  BY <1>1, <1>3, <1>4, <1>5

LEMMA FlushIndexKeeps ==
  ASSUME IInv, FlushIndex
  PROVE  IInv'
<1>1. job.step = "flush" /\ Written(Len(buf), <<>>) /\ head' = Here /\ file_end' = [file_end EXCEPT ![Part] = TRUE]
      /\ job' = [job EXCEPT !.step = "mam"]
      /\ UNCHANGED <<index, coh, append_pos, pending, want, phase, less, written>>
  BY DEF FlushIndex
<1>2. job.calls # <<>> /\ job \in Jobs /\ JobInv /\ DriveOK
  BY <1>1 DEF IInv, JobInv, TypeInv
<1>3. job' \in Jobs /\ JobInv' /\ job'.step = "mam" /\ Part' = Part /\ Part \in Parts /\ phase \in {"mount", "up", "unmount"}
  <2>1. job' = [job EXCEPT !.step = "mam", !.old = job.old] /\ job.old \in {<<>>} \cup Indexes /\ "mam" \in Steps
    BY <1>1, <1>2 DEF Jobs, Steps
  <2>2. QED
    BY <1>1, <1>2, <2>1, StepOn
<1>4. ~Down /\ MountedInv /\ buf # <<>> /\ ~Down'
  BY <1>1, <1>3 DEF Down, IInv, MountedInv, IndexInv
<1>5. tape' = Now /\ buf' = <<>>
  BY <1>1, <1>2, FlushKeeps
<1>6. head[1] \in Parts /\ Here[1] = head[1] /\ Here[2] \in 1 .. EOD(Now[head[1]]) /\ Here[2] \in Nat /\ Here = <<Here[1], Here[2]>>
  BY <1>2, <1>4, BufferFacts, HereFits, NowFacts, TapeFacts DEF Here
<1>7. DriveOK' /\ Now' = Now /\ AllSound'
  BY <1>1, <1>2, <1>5, <1>6, EmptyNow DEF IInv
<1>8. mam' \in Attributes /\ CurrentInv' /\ \A p \in Parts : ~mam'[p].current
  <2>1. mam \in Attributes /\ CurrentInv
    BY DEF IInv, TypeInv
  <2>2. Len(buf) # 0 /\ Len(buf) \in Nat
    BY <1>2, <1>4, BufferFacts
  <2>3. mam' = [p \in Parts |-> [mam[p] EXCEPT !.current = FALSE]]
    BY <1>1, <2>2 DEF Written
  <2>4. QED
    BY <1>1, <2>1, <2>2, <2>3, StaleKeeps DEF Attributes
<1>9. file_end' \in [Parts -> BOOLEAN] /\ file_end'[Part] /\ \A p \in Parts : p # Part => file_end'[p] = file_end[p]
  BY <1>1, <1>3 DEF IInv, TypeInv
<1>10. TypeInv'
  BY <1>1, <1>3, <1>7, <1>8, <1>9 DEF IInv, TypeInv
<1>11. IndexInv'
  <2>1. Writing /\ Writing' /\ index' = index
    BY <1>1, <1>3 DEF Writing
  <2>2. /\ index.self[1] = Part
        /\ IsIndex(Now, Part, index.self[2]) /\ Now[Part][index.self[2]] = IndexBlock(index)
        /\ LastAt(Now, Part, index.self[2] - 1)
        /\ Backed(Now, index) /\ Same(Now, index)
    BY <1>4, <2>1 DEF MountedInv, IndexInv
  <2>3. QED
    BY <1>3, <1>5, <1>7, <1>8, <1>9, <2>1, <2>2 DEF IndexInv
<1>12. CohInv'
  BY <1>1, <1>3, <1>4, <1>7, <1>9 DEF MountedInv, CohInv, Writing, Parts
<1>13. PlaceInv'
  <2>1. \A p \in Parts : AppendAt(p)' = AppendAt(p)
    <3> SUFFICES ASSUME NEW p \in Parts PROVE AppendAt(p)' = AppendAt(p)
      OBVIOUS
    <3>1. AppendAt(p) # 0
      BY <1>4, PlaceFacts
    <3>2. QED
      BY <1>1, <1>2, <1>7, <3>1, PlacesKept
  <2>2. QED
    BY <1>1, <1>4, <1>7, <2>1 DEF MountedInv, PlaceInv
<1>14. QED
  BY <1>3, <1>4, <1>7, <1>8, <1>10, <1>11, <1>12, <1>13 DEF IInv, MountedInv

\* A call that fails takes its changes of the index back, and the volume goes on.
LEMMA FailedJob ==
  ASSUME IInv, job.calls # <<>>, NEW old, Failed(old)
  PROVE  /\ job' \in Jobs /\ job'.step = "begin" /\ JobInv' /\ phase' \in Phases /\ ~Down /\ ~Down'
         /\ file_end' = file_end /\ index' = old /\ MountedInv
<1>1. job \in Jobs /\ JobInv /\ phase \in Phases /\ file_end \in [Parts -> BOOLEAN]
  BY DEF IInv, TypeInv
<1>2. index' = old /\ IF Len(job.calls) > 1
                      THEN /\ job' = [job EXCEPT !.calls = Tail(@), !.step = "begin"]
                           /\ UNCHANGED <<phase, file_end>>
                      ELSE Finish(FALSE)
  BY DEF Failed
<1>3. job # NoJob
  BY DEF NoJob
<1>4. QED
  BY <1>1, <1>2, <1>3, JobEnds, BusyIsUp

\* The pointers of the index that is to be written at <<p, a>>.
LEMMA NextIndex ==
  ASSUME NEW m \in Tapes, NEW ix \in Indexes, Held(m, ix), NEW p \in Parts, NEW a \in Nat,
         NEW next, next = [gen |-> NextGeneration(ix), self |-> <<p, a + 1>>,
                           back |-> IF ix.self[1] = "DP" THEN ix.self ELSE ix.back,
                           ver |-> ix.ver, refs |-> ix.refs, dirty |-> ix.dirty]
  PROVE  next \in Indexes /\ Backed(m, next) /\ Same(m, next) /\ next.self = <<p, a + 1>>
<1>1. ix.gen \in Nat /\ NextGeneration(ix) \in Nat /\ NextGeneration(ix) >= ix.gen /\ (ix.dirty => NextGeneration(ix) > ix.gen)
      /\ (~ix.dirty => NextGeneration(ix) = ix.gen) /\ ix.dirty \in BOOLEAN
  BY DEF NextGeneration, Indexes
<1> DEFINE gen == NextGeneration(ix)
           back == IF ix.self[1] = "DP" THEN ix.self ELSE ix.back
<1>2. back \in Pointers /\ <<p, a + 1>> \in Pointers
  BY DEF Indexes, Pointers, Places
<1>3. next = [gen |-> gen, self |-> <<p, a + 1>>, back |-> back, ver |-> ix.ver, refs |-> ix.refs, dirty |-> ix.dirty]
  OBVIOUS
<1>4. gen \in Nat
  BY <1>1
<1> HIDE DEF gen
<1>5. next \in Indexes /\ next.self = <<p, a + 1>> /\ next.gen = gen /\ next.back = back /\ next.ver = ix.ver /\ next.refs = ix.refs
  <2> HIDE DEF back
  <2>1. next.self = <<p, a + 1>> /\ next.gen = gen /\ next.back = back /\ next.ver = ix.ver /\ next.refs = ix.refs
    BY <1>3
  <2>2. ix.ver \in Nat /\ ix.refs \in SUBSET Refs /\ ix.dirty \in BOOLEAN
    BY DEF Indexes
  <2>3. next \in Indexes
    BY <1>2, <1>3, <1>4, <2>2 DEF Indexes
  <2>4. QED
    BY <2>1, <2>3
<1>6. \A q \in Parts, i \in Nat : IsIndex(m, q, i) => m[q][i].gen \in Nat /\ m[q][i].gen <= ix.gen
  BY TapeFacts DEF Held, Backed, Newest, IndexRecs
<1>7. Newest(m, gen)
  BY <1>1, <1>6 DEF gen, Newest
<1>8. Leads(m, back, gen)
  <2>1. CASE ix.self[1] = "DP"
    <3>1. IsIndex(m, "DP", ix.self[2])
      BY <2>1 DEF Held
    <3>2. ix.self[2] \in Nat /\ "DP" \in Parts
      BY <2>1 DEF Indexes, Pointers, Places, None, Parts
    <3>3. QED
      BY <1>7, <2>1, <3>1, <3>2 DEF Leads, Newest
  <2>2. CASE ix.self[1] # "DP"
    <3>1. Leads(m, ix.back, ix.gen)
      BY DEF Held, Backed
    <3>2. CASE ix.back = None
      BY <2>2, <3>2 DEF Leads
    <3>3. CASE ix.back # None
      <4>1. ix.back[1] = "DP" /\ IsIndex(m, "DP", ix.back[2]) /\ ix.back[2] \in Nat /\ "DP" \in Parts
        BY <3>1, <3>3 DEF Leads, Indexes, Pointers, Places, Parts
      <4>2. QED
        BY <1>7, <2>2, <4>1 DEF Leads, Newest
    <3>4. QED
      BY <3>2, <3>3
  <2>3. QED
    BY <2>1, <2>2
<1>9. Backed(m, next)
  BY <1>5, <1>7, <1>8 DEF Held, Backed
<1>10. Same(m, next)
  <2>1. CASE ix.dirty
    <3>1. gen > ix.gen
      BY <1>1, <2>1 DEF gen
    <3>2. \A q \in Parts, i \in Nat : IsIndex(m, q, i) => m[q][i].gen # next.gen
      BY <1>1, <1>4, <1>5, <1>6, <3>1
    <3>3. QED
      BY <3>2 DEF Same
  <2>2. CASE ~ix.dirty
    <3>1. gen = ix.gen
      BY <1>1, <2>2 DEF gen
    <3>2. QED
      BY <1>5, <2>2, <3>1 DEF Held, Same
  <2>3. QED
    BY <1>1, <2>1, <2>2
<1>11. QED
  BY <1>5, <1>9, <1>10

LEMMA LocateAppendKeeps ==
  ASSUME IInv, LocateAppend
  PROVE  IInv'
<1>1. job.calls # <<>> /\ job.step = "begin" /\ UNCHANGED <<coh, pending, want, less, written>>
  BY DEF LocateAppend
<1>2. job # NoJob /\ job \in Jobs /\ JobInv /\ DriveOK /\ index \in Indexes
  BY <1>1 DEF NoJob, IInv, TypeInv
<1>3. ~Down /\ MountedInv /\ Held(Now, index)
  BY <1>1, <1>2, BusyIsUp DEF MountedInv, IndexInv
<1>4. CASE Fault("locate") /\ Failed(index) /\ UNCHANGED <<medium, append_pos>>
  BY <1>1, <1>4, FailedJob, OnlyJob DEF IInv, TypeInv
<1> DEFINE p == Part
           a == AppendAt(p)
<1>5. CASE /\ IF p = "IP" /\ ~file_end["IP"]
              THEN Written(Len(buf), <<>>) /\ head' = <<p, a>>
              ELSE Locate(<<p, a>>, <<>>)
           /\ append_pos' = [append_pos EXCEPT ![p] = a]
           /\ index' = [index EXCEPT !.gen = NextGeneration(index),
                                     !.back = IF index.self[1] = "DP" THEN index.self ELSE @,
                                     !.self = <<p, a + 1>>]
           /\ job' = [job EXCEPT !.step = "write", !.old = index]
           /\ UNCHANGED <<file_end, phase, clean, faults>>
  <2>1. job' \in Jobs /\ JobInv' /\ job'.step = "write" /\ job'.old = index /\ Part' = p /\ p \in Parts
        /\ phase \in {"mount", "up", "unmount"}
    <3>1. "write" \in Steps
      BY DEF Steps
    <3>2. QED
      BY <1>1, <1>2, <1>5, <3>1, StepOn
  <2>2. Now \in Tapes /\ Seen(p) = Now[p] /\ a \in 1 .. EOD(Now[p]) /\ Free(Now, p, a) /\ a \in Nat
        /\ (append_pos[p] # 0 => a = append_pos[p])
    BY <1>3, <2>1, PlaceFacts
  <2> HIDE DEF p, a
  <2>3. DriveOK' /\ Now' = Now /\ AllSound' /\ Here' = <<p, a>> /\ mam' \in Attributes /\ CurrentInv'
    <3>1. CASE Written(Len(buf), <<>>) /\ head' = <<p, a>>
      <4>1. tape' = Now /\ buf' = <<>>
        BY <1>2, <3>1, FlushKeeps
      <4>2. DriveOK' /\ Now' = Now /\ AllSound' /\ Here' = <<p, a>>
        BY <1>2, <2>1, <2>2, <3>1, <4>1, EmptyNow DEF IInv
      <4>3. mam' \in Attributes /\ CurrentInv'
        BY <1>2, <3>1, BufferFacts, StaleKeeps DEF IInv, TypeInv
      <4>4. QED
        BY <4>2, <4>3
    <3>2. CASE Locate(<<p, a>>, <<>>)
      BY <1>2, <2>1, <2>2, <3>2, LocateKeeps, LocateStale DEF IInv, TypeInv
    <3>3. QED
      BY <1>5, <3>1, <3>2
  <2>4. index' \in Indexes /\ Backed(Now, index') /\ Same(Now, index') /\ index'.self = <<p, a + 1>>
    <3>1. index' = [index EXCEPT !.gen = NextGeneration(index),
                                 !.back = IF index.self[1] = "DP" THEN index.self ELSE @,
                                 !.self = <<p, a + 1>>]
      BY <1>5
    <3>2. index' = [gen |-> NextGeneration(index), self |-> <<p, a + 1>>,
                    back |-> IF index.self[1] = "DP" THEN index.self ELSE index.back,
                    ver |-> index.ver, refs |-> index.refs, dirty |-> index.dirty]
      BY <1>2, <3>1 DEF Indexes
    <3>3. QED
      BY <1>2, <1>3, <2>1, <2>2, <3>2, NextIndex
  <2>5. append_pos' \in [Parts -> Nat] /\ append_pos'[p] = a /\ (\A q \in Parts : q # p => append_pos'[q] = append_pos[q])
    BY <1>5, <2>1, <2>2 DEF IInv, TypeInv
  <2>6. TypeInv'
    BY <1>1, <1>5, <2>1, <2>3, <2>4, <2>5 DEF IInv, TypeInv
  <2>7. IndexInv'
    <3>1. ~Writing'
      BY <2>1 DEF Writing
    <3>2. Held(Now', job'.old) /\ Backed(Now', index') /\ Same(Now', index')
      BY <1>3, <2>1, <2>3, <2>4
    <3>3. index'.self = <<Part', Here'[2] + 1>> /\ Here' = <<Part', append_pos'[Part']>> /\ append_pos'[Part'] # 0
      BY <2>1, <2>2, <2>3, <2>4, <2>5
    <3>4. QED
      BY <2>1, <3>1, <3>2, <3>3 DEF IndexInv
  <2>8. CohInv'
    <3>1. ~Writing /\ ~Writing'
      BY <1>1, <2>1 DEF Writing
    <3>2. CohOn(Now', "DP", coh'["DP"])
      BY <1>1, <1>3, <2>3, <3>1 DEF MountedInv, CohInv
    <3>3. file_end'["IP"] =>
            /\ CohOn(Now', "IP", coh'["IP"])
            /\ IsIndex(Now', "IP", coh'["IP"].set) => append_pos'["IP"] = coh'["IP"].set - 1
      <4> SUFFICES ASSUME file_end'["IP"]
                   PROVE  /\ CohOn(Now', "IP", coh'["IP"])
                          /\ IsIndex(Now', "IP", coh'["IP"].set) => append_pos'["IP"] = coh'["IP"].set - 1
        OBVIOUS
      <4>1. /\ CohOn(Now, "IP", coh["IP"])
            /\ IsIndex(Now, "IP", coh["IP"].set) => append_pos["IP"] = coh["IP"].set - 1
        BY <1>3, <1>5, <3>1 DEF MountedInv, CohInv
      <4>2. ASSUME IsIndex(Now, "IP", coh["IP"].set) PROVE append_pos'["IP"] = coh["IP"].set - 1
        <5>1. coh["IP"].set > 1 /\ coh["IP"].set \in Nat
          <6>1. coh["IP"].set \in Nat /\ "IP" \in Parts
            BY DEF IInv, TypeInv, Coherency, Parts
          <6>2. Placed(Now)
            BY <1>3, <6>1, PlaceFacts DEF Sound
          <6>3. QED
            BY <4>2, <6>1, <6>2 DEF Placed
        <5>2. append_pos["IP"] = coh["IP"].set - 1 /\ append_pos["IP"] # 0
          BY <4>1, <4>2, <5>1
        <5>3. QED
          BY <2>2, <2>5, <5>2 DEF Parts
      <4>3. QED
        BY <1>1, <2>3, <4>1, <4>2
    <3>4. QED
      BY <3>2, <3>3 DEF CohInv
  <2>9. PlaceInv'
    <3>1. \A q \in Parts : AppendAt(q)' = AppendAt(q)
      <4> SUFFICES ASSUME NEW q \in Parts PROVE AppendAt(q)' = AppendAt(q)
        OBVIOUS
      <4>1. AppendAt(q) # 0
        BY <1>3, PlaceFacts
      <4>2. append_pos'[q] = append_pos[q] \/ append_pos'[q] = AppendAt(q)
        BY <2>5 DEF a
      <4>3. QED
        BY <1>2, <2>3, <4>1, <4>2, PlacesKept
    <3>2. QED
      BY <1>1, <1>3, <2>3, <3>1 DEF MountedInv, PlaceInv
  <2>10. ~Down'
    BY <1>5, <2>1 DEF Down
  <2>11. QED
    BY <2>1, <2>3, <2>6, <2>7, <2>8, <2>9, <2>10 DEF IInv, MountedInv
<1>6. QED
  BY <1>4, <1>5 DEF LocateAppend, SelfPointer

-----------------------------------------------------------------------------
(* What is written.                                                        *)

LEMMA Tuples ==
  ASSUME NEW x \in Recs, NEW y \in Recs, NEW z \in Recs
  PROVE  /\ <<x>> \in Seq(Recs) /\ Len(<<x>>) = 1 /\ <<x>> # <<>>
         /\ <<x, y>> \in Seq(Recs) /\ Len(<<x, y>>) = 2 /\ <<x, y>> # <<>>
         /\ <<x, y, z>> \in Seq(Recs) /\ Len(<<x, y, z>>) = 3 /\ <<x, y, z>> # <<>>
         /\ <<x>> \o <<y>> = <<x, y>> /\ <<x, y>> \o <<z>> = <<x, y, z>>
         /\ SubSeq(<<x>>, 1, 1) = <<x>>
         /\ SubSeq(<<x, y>>, 1, 1) = <<x>> /\ SubSeq(<<x, y>>, 1, 2) = <<x, y>>
         /\ SubSeq(<<x, y, z>>, 1, 1) = <<x>> /\ SubSeq(<<x, y, z>>, 1, 2) = <<x, y>>
         /\ SubSeq(<<x, y, z>>, 1, 3) = <<x, y, z>>
<1>1. /\ <<x>> \in Seq(Recs) /\ Len(<<x>>) = 1 /\ <<x>> # <<>>
      /\ <<x, y>> \in Seq(Recs) /\ Len(<<x, y>>) = 2 /\ <<x, y>> # <<>>
      /\ <<x, y, z>> \in Seq(Recs) /\ Len(<<x, y, z>>) = 3 /\ <<x, y, z>> # <<>>
  OBVIOUS
<1>2. \A s \in Seq(Recs) : /\ Len(s) = 1 /\ s[1] = x => s = <<x>>
                           /\ Len(s) = 2 /\ s[1] = x /\ s[2] = y => s = <<x, y>>
                           /\ Len(s) = 3 /\ s[1] = x /\ s[2] = y /\ s[3] = z => s = <<x, y, z>>
  <2> SUFFICES ASSUME NEW s \in Seq(Recs)
               PROVE  /\ Len(s) = 1 /\ s[1] = x => s = <<x>>
                      /\ Len(s) = 2 /\ s[1] = x /\ s[2] = y => s = <<x, y>>
                      /\ Len(s) = 3 /\ s[1] = x /\ s[2] = y /\ s[3] = z => s = <<x, y, z>>
    OBVIOUS
  <2>1. Len(s) = 1 /\ s[1] = x => s = <<x>>
    BY <1>1, SeqEqual
  <2>2. Len(s) = 2 /\ s[1] = x /\ s[2] = y => s = <<x, y>>
    BY <1>1, SeqEqual
  <2>3. Len(s) = 3 /\ s[1] = x /\ s[2] = y /\ s[3] = z => s = <<x, y, z>>
    BY <1>1, SeqEqual
  <2>4. QED
    BY <2>1, <2>2, <2>3
<1>3. <<x>> \o <<y>> = <<x, y>>
  <2>1. LET s == <<x>> \o <<y>> IN s \in Seq(Recs) /\ Len(s) = 2 /\ s[1] = x /\ s[2] = y
    BY <1>1
  <2>2. QED
    BY <1>2, <2>1
<1>4. <<x, y>> \o <<z>> = <<x, y, z>>
  <2>1. LET s == <<x, y>> \o <<z>> IN s \in Seq(Recs) /\ Len(s) = 3 /\ s[1] = x /\ s[2] = y /\ s[3] = z
    BY <1>1
  <2>2. QED
    BY <1>2, <2>1
<1>5. SubSeq(<<x>>, 1, 1) = <<x>>
  <2>1. LET u == SubSeq(<<x>>, 1, 1) IN u \in Seq(Recs) /\ Len(u) = 1 /\ u[1] = x
    BY <1>1
  <2>2. QED
    BY <1>2, <2>1
<1>6. SubSeq(<<x, y>>, 1, 1) = <<x>>
  <2>1. LET u == SubSeq(<<x, y>>, 1, 1) IN u \in Seq(Recs) /\ Len(u) = 1 /\ u[1] = x
    BY <1>1
  <2>2. QED
    BY <1>2, <2>1
<1>7. SubSeq(<<x, y>>, 1, 2) = <<x, y>>
  <2>1. LET u == SubSeq(<<x, y>>, 1, 2) IN u \in Seq(Recs) /\ Len(u) = 2 /\ u[1] = x /\ u[2] = y
    BY <1>1
  <2>2. QED
    BY <1>2, <2>1
<1>8. SubSeq(<<x, y, z>>, 1, 1) = <<x>>
  <2>1. LET u == SubSeq(<<x, y, z>>, 1, 1) IN u \in Seq(Recs) /\ Len(u) = 1 /\ u[1] = x
    BY <1>1
  <2>2. QED
    BY <1>2, <2>1
<1>9. SubSeq(<<x, y, z>>, 1, 2) = <<x, y>>
  <2>1. LET u == SubSeq(<<x, y, z>>, 1, 2) IN u \in Seq(Recs) /\ Len(u) = 2 /\ u[1] = x /\ u[2] = y
    BY <1>1
  <2>2. QED
    BY <1>2, <2>1
<1>10. SubSeq(<<x, y, z>>, 1, 3) = <<x, y, z>>
  <2>1. LET u == SubSeq(<<x, y, z>>, 1, 3) IN u \in Seq(Recs) /\ Len(u) = 3 /\ u[1] = x /\ u[2] = y /\ u[3] = z
    BY <1>1
  <2>2. QED
    BY <1>2, <2>1
<1>11. QED
  BY <1>1, <1>3, <1>4, <1>5, <1>6, <1>7, <1>8, <1>9, <1>10

LEMMA ThenOne ==
  ASSUME NEW m \in Tapes, NEW p \in Parts, NEW a \in 1 .. EOD(m[p]), NEW x \in Recs, NEW y \in Recs
  PROVE  Spliced(Spliced(m, p, a, <<x>>), p, a + 1, <<y>>) = Spliced(m, p, a, <<x, y>>)
<1>1. <<x>> \in Seq(Recs) /\ <<y>> \in Seq(Recs) /\ Len(<<x>>) = 1 /\ <<x>> \o <<y>> = <<x, y>>
  BY Tuples
<1>2. Spliced(Spliced(m, p, a, <<x>>), p, a + 1, <<y>>) = Spliced(m, p, a, <<x>> \o <<y>>)
  <2>1. \A u, w \in Seq(Recs), n \in Nat : n = Len(u) => Spliced(Spliced(m, p, a, u), p, a + n, w) = Spliced(m, p, a, u \o w)
    BY SplicedTwice
  <2>2. QED
    BY <1>1, <2>1
<1>3. QED
  BY <1>1, <1>2

LEMMA ThenTwo ==
  ASSUME NEW m \in Tapes, NEW p \in Parts, NEW a \in 1 .. EOD(m[p]), NEW x \in Recs, NEW y \in Recs, NEW z \in Recs
  PROVE  Spliced(Spliced(m, p, a, <<x, y>>), p, a + 2, <<z>>) = Spliced(m, p, a, <<x, y, z>>)
<1>1. <<x, y>> \in Seq(Recs) /\ <<z>> \in Seq(Recs) /\ Len(<<x, y>>) = 2 /\ <<x, y>> \o <<z>> = <<x, y, z>>
  BY Tuples
<1>2. Spliced(Spliced(m, p, a, <<x, y>>), p, a + 2, <<z>>) = Spliced(m, p, a, <<x, y>> \o <<z>>)
  <2>1. \A u, w \in Seq(Recs), n \in Nat : n = Len(u) => Spliced(Spliced(m, p, a, u), p, a + n, w) = Spliced(m, p, a, u \o w)
    BY SplicedTwice
  <2>2. QED
    BY <1>1, <2>1
<1>3. QED
  BY <1>1, <1>2

\* One record that is no index.
More(m, p, a, t) ==
  /\ t \in Tapes /\ Sound(t) /\ Keeps(m, t) /\ Among(t, m)
  /\ \A q \in Parts : q # p => t[q] = m[q]

LEMMA MoreOne ==
  ASSUME NEW m \in Tapes, NEW p \in Parts, NEW a \in Nat, Free(m, p, a), Sound(m), NEW x \in Recs, x.kind # "index"
  PROVE  LET t == Spliced(m, p, a, <<x>>)
         IN  /\ More(m, p, a, t) /\ a \in 1 .. EOD(m[p])
             /\ Len(t[p]) = a /\ t[p][a] = x /\ a + 1 = EOD(t[p]) /\ Free(t, p, a + 1)
<1>1. a \in 1 .. EOD(m[p])
  BY FreeFits
<1> DEFINE t == Spliced(m, p, a, <<x>>)
<1>2. t \in Tapes /\ Len(t[p]) = a /\ t[p][a] = x /\ \A q \in Parts : q # p => t[q] = m[q]
  BY <1>1, SplicedOne
<1>3. Keeps(m, t) /\ Among(t, m)
  BY SplicedKeeps DEF Sound
<1>4. Sound(t)
  BY SoundMore
<1> HIDE DEF t
<1>5. QED
  BY <1>1, <1>2, <1>3, <1>4 DEF More, Free, EOD, t

LEMMA MoreTwice ==
  ASSUME NEW m, NEW p, NEW a, NEW b, NEW t, NEW u, More(m, p, a, t), More(t, p, b, u)
  PROVE  More(m, p, a, u)
  BY DEF More, Keeps, Among

LEMMA PartWritten ==
  ASSUME NEW m \in Tapes, NEW p \in Parts, NEW a \in Nat, Free(m, p, a), Sound(m),
         NEW recs \in {<<FM>>, <<FM, Junk>>}
  PROVE  LET t == Spliced(m, p, a, recs)
         IN  /\ recs \in Seq(Recs) /\ recs # <<>> /\ Len(recs) \in Nat
             /\ More(m, p, a, t) /\ a + Len(recs) = EOD(t[p]) /\ ~IsIndex(t, p, a + 1)
             /\ \A j \in 1 .. Len(recs) : Sound(Spliced(m, p, a, SubSeq(recs, 1, j)))
<1> DEFINE t1 == Spliced(m, p, a, <<FM>>)
           t2 == Spliced(t1, p, a + 1, <<Junk>>)
<1>1. More(m, p, a, t1) /\ a \in 1 .. EOD(m[p]) /\ Len(t1[p]) = a /\ a + 1 = EOD(t1[p]) /\ Free(t1, p, a + 1)
  BY MoreOne, Kinds
<1>2. t1 \in Tapes /\ Sound(t1)
  BY <1>1 DEF More
<1> HIDE DEF t1
<1>3. More(t1, p, a + 1, t2) /\ Len(t2[p]) = a + 1 /\ t2[p][a + 1] = Junk /\ (a + 1) + 1 = EOD(t2[p])
  BY <1>1, <1>2, MoreOne, Kinds
<1>4. t2 = Spliced(m, p, a, <<FM, Junk>>)
  <2>1. FM \in Recs /\ Junk \in Recs
    BY Kinds
  <2>2. t2 = Spliced(Spliced(m, p, a, <<FM>>), p, a + 1, <<Junk>>)
    BY DEF t1
  <2>3. QED
    BY <1>1, <2>1, <2>2, ThenOne
<1> HIDE DEF t2
<1>5. More(m, p, a, t2)
  BY <1>1, <1>3, MoreTwice
<1>6. ~IsIndex(t1, p, a + 1) /\ ~IsIndex(t2, p, a + 1)
  BY <1>1, <1>2, <1>3, TapeFacts, Kinds DEF IsIndex
<1>7. CASE recs = <<FM>>
  <2>1. recs \in Seq(Recs) /\ recs # <<>> /\ Len(recs) = 1 /\ SubSeq(recs, 1, 1) = recs
    BY <1>7, Tuples, Kinds
  <2>2. Spliced(m, p, a, recs) = t1
    BY <1>7 DEF t1
  <2>3. \A j \in 1 .. Len(recs) : j = 1
    BY <2>1
  <2>4. QED
    BY <1>1, <1>2, <1>6, <2>1, <2>2, <2>3
<1>8. CASE recs = <<FM, Junk>>
  <2>1. recs \in Seq(Recs) /\ recs # <<>> /\ Len(recs) = 2 /\ SubSeq(recs, 1, 1) = <<FM>> /\ SubSeq(recs, 1, 2) = recs
    BY <1>8, Tuples, Kinds
  <2>2. Spliced(m, p, a, recs) = t2 /\ Spliced(m, p, a, <<FM>>) = t1
    BY <1>4, <1>8 DEF t1
  <2>3. \A j \in 1 .. Len(recs) : j = 1 \/ j = 2
    BY <2>1
  <2>4. Sound(t2)
    BY <1>5 DEF More
  <2>5. a + Len(recs) = EOD(t2[p])
    BY <1>3, <2>1
  <2>6. QED
    BY <1>2, <1>5, <1>6, <2>1, <2>2, <2>3, <2>4, <2>5
<1>9. QED
  BY <1>7, <1>8

LEMMA IndexWritten ==
  ASSUME NEW m \in Tapes, NEW p \in Parts, NEW a \in Nat, Free(m, p, a), Sound(m),
         NEW ix \in Indexes, ix.self = <<p, a + 1>>, Backed(m, ix), Same(m, ix)
  PROVE  LET recs == <<FM, IndexBlock(ix), FM>>
             t == Spliced(m, p, a, recs)
         IN  /\ recs \in Seq(Recs) /\ recs # <<>> /\ Len(recs) = 3
             /\ t \in Tapes /\ Keeps(m, t) /\ \A q \in Parts : q # p => t[q] = m[q]
             /\ IsIndex(t, p, a + 1) /\ t[p][a + 1] = IndexBlock(ix) /\ LastAt(t, p, a) /\ a + 3 = EOD(t[p])
             /\ Backed(t, ix) /\ Same(t, ix)
             /\ \A j \in 1 .. Len(recs) : Sound(Spliced(m, p, a, SubSeq(recs, 1, j)))
<1> DEFINE x == IndexBlock(ix)
           t1 == Spliced(m, p, a, <<FM>>)
           t2 == Spliced(t1, p, a + 1, <<x>>)
           t3 == Spliced(t2, p, a + 2, <<FM>>)
<1>1. x \in IndexRecs /\ x \in Recs /\ x.kind = "index" /\ x.self = <<p, a + 1>> /\ x.gen = ix.gen
      /\ x.ver = ix.ver /\ x.refs = ix.refs /\ x.back = ix.back
  BY DEF IndexBlock, Indexes, IndexRecs, Places, Recs
<1>2. ix.back \in Pointers /\ ix.refs \subseteq Refs
  BY DEF Indexes
<1> HIDE DEF x
<1>3. More(m, p, a, t1) /\ a \in 1 .. EOD(m[p]) /\ Len(t1[p]) = a /\ t1[p][a] = FM /\ a + 1 = EOD(t1[p]) /\ Free(t1, p, a + 1)
  BY MoreOne, Kinds
<1>4. t1 \in Tapes /\ Sound(t1) /\ Keeps(m, t1) /\ Among(t1, m) /\ \A q \in Parts : q # p => t1[q] = m[q]
  BY <1>3 DEF More
<1> HIDE DEF t1
<1>5. Backed(t1, ix) /\ Same(t1, ix)
  BY <1>2, <1>4, BackedKept
<1>6. NewIndex(t1, p, a + 1, x)
  <2>1. Backed(t1, x) /\ Same(t1, x)
    BY <1>1, <1>5 DEF Backed, Same
  <2>2. QED
    BY <1>1, <1>3, <2>1 DEF NewIndex
<1>7. /\ t2 \in Tapes /\ Len(t2[p]) = a + 1 /\ t2[p][a + 1] = x
      /\ \A q \in Parts : q # p => t2[q] = t1[q]
  BY <1>1, <1>3, <1>4, SplicedOne
<1>8. Sound(t2)
  BY <1>1, <1>3, <1>4, <1>6, SoundMore
<1>9. Keeps(t1, t2) /\ AmongOr(t2, t1, p, a + 1)
  BY <1>1, <1>3, <1>4, SplicedKeeps DEF Sound
<1> HIDE DEF t2
<1>10. IsIndex(t2, p, a + 1) /\ a + 2 = EOD(t2[p]) /\ Free(t2, p, a + 2)
  <2>1. IsIndex(t2, p, a + 1)
    BY <1>1, <1>7, TapeFacts DEF IsIndex
  <2>2. a + 2 = EOD(t2[p])
    BY <1>7 DEF EOD
  <2>3. QED
    BY <2>1, <2>2 DEF Free
<1>11. Backed(t2, ix) /\ Same(t2, ix)
  <2>1. \A q \in Parts, i \in Nat : IsIndex(t2, q, i) => (IsIndex(t1, q, i) /\ t2[q][i] = t1[q][i]) \/ t2[q][i] = x
    BY <1>7, <1>9 DEF AmongOr
  <2>2. Newest(t2, ix.gen)
    <3>1. ix.gen <= ix.gen
      BY DEF Indexes
    <3>2. QED
      BY <1>1, <1>5, <2>1, <3>1 DEF Backed, Newest
  <2>3. Same(t2, ix)
    BY <1>1, <1>5, <2>1 DEF Same
  <2>4. \A r \in ix.refs : Points(t2, r)
    BY <1>2, <1>5, <1>9 DEF Backed, Keeps
  <2>5. Leads(t2, ix.back, ix.gen)
    BY <1>2, <1>5, <1>9, LeadsKept DEF Backed
  <2>6. QED
    BY <2>2, <2>3, <2>4, <2>5 DEF Backed
<1>12. More(t2, p, a + 2, t3) /\ Len(t3[p]) = a + 2 /\ t3[p][a + 2] = FM /\ (a + 2) + 1 = EOD(t3[p])
  BY <1>7, <1>8, <1>10, MoreOne, Kinds
<1>13. t3 \in Tapes /\ Sound(t3) /\ Keeps(t2, t3) /\ Among(t3, t2) /\ \A q \in Parts : q # p => t3[q] = t2[q]
  BY <1>12 DEF More
<1>14. t3[p][a + 1] = x /\ IsIndex(t3, p, a + 1)
  <2>1. /\ \A i \in 1 .. (a + 2) - 1 : t3[p][i] = t2[p][i]
    <3>1. a + 2 \in 1 .. EOD(t2[p])
      BY <1>10
    <3>2. QED
      BY <1>7, <3>1, SplicedOne, Kinds
  <2>2. t3[p][a + 1] = x
    <3>1. a + 1 \in 1 .. (a + 2) - 1
      OBVIOUS
    <3>2. t3[p][a + 1] = t2[p][a + 1]
      BY <2>1, <3>1
    <3>3. QED
      BY <1>7, <3>2
  <2>3. QED
    BY <1>1, <1>12, <1>13, <2>2, TapeFacts DEF IsIndex
<1> HIDE DEF t3
<1>15. LastAt(t3, p, a)
  BY <1>12, <1>14 DEF LastAt
<1>16. Keeps(m, t3)
  BY <1>4, <1>9, <1>13 DEF Keeps
<1>17. Backed(t3, ix) /\ Same(t3, ix)
  BY <1>2, <1>11, <1>13, BackedKept
<1>18. <<FM, x, FM>> \in Seq(Recs) /\ <<FM, x, FM>> # <<>> /\ Len(<<FM, x, FM>>) = 3
       /\ SubSeq(<<FM, x, FM>>, 1, 1) = <<FM>> /\ SubSeq(<<FM, x, FM>>, 1, 2) = <<FM, x>>
       /\ SubSeq(<<FM, x, FM>>, 1, 3) = <<FM, x, FM>>
  <2>1. FM \in Recs /\ x \in Recs
    BY <1>1, Kinds
  <2>2. QED
    BY <2>1, Tuples
<1>19. t2 = Spliced(m, p, a, <<FM, x>>)
  <2>1. FM \in Recs /\ x \in Recs
    BY <1>1, Kinds
  <2>2. QED
    BY <1>3, <2>1, ThenOne DEF t1, t2
<1>20. t3 = Spliced(m, p, a, <<FM, x, FM>>)
  <2>1. FM \in Recs /\ x \in Recs
    BY <1>1, Kinds
  <2>2. t3 = Spliced(Spliced(m, p, a, <<FM, x>>), p, a + 2, <<FM>>)
    BY <1>19 DEF t3
  <2>3. QED
    BY <1>3, <2>1, <2>2, ThenTwo
<1>21. \A j \in 1 .. Len(<<FM, x, FM>>) : Sound(Spliced(m, p, a, SubSeq(<<FM, x, FM>>, 1, j)))
  <2>1. \A j \in 1 .. Len(<<FM, x, FM>>) : j = 1 \/ j = 2 \/ j = 3
    BY <1>18
  <2>2. Spliced(m, p, a, <<FM>>) = t1
    BY DEF t1
  <2>3. QED
    BY <1>4, <1>8, <1>13, <1>18, <1>19, <1>20, <2>1, <2>2
<1>22. a + 3 = EOD(t3[p])
  BY <1>12 DEF EOD
<1>23. \A q \in Parts : q # p => t3[q] = m[q]
  BY <1>4, <1>7, <1>13
<1>24. QED
  BY <1>13, <1>14, <1>15, <1>16, <1>17, <1>18, <1>20, <1>21, <1>22, <1>23 DEF x

-----------------------------------------------------------------------------
(* The steps that write.                                                   *)

LEMMA PutKeeps ==
  ASSUME IInv, ~Down, NEW p \in Parts, NEW a, a = AppendAt(p), NEW recs \in Seq(Recs), recs # <<>>,
         Locate(<<p, a>>, recs), \A j \in 1 .. Len(recs) : Sound(Spliced(Now, p, a, SubSeq(recs, 1, j)))
  PROVE  /\ DriveOK' /\ AllSound' /\ buf' # <<>>
         /\ Now' = Spliced(Now, p, a, recs) /\ Here' = <<p, a + Len(recs)>>
         /\ mam' \in Attributes /\ CurrentInv'
<1>1. DriveOK /\ AllSound /\ mam \in Attributes /\ CurrentInv /\ a \in 1 .. EOD(Now[p])
  BY PlaceFacts DEF IInv, TypeInv
<1>2. /\ DriveOK' /\ buf' # <<>>
      /\ Now' = Spliced(Now, p, a, recs)
      /\ Here' = <<p, a + Len(recs)>>
      /\ \A k \in 0 .. Len(buf') :
           \/ \E j \in 0 .. Len(buf) : View(k)' = View(j)
           \/ \E j \in 1 .. Len(recs) : View(k)' = Spliced(Now, p, a, SubSeq(recs, 1, j))
  BY <1>1, PutSplices
<1>3. AllSound'
  <2> SUFFICES ASSUME NEW k \in 0 .. Len(buf') PROVE \A v : v = View(k)' => Sound(v)
    BY DEF AllSound
  <2>1. CASE \E j \in 0 .. Len(buf) : View(k)' = View(j)
    BY <1>1, <2>1 DEF AllSound
  <2>2. CASE \E j \in 1 .. Len(recs) : View(k)' = Spliced(Now, p, a, SubSeq(recs, 1, j))
    BY <2>2
  <2>3. QED
    BY <1>2, <2>1, <2>2
<1>4. QED
  BY <1>1, <1>2, <1>3, LocateStale

LEMMA OnePartition ==
  ASSUME NEW m, NEW t, NEW q, t[q] = m[q]
  PROVE  /\ \A i : IsIndex(t, q, i) <=> IsIndex(m, q, i)
         /\ \A a : Free(m, q, a) => Free(t, q, a)
         /\ \A c : CohOn(m, q, c) => CohOn(t, q, c)
  BY DEF IsIndex, Free, LastAt, CohOn

\* What is known of the partition that is not written to stays, and the other one
\* ends where the next write goes.
LEMMA PlaceAfter ==
  ASSUME IInv, ~Down, DriveOK', NEW p \in Parts, NEW t, Now' = t, \A q \in Parts : q # p => t[q] = Now[q],
         append_pos'[p] = EOD(t[p]), \A q \in Parts : q # p => append_pos'[q] = append_pos[q],
         \A r \in pending' : Points(t, r)
  PROVE  PlaceInv'
<1>1. t \in Tapes /\ \A q \in Parts : Seen(q)' = t[q]
  BY SeenNext DEF SeenIsNow
<1>2. \A q \in Parts : EOD(t[q]) # 0
  BY <1>1, TapeFacts
<1>3. AppendAt(p)' = EOD(t[p])
  BY <1>2 DEF AppendAt
<1>4. ASSUME NEW q \in Parts, q # p
      PROVE  AppendAt(q)' = AppendAt(q) /\ Free(t, q, AppendAt(q))
  <2>1. Seen(q) = Now[q] /\ Free(Now, q, AppendAt(q))
    BY PlaceFacts
  <2>2. AppendAt(q)' = AppendAt(q)
    BY <1>1, <1>4, <2>1 DEF AppendAt
  <2>3. QED
    BY <1>4, <2>1, <2>2, OnePartition
<1>5. \A q \in Parts : Free(t, q, AppendAt(q)')
  BY <1>3, <1>4 DEF Free
<1>6. QED
  BY <1>5 DEF PlaceInv

LEMMA CohKept ==
  ASSUME NEW m, NEW t, Among(t, m), NEW c \in Coherency
  PROVE  /\ CohOn(m, "DP", c) => CohOn(t, "DP", c)
         /\ CohOn(m, "IP", c) /\ ~IsIndex(t, "IP", c.set) => CohOn(t, "IP", c)
<1>1. c.set \in Nat /\ "DP" \in Parts /\ "IP" \in Parts /\ "IP" # "DP"
  BY DEF Coherency, Parts
<1>2. QED
  BY <1>1 DEF Among, CohOn

LEMMA PutDataKeeps ==
  ASSUME IInv, PutData
  PROVE  IInv'
<1> DEFINE p == job.then
           a == AppendAt(p)
           x == Data(written + 1)
<1>1. p \in Parts /\ job.calls = <<>> /\ file_end' = [file_end EXCEPT ![p] = FALSE] /\ job' = NoJob
      /\ UNCHANGED <<index, coh, want, phase>>
  BY DEF PutData
<1>2. job # NoJob /\ job.step = "begin" /\ ~Down /\ MountedInv /\ Held(Now, index) /\ ~Down' /\ phase \in {"mount", "up", "unmount"}
  <2>1. job # NoJob
    BY <1>1 DEF NoJob, Parts
  <2>2. QED
    BY <1>1, <2>1, BusyIsUp DEF IInv, JobInv, MountedInv, IndexInv, Down, Idle
<1>3. job' \in Jobs /\ job'.step = "begin" /\ JobInv' /\ ~Writing' /\ ~Writing
  BY <1>1, <1>2 DEF NoJob, Jobs, Calls, Steps, Thens, JobInv, Idle, Writing
<1>4. file_end' \in [Parts -> BOOLEAN] /\ ~file_end'[p] /\ \A q \in Parts : q # p => file_end'[q] = file_end[q]
  BY <1>1 DEF IInv, TypeInv
<1>5. CohOn(Now, "DP", coh["DP"]) /\ coh["DP"] \in Coherency
      /\ (file_end'["IP"] => CohOn(Now, "IP", coh["IP"])
                             /\ (IsIndex(Now, "IP", coh["IP"].set) => append_pos["IP"] = coh["IP"].set - 1))
  BY <1>1, <1>2, <1>3, <1>4 DEF MountedInv, CohInv, IInv, TypeInv, Parts
<1>6. DriveOK /\ mam \in Attributes /\ index \in Indexes /\ written \in Nat /\ pending \subseteq Refs
      /\ append_pos \in [Parts -> Nat] /\ coh \in [Parts -> Coherency] /\ phase \in Phases /\ less \subseteq Parts
      /\ want \in Parts \cup {"none"}
  BY DEF IInv, TypeInv
<1> HIDE DEF p
<1>7. CASE UNCHANGED <<medium, append_pos, pending, less, written>>
  <2>1. DriveOK' /\ AllSound' /\ CurrentInv' /\ Now' = Now /\ Here' = Here /\ \A q \in Parts : Seen(q)' = Seen(q)
    BY <1>6, <1>7, SameMedium DEF IInv
  <2>2. TypeInv'
    BY <1>1, <1>3, <1>4, <1>6, <1>7, <2>1 DEF TypeInv, medium
  <2>3. IndexInv'
    BY <1>1, <1>2, <1>3, <2>1 DEF IndexInv
  <2>4. CohInv'
    BY <1>1, <1>3, <1>5, <1>7, <2>1 DEF CohInv
  <2>5. PlaceInv'
    BY <1>2, <1>7, <2>1 DEF MountedInv, PlaceInv, AppendAt
  <2>6. QED
    BY <1>2, <1>3, <2>1, <2>2, <2>3, <2>4, <2>5 DEF IInv, MountedInv
<1>8. CASE /\ Locate(<<p, a>>, <<x>>)
           /\ append_pos' = [append_pos EXCEPT ![p] = a + 1]
           /\ written' = written + 1
           /\ less' \subseteq Parts
           /\ pending' \subseteq pending \cup {Ref(p, a, written + 1)}
  <2>1. Now \in Tapes /\ Sound(Now) /\ a \in Nat /\ Free(Now, p, a)
    BY <1>1, <1>2, PlaceFacts
  <2>2. x \in Recs /\ x.kind # "index"
    BY <1>6, Kinds
  <2> DEFINE t == Spliced(Now, p, a, <<x>>)
  <2>3. More(Now, p, a, t) /\ Len(t[p]) = a /\ t[p][a] = x /\ a + 1 = EOD(t[p]) /\ a \in 1 .. EOD(Now[p])
    BY <1>1, <2>1, <2>2, MoreOne
  <2>4. t \in Tapes /\ Sound(t) /\ Keeps(Now, t) /\ Among(t, Now) /\ \A q \in Parts : q # p => t[q] = Now[q]
    BY <2>3 DEF More
  <2>5. DriveOK' /\ AllSound' /\ Now' = t /\ mam' \in Attributes /\ CurrentInv'
    <3>1. <<x>> \in Seq(Recs) /\ <<x>> # <<>> /\ Len(<<x>>) = 1 /\ SubSeq(<<x>>, 1, 1) = <<x>>
      BY <2>2, Tuples
    <3>2. \A j \in 1 .. Len(<<x>>) : Sound(Spliced(Now, p, a, SubSeq(<<x>>, 1, j)))
      <4>1. \A j \in 1 .. Len(<<x>>) : j = 1
        BY <3>1
      <4>2. QED
        BY <2>4, <3>1, <4>1
    <3> HIDE DEF x
    <3>3. QED
      BY <1>1, <1>2, <1>8, <3>1, <3>2, PutKeeps
  <2> HIDE DEF t, a
  <2>6. append_pos' \in [Parts -> Nat] /\ append_pos'[p] = a + 1 /\ \A q \in Parts : q # p => append_pos'[q] = append_pos[q]
    BY <1>1, <1>6, <1>8, <2>1
  <2>7. Ref(p, a, written + 1) \in Refs /\ Points(t, Ref(p, a, written + 1))
    BY <1>1, <1>6, <2>1, <2>3, <2>4, TapeFacts DEF Ref, Refs, Places, Points
  <2>8. TypeInv'
    <3>1. pending' \subseteq Refs /\ written' \in Nat
      BY <1>6, <1>8, <2>7
    <3>2. QED
      BY <1>1, <1>3, <1>4, <1>6, <1>8, <2>5, <2>6, <3>1 DEF TypeInv
  <2>9. IndexInv'
    BY <1>1, <1>2, <1>3, <1>6, <2>4, <2>5, HeldKept DEF IndexInv
  <2>10. CohInv'
    <3>1. CohOn(t, "DP", coh["DP"])
      BY <1>5, <2>4, CohKept
    <3>2. ASSUME file_end'["IP"]
          PROVE  CohOn(t, "IP", coh["IP"]) /\ (IsIndex(t, "IP", coh["IP"].set) => append_pos'["IP"] = coh["IP"].set - 1)
      <4>1. "IP" # p /\ "IP" \in Parts
        BY <1>4, <3>2 DEF Parts
      <4>2. QED
        BY <1>5, <2>4, <2>6, <3>2, <4>1, OnePartition
    <3>3. QED
      BY <1>1, <1>3, <2>5, <3>1, <3>2 DEF CohInv
  <2>11. PlaceInv'
    <3>1. \A r \in pending : Points(t, r)
      BY <1>2, <1>6, <2>4 DEF MountedInv, PlaceInv, Keeps
    <3>2. \A r \in pending' : Points(t, r)
      BY <1>8, <2>7, <3>1
    <3>3. QED
      BY <1>1, <1>2, <2>3, <2>4, <2>5, <2>6, <3>2, PlaceAfter
  <2>12. QED
    BY <1>2, <1>3, <2>5, <2>8, <2>9, <2>10, <2>11 DEF IInv, MountedInv
<1>9. QED
  BY <1>1, <1>6, <1>7, <1>8 DEF PutData, p

LEMMA WriteIndexFacts ==
  ASSUME IInv, job.step = "write"
  PROVE  /\ job.calls # <<>> /\ Part \in Parts /\ ~Down /\ MountedInv /\ phase \in {"mount", "up", "unmount"}
         /\ Held(Now, job.old) /\ job.old \in Indexes /\ Backed(Now, index) /\ Same(Now, index) /\ index \in Indexes
         /\ Here = <<Part, AppendAt(Part)>> /\ index.self = <<Part, AppendAt(Part) + 1>> /\ AppendAt(Part) = append_pos[Part]
<1>1. job.calls # <<>> /\ job.old \in Indexes /\ job # NoJob /\ job \in Jobs /\ index \in Indexes /\ phase \in {"mount", "up", "unmount"}
  BY DEF IInv, JobInv, NoJob, TypeInv, Idle
<1>2. Part \in Parts /\ ~Down /\ MountedInv
  BY <1>1, CallFacts, BusyIsUp DEF Part, Jobs
<1>3. /\ Held(Now, job.old) /\ Backed(Now, index) /\ Same(Now, index)
      /\ index.self = <<Part, Here[2] + 1>>
      /\ Here = <<Part, append_pos[Part]>> /\ append_pos[Part] # 0
  BY <1>2 DEF MountedInv, IndexInv
<1>4. AppendAt(Part) = append_pos[Part]
  BY <1>3 DEF AppendAt
<1>5. QED
  BY <1>1, <1>2, <1>3, <1>4

\* What holds of the coherency value of a partition that is not being written.
LEMMA CohFacts ==
  ASSUME IInv, ~Down, ~Writing
  PROVE  /\ coh \in [Parts -> Coherency] /\ CohOn(Now, "DP", coh["DP"])
         /\ file_end["IP"] => /\ CohOn(Now, "IP", coh["IP"])
                              /\ IsIndex(Now, "IP", coh["IP"].set) => append_pos["IP"] = coh["IP"].set - 1
  BY DEF IInv, MountedInv, CohInv, TypeInv

LEMMA IndexIsWritten ==
  ASSUME IInv, job.step = "write", Put(Part, <<FM, IndexBlock(index), FM>>), job' = [job EXCEPT !.step = "flush"],
         UNCHANGED <<index, file_end, phase, coh, pending, want, less, written>>
  PROVE  IInv'
<1> DEFINE p == Part
           a == AppendAt(p)
           recs == <<FM, IndexBlock(index), FM>>
           t == Spliced(Now, p, a, recs)
<1>1. /\ job.calls # <<>> /\ p \in Parts /\ ~Down /\ MountedInv /\ phase \in {"mount", "up", "unmount"}
      /\ Backed(Now, index) /\ Same(Now, index) /\ index \in Indexes
      /\ Here = <<p, a>> /\ index.self = <<p, a + 1>>
  BY WriteIndexFacts
<1>2. job' \in Jobs /\ JobInv' /\ job'.step = "flush" /\ Part' = p
  <2>1. job' = [job EXCEPT !.step = "flush", !.old = job.old] /\ job.old \in {<<>>} \cup Indexes /\ "flush" \in Steps
        /\ job \in Jobs /\ JobInv
    BY DEF Jobs, Steps, IInv, TypeInv
  <2>2. QED
    BY <1>1, <2>1, StepOn
<1>3. Writing' /\ ~Writing
  BY <1>2 DEF Writing
<1>4. Now \in Tapes /\ Sound(Now) /\ a \in Nat /\ Free(Now, p, a)
  BY <1>1, PlaceFacts
<1> HIDE DEF p, a
<1>5. /\ recs \in Seq(Recs) /\ recs # <<>> /\ Len(recs) = 3
      /\ t \in Tapes /\ Keeps(Now, t) /\ \A q \in Parts : q # p => t[q] = Now[q]
      /\ IsIndex(t, p, a + 1) /\ t[p][a + 1] = IndexBlock(index) /\ LastAt(t, p, a) /\ a + 3 = EOD(t[p])
      /\ Backed(t, index) /\ Same(t, index)
      /\ \A j \in 1 .. Len(recs) : Sound(Spliced(Now, p, a, SubSeq(recs, 1, j)))
  BY <1>1, <1>4, IndexWritten
<1>6. Locate(<<p, a>>, recs) /\ append_pos' = [append_pos EXCEPT ![p] = a + 3]
  <2>1. Here[2] + Len(recs) = a + 3
    BY <1>1, <1>5
  <2>2. QED
    BY <1>1, <2>1 DEF Put, p
<1> HIDE DEF recs
<1>7. DriveOK' /\ AllSound' /\ buf' # <<>> /\ Now' = t /\ mam' \in Attributes /\ CurrentInv'
  BY <1>1, <1>5, <1>6, PutKeeps DEF a
<1> HIDE DEF t
<1>8. append_pos' \in [Parts -> Nat] /\ append_pos'[p] = a + 3 /\ \A q \in Parts : q # p => append_pos'[q] = append_pos[q]
  BY <1>1, <1>4, <1>6 DEF IInv, TypeInv
<1>9. TypeInv'
  BY <1>2, <1>7, <1>8 DEF IInv, TypeInv
<1>10. IndexInv'
  <2>1. index'.self[1] = p /\ index'.self[2] = a + 1 /\ index'.self[2] - 1 = a
    BY <1>1, <1>4
  <2>2. index' = index
    OBVIOUS
  <2>3. QED
    BY <1>2, <1>3, <1>5, <1>7, <2>1, <2>2 DEF IndexInv
<1>11. CohInv'
  <2>1. ASSUME p # "DP" PROVE CohOn(t, "DP", coh["DP"])
    BY <1>1, <1>3, <1>5, <2>1, CohFacts, OnePartition DEF Parts
  <2>2. ASSUME p # "IP", file_end["IP"]
        PROVE  CohOn(t, "IP", coh["IP"]) /\ (IsIndex(t, "IP", coh["IP"].set) => append_pos'["IP"] = coh["IP"].set - 1)
    BY <1>1, <1>3, <1>5, <1>8, <2>2, CohFacts, OnePartition DEF Parts
  <2>3. QED
    BY <1>2, <1>3, <1>7, <2>1, <2>2 DEF CohInv
<1>12. PlaceInv'
  <2>1. \A r \in pending' : Points(t, r)
    BY <1>1, <1>5 DEF MountedInv, PlaceInv, IInv, TypeInv, Keeps
  <2>2. QED
    BY <1>1, <1>5, <1>7, <1>8, <2>1, PlaceAfter
<1>13. ~Down'
  BY <1>1 DEF Down
<1>14. QED
  BY <1>2, <1>7, <1>9, <1>10, <1>11, <1>12, <1>13 DEF IInv, MountedInv

LEMMA IndexFails ==
  ASSUME IInv, job.step = "write", NEW recs \in {<<FM>>, <<FM, Junk>>}, Put(Part, recs), Failed(job.old),
         UNCHANGED <<coh, pending, want, less, written>>
  PROVE  IInv'
<1> DEFINE p == Part
           a == AppendAt(p)
           t == Spliced(Now, p, a, recs)
<1>1. /\ job.calls # <<>> /\ p \in Parts /\ ~Down /\ MountedInv
      /\ Held(Now, job.old) /\ job.old \in Indexes
      /\ Here = <<p, a>> /\ a = append_pos[p]
  BY WriteIndexFacts
<1>2. job' \in Jobs /\ job'.step = "begin" /\ JobInv' /\ phase' \in Phases /\ ~Down' /\ file_end' = file_end /\ index' = job.old
  BY <1>1, FailedJob
<1>3. ~Writing' /\ ~Writing
  BY <1>2 DEF Writing
<1>4. Now \in Tapes /\ Sound(Now) /\ a \in Nat /\ Free(Now, p, a)
  BY <1>1, PlaceFacts
<1> HIDE DEF p, a
<1>5. /\ recs \in Seq(Recs) /\ recs # <<>> /\ Len(recs) \in Nat
      /\ More(Now, p, a, t) /\ a + Len(recs) = EOD(t[p]) /\ ~IsIndex(t, p, a + 1)
      /\ \A j \in 1 .. Len(recs) : Sound(Spliced(Now, p, a, SubSeq(recs, 1, j)))
  BY <1>1, <1>4, PartWritten, ZenonT(60)
<1>6. t \in Tapes /\ Keeps(Now, t) /\ Among(t, Now) /\ \A q \in Parts : q # p => t[q] = Now[q]
  BY <1>5 DEF More
<1>7. Locate(<<p, a>>, recs) /\ append_pos' = [append_pos EXCEPT ![p] = a + Len(recs)]
  <2>1. Here[2] = a
    BY <1>1
  <2>2. QED
    BY <1>1, <2>1 DEF Put, p
<1>8. DriveOK' /\ AllSound' /\ Now' = t /\ mam' \in Attributes /\ CurrentInv'
  BY <1>1, <1>5, <1>7, PutKeeps DEF a
<1> HIDE DEF t
<1>9. append_pos' \in [Parts -> Nat] /\ append_pos'[p] = EOD(t[p]) /\ \A q \in Parts : q # p => append_pos'[q] = append_pos[q]
  BY <1>1, <1>4, <1>5, <1>7 DEF IInv, TypeInv
<1>10. TypeInv'
  BY <1>1, <1>2, <1>8, <1>9 DEF IInv, TypeInv
<1>11. IndexInv'
  BY <1>1, <1>2, <1>3, <1>6, <1>8, HeldKept DEF IndexInv
<1>12. CohInv'
  <2>1. coh \in [Parts -> Coherency] /\ "DP" \in Parts /\ "IP" \in Parts
    BY DEF IInv, TypeInv, Parts
  <2>2. CohOn(t, "DP", coh["DP"])
    BY <1>1, <1>3, <1>6, <2>1, CohFacts, CohKept
  <2>3. ASSUME file_end["IP"]
        PROVE  CohOn(t, "IP", coh["IP"]) /\ (IsIndex(t, "IP", coh["IP"].set) => append_pos'["IP"] = coh["IP"].set - 1)
    <3>1. /\ CohOn(Now, "IP", coh["IP"])
          /\ IsIndex(Now, "IP", coh["IP"].set) => append_pos["IP"] = coh["IP"].set - 1
      BY <1>1, <1>3, <2>3, CohFacts
    <3>2. CASE p = "IP"
      <4>1. ~IsIndex(t, "IP", coh["IP"].set)
        <5> SUFFICES ASSUME IsIndex(t, "IP", coh["IP"].set) PROVE FALSE
          OBVIOUS
        <5>1. coh["IP"].set \in Nat
          BY <2>1 DEF Coherency
        <5>2. IsIndex(Now, "IP", coh["IP"].set)
          BY <1>6, <2>1, <5>1 DEF Among
        <5>3. a + 1 = coh["IP"].set
          BY <1>1, <1>4, <3>1, <3>2, <5>1, <5>2
        <5>4. QED
          BY <1>5, <3>2, <5>3
      <4>2. QED
        BY <1>6, <2>1, <3>1, <4>1, CohKept
    <3>3. CASE p # "IP"
      BY <1>6, <1>9, <2>1, <3>1, <3>3, OnePartition
    <3>4. QED
      BY <3>2, <3>3
  <2>4. QED
    BY <1>2, <1>3, <1>8, <2>2, <2>3 DEF CohInv
<1>13. PlaceInv'
  <2>1. \A r \in pending' : Points(t, r)
    BY <1>1, <1>6 DEF MountedInv, PlaceInv, IInv, TypeInv, Keeps
  <2>2. QED
    BY <1>1, <1>6, <1>8, <1>9, <2>1, PlaceAfter
<1>14. QED
  BY <1>2, <1>8, <1>10, <1>11, <1>12, <1>13 DEF IInv, MountedInv

LEMMA WriteIndexKeeps ==
  ASSUME IInv, WriteIndex
  PROVE  IInv'
  BY IndexIsWritten, IndexFails DEF WriteIndex

LEMMA SameTape ==
  ASSUME UNCHANGED <<tape, head, buf>>
  PROVE  /\ DriveOK => DriveOK'
         /\ AllSound => AllSound'
         /\ Now' = Now /\ Here' = Here
         /\ \A p \in Parts : Seen(p)' = Seen(p)
<1>1. \A k : View(k)' = View(k)
  BY DEF View
<1>2. QED
  BY <1>1 DEF DriveOK, AllSound, Now, View, Here, Seen

LEMMA EndWriteIndexKeeps ==
  ASSUME IInv, EndWriteIndex
  PROVE  IInv'
<1> DEFINE p == Part
           a == index.self[2]
           new == [count |-> index.gen, set |-> a]
<1>1. job.step = "mam" /\ UNCHANGED <<tape, head, buf, pending, want, less, written>>
      /\ index' = [index EXCEPT !.dirty = FALSE]
      /\ append_pos' = (IF p = "IP" THEN [append_pos EXCEPT !["IP"] = IndexAppend(index.self)] ELSE append_pos)
  BY DEF EndWriteIndex
<1>2. job.calls # <<>> /\ job \in Jobs /\ JobInv /\ job # NoJob /\ phase \in Phases
      /\ file_end \in [Parts -> BOOLEAN] /\ append_pos \in [Parts -> Nat] /\ coh \in [Parts -> Coherency]
      /\ mam \in Attributes /\ index \in Indexes /\ DriveOK /\ AllSound
  BY <1>1 DEF IInv, JobInv, TypeInv, NoJob
<1>3. p \in Parts /\ ~Down /\ MountedInv /\ Writing
  BY <1>1, <1>2, CallFacts, BusyIsUp DEF Part, Jobs, Writing
<1>4. /\ index.self[1] = p
      /\ IsIndex(Now, p, a) /\ Now[p][a] = IndexBlock(index) /\ LastAt(Now, p, a - 1)
      /\ Backed(Now, index) /\ Same(Now, index)
      /\ buf = <<>> /\ file_end[p] /\ \A q \in Parts : ~mam[q].current
  BY <1>1, <1>3 DEF MountedInv, IndexInv
<1>5. /\ job' \in Jobs /\ job'.step = "begin" /\ JobInv'
      /\ phase' \in Phases /\ ~Down' /\ file_end' \in [Parts -> BOOLEAN]
      /\ file_end' = file_end \/ (p = "IP" /\ file_end' = [q \in Parts |-> TRUE])
  <2>1. IF Len(job.calls) > 1
        THEN /\ job' = [job EXCEPT !.calls = Tail(@), !.step = "begin"]
             /\ UNCHANGED <<phase, file_end>>
        ELSE Finish(TRUE)
    BY DEF EndWriteIndex
  <2>2. QED
    BY <1>2, <2>1, JobEnds
<1> HIDE DEF p
<1>6. Now \in Tapes /\ Sound(Now) /\ Now = tape
  BY <1>2, <1>3, <1>4, PlaceFacts, NowFacts
<1>7. a \in Nat /\ a > 1 /\ a - 1 \in Nat
  <2>1. a \in Nat
    BY <1>2, <1>3, <1>4 DEF Indexes, Pointers, Places, None, Parts
  <2>2. QED
    BY <1>3, <1>4, <1>6, <2>1 DEF Sound, Placed
<1>8. new \in Coherency /\ CohOn(Now, p, new)
  <2>1. new \in Coherency
    BY <1>2, <1>7 DEF Coherency, Indexes
  <2>2. \A i \in Nat : IsIndex(Now, p, i) => Now[p][i].gen <= index.gen
    BY <1>3, <1>4 DEF Backed, Newest
  <2>3. Now[p][a].gen = index.gen
    BY <1>4 DEF IndexBlock
  <2>4. QED
    BY <1>4, <2>1, <2>2, <2>3 DEF CohOn
<1>9. PICK lost \in SUBSET Parts :
        /\ coh' = [coh EXCEPT ![p] = new]
        /\ mam' = [q \in Parts |-> IF file_end[q] /\ q \notin lost
                                   THEN [current |-> TRUE, count |-> coh'[q].count, set |-> coh'[q].set]
                                   ELSE mam[q]]
  <2>1. PICK lost \in SUBSET Parts : UpdateCoherency(lost)
    BY DEF EndWriteIndex
  <2>2. SetCoherency([coh EXCEPT ![p] = new], lost)
    BY <1>4, <2>1 DEF UpdateCoherency
  <2>3. QED
    BY <2>2 DEF SetCoherency
<1> HIDE DEF new, a
<1>10. coh' \in [Parts -> Coherency] /\ coh'[p] = new /\ \A q \in Parts : q # p => coh'[q] = coh[q]
  BY <1>2, <1>3, <1>8, <1>9
<1>11. /\ CohOn(Now, "DP", coh'["DP"])
       /\ file_end["IP"] => CohOn(Now, "IP", coh'["IP"])
  <2>1. CASE p = "IP"
    <3>1. CohOn(Now, "DP", coh["DP"]) /\ coh'["DP"] = coh["DP"]
      BY <1>3, <1>10, <2>1 DEF MountedInv, CohInv, Parts, p
    <3>2. QED
      BY <1>8, <1>10, <2>1, <3>1
  <2>2. CASE p = "DP"
    <3>1. (file_end["IP"] => CohOn(Now, "IP", coh["IP"])) /\ coh'["IP"] = coh["IP"]
      BY <1>3, <1>10, <2>2 DEF MountedInv, CohInv, Parts, p
    <3>2. QED
      BY <1>8, <1>10, <2>2, <3>1
  <2>3. QED
    BY <1>3, <2>1, <2>2 DEF Parts
<1>12. mam' \in Attributes /\ CurrentInv'
  <2>1. \A q \in Parts : coh'[q].count \in Nat /\ coh'[q].set \in Nat
    BY <1>10 DEF Coherency
  <2>2. mam' \in Attributes
    BY <1>2, <1>9, <2>1 DEF Attributes
  <2>3. ASSUME NEW q \in Parts, mam'[q].current
        PROVE  file_end[q] /\ mam'[q].count = coh'[q].count /\ mam'[q].set = coh'[q].set
    BY <1>4, <1>9, <2>3
  <2>4. ASSUME mam'["IP"].current, mam'["DP"].current, NEW q \in Parts
        PROVE  CohOn(tape', q, mam'[q])
    <3>1. mam'[q].current
      BY <2>4 DEF Parts
    <3>2. CohOn(Now, q, coh'[q]) /\ mam'[q].count = coh'[q].count /\ mam'[q].set = coh'[q].set
      BY <1>11, <2>3, <3>1 DEF Parts
    <3>3. QED
      BY <1>1, <1>6, <3>2 DEF CohOn
  <2>5. QED
    BY <2>2, <2>4 DEF CurrentInv
<1>13. DriveOK' /\ AllSound' /\ Now' = Now /\ Here' = Here /\ \A q \in Parts : Seen(q)' = Seen(q)
  BY <1>1, <1>2, SameTape
<1>14. append_pos' \in [Parts -> Nat] /\ (p = "IP" => append_pos'["IP"] = a - 1) /\ (\A q \in Parts : q # "IP" \/ p # "IP" => append_pos'[q] = append_pos[q])
  BY <1>1, <1>2, <1>7 DEF IndexAppend, a, Parts
<1>15. index' \in Indexes /\ Held(Now, index')
  <2>1. /\ index' \in Indexes /\ index'.gen = index.gen /\ index'.self = index.self /\ index'.back = index.back
        /\ index'.refs = index.refs /\ index'.ver = index.ver
    BY <1>1, <1>2 DEF Indexes
  <2>2. Backed(Now, index') /\ Same(Now, index')
    BY <1>4, <2>1 DEF Backed, Same
  <2>3. index'.self[1] = "DP" => IsIndex(Now, "DP", index'.self[2])
    BY <1>4, <2>1 DEF a
  <2>4. QED
    BY <2>1, <2>2, <2>3 DEF Held
<1>16. TypeInv'
  BY <1>1, <1>5, <1>10, <1>12, <1>13, <1>14, <1>15 DEF IInv, TypeInv
<1>17. IndexInv'
  BY <1>5, <1>13, <1>15 DEF IndexInv, Writing
<1>18. CohInv'
  <2>1. ASSUME file_end'["IP"]
        PROVE  CohOn(Now, "IP", coh'["IP"]) /\ (IsIndex(Now, "IP", coh'["IP"].set) => append_pos'["IP"] = coh'["IP"].set - 1)
    <3>1. file_end["IP"]
      BY <1>4, <1>5, <2>1
    <3>2. CASE p = "IP"
      <4>1. coh'["IP"].set = a
        BY <1>10, <3>2 DEF new
      <4>2. QED
        BY <1>11, <1>14, <3>1, <3>2, <4>1
    <3>3. CASE p # "IP"
      <4>1. "IP" \in Parts /\ coh'["IP"] = coh["IP"] /\ append_pos'["IP"] = append_pos["IP"]
        BY <1>10, <1>14, <3>3 DEF Parts
      <4>2. QED
        BY <1>3, <1>11, <3>1, <3>3, <4>1 DEF MountedInv, CohInv, p
    <3>4. QED
      BY <3>2, <3>3
  <2>2. QED
    BY <1>11, <1>13, <2>1 DEF CohInv
<1>19. PlaceInv'
  <2>1. ASSUME NEW q \in Parts
        PROVE  Free(Now, q, AppendAt(q)')
    <3>1. CASE p = "IP" /\ q = "IP"
      <4>1. AppendAt(q)' = a - 1
        BY <1>7, <1>14, <3>1 DEF AppendAt
      <4>2. QED
        BY <1>4, <1>7, <3>1, <4>1 DEF Free
    <3>2. CASE ~(p = "IP" /\ q = "IP")
      <4>1. AppendAt(q)' = AppendAt(q)
        BY <1>13, <1>14, <3>2 DEF AppendAt
      <4>2. QED
        BY <1>3, <4>1 DEF MountedInv, PlaceInv
    <3>3. QED
      BY <3>1, <3>2
  <2>2. QED
    BY <1>1, <1>3, <1>13, <2>1 DEF MountedInv, PlaceInv
<1>20. QED
  BY <1>5, <1>12, <1>13, <1>16, <1>17, <1>18, <1>19 DEF IInv, MountedInv

-----------------------------------------------------------------------------
(* What a mount finds.                                                     *)

LEMMA GreatestOf ==
  ASSUME NEW n \in Nat, NEW S \in SUBSET (0 .. n), S # {}
  PROVE  Greatest(S) \in S /\ \A k \in S : k <= Greatest(S)
<1> DEFINE T == {n - k : k \in S}
           less_than == OpToRel(<, Nat)
<1>1. T \in SUBSET Nat /\ T # {}
  <2>1. \A k \in S : k \in 0 .. n
    OBVIOUS
  <2>2. \A k \in S : n - k \in Nat
    BY <2>1
  <2>3. T \in SUBSET Nat
    BY <2>2
  <2>4. PICK k \in S : TRUE
    OBVIOUS
  <2>5. n - k \in T
    BY <2>4
  <2>6. QED
    BY <2>3, <2>5
<1>2. PICK x \in T : \A y \in T : ~(<<y, x>> \in less_than)
  BY <1>1, NatLessThanWellFounded, WFMin
<1>3. \A y \in T : ~(y < x)
  BY <1>1, <1>2 DEF OpToRel
<1> HIDE DEF less_than
<1>4. PICK g \in S : x = n - g
  BY <1>2
<1>5. \A k \in S : k <= g
  <2> SUFFICES ASSUME NEW k \in S PROVE k <= g
    OBVIOUS
  <2>1. n - k \in T /\ k \in Int /\ g \in Int
    OBVIOUS
  <2>2. ~(n - k < n - g)
    BY <1>3, <1>4, <2>1
  <2>3. QED
    BY <2>1, <2>2
<1>6. QED
  BY <1>5 DEF Greatest

LEMMA Finds ==
  ASSUME NEW m \in Tapes, NEW p \in Parts, Placed(m)
  PROVE  /\ FoundIn(m[p]) \in Nat
         /\ FoundIn(m[p]) # 0 => IsIndex(m, p, FoundIn(m[p])) /\ FoundIn(m[p]) > 1
         /\ \A i \in Nat : IsIndex(m, p, i) => i <= FoundIn(m[p]) /\ FoundIn(m[p]) # 0
<1> DEFINE s == m[p]
           S == {0} \cup {i \in 2 .. Len(s) : s[i].kind = "index" /\ s[i - 1] = FM}
<1>1. Len(s) \in Nat /\ DOMAIN s = 1 .. Len(s)
  BY TapeFacts
<1>2. S \in SUBSET (0 .. Len(s)) /\ S # {}
  BY <1>1
<1>3. FoundIn(s) = Greatest(S)
  BY DEF FoundIn
<1>4. Greatest(S) \in S /\ \A k \in S : k <= Greatest(S)
  BY <1>1, <1>2, GreatestOf
<1>5. \A i \in Nat : IsIndex(m, p, i) => i \in S /\ i > 1
  BY <1>1 DEF Placed, IsIndex
<1>6. \A i \in S : i # 0 => IsIndex(m, p, i) /\ i > 1
  BY <1>1 DEF IsIndex
<1> HIDE DEF S
<1>7. FoundIn(s) \in Nat
  BY <1>1, <1>2, <1>3, <1>4
<1>8. QED
  BY <1>3, <1>4, <1>5, <1>6, <1>7

\* The index that is found in a partition is the newest of it.
LEMMA FoundIsNewest ==
  ASSUME NEW m \in Tapes, NEW p \in Parts, Sound(m), FoundIn(m[p]) # 0
  PROVE  \A i \in Nat : IsIndex(m, p, i) => m[p][i].gen <= m[p][FoundIn(m[p])].gen
<1> DEFINE f == FoundIn(m[p])
<1>1. f \in Nat /\ IsIndex(m, p, f) /\ \A i \in Nat : IsIndex(m, p, i) => i <= f
  BY Finds DEF Sound
<1>2. m[p][f].gen \in Nat
  BY <1>1, TapeFacts DEF IndexRecs
<1> HIDE DEF f
<1>3. ASSUME NEW i \in Nat, IsIndex(m, p, i)
      PROVE  m[p][i].gen <= m[p][f].gen
  <2>1. CASE i = f
    BY <1>2, <2>1
  <2>2. CASE i < f
    BY <1>1, <1>3, <2>2 DEF Sound, Ordered
  <2>3. QED
    BY <1>1, <1>3, <2>1, <2>2
<1>4. QED
  BY <1>3 DEF f

\* The file mark that is filled in.
LEMMA FilledOne ==
  ASSUME NEW m \in Tapes, NEW p \in Parts, Sound(m)
  PROVE  LET t == [m EXCEPT ![p] = Filled(m[p])] IN t \in Tapes /\ Sound(t)
<1> DEFINE s == m[p]
           t == [m EXCEPT ![p] = Filled(s)]
<1>1. s \in Seq(Recs) /\ Len(s) \in Nat /\ EOD(s) = Len(s) + 1 /\ EOD(s) \in Nat
  BY TapeFacts
<1>2. CASE ~(FoundIn(s) # 0 /\ FoundIn(s) = Len(s))
  <2>1. Filled(s) = s
    BY <1>2 DEF Filled
  <2>2. t = m
    BY <2>1 DEF Tapes
  <2>3. QED
    BY <2>2
<1>3. CASE FoundIn(s) # 0 /\ FoundIn(s) = Len(s)
  <2>1. Filled(s) = Append(s, FM)
    BY <1>3 DEF Filled
  <2>2. SubSeq(s, 1, EOD(s) - 1) = s /\ Append(s, FM) = s \o <<FM>>
    <3>1. EOD(s) - 1 = Len(s) /\ FM \in Recs
      BY <1>1, Kinds
    <3>2. SubSeq(s, 1, Len(s)) = s
      BY <1>1
    <3>3. Append(s, FM) = s \o <<FM>>
      BY <1>1, <3>1, AppendIsConcat
    <3>4. QED
      BY <3>1, <3>2, <3>3
  <2>3. t = Spliced(m, p, EOD(s), <<FM>>)
    BY <2>1, <2>2 DEF Spliced
  <2>4. Free(m, p, EOD(s))
    BY DEF Free
  <2>5. More(m, p, EOD(s), Spliced(m, p, EOD(s), <<FM>>))
    BY <1>1, <2>4, MoreOne, Kinds
  <2>6. QED
    BY <2>3, <2>5 DEF More
<1>4. QED
  BY <1>2, <1>3

LEMMA FilledSound ==
  ASSUME NEW m \in Tapes, Sound(m)
  PROVE  LET t == [p \in Parts |-> Filled(m[p])] IN t \in Tapes /\ Sound(t)
<1> DEFINE t1 == [m EXCEPT !["IP"] = Filled(m["IP"])]
           t2 == [t1 EXCEPT !["DP"] = Filled(t1["DP"])]
<1>1. t1 \in Tapes /\ Sound(t1)
  BY FilledOne DEF Parts
<1>2. t2 \in Tapes /\ Sound(t2)
  <2> HIDE DEF t1
  <2>1. QED
    BY <1>1, FilledOne DEF Parts
<1>3. t2 = [p \in Parts |-> Filled(m[p])]
  BY DEF Tapes, Parts
<1>4. QED
  BY <1>2, <1>3

\* An index of the medium as vol->index, with what was found behind it.
LEMMA LoadedHeld ==
  ASSUME NEW m \in Tapes, Sound(m), NEW p \in Parts, NEW i \in Nat, IsIndex(m, p, i), Newest(m, m[p][i].gen),
         NEW dirty \in BOOLEAN, NEW refs \in SUBSET Refs, \A r \in refs : Points(m, r), ~dirty => refs = m[p][i].refs,
         NEW ix, ix = [gen |-> m[p][i].gen, self |-> m[p][i].self, back |-> m[p][i].back,
                       ver |-> m[p][i].ver, refs |-> refs, dirty |-> dirty]
  PROVE  ix \in Indexes /\ Held(m, ix)
<1> DEFINE x == m[p][i]
<1>1. x \in IndexRecs
  BY TapeFacts
<1> HIDE DEF x
<1>2. ix = [gen |-> x.gen, self |-> x.self, back |-> x.back, ver |-> x.ver, refs |-> refs, dirty |-> dirty]
  BY DEF x
<1>3. ix.gen = x.gen /\ ix.self = x.self /\ ix.back = x.back /\ ix.ver = x.ver /\ ix.refs = refs /\ ix.dirty = dirty
  BY <1>2
<1>4. x.gen \in Nat /\ x.self \in Places /\ x.back \in Pointers /\ x.ver \in Nat
  BY <1>1 DEF IndexRecs
<1>5. ix \in Indexes
  BY <1>2, <1>4 DEF Indexes, Pointers
<1>6. x.self = <<p, i>> /\ Leads(m, x.back, x.gen)
  BY DEF Sound, Placed, AllLead, x
<1>7. Backed(m, ix)
  BY <1>3, <1>6 DEF Backed, x
<1>8. ~dirty => Same(m, ix)
  <2> SUFFICES ASSUME ~dirty PROVE Same(m, ix)
    OBVIOUS
  <2>1. refs = x.refs
    BY DEF x
  <2>2. QED
    BY <1>3, <2>1 DEF Same, Sound, Alike, x
<1>9. QED
  BY <1>3, <1>5, <1>6, <1>7, <1>8 DEF Held

LEMMA QuickMountKeeps ==
  ASSUME IInv, QuickMount
  PROVE  IInv'
<1> DEFINE p == QuickPart
           s == mam[p].set
           block == tape[p][s]
<1>1. /\ Down /\ OffInv /\ CurrentInv /\ DriveOK /\ AllSound /\ TypeInv /\ JobInv
      /\ Current /\ block.kind = "index" /\ UNCHANGED <<medium, pending, want, less, written>>
      /\ Loaded(block, FALSE, block.refs)
      /\ coh' = [q \in Parts |-> [count |-> mam[q].count, set |-> mam[q].set]]
  BY DEF QuickMount, Down, IInv, TypeInv
<1>2. /\ mam \in Attributes /\ p \in Parts /\ \A q \in Parts : CohOn(tape, q, mam[q])
      /\ \A q \in Parts : mam[q].count \in Nat /\ mam[q].set \in Nat /\ mam[q].count <= mam[p].count
  BY <1>1 DEF CurrentInv, Current, QuickPart, Parts, TypeInv, Attributes
<1>3. Now = tape /\ tape \in Tapes /\ Sound(tape) /\ buf = <<>> /\ job = NoJob /\ pending = {}
      /\ append_pos = [q \in Parts |-> 0] /\ file_end = [q \in Parts |-> FALSE]
  <2>1. buf = <<>> /\ job = NoJob /\ pending = {} /\ append_pos = [q \in Parts |-> 0] /\ file_end = [q \in Parts |-> FALSE]
    BY <1>1 DEF OffInv
  <2>2. Now = tape /\ tape \in Tapes
    BY <1>1, <2>1, NowFacts
  <2>3. Sound(Now)
    BY <1>1, BufferFacts DEF AllSound, Now
  <2>4. QED
    BY <2>1, <2>2, <2>3
<1>4. s \in Nat /\ IsIndex(tape, p, s)
  BY <1>1, <1>2 DEF Current, IsIndex
<1>5. block.gen = mam[p].count /\ block.self = <<p, s>> /\ s > 1 /\ (p = "IP" => LastAt(tape, "IP", s - 1)) /\ block \in IndexRecs
  BY <1>2, <1>3, <1>4, TapeFacts DEF CohOn, Sound, Placed
<1>6. Newest(tape, block.gen)
  <2> SUFFICES ASSUME NEW q \in Parts, NEW i \in Nat, IsIndex(tape, q, i) PROVE tape[q][i].gen <= block.gen
    BY DEF Newest
  <2>1. tape[q][i].gen <= mam[q].count /\ mam[q].count <= mam[p].count
    BY <1>2 DEF CohOn
  <2>2. tape[q][i].gen \in Nat /\ mam[q].count \in Nat /\ mam[p].count \in Nat
    BY <1>2, <1>3, TapeFacts DEF IndexRecs
  <2>3. QED
    BY <1>5, <2>1, <2>2
<1>7. index' \in Indexes /\ Held(tape, index')
  <2>1. index' = [gen |-> block.gen, self |-> block.self, back |-> block.back, ver |-> block.ver,
                  refs |-> block.refs, dirty |-> FALSE]
    BY <1>1 DEF Loaded
  <2>2. block.refs \in SUBSET Refs /\ \A r \in block.refs : Points(tape, r)
    BY <1>2, <1>3, <1>4, <1>5 DEF IndexRecs, Sound, AllPoint
  <2>3. QED
    BY <1>2, <1>3, <1>4, <1>6, <2>1, <2>2, LoadedHeld
<1> HIDE DEF p, s, block
<1>8. /\ job' \in Jobs /\ job'.step = "begin" /\ JobInv' /\ phase' \in {"mount", "up"}
      /\ append_pos' \in [Parts -> Nat] /\ file_end' \in [Parts -> BOOLEAN]
      /\ \/ UNCHANGED <<append_pos, file_end>>
         \/ p = "IP" /\ append_pos' = [append_pos EXCEPT !["IP"] = s - 1]
  <2>1. CASE p = "DP"
    <3>1. StartJob(<<"IP">>, "mount") /\ phase' = "mount" /\ UNCHANGED <<append_pos, file_end>>
      BY <1>1, <2>1 DEF QuickMount, p
    <3>2. <<"IP">> \in Calls /\ <<"IP">> # <<>> /\ "mount" \in Thens
      BY CallFacts DEF Parts, Thens
    <3>3. job' \in Jobs /\ job'.step = "begin" /\ job'.calls = <<"IP">> /\ job'.then = "mount"
      BY <3>1, <3>2, Started
    <3>4. JobInv'
      BY <3>1, <3>2, <3>3 DEF JobInv
    <3>5. QED
      BY <1>1, <3>1, <3>3, <3>4 DEF TypeInv
  <2>2. CASE p # "DP"
    <3>1. /\ phase' = "up" /\ UNCHANGED job /\ file_end' = [q \in Parts |-> TRUE]
          /\ append_pos' = [append_pos EXCEPT !["IP"] = IndexAppend(tape[p][s].self)]
      BY <1>1, <2>2 DEF QuickMount, p, s
    <3>2. IndexAppend(tape[p][s].self) = s - 1 /\ s - 1 \in Nat /\ p = "IP"
      BY <1>2, <1>4, <1>5, <2>2 DEF IndexAppend, block, Parts
    <3>3. job' \in Jobs /\ job'.step = "begin" /\ JobInv'
      BY <1>1, <1>3, <3>1 DEF TypeInv, NoJob, JobInv, Idle
    <3>4. append_pos' \in [Parts -> Nat]
      BY <1>1, <3>1, <3>2 DEF TypeInv
    <3>5. QED
      BY <3>1, <3>2, <3>3, <3>4
  <2>3. QED
    BY <2>1, <2>2
<1>9. DriveOK' /\ AllSound' /\ CurrentInv' /\ Now' = tape /\ \A q \in Parts : Seen(q)' = tape[q]
  BY <1>1, <1>3, SameMedium, SeenNow DEF SeenIsNow
<1>10. coh' \in [Parts -> Coherency] /\ \A q \in Parts : CohOn(tape, q, coh'[q]) /\ coh'[q].set = mam[q].set
  <2>1. coh' \in [Parts -> Coherency]
    BY <1>1, <1>2 DEF Coherency
  <2>2. \A q \in Parts : coh'[q].set = mam[q].set /\ coh'[q].count = mam[q].count
    BY <1>1
  <2>3. QED
    BY <1>2, <2>1, <2>2 DEF CohOn
<1>11. TypeInv'
  BY <1>1, <1>7, <1>8, <1>9, <1>10 DEF TypeInv, Phases, medium
<1>12. IndexInv'
  BY <1>7, <1>8, <1>9 DEF IndexInv, Writing
<1>13. CohInv'
  <2>1. file_end'["IP"] => append_pos'["IP"] = mam["IP"].set - 1
    <3> SUFFICES ASSUME file_end'["IP"] PROVE append_pos'["IP"] = mam["IP"].set - 1
      OBVIOUS
    <3>1. p = "IP" /\ append_pos' = [append_pos EXCEPT !["IP"] = s - 1]
      BY <1>3, <1>8 DEF Parts
    <3>2. QED
      BY <1>1, <3>1 DEF TypeInv, s, Parts
  <2>2. QED
    BY <1>8, <1>9, <1>10, <2>1 DEF CohInv, Writing, Parts
<1>14. PlaceInv'
  <2>1. ASSUME NEW q \in Parts
        PROVE  Free(tape, q, AppendAt(q)')
    <3>1. CASE append_pos'[q] = 0
      BY <1>9, <3>1 DEF AppendAt, Free
    <3>2. CASE append_pos'[q] # 0
      <4>1. p = "IP" /\ append_pos' = [append_pos EXCEPT !["IP"] = s - 1]
        BY <1>3, <1>8, <3>2
      <4>2. q = "IP" /\ AppendAt(q)' = s - 1
        BY <1>3, <3>2, <4>1 DEF AppendAt, Parts
      <4>3. QED
        BY <1>4, <1>5, <4>1, <4>2 DEF Free
    <3>3. QED
      BY <3>1, <3>2
  <2>2. QED
    BY <1>1, <1>3, <1>9, <2>1 DEF PlaceInv
<1>15. ~Down'
  BY <1>8 DEF Down
<1>16. QED
  BY <1>8, <1>9, <1>11, <1>12, <1>13, <1>14, <1>15 DEF IInv, MountedInv

\* ltfs_check_medium takes the newest index of the tape.
LEMMA ChosenIsNewest ==
  ASSUME NEW t \in Tapes, Sound(t), NEW deep, NEW c \in Parts, c = Verdict(t["IP"], t["DP"], deep)
  PROVE  /\ FoundIn(t[c]) \in Nat /\ IsIndex(t, c, FoundIn(t[c]))
         /\ Chosen(t["IP"], t["DP"], deep) = t[c][FoundIn(t[c])]
         /\ Newest(t, t[c][FoundIn(t[c])].gen)
         /\ FoundIn(t["DP"]) # 0
         /\ ~deep => \A p \in Parts : ~ExtraBlocks(t[p])
<1> DEFINE i == FoundIn(t["IP"])
           d == FoundIn(t["DP"])
           x == t["IP"][i]
           y == t["DP"][d]
<1>1. /\ "IP" \in Parts /\ "DP" \in Parts /\ (c = "IP" \/ c = "DP") /\ \A p \in Parts : p = "IP" \/ p = "DP"
      /\ Placed(t) /\ IsIndex(t, "DP", 2) /\ {"none", "inconsistent", "invalid"} \cap Parts = {}
  BY DEF Parts, Sound, Labelled
<1>2. /\ d # 0 /\ d \in Nat /\ IsIndex(t, "DP", d) /\ \A k \in Nat : IsIndex(t, "DP", k) => t["DP"][k].gen <= y.gen
      /\ y.gen \in Nat
  <2>1. d # 0 /\ d \in Nat /\ IsIndex(t, "DP", d)
    BY <1>1, Finds
  <2>2. QED
    BY <1>1, <2>1, FoundIsNewest, TapeFacts DEF IndexRecs
<1>3. /\ i \in Nat /\ (i = 0 => \A k \in Nat : ~IsIndex(t, "IP", k))
      /\ i # 0 => /\ IsIndex(t, "IP", i) /\ x.gen \in Nat
                  /\ \A k \in Nat : IsIndex(t, "IP", k) => t["IP"][k].gen <= x.gen
  <2>1. /\ i \in Nat /\ (i = 0 => \A k \in Nat : ~IsIndex(t, "IP", k))
        /\ i # 0 => IsIndex(t, "IP", i)
    BY <1>1, Finds
  <2>2. QED
    BY <1>1, <2>1, FoundIsNewest, TapeFacts DEF IndexRecs
<1>4. ~deep => ~ExtraBlocks(t["IP"]) /\ ~ExtraBlocks(t["DP"])
  BY <1>1, <1>2 DEF Verdict
<1>5. CASE i = 0
  <2>1. c = "DP"
    BY <1>1, <1>2, <1>5 DEF Verdict
  <2>2. Newest(t, y.gen)
    BY <1>1, <1>2, <1>3, <1>5 DEF Newest
  <2>3. Chosen(t["IP"], t["DP"], deep) = y
    BY <2>1 DEF Chosen
  <2>4. QED
    BY <1>1, <1>2, <1>4, <2>1, <2>2, <2>3
<1>6. CASE i # 0
  <2>1. c = Newer(x, y, t["DP"])
    BY <1>1, <1>2, <1>6 DEF Verdict
  <2> HIDE DEF x, y
  <2>2. CASE c = "IP"
    <3>1. x.gen >= y.gen
      BY <2>1, <2>2 DEF Newer
    <3>2. \A k \in Nat : IsIndex(t, "DP", k) => t["DP"][k].gen \in Nat
      BY <1>1, TapeFacts DEF IndexRecs
    <3>3. Newest(t, x.gen)
      BY <1>1, <1>2, <1>3, <1>6, <3>1, <3>2 DEF Newest
    <3>4. Chosen(t["IP"], t["DP"], deep) = x
      BY <2>2 DEF Chosen, x
    <3>5. QED
      BY <1>1, <1>2, <1>3, <1>4, <1>6, <2>2, <3>3, <3>4 DEF x
  <2>3. CASE c = "DP"
    <3>1. ~(x.gen > y.gen)
      BY <2>1, <2>3 DEF Newer
    <3>2. \A k \in Nat : IsIndex(t, "IP", k) => t["IP"][k].gen \in Nat
      BY <1>1, TapeFacts DEF IndexRecs
    <3>3. Newest(t, y.gen)
      BY <1>1, <1>2, <1>3, <1>6, <3>1, <3>2 DEF Newest
    <3>4. Chosen(t["IP"], t["DP"], deep) = y
      BY <2>3 DEF Chosen, y
    <3>5. QED
      BY <1>1, <1>2, <1>4, <2>3, <3>3, <3>4 DEF y
  <2>4. QED
    BY <1>1, <2>2, <2>3
<1>7. QED
  BY <1>5, <1>6

\* A partition that ends in an index.
LEMMA EndsInIndex ==
  ASSUME NEW t \in Tapes, NEW p \in Parts, Sound(t), FoundIn(t[p]) # 0
  PROVE  /\ EndOfIndex(t[p]) \in Nat /\ EndOfIndex(t[p]) > FoundIn(t[p])
         /\ ~ExtraBlocks(t[p]) => LastAt(t, p, FoundIn(t[p]) - 1)
<1> DEFINE s == t[p]
           f == FoundIn(s)
<1>1. f \in Nat /\ f > 1 /\ IsIndex(t, p, f) /\ Len(s) \in Nat /\ EOD(s) = Len(s) + 1
  BY Finds, TapeFacts DEF Sound
<1>2. EndOfIndex(s) = f + (IF FMAfter(s) THEN 2 ELSE 1) /\ (FMAfter(s) => f < Len(s) /\ s[f + 1] = FM)
  BY DEF EndOfIndex, FMAfter
<1>3. ExtraBlocks(s) <=> EndOfIndex(s) # EOD(s)
  BY DEF ExtraBlocks
<1> HIDE DEF f
<1>4. ~ExtraBlocks(s) => LastAt(t, p, f - 1)
  <2> SUFFICES ASSUME ~ExtraBlocks(s) PROVE LastAt(t, p, f - 1)
    OBVIOUS
  <2>1. CASE FMAfter(s)
    <3>1. Len(s) = f + 1 /\ s[f + 1] = FM
      BY <1>1, <1>2, <1>3, <2>1
    <3>2. (f - 1) + 1 = f /\ (f - 1) + 2 = f + 1
      BY <1>1
    <3>3. QED
      BY <1>1, <3>1, <3>2 DEF LastAt
  <2>2. CASE ~FMAfter(s)
    <3>1. Len(s) = f
      BY <1>1, <1>2, <1>3, <2>2
    <3>2. (f - 1) + 1 = f /\ (f - 1) + 2 = f + 1
      BY <1>1
    <3>3. QED
      BY <1>1, <3>1, <3>2 DEF LastAt
  <2>3. QED
    BY <2>1, <2>2
<1>5. QED
  BY <1>1, <1>2, <1>4 DEF f

\* What is put into lost+found is there.
LEMMA LostIsThere ==
  ASSUME NEW t \in Tapes, NEW p \in Parts, Sound(t), NEW refs \in SUBSET Refs, \A r \in refs : Points(t, r),
         NEW l \in LostFound(p, t[p], refs)
  PROVE  l \in Refs /\ Points(t, l)
<1> DEFINE s == t[p]
           S == {0} \cup {r.at[2] + 1 : r \in {x \in refs : x.at[1] = p}}
           from == IF LastRef(p, refs) >= EndOfIndex(s) THEN LastRef(p, refs) + 1 ELSE EndOfIndex(s)
<1>1. Len(s) \in Nat /\ DOMAIN s = 1 .. Len(s) /\ \A k \in DOMAIN s : s[k] \in Recs
  BY TapeFacts
<1>2. LastRef(p, refs) \in Nat
  <2>1. \A r \in refs : r.at[1] = p => r.at[2] + 1 \in 0 .. Len(s) + 1
    BY <1>1 DEF Points
  <2>2. S \in SUBSET (0 .. Len(s) + 1) /\ S # {}
    BY <1>1, <2>1
  <2>3. LastRef(p, refs) = Greatest(S)
    BY DEF LastRef
  <2>4. Len(s) + 1 \in Nat
    BY <1>1
  <2> HIDE DEF S
  <2>5. Greatest(S) \in S
    BY <2>2, <2>4, GreatestOf
  <2>6. Greatest(S) \in 0 .. Len(s) + 1
    BY <2>2, <2>5
  <2>7. QED
    BY <2>3, <2>4, <2>6
<1>3. EndOfIndex(s) \in Nat /\ \A k \in Nat : IsIndex(t, p, k) => k < EndOfIndex(s)
  <2>1. /\ FoundIn(s) \in Nat
        /\ \A k \in Nat : IsIndex(t, p, k) => k <= FoundIn(s) /\ FoundIn(s) # 0
    BY Finds DEF Sound
  <2>2. CASE FoundIn(s) = 0
    BY <2>1, <2>2 DEF EndOfIndex
  <2>3. CASE FoundIn(s) # 0
    BY <2>1, <2>3, EndsInIndex
  <2>4. QED
    BY <2>2, <2>3
<1>4. from >= EndOfIndex(s) /\ from \in Nat
  BY <1>2, <1>3
<1>5. PICK k \in DOMAIN s : k >= from /\ s[k] # FM /\ l = Ref(p, k, IF s[k].kind = "data" THEN s[k].id ELSE 0)
  BY DEF LostFound
<1> HIDE DEF from
<1>6. k \in Nat /\ ~IsIndex(t, p, k)
  BY <1>1, <1>3, <1>4, <1>5
<1>7. s[k] \in DataRecs \/ s[k] = Junk
  BY <1>1, <1>5, <1>6, Kinds DEF IsIndex, Recs
<1>8. CASE s[k] \in DataRecs
  <2>1. PICK n \in Nat : s[k] = Data(n)
    BY <1>8 DEF DataRecs
  <2>2. s[k].kind = "data" /\ s[k].id = n
    BY <2>1, Kinds
  <2>3. l = Ref(p, k, n)
    BY <1>5, <2>2
  <2>4. QED
    BY <1>5, <1>6, <2>1, <2>3 DEF Ref, Refs, Places, Points
<1>9. CASE s[k] = Junk
  <2>1. l = Ref(p, k, 0)
    BY <1>5, <1>9, Kinds
  <2>2. QED
    BY <1>5, <1>6, <1>9, <2>1 DEF Ref, Refs, Places, Points
<1>10. QED
  BY <1>7, <1>8, <1>9

\* What ltfs_check_medium makes of a sound tape t, when nobody asks it to erase.
LEMMA FullMountKeeps ==
  ASSUME IInv, NoErase, FullMount
  PROVE  IInv'
<1> DEFINE t == [p \in Parts |-> Filled(tape[p])]
<1>1. /\ Down /\ OffInv /\ CurrentInv /\ DriveOK /\ AllSound /\ TypeInv /\ JobInv
      /\ UNCHANGED <<head, buf, pending, want, less, written>> /\ tape' = t
  BY DEF FullMount, Down, IInv, TypeInv
<1>2. PICK mode \in Modes : Verdict(t["IP"], t["DP"], mode.deep) \in Parts /\ Checked(t, mode)
  BY DEF FullMount
<1>3. buf = <<>> /\ job = NoJob /\ pending = {} /\ head = <<"none", 1>>
  BY <1>1 DEF OffInv
<1>4. tape \in Tapes /\ Sound(tape)
  <2>1. Now = tape /\ tape \in Tapes
    BY <1>1, <1>3, NowFacts
  <2>2. QED
    BY <1>1, <2>1, BufferFacts DEF AllSound, Now
<1>5. t \in Tapes /\ Sound(t)
  BY <1>4, FilledSound
<1> HIDE DEF t
<1> DEFINE c == Verdict(t["IP"], t["DP"], mode.deep)
           f == FoundIn(t[c])
           block == t[c][f]
           extra == {p \in Parts : ExtraBlocks(t[p])}
           have  == {p \in Parts : FoundIn(t[p]) # 0}
           lost  == IF extra = {} \/ ~mode.extra THEN {}
                    ELSE UNION {LostFound(p, t[p], block.refs) : p \in Parts}
           dirty == have # Parts \/ extra # {} \/ block.self[1] = "DP"
           whole == [p \in Parts |-> p \in have /\ p \notin extra]
           pos(p) == IF p = "IP" /\ whole[p] THEN FoundIn(t[p]) - 1 ELSE EOD(t[p])
<1>6. /\ c \in Parts /\ f \in Nat /\ IsIndex(t, c, f) /\ Newest(t, block.gen) /\ FoundIn(t["DP"]) # 0
      /\ Chosen(t["IP"], t["DP"], mode.deep) = block
      /\ ~mode.deep => extra = {}
  BY <1>2, <1>5, ChosenIsNewest
<1>7. extra # {} => mode.extra
  BY <1>2, <1>6 DEF NoErase
<1>8. block \in IndexRecs /\ block.self = <<c, f>> /\ \A r \in block.refs : Points(t, r) /\ r \in Refs
  BY <1>5, <1>6, TapeFacts DEF Sound, Placed, AllPoint, IndexRecs
<1>9. /\ Loaded(block, dirty, block.refs \cup lost)
      /\ append_pos' = [p \in Parts |-> pos(p)]
      /\ file_end' = (IF dirty THEN whole ELSE [p \in Parts |-> TRUE])
      /\ coh' = [p \in Parts |-> IF p \in have
                                 THEN [count |-> t[p][FoundIn(t[p])].gen, set |-> FoundIn(t[p])]
                                 ELSE [count |-> mam[p].count, set |-> mam[p].set]]
      /\ IF dirty
         THEN /\ StartJob(IF whole["DP"] THEN <<"IP">> ELSE <<"DP", "IP">>, "mount")
              /\ phase' = "mount"
              /\ mam' = IF t = tape THEN mam
                        ELSE [p \in Parts |-> [mam[p] EXCEPT !.current = FALSE]]
         ELSE /\ UNCHANGED job
              /\ phase' = "up"
              /\ mam' = [p \in Parts |-> [current |-> TRUE, count |-> coh'[p].count,
                                          set |-> coh'[p].set]]
  <2> HIDE DEF c, f, block
  <2>1. ~(extra # {} /\ ~mode.extra)
    BY <1>7
  <2>2. QED
    BY <1>2, <1>6, <2>1 DEF Checked
<1> HIDE DEF c, f
<1>10. index' \in Indexes /\ Held(t, index')
  <2> DEFINE refs == block.refs \cup lost
  <2>1. refs \in SUBSET Refs /\ \A r \in refs : Points(t, r)
    <3>1. block.refs \in SUBSET Refs
      BY <1>8
    <3> HIDE DEF block
    <3>2. \A r \in lost : r \in Refs /\ Points(t, r)
      BY <1>5, <1>8, <3>1, LostIsThere
    <3>3. QED
      BY <1>8, <3>1, <3>2
  <2>2. ~dirty => refs = block.refs
    OBVIOUS
  <2>3. dirty \in BOOLEAN
    OBVIOUS
  <2>4. index' = [gen |-> block.gen, self |-> block.self, back |-> block.back, ver |-> block.ver,
                  refs |-> refs, dirty |-> dirty]
    BY <1>9 DEF Loaded
  <2> HIDE DEF refs, dirty
  <2>5. QED
    BY <1>5, <1>6, <2>1, <2>2, <2>3, <2>4, LoadedHeld
<1> HIDE DEF block, lost
<1>11. ASSUME NEW p \in Parts
       PROVE  /\ FoundIn(t[p]) \in Nat /\ EOD(t[p]) \in Nat /\ EOD(t[p]) # 0
              /\ p \in have => /\ IsIndex(t, p, FoundIn(t[p])) /\ FoundIn(t[p]) > 1
                               /\ t[p][FoundIn(t[p])].gen \in Nat
                               /\ \A i \in Nat : IsIndex(t, p, i) => t[p][i].gen <= t[p][FoundIn(t[p])].gen
              /\ whole[p] => LastAt(t, p, FoundIn(t[p]) - 1)
  <2>1. FoundIn(t[p]) \in Nat /\ EOD(t[p]) \in Nat /\ EOD(t[p]) # 0
    BY <1>5, Finds, TapeFacts DEF Sound
  <2>2. ASSUME FoundIn(t[p]) # 0
        PROVE  /\ IsIndex(t, p, FoundIn(t[p])) /\ FoundIn(t[p]) > 1 /\ t[p][FoundIn(t[p])].gen \in Nat
               /\ \A i \in Nat : IsIndex(t, p, i) => t[p][i].gen <= t[p][FoundIn(t[p])].gen
               /\ ~ExtraBlocks(t[p]) => LastAt(t, p, FoundIn(t[p]) - 1)
    <3>1. IsIndex(t, p, FoundIn(t[p])) /\ FoundIn(t[p]) > 1
      BY <1>5, <2>2, Finds DEF Sound
    <3>2. t[p][FoundIn(t[p])].gen \in Nat
      BY <1>5, <3>1, TapeFacts DEF IndexRecs
    <3>3. QED
      BY <1>5, <2>2, <3>1, <3>2, FoundIsNewest, EndsInIndex
  <2>3. QED
    BY <2>1, <2>2
<1>12. /\ \A p \in Parts : mam[p].count \in Nat /\ mam[p].set \in Nat
       /\ mam \in Attributes
  BY <1>1 DEF TypeInv, Attributes
<1>13. /\ coh' \in [Parts -> Coherency]
       /\ \A p \in have : /\ coh'[p].set = FoundIn(t[p])
                          /\ whole[p] \/ p # "IP" => CohOn(t, p, coh'[p])
  <2>1. coh' \in [Parts -> Coherency]
    BY <1>9, <1>11, <1>12 DEF Coherency
  <2>2. ASSUME NEW p \in have
        PROVE  coh'[p].set = FoundIn(t[p]) /\ coh'[p].count = t[p][FoundIn(t[p])].gen
    BY <1>9
  <2>3. ASSUME NEW p \in have, whole[p] \/ p # "IP"
        PROVE  CohOn(t, p, coh'[p])
    <3>1. p \in Parts /\ t[p][FoundIn(t[p])].gen = coh'[p].count /\ coh'[p].set = FoundIn(t[p])
      BY <2>2
    <3> HIDE DEF whole
    <3>2. QED
      BY <1>11, <2>3, <3>1 DEF CohOn
  <2>4. QED
    BY <2>1, <2>2, <2>3
<1>14. /\ file_end' \in [Parts -> BOOLEAN] /\ (file_end'["IP"] => whole["IP"]) /\ (~dirty => \A p \in Parts : whole[p])
       /\ "IP" \in Parts /\ "DP" \in Parts /\ "DP" \in have /\ (whole["IP"] => "IP" \in have)
  <2>1. "IP" \in Parts /\ "DP" \in Parts /\ "DP" \in have /\ (whole["IP"] => "IP" \in have)
    BY <1>6 DEF Parts
  <2>2. ~dirty => \A p \in Parts : whole[p]
    OBVIOUS
  <2>3. whole \in [Parts -> BOOLEAN] /\ [p \in Parts |-> TRUE] \in [Parts -> BOOLEAN]
    OBVIOUS
  <2>4. file_end' = whole \/ (~dirty /\ file_end' = [p \in Parts |-> TRUE])
    BY <1>9
  <2> HIDE DEF whole, dirty
  <2>5. QED
    BY <2>1, <2>2, <2>3, <2>4
<1>15. \A p \in Parts : /\ append_pos'[p] = IF p = "IP" /\ whole[p] THEN FoundIn(t[p]) - 1 ELSE EOD(t[p])
                        /\ append_pos'[p] \in Nat /\ append_pos'[p] # 0 /\ Free(t, p, append_pos'[p])
  <2> HIDE DEF have, extra
  <2> SUFFICES ASSUME NEW p \in Parts
               PROVE  /\ append_pos'[p] = IF p = "IP" /\ whole[p] THEN FoundIn(t[p]) - 1 ELSE EOD(t[p])
                      /\ append_pos'[p] \in Nat /\ append_pos'[p] # 0 /\ Free(t, p, append_pos'[p])
    OBVIOUS
  <2>1. append_pos'[p] = IF p = "IP" /\ whole[p] THEN FoundIn(t[p]) - 1 ELSE EOD(t[p])
    BY <1>9
  <2>2. CASE p = "IP" /\ whole[p]
    <3>1. p \in have
      BY <2>2
    <3>2. append_pos'[p] = FoundIn(t[p]) - 1 /\ FoundIn(t[p]) \in Nat /\ FoundIn(t[p]) > 1 /\ LastAt(t, p, FoundIn(t[p]) - 1)
      BY <1>11, <2>1, <2>2, <3>1
    <3>3. QED
      BY <2>1, <2>2, <3>2 DEF Free
  <2>3. CASE ~(p = "IP" /\ whole[p])
    <3>1. append_pos'[p] = EOD(t[p])
      BY <2>1, <2>3
    <3>2. QED
      BY <1>11, <2>1, <3>1 DEF Free
  <2>4. QED
    BY <2>2, <2>3
<1>16. append_pos' \in [Parts -> Nat]
  <2>1. append_pos' = [p \in Parts |-> append_pos'[p]]
    BY <1>9
  <2>2. QED
    BY <1>15, <2>1
<1>17. file_end'["IP"] => CohOn(t, "IP", coh'["IP"]) /\ append_pos'["IP"] = coh'["IP"].set - 1
  <2> HIDE DEF have, extra, whole
  <2>1. QED
    BY <1>13, <1>14, <1>15
<1>18. CohOn(t, "DP", coh'["DP"])
  BY <1>13, <1>14
<1>19. mam' \in Attributes /\ CurrentInv'
  <2>1. \A p \in Parts : coh'[p].count \in Nat /\ coh'[p].set \in Nat
    BY <1>13 DEF Coherency
  <2>2. CASE dirty
    <3>1. CASE t = tape
      <4>1. mam' = mam
        BY <1>9, <2>2, <3>1
      <4>2. QED
        BY <1>1, <1>12, <3>1, <4>1 DEF CurrentInv
    <3>2. CASE t # tape
      <4>1. mam' = [p \in Parts |-> [mam[p] EXCEPT !.current = FALSE]]
        BY <1>9, <2>2, <3>2
      <4>2. QED
        BY <1>12, <4>1 DEF CurrentInv, Attributes, Parts
    <3>3. QED
      BY <3>1, <3>2
  <2>3. CASE ~dirty
    <3>1. mam' = [p \in Parts |-> [current |-> TRUE, count |-> coh'[p].count, set |-> coh'[p].set]]
      BY <1>9, <2>3
    <3>2. mam' \in Attributes /\ \A p \in Parts : mam'[p].count = coh'[p].count /\ mam'[p].set = coh'[p].set
      BY <2>1, <3>1 DEF Attributes
    <3>3. \A p \in Parts : CohOn(t, p, coh'[p])
      <4>1. CohOn(t, "IP", coh'["IP"])
        <5>1. whole["IP"] /\ "IP" \in have
          BY <1>14, <2>3
        <5> HIDE DEF whole, have
        <5>2. QED
          BY <1>13, <5>1
      <4>2. QED
        BY <1>18, <4>1 DEF Parts
    <3>4. \A p \in Parts : CohOn(t, p, mam'[p])
      BY <3>2, <3>3 DEF CohOn
    <3>5. QED
      BY <1>1, <3>2, <3>4 DEF CurrentInv
  <2>4. QED
    BY <2>2, <2>3
<1>20. /\ job' \in Jobs /\ job'.step = "begin" /\ JobInv' /\ phase' \in {"mount", "up"}
  <2>1. CASE dirty
    <3>1. PICK calls \in {<<"IP">>, <<"DP", "IP">>} : StartJob(calls, "mount")
      BY <1>9, <2>1
    <3>2. calls \in Calls /\ calls # <<>> /\ "mount" \in Thens
      BY CallFacts DEF Parts, Thens
    <3>3. job' \in Jobs /\ job'.step = "begin" /\ job'.calls = calls /\ job'.then = "mount" /\ phase' = "mount"
      BY <1>9, <2>1, <3>1, <3>2, Started
    <3>4. QED
      BY <3>2, <3>3 DEF JobInv
  <2>2. CASE ~dirty
    <3>1. job' = NoJob /\ phase' = "up" /\ job' \in Jobs
      BY <1>1, <1>3, <1>9, <2>2 DEF TypeInv
    <3>2. QED
      BY <3>1 DEF JobInv, Idle, NoJob
  <2>3. QED
    BY <2>1, <2>2
<1> HIDE DEF have, extra, whole, dirty
<1>21. DriveOK' /\ Now' = t /\ AllSound'
  <2>1. "none" \notin Parts
    BY DEF Parts
  <2>2. DriveOK'
    BY <1>1, <1>3, <1>5, <2>1 DEF DriveOK
  <2>3. Len(buf') = 0
    BY <1>1, <1>3
  <2>4. \A k \in 0 .. Len(buf') : View(k)' = t
    BY <1>1, <2>3 DEF View
  <2>5. Now' = t
    BY <1>1, <2>3 DEF Now, View
  <2>6. QED
    BY <1>5, <2>2, <2>4, <2>5 DEF AllSound
<1>22. TypeInv'
  BY <1>1, <1>10, <1>13, <1>14, <1>16, <1>19, <1>20, <1>21 DEF TypeInv, Phases
<1>23. IndexInv'
  BY <1>10, <1>20, <1>21 DEF IndexInv, Writing
<1>24. CohInv'
  BY <1>17, <1>18, <1>20, <1>21 DEF CohInv, Writing
<1>25. PlaceInv'
  BY <1>1, <1>3, <1>15, <1>21 DEF PlaceInv, AppendAt
<1>26. ~Down'
  BY <1>20 DEF Down
<1>27. QED
  BY <1>19, <1>20, <1>21, <1>22, <1>23, <1>24, <1>25, <1>26 DEF IInv, MountedInv

-----------------------------------------------------------------------------
(* The theorems.                                                           *)

\* A volume that mkltfs has made.
LEMMA InitHolds ==
  ASSUME Init
  PROVE  IInv
<1> DEFINE x(p) == IndexBlock([gen |-> 1, self |-> <<p, 2>>, ver |-> 0, refs |-> {},
                               back |-> IF p = "IP" THEN <<"DP", 2>> ELSE None])
<1>1. /\ tape = [p \in Parts |-> <<FM, x(p), FM>>]
      /\ head = <<"none", 1>> /\ buf = <<>>
      /\ mam = [p \in Parts |-> [current |-> TRUE, count |-> 1, set |-> 2]]
      /\ index = NoIndex
      /\ file_end = [p \in Parts |-> FALSE]
      /\ coh = [p \in Parts |-> [count |-> 0, set |-> 0]]
      /\ append_pos = [p \in Parts |-> 0]
      /\ pending = {} /\ want = "none"
      /\ job = NoJob
      /\ phase = "out" /\ less = {}
      /\ written = 0
  BY DEF Init
<1>2. \A p \in Parts : /\ x(p).gen = 1 /\ x(p).self = <<p, 2>> /\ x(p).ver = 0 /\ x(p).refs = {} /\ x(p).kind = "index"
                       /\ x(p).back = (IF p = "IP" THEN <<"DP", 2>> ELSE None)
                       /\ x(p) \in Recs
  <2> SUFFICES ASSUME NEW p \in Parts
               PROVE  /\ x(p).gen = 1 /\ x(p).self = <<p, 2>> /\ x(p).ver = 0 /\ x(p).refs = {} /\ x(p).kind = "index"
                      /\ x(p).back = (IF p = "IP" THEN <<"DP", 2>> ELSE None)
                      /\ x(p) \in Recs
    OBVIOUS
  <2> DEFINE b == IF p = "IP" THEN <<"DP", 2>> ELSE None
  <2>1. b \in Pointers /\ <<p, 2>> \in Places
    BY DEF Pointers, Places, Parts
  <2> HIDE DEF b
  <2>2. x(p) = [kind |-> "index", gen |-> 1, self |-> <<p, 2>>, back |-> b, ver |-> 0, refs |-> {}]
    BY DEF IndexBlock, b
  <2>3. x(p) \in IndexRecs
    BY <2>1, <2>2 DEF IndexRecs
  <2>4. QED
    BY <2>2, <2>3 DEF Recs, b
<1> HIDE DEF x
<1>3. \A p \in Parts : tape[p] = <<FM, x(p), FM>> /\ tape[p] \in Seq(Recs)
  BY <1>1, <1>2, Kinds
<1>4. tape \in Tapes
  BY <1>1, <1>3 DEF Tapes
<1>5. \A p \in Parts : Len(tape[p]) = 3 /\ tape[p][1] = FM /\ tape[p][2] = x(p) /\ tape[p][3] = FM
  <2> SUFFICES ASSUME NEW p \in Parts
               PROVE  Len(tape[p]) = 3 /\ tape[p][1] = FM /\ tape[p][2] = x(p) /\ tape[p][3] = FM
    OBVIOUS
  <2>1. \A y : Len(<<FM, y, FM>>) = 3 /\ <<FM, y, FM>>[1] = FM /\ <<FM, y, FM>>[2] = y /\ <<FM, y, FM>>[3] = FM
    OBVIOUS
  <2>2. tape[p] = <<FM, x(p), FM>>
    BY <1>3
  <2>3. QED
    BY <2>1, <2>2
<1>6. \A p \in Parts, i \in Nat : IsIndex(tape, p, i) <=> i = 2
  <2> SUFFICES ASSUME NEW p \in Parts, NEW i \in Nat PROVE IsIndex(tape, p, i) <=> i = 2
    OBVIOUS
  <2>1. DOMAIN tape[p] = 1 .. 3
    BY <1>3, <1>5
  <2>2. i \in 1 .. 3 => i = 1 \/ i = 2 \/ i = 3
    OBVIOUS
  <2>3. QED
    BY <1>2, <1>5, <2>1, <2>2, Kinds DEF IsIndex
<1>7. \A p \in Parts : tape[p][2].gen = 1 /\ tape[p][2].self = <<p, 2>> /\ tape[p][2].ver = 0 /\ tape[p][2].refs = {}
                       /\ tape[p][2].back = (IF p = "IP" THEN <<"DP", 2>> ELSE None)
  BY <1>2, <1>5
<1>8. Sound(tape)
  <2>1. Labelled(tape)
    BY <1>6 DEF Labelled, Parts
  <2>2. Placed(tape)
    BY <1>5, <1>6, <1>7 DEF Placed
  <2>3. AllPoint(tape)
    BY <1>6, <1>7 DEF AllPoint
  <2>4. Ordered(tape)
    BY <1>6 DEF Ordered
  <2>5. Alike(tape)
    BY <1>6, <1>7 DEF Alike
  <2>6. AllLead(tape)
    BY <1>6, <1>7 DEF AllLead, Leads, Parts
  <2>7. QED
    BY <2>1, <2>2, <2>3, <2>4, <2>5, <2>6 DEF Sound
<1>9. DriveOK
  BY <1>1, <1>4 DEF DriveOK, Parts
<1>10. AllSound
  BY <1>1, <1>8 DEF AllSound, View
<1>11. JobInv
  BY <1>1 DEF JobInv, NoJob, Idle
<1>12. CurrentInv
  <2>1. \A p \in Parts : mam[p].count = 1 /\ mam[p].set = 2
    BY <1>1
  <2>2. \A p \in Parts : LastAt(tape, p, 2 - 1)
    <3>1. 2 - 1 = 1 /\ 1 + 1 = 2 /\ 1 + 2 = 3
      OBVIOUS
    <3>2. \A p \in Parts : IsIndex(tape, p, 2)
      BY <1>6
    <3>3. \A p \in Parts : LastAt(tape, p, 1)
      <4> SUFFICES ASSUME NEW p \in Parts PROVE LastAt(tape, p, 1)
        OBVIOUS
      <4>1. IsIndex(tape, p, 1 + 1)
        BY <3>1, <3>2
      <4>2. Len(tape[p]) <= 1 + 2 /\ tape[p][1 + 2] = FM
        <5>1. Len(tape[p]) = 3 /\ tape[p][3] = FM
          BY <1>5
        <5>2. Len(tape[p]) <= 3
          BY <5>1
        <5>3. QED
          BY <3>1, <5>1, <5>2
      <4>3. QED
        BY <4>1, <4>2 DEF LastAt
    <3>4. QED
      BY <3>1, <3>3
  <2>3. \A p \in Parts : CohOn(tape, p, mam[p])
    BY <1>6, <1>7, <2>1, <2>2 DEF CohOn
  <2>4. QED
    BY <2>3 DEF CurrentInv
<1>13. TypeInv
  <2>1. mam \in Attributes
    BY <1>1 DEF Attributes
  <2>2. index \in Indexes
    BY <1>1 DEF NoIndex, Indexes, Pointers
  <2>3. job \in Jobs
    BY <1>1 DEF NoJob, Jobs, Calls, Steps, Thens
  <2>4. file_end \in [Parts -> BOOLEAN] /\ append_pos \in [Parts -> Nat] /\ coh \in [Parts -> Coherency]
    BY <1>1 DEF Coherency
  <2>5. QED
    BY <1>1, <1>9, <2>1, <2>2, <2>3, <2>4 DEF TypeInv, Phases
<1>14. Down /\ OffInv
  BY <1>1 DEF Down, OffInv
<1>15. QED
  BY <1>10, <1>11, <1>12, <1>13, <1>14 DEF IInv

LEMMA NextKeeps ==
  ASSUME IInv, NoErase, Next
  PROVE  IInv'
  BY DataPartitionFirstKeeps, LocateAppendKeeps, WriteIndexKeeps, FlushIndexKeeps, EndWriteIndexKeeps,
     WriteDataKeeps, PutDataKeeps, AddExtentKeeps, UpdateKeeps, ChoosePartitionKeeps, SyncKeeps,
     UnmountKeeps, CloseKeeps, CrashKeeps, QuickMountKeeps, FullMountKeeps DEF Next

LEMMA StutterKeeps ==
  ASSUME IInv, UNCHANGED vars
  PROVE  IInv'
<1>1. UNCHANGED <<medium, volume, job, phase, less, written>>
  BY DEF vars
<1>2. DriveOK' /\ AllSound' /\ CurrentInv' /\ Now' = Now /\ Here' = Here /\ \A p \in Parts : Seen(p)' = Seen(p)
  BY <1>1, SameMedium DEF IInv, TypeInv
<1>3. TypeInv' /\ JobInv'
  BY <1>1, <1>2 DEF IInv, TypeInv, JobInv, Idle, medium, volume
<1>4. Down => OffInv'
  BY <1>1 DEF IInv, OffInv, medium, volume
<1>5. ~Down => MountedInv'
  <2> SUFFICES ASSUME ~Down PROVE MountedInv'
    OBVIOUS
  <2>1. IndexInv' /\ CohInv'
    BY <1>1, <1>2 DEF IInv, MountedInv, IndexInv, CohInv, Writing, Part, medium, volume
  <2>2. PlaceInv'
    BY <1>1, <1>2 DEF IInv, MountedInv, PlaceInv, AppendAt, volume
  <2>3. QED
    BY <2>1, <2>2 DEF MountedInv
<1>6. QED
  BY <1>1, <1>2, <1>3, <1>4, <1>5 DEF IInv, Down

THEOREM Inductive == NoErase => (Spec => []IInv)
<1> SUFFICES ASSUME NoErase PROVE Spec => []IInv
  OBVIOUS
<1>1. Init => IInv
  BY InitHolds
<1>2. IInv /\ [Next]_vars => IInv'
  BY NextKeeps, StutterKeeps
<1>3. QED
  BY <1>1, <1>2, PTL DEF Spec

LEMMA NowSound ==
  ASSUME IInv
  PROVE  DriveOK /\ Now \in Tapes /\ Sound(Now) /\ Sound(tape) /\ tape \in Tapes /\ \A p \in Parts : Seen(p) = Now[p]
<1>1. DriveOK /\ AllSound
  BY DEF IInv, TypeInv
<1>2. Sound(View(0)) /\ Sound(Now)
  BY <1>1, BufferFacts DEF AllSound, Now
<1>3. QED
  BY <1>1, <1>2, NowFacts DEF View, DriveOK

LEMMA OnTapeFacts ==
  ASSUME IInv, NEW x \in OnTape
  PROVE  \E p \in Parts, i \in Nat : IsIndex(Now, p, i) /\ x = Now[p][i] /\ x \in IndexRecs
<1>1. PICK p \in Parts : x \in {Seen(p)[i] : i \in Complete(Seen(p))}
  BY DEF OnTape
<1>2. PICK i \in Complete(Now[p]) : x = Now[p][i]
  BY <1>1, NowSound
<1>3. i \in Nat /\ IsIndex(Now, p, i)
  BY <1>2, NowSound, TapeFacts DEF Complete, IsIndex
<1>4. QED
  BY <1>2, <1>3, NowSound, TapeFacts

LEMMA PointsIntact ==
  ASSUME IInv, NEW refs \in SUBSET Refs, \A r \in refs : Points(Now, r)
  PROVE  Intact(refs)
<1> SUFFICES ASSUME NEW r \in refs
             PROVE  /\ r.at[2] \in DOMAIN Seen(r.at[1])
                    /\ \/ Seen(r.at[1])[r.at[2]] = Data(r.id)
                       \/ r.id = 0 /\ Seen(r.at[1])[r.at[2]].kind # "fm"
  BY DEF Intact
<1>1. r.at[1] \in Parts /\ Points(Now, r)
  BY DEF Refs, Places
<1>2. Seen(r.at[1]) = Now[r.at[1]]
  BY <1>1, NowSound
<1>3. QED
  BY <1>1, <1>2, Kinds DEF Points

LEMMA IntactHolds == IInv => RefsIntact
<1> SUFFICES ASSUME IInv PROVE RefsIntact
  OBVIOUS
<1>1. Intact(index.refs)
  <2>1. CASE Down
    BY <2>1 DEF IInv, OffInv, NoIndex, Intact
  <2>2. CASE ~Down
    <3>1. Backed(Now, index)
      BY <2>2 DEF IInv, TypeInv, MountedInv, IndexInv, Writing, Held, Jobs, Steps
    <3>2. index.refs \in SUBSET Refs
      BY DEF IInv, TypeInv, Indexes
    <3>3. QED
      BY <3>1, <3>2, PointsIntact DEF Backed
  <2>3. QED
    BY <2>1, <2>2
<1>2. ASSUME NEW x \in OnTape
      PROVE  Intact(x.refs)
  <2>1. PICK p \in Parts, i \in Nat : IsIndex(Now, p, i) /\ x = Now[p][i] /\ x \in IndexRecs
    BY OnTapeFacts
  <2>2. x.refs \in SUBSET Refs /\ \A r \in x.refs : Points(Now, r)
    BY <2>1, NowSound DEF IndexRecs, Sound, AllPoint
  <2>3. QED
    BY <2>2, PointsIntact
<1>3. QED
  BY <1>1, <1>2 DEF RefsIntact

\* No index names a block that something else was written over. (ltfs.c:2207-2337,
\* 1715; the append position never falls before data that an index counts on)
THEOREM RefsStayIntact == NoErase => (Spec => []RefsIntact)
  BY IntactHolds, Inductive, PTL

-----------------------------------------------------------------------------
(* A volume that nothing has gone wrong with: both partitions end in an     *)
(* index, the one of the index partition points to the other.  While it is  *)
(* mounted, the index in memory and the end flags say how far it is from    *)
(* that, and whether an index has still to be written at unmount.           *)

LastDP(m, i) == IsIndex(m, "DP", i) /\ \A j \in Nat : IsIndex(m, "DP", j) => j <= i
Ends(m, p) == \E a \in Nat : LastAt(m, p, a)

\* The index in memory is the last one of the data partition, or points to it.
Tied(m, ix) ==
  \/ ix.self[1] = "DP" /\ LastDP(m, ix.self[2])
  \/ ix.self[1] = "IP" /\ ix.back[1] = "DP" /\ LastDP(m, ix.back[2])

\* It ends the index partition.
Topped(m, ix) ==
  /\ LastAt(m, "IP", ix.self[2] - 1)
  /\ m["IP"][ix.self[2]].back = ix.back /\ m["IP"][ix.self[2]].gen = ix.gen

CallsInv ==
  /\ job.then = "unmount" => job.calls \in {<<"IP">>, <<"DP", "IP">>}
  /\ job.then = "IP" => job.calls \in {<<>>, <<"DP">>}

TieInv == ~(job.step = "write" /\ Part = "DP") => Tied(Now, index)
EndInv == \A p \in Parts : file_end[p] => Ends(Now, p)
TopInv == job.step # "write" /\ index.self[1] = "IP" /\ file_end["IP"] => Topped(Now, index)

\* The data partition has its index before the index partition gets one, and before
\* data go over the index there.
TurnInv ==
  /\ job.calls # <<>> /\ Part = "IP" /\ (job.tried \/ job.step # "begin") => file_end["DP"]
  /\ job.then = "IP" /\ job.calls = <<>> => index.self[1] = "DP"

\* What is not behind an index yet makes ltfs_unmount write one.
SavedInv ==
  /\ ~file_end["DP"] => index.dirty \/ \E r \in pending : r.at[1] = "DP"
  /\ job.step = "begin" /\ index.self[1] = "IP" => file_end["IP"]

ClosedInv ==
  /\ phase # "failed"
  /\ phase = "closing" => index.self[1] = "IP" /\ \A p \in Parts : file_end[p]

CleanUp == TieInv /\ EndInv /\ TopInv /\ TurnInv /\ (phase # "mount" => SavedInv) /\ ClosedInv

Whole(m) ==
  /\ \A p \in Parts : Ends(m, p)
  /\ \E i \in Nat : /\ LastAt(m, "IP", i - 1) /\ IsIndex(m, "IP", i)
                    /\ m["IP"][i].back[1] = "DP" /\ LastDP(m, m["IP"][i].back[2])
                    /\ \A j \in Nat : IsIndex(m, "DP", j) => m["DP"][j].gen <= m["IP"][i].gen

CleanInv == CallsInv /\ (clean => /\ ~Down => CleanUp
                                  /\ Down => phase = "out" /\ Whole(tape))

LEMMA LastIsLast ==
  ASSUME NEW m \in Tapes, NEW p \in Parts, NEW a \in Nat, LastAt(m, p, a)
  PROVE  IsIndex(m, p, a + 1) /\ \A j \in Nat : IsIndex(m, p, j) => j <= a + 1
<1>1. IsIndex(m, p, a + 1) /\ Len(m[p]) <= a + 2 /\ (Len(m[p]) = a + 2 => m[p][a + 2] = FM)
  BY DEF LastAt
<1>2. QED
  BY <1>1, TapeFacts, Kinds DEF IsIndex

\* A call of ltfs_write_index that ends leaves the right ones to do.
LEMMA CallsLeft ==
  ASSUME job \in Jobs, job.calls # <<>>, CallsInv, NEW ok \in BOOLEAN,
         IF Len(job.calls) > 1
         THEN /\ job' = [job EXCEPT !.calls = Tail(@), !.step = "begin"]
              /\ UNCHANGED <<phase, file_end>>
         ELSE Finish(ok)
  PROVE  CallsInv'
<1>1. CASE Len(job.calls) > 1
  <2>1. job' = [job EXCEPT !.calls = <<"IP">>, !.step = "begin"] /\ job.calls = <<"DP", "IP">>
    BY <1>1, CallFacts DEF Jobs
  <2>2. job'.then = job.then /\ job'.calls = <<"IP">>
    BY <2>1 DEF Jobs
  <2>3. job.then # "IP"
    <3>1. <<"DP", "IP">> # <<>> /\ <<"DP", "IP">> # <<"DP">>
      OBVIOUS
    <3>2. QED
      BY <2>1, <3>1 DEF CallsInv
  <2>4. QED
    BY <2>2, <2>3 DEF CallsInv
<1>2. CASE ~(Len(job.calls) > 1)
  <2>1. \/ job' = NoJob
        \/ job' = [NoJob EXCEPT !.then = job.then] /\ job.then \in Parts
    BY <1>2 DEF Finish
  <2>2. job'.calls = <<>> /\ job'.then # "unmount"
    BY <2>1 DEF NoJob, Parts
  <2>3. QED
    BY <2>2 DEF CallsInv
<1>3. QED
  BY <1>1, <1>2

\* A step between calls of ltfs_write_index that moves neither the medium nor what
\* the index says of its place.
LEMMA PlaceStays ==
  ASSUME CleanInv, CallsInv', ~Down, ~Down', clean' = clean, Now' = Now, file_end' = file_end,
         index'.self = index.self, index'.back = index.back, index'.gen = index.gen,
         job.step = "begin", job'.step = "begin",
         clean /\ CleanUp => TurnInv' /\ (phase' # "mount" => SavedInv') /\ ClosedInv'
  PROVE  CleanInv'
<1> SUFFICES ASSUME clean' PROVE CleanUp'
  BY DEF CleanInv
<1>1. clean /\ CleanUp
  BY DEF CleanInv
<1>2. TieInv' /\ TopInv'
  BY <1>1 DEF CleanUp, TieInv, TopInv, Tied, Topped
<1>3. EndInv'
  BY <1>1 DEF CleanUp, EndInv
<1>4. QED
  BY <1>1, <1>2, <1>3 DEF CleanUp

\* Who starts a call has none under way.
LEMMA IdleClean ==
  ASSUME IInv, CleanInv, phase = "up", Idle, clean
  PROVE  CleanUp /\ SavedInv /\ job.step = "begin" /\ ~Down
<1>1. ~Down /\ job.step = "begin"
  BY IdleHeld
<1>2. QED
  BY <1>1 DEF CleanInv, CleanUp

LEMMA DataPartitionFirstClean ==
  ASSUME IInv, CleanInv, DataPartitionFirst
  PROVE  CleanInv'
<1>1. job.calls # <<>> /\ job.step = "begin" /\ job \in Jobs /\ job # NoJob
  BY DEF DataPartitionFirst, IInv, TypeInv, NoJob
<1>2. ~Down /\ ~Down'
  BY <1>1, BusyIsUp DEF DataPartitionFirst, Down
<1>3. job.calls = <<"IP">>
  BY <1>1, CallFacts DEF DataPartitionFirst, Jobs, Part
<1>4. job'.calls = <<"DP", "IP">> /\ job'.step = "begin" /\ job'.then = job.then
  <2>1. job' = [job EXCEPT !.calls = <<"DP">> \o @, !.tried = TRUE]
    BY DEF DataPartitionFirst
  <2>2. job'.calls = <<"DP">> \o <<"IP">>
    BY <1>1, <1>3, <2>1 DEF Jobs
  <2>3. QED
    BY <1>1, <2>1, <2>2, CallFacts DEF Jobs
<1>5. <<"IP">> # <<>> /\ <<"IP">> # <<"DP">> /\ <<"DP", "IP">> # <<>>
  OBVIOUS
<1>6. CallsInv'
  BY <1>3, <1>4, <1>5 DEF CleanInv, CallsInv
<1>7. clean /\ CleanUp => TurnInv' /\ (phase' # "mount" => SavedInv') /\ ClosedInv'
  <2> SUFFICES ASSUME clean, CleanUp PROVE TurnInv' /\ (phase' # "mount" => SavedInv') /\ ClosedInv'
    OBVIOUS
  <2>1. Part' = "DP"
    BY <1>4, CallFacts DEF Part
  <2>2. TurnInv'
    BY <1>4, <1>5, <2>1 DEF TurnInv
  <2>3. QED
    BY <1>1, <1>4, <2>2 DEF CleanUp, SavedInv, ClosedInv, DataPartitionFirst, volume
<1>8. QED
  BY <1>1, <1>2, <1>4, <1>6, <1>7, SameMedium, PlaceStays DEF DataPartitionFirst, volume, ghosts

LEMMA WriteDataClean ==
  ASSUME IInv, CleanInv, NEW p \in Parts, WriteData(p)
  PROVE  CleanInv'
<1>1. phase = "up" /\ Idle
  BY DEF WriteData
<1>2. ~Down /\ ~Down' /\ job.step = "begin"
  BY <1>1, IdleHeld DEF WriteData, Down
<1>3. PICK calls \in Calls : /\ StartJob(calls, p)
                             /\ p = "IP" => calls = (IF NeedsDP THEN <<"DP">> ELSE <<>>)
                             /\ p = "DP" => calls \in {<<>>, <<"IP">>}
  BY DEF WriteData, Calls, Parts
<1>4. job'.calls = calls /\ job'.then = p /\ job'.step = "begin" /\ ~job'.tried
  BY <1>3 DEF StartJob, NoJob
<1>5. CallsInv'
  BY <1>3, <1>4 DEF CallsInv, Parts
<1>6. clean /\ CleanUp => TurnInv' /\ (phase' # "mount" => SavedInv') /\ ClosedInv'
  <2> SUFFICES ASSUME clean, CleanUp PROVE TurnInv' /\ (phase' # "mount" => SavedInv') /\ ClosedInv'
    OBVIOUS
  <2>1. Tied(Now, index) /\ SavedInv
    BY <1>1, <1>2 DEF CleanUp, TieInv
  <2>2. p = "IP" /\ calls = <<>> => index.self[1] = "DP"
    <3>1. <<"DP">> # <<>>
      OBVIOUS
    <3>2. QED
      BY <1>2, <1>3, <2>1, <3>1 DEF Tied, SavedInv, NeedsDP
  <2>3. TurnInv'
    BY <1>4, <2>2 DEF TurnInv, WriteData, volume
  <2>4. QED
    BY <1>2, <1>4, <2>1, <2>3 DEF SavedInv, ClosedInv, CleanUp, WriteData, volume
<1>7. QED
  BY <1>2, <1>4, <1>5, <1>6, SameMedium, PlaceStays DEF WriteData, volume, ghosts

LEMMA SyncClean ==
  ASSUME IInv, CleanInv, Sync
  PROVE  CleanInv'
<1>1. phase = "up" /\ Idle
  BY DEF Sync
<1>2. ~Down /\ ~Down' /\ job.step = "begin"
  BY <1>1, IdleHeld DEF Sync, Down
<1>3. job'.then = "sync" /\ job'.step = "begin" /\ ~job'.tried
  BY DEF Sync, StartJob, NoJob
<1>4. CallsInv'
  BY <1>3 DEF CallsInv
<1>5. clean /\ CleanUp => TurnInv' /\ (phase' # "mount" => SavedInv') /\ ClosedInv'
  BY <1>1, <1>2, <1>3 DEF CleanUp, TurnInv, SavedInv, ClosedInv, Sync
<1>6. QED
  BY <1>2, <1>3, <1>4, <1>5, SameMedium, PlaceStays DEF Sync, ghosts

LEMMA ChoosePartitionClean ==
  ASSUME IInv, CleanInv, ChoosePartition
  PROVE  CleanInv'
<1>1. phase = "up" /\ Idle
  BY DEF ChoosePartition
<1>2. ~Down /\ ~Down' /\ job.step = "begin" /\ job' = job
  BY <1>1, IdleHeld DEF ChoosePartition, Down
<1>3. CallsInv'
  BY <1>2 DEF CleanInv, CallsInv
<1>4. clean /\ CleanUp => TurnInv' /\ (phase' # "mount" => SavedInv') /\ ClosedInv'
  BY <1>1, <1>2 DEF CleanUp, TurnInv, SavedInv, ClosedInv, ChoosePartition, Part
<1>5. QED
  BY <1>2, <1>3, <1>4, SameMedium, PlaceStays DEF ChoosePartition, ghosts

\* The tree changes: what is taken out of pending leaves the dirty mark behind.
LEMMA TreeClean ==
  ASSUME IInv, CleanInv, phase = "up", Idle, UNCHANGED <<medium, file_end, job, phase, clean>>,
         NEW refs, Change(refs)
  PROVE  CleanInv'
<1>1. ~Down /\ ~Down' /\ job.step = "begin" /\ index \in Indexes
  BY IdleHeld DEF Down
<1>2. index'.self = index.self /\ index'.back = index.back /\ index'.gen = index.gen /\ index'.dirty
  BY <1>1 DEF Change, Indexes
<1>3. CallsInv'
  BY DEF CleanInv, CallsInv
<1>4. clean /\ CleanUp => TurnInv' /\ (phase' # "mount" => SavedInv') /\ ClosedInv'
  BY <1>1, <1>2 DEF CleanUp, TurnInv, SavedInv, ClosedInv, Part
<1>5. QED
  BY <1>1, <1>2, <1>3, <1>4, SameMedium, PlaceStays

LEMMA UnmountClean ==
  ASSUME IInv, CleanInv, Unmount
  PROVE  CleanInv'
<1>1. phase = "up" /\ Idle
  BY DEF Unmount
<1>2. ~Down /\ ~Down' /\ job.step = "begin" /\ index \in Indexes
  BY <1>1, IdleHeld DEF Unmount, Down
<1>3. PICK push \in SUBSET pending :
        /\ IF push # {} THEN Change(index.refs \cup push) ELSE UNCHANGED index
        /\ IF WriteAtUnmount(push # {} \/ index.dirty)
           THEN StartJob(<<"IP">>, "unmount") /\ phase' = "unmount"
           ELSE phase' = "closing" /\ UNCHANGED job
  BY DEF Unmount
<1>4. /\ index'.self = index.self /\ index'.back = index.back /\ index'.gen = index.gen
      /\ index'.dirty = (push # {} \/ index.dirty)
  BY <1>2, <1>3 DEF Change, Indexes
<1>5. \/ job'.calls = <<"IP">> /\ job'.then = "unmount" /\ job'.step = "begin" /\ ~job'.tried /\ phase' = "unmount"
      \/ job' = job /\ phase' = "closing" /\ ~WriteAtUnmount(push # {} \/ index.dirty)
  BY <1>3 DEF StartJob, NoJob
<1>6. CallsInv' /\ job'.step = "begin"
  <2>1. job.then = "none" /\ job.step = "begin"
    BY <1>1 DEF Idle, NoJob
  <2>2. job'.step = "begin" /\ (job'.then = "none" \/ (job'.then = "unmount" /\ job'.calls = <<"IP">>))
    BY <1>5, <2>1
  <2>3. QED
    BY <2>2 DEF CallsInv
<1>7. clean /\ CleanUp => TurnInv' /\ (phase' # "mount" => SavedInv') /\ ClosedInv'
  <2> SUFFICES ASSUME clean, CleanUp PROVE TurnInv' /\ (phase' # "mount" => SavedInv') /\ ClosedInv'
    OBVIOUS
  <2>1. SavedInv /\ Tied(Now, index) /\ file_end \in [Parts -> BOOLEAN]
    BY <1>1, <1>2 DEF CleanUp, TieInv, IInv, TypeInv
  <2>2. job'.calls # <<>> => ~job'.tried /\ job'.step = "begin"
    BY <1>1, <1>5 DEF Idle, NoJob
  <2>3. job'.then # "IP"
    BY <1>1, <1>5 DEF Idle, NoJob
  <2>4. TurnInv'
    BY <2>2, <2>3 DEF TurnInv
  <2>5. ~file_end["DP"] => index.dirty
    BY <2>1 DEF SavedInv, Unmount
  <2>6. SavedInv'
    BY <1>2, <1>4, <2>1, <2>5 DEF SavedInv, Unmount
  <2>7. ClosedInv'
    BY <1>2, <1>4, <1>5, <2>1, <2>5 DEF ClosedInv, SavedInv, WriteAtUnmount, Unmount, Parts
  <2>8. QED
    BY <2>4, <2>6, <2>7
<1>8. QED
  BY <1>2, <1>4, <1>6, <1>7, SameMedium, PlaceStays DEF Unmount, ghosts

\* What a failure leaves need not be clean.
LEMMA SpoiltClean ==
  ASSUME ~clean', CallsInv'
  PROVE  CleanInv'
  BY DEF CleanInv

LEMMA FailedClean ==
  ASSUME IInv, CleanInv, job.calls # <<>>, NEW old, Failed(old)
  PROVE  CleanInv'
<1>1. CallsInv'
  BY CallsLeft DEF Failed, CleanInv, IInv, TypeInv
<1>2. QED
  BY <1>1, SpoiltClean DEF Failed

LEMMA CrashClean ==
  ASSUME CleanInv, Crash
  PROVE  CleanInv'
<1>1. CallsInv'
  BY DEF Crash, Forgotten, NoJob, CallsInv
<1>2. QED
  BY <1>1, SpoiltClean DEF Crash

\* A step within a call.
LEMMA StepKeeps ==
  ASSUME IInv, CleanInv, job.calls # <<>>, NEW s \in Steps, NEW old \in {<<>>} \cup Indexes,
         job' = [job EXCEPT !.step = s, !.old = old], s # "begin", phase' = phase, clean' = clean,
         clean /\ CleanUp => TieInv' /\ EndInv' /\ TopInv'
                             /\ (Part = "IP" => file_end'["DP"])
                             /\ (~file_end'["DP"] => ~file_end["DP"]) /\ pending' = pending /\ index'.dirty = index.dirty
  PROVE  CleanInv'
<1>1. job \in Jobs /\ job # NoJob /\ JobInv
  BY DEF IInv, TypeInv, NoJob
<1>2. ~Down /\ ~Down' /\ phase # "closing" /\ phase # "failed"
  BY <1>1, BusyIsUp DEF Down, JobInv, Idle
<1>3. job'.calls = job.calls /\ job'.then = job.then /\ job'.step = s /\ Part' = Part
  BY <1>1 DEF Jobs, Part
<1>4. CallsInv'
  BY <1>3 DEF CleanInv, CallsInv
<1> SUFFICES ASSUME clean' PROVE CleanUp'
  BY <1>2, <1>4 DEF CleanInv
<1>5. clean /\ CleanUp
  BY <1>2 DEF CleanInv
<1>6. TurnInv'
  BY <1>3, <1>5 DEF TurnInv
<1>7. phase' # "mount" => SavedInv'
  BY <1>3, <1>5 DEF CleanUp, SavedInv
<1>8. ClosedInv'
  BY <1>2 DEF ClosedInv
<1>9. QED
  BY <1>5, <1>6, <1>7, <1>8 DEF CleanUp

LEMMA FlushedNow ==
  ASSUME DriveOK, Written(Len(buf), <<>>)
  PROVE  tape' = Now /\ Now' = Now
<1>1. tape' = Now /\ buf' = <<>>
  BY FlushKeeps
<1>2. QED
  BY <1>1 DEF Now, View

LEMMA LocateAppendClean ==
  ASSUME IInv, CleanInv, LocateAppend
  PROVE  CleanInv'
<1>1. job.calls # <<>> /\ job.step = "begin" /\ ~(Part = "IP" /\ ~job.tried /\ NeedsDP) /\ pending' = pending
  BY DEF LocateAppend
<1>2. job # NoJob /\ job \in Jobs /\ DriveOK /\ index \in Indexes /\ Part \in Parts
  BY <1>1, CallFacts DEF NoJob, IInv, TypeInv, Part, Jobs
<1>3. ~Down
  BY <1>1, <1>2, BusyIsUp
<1>4. CASE Failed(index)
  BY <1>1, <1>4, FailedClean
<1>5. CASE /\ \/ Written(Len(buf), <<>>)
              \/ Locate(<<Part, AppendAt(Part)>>, <<>>)
           /\ index' = [index EXCEPT !.gen = NextGeneration(index),
                                     !.back = IF index.self[1] = "DP" THEN index.self ELSE @,
                                     !.self = SelfPointer(<<Part, AppendAt(Part)>>)]
           /\ job' = [job EXCEPT !.step = "write", !.old = index]
           /\ UNCHANGED <<file_end, phase, clean>>
  <2>1. Now' = Now
    BY <1>2, <1>3, <1>5, FlushedNow, PlaceFacts, LocateKeeps
  <2>2. /\ index'.self[1] = Part /\ index'.dirty = index.dirty
        /\ index'.back = (IF index.self[1] = "DP" THEN index.self ELSE index.back)
    BY <1>2, <1>5 DEF Indexes, SelfPointer
  <2>3. job'.step = "write" /\ Part' = Part
    BY <1>2, <1>5 DEF Jobs, Part
  <2>4. ASSUME clean, CleanUp
        PROVE  TieInv' /\ EndInv' /\ TopInv' /\ (Part = "IP" => file_end'["DP"])
    <3>1. Tied(Now, index)
      BY <1>1, <2>4 DEF CleanUp, TieInv
    <3>2. TieInv'
      BY <1>2, <2>1, <2>2, <2>3, <3>1 DEF TieInv, Tied, Parts
    <3>3. EndInv' /\ TopInv'
      BY <1>5, <2>1, <2>3, <2>4 DEF CleanUp, EndInv, TopInv
    <3>4. Part = "IP" => file_end["DP"]
      BY <1>1, <2>4 DEF CleanUp, TurnInv, NeedsDP
    <3>5. QED
      BY <1>5, <3>2, <3>3, <3>4
  <2>5. "write" \in Steps /\ index \in {<<>>} \cup Indexes
    BY <1>2 DEF Steps
  <2>6. QED
    BY <1>1, <1>5, <2>2, <2>4, <2>5, StepKeeps
<1>6. QED
  BY <1>4, <1>5 DEF LocateAppend

LEMMA FlushIndexClean ==
  ASSUME IInv, CleanInv, FlushIndex
  PROVE  CleanInv'
<1>1. job.step = "flush" /\ job.calls # <<>> /\ job \in Jobs /\ DriveOK /\ file_end \in [Parts -> BOOLEAN]
  BY DEF FlushIndex, IInv, JobInv, TypeInv
<1>2. job # NoJob /\ Part \in Parts
  BY <1>1, CallFacts DEF NoJob, Jobs, Part
<1>3. /\ index.self[1] = Part /\ IsIndex(Now, Part, index.self[2]) /\ Now[Part][index.self[2]] = IndexBlock(index)
      /\ LastAt(Now, Part, index.self[2] - 1)
  BY <1>1, <1>2, BusyIsUp DEF MountedInv, IndexInv, Writing
<1>4. Now' = Now
  BY <1>1, FlushedNow DEF FlushIndex
<1>5. job' = [job EXCEPT !.step = "mam", !.old = job.old] /\ job.old \in {<<>>} \cup Indexes /\ "mam" \in Steps
  BY <1>1 DEF FlushIndex, Jobs, Steps
<1>6. Part' = Part /\ job'.step = "mam"
  BY <1>1, <1>5 DEF Jobs, Part
<1>7. file_end' = [file_end EXCEPT ![Part] = TRUE] /\ UNCHANGED <<index, pending, phase, clean>>
  BY DEF FlushIndex, ghosts
<1>8. file_end'[Part] /\ \A q \in Parts : q # Part => file_end'[q] = file_end[q]
  BY <1>1, <1>2, <1>7
<1>9. Ends(Now, Part)
  <2>1. index.self[2] \in Nat /\ index.self[2] > 1
    BY <1>2, <1>3, NowSound, TapeFacts DEF Sound, Placed
  <2>2. QED
    BY <1>3, <2>1 DEF Ends
<1>10. ASSUME clean, CleanUp
       PROVE  TieInv' /\ EndInv' /\ TopInv' /\ (Part = "IP" => file_end'["DP"]) /\ (~file_end'["DP"] => ~file_end["DP"])
  <2>1. TieInv'
    BY <1>1, <1>4, <1>6, <1>7, <1>10 DEF CleanUp, TieInv
  <2>2. EndInv'
    BY <1>4, <1>8, <1>9, <1>10 DEF CleanUp, EndInv
  <2>3. TopInv'
    BY <1>3, <1>4, <1>7 DEF TopInv, Topped, IndexBlock
  <2>4. (Part = "IP" => file_end'["DP"]) /\ (~file_end'["DP"] => ~file_end["DP"])
    BY <1>1, <1>2, <1>8, <1>10 DEF CleanUp, TurnInv, Parts
  <2>5. QED
    BY <2>1, <2>2, <2>3, <2>4
<1>11. QED
  BY <1>1, <1>5, <1>7, <1>10, StepKeeps

\* What happens in one partition leaves the end of the other, and records that are
\* no index leave the last index of the data partition.
LEMMA OtherEnds ==
  ASSUME NEW m, NEW t, NEW q, t[q] = m[q]
  PROVE  /\ Ends(m, q) => Ends(t, q)
         /\ q = "DP" => \A i : LastDP(m, i) => LastDP(t, i)
         /\ q = "IP" => \A ix : Topped(m, ix) => Topped(t, ix)
  BY DEF Ends, LastAt, LastDP, Topped, IsIndex

LEMMA LastKept ==
  ASSUME NEW m, NEW t, Keeps(m, t), Among(t, m), NEW i \in Nat, LastDP(m, i)
  PROVE  LastDP(t, i)
<1>1. IsIndex(t, "DP", i)
  BY DEF LastDP, Keeps
<1>2. \A j \in Nat : IsIndex(t, "DP", j) => j <= i
  BY DEF LastDP, Among, Parts
<1>3. QED
  BY <1>1, <1>2 DEF LastDP

LEMMA WriteIndexClean ==
  ASSUME IInv, CleanInv, WriteIndex
  PROVE  CleanInv'
<1> DEFINE p == Part
           a == AppendAt(p)
           recs == <<FM, IndexBlock(index), FM>>
           t == Spliced(Now, p, a, recs)
<1>1. job.step = "write" /\ pending' = pending
  BY DEF WriteIndex
<1>2. /\ job.calls # <<>> /\ p \in Parts /\ ~Down /\ phase \in {"mount", "up", "unmount"}
      /\ Backed(Now, index) /\ Same(Now, index) /\ index \in Indexes
      /\ Here = <<p, a>> /\ index.self = <<p, a + 1>>
  BY <1>1, WriteIndexFacts
<1>3. CASE clean' = FALSE /\ Failed(job.old)
  BY <1>2, <1>3, FailedClean
<1>4. CASE Put(p, recs) /\ job' = [job EXCEPT !.step = "flush"] /\ UNCHANGED <<index, file_end, phase, clean>>
  <2>1. Now \in Tapes /\ Sound(Now) /\ a \in Nat /\ Free(Now, p, a)
    BY <1>2, PlaceFacts
  <2>2. Part = p /\ a = AppendAt(Part)
    OBVIOUS
  <2>3. job \in Jobs
    BY DEF IInv, TypeInv
  <2>4. job' = [job EXCEPT !.step = "flush", !.old = job.old] /\ job.old \in {<<>>} \cup Indexes /\ "flush" \in Steps
    BY <1>4, <2>3 DEF Jobs, Steps
  <2>5. Part' = p /\ job'.step = "flush"
    BY <2>3, <2>4 DEF Jobs, Part
  <2> HIDE DEF p, a
  <2>6. /\ recs \in Seq(Recs) /\ recs # <<>>
        /\ t \in Tapes /\ Keeps(Now, t) /\ \A q \in Parts : q # p => t[q] = Now[q]
        /\ t[p][a + 1] = IndexBlock(index) /\ LastAt(t, p, a)
        /\ \A j \in 1 .. Len(recs) : Sound(Spliced(Now, p, a, SubSeq(recs, 1, j)))
    BY <1>2, <2>1, IndexWritten
  <2> HIDE DEF recs
  <2>7. Now' = t
    BY <1>2, <1>4, <2>2, <2>6, PutKeeps DEF Put
  <2> HIDE DEF t
  <2>8. ASSUME clean, CleanUp
        PROVE  TieInv' /\ EndInv' /\ TopInv' /\ (Part = "IP" => file_end'["DP"])
    <3>1. IsIndex(t, p, a + 1) /\ \A j \in Nat : IsIndex(t, p, j) => j <= a + 1
      BY <1>2, <2>1, <2>6, LastIsLast
    <3>2. TieInv'
      <4>1. CASE p = "DP"
        BY <1>2, <1>4, <2>7, <3>1, <4>1 DEF TieInv, Tied, LastDP
      <4>2. CASE p = "IP"
        <5>1. Tied(Now, index) /\ index.self[1] = "IP"
          BY <1>2, <2>2, <2>8, <4>2 DEF CleanUp, TieInv
        <5>2. t["DP"] = Now["DP"]
          BY <2>6, <4>2 DEF Parts
        <5>3. Tied(t, index)
          BY <5>1, <5>2, OtherEnds DEF Tied
        <5>4. QED
          BY <1>4, <2>7, <5>3 DEF TieInv
      <4>3. QED
        BY <1>2, <4>1, <4>2 DEF Parts
    <3>3. EndInv'
      <4>1. Ends(t, p)
        BY <2>1, <2>6 DEF Ends
      <4>2. \A q \in Parts : q # p /\ Ends(Now, q) => Ends(t, q)
        BY <2>6, OtherEnds
      <4>3. QED
        BY <1>4, <2>7, <2>8, <4>1, <4>2 DEF CleanUp, EndInv
    <3>4. TopInv'
      <4>1. index.self[2] = a + 1 /\ index.self[2] - 1 = a /\ index.self[1] = p
        BY <1>2, <2>1
      <4>2. p = "IP" => Topped(t, index)
        BY <2>6, <4>1 DEF Topped, IndexBlock
      <4>3. QED
        BY <1>4, <2>7, <4>1, <4>2 DEF TopInv
    <3>5. Part = "IP" => file_end["DP"]
      BY <1>1, <1>2, <2>8 DEF CleanUp, TurnInv
    <3>6. QED
      BY <1>4, <3>2, <3>3, <3>4, <3>5
  <2>9. "flush" # "begin"
    OBVIOUS
  <2>10. QED
    BY <1>1, <1>2, <1>4, <2>4, <2>8, <2>9, StepKeeps
<1>5. QED
  BY <1>3, <1>4 DEF WriteIndex, Failed

\* How a call that has written its index ends: the job, the phase and the end flags.
LEMMA GoodEnd ==
  ASSUME job \in Jobs, JobInv, CallsInv, job.calls # <<>>, file_end \in [Parts -> BOOLEAN], file_end[Part],
         Part = "IP" => file_end["DP"],
         IF Len(job.calls) > 1
         THEN /\ job' = [job EXCEPT !.calls = Tail(@), !.step = "begin"]
              /\ UNCHANGED <<phase, file_end>>
         ELSE Finish(TRUE)
  PROVE  /\ file_end' = file_end
         /\ job'.calls # <<>> => Part = "DP"
         /\ job'.then = "IP" /\ job'.calls = <<>> => Part = "DP"
         /\ phase' # "failed" /\ (phase' = "closing" => Part = "IP")
<1>1. Part \in Parts /\ job.calls \in Calls /\ phase \in {"mount", "up", "unmount"}
  BY CallFacts DEF Jobs, Part, JobInv, Idle, NoJob
<1>2. CASE Len(job.calls) > 1
  <2>1. Part = "DP" /\ job'.calls = <<"IP">>
    BY <1>1, <1>2, CallFacts DEF Jobs, Part
  <2>2. QED
    BY <1>1, <1>2, <2>1, CallFacts DEF Parts
<1>3. CASE ~(Len(job.calls) > 1)
  <2>1. Finish(TRUE) /\ job.calls = <<Part>>
    BY <1>1, <1>3, CallFacts DEF Part
  <2>2. \/ file_end' = file_end
        \/ job.then = "mount" /\ file_end' = [q \in Parts |-> TRUE]
    BY <2>1 DEF Finish
  <2>3. job.then = "mount" => Part = "IP"
    BY <1>3, <2>1, CallFacts DEF JobInv, Part
  <2>4. file_end' = file_end
    <3>1. CASE file_end' = [q \in Parts |-> TRUE] /\ job.then = "mount"
      <4>1. \A q \in Parts : file_end[q]
        BY <2>3, <3>1 DEF Parts
      <4>2. QED
        BY <3>1, <4>1
    <3>2. QED
      BY <2>2, <3>1
  <2>5. job'.calls = <<>> /\ (job'.then = "IP" => job.then = "IP")
    BY <2>1 DEF Finish, NoJob
  <2>6. job.then = "IP" => Part = "DP"
    <3>1. <<Part>> # <<>> /\ (<<Part>> = <<"DP">> => Part = "DP")
      OBVIOUS
    <3>2. QED
      BY <2>1, <3>1 DEF CallsInv
  <2>7. job.then = "unmount" => Part = "IP"
    <3>1. <<Part>> # <<"DP", "IP">> /\ (<<Part>> = <<"IP">> => Part = "IP")
      OBVIOUS
    <3>2. QED
      BY <2>1, <3>1 DEF CallsInv
  <2>8. phase' # "failed" /\ (phase' = "closing" => job.then = "unmount")
    BY <1>1, <2>1 DEF Finish, Parts
  <2>9. QED
    BY <2>4, <2>5, <2>6, <2>7, <2>8
<1>4. QED
  BY <1>2, <1>3

LEMMA EndWriteIndexClean ==
  ASSUME IInv, CleanInv, EndWriteIndex
  PROVE  CleanInv'
<1>1. /\ job.step = "mam" /\ UNCHANGED <<tape, head, buf, pending, clean>>
      /\ index' = [index EXCEPT !.dirty = FALSE]
      /\ IF Len(job.calls) > 1
         THEN /\ job' = [job EXCEPT !.calls = Tail(@), !.step = "begin"]
              /\ UNCHANGED <<phase, file_end>>
         ELSE Finish(TRUE)
  BY DEF EndWriteIndex
<1>2. job.calls # <<>> /\ job \in Jobs /\ JobInv /\ job # NoJob /\ phase \in Phases
      /\ file_end \in [Parts -> BOOLEAN] /\ index \in Indexes
  BY <1>1 DEF IInv, JobInv, TypeInv, NoJob
<1>3. Part \in Parts /\ ~Down /\ MountedInv /\ index.self[1] = Part /\ file_end[Part]
  BY <1>1, <1>2, CallFacts, BusyIsUp DEF Part, Jobs, MountedInv, IndexInv, Writing
<1>4. CallsInv' /\ ~Down' /\ job'.step = "begin"
  BY <1>1, <1>2, CallsLeft, JobEnds DEF CleanInv
<1> SUFFICES ASSUME clean' PROVE CleanUp'
  BY <1>4 DEF CleanInv
<1>5. CleanUp /\ CallsInv
  BY <1>1, <1>3 DEF CleanInv
<1>6. Part = "IP" => file_end["DP"]
  BY <1>1, <1>2, <1>5 DEF CleanUp, TurnInv
<1>7. /\ file_end' = file_end
      /\ job'.calls # <<>> => Part = "DP"
      /\ job'.then = "IP" /\ job'.calls = <<>> => Part = "DP"
      /\ phase' # "failed" /\ (phase' = "closing" => Part = "IP")
  BY <1>1, <1>2, <1>3, <1>5, <1>6, GoodEnd
<1>8. index'.self = index.self /\ index'.back = index.back /\ index'.gen = index.gen
  BY <1>1, <1>2 DEF Indexes
<1>9. Now' = Now
  BY <1>1, SameTape
<1>10. file_end["DP"]
  BY <1>3, <1>6 DEF Parts
<1>11. TieInv' /\ EndInv' /\ TopInv'
  BY <1>1, <1>5, <1>7, <1>8, <1>9 DEF CleanUp, TieInv, EndInv, TopInv, Tied, Topped
<1>12. TurnInv' /\ SavedInv' /\ ClosedInv'
  BY <1>3, <1>7, <1>8, <1>10 DEF TurnInv, SavedInv, ClosedInv, Parts
<1>13. QED
  BY <1>11, <1>12 DEF CleanUp

LEMMA PutDataClean ==
  ASSUME IInv, CleanInv, PutData
  PROVE  CleanInv'
<1> DEFINE p == job.then
           a == AppendAt(p)
           x == Data(written + 1)
<1>1. p \in Parts /\ job.calls = <<>> /\ file_end' = [file_end EXCEPT ![p] = FALSE] /\ job' = NoJob
      /\ UNCHANGED <<index, phase>>
  BY DEF PutData
<1>2. job # NoJob /\ job.step = "begin" /\ ~Down /\ ~Down' /\ phase \in {"mount", "up", "unmount"}
  <2>1. job # NoJob
    BY <1>1 DEF NoJob, Parts
  <2>2. QED
    BY <1>1, <2>1, BusyIsUp DEF IInv, JobInv, Down, Idle
<1>3. job'.calls = <<>> /\ job'.step = "begin" /\ job'.then = "none" /\ CallsInv'
  BY <1>1 DEF NoJob, CallsInv
<1>4. file_end \in [Parts -> BOOLEAN] /\ ~file_end'[p] /\ \A q \in Parts : q # p => file_end'[q] = file_end[q]
  BY <1>1 DEF IInv, TypeInv
<1>5. index \in Indexes /\ written \in Nat
  BY DEF IInv, TypeInv
<1>6. CASE clean' = FALSE
  BY <1>3, <1>6, SpoiltClean
<1>7. CASE /\ Locate(<<p, a>>, <<x>>)
           /\ pending' = pending \cup {Ref(p, a, written + 1)}
           /\ clean' = clean
  <2> SUFFICES ASSUME clean PROVE CleanUp'
    BY <1>2, <1>3, <1>7 DEF CleanInv
  <2>1. CleanUp
    BY <1>2 DEF CleanInv
  <2>2. p = "IP" => index.self[1] = "DP"
    BY <1>1, <2>1 DEF CleanUp, TurnInv
  <2> HIDE DEF p
  <2>3. Now \in Tapes /\ Sound(Now) /\ a \in Nat /\ Free(Now, p, a)
    BY <1>1, <1>2, PlaceFacts
  <2>4. x \in Recs /\ x.kind # "index"
    BY <1>5, Kinds
  <2> DEFINE t == Spliced(Now, p, a, <<x>>)
  <2>5. Sound(t) /\ Keeps(Now, t) /\ Among(t, Now) /\ \A q \in Parts : q # p => t[q] = Now[q]
    BY <1>1, <2>3, <2>4, MoreOne DEF More
  <2>6. Now' = t
    <3>1. <<x>> \in Seq(Recs) /\ <<x>> # <<>> /\ Len(<<x>>) = 1 /\ SubSeq(<<x>>, 1, 1) = <<x>>
      BY <2>4, Tuples
    <3>2. \A j \in 1 .. Len(<<x>>) : Sound(Spliced(Now, p, a, SubSeq(<<x>>, 1, j)))
      <4>1. \A j \in 1 .. Len(<<x>>) : j = 1
        BY <3>1
      <4>2. QED
        BY <2>5, <3>1, <4>1
    <3> HIDE DEF x
    <3>3. QED
      BY <1>1, <1>2, <1>7, <3>1, <3>2, PutKeeps
  <2> HIDE DEF t, a
  <2>7. TieInv'
    <3>1. Tied(Now, index)
      BY <1>2, <2>1 DEF CleanUp, TieInv
    <3>2. \A i \in Nat : LastDP(Now, i) => LastDP(t, i)
      BY <2>5, LastKept
    <3>3. \A i : LastDP(Now, i) => i \in Nat
      BY <2>3, TapeFacts DEF LastDP, Parts
    <3>4. Tied(t, index)
      BY <3>1, <3>2, <3>3 DEF Tied
    <3>5. QED
      BY <1>1, <2>6, <3>4 DEF TieInv
  <2>8. EndInv'
    BY <1>4, <2>1, <2>5, <2>6, OtherEnds DEF CleanUp, EndInv
  <2>9. TopInv'
    <3> SUFFICES ASSUME index.self[1] = "IP", file_end'["IP"] PROVE Topped(t, index)
      BY <1>1, <2>6 DEF TopInv
    <3>1. p # "IP" /\ "IP" \in Parts
      BY <1>4 DEF Parts
    <3>2. t["IP"] = Now["IP"] /\ Topped(Now, index)
      BY <1>2, <1>4, <2>1, <2>5, <3>1 DEF CleanUp, TopInv
    <3>3. QED
      BY <3>2, OtherEnds
  <2>10. TurnInv'
    BY <1>3 DEF TurnInv
  <2>11. phase' # "mount" => SavedInv'
    <3> SUFFICES ASSUME phase # "mount" PROVE SavedInv'
      BY <1>1
    <3>1. SavedInv
      BY <2>1 DEF CleanUp
    <3>2. ~file_end'["DP"] => index.dirty \/ \E r \in pending' : r.at[1] = "DP"
      <4>1. CASE p = "DP"
        <5>1. Ref(p, a, written + 1).at[1] = "DP"
          BY <4>1 DEF Ref
        <5>2. QED
          BY <1>7, <5>1
      <4>2. CASE p # "DP"
        <5>1. file_end'["DP"] = file_end["DP"]
          BY <1>4, <4>2 DEF Parts
        <5>2. QED
          BY <1>7, <3>1, <5>1 DEF SavedInv
      <4>3. QED
        BY <4>1, <4>2
    <3>3. index.self[1] = "IP" => file_end'["IP"]
      BY <1>2, <1>4, <2>2, <3>1 DEF SavedInv, Parts
    <3>4. QED
      BY <1>1, <3>2, <3>3 DEF SavedInv
  <2>12. ClosedInv'
    BY <1>1, <1>2 DEF ClosedInv
  <2>13. QED
    BY <2>7, <2>8, <2>9, <2>10, <2>11, <2>12 DEF CleanUp
<1>8. QED
  BY <1>1, <1>6, <1>7 DEF PutData, p

\* A volume that is closed without a failure is whole.
LEMMA CloseClean ==
  ASSUME IInv, CleanInv, Close
  PROVE  CleanInv'
<1>1. phase \in {"closing", "failed"} /\ Written(Len(buf), <<>>) /\ Forgotten /\ clean' = clean
      /\ phase' = (IF phase = "closing" THEN "out" ELSE "down")
  BY DEF Close, ghosts
<1>2. ~Down /\ Down' /\ CallsInv'
  BY <1>1 DEF Down, Forgotten, NoJob, CallsInv
<1>3. Idle /\ DriveOK /\ MountedInv /\ index \in Indexes
  BY <1>1, <1>2 DEF IInv, JobInv, TypeInv
<1>4. job.step = "begin" /\ Held(Now, index)
  BY <1>3 DEF Idle, NoJob, MountedInv, IndexInv
<1> SUFFICES ASSUME clean PROVE phase' = "out" /\ Whole(tape')
  BY <1>1, <1>2 DEF CleanInv
<1>5. CleanUp
  BY <1>2 DEF CleanInv
<1>6. phase = "closing" /\ phase' = "out" /\ index.self[1] = "IP" /\ \A p \in Parts : file_end[p]
  BY <1>1, <1>5 DEF CleanUp, ClosedInv
<1>7. Tied(Now, index) /\ Topped(Now, index) /\ \A p \in Parts : Ends(Now, p)
  BY <1>4, <1>5, <1>6 DEF CleanUp, TieInv, TopInv, EndInv, Parts
<1>8. index.self[2] \in Nat
  BY <1>3, <1>6 DEF Indexes, Pointers, None, Places
<1>9. IsIndex(Now, "IP", index.self[2])
  <2>1. index.self[2] - 1 + 1 = index.self[2]
    BY <1>8
  <2>2. QED
    BY <1>7, <2>1 DEF Topped, LastAt
<1>10. index.back[1] = "DP" /\ LastDP(Now, index.back[2])
  BY <1>6, <1>7 DEF Tied
<1>11. \A j \in Nat : IsIndex(Now, "DP", j) => Now["DP"][j].gen <= index.gen
  BY <1>4 DEF Held, Backed, Newest, Parts
<1>12. Whole(Now)
  BY <1>7, <1>8, <1>9, <1>10, <1>11 DEF Whole, Topped
<1>13. QED
  BY <1>1, <1>3, <1>6, <1>12, FlushedNow

\* A mount that trusts the cartridge memory takes the index that ends the index
\* partition.
LEMMA QuickMountClean ==
  ASSUME IInv, CleanInv, QuickMount
  PROVE  CleanInv'
<1> DEFINE p == QuickPart
           s == mam[p].set
           block == tape[p][s]
<1>1. /\ Down /\ OffInv /\ CurrentInv /\ DriveOK /\ TypeInv
      /\ Current /\ block.kind = "index" /\ UNCHANGED <<medium, clean>>
      /\ Loaded(block, FALSE, block.refs)
      /\ IF p = "DP"
         THEN StartJob(<<"IP">>, "mount") /\ phase' = "mount"
         ELSE phase' = "up" /\ file_end' = [q \in Parts |-> TRUE] /\ UNCHANGED job
  BY DEF QuickMount, Down, IInv, TypeInv, ghosts
<1>2. /\ mam \in Attributes /\ p \in Parts /\ \A q \in Parts : CohOn(tape, q, mam[q])
      /\ \A q \in Parts : mam[q].count \in Nat /\ mam[q].set \in Nat
      /\ p = "DP" <=> mam["IP"].count < mam["DP"].count
  BY <1>1 DEF CurrentInv, Current, QuickPart, Parts, TypeInv, Attributes
<1>3. Now = tape /\ tape \in Tapes /\ Sound(tape) /\ job = NoJob /\ Now' = Now
  BY <1>1, NowSound, NowFacts, SameMedium DEF OffInv
<1>4. s \in Nat /\ IsIndex(tape, p, s) /\ block.gen = mam[p].count /\ (p = "IP" => LastAt(tape, "IP", s - 1))
  BY <1>1, <1>2 DEF Current, IsIndex, CohOn
<1>5. block.self = <<p, s>> /\ s > 1
  BY <1>2, <1>3, <1>4 DEF Sound, Placed
<1>6. index'.self = block.self /\ index'.back = block.back /\ index'.gen = block.gen
  BY <1>1 DEF Loaded
<1>7. ~Down' /\ CallsInv'
  <2>1. phase' \in {"mount", "up"} /\ job'.then \in {"none", "mount"}
    <3>1. StartJob(<<"IP">>, "mount") => job'.then = "mount"
      BY DEF StartJob, NoJob
    <3>2. UNCHANGED job => job'.then = "none"
      BY <1>3 DEF NoJob
    <3> HIDE DEF p
    <3>3. QED
      BY <1>1, <3>1, <3>2
  <2>2. QED
    BY <2>1 DEF Down, CallsInv
<1> HIDE DEF block, s, p
<1> SUFFICES ASSUME clean' PROVE CleanUp'
  BY <1>7 DEF CleanInv
<1>8. Whole(tape)
  BY <1>1 DEF CleanInv
<1>9. PICK i \in Nat : /\ LastAt(tape, "IP", i - 1) /\ IsIndex(tape, "IP", i)
                       /\ tape["IP"][i].back[1] = "DP" /\ LastDP(tape, tape["IP"][i].back[2])
                       /\ \A j \in Nat : IsIndex(tape, "DP", j) => tape["DP"][j].gen <= tape["IP"][i].gen
  BY <1>8 DEF Whole
<1>10. p = "IP"
  <2> SUFFICES ASSUME p = "DP" PROVE FALSE
    BY <1>2 DEF Parts
  <2>1. tape["DP"][s].gen = mam["DP"].count /\ tape["DP"][s].gen <= tape["IP"][i].gen
    BY <1>4, <1>9 DEF block
  <2>2. tape["IP"][i].gen <= mam["IP"].count
    BY <1>2, <1>9 DEF CohOn, Parts
  <2>3. tape["IP"][i].gen \in Nat /\ mam["IP"].count \in Nat /\ mam["DP"].count \in Nat
    BY <1>2, <1>3, <1>9, TapeFacts DEF IndexRecs, Parts
  <2>4. QED
    BY <1>2, <2>1, <2>2, <2>3
<1>11. s = i
  <2>1. i > 1
    BY <1>3, <1>9 DEF Sound, Placed, Parts
  <2>2. i - 1 \in Nat /\ i - 1 + 1 = i /\ s - 1 \in Nat /\ s - 1 + 1 = s
    BY <1>4, <1>5, <2>1
  <2>3. i <= s /\ s <= i
    BY <1>3, <1>4, <1>9, <1>10, <2>2, LastIsLast DEF Parts
  <2>4. QED
    BY <1>4, <2>3
<1>12. block = tape["IP"][s] /\ phase' = "up" /\ file_end' = [q \in Parts |-> TRUE] /\ job' = NoJob
  BY <1>1, <1>3, <1>10 DEF block
<1>13. index'.self[1] = "IP" /\ index'.self[2] = s
  BY <1>5, <1>6, <1>10
<1>14. Tied(tape, index')
  BY <1>6, <1>9, <1>11, <1>12, <1>13 DEF Tied
<1>15. Topped(tape, index')
  BY <1>4, <1>6, <1>10, <1>12, <1>13 DEF Topped
<1>16. TieInv' /\ TopInv'
  BY <1>3, <1>14, <1>15 DEF TieInv, TopInv
<1>17. EndInv'
  BY <1>3, <1>8 DEF EndInv, Whole
<1>18. TurnInv' /\ SavedInv' /\ ClosedInv'
  BY <1>12 DEF TurnInv, SavedInv, ClosedInv, NoJob, Parts
<1>19. QED
  BY <1>16, <1>17, <1>18 DEF CleanUp

\* The index that ltfs_check_medium takes is the last one of the data partition, or
\* points to it.
LEMMA ChosenIsTied ==
  ASSUME NEW t \in Tapes, Sound(t), NEW deep, NEW c \in Parts, c = Verdict(t["IP"], t["DP"], deep),
         NEW ix, ix.self = t[c][FoundIn(t[c])].self, ix.back = t[c][FoundIn(t[c])].back
  PROVE  /\ Tied(t, ix) /\ ix.self = <<c, FoundIn(t[c])>>
         /\ LastDP(t, FoundIn(t["DP"]))
<1> DEFINE i == FoundIn(t["IP"])
           d == FoundIn(t["DP"])
           x == t["IP"][i]
           y == t["DP"][d]
<1>1. /\ "IP" \in Parts /\ "DP" \in Parts /\ (c = "IP" \/ c = "DP")
      /\ Placed(t) /\ {"none", "inconsistent", "invalid"} \cap Parts = {}
  BY DEF Parts, Sound
<1>2. d # 0 /\ FoundIn(t[c]) \in Nat /\ IsIndex(t, c, FoundIn(t[c]))
  BY ChosenIsNewest
<1>3. d \in Nat /\ IsIndex(t, "DP", d) /\ LastDP(t, d)
  BY <1>1, <1>2, Finds DEF LastDP
<1>4. ix.self = <<c, FoundIn(t[c])>> /\ y.self = <<"DP", d>>
  BY <1>1, <1>2, <1>3 DEF Placed
<1> HIDE DEF d
<1>5. CASE c = "DP"
  BY <1>3, <1>4, <1>5 DEF Tied, d
<1>6. CASE c = "IP"
  <2>1. i # 0
    BY <1>1, <1>2, <1>6, Finds
  <2>2. c = Newer(x, y, t["DP"])
    BY <1>1, <1>2, <2>1 DEF Verdict, d
  <2>3. x.back = y.self
    <3> HIDE DEF x, y
    <3>1. QED
      BY <1>6, <2>2 DEF Newer
  <2>4. QED
    BY <1>3, <1>4, <1>6, <2>3 DEF Tied, d
<1>7. QED
  BY <1>1, <1>5, <1>6

\* After the full check the volume is clean as far as it goes.
LEMMA FullMountClean ==
  ASSUME IInv, FullMount
  PROVE  CleanInv'
<1> DEFINE t == [p \in Parts |-> Filled(tape[p])]
<1>1. /\ Down /\ OffInv /\ buf' = buf /\ tape' = t /\ tape \in Tapes /\ Sound(tape)
  BY NowSound DEF FullMount, Down, IInv
<1>2. PICK mode \in Modes : Verdict(t["IP"], t["DP"], mode.deep) \in Parts /\ Checked(t, mode)
  BY DEF FullMount
<1>3. buf = <<>> /\ job = NoJob
  BY <1>1 DEF OffInv
<1>4. t \in Tapes /\ Sound(t)
  BY <1>1, FilledSound
<1>5. Now' = t
  <2>1. Len(buf') = 0
    BY <1>1, <1>3
  <2>2. QED
    BY <1>1, <2>1 DEF Now, View
<1> HIDE DEF t
<1> DEFINE c == Verdict(t["IP"], t["DP"], mode.deep)
           f == FoundIn(t[c])
           block == t[c][f]
           extra == {p \in Parts : ExtraBlocks(t[p])}
           have  == {p \in Parts : FoundIn(t[p]) # 0}
           dirty == have # Parts \/ extra # {} \/ block.self[1] = "DP"
           whole == [p \in Parts |-> p \in have /\ p \notin extra]
<1>6. c \in Parts /\ Chosen(t["IP"], t["DP"], mode.deep) = block /\ FoundIn(t["DP"]) # 0
  BY <1>2, <1>4, ChosenIsNewest
<1>7. /\ index'.self = block.self /\ index'.back = block.back /\ index'.gen = block.gen
      /\ file_end' = (IF dirty THEN whole ELSE [p \in Parts |-> TRUE])
      /\ IF dirty
         THEN /\ StartJob(IF whole["DP"] THEN <<"IP">> ELSE <<"DP", "IP">>, "mount")
              /\ phase' = "mount"
         ELSE UNCHANGED job /\ phase' = "up"
  <2> HIDE DEF c, f, block
  <2>1. QED
    BY <1>2, <1>6 DEF Checked, Loaded
<1>8. Tied(t, index') /\ index'.self = <<c, f>>
  BY <1>4, <1>6, <1>7, ChosenIsTied
<1>9. ASSUME NEW p \in Parts, whole[p]
      PROVE  LastAt(t, p, FoundIn(t[p]) - 1) /\ FoundIn(t[p]) \in Nat /\ FoundIn(t[p]) > 1
  <2>1. FoundIn(t[p]) # 0 /\ ~ExtraBlocks(t[p])
    BY <1>9
  <2>2. QED
    BY <1>4, <2>1, EndsInIndex, Finds DEF Sound
<1>10. (\A p \in Parts : file_end'[p] => whole[p]) /\ (~dirty => c = "IP")
  <2>1. (dirty => file_end' = whole) /\ (~dirty => \A p \in Parts : whole[p])
    BY <1>7
  <2>2. c = "IP" \/ c = "DP"
    BY <1>6 DEF Parts
  <2>3. ~dirty => c = "IP"
    <3>1. block.self[1] = c
      BY <1>7, <1>8
    <3> HIDE DEF block, c
    <3>2. QED
      BY <2>2, <3>1
  <2> HIDE DEF dirty, whole
  <2>4. QED
    BY <2>1, <2>3
<1>11. /\ job'.step = "begin" /\ ~job'.tried /\ job'.then \in {"none", "mount"} /\ phase' \in {"up", "mount"}
       /\ phase' = "up" => ~dirty /\ job'.calls = <<>>
  <2>1. \A calls : StartJob(calls, "mount") => job'.step = "begin" /\ ~job'.tried /\ job'.then = "mount"
    BY DEF StartJob, NoJob
  <2>2. UNCHANGED job => job'.step = "begin" /\ ~job'.tried /\ job'.then = "none" /\ job'.calls = <<>>
    BY <1>3 DEF NoJob
  <2> HIDE DEF dirty, whole
  <2>3. QED
    BY <1>7, <2>1, <2>2
<1> HIDE DEF have, extra, whole, dirty, block
<1>12. ~Down' /\ CallsInv'
  BY <1>11 DEF Down, CallsInv
<1>13. TieInv'
  BY <1>5, <1>8 DEF TieInv
<1>14. EndInv'
  <2> SUFFICES ASSUME NEW p \in Parts, file_end'[p] PROVE Ends(t, p)
    BY <1>5 DEF EndInv
  <2>1. LastAt(t, p, FoundIn(t[p]) - 1) /\ FoundIn(t[p]) - 1 \in Nat
    BY <1>9, <1>10
  <2>2. QED
    BY <2>1 DEF Ends
<1>15. TopInv'
  <2> SUFFICES ASSUME index'.self[1] = "IP", file_end'["IP"] PROVE Topped(t, index')
    BY <1>5 DEF TopInv
  <2>1. c = "IP" /\ index'.self[2] = f /\ "IP" \in Parts
    BY <1>6, <1>8
  <2>2. LastAt(t, "IP", f - 1)
    BY <1>9, <1>10, <2>1
  <2>3. t["IP"][f].back = index'.back /\ t["IP"][f].gen = index'.gen
    BY <1>7, <2>1 DEF block
  <2>4. QED
    BY <2>1, <2>2, <2>3 DEF Topped
<1>16. TurnInv' /\ ClosedInv'
  BY <1>11 DEF TurnInv, ClosedInv
<1>17. phase' # "mount" => SavedInv'
  <2> SUFFICES ASSUME phase' = "up" PROVE SavedInv'
    BY <1>11
  <2>1. \A p \in Parts : file_end'[p]
    BY <1>7, <1>11
  <2>2. QED
    BY <2>1 DEF SavedInv, Parts
<1>18. QED
  BY <1>12, <1>13, <1>14, <1>15, <1>16, <1>17 DEF CleanInv, CleanUp

LEMMA InitClean ==
  ASSUME Init
  PROVE  CleanInv
<1>1. phase = "out" /\ job = NoJob /\ IInv /\ Down
  BY InitHolds DEF Init, Down
<1>2. tape \in Tapes /\ Sound(tape)
  BY <1>1, NowSound
<1> DEFINE x(p) == IndexBlock([gen |-> 1, self |-> <<p, 2>>, ver |-> 0, refs |-> {},
                               back |-> IF p = "IP" THEN <<"DP", 2>> ELSE None])
<1>3. \A p \in Parts : tape[p] = <<FM, x(p), FM>>
  BY DEF Init
<1>4. \A p \in Parts : /\ x(p).kind = "index" /\ x(p).gen = 1
                       /\ x(p).back = (IF p = "IP" THEN <<"DP", 2>> ELSE None)
  BY DEF IndexBlock
<1> HIDE DEF x
<1>5. \A p \in Parts : Len(tape[p]) = 3 /\ tape[p][1] = FM /\ tape[p][2] = x(p) /\ tape[p][3] = FM
  BY <1>3
<1>6. \A p \in Parts, i \in Nat : IsIndex(tape, p, i) <=> i = 2
  <2> SUFFICES ASSUME NEW p \in Parts, NEW i \in Nat PROVE IsIndex(tape, p, i) <=> i = 2
    OBVIOUS
  <2>1. DOMAIN tape[p] = 1 .. 3
    BY <1>2, <1>5, TapeFacts
  <2>2. i \in 1 .. 3 => i = 1 \/ i = 2 \/ i = 3
    OBVIOUS
  <2>3. QED
    BY <1>4, <1>5, <2>1, <2>2, Kinds DEF IsIndex
<1>7. \A p \in Parts : LastAt(tape, p, 1)
  <2>1. 1 + 1 = 2 /\ 1 + 2 = 3
    OBVIOUS
  <2> SUFFICES ASSUME NEW p \in Parts PROVE LastAt(tape, p, 1)
    OBVIOUS
  <2>2. IsIndex(tape, p, 2)
    BY <1>6
  <2>3. Len(tape[p]) <= 3 /\ tape[p][3] = FM
    <3>1. Len(tape[p]) = 3 /\ tape[p][3] = FM
      BY <1>5
    <3>2. QED
      BY <3>1
  <2>4. QED
    BY <2>1, <2>2, <2>3 DEF LastAt
<1>8. "IP" \in Parts /\ "DP" \in Parts /\ 2 - 1 = 1
  BY DEF Parts
<1>9. LastDP(tape, 2) /\ \A j \in Nat : IsIndex(tape, "DP", j) => tape["DP"][j].gen <= 1
  BY <1>4, <1>5, <1>6, <1>8 DEF LastDP
<1>10. Whole(tape)
  <2>1. \A p \in Parts : Ends(tape, p)
    BY <1>7 DEF Ends
  <2>2. /\ LastAt(tape, "IP", 2 - 1) /\ IsIndex(tape, "IP", 2)
        /\ tape["IP"][2].back = <<"DP", 2>> /\ tape["IP"][2].gen = 1
    BY <1>4, <1>5, <1>6, <1>7, <1>8
  <2>3. QED
    BY <1>9, <2>1, <2>2 DEF Whole
<1>11. CallsInv
  BY <1>1 DEF CallsInv, NoJob
<1>12. QED
  BY <1>1, <1>10, <1>11 DEF CleanInv

LEMMA NextClean ==
  ASSUME IInv, CleanInv, Next
  PROVE  CleanInv'
<1>1. ASSUME AddExtent PROVE CleanInv'
  BY <1>1, TreeClean DEF AddExtent, ghosts
<1>2. ASSUME Update PROVE CleanInv'
  BY <1>2, TreeClean DEF Update, ghosts
<1>3. QED
  BY <1>1, <1>2, DataPartitionFirstClean, LocateAppendClean, WriteIndexClean, FlushIndexClean, EndWriteIndexClean,
     WriteDataClean, PutDataClean, ChoosePartitionClean, SyncClean, UnmountClean, CloseClean, CrashClean,
     QuickMountClean, FullMountClean DEF Next

LEMMA StutterClean ==
  ASSUME CleanInv, UNCHANGED vars
  PROVE  CleanInv'
<1>1. UNCHANGED <<medium, volume, job, phase, clean>> /\ Now' = Now
  BY SameMedium DEF vars, ghosts
<1>2. CallsInv'
  BY <1>1 DEF CleanInv, CallsInv
<1>3. CleanUp <=> CleanUp'
  BY <1>1 DEF CleanUp, TieInv, EndInv, TopInv, TurnInv, SavedInv, ClosedInv, Part, volume
<1>4. QED
  BY <1>1, <1>2, <1>3 DEF CleanInv, Down, medium

\* The full check finds an index at the end of a partition that ends in one.
LEMMA FilledEnd ==
  ASSUME NEW m \in Tapes, Sound(m), NEW p \in Parts, NEW a \in Nat, LastAt(m, p, a)
  PROVE  LET s == Filled(m[p])
         IN  FoundIn(s) = a + 1 /\ s[a + 1] = m[p][a + 1] /\ ~ExtraBlocks(s)
<1> DEFINE t == [q \in Parts |-> Filled(m[q])]
           s == t[p]
           r == m[p]
<1>1. t \in Tapes /\ Sound(t) /\ s = Filled(r)
  BY FilledSound
<1>2. /\ r \in Seq(Recs) /\ Len(r) \in Nat /\ a + 1 \in 1 .. Len(r) /\ Len(r) <= a + 2 /\ (Len(r) = a + 2 => r[a + 2] = FM)
      /\ r[a + 1].kind = "index"
  BY TapeFacts DEF LastAt, IsIndex
<1>3. FoundIn(r) = a + 1
  <2>1. FoundIn(r) \in Nat /\ a + 1 <= FoundIn(r) /\ IsIndex(m, p, FoundIn(r))
    BY Finds DEF LastAt, Sound
  <2>2. FoundIn(r) <= a + 1
    BY <2>1, LastIsLast
  <2>3. QED
    BY <2>1, <2>2
<1>4. Len(s) = a + 2 /\ s[a + 1] = r[a + 1] /\ s[a + 2] = FM /\ s \in Seq(Recs)
  <2>1. CASE Len(r) = a + 1
    <3>1. s = Append(r, FM)
      BY <1>1, <1>3, <2>1 DEF Filled
    <3>2. Len(Append(r, FM)) = Len(r) + 1 /\ Append(r, FM)[Len(r) + 1] = FM
          /\ \A j \in 1 .. Len(r) : Append(r, FM)[j] = r[j]
      BY <1>2, Kinds
    <3>3. Append(r, FM) \in Seq(Recs)
      BY <1>2, Kinds
    <3>4. QED
      BY <1>2, <2>1, <3>1, <3>2, <3>3
  <2>2. CASE Len(r) = a + 2
    <3>1. FoundIn(r) # Len(r)
      BY <1>3, <2>2
    <3>2. s = r
      BY <1>1, <3>1 DEF Filled
    <3>3. QED
      BY <1>2, <2>2, <3>2
  <2>3. QED
    BY <1>2, <2>1, <2>2
<1> HIDE DEF t
<1>5. IsIndex(t, p, a + 1) /\ LastAt(t, p, a)
  BY <1>1, <1>2, <1>4, TapeFacts DEF IsIndex, LastAt
<1>6. FoundIn(s) = a + 1
  <2>1. FoundIn(s) \in Nat /\ a + 1 <= FoundIn(s) /\ IsIndex(t, p, FoundIn(s))
    BY <1>1, <1>5, Finds DEF Sound
  <2>2. FoundIn(s) <= a + 1
    BY <1>1, <1>5, <2>1, LastIsLast
  <2>3. QED
    BY <2>1, <2>2
<1>7. ~ExtraBlocks(s)
  <2>1. FMAfter(s)
    <3>1. (a + 1) + 1 = a + 2
      OBVIOUS
    <3>2. QED
      BY <1>4, <1>6, <3>1 DEF FMAfter
  <2>2. EndOfIndex(s) = a + 3
    BY <1>6, <2>1 DEF EndOfIndex
  <2>3. EOD(s) = a + 3
    BY <1>4 DEF EOD
  <2>4. FoundIn(s) # 0
    BY <1>6
  <2>5. QED
    BY <2>2, <2>3, <2>4 DEF ExtraBlocks
<1>8. QED
  BY <1>1, <1>4, <1>6, <1>7

LEMMA WholeMounts ==
  ASSUME NEW m \in Tapes, Sound(m), Whole(m)
  PROVE  Verdict(Filled(m["IP"]), Filled(m["DP"]), FALSE) \in Parts
<1>1. PICK i \in Nat : /\ LastAt(m, "IP", i - 1) /\ IsIndex(m, "IP", i)
                       /\ m["IP"][i].back[1] = "DP" /\ LastDP(m, m["IP"][i].back[2])
                       /\ \A j \in Nat : IsIndex(m, "DP", j) => m["DP"][j].gen <= m["IP"][i].gen
  BY DEF Whole
<1>2. PICK a \in Nat : LastAt(m, "DP", a)
  BY DEF Whole, Ends, Parts
<1>3. "IP" \in Parts /\ "DP" \in Parts
  BY DEF Parts
<1>4. i > 1 /\ i - 1 \in Nat /\ i - 1 + 1 = i
  BY <1>1, <1>3 DEF Sound, Placed
<1> DEFINE ip == Filled(m["IP"])
           dp == Filled(m["DP"])
           d == a + 1
<1>5. FoundIn(ip) = i /\ ip[i] = m["IP"][i] /\ ~ExtraBlocks(ip)
  BY <1>1, <1>3, <1>4, FilledEnd
<1>6. FoundIn(dp) = d /\ dp[d] = m["DP"][d] /\ ~ExtraBlocks(dp)
  BY <1>2, <1>3, FilledEnd
<1>7. IsIndex(m, "DP", d) /\ d \in Nat /\ d # 0 /\ \A j \in Nat : IsIndex(m, "DP", j) => j <= d
  BY <1>2, <1>3, LastIsLast
<1> HIDE DEF ip, dp, d
<1>8. m["IP"][i].back = <<"DP", d>> /\ m["DP"][d].self = <<"DP", d>>
  <2> DEFINE b == m["IP"][i].back
  <2>1. b \in Pointers /\ b[1] = "DP" /\ LastDP(m, b[2])
    BY <1>1, <1>3, TapeFacts DEF IndexRecs
  <2>2. b = <<"DP", b[2]>> /\ b[2] \in Nat
    BY <2>1 DEF Pointers, Places, None
  <2>3. d <= b[2] /\ b[2] <= d
    BY <1>7, <2>1, <2>2 DEF LastDP
  <2>4. b[2] = d
    BY <1>7, <2>2, <2>3
  <2>5. m["DP"][d].self = <<"DP", d>>
    BY <1>3, <1>7 DEF Sound, Placed
  <2>6. QED
    BY <2>2, <2>4, <2>5
<1>9. m["IP"][i].gen >= m["DP"][d].gen
  <2>1. m["DP"][d].gen <= m["IP"][i].gen /\ m["DP"][d].gen \in Nat /\ m["IP"][i].gen \in Nat
    BY <1>1, <1>3, <1>7, TapeFacts DEF IndexRecs
  <2>2. QED
    BY <2>1
<1>10. Newer(ip[i], dp[d], dp) = "IP"
  BY <1>5, <1>6, <1>8, <1>9 DEF Newer
<1>11. Verdict(ip, dp, FALSE) = "IP"
  BY <1>4, <1>5, <1>6, <1>7, <1>10 DEF Verdict
<1>12. QED
  BY <1>3, <1>11 DEF ip, dp

LEMMA CleanHolds == IInv /\ CleanInv => CleanMountable
  BY WholeMounts, NowSound DEF CleanInv, Down, CleanMountable, Consistent

\* The invariant with what a clean volume is.
LEMMA CleanInductive == NoErase => (Spec => [](IInv /\ CleanInv))
<1> SUFFICES ASSUME NoErase PROVE Spec => [](IInv /\ CleanInv)
  OBVIOUS
<1>1. Init => IInv /\ CleanInv
  BY InitHolds, InitClean
<1>2. (IInv /\ CleanInv) /\ [Next]_vars => (IInv /\ CleanInv)'
  BY NextKeeps, StutterKeeps, NextClean, StutterClean
<1>3. QED
  BY <1>1, <1>2, PTL DEF Spec

\* A volume that was unmounted without a failure mounts without recovery: its indexes
\* end both partitions and point to one another. (ltfs.c:1822, 2207-2337)
THEOREM CleanNeedsNoRecovery == NoErase => (Spec => []CleanMountable)
  BY CleanHolds, CleanInductive, PTL

-----------------------------------------------------------------------------
(* The history that the indexes tell.                                      *)

LEMMA ChainOK == IInv /\ CleanInv => IndexChain
<1> SUFFICES ASSUME IInv, CleanInv PROVE IndexChain
  OBVIOUS
<1>1. TypeOK
  <2>1. \A p \in Parts : \A i \in DOMAIN tape[p] : tape[p][i].kind = "index" => tape[p][i].self = <<p, i>>
    BY NowSound, TapeFacts DEF Sound, Placed, IsIndex
  <2>2. index.gen \in Nat /\ index.ver \in Nat /\ index.dirty \in BOOLEAN
    BY DEF IInv, TypeInv, Indexes
  <2>3. Idle \/ phase \in {"mount", "up", "unmount"}
    BY DEF IInv, JobInv
  <2>4. QED
    BY <2>1, <2>2, <2>3 DEF IInv, TypeInv, TypeOK, Phases
<1>2. GenerationNamesContent
  <2> SUFFICES ASSUME NEW x \in OnTape, NEW y \in OnTape, x.gen = y.gen
               PROVE  x.ver = y.ver /\ x.refs = y.refs
    BY DEF GenerationNamesContent
  <2>1. PICK p \in Parts, i \in Nat : IsIndex(Now, p, i) /\ x = Now[p][i]
    BY OnTapeFacts
  <2>2. PICK q \in Parts, j \in Nat : IsIndex(Now, q, j) /\ y = Now[q][j]
    BY OnTapeFacts
  <2>3. QED
    BY <2>1, <2>2, NowSound DEF Sound, Alike
<1>3. BackPointersResolve
  <2> SUFFICES ASSUME NEW x \in OnTape, x.back # None
               PROVE  /\ x.back[1] = "DP" /\ x.back[2] \in Complete(Seen("DP"))
                      /\ Seen("DP")[x.back[2]].gen <= x.gen
                      /\ x.self[1] = "DP" => x.back[2] < x.self[2]
    BY DEF BackPointersResolve
  <2>1. PICK p \in Parts, i \in Nat : IsIndex(Now, p, i) /\ x = Now[p][i] /\ x \in IndexRecs
    BY OnTapeFacts
  <2>2. /\ x.back[1] = "DP" /\ IsIndex(Now, "DP", x.back[2]) /\ Now["DP"][x.back[2]].gen <= x.gen
        /\ p = "DP" => x.back[2] < i
    BY <2>1, NowSound DEF Sound, AllLead, Leads
  <2>3. x.self = <<p, i>>
    BY <2>1, NowSound DEF Sound, Placed
  <2>4. x.back[2] \in Nat
    BY <2>1 DEF IndexRecs, Pointers, Places
  <2>5. Seen("DP") = Now["DP"] /\ "DP" \in Parts
    BY NowSound DEF Parts
  <2>6. x.back[2] > 1 /\ Now["DP"][x.back[2] - 1] = FM
    BY <2>2, <2>4, <2>5, NowSound DEF Sound, Placed
  <2>7. x.back[2] \in 1 .. Len(Now["DP"]) /\ Len(Now["DP"]) \in Nat
    BY <2>2, <2>5, NowSound, TapeFacts
  <2>8. x.back[2] \in Complete(Now["DP"])
    BY <2>2, <2>6, <2>7 DEF Complete, IsIndex
  <2>9. QED
    BY <2>2, <2>3, <2>5, <2>8
<1>4. QED
  BY <1>1, <1>2, <1>3, CleanHolds DEF IndexChain

\* A generation names one content, and back pointers lead to an older index that is
\* still there: the chain that ltfsck rolls back along.  After a clean unmount it
\* ties both partitions together. (ltfs.c:1822, 2308)
THEOREM ChainHolds == NoErase => (Spec => []IndexChain)
  BY ChainOK, CleanInductive, PTL

-----------------------------------------------------------------------------
(* The volume as TLC checks it, with behaviours that roll back beside it.   *)

PlainInv == ~rolling => IInv /\ CleanInv

LEMMA PlainInductive == NoErase => (MCSpec => []PlainInv)
<1> SUFFICES ASSUME NoErase PROVE MCSpec => []PlainInv
  OBVIOUS
<1>1. MCInit => PlainInv
  BY InitHolds, InitClean DEF MCInit, PlainInv
<1>2. PlainInv /\ [MCNext]_<<vars, rb, rolling>> => PlainInv'
  <2> SUFFICES ASSUME PlainInv, [MCNext]_<<vars, rb, rolling>>, ~rolling'
               PROVE  IInv' /\ CleanInv'
    BY DEF PlainInv
  <2>1. ~rolling /\ IInv /\ CleanInv
    BY DEF MCNext, Committing, RollingBack, Ended, PlainInv
  <2>2. CASE Committing
    BY <2>1, <2>2, NextKeeps, NextClean DEF Committing
  <2>3. CASE UNCHANGED <<vars, rb, rolling>>
    BY <2>1, <2>3, StutterKeeps, StutterClean
  <2>4. QED
    BY <2>1, <2>2, <2>3 DEF MCNext, RollingBack, Ended
<1>3. QED
  BY <1>1, <1>2, PTL DEF MCSpec

\* The invariant of the runs: before a rollback nothing that an index refers to is
\* lost. (ltfs.c:2207-2337)
THEOREM PlainRefsStayIntact == NoErase => (MCSpec => []PlainRefsIntact)
<1>1. PlainInv => PlainRefsIntact
  BY IntactHolds DEF PlainInv, PlainRefsIntact
<1>2. QED
  BY <1>1, PlainInductive, PTL

\* The invariant of the runs: generations and back pointers tell the history.
\* (ltfs.c:2308)
THEOREM PlainChainHolds == NoErase => (MCSpec => []PlainIndexChain)
<1>1. PlainInv => PlainIndexChain
  BY ChainOK DEF PlainInv, PlainIndexChain
<1>2. QED
  BY <1>1, PlainInductive, PTL
=============================================================================
