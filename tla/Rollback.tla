------------------------------ MODULE Rollback -------------------------------
(***************************************************************************)
(* ltfsck --rollback, on the volume of IndexCommit.  It mounts the volume,  *)
(* looks for the index of an earlier generation partition by partition and  *)
(* makes it the current one: in the ordinary case by writing the present    *)
(* index once more to the data partition, so that it is not lost, and then  *)
(* the old one to both partitions as a new generation; with --erase-history *)
(* by cutting both partitions off behind the old index.                     *)
(*                                                                          *)
(* Everything it writes goes through ltfs_write_index, so the faults of     *)
(* IndexCommit can strike at any place.                                     *)
(***************************************************************************)
EXTENDS IndexCommit

CONSTANTS MaxRollbacks, \* bound: rollbacks
          EraseHistory  \* values of opt->erase_history to try

VARIABLE rb  \* [step, n, goal, erase, cur, target, past, saved]: the rollback of
             \* ltfsck; past is what the tape had when it began, saved that the
             \* present index could be written once more
rvars == <<vars, rb>>

NoRollback == [step |-> "none", n |-> 0, goal |-> 0, erase |-> FALSE, cur |-> <<>>, target |-> <<>>, past |-> {}, saved |-> FALSE]

RInit == Init /\ rb = NoRollback

-----------------------------------------------------------------------------
(* Moving along file marks.  The two marks of the label come before the     *)
(* first record, number 1, which is block 4.                                *)
Marks(s) == <<-2, 0>> \o SelectSeq([i \in DOMAIN s |-> i], LAMBDA i : s[i] = FM)

\* tape_spacefm(-n) and tape_spacefm(1) from record k: behind the n-th mark before k.
BackForth(s, k, n) ==
  LET before == SelectSeq(Marks(s), LAMBDA m : m < k)
  IN  IF Len(before) < n THEN 0 ELSE before[Len(before) - n + 1] + 1

\* tape_locate_last_index and tape_locate_previous_index.
LocateLast(s) == BackForth(s, EOD(s), 2)
LocatePrevious(s, k) == BackForth(s, k, 4)

Readable(p, s, k) == k \in DOMAIN s /\ s[k].kind = "index" /\ s[k].self = <<p, k>>
\* Where ltfs_read_index leaves the head.
Behind(s, k) == IF k + 1 \in DOMAIN s /\ s[k + 1] = FM THEN k + 2 ELSE k + 1

NotFound == [kind |-> "no index"]
Unreadable == [kind |-> "error"]

(* ltfs_traverse_index_backward with search_index_by_gen: the index of the  *)
(* generation, NotFound or Unreadable.                                       *)
Backward(p, s, start, gen) ==
  LET from[k \in Int] ==
        IF k <= 1 THEN NotFound
        ELSE IF ~Readable(p, s, k) THEN Unreadable
        ELSE IF s[k].gen = gen THEN s[k]
        ELSE IF s[k].gen < gen THEN NotFound
        ELSE from[LocatePrevious(s, Behind(s, k))]
  IN  from[start]

(* ltfs_traverse_index_forward, from the first index to the last one.       *)
Forward(p, s, start, gen) ==
  LET from[k \in Int] ==
        IF k > LocateLast(s) THEN NotFound
        ELSE IF ~Readable(p, s, k) THEN Unreadable
        ELSE IF s[k].gen = gen THEN s[k]
        ELSE IF s[k].gen > gen THEN NotFound
        ELSE LET marks == SelectSeq(Marks(s), LAMBDA m : m >= Behind(s, k))
             IN  IF marks = <<>> THEN NotFound ELSE from[marks[1] + 1]
  IN  from[start]

Found(gen, erase) ==
  LET ip == Backward("IP", tape["IP"], LocateLast(tape["IP"]), gen)
  IN  IF ip # NotFound THEN ip
      ELSE IF erase THEN Forward("DP", tape["DP"], 2, gen)
      ELSE Backward("DP", tape["DP"], LocateLast(tape["DP"]), gen)

-----------------------------------------------------------------------------
(* ltfsck has mounted the volume, and unmounted it without writing: nothing *)
(* has changed since the mount.                                             *)
JustMounted ==
  /\ phase = "up" /\ Idle /\ ~index.dirty /\ pending = {} /\ want = "none" /\ buf = <<>>
  /\ index.self[1] = "IP" /\ append_pos["IP"] = IndexAppend(index.self)
  /\ \A p \in Parts : file_end[p]

Contents == {[ver |-> x.ver, refs |-> x.refs] : x \in OnTape}

StartRollback ==
  /\ JustMounted /\ rb.n < MaxRollbacks
  /\ \E gen \in 1..index.gen - 1, erase \in EraseHistory :
       rb' = [step |-> "search", n |-> rb.n + 1, goal |-> gen, erase |-> erase, cur |-> index, target |-> <<>>,
              past |-> Contents, saved |-> FALSE]
  /\ phase' = "rollback"
  /\ UNCHANGED <<medium, volume, job, less, ghosts, written, faults>>

Giveup == phase' = "closing" /\ rb' = [rb EXCEPT !.step = "failed"]
Step(s) == rb' = [rb EXCEPT !.step = s]

\* Without --erase-history the present index goes to the data partition first.
BackUp(erase) == ~erase

Search ==
  /\ rb.step = "search" /\ phase = "rollback"
  /\ LET target == Found(rb.goal, rb.erase)
     IN  IF target \in {NotFound, Unreadable}
         THEN Giveup /\ UNCHANGED <<volume, job>>
         ELSE /\ rb' = [rb EXCEPT !.target = target, !.step = IF rb.erase THEN "cut DP" ELSE "backed up"]
              /\ IF BackUp(rb.erase)
                 THEN index' = [rb.cur EXCEPT !.dirty = TRUE] /\ StartJob(<<"DP">>, "rollback")
                 ELSE UNCHANGED <<index, job>>
              /\ UNCHANGED <<phase, file_end, coh, append_pos, pending, want>>
  /\ UNCHANGED <<medium, less, ghosts, written, faults>>

\* A mutation: the old index keeps its own generation.
TargetGenerationOld(target, erase, gen) == target.gen

\* The old index is written as the generation after the present one.
TargetGeneration(target, erase, gen) == IF erase THEN target.gen ELSE gen

Target ==
  [gen |-> TargetGeneration(rb.target, rb.erase, index.gen), self |-> rb.target.self, back |-> rb.target.back,
   ver |-> rb.target.ver, refs |-> rb.target.refs, dirty |-> TRUE]

\* _rollback: the target takes the place of vol->index and is written to the
\* data partition, whether or not the present index could be written before.
WriteTarget ==
  /\ rb.step = "backed up" /\ phase = "rollback" /\ Idle
  /\ index' = Target
  /\ append_pos' = [append_pos EXCEPT !["IP"] = rb.cur.self[2] - 1]
  /\ StartJob(<<"DP">>, "rollback")
  /\ rb' = [rb EXCEPT !.step = "target in DP", !.saved = ~index.dirty]
  /\ UNCHANGED <<medium, file_end, coh, pending, want, phase, less, ghosts, written, faults>>

\* An index that was written is clean, one that was not is still dirty.
TargetInIP ==
  /\ rb.step = "target in DP" /\ phase = "rollback" /\ Idle
  /\ IF index.dirty THEN Giveup /\ UNCHANGED job
     ELSE StartJob(<<"IP">>, "rollback") /\ Step("target in IP") /\ UNCHANGED phase
  /\ UNCHANGED <<medium, volume, less, ghosts, written, faults>>

Outcome(ok) == IF ok THEN "done" ELSE "failed"

RollbackDone ==
  /\ rb.step = "target in IP" /\ phase = "rollback" /\ Idle
  /\ phase' = "closing"
  /\ Step(Outcome(index.self[1] = "IP" /\ ~index.dirty))
  /\ UNCHANGED <<medium, volume, job, less, ghosts, written, faults>>

-----------------------------------------------------------------------------
\* _erase_history: the file mark behind the index is written over, which ends
\* the partition there.
CutOff(at) ==
  /\ tape' = [tape EXCEPT ![at[1]] = Append(SubSeq(@, 1, at[2]), FM)]
  /\ mam' = [p \in Parts |-> [mam[p] EXCEPT !.current = FALSE]]

CutDataPartition ==
  /\ rb.step = "cut DP" /\ phase = "rollback"
  /\ LET at == IF rb.target.self[1] = "IP" THEN rb.target.back ELSE rb.target.self
     IN  \/ /\ at # None
            /\ CutOff(at) /\ Step("cut IP") /\ UNCHANGED <<phase, faults, clean>>
         \/ /\ at = None \/ Fault("locate")
            /\ IF at = None THEN UNCHANGED faults ELSE TRUE
            /\ Giveup /\ clean' = FALSE /\ UNCHANGED <<tape, mam>>
  /\ UNCHANGED <<head, buf, volume, job, less, committed, written>>

CutIndexPartition ==
  /\ rb.step = "cut IP" /\ phase = "rollback"
  /\ IF rb.target.self[1] = "IP"
     THEN /\ CutOff(rb.target.self) /\ Step("done") /\ phase' = "closing"
          /\ committed' = rb.target.ver
          /\ UNCHANGED <<index, append_pos, job>>
     ELSE /\ index' = Target
          /\ append_pos' = [append_pos EXCEPT !["IP"] = rb.cur.self[2] - 1]
          /\ StartJob(<<"IP">>, "rollback") /\ Step("target in IP")
          /\ UNCHANGED <<tape, mam, phase, committed>>
  /\ UNCHANGED <<head, buf, file_end, coh, pending, want, less, clean, written, faults>>

-----------------------------------------------------------------------------
\* The next mount ends the story of a rollback.
Volume == Next /\ rb' = IF phase \in {"down", "out"} /\ phase' \in {"up", "mount"} THEN [NoRollback EXCEPT !.n = rb.n, !.erase = rb.erase] ELSE rb

RNext ==
  \/ Volume \/ StartRollback \/ Search \/ WriteTarget \/ TargetInIP \/ RollbackDone
  \/ CutDataPartition \/ CutIndexPartition
RSpec == RInit /\ [][RNext]_rvars

-----------------------------------------------------------------------------
MountedNext == Chosen(Filled(tape["IP"]), Filled(tape["DP"]), TRUE)
Mountable == Verdict(Filled(tape["IP"]), Filled(tape["DP"]), TRUE) \in Parts
SameContent(x, y) == x.ver = y.ver /\ x.refs = y.refs

\* After a rollback that reports success the next mount shows the old content,
\* and after one that fails or crashes half-way the old or the present one: the
\* volume is never left without a consistent index. (ltfsck.c:1581-1620)
RollbackIsAtomic ==
  Down /\ rb.step # "none" /\ ~(rb.erase /\ rb.step # "done") =>
    /\ Mountable
    /\ \/ rb.target # <<>> /\ SameContent(MountedNext, rb.target)
       \/ SameContent(MountedNext, rb.cur) /\ rb.step # "done"

\* A rollback forgets nothing: each content the tape had can still be found on
\* it, so that the rollback can be undone. (ltfsck.c:1750-1767: the present index
\* is saved to the data partition before its place is written over; the code goes
\* on when that write fails, so the promise holds for a rollback that saved it)
HistoryIsKept ==
  rb.step \notin {"none", "search"} /\ ~rb.erase /\ Down =>
    \/ rb.past \subseteq Contents
    \/ ~rb.saved /\ rb.step \notin {"backed up", "failed"}

\* A rolled back volume numbers its indexes on: no two contents share a
\* generation and no index names a block or an index that is gone, in whatever
\* order rollbacks, changes, failures and crashes come.
RolledBackVolumeSound == ~rb.erase => GenerationNamesContent /\ RefsIntact /\ BackPointersResolve

\* A rollback can be undone, and the volume goes on from it as from any other
\* index. (ltfsck.c:1750-1767)
RollbackSafe == RolledBackVolumeSound /\ HistoryIsKept
=============================================================================
