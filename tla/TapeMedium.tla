----------------------------- MODULE TapeMedium -----------------------------
(***************************************************************************)
(* What libltfs expects of a cartridge: two partitions, each a sequence of *)
(* records and filemarks that is written at its end or cut there.  Losing  *)
(* power in the middle of a write loses nothing in front of it.            *)
(***************************************************************************)
EXTENDS Integers, Sequences

VARIABLES medium,              \* the records of each partition
          at                   \* where the head was when the drive was last used

TMInit == medium = [p \in {0, 1} |-> <<>>] /\ at \in {0, 1} \X Nat

Keeps(p, n) ==
  /\ n <= Len(medium[p]) /\ n <= Len(medium'[p])
  /\ SubSeq(medium'[p], 1, n) = SubSeq(medium[p], 1, n)
  /\ medium'[1 - p] = medium[1 - p]

Move == UNCHANGED medium
Put == \E n \in 0 .. Len(medium[at[1]]), r \in {"R", "F"} :
         /\ medium' = [medium EXCEPT ![at[1]] = Append(SubSeq(@, 1, n), r)]
         /\ n = at[2] /\ at' = <<at[1], n + 1>>
Cut == \E p \in {0, 1} : \E n \in 0 .. Len(medium[p]) :
         /\ medium' = [medium EXCEPT ![p] = SubSeq(@, 1, n)]
         /\ <<p, n>> = at \/ (at = <<0, 0>> /\ n = 0)
         /\ UNCHANGED at
Both == at = <<0, 0>> /\ medium' = [p \in {0, 1} |-> <<>>] /\ UNCHANGED at
\* The head is at the beginning when the cartridge is loaded again.
PowerLoss == Keeps(at[1], at[2]) /\ at' = <<0, 0>>

TMNext == Move \/ Put \/ Cut \/ Both \/ PowerLoss
TMSpec == TMInit /\ [][TMNext]_<<medium, at>>
=============================================================================
