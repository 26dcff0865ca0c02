----------------------------- MODULE BlockPool -----------------------------
(***************************************************************************)
(* What the schedulers expect of a cache pool: a number of blocks that can *)
(* be taken and given back.  UnifiedFile counts its blocks this way.       *)
(***************************************************************************)
EXTENDS Naturals

CONSTANT Blocks

VARIABLE taken

BPInit == taken = 0

Take == taken < Blocks /\ taken' = taken + 1

Give == taken > 0 /\ taken' = taken - 1

BPSpec == BPInit /\ [][Take \/ Give]_taken
=============================================================================
