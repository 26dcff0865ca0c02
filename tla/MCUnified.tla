----------------------------- MODULE MCUnified ------------------------------
(***************************************************************************)
(* UnifiedFile for TLC: a medium that takes everything, with files that     *)
(* are renamed in an instance of one value; or one that reports errors, in  *)
(* one of a short file with two values and one of a longer file with one.   *)
(***************************************************************************)
EXTENDS MCUnifiedFile

CONSTANT OneValue

VARIABLE kind  \* the instance this behaviour is of

Renamed == INSTANCE UnifiedFile WITH Values <- OneValue, CanRename <- TRUE
Failing == INSTANCE UnifiedFile WITH
  CacheSize <- 1, MaxWrite <- 1, MaxIPSize <- 3, Faults <- ReportedFaults, Values <- OneValue
Short == INSTANCE UnifiedFile WITH
  CacheSize <- 1, MaxWrite <- 1, MaxIPSize <- 3, Faults <- ReportedFaults, FileMax <- 2

\* They differ in their steps and bounds, and begin alike but for the policy.
MCInit ==
  /\ kind \in {"plain", "renamed", "failing", "short"}
  /\ IF kind \in {"plain", "renamed"} THEN Init ELSE Short!Init
Plain == kind = "plain" /\ Next /\ UNCHANGED kind
Renames == kind = "renamed" /\ Renamed!Next /\ UNCHANGED kind
Fails == kind = "failing" /\ Failing!Next /\ UNCHANGED kind
FailsShort == kind = "short" /\ Short!Next /\ UNCHANGED kind
MCNext == Plain \/ Renames \/ Fails \/ FailsShort
MCSpec == MCInit /\ [][MCNext]_<<vars, kind>>

\* The list, the counters and the cache blocks agree; with errors the counters
\* do, though blocks may be lost (unified.c:724).
BooksAgree ==
  CASE kind = "plain" -> Bookkeeping
    [] kind = "renamed" -> Renamed!Bookkeeping
    [] OTHER -> CountersExact

\* What callers wrote is what they read, unless they were told of an error.
\* (unified.c:495-657, 2238-2309)
ReadsBack == IF kind = "short" THEN Short!ReadsSeeWrites ELSE ReadsSeeWrites

\* What is on the medium after a flush of everything, and after an unmount; only
\* files the policy names are in the index partition. (unified.c:2178-2236)
MediumExact ==
  kind \in {"plain", "renamed"} =>
    MediumHoldsContent /\ IF kind = "plain" THEN IndexPartitionByPolicy ELSE Renamed!IndexPartitionByPolicy
=============================================================================
