--------------------------- MODULE MCUnifiedFile ---------------------------
(***************************************************************************)
(* UnifiedFile for TLC.                                                    *)
(***************************************************************************)
EXTENDS UnifiedFile, TLC

NoFaults     == {}
IPSpaceFault == {<<"IP", "space">>}
AllFaults    == {"DP", "IP"} \X {"space", "fatal"}
\* All but an index partition that is full.
ReportedFaults == AllFaults \ IPSpaceFault

\* What is written is never looked at, nor who writes.
Symm == Permutations(Values) \cup Permutations(Writers)
=============================================================================
