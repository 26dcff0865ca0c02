----------------------------- MODULE MCRequests -----------------------------
(***************************************************************************)
(* What FUSE callers ask for, for TLC: paths (Namespace), open files        *)
(* (FuseFront) and the attributes of the volume (VolumeXattr). A behaviour  *)
(* is of one of the three.                                                  *)
(***************************************************************************)
EXTENDS MCNamespace, FuseFront, VolumeXattr

CONSTANTS u1, u2, e1, e2, h1, h2

\* Who uses an open file or an attribute, at which address and by which handle, is
\* never looked at.
Symm == Permutations({u1, u2}) \cup Permutations({e1, e2}) \cup Permutations({h1, h2})

OpenFiles ==
  {{"create", "open", "write", "fsync"}, {"create", "open", "write", "flush", "sync", "unlink"},
   {"create", "mkdir", "symlink", "readlink", "unlink", "open"}, {"create", "symlink", "unlink", "sync"},
   {"create", "utimens", "readonly", "xattr", "truncate", "sync", "getattr"}}
Attributes ==
  {{"lock", "write", "error", "mamfail", "crash"},
   {"name", "remove", "comment", "crash", "mamfail"}, {"stored", "lock", "crash"}}

VARIABLE part  \* "tree", "front" or "xattr"
SomeOf(S) == CHOOSE x \in S : TRUE

\* The parts a behaviour is not of stay as they are.
MCInit ==
  /\ part \in {"tree", "front", "xattr"}
  /\ part # "tree" => requests = Alone.requests
  /\ part # "front" => offered = SomeOf(FrontScenarios)
  /\ part # "xattr" => scenario = SomeOf(XattrScenarios)
  /\ Init /\ FrontInit /\ XattrInit

\* Nothing is claimed of what follows once an exit has strayed.
TreeStep == part = "tree" /\ (IF strayed THEN UNCHANGED vars ELSE Next)
            /\ UNCHANGED <<frontVars, xattrVars, part>>
FrontStep == part = "front" /\ FrontNext /\ UNCHANGED <<vars, xattrVars, part>>
XattrStep == part = "xattr" /\ XattrNext /\ UNCHANGED <<vars, frontVars, part>>
MCNext == TreeStep \/ FrontStep \/ XattrStep
MCSpec == MCInit /\ [][MCNext]_<<vars, frontVars, xattrVars, part>>
=============================================================================
