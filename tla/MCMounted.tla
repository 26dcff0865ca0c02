----------------------------- MODULE MCMounted ------------------------------
(***************************************************************************)
(* A mounted volume for TLC, as its callers see it: calls that meet resets  *)
(* and removals of the cartridge (VolumeGate), or a session from the mount  *)
(* to the unmount with its periodic sync (MountSession), or callers short   *)
(* of cache blocks (UnifiedFile).                                           *)
(***************************************************************************)
EXTENDS VolumeGate, MountSession

CONSTANTS Writers, Values, FileMax, MaxWrite, CacheSize, CacheBlocks, MaxIPSize, CanRename, Faults

VARIABLES f, media, alt, on_ext, matches, write_error, local_req_list, bg, pend,
          low, dev_error, made, flushed, stopped
File == INSTANCE UnifiedFile WITH content <- made
fileVars == <<f, media, alt, on_ext, matches, write_error, local_req_list, bg, pend,
              low, dev_error, made, flushed, stopped>>

VARIABLE part  \* which of the three this behaviour is of

MCInit ==
  /\ part \in {"gate", "session", "file"}
  /\ part # "session" => type = "unmount"
  /\ Init /\ SessionInit /\ File!Init
  /\ part # "file" => ~matches
InGate == part = "gate" /\ Next /\ UNCHANGED <<sessionVars, fileVars, part>>
InSession == part = "session" /\ SessionNext /\ UNCHANGED <<vars, fileVars, part>>
\* A bound: the file is not made shorter.
InFile == part = "file" /\ File!Next /\ f'.size >= f.size /\ UNCHANGED <<vars, sessionVars, part>>
MCNext == InGate \/ InSession \/ InFile

\* The fairness of each: a part that is not in this behaviour has nothing to
\* do, which TLC sees at once when told so.
MCSpec ==
  /\ MCInit /\ [][MCNext]_<<vars, sessionVars, fileVars, part>>
  /\ \A t \in Threads : WF_vars(part = "gate" /\ Step(t))
  /\ WF_sessionVars(part = "session" /\ Main)
  /\ WF_sessionVars(part = "session" /\ SyncThread)
  /\ \A t \in FuseThreads : WF_sessionVars(part = "session" /\ FuseThread(t))
  /\ []<>~File!BackgroundReady \/ []<><<part = "file">>_<<bg, local_req_list>>
  /\ \A c \in Writers : WF_fileVars(part = "file" /\ File!Grant(c)) /\ []<>(pend[c].spare = 0)

\* A caller that waits for a cache block gets one. (unified.c:1809-1837)
WaitersServed ==
  <>[][part = "file" => File!NoNewCalls]_fileVars
    => \A c \in Writers : File!Waiting(c) ~> ~File!Waiting(c)
=============================================================================
