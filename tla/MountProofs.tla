------------------------------- MODULE MountProofs -------------------------------
(***************************************************************************)
(* What a mount promises, the programs that make a cartridge for one, and    *)
(* the blocks of an index.                                                  *)
(*                                                                          *)
(* A session, for any number of FUSE threads, mounts, writes and syncs:      *)
(* between mounts every write is in an index, and no step leaves behind what *)
(* it should have given back.  Both follow from what is held, who runs and  *)
(* what has been written at each stage.                                     *)
(*                                                                          *)
(* mkltfs, unltfs and ltfsck, for any cartridges, command lines and faults:  *)
(* what carries the labels of a volume is one, a format that reports success *)
(* has left a cartridge that mounts, and a volume ends only when the user   *)
(* meant it.  All of it follows from how far a format is at each of its steps. *)
(*                                                                          *)
(* The index that a mount reads and a format writes, for any block size and  *)
(* pieces of any length: its bytes are in the blocks, and come back, in order. *)
(***************************************************************************)
EXTENDS MountSession, Cartridge, IndexStream, SequenceTheorems, TLAPS

Mounting == {"open", "setup", "mount", "latest", "policy", "status", "iosched", "sync"}
Serving == {"serving", "stop", "join", "flush", "unmount", "close"}
InSync == {"flush", "check", "dirty", "write", "synced"}

SessionType ==
  /\ stage \in {"out"} \cup Mounting \cup Serving
  /\ held \subseteq {"volume", "reserved", "locked", "iosched", "sync"}
  /\ reply \in {"none", "refused", "void", "mounted"}
  /\ keep \in BOOLEAN /\ n.writes \in Nat
  /\ n \in [mounts : Nat, writes : Nat, calls : Nat]
  /\ at \in [Actors -> {"idle"} \cup InSync \cup {"ask", "lock", "asked", "start", "loop", "wait", "wake", "ended"}]
  /\ \A t \in FuseThreads : at[t] \in {"idle", "ask", "lock", "asked"} \cup InSync
  /\ at[Syncer] \notin {"ask", "lock", "asked"}

\* What is held at each stage of a mount and an unmount.
HeldByStage ==
  /\ stage \in Mounting => reply = "none"
  /\ stage \in Serving => reply = "mounted"
  /\ stage = "out" /\ reply # "void" => held \subseteq {"volume", "reserved"}
  /\ stage = "out" /\ reply = "mounted" => held = {}
  /\ stage \in {"open", "setup", "mount"} => held \subseteq {"volume", "reserved"}
  /\ stage \in {"latest", "policy", "status", "iosched", "unmount", "close"} => held \subseteq {"volume", "reserved", "locked"}
  /\ stage \in {"sync", "flush"} => "sync" \notin held
  /\ stage = "join" => ~keep /\ "sync" \in held

\* Who runs at each stage, and what the locks say of them.
RunningByStage ==
  /\ stage # "serving" => \A t \in FuseThreads : at[t] = "idle"
  /\ stage \in {"serving", "stop", "join"} => ("sync" \notin held => at[Syncer] = "idle")
  /\ stage \notin {"serving", "stop", "join"} => at[Syncer] = "idle"
  /\ mutex = IF at[Syncer] \in {"loop"} \cup InSync THEN Syncer ELSE "free"
  /\ vlock \in Actors \cup {"free"}
  /\ \A a \in Actors : vlock = a <=> at[a] \in {"write", "asked"}

\* Where the writes are: all of them are in the scheduler or on tape, and all that
\* are on tape are in an index when no session is under way.
WritesByStage ==
  /\ cached \cup onTape = 1 .. n.writes
  /\ indexed \subseteq onTape
  /\ "iosched" \notin held => cached = {}
  /\ stage \notin {"serving", "stop", "join", "flush"} => cached = {}
  /\ stage \notin {"serving", "stop", "join", "flush", "unmount"} => indexed = onTape

SessionInv == SessionType /\ HeldByStage /\ RunningByStage /\ WritesByStage

-----------------------------------------------------------------------------
(* The steps.                                                              *)

LEMMA StepOrder == After("flush") = "unmount" /\ After("unmount") = "close" /\ After("close") = "out"
<1>1. LastSteps[1] = "flush" /\ LastSteps[2] = "unmount" /\ LastSteps[3] = "close" /\ Len(LastSteps) = 3
      /\ DOMAIN LastSteps = 1 .. 3
  BY DEF LastSteps
<1> HIDE DEF LastSteps
<1>2. (CHOOSE j \in DOMAIN LastSteps : LastSteps[j] = "flush") = 1
  BY <1>1
<1>3. (CHOOSE j \in DOMAIN LastSteps : LastSteps[j] = "unmount") = 2
  BY <1>1
<1>4. (CHOOSE j \in DOMAIN LastSteps : LastSteps[j] = "close") = 3
  BY <1>1
<1>5. QED
  BY <1>1, <1>2, <1>3, <1>4 DEF After

LEMMA SessionStarts == SessionInit => SessionInv
<1> SUFFICES ASSUME SessionInit PROVE SessionInv
  OBVIOUS
<1>1. SessionType
  <2>1. at \in [Actors -> {"idle"}] /\ FuseThreads \subseteq Actors /\ Syncer \in Actors
    BY DEF SessionInit, Actors
  <2>2. n \in [mounts : Nat, writes : Nat, calls : Nat] /\ n.writes \in Nat
    BY DEF SessionInit
  <2>3. QED
    BY <2>1, <2>2 DEF SessionInit, SessionType
<1>2. HeldByStage
  BY DEF SessionInit, HeldByStage, Mounting, Serving
<1>3. RunningByStage
  BY FuseThreadsAssumption DEF SessionInit, RunningByStage, InSync, Actors, Syncer
<1>4. WritesByStage
  <2>1. n.writes = 0 /\ 1 .. 0 = {}
    BY DEF SessionInit
  <2>2. QED
    BY <2>1 DEF SessionInit, WritesByStage
<1>5. QED
  BY <1>1, <1>2, <1>3, <1>4 DEF SessionInv

LEMMA SessionStep == ASSUME SessionInv, [SessionNext]_sessionVars PROVE SessionInv'
<1> USE FuseThreadsAssumption DEF Actors, Syncer
<1>0. SessionType /\ HeldByStage /\ RunningByStage /\ WritesByStage
  BY DEF SessionInv
<1>1. ASSUME MountStart
      PROVE  SessionInv'
  <2>1. SessionType'
    BY <1>0, <1>1 DEF MountStart, main, thread, data, SessionType, Mounting, Serving, InSync
  <2>2. HeldByStage'
    BY <1>0, <1>1 DEF MountStart, main, thread, data, SessionType, Mounting, Serving, InSync, HeldByStage, RunningByStage
  <2>3. RunningByStage'
    BY <1>0, <1>1 DEF MountStart, main, thread, data, SessionType, Mounting, Serving, InSync, HeldByStage, RunningByStage
  <2>4. WritesByStage'
    BY <1>0, <1>1 DEF MountStart, main, thread, data, SessionType, Mounting, Serving, InSync, HeldByStage, RunningByStage, WritesByStage
  <2>5. QED
    BY <2>1, <2>2, <2>3, <2>4 DEF SessionInv
<1>2. ASSUME Succeeds("open", "setup", {"reserved"}) /\ UNCHANGED <<thread, vlock, at, data, n>>
      PROVE  SessionInv'
  <2>1. SessionType'
    BY <1>0, <1>2 DEF Succeeds, main, thread, data, SessionType, Mounting, Serving, InSync
  <2>2. HeldByStage'
    BY <1>0, <1>2 DEF Succeeds, main, thread, data, SessionType, Mounting, Serving, InSync, HeldByStage, RunningByStage
  <2>3. RunningByStage'
    BY <1>0, <1>2 DEF Succeeds, main, thread, data, SessionType, Mounting, Serving, InSync, HeldByStage, RunningByStage
  <2>4. WritesByStage'
    BY <1>0, <1>2 DEF Succeeds, main, thread, data, SessionType, Mounting, Serving, InSync, HeldByStage, RunningByStage, WritesByStage
  <2>5. QED
    BY <2>1, <2>2, <2>3, <2>4 DEF SessionInv
<1>3. ASSUME NEW left \in {held, held \cup {"reserved"}}, Failed("open", left, "refused") /\ UNCHANGED <<thread, vlock, at, data, n>>
      PROVE  SessionInv'
  <2>1. SessionType'
    BY <1>0, <1>3 DEF Failed, main, thread, data, SessionType, Mounting, Serving, InSync
  <2>2. HeldByStage'
    BY <1>0, <1>3 DEF Failed, main, thread, data, SessionType, Mounting, Serving, InSync, HeldByStage, RunningByStage
  <2>3. RunningByStage'
    BY <1>0, <1>3 DEF Failed, main, thread, data, SessionType, Mounting, Serving, InSync, HeldByStage, RunningByStage
  <2>4. WritesByStage'
    BY <1>0, <1>3 DEF Failed, main, thread, data, SessionType, Mounting, Serving, InSync, HeldByStage, RunningByStage, WritesByStage
  <2>5. QED
    BY <2>1, <2>2, <2>3, <2>4 DEF SessionInv
<1>4. ASSUME SetupVolume /\ UNCHANGED <<thread, vlock, at, data, n>>
      PROVE  SessionInv'
  <2>1. SessionType'
    BY <1>0, <1>4 DEF SetupVolume, Succeeds, Failed, Closed, Freed, main, thread, data, SessionType, Mounting, Serving, InSync
  <2>2. HeldByStage'
    BY <1>0, <1>4 DEF SetupVolume, Succeeds, Failed, Closed, Freed, main, thread, data, SessionType, Mounting, Serving, InSync, HeldByStage, RunningByStage
  <2>3. RunningByStage'
    BY <1>0, <1>4 DEF SetupVolume, Succeeds, Failed, Closed, Freed, main, thread, data, SessionType, Mounting, Serving, InSync, HeldByStage, RunningByStage
  <2>4. WritesByStage'
    BY <1>0, <1>4 DEF SetupVolume, Succeeds, Failed, Closed, Freed, main, thread, data, SessionType, Mounting, Serving, InSync, HeldByStage, RunningByStage, WritesByStage
  <2>5. QED
    BY <2>1, <2>2, <2>3, <2>4 DEF SessionInv
<1>5. ASSUME MountVolume /\ UNCHANGED <<thread, vlock, at, data, n>>
      PROVE  SessionInv'
  <2>1. SessionType'
    BY <1>0, <1>5 DEF MountVolume, Succeeds, Failed, Closed, Freed, main, thread, data, SessionType, Mounting, Serving, InSync
  <2>2. HeldByStage'
    BY <1>0, <1>5 DEF MountVolume, Succeeds, Failed, Closed, Freed, main, thread, data, SessionType, Mounting, Serving, InSync, HeldByStage, RunningByStage
  <2>3. RunningByStage'
    BY <1>0, <1>5 DEF MountVolume, Succeeds, Failed, Closed, Freed, main, thread, data, SessionType, Mounting, Serving, InSync, HeldByStage, RunningByStage
  <2>4. WritesByStage'
    BY <1>0, <1>5 DEF MountVolume, Succeeds, Failed, Closed, Freed, main, thread, data, SessionType, Mounting, Serving, InSync, HeldByStage, RunningByStage, WritesByStage
  <2>5. QED
    BY <2>1, <2>2, <2>3, <2>4 DEF SessionInv
<1>6. ASSUME MountLatest /\ UNCHANGED <<thread, vlock, at, data, n>>
      PROVE  SessionInv'
  <2>1. SessionType'
    BY <1>0, <1>6 DEF MountLatest, Succeeds, Failed, Closed, Freed, main, thread, data, SessionType, Mounting, Serving, InSync
  <2>2. HeldByStage'
    BY <1>0, <1>6 DEF MountLatest, Succeeds, Failed, Closed, Freed, main, thread, data, SessionType, Mounting, Serving, InSync, HeldByStage, RunningByStage
  <2>3. RunningByStage'
    BY <1>0, <1>6 DEF MountLatest, Succeeds, Failed, Closed, Freed, main, thread, data, SessionType, Mounting, Serving, InSync, HeldByStage, RunningByStage
  <2>4. WritesByStage'
    BY <1>0, <1>6 DEF MountLatest, Succeeds, Failed, Closed, Freed, main, thread, data, SessionType, Mounting, Serving, InSync, HeldByStage, RunningByStage, WritesByStage
  <2>5. QED
    BY <2>1, <2>2, <2>3, <2>4 DEF SessionInv
<1>7. ASSUME OverrideRules /\ UNCHANGED <<thread, vlock, at, data, n>>
      PROVE  SessionInv'
  <2>1. SessionType'
    BY <1>0, <1>7 DEF OverrideRules, Succeeds, Failed, Closed, Freed, main, thread, data, SessionType, Mounting, Serving, InSync
  <2>2. HeldByStage'
    BY <1>0, <1>7 DEF OverrideRules, Succeeds, Failed, Closed, Freed, main, thread, data, SessionType, Mounting, Serving, InSync, HeldByStage, RunningByStage
  <2>3. RunningByStage'
    BY <1>0, <1>7 DEF OverrideRules, Succeeds, Failed, Closed, Freed, main, thread, data, SessionType, Mounting, Serving, InSync, HeldByStage, RunningByStage
  <2>4. WritesByStage'
    BY <1>0, <1>7 DEF OverrideRules, Succeeds, Failed, Closed, Freed, main, thread, data, SessionType, Mounting, Serving, InSync, HeldByStage, RunningByStage, WritesByStage
  <2>5. QED
    BY <2>1, <2>2, <2>3, <2>4 DEF SessionInv
<1>8. ASSUME CheckStatus /\ UNCHANGED <<thread, vlock, at, data, n>>
      PROVE  SessionInv'
  <2>1. SessionType'
    BY <1>0, <1>8 DEF CheckStatus, Succeeds, Failed, Closed, Freed, main, thread, data, SessionType, Mounting, Serving, InSync
  <2>2. HeldByStage'
    BY <1>0, <1>8 DEF CheckStatus, Succeeds, Failed, Closed, Freed, main, thread, data, SessionType, Mounting, Serving, InSync, HeldByStage, RunningByStage
  <2>3. RunningByStage'
    BY <1>0, <1>8 DEF CheckStatus, Succeeds, Failed, Closed, Freed, main, thread, data, SessionType, Mounting, Serving, InSync, HeldByStage, RunningByStage
  <2>4. WritesByStage'
    BY <1>0, <1>8 DEF CheckStatus, Succeeds, Failed, Closed, Freed, main, thread, data, SessionType, Mounting, Serving, InSync, HeldByStage, RunningByStage, WritesByStage
  <2>5. QED
    BY <2>1, <2>2, <2>3, <2>4 DEF SessionInv
<1>9. ASSUME StartScheduler /\ UNCHANGED <<thread, vlock, at, data, n>>
      PROVE  SessionInv'
  <2>1. SessionType'
    BY <1>0, <1>9 DEF StartScheduler, Succeeds, Failed, Closed, Freed, main, thread, data, SessionType, Mounting, Serving, InSync
  <2>2. HeldByStage'
    BY <1>0, <1>9 DEF StartScheduler, Succeeds, Failed, Closed, Freed, main, thread, data, SessionType, Mounting, Serving, InSync, HeldByStage, RunningByStage
  <2>3. RunningByStage'
    BY <1>0, <1>9 DEF StartScheduler, Succeeds, Failed, Closed, Freed, main, thread, data, SessionType, Mounting, Serving, InSync, HeldByStage, RunningByStage
  <2>4. WritesByStage'
    BY <1>0, <1>9 DEF StartScheduler, Succeeds, Failed, Closed, Freed, main, thread, data, SessionType, Mounting, Serving, InSync, HeldByStage, RunningByStage, WritesByStage
  <2>5. QED
    BY <2>1, <2>2, <2>3, <2>4 DEF SessionInv
<1>10. ASSUME StartSync
      PROVE  SessionInv'
  <2>1. SessionType'
    BY <1>0, <1>10 DEF StartSync, main, thread, data, SessionType, Mounting, Serving, InSync
  <2>2. HeldByStage'
    BY <1>0, <1>10 DEF StartSync, main, thread, data, SessionType, Mounting, Serving, InSync, HeldByStage, RunningByStage
  <2>3. RunningByStage'
    BY <1>0, <1>10 DEF StartSync, main, thread, data, SessionType, Mounting, Serving, InSync, HeldByStage, RunningByStage
  <2>4. WritesByStage'
    BY <1>0, <1>10 DEF StartSync, main, thread, data, SessionType, Mounting, Serving, InSync, HeldByStage, RunningByStage, WritesByStage
  <2>5. QED
    BY <2>1, <2>2, <2>3, <2>4 DEF SessionInv
<1>11. ASSUME StopSync
      PROVE  SessionInv'
  <2>1. SessionType'
    <3>1. stage' \in {"join", "flush"} /\ keep' \in BOOLEAN /\ UNCHANGED <<held, reply, n>>
      BY <1>0, <1>11 DEF StopSync, SessionType
    <3>2. at' = at \/ at' = [at EXCEPT ![Syncer] = "wake"]
      BY <1>0, <1>11 DEF StopSync, SessionType
    <3>3. QED
      BY <1>0, <3>1, <3>2 DEF SessionType, Serving
  <2>2. HeldByStage'
    BY <1>0, <1>11 DEF StopSync, main, thread, data, SessionType, Mounting, Serving, InSync, HeldByStage, RunningByStage
  <2>3. RunningByStage'
    BY <1>0, <1>11 DEF StopSync, main, thread, data, SessionType, Mounting, Serving, InSync, HeldByStage, RunningByStage
  <2>4. WritesByStage'
    BY <1>0, <1>11 DEF StopSync, main, thread, data, SessionType, Mounting, Serving, InSync, HeldByStage, RunningByStage, WritesByStage
  <2>5. QED
    BY <2>1, <2>2, <2>3, <2>4 DEF SessionInv
<1>12. ASSUME JoinSync
      PROVE  SessionInv'
  <2>1. SessionType'
    BY <1>0, <1>12 DEF JoinSync, main, thread, data, SessionType, Mounting, Serving, InSync
  <2>2. HeldByStage'
    BY <1>0, <1>12 DEF JoinSync, main, thread, data, SessionType, Mounting, Serving, InSync, HeldByStage, RunningByStage
  <2>3. RunningByStage'
    BY <1>0, <1>12 DEF JoinSync, main, thread, data, SessionType, Mounting, Serving, InSync, HeldByStage, RunningByStage
  <2>4. WritesByStage'
    BY <1>0, <1>12 DEF JoinSync, main, thread, data, SessionType, Mounting, Serving, InSync, HeldByStage, RunningByStage, WritesByStage
  <2>5. QED
    BY <2>1, <2>2, <2>3, <2>4 DEF SessionInv
<1>13. ASSUME DestroyScheduler
      PROVE  SessionInv'
  <2>1. SessionType'
    BY <1>0, <1>13, StepOrder DEF DestroyScheduler, Flushed, main, thread, data, SessionType, Mounting, Serving, InSync
  <2>2. HeldByStage'
    BY <1>0, <1>13, StepOrder DEF DestroyScheduler, Flushed, main, thread, data, SessionType, Mounting, Serving, InSync, HeldByStage, RunningByStage
  <2>3. RunningByStage'
    BY <1>0, <1>13, StepOrder DEF DestroyScheduler, Flushed, main, thread, data, SessionType, Mounting, Serving, InSync, HeldByStage, RunningByStage
  <2>4. WritesByStage'
    BY <1>0, <1>13, StepOrder DEF DestroyScheduler, Flushed, main, thread, data, SessionType, Mounting, Serving, InSync, HeldByStage, RunningByStage, WritesByStage
  <2>5. QED
    BY <2>1, <2>2, <2>3, <2>4 DEF SessionInv
<1>14. ASSUME UnmountVolume
      PROVE  SessionInv'
  <2>1. SessionType'
    BY <1>0, <1>14, StepOrder DEF UnmountVolume, Dirty, main, thread, data, SessionType, Mounting, Serving, InSync
  <2>2. HeldByStage'
    BY <1>0, <1>14, StepOrder DEF UnmountVolume, Dirty, main, thread, data, SessionType, Mounting, Serving, InSync, HeldByStage, RunningByStage
  <2>3. RunningByStage'
    BY <1>0, <1>14, StepOrder DEF UnmountVolume, Dirty, main, thread, data, SessionType, Mounting, Serving, InSync, HeldByStage, RunningByStage
  <2>4. WritesByStage'
    BY <1>0, <1>14, StepOrder DEF UnmountVolume, Dirty, main, thread, data, SessionType, Mounting, Serving, InSync, HeldByStage, RunningByStage, WritesByStage
  <2>5. QED
    BY <2>1, <2>2, <2>3, <2>4 DEF SessionInv
<1>15. ASSUME CloseDevice
      PROVE  SessionInv'
  <2>1. SessionType'
    BY <1>0, <1>15, StepOrder DEF CloseDevice, Freed, Closed, main, thread, data, SessionType, Mounting, Serving, InSync
  <2>2. HeldByStage'
    BY <1>0, <1>15, StepOrder DEF CloseDevice, Freed, Closed, main, thread, data, SessionType, Mounting, Serving, InSync, HeldByStage, RunningByStage
  <2>3. RunningByStage'
    BY <1>0, <1>15, StepOrder DEF CloseDevice, Freed, Closed, main, thread, data, SessionType, Mounting, Serving, InSync, HeldByStage, RunningByStage
  <2>4. WritesByStage'
    BY <1>0, <1>15, StepOrder DEF CloseDevice, Freed, Closed, main, thread, data, SessionType, Mounting, Serving, InSync, HeldByStage, RunningByStage, WritesByStage
  <2>5. QED
    BY <2>1, <2>2, <2>3, <2>4 DEF SessionInv
<1>16. ASSUME Umount
      PROVE  SessionInv'
  <2>1. SessionType'
    BY <1>0, <1>16 DEF Umount, main, thread, data, SessionType, Mounting, Serving, InSync
  <2>2. HeldByStage'
    BY <1>0, <1>16 DEF Umount, main, thread, data, SessionType, Mounting, Serving, InSync, HeldByStage, RunningByStage
  <2>3. RunningByStage'
    BY <1>0, <1>16 DEF Umount, main, thread, data, SessionType, Mounting, Serving, InSync, HeldByStage, RunningByStage
  <2>4. WritesByStage'
    BY <1>0, <1>16 DEF Umount, main, thread, data, SessionType, Mounting, Serving, InSync, HeldByStage, RunningByStage, WritesByStage
  <2>5. QED
    BY <2>1, <2>2, <2>3, <2>4 DEF SessionInv
<1>17. ASSUME at[Syncer] = "start" /\ TakeMutex("loop")
      PROVE  SessionInv'
  <2>1. SessionType'
    BY <1>0, <1>17 DEF TakeMutex, main, thread, data, SessionType, Mounting, Serving, InSync
  <2>2. HeldByStage'
    BY <1>0, <1>17 DEF TakeMutex, main, thread, data, SessionType, Mounting, Serving, InSync, HeldByStage, RunningByStage
  <2>3. RunningByStage'
    BY <1>0, <1>17 DEF TakeMutex, main, thread, data, SessionType, Mounting, Serving, InSync, HeldByStage, RunningByStage
  <2>4. WritesByStage'
    BY <1>0, <1>17 DEF TakeMutex, main, thread, data, SessionType, Mounting, Serving, InSync, HeldByStage, RunningByStage, WritesByStage
  <2>5. QED
    BY <2>1, <2>2, <2>3, <2>4 DEF SessionInv
<1>18. ASSUME Wait
      PROVE  SessionInv'
  <2>1. SessionType'
    BY <1>0, <1>18 DEF Wait, Move, Alive, main, thread, data, SessionType, Mounting, Serving, InSync
  <2>2. HeldByStage'
    BY <1>0, <1>18 DEF Wait, Move, Alive, main, thread, data, SessionType, Mounting, Serving, InSync, HeldByStage, RunningByStage
  <2>3. RunningByStage'
    BY <1>0, <1>18 DEF Wait, Move, Alive, main, thread, data, SessionType, Mounting, Serving, InSync, HeldByStage, RunningByStage
  <2>4. WritesByStage'
    BY <1>0, <1>18 DEF Wait, Move, Alive, main, thread, data, SessionType, Mounting, Serving, InSync, HeldByStage, RunningByStage, WritesByStage
  <2>5. QED
    BY <2>1, <2>2, <2>3, <2>4 DEF SessionInv
<1>19. ASSUME at[Syncer] = "wake" /\ TakeMutex(IF Alive(keep) THEN "flush" ELSE "loop")
      PROVE  SessionInv'
  <2>1. SessionType'
    BY <1>0, <1>19 DEF TakeMutex, Alive, main, thread, data, SessionType, Mounting, Serving, InSync
  <2>2. HeldByStage'
    BY <1>0, <1>19 DEF TakeMutex, Alive, main, thread, data, SessionType, Mounting, Serving, InSync, HeldByStage, RunningByStage
  <2>3. RunningByStage'
    BY <1>0, <1>19 DEF TakeMutex, Alive, main, thread, data, SessionType, Mounting, Serving, InSync, HeldByStage, RunningByStage
  <2>4. WritesByStage'
    BY <1>0, <1>19 DEF TakeMutex, Alive, main, thread, data, SessionType, Mounting, Serving, InSync, HeldByStage, RunningByStage, WritesByStage
  <2>5. QED
    BY <2>1, <2>2, <2>3, <2>4 DEF SessionInv
<1>20. ASSUME Move(Syncer, "synced", "loop") /\ UNCHANGED <<main, thread, vlock, data, n>>
      PROVE  SessionInv'
  <2>1. SessionType'
    BY <1>0, <1>20 DEF Move, main, thread, data, SessionType, Mounting, Serving, InSync
  <2>2. HeldByStage'
    BY <1>0, <1>20 DEF Move, main, thread, data, SessionType, Mounting, Serving, InSync, HeldByStage, RunningByStage
  <2>3. RunningByStage'
    BY <1>0, <1>20 DEF Move, main, thread, data, SessionType, Mounting, Serving, InSync, HeldByStage, RunningByStage
  <2>4. WritesByStage'
    BY <1>0, <1>20 DEF Move, main, thread, data, SessionType, Mounting, Serving, InSync, HeldByStage, RunningByStage, WritesByStage
  <2>5. QED
    BY <2>1, <2>2, <2>3, <2>4 DEF SessionInv
<1>21. ASSUME Timer
      PROVE  SessionInv'
  <2>1. SessionType'
    BY <1>0, <1>21 DEF Timer, Move, main, thread, data, SessionType, Mounting, Serving, InSync
  <2>2. HeldByStage'
    BY <1>0, <1>21 DEF Timer, Move, main, thread, data, SessionType, Mounting, Serving, InSync, HeldByStage, RunningByStage
  <2>3. RunningByStage'
    BY <1>0, <1>21 DEF Timer, Move, main, thread, data, SessionType, Mounting, Serving, InSync, HeldByStage, RunningByStage
  <2>4. WritesByStage'
    BY <1>0, <1>21 DEF Timer, Move, main, thread, data, SessionType, Mounting, Serving, InSync, HeldByStage, RunningByStage, WritesByStage
  <2>5. QED
    BY <2>1, <2>2, <2>3, <2>4 DEF SessionInv
<1>22. ASSUME Drain
      PROVE  SessionInv'
  <2>1. SessionType'
    BY <1>0, <1>22 DEF Drain, main, thread, data, SessionType, Mounting, Serving, InSync
  <2>2. HeldByStage'
    BY <1>0, <1>22 DEF Drain, main, thread, data, SessionType, Mounting, Serving, InSync, HeldByStage, RunningByStage
  <2>3. RunningByStage'
    BY <1>0, <1>22 DEF Drain, main, thread, data, SessionType, Mounting, Serving, InSync, HeldByStage, RunningByStage
  <2>4. WritesByStage'
    BY <1>0, <1>22 DEF Drain, main, thread, data, SessionType, Mounting, Serving, InSync, HeldByStage, RunningByStage, WritesByStage
  <2>5. QED
    BY <2>1, <2>2, <2>3, <2>4 DEF SessionInv
<1>23. ASSUME NEW a \in Actors, Flush(a, "flush", "check")
      PROVE  SessionInv'
  <2>1. SessionType'
    BY <1>0, <1>23 DEF Flush, Move, Flushed, main, thread, data, SessionType, Mounting, Serving, InSync
  <2>2. HeldByStage'
    BY <1>0, <1>23 DEF Flush, Move, Flushed, main, thread, data, SessionType, Mounting, Serving, InSync, HeldByStage, RunningByStage
  <2>3. RunningByStage'
    BY <1>0, <1>23 DEF Flush, Move, Flushed, main, thread, data, SessionType, Mounting, Serving, InSync, HeldByStage, RunningByStage
  <2>4. WritesByStage'
    BY <1>0, <1>23 DEF Flush, Move, Flushed, main, thread, data, SessionType, Mounting, Serving, InSync, HeldByStage, RunningByStage, WritesByStage
  <2>5. QED
    BY <2>1, <2>2, <2>3, <2>4 DEF SessionInv
<1>24. ASSUME NEW a \in Actors, CheckDirty(a)
      PROVE  SessionInv'
  <2>1. SessionType'
    BY <1>0, <1>24 DEF CheckDirty, Dirty, main, thread, data, SessionType, Mounting, Serving, InSync
  <2>2. HeldByStage'
    BY <1>0, <1>24 DEF CheckDirty, Dirty, main, thread, data, SessionType, Mounting, Serving, InSync, HeldByStage, RunningByStage
  <2>3. RunningByStage'
    BY <1>0, <1>24 DEF CheckDirty, Dirty, main, thread, data, SessionType, Mounting, Serving, InSync, HeldByStage, RunningByStage
  <2>4. WritesByStage'
    BY <1>0, <1>24 DEF CheckDirty, Dirty, main, thread, data, SessionType, Mounting, Serving, InSync, HeldByStage, RunningByStage, WritesByStage
  <2>5. QED
    BY <2>1, <2>2, <2>3, <2>4 DEF SessionInv
<1>25. ASSUME NEW a \in Actors, LockForIndex(a)
      PROVE  SessionInv'
  <2>1. SessionType'
    BY <1>0, <1>25 DEF LockForIndex, Move, main, thread, data, SessionType, Mounting, Serving, InSync
  <2>2. HeldByStage'
    BY <1>0, <1>25 DEF LockForIndex, Move, main, thread, data, SessionType, Mounting, Serving, InSync, HeldByStage, RunningByStage
  <2>3. RunningByStage'
    BY <1>0, <1>25 DEF LockForIndex, Move, main, thread, data, SessionType, Mounting, Serving, InSync, HeldByStage, RunningByStage
  <2>4. WritesByStage'
    BY <1>0, <1>25 DEF LockForIndex, Move, main, thread, data, SessionType, Mounting, Serving, InSync, HeldByStage, RunningByStage, WritesByStage
  <2>5. QED
    BY <2>1, <2>2, <2>3, <2>4 DEF SessionInv
<1>26. ASSUME NEW a \in Actors, IndexWritten(a)
      PROVE  SessionInv'
  <2>1. SessionType'
    BY <1>0, <1>26 DEF IndexWritten, Move, main, thread, data, SessionType, Mounting, Serving, InSync
  <2>2. HeldByStage'
    BY <1>0, <1>26 DEF IndexWritten, Move, main, thread, data, SessionType, Mounting, Serving, InSync, HeldByStage, RunningByStage
  <2>3. RunningByStage'
    BY <1>0, <1>26 DEF IndexWritten, Move, main, thread, data, SessionType, Mounting, Serving, InSync, HeldByStage, RunningByStage
  <2>4. WritesByStage'
    BY <1>0, <1>26 DEF IndexWritten, Move, main, thread, data, SessionType, Mounting, Serving, InSync, HeldByStage, RunningByStage, WritesByStage
  <2>5. QED
    BY <2>1, <2>2, <2>3, <2>4 DEF SessionInv
<1>27. ASSUME NEW t \in FuseThreads, WriteFile(t)
      PROVE  SessionInv'
  <2>1. SessionType'
    BY <1>0, <1>27 DEF WriteFile, main, thread, data, SessionType, Mounting, Serving, InSync
  <2>2. HeldByStage'
    BY <1>0, <1>27 DEF WriteFile, main, thread, data, SessionType, Mounting, Serving, InSync, HeldByStage, RunningByStage
  <2>3. RunningByStage'
    BY <1>0, <1>27 DEF WriteFile, main, thread, data, SessionType, Mounting, Serving, InSync, HeldByStage, RunningByStage
  <2>4. WritesByStage'
    BY <1>0, <1>27 DEF WriteFile, main, thread, data, SessionType, Mounting, Serving, InSync, HeldByStage, RunningByStage, WritesByStage
  <2>5. QED
    BY <2>1, <2>2, <2>3, <2>4 DEF SessionInv
<1>28. ASSUME NEW t \in FuseThreads, CloseFile(t)
      PROVE  SessionInv'
  <2>1. SessionType'
    BY <1>0, <1>28 DEF CloseFile, Move, main, thread, data, SessionType, Mounting, Serving, InSync
  <2>2. HeldByStage'
    BY <1>0, <1>28 DEF CloseFile, Move, main, thread, data, SessionType, Mounting, Serving, InSync, HeldByStage, RunningByStage
  <2>3. RunningByStage'
    BY <1>0, <1>28 DEF CloseFile, Move, main, thread, data, SessionType, Mounting, Serving, InSync, HeldByStage, RunningByStage
  <2>4. WritesByStage'
    BY <1>0, <1>28 DEF CloseFile, Move, main, thread, data, SessionType, Mounting, Serving, InSync, HeldByStage, RunningByStage, WritesByStage
  <2>5. QED
    BY <2>1, <2>2, <2>3, <2>4 DEF SessionInv
<1>29. ASSUME NEW t \in FuseThreads, AskSync(t)
      PROVE  SessionInv'
  <2>1. SessionType'
    BY <1>0, <1>29 DEF AskSync, Move, main, thread, data, SessionType, Mounting, Serving, InSync
  <2>2. HeldByStage'
    BY <1>0, <1>29 DEF AskSync, Move, main, thread, data, SessionType, Mounting, Serving, InSync, HeldByStage, RunningByStage
  <2>3. RunningByStage'
    BY <1>0, <1>29 DEF AskSync, Move, main, thread, data, SessionType, Mounting, Serving, InSync, HeldByStage, RunningByStage
  <2>4. WritesByStage'
    BY <1>0, <1>29 DEF AskSync, Move, main, thread, data, SessionType, Mounting, Serving, InSync, HeldByStage, RunningByStage, WritesByStage
  <2>5. QED
    BY <2>1, <2>2, <2>3, <2>4 DEF SessionInv
<1>30. ASSUME NEW t \in FuseThreads, Flush(t, "ask", "lock")
      PROVE  SessionInv'
  <2>1. SessionType'
    BY <1>0, <1>30 DEF Flush, Move, Flushed, main, thread, data, SessionType, Mounting, Serving, InSync
  <2>2. HeldByStage'
    BY <1>0, <1>30 DEF Flush, Move, Flushed, main, thread, data, SessionType, Mounting, Serving, InSync, HeldByStage, RunningByStage
  <2>3. RunningByStage'
    BY <1>0, <1>30 DEF Flush, Move, Flushed, main, thread, data, SessionType, Mounting, Serving, InSync, HeldByStage, RunningByStage
  <2>4. WritesByStage'
    BY <1>0, <1>30 DEF Flush, Move, Flushed, main, thread, data, SessionType, Mounting, Serving, InSync, HeldByStage, RunningByStage, WritesByStage
  <2>5. QED
    BY <2>1, <2>2, <2>3, <2>4 DEF SessionInv
<1>31. ASSUME NEW t \in FuseThreads, AskedSync(t)
      PROVE  SessionInv'
  <2>1. SessionType'
    BY <1>0, <1>31 DEF AskedSync, Move, main, thread, data, SessionType, Mounting, Serving, InSync
  <2>2. HeldByStage'
    BY <1>0, <1>31 DEF AskedSync, Move, main, thread, data, SessionType, Mounting, Serving, InSync, HeldByStage, RunningByStage
  <2>3. RunningByStage'
    BY <1>0, <1>31 DEF AskedSync, Move, main, thread, data, SessionType, Mounting, Serving, InSync, HeldByStage, RunningByStage
  <2>4. WritesByStage'
    BY <1>0, <1>31 DEF AskedSync, Move, main, thread, data, SessionType, Mounting, Serving, InSync, HeldByStage, RunningByStage, WritesByStage
  <2>5. QED
    BY <2>1, <2>2, <2>3, <2>4 DEF SessionInv
<1>32. ASSUME NEW t \in FuseThreads, SignalSync(t)
      PROVE  SessionInv'
  <2>1. SessionType'
    BY <1>0, <1>32 DEF SignalSync, main, thread, data, SessionType, Mounting, Serving, InSync
  <2>2. HeldByStage'
    BY <1>0, <1>32 DEF SignalSync, main, thread, data, SessionType, Mounting, Serving, InSync, HeldByStage, RunningByStage
  <2>3. RunningByStage'
    BY <1>0, <1>32 DEF SignalSync, main, thread, data, SessionType, Mounting, Serving, InSync, HeldByStage, RunningByStage
  <2>4. WritesByStage'
    BY <1>0, <1>32 DEF SignalSync, main, thread, data, SessionType, Mounting, Serving, InSync, HeldByStage, RunningByStage, WritesByStage
  <2>5. QED
    BY <2>1, <2>2, <2>3, <2>4 DEF SessionInv
<1>33. ASSUME NEW t \in FuseThreads, SyncHere(t)
      PROVE  SessionInv'
  <2>1. SessionType'
    BY <1>0, <1>33 DEF SyncHere, Move, main, thread, data, SessionType, Mounting, Serving, InSync
  <2>2. HeldByStage'
    BY <1>0, <1>33 DEF SyncHere, Move, main, thread, data, SessionType, Mounting, Serving, InSync, HeldByStage, RunningByStage
  <2>3. RunningByStage'
    BY <1>0, <1>33 DEF SyncHere, Move, main, thread, data, SessionType, Mounting, Serving, InSync, HeldByStage, RunningByStage
  <2>4. WritesByStage'
    BY <1>0, <1>33 DEF SyncHere, Move, main, thread, data, SessionType, Mounting, Serving, InSync, HeldByStage, RunningByStage, WritesByStage
  <2>5. QED
    BY <2>1, <2>2, <2>3, <2>4 DEF SessionInv
<1>34. ASSUME NEW t \in FuseThreads, Return(t)
      PROVE  SessionInv'
  <2>1. SessionType'
    BY <1>0, <1>34 DEF Return, Move, main, thread, data, SessionType, Mounting, Serving, InSync
  <2>2. HeldByStage'
    BY <1>0, <1>34 DEF Return, Move, main, thread, data, SessionType, Mounting, Serving, InSync, HeldByStage, RunningByStage
  <2>3. RunningByStage'
    BY <1>0, <1>34 DEF Return, Move, main, thread, data, SessionType, Mounting, Serving, InSync, HeldByStage, RunningByStage
  <2>4. WritesByStage'
    BY <1>0, <1>34 DEF Return, Move, main, thread, data, SessionType, Mounting, Serving, InSync, HeldByStage, RunningByStage, WritesByStage
  <2>5. QED
    BY <2>1, <2>2, <2>3, <2>4 DEF SessionInv
<1>35. CASE UNCHANGED sessionVars
  BY <1>0, <1>35 DEF sessionVars, SessionInv, SessionType, HeldByStage, RunningByStage, WritesByStage
<1>36. QED
  <2>1. ASSUME SessionNext PROVE SessionInv'
    BY <2>1, <1>1, <1>2, <1>3, <1>4, <1>5, <1>6, <1>7, <1>8, <1>9, <1>10, <1>11, <1>12, <1>13, <1>14, <1>15, <1>16, <1>17, <1>18, <1>19, <1>20, <1>21, <1>22, <1>23, <1>24, <1>25, <1>26, <1>27, <1>28, <1>29, <1>30, <1>31, <1>32, <1>33, <1>34
       DEF SessionNext, Main, MountStep, OpenDevice, SyncThread, FuseThread
  <2>2. QED
    BY <2>1, <1>35

-----------------------------------------------------------------------------
(* The theorems.                                                           *)

\* Between mounts every write that was accepted is in an index: the umount stops
\* whatever could still change the volume before it writes the last one.
THEOREM WritesIndexed == SessionSpec => []WritesReachIndex
<1>1. SessionInv => WritesReachIndex
  BY DEF SessionInv, WritesByStage, WritesReachIndex
<1>2. QED
  BY <1>1, SessionStarts, SessionStep, PTL DEF SessionSpec

\* A mount that is refused, and an unmount, leave no lock and no thread behind.
THEOREM NothingLeft == SessionSpec => []LeavesNothingBehind
<1>1. SessionInv => LeavesNothingBehind
  BY FuseThreadsAssumption DEF SessionInv, SessionType, HeldByStage, RunningByStage, LeavesNothingBehind, Actors, InSync, Syncer
<1>2. QED
  BY <1>1, SessionStarts, SessionStep, PTL DEF SessionSpec
-----------------------------------------------------------------------------
(* The programs that own a cartridge: the invariant.                       *)

\* The steps of the programs.
Ops == {"interrupt", "format", "unformat", "erase", "seekeod", "recover", "mount", "unlock"}
StepSet == [op : Ops] \cup [op : {"index"}, part : Parts] \cup [op : {"write"}, part : Parts, rec : {"vol1", "fm", "xml"}]

\* A run that is no format has only these operations left.
OnlyOps(S) == todo \in Seq({Step(x) : x \in S})

\* The label format f writes to a partition, and the first m records of one.
NewLabel(o, f, p) == [MakeLabel(f, IF p = 0 THEN "a" ELSE "b") EXCEPT !.block = o.block]
Begun(s, m, label) ==
  /\ IF m < 4 THEN Len(s) = m ELSE Len(s) >= 4
  /\ m >= 1 => s[1] = Vol1
  /\ m >= 2 => s[2] = FM
  /\ m >= 3 => s[3] = Xml(label)
  /\ m >= 4 => s[4] = FM

\* How much of a label is there before step k, when its first record is step i.
Before(k, i) == IF k <= i THEN 0 ELSE IF k <= i + 4 THEN k - i ELSE 4

\* What is on cartridge c before step k of format f: nothing the user has not
\* given up, then the labels as far as they are written, the one of the index
\* partition behind an index in the data partition.  After a write error (e)
\* the next step is the last: it will be refused.
Reached(c, o, f, e, k) ==
  /\ k <= 2 => o.force \/ o.ask \/ StartMount(c) # "OK"
  /\ k >= 3 => c.parts = 2 /\ c.eod[0] = "good" /\ c.eod[1] = "good"
  /\ k >= 3 /\ ~e => Begun(c.rec[1], Before(k, 4), NewLabel(o, f, 1)) /\ Begun(c.rec[0], Before(k, 10), NewLabel(o, f, 0))
  /\ k >= 9 /\ ~e => \E i \in DOMAIN c.rec[1] : c.rec[1][i] = Index(f)
  /\ e => k \in {8, 14} /\ Len(c.rec[0]) < 4
Formatting == \E k \in 1 .. 15 : todo = SubSeq(FormatSteps(opt), k, 14) /\ Reached(cart, opt, runs, error, k)

CartInv ==
  /\ cart \in Cartridges /\ runs \in Nat /\ error \in BOOLEAN
  /\ prog \in {"none", "mkltfs", "unltfs", "ltfsck"}
  /\ LabelsMeanVolume
  /\ prog = "none" => SuccessIsMountable
  /\ prog # "none" => opt \in Options(prog)
  /\ error => prog = "mkltfs" /\ ~opt.unformat
  /\ prog = "mkltfs" /\ ~opt.unformat => opt.block <= LargestBlock /\ Formatting
  /\ prog = "mkltfs" /\ opt.unformat => OnlyOps({"interrupt", "unformat", "erase"})
  /\ prog = "unltfs" => OnlyOps({"unformat"})
  /\ prog = "ltfsck" => OnlyOps({"seekeod", "recover", "mount", "unlock"})

\* A step that ends a volume was meant.
Spared == StartMount(cart) = "OK" /\ StartMount(cart') # "OK" => Meant

-----------------------------------------------------------------------------
(* Cartridges.                                                             *)

LEMMA Fields ==
  ASSUME NEW c \in Cartridges
  PROVE  /\ c.parts \in {1, 2} /\ c.rec \in [Parts -> Seq(Records)] /\ c.eod \in [Parts -> {"good", "missing"}]
         /\ c.lock \in {"unlocked", "locked", "pwe"} /\ c.ro \in BOOLEAN /\ c.qstar \in BOOLEAN /\ c.app \in BOOLEAN
  BY DEF Cartridges

\* A cartridge is a volume by its records.
LEMMA SameVolume ==
  ASSUME NEW c, NEW d, c.parts = d.parts, c.rec = d.rec
  PROVE  /\ StartMount(c) = StartMount(d) /\ DataPart(c) = DataPart(d)
         /\ \A p : IndexOn(c, p) = IndexOn(d, p)
<1>1. StartMount(c) = StartMount(d)
  BY DEF StartMount
<1>2. DataPart(c) = DataPart(d)
  BY Zenon DEF DataPart
<1>3. \A p : IndexOn(c, p) = IndexOn(d, p)
  BY DEF IndexOn, Format
<1>4. QED
  BY <1>1, <1>2, <1>3

\* Without a label that is whole it is none.
LEMMA NoVolume ==
  ASSUME NEW c, c.parts # 2 \/ LabelOf(c.rec[0]) = NoLabel
  PROVE  StartMount(c) # "OK"
  BY DEF StartMount, Parts

LEMMA ShortIsNoLabel == ASSUME NEW s, ~(Len(s) >= 4) PROVE LabelOf(s) = NoLabel
  BY DEF LabelOf

\* One partition of a volume has the label of a data partition.
LEMMA DataPartIs ==
  ASSUME NEW c, StartMount(c) = "OK", NEW p \in Parts, LabelOf(c.rec[p]).this = LabelOf(c.rec[p]).dp
  PROVE  DataPart(c) = p
<1>1. Compare(LabelOf(c.rec[0]), LabelOf(c.rec[1]))
  BY DEF StartMount, Parts
<1>2. \A q \in Parts : LabelOf(c.rec[q]).this = LabelOf(c.rec[q]).dp => q = p
  BY <1>1 DEF Compare, Parts
<1>3. QED
  BY <1>2 DEF DataPart

-----------------------------------------------------------------------------
(* Steps to do.                                                            *)

LEMMA Suffix ==
  ASSUME NEW X, NEW s \in Seq(X), NEW k \in 1 .. Len(s)
  PROVE  /\ SubSeq(s, k, Len(s)) # <<>> /\ Head(SubSeq(s, k, Len(s))) = s[k]
         /\ Tail(SubSeq(s, k, Len(s))) = SubSeq(s, k + 1, Len(s))
<1>1. Len(s) \in Nat /\ k \in 1 .. Len(s) /\ Len(s) \in k .. Len(s)
  BY LenProperties
<1>2. Head(SubSeq(s, k, Len(s))) = s[k] /\ Tail(SubSeq(s, k, Len(s))) = SubSeq(s, k + 1, Len(s))
  BY <1>1, HeadTailOfSubSeq
<1>3. SubSeq(s, k, Len(s)) # <<>>
  <2>1. \A i \in k .. Len(s) : s[i] \in X
    BY <1>1, ElementOfSeq
  <2>2. SubSeq(s, k, Len(s)) \in Seq(X) /\ Len(SubSeq(s, k, Len(s))) = IF k <= Len(s) THEN Len(s) - k + 1 ELSE 0
    BY <1>1, <2>1, SubSeqProperties
  <2>3. QED
    BY <1>1, <2>2
<1>4. QED
  BY <1>2, <1>3

LEMMA Joined ==
  ASSUME NEW s \in Seq(StepSet), NEW u \in Seq(StepSet)
  PROVE  /\ s \o u \in Seq(StepSet) /\ Len(s \o u) = Len(s) + Len(u)
         /\ \A i \in 1 .. Len(s) : (s \o u)[i] = s[i]
         /\ \A i \in 1 .. Len(u) : (s \o u)[Len(s) + i] = u[i]
<1>0. PICK v : v = s \o u
  OBVIOUS
<1>1. v \in Seq(StepSet) /\ Len(v) = Len(s) + Len(u)
  BY <1>0, ConcatProperties, Zenon
<1>2. \A i \in 1 .. Len(s) + Len(u) : v[i] = IF i <= Len(s) THEN s[i] ELSE u[i - Len(s)]
  BY <1>0, ConcatProperties, Zenon
<1>3. PICK m \in Nat, f \in Nat : m = Len(s) /\ f = Len(u)
  BY LenProperties
<1>4. \A i \in 1 .. m + f : v[i] = IF i <= m THEN s[i] ELSE u[i - m]
  BY <1>2, <1>3, Zenon
<1>5. ASSUME NEW i \in 1 .. m PROVE v[i] = s[i]
  BY <1>3, <1>4
<1>6. ASSUME NEW i \in 1 .. f PROVE v[m + i] = u[i]
  <2>1. m + i \in 1 .. m + f /\ ~(m + i <= m) /\ m + i - m = i
    BY <1>3
  <2>2. QED
    BY <1>3, <1>4, <2>1
<1>7. QED
  BY <1>0, <1>1, <1>3, <1>5, <1>6, Zenon

\* The steps of a format.
LEMMA FormatIs ==
  ASSUME NEW o
  PROVE  LET s == FormatSteps(o) IN
         /\ s \in Seq(StepSet) /\ Len(s) = 14
         /\ s[1] = Step("interrupt") /\ s[2] = Step("format") /\ s[3] = Step("interrupt")
         /\ s[4] = [op |-> "write", part |-> 1, rec |-> "vol1"] /\ s[5] = [op |-> "write", part |-> 1, rec |-> "fm"]
         /\ s[6] = [op |-> "write", part |-> 1, rec |-> "xml"] /\ s[7] = [op |-> "write", part |-> 1, rec |-> "fm"]
         /\ s[8] = WriteIndex(1) /\ s[9] = Step("interrupt")
         /\ s[10] = [op |-> "write", part |-> 0, rec |-> "vol1"] /\ s[11] = [op |-> "write", part |-> 0, rec |-> "fm"]
         /\ s[12] = [op |-> "write", part |-> 0, rec |-> "xml"] /\ s[13] = [op |-> "write", part |-> 0, rec |-> "fm"]
         /\ s[14] = WriteIndex(0)
<1> DEFINE a == <<Step("interrupt"), Step("format"), Step("interrupt")>>
           b == Label(1, o.block)
           c == <<WriteIndex(1), Step("interrupt")>>
           d == Label(0, o.block)
           e == <<WriteIndex(0)>>
           ab == a \o b
           abc == ab \o c
           abcd == abc \o d
<1>1. FormatSteps(o) = abcd \o e
  BY DEF FormatSteps
<1>2. a \in Seq(StepSet) /\ Len(a) = 3 /\ a[1] = Step("interrupt") /\ a[2] = Step("format") /\ a[3] = Step("interrupt")
  <2>1. Step("interrupt") \in StepSet /\ Step("format") \in StepSet
    BY DEF StepSet, Step, Ops
  <2>2. QED
    BY <2>1
<1>3. ASSUME NEW p \in Parts, NEW x
      PROVE  /\ Label(p, x) \in Seq(StepSet) /\ Len(Label(p, x)) = 4
             /\ Label(p, x)[1] = [op |-> "write", part |-> p, rec |-> "vol1"]
             /\ Label(p, x)[2] = [op |-> "write", part |-> p, rec |-> "fm"]
             /\ Label(p, x)[3] = [op |-> "write", part |-> p, rec |-> "xml"]
             /\ Label(p, x)[4] = [op |-> "write", part |-> p, rec |-> "fm"]
  <2> DEFINE w(y) == [op |-> "write", part |-> p, rec |-> y]
  <2>1. w("vol1") \in StepSet /\ w("fm") \in StepSet /\ w("xml") \in StepSet
    BY DEF StepSet
  <2>2. Label(p, x) = <<w("vol1"), w("fm"), w("xml"), w("fm")>>
    BY DEF Label
  <2> HIDE DEF w
  <2>3. /\ Label(p, x) \in Seq(StepSet) /\ Len(Label(p, x)) = 4
        /\ Label(p, x)[1] = w("vol1") /\ Label(p, x)[2] = w("fm") /\ Label(p, x)[3] = w("xml") /\ Label(p, x)[4] = w("fm")
    BY <2>1, <2>2
  <2>4. QED
    BY <2>3 DEF w
<1>4. c \in Seq(StepSet) /\ Len(c) = 2 /\ c[1] = WriteIndex(1) /\ c[2] = Step("interrupt")
  <2>1. WriteIndex(1) \in StepSet /\ Step("interrupt") \in StepSet
    BY DEF StepSet, Step, WriteIndex, Parts, Ops
  <2>2. QED
    BY <2>1
<1>5. e \in Seq(StepSet) /\ Len(e) = 1 /\ e[1] = WriteIndex(0)
  <2>1. WriteIndex(0) \in StepSet
    BY DEF StepSet, Step, WriteIndex, Parts, Ops
  <2>2. QED
    BY <2>1
<1>6. b \in Seq(StepSet) /\ Len(b) = 4 /\ d \in Seq(StepSet) /\ Len(d) = 4
  BY <1>3 DEF Parts
<1>b. /\ b[1] = [op |-> "write", part |-> 1, rec |-> "vol1"] /\ b[2] = [op |-> "write", part |-> 1, rec |-> "fm"]
      /\ b[3] = [op |-> "write", part |-> 1, rec |-> "xml"] /\ b[4] = [op |-> "write", part |-> 1, rec |-> "fm"]
  BY <1>3 DEF Parts
<1>d. /\ d[1] = [op |-> "write", part |-> 0, rec |-> "vol1"] /\ d[2] = [op |-> "write", part |-> 0, rec |-> "fm"]
      /\ d[3] = [op |-> "write", part |-> 0, rec |-> "xml"] /\ d[4] = [op |-> "write", part |-> 0, rec |-> "fm"]
  BY <1>3 DEF Parts
<1> HIDE DEF a, b, c, d, e, ab, abc, abcd
<1>7. /\ ab \in Seq(StepSet) /\ Len(ab) = 3 + 4
      /\ \A i \in 1 .. 3 : ab[i] = a[i]
      /\ \A i \in 1 .. 4 : ab[3 + i] = b[i]
  <2>1. Len(a) = 3 /\ Len(b) = 4 /\ a \in Seq(StepSet) /\ b \in Seq(StepSet)
    BY <1>2, <1>6
  <2>2. ab = a \o b
    BY DEF ab
  <2>3. /\ (a \o b) \in Seq(StepSet) /\ Len(a \o b) = Len(a) + Len(b)
        /\ \A i \in 1 .. Len(a) : (a \o b)[i] = a[i]
        /\ \A i \in 1 .. Len(b) : (a \o b)[Len(a) + i] = b[i]
    BY <2>1, Joined, Zenon
  <2>4. QED
    BY <2>1, <2>2, <2>3, Zenon
<1>8. /\ abc \in Seq(StepSet) /\ Len(abc) = 7 + 2
      /\ \A i \in 1 .. 7 : abc[i] = ab[i]
      /\ \A i \in 1 .. 2 : abc[7 + i] = c[i]
  <2>1. Len(ab) = 7 /\ Len(c) = 2 /\ ab \in Seq(StepSet) /\ c \in Seq(StepSet)
    BY <1>4, <1>7
  <2>2. abc = ab \o c
    BY DEF abc
  <2>3. /\ (ab \o c) \in Seq(StepSet) /\ Len(ab \o c) = Len(ab) + Len(c)
        /\ \A i \in 1 .. Len(ab) : (ab \o c)[i] = ab[i]
        /\ \A i \in 1 .. Len(c) : (ab \o c)[Len(ab) + i] = c[i]
    BY <2>1, Joined, Zenon
  <2>4. QED
    BY <2>1, <2>2, <2>3, Zenon
<1>9. /\ abcd \in Seq(StepSet) /\ Len(abcd) = 9 + 4
      /\ \A i \in 1 .. 9 : abcd[i] = abc[i]
      /\ \A i \in 1 .. 4 : abcd[9 + i] = d[i]
  <2>1. Len(abc) = 9 /\ Len(d) = 4 /\ abc \in Seq(StepSet) /\ d \in Seq(StepSet)
    BY <1>6, <1>8
  <2>2. abcd = abc \o d
    BY DEF abcd
  <2>3. /\ (abc \o d) \in Seq(StepSet) /\ Len(abc \o d) = Len(abc) + Len(d)
        /\ \A i \in 1 .. Len(abc) : (abc \o d)[i] = abc[i]
        /\ \A i \in 1 .. Len(d) : (abc \o d)[Len(abc) + i] = d[i]
    BY <2>1, Joined, Zenon
  <2>4. QED
    BY <2>1, <2>2, <2>3, Zenon
<1>10. PICK s : s = FormatSteps(o)
  OBVIOUS
<1>11. /\ s \in Seq(StepSet) /\ Len(s) = 13 + 1
       /\ \A i \in 1 .. 13 : s[i] = abcd[i]
       /\ \A i \in 1 .. 1 : s[13 + i] = e[i]
  <2>1. Len(abcd) = 13 /\ Len(e) = 1 /\ abcd \in Seq(StepSet) /\ e \in Seq(StepSet)
    BY <1>5, <1>9
  <2>2. s = abcd \o e
    BY <1>1, <1>10
  <2>3. /\ (abcd \o e) \in Seq(StepSet) /\ Len(abcd \o e) = Len(abcd) + Len(e)
        /\ \A i \in 1 .. Len(abcd) : (abcd \o e)[i] = abcd[i]
        /\ \A i \in 1 .. Len(e) : (abcd \o e)[Len(abcd) + i] = e[i]
    BY <2>1, Joined, Zenon
  <2>4. QED
    BY <2>1, <2>2, <2>3, Zenon
<1>12. s[1] = a[1] /\ s[2] = a[2] /\ s[3] = a[3]
  BY <1>7, <1>8, <1>9, <1>11
<1>13. s[3 + 1] = b[1] /\ s[3 + 2] = b[2] /\ s[3 + 3] = b[3] /\ s[3 + 4] = b[4]
  BY <1>7, <1>8, <1>9, <1>11
<1>14. s[7 + 1] = c[1] /\ s[7 + 2] = c[2]
  BY <1>8, <1>9, <1>11
<1>16. s[9 + 1] = d[1] /\ s[9 + 2] = d[2] /\ s[9 + 3] = d[3] /\ s[9 + 4] = d[4] /\ s[13 + 1] = e[1]
  BY <1>9, <1>11
<1>15. QED
  BY <1>2, <1>b, <1>4, <1>d, <1>5, <1>10, <1>11, <1>12, <1>13, <1>14, <1>16

\* Where a format is: the steps left begin with step k.
LEMMA AtStep ==
  ASSUME NEW o, NEW k \in 1 .. 15, NEW t, t = SubSeq(FormatSteps(o), k, 14)
  PROVE  /\ k = 15 => t = <<>>
         /\ k # 15 => t # <<>> /\ Head(t) = FormatSteps(o)[k] /\ Tail(t) = SubSeq(FormatSteps(o), k + 1, 14)
<1>1. FormatSteps(o) \in Seq(StepSet) /\ Len(FormatSteps(o)) = 14
  BY FormatIs
<1>2. k = 15 => t = <<>>
  BY SubSeqEmpty
<1>3. ASSUME k # 15 PROVE t # <<>> /\ Head(t) = FormatSteps(o)[k] /\ Tail(t) = SubSeq(FormatSteps(o), k + 1, 14)
  <2>1. k \in 1 .. Len(FormatSteps(o))
    BY <1>1, <1>3
  <2>2. QED
    BY <1>1, <2>1, Suffix
<1>4. QED
  BY <1>2, <1>3

LEMMA OpAt ==
  ASSUME NEW o, NEW k \in 1 .. 14, NEW x, x = FormatSteps(o)[k]
  PROVE  /\ x.op \in {"interrupt", "format", "write", "index"}
         /\ x.op = "interrupt" => k \in {1, 3, 9}
         /\ x.op = "format" => k = 2
         /\ x.op = "write" => /\ k \in {4, 5, 6, 7, 10, 11, 12, 13}
                              /\ x.part = IF k <= 7 THEN 1 ELSE 0
                              /\ k \in {4, 10} => x.rec = "vol1"
                              /\ k \in {5, 7, 11, 13} => x.rec = "fm"
                              /\ k \in {6, 12} => x.rec = "xml"
         /\ x.op = "index" => k \in {8, 14} /\ x.part = IF k = 8 THEN 1 ELSE 0
<1>1. PICK s : s = FormatSteps(o)
  OBVIOUS
<1>2. CASE k \in {1, 2, 3, 9}
  <2>1. s[1] = Step("interrupt") /\ s[2] = Step("format") /\ s[3] = Step("interrupt") /\ s[9] = Step("interrupt")
    BY <1>1, FormatIs
  <2>2. QED
    BY <1>1, <1>2, <2>1 DEF Step
<1>3. CASE k \in {8, 14}
  <2>1. s[8] = WriteIndex(1) /\ s[14] = WriteIndex(0)
    BY <1>1, FormatIs
  <2>2. QED
    BY <1>1, <1>3, <2>1 DEF WriteIndex
<1>4. CASE k \in {4, 5, 6, 7}
  <2>1. /\ s[4] = [op |-> "write", part |-> 1, rec |-> "vol1"] /\ s[5] = [op |-> "write", part |-> 1, rec |-> "fm"]
        /\ s[6] = [op |-> "write", part |-> 1, rec |-> "xml"] /\ s[7] = [op |-> "write", part |-> 1, rec |-> "fm"]
    BY <1>1, FormatIs
  <2>2. QED
    BY <1>1, <1>4, <2>1
<1>5. CASE k \in {10, 11, 12, 13}
  <2>1. /\ s[10] = [op |-> "write", part |-> 0, rec |-> "vol1"] /\ s[11] = [op |-> "write", part |-> 0, rec |-> "fm"]
        /\ s[12] = [op |-> "write", part |-> 0, rec |-> "xml"] /\ s[13] = [op |-> "write", part |-> 0, rec |-> "fm"]
    BY <1>1, FormatIs
  <2>2. QED
    BY <1>1, <1>5, <2>1
<1>6. QED
  BY <1>2, <1>3, <1>4, <1>5

-----------------------------------------------------------------------------
(* Volumes.                                                                *)

\* A label that is whole is read as it was written.
LEMMA LabelIs ==
  ASSUME NEW o, NEW f \in Nat, NEW p \in Parts, NEW s, Begun(s, 4, NewLabel(o, f, p))
  PROVE  LabelOf(s) = NewLabel(o, f, p) /\ LabelOf(s) # NoLabel
<1>1. NewLabel(o, f, p) # NoLabel
  <2>1. DOMAIN NewLabel(o, f, p) = {"fmt", "barcode", "block", "ip", "dp", "this"}
    BY DEF NewLabel, MakeLabel
  <2>2. DOMAIN NoLabel = {"none"}
    BY DEF NoLabel
  <2>3. QED
    BY <2>1, <2>2
<1>2. Len(s) >= 4 /\ s[1] = Vol1 /\ s[2] = FM /\ s[3] = Xml(NewLabel(o, f, p)) /\ s[4] = FM
  BY DEF Begun
<1>3. PICK l : l = NewLabel(o, f, p)
  OBVIOUS
<1>4. s[3].kind = "xml" /\ s[3].label = l
  BY <1>2, <1>3 DEF Xml
<1>5. QED
  BY <1>1, <1>2, <1>3, <1>4 DEF LabelOf

LEMMA LabelFields ==
  ASSUME NEW o, NEW f, NEW p \in Parts, NEW l, l = NewLabel(o, f, p)
  PROVE  /\ l.fmt = f /\ l.barcode = "valid" /\ l.block = o.block /\ l.ip = "a" /\ l.dp = "b"
         /\ l.this = IF p = 0 THEN "a" ELSE "b"
  BY DEF NewLabel, MakeLabel

\* Both labels of one format make a volume.
LEMMA FormatMounts ==
  ASSUME NEW c, NEW o, NEW f \in Nat, o.block \in Nat, o.block <= LargestBlock, c.parts = 2,
         Begun(c.rec[0], 4, NewLabel(o, f, 0)), Begun(c.rec[1], 4, NewLabel(o, f, 1))
  PROVE  StartMount(c) = "OK" /\ Format(c) = f /\ DataPart(c) = 1
<1>1. PICK l0, l1 : l0 = NewLabel(o, f, 0) /\ l1 = NewLabel(o, f, 1)
  OBVIOUS
<1>2. LabelOf(c.rec[0]) = l0 /\ LabelOf(c.rec[1]) = l1 /\ l0 # NoLabel /\ l1 # NoLabel
  BY <1>1, LabelIs DEF Parts
<1>3. /\ l0.fmt = f /\ l0.barcode = "valid" /\ l0.block = o.block /\ l0.ip = "a" /\ l0.dp = "b" /\ l0.this = "a"
      /\ l1.fmt = f /\ l1.barcode = "valid" /\ l1.block = o.block /\ l1.ip = "a" /\ l1.dp = "b" /\ l1.this = "b"
  <2>1. 0 \in Parts /\ 1 \in Parts
    BY DEF Parts
  <2>2. QED
    BY <1>1, <2>1, LabelFields
<1>4. Compare(l0, l1)
  BY <1>3 DEF Compare
<1>5. ~(l0.block > LargestBlock)
  BY <1>3 DEF LargestBlock
<1>6. StartMount(c) = "OK"
  BY <1>2, <1>4, <1>5 DEF StartMount, Parts
<1>7. Format(c) = f
  BY <1>2, <1>3 DEF Format
<1>8. DataPart(c) = 1
  <2>1. 1 \in Parts /\ LabelOf(c.rec[1]).this = LabelOf(c.rec[1]).dp
    BY <1>2, <1>3 DEF Parts
  <2>2. QED
    BY <1>6, <2>1, DataPartIs
<1>9. QED
  BY <1>6, <1>7, <1>8

\* A format that has begun to write leaves no volume, or one with its index.
LEMMA ReachedIsVolume ==
  ASSUME NEW c, NEW o, NEW f \in Nat, NEW e \in BOOLEAN, NEW k \in 3 .. 15, Reached(c, o, f, e, k),
         Len(c.rec[0]) \in Nat, o.block \in Nat, o.block <= LargestBlock
  PROVE  /\ StartMount(c) = "OK" => IndexOn(c, DataPart(c))
         /\ StartMount(c) = "OK" => k >= 14 /\ ~e
         /\ k >= 14 /\ ~e => MountOk(c)
<1>1. CASE e
  <2>1. ~(Len(c.rec[0]) >= 4)
    BY <1>1 DEF Reached
  <2>2. QED
    BY <1>1, <2>1, ShortIsNoLabel, NoVolume
<1>2. CASE ~e /\ k <= 13
  <2>1. Before(k, 10) \in 0 .. 3 /\ Begun(c.rec[0], Before(k, 10), NewLabel(o, f, 0))
    BY <1>2 DEF Reached, Before
  <2>2. ~(Len(c.rec[0]) >= 4)
    BY <2>1 DEF Begun
  <2>3. QED
    BY <1>2, <2>2, ShortIsNoLabel, NoVolume
<1>3. CASE ~e /\ k >= 14
  <2>1. c.parts = 2 /\ c.eod[0] = "good" /\ c.eod[1] = "good"
    BY <1>3 DEF Reached
  <2>2. Before(k, 4) = 4 /\ Before(k, 10) = 4
    BY <1>3 DEF Before
  <2>3. Begun(c.rec[0], 4, NewLabel(o, f, 0)) /\ Begun(c.rec[1], 4, NewLabel(o, f, 1))
    BY <1>3, <2>2 DEF Reached
  <2>4. StartMount(c) = "OK" /\ Format(c) = f /\ DataPart(c) = 1
    BY <2>1, <2>3, FormatMounts
  <2>5. IndexOn(c, 1)
    BY <1>3, <2>4 DEF Reached, IndexOn
  <2>6. MountOk(c)
    BY <2>1, <2>4, <2>5 DEF MountOk, Parts
  <2>7. QED
    BY <1>3, <2>4, <2>5, <2>6
<1>4. QED
  BY <1>1, <1>2, <1>3

-----------------------------------------------------------------------------
(* The invariant under the steps.                                          *)

LEMMA Untouched ==
  ASSUME cart'.parts = cart.parts, cart'.rec = cart.rec
  PROVE  Spared /\ (LabelsMeanVolume => LabelsMeanVolume')
<1>1. PICK c, d : c = cart /\ d = cart'
  OBVIOUS
<1>2. StartMount(c) = StartMount(d) /\ DataPart(c) = DataPart(d) /\ \A p : IndexOn(c, p) = IndexOn(d, p)
  BY <1>1, SameVolume
<1>3. StartMount(cart) = StartMount(cart')
  BY <1>1, <1>2, Zenon
<1>4. LabelsMeanVolume => LabelsMeanVolume'
  BY <1>1, <1>2, Zenon DEF LabelsMeanVolume
<1>5. QED
  BY <1>3, <1>4 DEF Spared

\* A run that ends.
LEMMA Ended ==
  ASSUME CartInv, NEW r, End(r), r # "ok", cart' \in Cartridges, runs' = runs, LabelsMeanVolume'
  PROVE  CartInv'
<1>1. prog' = "none" /\ error' = FALSE /\ exit' # "ok" /\ runs' \in Nat
  BY DEF End, CartInv
<1>2. SuccessIsMountable'
  BY <1>1 DEF SuccessIsMountable
<1>3. QED
  BY <1>1, <1>2 DEF CartInv

\* A run that is no format and goes on.
LEMMA OnlyHead ==
  ASSUME NEW S, OnlyOps(S), todo # <<>>
  PROVE  Head(todo).op \in S /\ Tail(todo) \in Seq({Step(x) : x \in S})
<1>1. PICK T : T = {Step(x) : x \in S}
  OBVIOUS
<1>2. todo \in Seq(T)
  BY <1>1 DEF OnlyOps
<1>3. Head(todo) \in T /\ Tail(todo) \in Seq(T)
  BY <1>2, HeadTailProperties
<1>4. Head(todo).op \in S
  BY <1>1, <1>3 DEF Step
<1>5. QED
  BY <1>1, <1>3, <1>4

LEMMA Going ==
  ASSUME CartInv, todo # <<>>, prog # "none", ~(prog = "mkltfs" /\ ~opt.unformat), Go,
         UNCHANGED <<opt, error, runs>>, cart' \in Cartridges, LabelsMeanVolume'
  PROVE  CartInv'
<1>1. prog' = prog /\ todo' = Tail(todo) /\ opt' = opt /\ error' = error /\ runs' = runs
  BY DEF Go
<1>2. /\ prog \in {"none", "mkltfs", "unltfs", "ltfsck"} /\ runs \in Nat /\ error \in BOOLEAN
      /\ opt \in Options(prog) /\ (error => prog = "mkltfs" /\ ~opt.unformat)
  BY DEF CartInv
<1>3. prog = "mkltfs" /\ opt.unformat => OnlyOps({"interrupt", "unformat", "erase"})'
  BY <1>1, OnlyHead DEF CartInv, OnlyOps
<1>4. prog = "unltfs" => OnlyOps({"unformat"})'
  BY <1>1, OnlyHead DEF CartInv, OnlyOps
<1>5. prog = "ltfsck" => OnlyOps({"seekeod", "recover", "mount", "unlock"})'
  BY <1>1, OnlyHead DEF CartInv, OnlyOps
<1>6. prog' # "none" /\ opt' \in Options(prog')
  BY <1>1, <1>2, Zenon
<1>7. runs' \in Nat /\ error' \in BOOLEAN /\ prog' \in {"none", "mkltfs", "unltfs", "ltfsck"}
      /\ (error' => prog' = "mkltfs" /\ ~opt'.unformat)
  BY <1>1, <1>2
<1>8. ~(prog' = "mkltfs" /\ ~opt'.unformat)
  BY <1>1
<1>9. /\ prog' = "mkltfs" /\ opt'.unformat => OnlyOps({"interrupt", "unformat", "erase"})'
      /\ prog' = "unltfs" => OnlyOps({"unformat"})'
      /\ prog' = "ltfsck" => OnlyOps({"seekeod", "recover", "mount", "unlock"})'
  BY <1>1, <1>3, <1>4, <1>5, Zenon
<1>10. QED
  BY <1>6, <1>7, <1>8, <1>9 DEF CartInv

\* A format that goes on with step k.
LEMMA Moved ==
  ASSUME CartInv, prog = "mkltfs", ~opt.unformat, UNCHANGED <<prog, opt, runs>>, cart' \in Cartridges, error' \in BOOLEAN,
         NEW k \in 1 .. 15, todo' = SubSeq(FormatSteps(opt), k, 14), Reached(cart', opt, runs, error', k),
         k <= 2 => LabelsMeanVolume'
  PROVE  CartInv'
<1>1. PICK c : c = cart'
  OBVIOUS
<1>2. Len(c.rec[0]) \in Nat
  <2>1. c.rec \in [Parts -> Seq(Records)] /\ 0 \in Parts
    BY <1>1, Fields DEF Parts
  <2>2. c.rec[0] \in Seq(Records)
    BY <2>1
  <2>3. QED
    BY <2>2, LenProperties
<1>3. opt.block \in Nat /\ opt.block <= LargestBlock /\ runs \in Nat
  BY DEF CartInv, Options
<1>4. ASSUME k >= 3 PROVE LabelsMeanVolume'
  <2>1. k \in 3 .. 15
    BY <1>4
  <2>2. Reached(c, opt, runs, error', k)
    BY <1>1
  <2>3. StartMount(c) = "OK" => IndexOn(c, DataPart(c))
    BY <1>2, <1>3, <2>1, <2>2, ReachedIsVolume
  <2>4. QED
    BY <1>1, <2>3, Zenon DEF LabelsMeanVolume
<1>5. LabelsMeanVolume'
  BY <1>4
<1>6. Formatting'
  BY DEF Formatting
<1>7. /\ prog' = "mkltfs" /\ opt' = opt /\ runs' = runs /\ opt \in Options(prog')
  BY DEF CartInv
<1>8. QED
  BY <1>3, <1>5, <1>6, <1>7 DEF CartInv

\* Where a format is when it has something to do.
LEMMA InFormat ==
  ASSUME CartInv, prog = "mkltfs", ~opt.unformat, todo # <<>>
  PROVE  \E k \in 1 .. 14 : /\ Reached(cart, opt, runs, error, k)
                            /\ Head(todo) = FormatSteps(opt)[k] /\ Tail(todo) = SubSeq(FormatSteps(opt), k + 1, 14)
<1>1. PICK k \in 1 .. 15 : todo = SubSeq(FormatSteps(opt), k, 14) /\ Reached(cart, opt, runs, error, k)
  BY DEF CartInv, Formatting
<1>2. PICK t : t = todo
  OBVIOUS
<1>3. k # 15 /\ Head(todo) = FormatSteps(opt)[k] /\ Tail(todo) = SubSeq(FormatSteps(opt), k + 1, 14)
  BY <1>1, <1>2, AtStep
<1>4. k \in 1 .. 14
  BY <1>3
<1>5. QED
  BY <1>1, <1>3, <1>4, Zenon

\* Whose operation it is.
LEMMA WhoseStep ==
  ASSUME CartInv, NEW op, Now(op)
  PROVE  /\ op \in {"format", "write", "index"} => prog = "mkltfs" /\ ~opt.unformat
         /\ op \in {"unformat", "erase"} => ~(prog = "mkltfs" /\ ~opt.unformat) /\ Meant
         /\ op \in {"seekeod", "recover", "mount", "unlock"} => prog = "ltfsck"
<1>1. prog \in {"mkltfs", "unltfs", "ltfsck"} /\ todo # <<>> /\ Head(todo).op = op
  BY DEF Now, CartInv
<1>2. CASE prog = "mkltfs" /\ ~opt.unformat
  <2>1. PICK k \in 1 .. 14 : Head(todo) = FormatSteps(opt)[k]
    BY <1>1, <1>2, InFormat
  <2>2. PICK x : x = Head(todo)
    OBVIOUS
  <2>3. op \in {"interrupt", "format", "write", "index"}
    BY <1>1, <2>1, <2>2, OpAt
  <2>4. QED
    BY <1>2, <2>3
<1>3. CASE prog = "mkltfs" /\ opt.unformat
  <2>1. op \in {"interrupt", "unformat", "erase"}
    BY <1>1, <1>3, OnlyHead DEF CartInv
  <2>2. QED
    BY <1>3, <2>1 DEF Meant
<1>4. CASE prog = "unltfs"
  <2>1. op \in {"unformat"}
    BY <1>1, <1>4, OnlyHead DEF CartInv
  <2>2. QED
    BY <1>4, <2>1 DEF Meant
<1>5. CASE prog = "ltfsck"
  <2>1. op \in {"seekeod", "recover", "mount", "unlock"}
    BY <1>1, <1>5, OnlyHead DEF CartInv
  <2>2. QED
    BY <1>5, <2>1
<1>6. QED
  BY <1>1, <1>2, <1>3, <1>4, <1>5

-----------------------------------------------------------------------------
(* A format writes a record.                                               *)

LEMMA RecIs ==
  ASSUME NEW c \in Cartridges, NEW p \in Parts
  PROVE  c.rec[p] \in Seq(Records) /\ Len(c.rec[p]) \in Nat
<1>1. c.rec[p] \in Seq(Records)
  BY Fields
<1>2. QED
  BY <1>1, LenProperties

\* Cartridge d is c but for the records of partition p, and c with records v there.
OthersSame(d, c, p) == d.parts = c.parts /\ d.eod = c.eod /\ \A q \in Parts : q # p => d.rec[q] = c.rec[q]
Put(c, p, v, lock) == [c EXCEPT !.rec[p] = v, !.lock = lock]

LEMMA SetRec ==
  ASSUME NEW c \in Cartridges, NEW p \in Parts, NEW v \in Seq(Records), NEW lock \in {"unlocked", "locked", "pwe"},
         NEW d, d = Put(c, p, v, lock)
  PROVE  d \in Cartridges /\ d.rec[p] = v /\ OthersSame(d, c, p)
<1>1. c.rec \in [Parts -> Seq(Records)] /\ d.rec = [c.rec EXCEPT ![p] = v]
  BY Fields DEF Cartridges, Put
<1>2. d.rec \in [Parts -> Seq(Records)] /\ d.rec[p] = v /\ \A q \in Parts : q # p => d.rec[q] = c.rec[q]
  BY <1>1
<1>3. d = [c EXCEPT !.rec = d.rec, !.lock = lock]
  BY <1>1 DEF Cartridges, Put
<1>4. d \in Cartridges /\ d.parts = c.parts /\ d.eod = c.eod
  BY <1>2, <1>3 DEF Cartridges
<1>5. QED
  BY <1>2, <1>4 DEF OthersSame

LEMMA SetLock ==
  ASSUME NEW c \in Cartridges, NEW lock \in {"unlocked", "locked", "pwe"}, NEW d, d = [c EXCEPT !.lock = lock]
  PROVE  d \in Cartridges /\ d.parts = c.parts /\ d.rec = c.rec /\ d.eod = c.eod
  BY DEF Cartridges

LEMMA NewLabelType ==
  ASSUME NEW o, o.block \in Nat, NEW f \in Nat, NEW p \in Parts
  PROVE  Xml(NewLabel(o, f, p)) \in Records
<1>1. NewLabel(o, f, p) \in Labels
  BY DEF NewLabel, MakeLabel, Labels, PartIds
<1>2. QED
  BY <1>1 DEF Xml, Records

\* The record number m + 1 of a label.
Nth(m, label) == CASE m = 0 -> Vol1 [] m = 1 -> FM [] m = 2 -> Xml(label) [] m = 3 -> FM

LEMMA BegunMore ==
  ASSUME NEW s \in Seq(Records), NEW m \in 0 .. 3, NEW label, Begun(s, m, label), NEW r \in Records,
         r = Nth(m, label)
  PROVE  Begun(Append(s, r), m + 1, label)
<1>1. PICK v : v = Append(s, r)
  OBVIOUS
<1>2. /\ Len(v) = Len(s) + 1 /\ v[Len(s) + 1] = r
      /\ \A i \in 1 .. Len(s) : v[i] = s[i]
  BY <1>1, AppendProperties
<1>3. Len(s) = m
  BY DEF Begun
<1>4. \A i \in 1 .. 3 : i <= m => v[i] = s[i]
  BY <1>2, <1>3
<1>5. Len(v) = m + 1 /\ v[m + 1] = r
  BY <1>2, <1>3
<1>6. Begun(v, m + 1, label)
  <2>1. m + 1 >= 1 => v[1] = Vol1
    BY <1>4, <1>5 DEF Begun, Nth
  <2>2. m + 1 >= 2 => v[2] = FM
    BY <1>4, <1>5 DEF Begun, Nth
  <2>3. m + 1 >= 3 => v[3] = Xml(label)
    BY <1>4, <1>5 DEF Begun, Nth
  <2>4. m + 1 >= 4 => v[4] = FM
    BY <1>4, <1>5 DEF Begun, Nth
  <2>5. QED
    BY <1>5, <2>1, <2>2, <2>3, <2>4 DEF Begun
<1>7. QED
  BY <1>1, <1>6

\* Sequence v begins with s.
Extends(v, s) == Len(v) \in Nat /\ Len(v) >= Len(s) /\ \A i \in 1 .. Len(s) : v[i] = s[i]

LEMMA BegunLonger ==
  ASSUME NEW s, NEW v, NEW label, Len(s) \in Nat, Extends(v, s), Begun(s, 4, label)
  PROVE  Begun(v, 4, label)
<1>1. Len(s) >= 4
  BY DEF Begun
<1>2. \A i \in 1 .. 4 : v[i] = s[i]
  BY <1>1 DEF Extends
<1>3. Len(v) >= 4
  BY <1>1 DEF Extends
<1>4. QED
  BY <1>2, <1>3 DEF Begun

\* What the n-th record of a label is, by the step that writes it.
LEMMA RecordIs ==
  ASSUME NEW k \in {4, 5, 6, 7, 10, 11, 12, 13}, NEW x, x = FormatSteps(opt)[k], x.op = "write", runs \in Nat, opt.block \in Nat,
         NEW p, p = (IF k <= 7 THEN 1 ELSE 0), NEW m, m = (IF k <= 7 THEN k - 4 ELSE k - 10)
  PROVE  /\ Record(x.rec, x.part) \in Records
         /\ Record(x.rec, x.part) = Nth(m, NewLabel(opt, runs, p))
         /\ x.rec = "xml" <=> k \in {6, 12}
<1>1. /\ k \in {4, 10} => x.rec = "vol1"
      /\ k \in {5, 7, 11, 13} => x.rec = "fm"
      /\ k \in {6, 12} => x.rec = "xml"
      /\ x.part = p
  BY OpAt
<1>2. Vol1 \in Records /\ FM \in Records /\ Xml(NewLabel(opt, runs, p)) \in Records
  <2>1. p \in Parts
    BY DEF Parts
  <2>2. QED
    BY <2>1, NewLabelType DEF Records
<1>3. Record("xml", p) = Xml(NewLabel(opt, runs, p)) /\ Record("fm", p) = FM /\ Record("vol1", p) = Vol1
  BY DEF Record, NewLabel
<1>4. CASE k \in {4, 10}
  BY <1>1, <1>2, <1>3, <1>4 DEF Nth
<1>5. CASE k \in {5, 7, 11, 13}
  BY <1>1, <1>2, <1>3, <1>5 DEF Nth
<1>6. CASE k \in {6, 12}
  BY <1>1, <1>2, <1>3, <1>6 DEF Nth
<1>7. QED
  BY <1>4, <1>5, <1>6

-----------------------------------------------------------------------------
(* One lemma for each action.                                              *)

\* A step that ends the run and leaves the records alone.
LEMMA EndsHere ==
  ASSUME CartInv, NEW r, End(r), r # "ok", cart' \in Cartridges, cart'.parts = cart.parts, cart'.rec = cart.rec, runs' = runs
  PROVE  CartInv' /\ Spared
<1>1. Spared /\ LabelsMeanVolume'
  BY Untouched DEF CartInv
<1>2. QED
  BY <1>1, Ended

LEMMA InterruptKeeps == ASSUME CartInv, Interrupt PROVE CartInv' /\ Spared
<1>1. /\ prog # "none" /\ todo # <<>> /\ Head(todo).op = "interrupt"
      /\ cart' = cart /\ opt' = opt /\ runs' = runs /\ cart \in Cartridges
  BY DEF Interrupt, Now, CartInv
<1>2. Spared /\ LabelsMeanVolume'
  BY <1>1, Untouched DEF CartInv
<1>3. CASE End("error")
  BY <1>1, <1>3, EndsHere
<1>4. CASE Go /\ UNCHANGED error /\ prog = "mkltfs" /\ ~opt.unformat
  <2>1. PICK k \in 1 .. 14 : /\ Reached(cart, opt, runs, error, k)
                             /\ Head(todo) = FormatSteps(opt)[k] /\ Tail(todo) = SubSeq(FormatSteps(opt), k + 1, 14)
    BY <1>1, <1>4, InFormat
  <2>2. PICK x : x = Head(todo)
    OBVIOUS
  <2>3. k \in {1, 3, 9}
    BY <1>1, <2>1, <2>2, OpAt
  <2>4. ~error
    BY <2>1, <2>3 DEF Reached
  <2>5. Reached(cart, opt, runs, error, k + 1)
    BY <2>1, <2>3, <2>4 DEF Reached, Before
  <2>6. k + 1 \in 1 .. 15 /\ todo' = SubSeq(FormatSteps(opt), k + 1, 14) /\ prog' = prog /\ error' = error /\ error \in BOOLEAN
    BY <1>4, <2>1 DEF Go, CartInv
  <2>7. PICK j : j = k + 1
    OBVIOUS
  <2>8. CartInv'
    BY <1>1, <1>2, <1>4, <2>5, <2>6, <2>7, Moved
  <2>9. QED
    BY <1>2, <2>8
<1>5. CASE Go /\ UNCHANGED error /\ ~(prog = "mkltfs" /\ ~opt.unformat)
  BY <1>1, <1>2, <1>5, Going
<1>6. QED
  BY <1>3, <1>4, <1>5 DEF Interrupt

LEMMA BlankIs ==
  ASSUME NEW f \in {1, 2}, cart \in Cartridges
  PROVE  /\ Blank(f) \in Cartridges /\ Blank(f).parts = f
         /\ \A p \in Parts : Blank(f).rec[p] = <<>> /\ Blank(f).eod[p] = "good"
<1>1. PICK rec, eod : rec = [p \in Parts |-> <<>>] /\ eod = [p \in Parts |-> "good"]
  OBVIOUS
<1>2. rec \in [Parts -> Seq(Records)] /\ eod \in [Parts -> {"good", "missing"}]
  BY <1>1
<1>3. Blank(f) = [cart EXCEPT !.parts = f, !.rec = rec, !.eod = eod]
  BY <1>1, Zenon DEF Blank
<1>4. Blank(f) \in Cartridges /\ Blank(f).parts = f /\ Blank(f).rec = rec /\ Blank(f).eod = eod
  BY <1>2, <1>3 DEF Cartridges
<1>5. QED
  BY <1>1, <1>4

LEMMA BlankNoVolume == ASSUME NEW c, c.parts = 1 \/ c.rec[0] = <<>> PROVE StartMount(c) # "OK"
<1>1. CASE c.parts = 1
  BY <1>1, NoVolume
<1>2. CASE c.rec[0] = <<>>
  <2>1. Len(c.rec[0]) = 0
    BY <1>2
  <2>2. QED
    BY <2>1, ShortIsNoLabel, NoVolume
<1>3. QED
  BY <1>1, <1>2

LEMMA FormatKeeps == ASSUME CartInv, FormatMedium PROVE CartInv' /\ Spared
<1>1. /\ prog # "none" /\ todo # <<>> /\ Head(todo).op = "format" /\ prog = "mkltfs" /\ ~opt.unformat
      /\ opt' = opt /\ runs' = runs /\ cart \in Cartridges
  BY WhoseStep DEF FormatMedium, Now, CartInv
<1>2. PICK k \in 1 .. 14 : /\ Reached(cart, opt, runs, error, k)
                           /\ Head(todo) = FormatSteps(opt)[k] /\ Tail(todo) = SubSeq(FormatSteps(opt), k + 1, 14)
  BY <1>1, InFormat
<1>3. PICK x : x = Head(todo)
  OBVIOUS
<1>4. k = 2
  <2>1. x = FormatSteps(opt)[k] /\ x.op = "format"
    BY <1>1, <1>2, <1>3
  <2>2. QED
    BY <2>1, OpAt
<1>5. ~error /\ (opt.force \/ opt.ask \/ StartMount(cart) # "OK")
  BY <1>2, <1>4 DEF Reached
<1>6. Spared
  BY <1>5 DEF Spared, Meant
<1>7. CASE cart' = [Blank(2) EXCEPT !.app = TRUE, !.lock = "unlocked"] /\ Go /\ UNCHANGED error
  <2>1. PICK c, d : c = cart' /\ d = Blank(2)
    OBVIOUS
  <2>2. d \in Cartridges /\ d.parts = 2 /\ \A p \in Parts : d.rec[p] = <<>> /\ d.eod[p] = "good"
    BY <1>1, <2>1, BlankIs
  <2>3. c \in Cartridges /\ c.parts = 2 /\ c.rec = d.rec /\ c.eod = d.eod
    BY <1>7, <2>1, <2>2 DEF Cartridges
  <2>4. Len(c.rec[0]) = 0 /\ Len(c.rec[1]) = 0 /\ c.eod[0] = "good" /\ c.eod[1] = "good"
    BY <2>2, <2>3 DEF Parts
  <2>5. Begun(c.rec[1], Before(3, 4), NewLabel(opt, runs, 1)) /\ Begun(c.rec[0], Before(3, 10), NewLabel(opt, runs, 0))
    BY <2>4 DEF Begun, Before
  <2>6. Reached(c, opt, runs, error, 3)
    BY <1>5, <2>3, <2>4, <2>5 DEF Reached
  <2>7. PICK j \in 1 .. 15 : j = k + 1
    OBVIOUS
  <2>8. todo' = SubSeq(FormatSteps(opt), j, 14) /\ prog' = prog /\ error' = error /\ error \in BOOLEAN
    BY <1>2, <1>7, <2>7 DEF Go, CartInv
  <2>a. j = 3
    BY <1>4, <2>7
  <2>9. CartInv'
    BY <1>1, <2>1, <2>3, <2>6, <2>8, <2>a, Moved
  <2>10. QED
    BY <1>6, <2>9
<1>8. CASE cart' \in {cart, Blank(1), Blank(2)} /\ End("error")
  <2>1. CASE cart' = cart
    BY <1>1, <1>8, <2>1, EndsHere
  <2>2. CASE cart' \in {Blank(1), Blank(2)}
    <3>1. PICK c : c = cart'
      OBVIOUS
    <3>2. c \in Cartridges /\ \A p \in Parts : c.rec[p] = <<>>
      BY <1>1, <2>2, <3>1, BlankIs
    <3>3. StartMount(c) # "OK"
      BY <3>2, BlankNoVolume DEF Parts
    <3>4. LabelsMeanVolume'
      BY <3>1, <3>3 DEF LabelsMeanVolume
    <3>5. QED
      BY <1>1, <1>6, <1>8, <3>1, <3>2, <3>4, Ended
  <2>3. QED
    BY <1>8, <2>1, <2>2
<1>9. QED
  BY <1>7, <1>8 DEF FormatMedium

LEMMA UnformatKeeps == ASSUME CartInv, UnformatMedium PROVE CartInv' /\ Spared
<1>1. /\ prog # "none" /\ todo # <<>> /\ opt' = opt /\ runs' = runs /\ cart \in Cartridges
      /\ ~(prog = "mkltfs" /\ ~opt.unformat) /\ Meant
  BY WhoseStep DEF UnformatMedium, Now, CartInv
<1>2. Spared
  BY <1>1 DEF Spared
<1>3. CASE cart' = cart /\ End("error")
  BY <1>1, <1>3, EndsHere
<1>4. CASE cart' # cart \/ ~End("error")
  <2>1. PICK c, d : c = cart' /\ d = Blank(1)
    OBVIOUS
  <2>2. d \in Cartridges /\ d.parts = 1
    BY <1>1, <2>1, BlankIs
  <2>3. c = d \/ c = [d EXCEPT !.app = FALSE]
    BY <1>4, <2>1 DEF UnformatMedium
  <2>4. c \in Cartridges /\ c.parts = 1
    BY <2>2, <2>3 DEF Cartridges
  <2>5. LabelsMeanVolume'
    BY <2>1, <2>4, BlankNoVolume DEF LabelsMeanVolume
  <2>6. CASE Go /\ UNCHANGED error
    BY <1>1, <1>2, <2>1, <2>4, <2>5, <2>6, Going
  <2>7. CASE End("error")
    BY <1>1, <1>2, <2>1, <2>4, <2>5, <2>7, Ended
  <2>8. QED
    BY <2>6, <2>7 DEF UnformatMedium
<1>5. QED
  BY <1>3, <1>4

\* The record of step k is one more of the label that the step is of.
LEMMA ReachedMore ==
  ASSUME NEW c \in Cartridges, NEW o, NEW f, NEW k \in {4, 5, 6, 7, 10, 11, 12, 13}, Reached(c, o, f, FALSE, k),
         NEW p, p = (IF k <= 7 THEN 1 ELSE 0), NEW m, m = (IF k <= 7 THEN k - 4 ELSE k - 10), NEW r \in Records,
         r = Nth(m, NewLabel(o, f, p)),
         NEW d, d.rec[p] = Append(c.rec[p], r), OthersSame(d, c, p)
  PROVE  Reached(d, o, f, FALSE, k + 1)
<1>1. /\ c.parts = 2 /\ c.eod[0] = "good" /\ c.eod[1] = "good"
      /\ Begun(c.rec[1], Before(k, 4), NewLabel(o, f, 1)) /\ Begun(c.rec[0], Before(k, 10), NewLabel(o, f, 0))
      /\ k >= 9 => \E i \in DOMAIN c.rec[1] : c.rec[1][i] = Index(f)
  BY DEF Reached
<1>2. p \in Parts /\ m \in 0 .. 3
  BY DEF Parts
<1>3. c.rec[p] \in Seq(Records)
  BY <1>2, RecIs
<1>4. CASE k <= 7
  <2>1. Before(k, 4) = m /\ Before(k + 1, 4) = m + 1 /\ Before(k, 10) = 0 /\ Before(k + 1, 10) = 0 /\ p = 1
    BY <1>4 DEF Before
  <2>2. Begun(c.rec[p], m, NewLabel(o, f, p))
    BY <1>1, <2>1
  <2>3. Begun(Append(c.rec[p], r), m + 1, NewLabel(o, f, p))
    BY <1>2, <1>3, <2>2, BegunMore
  <2>4. d.rec[0] = c.rec[0]
    BY <2>1 DEF Parts, OthersSame
  <2>5. Begun(d.rec[1], Before(k + 1, 4), NewLabel(o, f, 1)) /\ Begun(d.rec[0], Before(k + 1, 10), NewLabel(o, f, 0))
    BY <1>1, <2>1, <2>3, <2>4
  <2>6. QED
    BY <1>1, <1>4, <2>5 DEF Reached, OthersSame
<1>5. CASE ~(k <= 7)
  <2>1. /\ Before(k, 10) = m /\ Before(k + 1, 10) = m + 1 /\ Before(k, 4) = 4 /\ Before(k + 1, 4) = 4 /\ p = 0
        /\ k >= 9 /\ ~(k + 1 <= 2)
    BY <1>5 DEF Before
  <2>2. Begun(c.rec[p], m, NewLabel(o, f, p))
    BY <1>1, <2>1
  <2>3. Begun(Append(c.rec[p], r), m + 1, NewLabel(o, f, p))
    BY <1>2, <1>3, <2>2, BegunMore
  <2>4. d.rec[1] = c.rec[1]
    BY <2>1 DEF Parts, OthersSame
  <2>5. Begun(d.rec[1], Before(k + 1, 4), NewLabel(o, f, 1)) /\ Begun(d.rec[0], Before(k + 1, 10), NewLabel(o, f, 0))
    BY <1>1, <2>1, <2>3, <2>4
  <2>6. \E i \in DOMAIN d.rec[1] : d.rec[1][i] = Index(f)
    BY <1>1, <2>1, <2>4
  <2>7. QED
    BY <1>1, <2>1, <2>5, <2>6 DEF Reached, OthersSame
<1>6. QED
  BY <1>4, <1>5

LEMMA WriteLabelKeeps == ASSUME CartInv, WriteLabel PROVE CartInv' /\ Spared
<1>1. /\ prog # "none" /\ todo # <<>> /\ Head(todo).op = "write" /\ prog = "mkltfs" /\ ~opt.unformat
      /\ opt' = opt /\ runs' = runs /\ cart \in Cartridges /\ error \in BOOLEAN /\ runs \in Nat
  BY WhoseStep DEF WriteLabel, Now, CartInv
<1>2. PICK k \in 1 .. 14 : /\ Reached(cart, opt, runs, error, k)
                           /\ Head(todo) = FormatSteps(opt)[k] /\ Tail(todo) = SubSeq(FormatSteps(opt), k + 1, 14)
  BY <1>1, InFormat
<1>3. PICK x : x = Head(todo)
  OBVIOUS
<1>a. x = FormatSteps(opt)[k] /\ x.op = "write"
  BY <1>1, <1>2, <1>3
<1>4. k \in {4, 5, 6, 7, 10, 11, 12, 13} /\ x.part = IF k <= 7 THEN 1 ELSE 0
  BY <1>a, OpAt
<1>5. error = FALSE
  BY <1>1, <1>2, <1>4 DEF Reached
<1>6. opt.block \in Nat /\ opt.block <= LargestBlock
  BY <1>1 DEF CartInv, Options
<1>7. PICK p, m : p = (IF k <= 7 THEN 1 ELSE 0) /\ m = IF k <= 7 THEN k - 4 ELSE k - 10
  OBVIOUS
<1>8. PICK r : r = Record(x.rec, x.part)
  OBVIOUS
<1>9. /\ r \in Records
      /\ r = Nth(m, NewLabel(opt, runs, p))
      /\ x.rec = "xml" <=> k \in {6, 12}
  BY <1>1, <1>a, <1>4, <1>6, <1>7, <1>8, RecordIs
<1>10. CASE cart' = [cart EXCEPT !.rec[x.part] = Append(@, r)] /\ Go /\ UNCHANGED error
  <2>1. p \in Parts /\ x.part = p
    BY <1>4, <1>7 DEF Parts
  <2>2. PICK v : v = Append(cart.rec[p], r)
    OBVIOUS
  <2>3. cart.rec[p] \in Seq(Records)
    BY <1>1, <2>1, RecIs
  <2>4. v \in Seq(Records)
    BY <1>9, <2>2, <2>3, AppendProperties
  <2>5. PICK c, d : c = cart /\ d = cart'
    OBVIOUS
  <2>6. PICK lock \in {"unlocked", "locked", "pwe"} : d = Put(c, p, v, lock)
    <3>1. c \in Cartridges /\ d = [c EXCEPT !.rec[p] = v]
      BY <1>1, <1>10, <2>1, <2>2, <2>5
    <3>2. c.lock \in {"unlocked", "locked", "pwe"} /\ d = Put(c, p, v, c.lock)
      BY <3>1 DEF Cartridges, Put
    <3>3. QED
      BY <3>2
  <2>a. c \in Cartridges
    BY <1>1, <2>5
  <2>7. d \in Cartridges /\ d.rec[p] = v /\ OthersSame(d, c, p)
    BY <2>1, <2>4, <2>6, <2>a, SetRec
  <2>8. Reached(c, opt, runs, FALSE, k)
    BY <1>2, <1>5, <2>5
  <2>9. Reached(d, opt, runs, FALSE, k + 1)
    <3>1. d.rec[p] = Append(c.rec[p], r)
      BY <2>2, <2>5, <2>7
    <3>2. QED
      BY <1>4, <1>7, <1>9, <2>7, <2>8, <2>a, <3>1, ReachedMore
  <2>10. PICK j \in 1 .. 15 : j = k + 1
    OBVIOUS
  <2>11. ~(j <= 2) /\ error' = FALSE /\ prog' = prog /\ todo' = SubSeq(FormatSteps(opt), j, 14)
    BY <1>2, <1>4, <1>5, <1>10, <2>10 DEF Go
  <2>12. CartInv'
    BY <1>1, <2>5, <2>7, <2>9, <2>10, <2>11, Moved
  <2>13. StartMount(c) # "OK"
    <3>1. k \in 3 .. 15 /\ ~(k >= 14)
      BY <1>4
    <3>2. Len(c.rec[0]) \in Nat
      BY <1>1, <2>5, RecIs DEF Parts
    <3>3. QED
      BY <1>1, <1>6, <2>8, <3>1, <3>2, ReachedIsVolume
  <2>14. QED
    BY <2>5, <2>12, <2>13 DEF Spared
<1>11. CASE cart' \in {cart, [cart EXCEPT !.lock = "pwe"]} /\ (End("error") \/ (todo' = Tail(Tail(todo)) /\ error' = TRUE /\ UNCHANGED <<prog, exit>> /\ x.rec = "xml"))
  <2>1. cart' \in Cartridges /\ cart'.parts = cart.parts /\ cart'.rec = cart.rec /\ cart'.eod = cart.eod
    BY <1>1, <1>11, SetLock
  <2>2. CASE End("error")
    BY <1>1, <2>1, <2>2, EndsHere
  <2>3. CASE todo' = Tail(Tail(todo)) /\ error' = TRUE /\ UNCHANGED <<prog, exit>> /\ x.rec = "xml"
    <3>1. k \in {6, 12}
      BY <1>9, <2>3
    <3>2. PICK t : t = Tail(todo)
      OBVIOUS
    <3>3. PICK i \in 1 .. 15 : i = k + 1
      BY <3>1
    <3>4. PICK j \in 1 .. 15 : j = i + 1
      BY <3>1, <3>3
    <3>5. t = SubSeq(FormatSteps(opt), i, 14) /\ i # 15
      BY <1>2, <3>1, <3>2, <3>3
    <3>6. Tail(t) = SubSeq(FormatSteps(opt), j, 14)
      BY <3>4, <3>5, AtStep
    <3>7. PICK c, d : c = cart /\ d = cart'
      OBVIOUS
    <3>8. Reached(c, opt, runs, FALSE, k) /\ d.parts = c.parts /\ d.rec = c.rec /\ d.eod = c.eod
      BY <1>2, <1>5, <2>1, <3>7
    <3>9. j \in {8, 14} /\ Len(c.rec[0]) < 4
      BY <3>1, <3>3, <3>4, <3>8 DEF Reached, Begun, Before
    <3>10. Reached(d, opt, runs, TRUE, j)
      BY <3>1, <3>8, <3>9 DEF Reached
    <3>11. CartInv'
      <4>1. todo' = SubSeq(FormatSteps(opt), j, 14) /\ UNCHANGED <<prog, opt, runs>> /\ error' \in BOOLEAN
        BY <1>1, <2>3, <3>2, <3>6
      <4>2. Reached(cart', opt, runs, error', j) /\ ~(j <= 2)
        <5>1. ~(j <= 2)
          BY <3>9
        <5>2. Reached(cart', opt, runs, error', j)
          BY <2>3, <3>7, <3>10, Zenon
        <5>3. QED
          BY <5>1, <5>2
      <4>3. QED
        BY <1>1, <2>1, <4>1, <4>2, Moved
    <3>12. QED
      BY <2>1, <3>11, Untouched
  <2>4. QED
    BY <1>11, <2>2, <2>3
<1>12. QED
  BY <1>3, <1>5, <1>8, <1>10, <1>11 DEF WriteLabel, FailedWrite

\* The index goes behind the label of step k - 1.
LEMMA ReachedIndex ==
  ASSUME NEW c \in Cartridges, NEW o, NEW f, NEW k \in {8, 14}, Reached(c, o, f, FALSE, k),
         NEW p, p = (IF k = 8 THEN 1 ELSE 0), NEW d, Extends(d.rec[p], c.rec[p]), OthersSame(d, c, p)
  PROVE  /\ Reached(d, o, f, FALSE, k)
         /\ (\E i \in DOMAIN d.rec[p] : d.rec[p][i] = Index(f)) => Reached(d, o, f, FALSE, k + 1)
<1>1. /\ c.parts = 2 /\ c.eod[0] = "good" /\ c.eod[1] = "good"
      /\ Begun(c.rec[1], Before(k, 4), NewLabel(o, f, 1)) /\ Begun(c.rec[0], Before(k, 10), NewLabel(o, f, 0))
      /\ k >= 9 => \E i \in DOMAIN c.rec[1] : c.rec[1][i] = Index(f)
  BY DEF Reached
<1>2. d.parts = 2 /\ d.eod[0] = "good" /\ d.eod[1] = "good"
  BY <1>1 DEF OthersSame
<1>3. CASE k = 8
  <2>1. Before(k, 4) = 4 /\ Before(k + 1, 4) = 4 /\ Before(k, 10) = 0 /\ Before(k + 1, 10) = 0 /\ p = 1
    BY <1>3 DEF Before
  <2>2. d.rec[0] = c.rec[0] /\ Len(c.rec[1]) \in Nat
    BY <2>1, RecIs DEF Parts, OthersSame
  <2>3. Begun(d.rec[1], 4, NewLabel(o, f, 1))
    BY <1>1, <2>1, <2>2, BegunLonger
  <2>4. QED
    BY <1>1, <1>2, <1>3, <2>1, <2>2, <2>3 DEF Reached
<1>4. CASE k = 14
  <2>1. Before(k, 4) = 4 /\ Before(k + 1, 4) = 4 /\ Before(k, 10) = 4 /\ Before(k + 1, 10) = 4 /\ p = 0
    BY <1>4 DEF Before
  <2>2. d.rec[1] = c.rec[1] /\ Len(c.rec[0]) \in Nat
    BY <2>1, RecIs DEF Parts, OthersSame
  <2>3. Begun(d.rec[0], 4, NewLabel(o, f, 0))
    BY <1>1, <2>1, <2>2, BegunLonger
  <2>4. \E i \in DOMAIN d.rec[1] : d.rec[1][i] = Index(f)
    BY <1>1, <1>4, <2>2
  <2>5. QED
    BY <1>1, <1>2, <1>4, <2>1, <2>2, <2>3, <2>4 DEF Reached
<1>5. QED
  BY <1>3, <1>4

LEMMA IndexBehind ==
  ASSUME NEW s \in Seq(Records), NEW f \in Nat
  PROVE  /\ Append(s, FM) \in Seq(Records) /\ Extends(Append(s, FM), s)
         /\ s \o <<FM, Index(f), FM>> \in Seq(Records) /\ Extends(s \o <<FM, Index(f), FM>>, s)
         /\ \E i \in DOMAIN (s \o <<FM, Index(f), FM>>) : (s \o <<FM, Index(f), FM>>)[i] = Index(f)
<1>1. FM \in Records /\ Index(f) \in Records
  BY DEF Records, Index
<1>2. Len(s) \in Nat
  BY LenProperties
<1>3. PICK u : u = Append(s, FM)
  OBVIOUS
<1>4. u \in Seq(Records) /\ Len(u) = Len(s) + 1 /\ \A i \in 1 .. Len(s) : u[i] = s[i]
  BY <1>1, <1>3, AppendProperties
<1>5. Extends(u, s)
  BY <1>2, <1>4 DEF Extends
<1>6. PICK w : w = <<FM, Index(f), FM>>
  OBVIOUS
<1>7. w \in Seq(Records) /\ Len(w) = 3 /\ w[2] = Index(f)
  BY <1>1, <1>6
<1>8. PICK v : v = s \o w
  OBVIOUS
<1>9. /\ v \in Seq(Records) /\ Len(v) = Len(s) + 3
      /\ \A i \in 1 .. Len(s) + 3 : v[i] = IF i <= Len(s) THEN s[i] ELSE w[i - Len(s)]
  <2>1. /\ s \o w \in Seq(Records) /\ Len(s \o w) = Len(s) + Len(w)
        /\ \A i \in 1 .. Len(s) + Len(w) : (s \o w)[i] = IF i <= Len(s) THEN s[i] ELSE w[i - Len(s)]
    BY <1>7, ConcatProperties, Zenon
  <2>2. QED
    BY <1>7, <1>8, <2>1, Zenon
<1>10. Extends(v, s)
  BY <1>2, <1>9 DEF Extends
<1>11. DOMAIN v = 1 .. Len(s) + 3
  BY <1>9, LenProperties
<1>12. Len(s) + 2 \in DOMAIN v /\ v[Len(s) + 2] = Index(f)
  BY <1>2, <1>7, <1>9, <1>11
<1>13. QED
  BY <1>3, <1>4, <1>5, <1>6, <1>8, <1>9, <1>10, <1>12, Zenon

LEMMA WriteFirstIndexKeeps == ASSUME CartInv, WriteFirstIndex PROVE CartInv' /\ Spared
<1>1. /\ prog # "none" /\ todo # <<>> /\ Head(todo).op = "index" /\ prog = "mkltfs" /\ ~opt.unformat
      /\ opt' = opt /\ runs' = runs /\ cart \in Cartridges /\ error \in BOOLEAN /\ runs \in Nat
  BY WhoseStep DEF WriteFirstIndex, Now, CartInv
<1>2. PICK k \in 1 .. 14 : /\ Reached(cart, opt, runs, error, k)
                           /\ Head(todo) = FormatSteps(opt)[k] /\ Tail(todo) = SubSeq(FormatSteps(opt), k + 1, 14)
  BY <1>1, InFormat
<1>3. PICK x : x = Head(todo)
  OBVIOUS
<1>4. x = FormatSteps(opt)[k] /\ x.op = "index"
  BY <1>1, <1>2, <1>3
<1>5. PICK p : p = IF k = 8 THEN 1 ELSE 0
  OBVIOUS
<1>6. k \in {8, 14} /\ x.part = p /\ p \in Parts
  BY <1>4, <1>5, OpAt DEF Parts
<1>7. opt.block \in Nat /\ opt.block <= LargestBlock
  BY <1>1 DEF CartInv, Options
<1>8. PICK c, d : c = cart /\ d = cart'
  OBVIOUS
<1>9. c \in Cartridges /\ c.rec[p] \in Seq(Records) /\ Len(c.rec[0]) \in Nat
  BY <1>1, <1>6, <1>8, RecIs DEF Parts
<1>10. CASE End("error") /\ cart' = cart
  BY <1>1, <1>10, EndsHere
<1>11. ASSUME error = FALSE, NEW v \in Seq(Records), Extends(v, c.rec[p]), NEW lock \in {"unlocked", "locked", "pwe"},
              d = Put(c, p, v, lock)
       PROVE  /\ d \in Cartridges /\ d.rec[p] = v /\ LabelsMeanVolume' /\ Spared
              /\ (\E i \in DOMAIN v : v[i] = Index(runs)) => Reached(d, opt, runs, FALSE, k + 1)
  <2>1. d \in Cartridges /\ d.rec[p] = v /\ OthersSame(d, c, p)
    BY <1>6, <1>9, <1>11, SetRec
  <2>2. Reached(c, opt, runs, FALSE, k)
    BY <1>2, <1>8, <1>11, Zenon
  <2>3. Extends(d.rec[p], c.rec[p])
    BY <1>11, <2>1
  <2>4. /\ Reached(d, opt, runs, FALSE, k)
        /\ (\E i \in DOMAIN d.rec[p] : d.rec[p][i] = Index(runs)) => Reached(d, opt, runs, FALSE, k + 1)
    BY <1>5, <1>6, <1>9, <2>1, <2>2, <2>3, ReachedIndex
  <2>5. Len(d.rec[0]) \in Nat /\ k \in 3 .. 15
    BY <1>6, <2>1, RecIs DEF Parts
  <2>6. /\ StartMount(d) = "OK" => IndexOn(d, DataPart(d))
        /\ k >= 14 => StartMount(d) = "OK"
    BY <1>1, <1>7, <2>4, <2>5, ReachedIsVolume DEF MountOk
  <2>7. StartMount(c) = "OK" => k >= 14
    BY <1>1, <1>7, <1>9, <2>2, <2>5, ReachedIsVolume
  <2>8. QED
    BY <1>8, <2>1, <2>4, <2>6, <2>7, Zenon DEF LabelsMeanVolume, Spared
<1>12. CASE ~error /\ cart' = [cart EXCEPT !.rec[x.part] = @ \o <<FM, Index(runs), FM>>] /\ Go /\ UNCHANGED error
  <2>1. PICK v : v = c.rec[p] \o <<FM, Index(runs), FM>>
    OBVIOUS
  <2>2. v \in Seq(Records) /\ Extends(v, c.rec[p]) /\ \E i \in DOMAIN v : v[i] = Index(runs)
    BY <1>1, <1>9, <2>1, IndexBehind
  <2>3. PICK lock \in {"unlocked", "locked", "pwe"} : d = Put(c, p, v, lock)
    <3>1. d = [c EXCEPT !.rec[p] = v]
      BY <1>6, <1>8, <1>12, <2>1
    <3>2. c.lock \in {"unlocked", "locked", "pwe"} /\ d = Put(c, p, v, c.lock)
      BY <1>9, <3>1 DEF Cartridges, Put
    <3>3. QED
      BY <3>2
  <2>4. error = FALSE
    BY <1>1, <1>12
  <2>5. d \in Cartridges /\ Spared /\ Reached(d, opt, runs, FALSE, k + 1)
    BY <1>11, <2>2, <2>3, <2>4
  <2>6. PICK j \in 1 .. 15 : j = k + 1
    BY <1>6
  <2>7. ~(j <= 2) /\ error' = FALSE /\ prog' = prog /\ todo' = SubSeq(FormatSteps(opt), j, 14)
    BY <1>2, <1>6, <1>12, <2>4, <2>6 DEF Go
  <2>8. CartInv'
    BY <1>1, <1>8, <2>5, <2>6, <2>7, Moved
  <2>9. QED
    BY <2>5, <2>8
<1>13. CASE ~error /\ cart' = [cart EXCEPT !.rec[x.part] = Append(@, FM), !.lock = "pwe"] /\ End("error")
  <2>1. PICK v : v = Append(c.rec[p], FM)
    OBVIOUS
  <2>2. v \in Seq(Records) /\ Extends(v, c.rec[p])
    BY <1>1, <1>9, <2>1, IndexBehind
  <2>3. d = Put(c, p, v, "pwe")
    BY <1>6, <1>8, <1>13, <2>1 DEF Put
  <2>4. error = FALSE
    BY <1>1, <1>13
  <2>5. d \in Cartridges /\ Spared /\ LabelsMeanVolume'
    BY <1>11, <2>2, <2>3, <2>4
  <2>6. CartInv'
    BY <1>1, <1>8, <1>13, <2>5, Ended
  <2>7. QED
    BY <2>5, <2>6
<1>14. QED
  BY <1>3, <1>10, <1>12, <1>13 DEF WriteFirstIndex

\* The end of data becomes known; the records stay.
LEMMA SetEod ==
  ASSUME NEW c \in Cartridges, NEW eod \in [Parts -> {"good", "missing"}], NEW d, d = [c EXCEPT !.eod = eod]
  PROVE  d \in Cartridges /\ d.parts = c.parts /\ d.rec = c.rec
  BY DEF Cartridges

LEMMA SeekEodKeeps == ASSUME CartInv, SeekEod PROVE CartInv' /\ Spared
<1>1. /\ prog # "none" /\ todo # <<>> /\ prog = "ltfsck" /\ Go
      /\ opt' = opt /\ runs' = runs /\ error' = error /\ cart \in Cartridges
  BY WhoseStep DEF SeekEod, Now, CartInv
<1>2. PICK found \in SUBSET Parts : cart' = [cart EXCEPT !.eod = [p \in Parts |-> IF p \in found THEN "good" ELSE @[p]]]
  BY DEF SeekEod
<1>3. PICK c, d, eod : c = cart /\ d = cart' /\ eod = [p \in Parts |-> IF p \in found THEN "good" ELSE cart.eod[p]]
  OBVIOUS
<1>4. eod \in [Parts -> {"good", "missing"}]
  <2>1. cart.eod \in [Parts -> {"good", "missing"}]
    BY <1>1, Fields
  <2>2. QED
    BY <1>3, <2>1
<1>5. d = [c EXCEPT !.eod = eod]
  BY <1>2, <1>3
<1>6. d \in Cartridges /\ d.parts = c.parts /\ d.rec = c.rec
  BY <1>1, <1>3, <1>4, <1>5, SetEod
<1>7. Spared /\ LabelsMeanVolume'
  BY <1>3, <1>6, Untouched DEF CartInv
<1>8. CartInv'
  BY <1>1, <1>3, <1>6, <1>7, Going
<1>9. QED
  BY <1>7, <1>8

LEMMA RecoverEodKeeps == ASSUME CartInv, RecoverEod PROVE CartInv' /\ Spared
<1>1. /\ prog # "none" /\ todo # <<>> /\ prog = "ltfsck" /\ opt' = opt /\ runs' = runs /\ cart \in Cartridges
  BY WhoseStep DEF RecoverEod, Now, CartInv
<1>2. CASE End("error") /\ cart' = cart
  BY <1>1, <1>2, EndsHere
<1>3. CASE cart' = [cart EXCEPT !.eod = [p \in Parts |-> "good"]] /\ Go /\ UNCHANGED error
  <2>1. PICK c, d, eod : c = cart /\ d = cart' /\ eod = [p \in Parts |-> "good"]
    OBVIOUS
  <2>2. eod \in [Parts -> {"good", "missing"}] /\ d = [c EXCEPT !.eod = eod]
    BY <1>3, <2>1
  <2>3. d \in Cartridges /\ d.parts = c.parts /\ d.rec = c.rec
    BY <1>1, <2>1, <2>2, SetEod
  <2>4. Spared /\ LabelsMeanVolume'
    BY <2>1, <2>3, Untouched DEF CartInv
  <2>5. CartInv'
    BY <1>1, <1>3, <2>1, <2>3, <2>4, Going
  <2>6. QED
    BY <2>4, <2>5
<1>4. QED
  BY <1>2, <1>3 DEF RecoverEod

LEMMA TryMountKeeps == ASSUME CartInv, TryMount PROVE CartInv' /\ Spared
<1>1. /\ prog # "none" /\ todo # <<>> /\ prog = "ltfsck" /\ opt' = opt /\ runs' = runs /\ cart \in Cartridges /\ cart' = cart
  BY WhoseStep DEF TryMount, Now, CartInv
<1>2. CASE End("error")
  BY <1>1, <1>2, EndsHere
<1>3. CASE Go /\ UNCHANGED error
  <2>1. Spared /\ LabelsMeanVolume'
    BY <1>1, Untouched DEF CartInv
  <2>2. QED
    BY <1>1, <1>3, <2>1, Going
<1>4. QED
  BY <1>2, <1>3 DEF TryMount

LEMMA UnlockKeeps == ASSUME CartInv, UnlockCartridge PROVE CartInv' /\ Spared
<1>1. /\ prog # "none" /\ todo # <<>> /\ prog = "ltfsck" /\ Go
      /\ opt' = opt /\ runs' = runs /\ error' = error /\ cart \in Cartridges
  BY WhoseStep DEF UnlockCartridge, Now, CartInv
<1>2. cart' = cart \/ cart' = [cart EXCEPT !.lock = "unlocked"]
  BY DEF UnlockCartridge
<1>3. cart' \in Cartridges /\ cart'.parts = cart.parts /\ cart'.rec = cart.rec
  BY <1>1, <1>2, SetLock
<1>4. Spared /\ LabelsMeanVolume'
  BY <1>3, Untouched DEF CartInv
<1>5. QED
  BY <1>1, <1>3, <1>4, Going

LEMMA CrashKeeps == ASSUME CartInv, Crash PROVE CartInv' /\ Spared
<1>1. End("none") /\ cart' = cart /\ runs' = runs /\ cart \in Cartridges
  BY DEF Crash, CartInv
<1>2. QED
  BY <1>1, EndsHere

\* A format that finishes has left a cartridge that mounts.
LEMMA FinishKeeps == ASSUME CartInv, Finish PROVE CartInv' /\ Spared
<1>1. /\ prog \in {"mkltfs", "unltfs", "ltfsck"} /\ todo = <<>> /\ prog' = "none" /\ error' = FALSE
      /\ cart' = cart /\ opt' = opt /\ runs' = runs /\ cart \in Cartridges /\ runs \in Nat /\ error \in BOOLEAN
      /\ opt \in Options(prog)
  BY DEF Finish, End, CartInv
<1>2. Spared /\ LabelsMeanVolume'
  BY <1>1, Untouched DEF CartInv
<1>3. ASSUME "force" \in DOMAIN opt, ~opt.unformat PROVE MountOk(cart)
  <2>1. prog = "mkltfs"
    BY <1>1, <1>3 DEF Options
  <2>2. PICK k \in 1 .. 15 : todo = SubSeq(FormatSteps(opt), k, 14) /\ Reached(cart, opt, runs, error, k)
    BY <1>3, <2>1 DEF CartInv, Formatting
  <2>3. PICK t : t = todo
    OBVIOUS
  <2>4. k = 15
    BY <1>1, <2>2, <2>3, AtStep
  <2>5. error = FALSE /\ k \in 3 .. 15 /\ k >= 14
    BY <1>1, <2>2, <2>4 DEF Reached
  <2>6. opt.block \in Nat /\ opt.block <= LargestBlock /\ Len(cart.rec[0]) \in Nat
    BY <1>1, <1>3, <2>1, RecIs DEF CartInv, Options, Parts
  <2>7. QED
    BY <1>1, <2>2, <2>5, <2>6, ReachedIsVolume
<1>4. SuccessIsMountable'
  BY <1>1, <1>3 DEF SuccessIsMountable
<1>5. QED
  BY <1>1, <1>2, <1>4 DEF CartInv

-----------------------------------------------------------------------------
(* A run begins.                                                           *)

LEMMA UnformatIs == ASSUME NEW o PROVE UnformatSteps(o) \in Seq({Step(x) : x \in {"interrupt", "unformat", "erase"}})
<1>1. PICK T : T = {Step(x) : x \in {"interrupt", "unformat", "erase"}}
  OBVIOUS
<1>2. Step("interrupt") \in T /\ Step("unformat") \in T /\ Step("erase") \in T
  BY <1>1
<1>3. PICK a, b : a = <<Step("interrupt"), Step("unformat"), Step("interrupt")>> /\ b = IF o.wipe THEN <<Step("erase")>> ELSE <<>>
  OBVIOUS
<1>4. a \in Seq(T) /\ b \in Seq(T)
  BY <1>2, <1>3
<1>5. a \o b \in Seq(T)
  BY <1>4, ConcatProperties
<1>6. QED
  BY <1>1, <1>3, <1>5, Zenon DEF UnformatSteps

LEMMA CheckIs ==
  ASSUME NEW o
  PROVE  /\ CheckSteps(o) \in Seq({Step(x) : x \in {"seekeod", "recover", "mount", "unlock"}})
         /\ <<Step("mount")>> \in Seq({Step(x) : x \in {"seekeod", "recover", "mount", "unlock"}})
<1>1. PICK T : T = {Step(x) : x \in {"seekeod", "recover", "mount", "unlock"}}
  OBVIOUS
<1>2. Step("seekeod") \in T /\ Step("recover") \in T /\ Step("mount") \in T /\ Step("unlock") \in T
  BY <1>1
<1>3. PICK a, b : a = (IF o.deep THEN <<Step("seekeod"), Step("recover")>> ELSE <<>>) /\ b = <<Step("mount"), Step("unlock")>>
  OBVIOUS
<1>4. a \in Seq(T) /\ b \in Seq(T) /\ <<Step("mount")>> \in Seq(T)
  BY <1>2, <1>3
<1>5. a \o b \in Seq(T)
  BY <1>4, ConcatProperties
<1>6. QED
  BY <1>1, <1>3, <1>4, <1>5, Zenon DEF CheckSteps

LEMMA UnformatOneIs == <<Step("unformat")>> \in Seq({Step(x) : x \in {"unformat"}})
<1>1. PICK T : T = {Step(x) : x \in {"unformat"}}
  OBVIOUS
<1>2. Step("unformat") \in T
  BY <1>1
<1>3. <<Step("unformat")>> \in Seq(T)
  BY <1>2
<1>4. QED
  BY <1>1, <1>3

\* What a gate lets pass.
LEMMA GateIs ==
  ASSUME NEW p \in {"mkltfs", "unltfs", "ltfsck"}, NEW o \in Options(p), NEW c, NEW answer
  PROVE  /\ Gate(p, o, c, answer) = "ok" => p = "ltfsck"
         /\ p = "mkltfs" /\ ~o.unformat /\ Gate(p, o, c, answer) = "go" =>
              (o.force \/ o.ask \/ StartMount(c) # "OK") /\ o.block <= LargestBlock
<1>1. CASE p = "mkltfs"
  <2>1. Gate(p, o, c, answer) = MkGate(o, c, answer)
    BY <1>1 DEF Gate
  <2>2. MkGate(o, c, answer) # "ok"
    BY DEF MkGate
  <2>3. o.block \in Nat /\ LargestBlock \in Nat
    BY <1>1 DEF Options, LargestBlock
  <2>4. ASSUME ~o.unformat, MkGate(o, c, answer) = "go"
        PROVE  (o.force \/ o.ask \/ StartMount(c) # "OK") /\ ~(o.block > LargestBlock)
    BY <2>4 DEF MkGate
  <2>5. QED
    BY <1>1, <2>1, <2>2, <2>3, <2>4
<1>2. CASE p = "unltfs"
  <2>1. Gate(p, o, c, answer) = UnGate(o, c, answer)
    BY <1>2 DEF Gate
  <2>2. UnGate(o, c, answer) # "ok"
    BY DEF UnGate
  <2>3. QED
    BY <1>2, <2>1, <2>2
<1>3. QED
  BY <1>1, <1>2

LEMMA RunKeeps == ASSUME CartInv, Run PROVE CartInv' /\ Spared
<1>1. PICK line \in CommandLines, answer \in {"yes", "no"} : \E setup \in Setup(line.prog) :
        LET o == Parsed(line.prog, line.args)
            g == IF setup = "go" THEN Gate(line.prog, o, cart, answer) ELSE setup
        IN  /\ opt' = IF line.prog = "ltfsck" THEN CkFinal(o) ELSE o
            /\ IF g = "go" THEN prog' = line.prog /\ todo' = Steps(line.prog, opt') /\ exit' = "none"
               ELSE prog' = "none" /\ todo' = <<>> /\ exit' = g
  BY DEF Run
<1>s. PICK setup \in Setup(line.prog) :
        LET o == Parsed(line.prog, line.args)
            g == IF setup = "go" THEN Gate(line.prog, o, cart, answer) ELSE setup
        IN  /\ opt' = IF line.prog = "ltfsck" THEN CkFinal(o) ELSE o
            /\ IF g = "go" THEN prog' = line.prog /\ todo' = Steps(line.prog, opt') /\ exit' = "none"
               ELSE prog' = "none" /\ todo' = <<>> /\ exit' = g
  BY <1>1
<1>2. PICK o, g :
        /\ o = Parsed(line.prog, line.args)
        /\ g = IF setup = "go" THEN Gate(line.prog, o, cart, answer) ELSE setup
        /\ opt' = IF line.prog = "ltfsck" THEN CkFinal(o) ELSE o
        /\ IF g = "go" THEN prog' = line.prog /\ todo' = Steps(line.prog, opt') /\ exit' = "none"
           ELSE prog' = "none" /\ todo' = <<>> /\ exit' = g
  BY <1>s
<1>3. PICK p : p = line.prog
  OBVIOUS
<1>4. p \in {"mkltfs", "unltfs", "ltfsck"} /\ o \in Options(p)
  BY <1>2, <1>3, CartridgeAssumption
<1>5. opt' \in Options(p)
  BY <1>2, <1>3, <1>4 DEF CkFinal, Options
<1>6. setup # "ok"
  BY <1>s, <1>3, <1>4 DEF Setup, MkSetup, CkSetup, UnSetup
<1>7. /\ prog = "none" /\ cart' = cart /\ error' = error /\ error = FALSE /\ runs' \in Nat /\ cart \in Cartridges
  BY DEF Run, CartInv
<1>8. Spared /\ LabelsMeanVolume'
  BY <1>7, Untouched DEF CartInv
<1>9. CASE g # "go"
  <2>1. prog' = "none" /\ exit' = g
    BY <1>2, <1>9
  <2>2. exit' = "ok" => p = "ltfsck"
    BY <1>2, <1>3, <1>4, <1>6, <2>1, GateIs
  <2>3. p = "ltfsck" => "force" \notin DOMAIN opt'
    BY <1>5 DEF Options
  <2>4. SuccessIsMountable'
    BY <2>2, <2>3 DEF SuccessIsMountable
  <2>5. QED
    BY <1>7, <1>8, <2>1, <2>4 DEF CartInv
<1>10. CASE g = "go"
  <2>1. prog' = p /\ todo' = Steps(p, opt')
    BY <1>2, <1>3, <1>10
  <2>2. Gate(p, o, cart, answer) = "go"
    BY <1>2, <1>3, <1>10
  <2>3. ASSUME p = "mkltfs", ~opt'.unformat PROVE opt'.block <= LargestBlock /\ Formatting'
    <3>1. opt' = o
      BY <1>2, <1>3, <2>3
    <3>2. (o.force \/ o.ask \/ StartMount(cart) # "OK") /\ o.block <= LargestBlock
      BY <1>4, <2>2, <2>3, <3>1, GateIs
    <3>3. PICK s : s = FormatSteps(o)
      OBVIOUS
    <3>4. s \in Seq(StepSet) /\ Len(s) = 14
      BY <3>3, FormatIs
    <3>5. SubSeq(s, 1, 14) = s
      BY <3>4, SubSeqFull
    <3>6. todo' = s
      BY <2>1, <2>3, <3>1, <3>3 DEF Steps
    <3>7. Reached(cart, o, runs', FALSE, 1)
      BY <3>2 DEF Reached
    <3>8. PICK k \in 1 .. 15 : k = 1
      OBVIOUS
    <3>9. todo' = SubSeq(FormatSteps(opt'), k, 14) /\ Reached(cart', opt', runs', error', k)
      BY <1>7, <3>1, <3>3, <3>5, <3>6, <3>7, <3>8, Zenon
    <3>10. QED
      BY <3>1, <3>2, <3>9 DEF Formatting
  <2>4. ASSUME p = "mkltfs", opt'.unformat PROVE OnlyOps({"interrupt", "unformat", "erase"})'
    BY <2>1, <2>4, UnformatIs DEF OnlyOps, Steps
  <2>5. ASSUME p = "unltfs" PROVE OnlyOps({"unformat"})'
    BY <2>1, <2>5, UnformatOneIs DEF OnlyOps, Steps
  <2>6. ASSUME p = "ltfsck" PROVE OnlyOps({"seekeod", "recover", "mount", "unlock"})'
    BY <2>1, <2>6, CheckIs DEF OnlyOps, Steps
  <2>7. QED
    BY <1>4, <1>5, <1>7, <1>8, <2>1, <2>3, <2>4, <2>5, <2>6 DEF CartInv
<1>11. QED
  BY <1>9, <1>10

-----------------------------------------------------------------------------
(* The theorems.                                                           *)

LEMMA CartInitially == ASSUME CartInit PROVE CartInv
<1>1. cart \in FirstCartridges /\ prog = "none" /\ error = FALSE /\ exit = "none" /\ runs = 0
  BY DEF CartInit
<1>2. cart \in Cartridges /\ LabelsMeanVolume
  BY <1>1, CartridgeAssumption DEF LabelsMeanVolume
<1>3. SuccessIsMountable
  BY <1>1 DEF SuccessIsMountable
<1>4. QED
  BY <1>1, <1>2, <1>3 DEF CartInv

LEMMA CartStep == ASSUME CartInv, [CartNext]_cartVars PROVE CartInv' /\ Spared
<1>1. CASE CartNext
  BY <1>1, RunKeeps, InterruptKeeps, FormatKeeps, UnformatKeeps, WriteLabelKeeps, WriteFirstIndexKeeps,
     SeekEodKeeps, RecoverEodKeeps, TryMountKeeps, UnlockKeeps, FinishKeeps, CrashKeeps DEF CartNext
<1>2. CASE UNCHANGED cartVars
  <2>1. /\ cart' = cart /\ prog' = prog /\ opt' = opt /\ todo' = todo /\ error' = error /\ exit' = exit /\ runs' = runs
    BY <1>2 DEF cartVars
  <2>2. Spared
    BY <2>1 DEF Spared
  <2>3. CartInv'
    BY <2>1 DEF CartInv, LabelsMeanVolume, SuccessIsMountable, MountOk, Formatting, OnlyOps
  <2>4. QED
    BY <2>2, <2>3
<1>3. QED
  BY <1>1, <1>2

\* What is on the cartridge is what the steps done so far make of it.
\* (ltfs_format_tape, ltfs.c:2806-2923; main of the three programs)
THEOREM CartInvHolds == CartSpec => []CartInv
<1>1. CartInit => CartInv
  BY CartInitially
<1>2. CartInv /\ [CartNext]_cartVars => CartInv'
  BY CartStep
<1>3. QED
  BY <1>1, <1>2, PTL DEF CartSpec

\* Labels mean a volume and success a mountable one, for any cartridges,
\* command lines, runs and faults. (mkltfs.c, ltfs.c:2784, 2899-2920)
THEOREM ReportsAreTrue == CartSpec => []ReportsTrue
<1>1. CartInv => ReportsTrue
  BY DEF CartInv, ReportsTrue, SuccessIsMountable
<1>2. QED
  BY <1>1, CartInvHolds, PTL

\* A volume is given up only when the user meant it. (mkltfs.c:701-727)
THEOREM VolumesStay == CartSpec => VolumesAreSpared
<1>1. CartInv /\ [CartNext]_cartVars => [StartMount(cart) = "OK" /\ StartMount(cart') # "OK" => Meant]_cartVars
  BY CartStep DEF Spared
<1>2. QED
  BY <1>1, CartInvHolds, PTL DEF CartSpec, VolumesAreSpared

-----------------------------------------------------------------------------
(* An index in blocks.                                                      *)

\* A run of bytes, its pieces, and two runs that follow each other.
LEMMA RunIs ==
  ASSUME NEW a \in Nat, NEW len \in Nat
  PROVE  /\ BytesFrom(a, len) \in Seq(Nat) /\ Len(BytesFrom(a, len)) = len
         /\ \A i \in 1..len : BytesFrom(a, len)[i] = a + i
  BY DEF BytesFrom

LEMMA RunNone ==
  ASSUME NEW a \in Nat, NEW s \in Seq(Nat), Len(s) = 0
  PROVE  s = <<>> /\ s = BytesFrom(a, 0)
  <1>1. s = <<>> /\ BytesFrom(a, 0) \in Seq(Nat) /\ Len(BytesFrom(a, 0)) = 0
    BY EmptySeq, RunIs
  <1> QED
    BY <1>1, EmptySeq

LEMMA RunsJoin ==
  ASSUME NEW a \in Nat, NEW m \in Nat, NEW len \in Nat
  PROVE  BytesFrom(a, m) \o BytesFrom(a + m, len) = BytesFrom(a, m + len)
  <1>s. PICK s : s = BytesFrom(a, m)
    OBVIOUS
  <1>u. PICK u : u = BytesFrom(a + m, len)
    OBVIOUS
  <1>w. PICK w : w = BytesFrom(a, m + len)
    OBVIOUS
  <1>0. a + m \in Nat /\ m + len \in Nat
    OBVIOUS
  <1>1. s \in Seq(Nat) /\ Len(s) = m /\ \A i \in 1..m : s[i] = a + i
    BY <1>s, RunIs
  <1>2. u \in Seq(Nat) /\ Len(u) = len /\ \A i \in 1..len : u[i] = (a + m) + i
    BY <1>0, <1>u, RunIs
  <1>3. w \in Seq(Nat) /\ Len(w) = m + len /\ \A i \in 1..m + len : w[i] = a + i
    BY <1>0, <1>w, RunIs
  <1>4. /\ s \o u \in Seq(Nat) /\ Len(s \o u) = Len(s) + Len(u)
        /\ \A i \in 1..Len(s) + Len(u) : (s \o u)[i] = IF i <= Len(s) THEN s[i] ELSE u[i - Len(s)]
    BY <1>1, <1>2, ConcatProperties
  <1>5. ASSUME NEW i \in 1..m + len PROVE (s \o u)[i] = w[i]
    <2>1. CASE i <= m
      BY <1>1, <1>2, <1>3, <1>4, <2>1
    <2>2. CASE i > m
      <3>1. i - m \in 1..len
        BY <2>2
      <3>2. (s \o u)[i] = u[i - m]
        BY <1>1, <1>2, <1>4, <2>2
      <3> QED
        BY <1>2, <1>3, <3>1, <3>2
    <2>3. i <= m \/ i > m
      OBVIOUS
    <2> QED
      BY <2>1, <2>2, <2>3
  <1>6. s \o u = w
    BY <1>1, <1>2, <1>3, <1>4, <1>5, SeqEqual
  <1> QED
    BY <1>s, <1>u, <1>w, <1>6

Halves(s, a, len, k) ==
  /\ SubSeq(s, 1, k) = BytesFrom(a, k) /\ SubSeq(s, k + 1, len) = BytesFrom(a + k, len - k)
  /\ SubSeq(s, 1, k) \in Seq(Nat) /\ SubSeq(s, k + 1, len) \in Seq(Nat)
  /\ Len(SubSeq(s, 1, k)) = k /\ Len(SubSeq(s, k + 1, len)) = len - k
LEMMA RunsSplit ==
  ASSUME NEW a \in Nat, NEW len \in Nat, NEW s \in Seq(Nat), s = BytesFrom(a, len), NEW k \in 0..len
  PROVE  Halves(s, a, len, k)
  <1>1. Len(s) = len /\ \A i \in 1..len : s[i] = a + i
    BY RunIs
  <1>2. SubSeq(s, 1, k) = BytesFrom(a, k)
    BY <1>1 DEF BytesFrom
  <1>3. SubSeq(s, k + 1, len) = BytesFrom(a + k, len - k)
    BY <1>1 DEF BytesFrom
  <1>4. k \in Nat /\ a + k \in Nat /\ len - k \in Nat
    OBVIOUS
  <1>5. BytesFrom(a, k) \in Seq(Nat) /\ Len(BytesFrom(a, k)) = k
    BY <1>4, RunIs
  <1>6. BytesFrom(a + k, len - k) \in Seq(Nat) /\ Len(BytesFrom(a + k, len - k)) = len - k
    BY <1>4, RunIs
  <1> QED
    BY <1>2, <1>3, <1>5, <1>6 DEF Halves

\* Blocks that go on where the one before ended, all full or all but the last one.
Laid(B) ==
  \A k \in 1..Len(B) : B[k] = BytesFrom(LastByte(B, k - 1), Len(B[k])) /\ Len(B[k]) \in 1..BlockSize
AllFull(B) == \A k \in 1..Len(B) : Len(B[k]) = BlockSize
FullBefore(B) == \A k \in 1..Len(B) : Len(B[k]) < BlockSize => k = Len(B)

\* Where they end.
LEMMA LastByteIs ==
  ASSUME NEW B \in Seq(Seq(Nat)), Laid(B)
  PROVE  \A k \in 0..Len(B) : /\ LastByte(B, k) \in Nat
                              /\ k > 0 => LastByte(B, k) = LastByte(B, k - 1) + Len(B[k])
  <1>1. \A k \in 1..Len(B) : B[k] \in Seq(Nat) /\ Len(B[k]) \in 1..BlockSize
    BY DEF Laid
  <1>2. ASSUME NEW k \in 0..Len(B) PROVE LastByte(B, k) \in Nat
    BY <1>1, <1>2, StreamAssumption DEF LastByte
  <1>3. ASSUME NEW k \in 1..Len(B) PROVE LastByte(B, k) = LastByte(B, k - 1) + Len(B[k])
    <2>e. PICK e : e = LastByte(B, k - 1)
      OBVIOUS
    <2>len. PICK len : len = Len(B[k])
      OBVIOUS
    <2>1. e \in Nat /\ len \in Nat \ {0}
      BY <1>1, <1>2, <2>e, <2>len, StreamAssumption
    <2>2. B[k] = BytesFrom(e, len)
      BY <2>e, <2>len DEF Laid
    <2>3. \A i \in 1..len : BytesFrom(e, len)[i] = e + i
      BY <2>1, RunIs
    <2>4. len \in 1..len
      BY <2>1
    <2>5. B[k][len] = e + len
      BY <2>2, <2>3, <2>4
    <2> QED
      BY <2>e, <2>len, <2>5 DEF LastByte
  <1> QED
    BY <1>2, <1>3

\* One block more, which goes on where they end.
Longer(B, len, C) ==
  /\ C \in Seq(Seq(Nat)) /\ Laid(C) /\ Len(C) = Len(B) + 1
  /\ LastByte(C, Len(C)) = LastByte(B, Len(B)) + len
  /\ AllFull(B) => FullBefore(C)
  /\ AllFull(B) /\ len = BlockSize => AllFull(C)
LEMMA OneMoreLaid ==
  ASSUME NEW B \in Seq(Seq(Nat)), Laid(B), NEW e, e = LastByte(B, Len(B)), NEW len \in 1..BlockSize,
         NEW C, C = Append(B, BytesFrom(e, len))
  PROVE  Longer(B, len, C)
  <1>b. PICK b : b = BytesFrom(e, len)
    OBVIOUS
  <1>1. e \in Nat /\ len \in Nat \ {0} /\ Len(B) \in Nat
    BY LastByteIs, StreamAssumption
  <1>2. b \in Seq(Nat) /\ Len(b) = len /\ b[len] = e + len
    <2>1. b \in Seq(Nat) /\ Len(b) = len /\ \A i \in 1..len : b[i] = e + i
      BY <1>b, <1>1, RunIs
    <2> QED
      BY <1>1, <2>1
  <1>3. /\ C \in Seq(Seq(Nat)) /\ Len(C) = Len(B) + 1 /\ C[Len(B) + 1] = b
        /\ \A k \in 1..Len(B) : C[k] = B[k]
    BY <1>b, <1>2, AppendProperties
  <1>4. \A k \in 0..Len(B) : LastByte(C, k) = LastByte(B, k)
    BY <1>3 DEF LastByte
  <1>5. ASSUME NEW k \in 1..Len(C)
        PROVE  C[k] = BytesFrom(LastByte(C, k - 1), Len(C[k])) /\ Len(C[k]) \in 1..BlockSize
    <2>1. CASE k \in 1..Len(B)
      <3>1. C[k] = B[k] /\ LastByte(C, k - 1) = LastByte(B, k - 1)
        BY <1>1, <1>3, <1>4, <2>1
      <3> QED
        BY <2>1, <3>1 DEF Laid
    <2>2. CASE k = Len(B) + 1
      <3>1. C[k] = b /\ LastByte(C, k - 1) = e
        BY <1>1, <1>3, <1>4, <2>2
      <3> QED
        BY <1>b, <1>2, <3>1
    <2>3. k \in 1..Len(B) \/ k = Len(B) + 1
      BY <1>1, <1>3
    <2> QED
      BY <2>1, <2>2, <2>3
  <1>6. LastByte(C, Len(C)) = e + len
    BY <1>1, <1>2, <1>3 DEF LastByte
  <1>7. AllFull(B) => FullBefore(C)
    BY <1>1, <1>3 DEF AllFull, FullBefore
  <1>8. AllFull(B) /\ len = BlockSize => AllFull(C)
    BY <1>1, <1>2, <1>3 DEF AllFull
  <1> QED
    BY <1>3, <1>5, <1>6, <1>7, <1>8 DEF Laid, Longer

-----------------------------------------------------------------------------
(* The inductive invariant.                                                 *)

Writing == {"put", "cut"}
StreamTypes ==
  /\ streaming \in {"put", "cut", "read", "fill", "done"}
  /\ handed \in Nat /\ remaining \in Nat /\ current_pos \in Nat /\ eod_pos \in Nat /\ wanted \in Nat /\ delivered \in Nat
  /\ obuf \in Seq(Nat) /\ ibuf \in Seq(Nat) /\ xblocks \in Seq(Seq(Nat))
  /\ marked \in BOOLEAN /\ saw_small_block \in BOOLEAN /\ saw_file_mark \in BOOLEAN

\* The buffer goes on where the blocks end, and a piece that is being cut fills it.
WriterHolds ==
  /\ Laid(xblocks)
  /\ obuf = BytesFrom(LastByte(xblocks, Len(xblocks)), Len(obuf)) /\ Len(obuf) <= BlockSize
  /\ handed = LastByte(xblocks, Len(xblocks)) + Len(obuf)
  /\ streaming \in Writing => AllFull(xblocks)
  /\ streaming = "cut" => Len(obuf) + remaining >= BlockSize

\* A closed index has a block, and a file mark or a known end.
ClosedHolds ==
  streaming \notin Writing =>
    /\ Len(obuf) = 0 /\ FullBefore(xblocks) /\ Len(xblocks) > 0
    /\ eod_pos \in IF marked THEN {0, Len(xblocks) + 1} ELSE {Len(xblocks)}

\* What is buffered goes on where the parser is and ends where the blocks before
\* the head do; a small block was the last one.
ReaderHolds ==
  /\ current_pos <= Len(xblocks)
  /\ ibuf = BytesFrom(delivered, Len(ibuf))
  /\ delivered + Len(ibuf) = LastByte(xblocks, current_pos)
  /\ saw_small_block => current_pos = Len(xblocks) /\ saw_file_mark = marked
  /\ ~saw_small_block => ~saw_file_mark
  /\ streaming \in Writing => current_pos = 0 /\ ~saw_small_block
  /\ streaming = "fill" => Len(ibuf) = 0 /\ wanted > 0
  /\ streaming = "done" => Len(ibuf) = 0 /\ (AtEod \/ saw_small_block)

StreamInv == StreamTypes /\ WriterHolds /\ ClosedHolds /\ ReaderHolds

LEMMA StreamStarts == StreamInit => StreamInv
  <1>1. SUFFICES ASSUME StreamInit PROVE StreamInv
    OBVIOUS
  <1>2. /\ obuf \in Seq(Nat) /\ Len(obuf) = 0 /\ ibuf \in Seq(Nat) /\ Len(ibuf) = 0
        /\ xblocks \in Seq(Seq(Nat)) /\ Len(xblocks) = 0
    BY <1>1, EmptySeq DEF StreamInit
  <1>3. obuf = BytesFrom(0, 0) /\ ibuf = BytesFrom(0, 0)
    BY <1>2, RunNone
  <1>4. LastByte(xblocks, 0) = 0
    BY DEF LastByte
  <1>5. StreamTypes
    BY <1>1, <1>2 DEF StreamInit, StreamTypes
  <1>6. WriterHolds
    BY <1>1, <1>2, <1>3, <1>4, StreamAssumption DEF StreamInit, WriterHolds, Writing, Laid, AllFull
  <1>7. ClosedHolds
    BY <1>1 DEF StreamInit, ClosedHolds, Writing
  <1>8. ReaderHolds
    BY <1>1, <1>2, <1>3, <1>4 DEF StreamInit, ReaderHolds
  <1> QED
    BY <1>5, <1>6, <1>7, <1>8 DEF StreamInv

-----------------------------------------------------------------------------
(* The writer.                                                              *)

\* A step of the writer leaves the reader where it starts.
LEMMA ReaderWaits ==
  ASSUME StreamInv, streaming \in Writing, UNCHANGED readerVars, xblocks' \in Seq(Seq(Nat)),
         streaming' \in {"put", "cut", "read"}
  PROVE  ReaderHolds'
  <1>1. LastByte(xblocks, 0) = 0 /\ LastByte(xblocks', 0) = 0
    BY DEF LastByte
  <1>2. Len(xblocks') \in Nat
    OBVIOUS
  <1> QED
    BY <1>1, <1>2 DEF StreamInv, StreamTypes, ReaderHolds, readerVars, Writing

LEMMA PutPieceHolds ==
  ASSUME StreamInv, PutPiece
  PROVE  StreamInv'
  <1>1. PICK len \in 1..MaxPiece :
          IF Len(obuf) + len < BlockSize
          THEN obuf' = obuf \o BytesFrom(handed, len) /\ handed' = handed + len /\ UNCHANGED <<streaming, remaining>>
          ELSE streaming' = "cut" /\ remaining' = len /\ UNCHANGED <<obuf, handed>>
    BY DEF PutPiece
  <1>2. streaming = "put" /\ UNCHANGED <<xblocks, marked, eod_pos>> /\ UNCHANGED readerVars
    BY DEF PutPiece
  <1>3. len \in Nat \ {0}
    BY StreamAssumption
  <1>e. PICK e : e = LastByte(xblocks, Len(xblocks))
    OBVIOUS
  <1>m. PICK m : m = Len(obuf)
    OBVIOUS
  <1>4. e \in Nat /\ m \in Nat /\ obuf = BytesFrom(e, m) /\ handed = e + m /\ m <= BlockSize /\ AllFull(xblocks) /\ Laid(xblocks)
    BY <1>e, <1>m, <1>2, LastByteIs DEF StreamInv, StreamTypes, WriterHolds, Writing
  <1>5. CASE m + len < BlockSize
    <2>1. obuf' = BytesFrom(e, m + len)
      BY <1>1, <1>3, <1>4, <1>5, <1>m, RunsJoin
    <2>2. obuf' \in Seq(Nat) /\ Len(obuf') = m + len
      <3>1. m + len \in Nat
        BY <1>3, <1>4
      <3> QED
        BY <2>1, <3>1, <1>4, RunIs
    <2>3. streaming' = "put" /\ remaining' = remaining /\ handed' = e + (m + len) /\ handed' \in Nat
      BY <1>1, <1>2, <1>3, <1>4, <1>5, <1>m
    <2>4. StreamTypes'
      BY <1>2, <2>2, <2>3 DEF StreamInv, StreamTypes, readerVars
    <2>5. WriterHolds'
      <3>1. xblocks' = xblocks /\ e = LastByte(xblocks', Len(xblocks')) /\ Laid(xblocks') /\ AllFull(xblocks')
        BY <1>2, <1>4, <1>e
      <3>2. obuf' = BytesFrom(e, Len(obuf')) /\ handed' = e + Len(obuf')
        BY <2>1, <2>2, <2>3
      <3>3. Len(obuf') <= BlockSize
        BY <1>3, <1>4, <1>5, <2>2, StreamAssumption
      <3> QED
        BY <2>3, <3>1, <3>2, <3>3 DEF WriterHolds
    <2> QED
      BY <1>2, <2>3, <2>4, <2>5, ReaderWaits DEF StreamInv, ClosedHolds, Writing, StreamTypes
  <1>6. CASE ~(m + len < BlockSize)
    <2>1. streaming' = "cut" /\ remaining' = len /\ obuf' = obuf /\ handed' = handed
      BY <1>1, <1>6, <1>m
    <2>2. StreamTypes'
      BY <1>2, <1>3, <2>1 DEF StreamInv, StreamTypes, readerVars
    <2>3. WriterHolds'
      <3>1. m + len >= BlockSize
        BY <1>3, <1>4, <1>6, StreamAssumption
      <3>2. xblocks' = xblocks /\ obuf' = BytesFrom(e, m) /\ Len(obuf') = m
        BY <1>2, <1>4, <1>m, <2>1
      <3> QED
        BY <1>4, <1>e, <2>1, <3>1, <3>2 DEF WriterHolds, Writing
    <2> QED
      BY <1>2, <2>1, <2>2, <2>3, ReaderWaits DEF StreamInv, ClosedHolds, Writing, StreamTypes
  <1> QED
    BY <1>5, <1>6

LEMMA PutBlockHolds ==
  ASSUME StreamInv, PutBlock
  PROVE  StreamInv'
  <1>e. PICK e : e = LastByte(xblocks, Len(xblocks))
    OBVIOUS
  <1>m. PICK m : m = Len(obuf)
    OBVIOUS
  <1>c. PICK c : c = BlockSize - m
    OBVIOUS
  <1>l. PICK l : l = remaining - c
    OBVIOUS
  <1>1. /\ streaming = "cut" /\ UNCHANGED <<marked, eod_pos>> /\ UNCHANGED readerVars
        /\ xblocks' = Append(xblocks, obuf \o BytesFrom(handed, c))
        /\ IF l > BlockSize
           THEN handed' = handed + c /\ remaining' = l /\ obuf' = <<>> /\ streaming' = "cut"
           ELSE /\ handed' = handed + remaining /\ remaining' = 0 /\ obuf' = BytesFrom(handed + c, l)
                /\ streaming' = "put"
    BY <1>m, <1>c, <1>l DEF PutBlock, Leftover
  <1>2. e \in Nat /\ m \in Nat /\ obuf = BytesFrom(e, m) /\ handed = e + m /\ m <= BlockSize /\ AllFull(xblocks) /\ Laid(xblocks)
    BY <1>e, <1>m, <1>1, LastByteIs DEF StreamInv, StreamTypes, WriterHolds, Writing
  <1>3. remaining \in Nat /\ m + remaining >= BlockSize /\ xblocks \in Seq(Seq(Nat))
    BY <1>1, <1>m DEF StreamInv, StreamTypes, WriterHolds
  <1>4. c \in Nat /\ l \in Nat /\ m + c = BlockSize /\ handed + c = e + BlockSize /\ handed + remaining = (e + BlockSize) + l
        /\ BlockSize \in Nat \ {0}
    BY <1>2, <1>3, <1>c, <1>l, StreamAssumption
  <1>5. obuf \o BytesFrom(handed, c) = BytesFrom(e, BlockSize)
    BY <1>2, <1>4, RunsJoin
  <1>6. /\ xblocks' \in Seq(Seq(Nat)) /\ Laid(xblocks') /\ AllFull(xblocks')
        /\ LastByte(xblocks', Len(xblocks')) = e + BlockSize
    <2>1. xblocks' = Append(xblocks, BytesFrom(e, BlockSize)) /\ BlockSize \in 1..BlockSize
      BY <1>1, <1>4, <1>5
    <2>2. Longer(xblocks, BlockSize, xblocks')
      BY <1>2, <1>3, <1>e, <2>1, OneMoreLaid
    <2> QED
      BY <1>2, <1>e, <2>2 DEF Longer
  <1>7. CASE l > BlockSize
    <2>1. handed' = e + BlockSize /\ remaining' = l /\ obuf' = <<>> /\ streaming' = "cut"
      BY <1>1, <1>4, <1>7
    <2>2. obuf' \in Seq(Nat) /\ Len(obuf') = 0
      BY <2>1, EmptySeq
    <2>3. obuf' = BytesFrom(e + BlockSize, 0)
      <3>1. e + BlockSize \in Nat
        BY <1>2, <1>4
      <3> QED
        BY <2>2, <3>1, RunNone
    <2>4. StreamTypes'
      BY <1>1, <1>2, <1>4, <1>6, <2>1, <2>2 DEF StreamInv, StreamTypes, readerVars
    <2>5. WriterHolds'
      BY <1>2, <1>4, <1>6, <1>7, <2>1, <2>2, <2>3 DEF WriterHolds, Writing
    <2> QED
      BY <1>1, <1>6, <2>1, <2>4, <2>5, ReaderWaits DEF StreamInv, ClosedHolds, Writing
  <1>8. CASE ~(l > BlockSize)
    <2>1. handed' = (e + BlockSize) + l /\ remaining' = 0 /\ obuf' = BytesFrom(e + BlockSize, l) /\ streaming' = "put"
      BY <1>1, <1>4, <1>8
    <2>2. obuf' \in Seq(Nat) /\ Len(obuf') = l
      <3>1. e + BlockSize \in Nat
        BY <1>2, <1>4
      <3> QED
        BY <1>4, <2>1, <3>1, RunIs
    <2>3. StreamTypes'
      BY <1>1, <1>2, <1>4, <1>6, <2>1, <2>2 DEF StreamInv, StreamTypes, readerVars
    <2>4. WriterHolds'
      <3>1. Len(obuf') <= BlockSize
        BY <1>4, <1>8, <2>2
      <3>2. obuf' = BytesFrom(LastByte(xblocks', Len(xblocks')), Len(obuf'))
        BY <1>6, <2>1, <2>2
      <3>3. handed' = LastByte(xblocks', Len(xblocks')) + Len(obuf')
        BY <1>6, <2>1, <2>2
      <3> QED
        BY <1>6, <2>1, <3>1, <3>2, <3>3 DEF WriterHolds, Writing
    <2> QED
      BY <1>1, <1>6, <2>1, <2>3, <2>4, ReaderWaits DEF StreamInv, ClosedHolds, Writing
  <1> QED
    BY <1>7, <1>8

LEMMA PutEndHolds ==
  ASSUME StreamInv, PutEnd
  PROVE  StreamInv'
  <1>e. PICK e : e = LastByte(xblocks, Len(xblocks))
    OBVIOUS
  <1>m. PICK m : m = Len(obuf)
    OBVIOUS
  <1>1. /\ streaming = "put" /\ handed > 0 /\ streaming' = "read" /\ obuf' = <<>> /\ marked' \in BOOLEAN
        /\ xblocks' = IF obuf = <<>> THEN xblocks ELSE Append(xblocks, obuf)
        /\ eod_pos' \in (IF marked' THEN {0, Len(xblocks') + 1} ELSE {Len(xblocks')})
        /\ handed' = handed /\ remaining' = remaining /\ UNCHANGED readerVars
    BY DEF PutEnd
  <1>2. e \in Nat /\ m \in Nat /\ obuf = BytesFrom(e, m) /\ handed = e + m /\ m <= BlockSize /\ AllFull(xblocks) /\ Laid(xblocks)
    BY <1>e, <1>m, <1>1, LastByteIs DEF StreamInv, StreamTypes, WriterHolds, Writing
  <1>3. obuf \in Seq(Nat) /\ xblocks \in Seq(Seq(Nat)) /\ BlockSize \in Nat \ {0}
    BY StreamAssumption DEF StreamInv, StreamTypes
  <1>4. /\ xblocks' \in Seq(Seq(Nat)) /\ Laid(xblocks') /\ FullBefore(xblocks') /\ Len(xblocks') \in Nat \ {0}
        /\ LastByte(xblocks', Len(xblocks')) = handed
    <2>1. CASE m = 0
      <3>1. obuf = <<>> /\ xblocks' = xblocks
        BY <1>1, <1>2, <1>3, <1>m, <2>1, RunNone
      <3>2. Len(xblocks) # 0
        BY <1>1, <1>2, <1>e, <2>1 DEF LastByte
      <3>3. FullBefore(xblocks)
        BY <1>2, <1>3 DEF AllFull, FullBefore
      <3> QED
        BY <1>2, <1>3, <1>e, <2>1, <3>1, <3>2, <3>3
    <2>2. CASE m # 0
      <3>1. obuf # <<>>
        BY <1>m, <2>2, EmptySeq
      <3>2. m \in 1..BlockSize
        BY <1>2, <1>3, <2>2
      <3>3. xblocks' = Append(xblocks, BytesFrom(e, m))
        BY <1>1, <1>2, <3>1
      <3>4. Laid(xblocks)
        BY <1>2
      <3>5. xblocks \in Seq(Seq(Nat))
        BY <1>3
      <3>6. /\ xblocks' \in Seq(Seq(Nat)) /\ Laid(xblocks') /\ Len(xblocks') = Len(xblocks) + 1
            /\ LastByte(xblocks', Len(xblocks')) = e + m
            /\ AllFull(xblocks) => FullBefore(xblocks')
        <4>1. Longer(xblocks, m, xblocks')
          BY <1>e, <3>2, <3>3, <3>4, <3>5, OneMoreLaid
        <4> QED
          BY <1>e, <4>1 DEF Longer
      <3>7. Len(xblocks') \in Nat \ {0}
        BY <3>5, <3>6
      <3> QED
        BY <1>2, <3>6, <3>7
    <2> QED
      BY <2>1, <2>2
  <1>5. obuf' \in Seq(Nat) /\ Len(obuf') = 0
    BY <1>1, EmptySeq
  <1>6. obuf' = BytesFrom(handed, 0) /\ handed \in Nat
    <2>1. handed \in Nat
      BY <1>2
    <2> QED
      BY <1>5, <2>1, RunNone
  <1>7. StreamTypes'
    BY <1>1, <1>4, <1>5 DEF StreamInv, StreamTypes, readerVars
  <1>8. WriterHolds'
    BY <1>1, <1>3, <1>4, <1>5, <1>6 DEF WriterHolds, Writing
  <1>9. ClosedHolds'
    BY <1>1, <1>4, <1>5 DEF ClosedHolds
  <1> QED
    BY <1>1, <1>4, <1>7, <1>8, <1>9, ReaderWaits DEF StreamInv, Writing

-----------------------------------------------------------------------------
(* The reader.                                                              *)

\* A step of the reader leaves the blocks as they are.
LEMMA WriterStays ==
  ASSUME StreamInv, streaming \notin Writing, streaming' \notin Writing, UNCHANGED writerVars
  PROVE  WriterHolds' /\ ClosedHolds'
  BY DEF StreamInv, WriterHolds, ClosedHolds, writerVars, Writing

\* The beginning of what comes next is what the parser expects.
LEMMA DeliversNext ==
  ASSUME delivered \in Nat, NEW bytes \in Seq(Nat), NEW next, bytes = BytesFrom(delivered, Len(bytes)), Delivers(bytes, next)
  PROVE  streaming' = next /\ delivered' = delivered + Len(bytes)
  BY DEF Delivers

LEMMA GetHolds ==
  ASSUME StreamInv, Get
  PROVE  StreamInv'
  <1>m. PICK m : m = Len(ibuf)
    OBVIOUS
  <1>d. PICK d : d = delivered
    OBVIOUS
  <1>1. PICK len \in 1..MaxPiece :
          IF len <= m
          THEN Delivers(SubSeq(ibuf, 1, len), "read") /\ ibuf' = SubSeq(ibuf, len + 1, m) /\ wanted' = wanted
          ELSE Delivers(ibuf, "fill") /\ ibuf' = <<>> /\ wanted' = len - m
    BY <1>m DEF Get
  <1>2. streaming = "read" /\ UNCHANGED writerVars /\ UNCHANGED <<current_pos, saw_small_block, saw_file_mark>>
    BY DEF Get
  <1>3. len \in Nat \ {0}
    BY StreamAssumption
  <1>4. ibuf \in Seq(Nat) /\ d \in Nat /\ m \in Nat /\ ibuf = BytesFrom(d, m) /\ wanted \in Nat
    BY <1>m, <1>d DEF StreamInv, StreamTypes, ReaderHolds
  <1>5. d + m = LastByte(xblocks, current_pos)
    BY <1>m, <1>d DEF StreamInv, ReaderHolds
  <1>6. /\ streaming' \in {"read", "fill"} /\ wanted' \in Nat /\ ibuf' \in Seq(Nat) /\ delivered' \in Nat
        /\ ibuf' = BytesFrom(delivered', Len(ibuf')) /\ delivered' + Len(ibuf') = d + m
        /\ streaming' = "fill" => Len(ibuf') = 0 /\ wanted' > 0
    <2>1. CASE len <= m
      <3>1. len \in 0..m
        BY <1>3, <1>4, <2>1
      <3>2. /\ SubSeq(ibuf, 1, len) = BytesFrom(d, len) /\ SubSeq(ibuf, len + 1, m) = BytesFrom(d + len, m - len)
            /\ SubSeq(ibuf, 1, len) \in Seq(Nat) /\ SubSeq(ibuf, len + 1, m) \in Seq(Nat)
            /\ Len(SubSeq(ibuf, 1, len)) = len /\ Len(SubSeq(ibuf, len + 1, m)) = m - len
        <4>1. Halves(ibuf, d, m, len)
          BY <1>4, <3>1, RunsSplit
        <4> QED
          BY <4>1 DEF Halves
      <3>3. streaming' = "read" /\ delivered' = d + len
        BY <1>1, <1>4, <1>d, <2>1, <3>2, DeliversNext
      <3>4. ibuf' = BytesFrom(d + len, m - len) /\ ibuf' \in Seq(Nat) /\ Len(ibuf') = m - len /\ wanted' = wanted
        BY <1>1, <2>1, <3>2
      <3>5. d + len \in Nat /\ (d + len) + (m - len) = d + m
        BY <1>3, <1>4
      <3> QED
        BY <1>4, <3>3, <3>4, <3>5
    <2>2. CASE ~(len <= m)
      <3>1. streaming' = "fill" /\ delivered' = d + m /\ wanted' = len - m /\ ibuf' = <<>>
        BY <1>1, <1>4, <1>d, <1>m, <2>2, DeliversNext
      <3>2. ibuf' \in Seq(Nat) /\ Len(ibuf') = 0
        BY <3>1, EmptySeq
      <3>3. d + m \in Nat /\ len - m \in Nat /\ len - m > 0
        BY <1>3, <1>4, <2>2
      <3>4. ibuf' = BytesFrom(d + m, 0)
        BY <3>2, <3>3, RunNone
      <3> QED
        BY <3>1, <3>2, <3>3, <3>4
    <2> QED
      BY <2>1, <2>2
  <1>7. WriterHolds' /\ ClosedHolds'
    BY <1>2, <1>6, WriterStays DEF Writing
  <1>8. StreamTypes'
    BY <1>2, <1>6 DEF StreamInv, StreamTypes, writerVars
  <1>9. ReaderHolds'
    BY <1>2, <1>5, <1>6 DEF StreamInv, ReaderHolds, writerVars, Writing
  <1> QED
    BY <1>7, <1>8, <1>9 DEF StreamInv

LEMMA GetEndHolds ==
  ASSUME StreamInv, GetEnd
  PROVE  StreamInv'
  <1>1. /\ streaming = "fill" /\ streaming' = "done" /\ (AtEod \/ saw_small_block)
        /\ UNCHANGED writerVars /\ UNCHANGED readerVars
    BY DEF GetEnd
  <1>2. WriterHolds' /\ ClosedHolds'
    BY <1>1, WriterStays DEF Writing
  <1>3. StreamTypes'
    BY <1>1 DEF StreamInv, StreamTypes, writerVars, readerVars
  <1>4. ReaderHolds'
    BY <1>1 DEF StreamInv, ReaderHolds, AtEod, writerVars, readerVars, Writing
  <1> QED
    BY <1>2, <1>3, <1>4 DEF StreamInv

\* Past the last block there is a file mark, or the reader knew.
LEMMA GetMarkHolds ==
  ASSUME StreamInv, GetMark
  PROVE  StreamInv'
  <1>1. /\ streaming = "fill" /\ ~AtEod /\ current_pos >= Len(xblocks)
        /\ streaming' = IF marked THEN "fill" ELSE "failed"
        /\ saw_small_block' = TRUE /\ saw_file_mark' = marked
        /\ UNCHANGED writerVars /\ UNCHANGED <<current_pos, ibuf, wanted, delivered>>
    BY DEF GetMark
  <1>2. current_pos = Len(xblocks) /\ Len(xblocks) > 0
    BY <1>1 DEF StreamInv, StreamTypes, ClosedHolds, ReaderHolds, Writing
  <1>3. marked
    BY <1>1, <1>2 DEF StreamInv, ClosedHolds, AtEod, Writing
  <1>4. streaming' = "fill"
    BY <1>1, <1>3
  <1>5. WriterHolds' /\ ClosedHolds'
    BY <1>1, <1>4, WriterStays DEF Writing
  <1>6. StreamTypes'
    BY <1>1, <1>4 DEF StreamInv, StreamTypes, writerVars
  <1>7. ReaderHolds'
    BY <1>1, <1>2, <1>4 DEF StreamInv, ReaderHolds, writerVars, Writing
  <1> QED
    BY <1>5, <1>6, <1>7 DEF StreamInv

LEMMA GetBlockHolds ==
  ASSUME StreamInv, GetBlock
  PROVE  StreamInv'
  <1>b. PICK b : b = xblocks[current_pos + 1]
    OBVIOUS
  <1>len. PICK len : len = Len(b)
    OBVIOUS
  <1>d. PICK d : d = delivered
    OBVIOUS
  <1>u. PICK u : u = IF wanted < len THEN wanted ELSE len
    OBVIOUS
  <1>s. PICK short : short = (len < BlockSize)
    OBVIOUS
  <1>l. PICK looks : looks = (short /\ (eod_pos = 0 \/ current_pos + 1 < eod_pos))
    OBVIOUS
  <1>a. PICK last : last = (current_pos + 1 = Len(xblocks))
    OBVIOUS
  <1>1. /\ streaming = "fill" /\ ~AtEod /\ ~saw_small_block /\ current_pos < Len(xblocks) /\ UNCHANGED writerVars
        /\ Delivers(SubSeq(b, 1, u), IF looks /\ last /\ ~marked THEN "failed" ELSE IF u = wanted THEN "read" ELSE "fill")
        /\ ibuf' = SubSeq(b, u + 1, len) /\ wanted' = wanted - u
        /\ current_pos' = IF looks /\ ~last THEN current_pos + 2 ELSE current_pos + 1
        /\ saw_small_block' = short
        /\ saw_file_mark' = (saw_file_mark \/ (looks /\ last /\ marked))
    BY <1>b, <1>len, <1>u, <1>s, <1>l, <1>a DEF GetBlock
  <1>2. /\ current_pos \in Nat /\ Len(xblocks) \in Nat /\ wanted \in Nat \ {0} /\ d \in Nat /\ eod_pos \in Nat
        /\ Len(ibuf) = 0 /\ d = LastByte(xblocks, current_pos) /\ ~saw_file_mark /\ xblocks \in Seq(Seq(Nat)) /\ Laid(xblocks)
    BY <1>1, <1>d DEF StreamInv, StreamTypes, WriterHolds, ReaderHolds
  <1>3. current_pos + 1 \in 1..Len(xblocks)
    BY <1>1, <1>2
  <1>4. b \in Seq(Nat) /\ len \in 1..BlockSize /\ len \in Nat \ {0} /\ b = BytesFrom(d, len)
    <2>1. (current_pos + 1) - 1 = current_pos
      BY <1>2
    <2>2. b = BytesFrom(LastByte(xblocks, (current_pos + 1) - 1), Len(b)) /\ Len(b) \in 1..BlockSize
      BY <1>2, <1>3, <1>b DEF Laid
    <2>3. b \in Seq(Nat)
      BY <1>2, <1>3, <1>b
    <2> QED
      BY <1>2, <1>len, <2>1, <2>2, <2>3, StreamAssumption
  <1>5. LastByte(xblocks, current_pos + 1) = d + len
    <2>1. current_pos + 1 \in 0..Len(xblocks) /\ current_pos + 1 > 0 /\ (current_pos + 1) - 1 = current_pos
      BY <1>2, <1>3
    <2>2. LastByte(xblocks, current_pos + 1) = LastByte(xblocks, (current_pos + 1) - 1) + Len(xblocks[current_pos + 1])
      BY <1>2, <2>1, LastByteIs
    <2> QED
      BY <1>2, <1>b, <1>len, <2>1, <2>2
  <1>6. u \in 0..len /\ u \in Nat /\ wanted - u \in Nat /\ (u = wanted \/ u = len) /\ (u # wanted => wanted - u > 0)
    BY <1>2, <1>4, <1>u
  <1>7. /\ SubSeq(b, 1, u) = BytesFrom(d, u) /\ SubSeq(b, u + 1, len) = BytesFrom(d + u, len - u)
        /\ SubSeq(b, 1, u) \in Seq(Nat) /\ SubSeq(b, u + 1, len) \in Seq(Nat)
        /\ Len(SubSeq(b, 1, u)) = u /\ Len(SubSeq(b, u + 1, len)) = len - u
    <2>1. Halves(b, d, len, u)
      BY <1>2, <1>4, <1>6, RunsSplit
    <2> QED
      BY <2>1 DEF Halves
  \* A short block is the last one, and a mark follows it or the reader knows better.
  <1>8. short => last
    BY <1>1, <1>3, <1>b, <1>len, <1>s, <1>a DEF StreamInv, ClosedHolds, FullBefore, Writing
  <1>9. short => (looks <=> marked)
    <2>1. eod_pos \in IF marked THEN {0, Len(xblocks) + 1} ELSE {Len(xblocks)}
      BY <1>1 DEF StreamInv, ClosedHolds, Writing
    <2>2. ASSUME short PROVE looks <=> marked
      <3>1. current_pos + 1 = Len(xblocks)
        BY <1>8, <1>a, <2>2
      <3>2. looks <=> eod_pos = 0 \/ current_pos + 1 < eod_pos
        BY <1>l, <2>2
      <3> QED
        BY <1>2, <2>1, <3>1, <3>2
    <2> QED
      BY <2>2
  <1>10. /\ current_pos' = current_pos + 1 /\ saw_small_block' = short
         /\ saw_file_mark' = (short /\ marked) /\ ~(looks /\ last /\ ~marked)
    <2>1. looks => short
      BY <1>l
    <2>2. looks => last /\ marked
      BY <1>8, <1>9, <2>1
    <2>3. short /\ marked => looks /\ last
      BY <1>8, <1>9
    <2> QED
      BY <1>1, <1>2, <2>1, <2>2, <2>3
  <1>11. streaming' = (IF u = wanted THEN "read" ELSE "fill") /\ delivered' = d + u
    <2>1. Delivers(SubSeq(b, 1, u), IF u = wanted THEN "read" ELSE "fill")
      BY <1>1, <1>10
    <2> QED
      BY <1>2, <1>7, <1>d, <2>1, DeliversNext
  <1>12. WriterHolds' /\ ClosedHolds'
    BY <1>1, <1>11, WriterStays DEF Writing
  <1>13. StreamTypes'
    <2>1. short \in BOOLEAN
      BY <1>s
    <2>2. delivered' \in Nat /\ wanted' \in Nat /\ current_pos' \in Nat /\ ibuf' \in Seq(Nat)
      BY <1>1, <1>2, <1>6, <1>7, <1>10, <1>11
    <2> QED
      BY <1>1, <1>10, <1>11, <2>1, <2>2 DEF StreamInv, StreamTypes, writerVars
  <1>14. ReaderHolds'
    <2>1. ibuf' = BytesFrom(delivered', Len(ibuf')) /\ delivered' + Len(ibuf') = d + len
      <3>1. ibuf' = BytesFrom(d + u, len - u) /\ Len(ibuf') = len - u
        BY <1>1, <1>7
      <3>2. (d + u) + (len - u) = d + len
        BY <1>2, <1>4, <1>6
      <3> QED
        BY <1>11, <3>1, <3>2
    <2>2. LastByte(xblocks', current_pos') = d + len /\ xblocks' = xblocks /\ marked' = marked /\ current_pos' <= Len(xblocks)
      BY <1>1, <1>2, <1>3, <1>5, <1>10 DEF writerVars
    <2>3. saw_small_block' => current_pos' = Len(xblocks) /\ saw_file_mark' = marked
      <3>1. ASSUME short PROVE current_pos' = Len(xblocks) /\ saw_file_mark' = marked
        <4>1. last
          BY <1>8, <3>1
        <4>2. marked \in BOOLEAN
          BY DEF StreamInv, StreamTypes
        <4> QED
          BY <1>10, <1>a, <3>1, <4>1, <4>2
      <3> QED
        BY <1>10, <3>1
    <2>4. streaming' = "fill" => Len(ibuf') = 0 /\ wanted' > 0
      BY <1>1, <1>4, <1>6, <1>7, <1>11
    <2>5. streaming' \in {"read", "fill"}
      BY <1>11
    <2> QED
      BY <1>10, <2>1, <2>2, <2>3, <2>4, <2>5 DEF ReaderHolds, Writing
  <1> QED
    BY <1>12, <1>13, <1>14 DEF StreamInv

-----------------------------------------------------------------------------
LEMMA StreamStep == StreamInv /\ [StreamNext]_streamVars => StreamInv'
  <1>1. SUFFICES ASSUME StreamInv, [StreamNext]_streamVars PROVE StreamInv'
    OBVIOUS
  <1>2. CASE UNCHANGED streamVars
    BY <1>1, <1>2 DEF streamVars, writerVars, readerVars, StreamInv, StreamTypes, WriterHolds, ClosedHolds, ReaderHolds, AtEod
  <1>3. CASE StreamNext
    BY <1>1, <1>3, PutPieceHolds, PutBlockHolds, PutEndHolds, GetHolds, GetEndHolds, GetMarkHolds, GetBlockHolds DEF StreamNext
  <1> QED
    BY <1>1, <1>2, <1>3

LEMMA StreamInvExact == StreamInv => StreamExact
  <1>1. SUFFICES ASSUME StreamInv PROVE StreamExact
    OBVIOUS
  <1>2. EveryByteOnTape
    <2>1. \A k \in 1..Len(xblocks) : Len(xblocks[k]) < BlockSize => k = Len(xblocks) /\ streaming \notin {"put", "cut"}
      BY <1>1, StreamAssumption DEF StreamInv, WriterHolds, ClosedHolds, Writing, AllFull, FullBefore
    <2> QED
      BY <1>1, <2>1 DEF StreamInv, WriterHolds, Laid, EveryByteOnTape
  <1>3. ReadsToTheMark
    <2>1. streaming # "failed"
      BY <1>1 DEF StreamInv, StreamTypes
    <2>2. ASSUME streaming = "done" PROVE current_pos = Len(xblocks) /\ saw_file_mark = marked
      BY <1>1, <2>2 DEF StreamInv, StreamTypes, ClosedHolds, ReaderHolds, AtEod, Writing
    <2>3. ASSUME streaming = "done" PROVE delivered = handed
      BY <1>1, <2>2, <2>3 DEF StreamInv, StreamTypes, WriterHolds, ClosedHolds, ReaderHolds, Writing
    <2> QED
      BY <2>1, <2>2, <2>3 DEF ReadsToTheMark
  <1> QED
    BY <1>2, <1>3 DEF StreamExact

\* For any block size and pieces of any length: the blocks of an index on tape hold
\* its bytes in order and each once, all full but the last, and the XML parser gets
\* just these, ends at the file mark and knows of it. (xml_writer.c:106-160,
\* xml_reader.c:502-598)
THEOREM StreamIsExact == StreamSpec => []StreamExact
  <1> QED
    BY StreamStarts, StreamStep, StreamInvExact, PTL DEF StreamSpec
=============================================================================
