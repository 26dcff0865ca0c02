----------------------------- MODULE VolumeXattr -----------------------------
(***************************************************************************)
(* The extended attributes of a mounted volume: what is stored with a       *)
(* dentry, what is computed, and the two virtual attributes that are kept   *)
(* in three places at once, the volume lock state and the volume name: the  *)
(* index (in memory and on tape), the attribute memory of the cartridge     *)
(* (MAM) and, for the lock state, the bit field vol->lockbits.              *)
(*                                                                          *)
(* A set of ltfs.volumeLockState runs in three steps with other threads in  *)
(* between: the gate of ltfs_fsops_setxattr, the xattr_get that saves the   *)
(* old value (which refreshes the bit field from the MAM) and xattr_set.    *)
(* Each of the last two is one step, because it holds lock_bitfield and the *)
(* device lock throughout; so is a write error, recorded under the device   *)
(* lock.  tape_device_lock fails only while the device is fenced, and no    *)
(* back end of the repository returns a code that fences it.                *)
(***************************************************************************)
EXTENDS Naturals, FiniteSets, TLC

CONSTANTS Users,      \* threads that call setxattr
          Texts,      \* values of an attribute
          NoText,     \* an attribute that is not there
          XattrScenarios   \* sets of the operations that take part in a behaviour

VARIABLES scenario,   \* the operations of this behaviour
          mam,        \* [lock, label]: the cartridge memory
          tape,       \* [lock, name, comment, stored]: the last index written to tape
          idx,        \* the index in memory; stored is the xattrlist of the root directory
          dirty,      \* the index in memory differs from the one on tape
          bits,       \* vol->lockbits.bitfield, a set of the set_bits names
          writeError, \* dev->write_error
          mounted,
          writes,     \* parity of the data writes accepted
          call,       \* what each user is doing
          behind      \* the copy of the lock state a failure has left: "mam", "index", "none"

xattrVars == <<scenario, mam, tape, idx, dirty, bits, writeError, mounted, writes, call, behind>>
medium == <<mam, tape>>

WriteErrors == {"PWE", "DPPWE", "IPPWE", "DP_IP_PWE"}
MamStates == {"UNLOCKED", "LOCKED", "PERMLOCKED"} \cup WriteErrors
Advisory == {"none", "unlocked", "locked", "permlocked"}
Keys == {"key"}

(* The index string and the MAM value that stand for a requested state.     *)
LockString == [UNLOCKED |-> "unlocked", LOCKED |-> "locked", PERM_LOCKED |-> "permlocked"]
MamOf == [UNLOCKED |-> "UNLOCKED", LOCKED |-> "LOCKED", PERM_LOCKED |-> "PERMLOCKED"]
BitOf(text) == CHOOSE b \in DOMAIN LockString : LockString[b] = text

-----------------------------------------------------------------------------
(* The bit field.                                                           *)
Updated(field, b) ==
  field \cup (CASE b = "UNLOCKED" -> {} [] b \in {"PWE", "DPPWE", "IPPWE"} -> {b, "LOCKED"} [] OTHER -> {b})

BitFound(field, b) ==
  CASE b = "UNLOCKED" -> "LOCKED" \notin field
    [] b \in {"PWE", "DPPWE", "IPPWE"} -> {b, "LOCKED"} \subseteq field
    [] OTHER -> b \in field

\* A mutation: a write error of one partition does not keep the user from changing the state.
MayBecomeAny(field, b) == ~BitFound(field, "PERM_LOCKED") /\ ~BitFound(field, "PWE")

(* ltfs_get_bitfield_info: may a user move the volume to this state?        *)
MayBecome(field, b) ==
  LET Obstacles == {"PHY_WRITE_PRTCT", "PWE", "DPPWE", "IPPWE", "PRMWP", "PERSWP"}
                     \cup (IF b = "PERM_LOCKED" THEN {} ELSE {"PERM_LOCKED"})
  IN  /\ \A o \in Obstacles : ~BitFound(field, o)
      /\ \E s \in {"LOCKED", "UNLOCKED", "PERM_LOCKED"} \ Obstacles : BitFound(field, s)

\* A mutation: a permanent lock is added to the user's lock instead of replacing it.
WithBitAdded(field, b) == IF b = "UNLOCKED" THEN field \ {"LOCKED"} ELSE Updated(field, b)

WithBit(field, b) ==
  CASE b = "UNLOCKED" -> field \ {"LOCKED"}
    [] b = "PERM_LOCKED" -> (field \ {"LOCKED"}) \cup {"PERM_LOCKED"}
    [] OTHER -> Updated(field, b)

(* The bits a getxattr of ltfs.volumeLockState adds after reading the MAM.  *)
Refreshed(field, lock) ==
  CASE lock = "DP_IP_PWE" -> WithBit(WithBit(field, "IPPWE"), "DPPWE")
    [] lock \in {"PWE", "DPPWE", "IPPWE"} -> WithBit(field, lock)
    [] OTHER -> field

(* ltfs_get_tape_readonly, first part: the advisory states refuse writes.   *)
AdvisoryReadonly(field) ==
  \E b \in {"PWE", "DPPWE", "IPPWE", "LOCKED", "PERM_LOCKED"} : BitFound(field, b)

-----------------------------------------------------------------------------
(* Which names are computed, and which of those can be set.                 *)
EverywhereVirtual ==
  {"ltfs.createTime", "ltfs.modifyTime", "ltfs.accessTime", "ltfs.changeTime", "ltfs.backupTime",
   "ltfs.fileUID", "ltfs.volumeUUID", "ltfs.volumeName", "ltfs.driveCaptureDump", "ltfs.softwareVersion",
   "ltfs.softwareFormatSpec", "ltfs.softwareVendor", "ltfs.softwareProduct", "ltfs.mamApplicationVendor",
   "ltfs.mamApplicationName", "ltfs.mamApplicationVersion", "ltfs.mamApplicationFormatVersion",
   "ltfs.mamVolumeName", "ltfs.mamBarcode", "ltfs.volumeLockState"}

RootVirtual ==
  {"ltfs.commitMessage", "ltfs.indexVersion", "ltfs.labelVersion", "ltfs.sync", "ltfs.indexGeneration",
   "ltfs.indexTime", "ltfs.policyExists", "ltfs.policyAllowUpdate", "ltfs.volumeFormatTime",
   "ltfs.volumeBlocksize", "ltfs.volumeCompression", "ltfs.indexLocation", "ltfs.indexPrevious",
   "ltfs.indexCreator", "ltfs.labelCreator", "ltfs.partitionMap", "ltfs.volumeSerial", "ltfs.media*",
   "ltfs.mediaStorageAlert", "ltfs.driveEncryption*", "ltfs.vendor.*"}

IsVirtual(isRoot, isFile, hasData, hasPolicy, name) ==
  \/ name \in EverywhereVirtual
  \/ isFile /\ hasData /\ name \in {"ltfs.partition", "ltfs.startblock"}
  \/ isRoot /\ (name \in RootVirtual \/ (hasPolicy /\ name = "ltfs.policyMaxFileSize"))

(* The virtual names _xattr_set_virtual stores to; the others are refused   *)
(* as read-only, on the root as on any other dentry.                        *)
SettableAnywhere ==
  {"ltfs.createTime", "ltfs.modifyTime", "ltfs.changeTime", "ltfs.accessTime", "ltfs.backupTime",
   "ltfs.driveCaptureDump", "ltfs.mediaStorageAlert", "ltfs.vendor.*"}
SettableOnRoot ==
  {"ltfs.sync", "ltfs.commitMessage", "ltfs.volumeName", "ltfs.mamVolumeName", "ltfs.mamBarcode",
   "ltfs.volumeLockState"}
SetVirtual(isRoot, name) == name \in SettableAnywhere \/ (isRoot /\ name \in SettableOnRoot)
RemoveVirtual(isRoot, name) == isRoot /\ name \in {"ltfs.commitMessage", "ltfs.volumeName"}
OfRoot(name) == IsVirtual(TRUE, FALSE, FALSE, FALSE, name) /\ SetVirtual(TRUE, name)

(* Names of the reserved prefix may be stored in these three cases only.    *)
Storable(name) == name \in Keys \cup {"ltfs.spannedFileOffset", "ltfs.permissions.*", "ltfs.hash.*"}

-----------------------------------------------------------------------------
NoCall == [op |-> "idle"]
Does(op) == op \in scenario

XattrInit ==
  /\ scenario \in XattrScenarios
  /\ mam = [lock |-> "UNLOCKED", label |-> NoText]
  /\ tape = [lock |-> "none", name |-> NoText, comment |-> NoText, stored |-> [k \in Keys |-> NoText]]
  /\ idx = tape
  /\ dirty = FALSE /\ writeError = FALSE /\ mounted = FALSE /\ behind = "none"
  /\ bits = {} /\ writes = 0
  /\ call = [u \in Users |-> NoCall]

(* ltfs_update_volumelockstate at mount: a write error recorded in the MAM  *)
(* wins; otherwise the string of the index does, and is copied to the MAM.  *)
FromIndex(lock) == mam.lock \notin WriteErrors /\ lock # "none"
AtMount(protected) ==
  LET base == IF protected THEN {"PHY_WRITE_PRTCT"} ELSE {}
  IN  CASE mam.lock = "DP_IP_PWE" -> Updated(Updated(base, "DPPWE"), "IPPWE")
        [] mam.lock \in WriteErrors \ {"DP_IP_PWE"} -> Updated(base, mam.lock)
        [] FromIndex(tape.lock) -> Updated(base, BitOf(tape.lock))
        [] OTHER -> base

\* That the copy fails is ignored; on a protected cartridge it does.
Mount ==
  /\ ~mounted
  /\ \E protected \in BOOLEAN :
       /\ bits' = AtMount(protected)
       /\ \/ /\ mam' = IF FromIndex(tape.lock) THEN [mam EXCEPT !.lock = MamOf[BitOf(tape.lock)]] ELSE mam
             /\ behind' = "none"
          \/ /\ FromIndex(tape.lock) /\ (protected \/ Does("mamfail"))
             /\ behind' = "mam" /\ UNCHANGED mam
  /\ mounted' = TRUE
  /\ idx' = tape
  /\ UNCHANGED <<scenario, tape, dirty, writeError, writes, call>>

(* tape_read_only on either partition.                                    *)
Writable == "PHY_WRITE_PRTCT" \notin bits /\ ~writeError

(* A data write is accepted unless the volume is locked or the device is    *)
(* read-only (second part of ltfs_get_tape_readonly: tape_read_only).       *)
WriteBlock ==
  /\ mounted /\ Does("write")
  /\ ~AdvisoryReadonly(bits) /\ Writable
  /\ writes' = 1 - writes /\ dirty' = TRUE
  /\ UNCHANGED <<scenario, medium, idx, bits, writeError, mounted, call, behind>>

(* A write to a partition fails for good: tape_write records it in the MAM  *)
(* unless the user has locked the volume, and ignores it when that fails.   *)
RecordError(part) ==
  IF mam.lock \in {"LOCKED", "PERMLOCKED"} THEN mam.lock
  ELSE CASE part = "ip" -> IF mam.lock = "DPPWE" THEN "DP_IP_PWE" ELSE "IPPWE"
         [] part = "dp" -> IF mam.lock = "IPPWE" THEN "DP_IP_PWE" ELSE "DPPWE"

WriteFails ==
  /\ mounted /\ dirty /\ ~writeError /\ Does("error")
  /\ \/ \E part \in {"ip", "dp"} : mam' = [mam EXCEPT !.lock = RecordError(part)]
     \/ Does("mamfail") /\ UNCHANGED mam
  /\ writeError' = TRUE
  /\ UNCHANGED <<scenario, tape, idx, dirty, bits, mounted, writes, call, behind>>

(* The index is written: by a sync, or at unmount, which leaves it out when *)
(* the MAM reports a write error.                                           *)
IndexToTape == tape' = idx

SyncIndex ==
  /\ mounted /\ dirty /\ ~writeError
  /\ IndexToTape /\ dirty' = FALSE
  /\ UNCHANGED <<scenario, mam, idx, bits, writeError, mounted, writes, call, behind>>

Unmount ==
  /\ mounted /\ \A u \in Users : call[u] = NoCall
  /\ IF dirty /\ mam.lock \notin WriteErrors /\ ~writeError THEN IndexToTape ELSE UNCHANGED tape
  /\ mounted' = FALSE /\ dirty' = FALSE /\ writeError' = FALSE /\ bits' = {}
  /\ UNCHANGED <<scenario, mam, idx, writes, call, behind>>

(* The process dies: what was only in memory is gone.                       *)
Crash ==
  /\ mounted /\ Does("crash")
  /\ mounted' = FALSE /\ dirty' = FALSE /\ writeError' = FALSE /\ bits' = {}
  /\ call' = [u \in Users |-> NoCall]
  /\ UNCHANGED <<scenario, medium, idx, writes, behind>>

-----------------------------------------------------------------------------
(* setxattr ltfs.volumeLockState.                                           *)
LockGate(u) ==
  /\ OfRoot("ltfs.volumeLockState")
  /\ mounted /\ call[u] = NoCall /\ Does("lock") /\ Writable
  /\ \E b \in DOMAIN LockString : call' = [call EXCEPT ![u] = [op |-> "refresh", to |-> b]]
  /\ UNCHANGED <<scenario, medium, idx, dirty, bits, writeError, mounted, writes, behind>>

\* A read that fails leaves the state read before, of which the bits are set.
LockRefresh(u) ==
  /\ call[u].op = "refresh"
  /\ \/ bits' = Refreshed(bits, mam.lock)
     \/ Does("mamfail") /\ UNCHANGED bits
  /\ call' = [call EXCEPT ![u].op = "set"]
  /\ UNCHANGED <<scenario, medium, idx, dirty, writeError, mounted, writes, behind>>

(* The MAM is updated, and read back; then come the index and the bit       *)
(* field, in both of which a failed update changes nothing. When only the   *)
(* reading fails the bit field changes and the index does not.              *)
LockSet(u) ==
  /\ call[u].op = "set"
  /\ call' = [call EXCEPT ![u] = NoCall]
  /\ LET bit == call[u].to IN
     \/ (~MayBecome(bits, bit) \/ Does("mamfail")) /\ UNCHANGED <<mam, idx, dirty, bits, behind>>
     \/ /\ MayBecome(bits, bit)
        /\ mam' = [mam EXCEPT !.lock = MamOf[bit]] /\ bits' = WithBit(bits, bit)
        /\ \/ /\ idx' = [idx EXCEPT !.lock = LockString[bit]]
              /\ dirty' = TRUE /\ behind' = "none"
           \/ Does("mamfail") /\ behind' = "index" /\ UNCHANGED <<idx, dirty>>
  /\ UNCHANGED <<scenario, tape, writeError, mounted, writes>>

(* setxattr ltfs.volumeName and ltfs.mamVolumeName: the index first, under  *)
(* dirty_lock, then the MAM, under the device lock.                         *)
NameIndex(u) ==
  /\ OfRoot("ltfs.volumeName")
  /\ mounted /\ call[u] = NoCall /\ Does("name") /\ Writable /\ ~AdvisoryReadonly(bits)
  /\ \E t \in Texts \cup {NoText} :
       /\ idx' = [idx EXCEPT !.name = t]
       /\ call' = [call EXCEPT ![u] = [op |-> "mam", to |-> t]]
  /\ dirty' = TRUE
  /\ UNCHANGED <<scenario, medium, bits, writeError, mounted, writes, behind>>

NameMam(u) ==
  /\ call[u].op = "mam"
  /\ call' = [call EXCEPT ![u] = NoCall]
  /\ \/ mam' = [mam EXCEPT !.label = call[u].to]
     \/ Does("mamfail") /\ UNCHANGED mam
  /\ UNCHANGED <<scenario, tape, idx, dirty, bits, writeError, mounted, writes, behind>>

(* removexattr ltfs.volumeName clears the index; the MAM update it makes    *)
(* names no attribute and leaves the label.                                 *)
\* A mutation: clearing the volume name leaves the index clean.
NameRemoveClean(u) ==
  /\ mounted /\ call[u] = NoCall /\ Does("remove") /\ Writable /\ ~AdvisoryReadonly(bits)
  /\ idx.name # NoText
  /\ idx' = [idx EXCEPT !.name = NoText]
  /\ UNCHANGED <<scenario, medium, dirty, bits, writeError, mounted, writes, call, behind>>

NameRemove(u) ==
  /\ RemoveVirtual(TRUE, "ltfs.volumeName")
  /\ mounted /\ call[u] = NoCall /\ Does("remove") /\ Writable /\ ~AdvisoryReadonly(bits)
  /\ idx.name # NoText
  /\ idx' = [idx EXCEPT !.name = NoText] /\ dirty' = TRUE
  /\ UNCHANGED <<scenario, medium, bits, writeError, mounted, writes, call, behind>>

(* The other settable names: the comment of the next index, and what is     *)
(* stored with the dentry, with XATTR_CREATE, XATTR_REPLACE or neither.     *)
SetComment(u) ==
  /\ OfRoot("ltfs.commitMessage")
  /\ mounted /\ call[u] = NoCall /\ Does("comment") /\ Writable /\ ~AdvisoryReadonly(bits)
  /\ \E t \in Texts \cup {NoText} : idx' = [idx EXCEPT !.comment = t]
  /\ dirty' = TRUE
  /\ UNCHANGED <<scenario, medium, bits, writeError, mounted, writes, call, behind>>

SetStored(u) ==
  /\ mounted /\ call[u] = NoCall /\ Does("stored") /\ Writable /\ ~AdvisoryReadonly(bits)
  /\ \E k \in Keys, t \in Texts, flag \in {"create", "replace", "any"} :
       /\ ~IsVirtual(TRUE, FALSE, FALSE, FALSE, k) /\ Storable(k)
       /\ ~(flag = "create" /\ idx.stored[k] # NoText) /\ ~(flag = "replace" /\ idx.stored[k] = NoText)
       /\ idx' = [idx EXCEPT !.stored[k] = t]
  /\ dirty' = TRUE
  /\ UNCHANGED <<scenario, medium, bits, writeError, mounted, writes, call, behind>>

(* xattr_remove marks the index dirty whether or not it removed anything.   *)
RemoveStored(u) ==
  /\ mounted /\ call[u] = NoCall /\ Does("stored") /\ Writable /\ ~AdvisoryReadonly(bits)
  /\ \E k \in Keys : idx' = [idx EXCEPT !.stored[k] = NoText]
  /\ dirty' = TRUE
  /\ UNCHANGED <<scenario, medium, bits, writeError, mounted, writes, call, behind>>

UserStep(u) ==
  \/ LockGate(u) \/ LockRefresh(u) \/ LockSet(u) \/ NameIndex(u) \/ NameMam(u) \/ NameRemove(u)
  \/ SetComment(u) \/ SetStored(u) \/ RemoveStored(u)

XattrNext == Mount \/ WriteBlock \/ WriteFails \/ SyncIndex \/ Unmount \/ Crash \/ \E u \in Users : UserStep(u)

XattrSpec == XattrInit /\ [][XattrNext]_xattrVars

-----------------------------------------------------------------------------
XattrTypeOK ==
  /\ mam.lock \in MamStates /\ mam.label \in Texts \cup {NoText}
  /\ tape.lock \in Advisory /\ idx.lock \in Advisory
  /\ bits \subseteq {"LOCKED", "PERM_LOCKED", "PHY_WRITE_PRTCT", "PWE", "DPPWE", "IPPWE"}

(* The three copies of the lock state agree: the bit field, which decides   *)
(* what is written, follows the MAM and the string of the index, unless the *)
(* MAM holds a write error; of a failed change only the copy that it did    *)
(* not reach is behind: the MAM after a mount, the index after a set.       *)
(* (xattr.c:1299-1388, ltfs.c:4468 ltfs_update_volumelockstate)             *)
UserBits == bits \cap {"LOCKED", "PERM_LOCKED"}
UserBitsOf(b) == IF b = "UNLOCKED" THEN {} ELSE {b}
LockCopiesAgree ==
  (mounted /\ "PHY_WRITE_PRTCT" \notin bits /\ mam.lock \notin WriteErrors) =>
    /\ (behind = "index" \/ (behind = "none" /\ idx.lock # "none")) =>
         \E b \in DOMAIN MamOf : mam.lock = MamOf[b] /\ UserBits = UserBitsOf(b)
    /\ (behind # "index" /\ idx.lock # "none") => UserBits = UserBitsOf(BitOf(idx.lock))

(* The lock state is a state, and its copies agree (xattr.c:1290-1380).     *)
LocksAgree == XattrTypeOK /\ LockCopiesAgree

(* A volume that is not dirty has its whole index on tape: no setter of an  *)
(* attribute kept in the index forgets the dirty mark, or sync and unmount  *)
(* would drop the change (xattr.c:1116 _xattr_set_virtual, 442, 170).       *)
CleanIsOnTape == (mounted /\ ~dirty) => idx = tape

(* A write error recorded on the cartridge before the mount is never lifted *)
(* and never lets a write through, however users set the lock state, and    *)
(* across crashes and remounts (ltfs.c:4246 ltfs_get_bitfield_info).        *)
WriteErrorSticks ==
  [][(mounted /\ \E b \in {"PWE", "DPPWE", "IPPWE"} : b \in bits) =>
       (mam.lock \in WriteErrors => mam'.lock \in WriteErrors) /\ writes' = writes]_xattrVars

(* Once an index that says permlocked is on tape no later mount accepts a   *)
(* data write, and no index without the lock replaces it                    *)
(* (ltfs.c:4296 and 1988, ltfs_error.h:258).                                *)
PermanentOnceWritten ==
  [][tape.lock = "permlocked" => tape'.lock = "permlocked" /\ writes' = writes]_xattrVars

(* A permanent lock the user was told is set stays: the cartridge memory    *)
(* never goes back from PERMLOCKED to a state that accepts writes           *)
(* (ltfs_error.h:258 "Volume is permanently locked").                       *)
PermanentAtOnce == [][mam.lock = "PERMLOCKED" => mam'.lock = "PERMLOCKED"]_xattrVars

(* What has gone wrong for good stays wrong: a write error and a permanent  *)
(* lock outlive every unmount and crash (ltfs.c:4296, 4509-4541).           *)
Irrevocable == WriteErrorSticks /\ PermanentOnceWritten
=============================================================================
