------------------------------ MODULE Cartridge ------------------------------
(***************************************************************************)
(* The programs that own a whole cartridge: mkltfs writes it, unltfs (or    *)
(* mkltfs --wipe) takes the format away, ltfsck checks it.  Each run parses *)
(* its options, passes its gates and then works step by step; a run may be  *)
(* interrupted, a command of the drive may fail and the machine may stop    *)
(* between two steps.  What is on the tape decides whether the cartridge    *)
(* can be mounted and what the next run of a program will do to it.         *)
(*                                                                          *)
(* A partition is the sequence of its records.  An index is one record: how *)
(* it is written safely is the subject of IndexCommit.  A label keeps what  *)
(* label_compare looks at; a format has a number, which stands for the      *)
(* volume uuid, the creation time and the fields that are copied with them. *)
(***************************************************************************)
EXTENDS Naturals, Sequences, SequencesExt, FiniteSets

CONSTANTS FirstCartridges, \* cartridges somebody may insert first
          CommandLines,    \* [prog, args]: command lines
          MaxRuns,         \* bound: runs of a program
          MaxFaults        \* bound: faults

VARIABLES cart,   \* the cartridge: [parts, rec, ro, qstar, app, lock, eod]
          prog,   \* program that runs, "none" between two runs
          opt,    \* its options
          todo,   \* steps it has still to do
          error,  \* write_error of the device: stays until the device is closed
          exit,   \* how the last run ended: "ok", "error", "usage", "none"
          runs, faults
cartVars == <<cart, prog, opt, todo, error, exit, runs, faults>>

Parts == {0, 1}  \* INDEX_PART_NUM is 0, DATA_PART_NUM is 1
Xml(label) == [kind |-> "xml", label |-> label]
Index(fmt) == [kind |-> "index", fmt |-> fmt]
Vol1 == [kind |-> "vol1"]
FM == [kind |-> "fm"]
NoLabel == [none |-> TRUE]

-----------------------------------------------------------------------------
(* ltfs_read_one_label: a VOL1 record of 80 bytes with the LTFS signature,  *)
(* a file mark, the XML label, a file mark.                                 *)
LabelOf(s) ==
  IF /\ Len(s) >= 4
     /\ s[1] = Vol1 /\ s[2] = FM /\ s[3].kind = "xml" /\ s[4] = FM
     /\ s[3].label # NoLabel
  THEN s[3].label ELSE NoLabel

(* xml_make_label and _xml_parse_label: every element is required.          *)
MakeLabel(fmt, this) == [fmt |-> fmt, barcode |-> "valid", block |-> 512, ip |-> "a", dp |-> "b", this |-> this]

(* label_compare.                                                           *)
Compare(x, y) ==
  /\ x.barcode = y.barcode /\ x.fmt = y.fmt /\ x.block = y.block
  /\ x.ip # x.dp /\ x.ip = y.ip /\ x.dp = y.dp
  /\ {x.this, y.this} \subseteq {x.ip, x.dp} /\ x.this # y.this
  /\ x.barcode # "invalid"

(* ltfs_start_mount: load, partitioned, labels, block size of the drive.    *)
LargestBlock == 1024
StartMount(c) ==
  IF c.parts # 2 THEN "NOT_PARTITIONED"
  ELSE LET l == [p \in Parts |-> LabelOf(c.rec[p])]
       IN  IF \E p \in Parts : l[p] = NoLabel THEN "LABEL_INVALID"
           ELSE IF ~Compare(l[0], l[1]) THEN "LABEL_MISMATCH"
           ELSE IF l[0].block > LargestBlock THEN "LARGE_BLOCKSIZE" ELSE "OK"

Format(c) == LabelOf(c.rec[0]).fmt
DataPart(c) == CHOOSE p \in Parts : LabelOf(c.rec[p]).this = LabelOf(c.rec[p]).dp

IndexOn(c, p) == \E i \in DOMAIN c.rec[p] : c.rec[p][i] = Index(Format(c))

(* ltfs_mount as far as it can fail here: the end of data is known in both  *)
(* partitions and one of them has an index of this volume.                  *)
MountOk(c) ==
  /\ StartMount(c) = "OK"
  /\ \A p \in Parts : c.eod[p] = "good"
  /\ \E p \in Parts : IndexOn(c, p)

-----------------------------------------------------------------------------
(* Options: each letter changes the record, in the order of the command     *)
(* line.  An argument of the user is a member of a set.                     *)
MkDefault == [force |-> FALSE, unformat |-> FALSE, wipe |-> FALSE, quiet |-> FALSE, ask |-> FALSE, block |-> 512]
MkOption(o, c) ==
  CASE c = "f" -> [o EXCEPT !.force = TRUE]
    [] c = "w" -> [o EXCEPT !.unformat = TRUE]
    [] c = "+" -> [o EXCEPT !.unformat = TRUE, !.wipe = TRUE]
    [] c = "q" -> [o EXCEPT !.quiet = TRUE]
    [] c = "g" -> [o EXCEPT !.ask = TRUE]
    [] c = "b" -> [o EXCEPT !.block = 4096]

UnDefault == [noask |-> FALSE, quiet |-> FALSE, eject |-> FALSE]
UnOption(o, c) ==
  CASE c = "y" -> [o EXCEPT !.noask = TRUE] [] c = "q" -> [o EXCEPT !.quiet = TRUE] [] c = "e" -> [o EXCEPT !.eject = TRUE]

CkDefault == [mode |-> "check", gen |-> FALSE, capture |-> FALSE, deep |-> FALSE, erase |-> FALSE]
CkOption(o, c) ==
  CASE c = "g" -> [o EXCEPT !.mode = IF @ = "check" THEN "verify" ELSE @, !.gen = TRUE]
    [] c = "r" -> [o EXCEPT !.mode = "rollback"]
    [] c = "n" -> [o EXCEPT !.mode = "verify"]
    [] c = "l" -> [o EXCEPT !.mode = "list"]
    [] c = "+" -> [o EXCEPT !.mode = "list", !.capture = TRUE]
    [] c = "z" -> [o EXCEPT !.deep = TRUE]
    [] c = "j" -> [o EXCEPT !.erase = TRUE]
CkValid(o) == o.mode \in {"verify", "rollback"} => o.gen
CkFinal(o) == IF o.mode = "list" /\ o.capture /\ o.gen THEN [o EXCEPT !.mode = "verify"] ELSE o

Parsed(p, args) ==
  CASE p = "mkltfs" -> FoldLeft(MkOption, MkDefault, args)
    [] p = "unltfs" -> FoldLeft(UnOption, UnDefault, args)
    [] p = "ltfsck" -> FoldLeft(CkOption, CkDefault, args)

-----------------------------------------------------------------------------
(* The gates of the programs: what stops a run before it has changed        *)
(* anything.  answer is what the user types at the prompt.                  *)
\* A mutation: an existing volume is only looked for when the user was asked.
MkGateAsked(o, c, answer) ==
  IF o.ask /\ ~o.force /\ ~o.quiet /\ answer = "no" THEN "error"
  ELSE IF o.unformat THEN (IF c.qstar \/ ~c.app \/ c.ro THEN "error" ELSE "go")
  ELSE IF c.ro \/ c.qstar \/ o.block > LargestBlock THEN "error" ELSE "go"

MkGate(o, c, answer) ==
  LET asked == o.ask /\ ~o.force /\ ~o.quiet
      force == o.force \/ (asked /\ answer = "yes")
  IN  IF asked /\ answer = "no" THEN "error"
      ELSE IF o.unformat THEN (IF c.qstar \/ ~c.app \/ c.ro THEN "error" ELSE "go")
      ELSE IF c.ro \/ c.qstar THEN "error"
      ELSE IF ~force /\ StartMount(c) \notin {"NOT_PARTITIONED", "LABEL_INVALID", "LABEL_MISMATCH"} THEN "usage"
      ELSE IF o.block > LargestBlock THEN "error" ELSE "go"

UnGate(o, c, answer) ==
  LET noask == o.noask \/ (~o.quiet /\ answer = "yes")
  IN  IF (~o.noask /\ ~o.quiet /\ answer = "no") \/ c.ro \/ (~noask /\ ~c.app) \/ c.qstar THEN "error" ELSE "go"

(* ltfsck: a rollback and its verification need an unlocked cartridge; one  *)
(* with a write error falls through every branch with the value 0.          *)
CkGate(o, c) ==
  IF ~CkValid(o) THEN "usage"
  ELSE IF c.qstar THEN "error"
  ELSE IF CkFinal(o).mode \in {"rollback", "verify"} /\ c.lock # "unlocked"
       THEN (IF c.lock = "pwe" THEN "ok" ELSE "error")
  ELSE IF StartMount(c) # "OK" THEN "error"
  ELSE IF o.mode = "check" /\ c.ro THEN "error" ELSE "go"

(* What comes before: plugins, the key manager, the device, the medium may  *)
(* all fail, and an option -o nobody has consumed ends the run.             *)
MkSetup == {"go", "error", "usage"}
CkSetup == {"go", "error", "usage"}
UnSetup == {"go", "error"}
Setup(p) == CASE p = "mkltfs" -> MkSetup [] p = "ltfsck" -> CkSetup [] p = "unltfs" -> UnSetup

Gate(p, o, c, answer) ==
  CASE p = "mkltfs" -> MkGate(o, c, answer) [] p = "unltfs" -> UnGate(o, c, answer) [] p = "ltfsck" -> CkGate(o, c)

(* The steps of a run that has passed.  ltfs_write_label writes four        *)
(* records to one partition, ltfs_write_index the index behind them; the    *)
(* data partition comes first.                                              *)
Label(p, b) == <<[op |-> "write", part |-> p, rec |-> "vol1"], [op |-> "write", part |-> p, rec |-> "fm"],
                 [op |-> "write", part |-> p, rec |-> "xml"], [op |-> "write", part |-> p, rec |-> "fm"]>>
Step(op) == [op |-> op]
WriteIndex(p) == [op |-> "index", part |-> p]

\* A mutation: both labels are written before the first index.
FormatStepsLabelsFirst(o) ==
  <<Step("interrupt"), Step("format"), Step("interrupt")>> \o Label(1, o.block) \o Label(0, o.block) \o <<WriteIndex(1), WriteIndex(0)>>

FormatSteps(o) ==
  <<Step("interrupt"), Step("format"), Step("interrupt")>> \o Label(1, o.block) \o <<WriteIndex(1), Step("interrupt")>>
    \o Label(0, o.block) \o <<WriteIndex(0)>>
UnformatSteps(o) == <<Step("interrupt"), Step("unformat"), Step("interrupt")>> \o (IF o.wipe THEN <<Step("erase")>> ELSE <<>>)
CheckSteps(o) == (IF o.deep THEN <<Step("seekeod"), Step("recover")>> ELSE <<>>) \o <<Step("mount"), Step("unlock")>>

Steps(p, o) ==
  CASE p = "mkltfs" -> IF o.unformat THEN UnformatSteps(o) ELSE FormatSteps(o)
    [] p = "unltfs" -> <<Step("unformat")>>
    [] p = "ltfsck" -> IF o.mode = "check" THEN CheckSteps(o) ELSE <<Step("mount")>>

-----------------------------------------------------------------------------
(* Cartridges and options.  A partition has the letter mkltfs gives it or   *)
(* another one.                                                             *)
PartIds == {"a", "b", "other"}
Labels == [fmt : Nat, barcode : {"valid", "invalid"}, block : Nat, ip : PartIds, dp : PartIds, this : PartIds]
Records == {Vol1, FM} \cup [kind : {"xml"}, label : Labels \cup {NoLabel}] \cup [kind : {"index"}, fmt : Nat]
Cartridges ==
  [parts : {1, 2}, rec : [Parts -> Seq(Records)], ro : BOOLEAN, qstar : BOOLEAN, app : BOOLEAN,
   lock : {"unlocked", "locked", "pwe"}, eod : [Parts -> {"good", "missing"}]]
Options(p) ==
  CASE p = "mkltfs" -> [force : BOOLEAN, unformat : BOOLEAN, wipe : BOOLEAN, quiet : BOOLEAN, ask : BOOLEAN, block : Nat]
    [] p = "unltfs" -> [noask : BOOLEAN, quiet : BOOLEAN, eject : BOOLEAN]
    [] p = "ltfsck" -> [mode : {"check", "verify", "rollback", "list"}, gen : BOOLEAN, capture : BOOLEAN, deep : BOOLEAN, erase : BOOLEAN]

\* Labels that somebody else wrote mean a volume; options are what getopt knows.
ASSUME CartridgeAssumption ==
  /\ FirstCartridges \subseteq Cartridges
  /\ \A c \in FirstCartridges : StartMount(c) = "OK" => IndexOn(c, DataPart(c))
  /\ \A line \in CommandLines :
       line.prog \in {"mkltfs", "unltfs", "ltfsck"} /\ Parsed(line.prog, line.args) \in Options(line.prog)

CartInit ==
  /\ cart \in FirstCartridges
  /\ prog = "none" /\ opt = MkDefault /\ todo = <<>> /\ error = FALSE /\ exit = "none" /\ runs = 0 /\ faults = 0

Run ==
  /\ prog = "none" /\ runs < MaxRuns
  /\ \E line \in CommandLines, answer \in {"yes", "no"} : \E setup \in Setup(line.prog) :
       LET o == Parsed(line.prog, line.args)
           g == IF setup = "go" THEN Gate(line.prog, o, cart, answer) ELSE setup
       IN  /\ opt' = IF line.prog = "ltfsck" THEN CkFinal(o) ELSE o
           /\ IF g = "go" THEN prog' = line.prog /\ todo' = Steps(line.prog, opt') /\ exit' = "none"
              ELSE prog' = "none" /\ todo' = <<>> /\ exit' = g
  /\ runs' = runs + 1
  /\ UNCHANGED <<cart, error, faults>>

(* The end of a run: the device is closed, which ends a write error.        *)
End(result) == prog' = "none" /\ todo' = <<>> /\ exit' = result /\ error' = FALSE
Go == todo' = Tail(todo) /\ UNCHANGED <<prog, exit>>

Now(op) == prog # "none" /\ todo # <<>> /\ Head(todo).op = op
Fault == faults < MaxFaults /\ faults' = faults + 1

(* INTERRUPTED_RETURN.                                                      *)
Interrupt ==
  /\ Now("interrupt")
  /\ \/ Go /\ UNCHANGED <<error, faults>>
     \/ Fault /\ End("error")
  /\ UNCHANGED <<cart, opt, runs>>

Blank(n) == [cart EXCEPT !.parts = n, !.rec = [p \in Parts |-> <<>>], !.eod = [p \in Parts |-> "good"]]

(* tape_format: the medium is partitioned and empty; a command that fails   *)
(* may have done it or not.  MAM attributes name the application.           *)
FormatMedium ==
  /\ Now("format")
  /\ \/ cart' = [Blank(2) EXCEPT !.app = TRUE, !.lock = "unlocked"] /\ Go /\ UNCHANGED <<error, faults>>
     \/ Fault /\ cart' \in {cart, Blank(1), Blank(2)} /\ End("error")
  /\ UNCHANGED <<opt, runs>>

(* tape_unformat and tape_erase.                                            *)
UnformatMedium ==
  /\ Now("unformat") \/ Now("erase")
  /\ \/ cart' = [Blank(1) EXCEPT !.app = FALSE] /\ Go /\ UNCHANGED <<error, faults>>
     \/ Fault /\ cart' \in {cart, Blank(1)} /\ End("error")
  /\ UNCHANGED <<opt, runs>>

(* A record of a label.  A write that fails sets write_error.  For the XML  *)
(* label ltfs_write_label then returns -nw, which is positive, and the      *)
(* callers go on; they get no further because every later write is refused. *)
FailedWrite(rec) == IF rec = "xml" THEN "go on" ELSE "stop"

Record(rec, p) ==
  CASE rec = "vol1" -> Vol1 [] rec = "fm" -> FM
    [] rec = "xml" -> Xml([MakeLabel(runs, IF p = 0 THEN "a" ELSE "b") EXCEPT !.block = opt.block])

WriteLabel ==
  /\ Now("write")
  /\ LET s == Head(todo)
         then == FailedWrite(s.rec)
     IN  \/ /\ ~error
            /\ cart' = [cart EXCEPT !.rec[s.part] = Append(@, Record(s.rec, s.part))]
            /\ Go /\ UNCHANGED <<error, faults>>
         \/ /\ ~error /\ Fault
            /\ cart' \in {cart, [cart EXCEPT !.lock = "pwe"]}
            /\ IF then = "stop" THEN End("error")
               \* the second file mark is not written either: -nw is returned at once
               ELSE /\ todo' = Tail(Tail(todo)) /\ error' = (then = "go on") /\ UNCHANGED <<prog, exit>>
         \/ error /\ End("error") /\ UNCHANGED <<cart, faults>>
  /\ UNCHANGED <<opt, runs>>

WriteFirstIndex ==
  /\ Now("index")
  /\ LET p == Head(todo).part
     IN  \/ ~error /\ cart' = [cart EXCEPT !.rec[p] = @ \o <<FM, Index(runs), FM>>] /\ Go /\ UNCHANGED <<error, faults>>
         \/ ~error /\ Fault /\ End("error") /\ cart' \in {cart, [cart EXCEPT !.rec[p] = Append(@, FM), !.lock = "pwe"]}
         \/ error /\ End("error") /\ UNCHANGED <<cart, faults>>
  /\ UNCHANGED <<opt, runs>>

(* ltfsck --deep-recovery: a seek may make the drive find the end of data;  *)
(* then ltfs_recover_eod repairs one partition, not both.                   *)
SeekEod ==
  /\ Now("seekeod")
  /\ \E found \in SUBSET Parts : cart' = [cart EXCEPT !.eod = [p \in Parts |-> IF p \in found THEN "good" ELSE @[p]]]
  /\ Go /\ UNCHANGED <<opt, error, runs, faults>>

RecoverEod ==
  /\ Now("recover")
  /\ LET missing == {p \in Parts : cart.eod[p] = "missing"}
     IN  IF missing = Parts THEN End("error") /\ UNCHANGED <<cart, faults>>
         ELSE \/ cart' = [cart EXCEPT !.eod = [p \in Parts |-> "good"]] /\ Go /\ UNCHANGED <<error, faults>>
              \/ Fault /\ End("error") /\ UNCHANGED cart
  /\ UNCHANGED <<opt, runs>>

(* check_ltfs_volume and rollback mount the volume.                         *)
TryMount ==
  /\ Now("mount")
  /\ IF MountOk(cart) THEN Go /\ UNCHANGED error ELSE End("error")
  /\ UNCHANGED <<cart, opt, runs, faults>>

(* A corrected volume is writable again.                                    *)
UnlockCartridge ==
  /\ Now("unlock")
  /\ cart' \in {IF cart.lock = "pwe" THEN [cart EXCEPT !.lock = "unlocked"] ELSE cart, cart}
  /\ Go /\ UNCHANGED <<opt, error, runs, faults>>

Finish == prog # "none" /\ todo = <<>> /\ End("ok") /\ UNCHANGED <<cart, opt, runs, faults>>

Crash == prog # "none" /\ Fault /\ End("none") /\ UNCHANGED <<cart, opt, runs>>

CartNext ==
  \/ Run \/ Interrupt \/ FormatMedium \/ UnformatMedium \/ WriteLabel \/ WriteFirstIndex
  \/ SeekEod \/ RecoverEod \/ TryMount \/ UnlockCartridge \/ Finish \/ Crash
CartSpec == CartInit /\ [][CartNext]_cartVars

-----------------------------------------------------------------------------
(* Wherever a format stops, a cartridge whose labels are accepted has the   *)
(* index of that format in the data partition: half a format never passes   *)
(* for a volume.  (ltfs.c:2899-2920, the order of the steps)                *)
LabelsMeanVolume == StartMount(cart) = "OK" => IndexOn(cart, DataPart(cart))

(* When mkltfs reports success the cartridge can be mounted, whatever write *)
(* has failed: the positive value ltfs_write_label returns for one of them  *)
(* is made up for by the write error the device keeps.  (ltfs.c:2784)       *)
SuccessIsMountable ==
  exit = "ok" /\ "force" \in DOMAIN opt /\ ~opt.unformat /\ prog = "none" => MountOk(cart)

(* A volume that mounts stays one unless the user said force, yes or        *)
(* unformat; no failure, crash or earlier attempt in between changes that.  *)
(* (mkltfs.c:701-727)                                                       *)
Meant == prog = "unltfs" \/ opt.unformat \/ opt.force \/ opt.ask
VolumesAreSpared == [][StartMount(cart) = "OK" /\ StartMount(cart') # "OK" => Meant]_cartVars

(* What the utilities tell the user and the next mount is so: labels mean a *)
(* volume, success a mountable one (mkltfs.c, ltfs.c:2784).                 *)
ReportsTrue == LabelsMeanVolume /\ SuccessIsMountable
=============================================================================
