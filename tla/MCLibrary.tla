----------------------------- MODULE MCLibrary ------------------------------
(***************************************************************************)
(* The parts of libltfs that work alone, for TLC, one of them in each       *)
(* behaviour: the cache pool, the extent lists of a file, the index as XML  *)
(* and in blocks, the policy of the index partition, the programs that      *)
(* format, unformat and check a cartridge, and the files of the scheduler. *)
(***************************************************************************)
EXTENDS CachePool, UnifiedSched, Cartridge, IndexStream, ExtentList, TLC

CONSTANTS FileNames, StartIndices, MaxSaves,
          Rules, Names, Threads, MaxFiles

VARIABLES doc, idx, saved, saves
Documents == INSTANCE IndexXml
xmlVars == <<doc, idx, saved, saves>>

VARIABLES rule, ic, cache, th
Criteria == INSTANCE IndexCriteria
criteriaVars == <<rule, ic, cache, th>>

VARIABLE part  \* the one this behaviour is of
allVars == <<vars, listVars, xmlVars, streamVars, cartVars, criteriaVars, schedVars, part>>

-----------------------------------------------------------------------------
(* Values for the constants.                                               *)
Blocks == [p \in {"IP", "DP"} |-> IF p = "DP" THEN 4 ELSE 2]

\* Files with every kind of extent list in a root and in a directory below it.
Entry(kind, name, uid, xts, bytes, link, kids) ==
  [kind |-> kind, name |-> name, ro |-> FALSE, uid |-> uid, created |-> "then", backup |-> "later",
   xattrs |-> <<[key |-> "k", value |-> "v"]>>,
   kids |-> kids, size |-> bytes, open |-> TRUE, xts |-> xts, link |-> link, extra |-> <<>>]
XmlExtent(at, len) == [at |-> at, len |-> len]
ExtentLists ==
  {<<>>, <<XmlExtent(0, 2)>>, <<XmlExtent(2, 1), XmlExtent(0, 2)>>, <<XmlExtent(1, 1), XmlExtent(0, 2)>>, <<XmlExtent(0, 1), XmlExtent(1, 2)>>}
OldFiles == {Entry("file", "f", u, x, 3, "", <<>>) : u \in {5, 9}, x \in ExtentLists} \cup {Entry("file", "f", 4, <<>>, 0, "target", <<>>)}
RootOf(kids) == Entry("dir", "root", 1, <<>>, 0, "", kids)
IndexOf(root) ==
  [gen |-> 3, self |-> 7, back |-> 0, allow |-> TRUE, policy |-> "", comment |-> "", lock |-> "locked", next |-> 5, root |-> root, extra |-> <<>>]
XmlStarts ==
  {IndexOf(RootOf(<<f, Entry("dir", "d", 7, <<>>, 0, "", <<Entry("file", "g", 2, <<XmlExtent(0, 1)>>, 2, "", <<>>)>>)>>)) : f \in OldFiles}
XmlNames == {"n1", "n2"}

\* A fresh cartridge, and volumes that are whole or mismatched in one way; the
\* options of the three programs.
FreshCart == [parts |-> 1, rec |-> [p \in Parts |-> <<>>], ro |-> FALSE, qstar |-> FALSE, app |-> FALSE,
              lock |-> "unlocked", eod |-> [p \in Parts |-> "good"]]
Labelled(l) == <<Vol1, FM, Xml(l), FM, FM, Index(9), FM>>
MadeFor(this) == MakeLabel(9, this)
Made(l0, l1) ==
  [FreshCart EXCEPT !.parts = 2, !.app = TRUE, !.rec = [p \in Parts |-> Labelled(IF p = 0 THEN l0 ELSE l1)]]
Whole == Made(MadeFor("a"), MadeFor("b"))
Carts ==
  {FreshCart, Whole, Made(MadeFor("b"), MadeFor("a")), Made(MadeFor("a"), MadeFor("a")),
   Made(MadeFor("a"), [MadeFor("b") EXCEPT !.fmt = 8]),
   [Whole EXCEPT !.ro = TRUE], [Whole EXCEPT !.qstar = TRUE], [Whole EXCEPT !.app = FALSE],
   [Whole EXCEPT !.eod[0] = "missing"], [Whole EXCEPT !.eod = [p \in Parts |-> "missing"]]}
   \cup {[Whole EXCEPT !.lock = s] : s \in {"locked", "pwe"}}
Lines ==
  {[prog |-> "mkltfs", args |-> x] : x \in {<<>>, <<"f">>, <<"w">>, <<"+">>, <<"g">>, <<"g", "q">>, <<"b">>}}
  \cup {[prog |-> "unltfs", args |-> x] : x \in {<<>>, <<"y">>, <<"q">>, <<"e", "q">>}}
  \cup {[prog |-> "ltfsck", args |-> x] : x \in {<<>>, <<"z">>, <<"g">>, <<"g", "r">>, <<"r">>, <<"l">>, <<"+", "g">>, <<"n", "j">>}}

\* Rules, patterns and file names of a few letters.
Alphabet == INSTANCE IndexCriteria WITH Rules <- {}, Names <- {}
Upto(S, n) == UNION {[1..k -> S] : k \in 0..n}
NameClauses == {<<"name=">> \o s : s \in Upto({"a", ":", "*"}, 3) \cup {<<"a", "size=", "1">>}}
SizeClauses ==
  {<<"size=">> \o s : s \in {z \in Upto({"1", "k", "a"}, 3) : \A i \in 1..Len(z) - 1 : z[i] \notin Alphabet!Letters}}
Clauses == NameClauses \cup SizeClauses \cup {<<>>, <<"a">>}
Patterns == (Upto({"a", "b", "*", "?"}, 4) \cup Upto({"a", "*"}, 6)) \ {<<>>}
Slash(x, y) == x \o <<"/">> \o y
CriteriaRules ==
  Clauses \cup {Slash(x, y) : x, y \in Clauses}
  \cup {Slash(<<"size=", "1">>, <<"name=">> \o p) : p \in Patterns}
  \cup {Slash(<<"name=">> \o p \o <<":", "b">> , <<"size=", "1">>) : p \in Upto({"a", "*", "?"}, 2) \ {<<>>}}
CriteriaNames == (Upto({"a", "b"}, 4) \cup Upto({"a"}, 5)) \ {<<>>}
OneThread == {"t1"}

\* Which file and whose call it is is never looked at.
Symm == Permutations(Users) \cup Permutations(Files)

-----------------------------------------------------------------------------
SomeOf(S) == CHOOSE x \in S : TRUE

\* The parts a behaviour is not of stay as they are.
MCInit ==
  /\ part \in {"pool", "lists", "xml", "stream", "programs", "criteria", "files"}
  /\ part # "pool" => pool = {SomeOf(Objects)}
  /\ part # "programs" => cart = SomeOf(FirstCartridges)
  /\ part # "files" => dentry = [d \in Files |-> Fresh]
  /\ part # "criteria" => rule = SomeOf(Rules)
  /\ IF part = "xml" THEN Documents!Init ELSE doc = "none" /\ idx = "none" /\ saved = "none" /\ saves = 0
  /\ Init /\ ListInit /\ StreamInit /\ CartInit /\ Criteria!Init /\ SchedInit

Pool == part = "pool" /\ Next
        /\ UNCHANGED <<listVars, xmlVars, streamVars, cartVars, criteriaVars, schedVars, part>>
List == part = "lists" /\ ListNext
        /\ UNCHANGED <<vars, xmlVars, streamVars, cartVars, criteriaVars, schedVars, part>>
Document == part = "xml" /\ Documents!Next
        /\ UNCHANGED <<vars, listVars, streamVars, cartVars, criteriaVars, schedVars, part>>
InBlocks == part = "stream" /\ StreamNext
        /\ UNCHANGED <<vars, listVars, xmlVars, cartVars, criteriaVars, schedVars, part>>
Program == part = "programs" /\ CartNext
        /\ UNCHANGED <<vars, listVars, xmlVars, streamVars, criteriaVars, schedVars, part>>
Policy == part = "criteria" /\ Criteria!Next
        /\ UNCHANGED <<vars, listVars, xmlVars, streamVars, cartVars, schedVars, part>>
Scheduler == part = "files" /\ SchedNext
        /\ UNCHANGED <<vars, listVars, xmlVars, streamVars, cartVars, criteriaVars, part>>
MCNext == Pool \/ List \/ Document \/ InBlocks \/ Program \/ Policy \/ Scheduler
MCSpec == MCInit /\ [][MCNext]_allVars

\* A mount reads the index that was written. (xml_reader_libltfs.c)
IndexReadsBack == part = "xml" => Documents!ReadsBack

\* The rules the user gives mean what the manual says, and a file goes to the
\* index partition by its name. (index_criteria.c:355-408, 546-597)
PolicyKept == part = "criteria" => Criteria!PolicyAsWritten /\ Criteria!PlacedByName
=============================================================================
