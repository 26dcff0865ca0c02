---------------------------- MODULE MCNamespace ----------------------------
(* Instances of Namespace for TLC: names a and b, and paths of them.       *)
EXTENDS Namespace, TLC

CONSTANTS t1, t2, t3, root, d1, d2, d3, a, b

Dir(parent_, list, links) ==
  [isdir |-> TRUE, parent |-> parent_, child_list |-> list, deleted |-> FALSE,
   numhandles |-> 1, link_count |-> links]
File(parent_) ==
  [isdir |-> FALSE, parent |-> parent_, child_list |-> <<>>, deleted |-> FALSE,
   numhandles |-> 1, link_count |-> 1]

\* /a is a directory and /a/b a file.
OneFile == root :> Dir(None, a :> d1, 2) @@ d1 :> Dir(root, b :> d2, 2) @@ d2 :> File(d1)
\* /a and /b are empty directories.
TwoDirs == root :> Dir(None, a :> d1 @@ b :> d2, 3)
        @@ d1 :> Dir(root, <<>>, 2) @@ d2 :> Dir(root, <<>>, 2)
\* /a and /a/b are directories.
TwoLevels == root :> Dir(None, a :> d1, 2) @@ d1 :> Dir(root, b :> d2, 3) @@ d2 :> Dir(d1, <<>>, 2)
\* /a is an empty directory.
OneDir == root :> Dir(None, a :> d1, 2) @@ d1 :> Dir(root, <<>>, 2)

OpenOf(p) == [op |-> "open", path |-> p]
UnlinkOf(p) == [op |-> "unlink", path |-> p]
CreateOf(d, n, dir) == [op |-> "create", dir |-> d, name |-> n, isdir |-> dir]
RenameOf(d, n, e, m) ==
  [op |-> "rename", fromdir |-> d, fromname |-> n, todir |-> e, toname |-> m]

Dirs == {<<>>, <<a>>, <<b>>}

\* One request after the other: paths of two names, and some below a file or a
\* directory that is missing.
Alone ==
  [tree |-> OneFile,
   requests |-> t1 :> (     {OpenOf(<<a, b>>), UnlinkOf(<<a>>), UnlinkOf(<<b>>), UnlinkOf(<<a, b>>)}
                       \cup {CreateOf(d, b, i) : d \in {<<>>, <<a>>}, i \in BOOLEAN}
                       \cup {RenameOf(d, n, e, b) : d \in {<<>>, <<a>>}, n \in Names, e \in {<<>>, <<a>>}}
                       \cup {RenameOf(<<>>, a, <<>>, a), RenameOf(<<a>>, b, <<>>, a)}
                       \cup {CreateOf(<<b>>, a, FALSE), RenameOf(<<b>>, a, <<>>, a)})
                @@ [t \in Threads |-> {}]]

\* A file moves up, over files and directories, while entries come and go and
\* are open.
Moving ==
  [tree |-> OneFile,
   requests |-> t1 :> {RenameOf(<<a>>, b, <<>>, b)}
             @@ t2 :> {CreateOf(<<a>>, b, FALSE), UnlinkOf(<<a, b>>)}
             @@ t3 :> {OpenOf(<<a, b>>), UnlinkOf(<<b>>)}]

\* A directory is replaced by another one while it is filled and emptied and a
\* lookup goes down it.
Entering ==
  [tree |-> TwoDirs,
   requests |-> t1 :> {RenameOf(<<>>, b, <<>>, a)}
             @@ t2 :> {CreateOf(<<a>>, b, FALSE), UnlinkOf(<<a, b>>)}
             @@ t3 :> {OpenOf(<<a, b>>)}]

\* Two directories move into each other and out again.
Crossing ==
  [tree |-> TwoDirs,
   requests |-> t1 :> {RenameOf(<<>>, a, <<b>>, a), RenameOf(<<b>>, a, <<>>, a)}
             @@ t2 :> {RenameOf(<<>>, b, <<a>>, b), RenameOf(<<a>>, b, <<>>, b)}
             @@ t3 :> {OpenOf(<<a, b>>), UnlinkOf(<<a, b>>)}]

\* A lookup goes down two directories, of which the upper one is replaced or
\* the lower one removed.
Deep ==
  [tree |-> TwoLevels,
   requests |-> t1 :> {OpenOf(<<a, b, a>>)}
             @@ t2 :> {CreateOf(<<>>, b, TRUE), RenameOf(<<>>, b, <<>>, a)}
             @@ t3 :> {UnlinkOf(<<a, b>>)}]

\* Two unlinks find a directory not empty, or empty in the end, while its file is
\* opened.
Straying ==
  [tree |-> OneFile,
   requests |-> t1 :> {UnlinkOf(<<a>>)} @@ t2 :> {OpenOf(<<a, b>>)}
             @@ t3 :> {UnlinkOf(<<a>>), UnlinkOf(<<a, b>>)}]

\* A directory is removed while another thread fills it.
Emptying ==
  [tree |-> OneDir,
   requests |-> t1 :> {UnlinkOf(<<a>>)} @@ t2 :> {CreateOf(<<a>>, b, FALSE)}
                @@ [t \in Threads |-> {}]]

\* A directory with another one in it moves into a directory that is being
\* removed, while a lookup goes down it.
Joining ==
  [tree |-> root :> Dir(None, a :> d1 @@ b :> d2, 3)
         @@ d1 :> Dir(root, <<>>, 2) @@ d2 :> Dir(root, a :> d3, 3) @@ d3 :> Dir(d2, <<>>, 2),
   requests |-> t1 :> {UnlinkOf(<<a>>)} @@ t2 :> {RenameOf(<<>>, b, <<a>>, b)}
             @@ t3 :> {OpenOf(<<b, a, b>>)}]

Loads == {Alone, Moving, Entering, Crossing, Deep, Straying}
Races == {Emptying}
Joins == {Joining}
Strays == {Straying}
=============================================================================
