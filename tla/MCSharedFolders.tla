-------------------------- MODULE MCSharedFolders ---------------------------
(***************************************************************************)
(* What a node shares with its peers from its disk: directories to browse  *)
(* and change, and folders to synchronise.  The two share nothing, so TLC  *)
(* looks at behaviours of either (OneUse).                                 *)
(***************************************************************************)
EXTENDS SyncFolder, SharePaths, TLC

VARIABLE use \* what this behaviour is about

-----------------------------------------------------------------------------
(* Two files, one of them in a directory.                                  *)

MCFiles == {<<"sub", "f">>, <<"g">>}
MCNewContents == {Absent, <<"y", "y">>}

Disk(f, g) == "here" :> (<<"sub", "f">> :> f @@ <<"g">> :> g)
MCDisks == {Disk(<<"x", "y">>, <<>>), Disk(<<"x">>, Absent)}

SyncShare(dir, names, matched) ==
    [name |-> "docs", dir |-> dir, names |-> names, matched |-> matched]

\* A plain folder, one whose directory is gone before another of its name, and
\* one that ignores a directory by name before one that ignores a file.
MCResourceLists ==
    {<<SyncShare("here", {}, {})>>,
     <<SyncShare("gone", {}, {}), SyncShare("here", {"sub"}, {})>>,
     <<SyncShare("here", {"sub"}, {}), SyncShare("here", {}, {<<"g">>})>>}

-----------------------------------------------------------------------------
(* Shares beside each other, within each other, and of the same name.      *)

Share(name, path) == [name |-> name, path |-> path]

MCShareLists ==
    {<<>>,
     <<Share("a", <<"s">>)>>,
     <<Share("a", <<"s">>), Share("b", <<"t">>)>>,
     <<Share("a", <<"s">>), Share("b", <<"s", "a">>)>>,
     <<Share("a", <<"s">>), Share("a", <<"t">>)>>}

MCEntries == {"a", "b"}
MCVirtualPaths ==
    {<<>>, <<"a">>, <<"b">>, <<"a", "a">>, <<"a", "b">>, <<"b", "a">>,
     <<"a", Up>>, <<"a", "b", "a">>}

\* A link out of the first share beside one that leads to itself, and none.
Tree(paths, ls) == [paths |-> paths, links |-> ls]
Link(at, to) == [at |-> at, to |-> to]

MCTrees ==
    {Tree({<<>>, <<"s">>, <<"t">>, <<"t", "a">>, <<"s", "a">>, <<"s", "b">>},
          {Link(<<"s", "a">>, <<"s", "a">>), Link(<<"s", "b">>, <<"t">>)}),
     Tree({<<>>, <<"s">>, <<"t">>, <<"s", "a">>, <<"s", "a", "a">>}, {})}

-----------------------------------------------------------------------------
OneUse == use \in {"shares", "sync"} /\ UNCHANGED use

FoldersInit ==
    /\ use \in {"shares", "sync"}
    /\ SyncInit
    /\ SharesInit
    /\ \E n \in Sides : Len(resources[n]) = 1
    /\ wanted = {} => \A n \in Sides : Len(resources[n]) = 1
    /\ use = "shares" =>
          /\ wanted = {}
          /\ \A n \in Sides : disk[n] = Disk(<<"x">>, Absent)
    /\ use = "sync" => shares = <<>> /\ links = {}

SyncStep == use = "sync" /\ SyncNext /\ UNCHANGED shareVars
SharesStep == use = "shares" /\ SharesNext /\ UNCHANGED syncVars

FoldersNext == OneUse /\ (SyncStep \/ SharesStep)

FoldersSpec == FoldersInit /\ [][FoldersNext]_<<syncVars, shareVars, use>>

=============================================================================
