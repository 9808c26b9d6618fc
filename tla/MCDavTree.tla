----------------------------- MODULE MCDavTree ------------------------------
(***************************************************************************)
(* A mount with a directory d, a path f in it and a path g beside it.      *)
(***************************************************************************)
EXTENDS DavTree, TLC

CONSTANTS d, f, g, root

MCParent == d :> root @@ f :> d @@ g :> root

List(path) == [kind |-> "list", path |-> path, to |-> None]
Stat(path) == [kind |-> "stat", path |-> path, to |-> None]
Mkdir(path) == [kind |-> "mkdir", path |-> path, to |-> None]
Remove(path) == [kind |-> "remove", path |-> path, to |-> None]
Rename(path, to) == [kind |-> "rename", path |-> path, to |-> to]

\* f has a junk name: it is listed, but cannot be asked for or made, and yet be
\* renamed to, which makes d again when it is gone.
MCCalls ==
    {List(root), List(d), Stat(f), Stat(g), Mkdir(f), Mkdir(g), Remove(d), Rename(g, f)}

MCTree == d :> "Directory" @@ f :> None @@ g :> "File"

=============================================================================
