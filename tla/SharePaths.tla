----------------------------- MODULE SharePaths -----------------------------
(***************************************************************************)
(* The directories of one resource as a peer sees them: a resource with    *)
(* one share shows its directory as the root, one with several shows them  *)
(* as folders of a virtual root (resolve_in and virtual_parent in          *)
(* p2p-handlers/src/fs_local.rs).  The peer names paths, the handler       *)
(* resolves them, acts, and names the parent directory in its answer.      *)
(*                                                                         *)
(* A path is a sequence of names; a local path starts at the file system's *)
(* root.  Every entry is a directory here, or a symbolic link to one: what *)
(* tells files apart is in DavTree.  The handler's paths are lexical; the  *)
(* operating system follows the links they lead through.  No request makes *)
(* a link, but some move or remove one.                                    *)
(***************************************************************************)
EXTENDS Integers, Sequences

CONSTANTS
    ShareLists,   \* lists of shares, each with a name and its path
    LocalNames,   \* names a local path is made of, and a share may have
    Entries,      \* those of the directories in the shares
    Up,           \* the name that means the directory above
    DriveNames,   \* names with a drive of Windows, which are paths of their own
    VirtualPaths, \* the paths a peer asks for
    InitialTrees, \* the local paths and the links there may be at first
    MaxDepth,     \* bound on the length of a local path
    MaxChanges    \* bound on the requests that change something

ASSUME SharesAssumption ==
    /\ Entries \subseteq LocalNames /\ Up \notin Entries
    /\ ShareLists \subseteq Seq([name : LocalNames, path : Seq(LocalNames)])
    /\ DriveNames \subseteq LocalNames
    /\ InitialTrees \subseteq
          [paths : SUBSET Seq(LocalNames),
           links : SUBSET [at : Seq(LocalNames), to : Seq(LocalNames)]]
    /\ VirtualPaths \subseteq Seq(Entries \cup {Up})
    /\ {MaxDepth, MaxChanges} \subseteq Nat

VARIABLES
    shares,  \* the shares of the resource
    tree,    \* the local paths there are
    links,   \* those that are links, and where they lead
    targets, \* history: where links led at first
    answer,  \* the last answer of the handler: the path it is about, the parent it
             \* names if any, what it lists, and (history) what was changed
    changes  \* the requests that changed something

shareVars == <<shares, tree, links, targets, answer, changes>>

Front(path) == SubSeq(path, 1, Len(path) - 1)
IsUnder(base, path) == Len(base) <= Len(path) /\ SubSeq(path, 1, Len(base)) = base
Below(base, path) == SubSeq(path, Len(base) + 1, Len(path))

-----------------------------------------------------------------------------
(* Paths.                                                                  *)

Nowhere == [is |-> "none"]

\* resolve_and_sandbox_path: any name but those of entries is refused.
Sandboxed(base, rest, prefix) ==
    IF \E i \in DOMAIN rest : rest[i] = Up THEN Nowhere
    ELSE [is |-> "at", local |-> base \o rest, base |-> base, prefix |-> prefix]

\* The first share of a name is the one its folder shows.
Named(name) ==
    LET with == {i \in DOMAIN shares : shares[i].name = name}
    IN  {shares[i].path : i \in {i \in with : \A j \in with : i <= j}}

resolve_in(path) ==
    CASE shares = <<>> -> Nowhere
      [] Len(shares) = 1 -> Sandboxed(shares[1].path, path, <<>>)
      [] Len(shares) > 1 /\ path = <<>> ->
            [is |-> "root", names |-> {shares[i].name : i \in DOMAIN shares}]
      [] Len(shares) > 1 /\ path # <<>> ->
            IF Named(path[1]) = {} THEN Nowhere
            ELSE Sandboxed(CHOOSE base \in Named(path[1]) : TRUE, Tail(path), <<path[1]>>)

\* The parent of a share's own directory is that directory.
WithoutPrefix(at) == IF at.local = at.base THEN <<>> ELSE Below(at.base, Front(at.local))
virtual_parent(at) ==
    at.prefix \o (IF at.local = at.base THEN <<>> ELSE Below(at.base, Front(at.local)))

-----------------------------------------------------------------------------
(* The operating system.  Nothing is below a link, so that a path leads     *)
(* through one at a time, and through three in all (a bound).               *)

Followed(path, above) ==
    LET on == {l \in links : IsUnder(l.at, path) /\ (above => l.at # path)}
        l == CHOOSE l \in on : TRUE
    IN  IF on = {} THEN path ELSE l.to \o Below(l.at, path)

AllFollowed(path, above) == Followed(Followed(Followed(path, above), above), above)

\* The directory a path leads to, and the entry, which may be a link.
DirectoryAt(path) == AllFollowed(path, FALSE)
EntryAt(path) == AllFollowed(path, TRUE)

IsLink(path) == \E l \in links : l.at = path
IsDirectory(there, path) == path \in there /\ ~IsLink(path)

\* PathBuf::push: a name with a drive replaces the path.
Pushed(path, name) == IF name \in DriveNames THEN <<name>> ELSE EntryAt(Append(path, name))

\* create_dir_all makes what is missing above a path, unless the way there
\* leads through a link to nowhere.
WithDirectories(path) ==
    LET above == {SubSeq(path, 1, k) : k \in 0 .. Len(path) - 1}
    IN  IF \E q \in above : IsLink(EntryAt(q)) /\ ~IsDirectory(tree, DirectoryAt(q))
        THEN tree
        ELSE tree \cup {DirectoryAt(q) : q \in above}

\* A directory replaces an empty one, a link another, and a directory does not
\* move below itself.
CanRename(there, from, to) ==
    /\ from \in there
    /\ IsDirectory(there, Front(to))
    /\ to \in there => (IsLink(from) <=> IsLink(to))
    /\ from = to \/ (~IsUnder(from, to) /\ \A q \in there : IsUnder(to, q) => q = to)

Moved(there, from, to) ==
    {q \in there : ~IsUnder(from, q)}
      \cup {to \o Below(from, q) : q \in {q \in there : IsUnder(from, q)}}

MovedLinks(from, to) ==
    {l \in links : ~IsUnder(from, l.at) /\ l.at # to}
      \cup {[l EXCEPT !.at = to \o Below(from, l.at)] : l \in {l \in links : IsUnder(from, l.at)}}

-----------------------------------------------------------------------------
(* The handler: one message of the peer at a time.                         *)

Changed ==
    (tree \ tree') \cup (tree' \ tree)
      \cup {l.at : l \in (links \ links') \cup (links' \ links)}

Answer(path, parents, names, ok) ==
    /\ answer' = [path |-> path, parents |-> parents, names |-> names, ok |-> ok,
                  changed |-> Changed]
    /\ changes' = IF Changed = {} THEN changes ELSE changes + 1
    /\ changes' <= MaxChanges
    /\ UNCHANGED <<shares, targets>>

\* The answer to a request that cannot be carried out.
Refuse(path, parents) ==
    /\ UNCHANGED <<tree, links>>
    /\ Answer(path, parents, {}, FALSE)

RequestEntries(path) ==
    LET at == resolve_in(path)
    IN  /\ UNCHANGED <<tree, links>>
        /\ Answer(path, {},
              CASE at.is = "root" -> at.names
                [] at.is = "at" -> {e \in Entries : Append(DirectoryAt(at.local), e) \in tree}
                [] OTHER -> {}, TRUE)

RequestMetadata(path) ==
    LET at == resolve_in(path)
    IN  /\ UNCHANGED <<tree, links>>
        /\ Answer(path, {}, {}, at.is = "at" /\ IsDirectory(tree, DirectoryAt(at.local)))

CreateDirectoryRequest(parent, name) ==
    LET at == resolve_in(parent)
        target == Pushed(at.local, name)
    IN  IF at.is # "at" \/ name = Up THEN Refuse(parent, {})
        ELSE IF IsDirectory(tree, Front(target)) /\ target \notin tree /\ Len(target) <= MaxDepth
        THEN /\ tree' = tree \cup {target}
             /\ UNCHANGED links
             /\ Answer(parent, {}, {}, TRUE)
        ELSE Refuse(parent, {})

\* remove_dir_all; the directory of a share is an entry like any other, and a
\* link is removed, not what it leads to.
DeleteEntryRequest(path) ==
    LET at == resolve_in(path)
        entry == EntryAt(at.local)
    IN  IF at.is # "at" THEN Refuse(path, {})
        ELSE /\ tree' = {q \in tree : ~IsUnder(entry, q)}
             /\ links' = {l \in links : ~IsUnder(entry, l.at)}
             /\ Answer(path, {virtual_parent(at)}, {}, entry \in tree)

\* create_dir_all, then rename; what the first has made stays when the second
\* fails.
RenameEntryRequest(path, new_path) ==
    LET at == resolve_in(path)
        to == resolve_in(new_path)
        made == WithDirectories(to.local)
        entry == EntryAt(at.local)
        place == EntryAt(to.local)
        can == CanRename(made, entry, place)
    IN  IF at.is # "at" THEN Refuse(path, {})
        ELSE IF to.is # "at" THEN Refuse(path, {virtual_parent(at)})
        ELSE /\ tree' = IF can THEN Moved(made, entry, place) ELSE made
             /\ links' = IF can THEN MovedLinks(entry, place) ELSE links
             /\ \A q \in tree' : Len(q) <= MaxDepth
             /\ Answer(path, {virtual_parent(at)}, {}, can)

SetPermissionsRequest(path) ==
    LET at == resolve_in(path)
    IN  IF at.is # "at" THEN Refuse(path, {})
        ELSE /\ UNCHANGED <<tree, links>>
             /\ Answer(path, {virtual_parent(at)}, {}, IsDirectory(tree, DirectoryAt(at.local)))

-----------------------------------------------------------------------------
SharesInit ==
    /\ shares \in ShareLists
    /\ \E there \in InitialTrees :
          /\ tree = there.paths
          /\ links = there.links
          /\ targets = {l.to : l \in there.links}
    /\ answer = [path |-> <<>>, parents |-> {}, names |-> {}, ok |-> FALSE, changed |-> {}]
    /\ changes = 0

SharesNext ==
    \E path \in VirtualPaths :
        \/ RequestEntries(path)
        \/ RequestMetadata(path)
        \/ \E name \in Entries \cup DriveNames \cup {Up} : CreateDirectoryRequest(path, name)
        \/ DeleteEntryRequest(path)
        \/ \E new_path \in VirtualPaths : RenameEntryRequest(path, new_path)
        \/ SetPermissionsRequest(path)

SharesSpec == SharesInit /\ [][SharesNext]_shareVars

-----------------------------------------------------------------------------
(* Properties.                                                             *)

\* What a listing names is found under the listed path, and is the entry of
\* that directory.
ListedIsFound ==
    LET at == resolve_in(answer.path)
    IN  \A name \in answer.names :
            LET child == resolve_in(Append(answer.path, name))
            IN  /\ child.is = "at"
                /\ at.is = "at" => child.local = Append(at.local, name)

\* The parent an answer names leads the peer to the directory the entry is or
\* was in; a share's own directory counts as its own parent.
ParentIsFound ==
    \A path \in answer.parents :
        LET at == resolve_in(answer.path)
            above == resolve_in(path)
        IN  /\ above.is = "at"
            /\ above.local = IF at.local = at.base THEN at.base ELSE Front(at.local)

\* What a request may change: what is in a share, what is where a link led
\* that some path passes, and, by a name that has one, another drive.
InReach(q) ==
    \/ \E i \in DOMAIN shares : IsUnder(shares[i].path, q)
    \/ \E t \in targets : IsUnder(t, q)
    \/ \E name \in DriveNames : IsUnder(<<name>>, q)

\* No request changes anything else: resolve_and_sandbox_path keeps paths in
\* their share, but neither looks for links nor sees the name of a directory to
\* be made, and virtual folders, shares within shares and create_dir_all lead
\* nowhere else.
ChangesInReach == \A q \in answer.changed : InReach(q)

\* What the peer is told in the names it sees leads back to the entries the
\* handler acted on, and it acted on nothing else.
PathsLeadBack == ListedIsFound /\ ParentIsFound /\ ChangesInReach

=============================================================================
