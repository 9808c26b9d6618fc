----------------------------- MODULE SyncFolder -----------------------------
(***************************************************************************)
(* Comparing the synchronised folders of two nodes: each node scans the    *)
(* folders it shares (scan_local_resource_folders), the peer in a task     *)
(* that the dispatcher spawned for a SyncStateRequest, and the asking node *)
(* compares both results (compute_sync_diff).  Neither scan locks anything *)
(* and a file is looked at in many steps - found, measured, opened, hashed *)
(* block by block - while others change it.                                *)
(*                                                                         *)
(* A file is a sequence of blocks of the hash's buffer, and a hash is the  *)
(* sequence of blocks it was computed from.                                *)
(***************************************************************************)
EXTENDS Integers, Sequences, FiniteSets

CONSTANTS
    Sides,         \* the two nodes
    Asking, Peer,  \* the one that compares, the one it asks
    Folders,       \* names of shared folders
    Dirs,          \* directories there are on a node
    Files,         \* relative paths, sequences of names
    Blocks,        \* what a block of a file may hold
    MaxBlocks,     \* bound on the length of a file
    MaxEdits,      \* bound on the files that others change
    NewContents,   \* what they put there
    InitialDisks,  \* what the directories of a node may hold when a scan starts
    ResourceLists, \* lists of SyncFolder resources a node may share, each with its
                   \* name, its directory, the names ignored wherever they occur
                   \* and the entries a wildcard matches
    Absent,        \* there is no such file
    Unopened       \* the hash of a file that could not be opened

Contents == UNION {[1 .. n -> Blocks] : n \in 0 .. MaxBlocks}

ASSUME SyncAssumption ==
    /\ Sides = {Asking, Peer} /\ Asking # Peer
    /\ InitialDisks \subseteq [Dirs -> [Files -> Contents \cup {Absent}]]
    /\ NewContents \subseteq Contents \cup {Absent}
    /\ \A list \in ResourceLists : list \in Seq({list[i] : i \in DOMAIN list})
    /\ {MaxBlocks, MaxEdits} \subseteq Nat
    /\ {Absent, Unopened} \cap Contents = {}

VARIABLES
    resources, \* resources[n]: the list of n's resources
    disk,      \* disk[n][d][p]: the files
    wanted,    \* the folders the request names
    scan,      \* scan[n]: the scan of n: where it is, the files it has yet to
               \* visit, the one it is at, what it found in the directory
    states,    \* states[n]: what the scan of n found so far, by folder
    edited,    \* history: the files that were changed
    unread     \* history: the files that could not be found or read to their end

syncVars == <<resources, disk, wanted, scan, states, edited, unread>>

-----------------------------------------------------------------------------
(* scan_local_resource_folders.                                            *)

\* filter_entry leaves out an entry and what is below it.
Ignored(resource, p) ==
    \E k \in 1 .. Len(p) : p[k] \in resource.names \/ SubSeq(p, 1, k) \in resource.matched

Idle == [at |-> "idle", index |-> 0, todo |-> {}, files |-> <<>>,
         file |-> <<>>, size |-> 0, held |-> <<>>, linked |-> FALSE, hash |-> <<>>]

\* The walk of the resource at an index, or the end of the scan.
Walk(n, i) ==
    IF i > Len(resources[n]) THEN [Idle EXCEPT !.at = "done"]
    ELSE [Idle EXCEPT !.at = "walking", !.index = i,
                      !.todo = IF resources[n][i].dir \in Dirs THEN Files ELSE {}]

At(n, where) == scan[n].at = where
Directory(n) == resources[n][scan[n].index].dir

StartScan(n) ==
    /\ At(n, "idle")
    /\ scan' = [scan EXCEPT ![n] = Walk(n, 1)]
    /\ UNCHANGED <<resources, disk, wanted, states, edited, unread>>

Unreadable(n, p) == unread' = unread \cup {<<n, Directory(n), p>>}

\* The walk comes to a file, in the order of the directory, and measures it; a
\* file that it cannot get at or measure is left out without a word.
Visit(n, p) ==
    LET file == disk[n][Directory(n)][p]
        passed == [scan[n] EXCEPT !.todo = @ \ {p}]
        found == ~Ignored(resources[n][passed.index], p) /\ file # Absent
    IN  /\ At(n, "walking")
        /\ p \in scan[n].todo
        /\ \/ /\ found
              /\ scan' = [scan EXCEPT ![n] =
                    [passed EXCEPT !.at = "measured", !.file = p, !.size = Len(file)]]
              /\ UNCHANGED unread
           \/ /\ scan' = [scan EXCEPT ![n] = passed]
              /\ IF found THEN Unreadable(n, p) ELSE UNCHANGED unread
        /\ UNCHANGED <<resources, disk, wanted, states, edited>>

\* The file that was found is added to the list, with the hash that was made.
Listed(s, hash) ==
    [s EXCEPT !.at = "walking", !.file = <<>>, !.size = 0, !.held = <<>>, !.linked = FALSE,
              !.hash = <<>>,
              !.files = [p \in DOMAIN s.files \cup {s.file} |->
                  IF p = s.file THEN [hash |-> hash, size |-> s.size] ELSE s.files[p]]]

Open(n) ==
    LET file == disk[n][Directory(n)][scan[n].file]
    IN  /\ At(n, "measured")
        /\ \/ /\ file # Absent
              /\ scan' = [scan EXCEPT ![n].at = "reading", ![n].held = file, ![n].linked = TRUE]
              /\ UNCHANGED unread
           \/ /\ scan' = [scan EXCEPT ![n] = Listed(@, Unopened)]
              /\ Unreadable(n, scan[n].file)
        /\ UNCHANGED <<resources, disk, wanted, states, edited>>

AtEnd(s) == Len(s.hash) >= Len(s.held)

ReadBlock(n) ==
    /\ At(n, "reading")
    /\ ~AtEnd(scan[n])
    /\ scan' = [scan EXCEPT ![n].hash = Append(@, scan[n].held[Len(@) + 1])]
    /\ UNCHANGED <<resources, disk, wanted, states, edited, unread>>

\* The end of the file ends the loop, and so does an error.
HashFile(n) ==
    /\ At(n, "reading")
    /\ scan' = [scan EXCEPT ![n] = Listed(@, scan[n].hash)]
    /\ \/ AtEnd(scan[n]) /\ UNCHANGED unread
       \/ Unreadable(n, scan[n].file)
    /\ UNCHANGED <<resources, disk, wanted, states, edited>>

\* A later resource of the same name replaces what an earlier one had.
Insert(folders, name, files) ==
    [f \in DOMAIN folders \cup {name} |-> IF f = name THEN files ELSE folders[f]]

FinishFolder(n) ==
    /\ At(n, "walking")
    /\ scan[n].todo = {}
    /\ states' = [states EXCEPT ![n] = Insert(@, resources[n][scan[n].index].name, scan[n].files)]
    /\ scan' = [scan EXCEPT ![n] = Walk(n, scan[n].index + 1)]
    /\ UNCHANGED <<resources, disk, wanted, edited, unread>>

-----------------------------------------------------------------------------
(* The answer and the comparison.                                          *)

\* Of what the scan found, the folders that were asked for.
SyncStateResponse == [f \in DOMAIN states[Peer] \cap wanted |-> states[Peer][f]]

HashesAgree(mine, theirs) == mine.hash = theirs.hash
Agree(mine, theirs) == mine.hash = theirs.hash /\ mine.size = theirs.size

Difference(mine, theirs, p) ==
    CASE p \notin DOMAIN mine -> "RemoteOnly"
      [] p \notin DOMAIN theirs -> "LocalOnly"
      [] OTHER -> IF Agree(mine[p], theirs[p]) THEN "Identical" ELSE "Modified"

\* A folder the answer does not have is compared like an empty one; a folder
\* that only the answer has is left out.
compute_sync_diff(local_cache, remote) ==
    LET Theirs(f) == IF f \in DOMAIN remote THEN remote[f] ELSE <<>>
    IN  UNION {{[folder |-> f, path |-> p, difference |-> Difference(local_cache[f], Theirs(f), p)] :
                    p \in DOMAIN local_cache[f] \cup DOMAIN Theirs(f)} : f \in DOMAIN local_cache}

-----------------------------------------------------------------------------
(* Whoever else uses the disks.  Writing to a file changes what a scan that *)
(* has it open reads next; a file that was removed is read as it was.       *)

Holds(n, d, p) == scan[n].linked /\ Directory(n) = d /\ scan[n].file = p

Edit(n, d, p, content) ==
    /\ Cardinality(edited) < MaxEdits
    /\ content # disk[n][d][p]
    /\ disk' = [disk EXCEPT ![n][d][p] = content]
    /\ edited' = edited \cup {<<n, d, p>>}
    /\ scan' = IF ~Holds(n, d, p) THEN scan
               ELSE IF content = Absent THEN [scan EXCEPT ![n].linked = FALSE]
               ELSE [scan EXCEPT ![n].held = content]
    /\ UNCHANGED <<resources, wanted, states, unread>>

-----------------------------------------------------------------------------
SyncInit ==
    /\ resources \in [Sides -> ResourceLists]
    /\ disk \in [Sides -> InitialDisks]
    /\ wanted \in SUBSET Folders
    /\ scan = [n \in Sides |-> Idle]
    /\ states = [n \in Sides |-> <<>>]
    /\ edited = {}
    /\ unread = {}

Scanning(n) ==
    \/ StartScan(n)
    \/ \E p \in Files : Visit(n, p)
    \/ Open(n)
    \/ ReadBlock(n)
    \/ HashFile(n)
    \/ FinishFolder(n)

SyncNext ==
    \E n \in Sides :
        \/ Scanning(n)
        \/ \E d \in Dirs, p \in Files, content \in NewContents : Edit(n, d, p, content)

SyncSpec == SyncInit /\ [][SyncNext]_syncVars

-----------------------------------------------------------------------------
(* Properties.                                                             *)

\* The resource a folder's list is about: the last of its name.
Lasting(n, f) ==
    LET named == {i \in DOMAIN resources[n] : resources[n][i].name = f}
    IN  {i \in named : \A j \in named : j <= i}

\* What there is under a path of a folder, for who is to see the folder.
There(n, f, p) ==
    LET seen == {i \in Lasting(n, f) : resources[n][i].dir \in Dirs /\ ~Ignored(resources[n][i], p)}
    IN  IF (n = Peer /\ f \notin wanted) \/ seen = {} THEN Absent
        ELSE disk[n][resources[n][CHOOSE i \in seen : TRUE].dir][p]

\* Whether a set names the file that is under a path of a folder.
Names(set, n, f, p) == \E i \in Lasting(n, f) : <<n, resources[n][i].dir, p>> \in set

Verdict(f, p) ==
    CASE There(Asking, f, p) = There(Peer, f, p) -> "Identical"
      [] There(Asking, f, p) = Absent -> "RemoteOnly"
      [] There(Peer, f, p) = Absent -> "LocalOnly"
      [] OTHER -> "Modified"

\* A comparison is what the disks say, of every file that nobody changed during
\* the scans and both nodes could find and read: each file of a folder the asking
\* node has is listed, once, and rightly.  A file one node did not find, or could
\* not read to its end, is never called identical unless it is; it may be said
\* to be only on the other node, or be missing from the list.
VerdictsTrue ==
    (\A n \in Sides : At(n, "done")) =>
    LET items == compute_sync_diff(states[Asking], SyncStateResponse)
    IN  \A f \in {r.name : r \in {resources[Asking][i] : i \in DOMAIN resources[Asking]}}, p \in Files :
            LET listed == {item.difference : item \in {x \in items : x.folder = f /\ x.path = p}}
                bad == {n \in Sides : Names(unread, n, f, p)}
            IN  (\A n \in Sides : ~Names(edited, n, f, p)) =>
                /\ bad = {} =>
                      listed = IF There(Asking, f, p) = Absent /\ There(Peer, f, p) = Absent
                               THEN {} ELSE {Verdict(f, p)}
                /\ bad # Sides /\ "Identical" \in listed => Verdict(f, p) = "Identical"

=============================================================================
