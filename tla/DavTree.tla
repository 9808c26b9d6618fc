------------------------------- MODULE DavTree ------------------------------
(***************************************************************************)
(* Browsing a peer through the WebDAV bridge: the directory operations of  *)
(* web-davserver/src/fs.rs with their two caches and the table of pending  *)
(* requests (web-davserver/src/lib.rs), and the peer's handler for them    *)
(* (p2p-handlers/src/fs_local.rs over node-functions/src/fs_local.rs).     *)
(*                                                                         *)
(* The file manager calls several operations at once, each a task of its   *)
(* own, and may give up on one.  Others change the peer's files meanwhile. *)
(* An entry is a file or a directory; sizes and dates are left out, and so *)
(* is the marker file the bridge pretends is in the root.  What is renamed *)
(* has nothing below it.                                                   *)
(***************************************************************************)
EXTENDS Integers, Sequences, FiniteSets

CONSTANTS
    Ops,            \* operations the file manager calls
    Calls,          \* what it may call them for: a kind, a path and a destination
    Paths,          \* paths below the root
    Root,           \* the root of the mount
    Parent,         \* the directory each path is in
    Junk,           \* paths with a name is_ignored_junk recognises
    None,           \* no entry, no reply, nothing cached
    InitialTree,    \* the peer's files
    CacheTime,      \* lifetime of what is cached (10 s)
    MaxTime,        \* bound on the clock
    MaxEdits,       \* bound on the changes others make to the peer's files
    MaxUnread       \* bound on what the peer's file system fails to read

Directories == Paths \cup {Root}
EntryType == {"File", "Directory"}
Mutations == {"mkdir", "remove", "rename"}

Call ==
    [kind : {"list"}, path : Directories, to : {None}]
      \cup [kind : {"stat", "mkdir", "remove"}, path : Paths, to : {None}]
      \cup [kind : {"rename"}, path : Paths, to : Paths]

ASSUME TreeAssumption ==
    /\ Root \notin Paths
    /\ Junk \subseteq Paths
    /\ Calls \subseteq Call
    /\ Parent \in [Paths -> Directories]
    /\ \A c \in Calls, p \in Paths : c.kind = "rename" => Parent[p] \notin {c.path, c.to}
    /\ InitialTree \in [Paths -> EntryType \cup {None}]
    /\ None \notin EntryType

ASSUME BoundsAssumption ==
    CacheTime \in Nat \ {0} /\ {MaxTime, MaxEdits, MaxUnread} \subseteq Nat

VARIABLES
    tree,       \* the peer's files: tree[p] is the entry at p
    requests,   \* from the bridge to the peer
    replies,    \* from the peer to the bridge
    pending,    \* PENDING: the operations a reply can be routed to
    mailbox,    \* mailbox[o]: the reply in the channel of o
    op,         \* op[o]: what o was called for, and what it returned
    dir_cache,  \* DIR_CACHE: listings
    meta_cache, \* META_CACHE: entries
    now,        \* the clock
    edits,      \* changes by others so far
    lost,       \* whether a lost connection took messages with it
    past,       \* history: past[i]: the trees the peer had at time i
    unread      \* history: the listings and entries it failed to read, and when

vars == <<tree, requests, replies, pending, mailbox, op, dir_cache, meta_cache,
          now, edits, lost, past, unread>>

peer == <<tree, edits, past, unread>>
caches == <<dir_cache, meta_cache>>

-----------------------------------------------------------------------------
(* The peer's file system.                                                 *)

IsDirectory(t, d) == d = Root \/ (d \in Paths /\ t[d] = "Directory")
Children(d) == {p \in Paths : Parent[p] = d}

\* p and the directories it is in, up to the root.
Above[p \in Directories] == IF p = Root THEN {Root} ELSE {p} \cup Above[Parent[p]]

\* list_local_directory: what is no directory lists nothing.
Listing(t, d) ==
    {<<p, t[p]>> : p \in {q \in Children(d) : IsDirectory(t, d) /\ t[q] # None}}

Truth(kind, p, t) == IF kind = "list" THEN Listing(t, p) ELSE t[p]

\* Errors are not answered: a directory that cannot be read to its end lists what
\* could be, and an entry whose metadata cannot be read is none.
Tellable(kind, p, t, failed) ==
    {Truth(kind, p, t)}
      \cup (IF ~failed THEN {} ELSE IF kind = "list" THEN SUBSET Listing(t, p) ELSE {None})

CanCreate(t, p) == t[p] = None /\ IsDirectory(t, Parent[p])

\* delete_local_entry removes a directory with all it holds.
Removed(t, p) == [q \in Paths |-> IF p \in Above[q] THEN None ELSE t[q]]

\* create_dir_all makes p and what is missing above it, or finds a file there.
WithDirectory(t, p) ==
    IF \E q \in Above[p] \cap Paths : t[q] = "File" THEN t
    ELSE [q \in Paths |-> IF q \in Above[p] THEN "Directory" ELSE t[q]]

\* A file replaces a file, a directory an empty one.
CanRename(t, p, q) ==
    /\ t[p] # None
    /\ IsDirectory(t, Parent[q])
    /\ t[q] \in {None, t[p]}

Renamed(t, p, q) == [t EXCEPT ![p] = None, ![q] = t[p]]

-----------------------------------------------------------------------------
(* The peer.                                                               *)

\* What the handler of a call c does to the tree, and whether it succeeds.
Effect(c) ==
    CASE c.kind = "mkdir" /\ CanCreate(tree, c.path) -> [tree EXCEPT ![c.path] = "Directory"]
      [] c.kind = "remove" /\ tree[c.path] # None -> Removed(tree, c.path)
      [] c.kind = "rename" ->
            LET t == WithDirectory(tree, Parent[c.to])
            IN  IF CanRename(t, c.path, c.to) THEN Renamed(t, c.path, c.to) ELSE t
      [] OTHER -> tree

Succeeds(c) ==
    CASE c.kind = "mkdir" -> CanCreate(tree, c.path)
      [] c.kind = "remove" -> tree[c.path] # None
      [] c.kind = "rename" -> CanRename(WithDirectory(tree, Parent[c.to]), c.path, c.to)

Result(c) == IF c.kind \in Mutations THEN Succeeds(c) ELSE Truth(c.kind, c.path, tree)

Remember(t) == past' = [past EXCEPT ![now] = @ \cup {t}]

ReadFails(c) ==
    /\ c.kind \notin Mutations
    /\ unread' = unread \cup {<<now, c.kind, c.path>>}
    /\ Cardinality(unread') <= MaxUnread

PeerAnswers ==
    LET r == Head(requests)
        Answer(result) == replies' = Append(replies, [id |-> r.id, result |-> result])
    IN  /\ requests # <<>>
        /\ requests' = Tail(requests)
        /\ tree' = Effect(r.call)
        /\ Remember(tree')
        /\ \/ Answer(Result(r.call)) /\ UNCHANGED unread
           \/ /\ ReadFails(r.call)
              /\ \E result \in Tellable(r.call.kind, r.call.path, tree, TRUE) : Answer(result)
        /\ UNCHANGED <<pending, mailbox, op, caches, now, edits, lost>>

\* The peer's user, or another peer, changes a file.
OthersEdit(p) ==
    /\ edits < MaxEdits
    /\ edits' = edits + 1
    /\ \/ CanCreate(tree, p) /\ \E e \in EntryType : tree' = [tree EXCEPT ![p] = e]
       \/ tree[p] # None /\ tree' = Removed(tree, p)
    /\ Remember(tree')
    /\ UNCHANGED <<requests, replies, pending, mailbox, op, caches, now, lost, unread>>

-----------------------------------------------------------------------------
(* The bridge.                                                             *)

Cached(data, asked) == [data |-> data, expires |-> now + CacheTime, asked |-> asked]

ValidToTheEnd(entry) == entry # None /\ entry.expires >= now
Valid(entry) == entry # None /\ entry.expires > now

CacheOf(c) == IF c.kind = "list" THEN dir_cache[c.path] ELSE meta_cache[c.path]

\* o returns what it answered, from data that was asked for and stored then.
Return(o, state, answer, asked, stored) ==
    op' = [op EXCEPT ![o] =
            [state |-> state, call |-> op[o].call, answer |-> answer,
             asked |-> asked, stored |-> stored, returned |-> now]]

Called(o, c) == op[o].state = "new" /\ c \in Calls

\* A junk name never reaches the peer: it does not exist, and what is done to
\* it is pretended.
CallJunk(o, c) ==
    /\ Called(o, c)
    /\ c.path \in Junk
    /\ op' = [op EXCEPT ![o].state = IF c.kind \in Mutations THEN "ok" ELSE "failed",
                        ![o].call = c]
    /\ UNCHANGED <<requests, replies, pending, mailbox, caches, now, lost, peer>>

CallCached(o, c) ==
    LET entry == CacheOf(c)
    IN  /\ Called(o, c)
        /\ c.path \notin Junk
        /\ c.kind \in {"list", "stat"}
        /\ Valid(entry)
        /\ op' = [op EXCEPT ![o] =
              [state |-> "ok", call |-> c, answer |-> entry.data, asked |-> entry.asked,
               stored |-> entry.expires - CacheTime, returned |-> now]]
        /\ UNCHANGED <<requests, replies, pending, mailbox, caches, now, lost, peer>>

\* What has expired is removed, and the peer is asked.
Forget(c) ==
    /\ dir_cache' = IF c.kind = "list" THEN [dir_cache EXCEPT ![c.path] = None] ELSE dir_cache
    /\ meta_cache' = IF c.kind = "stat" THEN [meta_cache EXCEPT ![c.path] = None] ELSE meta_cache

RegisterNever(o) == pending
Registered(o) == pending \cup {o}

CallPeer(o, c) ==
    /\ Called(o, c)
    /\ c.path \notin Junk
    /\ c.kind \in Mutations \/ ~Valid(CacheOf(c))
    /\ Forget(c)
    /\ pending' = Registered(o)
    /\ requests' = Append(requests, [id |-> o, call |-> c])
    /\ op' = [op EXCEPT ![o].state = "waiting", ![o].call = c, ![o].asked = now]
    /\ UNCHANGED <<replies, mailbox, now, lost, peer>>

\* feed_response: a reply nobody waits for goes back to the application.
RoutableAlways(r) == TRUE
Routable(r) == r.id \in pending

FeedResponse ==
    LET r == Head(replies)
    IN  /\ replies # <<>>
        /\ replies' = Tail(replies)
        /\ mailbox' = IF Routable(r) THEN [mailbox EXCEPT ![r.id] = r] ELSE mailbox
        /\ UNCHANGED <<requests, pending, op, caches, now, lost, peer>>

\* PendingGuard is dropped with the operation, whichever way it ends.
GuardKept(o) == pending
Dropped(o) == pending \ {o}

\* A listing also caches the entries it names, over whatever is there.
EntriesArrive(o, listing) ==
    LET c == op[o].call
        asked == op[o].asked
        entry(p) == CHOOSE e \in EntryType : <<p, e>> \in listing
    IN  /\ c.kind = "list"
        /\ dir_cache' = [dir_cache EXCEPT ![c.path] = Cached(listing, asked)]
        /\ meta_cache' = [p \in Paths |->
              IF \E e \in EntryType : <<p, e>> \in listing THEN Cached(entry(p), asked)
              ELSE meta_cache[p]]
        /\ Return(o, "ok", listing, asked, now)

\* An entry is cached, its absence is not.
MetadataArrives(o, entry) ==
    LET c == op[o].call
        asked == op[o].asked
    IN  /\ c.kind = "stat"
        /\ meta_cache' = IF entry = None THEN meta_cache
                         ELSE [meta_cache EXCEPT ![c.path] = Cached(entry, asked)]
        /\ Return(o, IF entry = None THEN "failed" ELSE "ok", entry, asked, now)
        /\ UNCHANGED dir_cache

\* What a mutation changed stays in the caches.
MutationArrives(o, result) ==
    /\ op[o].call.kind \in Mutations
    /\ Return(o, IF result THEN "ok" ELSE "failed", None, op[o].asked, now)
    /\ UNCHANGED caches

Resume(o) ==
    LET result == mailbox[o].result
    IN  /\ op[o].state = "waiting"
        /\ mailbox[o] # None
        /\ EntriesArrive(o, result) \/ MetadataArrives(o, result) \/ MutationArrives(o, result)
        /\ pending' = Dropped(o)
        /\ mailbox' = [mailbox EXCEPT ![o] = None]
        /\ UNCHANGED <<requests, replies, now, lost, peer>>

\* The file manager closes its connection and the operation is dropped.
Cancel(o) ==
    /\ op[o].state = "waiting"
    /\ op' = [op EXCEPT ![o].state = "cancelled"]
    /\ pending' = Dropped(o)
    /\ mailbox' = [mailbox EXCEPT ![o] = None]
    /\ UNCHANGED <<requests, replies, caches, now, lost, peer>>

\* clear_p2p_caches, called by the application.
ClearCaches ==
    /\ dir_cache' = [d \in Directories |-> None]
    /\ meta_cache' = [p \in Paths |-> None]
    /\ UNCHANGED <<requests, replies, pending, mailbox, op, now, lost, peer>>

-----------------------------------------------------------------------------
(* The environment.                                                        *)

Disconnect ==
    /\ requests \o replies # <<>>
    /\ requests' = <<>>
    /\ replies' = <<>>
    /\ lost' = TRUE
    /\ UNCHANGED <<pending, mailbox, op, caches, now, peer>>

Tick ==
    /\ now < MaxTime
    /\ now' = now + 1
    /\ past' = [past EXCEPT ![now + 1] = {tree}]
    /\ UNCHANGED <<tree, requests, replies, pending, mailbox, op, caches, edits, lost, unread>>

NoCall == [kind |-> "none", path |-> None, to |-> None]

NewOp ==
    [state |-> "new", call |-> NoCall, answer |-> None, asked |-> 0, stored |-> 0, returned |-> 0]

Init ==
    /\ tree = InitialTree
    /\ requests = <<>>
    /\ replies = <<>>
    /\ pending = {}
    /\ mailbox = [o \in Ops |-> None]
    /\ op = [o \in Ops |-> NewOp]
    /\ dir_cache = [d \in Directories |-> None]
    /\ meta_cache = [p \in Paths |-> None]
    /\ now = 0
    /\ edits = 0
    /\ lost = FALSE
    /\ past = [i \in 0 .. MaxTime |-> IF i = 0 THEN {InitialTree} ELSE {}]
    /\ unread = {}

Next ==
    \/ \E o \in Ops, c \in Calls : CallJunk(o, c)
    \/ \E o \in Ops, c \in Calls : CallCached(o, c)
    \/ \E o \in Ops, c \in Calls : CallPeer(o, c)
    \/ \E o \in Ops : Resume(o)
    \/ \E o \in Ops : Cancel(o)
    \/ FeedResponse
    \/ ClearCaches
    \/ PeerAnswers
    \/ \E p \in Paths : OthersEdit(p)
    \/ Disconnect
    \/ Tick

\* The peer's handler, the application's feed loop and the operations run.
Fairness ==
    WF_vars(PeerAnswers) /\ WF_vars(FeedResponse) /\ \A o \in Ops : WF_vars(Resume(o))

Spec == Init /\ [][Next]_vars /\ Fairness

-----------------------------------------------------------------------------
(* Properties.                                                             *)

AnswerOf(kind) == IF kind = "list" THEN SUBSET (Paths \X EntryType) ELSE EntryType

CachedAnswer(kind) == [data : AnswerOf(kind), expires : Nat, asked : 0 .. MaxTime]

\* Types of the variables; only an operation that waits has a reply.
TypeOK ==
    /\ tree \in [Paths -> EntryType \cup {None}]
    /\ pending \subseteq Ops
    /\ \A o \in Ops : mailbox[o] # None => mailbox[o].id = o /\ op[o].state = "waiting"
    /\ \A o \in Ops :
        /\ op[o].state \in {"new", "waiting", "ok", "failed", "cancelled"}
        /\ op[o].answer # None => op[o].answer \in AnswerOf(op[o].call.kind)
    /\ \A d \in Directories : dir_cache[d] # None => dir_cache[d] \in CachedAnswer("list")
    /\ \A p \in Paths : meta_cache[p] # None => meta_cache[p] \in CachedAnswer("stat")
    /\ now \in 0 .. MaxTime
    /\ edits \in 0 .. MaxEdits
    /\ lost \in BOOLEAN

\* Whatever the interleaving of operations, replies and changes, a listing or
\* an entry the file manager is shown was the peer's at one moment after the
\* request that fetched it was sent, and less than CacheTime has passed since
\* it came: no reply is routed to the wrong operation or cached for the wrong
\* path, and no expired one is shown.  Where the peer could not read something at
\* that moment, entries may be missing, but what is shown was there.
AnswersWereTrue ==
    \A o \in Ops :
        LET s == op[o]
            c == s.call
        IN  s.state \in {"ok", "failed"} /\ c.kind \in {"list", "stat"} /\ c.path \notin Junk =>
              /\ \E i \in s.asked .. s.stored : \E t \in past[i] :
                    s.answer \in Tellable(c.kind, c.path, t, <<i, c.kind, c.path>> \in unread)
              /\ s.returned < s.stored + CacheTime

\* The table of pending requests holds exactly the operations that wait: none
\* that returned, failed or was given up stays behind, and none is missing
\* while its reply may come.
PendingIsWaiting == pending = {o \in Ops : op[o].state = "waiting"}

\* There is no timeout: an operation returns, is given up by the file manager,
\* or waits for a message that a lost connection took.
OpsReturn ==
    \A o \in Ops : op[o].state = "waiting" ~> op[o].state # "waiting" \/ lost

=============================================================================
