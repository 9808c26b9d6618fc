# Verification of p2p-functions

TLA+ specifications of what a node does for its peers (`p2p-handlers` over
`node-functions`) and of the WebDAV bridge (`web-davserver`), the TLC
configurations that check them on small instances, and proofs of theorems about
them that TLAPS checks for every instance. `PROJECT.json` lists the runs, the
theorems, the source lines every definition stands for, the hazards that the
properties are for, and, for every property, a plausible bug that violates it.

    tlc -workers 2 -config MCFileTransfer.cfg MCFileTransfer
    tlapm FileTransferProofs.tla

## The system

A message of a peer comes from the transport (`p2p-common`, outside this
repository) into `NodeHandlers::handle`, which calls the handler of the
message's capability if that capability was installed, and drops it otherwise.
The handlers are `async` and share the maps of a `NodeContext`; what takes long
runs in spawned tasks. `node-functions` does the work and knows nothing of
messages. The WebDAV bridge runs on the *asking* side: each operation of the
file manager sends a request and waits on a channel of its own for the replies
that the application hands to `feed_response`.

What everything below assumes of the code outside `src/`:

- Messages of one peer arrive in the order it sent them and are handled one by
  one. `NodeHandlers::handle` awaits its handlers, which is what makes this
  order matter; only `SyncStateRequest` is spawned as a whole.
- The application handles a message before it passes it to `feed_response`.
  Nothing in the repository says so, but the bridge cannot work otherwise: its
  `open` reads the file that the *handler* of its own node wrote.
- Transfer, request and stream ids are fresh UUIDs.
- Stopping a platform's capture stream waits for a frame callback that is under
  way, and a pipeline that cannot be played delivers no frame.

| Component | State | Operations | What is hard | What makes it correct |
| --- | --- | --- | --- | --- |
| Dispatch (`p2p-handlers/src/lib.rs`) | the installed bits | `handle`, `install` | the same arms serve peers and take the answers this node asked for | a node is served whether or not it serves |
| File transfers (`fs_local.rs` of both crates) | `active_uploads`, `active_downloads`, files, sending and reading tasks | upload and download request, acceptance, rejection, chunk, completion | tasks of several transfers on one file, foreign deletions and renames, read and write errors, messages ignored when unknown | an undisturbed transfer is exact; nothing is ignored; the maps are emptied; every request ends |
| Directory operations (`fs_local.rs` of both crates) | the files | list, stat, create, delete, rename, permissions | several peers and the user; shares within each other or of one name | answers describe the files, in the names the peer sees |
| Bridge, directories (`web-davserver/src/fs.rs`, `lib.rs`) | pending table, two caches | `read_dir`, `metadata`, `create_dir`, `remove_*`, `rename`, `feed_response`, `clear_p2p_caches` | operations overlap, replies come late or never, operations are dropped at an `await`, caches | what is shown was true at most a cache's lifetime ago; no reply goes astray; operations return |
| Bridge, files (`web-davserver/src/fs.rs`) | pending table, temporary files | `open`, `flush` | three parties on one temporary file: handler, application, operation | what is read is what the peer sent, what is written arrives |
| Bridge, authentication (`auth.rs`) | issued nonces | `issue_nonce`, `accept_nonce` | requests overtake each other, challenges expire, headers come twice | no header counts twice, every request gets through |
| Bridge, mounting (`lib.rs`) | mounts, mapped drives, URIs, servers, threads | `mount_resource`, `unmount_*`, `os_mount` | a lock released between check and insert, threads that overtake each other | one server for a resource, nothing left after unmounting |
| Terminals (`terminal.rs` of both crates) | `active_terminals`, three channels, PTY, shell | start, stop, input, resize | a supervisor that blocks, a shell that exits or does not read, replaced sessions | output complete, sessions end, no session ends another |
| SOCKS relay (`socks.rs`, `socks5.rs`) | `active_socks_streams`, two channels | connect, data, close | data before the connection, closes from both sides, full queues | order in both directions, one answer, one close, clean-up |
| Network policy (`net_guard.rs`, `net_config.rs`) | none | `resolve_allowed` | names with several addresses, redirects | a contacted address is an allowed one |
| HTTP proxy (`web_proxy.rs` of both crates) | none | `execute_proxied_request` | redirects, bodies that break off, silent origins | one start, the body in order, one completion; redirects compose |
| Folder sync (`sync_folder.rs` of both crates) | none | scan, `compute_sync_diff` | files that change or cannot be read while they are scanned | every undisturbed file is listed once, in the right class |
| Remote desktop (`desktop.rs`, `*_desktop.rs`) | stop flag | `start_capture` on four backends | a flag against callbacks, attempts that fail and go on in another task, errors that end nothing | `Starting` before `Active`, that before frames, nothing after `Stopped`; the flag ends the capture |
| Remote input (`mouse.rs`), registry, system info | none | one platform call per message | | |

## Modules

    FileTransfer ------ MCFileTransfer --- FileTransferProofs   file transfers
      +-- DavFiles ---- MCDavFiles ------- DavFilesProofs       bridge: open, flush
    DavTree ----------- MCDavTree -------- DavTreeProofs        bridge: directories
    DigestNonce -------------------------- DigestNonceProofs    bridge: challenges
    MountLifecycle ----------------------- MountLifecycleProofs bridge: mounting
    NetGuard                                                    network policy
      +-- SocksRelay -\                                         relayed connections
      +-- WebProxy ---+- MCNetwork ------- NetworkProofs        HTTP requests
          both -------> RelayContract                           what a peer relies on
    TerminalSession --\                                         terminal sessions
    DesktopCapture ---+- MCSessions ------ SessionsProofs       screen captures
          \-----------> CaptureContract                         what the receiver relies on
    SyncFolder -------\                                         comparing folders
    SharePaths -------+- MCSharedFolders - SharedFoldersProofs  shares as a peer sees them

A module of proofs extends what it is about, not the MC module, but for those
that join two components. `DavFilesProofs` extends `FileTransferProofs` as well,
as `DavFiles` extends `FileTransfer`.

The MC modules that join two components do so because one run asks the same kind
of question of both; the components share no state beside the network policy, and
a behaviour is about one of them (`OneAtATime`, `OneKind`, `OneUse`), chosen in
the initial state.

### FileTransfer

Models `fs_local.rs` of `p2p-handlers` from `FileUploadRequest` to
`FileTransferComplete` (lines 411-710) with the functions it calls, for any
number of nodes that all run the same handler.

- `net[m][n]` is the ordered connection from `m` to `n`; a `Handle...` action is
  one arm of the match, up to its last `await`. `disk[n][p]` is a file as a
  sequence of blocks, a block being one read of at most 16 KiB. Only reads that
  fill the buffer are distinguished from the end, so offsets count blocks.
- `active_uploads` and `active_downloads` are the maps of `NodeContext`.
- `sender[t]` is the spawned sending task (`phase`, `offset`) with the reading
  task of `start_local_download` (`reading`, `pos`) and the channel between them
  (`pipe`). The reading task has an open *file*, not a path: `Unlinked` and
  `HandleRename` say what deleting and renaming do to it.
- `caps` are the nodes that installed the capability, chosen among
  `Installations` in the initial state. `HandleNothing` is a node without it:
  every message is dropped.
- With `IoMayFail`, any read or write of a file may fail. A write that fails may
  have made the file, or written a part of its block first (`AfterFailedWrite`).
- The handler of an upload first makes the directory of the file, one level
  deep, and ignores how that went. Directories are left out here: a path has
  its directory, or creating the file fails.
- `original`, `delivered`, `result` and `damaged` are history. A transfer is
  *damaged* when one of its reads or writes failed or somebody else wrote,
  truncated, deleted or renamed a file it was using; what the code guarantees
  about contents, it guarantees about the others.

Both sending tasks (upload 579-633, download 478-565) are the same action but
for what they tell the peer when the file opens or does not (`AnswerOpened`,
`AnswerFailed`).

### DavFiles

`EXTENDS FileTransfer` and adds the bridge of `web-davserver/src/fs.rs` on the
same nodes: `open` for reading and `flush` of a written file. Its operations
register in `pending`, receive from `mailbox` what `Feed` (`feed_response`)
routes, and read the temporary file the handler writes. `events` is the
application between handler and `feed_response`. Between two awaits an operation
does one step; `Cancel` drops it at any `await`, which runs its `PendingGuard`.
With `IoMayFail`, `open` may fail to read its temporary file, which it reports as
"not found" and leaves behind, or to remove it, which it ignores
(`web-davserver/src/fs.rs:105-112`); `file[t].left` remembers both.

What an operation sends goes through a channel of 32 to a task of the mount that
forwards it to the peer (`lib.rs:380-386`), and a failed send is ignored. With
`MountMayEnd` the mount may end, with what is queued: the request of an operation
may be lost (`Begin`), and of a write everything from some block or the completion
on, while `flush` returns `Ok` all the same (`FlushCut`). `file[t].lost` remembers
this. What is forwarded keeps its order, so that nothing arrives after what was
lost; the channel itself and the moment at which a message passes it are left out.

### DavTree

The directory operations of the bridge, from the call to what it returns, with
the peer's handler. A call is answered from the cache, refused as junk, or sent
to the peer (`CallJunk`, `CallCached`, `CallPeer`); `Resume` is what follows the
`await` of the reply, with the insertions into both caches. The lookup of the
cache, the registration and the request are one step, because nothing between
them depends on another task. `past` remembers which trees the peer had at each
time. `WithDirectory` is the `create_dir_all` a renaming begins with. The peer
does not report that it could not read: a directory lists the entries it could
read, or nothing, and an entry without metadata is none
(`node-functions/src/fs_local.rs:58-99`); `unread` remembers when that happened.
A creation, deletion or renaming fails only for reasons that are in the tree.

### DigestNonce

`issue_nonce` and `accept_nonce` with their expiry, and a client that has
several requests under way, counts them, or sends a bare nonce, and repeats what
is refused. `ServeAgain` is a header that arrives once more, as it was. Nonces are
numbered in the order they are minted; the digest itself is taken to be right, and
to cover the counter. (With `qop`, `nc` and `cnonce` it does; a header without
`qop` or `cnonce` may carry a counter that the digest does not cover,
`auth.rs:389-403`, and is not modelled.)

### MountLifecycle

`mount_resource`, `unmount_resource` and `unmount_all`, called by several threads
of the application, and the threads they start: one server for each mount and
the two kinds of `os_mount`. The lock of `mounts` is held for the lookup alone
(`MountLooksUp`) and again for the insertion (`MountKeepsHandle`); in between a
port is probed and its URIs are kept (`MountPicksPort`), and the server's thread
binds or fails (`ServerBinds`, `ServerCannotBind`). Probing and keeping the URIs
are one step: neither reads what the other writes. `taken` are ports that other
programs hold from the start; that one takes a port later is part of
`ServerCannotBind`. A thread that unmounts forgets the URIs of its *port*, then
unmounts the drive that is kept for it, whoever has that port by then. The drive is
forgotten before the command runs, whose result is ignored: the volume may stay
(`OsUnmounts`). On Linux no drive is kept, and `gio` is given the location of the
port without its secret, which finds a volume of that port or none
(`GioUnmounts`); `linux` is chosen in the initial state. `volumes` is what the
operating system has mounted. `untracked` is history: the servers whose volume
the code cannot unmount any more, because the command failed, another mount
remembered its own drive for the port, or the drive was remembered too late or
not at all.

### TerminalSession

The handler, and per session the supervisor (`select!` over input, resizes and
a 100 ms sleep), the thread that reads the PTY and the task that forwards its
output. Every branch of the `select!` is an action; the write of an input is two,
since the supervisor awaits a blocking write in between. The shell and the
kernel's two PTY buffers are environment: the shell may read, write, exit, start a
background job (`ShellStartsJob`), or do nothing. A job survives its shell and
holds the slave side of the PTY until it ends, if it ever does; until then the
reader thread's `read` does not return (`ReaderAtEnd`). The peer may send input and
sizes without end; the sleep ends only when both channels are empty
(`PollTimerFires`). Bytes are counted, not told apart.

### NetGuard, SocksRelay, WebProxy and RelayContract

`NetGuard` is `resolve_allowed` and the flag of a resource: of the addresses a
name resolves to, those that may be contacted. It is pure; whether an address is
local is part of the instance. The addresses that pass are the ones contacted; a
proxy that the system configures for the HTTP client is outside the model.

`SocksRelay` has the handler, the task that connects, answers, relays and cleans
up, and the reading and writing tasks. Blocks are numbered, so that order and
gaps show. `contacted` remembers the addresses of the connection.

`WebProxy` has the two tasks of each HTTP request. `fetch` is the executing one:
it resolves (`Resolve`, with the addresses the hop's client may use), makes a
request (`Exchange`, whose reply is final, a failure, or a redirection of either
kind), and then emits events into the bounded channel; `Receive` and `SendMsg`
are the forwarding task, which cuts chunks into messages. The origin may stay
silent at any point. `hops` remembers every request that was made.

`RelayContract` is what a peer relies on: one answer, then what the other end
sent in order without a gap, then one close, none before the other end ended.
`HonoursContract` refines it by relayed connections, `HonoursResponse` by HTTP
responses; there a refusal is status 502 with its text and its completion, and
the contract allows a body that broke off to be completed short.

### DesktopCapture and CaptureContract

One capture on one backend: Linux with portal and pipeline or with the loop of
screenshots, Windows, macOS, synthetic frames, none. `task` is the task of the
backend, `loop` the loop that takes pictures itself, to which Linux falls back
from any failure; `FrameCallback` and `DeliverFrame` are the platform's callback
with the frame under way in between; `BusError` is the bus watch, which reports
and goes on. Where backends do the same, the action is shared and the map names
the lines of one. `CaptureContract` is what the receiver of the callbacks may
rely on; it needs to know of the platform only whether it may stop.

### SyncFolder

The scans of two nodes and the comparison. A scan visits the files of each
resource's directory in any order (`Visit` takes the size), opens each (`Open`)
and hashes it block by block (`ReadBlock`, `HashFile`), with every step apart,
since other programs change the same files (`Edit`): a file written in place
changes what is read next, a removed one is read to its end. Opening may fail,
and reading may fail at any block; a file that cannot be found in the directory or
measured is left out without a word (`Visit`, `sync_folder.rs:158-161`). `unread`
remembers them all. A hash is the sequence of blocks it was
computed from. What is ignored is given by the names and the entries that match.

### SharePaths

What a path of the peer means under a resource with no, one or several shares
(`resolve_in`, `resolve_and_sandbox_path`), what the handler then does to the
directories, and which parent it names in its answer (`virtual_parent`). A path
is a sequence of names; `.` and repeated slashes are left out. Each request is
one step: the handler takes one message of a peer at a time.

The check of a path is lexical, and the disk has symbolic links (`links`): nothing
is below a link, a path follows those above its entry (`EntryAt`) or its entry too
(`DirectoryAt`), deleting or moving a link leaves what it leads to, and
`create_dir_all` stops at a link to nowhere. On Windows a name may carry a drive
(`DriveNames`): the check of the name of a new directory does not see it, and
`push` replaces the path by it (`Pushed`). `InReach` says what a request may
change in consequence: what is in a share, what is where a link led at the start
(`targets`), and other drives, if names can have them. No request makes a link; a
path leads through three at most (a bound of `AllFollowed`).

## What is checked

| Run | Instance and bounds | Shows |
| --- | --- | --- |
| `transfer` | 2 nodes, of which the asking one may have installed nothing; an upload over a file that is being downloaded; files of 0 to 2 blocks or missing; channel of 2; I/O errors, also half-way through a write; 1 foreign deletion or renaming | `Integrity`, `ChunksExpected`, `EntriesReclaimed`, `TransferEnds` |
| `consumer_only` | a download by a node without the capability | **violated**: it is not served |
| `dav_files` | a bridge that reads a file while it writes it; 0 or 1 block to read, 1 to write; channel of 1; I/O errors, also on the temporary file; a mount that may end; 1 foreign edit | `OpenReturnsFile`, `WriteArrives`, `WriteEnds`, `TempFilesRemoved`, `OperationsEnd` |
| `dav_empty` | the same without errors | **violated**: an empty file is not opened |
| `dav_tree` | 2 overlapping operations out of 8 calls over a directory, a junk name in it and a file; lifetime 1 of 2 instants; 1 foreign edit; 1 listing or entry the peer fails to read | `AnswersWereTrue`, `PendingIsWaiting`, `OpsReturn` |
| `digest` | 2 requests under way, 1 repeated header, lifetime 1 of 2 instants, at most 9 challenges (more than the behaviours mint) | `AcceptedOnce`, `RequestServed` |
| `mount` | 2 threads, 2 resources, 2 ports of which other programs hold any, 2 servers; Linux or not; commands that fail | `MountedIsServed`, `HandleKept`, `UnmountStops`, `DriveUnmounted` |
| `sessions` | 2 terminals over 2 resources, all capacities 1, input without end, 1 output and a background job; or 1 capture on any of 5 backends, 3 frames, 2 bus errors | `OutputDelivered`, `RegisteredShellLives`, `StopEndsSession`, `ExitEndsSession`, `HonoursCapture`, `StopHeeded` |
| `terminal_stop` | 1 session | **violated**: stopping does not kill a shell that reads no more |
| `network` | 1 stream, queue of 2, channel of 1, up to 4 blocks up and 3 down; or 1 of 2 HTTP requests (one that may reach local networks), 2 redirects, channel of 1, 3 blocks; 3 addresses, one ours, one in a local range | `UpstreamInOrder`, `CloseAfterData`, `RedirectsCompose`, `OnlyAllowedContacted`, `HonoursContract`, `HonoursResponse`, `RequestsEnd`, `TargetEndTearsDown` |
| `socks_gap` | the same stream | **violated**: a full queue loses a block in the middle |
| `shared_folders` | 2 nodes with 2 files of 0 to 2 blocks, 3 lists of resources (a directory that is gone, two of one name, ignored entries), 1 edited file, failures at every file and read; or 5 lists of shares (none, one, beside, within each other, of one name), 8 paths of the peer, local paths to depth 3, 2 trees (a link out of a share beside one to itself, none), 1 drive name, 2 requests that change something | `VerdictsTrue`, `PathsLeadBack` |

**Why these bounds are enough.** Capacities are only compared with the length of
a queue, so 1 or 2 shows empty, partly filled and full; two blocks show a first,
a last and an old tail that is longer than the new file. One foreign edit
suffices for every way one transfer's file can be taken away; two transfers on
one file show every interference of pairs. In `dav_tree` two operations overlap,
and one fills the cache the other reads; one failed reading (`MaxUnread`) shows
what each kind of answer may then be, and that the next is right. In `sessions`,
one terminal does all a terminal may do (`Lively`) beside one that only takes
input, is stopped, replaced and polled (`QuietSiblings`): they share the map
alone. In `dav_files` one block each way is enough, since its blocks travel as in
`transfer`: what the run adds is what happens before the first, between and after
the last message. Two redirects (`MaxRedirects`)
give every sequence of the two kinds and one that is refused; three blocks of a
body (`MaxBody`) give chunks of one and of several messages with a channel of one
(`EventCap`). Three frames (`MaxFrames`; more are not recorded) tell the first from
the next; an error of the pipeline changes nothing, so two (`MaxBusErrors`)
suffice. One edited file, anywhere in either scan, is every way a scan can be
disturbed, and a second, undisturbed file shows that the others are unaffected;
two changes to the shares (`MaxChanges`) are one that removes what another needs.
To keep the run short, one node's list always has a single resource, and both do
when nobody asks for the folder (`wanted = {}`): a comparison sees of each node
nothing but the list its scan has made, and every list meets the plain one.
Nothing depends on the number of
sessions or streams but through the maps, which are keyed by them.

**Fairness.** Weak fairness, and only for what the runtime schedules: a task,
thread or receive loop that can take a step takes one. Never assumed: that the
application asks, that a peer sends or closes, that a shell reads, writes or
exits, that a background job ends, that a target takes data or ends, that an origin
answers or ends its body, that a portal answers, that a frame arrives, that the file manager gives up, that the
clock moves, that a port is free, that a connection is lost or an error occurs. `SocksRelay` assumes
that a connection attempt ends, `WebProxy` that a name is resolved, which the
system's timeouts guarantee; `DesktopCapture` that the platform calls that ask
nobody return; `MountLifecycle` that the commands its threads start end. The
branches of a `select!` are taken to be chosen fairly as a whole (one action is
taken), not each for itself.

**What the properties except.** Where the code does not promise an end or a
success, the property names the case, and so does not catch it: a reply that
never comes because messages were lost (`OpsReturn`, `OperationsEnd`); what a mount
takes with it when it ends (`WriteEnds`), although `flush` had said `Ok`; a temporary
file that cannot be read or removed (`TempFilesRemoved`); a terminal whose write
blocks for good or whose background job never ends (`StopEndsSession`,
`ExitEndsSession`), and input that never ceases (`ExitEndsSession`); calls for one
resource that overlap (`HandleKept`); failed commands and drives nobody remembers
(`DriveUnmounted`); a still screen and an open dialog (`StopHeeded`); blocks that a
full queue refused (`UpstreamInOrder`; `NoGap` is the run that shows them); a silent
origin (`RequestsEnd`); files that a node could not read (`VerdictsTrue`); what links
and drive names lead to (`PathsLeadBack`). These properties show that nothing else
leads there.

**Deadlock** is not checked: each of these systems may come to rest when all was
answered and nobody asks for more.

### Findings

1. `ConsumerIsServed` — README.md says that a node that registers nothing uses
   everything its peers share. Without `FILESYSTEM` the handler drops the very
   answers and blocks it asked for (`p2p-handlers/src/lib.rs:91-94`).
2. `StopKillsShell` — the comment on `StopTerminal` says dropping the sender
   kills the PTY. While a write blocks because the shell does not read, nobody
   looks at the channel (`node-functions/src/terminal.rs:90-96`).
3. `NoGap` — a relayed TCP connection loses a block when its queue is full
   (`p2p-handlers/src/socks.rs:82`).
4. `FileThereOpens` — an empty file is listed by the bridge but opening it gives
   "not found", since its download writes no temporary file
   (`web-davserver/src/fs.rs:104-111`).

## What is proved

For every value of the constants that satisfies the assumptions, with TLAPS (SMT,
Zenon, and LS4 for the temporal steps). Every safety invariant that the runs
check is proved, and so are the three refinements and one action property. Each proof carries an inductive invariant, has one lemma for
each action and, for what a step is not about (the other transfers, streams,
sessions, the other node's scan), one lemma that says it keeps what it has.

| Theorem | States | What it needs beyond the property |
| --- | --- | --- |
| `FileTransferProofs!TypeCorrect` | `[]TypeOK` | `ReadersOpen`: a task that reads streams a file that exists, at its place or unlinked |
| `FileTransferProofs!BlocksAreExpected`, `MapsAreReclaimed` | `[]ChunksExpected`, `[]EntriesReclaimed` | `ProtocolInv` |
| `FileTransferProofs!TransfersAreExact` | `[]Integrity` | `DataInv` over `ProtocolInv` |
| `DavFilesProofs!BridgeInvariant`, `TempFilesAreGone`, `WritesArrive` | `[]DavInv`, `[]TempFilesRemoved`, `[]WriteArrives` | `DavInv` |
| `DavFilesProofs!OpensReturnTheFile` | `[]OpenReturnsFile`, if `OpenersInstalled` | `DavInv` |
| `DavTreeProofs!TreeTypeCorrect`, `PendingCorrect`, `AnswersCorrect` | `[]TypeOK`, `[]PendingIsWaiting`, `[]AnswersWereTrue` | `TreeInv` |
| `DigestNonceProofs!TypeCorrect`, `NoReplay` | `[]TypeOK`, `[]AcceptedOnce` | `CountersRemembered` |
| `MountLifecycleProofs!TypeCorrect`, `PortIsServed` | `[]TypeOK`, `[]MountedIsServed` | `Waiters`, `StoppingRan` |
| `MountLifecycleProofs!NoHandleLost` | `[]HandleKept` | `HandleInv` |
| `SessionsProofs!TerminalTypeCorrect`, `TerminalOutputDelivered`, `TerminalShellLives` | `[]TypeOK`, `[]OutputDelivered`, `RegisteredShellLives` | `TerminalInv` |
| `SessionsProofs!CaptureRefines`, `SessionsTypeCorrect` | `HonoursCapture`, `[]TypesOK` | `CaptureInv` |
| `NetworkProofs!RelayTypeCorrect`, `UpstreamCorrect`, `CloseWaitsForData`, `RelayRefines` | `[]TypeOK`, `[]UpstreamInOrder`, `[]CloseAfterData`, `HonoursContract` | `RelayInv` |
| `NetworkProofs!WebRedirects`, `WebRefines` | `[]RedirectsCompose`, `HonoursResponse` | `WebInv` |
| `NetworkProofs!NetworkTypeCorrect`, `NetworkPolicyHolds` | `[]TypesOK`, `[]OnlyAllowedContacted` | both of the above |
| `SharedFoldersProofs!NamesLeadBack`, `SharesLeadBack` | `[](ListedIsFound /\ ParentIsFound)`, `[]PathsLeadBack` | `SharesInv`, `AncestorsThere` |
| `SharedFoldersProofs!SyncVerdicts`, `FoldersCorrect` | `[]VerdictsTrue`, both | `SyncInv` |

**File transfers.** Neither `ChunksExpected` nor `EntriesReclaimed` is inductive:
both follow from what a message *says of the state its handler will find*.
`ChannelInv` orders the messages of one transfer in its channel (blocks ascending,
the completion last) and lets the proofs speak of the set of them, `Flight(t)`;
`Told` ties each kind of message to the phase of the sending task and to the
entries of both maps; `Known` says that whoever may receive a block knows the
transfer or has an acceptance before it, and `Reclaimed` that an entry outlives
its task only with a completion under way. For `Integrity` the blocks are tracked
from the open file to the disk: `Piped` says what is in the channel between the
two tasks, `Arrived` that what is on disk and what is in flight together are what
was sent. A damaged transfer is left out of both, so the theorem says that damage to one
transfer never reaches another, which is where deletions and renames under an
open file (`HandleDelete`, `HandleRename`) make the work. The lemmas speak of the
transfers of a set `T` (`ProtocolOf(T)`, `DataOf(T)`), all of them here, so that a
specification that has other traffic beside this protocol can use them.

**Files of the bridge.** `DavFiles` joins its actions to those of `FileTransfer`
in one next-state relation, so nothing proved of `FileTransfer` holds of it for
free. `DavInv` divides the transfers. The bridge's downloads are transfers like
any other (`Transferred`, all that are not writes) and keep `ProtocolOf`; those
whose temporary file has not yet been taken away (`Kept`) keep `DataOf` too. Of a
download `OpenInv` adds what a reply *in the hands of the application or in the
operation's channel* says of the peer's task (`ReplyTold`): a completion that is
heard is the last of its transfer, so nothing can write the temporary file again
(`Temporary`) once `open` has returned. Whether it could be read and removed is
outside the code's hands: `file[t].left` excepts such an open, and what the
invariant says of the others does not depend on it. Its writes have no sending
task and no entry in `active_uploads`, so they need an invariant of their own,
`WriteInv`: requests
and answers travel alone (`MessageOfWrite`), and from the acceptance on, blocks
arrived and blocks in flight are together what was flushed up to `file[t].pos`
(`Underway`, `Arriving`). A write that the end of its mount cut off sends nothing
more, so that no completion can follow the gap. It also admits the entry that the
writing node's handler makes of the acceptance (`Noted`), which is harmless
because no block comes for it. `Aside` says what a step about one operation leaves
of every other.

`OpenersInstalled` says that in every network considered the nodes that open
files installed the handler. It is needed: without the handler the blocks of a
download are dropped while the completion is still passed to the bridge, and
`open` then reports what is not so. That is the situation of finding 1; the run
`dav_files` makes the same restriction through `Installations`.

**Directories of the bridge.** A reply is right if the peer's tree was so at a
moment since *its own* operation asked. `TreeInv` carries this (`WasTrue`) from
the request through the reply, the mailbox and the caches to what is shown; a
listing also tells the truth about each of its entries (`ListingTells`), which is
what makes filling the other cache from it sound. That the history only grows
keeps the whole true. So does what the peer failed to read (`unread`), which only
grows.

**Authentication.** The counters accepted so far say nothing about the next one;
`CountersRemembered` adds that as long as the server remembers a nonce, all
counters accepted with it are at most `highest_nc` and none was 0, and what was
never minted was never accepted. Forgetting a nonce by expiry is sound because a
nonce is never minted twice.

**Mounting.** That a handle enters the table needs `Waiters`: the server a caller
waits for is in no table, has not been told to stop, and no other caller waits
for it. That two resources never share a server follows from `MountedIsServed`
itself; `StoppingRan` says that a server not yet started has not been stopped.
For `HandleKept`, `LateMountOverlaps` says that a resource is mounted during a
call for it only if calls overlapped, the one way in which an insertion replaces
a handle.

**Terminals and captures.** `NothingLost` and `Drained` are the path of the output
through kernel, channel and forwarding task, `KilledIsForgotten` the reason why no
session kills another's shell: a supervisor kills only once its sender was
dropped from the map, and no map has a session twice. A job that outlives its
shell only delays the end of the reading thread, so that what it writes is
delivered too. `TaskReports` and
`LoopReports` say, for each place of either task of a capture, what was reported
so far; every step then maps to a step of `CaptureContract` or to a stutter.

**Network.** `RelayInv` numbers the blocks: what is written and queued is in
order and complete but for what was refused (`Accounted`), what is in the reading
task's channel follows what the peer was sent. In `WebInv`, `Numbered` lays the
messages of a response over what was sent, what is being sent and the events
under way, so that cutting chunks into messages keeps the order; `Composed` says
of the *next* request what `RedirectsCompose` says of those made. Both refine
`RelayContract` step by step.

**Shares.** `LeadsTo` describes a resolved path by the share's directory, what
follows it and the prefix the peer sees; from it, resolving what
`virtual_parent` and a listing return is computed for every list of shares.
`ChangesInReach` needs that following links stays within reach: a path under a
share's directory leads to what is under that directory or under where some link
led (`LedInReach`), which holds of every path as long as links only move or go
(`LinksTyped`). It is proved under the hypothesis `SharesHaveParents`, that the
directories above the shared ones exist when the node starts: the `create_dir_all`
before a renaming would otherwise make them, and they are outside the shares. What
a share's owner links to, or a drive name reaches, is not kept from the peer, and
no theorem says so.

**Folder synchronisation.** `SyncInv` says of a scan, wherever it is, that its
list has the files it has passed, but those that could not be found or measured
(`Due`), and that what it says of each is right
unless somebody changed that file (`Correct`): the size is the file's, the hash
is of a beginning of it, and of all of it if no read failed. An item for a file
that one node could not read is called identical only if the hash of a beginning
is the other's hash of the whole and the sizes agree, which makes them equal.

**Assumptions** (all evaluated by TLC on every run): the ends of a transfer differ;
`None`, `Eof`, `Fault` and the other markers are distinct from data and from each
other; capacities are at least 1; files, calls and shares are of the shapes the
modules describe; what is renamed in `DavTree` has nothing below it
(`TreeAssumption`). The number of nodes, transfers, operations, streams, sessions
and callers, every capacity and every bound may be any.

**Only model-checked**: the liveness properties (`TransferEnds`, `WriteEnds`,
`OperationsEnd`, `OpsReturn`, `RequestServed`, `StopEndsSession`,
`ExitEndsSession`, `StopHeeded`, `RequestsEnd`, `TargetEndTearsDown`,
`UnmountStops`, `DriveUnmounted`): fairness and `ENABLED` are out of reach of these
provers.

## What is not modelled

- The transport, its handshake and its access checks: other repositories.
- Remote input, registry, system information, package installers: platform
  calls without state or concurrency of their own.
- Within modelled parts: permission bits, progress events,
  dates and sizes of entries, the encoding of names in requests of the bridge
  (decided by `dav_server`), the secret path of a mount, `open_in_explorer` and
  the bookmark file of KDE, `duplicate_local_entry` and `start_local_upload`, which
  no message reaches, and `.metadata_never_index`, a name the bridge makes up;
  HTTP headers; the classes of addresses themselves; the installation of GStreamer
  packages, the restore token of the portal and what a frame shows; `.` in paths
  of the peer; files and failing deletions in `SharePaths` (files are in
  `DavTree`); links to files, and links that a peer's user makes later; a digest
  without `qop` or `cnonce` (`auth.rs:389-403`); a system proxy of the HTTP client
  (`web_proxy.rs`); the directory an upload makes first
  (`p2p-handlers/src/fs_local.rs:452`); errors of the peer's file system in
  directory operations other than reading.
- Who sends a `SyncStateRequest` and what becomes of the comparison: the
  repository has no caller of `compute_sync_diff`. The answer names the resource
  and not the request, so that a caller with two requests under way cannot tell
  the answers apart; nothing in the repository says that it may have two.
- A stream id that a peer uses again after its close (SocksRelay).

## Plan

1. Done: the components above, each with its contract where it has one; every
   safety property that a run checks, and the three refinements, proved.
2. A stream id that is used again (SocksRelay), with the clean-up that removes by
   id; several `SyncStateRequest`s under way (SyncFolder).
3. What becomes of the entry that the acceptance of the bridge's own write leaves
   in `active_downloads` (`p2p-handlers/src/fs_local.rs:635`): `DavFiles` has the
   step and no property suffers from it, but nothing removes the entry.
