---------------------------- MODULE FileTransfer ----------------------------
(***************************************************************************)
(* The file transfer protocol between nodes: an upload or a download is    *)
(* requested, answered, streamed in blocks and completed.  Every node runs *)
(* the same handler (p2p-handlers/src/fs_local.rs) over the same local     *)
(* file functions (node-functions/src/fs_local.rs), serving some transfers *)
(* and consuming others.                                                   *)
(*                                                                         *)
(* A node handles the messages of one peer in the order they were sent:    *)
(* NodeHandlers::handle awaits the handler and spawns only what takes long *)
(* (the two sending tasks).  Different peers, the sending tasks and the    *)
(* deletions and renames a third party asks for interleave freely.         *)
(*                                                                         *)
(* A block stands for one read of at most 16 KiB, so offsets and sizes are *)
(* counted in blocks.                                                      *)
(***************************************************************************)
EXTENDS Integers, Sequences

CONSTANTS
    Nodes,          \* the peers
    Installations,  \* the sets of them that may have installed FILESYSTEM
    Transfers,      \* transfer ids: fresh UUIDs, so one request each
    Paths,          \* paths inside a share that resolve to a local file
    Blocks,         \* what one read of a file returns
    Hole,           \* a block of zeros, where a write began past the end
    None,           \* no file, no entry, or a path that does not resolve
    Eof, Fault,     \* the empty vector and the Err a reading task ends with
    Job,            \* what each transfer asks for
    InitialDisks,   \* the files the nodes may start with
    IoMayFail,      \* whether file operations may return errors
    PipeCap,        \* capacity of the channel between reading and sending task
    MaxEdits        \* bound on the deletions and renames of a behaviour

\* Blocks a file can hold, and the files.
Block == Blocks \cup {Hole}
File == Seq(Block)

\* A download lands in temp_dir/transfer_id: the id names the place.
Places == Paths \cup Transfers

JobType ==
    [kind : {"upload", "download", "write"}, by : Nodes, with : Nodes,
     local : Paths, remote : Paths \cup {None}]

ASSUME JobAssumption ==
    /\ Job \in [Transfers -> JobType]
    /\ \A t \in Transfers : Job[t].by # Job[t].with

ASSUME DiskAssumption ==
    InitialDisks \subseteq [Nodes -> [Paths -> Seq(Blocks) \cup {None}]]

ASSUME BoundsAssumption ==
    /\ Installations \subseteq SUBSET Nodes
    /\ PipeCap \in Nat \ {0}
    /\ MaxEdits \in Nat
    /\ IoMayFail \in BOOLEAN

ASSUME DistinctAssumption ==
    /\ None \notin File
    /\ None \notin Places
    /\ None \notin [path : Places, size : Nat]
    /\ Eof # Fault
    /\ {Eof, Fault} \cap Block = {}
    /\ Paths \cap Transfers = {}

VARIABLES
    net,              \* net[m][n]: messages from m that n has not handled yet
    disk,             \* disk[n][p]: the file at place p of node n
    active_uploads,   \* active_uploads[n][t]: the local file n offered to send
    active_downloads, \* active_downloads[n][t]: where n puts the blocks of t
    sender,           \* sender[t]: the task that sends t, with its reading task
    edits,            \* deletions and renames so far
    caps,             \* the nodes that installed Capabilities::FILESYSTEM
    requested,        \* transfers whose request was sent
    result,           \* result[t]: how the receiving side saw t end
    original,         \* history: the file as the sending task opened it
    delivered,        \* history: the file when its FileTransferComplete came
    damaged           \* history: transfers an error or another writer disturbed

vars == <<net, disk, active_uploads, active_downloads, sender, edits, caps,
          requested, result, original, delivered, damaged>>

history == <<requested, result, original, delivered, damaged>>

\* Uploads send a file of the node that asks, and so do the WebDAV bridge's
\* writes (DavFiles), which hold it in memory.
Sender(t) == IF Job[t].kind = "download" THEN Job[t].with ELSE Job[t].by
Receiver(t) == IF Job[t].kind = "download" THEN Job[t].by ELSE Job[t].with

IdleSender ==
    [phase |-> "idle", file |-> None, held |-> None, pos |-> 0,
     reading |-> FALSE, pipe |-> <<>>, offset |-> 0]

OpeningSender(p) == [IdleSender EXCEPT !.phase = "opening", !.file = p]

-----------------------------------------------------------------------------
(* Messages.                                                               *)

UploadRequest(t) == [type |-> "FileUploadRequest", id |-> t, path |-> Job[t].remote]
DownloadRequest(t) == [type |-> "FileDownloadRequest", id |-> t, path |-> Job[t].remote]
Accepted(t, size) == [type |-> "Accepted", id |-> t, size |-> size]
Rejected(t) == [type |-> "Rejected", id |-> t]
FileChunk(t, offset, data) == [type |-> "FileChunk", id |-> t, offset |-> offset, data |-> data]
FileTransferComplete(t) == [type |-> "FileTransferComplete", id |-> t]

Message ==
    [type : {"FileUploadRequest", "FileDownloadRequest"}, id : Transfers,
     path : Paths \cup {None}]
      \cup [type : {"Accepted"}, id : Transfers, size : Nat]
      \cup [type : {"Rejected", "FileTransferComplete"}, id : Transfers]
      \cup [type : {"FileChunk"}, id : Transfers, offset : Nat, data : Block]

\* The message from m that n handles next is of this type.
Arrives(m, n, type) ==
    n \in caps /\ net[m][n] # <<>> /\ Head(net[m][n]).type = type

Send(m, n, msg) == net' = [net EXCEPT ![m][n] = Append(@, msg)]
Consume(m, n) == net' = [net EXCEPT ![m][n] = Tail(@)]
Reply(m, n, msg) == net' = [net EXCEPT ![m][n] = Tail(@), ![n][m] = Append(@, msg)]

-----------------------------------------------------------------------------
(* The local disk.                                                         *)

\* What a file holds; one that is missing holds nothing.
Contents(file) == IF file = None THEN <<>> ELSE file

\* create_local_file truncates what is there.
CreateFileKeeping(file) == Contents(file)
CreateFile(file) == <<>>

\* A file opened for writing without truncation, created when missing,
\* written at a block offset.
WriteBlockTruncating(file, offset, data) ==
    [i \in 1 .. offset + 1 |-> IF i = offset + 1 THEN data ELSE Hole]

WriteBlock(file, offset, data) ==
    LET old == Contents(file)
        len == IF offset < Len(old) THEN Len(old) ELSE offset + 1
    IN  [i \in 1 .. len |-> IF i = offset + 1 THEN data
                            ELSE IF i <= Len(old) THEN old[i]
                            ELSE Hole]

\* What a write that fails may leave of a file: what was there, a new file with
\* nothing in it, or a part of the block.
AfterFailedWrite(file, offset) ==
    {file, WriteBlock(file, offset, Hole)} \cup (IF file = None THEN {<<>>} ELSE {})

\* The transfers node n is receiving into, or reading from, place p.
Receiving(n, p) ==
    {t \in Transfers : active_downloads[n][t] # None /\ active_downloads[n][t].path = p}

Reading(n, p) ==
    {t \in Transfers : Sender(t) = n /\ sender[t].reading /\ sender[t].file = p}

\* The file the reading task of t has open: the one at its place, or the
\* contents that place had when it was unlinked.
OpenFile(t) ==
    IF sender[t].file = None THEN sender[t].held ELSE disk[Sender(t)][sender[t].file]

\* The tasks that had the file at p open keep it open after p lost it.
UnlinkedForgotten(n, p) == sender

Unlinked(n, p) ==
    [t \in Transfers |->
        IF t \in Reading(n, p)
        THEN [sender[t] EXCEPT !.file = None, !.held = disk[n][p]]
        ELSE sender[t]]

-----------------------------------------------------------------------------
(* The requesting side.                                                    *)

\* The application offers a local file and asks the peer to take it.
StartUpload(t) ==
    /\ Job[t].kind = "upload"
    /\ t \notin requested
    /\ requested' = requested \cup {t}
    /\ active_uploads' = [active_uploads EXCEPT ![Job[t].by][t] = Job[t].local]
    /\ Send(Job[t].by, Job[t].with, UploadRequest(t))
    /\ UNCHANGED <<disk, active_downloads, sender, edits, caps, result, original,
                   delivered, damaged>>

\* A reader (the WebDAV bridge's open) asks the peer for a file.
StartDownload(t) ==
    /\ Job[t].kind = "download"
    /\ t \notin requested
    /\ requested' = requested \cup {t}
    /\ Send(Job[t].by, Job[t].with, DownloadRequest(t))
    /\ UNCHANGED <<disk, active_uploads, active_downloads, sender, edits, caps,
                   result, original, delivered, damaged>>

-----------------------------------------------------------------------------
(* The message handler of node n, for a message from m.                    *)

Register(n, t, path, size) ==
    active_downloads' = [active_downloads EXCEPT ![n][t] = [path |-> path, size |-> size]]

KeepRegistered(n, t) == UNCHANGED active_downloads
Deregister(n, t) == active_downloads' = [active_downloads EXCEPT ![n][t] = None]

\* The entry is inserted before the file is created, and stays when that fails.
\* (The code first creates the directory, one level deep, and ignores how that
\* went.  Here a path that resolves has its directory, or creating the file at
\* it fails; directories are the subject of DavTree.)
HandleUploadRequest(m, n) ==
    LET msg == Head(net[m][n])
        t == msg.id
        p == msg.path
    IN  /\ Arrives(m, n, "FileUploadRequest")
        /\ \/ /\ p = None
              /\ Reply(m, n, Rejected(t))
              /\ UNCHANGED <<active_downloads, disk, damaged>>
           \/ /\ p # None
              /\ Register(n, t, p, 0)
              /\ Reply(m, n, Accepted(t, 0))
              /\ disk' = [disk EXCEPT ![n][p] = CreateFile(@)]
              /\ damaged' = damaged \cup ((Receiving(n, p) \cup Reading(n, p)) \ {t})
           \/ /\ p # None
              /\ IoMayFail
              /\ Register(n, t, p, 0)
              /\ Reply(m, n, Rejected(t))
              /\ UNCHANGED <<disk, damaged>>
        /\ UNCHANGED <<active_uploads, sender, edits, caps, requested, result, original,
                       delivered>>

\* Everything a download does runs in a task of its own.
HandleDownloadRequest(m, n) ==
    LET msg == Head(net[m][n])
    IN  /\ Arrives(m, n, "FileDownloadRequest")
        /\ sender' = [sender EXCEPT ![msg.id] = OpeningSender(msg.path)]
        /\ Consume(m, n)
        /\ UNCHANGED <<disk, active_uploads, active_downloads, edits, caps, history>>

\* The answer to an upload this node offered starts the sending task; any
\* other acceptance announces a download, bound for the temporary directory.
HandleAccepted(m, n) ==
    LET msg == Head(net[m][n])
        t == msg.id
    IN  /\ Arrives(m, n, "Accepted")
        /\ \/ /\ active_uploads[n][t] # None
              /\ sender' = [sender EXCEPT ![t] = OpeningSender(active_uploads[n][t])]
              /\ active_uploads' = [active_uploads EXCEPT ![n][t] = None]
              /\ UNCHANGED active_downloads
           \/ /\ active_uploads[n][t] = None
              /\ Register(n, t, t, msg.size)
              /\ UNCHANGED <<sender, active_uploads>>
        /\ Consume(m, n)
        /\ UNCHANGED <<disk, edits, caps, history>>

\* A rejection is only logged: an offered file stays in active_uploads.
HandleRejected(m, n) ==
    LET t == Head(net[m][n]).id
    IN  /\ Arrives(m, n, "Rejected")
        /\ result' = [result EXCEPT ![t] = "rejected"]
        /\ Consume(m, n)
        /\ UNCHANGED <<disk, active_uploads, active_downloads, sender, edits, caps,
                       requested, original, delivered, damaged>>

\* A block of an unknown transfer is ignored, and so is that a write failed,
\* which may have changed the file by then.
HandleChunk(m, n) ==
    LET msg == Head(net[m][n])
        t == msg.id
        entry == active_downloads[n][t]
    IN  /\ Arrives(m, n, "FileChunk")
        /\ \/ /\ entry = None
              /\ UNCHANGED <<disk, damaged>>
           \/ /\ entry # None
              /\ disk' = [disk EXCEPT ![n][entry.path] = WriteBlock(@, msg.offset, msg.data)]
              /\ damaged' = damaged \cup
                    ((Receiving(n, entry.path) \cup Reading(n, entry.path)) \ {t})
           \/ /\ entry # None
              /\ IoMayFail
              /\ \E file \in AfterFailedWrite(disk[n][entry.path], msg.offset) :
                    disk' = [disk EXCEPT ![n][entry.path] = file]
              /\ damaged' = damaged \cup {t} \cup
                    (IF disk' = disk THEN {} ELSE Receiving(n, entry.path) \cup Reading(n, entry.path))
        /\ Consume(m, n)
        /\ UNCHANGED <<active_uploads, active_downloads, sender, edits, caps, requested,
                       result, original, delivered>>

\* The entry is dropped whatever has arrived: no size or checksum is compared.
HandleComplete(m, n) ==
    LET t == Head(net[m][n]).id
        entry == active_downloads[n][t]
    IN  /\ Arrives(m, n, "FileTransferComplete")
        /\ \/ /\ entry = None
              /\ UNCHANGED <<active_downloads, result, delivered>>
           \/ /\ entry # None
              /\ Deregister(n, t)
              /\ result' = [result EXCEPT ![t] = "complete"]
              /\ delivered' = [delivered EXCEPT ![t] = disk[n][entry.path]]
        /\ Consume(m, n)
        /\ UNCHANGED <<disk, active_uploads, sender, edits, caps, requested, original, damaged>>

\* A peer's DeleteEntryRequest, at any moment.  A failing one changes nothing.
HandleDelete(n, p) ==
    /\ edits < MaxEdits
    /\ edits' = edits + 1
    /\ disk[n][p] # None
    /\ disk' = [disk EXCEPT ![n][p] = None]
    /\ sender' = Unlinked(n, p)
    /\ damaged' = damaged \cup Receiving(n, p)
    /\ UNCHANGED <<net, active_uploads, active_downloads, caps, requested, result,
                   original, delivered>>

\* A peer's RenameEntryRequest: q is replaced, and a task reading p follows it.
HandleRename(n, p, q) ==
    LET moved == Unlinked(n, q)
    IN  /\ edits < MaxEdits
        /\ edits' = edits + 1
        /\ p # q
        /\ disk[n][p] # None
        /\ disk' = [disk EXCEPT ![n][q] = disk[n][p], ![n][p] = None]
        /\ sender' = [t \in Transfers |->
              IF t \in Reading(n, p) THEN [sender[t] EXCEPT !.file = q] ELSE moved[t]]
        /\ damaged' = damaged \cup Receiving(n, p) \cup Receiving(n, q)
        /\ UNCHANGED <<net, active_uploads, active_downloads, caps, requested, result,
                       original, delivered>>

\* Without the capability nothing matches, and every message is dropped: the
\* requests of a peer, and the answers and blocks this node asked for.
HandleNothing(m, n) ==
    /\ n \notin caps
    /\ net[m][n] # <<>>
    /\ Consume(m, n)
    /\ UNCHANGED <<disk, active_uploads, active_downloads, sender, edits, caps, history>>

-----------------------------------------------------------------------------
(* The sending task of t and the reading task it starts.                   *)

AnswerOpenedNonEmpty(t, file) ==
    IF Job[t].kind = "download" /\ file # <<>>
    THEN Send(Sender(t), Receiver(t), Accepted(t, Len(file)))
    ELSE UNCHANGED net

\* Only a download is answered when the file is opened, and only a download
\* when that fails: the sender of an upload whose file is gone just ends.
AnswerOpened(t, file) ==
    IF Job[t].kind = "download"
    THEN Send(Sender(t), Receiver(t), Accepted(t, Len(file)))
    ELSE UNCHANGED net

AnswerFailed(t) ==
    IF Job[t].kind = "download"
    THEN Send(Sender(t), Receiver(t), Rejected(t))
    ELSE UNCHANGED net

\* start_local_download opens the file and starts the reading task on a new
\* channel.
SenderOpen(t) ==
    LET n == Sender(t)
        p == sender[t].file
    IN  /\ sender[t].phase = "opening"
        /\ \/ /\ p # None
              /\ disk[n][p] # None
              /\ sender' = [sender EXCEPT ![t] =
                    [@ EXCEPT !.phase = "streaming", !.reading = TRUE, !.pipe = <<>>]]
              /\ original' = [original EXCEPT ![t] = disk[n][p]]
              /\ AnswerOpened(t, disk[n][p])
           \/ /\ p = None \/ disk[n][p] = None \/ IoMayFail
              /\ sender' = [sender EXCEPT ![t] = [@ EXCEPT !.phase = "failed", !.file = None]]
              /\ AnswerFailed(t)
              /\ UNCHANGED original
        /\ UNCHANGED <<disk, active_uploads, active_downloads, edits, caps, requested,
                       result, delivered, damaged>>

\* One read: a block, the end of the file, or an error, into the channel.
ReaderRead(t) ==
    LET s == sender[t]
        more == s.pos < Len(OpenFile(t))
    IN  /\ s.reading
        /\ Len(s.pipe) < PipeCap
        /\ \/ /\ more
              /\ sender' = [sender EXCEPT ![t] =
                    [s EXCEPT !.pipe = Append(s.pipe, OpenFile(t)[s.pos + 1]), !.pos = s.pos + 1]]
              /\ UNCHANGED damaged
           \/ /\ ~more
              /\ sender' = [sender EXCEPT ![t] = [s EXCEPT !.pipe = Append(s.pipe, Eof), !.reading = FALSE]]
              /\ UNCHANGED damaged
           \/ /\ IoMayFail
              /\ sender' = [sender EXCEPT ![t] = [s EXCEPT !.pipe = Append(s.pipe, Fault), !.reading = FALSE]]
              /\ damaged' = damaged \cup {t}
        /\ UNCHANGED <<net, disk, active_uploads, active_downloads, edits, caps, requested,
                       result, original, delivered>>

EndOnlyAtEof(t, item) ==
    IF item = Eof THEN Send(Sender(t), Receiver(t), FileTransferComplete(t))
    ELSE UNCHANGED net

EndOfStream(t, item) == Send(Sender(t), Receiver(t), FileTransferComplete(t))

\* The sending task forwards what was read.  An error ends the loop just as
\* the end of the file does, and FileTransferComplete follows either.
SenderForward(t) ==
    LET s == sender[t]
        item == Head(s.pipe)
    IN  /\ s.phase = "streaming"
        /\ s.pipe # <<>>
        /\ \/ /\ item \in {Eof, Fault}
              /\ sender' = [sender EXCEPT ![t] =
                    [s EXCEPT !.phase = "finished", !.pipe = Tail(s.pipe), !.file = None]]
              /\ EndOfStream(t, item)
           \/ /\ item \notin {Eof, Fault}
              /\ sender' = [sender EXCEPT ![t] = [s EXCEPT !.pipe = Tail(s.pipe), !.offset = s.offset + 1]]
              /\ Send(Sender(t), Receiver(t), FileChunk(t, s.offset, item))
        /\ UNCHANGED <<disk, active_uploads, active_downloads, edits, caps, history>>

-----------------------------------------------------------------------------
Init ==
    /\ net = [m \in Nodes |-> [n \in Nodes |-> <<>>]]
    /\ disk \in {[n \in Nodes |-> [p \in Places |-> IF p \in Paths THEN d[n][p] ELSE None]]
                    : d \in InitialDisks}
    /\ active_uploads = [n \in Nodes |-> [t \in Transfers |-> None]]
    /\ active_downloads = [n \in Nodes |-> [t \in Transfers |-> None]]
    /\ sender = [t \in Transfers |-> IdleSender]
    /\ edits = 0
    /\ caps \in Installations
    /\ requested = {}
    /\ result = [t \in Transfers |-> "none"]
    /\ original = [t \in Transfers |-> None]
    /\ delivered = [t \in Transfers |-> None]
    /\ damaged = {}

Handle(m, n) ==
    \/ HandleUploadRequest(m, n)
    \/ HandleDownloadRequest(m, n)
    \/ HandleAccepted(m, n)
    \/ HandleRejected(m, n)
    \/ HandleChunk(m, n)
    \/ HandleComplete(m, n)
    \/ HandleNothing(m, n)

SendingTask(t) == SenderOpen(t) \/ SenderForward(t)

Next ==
    \/ \E t \in Transfers : StartUpload(t)
    \/ \E t \in Transfers : StartDownload(t)
    \/ \E m, n \in Nodes : Handle(m, n)
    \/ \E n \in Nodes, p \in Paths : HandleDelete(n, p)
    \/ \E n \in Nodes, p, q \in Paths : HandleRename(n, p, q)
    \/ \E t \in Transfers : SendingTask(t)
    \/ \E t \in Transfers : ReaderRead(t)

\* The receive loops and the spawned tasks keep running; nobody has to ask.
Fairness ==
    /\ \A m, n \in Nodes : WF_vars(Handle(m, n))
    /\ \A t \in Transfers : WF_vars(SendingTask(t)) /\ WF_vars(ReaderRead(t))

Spec == Init /\ [][Next]_vars /\ Fairness

-----------------------------------------------------------------------------
(* Properties.                                                             *)

Entry == [path : Places, size : Nat]

SenderState ==
    [phase : {"idle", "opening", "streaming", "finished", "failed"},
     file : Places \cup {None}, held : File \cup {None}, pos : Nat,
     reading : BOOLEAN, pipe : Seq(Block \cup {Eof, Fault}), offset : Nat]

VariableTypes ==
    /\ net \in [Nodes -> [Nodes -> Seq(Message)]]
    /\ disk \in [Nodes -> [Places -> File \cup {None}]]
    /\ active_uploads \in [Nodes -> [Transfers -> Paths \cup {None}]]
    /\ active_downloads \in [Nodes -> [Transfers -> Entry \cup {None}]]
    /\ sender \in [Transfers -> SenderState]
    /\ edits \in 0 .. MaxEdits
    /\ caps \subseteq Nodes
    /\ requested \subseteq Transfers
    /\ result \in [Transfers -> {"none", "rejected", "complete"}]
    /\ original \in [Transfers -> File \cup {None}]
    /\ delivered \in [Transfers -> File \cup {None}]
    /\ damaged \subseteq Transfers

\* A reading task has a file to read, and has not yet reported its end.
ReadersOpen ==
    \A t \in Transfers : sender[t].reading =>
        sender[t].phase = "streaming" /\ OpenFile(t) # None /\ sender[t].pipe \in Seq(Block)

\* Types of the variables, and the state a reading task is in.
TypeOK == VariableTypes /\ ReadersOpen

\* The file in place when the receiver reports TransferComplete is the file
\* the sender opened.  (A download of an empty file receives no block, so its
\* temporary file is never created.)
CompleteIsExact(t) ==
    result[t] = "complete" => Contents(delivered[t]) = original[t]

IsPrefixOf(s, r) == Len(s) <= Len(r) /\ \A i \in 1 .. Len(s) : s[i] = r[i]

\* While blocks are still coming, whoever reads the destination sees a
\* beginning of the file being sent: no old tail, gap or foreign block.
PartialIsPrefix(t) ==
    LET entry == active_downloads[Receiver(t)][t]
    IN  entry # None /\ original[t] # None =>
            IsPrefixOf(Contents(disk[Receiver(t)][entry.path]), original[t])

\* End to end: unless a read or write of transfer t failed or somebody else
\* changed one of its two files, what the receiver has is a beginning of what
\* the sender opened, and on completion all of it.
Integrity ==
    \A t \in Transfers \ damaged : CompleteIsExact(t) /\ PartialIsPrefix(t)

\* The handler silently ignores blocks of a transfer it does not know, so
\* none may ever reach it: a block or a completion in flight to a node that
\* handles it finds its entry registered, or the acceptance that registers it
\* ahead of it in the channel.
ChunksExpected ==
    \A m \in Nodes, n \in caps : \A i \in 1 .. Len(net[m][n]) :
        LET msg == net[m][n][i]
        IN  msg.type \in {"FileChunk", "FileTransferComplete"} =>
              \/ active_downloads[n][msg.id] # None
              \/ \E j \in 1 .. i - 1 :
                    net[m][n][j].type = "Accepted" /\ net[m][n][j].id = msg.id

\* Nothing is left to do for t: no message of it is in flight and its tasks ended.
AtRest(t) ==
    /\ t \in requested
    /\ sender[t].phase \in {"idle", "finished", "failed"}
    /\ \A m, n \in Nodes : \A i \in 1 .. Len(net[m][n]) : net[m][n][i].id # t

\* Both ends of t handle the messages of a transfer.
Handled(t) == {Job[t].by, Job[t].with} \subseteq caps

\* The maps do not grow with every transfer: once t is at rest, an entry of
\* it survives only for an upload that was rejected, or whose file could not
\* be opened any more when the acceptance came.
EntriesReclaimed ==
    \A t \in Transfers : Handled(t) /\ AtRest(t) =>
        \A n \in Nodes :
            /\ active_downloads[n][t] # None =>
                  Job[t].kind = "upload" /\ (result[t] = "rejected" \/ sender[t].phase = "failed")
            /\ active_uploads[n][t] # None => result[t] = "rejected"

\* How t may end: with a completion or a rejection at the receiver, or with
\* an upload whose sender found its file gone, which nobody is told.
Over(t) == result[t] # "none" \/ (Job[t].kind = "upload" /\ sender[t].phase = "failed")

\* Every request between nodes with the capability ends.
TransferEnds ==
    \A t \in Transfers : Handled(t) => (t \in requested ~> Over(t))

\* "Consuming and serving are independent": so ends every request to a node
\* that serves, whether or not the node that asks serves anything itself.
ConsumerIsServed ==
    \A t \in Transfers : Job[t].with \in caps => (t \in requested ~> Over(t))

=============================================================================
