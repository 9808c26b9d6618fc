------------------------------ MODULE DavFiles ------------------------------
(***************************************************************************)
(* Reading and writing files through the WebDAV bridge: the open and flush *)
(* operations of web-davserver/src/fs.rs on top of the transfers of        *)
(* FileTransfer, whose handlers they share a node and the temporary        *)
(* directory with.                                                         *)
(*                                                                         *)
(* A message is handled first and then passed to feed_response by the      *)
(* application, in the order of arrival; this order is the application's,  *)
(* outside the repository, and all that the bridge relies on.              *)
(*                                                                         *)
(* What an operation sends is queued for a task of its mount that forwards *)
(* it, and ends with the mount: what is queued then, and what is sent      *)
(* afterwards, is lost without a word (lib.rs:382-386).  Nobody sees a     *)
(* queued message, so one that is forwarded is in the network at once, and *)
(* from the first that is lost on all of the operation is lost.            *)
(***************************************************************************)
EXTENDS FileTransfer

CONSTANTS
    Written,        \* Written[t]: the contents a write job flushes
    MountMayEnd     \* whether a mount may end while its operations go on

ASSUME WrittenAssumption ==
    /\ Written \in [Transfers -> Seq(Blocks)]
    /\ MountMayEnd \in BOOLEAN

VARIABLES
    events,         \* events[n]: messages n has handled and not yet fed
    pending,        \* PENDING: transfers whose operation waits for replies
    mailbox,        \* mailbox[t]: replies in the channel of the operation of t
    file            \* file[t]: the operation: how far it is, what it read;
                    \* history: were messages of it lost, was its file left

bridge == <<events, pending, mailbox, file>>
davVars == <<vars, bridge>>

\* What feed_response routes by transfer; it hands FileChunk back.
FedWithoutRejections == {"Accepted", "FileTransferComplete"}
Fed == {"Accepted", "Rejected", "FileTransferComplete"}

-----------------------------------------------------------------------------
(* The messages of a node, and the application that feeds them.            *)

DavHandle(m, n) ==
    LET msg == Head(net[m][n])
    IN  /\ Handle(m, n)
        /\ events' = IF msg.type \in Fed THEN [events EXCEPT ![n] = Append(@, msg)] ELSE events
        /\ UNCHANGED <<pending, mailbox, file>>

\* The channel of an operation is found in the table of its own process.
Feed(n) ==
    LET msg == Head(events[n])
        t == msg.id
    IN  /\ events[n] # <<>>
        /\ events' = [events EXCEPT ![n] = Tail(@)]
        /\ mailbox' = IF t \in pending /\ Job[t].by = n
                      THEN [mailbox EXCEPT ![t] = Append(@, msg)] ELSE mailbox
        /\ UNCHANGED <<vars, pending, file>>

-----------------------------------------------------------------------------
(* open for reading.                                                       *)

\* Its request is forwarded, or lost.
Begin(t, lost) ==
    /\ file[t].state = "closed"
    /\ pending' = pending \cup {t}
    /\ file' = [file EXCEPT ![t] = [@ EXCEPT !.state = "waiting", !.lost = lost]]
    /\ UNCHANGED <<events, mailbox>>

\* The operation of t is over: its guard removes it from the table.
End(t, outcome) ==
    /\ pending' = pending \ {t}
    /\ mailbox' = [mailbox EXCEPT ![t] = <<>>]
    /\ file' = [file EXCEPT ![t] = outcome]
    /\ UNCHANGED events

EndWith(t, state, data) == End(t, [file[t] EXCEPT !.state = state, !.data = data])
EndLeaving(t, state, data) ==
    End(t, [file[t] EXCEPT !.state = state, !.data = data, !.left = TRUE])

Received(t) == Head(mailbox[t])

Waiting(t, kind) == Job[t].kind = kind /\ file[t].state = "waiting" /\ mailbox[t] # <<>>

Open(t) ==
    \/ StartDownload(t) /\ Begin(t, FALSE)
    \/ Job[t].kind = "download" /\ MountMayEnd /\ Begin(t, TRUE) /\ UNCHANGED vars

\* The announcement of the size tells the loop nothing.
SkipNothing(t) == FALSE
Skipped(t) == Received(t).type = "Accepted"

OpenSkips(t) ==
    /\ Waiting(t, "download")
    /\ Skipped(t)
    /\ mailbox' = [mailbox EXCEPT ![t] = Tail(@)]
    /\ UNCHANGED <<vars, events, pending, file>>

OpenRejected(t) ==
    /\ Waiting(t, "download")
    /\ Received(t).type = "Rejected"
    /\ EndWith(t, "forbidden", None)
    /\ UNCHANGED vars

\* The temporary file is read to memory and removed; that it could not be
\* removed is ignored.
TempKept(n, t) == disk
TempRemoved(n, t) == [disk EXCEPT ![n][t] = None]

OpenCompletes(t) ==
    LET n == Job[t].by
    IN  /\ Waiting(t, "download")
        /\ Received(t).type # "Rejected"
        /\ ~Skipped(t)
        /\ disk[n][t] # None
        /\ \/ EndWith(t, "ok", disk[n][t]) /\ disk' = TempRemoved(n, t)
           \/ IoMayFail /\ EndLeaving(t, "ok", disk[n][t]) /\ UNCHANGED disk
        /\ UNCHANGED <<net, active_uploads, active_downloads, sender, edits, caps, history>>

\* There may be none: the peer sent no block, or writing them failed.  One
\* that cannot be read is taken for none, and stays.
OpenFindsNothing(t) ==
    /\ Waiting(t, "download")
    /\ Received(t).type # "Rejected"
    /\ ~Skipped(t)
    /\ \/ disk[Job[t].by][t] = None /\ EndWith(t, "not_found", None)
       \/ disk[Job[t].by][t] # None /\ IoMayFail /\ EndLeaving(t, "not_found", None)
    /\ UNCHANGED vars

-----------------------------------------------------------------------------
(* flush of a file that was opened for writing.                            *)

StartWrite(t) ==
    /\ t \notin requested
    /\ requested' = requested \cup {t}
    /\ original' = [original EXCEPT ![t] = Written[t]]
    /\ Send(Job[t].by, Job[t].with, UploadRequest(t))
    /\ UNCHANGED <<disk, active_uploads, active_downloads, sender, edits, caps, result,
                   delivered, damaged>>

Flush(t) ==
    /\ Job[t].kind = "write"
    /\ \/ StartWrite(t) /\ Begin(t, FALSE)
       \/ MountMayEnd /\ Begin(t, TRUE) /\ UNCHANGED vars

FlushAccepted(t) ==
    /\ Waiting(t, "write")
    /\ Received(t).type = "Accepted"
    /\ mailbox' = [mailbox EXCEPT ![t] = Tail(@)]
    /\ file' = [file EXCEPT ![t].state = "sending"]
    /\ UNCHANGED <<vars, events, pending>>

FlushFails(t) ==
    /\ Waiting(t, "write")
    /\ Received(t).type # "Accepted"
    /\ EndWith(t, "forbidden", None)
    /\ UNCHANGED vars

\* A block that is forwarded.
FlushSendsBlock(t) ==
    LET pos == file[t].pos
    IN  /\ file[t].state = "sending"
        /\ pos < Len(Written[t])
        /\ Send(Job[t].by, Job[t].with, FileChunk(t, pos, Written[t][pos + 1]))
        /\ file' = [file EXCEPT ![t].pos = pos + 1]
        /\ UNCHANGED <<events, pending, mailbox, disk, active_uploads, active_downloads,
                       sender, edits, caps, history>>

CompleteForgotten(t) == UNCHANGED net
CompleteSent(t) == Send(Job[t].by, Job[t].with, FileTransferComplete(t))

AllButOneSent(t) == file[t].pos + 1 >= Len(Written[t])
AllSent(t) == file[t].pos >= Len(Written[t])

\* The file manager is told that all is written once all is queued: here all
\* of it is forwarded.
FlushCompletes(t) ==
    /\ file[t].state = "sending"
    /\ AllSent(t)
    /\ CompleteSent(t)
    /\ EndWith(t, "ok", None)
    /\ UNCHANGED <<disk, active_uploads, active_downloads, sender, edits, caps, history>>

\* Here the rest is lost with the mount, from the next block or the completion
\* on: the failed sends are ignored, and the file manager is told the same.
FlushCut(t) ==
    /\ MountMayEnd
    /\ file[t].state = "sending"
    /\ End(t, [file[t] EXCEPT !.state = "ok", !.lost = TRUE])
    /\ UNCHANGED vars

-----------------------------------------------------------------------------
\* The file manager closes the connection: the operation stops where it is.
Cancel(t) ==
    /\ file[t].state \in {"waiting", "sending"}
    /\ EndWith(t, "cancelled", None)
    /\ UNCHANGED vars

DavInit ==
    /\ Init
    /\ events = [n \in Nodes |-> <<>>]
    /\ pending = {}
    /\ mailbox = [t \in Transfers |-> <<>>]
    /\ file = [t \in Transfers |->
          [state |-> "closed", pos |-> 0, data |-> None, lost |-> FALSE, left |-> FALSE]]

OpenResumes(t) == OpenSkips(t) \/ OpenRejected(t) \/ OpenCompletes(t) \/ OpenFindsNothing(t)

FlushResumes(t) ==
    \/ FlushAccepted(t) \/ FlushFails(t)
    \/ FlushSendsBlock(t) \/ FlushCompletes(t) \/ FlushCut(t)

DavNext ==
    \/ \E t \in Transfers : Open(t)
    \/ \E t \in Transfers : Flush(t)
    \/ \E t \in Transfers : OpenResumes(t)
    \/ \E t \in Transfers : FlushResumes(t)
    \/ \E t \in Transfers : Cancel(t)
    \/ \E n \in Nodes : Feed(n)
    \/ \E m, n \in Nodes : DavHandle(m, n)
    \/ \E n \in Nodes, p \in Paths : HandleDelete(n, p) /\ UNCHANGED bridge
    \/ \E n \in Nodes, p, q \in Paths : HandleRename(n, p, q) /\ UNCHANGED bridge
    \/ \E t \in Transfers : SendingTask(t) /\ UNCHANGED bridge
    \/ \E t \in Transfers : ReaderRead(t) /\ UNCHANGED bridge

DavFairness ==
    /\ \A m, n \in Nodes : WF_davVars(DavHandle(m, n))
    /\ \A n \in Nodes : WF_davVars(Feed(n))
    /\ \A t \in Transfers :
        /\ WF_davVars(SendingTask(t) /\ UNCHANGED bridge)
        /\ WF_davVars(ReaderRead(t) /\ UNCHANGED bridge)
        /\ WF_davVars(OpenResumes(t))
        /\ WF_davVars(FlushResumes(t))

DavSpec == DavInit /\ [][DavNext]_davVars /\ DavFairness

-----------------------------------------------------------------------------
(* Properties.                                                             *)

\* open returns what the peer's sending task opened, whole, although the
\* handler writes it and the bridge reads it: unless an error or another
\* writer disturbed the transfer.  It reports that nothing was found only if
\* that file is empty, or when it could not read what had arrived.
OpenReturnsFile ==
    \A t \in Transfers : Job[t].kind = "download" /\ t \notin damaged =>
        /\ file[t].state = "ok" => file[t].data = original[t]
        /\ file[t].state = "not_found" /\ ~file[t].left => original[t] = <<>>

\* "Lets any WebDAV-capable file manager browse a peer": a file that was there
\* when the peer's sending task looked for it is opened.
FileThereOpens ==
    \A t \in Transfers : Job[t].kind = "download" /\ t \notin damaged /\ ~file[t].left =>
        (file[t].state \in {"not_found", "forbidden"} => original[t] = None)

\* A write that reaches its end at the peer left there what was flushed,
\* whatever another operation of the bridge or the peer's user did before it.
WriteArrives ==
    \A t \in Transfers :
        Job[t].kind = "write" /\ result[t] = "complete" /\ t \notin damaged
            => delivered[t] = Written[t]

\* flush returns before the peer has the file.  The peer does get all of it,
\* unless the mount ended with some of it in its queue.
WriteEnds ==
    \A t \in Transfers : Job[t].kind = "write" /\ file[t].state = "ok"
        ~> result[t] = "complete" \/ file[t].lost

\* Only an open that was given up, or could not read or remove its temporary
\* file, leaves it behind: none is written again once its open returned,
\* whatever blocks of it arrive late.
TempFilesRemoved ==
    \A t \in Transfers :
        file[t].state \in {"ok", "not_found", "forbidden"} /\ ~file[t].left
            => disk[Job[t].by][t] = None

\* An operation returns, or is given up: no reply it waits for goes missing
\* between the peer's task, the handler, the application and its channel.
\* Only one whose request was lost with the mount waits for good.
OperationsEnd ==
    \A t \in Transfers :
        file[t].state \in {"waiting", "sending"}
            ~> file[t].state \notin {"waiting", "sending"} \/ file[t].lost

=============================================================================
