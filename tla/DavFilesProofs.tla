--------------------------- MODULE DavFilesProofs ---------------------------
(***************************************************************************)
(* Theorems about DavFiles, for every set of nodes, transfers, paths,      *)
(* flushed contents and initial disks.                                     *)
(*                                                                         *)
(* The downloads of the bridge keep the invariants of FileTransfer, those  *)
(* of the data until their temporary file is read and removed.  Its writes *)
(* have no sending task; they have an invariant of their own.              *)
(***************************************************************************)
EXTENDS DavFiles, FileTransferProofs

-----------------------------------------------------------------------------
(* The inductive invariant.                                                *)

Write(t) == Job[t].kind = "write"

\* The transfers of FileTransfer's own protocol.
Transferred == {t \in Transfers : ~Write(t)}

\* Of these, the ones whose temporary file has not been read and removed.
Kept == {t \in Transferred : file[t].state # "ok"}

\* The replies the bridge has for the operation of t: in the application's
\* hands or in the operation's channel.
Heard(t) == {x \in Elems(events[Job[t].by]) : x.id = t} \cup Elems(mailbox[t])

States == {"closed", "waiting", "sending", "ok", "not_found", "forbidden", "cancelled"}

FileState ==
    [state : States, pos : Nat, data : File \cup {None}, lost : BOOLEAN, left : BOOLEAN]

BridgeTypes ==
    /\ events \in [Nodes -> Seq(Message)]
    /\ mailbox \in [Transfers -> Seq(Message)]
    /\ file \in [Transfers -> FileState]

\* No task reads a temporary file.
SharesRead == \A t \in Transfers : sender[t].file \in Paths \cup {None}

\* Only a download has a temporary file, at the node that asked, once its peer
\* has begun to send.
Temporary(t) ==
    \A n \in Nodes : disk[n][t] # None =>
        Download(t) /\ n = Job[t].by /\ sender[t].phase \in {"streaming", "finished"}

\* The peer's task is done, and all it sent has been handled.
Served(t) == sender[t].phase = "finished" /\ Flight(t) = {} /\ ~Registered(t)

\* What a reply says of the peer's task and of the channel it came through.
ReplyTold(t, x) ==
    /\ x.type \in Fed
    /\ x.type = "FileTransferComplete" => Served(t)
    /\ x.type = "Rejected" => sender[t].phase = "failed"

\* An open that returned did so on the last message of its transfer.
OpenInv(t) ==
    /\ \A x \in Heard(t) : ReplyTold(t, x)
    /\ file[t].state \in {"ok", "not_found"} =>
          Served(t) /\ (~file[t].left => disk[Job[t].by][t] = None)
    /\ file[t].state = "forbidden" => sender[t].phase = "failed"
    /\ Job[t].by \in caps /\ t \notin damaged =>
          /\ file[t].state = "ok" => file[t].data = original[t]
          /\ file[t].state = "not_found" /\ ~file[t].left => original[t] = <<>>

\* A write has no sending task and no file offered.  Its peer knows it by its
\* place, and its own node by the acceptance it took for a download's.
Noted(t) ==
    /\ sender[t].phase = "idle"
    /\ \A n \in Nodes :
        /\ active_uploads[n][t] = None
        /\ active_downloads[n][t] # None =>
              \/ n = Receiver(t) /\ n \in caps /\ active_downloads[n][t].path = Job[t].remote
              \/ n = Job[t].by /\ active_downloads[n][t].path = t

\* The request and its answer travel alone, and while they do nothing is sent.
MessageOfWrite(t, x) ==
    /\ x.type \in Requests \cup Answers =>
          /\ Flight(t) = {x} /\ Heard(t) = {} /\ file[t].pos = 0
          /\ file[t].state \in {"waiting", "cancelled"}
    /\ x.type \in Requests => x.type = "FileUploadRequest" /\ x.path = Job[t].remote
    /\ x.type = "FileChunk" => x.offset < file[t].pos /\ file[t].state # "waiting"
    /\ x.type = "FileTransferComplete" =>
          file[t].state = "ok" /\ file[t].pos = Len(Written[t])

\* The flush that has been accepted goes on, or has sent all.
Underway(t) ==
    \/ Flying(t, {"Accepted", "FileTransferComplete"})
    \/ file[t].state = "sending"
    \/ file[t].state = "waiting" /\ \E x \in Heard(t) : x.type = "Accepted"

\* What was flushed has arrived, up to the blocks that are in flight.
Arriving(t) ==
    /\ disk[Receiver(t)][Job[t].remote] # None
    /\ Len(Got(t)) <= file[t].pos
    /\ \A i \in 1 .. Len(Got(t)) : Got(t)[i] = Written[t][i]
    /\ \A k \in Nat : Len(Got(t)) <= k /\ k < file[t].pos =>
          \E x \in Flight(t) : x.type = "FileChunk" /\ x.offset = k
    /\ \A x \in Flight(t) : x.type = "FileChunk" =>
          Len(Got(t)) <= x.offset /\ x.data = Written[t][x.offset + 1]

\* How far the operation is: pos blocks were forwarded, all of them before the
\* completion was.
Progress(t) ==
    /\ file[t].state = "closed" => Flight(t) = {} /\ Heard(t) = {} /\ result[t] # "complete"
    /\ file[t].state \in {"closed", "waiting"} => file[t].pos = 0
    /\ file[t].pos <= Len(Written[t])

WriteInv(t) ==
    /\ Noted(t)
    /\ Progress(t)
    /\ \A x \in Flight(t) : MessageOfWrite(t, x)
    /\ Underway(t) => Registered(t) /\ (t \notin damaged => Arriving(t))
    /\ result[t] = "complete" =>
          file[t].state = "ok" /\ (t \notin damaged => delivered[t] = Written[t])

OperationInv(t) ==
    /\ Temporary(t)
    /\ file[t].state = "sending" => Write(t)
    /\ file[t].state # "closed" => Download(t) \/ Write(t)
    /\ Download(t) => OpenInv(t)
    /\ Write(t) => WriteInv(t)

DavInv ==
    /\ ProtocolOf(Transferred)
    /\ DataOf(Kept)
    /\ BridgeTypes
    /\ SharesRead
    /\ \A t \in Transfers : OperationInv(t)

-----------------------------------------------------------------------------
(* Operations a step is not about.                                         *)

\* Of the operation of t only replies may have got lost, and of the disks
\* only what others write has changed.
Aside(t) ==
    /\ Undisturbed(t)
    /\ file'[t] = file[t] /\ Heard(t)' \subseteq Heard(t)
    /\ original'[t] = original[t] /\ delivered'[t] = delivered[t]
    /\ damaged \subseteq damaged'
    /\ \A n \in Nodes : disk'[n][t] = disk[n][t]
    /\ Write(t) /\ Registered(t) /\ t \notin damaged' => Got(t)' = Got(t)
    /\ Write(t) /\ Registered(t) /\ t \notin damaged' =>
          disk'[Receiver(t)][Job[t].remote] = disk[Receiver(t)][Job[t].remote]

LEMMA TemporaryKept ==
    ASSUME NEW t \in Transfers, Temporary(t), Aside(t)
    PROVE  Temporary(t)'
BY DEF Temporary, Aside, Undisturbed

LEMMA OpenKept ==
    ASSUME NEW t \in Transfers, OpenInv(t), Aside(t)
    PROVE  OpenInv(t)'
<1>1. Served(t) => Served(t)'
  BY EndsAreNodes DEF Served, Aside, Undisturbed, Registered
<1>2. disk'[Job[t].by][t] = disk[Job[t].by][t] /\ caps' = caps
  BY Ends DEF Aside, Undisturbed
<1>3. \A x \in Heard(t)' : ReplyTold(t, x)'
  BY <1>1 DEF OpenInv, ReplyTold, Aside, Undisturbed
<1>4. file'[t].state = "forbidden" => sender'[t].phase = "failed"
  BY DEF OpenInv, Aside, Undisturbed
<1>5. file'[t].state \in {"ok", "not_found"} =>
          Served(t)' /\ (~file'[t].left => disk'[Job[t].by][t] = None)
  BY <1>1, <1>2 DEF OpenInv, Aside
<1>6. Job[t].by \in caps' /\ t \notin damaged' =>
          /\ file'[t].state = "ok" => file'[t].data = original'[t]
          /\ file'[t].state = "not_found" /\ ~file'[t].left => original'[t] = <<>>
  BY <1>2 DEF OpenInv, Aside
<1> QED
  BY <1>3, <1>4, <1>5, <1>6 DEF OpenInv

LEMMA UnderwayKept ==
    ASSUME NEW t \in Transfers, Aside(t), Underway(t)'
    PROVE  Underway(t)
BY DEF Aside, Undisturbed, Underway, Flying

LEMMA WriteKept ==
    ASSUME NEW t \in Transfers, Write(t), WriteInv(t), Aside(t)
    PROVE  WriteInv(t)'
<1>1. /\ Flight(t)' = Flight(t) /\ file'[t] = file[t] /\ Heard(t)' \subseteq Heard(t)
      /\ result'[t] = result[t] /\ delivered'[t] = delivered[t] /\ damaged \subseteq damaged'
      /\ caps' = caps
  BY DEF Aside, Undisturbed
<1>2. Noted(t)'
  BY <1>1 DEF WriteInv, Noted, Aside, Undisturbed
<1>3. Progress(t)'
  BY <1>1 DEF WriteInv, Progress
<1>4. \A x \in Flight(t)' : MessageOfWrite(t, x)'
  BY <1>1 DEF WriteInv, MessageOfWrite
<1>5. ASSUME Underway(t)'  PROVE Registered(t)' /\ (t \notin damaged' => Arriving(t)')
  <2>1. Registered(t) /\ (t \notin damaged => Arriving(t))
    BY <1>5, UnderwayKept DEF WriteInv
  <2>2. Registered(t)'
    BY <2>1, EndsAreNodes DEF Registered, Aside, Undisturbed
  <2>3. ASSUME t \notin damaged'  PROVE Arriving(t)'
    <3>1. /\ Got(t)' = Got(t) /\ Arriving(t)
          /\ disk'[Receiver(t)][Job[t].remote] = disk[Receiver(t)][Job[t].remote]
      BY <1>1, <2>1, <2>3 DEF Aside
    <3> QED
      BY <1>1, <3>1 DEF Arriving
  <2> QED
    BY <2>2, <2>3
<1>6. result'[t] = "complete" =>
        file'[t].state = "ok" /\ (t \notin damaged' => delivered'[t] = Written[t])
  BY <1>1 DEF WriteInv
<1> QED
  BY <1>2, <1>3, <1>4, <1>5, <1>6 DEF WriteInv

LEMMA OperationKept ==
    ASSUME NEW t \in Transfers, OperationInv(t), Aside(t)
    PROVE  OperationInv(t)'
BY TemporaryKept, OpenKept, WriteKept DEF OperationInv, Aside, Download, Write
-----------------------------------------------------------------------------
(* Steps in general.                                                       *)

LEMMA ElemsOf ==
    ASSUME NEW s \in Seq(Message)
    PROVE  /\ \A x \in Message : Elems(Append(s, x)) = Elems(s) \cup {x}
           /\ s # <<>> => Head(s) \in Elems(s) /\ Elems(Tail(s)) \subseteq Elems(s)
           /\ Elems(<<>>) = {}
           /\ Elems(s) \subseteq Message
<1>1. ASSUME NEW x \in Message  PROVE Elems(Append(s, x)) = Elems(s) \cup {x}
  <2> DEFINE r == Append(s, x)
  <2>1. /\ DOMAIN r = DOMAIN s \cup {Len(s) + 1} /\ r[Len(s) + 1] = x
        /\ \A i \in DOMAIN s : r[i] = s[i]
    OBVIOUS
  <2> HIDE DEF r
  <2> QED
    BY <2>1 DEF Elems, r
<1>2. ASSUME s # <<>>  PROVE Head(s) \in Elems(s) /\ Elems(Tail(s)) \subseteq Elems(s)
  <2>1. 1 \in DOMAIN s /\ Head(s) = s[1]
    BY <1>2
  <2>2. \A i \in DOMAIN Tail(s) : i + 1 \in DOMAIN s /\ Tail(s)[i] = s[i + 1]
    BY <1>2
  <2> QED
    BY <2>1, <2>2 DEF Elems
<1>3. Elems(<<>>) = {}
  BY DEF Elems
<1>4. Elems(s) \subseteq Message
  BY DEF Elems
<1> QED
  BY <1>1, <1>2, <1>3, <1>4

\* A step about one operation, or about none.
LEMMA StepKeeps ==
    ASSUME DavInv, NEW t \in Transfers,
           ProtocolOf(Transferred)', NEW T, Kept' \subseteq T, DataOf(T)',
           BridgeTypes', SharesRead',
           \A u \in Transfers \ {t} : Aside(u), OperationInv(t)'
    PROVE  DavInv'
<1>2. DataOf(Kept)'
  BY DEF DataOf, ProtocolOf
<1>3. \A u \in Transfers \ {t} : OperationInv(u)'
  BY OperationKept DEF DavInv
<1> QED
  BY <1>2, <1>3 DEF DavInv

\* A step of the bridge alone.
LEMMA BridgeStep ==
    ASSUME DavInv, UNCHANGED vars, NEW t \in Transfers, BridgeTypes',
           \A u \in Transfers \ {t} : file'[u] = file[u] /\ Heard(u)' \subseteq Heard(u),
           file[t].state = "ok" => file'[t].state = "ok", OperationInv(t)'
    PROVE  DavInv'
<1>1. PICK T : T = Kept
  OBVIOUS
<1>2. T \in SUBSET Transfers /\ Transferred \in SUBSET Transfers
  BY <1>1 DEF Kept, Transferred
<1>3. ProtocolOf(Transferred)' /\ DataOf(T)'
  BY <1>1, <1>2, ProtocolStutter, DataStutter DEF DavInv
<1>4. \A u \in Transfers \ {t} : Aside(u)
  BY DEF Aside, Undisturbed, vars, Flight, Got
<1>5. SharesRead'
  BY DEF SharesRead, DavInv, vars
<1>6. Kept' \subseteq T
  BY <1>1 DEF Kept, Transferred
<1> QED
  BY <1>3, <1>4, <1>5, <1>6, StepKeeps

LEMMA FileTypes ==
    ASSUME BridgeTypes, NEW t \in Transfers
    PROVE  /\ file \in [Transfers -> FileState] /\ file[t] \in FileState
           /\ file[t].pos \in Nat /\ file[t].data \in File \cup {None}
           /\ mailbox \in [Transfers -> Seq(Message)] /\ mailbox[t] \in Seq(Message)
           /\ Job[t].by \in Nodes /\ events[Job[t].by] \in Seq(Message)
           /\ events \in [Nodes -> Seq(Message)]
BY Ends DEF BridgeTypes, FileState

\* The operation of t ends.
LEMMA EndEffect ==
    ASSUME BridgeTypes, NEW t \in Transfers, NEW outcome \in FileState, End(t, outcome)
    PROVE  /\ BridgeTypes' /\ file'[t] = outcome
           /\ \A u \in Transfers \ {t} : file'[u] = file[u] /\ Heard(u)' = Heard(u)
           /\ Heard(t)' \subseteq Heard(t)
<1>1. /\ file' = [file EXCEPT ![t] = outcome]
      /\ mailbox' = [mailbox EXCEPT ![t] = <<>>] /\ events' = events
  BY DEF End
<1>2. /\ file'[t] = outcome
      /\ \A u \in Transfers \ {t} : file'[u] = file[u] /\ mailbox'[u] = mailbox[u]
      /\ mailbox'[t] = <<>>
  BY <1>1, FileTypes
<1>4. BridgeTypes'
  <2>1. file' \in [Transfers -> FileState]
    BY <1>1, FileTypes
  <2>2. mailbox' \in [Transfers -> Seq(Message)]
    BY <1>1, FileTypes
  <2> QED
    BY <1>1, <2>1, <2>2 DEF BridgeTypes
<1>5. Heard(t)' \subseteq Heard(t)
  BY <1>1, <1>2 DEF Heard, Elems
<1>6. \A u \in Transfers \ {t} : Heard(u)' = Heard(u)
  BY <1>1, <1>2 DEF Heard
<1> QED
  BY <1>2, <1>4, <1>5, <1>6

\* The operation of t ends in a state, with what it has read.
LEMMA EndWithEffect ==
    ASSUME BridgeTypes, NEW t \in Transfers, NEW state \in States, NEW data \in File \cup {None},
           EndWith(t, state, data) \/ EndLeaving(t, state, data)
    PROVE  /\ BridgeTypes'
           /\ file'[t].state = state /\ file'[t].data = data /\ file'[t].pos = file[t].pos
           /\ file'[t].left \in BOOLEAN
           /\ EndWith(t, state, data) => file'[t].left = file[t].left
           /\ EndLeaving(t, state, data) => file'[t].left
           /\ \A u \in Transfers \ {t} : file'[u] = file[u] /\ Heard(u)' = Heard(u)
           /\ Heard(t)' \subseteq Heard(t)
<1>1. PICK f \in FileState : f = file[t]
  BY FileTypes
<1>2. PICK kept, leaving : /\ kept = [f EXCEPT !.state = state, !.data = data]
                           /\ leaving = [f EXCEPT !.state = state, !.data = data, !.left = TRUE]
  OBVIOUS
<1>3. /\ kept \in FileState /\ kept.state = state /\ kept.data = data /\ kept.pos = f.pos
      /\ kept.left = f.left
      /\ leaving \in FileState /\ leaving.state = state /\ leaving.data = data
      /\ leaving.pos = f.pos /\ leaving.left
      /\ f.left \in BOOLEAN
  BY <1>2 DEF FileState
<1>4. f.pos = file[t].pos /\ f.left = file[t].left
  BY <1>1
<1>5. /\ EndWith(t, state, data) => End(t, kept)
      /\ EndLeaving(t, state, data) => End(t, leaving)
  BY <1>1, <1>2 DEF EndWith, EndLeaving
<1>6. CASE EndWith(t, state, data)
  BY <1>3, <1>4, <1>5, <1>6, EndEffect
<1>7. CASE EndLeaving(t, state, data)
  BY <1>3, <1>4, <1>5, <1>7, EndEffect
<1> QED
  BY <1>6, <1>7

-----------------------------------------------------------------------------
(* Steps of the bridge alone.                                              *)

\* What the invariant says of an operation whose messages, tasks and files
\* stay as they are, while it forgets replies or takes another state.
LEMMA OpenStep ==
    ASSUME NEW t \in Transfers, Download(t), OperationInv(t), UNCHANGED vars,
           Heard(t)' \subseteq Heard(t), file'[t].state # "sending",
           file'[t].state \in {"ok", "not_found"} =>
              Served(t) /\ (~file'[t].left => disk[Job[t].by][t] = None),
           file'[t].state = "forbidden" => sender[t].phase = "failed",
           Job[t].by \in caps /\ t \notin damaged =>
              /\ file'[t].state = "ok" => file'[t].data = original[t]
              /\ file'[t].state = "not_found" /\ ~file'[t].left => original[t] = <<>>
    PROVE  OperationInv(t)'
<1>1. /\ UNCHANGED <<net, disk, active_uploads, active_downloads, sender, caps, requested,
                    result, original, delivered, damaged>>
      /\ Flight(t)' = Flight(t)
  BY DEF vars, Flight
<1>2. Served(t)' <=> Served(t)
  BY <1>1 DEF Served, Registered
<1>3. Temporary(t)'
  BY <1>1 DEF OperationInv, Temporary
<1>4. OpenInv(t)'
  BY <1>1, <1>2 DEF OperationInv, OpenInv, ReplyTold
<1>5. ~Write(t)
  BY DEF Write, Download
<1> QED
  BY <1>3, <1>4, <1>5 DEF OperationInv

LEMMA WriteStep ==
    ASSUME NEW t \in Transfers, Write(t), OperationInv(t), UNCHANGED vars,
           Heard(t)' \subseteq Heard(t), file'[t].pos = file[t].pos,
           file[t].state \in {"waiting", "sending"},
           \/ file'[t].state \in {"forbidden", "cancelled"}
           \/ file'[t] = file[t]
           \/ /\ file[t].state = "waiting" /\ file'[t].state = "sending"
              /\ \E x \in Heard(t) : x.type = "Accepted",
           Heard(t) # {} \/ file'[t].state # "forbidden"
    PROVE  OperationInv(t)'
<1>1. /\ UNCHANGED <<net, disk, active_uploads, active_downloads, sender, caps, requested,
                    result, original, delivered, damaged>>
      /\ Flight(t)' = Flight(t) /\ Got(t)' = Got(t)
  BY DEF vars, Flight, Got
<1>2. WriteInv(t) /\ Temporary(t)
  BY DEF OperationInv
<1>3. Temporary(t)'
  BY <1>1, <1>2 DEF Temporary
<1>4. Noted(t)'
  BY <1>1, <1>2 DEF WriteInv, Noted
<1>5. Progress(t)'
  <2>1. Progress(t)
    BY <1>2 DEF WriteInv
  <2> QED
    BY <1>1, <2>1 DEF Progress
<1>6. ASSUME NEW x \in Flight(t)  PROVE MessageOfWrite(t, x)'
  <2>1. MessageOfWrite(t, x)
    BY <1>2 DEF WriteInv
  <2>2. x.type # "FileTransferComplete"
    BY <2>1 DEF MessageOfWrite
  <2>3. CASE x.type \in Requests \cup Answers
    <3>1. Flight(t) = {x} /\ Heard(t) = {} /\ file[t].state = "waiting" /\ file'[t].pos = 0
      BY <2>1, <2>3 DEF MessageOfWrite
    <3>2. file'[t].state \in {"waiting", "cancelled"}
      BY <3>1
    <3>3. /\ x.type \in Requests => x.type = "FileUploadRequest" /\ x.path = Job[t].remote
          /\ x.type # "FileChunk"
      BY <2>1, <2>3 DEF MessageOfWrite, Requests, Answers
    <3> QED
      BY <1>1, <2>2, <3>1, <3>2, <3>3 DEF MessageOfWrite
  <2>4. CASE x.type \notin Requests \cup Answers
    <3>1. x.type = "FileChunk" => x.offset < file[t].pos /\ file'[t].state # "waiting"
      BY <2>1 DEF MessageOfWrite
    <3> QED
      BY <2>2, <2>4, <3>1 DEF MessageOfWrite
  <2> QED
    BY <2>3, <2>4
<1>7. Underway(t)' => Underway(t)
  BY <1>1 DEF Underway, Flying
<1>8. Underway(t) => Registered(t) /\ (t \notin damaged => Arriving(t))
  BY <1>2 DEF WriteInv
<1>9. Registered(t)' <=> Registered(t)
  BY <1>1 DEF Registered
<1>10. Arriving(t) => Arriving(t)'
  BY <1>1 DEF Arriving
<1>11. result[t] # "complete"
  BY <1>2 DEF WriteInv
<1>12. WriteInv(t)'
  BY <1>1, <1>4, <1>5, <1>6, <1>7, <1>8, <1>9, <1>10, <1>11 DEF WriteInv
<1>13. ~Download(t)
  BY DEF Write, Download
<1> QED
  BY <1>3, <1>12, <1>13 DEF OperationInv
\* What the invariant says of one operation.
LEMMA TheOperation ==
    ASSUME DavInv, NEW t \in Transfers
    PROVE  /\ OperationInv(t) /\ BridgeTypes /\ TypeOK /\ ChannelInv /\ SharesRead
           /\ ~Write(t) => t \in Transferred /\ TransferInv(t)
           /\ ~Write(t) /\ file[t].state # "ok" => t \in Kept /\ Data(t)
           /\ Transferred \in SUBSET Transfers /\ Kept \in SUBSET Transfers
           /\ ProtocolOf(Transferred) /\ DataOf(Kept)
BY DEF DavInv, Transferred, Kept, ProtocolOf, DataOf

LEMMA TheState ==
    ASSUME DavInv
    PROVE  /\ BridgeTypes /\ TypeOK /\ ChannelInv /\ SharesRead
           /\ Transferred \in SUBSET Transfers /\ Kept \in SUBSET Transfers
           /\ ProtocolOf(Transferred) /\ DataOf(Kept)
BY DEF DavInv, Transferred, Kept, ProtocolOf, DataOf

\* The reply an operation takes next is one it has heard.
LEMMA TakesReply ==
    ASSUME BridgeTypes, NEW t \in Transfers, NEW kind, Waiting(t, kind)
    PROVE  Received(t) \in Heard(t) /\ file[t].state = "waiting" /\ Job[t].kind = kind
<1>1. mailbox[t] \in Seq(Message) /\ mailbox[t] # <<>>
  BY FileTypes DEF Waiting
<1>2. Received(t) \in Elems(mailbox[t])
  BY <1>1, ElemsOf DEF Received
<1> QED
  BY <1>2 DEF Heard, Waiting

LEMMA DavOpenSkips ==
    ASSUME DavInv, NEW t \in Transfers, OpenSkips(t)
    PROVE  DavInv'
<1>1. BridgeTypes /\ OperationInv(t)
  BY TheOperation
<1>2. Download(t) /\ file[t].state = "waiting" /\ mailbox[t] # <<>>
  BY DEF OpenSkips, Waiting, Download
<1>3. UNCHANGED <<vars, events, file>> /\ mailbox' = [mailbox EXCEPT ![t] = Tail(@)]
  BY DEF OpenSkips
<1>4. mailbox \in [Transfers -> Seq(Message)] /\ mailbox[t] \in Seq(Message)
  BY <1>1, FileTypes
<1>5. Elems(Tail(mailbox[t])) \subseteq Elems(mailbox[t]) /\ Tail(mailbox[t]) \in Seq(Message)
  BY <1>2, <1>4, ElemsOf
<1>6. /\ mailbox'[t] = Tail(mailbox[t])
      /\ \A u \in Transfers \ {t} : mailbox'[u] = mailbox[u]
      /\ mailbox' \in [Transfers -> Seq(Message)]
  BY <1>3, <1>4, <1>5
<1>7. BridgeTypes'
  BY <1>1, <1>3, <1>6 DEF BridgeTypes
<1>8. \A u \in Transfers \ {t} : file'[u] = file[u] /\ Heard(u)' \subseteq Heard(u)
  BY <1>3, <1>6 DEF Heard
<1>9. Heard(t)' \subseteq Heard(t)
  BY <1>3, <1>5, <1>6 DEF Heard
<1>10. OperationInv(t)'
  BY <1>1, <1>2, <1>3, <1>9, OpenStep
<1> QED
  BY <1>2, <1>3, <1>7, <1>8, <1>10, BridgeStep

\* An operation that ends with nothing else happening, and without success.
LEMMA OpenEnds ==
    ASSUME DavInv, NEW t \in Transfers, UNCHANGED vars, Download(t),
           NEW state \in {"not_found", "forbidden", "cancelled"},
           \/ /\ EndWith(t, state, None)
              /\ (state = "not_found" =>
                      /\ disk[Job[t].by][t] = None
                      /\ Job[t].by \in caps /\ t \notin damaged => original[t] = <<>>)
           \/ EndLeaving(t, state, None),
           file[t].state # "ok", state = "not_found" => Served(t),
           state = "forbidden" => sender[t].phase = "failed"
    PROVE  DavInv'
<1>1. BridgeTypes /\ OperationInv(t)
  BY TheOperation
<1>2. /\ BridgeTypes' /\ file'[t].state = state
      /\ EndLeaving(t, state, None) => file'[t].left
      /\ \A u \in Transfers \ {t} : file'[u] = file[u] /\ Heard(u)' = Heard(u)
      /\ Heard(t)' \subseteq Heard(t)
  BY <1>1, EndWithEffect DEF States
<1>3. OperationInv(t)'
  BY <1>1, <1>2, OpenStep
<1> QED
  BY <1>2, <1>3, BridgeStep

LEMMA DavOpenRejected ==
    ASSUME DavInv, NEW t \in Transfers, OpenRejected(t)
    PROVE  DavInv'
<1>1. Download(t) /\ Received(t) \in Heard(t) /\ file[t].state = "waiting"
  BY TakesReply DEF OpenRejected, Download, DavInv
<1>2. ReplyTold(t, Received(t))
  BY <1>1 DEF DavInv, OperationInv, OpenInv
<1>3. sender[t].phase = "failed"
  BY <1>2 DEF ReplyTold, OpenRejected
<1> QED
  BY <1>1, <1>3, OpenEnds DEF OpenRejected

\* The completion is the last message, so everything has arrived.
LEMMA AllHere ==
    ASSUME DavInv, NEW t \in Transfers, Waiting(t, "download"),
           Received(t).type # "Rejected", ~Skipped(t)
    PROVE  /\ Download(t) /\ Served(t) /\ file[t].state = "waiting"
           /\ Job[t].by \in caps /\ t \notin damaged => Got(t) = original[t]
<1>1. Download(t) /\ Received(t) \in Heard(t) /\ file[t].state = "waiting"
  BY TakesReply DEF Download, DavInv
<1>2. ReplyTold(t, Received(t))
  BY <1>1 DEF DavInv, OperationInv, OpenInv
<1>3. Served(t)
  BY <1>2 DEF ReplyTold, Fed, Skipped
<1>4. ASSUME Job[t].by \in caps, t \notin damaged  PROVE Got(t) = original[t]
  <2>1. PICK T : T = Kept /\ T \in SUBSET Transfers
    BY TheOperation
  <2>2. ProtocolOf(T) /\ t \in T /\ Data(t)
    BY <1>1, <2>1, TheOperation DEF DataOf, Download, Write
  <2>3. Live(t)
    BY <1>1, <1>4, Ends DEF Live
  <2>4. Opened(t) /\ Piped(t) /\ Arrived(t)
    BY <1>4, <2>2, <2>3 DEF Data
  <2> QED
    BY <1>3, <2>1, <2>2, <2>3, <2>4, ArrivedAll DEF Served
<1> QED
  BY <1>1, <1>3, <1>4

LEMMA DavOpenFindsNothing ==
    ASSUME DavInv, NEW t \in Transfers, OpenFindsNothing(t)
    PROVE  DavInv'
<1>1. /\ Download(t) /\ Served(t) /\ file[t].state = "waiting"
      /\ Job[t].by \in caps /\ t \notin damaged => Got(t) = original[t]
  BY AllHere DEF OpenFindsNothing
<1>2. /\ \/ disk[Job[t].by][t] = None /\ EndWith(t, "not_found", None)
         \/ EndLeaving(t, "not_found", None)
      /\ UNCHANGED vars
  BY DEF OpenFindsNothing
<1>3. disk[Job[t].by][t] = None => Got(t) = <<>>
  BY <1>1, Ends DEF Got, Place, Contents
<1> QED
  BY <1>1, <1>2, <1>3, OpenEnds

LEMMA DavCancel ==
    ASSUME DavInv, NEW t \in Transfers, Cancel(t)
    PROVE  DavInv'
<1>1. BridgeTypes /\ OperationInv(t)
  BY TheOperation
<1>2. /\ UNCHANGED vars /\ EndWith(t, "cancelled", None)
      /\ file[t].state \in {"waiting", "sending"}
  BY DEF Cancel
<1>3. /\ BridgeTypes' /\ file'[t].state = "cancelled" /\ file'[t].pos = file[t].pos
      /\ \A u \in Transfers \ {t} : file'[u] = file[u] /\ Heard(u)' = Heard(u)
      /\ Heard(t)' \subseteq Heard(t)
  BY <1>1, <1>2, EndWithEffect DEF States
<1>4. OperationInv(t)'
  <2>1. CASE Download(t)
    BY <1>1, <1>2, <1>3, <2>1, OpenStep
  <2>2. CASE Write(t)
    BY <1>1, <1>2, <1>3, <2>2, WriteStep
  <2>3. CASE ~Download(t) /\ ~Write(t)
    BY <1>1, <1>2, <1>3, <2>3 DEF OperationInv, Temporary, vars
  <2> QED
    BY <2>1, <2>2, <2>3
<1> QED
  BY <1>2, <1>3, <1>4, BridgeStep

LEMMA DavFlushAccepted ==
    ASSUME DavInv, NEW t \in Transfers, FlushAccepted(t)
    PROVE  DavInv'
<1>1. BridgeTypes /\ OperationInv(t)
  BY TheOperation
<1>2. /\ UNCHANGED <<vars, events>> /\ mailbox' = [mailbox EXCEPT ![t] = Tail(@)]
      /\ file' = [file EXCEPT ![t].state = "sending"] /\ Received(t).type = "Accepted"
  BY DEF FlushAccepted
<1>3. /\ Write(t) /\ Received(t) \in Heard(t) /\ file[t].state = "waiting"
      /\ mailbox[t] # <<>>
  BY <1>1, TakesReply DEF FlushAccepted, Write, Waiting
<1>4. mailbox \in [Transfers -> Seq(Message)] /\ mailbox[t] \in Seq(Message)
  BY <1>1, FileTypes
<1>5. Elems(Tail(mailbox[t])) \subseteq Elems(mailbox[t]) /\ Tail(mailbox[t]) \in Seq(Message)
  BY <1>3, <1>4, ElemsOf
<1>6. /\ mailbox'[t] = Tail(mailbox[t])
      /\ \A u \in Transfers \ {t} : mailbox'[u] = mailbox[u]
      /\ mailbox' \in [Transfers -> Seq(Message)]
  BY <1>2, <1>4, <1>5
<1>7. /\ file'[t].state = "sending" /\ file'[t].pos = file[t].pos
      /\ \A u \in Transfers \ {t} : file'[u] = file[u]
      /\ file' \in [Transfers -> FileState]
  BY <1>1, <1>2, FileTypes DEF FileState, States
<1>8. BridgeTypes'
  BY <1>1, <1>2, <1>6, <1>7 DEF BridgeTypes
<1>9. \A u \in Transfers \ {t} : file'[u] = file[u] /\ Heard(u)' \subseteq Heard(u)
  BY <1>2, <1>6, <1>7 DEF Heard
<1>10. Heard(t)' \subseteq Heard(t)
  BY <1>2, <1>5, <1>6 DEF Heard
<1>11. OperationInv(t)'
  BY <1>1, <1>2, <1>3, <1>7, <1>10, WriteStep
<1> QED
  BY <1>2, <1>3, <1>8, <1>9, <1>11, BridgeStep

LEMMA DavFlushFails ==
    ASSUME DavInv, NEW t \in Transfers, FlushFails(t)
    PROVE  DavInv'
<1>1. BridgeTypes /\ OperationInv(t)
  BY TheOperation
<1>2. UNCHANGED vars /\ EndWith(t, "forbidden", None)
  BY DEF FlushFails
<1>3. Write(t) /\ Heard(t) # {} /\ file[t].state = "waiting"
  BY <1>1, TakesReply DEF FlushFails, Write
<1>4. /\ BridgeTypes' /\ file'[t].state = "forbidden" /\ file'[t].pos = file[t].pos
      /\ \A u \in Transfers \ {t} : file'[u] = file[u] /\ Heard(u)' = Heard(u)
      /\ Heard(t)' \subseteq Heard(t)
  BY <1>1, <1>2, EndWithEffect DEF States
<1>5. OperationInv(t)'
  BY <1>1, <1>2, <1>3, <1>4, WriteStep
<1> QED
  BY <1>2, <1>3, <1>4, <1>5, BridgeStep
\* The application passes a reply on: to the operation, or to nobody.
LEMMA DavFeed ==
    ASSUME DavInv, NEW n \in Nodes, Feed(n)
    PROVE  DavInv'
<1>1. PICK msg, t : msg = Head(events[n]) /\ msg.id = t
  OBVIOUS
<1>2. /\ events[n] # <<>> /\ events' = [events EXCEPT ![n] = Tail(@)]
      /\ \/ n = Job[t].by /\ mailbox' = [mailbox EXCEPT ![t] = Append(@, msg)]
         \/ mailbox' = mailbox
      /\ UNCHANGED <<vars, file>>
  BY <1>1 DEF Feed
<1>3. /\ BridgeTypes /\ events \in [Nodes -> Seq(Message)] /\ events[n] \in Seq(Message)
      /\ mailbox \in [Transfers -> Seq(Message)]
  BY TheOperation, FileTypes DEF DavInv, BridgeTypes
<1>4. msg \in Elems(events[n]) /\ Elems(Tail(events[n])) \subseteq Elems(events[n])
  BY <1>1, <1>2, <1>3, ElemsOf
<1>5. msg \in Message /\ t \in Transfers
  BY <1>1, <1>3, <1>4, ElemsOf, MessageFields
<1>6. /\ \A k \in Nodes : Elems(events'[k]) \subseteq Elems(events[k])
      /\ events' \in [Nodes -> Seq(Message)]
  <2>1. Tail(events[n]) \in Seq(Message)
    BY <1>2, <1>3
  <2> QED
    BY <1>2, <1>3, <1>4, <2>1
<1>7. /\ \A u \in Transfers \ {t} : mailbox'[u] = mailbox[u]
      /\ \/ n = Job[t].by /\ Elems(mailbox'[t]) = Elems(mailbox[t]) \cup {msg}
         \/ mailbox'[t] = mailbox[t]
      /\ mailbox' \in [Transfers -> Seq(Message)]
  <2>1. CASE n = Job[t].by /\ mailbox' = [mailbox EXCEPT ![t] = Append(@, msg)]
    <3>1. mailbox[t] \in Seq(Message) /\ mailbox'[t] = Append(mailbox[t], msg)
      BY <1>3, <1>5, <2>1
    <3>2. mailbox' \in [Transfers -> Seq(Message)]
      BY <1>3, <1>5, <2>1, <3>1
    <3> QED
      BY <1>3, <1>5, <2>1, <3>1, <3>2, ElemsOf
  <2>2. CASE mailbox' = mailbox
    BY <1>3, <2>2
  <2> QED
    BY <1>2, <2>1, <2>2
<1>8. \A u \in Transfers : Heard(u)' \subseteq Heard(u)
  <2>1. \A u \in Transfers : Job[u].by \in Nodes
    BY Ends
  <2>2. \A u \in Transfers \ {t} : Heard(u)' \subseteq Heard(u)
    BY <1>6, <1>7, <2>1 DEF Heard
  <2>3. Heard(t)' \subseteq Heard(t)
    BY <1>1, <1>4, <1>5, <1>6, <1>7, <2>1 DEF Heard
  <2> QED
    BY <2>2, <2>3
<1>9. BridgeTypes'
  BY <1>2, <1>3, <1>6, <1>7 DEF BridgeTypes
<1>10. Aside(t)
  BY <1>2, <1>5, <1>8 DEF Aside, Undisturbed, vars, Flight, Got
<1>11. OperationInv(t)'
  BY <1>5, <1>10, TheOperation, OperationKept
<1> QED
  BY <1>2, <1>5, <1>8, <1>9, <1>11, BridgeStep

-----------------------------------------------------------------------------
(* open: the request, and the temporary file when it is read.              *)

LEMMA BeginEffect ==
    ASSUME BridgeTypes, NEW t \in Transfers, NEW lost \in BOOLEAN, Begin(t, lost)
    PROVE  /\ BridgeTypes' /\ file[t].state = "closed"
           /\ file'[t].state = "waiting" /\ file'[t].pos = file[t].pos
           /\ \A u \in Transfers \ {t} : file'[u] = file[u]
           /\ \A u \in Transfers : Heard(u)' = Heard(u)
<1>1. /\ file' = [file EXCEPT ![t] = [file[t] EXCEPT !.state = "waiting", !.lost = lost]]
      /\ file[t].state = "closed" /\ UNCHANGED <<events, mailbox>>
  BY FileTypes DEF Begin
<1>2. /\ file'[t].state = "waiting" /\ file'[t].pos = file[t].pos
      /\ \A u \in Transfers \ {t} : file'[u] = file[u]
      /\ file' \in [Transfers -> FileState]
  BY <1>1, FileTypes DEF FileState, States
<1>3. \A u \in Transfers : Heard(u)' = Heard(u)
  BY <1>1 DEF Heard
<1> QED
  BY <1>1, <1>2, <1>3 DEF BridgeTypes

\* A request that is lost leaves its operation waiting for no reply.
LEMMA RequestLost ==
    ASSUME DavInv, NEW t \in Transfers, Begin(t, TRUE), UNCHANGED vars, Download(t) \/ Write(t)
    PROVE  DavInv'
<1>1. BridgeTypes /\ OperationInv(t)
  BY TheOperation
<1>2. /\ BridgeTypes' /\ file[t].state = "closed"
      /\ file'[t].state = "waiting" /\ file'[t].pos = file[t].pos
      /\ \A u \in Transfers \ {t} : file'[u] = file[u]
      /\ \A u \in Transfers : Heard(u)' = Heard(u)
  BY <1>1, BeginEffect
<1>3. CASE Download(t)
  <2>1. OperationInv(t)'
    BY <1>1, <1>2, <1>3, OpenStep
  <2> QED
    BY <1>2, <2>1, BridgeStep
<1>4. CASE Write(t)
  <2>1. /\ UNCHANGED <<net, disk, active_uploads, active_downloads, sender, caps, requested,
                      result, original, delivered, damaged>>
        /\ Flight(t)' = Flight(t)
    BY DEF vars, Flight
  <2>2. WriteInv(t) /\ Temporary(t) /\ Noted(t) /\ Progress(t) /\ ~Download(t)
    BY <1>1, <1>4 DEF OperationInv, WriteInv, Write, Download
  <2>3. Flight(t) = {} /\ Heard(t) = {} /\ result[t] # "complete" /\ file[t].pos = 0
    BY <1>2, <2>2 DEF Progress
  <2>4. Temporary(t)' /\ Noted(t)'
    BY <2>1, <2>2 DEF Temporary, Noted
  <2>5. Progress(t)'
    BY <1>2, <2>2, <2>3 DEF Progress
  <2>6. ~Underway(t)'
    BY <1>2, <2>1, <2>3 DEF Underway, Flying
  <2>7. WriteInv(t)'
    BY <2>1, <2>3, <2>4, <2>5, <2>6 DEF WriteInv
  <2>8. OperationInv(t)'
    BY <1>4, <2>2, <2>4, <2>7 DEF OperationInv
  <2> QED
    BY <1>2, <2>8, BridgeStep
<1> QED
  BY <1>3, <1>4

LEMMA DavOpenSent ==
    ASSUME DavInv, NEW t \in Transfers, StartDownload(t), Begin(t, FALSE)
    PROVE  DavInv'
<1>1. Download(t) /\ ~Write(t) /\ t \notin requested
  BY DEF StartDownload, Download, Write
<1>2. /\ BridgeTypes' /\ file[t].state = "closed" /\ file'[t].state = "waiting"
      /\ \A u \in Transfers \ {t} : file'[u] = file[u]
      /\ \A u \in Transfers : Heard(u)' = Heard(u)
  BY <1>1, TheOperation, BeginEffect
<1>3. PICK T : T = Kept
  OBVIOUS
<1>4. /\ t \in Transferred /\ t \in T /\ T \in SUBSET Transfers
      /\ ProtocolOf(Transferred) /\ DataOf(T) /\ Transferred \in SUBSET Transfers
      /\ TransferInv(t) /\ OperationInv(t) /\ SharesRead
  BY <1>1, <1>2, <1>3, TheOperation
<1>5. /\ ProtocolOf(Transferred)' /\ DataOf(T)'
      /\ \A u \in Transfers \ {t} : Undisturbed(u)
      /\ sender[t].phase = "idle"
  BY <1>1, <1>4, ProtocolStartDownload, DataStart
<1>6. UNCHANGED <<disk, sender, active_downloads, original, delivered, damaged>>
  BY <1>1 DEF StartDownload
<1>7. \A u \in Transfers \ {t} : Aside(u)
  BY <1>2, <1>5, <1>6 DEF Aside, Got
<1>8. SharesRead'
  BY <1>4, <1>6 DEF SharesRead
<1>9. OperationInv(t)'
  <2>1. Temporary(t)'
    BY <1>4, <1>6 DEF OperationInv, Temporary
  <2>2. OpenInv(t)
    BY <1>1, <1>4 DEF OperationInv
  <2>3. \A x \in Heard(t)' : ReplyTold(t, x)'
    BY <1>2, <1>5, <2>2 DEF OpenInv, ReplyTold, Served
  <2>4. OpenInv(t)'
    BY <1>2, <2>3 DEF OpenInv
  <2> QED
    BY <1>1, <1>2, <2>1, <2>4 DEF OperationInv
<1>10. Kept' \subseteq T
  BY <1>2, <1>3 DEF Kept, Transferred
<1> QED
  BY <1>2, <1>5, <1>7, <1>8, <1>9, <1>10, StepKeeps

LEMMA DavOpen ==
    ASSUME DavInv, NEW t \in Transfers, Open(t)
    PROVE  DavInv'
BY DavOpenSent, RequestLost DEF Open, Download

\* The file is read and stays.
LEMMA DavOpenLeaves ==
    ASSUME DavInv, NEW t \in Transfers, OpenCompletes(t), UNCHANGED disk,
           EndLeaving(t, "ok", disk[Job[t].by][t])
    PROVE  DavInv'
<1>0. PICK n : n = Job[t].by
  OBVIOUS
<1>1. /\ Download(t) /\ Served(t) /\ file[t].state = "waiting"
      /\ Job[t].by \in caps /\ t \notin damaged => Got(t) = original[t]
  BY AllHere DEF OpenCompletes
<1>2. UNCHANGED vars /\ disk[n][t] # None /\ EndLeaving(t, "ok", disk[n][t])
  BY <1>0 DEF OpenCompletes, history, vars
<1>3. n \in Nodes /\ n = Receiver(t) /\ t \in Places
  BY <1>0, <1>1, Ends DEF Places
<1>4. disk[n][t] \in File \cup {None} /\ Got(t) = disk[n][t]
  BY <1>1, <1>2, <1>3, TheState DEF TypeOK, VariableTypes, Got, Place, Contents
<1>5. /\ BridgeTypes' /\ file'[t].state = "ok" /\ file'[t].data = disk[n][t] /\ file'[t].left
      /\ \A u \in Transfers \ {t} : file'[u] = file[u] /\ Heard(u)' = Heard(u)
      /\ Heard(t)' \subseteq Heard(t)
  BY <1>2, <1>4, TheOperation, EndWithEffect DEF States
<1>6. OperationInv(t)'
  BY <1>1, <1>2, <1>4, <1>5, TheOperation, OpenStep
<1> QED
  BY <1>1, <1>2, <1>5, <1>6, BridgeStep

\* The file is read and removed: nobody else has it open or writes it.
LEMMA DavOpenRemoves ==
    ASSUME DavInv, NEW t \in Transfers, OpenCompletes(t), disk' = TempRemoved(Job[t].by, t),
           EndWith(t, "ok", disk[Job[t].by][t])
    PROVE  DavInv'
<1>0. PICK n : n = Job[t].by
  OBVIOUS
<1>1. /\ Download(t) /\ Served(t) /\ file[t].state = "waiting"
      /\ Job[t].by \in caps /\ t \notin damaged => Got(t) = original[t]
  BY AllHere DEF OpenCompletes
<1>2. /\ disk[n][t] # None /\ EndWith(t, "ok", disk[n][t])
      /\ disk' = [disk EXCEPT ![n][t] = None]
      /\ UNCHANGED <<net, active_uploads, active_downloads, sender, edits, caps, requested,
                     result, original, delivered, damaged>>
  BY <1>0 DEF OpenCompletes, TempRemoved, history
<1>3. /\ n \in Nodes /\ n = Receiver(t) /\ t \in Places
      /\ disk \in [Nodes -> [Places -> File \cup {None}]]
      /\ disk[n][t] \in File \cup {None}
  <2>1. n \in Nodes /\ n = Receiver(t) /\ t \in Places
    BY <1>0, <1>1, Ends DEF Places
  <2>2. disk \in [Nodes -> [Places -> File \cup {None}]]
    BY TheState DEF TypeOK, VariableTypes
  <2> QED
    BY <2>1, <2>2
<1>4. /\ disk'[n][t] = None /\ disk' \in [Nodes -> [Places -> File \cup {None}]]
      /\ \A k \in Nodes, q \in Places : q # t => disk'[k][q] = disk[k][q]
      /\ \A k \in Nodes \ {n} : disk'[k] = disk[k]
  BY <1>2, <1>3
<1>5. /\ BridgeTypes' /\ file'[t].state = "ok" /\ file'[t].data = disk[n][t]
      /\ \A u \in Transfers \ {t} : file'[u] = file[u] /\ Heard(u)' = Heard(u)
      /\ Heard(t)' \subseteq Heard(t)
  BY <1>2, <1>3, TheOperation, EndWithEffect DEF States
<1>6. \A u \in Transfers : /\ sender[u].file \in Paths \cup {None}
                           /\ OpenFile(u)' = OpenFile(u)
  <2>1. \A u \in Transfers : sender[u].file \in Paths \cup {None}
    BY TheOperation DEF SharesRead
  <2>2. \A p \in Paths : p \in Places /\ p # t
    BY DistinctAssumption DEF Places
  <2>3. \A u \in Transfers : Sender(u) \in Nodes
    BY EndsAreNodes
  <2> QED
    BY <1>2, <1>4, <2>1, <2>2, <2>3 DEF OpenFile
<1>7. TypeOK'
  <2>1. VariableTypes'
    BY <1>2, <1>4, TheOperation DEF TypeOK, VariableTypes
  <2>2. ReadersOpen'
    BY <1>2, <1>6, TheOperation DEF TypeOK, ReadersOpen
  <2> QED
    BY <2>1, <2>2 DEF TypeOK
<1>8. ProtocolOf(Transferred)'
  BY <1>2, <1>7, TheOperation, ProtocolAside
<1>9. PICK T : T = Kept \ {t}
  OBVIOUS
<1>10. \A u \in Transfers \ {t} : Place(u) \in Places =>
          Place(u) # t /\ disk'[Receiver(u)][Place(u)] = disk[Receiver(u)][Place(u)]
  <2> SUFFICES ASSUME NEW u \in Transfers \ {t}, Place(u) \in Places
               PROVE  Place(u) # t /\ disk'[Receiver(u)][Place(u)] = disk[Receiver(u)][Place(u)]
    OBVIOUS
  <2>1. Job[u].remote # t
    BY Ends, DistinctAssumption DEF Places
  <2>2. Place(u) # t
    BY <2>1 DEF Place
  <2> QED
    BY <1>4, <2>2, EndsAreNodes
<1>11. DataOf(T)'
  <2>1. T \in SUBSET Transfers /\ DataOf(T) /\ t \notin T
    BY <1>9, TheOperation DEF DataOf, ProtocolOf
  <2>2. ProtocolOf(T) /\ ProtocolOf(T)'
    <3>1. ProtocolOf(T)
      BY <2>1 DEF DataOf
    <3> QED
      BY <1>2, <1>7, <2>1, <3>1, ProtocolAside
  <2>3. \A u \in Transfers : Unmoved(u)
    BY <1>2 DEF Unmoved, Flight, Registered
  <2>4. \A u \in T : Live(u) => Got(u)' = Got(u)
    <3> SUFFICES ASSUME NEW u \in T, Live(u)  PROVE Got(u)' = Got(u)
      OBVIOUS
    <3>1. Place(u) \in Places
      BY <2>1, <2>2, PlaceType DEF Live
    <3> QED
      BY <1>10, <2>1, <3>1 DEF Got
  <2>5. \A u \in T : Steady(u)
    BY <1>2, <1>6, <2>1, <2>4 DEF Steady
  <2> QED
    BY <2>1, <2>2, <2>3, <2>5, AllDataKept
<1>12. ASSUME NEW u \in Transfers \ {t}  PROVE Aside(u)
  <2>1. Undisturbed(u)
    BY <1>2 DEF Undisturbed, Flight
  <2>2. \A k \in Nodes : disk'[k][u] = disk[k][u]
    BY <1>4 DEF Places
  <2>3. ASSUME Write(u), Registered(u)
        PROVE  Got(u)' = Got(u) /\ disk'[Receiver(u)][Job[u].remote] = disk[Receiver(u)][Job[u].remote]
    <3>1. Place(u) = Job[u].remote
      BY <2>3 DEF Place, Write, Download
    <3>2. Place(u) \in Places
      <4>1. Noted(u) /\ Receiver(u) \in Nodes /\ Receiver(u) # Job[u].by
        BY <2>3, TheOperation, Ends DEF OperationInv, WriteInv, Write, Download
      <4>2. active_downloads[Receiver(u)][u] # None
        BY <2>3 DEF Registered
      <4>3. active_downloads[Receiver(u)][u].path = Job[u].remote
        BY <4>1, <4>2 DEF Noted
      <4>4. active_downloads[Receiver(u)][u] \in Entry
        BY <4>1, <4>2, TheOperation DEF TypeOK, VariableTypes
      <4> QED
        BY <3>1, <4>3, <4>4 DEF Entry
    <3> QED
      BY <1>10, <3>1, <3>2 DEF Got
  <2> QED
    BY <1>2, <1>5, <2>1, <2>2, <2>3 DEF Aside
<1>13. OperationInv(t)'
  <2>1. Served(t)' <=> Served(t)
    BY <1>2 DEF Served, Flight, Registered
  <2>2. Temporary(t)'
    <3>1. Temporary(t)
      BY TheOperation DEF OperationInv
    <3> QED
      BY <1>0, <1>2, <1>4, <3>1 DEF Temporary
  <2>3. OpenInv(t)
    BY <1>1, TheOperation DEF OperationInv
  <2>4. \A x \in Heard(t)' : ReplyTold(t, x)'
    BY <1>2, <1>5, <2>1, <2>3 DEF OpenInv, ReplyTold
  <2>5. Got(t) = disk[n][t]
    BY <1>1, <1>2, <1>3 DEF Got, Place, Contents
  <2>6. OpenInv(t)'
    BY <1>0, <1>1, <1>2, <1>4, <1>5, <2>1, <2>4, <2>5 DEF OpenInv
  <2> QED
    BY <1>1, <1>5, <2>2, <2>6 DEF OperationInv, Write, Download
<1>14. SharesRead'
  BY <1>2, TheOperation DEF SharesRead
<1>15. Kept' \subseteq T
  BY <1>5, <1>9 DEF Kept, Transferred
<1> QED
  BY <1>5, <1>8, <1>11, <1>12, <1>13, <1>14, <1>15, StepKeeps

LEMMA DavOpenCompletes ==
    ASSUME DavInv, NEW t \in Transfers, OpenCompletes(t)
    PROVE  DavInv'
BY DavOpenRemoves, DavOpenLeaves DEF OpenCompletes

-----------------------------------------------------------------------------
(* flush: the request, the blocks and the completion.                      *)

\* Where the peer of a write puts it, once it knows the write.
LEMMA WritePlace ==
    ASSUME DavInv, NEW t \in Transfers, Write(t)
    PROVE  /\ WriteInv(t) /\ Temporary(t) /\ ~Download(t) /\ Place(t) = Job[t].remote
           /\ Sender(t) = Job[t].by /\ Receiver(t) = Job[t].with
           /\ Registered(t) =>
                /\ active_downloads[Receiver(t)][t].path = Job[t].remote
                /\ Job[t].remote \in Paths /\ Receiver(t) \in caps
                /\ disk[Receiver(t)][Job[t].remote] \in File \cup {None}
                /\ Got(t) \in File /\ Len(Got(t)) \in Nat
<1>1. WriteInv(t) /\ Temporary(t) /\ ~Download(t) /\ Place(t) = Job[t].remote
  BY TheOperation DEF OperationInv, Write, Download, Place
<1>2. /\ Sender(t) = Job[t].by /\ Receiver(t) = Job[t].with /\ Receiver(t) \in Nodes
      /\ Receiver(t) # Job[t].by /\ Job[t].remote \in Paths \cup {None}
  BY <1>1, Ends
<1>3. ASSUME Registered(t)
      PROVE  /\ active_downloads[Receiver(t)][t].path = Job[t].remote
             /\ Job[t].remote \in Paths /\ Receiver(t) \in caps
             /\ disk[Receiver(t)][Job[t].remote] \in File \cup {None}
             /\ Got(t) \in File /\ Len(Got(t)) \in Nat
  <2> DEFINE entry == active_downloads[Receiver(t)][t]
  <2>1. entry # None /\ entry \in Entry
    BY <1>2, <1>3, TheOperation DEF Registered, TypeOK, VariableTypes
  <2>2. entry.path = Job[t].remote /\ Receiver(t) \in caps
    BY <1>1, <1>2, <2>1 DEF WriteInv, Noted
  <2>3. Job[t].remote \in Places
    BY <2>1, <2>2 DEF Entry
  <2>4. Job[t].remote \in Paths
    BY <1>2, <2>3, PathsAreSome
  <2>5. disk[Receiver(t)][Job[t].remote] \in File \cup {None}
    BY <1>2, <2>3, TheOperation DEF TypeOK, VariableTypes
  <2>6. Got(t) \in File
    BY <1>1, <2>5 DEF Got, Contents, File
  <2>7. Len(Got(t)) \in Nat
    BY <2>6 DEF File
  <2> QED
    BY <2>2, <2>4, <2>5, <2>6, <2>7
<1> QED
  BY <1>1, <1>2, <1>3

\* A message of a write is sent, and the other transfers stand aside.
LEMMA WriteSends ==
    ASSUME DavInv, NEW t \in Transfers, Write(t), NEW msg \in Message, msg.id = t,
           msg.type \in {"FileUploadRequest", "FileChunk", "FileTransferComplete"},
           \A x \in Flight(t) : MayFollow(x, msg), Send(Job[t].by, Job[t].with, msg),
           UNCHANGED <<disk, active_uploads, active_downloads, sender, edits, caps, result,
                       delivered, damaged>>,
           requested' \subseteq Transfers, original' \in [Transfers -> File \cup {None}],
           \A u \in Transfers \ {t} :
              (u \in requested' <=> u \in requested) /\ original'[u] = original[u],
           BridgeTypes',
           \A u \in Transfers \ {t} : file'[u] = file[u] /\ Heard(u)' \subseteq Heard(u)
    PROVE  /\ Flight(t)' = Flight(t) \cup {msg}
           /\ OperationInv(t)' => DavInv'
<1>1. Job[t].by = From(msg) /\ Job[t].with = To(msg)
  BY WritePlace DEF From, To, Requests, Answers
<1>2. Job[t].by \in Nodes /\ Job[t].with \in Nodes /\ ChannelInv
  BY Ends, TheOperation
<1>3. /\ ChannelInv' /\ Flight(t)' = Flight(t) \cup {msg}
      /\ \A u \in Transfers \ {t} : Flight(u)' = Flight(u)
  BY <1>1, <1>2, SendFlight
<1>4. TypeOK'
  <2>1. net' \in [Nodes -> [Nodes -> Seq(Message)]]
    BY <1>3 DEF ChannelInv, Channels
  <2>2. VariableTypes'
    BY <2>1, TheOperation DEF TypeOK, VariableTypes
  <2>3. ReadersOpen'
    BY TheOperation DEF TypeOK, ReadersOpen, OpenFile
  <2> QED
    BY <2>2, <2>3 DEF TypeOK
<1>5. \A u \in Transfers \ {t} : Undisturbed(u) /\ Unmoved(u) /\ Steady(u)
  BY <1>3, SteadyAside DEF Undisturbed, Unmoved, Registered
<1>6. PICK T : T = Kept
  OBVIOUS
<1>7. /\ t \notin T /\ t \notin Transferred /\ T \in SUBSET Transfers /\ DataOf(T)
      /\ Transferred \in SUBSET Transfers /\ ProtocolOf(Transferred) /\ ProtocolOf(T)
  BY <1>6, TheOperation DEF Kept, Transferred, DataOf
<1>8. ProtocolOf(Transferred)' /\ ProtocolOf(T)'
  BY <1>3, <1>4, <1>5, <1>7, AllTransfersKept
<1>9. DataOf(T)'
  BY <1>5, <1>7, <1>8, AllDataKept
<1>10. \A u \in Transfers \ {t} : Aside(u)
  BY <1>5 DEF Aside, Got
<1>11. SharesRead'
  BY TheOperation DEF SharesRead
<1>12. Kept' \subseteq T
  BY <1>6 DEF Kept, Transferred, Write
<1> QED
  BY <1>3, <1>8, <1>9, <1>10, <1>11, <1>12, StepKeeps

\* For the operation of the write itself, what sending changes.
LEMMA WriteTold ==
    ASSUME DavInv, NEW t \in Transfers, Write(t),
           UNCHANGED <<disk, active_uploads, active_downloads, sender, caps, result,
                       delivered, damaged>>,
           result[t] # "complete", Progress(t)',
           \A x \in Flight(t)' : MessageOfWrite(t, x)',
           Underway(t)' => Registered(t) /\ (t \notin damaged => Arriving(t)')
    PROVE  OperationInv(t)'
<1>1. /\ WriteInv(t) /\ Temporary(t) /\ ~Download(t)
  BY WritePlace
<1>2. Temporary(t)'
  BY <1>1 DEF Temporary
<1>3. Noted(t)'
  BY <1>1 DEF WriteInv, Noted
<1>4. Registered(t)' <=> Registered(t)
  BY DEF Registered
<1>5. WriteInv(t)'
  BY <1>3, <1>4 DEF WriteInv
<1> QED
  BY <1>1, <1>2, <1>5 DEF OperationInv

LEMMA DavFlushSent ==
    ASSUME DavInv, NEW t \in Transfers, Write(t), StartWrite(t), Begin(t, FALSE)
    PROVE  DavInv'
<1>1. PICK msg : msg = UploadRequest(t)
  OBVIOUS
<1>2. /\ Begin(t, FALSE) /\ Send(Job[t].by, Job[t].with, msg)
      /\ requested' = requested \cup {t}
      /\ original' = [original EXCEPT ![t] = Written[t]]
      /\ UNCHANGED <<disk, active_uploads, active_downloads, sender, edits, caps, result,
                     delivered, damaged>>
  BY <1>1 DEF StartWrite
<1>3. /\ BridgeTypes' /\ file[t].state = "closed"
      /\ file'[t].state = "waiting" /\ file'[t].pos = file[t].pos
      /\ \A u \in Transfers \ {t} : file'[u] = file[u]
      /\ \A u \in Transfers : Heard(u)' = Heard(u)
  BY <1>2, TheOperation, BeginEffect
<1>4. WriteInv(t) /\ Progress(t)
  BY <1>2, WritePlace DEF WriteInv
<1>5. Flight(t) = {} /\ Heard(t) = {} /\ result[t] # "complete" /\ file[t].pos = 0
  BY <1>3, <1>4 DEF Progress
<1>6. /\ msg \in Message /\ msg.id = t /\ msg.type = "FileUploadRequest"
      /\ msg.path = Job[t].remote
  BY <1>1, Ends DEF UploadRequest, Message
<1>7. requested' \subseteq Transfers /\ original' \in [Transfers -> File \cup {None}]
  <2>1. requested \subseteq Transfers /\ original \in [Transfers -> File \cup {None}]
    BY TheOperation DEF TypeOK, VariableTypes
  <2>2. Written[t] \in File
    BY WrittenAssumption DEF File, Block
  <2> QED
    BY <1>2, <2>1, <2>2
<1>8. \A u \in Transfers \ {t} :
          (u \in requested' <=> u \in requested) /\ original'[u] = original[u]
  <2>1. original \in [Transfers -> File \cup {None}]
    BY TheOperation DEF TypeOK, VariableTypes
  <2> QED
    BY <1>2, <2>1
<1>9. Flight(t)' = {msg} /\ (OperationInv(t)' => DavInv')
  BY <1>2, <1>3, <1>5, <1>6, <1>7, <1>8, WriteSends
<1>10. Progress(t)'
  BY <1>3, <1>4, <1>5 DEF Progress
<1>11. \A x \in Flight(t)' : MessageOfWrite(t, x)'
  BY <1>3, <1>5, <1>6, <1>9 DEF MessageOfWrite, Requests, Answers
<1>12. ~Underway(t)'
  BY <1>3, <1>5, <1>6, <1>9 DEF Underway, Flying
<1> QED
  BY <1>2, <1>5, <1>9, <1>10, <1>11, <1>12, WriteTold

LEMMA DavFlush ==
    ASSUME DavInv, NEW t \in Transfers, Flush(t)
    PROVE  DavInv'
BY DavFlushSent, RequestLost DEF Flush, Write

\* While a flush sends, only its blocks are in flight.
LEMMA SendingFlight ==
    ASSUME DavInv, NEW t \in Transfers, Write(t), file[t].state = "sending"
    PROVE  \A x \in Flight(t) : x.type = "FileChunk" /\ x.offset < file[t].pos
<1> SUFFICES ASSUME NEW x \in Flight(t)  PROVE x.type = "FileChunk" /\ x.offset < file[t].pos
  OBVIOUS
<1>1. MessageOfWrite(t, x) /\ x \in Message
  BY WritePlace DEF WriteInv, Flight, FlightIn
<1> QED
  BY <1>1 DEF MessageOfWrite, Message, Requests, Answers

LEMMA DavFlushSendsBlock ==
    ASSUME DavInv, NEW t \in Transfers, FlushSendsBlock(t)
    PROVE  DavInv'
<1>1. PICK pos : pos = file[t].pos
  OBVIOUS
<1>2. PICK msg : msg = FileChunk(t, pos, Written[t][pos + 1])
  OBVIOUS
<1>3. /\ file[t].state = "sending" /\ pos < Len(Written[t])
      /\ Send(Job[t].by, Job[t].with, msg)
      /\ file' = [file EXCEPT ![t].pos = pos + 1] /\ UNCHANGED <<events, mailbox>>
      /\ UNCHANGED <<disk, active_uploads, active_downloads, sender, edits, caps, requested,
                     result, original, delivered, damaged>>
  BY <1>1, <1>2 DEF FlushSendsBlock, history
<1>4. pos \in Nat /\ Written[t] \in Seq(Blocks) /\ Len(Written[t]) \in Nat
  BY <1>1, FileTypes, TheOperation, WrittenAssumption
<1>5. Write(t)
  BY <1>3, TheOperation DEF OperationInv
<1>6. /\ msg \in Message /\ msg.id = t /\ msg.type = "FileChunk" /\ msg.offset = pos
      /\ msg.data = Written[t][pos + 1]
  <2>1. Written[t][pos + 1] \in Block
    BY <1>3, <1>4 DEF Block
  <2> QED
    BY <1>2, <1>4, <2>1 DEF FileChunk, Message
<1>7. /\ BridgeTypes' /\ file'[t].state = "sending" /\ file'[t].pos = pos + 1
      /\ \A u \in Transfers \ {t} : file'[u] = file[u]
  <2>1. /\ file'[t].state = "sending" /\ file'[t].pos = pos + 1
        /\ \A u \in Transfers \ {t} : file'[u] = file[u]
        /\ file' \in [Transfers -> FileState]
    <3>1. PICK next \in Nat : next = pos + 1
      BY <1>4
    <3>2. file' = [file EXCEPT ![t].pos = next] /\ file \in [Transfers -> FileState]
      BY <1>3, <3>1, FileTypes, TheOperation
    <3>3. /\ file'[t].state = file[t].state /\ file'[t].pos = next
          /\ \A u \in Transfers \ {t} : file'[u] = file[u]
      BY <3>2 DEF FileState
    <3>4. file' \in [Transfers -> FileState]
      BY <3>2 DEF FileState
    <3> QED
      BY <1>3, <3>1, <3>3, <3>4
  <2> QED
    BY <1>3, <2>1, TheOperation DEF BridgeTypes
<1>8. \A u \in Transfers : Heard(u)' = Heard(u)
  BY <1>3 DEF Heard
<1>9. \A x \in Flight(t) : x.type = "FileChunk" /\ x.offset < pos
  BY <1>1, <1>3, <1>5, SendingFlight
<1>10. \A x \in Flight(t) : MayFollow(x, msg)
  BY <1>6, <1>9 DEF MayFollow
<1>11. requested \subseteq Transfers /\ original \in [Transfers -> File \cup {None}]
  BY TheOperation DEF TypeOK, VariableTypes
<1>12. Flight(t)' = Flight(t) \cup {msg} /\ (OperationInv(t)' => DavInv')
  BY <1>3, <1>5, <1>6, <1>7, <1>8, <1>10, <1>11, WriteSends
<1>13. WriteInv(t) /\ Progress(t) /\ Underway(t)
  BY <1>3, <1>5, WritePlace DEF WriteInv, Underway
<1>14. result[t] # "complete"
  BY <1>3, <1>13 DEF WriteInv
<1>15. Progress(t)'
  BY <1>3, <1>4, <1>7 DEF Progress
<1>16. \A x \in Flight(t)' : MessageOfWrite(t, x)'
  <2> SUFFICES ASSUME NEW x \in Flight(t)'  PROVE MessageOfWrite(t, x)'
    OBVIOUS
  <2>1. x.type = "FileChunk" /\ x.offset \in Nat /\ x.offset < pos + 1
    <3>1. CASE x = msg
      BY <1>4, <1>6, <3>1
    <3>2. CASE x \in Flight(t)
      <4>1. x \in Message
        BY <3>2 DEF Flight, FlightIn
      <4> QED
        BY <1>4, <1>9, <3>2, <4>1, MessageFields
    <3> QED
      BY <1>12, <3>1, <3>2
  <2> QED
    BY <1>7, <2>1 DEF MessageOfWrite, Requests, Answers
<1>17. Registered(t) /\ (t \notin damaged => Arriving(t)')
  <2>1. Registered(t) /\ (t \notin damaged => Arriving(t)) /\ Len(Got(t)) \in Nat
    BY <1>13, <1>5, WritePlace DEF WriteInv
  <2>2. ASSUME Arriving(t)  PROVE Arriving(t)'
    <3>1. Got(t)' = Got(t)
      BY <1>3 DEF Got
    <3>2. PICK len : len = Len(Got(t)) /\ len \in Nat
      BY <2>1
    <3>3. len <= pos
      BY <1>1, <2>2, <3>2 DEF Arriving
    <3>4. len <= pos + 1
      BY <1>4, <3>2, <3>3
    <3>5. ASSUME NEW k \in Nat, len <= k, k < pos + 1
          PROVE  \E x \in Flight(t)' : x.type = "FileChunk" /\ x.offset = k
      <4>1. CASE k = pos
        BY <1>6, <1>12, <4>1
      <4>2. CASE k # pos
        <5>1. k < pos
          BY <1>4, <3>5, <4>2
        <5> QED
          BY <1>1, <1>12, <2>2, <3>2, <3>5, <5>1 DEF Arriving
      <4> QED
        BY <4>1, <4>2
    <3>6. ASSUME NEW x \in Flight(t)', x.type = "FileChunk"
          PROVE  len <= x.offset /\ x.data = Written[t][x.offset + 1]
      <4>1. CASE x = msg
        BY <1>6, <3>3, <4>1
      <4>2. CASE x \in Flight(t)
        BY <2>2, <3>2, <3>6, <4>2 DEF Arriving
      <4> QED
        BY <1>12, <4>1, <4>2
    <3>7. /\ disk'[Receiver(t)][Job[t].remote] # None
          /\ \A i \in 1 .. len : Got(t)[i] = Written[t][i]
      BY <1>3, <2>2, <3>2 DEF Arriving
    <3> QED
      BY <1>7, <3>1, <3>2, <3>4, <3>5, <3>6, <3>7 DEF Arriving
  <2> QED
    BY <2>1, <2>2
<1> QED
  BY <1>3, <1>5, <1>12, <1>14, <1>15, <1>16, <1>17, WriteTold

LEMMA DavFlushCompletes ==
    ASSUME DavInv, NEW t \in Transfers, FlushCompletes(t)
    PROVE  DavInv'
<1>1. PICK msg : msg = FileTransferComplete(t)
  OBVIOUS
<1>2. /\ file[t].state = "sending" /\ file[t].pos >= Len(Written[t])
      /\ Send(Job[t].by, Job[t].with, msg) /\ EndWith(t, "ok", None)
      /\ UNCHANGED <<disk, active_uploads, active_downloads, sender, edits, caps, requested,
                     result, original, delivered, damaged>>
  BY <1>1 DEF FlushCompletes, AllSent, CompleteSent, history
<1>3. file[t].pos \in Nat /\ Written[t] \in Seq(Blocks) /\ Len(Written[t]) \in Nat
  BY FileTypes, TheOperation, WrittenAssumption
<1>4. Write(t)
  BY <1>2, TheOperation DEF OperationInv
<1>5. msg \in Message /\ msg.id = t /\ msg.type = "FileTransferComplete"
  BY <1>1 DEF FileTransferComplete, Message
<1>6. /\ BridgeTypes' /\ file'[t].state = "ok" /\ file'[t].pos = file[t].pos
      /\ \A u \in Transfers \ {t} : file'[u] = file[u] /\ Heard(u)' = Heard(u)
      /\ Heard(t)' \subseteq Heard(t)
  BY <1>2, TheOperation, EndWithEffect DEF States
<1>7. \A x \in Flight(t) : x.type = "FileChunk" /\ x.offset < file[t].pos
  BY <1>2, <1>4, SendingFlight
<1>8. \A x \in Flight(t) : MayFollow(x, msg)
  BY <1>5, <1>7 DEF MayFollow
<1>9. requested \subseteq Transfers /\ original \in [Transfers -> File \cup {None}]
  BY TheOperation DEF TypeOK, VariableTypes
<1>10. Flight(t)' = Flight(t) \cup {msg} /\ (OperationInv(t)' => DavInv')
  BY <1>2, <1>4, <1>5, <1>6, <1>8, <1>9, WriteSends
<1>11. WriteInv(t) /\ Progress(t) /\ Underway(t)
  BY <1>2, <1>4, WritePlace DEF WriteInv, Underway
<1>12. result[t] # "complete"
  BY <1>2, <1>11 DEF WriteInv
<1>13. file[t].pos = Len(Written[t]) /\ Progress(t)'
  <2>1. file[t].pos <= Len(Written[t])
    BY <1>11 DEF Progress
  <2>2. file[t].pos = Len(Written[t])
    BY <1>2, <1>3, <2>1
  <2> QED
    BY <1>3, <1>6, <2>2 DEF Progress
<1>14. \A x \in Flight(t)' : MessageOfWrite(t, x)'
  BY <1>5, <1>6, <1>7, <1>10, <1>13 DEF MessageOfWrite, Requests, Answers
<1>15. Registered(t) /\ (t \notin damaged => Arriving(t)')
  <2>1. Registered(t) /\ (t \notin damaged => Arriving(t))
    BY <1>11 DEF WriteInv
  <2>2. \A x : x.type = "FileChunk" => (x \in Flight(t)' <=> x \in Flight(t))
    BY <1>5, <1>10
  <2>3. Got(t)' = Got(t)
    BY <1>2 DEF Got
  <2>4. ASSUME Arriving(t)  PROVE Arriving(t)'
    <3>1. /\ disk'[Receiver(t)][Job[t].remote] # None
          /\ Len(Got(t)) <= file[t].pos
          /\ \A i \in 1 .. Len(Got(t)) : Got(t)[i] = Written[t][i]
      BY <1>2, <2>4 DEF Arriving
    <3>2. \A k \in Nat : Len(Got(t)) <= k /\ k < file[t].pos =>
              \E x \in Flight(t)' : x.type = "FileChunk" /\ x.offset = k
      BY <2>2, <2>4 DEF Arriving
    <3>3. \A x \in Flight(t)' : x.type = "FileChunk" =>
              Len(Got(t)) <= x.offset /\ x.data = Written[t][x.offset + 1]
      BY <2>2, <2>4 DEF Arriving
    <3> QED
      BY <1>6, <2>3, <3>1, <3>2, <3>3 DEF Arriving
  <2> QED
    BY <2>1, <2>4
<1> QED
  BY <1>2, <1>4, <1>10, <1>12, <1>13, <1>14, <1>15, WriteTold

\* A flush that was cut off sends nothing more, so its peer never sees its end.
LEMMA DavFlushCut ==
    ASSUME DavInv, NEW t \in Transfers, FlushCut(t)
    PROVE  DavInv'
<1>1. PICK f \in FileState : f = file[t]
  BY FileTypes, TheOperation
<1>2. PICK outcome : outcome = [f EXCEPT !.state = "ok", !.lost = TRUE]
  OBVIOUS
<1>3. /\ file[t].state = "sending" /\ UNCHANGED vars /\ End(t, outcome)
  BY <1>1, <1>2 DEF FlushCut
<1>4. outcome \in FileState /\ outcome.state = "ok" /\ outcome.pos = f.pos /\ f.pos = file[t].pos
  BY <1>1, <1>2 DEF FileState, States
<1>5. /\ BridgeTypes' /\ file'[t].state = "ok" /\ file'[t].pos = file[t].pos
      /\ \A u \in Transfers \ {t} : file'[u] = file[u] /\ Heard(u)' = Heard(u)
      /\ Heard(t)' \subseteq Heard(t)
  BY <1>3, <1>4, TheOperation, EndEffect
<1>6. Write(t) /\ OperationInv(t)
  BY <1>3, TheOperation DEF OperationInv
<1>7. WriteInv(t) /\ Temporary(t) /\ Noted(t) /\ Progress(t) /\ ~Download(t)
  BY <1>6, WritePlace DEF WriteInv
<1>8. \A x \in Flight(t) : x.type = "FileChunk" /\ x.offset < file[t].pos
  BY <1>3, <1>6, SendingFlight
<1>9. /\ UNCHANGED <<net, disk, active_uploads, active_downloads, sender, caps, requested,
                     result, original, delivered, damaged>>
      /\ Flight(t)' = Flight(t)
  BY <1>3 DEF vars, Flight
<1>10. Temporary(t)' /\ Noted(t)' /\ Progress(t)'
  BY <1>5, <1>7, <1>9 DEF Temporary, Noted, Progress
<1>11. \A x \in Flight(t)' : MessageOfWrite(t, x)'
  BY <1>5, <1>8, <1>9 DEF MessageOfWrite, Requests, Answers
<1>12. ~Underway(t)'
  BY <1>5, <1>8, <1>9 DEF Underway, Flying
<1>13. WriteInv(t)'
  BY <1>3, <1>7, <1>9, <1>10, <1>11, <1>12 DEF WriteInv
<1>14. OperationInv(t)'
  BY <1>6, <1>7, <1>10, <1>13 DEF OperationInv
<1> QED
  BY <1>3, <1>5, <1>14, BridgeStep

-----------------------------------------------------------------------------
(* The sending tasks, and the edits of a third party.                      *)

\* A step about no operation.
LEMMA AllAside ==
    ASSUME DavInv, UNCHANGED bridge, ProtocolOf(Transferred)', NEW T, T = Kept, DataOf(T)',
           SharesRead', \A u \in Transfers : Aside(u)
    PROVE  DavInv'
<1>1. Kept' \subseteq T
  BY DEF Kept, Transferred, bridge
<1>2. DataOf(Kept)'
  BY <1>1 DEF DataOf, ProtocolOf
<1>3. \A u \in Transfers : OperationInv(u)'
  BY OperationKept DEF DavInv
<1>4. BridgeTypes'
  BY DEF DavInv, BridgeTypes, bridge
<1> QED
  BY <1>2, <1>3, <1>4 DEF DavInv

\* A task that still has to send is that of a transfer no operation has got
\* the end of.
LEMMA TaskIsAhead ==
    ASSUME DavInv, NEW t \in Transfers, sender[t].phase \in {"opening", "streaming"}
    PROVE  /\ ~Write(t) /\ t \in Transferred /\ t \in Kept
           /\ Download(t) => /\ \A x \in Heard(t) : x.type = "Accepted"
                             /\ file[t].state \notin {"ok", "not_found", "forbidden"}
<1>1. ~Write(t)
  BY WritePlace DEF WriteInv, Noted
<1>2. ASSUME Download(t)
      PROVE  /\ \A x \in Heard(t) : x.type = "Accepted"
             /\ file[t].state \notin {"ok", "not_found", "forbidden"}
  <2>1. OpenInv(t)
    BY <1>2, TheOperation DEF OperationInv
  <2>2. ~Served(t) /\ sender[t].phase # "failed"
    BY DEF Served
  <2> QED
    BY <2>1, <2>2 DEF OpenInv, ReplyTold, Fed
<1>3. file[t].state # "ok"
  BY <1>1, <1>2, TheOperation DEF OperationInv
<1> QED
  BY <1>1, <1>2, <1>3, TheOperation

LEMMA TaskStep ==
    ASSUME DavInv, NEW t \in Transfers, UNCHANGED <<bridge, disk, delivered>>,
           sender[t].phase \in {"opening", "streaming"},
           sender[t].phase = "opening" \/ sender'[t].phase \in {"streaming", "finished"},
           ProtocolOf(Transferred)', NEW T, T = Kept, DataOf(T)', damaged \subseteq damaged',
           sender'[t].file \in {sender[t].file, None},
           \A u \in Transfers \ {t} : /\ Undisturbed(u) /\ original'[u] = original[u]
                                      /\ sender'[u] = sender[u]
    PROVE  DavInv'
<1>1. UNCHANGED <<file, events, mailbox>>
  BY DEF bridge
<1>2. \A u \in Transfers : Heard(u)' = Heard(u)
  BY <1>1 DEF Heard
<1>3. \A u \in Transfers \ {t} : Aside(u)
  BY <1>1, <1>2 DEF Aside, Got
<1>4. SharesRead'
  BY TheOperation DEF SharesRead
<1>5. /\ ~Write(t) /\ OperationInv(t)
      /\ Download(t) => /\ \A x \in Heard(t) : x.type = "Accepted"
                        /\ file[t].state \notin {"ok", "not_found", "forbidden"}
  BY TaskIsAhead, TheOperation
<1>6. OperationInv(t)'
  <2>1. Temporary(t)'
    BY <1>5 DEF OperationInv, Temporary
  <2>2. Download(t) => OpenInv(t)'
    BY <1>1, <1>2, <1>5 DEF OpenInv, ReplyTold, Fed
  <2> QED
    BY <1>1, <1>5, <2>1, <2>2 DEF OperationInv
<1>7. BridgeTypes'
  BY <1>1, TheOperation DEF BridgeTypes
<1>8. Kept' \subseteq T
  BY <1>1 DEF Kept, Transferred
<1> QED
  BY <1>3, <1>4, <1>6, <1>7, <1>8, StepKeeps

LEMMA DavSenderOpen ==
    ASSUME DavInv, NEW t \in Transfers, SenderOpen(t), UNCHANGED bridge
    PROVE  DavInv'
<1>1. sender[t].phase = "opening"
  BY DEF SenderOpen
<1>2. PICK T : T = Kept
  OBVIOUS
<1>3. /\ t \in T /\ t \in Transferred /\ T \in SUBSET Transfers
      /\ Transferred \in SUBSET Transfers /\ ProtocolOf(Transferred) /\ DataOf(T)
  BY <1>1, <1>2, TaskIsAhead, TheOperation
<1>4. /\ ProtocolOf(Transferred)' /\ DataOf(T)' /\ \A u \in Transfers \ {t} : Undisturbed(u)
  BY <1>3, ProtocolSenderOpen, DataSenderOpen
<1>5. /\ sender \in [Transfers -> SenderState] /\ original \in [Transfers -> File \cup {None}]
  BY TheOperation DEF TypeOK, VariableTypes
<1>6. /\ UNCHANGED <<disk, delivered, damaged>>
      /\ \/ sender' = [sender EXCEPT ![t] =
                          [@ EXCEPT !.phase = "streaming", !.reading = TRUE, !.pipe = <<>>]]
         \/ sender' = [sender EXCEPT ![t] = [@ EXCEPT !.phase = "failed", !.file = None]]
      /\ \/ original' = original
         \/ original' = [original EXCEPT ![t] = disk[Sender(t)][sender[t].file]]
  BY DEF SenderOpen
<1>7. \A u \in Transfers \ {t} : sender'[u] = sender[u] /\ original'[u] = original[u]
  BY <1>5, <1>6
<1>8. PICK s \in SenderState : s = sender[t]
  BY <1>5
<1>9. \/ sender'[t] = [s EXCEPT !.phase = "streaming", !.reading = TRUE, !.pipe = <<>>]
      \/ sender'[t] = [s EXCEPT !.phase = "failed", !.file = None]
  BY <1>5, <1>6, <1>8
<1>10. sender'[t].file \in {sender[t].file, None}
  BY <1>8, <1>9 DEF SenderState
<1> QED
  BY <1>1, <1>2, <1>4, <1>6, <1>7, <1>10, TaskStep

LEMMA DavSenderForward ==
    ASSUME DavInv, NEW t \in Transfers, SenderForward(t), UNCHANGED bridge
    PROVE  DavInv'
<1>1. sender[t].phase = "streaming"
  BY DEF SenderForward
<1>2. PICK T : T = Kept
  OBVIOUS
<1>3. /\ t \in T /\ t \in Transferred /\ T \in SUBSET Transfers
      /\ Transferred \in SUBSET Transfers /\ ProtocolOf(Transferred) /\ DataOf(T)
  BY <1>1, <1>2, TaskIsAhead, TheOperation
<1>4. /\ ProtocolOf(Transferred)' /\ DataOf(T)' /\ \A u \in Transfers \ {t} : Undisturbed(u)
  BY <1>3, ProtocolSenderForward, DataSenderForward
<1>5. sender \in [Transfers -> SenderState] /\ sender[t] \in SenderState
  BY TheOperation DEF TypeOK, VariableTypes
<1>6. PICK s : s = sender[t]
  OBVIOUS
<1>7. /\ UNCHANGED <<disk, original, delivered, damaged>>
      /\ \/ sender' = [sender EXCEPT ![t] =
                [s EXCEPT !.phase = "finished", !.pipe = Tail(s.pipe), !.file = None]]
         \/ sender' = [sender EXCEPT ![t] = [s EXCEPT !.pipe = Tail(s.pipe), !.offset = s.offset + 1]]
  BY <1>6 DEF SenderForward, history
<1>8. \A u \in Transfers \ {t} : sender'[u] = sender[u]
  BY <1>5, <1>7
<1>9. \/ sender'[t] = [s EXCEPT !.phase = "finished", !.pipe = Tail(s.pipe), !.file = None]
      \/ sender'[t] = [s EXCEPT !.pipe = Tail(s.pipe), !.offset = s.offset + 1]
  BY <1>5, <1>7
<1>10. /\ sender'[t].file \in {sender[t].file, None}
       /\ sender'[t].phase \in {"streaming", "finished"}
  BY <1>1, <1>5, <1>6, <1>9 DEF SenderState
<1> QED
  BY <1>1, <1>2, <1>4, <1>7, <1>8, <1>10, TaskStep

LEMMA DavReaderRead ==
    ASSUME DavInv, NEW t \in Transfers, ReaderRead(t), UNCHANGED bridge
    PROVE  DavInv'
<1>1. sender[t].phase = "streaming"
  BY TheOperation DEF ReaderRead, TypeOK, ReadersOpen
<1>2. PICK T : T = Kept
  OBVIOUS
<1>3. /\ t \in T /\ t \in Transferred /\ T \in SUBSET Transfers
      /\ Transferred \in SUBSET Transfers /\ ProtocolOf(Transferred) /\ DataOf(T)
  BY <1>1, <1>2, TaskIsAhead, TheOperation
<1>4. ProtocolOf(Transferred)' /\ DataOf(T)'
  BY <1>3, ProtocolReaderRead, DataReaderRead
<1>5. sender \in [Transfers -> SenderState] /\ sender[t] \in SenderState
  BY TheOperation DEF TypeOK, VariableTypes
<1>6. PICK s : s = sender[t]
  OBVIOUS
<1>7. /\ UNCHANGED <<net, disk, active_uploads, active_downloads, caps, requested, result,
                     original, delivered>>
      /\ damaged' = damaged \/ damaged' = damaged \cup {t}
      /\ \/ sender' = [sender EXCEPT ![t] =
                [s EXCEPT !.pipe = Append(s.pipe, OpenFile(t)[s.pos + 1]), !.pos = s.pos + 1]]
         \/ sender' = [sender EXCEPT ![t] = [s EXCEPT !.pipe = Append(s.pipe, Eof), !.reading = FALSE]]
         \/ sender' = [sender EXCEPT ![t] = [s EXCEPT !.pipe = Append(s.pipe, Fault), !.reading = FALSE]]
  BY <1>6 DEF ReaderRead
<1>8. \A u \in Transfers \ {t} : sender'[u] = sender[u]
  BY <1>5, <1>7
<1>9. sender'[t].file = s.file /\ sender'[t].phase = s.phase
  <2>1. \/ sender'[t] = [s EXCEPT !.pipe = Append(s.pipe, OpenFile(t)[s.pos + 1]), !.pos = s.pos + 1]
        \/ sender'[t] = [s EXCEPT !.pipe = Append(s.pipe, Eof), !.reading = FALSE]
        \/ sender'[t] = [s EXCEPT !.pipe = Append(s.pipe, Fault), !.reading = FALSE]
    BY <1>5, <1>7
  <2> QED
    BY <1>5, <1>6, <2>1 DEF SenderState
<1>10. \A u \in Transfers \ {t} : Undisturbed(u)
  BY <1>7, <1>8 DEF Undisturbed, Flight
<1> QED
  BY <1>1, <1>2, <1>4, <1>6, <1>7, <1>8, <1>9, <1>10, TaskStep

\* Deletions and renames reach the paths of the shares, not the temporary
\* files, and damage the writes whose place they take.
LEMMA DavEdits ==
    ASSUME DavInv, NEW n \in Nodes, NEW p \in Paths, UNCHANGED bridge,
           HandleDelete(n, p) \/ \E q \in Paths : HandleRename(n, p, q)
    PROVE  DavInv'
<1>1. PICK T : T = Kept
  OBVIOUS
<1>2. /\ T \in SUBSET Transfers /\ Transferred \in SUBSET Transfers
      /\ ProtocolOf(Transferred) /\ DataOf(T)
  BY <1>1, TheState
<1>3. ProtocolOf(Transferred)' /\ DataOf(T)'
  BY <1>2, ProtocolEdits, DataEdits
<1>4. UNCHANGED <<net, active_uploads, active_downloads, caps, requested, result, original,
                  delivered>>
  BY DEF HandleDelete, HandleRename
<1>5. PICK q \in Paths :
        /\ \A k \in Nodes, place \in Places :
              <<k, place>> \notin {<<n, p>>, <<n, q>>} => disk'[k][place] = disk[k][place]
        /\ damaged \subseteq damaged'
        /\ \A k \in {p, q} : disk'[n][k] # disk[n][k] => Receiving(n, k) \subseteq damaged'
        /\ \A u \in Transfers :
              /\ sender'[u].phase = sender[u].phase /\ sender'[u].offset = sender[u].offset
              /\ sender'[u].file \in Paths \cup {None}
  <2>1. disk \in [Nodes -> [Places -> File \cup {None}]] /\ p \in Places /\ Paths \subseteq Places
    BY TheState DEF TypeOK, VariableTypes, Places
  <2>4. \A u \in Transfers : sender[u] \in SenderState /\ sender[u].file \in Paths \cup {None}
    BY TheState DEF TypeOK, VariableTypes, SharesRead
  <2>2. CASE HandleDelete(n, p)
    <3>1. /\ disk' = [disk EXCEPT ![n][p] = None] /\ sender' = Unlinked(n, p)
          /\ damaged' = damaged \cup Receiving(n, p)
      BY <2>2 DEF HandleDelete
    <3>2. \A u \in Transfers : \/ sender'[u] = sender[u]
                               \/ sender'[u] = [sender[u] EXCEPT !.file = None, !.held = disk[n][p]]
      BY <3>1 DEF Unlinked
    <3>3. \A u \in Transfers :
              /\ sender'[u].phase = sender[u].phase /\ sender'[u].offset = sender[u].offset
              /\ sender'[u].file \in Paths \cup {None}
      <4> TAKE u \in Transfers
      <4>1. sender[u] \in SenderState /\ sender[u].file \in Paths \cup {None}
        BY <2>4
      <4>2. CASE sender'[u] = sender[u]
        BY <4>1, <4>2
      <4>3. CASE sender'[u] = [sender[u] EXCEPT !.file = None, !.held = disk[n][p]]
        BY <4>1, <4>3 DEF SenderState
      <4> QED
        BY <3>2, <4>2, <4>3
    <3>4. \A k \in Nodes, place \in Places :
              <<k, place>> \notin {<<n, p>>, <<n, p>>} => disk'[k][place] = disk[k][place]
      BY <2>1, <3>1
    <3> QED
      BY <3>1, <3>3, <3>4
  <2>3. CASE \E q \in Paths : HandleRename(n, p, q)
    <3>1. PICK q \in Paths : HandleRename(n, p, q)
      BY <2>3
    <3>2. /\ disk' = [disk EXCEPT ![n][q] = disk[n][p], ![n][p] = None]
          /\ damaged' = damaged \cup Receiving(n, p) \cup Receiving(n, q)
          /\ sender' = [u \in Transfers |->
                IF u \in Reading(n, p) THEN [sender[u] EXCEPT !.file = q] ELSE Unlinked(n, q)[u]]
      BY <3>1 DEF HandleRename
    <3>3. \A u \in Transfers :
              \/ sender'[u] = sender[u]
              \/ sender'[u] = [sender[u] EXCEPT !.file = q]
              \/ sender'[u] = [sender[u] EXCEPT !.file = None, !.held = disk[n][q]]
      BY <3>2 DEF Unlinked
    <3>5. \A u \in Transfers :
              /\ sender'[u].phase = sender[u].phase /\ sender'[u].offset = sender[u].offset
              /\ sender'[u].file \in Paths \cup {None}
      <4> TAKE u \in Transfers
      <4>1. sender[u] \in SenderState /\ sender[u].file \in Paths \cup {None} /\ q \in Paths
        BY <2>4, <3>1
      <4>2. CASE sender'[u] = sender[u]
        BY <4>1, <4>2
      <4>3. CASE sender'[u] = [sender[u] EXCEPT !.file = q]
        BY <4>1, <4>3 DEF SenderState
      <4>4. CASE sender'[u] = [sender[u] EXCEPT !.file = None, !.held = disk[n][q]]
        BY <4>1, <4>4 DEF SenderState
      <4> QED
        BY <3>3, <4>2, <4>3, <4>4
    <3>4. \A k \in Nodes, place \in Places :
              <<k, place>> \notin {<<n, p>>, <<n, q>>} => disk'[k][place] = disk[k][place]
      BY <2>1, <3>2
    <3>6. /\ damaged \subseteq damaged'
          /\ \A k \in {p, q} : Receiving(n, k) \subseteq damaged'
      BY <3>2
    <3> QED
      BY <3>1, <3>4, <3>5, <3>6
  <2> QED
    BY <2>2, <2>3
<1>7. SharesRead'
  BY <1>5 DEF SharesRead
<1>8. ASSUME NEW u \in Transfers  PROVE Aside(u)
  <2>1. Undisturbed(u)
    BY <1>4, <1>5 DEF Undisturbed, Flight
  <2>2. file'[u] = file[u] /\ Heard(u)' = Heard(u)
    BY DEF bridge, Heard
  <2>3. \A k \in Nodes : disk'[k][u] = disk[k][u]
    BY <1>5, DistinctAssumption DEF Places
  <2>4. ASSUME Write(u), Registered(u), u \notin damaged'
        PROVE  disk'[Receiver(u)][Job[u].remote] = disk[Receiver(u)][Job[u].remote]
    <3>1. /\ Job[u].remote \in Paths /\ active_downloads[Receiver(u)][u] # None
          /\ active_downloads[Receiver(u)][u].path = Job[u].remote /\ Receiver(u) \in Nodes
      BY <2>4, WritePlace, EndsAreNodes DEF Registered
    <3>2. u \in Receiving(Receiver(u), Job[u].remote)
      BY <3>1 DEF Receiving
    <3> QED
      BY <1>5, <2>4, <3>1, <3>2 DEF Places
  <2>5. Write(u) /\ Registered(u) => Place(u) = Job[u].remote
    BY WritePlace
  <2> QED
    BY <1>4, <1>5, <2>1, <2>2, <2>3, <2>4, <2>5 DEF Aside, Got
<1> QED
  BY <1>1, <1>3, <1>7, <1>8, AllAside
-----------------------------------------------------------------------------
(* The handlers, whatever message they take.                               *)

LEMMA HandleTypes ==
    ASSUME TypeOK, NEW m \in Nodes, NEW n \in Nodes, Handle(m, n)
    PROVE  TypeOK'
BY TypeHandleUploadRequest, TypeHandleDownloadRequest, TypeHandleAccepted,
   TypeHandleRejected, TypeHandleChunk, TypeHandleComplete, TypeHandleNothing DEF Handle

\* What a handler leaves alone.
LEMMA HandleFrame ==
    ASSUME TypeOK, NEW m \in Nodes, NEW n \in Nodes, Handle(m, n),
           NEW msg, Head(net[m][n]) = msg, NEW t, msg.id = t
    PROVE  /\ UNCHANGED <<caps, requested, original>> /\ damaged \subseteq damaged'
           /\ \A u \in Transfers \ {t} :
                /\ sender'[u] = sender[u] /\ result'[u] = result[u]
                /\ delivered'[u] = delivered[u]
                /\ \A k \in Nodes : /\ active_uploads'[k][u] = active_uploads[k][u]
                                    /\ active_downloads'[k][u] = active_downloads[k][u]
<1> DEFINE Frame ==
             /\ UNCHANGED <<caps, requested, original>> /\ damaged \subseteq damaged'
             /\ \A u \in Transfers \ {t} :
                  /\ sender'[u] = sender[u] /\ result'[u] = result[u]
                  /\ delivered'[u] = delivered[u]
                  /\ \A k \in Nodes : /\ active_uploads'[k][u] = active_uploads[k][u]
                                      /\ active_downloads'[k][u] = active_downloads[k][u]
<1>0. Head(net[m][n]) = msg /\ msg.id = t
  OBVIOUS
<1>1. /\ sender \in [Transfers -> SenderState]
      /\ active_uploads \in [Nodes -> [Transfers -> Paths \cup {None}]]
      /\ active_downloads \in [Nodes -> [Transfers -> Entry \cup {None}]]
      /\ result \in [Transfers -> {"none", "rejected", "complete"}]
      /\ delivered \in [Transfers -> File \cup {None}]
  BY DEF TypeOK, VariableTypes
<1>2. CASE HandleUploadRequest(m, n)
  <2>1. /\ UNCHANGED <<active_uploads, sender, caps, requested, result, original, delivered>>
        /\ damaged \subseteq damaged'
        /\ \/ active_downloads' = active_downloads
           \/ \E p : active_downloads' = [active_downloads EXCEPT ![n][t] = [path |-> p, size |-> 0]]
    BY <1>0, <1>2 DEF HandleUploadRequest, Register
  <2>2. ASSUME NEW u \in Transfers \ {t}, NEW k \in Nodes
        PROVE  active_downloads'[k][u] = active_downloads[k][u]
    <3>1. CASE active_downloads' = active_downloads
      BY <3>1
    <3>2. ASSUME NEW p,
                 active_downloads' = [active_downloads EXCEPT ![n][t] = [path |-> p, size |-> 0]]
          PROVE  active_downloads'[k][u] = active_downloads[k][u]
      <4> DEFINE e == [path |-> p, size |-> 0]
      <4>1. active_downloads' = [active_downloads EXCEPT ![n][t] = e]
        BY <3>2
      <4> HIDE DEF e
      <4> QED
        BY <1>1, <4>1
    <3> QED
      BY <2>1, <3>1, <3>2
  <2> QED
    BY <2>1, <2>2
<1>3. CASE HandleDownloadRequest(m, n)
  <2>1. /\ UNCHANGED <<active_uploads, active_downloads, caps, history>>
        /\ sender' = [sender EXCEPT ![t] = OpeningSender(msg.path)]
    BY <1>0, <1>3 DEF HandleDownloadRequest
  <2> QED
    BY <1>1, <2>1 DEF history
<1>4. CASE HandleAccepted(m, n)
  <2>1. UNCHANGED <<caps, history>>
    BY <1>4 DEF HandleAccepted
  <2>2. \/ /\ sender' = [sender EXCEPT ![t] = OpeningSender(active_uploads[n][t])]
           /\ active_uploads' = [active_uploads EXCEPT ![n][t] = None]
           /\ UNCHANGED active_downloads
        \/ /\ active_downloads' = [active_downloads EXCEPT ![n][t] = [path |-> t, size |-> msg.size]]
           /\ UNCHANGED <<sender, active_uploads>>
    BY <1>0, <1>4 DEF HandleAccepted, Register
  <2> QED
    BY <1>1, <2>1, <2>2 DEF history
<1>5. CASE HandleRejected(m, n)
  <2>1. /\ UNCHANGED <<active_uploads, active_downloads, sender, caps, requested, original,
                       delivered, damaged>>
        /\ result' = [result EXCEPT ![t] = "rejected"]
    BY <1>0, <1>5 DEF HandleRejected
  <2> QED
    BY <1>1, <2>1
<1>6. CASE HandleChunk(m, n)
  <2>1. /\ UNCHANGED <<active_uploads, active_downloads, sender, caps, requested, result,
                       original, delivered>>
        /\ damaged \subseteq damaged'
    BY <1>6 DEF HandleChunk
  <2> QED
    BY <2>1
<1>7. CASE HandleComplete(m, n)
  <2>1. /\ UNCHANGED <<active_uploads, sender, caps, requested, original, damaged>>
        /\ \/ UNCHANGED <<active_downloads, result, delivered>>
           \/ \E file_ : /\ active_downloads' = [active_downloads EXCEPT ![n][t] = None]
                         /\ result' = [result EXCEPT ![t] = "complete"]
                         /\ delivered' = [delivered EXCEPT ![t] = file_]
    BY <1>0, <1>7 DEF HandleComplete, Deregister
  <2> QED
    BY <1>1, <2>1
<1>8. CASE HandleNothing(m, n)
  BY <1>8 DEF HandleNothing, history
<1> QED
  BY <1>2, <1>3, <1>4, <1>5, <1>6, <1>7, <1>8 DEF Handle

\* A task starts only on a path of a share, or on none.
LEMMA HandleShares ==
    ASSUME TypeOK, SharesRead, NEW m \in Nodes, NEW n \in Nodes, Handle(m, n)
    PROVE  SharesRead'
<1>1. PICK msg, t : Head(net[m][n]) = msg /\ msg.id = t
  OBVIOUS
<1>2. msg \in Message /\ t \in Transfers
  BY <1>1, HandledIsTransfer
<1>3. /\ sender \in [Transfers -> SenderState]
      /\ active_uploads \in [Nodes -> [Transfers -> Paths \cup {None}]]
  BY DEF TypeOK, VariableTypes
<1>4. \/ sender' = sender
      \/ \E p \in Paths \cup {None} : sender' = [sender EXCEPT ![t] = OpeningSender(p)]
  <2>1. CASE HandleDownloadRequest(m, n)
    <3>1. msg.path \in Paths \cup {None}
      BY <1>1, <1>2, <2>1, MessageFields DEF HandleDownloadRequest, Arrives
    <3> QED
      BY <1>1, <2>1, <3>1 DEF HandleDownloadRequest
  <2>2. CASE HandleAccepted(m, n)
    <3>1. active_uploads[n][t] \in Paths \cup {None}
      BY <1>2, <1>3
    <3> QED
      BY <1>1, <2>2, <3>1 DEF HandleAccepted
  <2> QED
    BY <2>1, <2>2 DEF Handle, HandleUploadRequest, HandleRejected, HandleChunk, HandleComplete,
                      HandleNothing
<1>5. CASE sender' = sender
  BY <1>5 DEF SharesRead
<1>6. CASE \E p \in Paths \cup {None} : sender' = [sender EXCEPT ![t] = OpeningSender(p)]
  <2>1. PICK p \in Paths \cup {None} : sender' = [sender EXCEPT ![t] = OpeningSender(p)]
    BY <1>6
  <2>2. OpeningSender(p).file = p
    BY DEF OpeningSender, IdleSender
  <2>3. sender'[t].file = p /\ \A u \in Transfers \ {t} : sender'[u] = sender[u]
    BY <1>2, <1>3, <2>1, <2>2
  <2> QED
    BY <2>3 DEF SharesRead
<1> QED
  BY <1>4, <1>5, <1>6

\* The request of an upload came alone, and its answer goes alone.
LEMMA RequestAnswered ==
    ASSUME TypeOK, ChannelInv, NEW m \in Nodes, NEW n \in Nodes, m # n,
           HandleUploadRequest(m, n), NEW msg, NEW t, Foremost(m, n, msg, t),
           Flight(t) = {msg}, NEW reply \in {Accepted(t, 0), Rejected(t)}, Reply(m, n, reply)
    PROVE  /\ ChannelInv' /\ Flight(t)' = {reply}
           /\ \A u \in Transfers \ {t} : Flight(u)' = Flight(u)
<1>1. net[m][n] # <<>> /\ msg \in Message /\ t \in Transfers
  BY HandledIsTransfer DEF Handle, Foremost
<1>2. msg.type = "FileUploadRequest"
  BY DEF HandleUploadRequest, Arrives, Foremost
<1>3. From(msg) = m /\ To(msg) = n
  <2>1. net \in Channels /\ Fit(net) /\ msg = FirstIn(net, m, n) /\ HasMessage(net, m, n)
    BY <1>1 DEF ChannelInv, FirstIn, HasMessage, Foremost
  <2> QED
    BY <2>1, TailChannel
<1>4. reply \in Message /\ reply.id = t /\ reply.type \in Answers
  BY <1>1 DEF Message, Accepted, Rejected, Answers
<1>5. From(reply) = n /\ To(reply) = m
  BY <1>2, <1>3, <1>4 DEF Foremost, From, To, Requests, Answers
<1>6. /\ Foremost(m, n, msg, msg.id) /\ net[m][n] # <<>> /\ reply \in Message
      /\ reply.id = msg.id /\ From(reply) = n /\ To(reply) = m
      /\ \A x \in Flight(msg.id) : x # msg => MayFollow(x, reply)
  BY <1>1, <1>4, <1>5 DEF Foremost
<1>7. /\ ChannelInv' /\ Flight(msg.id)' = (Flight(msg.id) \ {msg}) \cup {reply}
      /\ \A u \in Transfers \ {msg.id} : Flight(u)' = Flight(u)
  BY <1>6, ReplyFlight
<1> QED
  BY <1>7 DEF Foremost

\* What is in flight afterwards.
LEMMA HandleNet ==
    ASSUME TypeOK, ChannelInv, NEW m \in Nodes, NEW n \in Nodes, m # n, Handle(m, n),
           NEW msg, Head(net[m][n]) = msg, NEW t, msg.id = t,
           msg.type = "FileUploadRequest" => Flight(t) = {msg}
    PROVE  /\ ChannelInv' /\ \A u \in Transfers \ {t} : Flight(u)' = Flight(u)
           /\ \/ HandleUploadRequest(m, n)
              \/ /\ Consume(m, n) /\ Flight(t)' = Flight(t) \ {msg}
                 /\ \A x \in Flight(t) :
                       x # msg /\ From(x) = m /\ To(x) = n => MayFollow(msg, x)
<1>0. net[m][n] # <<>> /\ msg \in Message /\ t \in Transfers
  BY HandledIsTransfer
<1>1. CASE HandleUploadRequest(m, n)
  <2>1. msg.type = "FileUploadRequest"
    BY <1>1 DEF HandleUploadRequest, Arrives
  <2>2. Reply(m, n, Accepted(t, 0)) \/ Reply(m, n, Rejected(t))
    BY <1>1 DEF HandleUploadRequest
  <2>3. PICK reply \in {Accepted(t, 0), Rejected(t)} : Reply(m, n, reply)
    BY <2>2
  <2>4. Foremost(m, n, msg, t) /\ Flight(t) = {msg}
    BY <2>1 DEF Foremost
  <2> QED
    BY <1>1, <2>3, <2>4, RequestAnswered
<1>2. CASE Consume(m, n)
  BY <1>0, <1>2, ConsumeFlight
<1>3. HandleUploadRequest(m, n) \/ Consume(m, n)
  BY DEF Handle, HandleDownloadRequest, HandleAccepted, HandleRejected, HandleChunk,
         HandleComplete, HandleNothing
<1> QED
  BY <1>1, <1>2, <1>3

\* A handler writes at one place of its node: a path, or the temporary file of
\* the transfer its block is of.
WritesOnce(n, msg, t) ==
    \/ UNCHANGED disk
    \/ /\ UNCHANGED sender
       /\ \E p \in Places :
             /\ p \in Paths
                  \/ (p = t /\ msg.type = "FileChunk" /\ active_downloads[n][t] # None
                        /\ active_downloads[n][t].path = p)
             /\ \A k \in Nodes, q \in Places : <<k, q>> # <<n, p>> => disk'[k][q] = disk[k][q]
             /\ damaged \cup ((Receiving(n, p) \cup Reading(n, p)) \ {t}) \subseteq damaged'

LEMMA HandleDisk ==
    ASSUME TypeOK, NEW m \in Nodes, NEW n \in Nodes, Handle(m, n),
           NEW msg, Head(net[m][n]) = msg, NEW t, msg.id = t,
           active_downloads[n][t] # None => active_downloads[n][t].path \in Paths \cup {t}
    PROVE  WritesOnce(n, msg, t)
<1> USE DEF WritesOnce
<1>0. Head(net[m][n]) = msg /\ msg.id = t
  OBVIOUS
<1>1. msg \in Message /\ t \in Transfers /\ Paths \subseteq Places /\ t \in Places
  BY HandledIsTransfer DEF Places
<1>2. disk \in [Nodes -> [Places -> File \cup {None}]]
  BY DEF TypeOK, VariableTypes
<1>3. CASE HandleUploadRequest(m, n)
  <2>1. UNCHANGED sender /\ msg.path \in Paths \cup {None}
    BY <1>0, <1>1, <1>3, MessageFields DEF HandleUploadRequest, Arrives
  <2>2. \/ UNCHANGED disk
        \/ /\ msg.path # None
           /\ \E c : disk' = [disk EXCEPT ![n][msg.path] = c]
           /\ damaged \cup ((Receiving(n, msg.path) \cup Reading(n, msg.path)) \ {t}) \subseteq damaged'
    BY <1>0, <1>3 DEF HandleUploadRequest
  <2>3. ASSUME msg.path # None, NEW c, disk' = [disk EXCEPT ![n][msg.path] = c]
        PROVE  \A k \in Nodes, q \in Places :
                  <<k, q>> # <<n, msg.path>> => disk'[k][q] = disk[k][q]
    BY <1>1, <1>2, <2>1, <2>3
  <2> QED
    BY <1>1, <2>1, <2>2, <2>3
<1>4. CASE HandleChunk(m, n)
  <2>1. UNCHANGED sender /\ msg.type = "FileChunk"
    BY <1>0, <1>4 DEF HandleChunk, Arrives
  <2> DEFINE p == active_downloads[n][t].path
  <2>2. \/ UNCHANGED disk
        \/ /\ active_downloads[n][t] # None
           /\ \E c : disk' = [disk EXCEPT ![n][p] = c]
           /\ damaged \cup ((Receiving(n, p) \cup Reading(n, p)) \ {t}) \subseteq damaged'
    <3>1. \/ UNCHANGED disk
          \/ /\ active_downloads[n][t] # None
             /\ disk' = [disk EXCEPT ![n][p] = WriteBlock(disk[n][p], msg.offset, msg.data)]
             /\ damaged' = damaged \cup ((Receiving(n, p) \cup Reading(n, p)) \ {t})
          \/ /\ active_downloads[n][t] # None
             /\ \E c : disk' = [disk EXCEPT ![n][p] = c]
             /\ damaged' = damaged \cup {t} \cup
                   (IF disk' = disk THEN {} ELSE Receiving(n, p) \cup Reading(n, p))
      BY <1>0, <1>4 DEF HandleChunk
    <3> HIDE DEF p
    <3> QED
      BY <3>1
  <2>3. ASSUME active_downloads[n][t] # None, NEW c, disk' = [disk EXCEPT ![n][p] = c]
        PROVE  /\ p \in Places /\ p \in Paths \cup {t}
               /\ \A k \in Nodes, q \in Places : <<k, q>> # <<n, p>> => disk'[k][q] = disk[k][q]
    BY <1>1, <1>2, <2>3
  <2> HIDE DEF p
  <2>4. active_downloads[n][t].path = p
    BY DEF p
  <2> QED
    BY <2>1, <2>2, <2>3, <2>4
<1>5. CASE HandleNothing(m, n)
  BY <1>5 DEF HandleNothing
<1> QED
  BY <1>3, <1>4, <1>5 DEF Handle, HandleDownloadRequest, HandleAccepted, HandleRejected,
                          HandleComplete

\* The replies the bridge has afterwards.
LEMMA HandleHeard ==
    ASSUME BridgeTypes, TypeOK, NEW m \in Nodes, NEW n \in Nodes, DavHandle(m, n),
           NEW msg, Head(net[m][n]) = msg, NEW t, msg.id = t
    PROVE  /\ BridgeTypes' /\ UNCHANGED <<file, mailbox>>
           /\ \A u \in Transfers \ {t} : Heard(u)' = Heard(u)
           /\ n = Job[t].by /\ msg.type \in Fed => Heard(t)' = Heard(t) \cup {msg}
           /\ ~(n = Job[t].by /\ msg.type \in Fed) => Heard(t)' = Heard(t)
<1>0. Head(net[m][n]) = msg /\ msg.id = t
  OBVIOUS
<1>1. msg \in Message /\ t \in Transfers
  BY HandledIsTransfer DEF DavHandle
<1>2. /\ events' = IF msg.type \in Fed THEN [events EXCEPT ![n] = Append(@, msg)] ELSE events
      /\ UNCHANGED <<mailbox, file>>
  BY <1>0 DEF DavHandle
<1>3. events \in [Nodes -> Seq(Message)] /\ events[n] \in Seq(Message)
  BY DEF BridgeTypes
<1>4. \A u \in Transfers : Job[u].by \in Nodes
  BY Ends
<1>5. CASE msg.type \notin Fed
  BY <1>2, <1>5 DEF BridgeTypes, Heard
<1>6. CASE msg.type \in Fed
  <2>1. /\ \A k \in Nodes \ {n} : events'[k] = events[k]
        /\ events'[n] = Append(events[n], msg)
        /\ events' \in [Nodes -> Seq(Message)]
    BY <1>1, <1>2, <1>3, <1>6
  <2>2. Elems(events'[n]) = Elems(events[n]) \cup {msg}
    BY <1>1, <1>3, <2>1, ElemsOf
  <2>3. \A u \in Transfers \ {t} : Heard(u)' = Heard(u)
    BY <1>0, <1>2, <1>4, <2>1, <2>2 DEF Heard
  <2>4. n = Job[t].by => Heard(t)' = Heard(t) \cup {msg}
    BY <1>0, <1>2, <2>2 DEF Heard
  <2>5. n # Job[t].by => Heard(t)' = Heard(t)
    BY <1>1, <1>2, <1>4, <2>1 DEF Heard
  <2>6. BridgeTypes'
    BY <1>2, <2>1 DEF BridgeTypes
  <2> QED
    BY <1>2, <1>6, <2>3, <2>4, <2>5, <2>6
<1> QED
  BY <1>5, <1>6

\* Node n takes message msg, of transfer t, from m.
Takes(m, n, msg, t) == DavHandle(m, n) /\ Head(net[m][n]) = msg /\ msg.id = t

\* The message is in flight, and the request of an upload is so alone.
LEMMA TakenMessage ==
    ASSUME DavInv, NEW m \in Nodes, NEW n \in Nodes, NEW msg, NEW t, Takes(m, n, msg, t)
    PROVE  /\ Handle(m, n) /\ Head(net[m][n]) = msg /\ msg.id = t /\ net[m][n] # <<>>
           /\ msg \in Message /\ t \in Transfers /\ msg \in Flight(t)
           /\ From(msg) = m /\ To(msg) = n /\ m # n
           /\ msg.type = "FileUploadRequest" => Flight(t) = {msg}
<1>1. Handle(m, n) /\ Head(net[m][n]) = msg /\ msg.id = t
  BY DEF Takes, DavHandle
<1>2. net[m][n] # <<>> /\ msg \in Message /\ t \in Transfers
  BY <1>1, TheState, HandledIsTransfer
<1>3. From(msg) = m /\ To(msg) = n /\ msg \in Flight(t)
  <2>1. net \in Channels /\ Fit(net) /\ msg = FirstIn(net, m, n) /\ HasMessage(net, m, n)
    BY <1>1, <1>2, TheState DEF ChannelInv, FirstIn, HasMessage
  <2> QED
    BY <1>1, <2>1, TailChannel DEF Flight
<1>4. m # n
  BY <1>1, <1>2, <1>3, EndsAreNodes, Ends DEF From, To, Requests, Answers
<1>5. ASSUME msg.type = "FileUploadRequest"  PROVE Flight(t) = {msg}
  <2>1. CASE Write(t)
    BY <1>2, <1>3, <1>5, <2>1, WritePlace DEF WriteInv, MessageOfWrite, Requests
  <2>2. CASE ~Write(t)
    <3>1. TransferInv(t)
      BY <1>2, <2>2, TheOperation
    <3>2. Lonely(t, msg) /\ Alone(t)
      BY <1>5, <3>1 DEF Lonely, Requests, TransferInv
    <3> QED
      BY <1>3, <3>2 DEF Alone
  <2> QED
    BY <2>1, <2>2
<1> QED
  BY <1>1, <1>2, <1>3, <1>4, <1>5

\* A block is written where its transfer is received.
LEMMA TakenPlace ==
    ASSUME DavInv, NEW m \in Nodes, NEW n \in Nodes, NEW msg, NEW t, Takes(m, n, msg, t)
    PROVE  /\ active_downloads[n][t] # None => active_downloads[n][t].path \in Paths \cup {t}
           /\ active_downloads[n][t] # None /\ active_downloads[n][t].path = t =>
                (Download(t) /\ n = Receiver(t)) \/ n = Job[t].by
<1>1. t \in Transfers /\ To(msg) = n
  BY TakenMessage
<1>2. SUFFICES ASSUME active_downloads[n][t] # None
               PROVE  /\ active_downloads[n][t].path \in Paths \cup {t}
                      /\ active_downloads[n][t].path = t =>
                            (Download(t) /\ n = Receiver(t)) \/ n = Job[t].by
  OBVIOUS
<1>3. CASE Write(t)
  <2>1. \/ n = Receiver(t) /\ active_downloads[n][t].path = Job[t].remote
        \/ n = Job[t].by /\ active_downloads[n][t].path = t
    BY <1>1, <1>2, <1>3, WritePlace DEF WriteInv, Noted
  <2>2. n = Receiver(t) => Job[t].remote \in Paths
    BY <1>1, <1>2, <1>3, WritePlace DEF Registered
  <2>3. t \notin Paths
    BY <1>1, DistinctAssumption
  <2> QED
    BY <2>1, <2>2, <2>3
<1>4. CASE ~Write(t)
  <2>1. TransferInv(t) /\ t \in Transferred /\ ProtocolOf(Transferred)
        /\ Transferred \in SUBSET Transfers
    BY <1>1, <1>4, TheOperation
  <2>2. n = Receiver(t) /\ active_downloads[n][t].path = Place(t)
    BY <1>2, <2>1 DEF TransferInv, Entered
  <2>3. Place(t) = t \/ Place(t) \in Paths
    BY <1>1, <1>2, <2>1, <2>2, PlaceType DEF Registered
  <2>4. Place(t) = t => Download(t)
    BY <1>1, Ends, DistinctAssumption DEF Place, Places
  <2> QED
    BY <2>2, <2>3, <2>4
<1> QED
  BY <1>3, <1>4

LEMMA TakenEffect ==
    ASSUME DavInv, NEW m \in Nodes, NEW n \in Nodes, NEW msg, NEW t, Takes(m, n, msg, t)
    PROVE  /\ TypeOK' /\ ChannelInv' /\ SharesRead' /\ BridgeTypes'
           /\ UNCHANGED <<file, mailbox, caps, requested, original>> /\ damaged \subseteq damaged'
           /\ n = Job[t].by /\ msg.type \in Fed => Heard(t)' = Heard(t) \cup {msg}
           /\ ~(n = Job[t].by /\ msg.type \in Fed) => Heard(t)' = Heard(t)
           /\ \/ HandleUploadRequest(m, n)
              \/ /\ Flight(t)' = Flight(t) \ {msg}
                 /\ \A x \in Flight(t) :
                       x # msg /\ From(x) = m /\ To(x) = n => MayFollow(msg, x)
<1>1. /\ Handle(m, n) /\ DavHandle(m, n) /\ Head(net[m][n]) = msg /\ msg.id = t /\ m # n
      /\ msg.type = "FileUploadRequest" => Flight(t) = {msg}
  <2>1. DavHandle(m, n)
    BY DEF Takes
  <2> QED
    BY <2>1, TakenMessage
<1>2. TypeOK /\ ChannelInv /\ SharesRead /\ BridgeTypes
  BY TheState
<1>3. TypeOK' /\ SharesRead'
  BY <1>1, <1>2, HandleTypes, HandleShares
<1>4. UNCHANGED <<caps, requested, original>> /\ damaged \subseteq damaged'
  BY <1>1, <1>2, HandleFrame
<1>5. /\ BridgeTypes' /\ UNCHANGED <<file, mailbox>>
      /\ n = Job[t].by /\ msg.type \in Fed => Heard(t)' = Heard(t) \cup {msg}
      /\ ~(n = Job[t].by /\ msg.type \in Fed) => Heard(t)' = Heard(t)
  BY <1>1, <1>2, HandleHeard
<1>6. /\ ChannelInv'
      /\ \/ HandleUploadRequest(m, n)
         \/ /\ Flight(t)' = Flight(t) \ {msg}
            /\ \A x \in Flight(t) :
                  x # msg /\ From(x) = m /\ To(x) = n => MayFollow(msg, x)
  BY <1>1, <1>2, HandleNet
<1> QED
  BY <1>3, <1>4, <1>5, <1>6

\* The other operations are left alone, but for those whose file is written.
LEMMA TakenOthers ==
    ASSUME DavInv, NEW m \in Nodes, NEW n \in Nodes, NEW msg, NEW t, Takes(m, n, msg, t)
    PROVE  \A u \in Transfers \ {t} : Aside(u)
<1>1. /\ Handle(m, n) /\ DavHandle(m, n) /\ Head(net[m][n]) = msg /\ msg.id = t /\ m # n
      /\ msg.type = "FileUploadRequest" => Flight(t) = {msg}
  <2>1. DavHandle(m, n)
    BY DEF Takes
  <2> QED
    BY <2>1, TakenMessage
<1>2. TypeOK /\ ChannelInv /\ BridgeTypes
  BY TheState
<1>3. /\ UNCHANGED <<caps, requested, original>> /\ damaged \subseteq damaged'
      /\ \A u \in Transfers \ {t} :
           /\ sender'[u] = sender[u] /\ result'[u] = result[u]
           /\ delivered'[u] = delivered[u]
           /\ \A k \in Nodes : /\ active_uploads'[k][u] = active_uploads[k][u]
                               /\ active_downloads'[k][u] = active_downloads[k][u]
  BY <1>1, <1>2, HandleFrame
<1>4. \A u \in Transfers \ {t} : Flight(u)' = Flight(u)
  BY <1>1, <1>2, HandleNet
<1>5. UNCHANGED <<file, mailbox>> /\ \A u \in Transfers \ {t} : Heard(u)' = Heard(u)
  BY <1>1, <1>2, HandleHeard
<1>6. active_downloads[n][t] # None => active_downloads[n][t].path \in Paths \cup {t}
  BY TakenPlace
<1>7. PICK p : /\ p \in Paths \/ p = t
               /\ \A k \in Nodes, q \in Places :
                     disk'[k][q] = disk[k][q] \/ (k = n /\ q = p)
               /\ UNCHANGED disk \/ Receiving(n, p) \ {t} \subseteq damaged'
  <2>1. CASE UNCHANGED disk
    BY <2>1
  <2>2. ASSUME NEW p \in Places, p \in Paths \/ p = t,
               \A k \in Nodes, q \in Places : <<k, q>> # <<n, p>> => disk'[k][q] = disk[k][q],
               damaged' = damaged \cup ((Receiving(n, p) \cup Reading(n, p)) \ {t})
        PROVE  /\ \A k \in Nodes, q \in Places :
                     disk'[k][q] = disk[k][q] \/ (k = n /\ q = p)
               /\ Receiving(n, p) \ {t} \subseteq damaged'
    BY <2>2
  <2> QED
    <3>1. WritesOnce(n, msg, t)
      BY <1>1, <1>2, <1>6, HandleDisk
    <3> QED
      BY <2>1, <2>2, <3>1 DEF WritesOnce
<1>8. ASSUME NEW u \in Transfers \ {t}  PROVE Aside(u)
  <2>1. Undisturbed(u)
    BY <1>3, <1>4 DEF Undisturbed
  <2>2. \A k \in Nodes : disk'[k][u] = disk[k][u]
    BY <1>7, DistinctAssumption DEF Places
  <2>3. ASSUME Write(u), Registered(u), u \notin damaged'
        PROVE  disk'[Receiver(u)][Job[u].remote] = disk[Receiver(u)][Job[u].remote]
    <3>1. /\ Job[u].remote \in Paths /\ active_downloads[Receiver(u)][u] # None
          /\ active_downloads[Receiver(u)][u].path = Job[u].remote /\ Receiver(u) \in Nodes
      BY <2>3, WritePlace, EndsAreNodes DEF Registered
    <3>2. u \in Receiving(Receiver(u), Job[u].remote)
      BY <3>1 DEF Receiving
    <3> QED
      BY <1>7, <2>3, <3>1, <3>2 DEF Places
  <2>4. Write(u) /\ Registered(u) => Place(u) = Job[u].remote
    BY WritePlace
  <2> QED
    BY <1>3, <1>5, <2>1, <2>2, <2>3, <2>4 DEF Aside, Got
<1> QED
  BY <1>8

-----------------------------------------------------------------------------
(* The handlers, for a message of an upload or of a download.              *)

\* The task of a transfer starts once; only blocks are written before it ends.
LEMMA TakenTask ==
    ASSUME DavInv, NEW m \in Nodes, NEW n \in Nodes, NEW msg, NEW t, Takes(m, n, msg, t),
           ~Write(t)
    PROVE  /\ sender'[t] = sender[t] \/ sender[t].phase = "idle"
           /\ \/ \A k \in Nodes : disk'[k][t] = disk[k][t]
              \/ /\ UNCHANGED sender /\ sender[t].phase \in {"streaming", "finished"}
                 /\ Download(t) /\ n = Job[t].by
                 /\ \A k \in Nodes \ {n} : disk'[k][t] = disk[k][t]
<1>1. /\ Handle(m, n) /\ Head(net[m][n]) = msg /\ msg.id = t /\ net[m][n] # <<>>
      /\ t \in Transfers /\ msg \in Flight(t) /\ To(msg) = n /\ t \in Places
  BY TakenMessage DEF Places
<1>2. TypeOK /\ TransferInv(t)
  BY <1>1, TheOperation
<1>3. Told(t, msg)
  BY <1>1, <1>2 DEF TransferInv, AllTold
<1>4. sender'[t] = sender[t] \/ sender[t].phase = "idle"
  <2>1. CASE HandleDownloadRequest(m, n)
    BY <1>1, <1>3, <2>1 DEF HandleDownloadRequest, Arrives, Told, Requests
  <2>2. CASE HandleAccepted(m, n)
    <3>1. msg.type = "Accepted" /\ n \in Nodes /\ (active_uploads[n][t] = None => UNCHANGED sender)
      BY <1>1, <2>2 DEF HandleAccepted, Arrives
    <3>2. active_uploads[n][t] # None => ~Download(t)
      BY <1>2 DEF TransferInv, Entered
    <3> QED
      BY <1>3, <3>1, <3>2 DEF Told
  <2>3. HandleDownloadRequest(m, n) \/ HandleAccepted(m, n) \/ UNCHANGED sender
    BY <1>1 DEF Handle, HandleUploadRequest, HandleRejected, HandleChunk, HandleComplete,
                HandleNothing
  <2> QED
    BY <2>1, <2>2, <2>3
<1>5. active_downloads[n][t] # None => active_downloads[n][t].path \in Paths \cup {t}
  BY TakenPlace
<1>6. CASE UNCHANGED disk
  BY <1>4, <1>6
<1>7. CASE ~UNCHANGED disk
  <2>1. PICK p \in Places :
           /\ UNCHANGED sender
           /\ p \in Paths
                \/ (p = t /\ msg.type = "FileChunk" /\ active_downloads[n][t] # None
                      /\ active_downloads[n][t].path = p)
           /\ \A k \in Nodes, q \in Places : <<k, q>> # <<n, p>> => disk'[k][q] = disk[k][q]
    <3>1. WritesOnce(n, msg, t)
      BY <1>1, <1>2, <1>5, HandleDisk
    <3> QED
      BY <1>7, <3>1 DEF WritesOnce
  <2>2. CASE p \in Paths
    <3>1. p # t
      BY <1>1, <2>2, DistinctAssumption
    <3> QED
      BY <1>1, <1>4, <2>1, <3>1
  <2>3. CASE p \notin Paths
    <3>1. p = t /\ msg.type = "FileChunk" /\ active_downloads[n][t] # None
          /\ active_downloads[n][t].path = t
      BY <2>1, <2>3
    <3>2. n = Receiver(t)
      BY <1>1, <3>1 DEF To, Requests, Answers
    <3>3. Download(t) /\ n = Job[t].by
      <4>1. (Download(t) /\ n = Receiver(t)) \/ n = Job[t].by
        BY <3>1, TakenPlace
      <4> QED
        BY <1>1, <3>2, <4>1, Ends
    <3>4. sender[t].phase \in {"streaming", "finished"}
      BY <1>2, <1>3, <3>1 DEF Told, Running, Flying, TransferInv, AllTold
    <3>5. \A k \in Nodes \ {n} : disk'[k][t] = disk[k][t]
      BY <1>1, <2>1
    <3> QED
      BY <1>4, <2>1, <3>3, <3>4, <3>5
  <2> QED
    BY <2>2, <2>3
<1> QED
  BY <1>6, <1>7

\* The bridge hears of the end when nothing is left of the transfer.
LEMMA TakenReply ==
    ASSUME DavInv, NEW m \in Nodes, NEW n \in Nodes, NEW msg, NEW t, Takes(m, n, msg, t),
           ~Write(t), Download(t), ProtocolOf(Transferred)', msg.type \in Fed
    PROVE  ReplyTold(t, msg)'
<1>1. /\ Handle(m, n) /\ Head(net[m][n]) = msg /\ msg.id = t /\ net[m][n] # <<>>
      /\ t \in Transfers /\ msg \in Flight(t) /\ m # n
      /\ msg.type = "FileUploadRequest" => Flight(t) = {msg}
  BY TakenMessage
<1>2. /\ TypeOK /\ ChannelInv /\ TransferInv(t) /\ t \in Transferred
      /\ Transferred \in SUBSET Transfers /\ ProtocolOf(Transferred)
  BY <1>1, TheOperation
<1>3. Told(t, msg)
  BY <1>1, <1>2 DEF TransferInv, AllTold
<1>4. sender'[t] = sender[t] \/ sender[t].phase = "idle"
  BY TakenTask
<1>5. ASSUME msg.type = "FileTransferComplete"  PROVE Served(t)'
  <2>1. /\ Consume(m, n) /\ Flight(t)' = Flight(t) \ {msg}
    <3>1. ~HandleUploadRequest(m, n)
      BY <1>1, <1>5 DEF HandleUploadRequest, Arrives
    <3> QED
      BY <1>1, <1>2, <3>1, HandleNet
  <2>2. Flight(t) = {msg} /\ n = Receiver(t) /\ sender[t].phase = "finished"
    BY <1>1, <1>2, <1>5, <2>1, LastFlight
  <2>3. sender'[t].phase = "finished" /\ Flight(t)' = {}
    BY <1>4, <2>1, <2>2
  <2>4. Reclaimed(t)'
    BY <1>2 DEF ProtocolOf, TransferInv, Transferred
  <2>5. ~Registered(t)'
    BY <2>3, <2>4 DEF Reclaimed, Running, Flying
  <2> QED
    BY <2>3, <2>5 DEF Served
<1>6. msg.type = "Rejected" => sender'[t].phase = "failed"
  BY <1>3, <1>4 DEF Told
<1> QED
  BY <1>5, <1>6 DEF ReplyTold

\* A message of one of the protocol's own transfers.
LEMMA DavTakesTransfer ==
    ASSUME DavInv, NEW m \in Nodes, NEW n \in Nodes, NEW msg, NEW t, Takes(m, n, msg, t),
           ~Write(t)
    PROVE  DavInv'
<1>1. /\ Handle(m, n) /\ Head(net[m][n]) = msg /\ msg.id = t
      /\ t \in Transfers /\ msg \in Flight(t)
  BY TakenMessage
<1>2. /\ OperationInv(t) /\ t \in Transferred /\ TransferInv(t)
      /\ Transferred \in SUBSET Transfers /\ Kept \in SUBSET Transfers
      /\ ProtocolOf(Transferred) /\ DataOf(Kept)
  BY <1>1, TheOperation
<1>3. ~Served(t)
  BY <1>1 DEF Served
<1>4. file[t].state \notin {"ok", "not_found"}
  BY <1>2, <1>3 DEF OperationInv, OpenInv
<1>5. /\ SharesRead' /\ BridgeTypes'
      /\ UNCHANGED <<file, mailbox, caps, requested, original>> /\ damaged \subseteq damaged'
      /\ n = Job[t].by /\ msg.type \in Fed => Heard(t)' = Heard(t) \cup {msg}
      /\ ~(n = Job[t].by /\ msg.type \in Fed) => Heard(t)' = Heard(t)
  BY TakenEffect
<1>6. ProtocolOf(Transferred)'
  <2> DEFINE T == Transferred
  <2>1. T \in SUBSET Transfers /\ ProtocolOf(T) /\ Head(net[m][n]).id \in T
    BY <1>1, <1>2
  <2> HIDE DEF T
  <2>2. ProtocolOf(T)'
    BY <1>1, <2>1, ProtocolHandle
  <2> QED
    BY <2>2 DEF T
<1>7. PICK T : T = Kept
  OBVIOUS
<1>8. DataOf(T)' /\ Kept' = T
  <2>1. T \in SUBSET Transfers /\ DataOf(T) /\ Head(net[m][n]).id \in T
    BY <1>1, <1>2, <1>4, <1>7 DEF Kept
  <2>2. DataOf(T)'
    BY <1>1, <2>1, DataHandle
  <2>3. Kept' = T
    BY <1>5, <1>7 DEF Kept, Transferred
  <2> QED
    BY <2>2, <2>3
<1>9. sender'[t] = sender[t] \/ sender[t].phase = "idle"
  BY TakenTask
<1>10. Temporary(t)'
  <2> SUFFICES ASSUME NEW k \in Nodes, disk'[k][t] # None
               PROVE  /\ Download(t) /\ k = Job[t].by
                      /\ sender'[t].phase \in {"streaming", "finished"}
    BY DEF Temporary
  <2>1. CASE disk'[k][t] = disk[k][t]
    BY <1>2, <1>9, <2>1 DEF OperationInv, Temporary
  <2>2. CASE disk'[k][t] # disk[k][t]
    BY <2>2, TakenTask
  <2> QED
    BY <2>1, <2>2
<1>11. ASSUME Download(t)  PROVE OpenInv(t)'
  <2>1. OpenInv(t)
    BY <1>2, <1>11 DEF OperationInv
  <2>2. \A x \in Heard(t) : ReplyTold(t, x)'
    BY <1>3, <1>9, <2>1 DEF OpenInv, ReplyTold
  <2>3. msg.type \in Fed => ReplyTold(t, msg)'
    BY <1>6, <1>11, TakenReply
  <2>4. \A x \in Heard(t)' : ReplyTold(t, x)'
    BY <1>5, <2>2, <2>3
  <2>5. file'[t].state = "forbidden" => sender'[t].phase = "failed"
    BY <1>5, <1>9, <2>1 DEF OpenInv
  <2> QED
    BY <1>4, <1>5, <2>4, <2>5 DEF OpenInv
<1>12. OperationInv(t)'
  BY <1>2, <1>5, <1>10, <1>11 DEF OperationInv
<1>13. \A u \in Transfers \ {t} : Aside(u)
  BY TakenOthers
<1> QED
  BY <1>1, <1>5, <1>6, <1>8, <1>12, <1>13, StepKeeps

-----------------------------------------------------------------------------
(* The handlers, for a message of a write of the bridge.                   *)

LEMMA WriteMessage ==
    ASSUME DavInv, NEW m \in Nodes, NEW n \in Nodes, NEW msg, NEW t, Takes(m, n, msg, t),
           Write(t)
    PROVE  /\ WriteInv(t) /\ MessageOfWrite(t, msg) /\ file[t].state # "closed"
           /\ msg.type \in Answers => n = Job[t].by
           /\ msg.type \notin Answers => n = Receiver(t)
           /\ msg.type # "FileDownloadRequest"
<1>1. msg \in Message /\ t \in Transfers /\ msg \in Flight(t) /\ To(msg) = n /\ msg.id = t
  BY TakenMessage
<1>2. /\ WriteInv(t) /\ Sender(t) = Job[t].by /\ Receiver(t) = Job[t].with
  BY <1>1, WritePlace
<1>3. MessageOfWrite(t, msg) /\ file[t].state # "closed"
  BY <1>1, <1>2 DEF WriteInv, Progress
<1>4. msg.type # "FileDownloadRequest"
  BY <1>3 DEF MessageOfWrite, Requests
<1>5. /\ msg.type \in Answers => n = Job[t].by
      /\ msg.type \notin Answers => n = Receiver(t)
  BY <1>1, <1>2 DEF To, Requests, Answers
<1> QED
  BY <1>2, <1>3, <1>4, <1>5

\* No task starts, and the temporary file it is taken to announce is not written.
LEMMA WriteTask ==
    ASSUME DavInv, NEW m \in Nodes, NEW n \in Nodes, NEW msg, NEW t, Takes(m, n, msg, t),
           Write(t)
    PROVE  /\ UNCHANGED <<sender, active_uploads>>
           /\ \A k \in Nodes : disk'[k][t] = disk[k][t]
           /\ \/ UNCHANGED disk
              \/ \E p \in Places : Overwritten(n, p, t)
<1>1. /\ Handle(m, n) /\ Head(net[m][n]) = msg /\ msg.id = t /\ t \in Transfers
      /\ t \in Places
  BY TakenMessage DEF Places
<1>2. /\ WriteInv(t) /\ msg.type # "FileDownloadRequest"
      /\ msg.type \notin Answers => n = Receiver(t)
  BY WriteMessage
<1>3. active_uploads[n][t] = None
  BY <1>2 DEF WriteInv, Noted
<1>4. UNCHANGED <<sender, active_uploads>>
  <2>1. CASE HandleDownloadRequest(m, n)
    BY <1>1, <1>2, <2>1 DEF HandleDownloadRequest, Arrives
  <2>2. CASE HandleAccepted(m, n)
    BY <1>1, <1>3, <2>2 DEF HandleAccepted
  <2>3. HandleDownloadRequest(m, n) \/ HandleAccepted(m, n)
          \/ UNCHANGED <<sender, active_uploads>>
    BY <1>1 DEF Handle, HandleUploadRequest, HandleRejected, HandleChunk, HandleComplete,
                HandleNothing
  <2> QED
    BY <2>1, <2>2, <2>3
<1>5. WritesOnce(n, msg, t)
  <2>1. active_downloads[n][t] # None => active_downloads[n][t].path \in Paths \cup {t}
    BY TakenPlace
  <2> QED
    BY <1>1, <2>1, TheState, HandleDisk
<1>6. CASE UNCHANGED disk
  BY <1>4, <1>6
<1>7. ASSUME NEW p \in Places,
             p \in Paths
               \/ (p = t /\ msg.type = "FileChunk" /\ active_downloads[n][t] # None
                     /\ active_downloads[n][t].path = p),
             \A k \in Nodes, q \in Places : <<k, q>> # <<n, p>> => disk'[k][q] = disk[k][q],
             damaged \cup ((Receiving(n, p) \cup Reading(n, p)) \ {t}) \subseteq damaged'
      PROVE  Overwritten(n, p, t) /\ \A k \in Nodes : disk'[k][t] = disk[k][t]
  <2>1. p \in Paths
    <3> SUFFICES ASSUME p = t, msg.type = "FileChunk", active_downloads[n][t] # None,
                        active_downloads[n][t].path = t
                 PROVE  FALSE
      BY <1>7
    <3>1. n = Receiver(t)
      BY <1>2 DEF Answers
    <3>2. (Download(t) /\ n = Receiver(t)) \/ n = Job[t].by
      BY TakenPlace
    <3>3. ~Download(t)
      BY <1>1, WritePlace
    <3> QED
      BY <1>1, <3>1, <3>2, <3>3, Ends
  <2>2. p # t
    BY <1>1, <2>1, DistinctAssumption
  <2> QED
    BY <1>1, <1>4, <1>7, <2>1, <2>2 DEF Overwritten
<1> QED
  BY <1>4, <1>5, <1>6, <1>7 DEF WritesOnce

\* A message of a write concerns that write only: the rest is as it was.
LEMMA DavTakesFor ==
    ASSUME DavInv, NEW m \in Nodes, NEW n \in Nodes, NEW msg, NEW t, Takes(m, n, msg, t),
           Write(t), WriteInv(t)'
    PROVE  DavInv'
<1>1. t \in Transfers
  BY TakenMessage
<1>2. /\ OperationInv(t) /\ TypeOK /\ ~Download(t)
      /\ Transferred \in SUBSET Transfers /\ Kept \in SUBSET Transfers
      /\ ProtocolOf(Transferred) /\ DataOf(Kept)
  BY <1>1, TheOperation, WritePlace
<1>3. /\ TypeOK' /\ ChannelInv' /\ SharesRead' /\ BridgeTypes'
      /\ UNCHANGED <<file, mailbox, caps, requested, original>> /\ damaged \subseteq damaged'
  BY TakenEffect
<1>4. /\ UNCHANGED <<sender, active_uploads>>
      /\ \A k \in Nodes : disk'[k][t] = disk[k][t]
      /\ \/ UNCHANGED disk
         \/ \E p \in Places : Overwritten(n, p, t)
  BY WriteTask
<1>5. \A u \in Transfers \ {t} : Aside(u)
  BY TakenOthers
<1>6. \A u \in Transferred : u \in Transfers \ {t}
  BY DEF Transferred
<1>7. ProtocolOf(Transferred)'
  <2>1. PICK T : T = Transferred
    OBVIOUS
  <2>2. \A u \in T : Undisturbed(u)
    BY <1>5, <1>6, <2>1 DEF Aside
  <2>3. ProtocolOf(T)'
    BY <1>2, <1>3, <2>1, <2>2, AllTransfersKept
  <2>4. Transferred' = T
    BY <2>1 DEF Transferred
  <2> QED
    BY <2>3, <2>4
<1>8. PICK T : T = Kept
  OBVIOUS
<1>9. T \in SUBSET Transfers /\ DataOf(T) /\ ProtocolOf(T) /\ T \subseteq Transferred
  BY <1>2, <1>8 DEF DataOf, Kept
<1>10. ProtocolOf(T)'
  <2>1. Transferred' = Transferred
    BY DEF Transferred
  <2> QED
    BY <1>7, <1>9, <2>1 DEF ProtocolOf
<1>11. ASSUME NEW u \in T  PROVE Unmoved(u) /\ Steady(u)
  <2>1. u \in Transfers \ {t} /\ Aside(u)
    BY <1>5, <1>6, <1>9
  <2>2. Registered(u)' <=> Registered(u)
    BY <2>1, EndsAreNodes DEF Registered, Aside, Undisturbed
  <2>3. Unmoved(u)
    BY <1>4, <2>1, <2>2 DEF Unmoved, Aside, Undisturbed
  <2>4. CASE UNCHANGED disk
    <3>1. OpenFile(u)' = OpenFile(u)
      BY <1>4, <2>4 DEF OpenFile
    <3>2. Got(u)' = Got(u)
      BY <2>4 DEF Got
    <3> QED
      BY <1>3, <2>3, <3>1, <3>2 DEF Steady
  <2>5. CASE \E p \in Places : Overwritten(n, p, t)
    <3>1. PICK p \in Places : Overwritten(n, p, t)
      BY <2>5
    <3>2. \A v \in T \ {t} : Steady(v)
      BY <1>1, <1>9, <3>1, SteadyWrite
    <3> QED
      BY <2>1, <2>3, <3>2
  <2> QED
    BY <1>4, <2>4, <2>5
<1>12. DataOf(T)' /\ Kept' \subseteq T
  <2>1. DataOf(T)'
    BY <1>9, <1>10, <1>11, AllDataKept
  <2> QED
    BY <1>3, <1>8, <2>1 DEF Kept, Transferred
<1>13. OperationInv(t)'
  <2>1. Temporary(t)'
    BY <1>2, <1>4 DEF OperationInv, Temporary
  <2> QED
    BY <1>2, <2>1 DEF OperationInv
<1> QED
  BY <1>1, <1>3, <1>5, <1>7, <1>12, <1>13, StepKeeps

\* The answer reaches the node of the bridge, on its own.
LEMMA WriteAnswered ==
    ASSUME DavInv, NEW m \in Nodes, NEW n \in Nodes, NEW msg, NEW t, Takes(m, n, msg, t),
           Write(t), msg.type \in Answers
    PROVE  WriteInv(t)'
<1>1. /\ Handle(m, n) /\ Head(net[m][n]) = msg /\ msg.id = t /\ t \in Transfers
      /\ msg \in Flight(t)
  BY TakenMessage
<1>2. WriteInv(t) /\ MessageOfWrite(t, msg) /\ n = Job[t].by
  BY WriteMessage
<1>3. /\ Flight(t) = {msg} /\ Heard(t) = {} /\ file[t].pos = 0
      /\ file[t].state \in {"waiting", "cancelled"}
  BY <1>2 DEF MessageOfWrite
<1>4. /\ UNCHANGED <<file, caps>> /\ Flight(t)' = {} /\ Heard(t)' = {msg}
  <2>1. ~HandleUploadRequest(m, n)
    BY <1>1 DEF HandleUploadRequest, Arrives, Answers
  <2>2. msg.type \in Fed
    BY DEF Answers, Fed
  <2>3. /\ UNCHANGED <<file, caps>> /\ Flight(t)' = Flight(t) \ {msg}
        /\ Heard(t)' = Heard(t) \cup {msg}
    BY <1>2, <2>1, <2>2, TakenEffect
  <2> QED
    BY <1>3, <2>3
<1>5. UNCHANGED <<sender, active_uploads>>
  BY WriteTask
<1>6. /\ UNCHANGED <<disk, delivered, damaged>>
      /\ result' = result \/ result' = [result EXCEPT ![t] = "rejected"]
      /\ active_downloads' = active_downloads \/ Register(n, t, t, msg.size)
  <2>1. HandleAccepted(m, n) \/ HandleRejected(m, n) \/ HandleNothing(m, n)
    BY <1>1 DEF Handle, HandleUploadRequest, HandleDownloadRequest, HandleChunk,
                HandleComplete, Arrives, Answers
  <2> QED
    BY <1>1, <2>1 DEF HandleAccepted, HandleRejected, HandleNothing, history
<1>7. result'[t] # "complete"
  <2>1. result \in [Transfers -> {"none", "rejected", "complete"}] /\ result[t] # "complete"
    BY <1>2, <1>3, TheState DEF TypeOK, VariableTypes, WriteInv
  <2> QED
    BY <1>1, <1>6, <2>1
<1>8. /\ \A k \in Nodes \ {n} : active_downloads'[k][t] = active_downloads[k][t]
      /\ active_downloads'[n][t] = active_downloads[n][t] \/ active_downloads'[n][t].path = t
  <2>1. CASE active_downloads' = active_downloads
    BY <2>1
  <2>2. CASE Register(n, t, t, msg.size)
    <3> DEFINE e == [path |-> t, size |-> msg.size]
    <3>1. active_downloads' = [active_downloads EXCEPT ![n][t] = e] /\ e.path = t
      BY <2>2 DEF Register
    <3>2. active_downloads \in [Nodes -> [Transfers -> Entry \cup {None}]]
      BY TheState DEF TypeOK, VariableTypes
    <3> HIDE DEF e
    <3> QED
      BY <1>1, <3>1, <3>2
  <2> QED
    BY <1>6, <2>1, <2>2
<1>9. Noted(t)'
  <2>1. Noted(t)
    BY <1>2 DEF WriteInv
  <2> QED
    BY <1>2, <1>4, <1>5, <1>8, <2>1 DEF Noted
<1>10. Progress(t)'
  <2>1. Progress(t)
    BY <1>2 DEF WriteInv
  <2> QED
    BY <1>3, <1>4, <2>1 DEF Progress
<1>11. ASSUME Underway(t)'  PROVE Registered(t)' /\ (t \notin damaged' => Arriving(t)')
  <2>1. Underway(t)
    BY <1>3, <1>4, <1>11 DEF Underway, Flying
  <2>2. Registered(t) /\ (t \notin damaged => Arriving(t))
    BY <1>2, <2>1 DEF WriteInv
  <2>3. Registered(t)'
    BY <1>1, <1>2, <1>8, <2>2, WritePlace, Ends, EndsAreNodes DEF Registered
  <2>4. ASSUME t \notin damaged'  PROVE Arriving(t)'
    <3>1. Arriving(t) /\ Got(t)' = Got(t)
      BY <1>6, <2>2, <2>4 DEF Got
    <3>2. Len(Got(t)) \in Nat
      BY <1>1, <2>2, WritePlace
    <3> QED
      BY <1>3, <1>4, <1>6, <3>1, <3>2 DEF Arriving
  <2> QED
    BY <2>3, <2>4
<1> QED
  BY <1>4, <1>7, <1>9, <1>10, <1>11 DEF WriteInv

\* The request reaches the peer, on its own, and so will its answer.
LEMMA WriteAsked ==
    ASSUME DavInv, NEW m \in Nodes, NEW n \in Nodes, NEW msg, NEW t, Takes(m, n, msg, t),
           Write(t), msg.type = "FileUploadRequest"
    PROVE  WriteInv(t)'
<1>1. /\ Handle(m, n) /\ Head(net[m][n]) = msg /\ msg.id = t /\ t \in Transfers
      /\ msg \in Flight(t) /\ m # n
  BY TakenMessage
<1>2. WriteInv(t) /\ MessageOfWrite(t, msg) /\ n = Receiver(t)
  BY WriteMessage DEF Answers
<1>3. /\ Flight(t) = {msg} /\ Heard(t) = {} /\ file[t].pos = 0
      /\ file[t].state \in {"waiting", "cancelled"} /\ msg.path = Job[t].remote
  BY <1>2 DEF MessageOfWrite, Requests
<1>4. UNCHANGED <<file, caps>> /\ Heard(t)' = {}
  BY <1>3, TakenEffect DEF Fed
<1>5. UNCHANGED <<sender, active_uploads>>
  BY WriteTask
<1>6. UNCHANGED <<delivered, result>> /\ result[t] # "complete"
  <2>1. HandleUploadRequest(m, n) \/ HandleNothing(m, n)
    BY <1>1 DEF Handle, HandleAccepted, HandleRejected, HandleDownloadRequest, HandleChunk,
                HandleComplete, Arrives
  <2> QED
    BY <1>2, <1>3, <2>1 DEF HandleUploadRequest, HandleNothing, history, WriteInv
<1>7. Progress(t)'
  <2>1. Progress(t)
    BY <1>2 DEF WriteInv
  <2> QED
    BY <1>3, <1>4, <1>6, <2>1 DEF Progress
<1>8. Noted(t) /\ Place(t) = Job[t].remote
  BY <1>1, <1>2, WritePlace DEF WriteInv
<1>9. CASE HandleNothing(m, n)
  <2>1. UNCHANGED <<active_downloads, disk, damaged>> /\ Flight(t)' = {}
    <3>1. ~HandleUploadRequest(m, n)
      BY <1>9 DEF HandleNothing, HandleUploadRequest, Arrives
    <3>2. Flight(t)' = Flight(t) \ {msg}
      BY <3>1, TakenEffect
    <3> QED
      BY <1>3, <1>9, <3>2 DEF HandleNothing, history
  <2>2. ~Underway(t)'
    BY <1>3, <1>4, <2>1 DEF Underway, Flying
  <2>3. Noted(t)'
    BY <1>4, <1>5, <1>8, <2>1 DEF Noted
  <2> QED
    BY <1>6, <1>7, <2>1, <2>2, <2>3 DEF WriteInv
<1>10. ASSUME HandleUploadRequest(m, n), NEW reply \in {Accepted(t, 0), Rejected(t)},
              Reply(m, n, reply),
              active_downloads' = active_downloads \/ Register(n, t, msg.path, 0),
              reply = Accepted(t, 0) =>
                 /\ Register(n, t, msg.path, 0) /\ msg.path # None
                 /\ disk' = [disk EXCEPT ![n][msg.path] = CreateFile(@)]
       PROVE  WriteInv(t)'
  <2>1. Flight(t)' = {reply}
    <3>1. TypeOK /\ ChannelInv /\ m # n /\ HandleUploadRequest(m, n) /\ Foremost(m, n, msg, t)
          /\ Flight(t) = {msg} /\ Reply(m, n, reply)
          /\ reply \in {Accepted(t, 0), Rejected(t)}
      BY <1>1, <1>3, <1>10, TheState DEF Foremost
    <3> QED
      BY <3>1, RequestAnswered
  <2>2. n \in caps
    BY <1>10 DEF HandleUploadRequest, Arrives
  <2>3. active_downloads \in [Nodes -> [Transfers -> Entry \cup {None}]]
        /\ disk \in [Nodes -> [Places -> File \cup {None}]]
    BY TheState DEF TypeOK, VariableTypes
  <2>4. /\ \A k \in Nodes \ {n} : active_downloads'[k][t] = active_downloads[k][t]
        /\ active_downloads'[n][t] = active_downloads[n][t]
             \/ active_downloads'[n][t].path = Job[t].remote
        /\ Register(n, t, msg.path, 0) =>
              active_downloads'[n][t] = [path |-> Job[t].remote, size |-> 0]
    <3>1. CASE active_downloads' = active_downloads /\ ~Register(n, t, msg.path, 0)
      BY <3>1
    <3>2. CASE Register(n, t, msg.path, 0)
      <4> DEFINE e == [path |-> Job[t].remote, size |-> 0]
      <4>1. active_downloads' = [active_downloads EXCEPT ![n][t] = e] /\ e.path = Job[t].remote
        BY <1>3, <3>2 DEF Register
      <4> HIDE DEF e
      <4>2. /\ \A k \in Nodes \ {n} : active_downloads'[k][t] = active_downloads[k][t]
            /\ active_downloads'[n][t] = e
        BY <1>1, <2>3, <4>1
      <4> QED
        BY <4>1, <4>2 DEF e
    <3> QED
      BY <1>10, <3>1, <3>2
  <2>5. Noted(t)'
    BY <1>2, <1>4, <1>5, <1>8, <2>2, <2>4 DEF Noted
  <2>6. \A x \in Flight(t)' : MessageOfWrite(t, x)'
    BY <1>3, <1>4, <2>1 DEF MessageOfWrite, Requests, Accepted, Rejected
  <2>7. ASSUME Underway(t)'  PROVE Registered(t)' /\ Arriving(t)'
    <3>1. reply = Accepted(t, 0)
      BY <1>3, <1>4, <2>1, <2>7 DEF Underway, Flying, Rejected
    <3>2. Job[t].remote \in Paths /\ Job[t].remote \in Places
      BY <1>1, <1>3, <1>10, <3>1, Ends DEF Places
    <3>3. Registered(t)'
      <4>1. active_downloads'[n][t] = [path |-> Job[t].remote, size |-> 0]
        BY <1>10, <2>4, <3>1
      <4>2. [path |-> Job[t].remote, size |-> 0] # None
        BY <3>2, DistinctAssumption
      <4> QED
        BY <1>2, <4>1, <4>2 DEF Registered
    <3>4. disk'[n][Job[t].remote] = <<>>
      BY <1>3, <1>10, <2>3, <3>1, <3>2 DEF CreateFile
    <3>5. <<>> # None
      <4>1. <<>> \in File
        BY DEF File
      <4> QED
        BY <4>1, FileIsSome
    <3>6. Got(t)' = <<>> /\ Len(Got(t)') = 0
      BY <1>2, <1>8, <3>4, <3>5 DEF Got, Contents
    <3>7. \A x \in Flight(t)' : x.type # "FileChunk"
      BY <2>1, <3>1 DEF Accepted
    <3> QED
      BY <1>2, <1>3, <1>4, <3>3, <3>4, <3>5, <3>6, <3>7 DEF Arriving
  <2> QED
    BY <1>6, <1>7, <2>5, <2>6, <2>7 DEF WriteInv
<1>11. CASE HandleUploadRequest(m, n)
  <2>1. \/ /\ Reply(m, n, Rejected(t))
           /\ active_downloads' = active_downloads \/ Register(n, t, msg.path, 0)
        \/ /\ Reply(m, n, Accepted(t, 0)) /\ Register(n, t, msg.path, 0) /\ msg.path # None
           /\ disk' = [disk EXCEPT ![n][msg.path] = CreateFile(@)]
    BY <1>1, <1>11 DEF HandleUploadRequest
  <2>2. Rejected(t) # Accepted(t, 0)
    BY DEF Rejected, Accepted
  <2>3. CASE /\ Reply(m, n, Rejected(t))
             /\ active_downloads' = active_downloads \/ Register(n, t, msg.path, 0)
    BY <1>10, <1>11, <2>2, <2>3
  <2>4. CASE /\ Reply(m, n, Accepted(t, 0)) /\ Register(n, t, msg.path, 0) /\ msg.path # None
             /\ disk' = [disk EXCEPT ![n][msg.path] = CreateFile(@)]
    BY <1>10, <1>11, <2>4
  <2> QED
    BY <2>1, <2>3, <2>4
<1> QED
  BY <1>1, <1>9, <1>11 DEF Handle, HandleAccepted, HandleRejected, HandleDownloadRequest,
                           HandleChunk, HandleComplete, Arrives

\* What is in flight when a block or the end comes is in the same channel.
LEMMA WriteRest ==
    ASSUME DavInv, NEW m \in Nodes, NEW n \in Nodes, NEW msg, NEW t, Takes(m, n, msg, t),
           Write(t), msg.type \in {"FileChunk", "FileTransferComplete"}
    PROVE  /\ \A x \in Flight(t) : /\ x \in Message /\ x.id = t
                                   /\ x.type \in {"FileChunk", "FileTransferComplete"}
                                   /\ x # msg => MayFollow(msg, x)
           /\ Flight(t)' = Flight(t) \ {msg} /\ Heard(t)' = Heard(t)
<1>1. /\ Handle(m, n) /\ Head(net[m][n]) = msg /\ msg.id = t /\ t \in Transfers
      /\ msg \in Flight(t) /\ msg \in Message /\ From(msg) = m /\ To(msg) = n
  BY TakenMessage
<1>2. WriteInv(t) /\ n = Receiver(t) /\ n # Job[t].by
  <2>1. WriteInv(t) /\ n = Receiver(t)
    BY WriteMessage DEF Answers
  <2>2. Receiver(t) = Job[t].with
    BY <1>1, WritePlace
  <2> QED
    BY <1>1, <2>1, <2>2, Ends
<1>3. /\ Flight(t)' = Flight(t) \ {msg} /\ Heard(t)' = Heard(t)
      /\ \A x \in Flight(t) : x # msg /\ From(x) = m /\ To(x) = n => MayFollow(msg, x)
  <2>1. ~HandleUploadRequest(m, n)
    BY <1>1 DEF HandleUploadRequest, Arrives
  <2> QED
    BY <1>2, <2>1, TakenEffect
<1>4. ASSUME NEW x \in Flight(t)
      PROVE  /\ x \in Message /\ x.id = t
             /\ x.type \in {"FileChunk", "FileTransferComplete"}
             /\ x # msg => MayFollow(msg, x)
  <2>1. x \in Message /\ x.id = t
    BY DEF Flight, FlightIn
  <2>2. x.type \notin Requests \cup Answers
    <3>1. MessageOfWrite(t, x) /\ msg.type \notin Requests \cup Answers
      BY <1>2 DEF WriteInv, Requests, Answers
    <3>2. x.type \in Requests \cup Answers => Flight(t) = {x}
      BY <3>1 DEF MessageOfWrite
    <3> QED
      BY <1>1, <3>1, <3>2
  <2>3. x.type \in {"FileChunk", "FileTransferComplete"}
    BY <2>1, <2>2 DEF Message, Requests, Answers
  <2>4. From(x) = m /\ To(x) = n
    BY <1>1, <2>1, <2>3 DEF From, To, Requests, Answers
  <2> QED
    BY <1>3, <2>1, <2>3, <2>4
<1> QED
  BY <1>3, <1>4

\* The block of a write that is handled continues what has arrived.
LEMMA WriteInOrder ==
    ASSUME DavInv, NEW m \in Nodes, NEW n \in Nodes, NEW msg, NEW t, Takes(m, n, msg, t),
           Write(t), msg.type = "FileChunk", Registered(t), Arriving(t)
    PROVE  /\ msg.offset = Len(Got(t)) /\ msg.data = Written[t][Len(Got(t)) + 1]
           /\ msg.offset < file[t].pos
           /\ \A x \in Flight(t) : x.type = "FileChunk" /\ x # msg => msg.offset < x.offset
<1>1. msg \in Message /\ t \in Transfers /\ msg \in Flight(t) /\ msg.id = t
  BY TakenMessage
<1>2. msg.offset \in Nat /\ Len(Got(t)) \in Nat /\ file[t].pos \in Nat
  BY <1>1, MessageFields, WritePlace, TheState, FileTypes
<1>3. msg.offset < file[t].pos
  BY WriteMessage DEF MessageOfWrite
<1>4. ASSUME NEW x \in Flight(t), x.type = "FileChunk", x # msg
      PROVE  msg.offset < x.offset
  <2>1. MayFollow(msg, x) /\ x.id = t
    BY <1>4, WriteRest
  <2> QED
    BY <1>1, <1>4, <2>1 DEF MayFollow
<1>5. Len(Got(t)) <= msg.offset /\ msg.data = Written[t][msg.offset + 1]
  BY <1>1 DEF Arriving
<1>6. ASSUME Len(Got(t)) < msg.offset  PROVE FALSE
  <2>1. Len(Got(t)) < file[t].pos
    BY <1>2, <1>3, <1>6
  <2>2. PICK x \in Flight(t) : x.type = "FileChunk" /\ x.offset = Len(Got(t))
    BY <1>2, <2>1 DEF Arriving
  <2>3. x = msg \/ msg.offset < Len(Got(t))
    BY <1>4, <2>2
  <2> QED
    BY <1>2, <1>6, <2>2, <2>3
<1>7. msg.offset = Len(Got(t))
  BY <1>2, <1>5, <1>6
<1> QED
  BY <1>3, <1>4, <1>5, <1>7

\* A block of a write is appended to what has arrived.
LEMMA WriteBlockEffect ==
    ASSUME DavInv, NEW m \in Nodes, NEW n \in Nodes, NEW msg, NEW t, Takes(m, n, msg, t),
           Write(t), msg.type = "FileChunk", Registered(t), Arriving(t),
           disk' = [disk EXCEPT ![n][Job[t].remote] = WriteBlock(@, msg.offset, msg.data)]
    PROVE  Arriving(t)'
<1>1. /\ msg \in Message /\ t \in Transfers /\ msg \in Flight(t) /\ msg.id = t
  BY TakenMessage
<1>2. /\ n = Receiver(t) /\ Place(t) = Job[t].remote /\ Job[t].remote \in Places
      /\ Got(t) \in File /\ Len(Got(t)) \in Nat
  BY <1>1, WriteMessage, WritePlace DEF Answers, Places
<1>3. UNCHANGED file /\ Flight(t)' = Flight(t) \ {msg}
  BY TakenEffect, WriteRest
<1>4. /\ msg.offset = Len(Got(t)) /\ msg.data = Written[t][Len(Got(t)) + 1]
      /\ msg.offset < file[t].pos
      /\ \A x \in Flight(t) : x.type = "FileChunk" /\ x # msg => msg.offset < x.offset
  BY WriteInOrder
<1>5. PICK old : old = disk[n][Job[t].remote]
  OBVIOUS
<1>6. PICK new : new = WriteBlock(old, msg.offset, msg.data)
  OBVIOUS
<1>7. disk'[n][Job[t].remote] = new /\ old \in File \cup {None}
  <2>1. disk \in [Nodes -> [Places -> File \cup {None}]]
    BY TheState DEF TypeOK, VariableTypes
  <2> QED
    BY <1>2, <1>5, <1>6, <2>1
<1>8. PICK len : len = Len(Got(t))
  OBVIOUS
<1>9. /\ new # None /\ Got(t)' = new /\ Len(new) = len + 1
      /\ \A i \in 1 .. len : new[i] = Got(t)[i]
      /\ new[len + 1] = msg.data
  <2>1. Got(t) = Contents(old) /\ msg.data \in Block
    BY <1>1, <1>2, <1>5, MessageFields DEF Got
  <2>2. LET was == Contents(old)
            put == WriteBlock(old, Len(was), msg.data)
        IN  /\ put \in File /\ Contents(put) = put /\ Len(put) = Len(was) + 1
            /\ \A i \in 1 .. Len(was) : put[i] = was[i]
            /\ put[Len(was) + 1] = msg.data
    BY <1>7, <2>1, WriteAtEnd
  <2>3. new = WriteBlock(old, Len(Contents(old)), msg.data)
    BY <1>4, <1>6, <2>1
  <2>4. /\ new \in File /\ Contents(new) = new /\ Len(new) = len + 1
        /\ \A i \in 1 .. len : new[i] = Got(t)[i]
        /\ new[len + 1] = msg.data
    BY <1>8, <2>1, <2>2, <2>3
  <2>5. new # None
    BY <2>4, FileIsSome
  <2>6. Got(t)' = new
    BY <1>2, <1>7, <2>4 DEF Got
  <2> QED
    BY <2>4, <2>5, <2>6
<1>10. len \in Nat /\ file[t].pos \in Nat /\ len < file[t].pos
  BY <1>1, <1>2, <1>4, <1>8, TheState, FileTypes
<1>11. \A i \in 1 .. len + 1 : new[i] = Written[t][i]
  <2> SUFFICES ASSUME NEW i \in 1 .. len + 1  PROVE new[i] = Written[t][i]
    OBVIOUS
  <2>1. i \in 1 .. len \/ i = len + 1
    BY <1>10
  <2>2. CASE i \in 1 .. len
    <3>1. Got(t)[i] = Written[t][i]
      BY <1>8, <2>2 DEF Arriving
    <3> QED
      BY <1>9, <2>2, <3>1
  <2>3. CASE i = len + 1
    BY <1>4, <1>8, <1>9, <2>3
  <2> QED
    BY <2>1, <2>2, <2>3
<1>12. ASSUME NEW k \in Nat, len + 1 <= k, k < file[t].pos
       PROVE  \E x \in Flight(t)' : x.type = "FileChunk" /\ x.offset = k
  <2>1. len <= k /\ k # len
    BY <1>10, <1>12
  <2>2. PICK x \in Flight(t) : x.type = "FileChunk" /\ x.offset = k
    BY <1>8, <1>12, <2>1 DEF Arriving
  <2>3. x # msg
    BY <1>4, <1>8, <2>1, <2>2
  <2> QED
    BY <1>3, <2>2, <2>3
<1>13. ASSUME NEW x \in Flight(t)', x.type = "FileChunk"
       PROVE  len + 1 <= x.offset /\ x.data = Written[t][x.offset + 1]
  <2>1. x \in Flight(t) /\ x # msg /\ x \in Message
    BY <1>3 DEF Flight, FlightIn
  <2>2. x.offset \in Nat
    BY <1>13, <2>1, MessageFields
  <2>3. len < x.offset
    BY <1>4, <1>8, <1>13, <2>1
  <2>4. x.data = Written[t][x.offset + 1]
    BY <1>13, <2>1 DEF Arriving
  <2> QED
    BY <1>10, <2>2, <2>3, <2>4
<1>14. file' = file /\ disk'[Receiver(t)][Job[t].remote] # None /\ Len(Got(t)') = len + 1
       /\ len + 1 <= file[t].pos
  BY <1>2, <1>3, <1>7, <1>9, <1>10
<1> QED
  BY <1>9, <1>11, <1>12, <1>13, <1>14 DEF Arriving

\* The entry of the node that is written to takes the block.
LEMMA WriteTakesBlock ==
    ASSUME DavInv, NEW m \in Nodes, NEW n \in Nodes, NEW msg, NEW t, Takes(m, n, msg, t),
           Write(t), msg.type = "FileChunk"
    PROVE  WriteInv(t)'
<1>1. /\ Handle(m, n) /\ Head(net[m][n]) = msg /\ msg.id = t /\ t \in Transfers
      /\ msg \in Flight(t)
  BY TakenMessage
<1>2. WriteInv(t) /\ n = Receiver(t) /\ file[t].state # "closed"
  BY WriteMessage DEF Answers
<1>3. UNCHANGED <<file, caps, sender, active_uploads>> /\ damaged \subseteq damaged'
  BY TakenEffect, WriteTask
<1>4. Flight(t)' = Flight(t) \ {msg} /\ Heard(t)' = Heard(t)
  BY WriteRest
<1>5. \A x \in Flight(t) : x.type \in {"FileChunk", "FileTransferComplete"}
  BY WriteRest
<1>6. HandleChunk(m, n) \/ HandleNothing(m, n)
  BY <1>1 DEF Handle, HandleUploadRequest, HandleDownloadRequest, HandleAccepted,
              HandleRejected, HandleComplete, Arrives
<1>7. UNCHANGED <<active_downloads, result, delivered>>
  BY <1>6 DEF HandleChunk, HandleNothing, history
<1>8. Noted(t)' /\ Progress(t)'
  <2>1. Noted(t) /\ Progress(t)
    BY <1>2 DEF WriteInv
  <2> QED
    BY <1>2, <1>3, <1>7, <2>1 DEF Noted, Progress
<1>9. \A x \in Flight(t)' : MessageOfWrite(t, x)'
  <2> SUFFICES ASSUME NEW x \in Flight(t), x # msg  PROVE MessageOfWrite(t, x)'
    BY <1>4
  <2>1. MessageOfWrite(t, x) /\ x.type \notin Requests \cup Answers
    BY <1>2, <1>5 DEF WriteInv, Requests, Answers
  <2> QED
    BY <1>3, <2>1 DEF MessageOfWrite
<1>10. result'[t] = "complete" =>
          file'[t].state = "ok" /\ (t \notin damaged' => delivered'[t] = Written[t])
  BY <1>2, <1>3, <1>7 DEF WriteInv
<1>11. ASSUME Underway(t)'  PROVE Registered(t)' /\ (t \notin damaged' => Arriving(t)')
  <2>1. Underway(t)
    BY <1>3, <1>4, <1>11 DEF Underway, Flying
  <2>2. Registered(t) /\ (t \notin damaged => Arriving(t))
    BY <1>2, <2>1 DEF WriteInv
  <2>3. Registered(t)'
    BY <1>7, <2>2 DEF Registered
  <2>4. n \in caps /\ active_downloads[n][t] # None
        /\ active_downloads[n][t].path = Job[t].remote
    BY <1>1, <1>2, <2>2, WritePlace DEF Registered
  <2>5. ASSUME t \notin damaged'  PROVE Arriving(t)'
    <3>1. Arriving(t)
      BY <1>3, <2>2, <2>5
    <3>2. HandleChunk(m, n)
      BY <1>6, <2>4 DEF HandleNothing
    <3>3. disk' = [disk EXCEPT ![n][Job[t].remote] = WriteBlock(@, msg.offset, msg.data)]
      BY <1>1, <2>4, <2>5, <3>2 DEF HandleChunk
    <3> QED
      BY <2>2, <3>1, <3>3, WriteBlockEffect
  <2> QED
    BY <2>3, <2>5
<1> QED
  BY <1>8, <1>9, <1>10, <1>11 DEF WriteInv

\* What has arrived when the end comes is what was flushed.
LEMMA WriteTakesEnd ==
    ASSUME DavInv, NEW m \in Nodes, NEW n \in Nodes, NEW msg, NEW t, Takes(m, n, msg, t),
           Write(t), msg.type = "FileTransferComplete"
    PROVE  WriteInv(t)'
<1>1. /\ Handle(m, n) /\ Head(net[m][n]) = msg /\ msg.id = t /\ t \in Transfers
      /\ msg \in Flight(t)
  BY TakenMessage
<1>2. /\ WriteInv(t) /\ n = Receiver(t)
      /\ file[t].state = "ok" /\ file[t].pos = Len(Written[t])
  BY WriteMessage DEF Answers, MessageOfWrite
<1>3. UNCHANGED <<file, caps, sender, active_uploads>> /\ damaged \subseteq damaged'
  BY TakenEffect, WriteTask
<1>4. Flight(t) = {msg} /\ Flight(t)' = {}
  <2>1. ASSUME NEW x \in Flight(t), x # msg  PROVE FALSE
    <3>1. MayFollow(msg, x) /\ x.id = t
      BY <2>1, WriteRest
    <3> QED
      BY <1>1, <3>1 DEF MayFollow
  <2>2. Flight(t)' = Flight(t) \ {msg}
    BY WriteRest
  <2> QED
    BY <1>1, <2>1, <2>2
<1>5. Registered(t) /\ (t \notin damaged => Arriving(t))
  <2>1. Underway(t)
    BY <1>1 DEF Underway, Flying
  <2> QED
    BY <1>2, <2>1 DEF WriteInv
<1>6. /\ n \in caps /\ active_downloads[n][t] # None
      /\ active_downloads[n][t].path = Job[t].remote /\ Job[t].remote \in Places
      /\ Got(t) \in File /\ Place(t) = Job[t].remote
  BY <1>1, <1>2, <1>5, WritePlace DEF Registered, Places
<1>7. HandleComplete(m, n)
  BY <1>1, <1>6 DEF Handle, HandleUploadRequest, HandleDownloadRequest, HandleAccepted,
                    HandleRejected, HandleChunk, HandleNothing, Arrives
<1>8. /\ Deregister(n, t) /\ UNCHANGED <<disk, damaged>>
      /\ delivered' = [delivered EXCEPT ![t] = disk[n][Job[t].remote]]
  BY <1>1, <1>6, <1>7 DEF HandleComplete
<1>9. /\ \A k \in Nodes : active_downloads'[k][t] = None
                            \/ active_downloads'[k][t] = active_downloads[k][t]
      /\ delivered'[t] = disk[n][Job[t].remote]
  <2>1. /\ active_downloads \in [Nodes -> [Transfers -> Entry \cup {None}]]
        /\ delivered \in [Transfers -> File \cup {None}]
    BY TheState DEF TypeOK, VariableTypes
  <2> QED
    BY <1>1, <1>8, <2>1 DEF Deregister
<1>10. Noted(t)'
  <2>1. Noted(t)
    BY <1>2 DEF WriteInv
  <2> QED
    BY <1>3, <1>9, <2>1 DEF Noted
<1>11. Progress(t)'
  <2>1. Progress(t)
    BY <1>2 DEF WriteInv
  <2> QED
    BY <1>2, <1>3, <2>1 DEF Progress
<1>12. ~Underway(t)'
  BY <1>2, <1>3, <1>4 DEF Underway, Flying
<1>13. ASSUME t \notin damaged  PROVE delivered'[t] = Written[t]
  <2>1. Arriving(t)
    BY <1>5, <1>13
  <2>2. delivered'[t] = Got(t)
    BY <1>2, <1>6, <1>9, <2>1 DEF Arriving, Got, Contents
  <2>3. Len(Got(t)) \in Nat /\ file[t].pos \in Nat /\ Written[t] \in Seq(Blocks)
        /\ file[t].pos = Len(Written[t])
    BY <1>1, <1>2, <1>5, WritePlace, TheState, FileTypes, WrittenAssumption
    DEF WriteInv, Progress
  <2>4. Len(Got(t)) = Len(Written[t])
    <3>1. Len(Got(t)) <= file[t].pos
      BY <2>1 DEF Arriving
    <3>2. ASSUME Len(Got(t)) < file[t].pos  PROVE FALSE
      <4>1. \E x \in Flight(t) : x.type = "FileChunk"
        BY <2>1, <2>3, <3>2 DEF Arriving
      <4> QED
        BY <1>4, <4>1
    <3> QED
      BY <2>3, <3>1, <3>2
  <2>5. \A i \in 1 .. Len(Got(t)) : Got(t)[i] = Written[t][i]
    BY <2>1 DEF Arriving
  <2>6. Got(t) \in Seq(Block) /\ Written[t] \in Seq(Block)
    BY <1>6, <2>3 DEF File, Block
  <2>7. Got(t) = Written[t]
    BY <2>4, <2>5, <2>6, SeqEqual
  <2> QED
    BY <2>2, <2>7
<1> QED
  BY <1>2, <1>3, <1>4, <1>8, <1>10, <1>11, <1>12, <1>13 DEF WriteInv

-----------------------------------------------------------------------------
(* The invariant.                                                          *)

LEMMA DavHandles ==
    ASSUME DavInv, NEW m \in Nodes, NEW n \in Nodes, DavHandle(m, n)
    PROVE  DavInv'
<1>1. PICK msg, t : Takes(m, n, msg, t)
  BY DEF Takes
<1>2. CASE ~Write(t)
  BY <1>1, <1>2, DavTakesTransfer
<1>3. CASE Write(t)
  <2>1. msg \in Message
    BY <1>1, TakenMessage
  <2>2. msg.type # "FileDownloadRequest"
    BY <1>1, <1>3, WriteMessage
  <2>3. \/ msg.type \in Answers \/ msg.type = "FileUploadRequest"
        \/ msg.type = "FileChunk" \/ msg.type = "FileTransferComplete"
    BY <2>1, <2>2 DEF Message, Answers
  <2>4. WriteInv(t)'
    BY <1>1, <1>3, <2>3, WriteAnswered, WriteAsked, WriteTakesBlock, WriteTakesEnd
  <2> QED
    BY <1>1, <1>3, <2>4, DavTakesFor
<1> QED
  BY <1>2, <1>3

LEMMA DavStarts == ASSUME DavInit PROVE DavInv
<1>1. /\ Init /\ events = [n \in Nodes |-> <<>>] /\ mailbox = [t \in Transfers |-> <<>>]
      /\ file = [t \in Transfers |-> [state |-> "closed", pos |-> 0, data |-> None,
                                     lost |-> FALSE, left |-> FALSE]]
  BY DEF DavInit
<1>2. DataOf(Transfers) /\ ProtocolOf(Transfers)
  BY <1>1, DataInit DEF DataInv, DataOf
<1>3. ProtocolOf(Transferred) /\ DataOf(Kept)
  BY <1>2 DEF ProtocolOf, DataOf, Transferred, Kept
<1>4. BridgeTypes
  BY <1>1 DEF BridgeTypes, FileState, States
<1>5. /\ \A t \in Transfers : sender[t] = IdleSender /\ result[t] = "none"
      /\ \A n \in Nodes, t \in Transfers :
            /\ active_uploads[n][t] = None /\ active_downloads[n][t] = None
      /\ \A m, n \in Nodes : net[m][n] = <<>>
  BY <1>1 DEF Init
<1>6. SharesRead
  BY <1>5 DEF SharesRead, IdleSender
<1>7. ASSUME NEW t \in Transfers  PROVE OperationInv(t)
  <2>1. file[t].state = "closed" /\ file[t].pos = 0
    BY <1>1
  <2>2. Heard(t) = {}
    BY <1>1, Ends DEF Heard, Elems
  <2>3. Flight(t) = {}
    BY <1>5, RouteIsNodes DEF Flight, FlightIn, Elems
  <2>4. Temporary(t)
    <3>1. ASSUME NEW n \in Nodes  PROVE disk[n][t] = None
      BY <1>1, DistinctAssumption DEF Init, Places
    <3> QED
      BY <3>1 DEF Temporary
  <2>5. OpenInv(t)
    BY <2>1, <2>2 DEF OpenInv
  <2>6. WriteInv(t)
    <3>1. Noted(t)
      BY <1>5 DEF Noted, IdleSender
    <3>2. Len(Written[t]) \in Nat
      BY WrittenAssumption
    <3>3. Progress(t)
      BY <1>5, <2>1, <2>2, <2>3, <3>2 DEF Progress
    <3>4. ~Underway(t)
      BY <2>1, <2>3 DEF Underway, Flying
    <3> QED
      BY <1>5, <2>3, <3>1, <3>3, <3>4 DEF WriteInv
  <2> QED
    BY <2>1, <2>4, <2>5, <2>6 DEF OperationInv
<1> QED
  BY <1>3, <1>4, <1>6, <1>7 DEF DavInv

LEMMA DavStutter == ASSUME DavInv, UNCHANGED davVars PROVE DavInv'
<1>1. UNCHANGED vars /\ UNCHANGED bridge
  BY DEF davVars
<1>2. ProtocolOf(Transferred)'
  <2>1. PICK T : T = Transferred
    OBVIOUS
  <2>2. ProtocolOf(T)'
    BY <1>1, <2>1, TheState, ProtocolStutter
  <2>3. Transferred' = T
    BY <2>1 DEF Transferred
  <2> QED
    BY <2>2, <2>3
<1>3. PICK T : T = Kept
  OBVIOUS
<1>4. DataOf(T)'
  BY <1>1, <1>3, TheState, DataStutter
<1>5. SharesRead'
  BY <1>1, TheState DEF SharesRead, vars
<1>6. ASSUME NEW u \in Transfers  PROVE Aside(u)
  BY <1>1 DEF Aside, Undisturbed, Heard, Got, Flight, vars, bridge
<1> QED
  BY <1>1, <1>2, <1>3, <1>4, <1>5, <1>6, AllAside

\* Every step keeps the invariant.
LEMMA DavStep == ASSUME DavInv, [DavNext]_davVars PROVE DavInv'
<1>1. CASE UNCHANGED davVars
  BY <1>1, DavStutter
<1>2. ASSUME NEW t \in Transfers, Open(t) \/ Flush(t) \/ Cancel(t)  PROVE DavInv'
  BY <1>2, DavOpen, DavFlush, DavCancel
<1>3. ASSUME NEW t \in Transfers, OpenResumes(t)  PROVE DavInv'
  BY <1>3, DavOpenSkips, DavOpenRejected, DavOpenCompletes, DavOpenFindsNothing
  DEF OpenResumes
<1>4. ASSUME NEW t \in Transfers, FlushResumes(t)  PROVE DavInv'
  BY <1>4, DavFlushAccepted, DavFlushFails, DavFlushSendsBlock, DavFlushCompletes,
     DavFlushCut
  DEF FlushResumes
<1>5. ASSUME NEW n \in Nodes, Feed(n)  PROVE DavInv'
  BY <1>5, DavFeed
<1>6. ASSUME NEW m \in Nodes, NEW n \in Nodes, DavHandle(m, n)  PROVE DavInv'
  BY <1>6, DavHandles
<1>7. ASSUME NEW n \in Nodes, NEW p \in Paths, UNCHANGED bridge,
             HandleDelete(n, p) \/ \E q \in Paths : HandleRename(n, p, q)
      PROVE  DavInv'
  BY <1>7, DavEdits
<1>8. ASSUME NEW t \in Transfers, SendingTask(t), UNCHANGED bridge  PROVE DavInv'
  BY <1>8, DavSenderOpen, DavSenderForward DEF SendingTask
<1>9. ASSUME NEW t \in Transfers, ReaderRead(t), UNCHANGED bridge  PROVE DavInv'
  BY <1>9, DavReaderRead
<1>10. CASE DavNext
  BY <1>2, <1>3, <1>4, <1>5, <1>6, <1>7, <1>8, <1>9, <1>10 DEF DavNext
<1> QED
  BY <1>1, <1>10

\* The bridge's reads and writes keep the protocol of the transfers they are
\* made of, whatever is lost with a mount: a reply tells of a task that is done,
\* a temporary file is written only until the reply its open returns on, and
\* what was flushed and forwarded arrives in order, with nothing after a gap.
THEOREM BridgeInvariant == DavSpec => []DavInv
<1>1. DavInit => DavInv
  BY DavStarts
<1>2. DavInv /\ [DavNext]_davVars => DavInv'
  BY DavStep
<1> QED
  BY <1>1, <1>2, PTL DEF DavSpec

-----------------------------------------------------------------------------
(* The properties.                                                         *)

LEMMA TempFilesAreRemoved == ASSUME DavInv PROVE TempFilesRemoved
<1> SUFFICES ASSUME NEW t \in Transfers,
                    file[t].state \in {"ok", "not_found", "forbidden"}, ~file[t].left
             PROVE  disk[Job[t].by][t] = None
  BY DEF TempFilesRemoved
<1>1. OperationInv(t) /\ Job[t].by \in Nodes
  BY TheOperation, Ends
<1>2. CASE ~Download(t)
  BY <1>1, <1>2 DEF OperationInv, Temporary
<1>3. CASE Download(t)
  BY <1>1, <1>3 DEF OperationInv, OpenInv, Temporary
<1> QED
  BY <1>2, <1>3

\* The temporary file of an open that returned is gone, if it could be read and
\* removed, and no block that comes late brings it back: open returns once
\* nothing is left of its transfer.
THEOREM TempFilesAreGone == DavSpec => []TempFilesRemoved
<1>1. DavInv => TempFilesRemoved
  BY TempFilesAreRemoved
<1> QED
  BY <1>1, BridgeInvariant, PTL

LEMMA WritesHaveArrived == ASSUME DavInv PROVE WriteArrives
<1> SUFFICES ASSUME NEW t \in Transfers, Write(t), result[t] = "complete", t \notin damaged
             PROVE  delivered[t] = Written[t]
  BY DEF WriteArrives, Write
<1>1. OperationInv(t)
  BY TheOperation
<1> QED
  BY <1>1 DEF OperationInv, WriteInv

\* A write that reaches its end at the peer left there what was flushed,
\* although flush sends the blocks with no task and no acknowledgement, and a
\* mount that ends may lose some of them: their peer then sees no end.
THEOREM WritesArrive == DavSpec => []WriteArrives
<1>1. DavInv => WriteArrives
  BY WritesHaveArrived
<1> QED
  BY <1>1, BridgeInvariant, PTL

\* Every node that opens files installed the handler that receives them.
OpenersInstalled ==
    \A s \in Installations : \A t \in Transfers : Job[t].kind = "download" => Job[t].by \in s

\* Capabilities are installed before the node runs, and stay.
LEMMA InstalledStays ==
    ASSUME TypeOK, [DavNext]_davVars
    PROVE  caps' = caps
<1>1. CASE UNCHANGED davVars
  BY <1>1 DEF davVars, vars
<1>2. ASSUME NEW t \in Transfers, Open(t) \/ Flush(t) \/ Cancel(t)  PROVE caps' = caps
  BY <1>2 DEF Open, StartDownload, Flush, StartWrite, Cancel, vars
<1>3. ASSUME NEW t \in Transfers, OpenResumes(t)  PROVE caps' = caps
  BY <1>3 DEF OpenResumes, OpenSkips, OpenRejected, OpenCompletes, OpenFindsNothing, vars
<1>4. ASSUME NEW t \in Transfers, FlushResumes(t)  PROVE caps' = caps
  BY <1>4 DEF FlushResumes, FlushAccepted, FlushFails, FlushSendsBlock, FlushCompletes,
              FlushCut, vars
<1>5. ASSUME NEW n \in Nodes, Feed(n)  PROVE caps' = caps
  BY <1>5 DEF Feed, vars
<1>6. ASSUME NEW m \in Nodes, NEW n \in Nodes, DavHandle(m, n)  PROVE caps' = caps
  <2>1. Handle(m, n)
    BY <1>6 DEF DavHandle
  <2> QED
    BY <2>1 DEF Handle, HandleUploadRequest, HandleDownloadRequest, HandleAccepted,
                HandleRejected, HandleChunk, HandleComplete, HandleNothing
<1>7. ASSUME NEW n \in Nodes, NEW p \in Paths,
             HandleDelete(n, p) \/ \E q \in Paths : HandleRename(n, p, q)
      PROVE  caps' = caps
  BY <1>7 DEF HandleDelete, HandleRename
<1>8. ASSUME NEW t \in Transfers, SendingTask(t) \/ ReaderRead(t)  PROVE caps' = caps
  BY <1>8 DEF SendingTask, SenderOpen, SenderForward, ReaderRead
<1>9. CASE DavNext
  BY <1>2, <1>3, <1>4, <1>5, <1>6, <1>7, <1>8, <1>9 DEF DavNext
<1> QED
  BY <1>1, <1>9

\* The bridge's invariant, in a network that runs what it was started with.
StartedInv == DavInv /\ caps \in Installations

LEMMA StartedInvariant == DavSpec => []StartedInv
<1>1. DavInit => StartedInv
  BY DavStarts DEF StartedInv, DavInit, Init
<1>2. StartedInv /\ [DavNext]_davVars => StartedInv'
  <2> SUFFICES ASSUME DavInv, caps \in Installations, [DavNext]_davVars
               PROVE  DavInv' /\ caps' \in Installations
    BY DEF StartedInv
  <2>1. DavInv'
    BY DavStep
  <2>2. caps' = caps
    BY TheState, InstalledStays
  <2> QED
    BY <2>1, <2>2
<1> QED
  BY <1>1, <1>2, PTL DEF DavSpec

\* Where the opening node has the handler, OpenInv says what open returned.
LEMMA OpensReturned ==
    ASSUME OpenersInstalled, StartedInv
    PROVE  OpenReturnsFile
<1> SUFFICES ASSUME NEW t \in Transfers, Download(t), t \notin damaged
             PROVE  /\ file[t].state = "ok" => file[t].data = original[t]
                    /\ file[t].state = "not_found" /\ ~file[t].left => original[t] = <<>>
  BY DEF OpenReturnsFile, Download
<1>1. OperationInv(t)
  BY TheOperation DEF StartedInv
<1>2. Job[t].by \in caps
  BY DEF OpenersInstalled, StartedInv, Download
<1> QED
  BY <1>1, <1>2 DEF OperationInv, OpenInv

\* open returns the file the peer's task opened, whole, or finds nothing when
\* that is empty or the temporary file could not be read, although the handler
\* writes that file and the bridge reads it.  (Where the handler is not
\* installed, nobody writes it at all.)
THEOREM OpensReturnTheFile ==
    ASSUME OpenersInstalled
    PROVE  DavSpec => []OpenReturnsFile
<1>1. StartedInv => OpenReturnsFile
  BY OpensReturned
<1> QED
  BY <1>1, StartedInvariant, PTL

=============================================================================
