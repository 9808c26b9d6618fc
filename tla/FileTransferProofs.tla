------------------------- MODULE FileTransferProofs -------------------------
(***************************************************************************)
(* Theorems about FileTransfer, for every set of nodes, transfers, paths   *)
(* and initial disks.                                                      *)
(***************************************************************************)
EXTENDS FileTransfer, SequenceTheorems, TLAPS

-----------------------------------------------------------------------------
(* What the helpers return.                                                *)

\* Both ends of a transfer are nodes, and they are different ones.
LEMMA EndsAreNodes ==
    ASSUME NEW t \in Transfers
    PROVE  Sender(t) \in Nodes /\ Receiver(t) \in Nodes /\ Sender(t) # Receiver(t)
BY JobAssumption DEF JobType, Sender, Receiver

\* Each kind of message carries the fields its handler reads.
LEMMA MessageFields ==
    ASSUME NEW msg \in Message
    PROVE  /\ msg.id \in Transfers
           /\ msg.type \in {"FileUploadRequest", "FileDownloadRequest"} => msg.path \in Paths \cup {None}
           /\ msg.type = "Accepted" => msg.size \in Nat
           /\ msg.type = "FileChunk" => msg.offset \in Nat /\ msg.data \in Block
BY DEF Message

\* Writing a block into a file, or where there is none, leaves a file.
LEMMA WriteBlockType ==
    ASSUME NEW file \in File \cup {None}, NEW offset \in Nat, NEW data \in Block
    PROVE  WriteBlock(file, offset, data) \in File
<1> DEFINE old == Contents(file)
           len == IF offset < Len(old) THEN Len(old) ELSE offset + 1
<1>1. old \in Seq(Block)
  BY DEF Contents, File
<1>2. len \in Nat
  BY <1>1
<1>3. \A i \in 1 .. len : (IF i = offset + 1 THEN data
                            ELSE IF i <= Len(old) THEN old[i] ELSE Hole) \in Block
  BY <1>1 DEF Block
<1>4. [i \in 1 .. len |-> IF i = offset + 1 THEN data
                          ELSE IF i <= Len(old) THEN old[i] ELSE Hole] \in Seq(Block)
  BY <1>2, <1>3
<1> QED
  BY <1>4 DEF WriteBlock, File

\* A write that fails leaves a file, or none where there was none.
LEMMA FailedWriteType ==
    ASSUME NEW old \in File \cup {None}, NEW offset \in Nat,
           NEW file \in AfterFailedWrite(old, offset)
    PROVE  file \in File \/ (file = None /\ old = None)
<1>1. <<>> \in File /\ WriteBlock(old, offset, Hole) \in File
  BY WriteBlockType DEF File, Block
<1> QED
  BY <1>1 DEF AfterFailedWrite

\* Sending, consuming and replying leave well-typed channels.
LEMMA ChannelTypes ==
    ASSUME net \in [Nodes -> [Nodes -> Seq(Message)]],
           NEW m \in Nodes, NEW n \in Nodes, NEW msg \in Message
    PROVE  /\ Send(m, n, msg) => net' \in [Nodes -> [Nodes -> Seq(Message)]]
           /\ net[m][n] # <<>> /\ Consume(m, n) => net' \in [Nodes -> [Nodes -> Seq(Message)]]
           /\ net[m][n] # <<>> /\ Reply(m, n, msg) => net' \in [Nodes -> [Nodes -> Seq(Message)]]
<1>1. Send(m, n, msg) => net' \in [Nodes -> [Nodes -> Seq(Message)]]
  BY DEF Send
<1>2. net[m][n] # <<>> /\ Consume(m, n) => net' \in [Nodes -> [Nodes -> Seq(Message)]]
  BY DEF Consume
<1>3. ASSUME net[m][n] # <<>>, Reply(m, n, msg)
      PROVE  net' \in [Nodes -> [Nodes -> Seq(Message)]]
  <2> DEFINE popped == [net EXCEPT ![m][n] = Tail(@)]
  <2>1. Tail(net[m][n]) \in Seq(Message)
    BY <1>3
  <2>2. popped \in [Nodes -> [Nodes -> Seq(Message)]]
    BY <2>1
  <2>3. Append(net[n][m], msg) \in Seq(Message)
    OBVIOUS
  <2>4. net' = [popped EXCEPT ![n][m] = Append(net[n][m], msg)]
    BY <1>3 DEF Reply
  <2> HIDE DEF popped
  <2> QED
    BY <2>2, <2>3, <2>4
<1> QED
  BY <1>1, <1>2, <1>3

\* The message at the head of a channel is one of the protocol's.
LEMMA HeadIsMessage ==
    ASSUME net \in [Nodes -> [Nodes -> Seq(Message)]],
           NEW m \in Nodes, NEW n \in Nodes, net[m][n] # <<>>
    PROVE  Head(net[m][n]) \in Message
OBVIOUS

-----------------------------------------------------------------------------
(* Type correctness.                                                       *)

LEMMA TypeInit == Init => TypeOK
<1> SUFFICES ASSUME Init PROVE TypeOK
  OBVIOUS
<1>1. PICK d \in InitialDisks :
        disk = [n \in Nodes |-> [p \in Places |-> IF p \in Paths THEN d[n][p] ELSE None]]
  BY DEF Init
<1>2. d \in [Nodes -> [Paths -> Seq(Blocks) \cup {None}]]
  BY DiskAssumption
<1>3. ASSUME NEW n \in Nodes, NEW p \in Places
      PROVE  (IF p \in Paths THEN d[n][p] ELSE None) \in File \cup {None}
  <2>1. Seq(Blocks) \subseteq Seq(Block)
    BY DEF Block
  <2> QED
    BY <1>2, <2>1 DEF File
<1>4. disk \in [Nodes -> [Places -> File \cup {None}]]
  BY <1>1, <1>3
<1>5. sender \in [Transfers -> SenderState]
  <2>1. <<>> \in Seq(Block \cup {Eof, Fault})
    OBVIOUS
  <2> QED
    BY <2>1 DEF Init, IdleSender, SenderState
<1>6. net \in [Nodes -> [Nodes -> Seq(Message)]]
  BY DEF Init
<1>7. VariableTypes
  BY <1>4, <1>5, <1>6, BoundsAssumption DEF Init, VariableTypes
<1>8. ReadersOpen
  BY DEF Init, ReadersOpen, IdleSender
<1> QED
  BY <1>7, <1>8 DEF TypeOK

\* None is not a file, so a file that was written is there.
LEMMA FileIsSome == \A file \in File : file # None
BY DistinctAssumption

\* A step that leaves files and sending tasks alone keeps the readers' files open.
LEMMA ReadersUndisturbed ==
    ASSUME ReadersOpen, UNCHANGED <<disk, sender>>
    PROVE  ReadersOpen'
BY DEF ReadersOpen, OpenFile

\* So does one that only replaces the file at one place by another file.
LEMMA ReadersSurviveWrites ==
    ASSUME VariableTypes, ReadersOpen, UNCHANGED sender,
           NEW n \in Nodes, NEW p \in Places, NEW file \in File,
           disk' = [disk EXCEPT ![n][p] = file]
    PROVE  ReadersOpen'
<1>1. \A k \in Nodes, q \in Places : disk[k][q] # None => disk'[k][q] # None
  BY FileIsSome DEF VariableTypes
<1> SUFFICES ASSUME NEW t \in Transfers, sender[t].reading
             PROVE  /\ sender[t].phase = "streaming"
                    /\ OpenFile(t)' # None
                    /\ sender[t].pipe \in Seq(Block)
  BY DEF ReadersOpen
<1>2. sender[t].file \in Places \cup {None}
  BY DEF VariableTypes, SenderState
<1> QED
  BY <1>1, <1>2, EndsAreNodes DEF ReadersOpen, OpenFile

\* And so does one that starts an idle, opening or finished sending task.
LEMMA ReadersSurviveStart ==
    ASSUME VariableTypes, ReadersOpen, UNCHANGED disk,
           NEW t \in Transfers, NEW s, ~s.reading,
           sender' = [sender EXCEPT ![t] = s]
    PROVE  ReadersOpen'
<1>1. \A u \in Transfers : sender'[u] = IF u = t THEN s ELSE sender[u]
  BY DEF VariableTypes
<1> QED
  BY <1>1 DEF ReadersOpen, OpenFile

LEMMA OpeningSenderType ==
    ASSUME NEW p \in Places \cup {None}
    PROVE  OpeningSender(p) \in SenderState /\ ~OpeningSender(p).reading
<1>1. <<>> \in Seq(Block \cup {Eof, Fault})
  OBVIOUS
<1> QED
  BY <1>1 DEF OpeningSender, IdleSender, SenderState

\* Replacing the file at one place keeps the disk well typed, and replacing
\* one task's state the tasks.
LEMMA DiskWriteType ==
    ASSUME VariableTypes, NEW n \in Nodes, NEW p \in Places, NEW file \in File \cup {None},
           disk' = [disk EXCEPT ![n][p] = file]
    PROVE  disk' \in [Nodes -> [Places -> File \cup {None}]]
BY DEF VariableTypes

LEMMA SenderStepType ==
    ASSUME VariableTypes, NEW t \in Transfers, NEW s \in SenderState,
           sender' = [sender EXCEPT ![t] = s]
    PROVE  sender' \in [Transfers -> SenderState]
BY DEF VariableTypes

LEMMA TypeStartUpload ==
    ASSUME TypeOK, NEW t \in Transfers, StartUpload(t)
    PROVE  TypeOK'
<1> USE DEF TypeOK
<1>1. Job[t].by \in Nodes /\ Job[t].with \in Nodes /\ Job[t].local \in Paths
  BY JobAssumption DEF JobType
<1>2. UploadRequest(t) \in Message
  BY JobAssumption DEF UploadRequest, Message, JobType
<1>3. net' \in [Nodes -> [Nodes -> Seq(Message)]]
  BY <1>1, <1>2, ChannelTypes DEF StartUpload, VariableTypes
<1>4. active_uploads' \in [Nodes -> [Transfers -> Paths \cup {None}]]
  BY <1>1 DEF StartUpload, VariableTypes
<1>5. VariableTypes'
  BY <1>3, <1>4 DEF StartUpload, VariableTypes
<1> QED
  BY <1>5, ReadersUndisturbed DEF StartUpload

LEMMA TypeStartDownload ==
    ASSUME TypeOK, NEW t \in Transfers, StartDownload(t)
    PROVE  TypeOK'
<1> USE DEF TypeOK
<1>1. Job[t].by \in Nodes /\ Job[t].with \in Nodes
  BY JobAssumption DEF JobType
<1>2. DownloadRequest(t) \in Message
  BY JobAssumption DEF DownloadRequest, Message, JobType
<1>3. net' \in [Nodes -> [Nodes -> Seq(Message)]]
  BY <1>1, <1>2, ChannelTypes DEF StartDownload, VariableTypes
<1>4. VariableTypes'
  BY <1>3 DEF StartDownload, VariableTypes
<1> QED
  BY <1>4, ReadersUndisturbed DEF StartDownload

\* Registering a well-typed entry, or dropping one, keeps the map well typed.
LEMMA RegisterType ==
    ASSUME VariableTypes, NEW n \in Nodes, NEW t \in Transfers
    PROVE  /\ \A p \in Places, size \in Nat : Register(n, t, p, size)
                => active_downloads' \in [Nodes -> [Transfers -> Entry \cup {None}]]
           /\ Deregister(n, t) => active_downloads' \in [Nodes -> [Transfers -> Entry \cup {None}]]
<1>1. ASSUME NEW p \in Places, NEW size \in Nat, Register(n, t, p, size)
      PROVE  active_downloads' \in [Nodes -> [Transfers -> Entry \cup {None}]]
  <2>1. [path |-> p, size |-> size] \in Entry
    BY DEF Entry
  <2> QED
    BY <1>1, <2>1 DEF VariableTypes, Register
<1>2. ASSUME Deregister(n, t)
      PROVE  active_downloads' \in [Nodes -> [Transfers -> Entry \cup {None}]]
  BY <1>2 DEF VariableTypes, Deregister
<1> QED
  BY <1>1, <1>2

LEMMA UploadDropType ==
    ASSUME VariableTypes, NEW n \in Nodes, NEW t \in Transfers,
           active_uploads' = [active_uploads EXCEPT ![n][t] = None]
    PROVE  active_uploads' \in [Nodes -> [Transfers -> Paths \cup {None}]]
BY DEF VariableTypes

LEMMA TypeHandleUploadRequest ==
    ASSUME TypeOK, NEW m \in Nodes, NEW n \in Nodes, HandleUploadRequest(m, n)
    PROVE  TypeOK'
<1> DEFINE msg == Head(net[m][n])
           t == msg.id
           p == msg.path
<1> USE DEF TypeOK
<1>1. net[m][n] # <<>> /\ msg \in Message /\ msg.type = "FileUploadRequest"
  BY HeadIsMessage DEF HandleUploadRequest, Arrives, VariableTypes
<1>2. t \in Transfers /\ p \in Paths \cup {None}
  BY <1>1, MessageFields
<1>3. Rejected(t) \in Message /\ Accepted(t, 0) \in Message
  BY <1>2 DEF Rejected, Accepted, Message
<1>4. net' \in [Nodes -> [Nodes -> Seq(Message)]]
  BY <1>1, <1>3, ChannelTypes DEF HandleUploadRequest, VariableTypes
<1>5. p # None => p \in Places
  BY <1>2 DEF Places
<1>6. active_downloads' \in [Nodes -> [Transfers -> Entry \cup {None}]]
  BY <1>2, <1>5, RegisterType DEF HandleUploadRequest, VariableTypes
<1>7. UNCHANGED disk \/ (p # None /\ disk' = [disk EXCEPT ![n][p] = <<>>])
  BY DEF HandleUploadRequest, CreateFile
<1>8. <<>> \in File
  BY DEF File
<1>9. disk' \in [Nodes -> [Places -> File \cup {None}]]
  <2>1. CASE UNCHANGED disk
    BY <2>1 DEF VariableTypes
  <2>2. CASE p # None /\ disk' = [disk EXCEPT ![n][p] = <<>>]
    BY <1>5, <1>8, <2>2, DiskWriteType
  <2> QED
    BY <1>7, <2>1, <2>2
<1>10. damaged' \subseteq Transfers
  BY DEF HandleUploadRequest, VariableTypes, Receiving, Reading
<1>11. VariableTypes'
  BY <1>4, <1>6, <1>9, <1>10 DEF HandleUploadRequest, VariableTypes
<1>12. UNCHANGED sender
  BY DEF HandleUploadRequest
<1>13. ReadersOpen'
  BY <1>5, <1>7, <1>8, <1>12, ReadersUndisturbed, ReadersSurviveWrites
<1> QED
  BY <1>11, <1>13

LEMMA TypeHandleDownloadRequest ==
    ASSUME TypeOK, NEW m \in Nodes, NEW n \in Nodes, HandleDownloadRequest(m, n)
    PROVE  TypeOK'
<1> DEFINE msg == Head(net[m][n])
           s == OpeningSender(msg.path)
<1> USE DEF TypeOK
<1>1. net[m][n] # <<>> /\ msg \in Message /\ msg.type = "FileDownloadRequest"
  BY HeadIsMessage DEF HandleDownloadRequest, Arrives, VariableTypes
<1>2. msg.id \in Transfers /\ msg.path \in Places \cup {None}
  BY <1>1, MessageFields DEF Places
<1>3. s \in SenderState /\ ~s.reading
  BY <1>2, OpeningSenderType
<1>4. net' \in [Nodes -> [Nodes -> Seq(Message)]]
  BY <1>1, ChannelTypes DEF HandleDownloadRequest, VariableTypes
<1>5. sender' = [sender EXCEPT ![msg.id] = s] /\ UNCHANGED disk
  BY DEF HandleDownloadRequest
<1>6. sender' \in [Transfers -> SenderState]
  BY <1>2, <1>3, <1>5 DEF VariableTypes
<1>7. VariableTypes'
  BY <1>4, <1>6 DEF HandleDownloadRequest, VariableTypes, history
<1>8. ReadersOpen'
  BY <1>2, <1>3, <1>5, ReadersSurviveStart
<1> QED
  BY <1>7, <1>8

LEMMA TypeHandleAccepted ==
    ASSUME TypeOK, NEW m \in Nodes, NEW n \in Nodes, HandleAccepted(m, n)
    PROVE  TypeOK'
<1> DEFINE msg == Head(net[m][n])
           t == msg.id
           s == OpeningSender(active_uploads[n][t])
<1> USE DEF TypeOK
<1>1. net[m][n] # <<>> /\ msg \in Message /\ msg.type = "Accepted"
  BY HeadIsMessage DEF HandleAccepted, Arrives, VariableTypes
<1>2. t \in Transfers /\ msg.size \in Nat
  BY <1>1, MessageFields
<1>3. net' \in [Nodes -> [Nodes -> Seq(Message)]]
  BY <1>1, ChannelTypes DEF HandleAccepted, VariableTypes
<1>4. active_uploads[n][t] \in Places \cup {None}
  BY <1>2 DEF VariableTypes, Places
<1>5. s \in SenderState /\ ~s.reading
  BY <1>4, OpeningSenderType
<1>6. UNCHANGED disk /\ (UNCHANGED sender \/ sender' = [sender EXCEPT ![t] = s])
  BY DEF HandleAccepted
<1>7. sender' \in [Transfers -> SenderState]
  <2>1. CASE UNCHANGED sender
    BY <2>1 DEF VariableTypes
  <2>2. CASE sender' = [sender EXCEPT ![t] = s]
    BY <1>2, <1>5, <2>2, SenderStepType
  <2> QED
    BY <1>6, <2>1, <2>2
<1>8. active_uploads' \in [Nodes -> [Transfers -> Paths \cup {None}]]
  <2>1. \/ UNCHANGED active_uploads
        \/ active_uploads' = [active_uploads EXCEPT ![n][t] = None]
    BY DEF HandleAccepted
  <2>2. CASE UNCHANGED active_uploads
    BY <2>2 DEF VariableTypes
  <2>3. CASE active_uploads' = [active_uploads EXCEPT ![n][t] = None]
    BY <1>2, <2>3, UploadDropType
  <2> QED
    BY <2>1, <2>2, <2>3
<1>9. active_downloads' \in [Nodes -> [Transfers -> Entry \cup {None}]]
  BY <1>2, RegisterType DEF HandleAccepted, VariableTypes, Places
<1>10. VariableTypes'
  BY <1>3, <1>7, <1>8, <1>9 DEF HandleAccepted, VariableTypes, history
<1>11. ReadersOpen'
  BY <1>2, <1>5, <1>6, ReadersUndisturbed, ReadersSurviveStart
<1> QED
  BY <1>10, <1>11

LEMMA TypeHandleRejected ==
    ASSUME TypeOK, NEW m \in Nodes, NEW n \in Nodes, HandleRejected(m, n)
    PROVE  TypeOK'
<1> USE DEF TypeOK
<1>1. net[m][n] # <<>> /\ Head(net[m][n]) \in Message
  BY HeadIsMessage DEF HandleRejected, Arrives, VariableTypes
<1>2. net' \in [Nodes -> [Nodes -> Seq(Message)]]
  BY <1>1, ChannelTypes DEF HandleRejected, VariableTypes
<1>3. VariableTypes'
  BY <1>2 DEF HandleRejected, VariableTypes
<1> QED
  BY <1>3, ReadersUndisturbed DEF HandleRejected

\* The handler of a block changes the disk at the place of its transfer.
LEMMA ChunkDisk ==
    ASSUME VariableTypes, NEW m \in Nodes, NEW n \in Nodes, HandleChunk(m, n)
    PROVE  LET entry == active_downloads[n][Head(net[m][n]).id]
           IN  \/ UNCHANGED disk
               \/ /\ entry # None /\ entry.path \in Places
                  /\ \E file \in File : disk' = [disk EXCEPT ![n][entry.path] = file]
<1> DEFINE msg == Head(net[m][n])
           entry == active_downloads[n][msg.id]
           old == disk[n][entry.path]
<1>1. net[m][n] # <<>> /\ msg \in Message /\ msg.type = "FileChunk"
  BY HeadIsMessage DEF HandleChunk, Arrives, VariableTypes
<1>2. msg.id \in Transfers /\ msg.offset \in Nat /\ msg.data \in Block
  BY <1>1, MessageFields
<1>3. entry # None => entry.path \in Places /\ old \in File \cup {None}
  BY <1>2 DEF VariableTypes, Entry
<1>4. \/ UNCHANGED disk
      \/ /\ entry # None
         /\ disk' = [disk EXCEPT ![n][entry.path] = WriteBlock(old, msg.offset, msg.data)]
      \/ /\ entry # None
         /\ \E file \in AfterFailedWrite(old, msg.offset) :
               disk' = [disk EXCEPT ![n][entry.path] = file]
  BY DEF HandleChunk
<1>5. CASE entry # None /\ disk' = [disk EXCEPT ![n][entry.path] =
                                        WriteBlock(old, msg.offset, msg.data)]
  BY <1>2, <1>3, <1>5, WriteBlockType
<1>6. ASSUME entry # None, NEW file \in AfterFailedWrite(old, msg.offset),
             disk' = [disk EXCEPT ![n][entry.path] = file]
      PROVE  UNCHANGED disk \/ \E f \in File : disk' = [disk EXCEPT ![n][entry.path] = f]
  <2>1. file \in File \/ (file = None /\ old = None)
    BY <1>2, <1>3, <1>6, FailedWriteType
  <2>2. CASE file = old
    BY <1>3, <1>6, <2>2 DEF VariableTypes
  <2> QED
    BY <1>6, <2>1, <2>2
<1> QED
  BY <1>3, <1>4, <1>5, <1>6

LEMMA TypeHandleChunk ==
    ASSUME TypeOK, NEW m \in Nodes, NEW n \in Nodes, HandleChunk(m, n)
    PROVE  TypeOK'
<1> DEFINE msg == Head(net[m][n])
           t == msg.id
           entry == active_downloads[n][t]
<1> USE DEF TypeOK
<1>1. net[m][n] # <<>> /\ msg \in Message /\ msg.type = "FileChunk"
  BY HeadIsMessage DEF HandleChunk, Arrives, VariableTypes
<1>2. t \in Transfers
  BY <1>1, MessageFields
<1>3. net' \in [Nodes -> [Nodes -> Seq(Message)]]
  BY <1>1, ChannelTypes DEF HandleChunk, VariableTypes
<1>4. UNCHANGED sender
  BY DEF HandleChunk
<1>5. ASSUME UNCHANGED disk
      PROVE  disk' \in [Nodes -> [Places -> File \cup {None}]] /\ ReadersOpen'
  BY <1>4, <1>5, ReadersUndisturbed DEF VariableTypes
<1>6. ASSUME entry.path \in Places,
             NEW file \in File, disk' = [disk EXCEPT ![n][entry.path] = file]
      PROVE  disk' \in [Nodes -> [Places -> File \cup {None}]] /\ ReadersOpen'
  BY <1>4, <1>6, DiskWriteType, ReadersSurviveWrites
<1>7. disk' \in [Nodes -> [Places -> File \cup {None}]] /\ ReadersOpen'
  <2>1. \/ UNCHANGED disk
        \/ /\ entry.path \in Places
           /\ \E file \in File : disk' = [disk EXCEPT ![n][entry.path] = file]
    BY ChunkDisk
  <2> HIDE DEF entry
  <2> QED
    BY <1>5, <1>6, <2>1
<1>8. damaged' \subseteq Transfers
  BY <1>2 DEF HandleChunk, VariableTypes, Receiving, Reading
<1>9. VariableTypes'
  BY <1>3, <1>7, <1>8 DEF HandleChunk, VariableTypes
<1> QED
  BY <1>7, <1>9

LEMMA TypeHandleComplete ==
    ASSUME TypeOK, NEW m \in Nodes, NEW n \in Nodes, HandleComplete(m, n)
    PROVE  TypeOK'
<1> DEFINE t == Head(net[m][n]).id
           entry == active_downloads[n][t]
<1> USE DEF TypeOK
<1>1. net[m][n] # <<>> /\ Head(net[m][n]) \in Message
  BY HeadIsMessage DEF HandleComplete, Arrives, VariableTypes
<1>2. t \in Transfers
  BY <1>1, MessageFields
<1>3. net' \in [Nodes -> [Nodes -> Seq(Message)]]
  BY <1>1, ChannelTypes DEF HandleComplete, VariableTypes
<1>4. active_downloads' \in [Nodes -> [Transfers -> Entry \cup {None}]]
  <2>1. Deregister(n, t) \/ UNCHANGED active_downloads
    BY DEF HandleComplete
  <2>2. CASE Deregister(n, t)
    BY <1>2, <2>2, RegisterType
  <2>3. CASE UNCHANGED active_downloads
    BY <2>3 DEF VariableTypes
  <2> QED
    BY <2>1, <2>2, <2>3
<1>5. entry # None => disk[n][entry.path] \in File \cup {None}
  BY <1>2 DEF VariableTypes, Entry
<1>6. delivered' \in [Transfers -> File \cup {None}]
  BY <1>5 DEF HandleComplete, VariableTypes
<1>7. VariableTypes'
  BY <1>3, <1>4, <1>6 DEF HandleComplete, VariableTypes
<1> QED
  BY <1>7, ReadersUndisturbed DEF HandleComplete

\* A task keeps its file open when the place loses it: it reads what was there.
LEMMA UnlinkedType ==
    ASSUME TypeOK, NEW n \in Nodes, NEW p \in Places, disk[n][p] # None
    PROVE  /\ Unlinked(n, p) \in [Transfers -> SenderState]
           /\ \A t \in Transfers :
                IF t \in Reading(n, p)
                THEN Unlinked(n, p)[t] = [sender[t] EXCEPT !.file = None, !.held = disk[n][p]]
                ELSE Unlinked(n, p)[t] = sender[t]
<1> USE DEF TypeOK
<1>1. disk[n][p] \in File
  BY DEF VariableTypes
<1>2. ASSUME NEW t \in Transfers
      PROVE  [sender[t] EXCEPT !.file = None, !.held = disk[n][p]] \in SenderState
  BY <1>1, ZenonT(40) DEF VariableTypes, SenderState
<1>3. Unlinked(n, p) \in [Transfers -> SenderState]
  BY <1>2 DEF Unlinked, VariableTypes
<1> QED
  BY <1>3 DEF Unlinked

LEMMA TypeHandleNothing ==
    ASSUME TypeOK, NEW m \in Nodes, NEW n \in Nodes, HandleNothing(m, n)
    PROVE  TypeOK'
<1> USE DEF TypeOK
<1>2. net' \in [Nodes -> [Nodes -> Seq(Message)]]
  BY HeadIsMessage, ChannelTypes DEF HandleNothing, VariableTypes
<1>3. VariableTypes'
  BY <1>2 DEF HandleNothing, VariableTypes, history
<1> QED
  BY <1>3, ReadersUndisturbed DEF HandleNothing

LEMMA TypeHandleDelete ==
    ASSUME TypeOK, NEW n \in Nodes, NEW p \in Paths, HandleDelete(n, p)
    PROVE  TypeOK'
<1> USE DEF TypeOK
<1>1. p \in Places /\ disk[n][p] # None
  BY DEF HandleDelete, Places
<1>2. disk' = [disk EXCEPT ![n][p] = None] /\ sender' = Unlinked(n, p)
  BY DEF HandleDelete
<1>3. disk' \in [Nodes -> [Places -> File \cup {None}]]
  BY <1>1, <1>2, DiskWriteType
<1>4. sender' \in [Transfers -> SenderState]
  BY <1>1, <1>2, UnlinkedType
<1>5. edits' \in 0 .. MaxEdits /\ caps' \subseteq Nodes /\ damaged' \subseteq Transfers
  BY BoundsAssumption DEF HandleDelete, VariableTypes, Receiving
<1>6. VariableTypes'
  BY <1>3, <1>4, <1>5 DEF HandleDelete, VariableTypes
<1>7. ReadersOpen'
  <2> SUFFICES ASSUME NEW t \in Transfers, sender'[t].reading
               PROVE  /\ sender'[t].phase = "streaming"
                      /\ OpenFile(t)' # None
                      /\ sender'[t].pipe \in Seq(Block)
    BY DEF ReadersOpen
  <2>1. sender[t] \in SenderState
    BY DEF VariableTypes
  <2>2. CASE t \in Reading(n, p)
    <3>1. sender'[t] = [sender[t] EXCEPT !.file = None, !.held = disk[n][p]]
      BY <1>1, <1>2, <2>2, UnlinkedType
    <3> QED
      BY <1>1, <2>1, <2>2, <3>1 DEF ReadersOpen, OpenFile, Reading, SenderState
  <2>3. CASE t \notin Reading(n, p)
    <3>1. sender'[t] = sender[t]
      BY <1>1, <1>2, <2>3, UnlinkedType
    <3>2. \A k \in Nodes, q \in Places : <<k, q>> # <<n, p>> => disk'[k][q] = disk[k][q]
      BY <1>1, <1>2 DEF VariableTypes
    <3>3. sender[t].file # None => sender[t].file \in Places /\ <<Sender(t), sender[t].file>> # <<n, p>>
      BY <2>1, <2>3, <3>1 DEF Reading, SenderState
    <3> QED
      BY <3>1, <3>2, <3>3, EndsAreNodes DEF ReadersOpen, OpenFile
  <2> QED
    BY <2>2, <2>3
<1> QED
  BY <1>6, <1>7

LEMMA TypeHandleRename ==
    ASSUME TypeOK, NEW n \in Nodes, NEW p \in Paths, NEW q \in Paths, HandleRename(n, p, q)
    PROVE  TypeOK'
<1> USE DEF TypeOK
<1> DEFINE moved == Unlinked(n, q)
<1>1. p \in Places /\ q \in Places /\ p # q /\ disk[n][p] # None /\ disk[n][p] \in File
  BY DEF HandleRename, Places, VariableTypes
<1>2. disk' = [disk EXCEPT ![n][q] = disk[n][p], ![n][p] = None]
  BY DEF HandleRename
<1>3. disk' \in [Nodes -> [Places -> File \cup {None}]]
  <2> DEFINE d == [disk EXCEPT ![n][q] = disk[n][p]]
  <2>1. d \in [Nodes -> [Places -> File \cup {None}]]
    BY <1>1 DEF VariableTypes
  <2>2. disk' = [d EXCEPT ![n][p] = None]
    BY <1>2
  <2> HIDE DEF d
  <2> QED
    BY <1>1, <2>1, <2>2
<1>4. /\ disk'[n][q] = disk[n][p]
      /\ \A k \in Nodes, r \in Places :
            <<k, r>> # <<n, p>> /\ <<k, r>> # <<n, q>> => disk'[k][r] = disk[k][r]
  BY <1>1, <1>2 DEF VariableTypes
<1>5. \A t \in Transfers :
        sender'[t] = IF t \in Reading(n, p) THEN [sender[t] EXCEPT !.file = q] ELSE moved[t]
  BY DEF HandleRename
<1>6. ASSUME NEW t \in Transfers
      PROVE  moved[t] = IF t \in Reading(n, q)
                        THEN [sender[t] EXCEPT !.file = None, !.held = disk[n][q]]
                        ELSE sender[t]
  BY DEF Unlinked
<1>7. \A t \in Transfers : moved[t] \in SenderState
  <2> SUFFICES ASSUME NEW t \in Transfers PROVE moved[t] \in SenderState
    OBVIOUS
  <2>1. sender[t] \in SenderState
    BY DEF VariableTypes
  <2>2. disk[n][q] \in File \cup {None}
    BY <1>1 DEF VariableTypes
  <2>3. [sender[t] EXCEPT !.file = None, !.held = disk[n][q]] \in SenderState
    BY <2>1, <2>2 DEF SenderState
  <2> QED
    BY <1>6, <2>1, <2>3
<1>8. sender' \in [Transfers -> SenderState]
  <2>1. \A t \in Transfers : [sender[t] EXCEPT !.file = q] \in SenderState
    <3> SUFFICES ASSUME NEW t \in Transfers PROVE [sender[t] EXCEPT !.file = q] \in SenderState
      OBVIOUS
    <3>1. sender[t] \in SenderState
      BY DEF VariableTypes
    <3> QED
      BY <1>1, <3>1 DEF SenderState
  <2>2. sender' = [t \in Transfers |->
                    IF t \in Reading(n, p) THEN [sender[t] EXCEPT !.file = q] ELSE moved[t]]
    BY DEF HandleRename
  <2> HIDE DEF moved
  <2> QED
    BY <1>7, <2>1, <2>2
<1>9. edits' \in 0 .. MaxEdits /\ caps' \subseteq Nodes /\ damaged' \subseteq Transfers
  BY BoundsAssumption DEF HandleRename, VariableTypes, Receiving
<1>10. VariableTypes'
  BY <1>3, <1>8, <1>9 DEF HandleRename, VariableTypes
<1>11. ReadersOpen'
  <2> SUFFICES ASSUME NEW t \in Transfers, sender'[t].reading
               PROVE  /\ sender'[t].phase = "streaming"
                      /\ OpenFile(t)' # None
                      /\ sender'[t].pipe \in Seq(Block)
    BY DEF ReadersOpen
  <2>1. sender[t] \in SenderState
    BY DEF VariableTypes
  <2>2. CASE t \in Reading(n, p)
    <3>1. sender'[t] = [sender[t] EXCEPT !.file = q]
      BY <1>5, <2>2
    <3> QED
      BY <1>1, <1>4, <2>1, <2>2, <3>1, DistinctAssumption DEF ReadersOpen, OpenFile, Reading, SenderState
  <2>3. CASE t \notin Reading(n, p) /\ t \in Reading(n, q)
    <3>1. sender'[t] = [sender[t] EXCEPT !.file = None, !.held = disk[n][q]]
      BY <1>5, <1>6, <2>3
    <3>2. sender[t].reading /\ sender[t].file = q /\ Sender(t) = n /\ q # None
      BY <1>1, <2>3, DistinctAssumption DEF Reading
    <3>3. /\ sender[t].phase = "streaming"
          /\ disk[n][q] # None
          /\ sender[t].pipe \in Seq(Block)
      BY <3>2 DEF ReadersOpen, OpenFile
    <3> QED
      BY <2>1, <3>1, <3>3 DEF OpenFile, SenderState
  <2>4. CASE t \notin Reading(n, p) /\ t \notin Reading(n, q)
    <3>1. sender'[t] = sender[t]
      BY <1>5, <1>6, <2>4
    <3>2. sender[t].file # None =>
            /\ sender[t].file \in Places
            /\ <<Sender(t), sender[t].file>> # <<n, p>>
            /\ <<Sender(t), sender[t].file>> # <<n, q>>
      BY <2>1, <2>4, <3>1 DEF Reading, SenderState
    <3> QED
      BY <1>4, <3>1, <3>2, EndsAreNodes DEF ReadersOpen, OpenFile
  <2> QED
    BY <2>2, <2>3, <2>4
<1> QED
  BY <1>10, <1>11

\* A step of t's tasks that leaves the files alone disturbs no other reader.
LEMMA ReadersSurviveTask ==
    ASSUME VariableTypes, ReadersOpen, UNCHANGED disk,
           NEW t \in Transfers, NEW s \in SenderState,
           sender' = [sender EXCEPT ![t] = s],
           s.reading => s.phase = "streaming" /\ OpenFile(t)' # None /\ s.pipe \in Seq(Block)
    PROVE  ReadersOpen'
<1>1. \A u \in Transfers : sender'[u] = IF u = t THEN s ELSE sender[u]
  BY DEF VariableTypes
<1> QED
  BY <1>1 DEF ReadersOpen, OpenFile

LEMMA TypeSenderOpen ==
    ASSUME TypeOK, NEW t \in Transfers, SenderOpen(t)
    PROVE  TypeOK'
<1> DEFINE n == Sender(t)
           p == sender[t].file
           opened == [sender[t] EXCEPT !.phase = "streaming", !.reading = TRUE, !.pipe = <<>>]
           failed == [sender[t] EXCEPT !.phase = "failed", !.file = None]
<1> USE DEF TypeOK
<1>1. n \in Nodes /\ Receiver(t) \in Nodes /\ sender[t] \in SenderState
  BY EndsAreNodes DEF VariableTypes
<1>2. disk[n] \in [Places -> File \cup {None}] /\ (p # None => p \in Places)
  BY <1>1 DEF SenderState, VariableTypes
<1>3. UNCHANGED disk
  BY DEF SenderOpen
<1>4. UNCHANGED <<disk, active_uploads, active_downloads, edits, caps, requested,
                  result, delivered, damaged>>
  BY DEF SenderOpen
<1>5. CASE /\ p # None /\ disk[n][p] # None
           /\ sender' = [sender EXCEPT ![t] = opened]
           /\ original' = [original EXCEPT ![t] = disk[n][p]]
           /\ AnswerOpened(t, disk[n][p])
  <2>1. disk[n][p] \in File
    BY <1>2, <1>5
  <2>2. Len(disk[n][p]) \in Nat
    BY <2>1 DEF File
  <2>3. Accepted(t, Len(disk[n][p])) \in Message
    BY <2>2 DEF Accepted, Message
  <2>4. net' \in [Nodes -> [Nodes -> Seq(Message)]]
    BY <1>1, <1>5, <2>3, ChannelTypes DEF AnswerOpened, VariableTypes
  <2>5. <<>> \in Seq(Block \cup {Eof, Fault}) /\ <<>> \in Seq(Block)
    OBVIOUS
  <2>6. opened \in SenderState
    BY <1>1, <2>5 DEF SenderState
  <2>7. sender' \in [Transfers -> SenderState]
    BY <1>5, <2>6, SenderStepType
  <2>8. original' \in [Transfers -> File \cup {None}]
    BY <1>5, <2>1 DEF VariableTypes
  <2>9. VariableTypes'
    BY <1>4, <2>4, <2>7, <2>8 DEF VariableTypes
  <2>10. /\ sender'[t] = opened /\ opened.file = p /\ opened.pipe = <<>>
         /\ opened.phase = "streaming"
    BY <1>1, <1>5 DEF VariableTypes, SenderState
  <2>11. OpenFile(t)' # None
    BY <1>3, <1>5, <2>10 DEF OpenFile
  <2>12. ReadersOpen'
    BY <1>3, <1>5, <2>5, <2>6, <2>10, <2>11, ReadersSurviveTask
  <2> QED
    BY <2>9, <2>12
<1>6. CASE /\ sender' = [sender EXCEPT ![t] = failed]
           /\ AnswerFailed(t)
           /\ UNCHANGED original
  <2>1. Rejected(t) \in Message
    BY DEF Rejected, Message
  <2>2. net' \in [Nodes -> [Nodes -> Seq(Message)]]
    BY <1>1, <1>6, <2>1, ChannelTypes DEF AnswerFailed, VariableTypes
  <2>3. failed \in SenderState /\ ~failed.reading
    BY <1>1 DEF SenderOpen, SenderState, ReadersOpen
  <2>4. sender' \in [Transfers -> SenderState]
    BY <1>6, <2>3, SenderStepType
  <2>5. VariableTypes'
    BY <1>4, <1>6, <2>2, <2>4 DEF VariableTypes
  <2> QED
    BY <1>3, <1>6, <2>3, <2>5, ReadersSurviveTask
<1> QED
  BY <1>5, <1>6 DEF SenderOpen

LEMMA TypeReaderRead ==
    ASSUME TypeOK, NEW t \in Transfers, ReaderRead(t)
    PROVE  TypeOK'
<1> DEFINE s == sender[t]
           read == [s EXCEPT !.pipe = Append(s.pipe, OpenFile(t)[s.pos + 1]), !.pos = s.pos + 1]
           ended(item) == [s EXCEPT !.pipe = Append(s.pipe, item), !.reading = FALSE]
<1> USE DEF TypeOK
<1>1. s \in SenderState /\ s.reading /\ s.pipe \in Seq(Block) /\ s.phase = "streaming"
  BY DEF ReaderRead, VariableTypes, ReadersOpen
<1>2. OpenFile(t) \in File
  <2>1. OpenFile(t) # None
    BY <1>1 DEF ReadersOpen
  <2>2. s.file \in Places \cup {None} /\ s.held \in File \cup {None}
    BY <1>1 DEF SenderState
  <2>3. disk[Sender(t)] \in [Places -> File \cup {None}]
    BY EndsAreNodes DEF VariableTypes
  <2> QED
    BY <2>1, <2>2, <2>3 DEF OpenFile
<1>3. UNCHANGED <<net, disk, active_uploads, active_downloads, edits, caps, requested,
                  result, original, delivered>>
  BY DEF ReaderRead
<1>4. damaged' \subseteq Transfers
  BY DEF ReaderRead, VariableTypes
<1>5. ASSUME NEW r \in SenderState, sender' = [sender EXCEPT ![t] = r],
             r.reading => /\ r.phase = "streaming" /\ r.pipe \in Seq(Block)
                          /\ r.file = s.file /\ r.held = s.held
      PROVE  TypeOK'
  <2>1. sender' \in [Transfers -> SenderState]
    BY <1>5, SenderStepType
  <2>2. VariableTypes'
    BY <1>3, <1>4, <2>1 DEF VariableTypes
  <2>3. sender'[t] = r
    BY <1>5 DEF VariableTypes
  <2>4. r.reading => OpenFile(t)' # None
    BY <1>1, <1>3, <1>5, <2>3 DEF OpenFile, ReadersOpen
  <2> QED
    BY <1>3, <1>5, <2>2, <2>4, ReadersSurviveTask
<1>6. CASE s.pos < Len(OpenFile(t)) /\ sender' = [sender EXCEPT ![t] = read]
  <2>1. s.pos \in Nat /\ s.pos + 1 \in Nat
    BY <1>1 DEF SenderState
  <2>2. OpenFile(t)[s.pos + 1] \in Block
    BY <1>2, <1>6, <2>1 DEF File
  <2> DEFINE block == OpenFile(t)[s.pos + 1]
  <2> HIDE DEF block
  <2>3. block \in Block
    BY <2>2 DEF block
  <2>4. Append(s.pipe, block) \in Seq(Block)
    BY <1>1, <2>3
  <2>5. Append(s.pipe, block) \in Seq(Block \cup {Eof, Fault})
    BY <2>4
  <2> DEFINE r == [s EXCEPT !.pipe = Append(s.pipe, block), !.pos = s.pos + 1]
  <2>6. r \in SenderState
    BY <1>1, <2>1, <2>5 DEF SenderState
  <2>7. r.phase = "streaming" /\ r.pipe \in Seq(Block) /\ r.file = s.file /\ r.held = s.held
    BY <1>1, <2>4 DEF SenderState
  <2>8. sender' = [sender EXCEPT ![t] = r]
    BY <1>6 DEF block
  <2> HIDE DEF r
  <2> QED
    BY <1>5, <2>6, <2>7, <2>8
<1>7. ASSUME NEW item \in {Eof, Fault}, sender' = [sender EXCEPT ![t] = ended(item)]
      PROVE  TypeOK'
  <2>1. Append(s.pipe, item) \in Seq(Block \cup {Eof, Fault})
    <3>1. s.pipe \in Seq(Block \cup {Eof, Fault})
      BY <1>1 DEF SenderState
    <3> QED
      BY <3>1
  <2>2. ended(item) \in SenderState /\ ~ended(item).reading
    BY <1>1, <2>1 DEF SenderState
  <2> HIDE DEF ended
  <2> QED
    BY <1>5, <1>7, <2>2
<1>8. \/ s.pos < Len(OpenFile(t)) /\ sender' = [sender EXCEPT ![t] = read]
      \/ sender' = [sender EXCEPT ![t] = ended(Eof)]
      \/ sender' = [sender EXCEPT ![t] = ended(Fault)]
  BY Zenon DEF ReaderRead
<1> QED
  BY <1>6, <1>7, <1>8

LEMMA TypeSenderForward ==
    ASSUME TypeOK, NEW t \in Transfers, SenderForward(t)
    PROVE  TypeOK'
<1> DEFINE s == sender[t]
           item == Head(s.pipe)
           finished == [s EXCEPT !.phase = "finished", !.pipe = Tail(s.pipe), !.file = None]
           forwarded == [s EXCEPT !.pipe = Tail(s.pipe), !.offset = s.offset + 1]
<1> USE DEF TypeOK
<1>1. s \in SenderState /\ s.phase = "streaming" /\ s.pipe # <<>>
  BY DEF SenderForward, VariableTypes
<1>2. s.pipe \in Seq(Block \cup {Eof, Fault}) /\ s.offset \in Nat
  BY <1>1 DEF SenderState
<1>3. item \in Block \cup {Eof, Fault} /\ Tail(s.pipe) \in Seq(Block \cup {Eof, Fault})
  BY <1>1, <1>2
<1>4. s.reading => item \in Block /\ Tail(s.pipe) \in Seq(Block)
  BY <1>1 DEF ReadersOpen
<1>5. UNCHANGED <<disk, active_uploads, active_downloads, edits, caps, history>>
  BY DEF SenderForward
<1>6. Sender(t) \in Nodes /\ Receiver(t) \in Nodes
  BY EndsAreNodes
<1>7. ASSUME NEW r \in SenderState, sender' = [sender EXCEPT ![t] = r],
             NEW msg \in Message, Send(Sender(t), Receiver(t), msg),
             r.reading => /\ r.phase = "streaming" /\ r.pipe \in Seq(Block)
                          /\ s.reading /\ r.file = s.file /\ r.held = s.held
      PROVE  TypeOK'
  <2>1. sender' \in [Transfers -> SenderState]
    BY <1>7, SenderStepType
  <2>2. net' \in [Nodes -> [Nodes -> Seq(Message)]]
    BY <1>6, <1>7, ChannelTypes DEF VariableTypes
  <2>3. VariableTypes'
    BY <1>5, <2>1, <2>2 DEF VariableTypes, history
  <2>4. sender'[t] = r
    BY <1>7 DEF VariableTypes
  <2>5. r.reading => OpenFile(t)' # None
    BY <1>5, <1>7, <2>4 DEF OpenFile, ReadersOpen
  <2> QED
    BY <1>5, <1>7, <2>3, <2>5, ReadersSurviveTask
<1>8. CASE /\ item \in {Eof, Fault}
           /\ sender' = [sender EXCEPT ![t] = finished]
           /\ EndOfStream(t, item)
  <2>1. FileTransferComplete(t) \in Message
    BY DEF FileTransferComplete, Message
  <2>2. ~s.reading
    BY <1>4, <1>8, DistinctAssumption
  <2>3. finished \in SenderState /\ ~finished.reading
    BY <1>1, <1>3, <2>2 DEF SenderState
  <2> HIDE DEF finished
  <2> QED
    BY <1>7, <1>8, <2>1, <2>3 DEF EndOfStream
<1>9. CASE /\ item \notin {Eof, Fault}
           /\ sender' = [sender EXCEPT ![t] = forwarded]
           /\ Send(Sender(t), Receiver(t), FileChunk(t, s.offset, item))
  <2>1. FileChunk(t, s.offset, item) \in Message
    BY <1>2, <1>3, <1>9 DEF FileChunk, Message
  <2>2. forwarded \in SenderState
    <3> DEFINE tail == Tail(s.pipe)
               next == s.offset + 1
    <3>1. tail \in Seq(Block \cup {Eof, Fault}) /\ next \in Nat
      BY <1>2, <1>3
    <3> HIDE DEF tail, next
    <3>2. [s EXCEPT !.pipe = tail, !.offset = next] \in SenderState
      BY <1>1, <3>1 DEF SenderState
    <3> QED
      BY <3>2 DEF tail, next
  <2>3. forwarded.reading => /\ forwarded.phase = "streaming" /\ forwarded.pipe \in Seq(Block)
                             /\ s.reading /\ forwarded.file = s.file /\ forwarded.held = s.held
    BY <1>1, <1>4 DEF SenderState
  <2> HIDE DEF forwarded
  <2> QED
    BY <1>7, <1>9, <2>1, <2>2, <2>3
<1>10. \/ /\ item \in {Eof, Fault}
          /\ sender' = [sender EXCEPT ![t] = finished]
          /\ EndOfStream(t, item)
       \/ /\ item \notin {Eof, Fault}
          /\ sender' = [sender EXCEPT ![t] = forwarded]
          /\ Send(Sender(t), Receiver(t), FileChunk(t, s.offset, item))
  BY Zenon DEF SenderForward
<1> QED
  BY <1>8, <1>9, <1>10

-----------------------------------------------------------------------------
LEMMA TypeStutter == ASSUME TypeOK, UNCHANGED vars PROVE TypeOK'
BY ReadersUndisturbed DEF TypeOK, VariableTypes, vars

\* Every state the nodes reach is well typed: in particular every message in
\* flight is one its handler can read, every entry names a place, and a task
\* that is reading has a file open and room to its channel's end.
THEOREM TypeCorrect == Spec => []TypeOK
<1>1. TypeOK /\ [Next]_vars => TypeOK'
  <2> SUFFICES ASSUME TypeOK, [Next]_vars PROVE TypeOK'
    OBVIOUS
  <2>1. CASE \E t \in Transfers : StartUpload(t)
    BY <2>1, TypeStartUpload
  <2>2. CASE \E t \in Transfers : StartDownload(t)
    BY <2>2, TypeStartDownload
  <2>3. ASSUME NEW m \in Nodes, NEW n \in Nodes, Handle(m, n)
        PROVE  TypeOK'
    BY <2>3, TypeHandleUploadRequest, TypeHandleDownloadRequest, TypeHandleAccepted,
       TypeHandleRejected, TypeHandleChunk, TypeHandleComplete, TypeHandleNothing DEF Handle
  <2>4. CASE \E n \in Nodes, p \in Paths : HandleDelete(n, p)
    BY <2>4, TypeHandleDelete
  <2>5. CASE \E n \in Nodes, p, q \in Paths : HandleRename(n, p, q)
    BY <2>5, TypeHandleRename
  <2>6. CASE \E t \in Transfers : SendingTask(t)
    BY <2>6, TypeSenderOpen, TypeSenderForward DEF SendingTask
  <2>7. CASE \E t \in Transfers : ReaderRead(t)
    BY <2>7, TypeReaderRead
  <2>8. CASE UNCHANGED vars
    BY <2>8, TypeStutter
  <2> QED
    BY <2>1, <2>2, <2>3, <2>4, <2>5, <2>6, <2>7, <2>8 DEF Next
<1> QED
  BY <1>1, TypeInit, PTL DEF Spec

-----------------------------------------------------------------------------
(* The messages in flight.                                                 *)

Requests == {"FileUploadRequest", "FileDownloadRequest"}
Answers == {"Accepted", "Rejected"}

\* Requests go from the node that asks, answers back to it, blocks from the
\* sender to the receiver.
From(msg) ==
    IF msg.type \in Requests THEN Job[msg.id].by
    ELSE IF msg.type \in Answers THEN Job[msg.id].with
    ELSE Sender(msg.id)

To(msg) ==
    IF msg.type \in Requests THEN Job[msg.id].with
    ELSE IF msg.type \in Answers THEN Job[msg.id].by
    ELSE Receiver(msg.id)

\* In one channel an acceptance precedes the blocks, the blocks come in the
\* order of the file, and nothing follows the completion.
MayFollow(a, b) ==
    a.id = b.id =>
        /\ a.type \in {"Accepted", "FileChunk"}
        /\ b.type \in {"FileChunk", "FileTransferComplete"}
        /\ a.type = "FileChunk" /\ b.type = "FileChunk" => a.offset < b.offset

Ordered(s) == \A i, j \in DOMAIN s : i < j => MayFollow(s[i], s[j])

Elems(s) == {s[i] : i \in DOMAIN s}

Channels == [Nodes -> [Nodes -> Seq(Message)]]

\* Every message is in the channel it belongs in, in an order it may have.
Fit(chans) ==
    \A m, n \in Nodes :
        /\ Ordered(chans[m][n])
        /\ \A msg \in Elems(chans[m][n]) : From(msg) = m /\ To(msg) = n

\* The messages of transfer t that are in flight.
FlightIn(chans, t) ==
    {msg \in Message : msg.id = t /\ msg \in Elems(chans[From(msg)][To(msg)])}

Flight(t) == FlightIn(net, t)

LEMMA RouteIsNodes == \A msg \in Message : From(msg) \in Nodes /\ To(msg) \in Nodes
<1> SUFFICES ASSUME NEW msg \in Message  PROVE From(msg) \in Nodes /\ To(msg) \in Nodes
  OBVIOUS
<1>1. msg.id \in Transfers
  BY MessageFields
<1>2. Job[msg.id].by \in Nodes /\ Job[msg.id].with \in Nodes
  BY <1>1, JobAssumption DEF JobType
<1> QED
  BY <1>1, <1>2, EndsAreNodes DEF From, To

LEMMA AppendElems ==
    ASSUME NEW s \in Seq(Message), NEW msg \in Message, Ordered(s),
           \A x \in Elems(s) : MayFollow(x, msg)
    PROVE  /\ Append(s, msg) \in Seq(Message)
           /\ Elems(Append(s, msg)) = Elems(s) \cup {msg}
           /\ Ordered(Append(s, msg))
<1> DEFINE r == Append(s, msg)
<1>1. /\ r \in Seq(Message) /\ Len(r) = Len(s) + 1
      /\ \A i \in 1 .. Len(s) : r[i] = s[i]
      /\ r[Len(s) + 1] = msg
  BY AppendProperties
<1>2. DOMAIN s = 1 .. Len(s) /\ Len(s) \in Nat /\ DOMAIN r = 1 .. Len(s) + 1
  BY <1>1
<1> HIDE DEF r
<1>3. \A i \in DOMAIN r : i \in DOMAIN s \/ i = Len(s) + 1
  BY <1>2
<1>4. Elems(r) = Elems(s) \cup {msg}
  <2>1. ASSUME NEW x \in Elems(r)  PROVE x \in Elems(s) \cup {msg}
    BY <1>1, <1>2, <1>3 DEF Elems
  <2>2. ASSUME NEW x \in Elems(s)  PROVE x \in Elems(r)
    BY <1>1, <1>2 DEF Elems
  <2>3. msg \in Elems(r)
    <3>1. Len(s) + 1 \in DOMAIN r
      BY <1>2
    <3> QED
      BY <1>1, <3>1 DEF Elems
  <2> QED
    BY <2>1, <2>2, <2>3
<1>5. Ordered(r)
  <2> SUFFICES ASSUME NEW i \in DOMAIN r, NEW j \in DOMAIN r, i < j
               PROVE  MayFollow(r[i], r[j])
    BY DEF Ordered
  <2>1. i \in DOMAIN s
    BY <1>2
  <2>2. CASE j \in DOMAIN s
    BY <1>1, <1>2, <2>1, <2>2 DEF Ordered
  <2>3. CASE j = Len(s) + 1
    <3>1. s[i] \in Elems(s)
      BY <2>1 DEF Elems
    <3> QED
      BY <1>1, <1>2, <2>1, <2>3, <3>1
  <2> QED
    BY <1>3, <2>2, <2>3
<1> QED
  BY <1>1, <1>4, <1>5 DEF r

LEMMA TailElems ==
    ASSUME NEW s \in Seq(Message), s # <<>>, Ordered(s)
    PROVE  /\ Tail(s) \in Seq(Message) /\ Head(s) \in Message
           /\ Head(s) \in Elems(s)
           /\ Elems(Tail(s)) = Elems(s) \ {Head(s)}
           /\ Ordered(Tail(s))
           /\ \A x \in Elems(Tail(s)) : MayFollow(Head(s), x)
<1> DEFINE r == Tail(s)
           h == Head(s)
<1>1. /\ r \in Seq(Message) /\ h \in Message /\ h = s[1]
      /\ Len(s) \in Nat /\ Len(s) > 0 /\ Len(r) = Len(s) - 1
      /\ \A i \in 1 .. Len(r) : r[i] = s[i + 1]
  BY HeadTailProperties
<1>2. DOMAIN s = 1 .. Len(s) /\ DOMAIN r = 1 .. Len(s) - 1
  BY <1>1
<1> HIDE DEF r, h
<1>3. 1 \in DOMAIN s /\ \A i \in DOMAIN r : i + 1 \in DOMAIN s /\ r[i] = s[i + 1] /\ 1 < i + 1
  BY <1>1, <1>2
<1>4. \A x \in Elems(r) : x \in Elems(s) /\ MayFollow(h, x)
  BY <1>1, <1>3 DEF Elems, Ordered
<1>5. h \notin Elems(r)
  <2>1. ~MayFollow(h, h)
    <3>1. h.type = "FileChunk" => h.offset \in Nat
      BY <1>1, MessageFields
    <3> QED
      BY <3>1 DEF MayFollow
  <2> QED
    BY <1>4, <2>1
<1>6. h \in Elems(s) /\ \A x \in Elems(s) : x = h \/ x \in Elems(r)
  <2>1. h \in Elems(s)
    BY <1>1, <1>3 DEF Elems
  <2>2. ASSUME NEW i \in DOMAIN s, i # 1  PROVE s[i] \in Elems(r)
    <3>1. i - 1 \in DOMAIN r /\ r[i - 1] = s[i]
      BY <1>1, <1>2, <2>2
    <3> QED
      BY <3>1 DEF Elems
  <2> QED
    BY <1>1, <2>1, <2>2 DEF Elems
<1>7. Ordered(r)
  <2> SUFFICES ASSUME NEW i \in DOMAIN r, NEW j \in DOMAIN r, i < j
               PROVE  MayFollow(r[i], r[j])
    BY DEF Ordered
  <2>1. i + 1 < j + 1
    BY <1>2
  <2> QED
    BY <1>3, <2>1 DEF Ordered
<1> QED
  BY <1>1, <1>4, <1>5, <1>6, <1>7 DEF r, h

Extended(chans, m, n, msg) == [chans EXCEPT ![m][n] = Append(@, msg)]
Shortened(chans, m, n) == [chans EXCEPT ![m][n] = Tail(@)]
FirstIn(chans, m, n) == Head(chans[m][n])
HasMessage(chans, m, n) == chans[m][n] # <<>>

\* The last message of a channel is new, the others stay.
LEMMA AppendChannel ==
    ASSUME NEW chans \in Channels, Fit(chans), NEW msg \in Message,
           NEW m \in Nodes, NEW n \in Nodes, From(msg) = m, To(msg) = n,
           \A x \in FlightIn(chans, msg.id) : MayFollow(x, msg),
           NEW after, after = Extended(chans, m, n, msg)
    PROVE  /\ after \in Channels /\ Fit(after)
           /\ FlightIn(after, msg.id) = FlightIn(chans, msg.id) \cup {msg}
           /\ \A t \in Transfers \ {msg.id} : FlightIn(after, t) = FlightIn(chans, t)
<1> DEFINE s == chans[m][n]
           r == Append(s, msg)
<1>1. s \in Seq(Message) /\ Ordered(s)
  BY DEF Channels, Fit
<1>2. \A x \in Elems(s) : MayFollow(x, msg)
  <2> SUFFICES ASSUME NEW x \in Elems(s), x.id = msg.id  PROVE MayFollow(x, msg)
    BY DEF MayFollow
  <2>1. x \in Message
    BY <1>1 DEF Elems
  <2>2. m = From(x) /\ n = To(x)
    BY DEF Fit
  <2> QED
    BY <2>1, <2>2 DEF FlightIn
<1>3. r \in Seq(Message) /\ Elems(r) = Elems(s) \cup {msg} /\ Ordered(r)
  BY <1>1, <1>2, AppendElems
<1>4. after = [chans EXCEPT ![m][n] = r]
  BY DEF Extended
<1> HIDE DEF r
<1>5. after \in Channels /\ after[m][n] = r
  BY <1>3, <1>4 DEF Channels
<1>6. \A k, l \in Nodes : <<k, l>> # <<m, n>> => after[k][l] = chans[k][l]
  BY <1>4 DEF Channels
<1>7. Fit(after)
  <2> SUFFICES ASSUME NEW k \in Nodes, NEW l \in Nodes
               PROVE  /\ Ordered(after[k][l])
                      /\ \A x \in Elems(after[k][l]) : k = From(x) /\ l = To(x)
    BY DEF Fit
  <2>1. CASE <<k, l>> = <<m, n>>
    BY <1>3, <1>5, <2>1 DEF Fit
  <2>2. CASE <<k, l>> # <<m, n>>
    BY <1>6, <2>2 DEF Fit
  <2> QED
    BY <2>1, <2>2
<1>8. ASSUME NEW x \in Message
      PROVE  x \in Elems(after[From(x)][To(x)]) <=> x \in Elems(chans[From(x)][To(x)]) \/ x = msg
  <2>1. From(x) \in Nodes /\ To(x) \in Nodes
    BY RouteIsNodes
  <2>2. CASE <<From(x), To(x)>> = <<m, n>>
    BY <1>3, <1>5, <2>2
  <2>3. CASE <<From(x), To(x)>> # <<m, n>>
    BY <1>6, <2>1, <2>3
  <2> QED
    BY <2>2, <2>3
<1> QED
  BY <1>5, <1>7, <1>8 DEF FlightIn

\* The first message of a channel has gone; what follows it may follow it.
LEMMA TailChannel ==
    ASSUME NEW chans \in Channels, Fit(chans), NEW m \in Nodes, NEW n \in Nodes,
           HasMessage(chans, m, n)
    PROVE  LET msg == FirstIn(chans, m, n)
               after == Shortened(chans, m, n)
           IN  /\ after \in Channels /\ Fit(after)
               /\ msg \in Message /\ From(msg) = m /\ To(msg) = n
               /\ msg \in FlightIn(chans, msg.id)
               /\ FlightIn(after, msg.id) = FlightIn(chans, msg.id) \ {msg}
               /\ \A t \in Transfers \ {msg.id} : FlightIn(after, t) = FlightIn(chans, t)
               /\ \A x \in FlightIn(after, msg.id) :
                      From(x) = m /\ To(x) = n => MayFollow(msg, x)
<1> DEFINE msg == FirstIn(chans, m, n)
           after == Shortened(chans, m, n)
           s == chans[m][n]
           r == Tail(s)
<1>1. s \in Seq(Message) /\ Ordered(s) /\ s # <<>>
  BY DEF Channels, Fit, HasMessage
<1>2. /\ r \in Seq(Message) /\ msg \in Message /\ msg \in Elems(s)
      /\ Elems(r) = Elems(s) \ {msg} /\ Ordered(r)
      /\ \A x \in Elems(r) : MayFollow(msg, x)
  BY <1>1, TailElems DEF FirstIn
<1>3. after = [chans EXCEPT ![m][n] = r]
  BY DEF Shortened
<1> HIDE DEF r, msg, after
<1>4. after \in Channels /\ after[m][n] = r
  BY <1>2, <1>3 DEF Channels
<1>5. \A k, l \in Nodes : <<k, l>> # <<m, n>> => after[k][l] = chans[k][l]
  BY <1>3 DEF Channels
<1>6. From(msg) = m /\ To(msg) = n
  BY <1>2 DEF Fit
<1>7. Fit(after)
  <2> SUFFICES ASSUME NEW k \in Nodes, NEW l \in Nodes
               PROVE  /\ Ordered(after[k][l])
                      /\ \A x \in Elems(after[k][l]) : k = From(x) /\ l = To(x)
    BY DEF Fit
  <2>1. CASE <<k, l>> = <<m, n>>
    BY <1>2, <1>4, <2>1 DEF Fit
  <2>2. CASE <<k, l>> # <<m, n>>
    BY <1>5, <2>2 DEF Fit
  <2> QED
    BY <2>1, <2>2
<1>8. ASSUME NEW x \in Message
      PROVE  x \in Elems(after[From(x)][To(x)]) <=> x \in Elems(chans[From(x)][To(x)]) /\ x # msg
  <2>1. From(x) \in Nodes /\ To(x) \in Nodes
    BY RouteIsNodes
  <2>2. CASE <<From(x), To(x)>> = <<m, n>>
    BY <1>2, <1>4, <2>2
  <2>3. CASE <<From(x), To(x)>> # <<m, n>>
    <3>1. x # msg
      BY <1>6, <2>3
    <3> QED
      BY <1>5, <2>1, <2>3, <3>1
  <2> QED
    BY <2>2, <2>3
<1>9. \A x \in FlightIn(after, msg.id) : From(x) = m /\ To(x) = n => MayFollow(msg, x)
  BY <1>2, <1>4 DEF FlightIn
<1>10. msg \in FlightIn(chans, msg.id)
  BY <1>2, <1>6 DEF FlightIn
<1>11. /\ FlightIn(after, msg.id) = FlightIn(chans, msg.id) \ {msg}
       /\ \A t \in Transfers \ {msg.id} : FlightIn(after, t) = FlightIn(chans, t)
  BY <1>2, <1>8 DEF FlightIn
<1> QED
  BY <1>2, <1>4, <1>6, <1>7, <1>9, <1>10, <1>11 DEF msg, after

ChannelInv == net \in Channels /\ Fit(net)

\* Sending adds a message to those in flight of its transfer.
LEMMA SendFlight ==
    ASSUME ChannelInv, NEW m \in Nodes, NEW n \in Nodes, NEW msg \in Message,
           From(msg) = m, To(msg) = n,
           \A x \in Flight(msg.id) : MayFollow(x, msg),
           Send(m, n, msg)
    PROVE  /\ ChannelInv'
           /\ Flight(msg.id)' = Flight(msg.id) \cup {msg}
           /\ \A t \in Transfers \ {msg.id} : Flight(t)' = Flight(t)
<1>1. net' = Extended(net, m, n, msg)
  BY DEF Send, Extended
<1> QED
  BY <1>1, AppendChannel DEF ChannelInv, Flight

\* msg, of transfer t, is next on the way from m to n.
Foremost(m, n, msg, t) == Head(net[m][n]) = msg /\ msg.id = t

\* What taking a message leaves in flight, on the same way, came after it.
LEMMA ConsumeFlight ==
    ASSUME ChannelInv, NEW m \in Nodes, NEW n \in Nodes, net[m][n] # <<>>,
           NEW msg, Head(net[m][n]) = msg, Consume(m, n)
    PROVE  /\ ChannelInv'
           /\ msg \in Message /\ From(msg) = m /\ To(msg) = n /\ msg \in Flight(msg.id)
           /\ Flight(msg.id)' = Flight(msg.id) \ {msg}
           /\ \A t \in Transfers \ {msg.id} : Flight(t)' = Flight(t)
           /\ \A x \in Flight(msg.id) : x # msg /\ From(x) = m /\ To(x) = n => MayFollow(msg, x)
<1>1. net' = Shortened(net, m, n)
  BY DEF Consume, Shortened
<1>2. net \in Channels /\ Fit(net) /\ msg = FirstIn(net, m, n) /\ HasMessage(net, m, n)
  BY DEF ChannelInv, FirstIn, HasMessage
<1>3. /\ net' \in Channels /\ Fit(net')
      /\ msg \in Message /\ From(msg) = m /\ To(msg) = n
      /\ msg \in FlightIn(net, msg.id)
      /\ FlightIn(net', msg.id) = FlightIn(net, msg.id) \ {msg}
      /\ \A t \in Transfers \ {msg.id} : FlightIn(net', t) = FlightIn(net, t)
      /\ \A x \in FlightIn(net', msg.id) : From(x) = m /\ To(x) = n => MayFollow(msg, x)
  BY <1>1, <1>2, TailChannel
<1> QED
  BY <1>3 DEF ChannelInv, Flight

\* Taking a message and answering it exchanges the one for the other.
LEMMA ReplyFlight ==
    ASSUME ChannelInv, NEW m \in Nodes, NEW n \in Nodes, net[m][n] # <<>>,
           NEW msg, Foremost(m, n, msg, msg.id),
           NEW reply \in Message, reply.id = msg.id, From(reply) = n, To(reply) = m,
           \A x \in Flight(msg.id) : x # msg => MayFollow(x, reply),
           m # n, Reply(m, n, reply)
    PROVE  /\ ChannelInv'
           /\ Flight(msg.id)' = (Flight(msg.id) \ {msg}) \cup {reply}
           /\ \A t \in Transfers \ {msg.id} : Flight(t)' = Flight(t)
<1> DEFINE between == Shortened(net, m, n)
<1>1. /\ between \in Channels /\ Fit(between)
      /\ FlightIn(between, msg.id) = FlightIn(net, msg.id) \ {msg}
      /\ \A t \in Transfers \ {msg.id} : FlightIn(between, t) = FlightIn(net, t)
  <2>1. net \in Channels /\ Fit(net) /\ msg = FirstIn(net, m, n) /\ HasMessage(net, m, n)
    BY DEF ChannelInv, FirstIn, HasMessage, Foremost
  <2> QED
    BY <2>1, TailChannel
<1>2. net' = Extended(between, n, m, reply)
  <2>1. /\ net' = [net EXCEPT ![m][n] = Tail(@), ![n][m] = Append(@, reply)]
        /\ net \in [Nodes -> [Nodes -> Seq(Message)]]
    BY DEF Reply, ChannelInv, Channels
  <2> QED
    BY <2>1 DEF Extended, Shortened
<1> HIDE DEF between
<1>3. \A x \in FlightIn(between, reply.id) : MayFollow(x, reply)
  BY <1>1 DEF Flight
<1>4. /\ net' \in Channels /\ Fit(net')
      /\ FlightIn(net', reply.id) = FlightIn(between, reply.id) \cup {reply}
      /\ \A t \in Transfers \ {reply.id} : FlightIn(net', t) = FlightIn(between, t)
  BY <1>1, <1>2, <1>3, AppendChannel
<1> QED
  BY <1>1, <1>4 DEF ChannelInv, Flight

-----------------------------------------------------------------------------
(* The protocol, transfer by transfer: the inductive invariant.            *)

Flying(t, types) == \E msg \in Flight(t) : msg.type \in types

Download(t) == Job[t].kind = "download"
Place(t) == IF Download(t) THEN t ELSE Job[t].remote
Registered(t) == active_downloads[Receiver(t)][t] # None
Offered(t) == active_uploads[Sender(t)][t] # None

\* The sending task sends blocks, or the receiver has yet to learn of their end.
Running(t) == sender[t].phase = "streaming" \/ Flying(t, {"FileTransferComplete"})

\* Only the nodes of a transfer know of it, and for what it asks.
Entered(t) ==
    \A n \in Nodes :
        /\ active_uploads[n][t] # None => n = Sender(t) /\ ~Download(t) /\ t \in requested
        /\ active_downloads[n][t] # None =>
              /\ n = Receiver(t) /\ n \in caps /\ t \in requested
              /\ active_downloads[n][t].path = Place(t)

\* Before the request is sent.
Fresh(t) ==
    t \notin requested =>
        Flight(t) = {} /\ sender[t].phase = "idle" /\ result[t] = "none"

\* Requests and rejections travel alone, and so does the answer to an upload.
Lonely(t, msg) ==
    msg.type \in Requests \cup {"Rejected"} \/ (msg.type = "Accepted" /\ ~Download(t))

Alone(t) == \A x, y \in Flight(t) : Lonely(t, x) => x = y

\* What a message in flight says of the state its handler will find.
Told(t, x) ==
    /\ x.type \in Requests =>
          /\ x.path = Job[t].remote
          /\ sender[t].phase = "idle" /\ ~Registered(t)
          /\ x.type = "FileDownloadRequest" <=> Download(t)
          /\ Download(t) \/ Offered(t)
    /\ x.type = "Accepted" /\ ~Download(t) =>
          sender[t].phase = "idle" /\ Offered(t) /\ Registered(t)
    /\ x.type = "Accepted" /\ Download(t) => Running(t) /\ ~Registered(t)
    /\ x.type = "Rejected" => sender[t].phase = IF Download(t) THEN "failed" ELSE "idle"
    /\ x.type = "FileChunk" => Running(t) /\ x.offset < sender[t].offset
    /\ x.type = "FileTransferComplete" => sender[t].phase = "finished"

AllTold(t) == \A x \in Flight(t) : Told(t, x)

\* While blocks may come, the receiver knows the transfer, or will.
Known(t) ==
    /\ sender[t].phase # "idle" => ~Offered(t)
    /\ ~Download(t) /\ (sender[t].phase = "opening" \/ Running(t)) => Registered(t)
    /\ Download(t) /\ Receiver(t) \in caps /\ Running(t) =>
          Registered(t) \/ Flying(t, {"Accepted"})

\* An entry of the receiver outlives its transfer only if that was an upload
\* that was rejected or never opened; an upload that waits is on its way.
Reclaimed(t) ==
    /\ Registered(t) /\ (Download(t) \/ sender[t].phase = "finished") => Running(t)
    /\ Handled(t) /\ t \in requested /\ ~Download(t) /\ sender[t].phase = "idle" =>
          Flying(t, Requests \cup Answers) \/ result[t] = "rejected"
    /\ result[t] = "complete" => sender[t].phase = "finished"

TransferInv(t) ==
    Entered(t) /\ Fresh(t) /\ Alone(t) /\ AllTold(t) /\ Known(t) /\ Reclaimed(t)

\* The same of some transfers only: those a specification that has others
\* besides (DavFiles) leaves to this protocol.
ProtocolOf(T) == TypeOK /\ ChannelInv /\ \A t \in T : TransferInv(t)

ProtocolInv == ProtocolOf(Transfers)
-----------------------------------------------------------------------------
(* The protocol: transfers a step is not about.                            *)

Undisturbed(t) ==
    /\ Flight(t)' = Flight(t)
    /\ sender'[t].phase = sender[t].phase /\ sender'[t].offset = sender[t].offset
    /\ \A n \in Nodes : /\ active_uploads'[n][t] = active_uploads[n][t]
                        /\ active_downloads'[n][t] = active_downloads[n][t]
    /\ t \in requested' <=> t \in requested
    /\ result'[t] = result[t]
    /\ caps' = caps

LEMMA TransferKept ==
    ASSUME NEW t \in Transfers, TransferInv(t), Undisturbed(t)
    PROVE  TransferInv(t)'
<1> USE DEF Undisturbed
<1>1. \A types : Flying(t, types)' <=> Flying(t, types)
  BY DEF Flying
<1>2. Registered(t)' <=> Registered(t)
  BY EndsAreNodes DEF Registered
<1>3. Offered(t)' <=> Offered(t)
  BY EndsAreNodes DEF Offered
<1>4. Running(t)' <=> Running(t)
  BY <1>1 DEF Running
<1>5. Entered(t)' /\ Fresh(t)' /\ Alone(t)'
  BY DEF TransferInv, Entered, Fresh, Alone
<1>6. AllTold(t)'
  BY <1>2, <1>3, <1>4 DEF TransferInv, AllTold, Told
<1>7. Known(t)'
  BY <1>1, <1>2, <1>3, <1>4 DEF TransferInv, Known
<1>8. Reclaimed(t)'
  BY <1>1, <1>2, <1>4 DEF TransferInv, Reclaimed, Handled
<1> QED
  BY <1>5, <1>6, <1>7, <1>8 DEF TransferInv

\* A step about one transfer, with the others undisturbed.
LEMMA OtherTransfersKept ==
    ASSUME NEW T \in SUBSET Transfers, ProtocolOf(T),
           NEW t \in Transfers, t \in T, TypeOK', ChannelInv', TransferInv(t)',
           \A u \in Transfers \ {t} : Undisturbed(u)
    PROVE  ProtocolOf(T)'
<1>1. \A u \in T \ {t} : TransferInv(u)'
  BY TransferKept DEF ProtocolOf
<1> QED
  BY <1>1 DEF ProtocolOf

LEMMA AllTransfersKept ==
    ASSUME NEW T \in SUBSET Transfers, ProtocolOf(T),
           TypeOK', ChannelInv', \A u \in T : Undisturbed(u)
    PROVE  ProtocolOf(T)'
BY TransferKept DEF ProtocolOf

LEMMA ProtocolInit == Init => ProtocolInv
<1> SUFFICES ASSUME Init  PROVE ProtocolInv
  OBVIOUS
<1>1. TypeOK
  BY TypeInit
<1>2. \A m, n \in Nodes : net[m][n] = <<>>
  BY DEF Init
<1>3. \A m, n \in Nodes : Ordered(net[m][n]) /\ Elems(net[m][n]) = {}
  BY <1>2 DEF Ordered, Elems
<1>4. ChannelInv
  BY <1>1, <1>3 DEF ChannelInv, Fit, Channels, TypeOK, VariableTypes
<1>5. ASSUME NEW t \in Transfers  PROVE TransferInv(t)
  <2>1. Flight(t) = {}
    BY <1>3, RouteIsNodes DEF Flight, FlightIn
  <2>2. /\ sender[t].phase = "idle" /\ result[t] = "none" /\ t \notin requested
        /\ \A n \in Nodes : active_uploads[n][t] = None /\ active_downloads[n][t] = None
    BY DEF Init, IdleSender
  <2>3. ~Registered(t) /\ ~Offered(t) /\ ~Running(t)
    BY <2>1, <2>2, EndsAreNodes DEF Registered, Offered, Running, Flying
  <2> QED
    BY <2>1, <2>2, <2>3 DEF TransferInv, Entered, Fresh, Alone, AllTold, Known, Reclaimed
<1> QED
  BY <1>1, <1>4, <1>5 DEF ProtocolInv, ProtocolOf

-----------------------------------------------------------------------------
(* The protocol: requests.                                                 *)

LEMMA PathsAreSome == \A p \in Places : p # None
BY DistinctAssumption

LEMMA ProtocolStartUpload ==
    ASSUME NEW T \in SUBSET Transfers, ProtocolOf(T),
           NEW t \in Transfers, t \in T, StartUpload(t)
    PROVE  /\ ProtocolOf(T)'
           /\ \A u \in Transfers \ {t} : Undisturbed(u)
           /\ sender[t].phase = "idle" /\ result[t] = "none" /\ ~Registered(t)'
           /\ \A x \in Flight(t) \cup Flight(t)' : x.type # "FileChunk"
<1> DEFINE msg == UploadRequest(t)
<1>1. TypeOK'
  BY TypeStartUpload DEF ProtocolOf
<1>2. /\ Job[t].by \in Nodes /\ Job[t].with \in Nodes /\ Job[t].local \in Paths
      /\ Job[t].remote \in Paths \cup {None}
      /\ ~Download(t) /\ Sender(t) = Job[t].by
      /\ t \notin requested
  BY JobAssumption DEF JobType, Download, Sender, StartUpload
<1>3. /\ msg \in Message /\ msg.id = t /\ msg.type = "FileUploadRequest"
      /\ msg.path = Job[t].remote
      /\ Job[t].by = From(msg) /\ Job[t].with = To(msg)
  BY <1>2 DEF UploadRequest, Message, From, To, Requests
<1> HIDE DEF msg
<1>4. Flight(t) = {} /\ sender[t].phase = "idle" /\ result[t] = "none"
  BY <1>2 DEF ProtocolOf, TransferInv, Fresh
<1>5. Send(Job[t].by, Job[t].with, msg)
  BY DEF StartUpload, msg
<1>6. /\ ChannelInv' /\ Flight(t)' = {msg}
      /\ \A u \in Transfers \ {t} : Flight(u)' = Flight(u)
  BY <1>2, <1>3, <1>4, <1>5, SendFlight DEF ProtocolOf
<1>7. /\ requested' = requested \cup {t}
      /\ active_uploads' = [active_uploads EXCEPT ![Sender(t)][t] = Job[t].local]
      /\ UNCHANGED <<active_downloads, sender, caps, result>>
  BY <1>2 DEF StartUpload
<1>8. /\ active_uploads'[Sender(t)][t] = Job[t].local
      /\ \A n \in Nodes \ {Sender(t)} : active_uploads'[n][t] = active_uploads[n][t]
      /\ \A n \in Nodes, u \in Transfers \ {t} : active_uploads'[n][u] = active_uploads[n][u]
  BY <1>2, <1>7 DEF ProtocolOf, TypeOK, VariableTypes
<1>9. \A u \in Transfers \ {t} : Undisturbed(u)
  BY <1>6, <1>7, <1>8 DEF Undisturbed
<1>10. Offered(t)' /\ ~Registered(t) /\ ~Registered(t)' /\ ~Running(t)'
  <2>1. Offered(t)'
    BY <1>2, <1>8, PathsAreSome DEF Offered, Places
  <2>2. ~Registered(t) /\ ~Registered(t)'
    BY <1>2, <1>7, EndsAreNodes DEF Registered, ProtocolOf, TransferInv, Entered
  <2>3. ~Running(t)'
    BY <1>3, <1>4, <1>6, <1>7 DEF Running, Flying
  <2> QED
    BY <2>1, <2>2, <2>3
<1>11. TransferInv(t)'
  <2>1. Entered(t)'
    BY <1>2, <1>7, <1>8 DEF ProtocolOf, TransferInv, Entered
  <2>2. Fresh(t)' /\ Alone(t)'
    BY <1>6, <1>7 DEF Fresh, Alone
  <2>3. AllTold(t)'
    BY <1>2, <1>3, <1>4, <1>6, <1>7, <1>10 DEF AllTold, Told, Requests
  <2>4. Known(t)' /\ Reclaimed(t)'
    BY <1>2, <1>3, <1>4, <1>6, <1>7, <1>10 DEF Known, Reclaimed, Flying, Requests
  <2> QED
    BY <2>1, <2>2, <2>3, <2>4 DEF TransferInv
<1> QED
  BY <1>1, <1>3, <1>4, <1>6, <1>9, <1>10, <1>11, OtherTransfersKept

LEMMA ProtocolStartDownload ==
    ASSUME NEW T \in SUBSET Transfers, ProtocolOf(T),
           NEW t \in Transfers, t \in T, StartDownload(t)
    PROVE  /\ ProtocolOf(T)'
           /\ \A u \in Transfers \ {t} : Undisturbed(u)
           /\ sender[t].phase = "idle" /\ result[t] = "none" /\ ~Registered(t)'
           /\ \A x \in Flight(t) \cup Flight(t)' : x.type # "FileChunk"
<1> DEFINE msg == DownloadRequest(t)
<1>1. TypeOK'
  BY TypeStartDownload DEF ProtocolOf
<1>2. /\ Job[t].by \in Nodes /\ Job[t].with \in Nodes
      /\ Job[t].remote \in Paths \cup {None}
      /\ Download(t) /\ t \notin requested
  BY JobAssumption DEF JobType, Download, StartDownload
<1>3. /\ msg \in Message /\ msg.id = t /\ msg.type = "FileDownloadRequest"
      /\ msg.path = Job[t].remote
      /\ Job[t].by = From(msg) /\ Job[t].with = To(msg)
  BY <1>2 DEF DownloadRequest, Message, From, To, Requests
<1>4. Send(Job[t].by, Job[t].with, msg)
  BY DEF StartDownload
<1> HIDE DEF msg
<1>5. Flight(t) = {} /\ sender[t].phase = "idle" /\ result[t] = "none"
  BY <1>2 DEF ProtocolOf, TransferInv, Fresh
<1>6. /\ ChannelInv' /\ Flight(t)' = {msg}
      /\ \A u \in Transfers \ {t} : Flight(u)' = Flight(u)
  BY <1>2, <1>3, <1>4, <1>5, SendFlight DEF ProtocolOf
<1>7. /\ requested' = requested \cup {t}
      /\ UNCHANGED <<active_uploads, active_downloads, sender, caps, result>>
  BY DEF StartDownload
<1>8. \A u \in Transfers \ {t} : Undisturbed(u)
  BY <1>6, <1>7 DEF Undisturbed
<1>9. ~Registered(t)' /\ ~Running(t)' /\ ~Registered(t)
  <2>1. ~Registered(t)' /\ ~Registered(t)
    BY <1>2, <1>7, EndsAreNodes DEF Registered, ProtocolOf, TransferInv, Entered
  <2>2. ~Running(t)'
    BY <1>3, <1>5, <1>6, <1>7 DEF Running, Flying
  <2> QED
    BY <2>1, <2>2
<1>10. TransferInv(t)'
  <2>1. Entered(t)'
    BY <1>7 DEF ProtocolOf, TransferInv, Entered
  <2>2. Fresh(t)' /\ Alone(t)'
    BY <1>6, <1>7 DEF Fresh, Alone
  <2>3. AllTold(t)'
    BY <1>2, <1>3, <1>5, <1>6, <1>7, <1>9 DEF AllTold, Told, Requests
  <2>4. Known(t)' /\ Reclaimed(t)'
    BY <1>2, <1>5, <1>7, <1>9 DEF Known, Reclaimed
  <2> QED
    BY <2>1, <2>2, <2>3, <2>4 DEF TransferInv
<1> QED
  BY <1>1, <1>3, <1>5, <1>6, <1>8, <1>9, <1>10, OtherTransfersKept

-----------------------------------------------------------------------------
(* The protocol: what a handler finds.                                     *)


\* The message a handler takes is of its transfer; those of the same transfer
\* that stay in flight came after it.
LEMMA Taken ==
    ASSUME NEW T \in SUBSET Transfers, ProtocolOf(T),
           NEW m \in Nodes, NEW n \in Nodes, net[m][n] # <<>>,
           NEW msg, NEW t \in T, Foremost(m, n, msg, t)
    PROVE  /\ t \in Transfers /\ msg \in Message /\ TransferInv(t)
           /\ From(msg) = m /\ To(msg) = n /\ m # n
           /\ msg \in Flight(t) /\ Told(t, msg)
           /\ Lonely(t, msg) => Flight(t) = {msg}
           /\ \A x \in Flight(t) : x # msg => ~Lonely(t, x)
<1>1. net \in Channels /\ Fit(net) /\ msg = FirstIn(net, m, n) /\ HasMessage(net, m, n)
  BY DEF ProtocolOf, ChannelInv, FirstIn, HasMessage, Foremost
<1>2. msg \in Message /\ From(msg) = m /\ To(msg) = n /\ msg \in FlightIn(net, msg.id)
  BY <1>1, TailChannel
<1>3. t \in Transfers /\ msg \in Flight(t) /\ TransferInv(t)
  BY <1>2, MessageFields DEF Flight, ProtocolOf, Foremost
<1>4. m # n
  <2>1. Job[t].by # Job[t].with
    BY <1>3, JobAssumption
  <2> QED
    BY <1>2, <1>3, <2>1, EndsAreNodes DEF From, To, Foremost
<1>5. Told(t, msg) /\ (Lonely(t, msg) => Flight(t) = {msg})
      /\ \A x \in Flight(t) : x # msg => ~Lonely(t, x)
  BY <1>3 DEF TransferInv, AllTold, Alone
<1> QED
  BY <1>2, <1>3, <1>4, <1>5

\* What is in flight when it only takes the message.
LEMMA TakenAway ==
    ASSUME NEW T \in SUBSET Transfers, ProtocolOf(T),
           NEW m \in Nodes, NEW n \in Nodes, net[m][n] # <<>>,
           NEW msg, NEW t, Foremost(m, n, msg, t), Consume(m, n)
    PROVE  /\ ChannelInv' /\ Flight(t)' = Flight(t) \ {msg}
           /\ \A u \in Transfers \ {t} : Flight(u)' = Flight(u)
           /\ \A x \in Flight(t) : x # msg /\ From(x) = m /\ To(x) = n => MayFollow(msg, x)
BY ConsumeFlight DEF ProtocolOf, Foremost

\* Where the ends of a transfer are.
LEMMA Ends ==
    ASSUME NEW t \in Transfers
    PROVE  /\ Sender(t) = (IF Download(t) THEN Job[t].with ELSE Job[t].by)
           /\ Receiver(t) = (IF Download(t) THEN Job[t].by ELSE Job[t].with)
           /\ Job[t].by \in Nodes /\ Job[t].with \in Nodes /\ Job[t].by # Job[t].with
           /\ Job[t].remote \in Paths \cup {None}
BY JobAssumption DEF JobType, Sender, Receiver, Download

\* What stays in flight of a transfer with the message of a block or an
\* acceptance of a download: blocks and completions that may follow it.
LEMMA RestFollows ==
    ASSUME NEW t \in Transfers, NEW x \in Message, x.id = t, ~Lonely(t, x)
    PROVE  /\ From(x) = Sender(t) /\ To(x) = Receiver(t)
           /\ x.type \in {"FileChunk", "FileTransferComplete"}
                \/ (x.type = "Accepted" /\ Download(t))
<1>1. x.type \in {"FileChunk", "FileTransferComplete", "Accepted"}
      /\ (x.type = "Accepted" => Download(t))
  BY DEF Message, Lonely, Requests
<1> QED
  BY <1>1, Ends DEF From, To, Requests, Answers

\* An upload's request came alone, so its answer is alone on its way.
Answered(m, n, t) ==
    /\ Reply(m, n, Accepted(t, 0)) => Flight(t)' = {Accepted(t, 0)}
    /\ Reply(m, n, Rejected(t)) => Flight(t)' = {Rejected(t)}

LEMMA AnswerToUpload ==
    ASSUME NEW T \in SUBSET Transfers, ProtocolOf(T),
           NEW m \in Nodes, NEW n \in Nodes, HandleUploadRequest(m, n),
           NEW msg, NEW t \in T, Foremost(m, n, msg, t)
    PROVE  /\ ProtocolOf(T)'
           /\ t \in Transfers /\ \A u \in Transfers \ {t} : Undisturbed(u)
           /\ ~Download(t) /\ n = Receiver(t) /\ msg.path = Job[t].remote
           /\ sender[t].phase = "idle"
           /\ Answered(m, n, t)
<1>1. Head(net[m][n]) = msg /\ msg.id = t
  BY DEF Foremost
<1>2. TypeOK'
  BY TypeHandleUploadRequest DEF ProtocolOf
<1>3. net[m][n] # <<>> /\ n \in caps /\ msg.type = "FileUploadRequest"
  BY <1>1 DEF HandleUploadRequest, Arrives
<1>4. /\ t \in Transfers /\ msg \in Message /\ TransferInv(t)
      /\ From(msg) = m /\ To(msg) = n /\ m # n
      /\ Told(t, msg) /\ (Lonely(t, msg) => Flight(t) = {msg})
  BY <1>1, <1>3, Taken
<1>5. /\ Flight(t) = {msg} /\ ~Download(t) /\ msg.path = Job[t].remote
      /\ sender[t].phase = "idle" /\ ~Registered(t) /\ Offered(t)
  BY <1>3, <1>4 DEF Told, Lonely, Requests
<1>6. /\ m = Job[t].by /\ n = Job[t].with /\ Sender(t) = m /\ Receiver(t) = n
  BY <1>1, <1>3, <1>4, <1>5, Ends DEF From, To, Requests
<1>7. ASSUME NEW r \in {Accepted(t, 0), Rejected(t)}
      PROVE  /\ r \in Message /\ r.id = t /\ r.type \in {"Accepted", "Rejected"}
             /\ From(r) = n /\ To(r) = m
  <2>1. r \in Message /\ r.id = t /\ r.type \in {"Accepted", "Rejected"}
    <3>1. t \in Transfers
      BY <1>4
    <3>2. CASE r = Accepted(t, 0)
      BY <3>1, <3>2 DEF Accepted, Message
    <3>3. CASE r = Rejected(t)
      BY <3>1, <3>3 DEF Rejected, Message
    <3> QED
      BY <3>2, <3>3
  <2> QED
    BY <1>6, <2>1 DEF From, To, Requests, Answers
<1>8. ASSUME NEW r \in Message, r.id = t, From(r) = n, To(r) = m, Reply(m, n, r)
      PROVE  /\ ChannelInv' /\ Flight(t)' = {r}
             /\ \A u \in Transfers \ {t} : Flight(u)' = Flight(u)
  <2>1. \A x \in Flight(msg.id) : x # msg => MayFollow(x, r)
    BY <1>1, <1>5
  <2>2. ChannelInv /\ r.id = msg.id /\ Reply(m, n, r) /\ r \in Message
        /\ From(r) = n /\ To(r) = m /\ m # n /\ net[m][n] # <<>>
        /\ Foremost(m, n, msg, msg.id)
    BY <1>1, <1>3, <1>4, <1>8 DEF ProtocolOf, Foremost
  <2>3. /\ ChannelInv'
        /\ Flight(msg.id)' = (Flight(msg.id) \ {msg}) \cup {r}
        /\ \A u \in Transfers \ {msg.id} : Flight(u)' = Flight(u)
    BY <2>1, <2>2, ReplyFlight
  <2> QED
    BY <1>1, <1>5, <2>3
<1>9. PICK reply \in {Accepted(t, 0), Rejected(t)} :
        /\ Reply(m, n, reply)
        /\ \/ UNCHANGED active_downloads /\ reply = Rejected(t)
           \/ Register(n, t, msg.path, 0) /\ msg.path # None
        /\ UNCHANGED <<active_uploads, sender, caps, requested, result>>
  BY <1>1 DEF HandleUploadRequest
<1>10. /\ ChannelInv' /\ Flight(t)' = {reply}
       /\ \A u \in Transfers \ {t} : Flight(u)' = Flight(u)
  BY <1>9, <1>7, <1>8
<1>11. /\ active_downloads'[n][t] = active_downloads[n][t] \/
            (msg.path # None /\ active_downloads'[n][t] = [path |-> msg.path, size |-> 0])
       /\ reply.type = "Accepted" =>
             msg.path # None /\ active_downloads'[n][t] = [path |-> msg.path, size |-> 0]
       /\ \A k \in Nodes \ {n} : active_downloads'[k][t] = active_downloads[k][t]
       /\ \A k \in Nodes, u \in Transfers \ {t} : active_downloads'[k][u] = active_downloads[k][u]
  <2>1. CASE UNCHANGED active_downloads /\ reply = Rejected(t)
    BY <2>1 DEF Rejected
  <2>2. CASE Register(n, t, msg.path, 0) /\ msg.path # None
    BY <1>4, <2>2 DEF Register, ProtocolOf, TypeOK, VariableTypes
  <2> QED
    BY <1>9, <2>1, <2>2
<1>12. \A u \in Transfers \ {t} : Undisturbed(u)
  BY <1>9, <1>10, <1>11 DEF Undisturbed
<1>13. Offered(t)' /\ ~Running(t)' /\ (reply.type = "Accepted" => Registered(t)')
  <2>1. ~Running(t)'
    BY <1>9, <1>5, <1>7, <1>10 DEF Running, Flying
  <2>2. reply.type = "Accepted" => Registered(t)'
    <3>1. Job[t].remote # None => [path |-> Job[t].remote, size |-> 0] # None
      <4>1. Job[t].remote # None => Job[t].remote \in Places
        BY <1>4, Ends DEF Places
      <4> QED
        BY <4>1, DistinctAssumption
    <3> QED
      BY <1>5, <1>6, <1>11, <3>1 DEF Registered
  <2> QED
    BY <1>9, <1>5, <2>1, <2>2 DEF Offered
<1>14. TransferInv(t)'
  <2>1. Entered(t)'
    <3>1. t \in requested
      BY <1>4, <1>5 DEF TransferInv, Fresh
    <3> QED
      <4>1. Entered(t) /\ n \in caps /\ Place(t) = msg.path
        BY <1>3, <1>4, <1>5 DEF TransferInv, Place
      <4>2. UNCHANGED <<active_uploads, caps, requested>>
        BY <1>9
      <4>3. \A k \in Nodes \ {n} : active_downloads'[k][t] = active_downloads[k][t]
        BY <1>11
      <4>4. active_downloads'[n][t] = active_downloads[n][t] \/ active_downloads'[n][t].path = msg.path
        <5>1. [path |-> msg.path, size |-> 0].path = msg.path
          OBVIOUS
        <5> QED
          BY <1>11, <5>1
      <4> QED
        <5>1. active_downloads[n][t].path = Place(t) \/ active_downloads[n][t] = None
          BY <1>4, <1>6, <4>1 DEF Entered
        <5>2. \A k \in Nodes : active_downloads'[k][t] # None =>
                  k = n /\ active_downloads'[k][t].path = msg.path
          BY <1>4, <1>6, <4>1, <4>3, <4>4, <5>1 DEF Entered
        <5>3. n = Receiver(t)
          BY <1>6
        <5> QED
          BY <3>1, <4>1, <4>2, <5>2, <5>3 DEF Entered
  <2>2. Fresh(t)' /\ Alone(t)'
    BY <1>4, <1>9, <1>5, <1>10 DEF TransferInv, Fresh, Alone
  <2>3. AllTold(t)'
    BY <1>9, <1>5, <1>7, <1>10, <1>13 DEF AllTold, Told, Requests
  <2>4. Known(t)' /\ Reclaimed(t)'
    BY <1>4, <1>9, <1>5, <1>7, <1>10, <1>13
    DEF TransferInv, Known, Reclaimed, Flying, Answers
  <2> QED
    BY <2>1, <2>2, <2>3, <2>4 DEF TransferInv
<1>15. ProtocolOf(T)'
  BY <1>2, <1>4, <1>10, <1>12, <1>14, OtherTransfersKept
<1>16. Answered(m, n, t)
  BY <1>7, <1>8 DEF Answered
<1> QED
  BY <1>4, <1>5, <1>6, <1>12, <1>15, <1>16

LEMMA ProtocolUploadRequest ==
    ASSUME NEW T \in SUBSET Transfers, ProtocolOf(T),
           NEW m \in Nodes, NEW n \in Nodes, HandleUploadRequest(m, n),
           NEW msg, NEW t \in T, Foremost(m, n, msg, t)
    PROVE  ProtocolOf(T)'
<1>1. Head(net[m][n]) = msg /\ msg.id = t
  BY DEF Foremost
<1> QED
  BY <1>1, AnswerToUpload

LEMMA ProtocolDownloadRequest ==
    ASSUME NEW T \in SUBSET Transfers, ProtocolOf(T),
           NEW m \in Nodes, NEW n \in Nodes, HandleDownloadRequest(m, n),
           NEW msg, NEW t \in T, Foremost(m, n, msg, t)
    PROVE  ProtocolOf(T)'
<1>1. Head(net[m][n]) = msg /\ msg.id = t
  BY DEF Foremost
<1>2. TypeOK'
  BY TypeHandleDownloadRequest DEF ProtocolOf
<1>3. /\ net[m][n] # <<>> /\ n \in caps /\ msg.type = "FileDownloadRequest" /\ Consume(m, n)
      /\ sender' = [sender EXCEPT ![t] = OpeningSender(msg.path)]
      /\ UNCHANGED <<active_uploads, active_downloads, caps, requested, result>>
  BY <1>1 DEF HandleDownloadRequest, Arrives, history
<1>4. /\ t \in Transfers /\ TransferInv(t)
      /\ Told(t, msg) /\ (Lonely(t, msg) => Flight(t) = {msg})
  <2>1. net[m][n] # <<>> /\ Consume(m, n)
    BY <1>3
  <2> QED
    BY <1>1, <2>1, Taken
<1>5. /\ ChannelInv' /\ Flight(t)' = Flight(t) \ {msg}
      /\ \A u \in Transfers \ {t} : Flight(u)' = Flight(u)
  BY <1>1, <1>3, TakenAway
<1>6. /\ Flight(t) = {msg} /\ Flight(t)' = {} /\ Download(t)
      /\ sender[t].phase = "idle" /\ ~Registered(t)
  BY <1>3, <1>4, <1>5 DEF Told, Lonely, Requests
<1>7. /\ sender'[t].phase = "opening"
      /\ \A u \in Transfers \ {t} : sender'[u] = sender[u]
  BY <1>3, <1>4 DEF OpeningSender, IdleSender, ProtocolOf, TypeOK, VariableTypes
<1>8. \A u \in Transfers \ {t} : Undisturbed(u)
  BY <1>3, <1>4, <1>5, <1>7 DEF Undisturbed
<1>9. ~Registered(t)' /\ ~Running(t)' /\ ~Offered(t)'
  <2>1. ~Registered(t)' /\ ~Running(t)'
    BY <1>3, <1>6, <1>7 DEF Registered, Running, Flying
  <2>2. ~Offered(t)'
    BY <1>3, <1>4, <1>5, <1>6, EndsAreNodes DEF TransferInv, Entered, Offered
  <2> QED
    BY <2>1, <2>2
<1>10. TransferInv(t)'
  <2>1. Entered(t)'
    BY <1>3, <1>4, <1>5 DEF TransferInv, Entered
  <2>2. Fresh(t)' /\ Alone(t)' /\ AllTold(t)'
    BY <1>3, <1>4, <1>5, <1>6 DEF TransferInv, Fresh, Alone, AllTold
  <2>3. Known(t)' /\ Reclaimed(t)'
    BY <1>3, <1>4, <1>5, <1>6, <1>7, <1>9 DEF TransferInv, Known, Reclaimed
  <2> QED
    BY <2>1, <2>2, <2>3 DEF TransferInv
<1> QED
  BY <1>2, <1>4, <1>5, <1>8, <1>10, OtherTransfersKept

-----------------------------------------------------------------------------
(* The protocol: answers.                                                  *)

\* The acceptance of an upload starts its sending task.
LEMMA ProtocolUploadAccepted ==
    ASSUME NEW T \in SUBSET Transfers, ProtocolOf(T),
           NEW m \in Nodes, NEW n \in Nodes, HandleAccepted(m, n),
           NEW msg, NEW t \in T, Foremost(m, n, msg, t),
           active_uploads[n][t] # None
    PROVE  /\ ProtocolOf(T)'
           /\ ~Download(t) /\ Registered(t) /\ sender[t].phase = "idle"
<1>1. TypeOK'
  BY TypeHandleAccepted DEF ProtocolOf
<1>2. /\ net[m][n] # <<>> /\ n \in caps /\ msg.type = "Accepted" /\ Consume(m, n)
      /\ sender' = [sender EXCEPT ![t] = OpeningSender(active_uploads[n][t])]
      /\ active_uploads' = [active_uploads EXCEPT ![n][t] = None]
      /\ UNCHANGED <<active_downloads, caps, requested, result>>
  BY DEF HandleAccepted, Arrives, history, Foremost
<1>3. /\ t \in Transfers /\ TransferInv(t)
      /\ Told(t, msg) /\ (Lonely(t, msg) => Flight(t) = {msg})
  BY <1>2, Taken, SMTT(30)
<1>4. /\ ChannelInv' /\ Flight(t)' = Flight(t) \ {msg}
      /\ \A u \in Transfers \ {t} : Flight(u)' = Flight(u)
  BY <1>2, TakenAway, SMTT(30)
<1>5. n = Sender(t) /\ ~Download(t) /\ t \in requested
  BY <1>3, <1>4 DEF TransferInv, Entered
<1>6. Flight(t)' = {} /\ sender[t].phase = "idle" /\ Registered(t)
  BY <1>2, <1>3, <1>4, <1>5 DEF Told, Lonely
<1>7. /\ sender'[t].phase = "opening"
      /\ \A u \in Transfers \ {t} : sender'[u] = sender[u]
  BY <1>2, <1>3 DEF OpeningSender, IdleSender, ProtocolOf, TypeOK, VariableTypes
<1>8. /\ active_uploads'[n][t] = None
      /\ \A k \in Nodes \ {n} : active_uploads'[k][t] = active_uploads[k][t]
      /\ \A k \in Nodes, u \in Transfers \ {t} : active_uploads'[k][u] = active_uploads[k][u]
  BY <1>2, <1>3 DEF ProtocolOf, TypeOK, VariableTypes
<1>9. \A u \in Transfers \ {t} : Undisturbed(u)
  <2>1. UNCHANGED <<active_downloads, caps, requested, result>>
    BY <1>2
  <2> QED
    BY <1>4, <1>7, <1>8, <2>1 DEF Undisturbed
<1>10. Registered(t)' /\ ~Running(t)' /\ ~Offered(t)'
  BY <1>2, <1>5, <1>6, <1>7, <1>8 DEF Registered, Running, Flying, Offered
<1>11. TransferInv(t)'
  <2>1. Entered(t)'
    BY <1>2, <1>3, <1>4, <1>8, ZenonT(40) DEF TransferInv, Entered
  <2>2. Fresh(t)' /\ Alone(t)' /\ AllTold(t)'
    BY <1>2, <1>5, <1>6 DEF Fresh, Alone, AllTold
  <2>3. Known(t)' /\ Reclaimed(t)'
    BY <1>2, <1>3, <1>4, <1>5, <1>6, <1>7, <1>10 DEF TransferInv, Known, Reclaimed
  <2> QED
    BY <2>1, <2>2, <2>3 DEF TransferInv
<1> QED
  BY <1>1, <1>2, <1>3, <1>4, <1>5, <1>6, <1>9, <1>11, OtherTransfersKept

\* The acceptance of a download registers it, ahead of the blocks.
LEMMA ProtocolDownloadAccepted ==
    ASSUME NEW T \in SUBSET Transfers, ProtocolOf(T),
           NEW m \in Nodes, NEW n \in Nodes, HandleAccepted(m, n),
           NEW msg, NEW t \in T, Foremost(m, n, msg, t),
           active_uploads[n][t] = None
    PROVE  ProtocolOf(T)' /\ Download(t)
<1>1. TypeOK'
  BY TypeHandleAccepted DEF ProtocolOf
<1>2. /\ net[m][n] # <<>> /\ n \in caps /\ msg.type = "Accepted" /\ Consume(m, n)
      /\ Register(n, t, t, msg.size)
      /\ UNCHANGED <<active_uploads, sender, caps, requested, result>>
  BY DEF HandleAccepted, Arrives, history, Foremost
<1>3. /\ t \in Transfers /\ msg \in Message /\ TransferInv(t)
      /\ From(msg) = m /\ To(msg) = n /\ msg \in Flight(t)
      /\ Told(t, msg)
      /\ \A x \in Flight(t) : x # msg => ~Lonely(t, x)
  <2>1. net[m][n] # <<>> /\ Consume(m, n)
    BY <1>2
  <2> QED
    BY <2>1, Taken
<1>4. /\ ChannelInv' /\ Flight(t)' = Flight(t) \ {msg}
      /\ \A u \in Transfers \ {t} : Flight(u)' = Flight(u)
      /\ \A x \in Flight(t) : x # msg /\ From(x) = m /\ To(x) = n => MayFollow(msg, x)
  <2>1. net[m][n] # <<>> /\ Consume(m, n)
    BY <1>2
  <2> QED
    BY <2>1, TakenAway
<1>5. n = Job[t].by /\ m = Job[t].with
  BY <1>2, <1>3, <1>4 DEF Foremost, From, To, Requests, Answers
<1>6. Download(t)
  <2>1. ~Download(t) => Offered(t) /\ Sender(t) = n
    BY <1>2, <1>3, <1>4, <1>5, Ends DEF Told
  <2> QED
    BY <2>1 DEF Offered
<1>7. Receiver(t) = n /\ Sender(t) = m /\ Running(t) /\ ~Registered(t)
  BY <1>2, <1>3, <1>4, <1>5, <1>6, Ends DEF Told
<1>8. \A x \in Flight(t)' : x \in Flight(t) /\ x.type \in {"FileChunk", "FileTransferComplete"}
  <2> SUFFICES ASSUME NEW x \in Flight(t), x # msg
               PROVE  x.type \in {"FileChunk", "FileTransferComplete"}
    BY <1>3, <1>4
  <2>1. x \in Message /\ x.id = t /\ ~Lonely(t, x)
    BY <1>3, <1>4 DEF Flight, FlightIn
  <2>2. From(x) = m /\ To(x) = n
    BY <1>3, <1>4, <1>7, <2>1, RestFollows
  <2>3. MayFollow(msg, x)
    BY <1>3, <1>4, <2>2
  <2> QED
    BY <2>1, <2>3 DEF MayFollow, Foremost
<1>9. /\ active_downloads'[n][t] = [path |-> t, size |-> msg.size]
      /\ \A k \in Nodes \ {n} : active_downloads'[k][t] = active_downloads[k][t]
      /\ \A k \in Nodes, u \in Transfers \ {t} : active_downloads'[k][u] = active_downloads[k][u]
  BY <1>2, <1>3 DEF Register, ProtocolOf, TypeOK, VariableTypes
<1>10. \A u \in Transfers \ {t} : Undisturbed(u)
  BY <1>2, <1>3, <1>4, <1>9 DEF Undisturbed
<1>11. Registered(t)' /\ (Offered(t)' <=> Offered(t)) /\ Running(t)'
  <2>1. active_downloads'[n][t] # None
    <3>1. t \in Places /\ msg.size \in Nat
      BY <1>2, <1>3, <1>4, MessageFields DEF Places
    <3> QED
      BY <1>9, <3>1, DistinctAssumption
  <2>2. Running(t)'
    BY <1>2, <1>3, <1>4, <1>7 DEF Running, Flying
  <2> QED
    BY <1>2, <1>7, <2>1, <2>2 DEF Registered, Offered
<1>12. t \in requested
  BY <1>3, <1>4 DEF TransferInv, Fresh
<1>13. TransferInv(t)'
  <2>1. Entered(t)'
    <3>1. n \in caps /\ UNCHANGED <<active_uploads, caps, requested>> /\ Place(t) = t
      BY <1>2, <1>6 DEF Place
    <3>2. active_downloads'[n][t].path = t
      BY <1>9
    <3>3. Entered(t)
      BY <1>3 DEF TransferInv
    <3> QED
      BY <1>7, <1>9, <1>12, <3>1, <3>2, <3>3, ZenonT(40) DEF Entered
  <2>2. Fresh(t)' /\ Alone(t)'
    BY <1>2, <1>8, <1>12 DEF Fresh, Alone, Lonely, Requests
  <2>3. AllTold(t)'
    <3> SUFFICES ASSUME NEW x \in Flight(t)'  PROVE Told(t, x)'
      BY DEF AllTold
    <3>1. Told(t, x) /\ x.type \in {"FileChunk", "FileTransferComplete"}
      BY <1>3, <1>4, <1>8 DEF TransferInv, AllTold
    <3> QED
      BY <1>2, <1>11, <3>1 DEF Told, Requests
  <2>4. Known(t)' /\ Reclaimed(t)'
    BY <1>2, <1>3, <1>4, <1>6, <1>11 DEF TransferInv, Known, Reclaimed
  <2> QED
    BY <2>1, <2>2, <2>3, <2>4 DEF TransferInv
<1> QED
  BY <1>1, <1>3, <1>4, <1>6, <1>10, <1>13, OtherTransfersKept

LEMMA ProtocolAccepted ==
    ASSUME NEW T \in SUBSET Transfers, ProtocolOf(T),
           NEW m \in Nodes, NEW n \in Nodes, HandleAccepted(m, n),
           NEW msg, NEW t \in T, Foremost(m, n, msg, t)
    PROVE  ProtocolOf(T)'
<1>1. Head(net[m][n]) = msg /\ msg.id = t
  BY DEF Foremost
<1> QED
  BY <1>1, ProtocolUploadAccepted, ProtocolDownloadAccepted

LEMMA ProtocolRejected ==
    ASSUME NEW T \in SUBSET Transfers, ProtocolOf(T),
           NEW m \in Nodes, NEW n \in Nodes, HandleRejected(m, n),
           NEW msg, NEW t \in T, Foremost(m, n, msg, t)
    PROVE  ProtocolOf(T)'
<1>1. Head(net[m][n]) = msg /\ msg.id = t
  BY DEF Foremost
<1>2. TypeOK'
  BY TypeHandleRejected DEF ProtocolOf
<1>3. /\ net[m][n] # <<>> /\ n \in caps /\ msg.type = "Rejected" /\ Consume(m, n)
      /\ result' = [result EXCEPT ![t] = "rejected"]
      /\ UNCHANGED <<active_uploads, active_downloads, sender, caps, requested>>
  BY <1>1 DEF HandleRejected, Arrives
<1>4. /\ t \in Transfers /\ TransferInv(t) /\ msg \in Flight(t)
      /\ Told(t, msg) /\ (Lonely(t, msg) => Flight(t) = {msg})
  BY <1>1, <1>3, Taken
<1>5. /\ ChannelInv' /\ Flight(t)' = Flight(t) \ {msg}
      /\ \A u \in Transfers \ {t} : Flight(u)' = Flight(u)
  BY <1>1, <1>3, TakenAway
<1>6. /\ Flight(t)' = {} /\ sender[t].phase \in {"idle", "failed"} /\ t \in requested
      /\ Flight(t) = {msg}
  BY <1>3, <1>4, <1>5 DEF Told, Lonely, TransferInv, Fresh
<1>7. /\ result'[t] = "rejected"
      /\ \A u \in Transfers \ {t} : result'[u] = result[u]
  BY <1>3, <1>4 DEF ProtocolOf, TypeOK, VariableTypes
<1>8. \A u \in Transfers \ {t} : Undisturbed(u)
  BY <1>3, <1>4, <1>5, <1>7 DEF Undisturbed
<1>9. (Registered(t)' <=> Registered(t)) /\ ~Running(t)' /\ ~Running(t) /\ (Offered(t)' <=> Offered(t))
  BY <1>3, <1>6 DEF Registered, Running, Flying, Offered
<1>10. TransferInv(t)'
  <2>1. Entered(t)'
    BY <1>3, <1>4, <1>5 DEF TransferInv, Entered
  <2>2. Fresh(t)' /\ Alone(t)' /\ AllTold(t)'
    BY <1>3, <1>6 DEF Fresh, Alone, AllTold
  <2>3. Known(t)' /\ Reclaimed(t)'
    BY <1>3, <1>4, <1>5, <1>7, <1>9 DEF TransferInv, Known, Reclaimed
  <2> QED
    BY <2>1, <2>2, <2>3 DEF TransferInv
<1> QED
  BY <1>2, <1>4, <1>5, <1>8, <1>10, OtherTransfersKept
-----------------------------------------------------------------------------
(* The protocol: blocks and completions.                                   *)

\* Nothing of a transfer is in flight behind its completion.
LEMMA CompletionIsLast ==
    ASSUME NEW T \in SUBSET Transfers, ProtocolOf(T),
           NEW m \in Nodes, NEW n \in Nodes, net[m][n] # <<>>,
           NEW msg, NEW t \in T, Foremost(m, n, msg, t), Consume(m, n),
           msg.type = "FileTransferComplete"
    PROVE  Flight(t) = {msg} /\ n = Receiver(t) /\ sender[t].phase = "finished"
<1>1. /\ t \in Transfers /\ From(msg) = m /\ To(msg) = n /\ msg \in Flight(t)
      /\ Told(t, msg) /\ \A x \in Flight(t) : x # msg => ~Lonely(t, x)
  <2>1. t \in Transfers /\ From(msg) = m /\ To(msg) = n /\ msg \in Flight(t)
    BY Taken
  <2>2. Told(t, msg)
    BY Taken
  <2>3. \A x \in Flight(t) : x # msg => ~Lonely(t, x)
    BY Taken
  <2> QED
    BY <2>1, <2>2, <2>3
<1>2. m = Sender(t) /\ n = Receiver(t) /\ sender[t].phase = "finished"
  BY <1>1 DEF From, To, Told, Requests, Answers, Foremost
<1>3. ASSUME NEW x \in Flight(t), x # msg  PROVE FALSE
  <2>1. x \in Message /\ x.id = t /\ ~Lonely(t, x)
    BY <1>1, <1>3 DEF Flight, FlightIn
  <2>2. From(x) = m /\ To(x) = n
    BY <1>1, <1>2, <2>1, RestFollows
  <2>3. MayFollow(msg, x)
    BY <1>3, <2>2, TakenAway
  <2> QED
    BY <2>1, <2>3 DEF MayFollow, Foremost
<1> QED
  BY <1>1, <1>2, <1>3

\* The completion that is handled is the last message of its transfer.
LEMMA LastFlight ==
    ASSUME NEW T \in SUBSET Transfers, ProtocolOf(T),
           NEW m \in Nodes, NEW n \in Nodes, net[m][n] # <<>>, Consume(m, n),
           Head(net[m][n]).type = "FileTransferComplete", Head(net[m][n]).id \in T
    PROVE  LET msg == Head(net[m][n])
               t == msg.id
           IN  Flight(t) = {msg} /\ n = Receiver(t) /\ sender[t].phase = "finished"
<1> DEFINE msg == Head(net[m][n])
           t == msg.id
<1>1. net[m][n] # <<>> /\ Consume(m, n) /\ msg.type = "FileTransferComplete" /\ t \in T
  OBVIOUS
<1> HIDE DEF msg, t
<1>2. Foremost(m, n, msg, t)
  BY DEF Foremost, msg, t
<1>3. Flight(t) = {msg} /\ n = Receiver(t) /\ sender[t].phase = "finished"
  BY <1>1, <1>2, CompletionIsLast
<1> QED
  BY <1>3 DEF msg, t

LEMMA ProtocolChunk ==
    ASSUME NEW T \in SUBSET Transfers, ProtocolOf(T),
           NEW m \in Nodes, NEW n \in Nodes, HandleChunk(m, n),
           NEW msg, NEW t \in T, Foremost(m, n, msg, t)
    PROVE  ProtocolOf(T)'
<1>0. Head(net[m][n]) = msg /\ msg.id = t
  BY DEF Foremost
<1>1. TypeOK'
  BY TypeHandleChunk DEF ProtocolOf
<1>2. /\ net[m][n] # <<>> /\ msg.type = "FileChunk" /\ Consume(m, n)
      /\ UNCHANGED <<active_uploads, active_downloads, sender, caps, requested, result>>
  BY <1>0 DEF HandleChunk, Arrives
<1>3. t \in Transfers /\ TransferInv(t) /\ msg \in Flight(t)
  BY <1>0, <1>2, Taken
<1>4. /\ ChannelInv' /\ Flight(t)' = Flight(t) \ {msg}
      /\ \A u \in Transfers \ {t} : Flight(u)' = Flight(u)
  BY <1>0, <1>2, TakenAway
<1>5. \A u \in Transfers \ {t} : Undisturbed(u)
  BY <1>2, <1>4 DEF Undisturbed
<1>6. ASSUME NEW types, "FileChunk" \notin types
      PROVE  Flying(t, types)' <=> Flying(t, types)
  BY <1>2, <1>4, <1>6 DEF Flying
<1>7. /\ Running(t)' <=> Running(t)
      /\ Registered(t)' <=> Registered(t)
      /\ Offered(t)' <=> Offered(t)
  <2>1. Flying(t, {"FileTransferComplete"})' <=> Flying(t, {"FileTransferComplete"})
    BY <1>6
  <2> QED
    BY <1>2, <2>1 DEF Running, Registered, Offered
<1>8. /\ Flying(t, {"Accepted"})' <=> Flying(t, {"Accepted"})
      /\ Flying(t, Requests \cup Answers)' <=> Flying(t, Requests \cup Answers)
  BY <1>6 DEF Requests, Answers
<1>9. TransferInv(t)'
  <2>1. Entered(t)' /\ Fresh(t)' /\ Alone(t)'
    BY <1>2, <1>3, <1>4 DEF TransferInv, Entered, Fresh, Alone
  <2>2. AllTold(t)'
    BY <1>2, <1>3, <1>4, <1>7 DEF TransferInv, AllTold, Told
  <2>3. Known(t)' /\ Reclaimed(t)'
    BY <1>2, <1>3, <1>7, <1>8 DEF TransferInv, Known, Reclaimed, Handled
  <2> QED
    BY <2>1, <2>2, <2>3 DEF TransferInv
<1> QED
  BY <1>1, <1>3, <1>4, <1>5, <1>9, OtherTransfersKept

LEMMA ProtocolComplete ==
    ASSUME NEW T \in SUBSET Transfers, ProtocolOf(T),
           NEW m \in Nodes, NEW n \in Nodes, HandleComplete(m, n),
           NEW msg, NEW t \in T, Foremost(m, n, msg, t)
    PROVE  ProtocolOf(T)'
<1>0. Head(net[m][n]) = msg /\ msg.id = t
  BY DEF Foremost
<1>1. TypeOK'
  BY TypeHandleComplete DEF ProtocolOf
<1>2. /\ net[m][n] # <<>> /\ msg.type = "FileTransferComplete" /\ Consume(m, n) /\ n \in caps
      /\ active_downloads[n][t] # None =>
            Deregister(n, t) /\ result' = [result EXCEPT ![t] = "complete"]
      /\ UNCHANGED <<active_uploads, sender, caps, requested>>
  BY <1>0 DEF HandleComplete, Arrives
<1>3. t \in Transfers /\ TransferInv(t)
  BY <1>0, <1>2, Taken
<1>4. /\ ChannelInv' /\ Flight(t)' = Flight(t) \ {msg}
      /\ \A u \in Transfers \ {t} : Flight(u)' = Flight(u)
  <2>1. net[m][n] # <<>> /\ Consume(m, n)
    BY <1>2
  <2> QED
    BY <1>0, <2>1, TakenAway
<1>5. Flight(t) = {msg} /\ Flight(t)' = {} /\ n = Receiver(t) /\ sender[t].phase = "finished"
  <2>1. net[m][n] # <<>> /\ Consume(m, n) /\ msg.type = "FileTransferComplete"
    BY <1>2
  <2>2. Flight(t) = {msg} /\ n = Receiver(t) /\ sender[t].phase = "finished"
    BY <1>0, <2>1, LastFlight
  <2> QED
    BY <1>4, <2>2
<1>6. t \in requested /\ Registered(t) /\ ~Offered(t)
  <2>1. Running(t) /\ ~Flying(t, {"Accepted"})
    BY <1>2, <1>5 DEF Running, Flying
  <2> QED
    BY <1>2, <1>3, <1>5, <2>1 DEF TransferInv, Fresh, Known
<1>7. Deregister(n, t) /\ result' = [result EXCEPT ![t] = "complete"]
  BY <1>2, <1>5, <1>6 DEF Registered
<1>8. /\ active_downloads'[n][t] = None
      /\ \A k \in Nodes \ {n} : active_downloads'[k][t] = active_downloads[k][t]
      /\ \A k \in Nodes, u \in Transfers \ {t} : active_downloads'[k][u] = active_downloads[k][u]
      /\ result'[t] = "complete"
      /\ \A u \in Transfers \ {t} : result'[u] = result[u]
  BY <1>3, <1>7 DEF Deregister, ProtocolOf, TypeOK, VariableTypes
<1>9. \A u \in Transfers \ {t} : Undisturbed(u)
  BY <1>2, <1>4, <1>8 DEF Undisturbed
<1>10. ~Registered(t)' /\ ~Offered(t)' /\ ~Running(t)'
  BY <1>2, <1>5, <1>6, <1>8 DEF Registered, Offered, Running, Flying
<1>11. TransferInv(t)'
  <2>1. Entered(t)'
    <3>1. Entered(t)
      BY <1>3 DEF TransferInv
    <3>2. \A k \in Nodes : active_downloads'[k][t] = None \/ active_downloads'[k][t] = active_downloads[k][t]
      BY <1>8
    <3>3. UNCHANGED <<active_uploads, caps, requested>>
      BY <1>2
    <3> QED
      BY <3>1, <3>2, <3>3 DEF Entered
  <2>2. Fresh(t)' /\ Alone(t)' /\ AllTold(t)'
    BY <1>2, <1>5, <1>6 DEF Fresh, Alone, AllTold
  <2>3. Known(t)' /\ Reclaimed(t)'
    BY <1>2, <1>5, <1>8, <1>10 DEF Known, Reclaimed
  <2> QED
    BY <2>1, <2>2, <2>3 DEF TransferInv
<1> QED
  BY <1>1, <1>3, <1>4, <1>9, <1>11, OtherTransfersKept

\* A node without the capability was never registered, so nobody expects the
\* message it drops.
LEMMA ProtocolNothing ==
    ASSUME NEW T \in SUBSET Transfers, ProtocolOf(T),
           NEW m \in Nodes, NEW n \in Nodes, HandleNothing(m, n),
           NEW msg, NEW t \in T, Foremost(m, n, msg, t)
    PROVE  ProtocolOf(T)'
<1>0. Head(net[m][n]) = msg /\ msg.id = t
  BY DEF Foremost
<1>1. TypeOK'
  BY TypeHandleNothing DEF ProtocolOf
<1>2. /\ net[m][n] # <<>> /\ Consume(m, n) /\ n \notin caps
      /\ UNCHANGED <<active_uploads, active_downloads, sender, caps, requested, result>>
  BY <1>0 DEF HandleNothing, history
<1>3. t \in Transfers /\ msg \in Message /\ TransferInv(t) /\ msg \in Flight(t) /\ To(msg) = n
  BY <1>0, <1>2, Taken
<1>4. /\ ChannelInv' /\ Flight(t)' = Flight(t) \ {msg}
      /\ \A u \in Transfers \ {t} : Flight(u)' = Flight(u)
  BY <1>0, <1>2, TakenAway
<1>5. \A u \in Transfers \ {t} : Undisturbed(u)
  BY <1>2, <1>4 DEF Undisturbed
<1>6. msg.type = "FileTransferComplete" => Flight(t)' = {} /\ n = Receiver(t)
  BY <1>0, <1>2, <1>4, CompletionIsLast
<1>7. ~Handled(t)
  <2>1. n \in {Job[t].by, Job[t].with}
    BY <1>0, <1>3, Ends DEF To
  <2> QED
    BY <1>2, <2>1 DEF Handled
<1>8. /\ Registered(t)' <=> Registered(t)
      /\ Offered(t)' <=> Offered(t)
      /\ Running(t)' => Running(t)
      /\ msg.type # "FileTransferComplete" => (Running(t)' <=> Running(t))
  BY <1>2, <1>4 DEF Running, Registered, Offered, Flying
<1>9. Registered(t) => msg.type # "FileTransferComplete"
  BY <1>2, <1>3, <1>6 DEF TransferInv, Entered, Registered
<1>10. Download(t) /\ Receiver(t) \in caps /\ Flying(t, {"Accepted"}) => Flying(t, {"Accepted"})'
  <2>1. Download(t) /\ Receiver(t) \in caps => msg.type # "Accepted"
    BY <1>0, <1>2, <1>3, Ends DEF To, Requests, Answers
  <2> QED
    BY <1>4, <2>1 DEF Flying
<1>11. TransferInv(t)'
  <2>1. Entered(t)' /\ Fresh(t)' /\ Alone(t)'
    BY <1>2, <1>3, <1>4 DEF TransferInv, Entered, Fresh, Alone
  <2>2. AllTold(t)'
    <3>1. CASE msg.type = "FileTransferComplete"
      BY <1>6, <3>1 DEF AllTold
    <3>2. CASE msg.type # "FileTransferComplete"
      BY <1>2, <1>3, <1>4, <1>8, <3>2 DEF TransferInv, AllTold, Told
    <3> QED
      BY <3>1, <3>2
  <2>3. Known(t)'
    BY <1>2, <1>3, <1>8, <1>10 DEF TransferInv, Known
  <2>4. Reclaimed(t)'
    BY <1>2, <1>3, <1>7, <1>8, <1>9 DEF TransferInv, Reclaimed, Handled
  <2> QED
    BY <2>1, <2>2, <2>3, <2>4 DEF TransferInv
<1> QED
  BY <1>1, <1>3, <1>4, <1>5, <1>11, OtherTransfersKept

-----------------------------------------------------------------------------
(* The protocol: edits of the disk, and the tasks of the sender.           *)

\* Steps that leave the channels, the maps and the progress of the tasks alone.
LEMMA ProtocolAside ==
    ASSUME NEW T \in SUBSET Transfers, ProtocolOf(T),
           TypeOK',
           UNCHANGED <<net, active_uploads, active_downloads, caps, requested, result>>,
           \A t \in Transfers : /\ sender'[t].phase = sender[t].phase
                                /\ sender'[t].offset = sender[t].offset
    PROVE  ProtocolOf(T)'
<1>1. ChannelInv' /\ \A t \in Transfers : Flight(t)' = Flight(t)
  BY DEF ProtocolOf, ChannelInv, Flight
<1>2. \A t \in Transfers : Undisturbed(t)
  BY <1>1 DEF Undisturbed
<1> QED
  BY <1>1, <1>2, AllTransfersKept

LEMMA ProtocolEdits ==
    ASSUME NEW T \in SUBSET Transfers, ProtocolOf(T),
           NEW n \in Nodes, NEW p \in Paths,
           HandleDelete(n, p) \/ \E q \in Paths : HandleRename(n, p, q)
    PROVE  ProtocolOf(T)'
<1>1. TypeOK'
  BY TypeHandleDelete, TypeHandleRename DEF ProtocolOf
<1>2. UNCHANGED <<net, active_uploads, active_downloads, caps, requested, result>>
  BY DEF HandleDelete, HandleRename
<1>3. ASSUME NEW t \in Transfers
      PROVE  sender'[t].phase = sender[t].phase /\ sender'[t].offset = sender[t].offset
  <2>1. sender[t] \in SenderState
    BY DEF ProtocolOf, TypeOK, VariableTypes
  <2>2. ASSUME NEW k \in Nodes, NEW q \in Paths
        PROVE  /\ Unlinked(k, q)[t].phase = sender[t].phase
               /\ Unlinked(k, q)[t].offset = sender[t].offset
    BY <2>1 DEF Unlinked, SenderState
  <2>3. CASE HandleDelete(n, p)
    BY <2>2, <2>3 DEF HandleDelete
  <2>4. CASE \E q \in Paths : HandleRename(n, p, q)
    <3>1. PICK q \in Paths : HandleRename(n, p, q)
      BY <2>4
    <3>2. \/ sender'[t] = [sender[t] EXCEPT !.file = q]
          \/ sender'[t] = Unlinked(n, q)[t]
      BY <3>1 DEF HandleRename
    <3> QED
      BY <2>1, <2>2, <3>2 DEF SenderState
  <2> QED
    BY <2>3, <2>4
<1> QED
  BY <1>1, <1>2, <1>3, ProtocolAside

LEMMA ProtocolReaderRead ==
    ASSUME NEW T \in SUBSET Transfers, ProtocolOf(T),
           NEW t \in Transfers, t \in T, ReaderRead(t)
    PROVE  ProtocolOf(T)'
<1>1. TypeOK'
  BY TypeReaderRead DEF ProtocolOf
<1>2. UNCHANGED <<net, active_uploads, active_downloads, caps, requested, result>>
  BY DEF ReaderRead
<1>3. sender \in [Transfers -> SenderState]
  BY DEF ProtocolOf, TypeOK, VariableTypes
<1>4. PICK pipe, pos : \/ sender' = [sender EXCEPT ![t] = [sender[t] EXCEPT !.pipe = pipe, !.pos = pos]]
                       \/ sender' = [sender EXCEPT ![t] = [sender[t] EXCEPT !.pipe = pipe, !.reading = FALSE]]
  BY DEF ReaderRead
<1>5. ASSUME NEW u \in Transfers
      PROVE  sender'[u].phase = sender[u].phase /\ sender'[u].offset = sender[u].offset
  <2>1. \A x \in SenderState :
          LET moved == [x EXCEPT !.pipe = pipe, !.pos = pos]
              ended == [x EXCEPT !.pipe = pipe, !.reading = FALSE]
          IN  /\ moved.phase = x.phase /\ moved.offset = x.offset
              /\ ended.phase = x.phase /\ ended.offset = x.offset
    BY DEF SenderState
  <2>2. sender[t] \in SenderState /\ sender[u] \in SenderState
    BY <1>3
  <2>3. CASE u = t
    BY <1>3, <1>4, <2>1, <2>2, <2>3
  <2>4. CASE u # t
    BY <1>3, <1>4, <2>4
  <2> QED
    BY <2>3, <2>4
<1> QED
  BY <1>1, <1>2, <1>5, ProtocolAside
LEMMA ProtocolSenderOpen ==
    ASSUME NEW T \in SUBSET Transfers, ProtocolOf(T),
           NEW t \in Transfers, t \in T, SenderOpen(t)
    PROVE  /\ ProtocolOf(T)'
           /\ \A u \in Transfers \ {t} : Undisturbed(u)
           /\ Flight(t) = {} /\ \A x \in Flight(t)' : x.type # "FileChunk"
           /\ result[t] # "complete"
<1>1. TypeOK'
  BY TypeSenderOpen DEF ProtocolOf
<1>2. /\ sender[t].phase = "opening" /\ TransferInv(t)
      /\ UNCHANGED <<active_uploads, active_downloads, caps, requested, result>>
  BY DEF SenderOpen, ProtocolOf
<1>3. Flight(t) = {}
  <2> SUFFICES ASSUME NEW x \in Flight(t)  PROVE FALSE
    OBVIOUS
  <2>1. Told(t, x) /\ x \in Message
    BY <1>2 DEF TransferInv, AllTold, Flight, FlightIn
  <2>2. ~Running(t) \/ sender[t].phase = "finished"
    BY <1>2 DEF Running, Flying, TransferInv, AllTold, Told
  <2> QED
    BY <1>2, <2>1, <2>2 DEF Told, Message, Requests
<1>4. /\ ~Running(t) /\ ~Offered(t) /\ t \in requested /\ result[t] # "complete"
      /\ Registered(t) <=> ~Download(t)
  BY <1>2, <1>3 DEF Running, Flying, TransferInv, Known, Reclaimed, Fresh
<1>5. PICK phase \in {"streaming", "failed"}, answer \in Message :
        /\ sender'[t].phase = phase /\ sender'[t].offset = sender[t].offset
        /\ \A u \in Transfers \ {t} : sender'[u] = sender[u]
        /\ answer.id = t /\ answer.type = (IF phase = "streaming" THEN "Accepted" ELSE "Rejected")
        /\ IF Download(t) THEN Send(Sender(t), Receiver(t), answer) ELSE UNCHANGED net
  <2> DEFINE p == sender[t].file
             file == disk[Sender(t)][p]
             opened == [sender[t] EXCEPT !.phase = "streaming", !.reading = TRUE, !.pipe = <<>>]
             failed == [sender[t] EXCEPT !.phase = "failed", !.file = None]
  <2>1. sender \in [Transfers -> SenderState] /\ sender[t] \in SenderState
    BY DEF ProtocolOf, TypeOK, VariableTypes
  <2>2. CASE /\ p # None /\ file # None
             /\ sender' = [sender EXCEPT ![t] = opened]
             /\ AnswerOpened(t, file)
    <3>1. Len(file) \in Nat
      <4>1. p \in Places
        BY <2>1, <2>2 DEF SenderState
      <4>2. file \in File
        BY <2>2, <4>1, EndsAreNodes DEF ProtocolOf, TypeOK, VariableTypes
      <4> QED
        BY <4>2 DEF File
    <3>2. /\ Accepted(t, Len(file)) \in Message
          /\ Accepted(t, Len(file)).id = t /\ Accepted(t, Len(file)).type = "Accepted"
      BY <3>1 DEF Accepted, Message
    <3>3. IF Download(t) THEN Send(Sender(t), Receiver(t), Accepted(t, Len(file))) ELSE UNCHANGED net
      BY <2>2 DEF AnswerOpened, Download
    <3>4. /\ sender'[t].phase = "streaming" /\ sender'[t].offset = sender[t].offset
          /\ \A u \in Transfers \ {t} : sender'[u] = sender[u]
      BY <2>1, <2>2 DEF SenderState
    <3> QED
      BY <3>2, <3>3, <3>4
  <2>3. CASE /\ sender' = [sender EXCEPT ![t] = failed]
             /\ AnswerFailed(t)
    <3>1. Rejected(t) \in Message /\ Rejected(t).id = t /\ Rejected(t).type = "Rejected"
      BY DEF Rejected, Message
    <3>2. IF Download(t) THEN Send(Sender(t), Receiver(t), Rejected(t)) ELSE UNCHANGED net
      BY <2>3 DEF AnswerFailed, Download
    <3>3. /\ sender'[t].phase = "failed" /\ sender'[t].offset = sender[t].offset
          /\ \A u \in Transfers \ {t} : sender'[u] = sender[u]
      BY <2>1, <2>3 DEF SenderState
    <3> QED
      BY <3>1, <3>2, <3>3
  <2> QED
    BY <2>2, <2>3 DEF SenderOpen
<1>6. /\ ChannelInv'
      /\ Flight(t)' = (IF Download(t) THEN {answer} ELSE {})
      /\ \A u \in Transfers \ {t} : Flight(u)' = Flight(u)
  <2>1. CASE Download(t)
    <3>1. Sender(t) = From(answer) /\ Receiver(t) = To(answer)
      BY <1>5, <2>1, Ends DEF From, To, Requests, Answers
    <3>2. /\ ChannelInv' /\ Flight(answer.id)' = Flight(answer.id) \cup {answer}
          /\ \A u \in Transfers \ {answer.id} : Flight(u)' = Flight(u)
      <4>1. \A x \in Flight(answer.id) : MayFollow(x, answer)
        BY <1>3, <1>5
      <4>2. Send(Sender(t), Receiver(t), answer) /\ ChannelInv
        BY <1>5, <2>1 DEF ProtocolOf
      <4> QED
        BY <3>1, <4>1, <4>2, EndsAreNodes, SendFlight
    <3> QED
      BY <1>3, <1>5, <2>1, <3>2
  <2>2. CASE ~Download(t)
    BY <1>3, <1>5, <2>2 DEF ProtocolOf, ChannelInv, Flight
  <2> QED
    BY <2>1, <2>2
<1>7. \A u \in Transfers \ {t} : Undisturbed(u)
  BY <1>2, <1>5, <1>6 DEF Undisturbed
<1>8. /\ Running(t)' <=> phase = "streaming"
      /\ Registered(t)' <=> ~Download(t)
      /\ ~Offered(t)'
      /\ Flying(t, {"Accepted"})' <=> Download(t) /\ phase = "streaming"
  BY <1>2, <1>4, <1>5, <1>6 DEF Running, Registered, Offered, Flying
<1>9. TransferInv(t)'
  <2>1. Entered(t)'
    BY <1>2 DEF TransferInv, Entered
  <2>2. Fresh(t)' /\ Alone(t)'
    BY <1>2, <1>4, <1>6 DEF Fresh, Alone
  <2>3. AllTold(t)'
    BY <1>2, <1>5, <1>6, <1>8 DEF AllTold, Told, Requests
  <2>4. Known(t)' /\ Reclaimed(t)'
    BY <1>2, <1>4, <1>5, <1>8 DEF Known, Reclaimed
  <2> QED
    BY <2>1, <2>2, <2>3, <2>4 DEF TransferInv
<1> QED
  BY <1>1, <1>3, <1>4, <1>5, <1>6, <1>7, <1>9, OtherTransfersKept

\* What is in flight while the task streams.
LEMMA StreamingFlight ==
    ASSUME NEW t \in Transfers, TransferInv(t), sender[t].phase = "streaming"
    PROVE  \A x \in Flight(t) :
              \/ x.type = "Accepted" /\ Download(t)
              \/ x.type = "FileChunk" /\ x.offset < sender[t].offset
<1> SUFFICES ASSUME NEW x \in Flight(t)
             PROVE  \/ x.type = "Accepted" /\ Download(t)
                    \/ x.type = "FileChunk" /\ x.offset < sender[t].offset
  OBVIOUS
<1>1. Told(t, x) /\ x \in Message
  BY DEF TransferInv, AllTold, Flight, FlightIn
<1> QED
  BY <1>1 DEF Told, Message, Requests

LEMMA ProtocolSenderForward ==
    ASSUME NEW T \in SUBSET Transfers, ProtocolOf(T),
           NEW t \in Transfers, t \in T, SenderForward(t)
    PROVE  /\ ProtocolOf(T)'
           /\ \A u \in Transfers \ {t} : Undisturbed(u)
           /\ result[t] # "complete"
<1>1. TypeOK'
  BY TypeSenderForward DEF ProtocolOf
<1>2. /\ sender[t].phase = "streaming" /\ TransferInv(t)
      /\ UNCHANGED <<active_uploads, active_downloads, caps, requested, result>>
  BY DEF SenderForward, ProtocolOf, history
<1>3. PICK msg \in Message :
        /\ Send(Sender(t), Receiver(t), msg) /\ msg.id = t
        /\ \A u \in Transfers \ {t} : sender'[u] = sender[u]
        /\ sender[t].offset \in Nat
        /\ \/ /\ msg.type = "FileTransferComplete"
              /\ sender'[t].phase = "finished" /\ sender'[t].offset = sender[t].offset
           \/ /\ msg.type = "FileChunk" /\ msg.offset = sender[t].offset
              /\ sender'[t].phase = "streaming" /\ sender'[t].offset = sender[t].offset + 1
  <2> DEFINE s == sender[t]
             item == Head(s.pipe)
  <2>1. sender \in [Transfers -> SenderState] /\ s \in SenderState /\ s.offset \in Nat
    BY DEF ProtocolOf, TypeOK, VariableTypes, SenderState
  <2>2. item \in Block \cup {Eof, Fault}
    <3>1. s.pipe \in Seq(Block \cup {Eof, Fault}) /\ s.pipe # <<>>
      BY <2>1 DEF SenderForward, SenderState
    <3> QED
      BY <3>1
  <2>3. CASE item \in {Eof, Fault}
    <3>1. /\ FileTransferComplete(t) \in Message /\ FileTransferComplete(t).id = t
          /\ FileTransferComplete(t).type = "FileTransferComplete"
      BY DEF FileTransferComplete, Message
    <3>2. /\ Send(Sender(t), Receiver(t), FileTransferComplete(t))
          /\ sender' = [sender EXCEPT ![t] =
                          [s EXCEPT !.phase = "finished", !.pipe = Tail(s.pipe), !.file = None]]
      BY <2>3 DEF SenderForward, EndOfStream
    <3>3. /\ sender'[t].phase = "finished" /\ sender'[t].offset = s.offset
          /\ \A u \in Transfers \ {t} : sender'[u] = sender[u]
      BY <2>1, <3>2 DEF SenderState
    <3> QED
      BY <2>1, <3>1, <3>2, <3>3
  <2>4. CASE item \notin {Eof, Fault}
    <3> DEFINE chunk == FileChunk(t, s.offset, item)
    <3>1. /\ chunk \in Message /\ chunk.id = t /\ chunk.type = "FileChunk"
          /\ chunk.offset = s.offset
      BY <2>1, <2>2, <2>4 DEF FileChunk, Message
    <3>2. /\ Send(Sender(t), Receiver(t), chunk)
          /\ sender' = [sender EXCEPT ![t] =
                          [s EXCEPT !.pipe = Tail(s.pipe), !.offset = s.offset + 1]]
      BY <2>4 DEF SenderForward
    <3>3. /\ sender'[t].phase = "streaming" /\ sender'[t].offset = s.offset + 1
          /\ \A u \in Transfers \ {t} : sender'[u] = sender[u]
      BY <1>2, <2>1, <3>2 DEF SenderState
    <3> HIDE DEF chunk
    <3> QED
      BY <2>1, <3>1, <3>2, <3>3
  <2> QED
    BY <2>3, <2>4
<1>4. \A x \in Flight(t) : x.type = "Accepted" \/ (x.type = "FileChunk" /\ x.offset < sender[t].offset)
  BY <1>2, StreamingFlight
<1>5. /\ ChannelInv' /\ Flight(t)' = Flight(t) \cup {msg}
      /\ \A u \in Transfers \ {t} : Flight(u)' = Flight(u)
  <2>1. Sender(t) = From(msg) /\ Receiver(t) = To(msg)
    BY <1>3 DEF From, To, Requests, Answers
  <2>2. \A x \in Flight(msg.id) : MayFollow(x, msg)
    BY <1>3, <1>4 DEF MayFollow
  <2>3. Send(Sender(t), Receiver(t), msg) /\ ChannelInv
    BY <1>3 DEF ProtocolOf
  <2>4. /\ ChannelInv' /\ Flight(msg.id)' = Flight(msg.id) \cup {msg}
        /\ \A u \in Transfers \ {msg.id} : Flight(u)' = Flight(u)
    BY <2>1, <2>2, <2>3, EndsAreNodes, SendFlight
  <2> QED
    BY <1>3, <2>4
<1>6. \A u \in Transfers \ {t} : Undisturbed(u)
  BY <1>2, <1>3, <1>5 DEF Undisturbed
<1>7. /\ Running(t) /\ Running(t)' /\ ~Offered(t)'
      /\ Registered(t)' <=> Registered(t)
      /\ Flying(t, {"Accepted"})' <=> Flying(t, {"Accepted"})
  <2>1. Running(t) /\ Running(t)'
    BY <1>2, <1>3, <1>5 DEF Running, Flying
  <2>2. /\ Registered(t)' <=> Registered(t)
        /\ Flying(t, {"Accepted"})' <=> Flying(t, {"Accepted"})
    BY <1>2, <1>3, <1>5 DEF Registered, Flying
  <2>3. ~Offered(t)'
    BY <1>2 DEF TransferInv, Known, Offered
  <2> QED
    BY <2>1, <2>2, <2>3
<1>8. t \in requested /\ result[t] # "complete"
  BY <1>2 DEF TransferInv, Fresh, Reclaimed
<1>9. TransferInv(t)'
  <2>1. Entered(t)'
    BY <1>2 DEF TransferInv, Entered
  <2>2. Fresh(t)'
    BY <1>2, <1>8 DEF Fresh
  <2>3. Alone(t)'
    <3>1. \A x \in Flight(t)' : ~Lonely(t, x)
      BY <1>2, <1>3, <1>5, StreamingFlight DEF Lonely, Requests
    <3> QED
      BY <3>1 DEF Alone, Lonely
  <2>4. AllTold(t)'
    <3> SUFFICES ASSUME NEW x \in Flight(t)'  PROVE Told(t, x)'
      BY DEF AllTold
    <3>1. CASE x \in Flight(t)
      <4>1. Told(t, x) /\ (\/ x.type = "Accepted" /\ Download(t)
                           \/ x.type = "FileChunk" /\ x.offset < sender[t].offset)
        BY <1>2, <3>1, StreamingFlight DEF TransferInv, AllTold
      <4>2. x.type = "FileChunk" => x.offset < sender'[t].offset
        <5>1. x.type = "FileChunk" => x.offset \in Nat
          BY <3>1, MessageFields DEF Flight, FlightIn
        <5> QED
          BY <1>3, <4>1, <5>1
      <4> QED
        BY <1>7, <4>1, <4>2 DEF Told, Requests
    <3>2. CASE x = msg
      BY <1>3, <1>7, <3>2 DEF Told, Requests
    <3> QED
      BY <1>5, <3>1, <3>2
  <2>5. Known(t)' /\ Reclaimed(t)'
    BY <1>2, <1>3, <1>7, <1>8 DEF TransferInv, Known, Reclaimed
  <2> QED
    BY <2>1, <2>2, <2>3, <2>4, <2>5 DEF TransferInv
<1> QED
  BY <1>1, <1>3, <1>5, <1>6, <1>8, <1>9, OtherTransfersKept
-----------------------------------------------------------------------------
(* The protocol: its invariant and what it gives.                          *)

LEMMA ProtocolStutter ==
    ASSUME NEW T \in SUBSET Transfers, ProtocolOf(T), UNCHANGED vars
    PROVE  ProtocolOf(T)'
<1>1. TypeOK'
  BY TypeStutter DEF ProtocolOf
<1> QED
  BY <1>1, ProtocolAside DEF vars

\* Whatever is handled, of one of these transfers.
LEMMA ProtocolHandle ==
    ASSUME NEW T \in SUBSET Transfers, ProtocolOf(T),
           NEW m \in Nodes, NEW n \in Nodes, Handle(m, n), Head(net[m][n]).id \in T
    PROVE  ProtocolOf(T)'
<1>1. PICK msg, t : Foremost(m, n, msg, t) /\ t \in T
  BY DEF Foremost
<1> QED
  BY <1>1, ProtocolUploadRequest, ProtocolDownloadRequest, ProtocolAccepted,
     ProtocolRejected, ProtocolChunk, ProtocolComplete, ProtocolNothing DEF Handle

\* Every message is one of some transfer.
LEMMA HandledIsTransfer ==
    ASSUME TypeOK, NEW m \in Nodes, NEW n \in Nodes, Handle(m, n)
    PROVE  net[m][n] # <<>> /\ Head(net[m][n]) \in Message /\ Head(net[m][n]).id \in Transfers
<1>1. net[m][n] # <<>>
  BY DEF Handle, HandleUploadRequest, HandleDownloadRequest, HandleAccepted,
         HandleRejected, HandleChunk, HandleComplete, HandleNothing, Arrives
<1>2. Head(net[m][n]) \in Message
  BY <1>1, HeadIsMessage DEF TypeOK, VariableTypes
<1> QED
  BY <1>1, <1>2, MessageFields

LEMMA ProtocolNext == ASSUME ProtocolInv, [Next]_vars PROVE ProtocolInv'
<1> DEFINE T == Transfers
<1>0. ProtocolOf(T) /\ T \in SUBSET Transfers
  BY DEF ProtocolInv
<1> SUFFICES ProtocolOf(T)'
  BY DEF ProtocolInv
<1>1. CASE \E t \in Transfers : StartUpload(t)
  BY <1>0, <1>1, ProtocolStartUpload
<1>2. CASE \E t \in Transfers : StartDownload(t)
  BY <1>0, <1>2, ProtocolStartDownload
<1>3. ASSUME NEW m \in Nodes, NEW n \in Nodes, Handle(m, n)
      PROVE  ProtocolOf(T)'
  <2>1. Head(net[m][n]).id \in T
    BY <1>0, <1>3, HandledIsTransfer DEF ProtocolOf
  <2> QED
    BY <1>0, <1>3, <2>1, ProtocolHandle
<1>4. CASE \E n \in Nodes, p \in Paths : HandleDelete(n, p)
  BY <1>0, <1>4, ProtocolEdits
<1>5. CASE \E n \in Nodes, p, q \in Paths : HandleRename(n, p, q)
  BY <1>0, <1>5, ProtocolEdits
<1>6. CASE \E t \in Transfers : SendingTask(t)
  BY <1>0, <1>6, ProtocolSenderOpen, ProtocolSenderForward DEF SendingTask
<1>7. CASE \E t \in Transfers : ReaderRead(t)
  BY <1>0, <1>7, ProtocolReaderRead
<1>8. CASE UNCHANGED vars
  BY <1>0, <1>8, ProtocolStutter
<1> QED
  BY <1>1, <1>2, <1>3, <1>4, <1>5, <1>6, <1>7, <1>8 DEF Next

\* At every moment each transfer is in one of the phases the protocol has: what
\* is in flight of it says what both ends know, and in which order it comes.
THEOREM ProtocolInvariant == Spec => []ProtocolInv
BY ProtocolInit, ProtocolNext, PTL DEF Spec

\* A block or completion meets an entry, or an acceptance before it makes one.
LEMMA MessageIsExpected ==
    ASSUME NEW T \in SUBSET Transfers, ProtocolOf(T), NEW m \in Nodes, NEW n \in caps,
           NEW i \in 1 .. Len(net[m][n]), net[m][n][i].id \in T,
           net[m][n][i].type \in {"FileChunk", "FileTransferComplete"},
           active_downloads[n][net[m][n][i].id] = None
    PROVE  \E j \in 1 .. i - 1 : /\ net[m][n][j].type = "Accepted"
                                 /\ net[m][n][j].id = net[m][n][i].id
<1>1. PICK msg, t : msg = net[m][n][i] /\ msg.id = t /\ t \in T
  OBVIOUS
<1>2. n \in Nodes /\ net[m][n] \in Seq(Message) /\ net \in Channels /\ Fit(net)
  BY DEF ProtocolOf, TypeOK, VariableTypes, ChannelInv, Channels
<1>3. /\ msg \in Message /\ t \in Transfers /\ msg \in Elems(net[m][n])
      /\ From(msg) = m /\ To(msg) = n /\ msg \in Flight(t)
  <2>1. i \in DOMAIN net[m][n] /\ msg \in Message
    BY <1>1, <1>2
  <2>2. msg \in Elems(net[m][n]) /\ t \in Transfers
    BY <1>1, <2>1, MessageFields DEF Elems
  <2>3. From(msg) = m /\ To(msg) = n
    BY <1>2, <2>2 DEF Fit
  <2> QED
    BY <1>1, <2>1, <2>2, <2>3 DEF Flight, FlightIn
<1>4. m = Sender(t) /\ n = Receiver(t)
  BY <1>1, <1>3 DEF From, To, Requests, Answers
<1>5. TransferInv(t) /\ Running(t) /\ ~Registered(t)
  <2>1. Told(t, msg) /\ TransferInv(t)
    BY <1>1, <1>3 DEF ProtocolOf, TransferInv, AllTold
  <2> QED
    BY <1>1, <1>3, <1>4, <2>1 DEF Told, Running, Flying, Registered
<1>6. PICK x \in Flight(t) : x.type = "Accepted" /\ Download(t)
  BY <1>4, <1>5 DEF TransferInv, Known, Flying
<1>7. x.id = t /\ x \in Elems(net[m][n])
  <2>1. x \in Message /\ x.id = t /\ x \in Elems(net[From(x)][To(x)])
    BY DEF Flight, FlightIn
  <2>2. From(x) = m /\ To(x) = n
    BY <1>3, <1>4, <1>6, <2>1, RestFollows DEF Lonely, Requests
  <2> QED
    BY <2>1, <2>2
<1>8. PICK j \in DOMAIN net[m][n] : net[m][n][j] = x
  BY <1>7 DEF Elems
<1>9. DOMAIN net[m][n] = 1 .. Len(net[m][n]) /\ Len(net[m][n]) \in Nat
  BY <1>2
<1>10. ~(i < j) /\ i # j
  <2>1. i < j => MayFollow(msg, x)
    BY <1>1, <1>2, <1>8, <1>9 DEF Fit, Ordered
  <2> QED
    BY <1>1, <1>6, <1>7, <1>8, <2>1 DEF MayFollow
<1>11. j \in 1 .. i - 1
  BY <1>9, <1>10
<1> QED
  BY <1>1, <1>6, <1>7, <1>8, <1>11

LEMMA ChunksAreExpected == ProtocolInv => ChunksExpected
<1> SUFFICES ASSUME ProtocolInv, NEW m \in Nodes, NEW n \in caps,
                    NEW i \in 1 .. Len(net[m][n]),
                    net[m][n][i].type \in {"FileChunk", "FileTransferComplete"},
                    active_downloads[n][net[m][n][i].id] = None
             PROVE  \E j \in 1 .. i - 1 : /\ net[m][n][j].type = "Accepted"
                                          /\ net[m][n][j].id = net[m][n][i].id
  BY DEF ChunksExpected
<1>1. n \in Nodes /\ net[m][n] \in Seq(Message)
  BY DEF ProtocolInv, ProtocolOf, TypeOK, VariableTypes
<1>2. net[m][n][i].id \in Transfers
  BY <1>1, MessageFields
<1> QED
  BY <1>2, MessageIsExpected DEF ProtocolInv

\* A block or a completion never reaches a handler that does not know its
\* transfer: the upload was registered before it was accepted, and of a download
\* the acceptance is handled first.  Otherwise the block would be dropped unseen.
THEOREM BlocksAreExpected == Spec => []ChunksExpected
BY ProtocolInvariant, ChunksAreExpected, PTL

\* The bridge's own writes are requested elsewhere.
Asked == \A t \in requested : Job[t].kind \in {"upload", "download"}

LEMMA AskedHolds == Spec => []Asked
<1>1. Init => Asked
  BY DEF Init, Asked
<1>2. Asked /\ [Next]_vars => Asked'
  <2> SUFFICES ASSUME Asked, [Next]_vars  PROVE Asked'
    OBVIOUS
  <2>1. ASSUME NEW t \in Transfers, StartUpload(t) \/ StartDownload(t)  PROVE Asked'
    BY <2>1 DEF StartUpload, StartDownload, Asked
  <2>2. CASE UNCHANGED requested
    BY <2>2 DEF Asked
  <2>3. ASSUME NEW m \in Nodes, NEW n \in Nodes, Handle(m, n)  PROVE UNCHANGED requested
    BY <2>3 DEF Handle, HandleUploadRequest, HandleDownloadRequest, HandleAccepted,
                HandleRejected, HandleChunk, HandleComplete, HandleNothing, history
  <2>4. ASSUME NEW n \in Nodes, NEW p \in Paths,
               HandleDelete(n, p) \/ \E q \in Paths : HandleRename(n, p, q)
        PROVE  UNCHANGED requested
    BY <2>4 DEF HandleDelete, HandleRename
  <2>5. ASSUME NEW t \in Transfers, SendingTask(t) \/ ReaderRead(t)  PROVE UNCHANGED requested
    BY <2>5 DEF SendingTask, SenderOpen, SenderForward, ReaderRead, history
  <2> QED
    BY <2>1, <2>2, <2>3, <2>4, <2>5 DEF Next, vars
<1> QED
  BY <1>1, <1>2, PTL DEF Spec

LEMMA EntriesAreReclaimed == ProtocolInv /\ Asked => EntriesReclaimed
<1> SUFFICES ASSUME ProtocolInv, Asked, NEW t \in Transfers, Handled(t), AtRest(t), NEW n \in Nodes
             PROVE  /\ active_downloads[n][t] # None =>
                          /\ Job[t].kind = "upload"
                          /\ result[t] = "rejected" \/ sender[t].phase = "failed"
                    /\ active_uploads[n][t] # None => result[t] = "rejected"
  BY DEF EntriesReclaimed
<1>1. TransferInv(t) /\ t \in requested /\ sender[t].phase \in {"idle", "finished", "failed"}
  BY DEF ProtocolInv, ProtocolOf, AtRest
<1>2. Flight(t) = {}
  <2> SUFFICES ASSUME NEW x \in Flight(t)  PROVE FALSE
    OBVIOUS
  <2>1. /\ x.id = t /\ x \in Elems(net[From(x)][To(x)])
        /\ From(x) \in Nodes /\ To(x) \in Nodes
    BY RouteIsNodes DEF Flight, FlightIn
  <2>2. net[From(x)][To(x)] \in Seq(Message)
    BY <2>1 DEF ProtocolInv, ProtocolOf, ChannelInv, Channels
  <2>3. PICK i \in 1 .. Len(net[From(x)][To(x)]) : net[From(x)][To(x)][i] = x
    BY <2>1, <2>2 DEF Elems
  <2> QED
    BY <2>1, <2>3 DEF AtRest
<1>3. ~Running(t) /\ \A types : ~Flying(t, types)
  BY <1>1, <1>2 DEF Running, Flying
<1>4. active_downloads[n][t] # None => Registered(t)
  BY <1>1 DEF TransferInv, Entered, Registered
<1>5. active_uploads[n][t] # None => Offered(t) /\ ~Download(t)
  BY <1>1 DEF TransferInv, Entered, Offered
<1>6. Registered(t) => ~Download(t) /\ sender[t].phase # "finished"
  BY <1>1, <1>3 DEF TransferInv, Reclaimed
<1>7. Offered(t) => sender[t].phase = "idle"
  BY <1>1 DEF TransferInv, Known
<1>8. ~Download(t) /\ sender[t].phase = "idle" => result[t] = "rejected"
  BY <1>1, <1>3 DEF TransferInv, Reclaimed
<1>9. ~Download(t) => Job[t].kind = "upload"
  BY <1>1 DEF Asked, Download
<1> QED
  BY <1>1, <1>4, <1>5, <1>6, <1>7, <1>8, <1>9

\* The maps do not grow with every transfer: once nothing is left to do for one,
\* only an upload that was rejected or could not be opened leaves an entry.
THEOREM MapsAreReclaimed == Spec => []EntriesReclaimed
BY ProtocolInvariant, AskedHolds, EntriesAreReclaimed, PTL
-----------------------------------------------------------------------------
(* The data: what the sender opened, what is on its way, what has arrived. *)

Got(t) == Contents(disk[Receiver(t)][Place(t)])

\* The history variable original is what a task that has opened its file reads.
Opened(t) ==
    /\ sender[t].phase \in {"streaming", "finished"} <=> original[t] # None
    /\ sender[t].phase \in {"idle", "opening", "failed"} =>
          sender[t].offset = 0 /\ sender[t].pos = 0
    /\ sender[t].phase # "streaming" => ~sender[t].reading

\* Blocks read and not yet sent: all in the pipe but the end of the file.
Ahead(t) == IF sender[t].reading THEN Len(sender[t].pipe) ELSE Len(sender[t].pipe) - 1

\* The pipe holds what lies between the offset of the sending task and the
\* position of the reading task.
Piped(t) ==
    /\ sender[t].reading => OpenFile(t) = original[t]
    /\ sender[t].phase = "streaming" =>
          /\ sender[t].pos = sender[t].offset + Ahead(t)
          /\ sender[t].pos <= Len(original[t])
          /\ \A k \in 1 .. Ahead(t) : sender[t].pipe[k] = original[t][sender[t].offset + k]
          /\ ~sender[t].reading =>
                /\ Ahead(t) >= 0 /\ sender[t].pipe[Ahead(t) + 1] = Eof
                /\ sender[t].pos = Len(original[t])
    /\ sender[t].phase = "finished" => sender[t].offset = Len(original[t])

\* The receiver writes what comes: it has, or will have, an empty destination.
Live(t) ==
    /\ Receiver(t) \in caps
    /\ Download(t) \/ (Registered(t) /\ (sender[t].phase # "idle" \/ Flying(t, {"Accepted"})))

\* What was sent has arrived, up to the blocks that are in flight.
Arrived(t) ==
    /\ Len(Got(t)) <= sender[t].offset
    /\ \A i \in 1 .. Len(Got(t)) : Got(t)[i] = original[t][i]
    /\ \A k \in Nat : Len(Got(t)) <= k /\ k < sender[t].offset =>
          \E x \in Flight(t) : x.type = "FileChunk" /\ x.offset = k
    /\ \A x \in Flight(t) : x.type = "FileChunk" =>
          Len(Got(t)) <= x.offset /\ x.data = original[t][x.offset + 1]

Data(t) ==
    /\ Opened(t)
    /\ t \notin damaged => Piped(t) /\ (Live(t) => Arrived(t)) /\ CompleteIsExact(t)

DataOf(T) == ProtocolOf(T) /\ \A t \in T : Data(t)

DataInv == DataOf(Transfers)

LEMMA SenderTypes ==
    ASSUME NEW T \in SUBSET Transfers, ProtocolOf(T),
           NEW t \in Transfers
    PROVE  /\ sender \in [Transfers -> SenderState] /\ sender[t] \in SenderState
           /\ sender[t].offset \in Nat /\ sender[t].pos \in Nat
           /\ sender[t].pipe \in Seq(Block \cup {Eof, Fault}) /\ Len(sender[t].pipe) \in Nat
           /\ sender[t].reading \in BOOLEAN
           /\ original[t] \in File \cup {None}
BY DEF ProtocolOf, TypeOK, VariableTypes, SenderState

LEMMA PlaceType ==
    ASSUME NEW T \in SUBSET Transfers, ProtocolOf(T),
           NEW t \in Transfers, t \in T, Download(t) \/ Registered(t)
    PROVE  Place(t) \in Places /\ (Place(t) = t \/ Place(t) \in Paths)
<1>1. CASE Download(t)
  BY <1>1 DEF Place, Places
<1>2. CASE ~Download(t) /\ Registered(t)
  <2> DEFINE entry == active_downloads[Receiver(t)][t]
  <2>1. entry \in Entry
    BY <1>2, EndsAreNodes DEF Registered, ProtocolOf, TypeOK, VariableTypes
  <2>2. entry.path = Place(t) /\ entry.path \in Places
    BY <1>2, <2>1, EndsAreNodes DEF Registered, ProtocolOf, TransferInv, Entered, Entry
  <2>3. Place(t) = Job[t].remote
    BY <1>2 DEF Place
  <2>4. Job[t].remote \in Paths \cup {None}
    BY Ends
  <2> QED
    BY <2>2, <2>3, <2>4, PathsAreSome
<1> QED
  BY <1>1, <1>2

LEMMA GotType ==
    ASSUME NEW T \in SUBSET Transfers, ProtocolOf(T),
           NEW t \in Transfers, t \in T, Live(t)
    PROVE  Got(t) \in File /\ Len(Got(t)) \in Nat
<1>1. disk[Receiver(t)][Place(t)] \in File \cup {None}
  <2>1. Place(t) \in Places
    BY PlaceType DEF Live
  <2> QED
    BY <2>1, EndsAreNodes DEF ProtocolOf, TypeOK, VariableTypes
<1>2. Got(t) \in File
  BY <1>1 DEF Got, Contents, File
<1> QED
  BY <1>2 DEF File

-----------------------------------------------------------------------------
(* The data: transfers a step is not about.                                *)

\* Neither the tasks nor the messages of t move.
Unmoved(t) ==
    /\ Flight(t)' = Flight(t)
    /\ sender'[t].phase = sender[t].phase /\ sender'[t].offset = sender[t].offset
    /\ sender'[t].pos = sender[t].pos /\ sender'[t].pipe = sender[t].pipe
    /\ sender'[t].reading = sender[t].reading
    /\ Registered(t)' <=> Registered(t)
    /\ original'[t] = original[t] /\ delivered'[t] = delivered[t] /\ result'[t] = result[t]
    /\ caps' = caps

\* Unless the step damages t, neither of its files changes.
Steady(t) ==
    t \notin damaged' =>
        /\ t \notin damaged
        /\ sender[t].reading => OpenFile(t)' = OpenFile(t)
        /\ Live(t) => Got(t)' = Got(t)

LEMMA DataKept ==
    ASSUME NEW t \in Transfers, Data(t), Unmoved(t), Steady(t)
    PROVE  Data(t)'
<1>1. Opened(t)'
  BY DEF Data, Opened, Unmoved
<1>2. ASSUME t \notin damaged'
      PROVE  Piped(t)' /\ (Live(t)' => Arrived(t)') /\ CompleteIsExact(t)'
  <2>1. t \notin damaged /\ Piped(t) /\ (Live(t) => Arrived(t)) /\ CompleteIsExact(t)
    BY <1>2 DEF Steady, Data
  <2>2. Ahead(t)' = Ahead(t)
    BY DEF Unmoved, Ahead
  <2>3. Piped(t)'
    BY <1>2, <2>1, <2>2 DEF Unmoved, Steady, Piped
  <2>4. Live(t)' <=> Live(t)
    BY DEF Unmoved, Live, Flying
  <2>5. Live(t) => Arrived(t)'
    <3> SUFFICES ASSUME Live(t)  PROVE Arrived(t)'
      OBVIOUS
    <3>1. Got(t)' = Got(t) /\ Arrived(t)
      BY <1>2, <2>1 DEF Steady
    <3> QED
      BY <3>1 DEF Arrived, Unmoved
  <2>6. CompleteIsExact(t)'
    BY <2>1 DEF CompleteIsExact, Unmoved
  <2> QED
    BY <2>3, <2>4, <2>5, <2>6
<1> QED
  BY <1>1, <1>2 DEF Data

\* A step about one transfer.
LEMMA OtherDataKept ==
    ASSUME NEW T \in SUBSET Transfers, DataOf(T),
           NEW t \in Transfers, t \in T, ProtocolOf(T)', Data(t)',
           \A u \in T \ {t} : Unmoved(u) /\ Steady(u)
    PROVE  DataOf(T)'
<1>1. \A u \in T \ {t} : Data(u)'
  BY DataKept DEF DataOf
<1> QED
  BY <1>1 DEF DataOf

LEMMA AllDataKept ==
    ASSUME NEW T \in SUBSET Transfers, DataOf(T),
           ProtocolOf(T)', \A u \in T : Unmoved(u) /\ Steady(u)
    PROVE  DataOf(T)'
BY DataKept DEF DataOf

\* Nothing happens to the disk.
LEMMA SteadyAside ==
    ASSUME UNCHANGED <<disk, damaged>>, NEW t \in Transfers, sender'[t] = sender[t]
    PROVE  Steady(t)
BY DEF Steady, OpenFile, Got

\* A file nobody receives into is not the destination of a live transfer.
LEMMA LiveElsewhere ==
    ASSUME NEW T \in SUBSET Transfers, ProtocolOf(T),
           NEW t \in Transfers, t \in T, Live(t), NEW n, NEW p, p # t, t \notin Receiving(n, p)
    PROVE  Place(t) \in Places /\ <<Receiver(t), Place(t)>> # <<n, p>>
<1>1. Place(t) \in Places /\ (Download(t) \/ Registered(t))
  BY PlaceType DEF Live
<1>2. CASE Registered(t)
  <2>1. active_downloads[Receiver(t)][t].path = Place(t)
    BY <1>2, EndsAreNodes DEF Registered, ProtocolOf, TransferInv, Entered
  <2> QED
    BY <1>1, <1>2, <2>1 DEF Registered, Receiving
<1>3. CASE Download(t)
  BY <1>1, <1>3 DEF Place
<1> QED
  BY <1>1, <1>2, <1>3

\* A write for u at its destination damages whoever else uses that file.
Overwritten(n, p, u) ==
    /\ p = u \/ p \in Paths
    /\ \A k \in Nodes, q \in Places : <<k, q>> # <<n, p>> => disk'[k][q] = disk[k][q]
    /\ UNCHANGED sender
    /\ damaged \cup ((Receiving(n, p) \cup Reading(n, p)) \ {u}) \subseteq damaged'

LEMMA SteadyWrite ==
    ASSUME NEW T \in SUBSET Transfers, ProtocolOf(T),
           NEW n \in Nodes, NEW u \in Transfers, NEW p, Overwritten(n, p, u)
    PROVE  \A t \in T \ {u} : Steady(t)
<1> USE DEF Overwritten
<1> SUFFICES ASSUME NEW t \in Transfers, t \in T, t # u, t \notin damaged'
             PROVE  /\ t \notin damaged
                    /\ sender[t].reading => OpenFile(t)' = OpenFile(t)
                    /\ Live(t) => Got(t)' = Got(t)
  BY DEF Steady
<1>1. t \notin damaged /\ t \notin Receiving(n, p) /\ t \notin Reading(n, p)
  OBVIOUS
<1>2. sender[t].reading => OpenFile(t)' = OpenFile(t)
  <2> SUFFICES ASSUME sender[t].reading, sender[t].file # None
               PROVE  disk'[Sender(t)][sender[t].file] = disk[Sender(t)][sender[t].file]
    BY DEF OpenFile
  <2>1. sender[t].file \in Places
    BY SenderTypes DEF SenderState
  <2>2. <<Sender(t), sender[t].file>> # <<n, p>>
    BY <1>1 DEF Reading
  <2> QED
    BY <2>1, <2>2, EndsAreNodes
<1>3. Live(t) => Got(t)' = Got(t)
  <2> SUFFICES ASSUME Live(t)
               PROVE  disk'[Receiver(t)][Place(t)] = disk[Receiver(t)][Place(t)]
    BY DEF Got
  <2>1. p # t
    BY DistinctAssumption
  <2>2. Place(t) \in Places /\ <<Receiver(t), Place(t)>> # <<n, p>>
    BY <1>1, <2>1, LiveElsewhere
  <2> QED
    BY <2>2, EndsAreNodes
<1> QED
  BY <1>1, <1>2, <1>3
-----------------------------------------------------------------------------
(* The data: steps that move messages only.                                *)

LEMMA ArrivedKept ==
    ASSUME NEW t \in Transfers, Arrived(t), UNCHANGED <<disk, original>>,
           sender'[t].offset = sender[t].offset,
           \A x : x.type = "FileChunk" => (x \in Flight(t)' <=> x \in Flight(t))
    PROVE  Arrived(t)'
<1>1. Got(t)' = Got(t)
  BY DEF Got
<1>2. /\ Len(Got(t)) <= sender[t].offset
      /\ \A i \in 1 .. Len(Got(t)) : Got(t)[i] = original[t][i]
  BY DEF Arrived
<1>3. \A k \in Nat : Len(Got(t)) <= k /\ k < sender[t].offset =>
          \E x \in Flight(t)' : x.type = "FileChunk" /\ x.offset = k
  BY DEF Arrived
<1>4. \A x \in Flight(t)' : x.type = "FileChunk" =>
          Len(Got(t)) <= x.offset /\ x.data = original[t][x.offset + 1]
  BY DEF Arrived
<1> QED
  BY <1>1, <1>2, <1>3, <1>4 DEF Arrived

\* The sending task of t stays as it is, and so do the blocks on their way.
LEMMA DataSameTask ==
    ASSUME NEW t \in Transfers, Data(t), sender'[t] = sender[t],
           UNCHANGED <<disk, original, damaged>>,
           Live(t)' => /\ Live(t)
                       /\ \A x : x.type = "FileChunk" => (x \in Flight(t)' <=> x \in Flight(t)),
           t \notin damaged => CompleteIsExact(t)'
    PROVE  Data(t)'
<1>1. Opened(t)'
  BY DEF Data, Opened
<1>2. ASSUME t \notin damaged'
      PROVE  Piped(t)' /\ (Live(t)' => Arrived(t)') /\ CompleteIsExact(t)'
  <2>1. Piped(t) /\ (Live(t) => Arrived(t)) /\ CompleteIsExact(t)'
    BY <1>2 DEF Data
  <2>2. Ahead(t)' = Ahead(t) /\ OpenFile(t)' = OpenFile(t)
    BY DEF Ahead, OpenFile
  <2>3. Piped(t)'
    BY <2>1, <2>2 DEF Piped
  <2>4. Live(t)' => Arrived(t)'
    BY <2>1, ArrivedKept
  <2> QED
    BY <2>1, <2>3, <2>4
<1> QED
  BY <1>1, <1>2 DEF Data

LEMMA DataInit == Init => DataInv
<1> SUFFICES ASSUME Init  PROVE DataInv
  OBVIOUS
<1>1. ProtocolInv
  BY ProtocolInit
<1>2. ASSUME NEW t \in Transfers  PROVE Data(t)
  <2>1. /\ sender[t].phase = "idle" /\ sender[t].offset = 0 /\ sender[t].pos = 0
        /\ ~sender[t].reading /\ original[t] = None /\ result[t] = "none"
    BY DEF Init, IdleSender
  <2>2. Flight(t) = {} /\ ~Registered(t)
    <3>1. t \notin requested
      BY DEF Init
    <3> QED
      BY <1>1, <3>1, EndsAreNodes
      DEF ProtocolInv, ProtocolOf, TransferInv, Fresh, Entered, Registered
  <2>3. Opened(t) /\ Piped(t) /\ CompleteIsExact(t)
    BY <2>1 DEF Opened, Piped, CompleteIsExact
  <2>4. Live(t) => Arrived(t)
    <3> SUFFICES ASSUME Download(t)  PROVE Arrived(t)
      BY <2>2 DEF Live
    <3>1. disk[Receiver(t)][t] = None
      <4>1. t \in Places /\ t \notin Paths /\ Receiver(t) \in Nodes
        BY EndsAreNodes, DistinctAssumption DEF Places
      <4>2. PICK d \in InitialDisks :
              disk = [n \in Nodes |-> [p \in Places |-> IF p \in Paths THEN d[n][p] ELSE None]]
        BY DEF Init
      <4> QED
        BY <4>1, <4>2
    <3>2. Got(t) = <<>>
      BY <3>1 DEF Got, Place, Contents
    <3> QED
      BY <2>1, <2>2, <3>2 DEF Arrived
  <2> QED
    BY <2>3, <2>4 DEF Data
<1> QED
  BY <1>1, <1>2 DEF DataInv, DataOf, ProtocolInv

LEMMA DataStart ==
    ASSUME NEW T \in SUBSET Transfers, DataOf(T),
           NEW t \in Transfers, t \in T, StartUpload(t) \/ StartDownload(t)
    PROVE  DataOf(T)'
<1>1. ProtocolOf(T) /\ Data(t)
  BY DEF DataOf
<1>2. /\ ProtocolOf(T)'
      /\ \A u \in Transfers \ {t} : Undisturbed(u)
      /\ result[t] = "none" /\ ~Registered(t)'
      /\ \A x \in Flight(t) \cup Flight(t)' : x.type # "FileChunk"
  BY <1>1, ProtocolStartUpload, ProtocolStartDownload
<1>3. UNCHANGED <<disk, sender, original, delivered, damaged, caps, result>>
  BY DEF StartUpload, StartDownload
<1>4. \A u \in T \ {t} : Unmoved(u) /\ Steady(u)
  BY <1>2, <1>3, SteadyAside, EndsAreNodes DEF Unmoved, Undisturbed, Registered
<1>5. Live(t)' => Live(t)
  BY <1>2, <1>3 DEF Live
<1>6. CompleteIsExact(t)'
  BY <1>2, <1>3 DEF CompleteIsExact
<1>7. Data(t)'
  BY <1>1, <1>2, <1>3, <1>5, <1>6, DataSameTask
<1> QED
  BY <1>2, <1>4, <1>7, OtherDataKept

\* A handler that only takes its message, as far as the other transfers go.
LEMMA OthersAside ==
    ASSUME NEW T \in SUBSET Transfers, ProtocolOf(T),
           NEW m \in Nodes, NEW n \in Nodes, net[m][n] # <<>>, Consume(m, n),
           NEW msg, NEW t \in Transfers, Foremost(m, n, msg, t),
           UNCHANGED <<disk, original, damaged, caps>>,
           \A u \in Transfers \ {t} :
              /\ sender'[u] = sender[u] /\ result'[u] = result[u] /\ delivered'[u] = delivered[u]
              /\ \A k \in Nodes : active_downloads'[k][u] = active_downloads[k][u]
    PROVE  \A u \in Transfers \ {t} : Unmoved(u) /\ Steady(u)
<1>1. \A u \in Transfers \ {t} : Flight(u)' = Flight(u)
  BY TakenAway
<1>2. \A u \in Transfers \ {t} : Registered(u)' <=> Registered(u)
  BY EndsAreNodes DEF Registered
<1>3. \A u \in Transfers \ {t} : Unmoved(u)
  BY <1>1, <1>2 DEF Unmoved
<1>4. \A u \in Transfers \ {t} : Steady(u)
  BY SteadyAside
<1> QED
  BY <1>3, <1>4

\* The task of t starts, and has sent nothing yet.
LEMMA DataOpening ==
    ASSUME NEW t \in Transfers, Data(t), sender[t].phase = "idle",
           sender'[t].phase = "opening" /\ sender'[t].offset = 0 /\ sender'[t].pos = 0,
           ~sender'[t].reading,
           UNCHANGED <<disk, original, damaged, result, delivered>>,
           Live(t)' => Live(t),
           \A x \in Flight(t) \cup Flight(t)' : x.type # "FileChunk"
    PROVE  Data(t)'
<1>1. sender[t].offset = 0 /\ original[t] = None
  BY DEF Data, Opened
<1>2. Opened(t)' /\ Piped(t)'
  BY <1>1 DEF Opened, Piped
<1>3. ASSUME t \notin damaged, Live(t)'  PROVE Arrived(t)'
  <2>1. Arrived(t)
    BY <1>3 DEF Data
  <2> QED
    BY <1>1, <2>1, ArrivedKept
<1>4. t \notin damaged => CompleteIsExact(t)'
  BY DEF Data, CompleteIsExact
<1> QED
  BY <1>2, <1>3, <1>4 DEF Data

LEMMA OpeningFields ==
    ASSUME NEW p
    PROVE  /\ OpeningSender(p).phase = "opening" /\ OpeningSender(p).offset = 0
           /\ OpeningSender(p).pos = 0 /\ ~OpeningSender(p).reading
BY DEF OpeningSender, IdleSender

LEMMA DataDownloadRequest ==
    ASSUME NEW T \in SUBSET Transfers, DataOf(T),
           NEW m \in Nodes, NEW n \in Nodes, HandleDownloadRequest(m, n),
           NEW msg, NEW t \in T, Foremost(m, n, msg, t)
    PROVE  DataOf(T)'
<1>0. Head(net[m][n]) = msg /\ msg.id = t
  BY DEF Foremost
<1>1. ProtocolOf(T) /\ ProtocolOf(T)'
  BY ProtocolDownloadRequest DEF DataOf
<1>2. net[m][n] # <<>> /\ Consume(m, n) /\ msg.type = "FileDownloadRequest"
  BY <1>0 DEF HandleDownloadRequest, Arrives
<1>3. /\ sender' = [sender EXCEPT ![t] = OpeningSender(msg.path)]
      /\ UNCHANGED <<disk, active_downloads, caps, original, delivered, damaged, result>>
  BY <1>0 DEF HandleDownloadRequest, history
<1>4. t \in Transfers /\ Told(t, msg) /\ (Lonely(t, msg) => Flight(t) = {msg})
  <2>1. t \in Transfers /\ Told(t, msg)
    BY <1>0, <1>1, <1>2, Taken
  <2>2. Lonely(t, msg) => Flight(t) = {msg}
    BY <1>0, <1>1, <1>2, Taken, SMTT(30)
  <2> QED
    BY <2>1, <2>2
<1>5. Flight(t) = {msg} /\ sender[t].phase = "idle" /\ Download(t)
  BY <1>2, <1>4 DEF Told, Lonely, Requests
<1>6. Flight(t)' = Flight(t) \ {msg}
  BY <1>0, <1>1, <1>2, TakenAway
<1>7. /\ sender'[t] = OpeningSender(msg.path)
      /\ \A u \in Transfers \ {t} : sender'[u] = sender[u]
  BY <1>1, <1>3, <1>4, SenderTypes
<1>8. \A u \in T \ {t} : Unmoved(u) /\ Steady(u)
  <2>1. UNCHANGED <<disk, active_downloads, caps, original, delivered, damaged, result>>
    BY <1>3
  <2> QED
    BY <1>0, <1>1, <1>2, <1>7, <2>1, OthersAside
<1>9. Data(t)'
  <2>1. Data(t) /\ (Live(t)' => Live(t))
    BY <1>3, <1>4, <1>5 DEF DataOf, Live
  <2>2. \A x \in Flight(t) \cup Flight(t)' : x.type # "FileChunk"
    BY <1>2, <1>5, <1>6
  <2>3. UNCHANGED <<disk, original, damaged, result, delivered>>
    BY <1>3
  <2> QED
    BY <1>4, <1>5, <1>7, <2>1, <2>2, <2>3, DataOpening, OpeningFields
<1> QED
  BY <1>1, <1>4, <1>8, <1>9, OtherDataKept

LEMMA DataUploadAccepted ==
    ASSUME NEW T \in SUBSET Transfers, DataOf(T),
           NEW m \in Nodes, NEW n \in Nodes, HandleAccepted(m, n),
           NEW msg, NEW t \in T, Foremost(m, n, msg, t),
           active_uploads[n][t] # None
    PROVE  DataOf(T)'
<1>1. ProtocolOf(T)
  BY DEF DataOf
<1>2. net[m][n] # <<>> /\ Consume(m, n) /\ msg.type = "Accepted"
  BY DEF HandleAccepted, Arrives, Foremost
<1>3. /\ sender' = [sender EXCEPT ![t] = OpeningSender(active_uploads[n][t])]
      /\ UNCHANGED <<disk, active_downloads, caps, original, delivered, damaged, result>>
  BY DEF HandleAccepted, history, Foremost
<1>4. t \in Transfers
  BY <1>1, <1>2, Taken
<1>5. /\ ProtocolOf(T)'
      /\ ~Download(t) /\ Registered(t) /\ sender[t].phase = "idle" /\ Flight(t) = {msg}
  <2>1. ProtocolOf(T)'
    BY <1>1, ProtocolUploadAccepted
  <2>2. ~Download(t) /\ Registered(t)
    BY <1>1, ProtocolUploadAccepted
  <2>3. sender[t].phase = "idle"
    BY <1>1, ProtocolUploadAccepted
  <2>4. Lonely(t, msg) => Flight(t) = {msg}
    BY <1>1, <1>2, Taken
  <2>5. Flight(t) = {msg}
    BY <1>2, <2>2, <2>4 DEF Lonely
  <2> QED
    BY <2>1, <2>2, <2>3, <2>5
<1>6. Flight(t)' = Flight(t) \ {msg}
  BY <1>1, <1>2, TakenAway
<1>7. /\ sender'[t] = OpeningSender(active_uploads[n][t])
      /\ \A u \in Transfers \ {t} : sender'[u] = sender[u]
  BY <1>1, <1>3, <1>4, SenderTypes
<1>8. \A u \in T \ {t} : Unmoved(u) /\ Steady(u)
  <2>1. UNCHANGED <<disk, active_downloads, caps, original, delivered, damaged, result>>
    BY <1>3
  <2> QED
    BY <1>1, <1>2, <1>7, <2>1, OthersAside
<1>9. Data(t)'
  <2>1. Data(t) /\ (Live(t)' => Live(t))
    BY <1>2, <1>3, <1>4, <1>5 DEF DataOf, Live, Flying
  <2>2. \A x \in Flight(t) \cup Flight(t)' : x.type # "FileChunk"
    BY <1>2, <1>5, <1>6
  <2>3. UNCHANGED <<disk, original, damaged, result, delivered>>
    BY <1>3
  <2> QED
    BY <1>4, <1>5, <1>7, <2>1, <2>2, <2>3, DataOpening, OpeningFields
<1> QED
  BY <1>4, <1>5, <1>8, <1>9, OtherDataKept

LEMMA DataDownloadAccepted ==
    ASSUME NEW T \in SUBSET Transfers, DataOf(T),
           NEW m \in Nodes, NEW n \in Nodes, HandleAccepted(m, n),
           NEW msg, NEW t \in T, Foremost(m, n, msg, t),
           active_uploads[n][t] = None
    PROVE  DataOf(T)'
<1>1. ProtocolOf(T)
  BY DEF DataOf
<1>2. net[m][n] # <<>> /\ Consume(m, n) /\ msg.type = "Accepted"
  BY DEF HandleAccepted, Arrives, Foremost
<1>3. /\ Register(n, t, t, msg.size)
      /\ UNCHANGED <<disk, sender, caps, original, delivered, damaged, result>>
  BY DEF HandleAccepted, history, Foremost
<1>4. t \in Transfers
  BY <1>1, <1>2, Taken
<1>5. ProtocolOf(T)' /\ Download(t)
  BY <1>1, ProtocolDownloadAccepted
<1>6. Flight(t)' = Flight(t) \ {msg}
  BY <1>1, <1>2, TakenAway
<1>7. \A u \in Transfers \ {t}, k \in Nodes : active_downloads'[k][u] = active_downloads[k][u]
  BY <1>1, <1>3, <1>4 DEF Register, ProtocolOf, TypeOK, VariableTypes
<1>8. \A u \in T \ {t} : Unmoved(u) /\ Steady(u)
  <2>1. UNCHANGED <<disk, sender, caps, original, delivered, damaged, result>>
    BY <1>3
  <2> QED
    BY <1>1, <1>2, <1>7, <2>1, OthersAside
<1>9. Data(t)'
  <2>1. UNCHANGED <<disk, sender, caps, original, delivered, damaged, result>> /\ Data(t)
    BY <1>3, <1>4 DEF DataOf
  <2>2. Live(t)' => Live(t)
    BY <1>5, <2>1 DEF Live
  <2>3. \A x : x.type = "FileChunk" => (x \in Flight(t)' <=> x \in Flight(t))
    BY <1>2, <1>6
  <2>4. t \notin damaged => CompleteIsExact(t)'
    BY <2>1 DEF Data, CompleteIsExact
  <2> QED
    BY <1>4, <2>1, <2>2, <2>3, <2>4, DataSameTask
<1> QED
  BY <1>4, <1>5, <1>8, <1>9, OtherDataKept

LEMMA DataRejected ==
    ASSUME NEW T \in SUBSET Transfers, DataOf(T),
           NEW m \in Nodes, NEW n \in Nodes, HandleRejected(m, n),
           NEW msg, NEW t \in T, Foremost(m, n, msg, t)
    PROVE  DataOf(T)'
<1>0. Head(net[m][n]) = msg /\ msg.id = t
  BY DEF Foremost
<1>1. ProtocolOf(T) /\ ProtocolOf(T)'
  BY ProtocolRejected DEF DataOf
<1>2. net[m][n] # <<>> /\ Consume(m, n) /\ msg.type = "Rejected"
  BY <1>0 DEF HandleRejected, Arrives
<1>3. /\ result' = [result EXCEPT ![t] = "rejected"]
      /\ UNCHANGED <<disk, active_downloads, sender, caps, original, delivered, damaged>>
  BY <1>0 DEF HandleRejected
<1>4. t \in Transfers /\ Data(t)
  <2>1. t \in Transfers
    BY <1>0, <1>1, <1>2, Taken
  <2> QED
    BY <2>1 DEF DataOf
<1>5. Flight(t)' = Flight(t) \ {msg}
  BY <1>0, <1>1, <1>2, TakenAway
<1>6. result'[t] = "rejected" /\ \A u \in Transfers \ {t} : result'[u] = result[u]
  BY <1>1, <1>3, <1>4 DEF ProtocolOf, TypeOK, VariableTypes
<1>7. UNCHANGED <<disk, active_downloads, sender, caps, original, delivered, damaged>>
  BY <1>3
<1>8. \A u \in T \ {t} : Unmoved(u) /\ Steady(u)
  BY <1>0, <1>1, <1>2, <1>6, <1>7, OthersAside
<1>9. Data(t)'
  <2>1. Live(t)' => Live(t)
    BY <1>5, <1>7 DEF Live, Registered, Flying
  <2>2. \A x : x.type = "FileChunk" => (x \in Flight(t)' <=> x \in Flight(t))
    BY <1>2, <1>5
  <2>3. CompleteIsExact(t)'
    BY <1>6 DEF CompleteIsExact
  <2> QED
    BY <1>4, <1>7, <2>1, <2>2, <2>3, DataSameTask
<1> QED
  BY <1>1, <1>4, <1>8, <1>9, OtherDataKept

LEMMA DataNothing ==
    ASSUME NEW T \in SUBSET Transfers, DataOf(T),
           NEW m \in Nodes, NEW n \in Nodes, HandleNothing(m, n),
           NEW msg, NEW t \in T, Foremost(m, n, msg, t)
    PROVE  DataOf(T)'
<1>0. Head(net[m][n]) = msg /\ msg.id = t
  BY DEF Foremost
<1>1. ProtocolOf(T) /\ ProtocolOf(T)'
  BY ProtocolNothing DEF DataOf
<1>2. net[m][n] # <<>> /\ Consume(m, n) /\ n \notin caps
  BY DEF HandleNothing
<1>3. UNCHANGED <<disk, active_downloads, sender, caps, original, delivered, damaged, result>>
  BY DEF HandleNothing, history
<1>4. t \in Transfers /\ To(msg) = n
  BY <1>0, <1>1, <1>2, Taken
<1>5. Flight(t)' = Flight(t) \ {msg}
  BY <1>0, <1>1, <1>2, TakenAway
<1>6. \A u \in T \ {t} : Unmoved(u) /\ Steady(u)
  BY <1>0, <1>1, <1>2, <1>3, OthersAside
<1>7. Data(t)'
  <2>1. Live(t)' => Live(t)
    BY <1>3, <1>5 DEF Live, Registered, Flying
  <2>2. Live(t) => msg.type # "FileChunk"
    BY <1>0, <1>2, <1>4 DEF Live, To, Requests, Answers
  <2>3. Live(t)' => \A x : x.type = "FileChunk" => (x \in Flight(t)' <=> x \in Flight(t))
    BY <1>5, <2>1, <2>2
  <2>4. Data(t) /\ (t \notin damaged => CompleteIsExact(t)')
    BY <1>3, <1>4 DEF DataOf, Data, CompleteIsExact
  <2> QED
    BY <1>3, <1>4, <2>1, <2>3, <2>4, DataSameTask
<1> QED
  BY <1>1, <1>4, <1>6, <1>7, OtherDataKept

-----------------------------------------------------------------------------
(* The data: completions and blocks.                                       *)

\* Whoever handles a block or a completion knows its transfer.
LEMMA HeadIsExpected ==
    ASSUME NEW T \in SUBSET Transfers, ProtocolOf(T),
           NEW m \in Nodes, NEW n \in caps, net[m][n] # <<>>,
           NEW msg, NEW t \in T, Foremost(m, n, msg, t),
           msg.type \in {"FileChunk", "FileTransferComplete"}
    PROVE  active_downloads[n][t] # None
<1>1. n \in Nodes /\ net[m][n] \in Seq(Message)
  BY DEF ProtocolOf, TypeOK, VariableTypes
<1>2. 1 \in 1 .. Len(net[m][n]) /\ net[m][n][1] = msg /\ msg.id = t
  BY <1>1 DEF Foremost
<1>3. ~\E j \in 1 .. 1 - 1 : net[m][n][j].type = "Accepted" /\ net[m][n][j].id = msg.id
  OBVIOUS
<1> QED
  BY <1>2, <1>3, MessageIsExpected

\* Nothing in flight, and everything sent: all of the file has arrived.
LEMMA ArrivedAll ==
    ASSUME NEW T \in SUBSET Transfers, ProtocolOf(T),
           NEW t \in Transfers, t \in T, Live(t), Arrived(t), Piped(t), Opened(t),
           sender[t].phase = "finished", \A x \in Flight(t) : x.type # "FileChunk"
    PROVE  Got(t) = original[t]
<1>1. /\ Got(t) \in File /\ Len(Got(t)) \in Nat
      /\ original[t] \in File /\ sender[t].offset = Len(original[t]) /\ sender[t].offset \in Nat
  BY GotType, SenderTypes DEF Opened, Piped
<1>2. Len(Got(t)) = Len(original[t])
  <2>1. ~(Len(Got(t)) < sender[t].offset)
    BY <1>1 DEF Arrived
  <2> QED
    BY <1>1, <2>1 DEF Arrived
<1>3. \A i \in 1 .. Len(Got(t)) : Got(t)[i] = original[t][i]
  BY DEF Arrived
<1> QED
  BY <1>1, <1>2, <1>3, SeqEqual DEF File

LEMMA DataComplete ==
    ASSUME NEW T \in SUBSET Transfers, DataOf(T),
           NEW m \in Nodes, NEW n \in Nodes, HandleComplete(m, n),
           NEW msg, NEW t \in T, Foremost(m, n, msg, t)
    PROVE  DataOf(T)'
<1>0. Head(net[m][n]) = msg /\ msg.id = t
  BY DEF Foremost
<1>1. ProtocolOf(T) /\ ProtocolOf(T)'
  BY ProtocolComplete DEF DataOf
<1>2. /\ net[m][n] # <<>> /\ Consume(m, n) /\ msg.type = "FileTransferComplete"
      /\ n \in caps
  BY <1>0 DEF HandleComplete, Arrives
<1>3. UNCHANGED <<disk, sender, caps, original, damaged>>
  BY DEF HandleComplete
<1>4. t \in Transfers
  BY <1>0, <1>1, <1>2, Taken
<1>5. active_downloads[n][t] # None
  BY <1>0, <1>1, <1>2, HeadIsExpected
<1>6. /\ Deregister(n, t)
      /\ result' = [result EXCEPT ![t] = "complete"]
      /\ delivered' = [delivered EXCEPT ![t] = disk[n][active_downloads[n][t].path]]
  BY <1>0, <1>5 DEF HandleComplete
<1>7. Flight(t)' = Flight(t) \ {msg}
  BY <1>0, <1>1, <1>2, TakenAway
<1>8. Flight(t) = {msg} /\ n = Receiver(t) /\ sender[t].phase = "finished"
  BY <1>0, <1>1, <1>2, LastFlight
<1>9. /\ delivered'[t] = disk[n][active_downloads[n][t].path]
      /\ \A u \in Transfers \ {t} : result'[u] = result[u] /\ delivered'[u] = delivered[u]
      /\ \A u \in Transfers \ {t}, k \in Nodes : active_downloads'[k][u] = active_downloads[k][u]
  <2>1. /\ active_downloads \in [Nodes -> [Transfers -> Entry \cup {None}]]
        /\ result \in [Transfers -> {"none", "rejected", "complete"}]
        /\ delivered \in [Transfers -> File \cup {None}]
    BY <1>1 DEF ProtocolOf, TypeOK, VariableTypes
  <2> QED
    BY <1>4, <1>6, <2>1 DEF Deregister
<1>10. \A u \in T \ {t} : Unmoved(u) /\ Steady(u)
  <2>1. UNCHANGED <<disk, sender, caps, original, damaged>> /\ t \in Transfers /\ msg.id = t
    BY <1>0, <1>3, <1>4
  <2>2. \A u \in Transfers \ {t} :
           /\ sender'[u] = sender[u] /\ result'[u] = result[u] /\ delivered'[u] = delivered[u]
           /\ \A k \in Nodes : active_downloads'[k][u] = active_downloads[k][u]
    BY <1>3, <1>9
  <2> QED
    BY <1>0, <1>1, <1>2, <2>1, <2>2, OthersAside
<1>11. Registered(t) /\ Live(t) /\ active_downloads[n][t].path = Place(t)
  BY <1>1, <1>2, <1>4, <1>5, <1>8
  DEF Registered, Live, ProtocolOf, TransferInv, Entered
<1>12. Data(t)'
  <2>1. Data(t)
    BY <1>4 DEF DataOf
  <2>2. \A x \in Flight(t) : x.type # "FileChunk"
    BY <1>2, <1>8
  <2>3. \A x : x.type = "FileChunk" => (x \in Flight(t)' <=> x \in Flight(t))
    BY <1>2, <1>7
  <2>4. ASSUME t \notin damaged  PROVE CompleteIsExact(t)'
    <3>1. Got(t) = original[t]
      BY <1>1, <1>4, <1>8, <1>11, <2>1, <2>2, <2>4, ArrivedAll DEF Data
    <3>2. Contents(delivered'[t]) = Got(t)
      BY <1>8, <1>9, <1>11 DEF Got
    <3> QED
      BY <1>3, <3>1, <3>2 DEF CompleteIsExact
  <2> QED
    BY <1>3, <1>4, <1>11, <2>1, <2>3, <2>4, DataSameTask
<1> QED
  BY <1>1, <1>4, <1>10, <1>12, OtherDataKept

\* A block written where the file ends extends it.
LEMMA WriteAtEnd ==
    ASSUME NEW file \in File \cup {None}, NEW data \in Block
    PROVE  LET old == Contents(file)
               new == WriteBlock(file, Len(old), data)
           IN  /\ new \in File /\ Contents(new) = new /\ Len(new) = Len(old) + 1
               /\ \A i \in 1 .. Len(old) : new[i] = old[i]
               /\ new[Len(old) + 1] = data
<1> DEFINE old == Contents(file)
           new == WriteBlock(file, Len(old), data)
           f == [i \in 1 .. Len(old) + 1 |-> IF i = Len(old) + 1 THEN data
                                             ELSE IF i <= Len(old) THEN old[i] ELSE Hole]
<1>1. old \in Seq(Block) /\ Len(old) \in Nat
  BY DEF Contents, File
<1>2. new \in File
  BY <1>1, WriteBlockType
<1>3. new = f
  BY <1>1 DEF WriteBlock
<1>4. Len(f) = Len(old) + 1
  <2>1. f \in Seq(Block)
    BY <1>2, <1>3 DEF File
  <2>2. DOMAIN f = 1 .. Len(old) + 1
    OBVIOUS
  <2> QED
    BY <1>1, <2>1, <2>2
<1>5. (\A i \in 1 .. Len(old) : f[i] = old[i]) /\ f[Len(old) + 1] = data
  BY <1>1
<1>6. Contents(new) = new
  BY <1>2, FileIsSome DEF Contents
<1> QED
  BY <1>2, <1>3, <1>4, <1>5, <1>6

\* The block that is handled continues what has arrived.
LEMMA BlocksInOrder ==
    ASSUME NEW T \in SUBSET Transfers, ProtocolOf(T),
           NEW m \in Nodes, NEW n \in Nodes, net[m][n] # <<>>,
           NEW msg, NEW t \in T, Foremost(m, n, msg, t), Consume(m, n),
           msg.type = "FileChunk", Live(t), Arrived(t)
    PROVE  /\ msg.offset = Len(Got(t)) /\ msg.data = original[t][Len(Got(t)) + 1]
           /\ msg.offset < sender[t].offset
           /\ \A x \in Flight(t) : x.type = "FileChunk" /\ x # msg => msg.offset < x.offset
<1>1. /\ t \in Transfers /\ msg \in Message /\ From(msg) = m /\ To(msg) = n
      /\ msg \in Flight(t)
  BY Taken
<1>2. msg.offset < sender[t].offset
  <2>1. Told(t, msg)
    BY Taken
  <2> QED
    BY <2>1 DEF Told
<1>3. ASSUME NEW x \in Flight(t), x.type = "FileChunk", x # msg
      PROVE  msg.offset < x.offset
  <2>1. x \in Message /\ x.id = t
    BY DEF Flight, FlightIn
  <2>2. From(x) = m /\ To(x) = n
    BY <1>1, <1>3, <2>1 DEF Foremost, From, To, Requests, Answers
  <2>3. MayFollow(msg, x)
    BY <1>3, <2>2, TakenAway
  <2> QED
    BY <1>3, <2>1, <2>3 DEF MayFollow, Foremost
<1>4. /\ Len(Got(t)) \in Nat /\ sender[t].offset \in Nat /\ msg.offset \in Nat
      /\ \A x \in Flight(t) : x.type = "FileChunk" => x.offset \in Nat
  BY <1>1, GotType, SenderTypes, MessageFields DEF Flight, FlightIn
<1>5. Len(Got(t)) <= msg.offset /\ msg.data = original[t][msg.offset + 1]
  BY <1>1 DEF Arrived
<1>6. ~(Len(Got(t)) < msg.offset)
  <2> SUFFICES ASSUME Len(Got(t)) < msg.offset  PROVE FALSE
    OBVIOUS
  <2>1. Len(Got(t)) < sender[t].offset
    BY <1>2, <1>4
  <2> DEFINE len == Len(Got(t))
  <2>2. \A k \in Nat : len <= k /\ k < sender[t].offset =>
            \E x \in Flight(t) : x.type = "FileChunk" /\ x.offset = k
    BY DEF Arrived
  <2>3. len \in Nat /\ len < sender[t].offset /\ len < msg.offset
    BY <1>4, <2>1
  <2> HIDE DEF len
  <2>4. PICK x \in Flight(t) : x.type = "FileChunk" /\ x.offset = len
    BY <2>2, <2>3
  <2>5. msg.offset < x.offset
    BY <1>4, <1>3, <2>3, <2>4
  <2> QED
    BY <1>4, <2>3, <2>4, <2>5
<1>7. msg.offset = Len(Got(t))
  BY <1>4, <1>5, <1>6
<1> QED
  BY <1>2, <1>3, <1>5, <1>7

\* What the handler of a block does to the disk of its node.
LEMMA DataChunk ==
    ASSUME NEW T \in SUBSET Transfers, DataOf(T),
           NEW m \in Nodes, NEW n \in Nodes, HandleChunk(m, n),
           NEW msg, NEW t \in T, Foremost(m, n, msg, t)
    PROVE  DataOf(T)'
<1>0. Head(net[m][n]) = msg /\ msg.id = t
  BY DEF Foremost
<1>1. ProtocolOf(T) /\ ProtocolOf(T)'
  BY ProtocolChunk DEF DataOf
<1>2. /\ net[m][n] # <<>> /\ Consume(m, n) /\ msg.type = "FileChunk"
      /\ n \in caps
  BY <1>0 DEF HandleChunk, Arrives
<1>3. UNCHANGED <<active_downloads, sender, caps, original, result, delivered>>
  BY DEF HandleChunk
<1>4. /\ t \in Transfers /\ msg \in Message /\ From(msg) = m /\ To(msg) = n
      /\ msg \in Flight(t)
  BY <1>0, <1>1, <1>2, Taken
<1>5. active_downloads[n][t] # None
  BY <1>0, <1>1, <1>2, HeadIsExpected
<1>6. Flight(t)' = Flight(t) \ {msg}
  BY <1>0, <1>1, <1>2, TakenAway
<1>7. \A u \in Transfers \ {t} : Flight(u)' = Flight(u)
  BY <1>0, <1>1, <1>2, TakenAway
<1>8. \A u \in T \ {t} : Unmoved(u)
  BY <1>3, <1>7 DEF Unmoved, Registered
<1>9. m = Sender(t) /\ n = Receiver(t) /\ m # n
  BY <1>0, <1>2, <1>4, EndsAreNodes DEF From, To, Requests, Answers
<1>10. /\ Registered(t) /\ active_downloads[n][t].path = Place(t)
       /\ Place(t) \in Places /\ (Place(t) = t \/ Place(t) \in Paths)
  <2>1. Registered(t) /\ active_downloads[n][t].path = Place(t)
    BY <1>1, <1>4, <1>5, <1>9 DEF Registered, ProtocolOf, TransferInv, Entered
  <2> QED
    BY <1>1, <1>4, <2>1, PlaceType
<1>11. Live(t)
  <2>1. sender[t].phase # "idle"
    <3>1. Told(t, msg)
      BY <1>0, <1>1, <1>2, Taken
    <3>2. Running(t)
      BY <1>2, <3>1 DEF Told
    <3>3. ASSUME NEW x \in Flight(t), x.type = "FileTransferComplete"
          PROVE  sender[t].phase = "finished"
      <4>1. Told(t, x)
        BY <1>1, <1>4 DEF ProtocolOf, TransferInv, AllTold
      <4> QED
        BY <3>3, <4>1 DEF Told
    <3> QED
      BY <3>2, <3>3 DEF Running, Flying
  <2> QED
    BY <1>2, <1>9, <1>10, <2>1 DEF Live
<1>12. CASE /\ disk' = [disk EXCEPT ![n][Place(t)] = WriteBlock(@, msg.offset, msg.data)]
            /\ damaged' = damaged \cup ((Receiving(n, Place(t)) \cup Reading(n, Place(t))) \ {t})
  <2> DEFINE file == disk[n][Place(t)]
             new == WriteBlock(file, msg.offset, msg.data)
  <2>1. disk \in [Nodes -> [Places -> File \cup {None}]] /\ file \in File \cup {None}
    BY <1>1, <1>10 DEF ProtocolOf, TypeOK, VariableTypes
  <2>2. disk' = [disk EXCEPT ![n][Place(t)] = new]
    BY <1>12
  <2> HIDE DEF new
  <2>3. /\ disk'[n][Place(t)] = new
        /\ \A k \in Nodes, q \in Places : <<k, q>> # <<n, Place(t)>> => disk'[k][q] = disk[k][q]
    BY <1>10, <2>1, <2>2
  <2>4. \A u \in T \ {t} : Steady(u)
    <3>1. UNCHANGED sender
      BY <1>3
    <3> QED
      <4> DEFINE p == Place(t)
      <4>1. /\ p = t \/ p \in Paths
            /\ \A k \in Nodes, q \in Places : <<k, q>> # <<n, p>> => disk'[k][q] = disk[k][q]
        BY <1>10, <2>3
      <4>2. damaged' = damaged \cup ((Receiving(n, p) \cup Reading(n, p)) \ {t})
        BY <1>12
      <4> HIDE DEF p
      <4>3. Overwritten(n, p, t)
        BY <3>1, <4>1, <4>2 DEF Overwritten
      <4> QED
        BY <1>1, <1>4, <4>3, SteadyWrite
  <2>5. ASSUME t \notin damaged'
        PROVE  Piped(t)' /\ Arrived(t)' /\ CompleteIsExact(t)'
    <3>1. Piped(t) /\ Arrived(t) /\ CompleteIsExact(t)
      BY <1>4, <1>11, <1>12, <2>5 DEF DataOf, Data
    <3>2. OpenFile(t)' = OpenFile(t) \/ ~sender[t].reading
      <4>1. sender[t].file # None => sender[t].file \in Places
        BY <1>1, <1>4, SenderTypes DEF SenderState
      <4>2. sender[t].file # None =>
                disk'[Sender(t)][sender[t].file] = disk[Sender(t)][sender[t].file]
        BY <1>9, <2>3, <4>1
      <4> QED
        BY <1>3, <4>2 DEF OpenFile
    <3>3. Piped(t)' /\ CompleteIsExact(t)'
      BY <1>3, <3>1, <3>2 DEF Piped, Ahead, CompleteIsExact
    <3>4. /\ msg.offset = Len(Got(t)) /\ msg.data = original[t][Len(Got(t)) + 1]
          /\ msg.offset < sender[t].offset
          /\ \A x \in Flight(t) : x.type = "FileChunk" /\ x # msg => msg.offset < x.offset
      BY <1>0, <1>1, <1>2, <1>11, <3>1, BlocksInOrder, SMTT(30)
    <3>5. /\ Got(t)' = new /\ Len(new) = Len(Got(t)) + 1
          /\ \A i \in 1 .. Len(Got(t)) : new[i] = Got(t)[i]
          /\ new[Len(Got(t)) + 1] = msg.data
      <4>1. Got(t) = Contents(file) /\ msg.data \in Block
        BY <1>2, <1>4, <1>9, MessageFields DEF Got
      <4>2. /\ Contents(new) = new /\ Len(new) = Len(Got(t)) + 1
            /\ \A i \in 1 .. Len(Got(t)) : new[i] = Got(t)[i]
            /\ new[Len(Got(t)) + 1] = msg.data
        <5>1. LET old == Contents(file)
                  put == WriteBlock(file, Len(old), msg.data)
              IN  /\ Contents(put) = put /\ Len(put) = Len(old) + 1
                  /\ \A i \in 1 .. Len(old) : put[i] = old[i]
                  /\ put[Len(old) + 1] = msg.data
          BY <2>1, <4>1, WriteAtEnd
        <5>2. new = WriteBlock(file, Len(Contents(file)), msg.data)
          BY <3>4, <4>1 DEF new
        <5> QED
          BY <4>1, <5>1, <5>2
      <4> QED
        BY <1>9, <2>3, <4>2 DEF Got
    <3>6. Len(Got(t)) \in Nat /\ sender[t].offset \in Nat
      BY <1>1, <1>4, <1>11, GotType, SenderTypes
    <3>7. Arrived(t)'
      <4> DEFINE len == Len(Got(t))
      <4>1. Len(Got(t)') = len + 1 /\ len \in Nat /\ sender' = sender /\ original' = original
        BY <1>3, <3>5, <3>6
      <4>2. /\ msg.offset = len /\ len < sender[t].offset
            /\ \A x \in Flight(t) : x.type = "FileChunk" /\ x # msg => len < x.offset
        BY <3>4
      <4>3. \A i \in 1 .. len + 1 : Got(t)'[i] = original[t][i]
        <5>1. \A i \in 1 .. len : Got(t)[i] = original[t][i]
          BY <3>1 DEF Arrived
        <5> QED
          <6> SUFFICES ASSUME NEW i \in 1 .. len + 1
                       PROVE  Got(t)'[i] = original[t][i]
            OBVIOUS
          <6>1. i \in 1 .. len \/ i = len + 1
            BY <4>1
          <6>2. CASE i \in 1 .. len
            BY <3>5, <5>1, <6>2
          <6>3. CASE i = len + 1
            BY <3>4, <3>5, <6>3
          <6> QED
            BY <6>1, <6>2, <6>3
      <4>4. \A k \in Nat : len + 1 <= k /\ k < sender[t].offset =>
                \E x \in Flight(t)' : x.type = "FileChunk" /\ x.offset = k
        <5> SUFFICES ASSUME NEW k \in Nat, len + 1 <= k, k < sender[t].offset
                     PROVE  \E x \in Flight(t)' : x.type = "FileChunk" /\ x.offset = k
          OBVIOUS
        <5>1. len <= k /\ k # len
          BY <4>1
        <5>2. PICK x \in Flight(t) : x.type = "FileChunk" /\ x.offset = k
          BY <3>1, <5>1 DEF Arrived
        <5>3. x # msg
          BY <4>2, <5>1, <5>2
        <5> QED
          BY <1>6, <5>2, <5>3
      <4>5. \A x \in Flight(t)' : x.type = "FileChunk" =>
                len + 1 <= x.offset /\ x.data = original[t][x.offset + 1]
        <5> SUFFICES ASSUME NEW x \in Flight(t), x # msg, x.type = "FileChunk"
                     PROVE  len + 1 <= x.offset /\ x.data = original[t][x.offset + 1]
          BY <1>6
        <5>1. x.offset \in Nat
          BY MessageFields DEF Flight, FlightIn
        <5> QED
          <6>1. x.data = original[t][x.offset + 1]
            BY <3>1 DEF Arrived
          <6>2. len < x.offset
            BY <4>2
          <6> QED
            BY <4>1, <5>1, <6>1, <6>2
      <4>6. len + 1 <= sender[t].offset
        BY <3>6, <4>2
      <4> HIDE DEF len
      <4> QED
        BY <4>1, <4>3, <4>4, <4>5, <4>6 DEF Arrived
    <3> QED
      BY <3>3, <3>7
  <2>6. Opened(t)'
    BY <1>3, <1>4 DEF DataOf, Data, Opened
  <2>7. Data(t)'
    BY <2>5, <2>6 DEF Data
  <2> QED
    BY <1>1, <1>4, <1>8, <2>4, <2>7, OtherDataKept
<1>13. CASE UNCHANGED disk /\ damaged' = damaged \cup {t}
  <2>1. \A u \in T \ {t} : Steady(u)
    BY <1>3, <1>13 DEF Steady, OpenFile, Got
  <2>2. Opened(t)' /\ t \in damaged'
    BY <1>3, <1>4, <1>13 DEF DataOf, Data, Opened
  <2> QED
    BY <1>1, <1>4, <1>8, <2>1, <2>2, OtherDataKept DEF Data
<1>14. ASSUME disk' # disk, NEW file, disk' = [disk EXCEPT ![n][Place(t)] = file],
              damaged' = damaged \cup {t} \cup Receiving(n, Place(t)) \cup Reading(n, Place(t))
       PROVE  DataOf(T)'
  <2> DEFINE p == Place(t)
  <2>1. /\ p = t \/ p \in Paths
        /\ \A k \in Nodes, q \in Places : <<k, q>> # <<n, p>> => disk'[k][q] = disk[k][q]
    BY <1>1, <1>10, <1>14 DEF ProtocolOf, TypeOK, VariableTypes
  <2>2. damaged \cup ((Receiving(n, p) \cup Reading(n, p)) \ {t}) \subseteq damaged'
    BY <1>14
  <2> HIDE DEF p
  <2>3. Overwritten(n, p, t)
    BY <1>3, <2>1, <2>2 DEF Overwritten
  <2>4. \A u \in T \ {t} : Steady(u)
    BY <1>1, <1>4, <2>3, SteadyWrite
  <2>5. Opened(t)' /\ t \in damaged'
    BY <1>3, <1>4, <1>14 DEF DataOf, Data, Opened
  <2> QED
    BY <1>1, <1>4, <1>8, <2>4, <2>5, OtherDataKept DEF Data
<1>15. \/ /\ disk' = [disk EXCEPT ![n][Place(t)] = WriteBlock(@, msg.offset, msg.data)]
          /\ damaged' = damaged \cup ((Receiving(n, Place(t)) \cup Reading(n, Place(t))) \ {t})
       \/ /\ \E file : disk' = [disk EXCEPT ![n][Place(t)] = file]
          /\ damaged' = damaged \cup {t} \cup
                (IF disk' = disk THEN {} ELSE Receiving(n, Place(t)) \cup Reading(n, Place(t)))
  BY <1>0, <1>5, <1>10 DEF HandleChunk
<1> QED
  BY <1>12, <1>13, <1>14, <1>15

-----------------------------------------------------------------------------
(* The data: the request of an upload, and edits of the disk.              *)

LEMMA DataUploadRequest ==
    ASSUME NEW T \in SUBSET Transfers, DataOf(T),
           NEW m \in Nodes, NEW n \in Nodes, HandleUploadRequest(m, n),
           NEW msg, NEW t \in T, Foremost(m, n, msg, t)
    PROVE  DataOf(T)'
<1>0. Head(net[m][n]) = msg /\ msg.id = t
  BY DEF Foremost
<1>1. ProtocolOf(T) /\ ProtocolOf(T)'
  BY ProtocolUploadRequest DEF DataOf
<1>2. t \in Transfers /\ ~Download(t) /\ n = Receiver(t) /\ msg.path = Job[t].remote
  BY <1>0, <1>1, AnswerToUpload
<1>3. \A u \in Transfers \ {t} : Undisturbed(u)
  BY <1>0, <1>1, AnswerToUpload
<1>4. sender[t].phase = "idle"
  BY <1>0, <1>1, AnswerToUpload
<1>5. /\ Reply(m, n, Accepted(t, 0)) => Flight(t)' = {Accepted(t, 0)}
      /\ Reply(m, n, Rejected(t)) => Flight(t)' = {Rejected(t)}
  <2>1. Answered(m, n, t)
    BY <1>0, <1>1, AnswerToUpload
  <2> QED
    BY <2>1 DEF Answered
<1>6. UNCHANGED <<sender, caps, result, original, delivered>>
  BY DEF HandleUploadRequest
<1>7. \A u \in T \ {t} : Unmoved(u)
  BY <1>3, <1>6, EndsAreNodes DEF Unmoved, Undisturbed, Registered
<1>8. /\ Opened(t)' /\ Piped(t)'
      /\ sender[t].offset = 0 /\ sender[t].offset \in Nat
      /\ t \notin damaged => CompleteIsExact(t)'
  <2>1. Data(t)
    BY <1>2 DEF DataOf
  <2>2. Opened(t)'
    BY <1>6, <2>1 DEF Data, Opened
  <2>3. Piped(t)'
    BY <1>4, <1>6, <2>1 DEF Piped, Data, Opened
  <2> QED
    BY <1>4, <1>6, <2>1, <2>2, <2>3 DEF Data, Opened, CompleteIsExact
<1>9. Live(t)' => Flying(t, {"Accepted"})'
  BY <1>2, <1>4, <1>6 DEF Live
<1>10. CASE /\ Reply(m, n, Rejected(t))
            /\ UNCHANGED <<disk, damaged>>
  <2>1. \A u \in T \ {t} : Steady(u)
    BY <1>6, <1>10, SteadyAside
  <2>2. ~Live(t)'
    BY <1>5, <1>9, <1>10 DEF Flying, Rejected
  <2> QED
    BY <1>1, <1>2, <1>7, <1>8, <1>10, <2>1, <2>2, OtherDataKept DEF Data
<1>11. CASE /\ msg.path # None
            /\ Reply(m, n, Accepted(t, 0))
            /\ disk' = [disk EXCEPT ![n][msg.path] = CreateFile(@)]
            /\ damaged' = damaged \cup ((Receiving(n, msg.path) \cup Reading(n, msg.path)) \ {t})
  <2>1. msg.path \in Paths /\ msg.path \in Places
    BY <1>2, <1>11, Ends DEF Places
  <2>2. /\ disk'[n][msg.path] = <<>>
        /\ \A k \in Nodes, q \in Places : <<k, q>> # <<n, msg.path>> => disk'[k][q] = disk[k][q]
    BY <1>1, <1>11, <2>1 DEF CreateFile, ProtocolOf, TypeOK, VariableTypes
  <2>3. \A u \in T \ {t} : Steady(u)
    <3>1. UNCHANGED sender
      BY <1>6
    <3> QED
      <4> DEFINE p == msg.path
      <4>1. p \in Paths /\ \A k \in Nodes, q \in Places : <<k, q>> # <<n, p>> => disk'[k][q] = disk[k][q]
        BY <2>1, <2>2
      <4>2. damaged' = damaged \cup ((Receiving(n, p) \cup Reading(n, p)) \ {t})
        BY <1>11
      <4> HIDE DEF p
      <4>3. Overwritten(n, p, t)
        BY <3>1, <4>1, <4>2 DEF Overwritten
      <4> QED
        BY <1>1, <1>2, <4>3, SteadyWrite
  <2>4. Got(t)' = <<>>
    BY <1>2, <2>2 DEF Got, Place, Contents
  <2>5. Flight(t)' = {Accepted(t, 0)}
    BY <1>5, <1>11
  <2>6. Arrived(t)'
    BY <1>6, <1>8, <2>4, <2>5 DEF Arrived, Accepted
  <2>7. Data(t)'
    BY <1>8, <1>11, <2>6 DEF Data
  <2> QED
    BY <1>1, <1>2, <1>7, <2>3, <2>7, OtherDataKept
<1> QED
  BY <1>0, <1>10, <1>11 DEF HandleUploadRequest

\* Whoever reads a file that is unlinked or moved keeps its contents.
LEMMA DataEdits ==
    ASSUME NEW T \in SUBSET Transfers, DataOf(T),
           NEW n \in Nodes, NEW p \in Paths,
           HandleDelete(n, p) \/ \E q \in Paths : HandleRename(n, p, q)
    PROVE  DataOf(T)'
<1>1. ProtocolOf(T) /\ ProtocolOf(T)'
  BY ProtocolEdits DEF DataOf
<1>2. UNCHANGED <<net, active_downloads, caps, result, original, delivered>>
  BY DEF HandleDelete, HandleRename
<1>3. disk \in [Nodes -> [Places -> File \cup {None}]] /\ p \in Places
  BY <1>1 DEF ProtocolOf, TypeOK, VariableTypes, Places
<1>4. ASSUME NEW t \in Transfers,
             sender'[t].phase = sender[t].phase, sender'[t].offset = sender[t].offset,
             sender'[t].pos = sender[t].pos, sender'[t].pipe = sender[t].pipe,
             sender'[t].reading = sender[t].reading
      PROVE  Unmoved(t)
  BY <1>2, <1>4 DEF Unmoved, Flight, Registered
<1>5. ASSUME NEW t \in Transfers
      PROVE  \A s \in SenderState : \A file, held :
                LET moved == [s EXCEPT !.file = file]
                    kept == [s EXCEPT !.file = file, !.held = held]
                IN  /\ moved.phase = s.phase /\ moved.offset = s.offset /\ moved.pos = s.pos
                    /\ moved.pipe = s.pipe /\ moved.reading = s.reading /\ moved.file = file
                    /\ kept.phase = s.phase /\ kept.offset = s.offset /\ kept.pos = s.pos
                    /\ kept.pipe = s.pipe /\ kept.reading = s.reading /\ kept.file = file
                    /\ kept.held = held
  BY DEF SenderState
<1>6. ASSUME NEW q \in Paths, NEW t \in Transfers, NEW s, s = Unlinked(n, q)[t]
      PROVE  /\ s.phase = sender[t].phase /\ s.offset = sender[t].offset
             /\ s.pos = sender[t].pos /\ s.pipe = sender[t].pipe
             /\ s.reading = sender[t].reading
             /\ IF t \in Reading(n, q) THEN s.file = None /\ s.held = disk[n][q]
                ELSE s = sender[t]
  <2>1. sender[t] \in SenderState
    BY <1>1, SenderTypes
  <2>2. s = IF t \in Reading(n, q)
            THEN [sender[t] EXCEPT !.file = None, !.held = disk[n][q]] ELSE sender[t]
    BY <1>6 DEF Unlinked
  <2> QED
    BY <1>5, <2>1, <2>2
<1>7. ASSUME NEW t \in Transfers, t \in T, NEW k \in Paths, t \notin Receiving(n, k), Live(t)
      PROVE  Place(t) \in Places /\ <<Receiver(t), Place(t)>> # <<n, k>>
  <2>1. k # t
    BY DistinctAssumption
  <2> QED
    BY <1>1, <1>7, <2>1, LiveElsewhere
<1>8. ASSUME NEW t \in Transfers, sender[t].reading, sender[t].file # None
      PROVE  Sender(t) \in Nodes /\ sender[t].file \in Places
  BY <1>1, <1>8, SenderTypes, EndsAreNodes DEF SenderState
<1>9. CASE HandleDelete(n, p)
  <2>1. /\ disk[n][p] # None /\ disk' = [disk EXCEPT ![n][p] = None]
        /\ sender' = Unlinked(n, p) /\ damaged' = damaged \cup Receiving(n, p)
    BY <1>9 DEF HandleDelete
  <2>2. \A k \in Nodes, q \in Places : <<k, q>> # <<n, p>> => disk'[k][q] = disk[k][q]
    BY <1>3, <2>1
  <2>3. ASSUME NEW t \in Transfers, t \in T  PROVE Unmoved(t) /\ Steady(t)
    <3> DEFINE s == Unlinked(n, p)[t]
    <3>1. /\ s.phase = sender[t].phase /\ s.offset = sender[t].offset
          /\ s.pos = sender[t].pos /\ s.pipe = sender[t].pipe
          /\ s.reading = sender[t].reading
          /\ IF t \in Reading(n, p) THEN s.file = None /\ s.held = disk[n][p]
             ELSE s = sender[t]
      BY <1>6, <2>1
    <3>2. sender'[t] = s
      BY <2>1
    <3> HIDE DEF s
    <3>3. Unmoved(t)
      BY <1>4, <3>1, <3>2
    <3>4. sender[t].reading => OpenFile(t)' = OpenFile(t)
      <4>1. CASE t \in Reading(n, p)
        BY <1>3, <3>1, <3>2, <4>1, PathsAreSome DEF Reading, OpenFile
      <4>2. CASE t \notin Reading(n, p)
        BY <1>8, <2>2, <3>1, <3>2, <4>2 DEF Reading, OpenFile
      <4> QED
        BY <4>1, <4>2
    <3>5. t \notin damaged' /\ Live(t) => Got(t)' = Got(t)
      <4> SUFFICES ASSUME t \notin damaged', Live(t)  PROVE Got(t)' = Got(t)
        OBVIOUS
      <4>1. t \notin Receiving(n, p)
        BY <2>1
      <4>2. Place(t) \in Places /\ <<Receiver(t), Place(t)>> # <<n, p>>
        BY <1>7, <2>3, <4>1
      <4>3. disk'[Receiver(t)][Place(t)] = disk[Receiver(t)][Place(t)]
        BY <2>2, <4>2, EndsAreNodes
      <4> QED
        BY <4>3 DEF Got
    <3> QED
      BY <2>1, <3>3, <3>4, <3>5 DEF Steady
  <2> QED
    BY <1>1, <2>3, AllDataKept
<1>10. ASSUME NEW q \in Paths, HandleRename(n, p, q)  PROVE DataOf(T)'
  <2>1. /\ p # q /\ disk[n][p] # None /\ q \in Places
        /\ disk' = [disk EXCEPT ![n][q] = disk[n][p], ![n][p] = None]
        /\ damaged' = damaged \cup Receiving(n, p) \cup Receiving(n, q)
    BY <1>10 DEF HandleRename, Places
  <2>2. /\ \A k \in Nodes, r \in Places :
              <<k, r>> # <<n, p>> /\ <<k, r>> # <<n, q>> => disk'[k][r] = disk[k][r]
        /\ disk'[n][q] = disk[n][p]
    BY <1>3, <2>1
  <2>3. ASSUME NEW t \in Transfers
        PROVE  sender'[t] = IF t \in Reading(n, p) THEN [sender[t] EXCEPT !.file = q]
                            ELSE Unlinked(n, q)[t]
    BY <1>10 DEF HandleRename
  <2>4. ASSUME NEW t \in Transfers, t \in T  PROVE Unmoved(t) /\ Steady(t)
    <3>1. sender[t] \in SenderState
      BY <1>1, SenderTypes
    <3>2. /\ sender'[t].phase = sender[t].phase /\ sender'[t].offset = sender[t].offset
          /\ sender'[t].pos = sender[t].pos /\ sender'[t].pipe = sender[t].pipe
          /\ sender'[t].reading = sender[t].reading
          /\ \/ t \in Reading(n, p) /\ sender'[t].file = q
             \/ /\ t \notin Reading(n, p) /\ t \in Reading(n, q)
                /\ sender'[t].file = None /\ sender'[t].held = disk[n][q]
             \/ t \notin Reading(n, p) /\ t \notin Reading(n, q) /\ sender'[t] = sender[t]
      <4> DEFINE s == Unlinked(n, q)[t]
      <4>1. /\ s.phase = sender[t].phase /\ s.offset = sender[t].offset
            /\ s.pos = sender[t].pos /\ s.pipe = sender[t].pipe
            /\ s.reading = sender[t].reading
            /\ IF t \in Reading(n, q) THEN s.file = None /\ s.held = disk[n][q]
               ELSE s = sender[t]
        BY <1>6
      <4> HIDE DEF s
      <4>2. CASE t \in Reading(n, p)
        BY <2>3, <3>1, <4>2 DEF SenderState
      <4>3. CASE t \notin Reading(n, p)
        <5>1. sender'[t] = s
          BY <2>3, <4>3 DEF s
        <5> QED
          BY <4>1, <4>3, <5>1
      <4> QED
        BY <4>2, <4>3
    <3>3. Unmoved(t)
      BY <1>4, <3>2
    <3>4. sender[t].reading => OpenFile(t)' = OpenFile(t)
      <4>1. CASE t \in Reading(n, p)
        <5>1. Sender(t) = n /\ sender[t].file = p /\ sender'[t].file = q
          BY <3>2, <4>1 DEF Reading
        <5>2. p # None /\ q # None
          BY <1>3, <2>1, PathsAreSome
        <5>3. OpenFile(t) = disk[n][p]
          BY <5>1, <5>2 DEF OpenFile
        <5>4. OpenFile(t)' = disk'[n][q]
          BY <5>1, <5>2 DEF OpenFile
        <5> QED
          BY <2>2, <5>3, <5>4
      <4>2. CASE t \notin Reading(n, p) /\ t \in Reading(n, q)
        BY <2>1, <3>2, <4>2, PathsAreSome DEF Reading, OpenFile
      <4>3. CASE t \notin Reading(n, p) /\ t \notin Reading(n, q)
        BY <1>8, <2>2, <3>2, <4>3 DEF Reading, OpenFile
      <4> QED
        BY <4>1, <4>2, <4>3
    <3>5. t \notin damaged' /\ Live(t) => Got(t)' = Got(t)
      <4> SUFFICES ASSUME t \notin damaged', Live(t)  PROVE Got(t)' = Got(t)
        OBVIOUS
      <4>1. t \notin Receiving(n, p) /\ t \notin Receiving(n, q)
        BY <2>1
      <4>2. /\ Place(t) \in Places /\ <<Receiver(t), Place(t)>> # <<n, p>>
            /\ <<Receiver(t), Place(t)>> # <<n, q>>
        BY <1>7, <2>4, <4>1
      <4>3. disk'[Receiver(t)][Place(t)] = disk[Receiver(t)][Place(t)]
        BY <2>2, <4>2, EndsAreNodes
      <4> QED
        BY <4>3 DEF Got
    <3> QED
      BY <2>1, <3>3, <3>4, <3>5 DEF Steady
  <2> QED
    BY <1>1, <2>4, AllDataKept
<1> QED
  BY <1>9, <1>10

-----------------------------------------------------------------------------
(* The data: the tasks of the sender.                                      *)

\* A step of one task leaves the disk and the other tasks alone.
LEMMA TaskOthers ==
    ASSUME NEW T \in SUBSET Transfers, ProtocolOf(T),
           NEW t \in Transfers, NEW s \in SenderState,
           sender' = [sender EXCEPT ![t] = s], UNCHANGED disk,
           damaged \subseteq damaged',
           UNCHANGED <<active_downloads, caps, result, delivered>>,
           \A u \in Transfers \ {t} : Flight(u)' = Flight(u) /\ original'[u] = original[u]
    PROVE  sender'[t] = s /\ \A u \in Transfers \ {t} : Unmoved(u) /\ Steady(u)
<1>1. sender'[t] = s /\ \A u \in Transfers \ {t} : sender'[u] = sender[u]
  BY SenderTypes
<1>2. \A u \in Transfers \ {t} : Unmoved(u)
  BY <1>1 DEF Unmoved, Registered
<1>3. \A u \in Transfers \ {t} : Steady(u)
  BY <1>1 DEF Steady, OpenFile, Got
<1> QED
  BY <1>1, <1>2, <1>3

LEMMA DataSenderOpen ==
    ASSUME NEW T \in SUBSET Transfers, DataOf(T),
           NEW t \in Transfers, t \in T, SenderOpen(t)
    PROVE  DataOf(T)'
<1> DEFINE p == sender[t].file
           file == disk[Sender(t)][p]
           opened == [sender[t] EXCEPT !.phase = "streaming", !.reading = TRUE, !.pipe = <<>>]
           failed == [sender[t] EXCEPT !.phase = "failed", !.file = None]
<1>1. ProtocolOf(T) /\ Data(t)
  BY DEF DataOf
<1>2. /\ ProtocolOf(T)'
      /\ \A u \in Transfers \ {t} : Undisturbed(u)
      /\ Flight(t) = {} /\ \A x \in Flight(t)' : x.type # "FileChunk"
      /\ result[t] # "complete"
  BY <1>1, ProtocolSenderOpen
<1>3. /\ sender[t].phase = "opening"
      /\ UNCHANGED <<disk, active_downloads, caps, result, delivered, damaged>>
  BY DEF SenderOpen
<1>4. /\ sender[t] \in SenderState /\ original \in [Transfers -> File \cup {None}]
      /\ sender[t].offset = 0 /\ sender[t].pos = 0 /\ ~sender[t].reading /\ original[t] = None
  BY <1>1, <1>3, SenderTypes DEF Data, Opened, ProtocolOf, TypeOK, VariableTypes
<1>5. CompleteIsExact(t)'
  BY <1>2, <1>3 DEF CompleteIsExact
<1>6. ASSUME NEW s \in SenderState, s.offset = 0, s.phase \in {"streaming", "failed"},
             sender'[t] = s, t \notin damaged, Live(t)'
      PROVE  Arrived(t)'
  <2>1. Live(t)
    <3>1. ~Flying(t, {"Accepted"})
      BY <1>2 DEF Flying
    <3> QED
      BY <1>3, <1>6, <3>1 DEF Live, Registered
  <2>2. Arrived(t) /\ Got(t) \in File
    BY <1>1, <1>6, <2>1, GotType DEF Data
  <2>3. Got(t)' = Got(t) /\ Len(Got(t)) <= 0 /\ Len(Got(t)) \in Nat
    BY <1>1, <1>3, <1>4, <2>1, <2>2, GotType DEF Got, Arrived
  <2> QED
    BY <1>2, <1>6, <2>3 DEF Arrived
<1>7. CASE /\ p # None /\ file # None
           /\ sender' = [sender EXCEPT ![t] = opened]
           /\ original' = [original EXCEPT ![t] = file]
  <2>1. /\ opened \in SenderState
        /\ opened.phase = "streaming" /\ opened.reading /\ opened.pipe = <<>>
        /\ opened.offset = 0 /\ opened.pos = 0 /\ opened.file = p
    <3>1. <<>> \in Seq(Block \cup {Eof, Fault})
      OBVIOUS
    <3> QED
      BY <1>4, <3>1 DEF SenderState
  <2>2. /\ original'[t] = file /\ file \in File
        /\ \A u \in Transfers \ {t} : original'[u] = original[u]
    <3>1. p \in Places
      BY <1>4, <1>7 DEF SenderState
    <3>2. file \in File
      BY <1>1, <1>7, <3>1, EndsAreNodes DEF ProtocolOf, TypeOK, VariableTypes
    <3> QED
      BY <1>4, <1>7, <3>2
  <2> HIDE DEF opened, file
  <2>3. sender'[t] = opened /\ \A u \in T \ {t} : Unmoved(u) /\ Steady(u)
    <3>1. /\ t \in Transfers /\ ProtocolOf(T) /\ opened \in SenderState
          /\ sender' = [sender EXCEPT ![t] = opened] /\ UNCHANGED disk
          /\ damaged \subseteq damaged'
          /\ UNCHANGED <<active_downloads, caps, result, delivered>>
          /\ \A u \in Transfers \ {t} : Flight(u)' = Flight(u) /\ original'[u] = original[u]
      BY <1>1, <1>2, <1>3, <1>7, <2>1, <2>2 DEF Undisturbed
    <3> QED
      BY <3>1, TaskOthers
  <2>4. Opened(t)'
    BY <2>1, <2>2, <2>3, FileIsSome DEF Opened
  <2>5. Piped(t)'
    <3>1. OpenFile(t)' = file
      BY <1>3, <1>7, <2>1, <2>3 DEF OpenFile, file
    <3>2. Ahead(t)' = 0
      BY <2>1, <2>3 DEF Ahead
    <3>3. Len(file) \in Nat
      BY <2>2 DEF File
    <3> QED
      BY <2>1, <2>2, <2>3, <3>1, <3>2, <3>3 DEF Piped
  <2>6. Data(t)'
    BY <1>3, <1>5, <1>6, <2>1, <2>3, <2>4, <2>5 DEF Data
  <2> QED
    BY <1>2, <2>3, <2>6, OtherDataKept
<1>8. CASE /\ sender' = [sender EXCEPT ![t] = failed]
           /\ UNCHANGED original
  <2>1. /\ failed \in SenderState /\ failed.phase = "failed"
        /\ ~failed.reading /\ failed.offset = 0 /\ failed.pos = 0
    BY <1>4 DEF SenderState
  <2> HIDE DEF failed
  <2>2. sender'[t] = failed /\ \A u \in T \ {t} : Unmoved(u) /\ Steady(u)
    BY <1>1, <1>2, <1>3, <1>8, <2>1, TaskOthers DEF Undisturbed
  <2>3. Opened(t)' /\ Piped(t)'
    BY <1>4, <1>8, <2>1, <2>2 DEF Opened, Piped
  <2>4. Data(t)'
    BY <1>3, <1>5, <1>6, <2>1, <2>2, <2>3 DEF Data
  <2> QED
    BY <1>2, <2>2, <2>4, OtherDataKept
<1> QED
  BY <1>7, <1>8 DEF SenderOpen

\* The types a streaming task of an undamaged transfer works on.
LEMMA StreamingTypes ==
    ASSUME NEW T \in SUBSET Transfers, DataOf(T),
           NEW t \in Transfers, t \in T, sender[t].phase = "streaming"
    PROVE  /\ sender[t] \in SenderState
           /\ sender[t].offset \in Nat /\ sender[t].pos \in Nat
           /\ sender[t].pipe \in Seq(Block \cup {Eof, Fault}) /\ Len(sender[t].pipe) \in Nat
           /\ sender[t].reading \in BOOLEAN
           /\ sender[t].reading => sender[t].pipe \in Seq(Block)
           /\ original[t] \in Seq(Block) /\ Len(original[t]) \in Nat
           /\ Ahead(t) \in Int
<1>1. original[t] \in Seq(Block)
  <2>1. original[t] # None
    BY DEF DataOf, Data, Opened
  <2> QED
    BY <2>1, SenderTypes DEF DataOf, File
<1>2. sender[t].reading => sender[t].pipe \in Seq(Block)
  BY DEF DataOf, ProtocolOf, TypeOK, ReadersOpen
<1>3. ProtocolOf(T)
  BY DEF DataOf
<1> QED
  BY <1>1, <1>2, <1>3, SenderTypes DEF Ahead

\* Appending to a pipe leaves what is in it where it is.
LEMMA PipeGrows ==
    ASSUME NEW S, NEW s \in Seq(S), NEW x \in S
    PROVE  LET r == Append(s, x)
           IN  /\ r \in Seq(S) /\ Len(r) = Len(s) + 1 /\ r[Len(s) + 1] = x
               /\ \A k \in 1 .. Len(s) : r[k] = s[k]
BY AppendProperties

LEMMA DataReaderRead ==
    ASSUME NEW T \in SUBSET Transfers, DataOf(T),
           NEW t \in Transfers, t \in T, ReaderRead(t)
    PROVE  DataOf(T)'
<1> DEFINE s == sender[t]
           o == original[t]
           pipe == s.pipe
<1>1. ProtocolOf(T) /\ ProtocolOf(T)' /\ Data(t)
  BY ProtocolReaderRead DEF DataOf
<1>2. /\ s.reading
      /\ UNCHANGED <<net, disk, active_downloads, caps, result, original, delivered>>
      /\ damaged \subseteq damaged'
  BY DEF ReaderRead
<1>3. s.phase = "streaming"
  BY <1>1, <1>2 DEF ProtocolOf, TypeOK, ReadersOpen
<1>4. /\ s \in SenderState /\ s.offset \in Nat /\ s.pos \in Nat
      /\ pipe \in Seq(Block \cup {Eof, Fault}) /\ pipe \in Seq(Block) /\ Len(pipe) \in Nat
      /\ o \in Seq(Block) /\ Len(o) \in Nat
  BY <1>2, <1>3, StreamingTypes
<1>5. ASSUME NEW r \in SenderState, sender' = [sender EXCEPT ![t] = r],
             r.phase = "streaming", r.offset = s.offset, r.file = s.file, r.held = s.held,
             t \notin damaged' => Piped(t)'
      PROVE  DataOf(T)'
  <2>1. \A u \in Transfers : Flight(u)' = Flight(u) /\ original'[u] = original[u]
    BY <1>2 DEF Flight
  <2>2. sender'[t] = r /\ \A u \in T \ {t} : Unmoved(u) /\ Steady(u)
    BY <1>1, <1>2, <1>5, <2>1, TaskOthers
  <2>3. Opened(t)'
    BY <1>1, <1>2, <1>3, <1>5, <2>2 DEF Data, Opened
  <2>4. ASSUME t \notin damaged'  PROVE (Live(t)' => Arrived(t)') /\ CompleteIsExact(t)'
    <3>1. (Live(t) => Arrived(t)) /\ CompleteIsExact(t)
      BY <1>1, <1>2, <2>4 DEF Data
    <3>2. Live(t)' => Live(t)
      BY <1>2, <1>3, <1>5, <2>1, <2>2 DEF Live, Registered
    <3>3. Live(t) => Arrived(t)'
      BY <1>2, <1>5, <2>1, <2>2, <3>1, ArrivedKept
    <3> QED
      BY <1>2, <3>1, <3>2, <3>3 DEF CompleteIsExact
  <2>5. Data(t)'
    BY <1>5, <2>3, <2>4 DEF Data
  <2> QED
    BY <1>1, <2>2, <2>5, OtherDataKept
<1>6. ASSUME t \notin damaged
      PROVE  /\ OpenFile(t) = o /\ s.pos = s.offset + Len(pipe) /\ s.pos <= Len(o)
             /\ \A k \in 1 .. Len(pipe) : pipe[k] = o[s.offset + k]
  BY <1>1, <1>2, <1>3, <1>6 DEF Data, Piped, Ahead
<1>7. CASE s.pos < Len(OpenFile(t)) /\ sender' =
             [sender EXCEPT ![t] =
                [s EXCEPT !.pipe = Append(pipe, OpenFile(t)[s.pos + 1]), !.pos = s.pos + 1]]
  <2> DEFINE block == OpenFile(t)[s.pos + 1]
             longer == Append(pipe, block)
             r == [s EXCEPT !.pipe = longer, !.pos = s.pos + 1]
  <2>1. sender' = [sender EXCEPT ![t] = r] /\ sender \in [Transfers -> SenderState]
    BY <1>1, <1>7, SenderTypes
  <2>2. r \in SenderState
    <3> HIDE DEF r
    <3>1. sender'[t] = r
      BY <2>1
    <3> QED
      BY <1>1, <3>1 DEF ProtocolOf, TypeOK, VariableTypes
  <2> HIDE DEF longer
  <2>3. /\ r.phase = "streaming" /\ r.offset = s.offset /\ r.file = s.file /\ r.held = s.held
        /\ r.pipe = longer /\ r.pos = s.pos + 1 /\ r.reading
    BY <1>2, <1>3, <1>4 DEF SenderState
  <2> HIDE DEF r
  <2>4. ASSUME t \notin damaged'  PROVE Piped(t)'
    <3>1. /\ OpenFile(t) = o /\ s.pos = s.offset + Len(pipe)
          /\ \A k \in 1 .. Len(pipe) : pipe[k] = o[s.offset + k]
      BY <1>2, <1>6, <2>4
    <3>2. s.pos + 1 <= Len(o) /\ block = o[s.pos + 1] /\ s.pos < Len(o)
      BY <1>4, <1>7, <3>1
    <3>3. block \in Block
      BY <1>4, <3>2
    <3> HIDE DEF block
    <3>4. /\ Len(longer) = Len(pipe) + 1 /\ longer[Len(pipe) + 1] = block
          /\ \A k \in 1 .. Len(pipe) : longer[k] = pipe[k]
      BY <1>4, <3>3, PipeGrows DEF longer
    <3>5. \A k \in 1 .. Len(longer) : longer[k] = o[s.offset + k]
      <4> SUFFICES ASSUME NEW k \in 1 .. Len(longer)  PROVE longer[k] = o[s.offset + k]
        OBVIOUS
      <4>1. CASE k \in 1 .. Len(pipe)
        BY <3>1, <3>4, <4>1
      <4>2. CASE k = Len(pipe) + 1
        <5>1. s.pos + 1 = s.offset + k
          BY <1>4, <3>1, <4>2
        <5> QED
          BY <3>2, <3>4, <4>2, <5>1
      <4> QED
        BY <1>4, <3>4, <4>1, <4>2
    <3>6. sender'[t] = r
      BY <2>1
    <3>7. OpenFile(t)' = o /\ original'[t] = o
      BY <1>2, <2>3, <3>1, <3>6 DEF OpenFile
    <3>8. Ahead(t)' = Len(longer)
      BY <2>3, <3>6 DEF Ahead
    <3>9. s.pos + 1 = s.offset + Len(longer)
      <4>1. s.pos \in Nat /\ s.offset \in Nat /\ Len(pipe) \in Nat
        BY <1>4
      <4>2. s.pos = s.offset + Len(pipe) /\ Len(longer) = Len(pipe) + 1
        BY <3>1, <3>4
      <4> QED
        BY <4>1, <4>2
    <3> QED
      BY <2>3, <3>2, <3>5, <3>6, <3>7, <3>8, <3>9 DEF Piped
  <2> QED
    BY <1>5, <2>1, <2>2, <2>3, <2>4
<1>8. CASE /\ ~(s.pos < Len(OpenFile(t)))
           /\ sender' = [sender EXCEPT ![t] =
                           [s EXCEPT !.pipe = Append(pipe, Eof), !.reading = FALSE]]
  <2> DEFINE longer == Append(pipe, Eof)
             r == [s EXCEPT !.pipe = longer, !.reading = FALSE]
  <2>1. sender' = [sender EXCEPT ![t] = r] /\ sender \in [Transfers -> SenderState]
    BY <1>1, <1>8, SenderTypes
  <2>2. /\ longer \in Seq(Block \cup {Eof, Fault})
        /\ Len(longer) = Len(pipe) + 1 /\ longer[Len(pipe) + 1] = Eof
        /\ \A k \in 1 .. Len(pipe) : longer[k] = pipe[k]
    BY <1>4, PipeGrows
  <2> HIDE DEF longer
  <2>3. /\ r \in SenderState
        /\ r.phase = "streaming" /\ r.offset = s.offset /\ r.file = s.file /\ r.held = s.held
        /\ r.pipe = longer /\ r.pos = s.pos /\ ~r.reading
    BY <1>3, <1>4, <2>2 DEF SenderState
  <2> HIDE DEF r
  <2>4. ASSUME t \notin damaged'  PROVE Piped(t)'
    <3>1. /\ OpenFile(t) = o /\ s.pos = s.offset + Len(pipe) /\ s.pos <= Len(o)
          /\ \A k \in 1 .. Len(pipe) : pipe[k] = o[s.offset + k]
      BY <1>2, <1>6, <2>4
    <3>2. s.pos = Len(o)
      BY <1>4, <1>8, <3>1
    <3>3. sender'[t] = r /\ original'[t] = o
      BY <1>2, <2>1
    <3>4. Ahead(t)' = Len(pipe)
      BY <1>4, <2>2, <2>3, <3>3 DEF Ahead
    <3>5. /\ sender'[t].pos = s.offset + Len(pipe) /\ sender'[t].offset = s.offset
          /\ sender'[t].pos = Len(o) /\ sender'[t].pipe = longer
          /\ ~sender'[t].reading /\ sender'[t].phase = "streaming"
      BY <2>3, <3>1, <3>2, <3>3
    <3>6. Len(pipe) >= 0 /\ Len(o) <= Len(o)
      BY <1>4
    <3>7. /\ \A k \in 1 .. Len(pipe) : longer[k] = o[s.offset + k]
          /\ longer[Len(pipe) + 1] = Eof
      BY <2>2, <3>1
    <3> QED
      BY <3>3, <3>4, <3>5, <3>6, <3>7 DEF Piped
  <2> QED
    BY <1>5, <2>1, <2>3, <2>4
<1>9. CASE /\ sender' = [sender EXCEPT ![t] =
                           [s EXCEPT !.pipe = Append(pipe, Fault), !.reading = FALSE]]
           /\ damaged' = damaged \cup {t}
  <2> DEFINE longer == Append(pipe, Fault)
             r == [s EXCEPT !.pipe = longer, !.reading = FALSE]
  <2>1. longer \in Seq(Block \cup {Eof, Fault})
    BY <1>4, PipeGrows
  <2>2. sender' = [sender EXCEPT ![t] = r]
    BY <1>9
  <2> HIDE DEF longer
  <2>3. /\ r \in SenderState
        /\ r.phase = "streaming" /\ r.offset = s.offset /\ r.file = s.file /\ r.held = s.held
    BY <1>3, <1>4, <2>1 DEF SenderState
  <2> HIDE DEF r
  <2> QED
    BY <1>5, <1>9, <2>2, <2>3
<1> QED
  BY <1>7, <1>8, <1>9, Zenon DEF ReaderRead

\* What a streaming task sends joins what is in flight.
LEMMA ForwardFlight ==
    ASSUME NEW T \in SUBSET Transfers, ProtocolOf(T),
           NEW t \in Transfers, t \in T, sender[t].phase = "streaming",
           NEW msg \in Message, msg.id = t, Send(Sender(t), Receiver(t), msg),
           msg.type \in {"FileChunk", "FileTransferComplete"},
           msg.type = "FileChunk" => msg.offset = sender[t].offset
    PROVE  Flight(t)' = Flight(t) \cup {msg}
<1>1. Sender(t) = From(msg) /\ Receiver(t) = To(msg)
  BY DEF From, To, Requests, Answers
<1>2. \A x \in Flight(t) : x.type = "Accepted" \/ (x.type = "FileChunk" /\ x.offset < sender[t].offset)
  BY StreamingFlight DEF ProtocolOf
<1>3. \A x \in Flight(msg.id) : MayFollow(x, msg)
  BY <1>2 DEF MayFollow
<1>4. ChannelInv
  BY DEF ProtocolOf
<1> QED
  BY <1>1, <1>3, <1>4, EndsAreNodes, SendFlight

\* The item the sending task takes next is the block at its offset, or the end.
LEMMA NextItem ==
    ASSUME NEW T \in SUBSET Transfers, DataOf(T),
           NEW t \in Transfers, t \in T, t \notin damaged, sender[t].phase = "streaming",
           sender[t].pipe # <<>>
    PROVE  LET item == Head(sender[t].pipe)
           IN  /\ item \in {Eof, Fault} => sender[t].offset = Len(original[t])
               /\ item \notin {Eof, Fault} =>
                     /\ Ahead(t) >= 1
                     /\ item = original[t][sender[t].offset + 1]
<1> DEFINE s == sender[t]
           o == original[t]
           item == Head(s.pipe)
<1>1. /\ s.offset \in Nat /\ s.pos \in Nat /\ Ahead(t) \in Int
      /\ s.pipe \in Seq(Block \cup {Eof, Fault}) /\ Len(s.pipe) \in Nat
      /\ s.reading => s.pipe \in Seq(Block)
      /\ o \in Seq(Block) /\ Len(o) \in Nat
  BY StreamingTypes
<1>2. /\ s.pos = s.offset + Ahead(t) /\ s.pos <= Len(o)
      /\ \A k \in 1 .. Ahead(t) : s.pipe[k] = o[s.offset + k]
      /\ ~s.reading => /\ Ahead(t) >= 0 /\ s.pipe[Ahead(t) + 1] = Eof /\ s.pos = Len(o)
  BY DEF DataOf, Data, Piped
<1>3. item = s.pipe[1] /\ Len(s.pipe) >= 1
  BY <1>1
<1>4. s.reading => Ahead(t) >= 1
  BY <1>3 DEF Ahead
<1>5. CASE Ahead(t) >= 1
  <2>1. item = o[s.offset + 1]
    BY <1>1, <1>2, <1>3, <1>5
  <2>2. s.offset + 1 \in 1 .. Len(o)
    BY <1>1, <1>2, <1>5, SMTT(30)
  <2>3. item \in Block
    BY <1>1, <2>1, <2>2
  <2> QED
    BY <1>5, <2>1, <2>3, DistinctAssumption
<1>6. CASE ~(Ahead(t) >= 1)
  <2>1. ~s.reading /\ Ahead(t) = 0
    BY <1>1, <1>2, <1>4, <1>6
  <2>2. item = Eof /\ s.offset = Len(o)
    BY <1>1, <1>2, <1>3, <2>1
  <2> QED
    BY <2>2
<1> QED
  BY <1>5, <1>6

LEMMA DataSenderForward ==
    ASSUME NEW T \in SUBSET Transfers, DataOf(T),
           NEW t \in Transfers, t \in T, SenderForward(t)
    PROVE  DataOf(T)'
<1> DEFINE s == sender[t]
           o == original[t]
           item == Head(s.pipe)
           rest == Tail(s.pipe)
<1>1. ProtocolOf(T) /\ Data(t)
  BY DEF DataOf
<1>2. /\ ProtocolOf(T)'
      /\ \A u \in Transfers \ {t} : Undisturbed(u)
      /\ result[t] # "complete"
  BY <1>1, ProtocolSenderForward
<1>3. /\ s.phase = "streaming" /\ s.pipe # <<>>
      /\ UNCHANGED <<disk, active_downloads, caps, result, delivered, original, damaged>>
  BY DEF SenderForward, history
<1>4. /\ s \in SenderState /\ s.offset \in Nat /\ s.pos \in Nat /\ Ahead(t) \in Int
      /\ s.pipe \in Seq(Block \cup {Eof, Fault}) /\ Len(s.pipe) \in Nat
      /\ s.reading => s.pipe \in Seq(Block)
      /\ o \in Seq(Block) /\ Len(o) \in Nat
  BY <1>3, StreamingTypes
<1>5. /\ item \in Block \cup {Eof, Fault} /\ item = s.pipe[1]
      /\ rest \in Seq(Block \cup {Eof, Fault}) /\ Len(rest) = Len(s.pipe) - 1
      /\ \A k \in 1 .. Len(rest) : rest[k] = s.pipe[k + 1]
  BY <1>3, <1>4, HeadTailProperties
<1>6. CompleteIsExact(t)'
  BY <1>2, <1>3 DEF CompleteIsExact
<1>7. CASE /\ item \in {Eof, Fault}
           /\ sender' = [sender EXCEPT ![t] =
                           [s EXCEPT !.phase = "finished", !.pipe = rest, !.file = None]]
           /\ Send(Sender(t), Receiver(t), FileTransferComplete(t))
  <2> DEFINE r == [s EXCEPT !.phase = "finished", !.pipe = rest, !.file = None]
             msg == FileTransferComplete(t)
  <2>1. ~s.reading
    <3>1. s.reading => item \in Block
      BY <1>3, <1>4
    <3> QED
      BY <1>7, <3>1, DistinctAssumption
  <2> HIDE DEF rest
  <2>2. /\ r \in SenderState
        /\ r.phase = "finished" /\ r.offset = s.offset /\ ~r.reading
    BY <1>4, <1>5, <2>1 DEF SenderState
  <2>3. Flight(t)' = Flight(t) \cup {msg} /\ msg.type = "FileTransferComplete"
    <3>1. msg \in Message /\ msg.id = t /\ msg.type = "FileTransferComplete"
      BY DEF FileTransferComplete, Message
    <3> HIDE DEF msg
    <3>2. Send(Sender(t), Receiver(t), msg)
      BY <1>7 DEF msg
    <3> QED
      BY <1>1, <1>3, <3>1, <3>2, ForwardFlight
  <2>4. sender'[t] = r /\ \A u \in T \ {t} : Unmoved(u) /\ Steady(u)
    <3>1. sender' = [sender EXCEPT ![t] = r]
      BY <1>7
    <3> HIDE DEF r
    <3> QED
      BY <1>1, <1>2, <1>3, <2>2, <3>1, TaskOthers DEF Undisturbed
  <2> HIDE DEF r, msg
  <2>5. Opened(t)'
    BY <1>1, <1>3, <2>2, <2>4 DEF Data, Opened
  <2>6. ASSUME t \notin damaged  PROVE Piped(t)' /\ (Live(t)' => Arrived(t)')
    <3>1. Piped(t)'
      <4>1. s.offset = Len(o)
        BY <1>3, <1>7, <2>6, NextItem
      <4> QED
        BY <1>3, <2>2, <2>4, <4>1 DEF Piped
    <3>2. Live(t)' => Live(t)
      BY <1>3 DEF Live, Registered
    <3>3. Live(t) => Arrived(t)
      BY <1>1, <2>6 DEF Data
    <3>4. \A x : x.type = "FileChunk" => (x \in Flight(t)' <=> x \in Flight(t))
      BY <2>3
    <3>5. Arrived(t) => Arrived(t)'
      BY <1>3, <2>2, <2>4, <3>4, ArrivedKept
    <3> QED
      BY <3>1, <3>2, <3>3, <3>5
  <2>7. Data(t)'
    BY <1>3, <1>6, <2>5, <2>6 DEF Data
  <2> QED
    BY <1>2, <2>4, <2>7, OtherDataKept
<1>8. CASE /\ item \notin {Eof, Fault}
           /\ sender' = [sender EXCEPT ![t] = [s EXCEPT !.pipe = rest, !.offset = s.offset + 1]]
           /\ Send(Sender(t), Receiver(t), FileChunk(t, s.offset, item))
  <2> DEFINE r == [s EXCEPT !.pipe = rest, !.offset = s.offset + 1]
             msg == FileChunk(t, s.offset, item)
  <2>1. sender' = [sender EXCEPT ![t] = r]
    BY <1>8
  <2> HIDE DEF rest
  <2>2. /\ r \in SenderState
        /\ r.phase = "streaming" /\ r.offset = s.offset + 1 /\ r.pos = s.pos
        /\ r.pipe = rest /\ r.reading = s.reading /\ r.file = s.file /\ r.held = s.held
    <3> DEFINE next == s.offset + 1
               q == [s EXCEPT !.pipe = rest, !.offset = next]
    <3>1. next \in Nat
      BY <1>4
    <3> HIDE DEF next
    <3>2. q \in SenderState
      BY <1>4, <1>5, <3>1 DEF SenderState
    <3>3. /\ q.phase = s.phase /\ q.offset = next /\ q.pos = s.pos
          /\ q.pipe = rest /\ q.reading = s.reading /\ q.file = s.file /\ q.held = s.held
      BY <1>4 DEF SenderState
    <3>4. r = q
      BY DEF next
    <3> QED
      BY <1>3, <3>2, <3>3, <3>4 DEF next
  <2> HIDE DEF r
  <2>3. /\ Flight(t)' = Flight(t) \cup {msg}
        /\ msg.type = "FileChunk" /\ msg.offset = s.offset /\ msg.data = item
    <3>1. /\ msg \in Message /\ msg.id = t /\ msg.type = "FileChunk"
          /\ msg.offset = s.offset /\ msg.data = item
      BY <1>4, <1>5, <1>8 DEF FileChunk, Message
    <3> HIDE DEF msg
    <3>2. Send(Sender(t), Receiver(t), msg)
      BY <1>8 DEF msg
    <3>3. Flight(t)' = Flight(t) \cup {msg}
      BY <1>1, <1>3, <3>1, <3>2, ForwardFlight
    <3> QED
      BY <3>1, <3>3
  <2> HIDE DEF msg
  <2>4. sender'[t] = r /\ \A u \in T \ {t} : Unmoved(u) /\ Steady(u)
    BY <1>1, <1>2, <1>3, <2>1, <2>2, TaskOthers DEF Undisturbed
  <2>5. Opened(t)'
    BY <1>1, <1>3, <2>2, <2>4 DEF Data, Opened
  <2>6. ASSUME t \notin damaged  PROVE Piped(t)' /\ (Live(t)' => Arrived(t)')
    <3>1. Ahead(t) >= 1 /\ item = o[s.offset + 1]
      BY <1>3, <1>8, <2>6, NextItem
    <3>2. Ahead(t)' = Ahead(t) - 1
      BY <1>4, <1>5, <2>2, <2>4 DEF Ahead
    <3>3. /\ s.reading => OpenFile(t) = o
          /\ s.pos = s.offset + Ahead(t) /\ s.pos <= Len(o)
          /\ \A k \in 1 .. Ahead(t) : s.pipe[k] = o[s.offset + k]
          /\ ~s.reading => s.pipe[Ahead(t) + 1] = Eof /\ s.pos = Len(o)
      BY <1>1, <1>3, <2>6 DEF Data, Piped
    <3>4. Ahead(t) <= Len(s.pipe) /\ (~s.reading => Ahead(t) = Len(rest))
      BY <1>4, <1>5 DEF Ahead
    <3>5. Piped(t)'
      <4>1. OpenFile(t)' = OpenFile(t)
        BY <1>3, <2>2, <2>4 DEF OpenFile
      <4>2. s.pos = (s.offset + 1) + (Ahead(t) - 1)
        <5>1. s.pos = s.offset + Ahead(t)
          BY <3>3
        <5>2. s.offset \in Int /\ Ahead(t) \in Int
          BY <1>4
        <5> QED
          BY <5>1, <5>2
      <4>3. \A k \in 1 .. Ahead(t) - 1 : rest[k] = o[(s.offset + 1) + k]
        <5> SUFFICES ASSUME NEW k \in 1 .. Ahead(t) - 1
                     PROVE  rest[k] = o[(s.offset + 1) + k]
          OBVIOUS
        <5>1. k \in 1 .. Len(rest) /\ k + 1 \in 1 .. Ahead(t)
          BY <1>4, <1>5, <3>4
        <5>2. rest[k] = s.pipe[k + 1] /\ s.pipe[k + 1] = o[s.offset + (k + 1)]
          BY <1>5, <3>3, <5>1
        <5>3. s.offset + (k + 1) = (s.offset + 1) + k
          <6>1. s.offset \in Nat /\ Ahead(t) \in Int
            BY <1>4
          <6>2. k \in Int
            BY <6>1
          <6> QED
            BY <6>1, <6>2
        <5> QED
          BY <5>2, <5>3
      <4>4. ~s.reading => Ahead(t) - 1 >= 0 /\ rest[(Ahead(t) - 1) + 1] = Eof
        <5>1. (Ahead(t) - 1) + 1 = Ahead(t) /\ Ahead(t) - 1 >= 0
          BY <1>4, <3>1
        <5>2. ~s.reading => rest[Ahead(t)] = s.pipe[Ahead(t) + 1]
          BY <1>4, <1>5, <3>1, <3>4, SMTT(30)
        <5> QED
          BY <3>3, <5>1, <5>2
      <4>5. original'[t] = o
        BY <1>3
      <4> QED
        BY <2>2, <2>4, <3>2, <3>3, <4>1, <4>2, <4>3, <4>4, <4>5 DEF Piped
    <3>6. ASSUME Live(t)'  PROVE Arrived(t)'
      <4>1. Live(t)
        BY <1>3, <3>6 DEF Live, Registered
      <4>2. /\ Arrived(t) /\ Len(Got(t)) \in Nat
        BY <1>1, <2>6, <4>1, GotType DEF Data
      <4>3. Got(t)' = Got(t) /\ original'[t] = o /\ sender'[t].offset = s.offset + 1
        BY <1>3, <2>2, <2>4 DEF Got
      <4>4. Len(Got(t)) <= s.offset /\ Len(Got(t)) <= s.offset + 1
        BY <1>4, <4>2 DEF Arrived
      <4>5. \A k \in Nat : Len(Got(t)) <= k /\ k < s.offset + 1 =>
                \E x \in Flight(t)' : x.type = "FileChunk" /\ x.offset = k
        <5> SUFFICES ASSUME NEW k \in Nat, Len(Got(t)) <= k, k < s.offset + 1
                     PROVE  \E x \in Flight(t)' : x.type = "FileChunk" /\ x.offset = k
          OBVIOUS
        <5>1. CASE k = s.offset
          BY <2>3, <5>1
        <5>2. CASE k < s.offset
          <6>1. \E x \in Flight(t) : x.type = "FileChunk" /\ x.offset = k
            BY <4>2, <5>2 DEF Arrived
          <6> QED
            BY <2>3, <6>1
        <5> QED
          BY <1>4, <5>1, <5>2
      <4>6. \A x \in Flight(t)' : x.type = "FileChunk" =>
                Len(Got(t)) <= x.offset /\ x.data = o[x.offset + 1]
        BY <2>3, <3>1, <4>2, <4>4 DEF Arrived
      <4>7. \A i \in 1 .. Len(Got(t)) : Got(t)[i] = o[i]
        BY <4>2 DEF Arrived
      <4> QED
        BY <4>3, <4>4, <4>5, <4>6, <4>7 DEF Arrived
    <3> QED
      BY <3>5, <3>6
  <2>7. Data(t)'
    BY <1>3, <1>6, <2>5, <2>6 DEF Data
  <2> QED
    BY <1>2, <2>4, <2>7, OtherDataKept
<1> QED
  BY <1>7, <1>8, Zenon DEF SenderForward, EndOfStream

-----------------------------------------------------------------------------
(* The data: its invariant and what it gives.                              *)

LEMMA DataStutter ==
    ASSUME NEW T \in SUBSET Transfers, DataOf(T), UNCHANGED vars
    PROVE  DataOf(T)'
<1>1. ProtocolOf(T)'
  BY ProtocolStutter DEF DataOf
<1>2. ASSUME NEW t \in Transfers  PROVE Unmoved(t) /\ Steady(t)
  <2>1. Unmoved(t)
    BY DEF vars, Unmoved, Flight, Registered
  <2>2. Steady(t)
    BY SteadyAside DEF vars
  <2> QED
    BY <2>1, <2>2
<1> QED
  BY <1>1, <1>2, AllDataKept

LEMMA DataHandle ==
    ASSUME NEW T \in SUBSET Transfers, DataOf(T),
           NEW m \in Nodes, NEW n \in Nodes, Handle(m, n), Head(net[m][n]).id \in T
    PROVE  DataOf(T)'
<1>1. PICK msg, t : Foremost(m, n, msg, t) /\ t \in T
  BY DEF Foremost
<1>2. CASE HandleAccepted(m, n)
  BY <1>1, <1>2, DataUploadAccepted, DataDownloadAccepted
<1>3. CASE HandleUploadRequest(m, n)
  BY <1>1, <1>3, DataUploadRequest
<1>4. CASE HandleDownloadRequest(m, n)
  BY <1>1, <1>4, DataDownloadRequest
<1>5. CASE HandleRejected(m, n)
  BY <1>1, <1>5, DataRejected
<1>6. CASE HandleChunk(m, n)
  BY <1>1, <1>6, DataChunk
<1>7. CASE HandleComplete(m, n)
  BY <1>1, <1>7, DataComplete
<1>8. CASE HandleNothing(m, n)
  BY <1>1, <1>8, DataNothing
<1> QED
  BY <1>2, <1>3, <1>4, <1>5, <1>6, <1>7, <1>8 DEF Handle

LEMMA DataNext == ASSUME DataInv, [Next]_vars PROVE DataInv'
<1> DEFINE T == Transfers
<1>0. DataOf(T) /\ T \in SUBSET Transfers
  BY DEF DataInv
<1> SUFFICES DataOf(T)'
  BY DEF DataInv
<1>1. CASE \E t \in Transfers : StartUpload(t)
  BY <1>0, <1>1, DataStart
<1>2. CASE \E t \in Transfers : StartDownload(t)
  BY <1>0, <1>2, DataStart
<1>3. ASSUME NEW m \in Nodes, NEW n \in Nodes, Handle(m, n)
      PROVE  DataOf(T)'
  <2>1. Head(net[m][n]).id \in T
    BY <1>0, <1>3, HandledIsTransfer DEF DataOf, ProtocolOf
  <2> QED
    BY <1>0, <1>3, <2>1, DataHandle
<1>4. CASE \E n \in Nodes, p \in Paths : HandleDelete(n, p)
  BY <1>0, <1>4, DataEdits
<1>5. CASE \E n \in Nodes, p, q \in Paths : HandleRename(n, p, q)
  BY <1>0, <1>5, DataEdits
<1>6. CASE \E t \in Transfers : SendingTask(t)
  BY <1>0, <1>6, DataSenderOpen, DataSenderForward DEF SendingTask
<1>7. CASE \E t \in Transfers : ReaderRead(t)
  BY <1>0, <1>7, DataReaderRead
<1>8. CASE UNCHANGED vars
  BY <1>0, <1>8, DataStutter
<1> QED
  BY <1>1, <1>2, <1>3, <1>4, <1>5, <1>6, <1>7, <1>8 DEF Next

LEMMA DataGivesIntegrity == DataInv => Integrity
<1> SUFFICES ASSUME DataInv, NEW t \in Transfers \ damaged
             PROVE  CompleteIsExact(t) /\ PartialIsPrefix(t)
  BY DEF Integrity
<1>0. DataOf(Transfers)
  BY DEF DataInv
<1>1. ProtocolOf(Transfers) /\ Opened(t) /\ Piped(t) /\ (Live(t) => Arrived(t)) /\ CompleteIsExact(t)
  BY <1>0 DEF DataOf, Data
<1>2. ASSUME Registered(t), original[t] # None
      PROVE  IsPrefixOf(Contents(disk[Receiver(t)][active_downloads[Receiver(t)][t].path]), original[t])
  <2>1. /\ Receiver(t) \in caps
        /\ active_downloads[Receiver(t)][t].path = Place(t)
    BY <1>1, <1>2, EndsAreNodes DEF Registered, ProtocolOf, TransferInv, Entered
  <2>2. sender[t].phase \in {"streaming", "finished"}
    BY <1>1, <1>2 DEF Opened
  <2>3. Live(t) /\ Arrived(t)
    BY <1>1, <1>2, <2>1, <2>2 DEF Live
  <2>4. sender[t].offset <= Len(original[t])
    <3>1. CASE sender[t].phase = "streaming"
      <4>1. /\ sender[t].offset \in Nat /\ sender[t].pos \in Nat /\ Ahead(t) \in Int
            /\ Len(original[t]) \in Nat /\ Len(sender[t].pipe) \in Nat
        BY <1>0, <3>1, StreamingTypes
      <4>2. Ahead(t) >= 0
        BY <1>1, <3>1, <4>1 DEF Piped, Ahead
      <4> QED
        BY <1>1, <3>1, <4>1, <4>2 DEF Piped
    <3>2. CASE sender[t].phase = "finished"
      BY <1>1, <3>2, SenderTypes DEF Piped
    <3> QED
      BY <2>2, <3>1, <3>2
  <2>5. /\ Len(Got(t)) \in Nat /\ sender[t].offset \in Nat /\ Len(original[t]) \in Nat
    <3>1. original[t] \in Seq(Block)
      BY <1>1, <1>2, SenderTypes DEF File
    <3> QED
      BY <1>1, <2>3, <3>1, GotType, SenderTypes
  <2>6. Len(Got(t)) <= Len(original[t])
    BY <2>3, <2>4, <2>5 DEF Arrived
  <2>7. IsPrefixOf(Got(t), original[t])
    BY <2>3, <2>6 DEF Arrived, IsPrefixOf
  <2> QED
    BY <2>1, <2>7 DEF Got
<1>3. PartialIsPrefix(t)
  BY <1>2 DEF PartialIsPrefix, Registered
<1> QED
  BY <1>1, <1>3

\* What is on its way and what has arrived agree with what the sender opened.
THEOREM DataInvariant == Spec => []DataInv
BY DataInit, DataNext, PTL DEF Spec

\* End to end: unless a read or a write of a transfer failed or somebody else
\* changed one of its files, what its receiver has is at every moment a
\* beginning of what its sender opened, and all of it when it says complete;
\* whatever other transfers, deletions and renames go on meanwhile.
THEOREM TransfersAreExact == Spec => []Integrity
BY DataInvariant, DataGivesIntegrity, PTL

=============================================================================
