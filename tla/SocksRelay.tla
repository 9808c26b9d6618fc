----------------------------- MODULE SocksRelay -----------------------------
(***************************************************************************)
(* Relayed TCP connections: the message handler of p2p-handlers/src/       *)
(* socks.rs, the task it spawns for each stream, and the reading and       *)
(* writing tasks of node-functions/src/socks5.rs.                          *)
(*                                                                         *)
(* Blocks of data are numbered in the order they were sent, in each        *)
(* direction.  The messages of a peer are handled in the order it sends    *)
(* them, so sending and handling one is a single step.                     *)
(***************************************************************************)
EXTENDS Integers, Sequences, NetGuard

CONSTANTS
    Streams,    \* stream ids
    QueueCap,   \* capacity of the channel from handler to writing task (1024)
    ChanCap,    \* capacity of the channel from reading to relaying task (1024)
    MaxUp,      \* bound on the blocks a peer sends on a stream
    MaxDown,    \* bound on the blocks a target sends on a stream
    Accepted, Refused, Closed \* what a peer is told beside the data

ASSUME BoundsAssumption ==
    /\ {QueueCap, ChanCap} \subseteq Nat \ {0}
    /\ {MaxUp, MaxDown} \subseteq Nat
    /\ {Accepted, Refused, Closed} \cap 1 .. MaxDown = {}
    /\ Accepted \notin {Refused, Closed}

VARIABLES
    active_socks_streams, \* the streams whose sender is in the map
    queue,      \* queue[s]: blocks waiting for the writing task
    task,       \* task[s]: where the relaying task of s is
    reader,     \* reader[s]: the reading task
    writer,     \* writer[s]: the writing task
    chan,       \* chan[s]: blocks read and not yet relayed
    toPeer,     \* toPeer[s]: what the peer was sent about s
    peerClosed, \* streams the peer has closed
    up,         \* up[s]: number of blocks the peer has sent
    dropped,    \* history: dropped[s]: blocks a full queue refused
    written,    \* written[s]: the blocks the target was sent
    down,       \* down[s]: number of blocks the target has sent
    taken,      \* taken[s]: number of those the reading task has read
    target,     \* target[s]: how the target left the connection
    contacted   \* history: the addresses a connection was made to

vars == <<active_socks_streams, queue, task, reader, writer, chan, toPeer, peerClosed,
          up, dropped, written, down, taken, target, contacted>>

peer == <<peerClosed, up, dropped>>
ends == <<down, taken, target, contacted>>

-----------------------------------------------------------------------------
(* The message handler.                                                    *)

\* The queue is registered before the connection exists, so that no block
\* sent early is lost.
RegisterOnConnected(s) == UNCHANGED active_socks_streams
Register(s) == active_socks_streams' = active_socks_streams \cup {s}

SocksConnectRequest(s) ==
    /\ task[s] = "none"
    /\ task' = [task EXCEPT ![s] = "connecting"]
    /\ Register(s)
    /\ UNCHANGED <<queue, reader, writer, chan, toPeer, peer, written, ends>>

\* local_rx belongs to the connecting task, then to the writing task.
ReceiverAlive(s) == task[s] = "connecting" \/ writer[s] = "running"

\* The channel is bounded, and try_send does not wait for room.
AlwaysRoom(s) == TRUE
QueueHasRoom(s) == Len(queue[s]) < QueueCap

\* try_send, its result ignored.
SocksData(s) ==
    LET accepted == QueueHasRoom(s) /\ ReceiverAlive(s)
    IN  /\ task[s] # "none"
        /\ s \notin peerClosed
        /\ up[s] < MaxUp
        /\ up' = [up EXCEPT ![s] = @ + 1]
        /\ \/ /\ s \in active_socks_streams
              /\ accepted
              /\ queue' = [queue EXCEPT ![s] = Append(@, up[s] + 1)]
              /\ UNCHANGED dropped
           \/ /\ s \in active_socks_streams
              /\ ~accepted
              /\ dropped' = [dropped EXCEPT ![s] = @ \cup {up[s] + 1}]
              /\ UNCHANGED queue
           \/ /\ s \notin active_socks_streams
              /\ UNCHANGED <<queue, dropped>>
        /\ UNCHANGED <<active_socks_streams, task, reader, writer, chan, toPeer,
                       peerClosed, written, ends>>

SocksClose(s) ==
    /\ task[s] # "none"
    /\ s \notin peerClosed
    /\ peerClosed' = peerClosed \cup {s}
    /\ active_socks_streams' = active_socks_streams \ {s}
    /\ UNCHANGED <<queue, task, reader, writer, chan, toPeer, up, dropped, written, ends>>

-----------------------------------------------------------------------------
(* The task the handler spawns: connect, answer, relay, close, clean up.   *)

Tell(s, msg) == toPeer' = [toPeer EXCEPT ![s] = Append(@, msg)]

NoAnswer(s) == UNCHANGED toPeer
AnswerFailure(s) == Tell(s, Refused)

\* Resolution or connection failed, or every address is one not to relay to.
ConnectFails(s) ==
    /\ task[s] = "connecting"
    /\ task' = [task EXCEPT ![s] = "cleaning"]
    /\ AnswerFailure(s)
    /\ queue' = [queue EXCEPT ![s] = <<>>]
    /\ UNCHANGED <<active_socks_streams, reader, writer, chan, peer, written, ends>>

\* Of the addresses the name resolved to, one that was let through takes the
\* connection.  Both halves run before the peer is answered.
ConnectSucceeds(s, resolved, addr) ==
    /\ task[s] = "connecting"
    /\ addr \in ResolveAllowed(resolved, AllowsLocalNetwork(s))
    /\ contacted' = [contacted EXCEPT ![s] = @ \cup {addr}]
    /\ task' = [task EXCEPT ![s] = "answering"]
    /\ reader' = [reader EXCEPT ![s] = "running"]
    /\ writer' = [writer EXCEPT ![s] = "running"]
    /\ UNCHANGED <<active_socks_streams, queue, chan, toPeer, peer, written, down, taken, target>>

AnswerPeer(s) ==
    /\ task[s] = "answering"
    /\ task' = [task EXCEPT ![s] = "relaying"]
    /\ Tell(s, Accepted)
    /\ UNCHANGED <<active_socks_streams, queue, reader, writer, chan, peer, written, ends>>

RelayToPeer(s) ==
    /\ task[s] = "relaying"
    /\ chan[s] # <<>>
    /\ Tell(s, Head(chan[s]))
    /\ chan' = [chan EXCEPT ![s] = Tail(@)]
    /\ UNCHANGED <<active_socks_streams, queue, task, reader, writer, peer, written, ends>>

\* The receiver of the reading task's channel ends once that is drained.
SourceEndedEarly(s) == reader[s] = "ended"
SourceEnded(s) == reader[s] = "ended" /\ chan[s] = <<>>

RelayEnds(s) ==
    /\ task[s] = "relaying"
    /\ SourceEnded(s)
    /\ task' = [task EXCEPT ![s] = "cleaning"]
    /\ Tell(s, Closed)
    /\ UNCHANGED <<active_socks_streams, queue, reader, writer, chan, peer, written, ends>>

ForgetNothing(s) == UNCHANGED active_socks_streams
Forget(s) == active_socks_streams' = active_socks_streams \ {s}

CleanUp(s) ==
    /\ task[s] = "cleaning"
    /\ task' = [task EXCEPT ![s] = "done"]
    /\ Forget(s)
    /\ UNCHANGED <<queue, reader, writer, chan, toPeer, peer, written, ends>>

-----------------------------------------------------------------------------
(* The reading and the writing task.                                       *)

ReaderReads(s) ==
    /\ reader[s] = "running"
    /\ target[s] # "broken"
    /\ taken[s] < down[s]
    /\ Len(chan[s]) < ChanCap
    /\ taken' = [taken EXCEPT ![s] = @ + 1]
    /\ chan' = [chan EXCEPT ![s] = Append(@, taken[s] + 1)]
    /\ UNCHANGED <<active_socks_streams, queue, task, reader, writer, toPeer, peer,
                   written, down, target, contacted>>

ReaderEnds(s) ==
    /\ reader[s] = "running"
    /\ target[s] = "broken" \/ (target[s] = "finished" /\ taken[s] = down[s])
    /\ reader' = [reader EXCEPT ![s] = "ended"]
    /\ UNCHANGED <<active_socks_streams, queue, task, writer, chan, toPeer, peer, written, ends>>

\* write_all, for as long as the target takes data.
WriterWrites(s) ==
    /\ writer[s] = "running"
    /\ target[s] # "broken"
    /\ queue[s] # <<>>
    /\ written' = [written EXCEPT ![s] = Append(@, Head(queue[s]))]
    /\ queue' = [queue EXCEPT ![s] = Tail(@)]
    /\ UNCHANGED <<active_socks_streams, task, reader, writer, chan, toPeer, peer, ends>>

\* recv returns None when the sender has left the map and the queue is empty;
\* dropping its half of the stream ends the connection towards the target.
QueueEndedEarly(s) == s \notin active_socks_streams
QueueEnded(s) == s \notin active_socks_streams /\ queue[s] = <<>>

WriterEnds(s) ==
    /\ writer[s] = "running"
    /\ QueueEnded(s) \/ (target[s] = "broken" /\ queue[s] # <<>>)
    /\ writer' = [writer EXCEPT ![s] = "ended"]
    /\ queue' = [queue EXCEPT ![s] = <<>>]
    /\ UNCHANGED <<active_socks_streams, task, reader, chan, toPeer, peer, written, ends>>

-----------------------------------------------------------------------------
(* The target of the connection.                                           *)

TargetSends(s) ==
    /\ writer[s] # "none"
    /\ target[s] = "open"
    /\ down[s] < MaxDown
    /\ down' = [down EXCEPT ![s] = @ + 1]
    /\ UNCHANGED <<active_socks_streams, queue, task, reader, writer, chan, toPeer, peer,
                   written, taken, target, contacted>>

\* It finishes sending, or the connection breaks.
TargetEnds(s, how) ==
    /\ writer[s] # "none"
    /\ target[s] # "broken"
    /\ target[s] # how
    /\ target' = [target EXCEPT ![s] = how]
    /\ UNCHANGED <<active_socks_streams, queue, task, reader, writer, chan, toPeer, peer,
                   written, down, taken, contacted>>

-----------------------------------------------------------------------------
Init ==
    /\ active_socks_streams = {}
    /\ queue = [s \in Streams |-> <<>>]
    /\ task = [s \in Streams |-> "none"]
    /\ reader = [s \in Streams |-> "none"]
    /\ writer = [s \in Streams |-> "none"]
    /\ chan = [s \in Streams |-> <<>>]
    /\ toPeer = [s \in Streams |-> <<>>]
    /\ peerClosed = {}
    /\ up = [s \in Streams |-> 0]
    /\ dropped = [s \in Streams |-> {}]
    /\ written = [s \in Streams |-> <<>>]
    /\ down = [s \in Streams |-> 0]
    /\ taken = [s \in Streams |-> 0]
    /\ target = [s \in Streams |-> "open"]
    /\ contacted = [s \in Streams |-> {}]

Connect(s) ==
    \/ ConnectFails(s)
    \/ \E resolved \in SUBSET Addresses, addr \in Addresses : ConnectSucceeds(s, resolved, addr)

Relaying(s) == AnswerPeer(s) \/ RelayToPeer(s) \/ RelayEnds(s) \/ CleanUp(s)
Reading(s) == ReaderReads(s) \/ ReaderEnds(s)

Next ==
    \E s \in Streams :
        \/ SocksConnectRequest(s)
        \/ SocksData(s)
        \/ SocksClose(s)
        \/ Connect(s)
        \/ Relaying(s)
        \/ Reading(s)
        \/ WriterWrites(s)
        \/ WriterEnds(s)
        \/ TargetSends(s)
        \/ \E how \in {"finished", "broken"} : TargetEnds(s, how)

\* A connection attempt ends, by the system's own timeout at the latest, and
\* tasks that can run do.  The target need not take data, nor ever end.
Fairness ==
    \A s \in Streams :
        /\ WF_vars(Connect(s))
        /\ WF_vars(Relaying(s))
        /\ WF_vars(Reading(s))
        /\ WF_vars(WriterEnds(s))

Spec == Init /\ [][Next]_vars /\ Fairness

-----------------------------------------------------------------------------
(* Properties.                                                             *)

\* Types of the variables; the two channels stay within their capacities.
TypeOK ==
    /\ active_socks_streams \subseteq Streams
    /\ queue \in [Streams -> Seq(1 .. MaxUp)]
    /\ task \in [Streams -> {"none", "connecting", "answering", "relaying", "cleaning", "done"}]
    /\ reader \in [Streams -> {"none", "running", "ended"}]
    /\ writer \in [Streams -> {"none", "running", "ended"}]
    /\ chan \in [Streams -> Seq(1 .. MaxDown)]
    /\ toPeer \in [Streams -> Seq((1 .. MaxDown) \cup {Accepted, Refused, Closed})]
    /\ peerClosed \subseteq Streams
    /\ up \in [Streams -> 0 .. MaxUp]
    /\ dropped \in [Streams -> SUBSET (1 .. MaxUp)]
    /\ written \in [Streams -> Seq(1 .. MaxUp)]
    /\ down \in [Streams -> 0 .. MaxDown]
    /\ taken \in [Streams -> 0 .. MaxDown]
    /\ target \in [Streams -> {"open", "finished", "broken"}]
    /\ contacted \in [Streams -> SUBSET Addresses]
    /\ \A s \in Streams : Len(queue[s]) <= QueueCap /\ Len(chan[s]) <= ChanCap

\* The blocks of s that reached the target or still will, in that order.
Upstream(s) == written[s] \o queue[s]

\* What the target gets is what the peer sent, in the order it was sent; until
\* the relay begins to close, nothing is missing but what a full queue refused.
UpstreamInOrder ==
    \A s \in Streams :
        /\ \A i, j \in 1 .. Len(Upstream(s)) : i < j => Upstream(s)[i] < Upstream(s)[j]
        /\ task[s] \in {"connecting", "answering", "relaying"} /\ target[s] # "broken"
             => {Upstream(s)[i] : i \in 1 .. Len(Upstream(s))} = 1 .. up[s] \ dropped[s]

\* The end of the peer's stream never overtakes its data: when the writing
\* task ends the connection towards a target that is still there, it has
\* written every block the peer sent but those a full queue refused.
CloseAfterData ==
    \A s \in Streams :
        writer[s] = "ended" /\ target[s] # "broken" /\ task[s] # "done" =>
            {written[s][i] : i \in 1 .. Len(written[s])} = 1 .. up[s] \ dropped[s]

\* Downstream, the peer sees the relay contract.
Contract == INSTANCE RelayContract WITH
    heard <- toPeer, told <- down, over <- target

HonoursContract == Contract!Spec

\* Every connect request is answered.
RequestAnswered == \A s \in Streams : task[s] = "connecting" ~> toPeer[s] # <<>>

\* When the target ends the connection the peer is told, the map forgets the
\* stream and the writing task ends, unless the target takes no more data.
TargetEndTearsDown ==
    \A s \in Streams :
        target[s] # "open" ~>
            /\ task[s] = "done"
            /\ s \notin active_socks_streams
            /\ writer[s] = "ended" \/ [](queue[s] # <<>>)

\* A relayed TCP connection loses nothing: while both ends are there, what was
\* written and what is queued is all the peer has sent.
NoGap ==
    \A s \in Streams :
        task[s] \in {"connecting", "answering", "relaying"} /\ target[s] # "broken"
            /\ s \notin peerClosed
          => Upstream(s) = [i \in 1 .. up[s] |-> i]

=============================================================================
