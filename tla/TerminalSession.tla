--------------------------- MODULE TerminalSession --------------------------
(***************************************************************************)
(* Terminal sessions: the message handler of p2p-handlers/src/terminal.rs  *)
(* and the supervisor task, reader thread and output forwarder of each     *)
(* session (node-functions/src/terminal.rs).                               *)
(*                                                                         *)
(* Bytes are counted, not told apart: one unit of input is one message of  *)
(* the peer, one unit of output is one read of the reader thread.  The     *)
(* shell, the processes it starts and the kernel's PTY buffers are the      *)
(* environment.                                                            *)
(***************************************************************************)
EXTENDS Integers

CONSTANTS
    Resources,      \* terminal resources a peer may open
    Sessions,       \* PTY sessions, one for each StartTerminal
    None,           \* no session
    InCap,          \* capacity of the input channel (32)
    ResizeCap,      \* capacity of the resize channel (8)
    OutCap,         \* capacity of the output channel (100)
    PtyCap,         \* units the kernel buffers in each direction of the PTY
    MaxOutput       \* bound on the output of a shell and its job

ASSUME BoundsAssumption ==
    /\ {InCap, ResizeCap, OutCap, PtyCap} \subseteq Nat \ {0}
    /\ MaxOutput \in Nat
    /\ None \notin Sessions

VARIABLES
    active_terminals, \* the session of each resource, or None
    supervisor,       \* supervisor[s]: where the supervisor task of s is
    child,            \* child[s]: the shell process
    job,              \* job[s]: whether a process the shell started holds the slave
    input,            \* input[s]: messages queued in the input channel
    resizes,          \* resizes[s]: sizes queued in the resize channel
    ptyIn,            \* ptyIn[s]: input the shell has not read
    ptyOut,           \* ptyOut[s]: output the reader thread has not read
    output,           \* output[s]: output queued for the forwarder
    reader,           \* reader[s]: whether the reader thread runs
    forwarder,        \* forwarder[s]: whether the forwarding task runs
    produced,         \* produced[s]: output the shell has written
    sent              \* sent[s]: output sent to the peer

vars == <<active_terminals, supervisor, child, job, input, resizes, ptyIn,
          ptyOut, output, reader, forwarder, produced, sent>>

pty == <<ptyIn, ptyOut, output, reader, forwarder, produced, sent>>

Started(s) == supervisor[s] # "unborn"

\* The senders of the input and resize channels live in the map alone.
Connected(s) == \E r \in Resources : active_terminals[r] = s

\* The parent keeps the slave side open until the supervisor drops it.
SlaveHeld(s) == supervisor[s] \in {"selecting", "writing"}

\* A process is attached to the terminal: it may read, write and hold the slave.
Attached(s) == child[s] = "running" \/ job[s]

-----------------------------------------------------------------------------
(* The message handler.                                                    *)

\* A session already registered for the resource is replaced, which drops its
\* senders.  (When the PTY cannot be opened the peer is told; nothing changes.)
StartTerminal(r, s) ==
    /\ ~Started(s)
    /\ active_terminals' = [active_terminals EXCEPT ![r] = s]
    /\ supervisor' = [supervisor EXCEPT ![s] = "selecting"]
    /\ child' = [child EXCEPT ![s] = "running"]
    /\ reader' = [reader EXCEPT ![s] = TRUE]
    /\ forwarder' = [forwarder EXCEPT ![s] = TRUE]
    /\ UNCHANGED <<input, resizes, ptyIn, ptyOut, output, produced, sent, job>>

StopTerminal(r) ==
    /\ active_terminals[r] # None
    /\ active_terminals' = [active_terminals EXCEPT ![r] = None]
    /\ UNCHANGED <<supervisor, child, input, resizes, pty, job>>

\* try_send: a full channel, or one whose supervisor has gone, loses the data.
InputUnbounded(s) == supervisor[s] # "ended"
InputTaken(s) == supervisor[s] # "ended" /\ input[s] < InCap

TerminalInput(r) ==
    LET s == active_terminals[r]
    IN  /\ s # None
        /\ input' = IF InputTaken(s) THEN [input EXCEPT ![s] = @ + 1] ELSE input
        /\ UNCHANGED <<active_terminals, supervisor, child, job, resizes, pty>>

TerminalResize(r) ==
    LET s == active_terminals[r]
    IN  /\ s # None
        /\ resizes' = IF resizes[s] < ResizeCap /\ supervisor[s] # "ended"
                      THEN [resizes EXCEPT ![s] = @ + 1]
                      ELSE resizes
        /\ UNCHANGED <<active_terminals, supervisor, child, job, input, pty>>

-----------------------------------------------------------------------------
(* The supervisor task.                                                    *)

\* The select! receives input and hands it to a blocking write ...
SupervisorTakesInput(s) ==
    /\ supervisor[s] = "selecting"
    /\ input[s] > 0
    /\ input' = [input EXCEPT ![s] = @ - 1]
    /\ supervisor' = [supervisor EXCEPT ![s] = "writing"]
    /\ UNCHANGED <<active_terminals, child, resizes, pty, job>>

\* ... which it awaits before it selects again.  The write returns once the
\* PTY has room; the slave is held, so it does not fail when the shell is gone.
SupervisorWrites(s) ==
    /\ supervisor[s] = "writing"
    /\ ptyIn[s] < PtyCap
    /\ ptyIn' = [ptyIn EXCEPT ![s] = @ + 1]
    /\ supervisor' = [supervisor EXCEPT ![s] = "selecting"]
    /\ UNCHANGED <<active_terminals, child, input, resizes, ptyOut, output,
                   reader, forwarder, produced, sent, job>>

\* recv returns None when the senders are gone and the queue is drained: the
\* PTY is dropped and the shell killed and waited for.
InputClosedIgnored(s) == FALSE
InputClosedEagerly(s) == input[s] = 0
InputClosed(s) == input[s] = 0 /\ ~Connected(s)

SupervisorCloses(s) ==
    /\ supervisor[s] = "selecting"
    /\ InputClosed(s)
    /\ supervisor' = [supervisor EXCEPT ![s] = "killing"]
    /\ UNCHANGED <<active_terminals, child, input, resizes, pty, job>>

SupervisorKills(s) ==
    /\ supervisor[s] = "killing"
    /\ child' = [child EXCEPT ![s] = IF @ = "exited" THEN "exited" ELSE "killed"]
    /\ supervisor' = [supervisor EXCEPT ![s] = "ended"]
    /\ UNCHANGED <<active_terminals, input, resizes, pty, job>>

SupervisorResizes(s) ==
    /\ supervisor[s] = "selecting"
    /\ resizes[s] > 0
    /\ resizes' = [resizes EXCEPT ![s] = @ - 1]
    /\ UNCHANGED <<active_terminals, supervisor, child, input, pty, job>>

\* The 100 ms sleep is made anew for every round, so it wins only when no
\* channel has anything for that long, and a closed channel always has.
PollNever(s) == FALSE
PollTimerFires(s) ==
    supervisor[s] = "selecting" /\ input[s] = 0 /\ resizes[s] = 0 /\ Connected(s)

SupervisorPolls(s) ==
    /\ PollTimerFires(s)
    /\ child[s] = "exited"
    /\ supervisor' = [supervisor EXCEPT ![s] = "ended"]
    /\ UNCHANGED <<active_terminals, child, input, resizes, pty, job>>

-----------------------------------------------------------------------------
(* Output: the reader thread and the forwarding task.                      *)

ReaderReads(s) ==
    /\ reader[s]
    /\ ptyOut[s] > 0
    /\ output[s] < OutCap
    /\ ptyOut' = [ptyOut EXCEPT ![s] = @ - 1]
    /\ output' = [output EXCEPT ![s] = @ + 1]
    /\ UNCHANGED <<active_terminals, supervisor, child, input, resizes, ptyIn,
                   reader, forwarder, produced, sent, job>>

\* The read fails or returns 0 once all is read and every slave is closed: the
\* parent's, the shell's and that of any process the shell left behind.
ReaderAtEndEarly(s) == ~SlaveHeld(s) /\ ~Attached(s)
ReaderAtEnd(s) == ptyOut[s] = 0 /\ ~SlaveHeld(s) /\ ~Attached(s)

ReaderEnds(s) ==
    /\ reader[s]
    /\ ReaderAtEnd(s)
    /\ reader' = [reader EXCEPT ![s] = FALSE]
    /\ UNCHANGED <<active_terminals, supervisor, child, input, resizes, ptyIn,
                   ptyOut, output, forwarder, produced, sent, job>>

ForwarderSends(s) ==
    /\ forwarder[s]
    /\ output[s] > 0
    /\ output' = [output EXCEPT ![s] = @ - 1]
    /\ sent' = [sent EXCEPT ![s] = @ + 1]
    /\ UNCHANGED <<active_terminals, supervisor, child, input, resizes, ptyIn,
                   ptyOut, reader, forwarder, produced, job>>

ForwarderEnds(s) ==
    /\ forwarder[s]
    /\ output[s] = 0
    /\ ~reader[s]
    /\ forwarder' = [forwarder EXCEPT ![s] = FALSE]
    /\ UNCHANGED <<active_terminals, supervisor, child, input, resizes, ptyIn,
                   ptyOut, output, reader, produced, sent, job>>

-----------------------------------------------------------------------------
(* The shell.  It may read, write and exit as it likes, or do nothing; and *)
(* so may a process it leaves in the background (nohup, disown, setsid),   *)
(* which neither the shell's exit nor the supervisor's kill ends.          *)

ShellReads(s) ==
    /\ Attached(s)
    /\ ptyIn[s] > 0
    /\ ptyIn' = [ptyIn EXCEPT ![s] = @ - 1]
    /\ UNCHANGED <<active_terminals, supervisor, child, input, resizes, ptyOut,
                   output, reader, forwarder, produced, sent, job>>

ShellWrites(s) ==
    /\ Attached(s)
    /\ produced[s] < MaxOutput
    /\ ptyOut[s] < PtyCap
    /\ ptyOut' = [ptyOut EXCEPT ![s] = @ + 1]
    /\ produced' = [produced EXCEPT ![s] = @ + 1]
    /\ UNCHANGED <<active_terminals, supervisor, child, input, resizes, ptyIn,
                   output, reader, forwarder, sent, job>>

ShellExits(s) ==
    /\ child[s] = "running"
    /\ child' = [child EXCEPT ![s] = "exited"]
    /\ UNCHANGED <<active_terminals, supervisor, input, resizes, pty, job>>

ShellStartsJob(s) ==
    /\ child[s] = "running"
    /\ job' = [job EXCEPT ![s] = TRUE]
    /\ UNCHANGED <<active_terminals, supervisor, child, input, resizes, pty>>

JobEnds(s) ==
    /\ job' = [job EXCEPT ![s] = FALSE]
    /\ UNCHANGED <<active_terminals, supervisor, child, input, resizes, pty>>

-----------------------------------------------------------------------------
Init ==
    /\ active_terminals = [r \in Resources |-> None]
    /\ supervisor = [s \in Sessions |-> "unborn"]
    /\ child = [s \in Sessions |-> "unborn"]
    /\ job = [s \in Sessions |-> FALSE]
    /\ input = [s \in Sessions |-> 0]
    /\ resizes = [s \in Sessions |-> 0]
    /\ ptyIn = [s \in Sessions |-> 0]
    /\ ptyOut = [s \in Sessions |-> 0]
    /\ output = [s \in Sessions |-> 0]
    /\ reader = [s \in Sessions |-> FALSE]
    /\ forwarder = [s \in Sessions |-> FALSE]
    /\ produced = [s \in Sessions |-> 0]
    /\ sent = [s \in Sessions |-> 0]

Supervisor(s) ==
    \/ SupervisorTakesInput(s)
    \/ SupervisorWrites(s)
    \/ SupervisorCloses(s)
    \/ SupervisorKills(s)
    \/ SupervisorResizes(s)
    \/ SupervisorPolls(s)

Reader(s) == ReaderReads(s) \/ ReaderEnds(s)
Forwarder(s) == ForwarderSends(s) \/ ForwarderEnds(s)

Next ==
    \/ \E r \in Resources, s \in Sessions : StartTerminal(r, s)
    \/ \E r \in Resources : StopTerminal(r)
    \/ \E r \in Resources : TerminalInput(r)
    \/ \E r \in Resources : TerminalResize(r)
    \/ \E s \in Sessions : Supervisor(s)
    \/ \E s \in Sessions : Reader(s)
    \/ \E s \in Sessions : Forwarder(s)
    \/ \E s \in Sessions : ShellReads(s)
    \/ \E s \in Sessions : ShellWrites(s)
    \/ \E s \in Sessions : ShellExits(s)
    \/ \E s \in Sessions : ShellStartsJob(s)
    \/ \E s \in Sessions : JobEnds(s)

\* Tasks and threads that can run do.  Nothing is assumed of the peer, and
\* nothing of the shell or its job: they need not read their input, nor end.
Fairness ==
    \A s \in Sessions : WF_vars(Supervisor(s)) /\ WF_vars(Reader(s)) /\ WF_vars(Forwarder(s))

Spec == Init /\ [][Next]_vars /\ Fairness

-----------------------------------------------------------------------------
(* Properties.                                                             *)

\* Types of the variables; the channels and PTY buffers stay within bounds.
TypeOK ==
    /\ active_terminals \in [Resources -> Sessions \cup {None}]
    /\ supervisor \in [Sessions -> {"unborn", "selecting", "writing", "killing", "ended"}]
    /\ child \in [Sessions -> {"unborn", "running", "exited", "killed"}]
    /\ job \in [Sessions -> BOOLEAN]
    /\ input \in [Sessions -> 0 .. InCap]
    /\ resizes \in [Sessions -> 0 .. ResizeCap]
    /\ ptyIn \in [Sessions -> 0 .. PtyCap]
    /\ ptyOut \in [Sessions -> 0 .. PtyCap]
    /\ output \in [Sessions -> 0 .. OutCap]
    /\ reader \in [Sessions -> BOOLEAN]
    /\ forwarder \in [Sessions -> BOOLEAN]
    /\ produced \in [Sessions -> 0 .. MaxOutput]
    /\ sent \in [Sessions -> 0 .. MaxOutput]

\* Stopping, replacing or polling one session never kills the shell of
\* another that is still registered.
RegisteredShellLives ==
    [][\A s \in Sessions : Connected(s) => child'[s] # "killed"]_vars

\* What a shell and its job wrote reaches the peer to the last read, also what
\* they write after the session was stopped: the forwarding task of a session
\* ends only when everything has been sent.
OutputDelivered ==
    \A s \in Sessions : Started(s) /\ ~forwarder[s] => sent[s] = produced[s]

\* The session is gone: no shell, no task, no thread.
Ended(s) ==
    supervisor[s] = "ended" /\ child[s] # "running" /\ ~reader[s] /\ ~forwarder[s]

\* The supervisor waits in write_all for a PTY that is full.
Blocked(s) == supervisor[s] = "writing" /\ ptyIn[s] = PtyCap

\* Shell and supervisor are gone, but a job keeps the slave open, and with it
\* the reader thread and the forwarding task.
KeptByJob(s) == supervisor[s] = "ended" /\ child[s] # "running" /\ job[s]

\* The select! finds something in a channel, and starts its sleep anew.
Busy(s) == input[s] > 0 \/ resizes[s] > 0

\* A session whose senders are dropped, by StopTerminal or by a StartTerminal
\* that replaces it, is torn down with its shell, tasks and thread.  Two things
\* alone prevent it: a write blocked for good, because nothing reads the
\* terminal any more, and a job that never ends, which keeps thread and
\* forwarder though the shell was killed.
StopEndsSession ==
    \A s \in Sessions :
        Started(s) /\ ~Connected(s) ~> Ended(s) \/ []Blocked(s) \/ []KeptByJob(s)

\* A shell that exits by itself is noticed by the poll, and the session torn
\* down with the same two exceptions, unless the peer keeps sending: input or
\* sizes that arrive for ever may keep the poll's sleep from ever ending.
ExitEndsSession ==
    \A s \in Sessions :
        \/ []<>Busy(s)
        \/ child[s] = "exited" ~> Ended(s) \/ []Blocked(s) \/ []KeptByJob(s)

\* The handler of StopTerminal: "Removing from the map drops the Sender
\* (input_tx), which gracefully kills the PTY."
StopKillsShell ==
    \A s \in Sessions : Started(s) /\ ~Connected(s) ~> child[s] # "running"

=============================================================================
