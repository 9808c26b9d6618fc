--------------------------- MODULE SessionsProofs ---------------------------
(***************************************************************************)
(* Theorems about TerminalSession and DesktopCapture, for any number of    *)
(* terminals and sessions, any capacities of their channels and PTYs, any  *)
(* amount of output and any backends: their types, the completeness of a   *)
(* shell's output, the life of a registered shell, and the contract the    *)
(* receiver of a screen capture sees.                                      *)
(***************************************************************************)
EXTENDS MCSessions, SequenceTheorems, TLAPS

-----------------------------------------------------------------------------
(* Terminals: the inductive invariant, session by session.                 *)

\* A session that was not started has nothing, and is in no map.
Unborn(s) ==
    /\ supervisor[s] = "unborn" <=> child[s] = "unborn"
    /\ supervisor[s] = "unborn" =>
          ~reader[s] /\ ~forwarder[s] /\ ~job[s] /\ ~Connected(s)

\* Output is with the kernel, in the channel or sent, and nowhere else.
NothingLost(s) == produced[s] = sent[s] + output[s] + ptyOut[s]

\* The reader thread leaves nothing behind and nothing follows it; nor does
\* the forwarding task.
Drained(s) ==
    Started(s) =>
        /\ ~reader[s] => ptyOut[s] = 0 /\ child[s] # "running" /\ ~job[s]
        /\ ~forwarder[s] => output[s] = 0 /\ ~reader[s]

\* A supervisor kills its shell once no map has the session, which none ever
\* has again.
KilledIsForgotten(s) ==
    supervisor[s] = "killing" \/ child[s] = "killed" => ~Connected(s)

SessionInv(s) == Unborn(s) /\ NothingLost(s) /\ Drained(s) /\ KilledIsForgotten(s)

TerminalInv == TypeOK /\ \A s \in Sessions : SessionInv(s)

-----------------------------------------------------------------------------
(* Screen captures: the inductive invariant.                               *)

Reported(what) == \E i \in DOMAIN told : told[i] = what

\* Nothing was shown yet.
Dark == ~Reported("Active") /\ ~Reported("Stopped")

Attempt ==
    {"none", "spawned", "portal", "dialog", "opening", "playing", "falling back"}

\* The task of the backend, as long as it has not started the loop.
TaskReports ==
    /\ task \in Attempt => Dark /\ first /\ loop = "none"
    /\ task \in {"polling", "capturing", "stopping", "closing"} =>
          /\ loop = "none"
          /\ ~Reported("Stopped")
          /\ Reported("Active") <=> ~first
    /\ task \notin {"none", "spawned", "leaving", "ended"} => Reported("Starting")
    /\ task \in {"stopping", "closing"} => stop_flag
    /\ callback => ~first

LoopReports ==
    /\ loop = "spawned" => Dark
    /\ loop = "querying" => Dark /\ Reported("Starting")
    /\ loop \in {"checking", "capturing"} =>
          Reported("Starting") /\ Reported("Active") /\ ~Reported("Stopped")

CaptureInv == CaptureTypeOK /\ TaskReports /\ LoopReports

-----------------------------------------------------------------------------
(* Terminals: the initial state, and the sessions a step is not about.     *)

LEMMA InitTerminal == Init => TerminalInv
<1> SUFFICES ASSUME Init  PROVE TerminalInv
  OBVIOUS
<1>1. TypeOK
  BY BoundsAssumption DEF Init, TypeOK
<1>2. ASSUME NEW s \in Sessions  PROVE SessionInv(s)
  BY BoundsAssumption
  DEF Init, SessionInv, Unborn, NothingLost, Drained, KilledIsForgotten, Started, Connected
<1> QED
  BY <1>1, <1>2 DEF TerminalInv

\* What a step leaves of a session; it may lose its place in the map.
SessionLeft(u) ==
    /\ supervisor'[u] = supervisor[u] /\ child'[u] = child[u] /\ job'[u] = job[u]
    /\ ptyOut'[u] = ptyOut[u] /\ output'[u] = output[u]
    /\ reader'[u] = reader[u] /\ forwarder'[u] = forwarder[u]
    /\ produced'[u] = produced[u] /\ sent'[u] = sent[u]
    /\ Connected(u)' => Connected(u)

LEMMA LeftIsKept ==
    ASSUME NEW u \in Sessions, SessionInv(u), SessionLeft(u)
    PROVE  SessionInv(u)'
<1>1. Started(u)' <=> Started(u)
  BY DEF SessionLeft, Started
<1>2. Unborn(u)' /\ KilledIsForgotten(u)'
  BY DEF SessionLeft, SessionInv, Unborn, KilledIsForgotten
<1>3. NothingLost(u)' /\ Drained(u)'
  BY <1>1 DEF SessionLeft, SessionInv, NothingLost, Drained
<1> QED
  BY <1>2, <1>3 DEF SessionInv

LEMMA OtherSessionsKept ==
    ASSUME TerminalInv, TypeOK', NEW s \in Sessions, SessionInv(s)',
           \A u \in Sessions \ {s} : SessionLeft(u)
    PROVE  TerminalInv'
BY LeftIsKept DEF TerminalInv

\* A step about no session in particular.
LEMMA AllSessionsKept ==
    ASSUME TerminalInv, TypeOK', \A u \in Sessions : SessionLeft(u)
    PROVE  TerminalInv'
BY LeftIsKept DEF TerminalInv

-----------------------------------------------------------------------------
(* Terminals: the message handler.                                         *)

LEMMA StartKeeps ==
    ASSUME TerminalInv, NEW r \in Resources, NEW s \in Sessions, StartTerminal(r, s)
    PROVE  TerminalInv'
<1> USE DEF TerminalInv, StartTerminal
<1>1. TypeOK'
  BY DEF TypeOK
<1>2. ASSUME NEW u \in Sessions, u # s  PROVE SessionLeft(u)
  <2>1. Connected(u)' => Connected(u)
    BY <1>2 DEF Connected, TypeOK
  <2> QED
    BY <1>2, <2>1 DEF SessionLeft, TypeOK
<1>3. /\ supervisor[s] = "unborn" /\ child[s] = "unborn"
      /\ supervisor'[s] = "selecting" /\ child'[s] = "running" /\ reader'[s] /\ forwarder'[s]
  BY DEF Started, SessionInv, Unborn, TypeOK
<1>4. SessionInv(s)'
  BY <1>3 DEF SessionInv, Unborn, NothingLost, Drained, KilledIsForgotten
<1> QED
  BY <1>1, <1>2, <1>4, OtherSessionsKept

LEMMA HandlerKeeps ==
    ASSUME TerminalInv, NEW r \in Resources,
           StopTerminal(r) \/ TerminalInput(r) \/ TerminalResize(r)
    PROVE  TerminalInv'
<1> USE DEF TerminalInv, pty
<1>1. CASE StopTerminal(r)
  <2>1. TypeOK'
    BY <1>1 DEF StopTerminal, TypeOK
  <2>2. ASSUME NEW u \in Sessions  PROVE Connected(u)' => Connected(u)
    BY <1>1, BoundsAssumption DEF StopTerminal, Connected, TypeOK
  <2>3. \A u \in Sessions : SessionLeft(u)
    BY <1>1, <2>2 DEF StopTerminal, SessionLeft
  <2> QED
    BY <2>1, <2>3, AllSessionsKept
<1>2. CASE TerminalInput(r)
  <2> DEFINE s == active_terminals[r]
  <2>1. s \in Sessions
    BY <1>2, BoundsAssumption DEF TerminalInput, TypeOK
  <2>2. input' \in [Sessions -> 0 .. InCap]
    BY <1>2, <2>1, BoundsAssumption DEF TerminalInput, InputTaken, TypeOK
  <2>3. TypeOK'
    BY <1>2, <2>1, <2>2 DEF TerminalInput, TypeOK
  <2>4. \A u \in Sessions : SessionLeft(u)
    BY <1>2 DEF TerminalInput, SessionLeft, Connected
  <2> QED
    BY <2>3, <2>4, AllSessionsKept
<1>3. CASE TerminalResize(r)
  <2> DEFINE s == active_terminals[r]
  <2>1. s \in Sessions
    BY <1>3, BoundsAssumption DEF TerminalResize, TypeOK
  <2>2. resizes' \in [Sessions -> 0 .. ResizeCap]
    BY <1>3, <2>1, BoundsAssumption DEF TerminalResize, TypeOK
  <2>3. TypeOK'
    BY <1>3, <2>1, <2>2 DEF TerminalResize, TypeOK
  <2>4. \A u \in Sessions : SessionLeft(u)
    BY <1>3 DEF TerminalResize, SessionLeft, Connected
  <2> QED
    BY <2>3, <2>4, AllSessionsKept
<1> QED
  BY <1>1, <1>2, <1>3

-----------------------------------------------------------------------------
(* Terminals: the supervisor, the reader thread, the forwarding task, and  *)
(* the shell.                                                              *)

LEMMA SupervisorKeeps ==
    ASSUME TerminalInv, NEW s \in Sessions, Supervisor(s)
    PROVE  TerminalInv'
<1> USE DEF TerminalInv, pty
<1>1. TypeOK'
  <2>1. CASE SupervisorTakesInput(s)
    <3>1. input' \in [Sessions -> 0 .. InCap]
      BY <2>1, BoundsAssumption DEF SupervisorTakesInput, TypeOK
    <3> QED
      BY <2>1, <3>1 DEF SupervisorTakesInput, TypeOK
  <2>2. CASE SupervisorWrites(s)
    <3>1. ptyIn' \in [Sessions -> 0 .. PtyCap]
      BY <2>2, BoundsAssumption DEF SupervisorWrites, TypeOK
    <3> QED
      BY <2>2, <3>1 DEF SupervisorWrites, TypeOK
  <2>3. CASE SupervisorResizes(s)
    <3>1. resizes' \in [Sessions -> 0 .. ResizeCap]
      BY <2>3, BoundsAssumption DEF SupervisorResizes, TypeOK
    <3> QED
      BY <2>3, <3>1 DEF SupervisorResizes, TypeOK
  <2>4. CASE SupervisorCloses(s) \/ SupervisorKills(s) \/ SupervisorPolls(s)
    BY <2>4 DEF SupervisorCloses, SupervisorKills, SupervisorPolls, TypeOK
  <2> QED
    BY <2>1, <2>2, <2>3, <2>4 DEF Supervisor
<1>2. /\ UNCHANGED <<active_terminals, job, ptyOut, output, reader, forwarder, produced, sent>>
      /\ \A u \in Sessions \ {s} : supervisor'[u] = supervisor[u] /\ child'[u] = child[u]
      /\ supervisor[s] # "unborn" /\ supervisor'[s] # "unborn"
      /\ supervisor'[s] = "killing" => ~Connected(s)
      /\ \/ child'[s] = child[s]
         \/ supervisor[s] = "killing" /\ child'[s] \in {"exited", "killed"}
  BY DEF Supervisor, SupervisorTakesInput, SupervisorWrites, SupervisorCloses, SupervisorKills,
         SupervisorResizes, SupervisorPolls, PollTimerFires, InputClosed, TypeOK
<1>3. \A u \in Sessions : Connected(u)' <=> Connected(u)
  BY <1>2 DEF Connected
<1>4. \A u \in Sessions \ {s} : SessionLeft(u)
  BY <1>2, <1>3 DEF SessionLeft
<1>5. Started(s) /\ Started(s)' /\ SessionInv(s)
  BY <1>2 DEF Started
<1>6. SessionInv(s)'
  BY <1>2, <1>3, <1>5 DEF SessionInv, Unborn, NothingLost, Drained, KilledIsForgotten
<1> QED
  BY <1>1, <1>4, <1>6, OtherSessionsKept

LEMMA OutputKeeps ==
    ASSUME TerminalInv, NEW s \in Sessions, Reader(s) \/ Forwarder(s)
    PROVE  TerminalInv'
<1> USE DEF TerminalInv
<1>1. /\ ptyOut[s] \in Nat /\ output[s] \in Nat /\ sent[s] \in Nat /\ produced[s] \in Nat
      /\ ptyOut[s] <= PtyCap /\ output[s] <= OutCap /\ produced[s] <= MaxOutput
      /\ produced[s] = sent[s] + output[s] + ptyOut[s]
  BY BoundsAssumption DEF TypeOK, SessionInv, NothingLost
<1>2. UNCHANGED <<active_terminals, supervisor, child, job, produced>>
  BY DEF Reader, ReaderReads, ReaderEnds, Forwarder, ForwarderSends, ForwarderEnds
<1>3. \A u \in Sessions : (Connected(u)' <=> Connected(u)) /\ (Started(u)' <=> Started(u))
  BY <1>2 DEF Connected, Started
<1>4. SessionInv(s) /\ (reader[s] \/ forwarder[s] => Started(s))
  BY DEF SessionInv, Unborn, Started
<1>5. CASE ReaderReads(s)
  <2>1. ptyOut' \in [Sessions -> 0 .. PtyCap] /\ output' \in [Sessions -> 0 .. OutCap]
    BY <1>1, <1>5, BoundsAssumption DEF ReaderReads, TypeOK
  <2>2. TypeOK'
    BY <1>5, <2>1 DEF ReaderReads, TypeOK
  <2>3. \A u \in Sessions \ {s} : SessionLeft(u)
    BY <1>3, <1>5 DEF ReaderReads, SessionLeft, TypeOK
  <2>4. /\ ptyOut'[s] = ptyOut[s] - 1 /\ output'[s] = output[s] + 1
        /\ reader[s] /\ forwarder[s] /\ reader' = reader /\ forwarder' = forwarder /\ sent' = sent
    BY <1>4, <1>5 DEF ReaderReads, TypeOK, SessionInv, Drained
  <2>5. NothingLost(s)'
    BY <1>1, <1>2, <2>4 DEF NothingLost
  <2>6. SessionInv(s)'
    BY <1>2, <1>3, <1>4, <2>4, <2>5 DEF SessionInv, Unborn, Drained, KilledIsForgotten
  <2> QED
    BY <2>2, <2>3, <2>6, OtherSessionsKept
<1>6. CASE ReaderEnds(s)
  <2>1. TypeOK'
    BY <1>6 DEF ReaderEnds, TypeOK
  <2>2. \A u \in Sessions \ {s} : SessionLeft(u)
    BY <1>3, <1>6 DEF ReaderEnds, SessionLeft, TypeOK
  <2>3. /\ ~reader'[s] /\ ptyOut[s] = 0 /\ child[s] # "running" /\ ~job[s]
        /\ UNCHANGED <<ptyOut, output, forwarder, sent>>
    BY <1>6 DEF ReaderEnds, ReaderAtEnd, Attached, TypeOK
  <2>4. NothingLost(s)'
    BY <1>1, <1>2, <2>3 DEF NothingLost
  <2>5. SessionInv(s)'
    BY <1>2, <1>3, <1>4, <2>3, <2>4 DEF SessionInv, Unborn, Drained, KilledIsForgotten
  <2> QED
    BY <2>1, <2>2, <2>5, OtherSessionsKept
<1>7. CASE ForwarderSends(s)
  <2>1. output' \in [Sessions -> 0 .. OutCap] /\ sent' \in [Sessions -> 0 .. MaxOutput]
    BY <1>1, <1>7, BoundsAssumption DEF ForwarderSends, TypeOK
  <2>2. TypeOK'
    BY <1>7, <2>1 DEF ForwarderSends, TypeOK
  <2>3. \A u \in Sessions \ {s} : SessionLeft(u)
    BY <1>3, <1>7 DEF ForwarderSends, SessionLeft, TypeOK
  <2>4. /\ output'[s] = output[s] - 1 /\ sent'[s] = sent[s] + 1 /\ forwarder[s]
        /\ UNCHANGED <<ptyOut, reader, forwarder>>
    BY <1>7 DEF ForwarderSends, TypeOK
  <2>5. NothingLost(s)'
    BY <1>1, <1>2, <2>4 DEF NothingLost
  <2>6. SessionInv(s)'
    BY <1>2, <1>3, <1>4, <2>4, <2>5 DEF SessionInv, Unborn, Drained, KilledIsForgotten
  <2> QED
    BY <2>2, <2>3, <2>6, OtherSessionsKept
<1>8. CASE ForwarderEnds(s)
  <2>1. TypeOK'
    BY <1>8 DEF ForwarderEnds, TypeOK
  <2>2. \A u \in Sessions \ {s} : SessionLeft(u)
    BY <1>3, <1>8 DEF ForwarderEnds, SessionLeft, TypeOK
  <2>3. /\ ~forwarder'[s] /\ output[s] = 0 /\ ~reader[s]
        /\ UNCHANGED <<ptyOut, output, reader, sent>>
    BY <1>8 DEF ForwarderEnds, TypeOK
  <2>4. NothingLost(s)'
    BY <1>1, <1>2, <2>3 DEF NothingLost
  <2>5. SessionInv(s)'
    BY <1>2, <1>3, <1>4, <2>3, <2>4 DEF SessionInv, Unborn, Drained, KilledIsForgotten
  <2> QED
    BY <2>1, <2>2, <2>5, OtherSessionsKept
<1> QED
  BY <1>5, <1>6, <1>7, <1>8 DEF Reader, Forwarder

LEMMA ShellKeeps ==
    ASSUME TerminalInv, NEW s \in Sessions,
           \/ ShellReads(s) \/ ShellWrites(s) \/ ShellExits(s)
           \/ ShellStartsJob(s) \/ JobEnds(s)
    PROVE  TerminalInv'
<1> USE DEF TerminalInv, pty
<1>1. UNCHANGED <<active_terminals, supervisor, output, reader, forwarder, sent>>
  BY DEF ShellReads, ShellWrites, ShellExits, ShellStartsJob, JobEnds
<1>2. \A u \in Sessions : (Connected(u)' <=> Connected(u)) /\ (Started(u)' <=> Started(u))
  BY <1>1 DEF Connected, Started
<1>3. CASE ShellReads(s)
  <2>1. ptyIn' \in [Sessions -> 0 .. PtyCap]
    BY <1>3, BoundsAssumption DEF ShellReads, TypeOK
  <2>2. TypeOK'
    BY <1>3, <2>1 DEF ShellReads, TypeOK
  <2>3. \A u \in Sessions : SessionLeft(u)
    BY <1>1, <1>2, <1>3 DEF ShellReads, SessionLeft
  <2> QED
    BY <2>2, <2>3, AllSessionsKept
<1>4. CASE ShellWrites(s)
  <2>1. ptyOut' \in [Sessions -> 0 .. PtyCap] /\ produced' \in [Sessions -> 0 .. MaxOutput]
    BY <1>4, BoundsAssumption DEF ShellWrites, TypeOK
  <2>2. TypeOK'
    BY <1>4, <2>1 DEF ShellWrites, TypeOK
  <2>3. \A u \in Sessions \ {s} : SessionLeft(u)
    BY <1>1, <1>2, <1>4 DEF ShellWrites, SessionLeft, TypeOK
  <2>4. /\ child[s] = "running" \/ job[s]
        /\ child' = child /\ job' = job /\ Started(s)
        /\ produced'[s] = produced[s] + 1 /\ ptyOut'[s] = ptyOut[s] + 1
    BY <1>4 DEF ShellWrites, Attached, TypeOK, SessionInv, Unborn, Started
  <2>5. reader[s] /\ forwarder[s]
    BY <2>4 DEF SessionInv, Drained
  <2>6. NothingLost(s)'
    <3>1. /\ produced[s] = sent[s] + output[s] + ptyOut[s]
          /\ ptyOut[s] \in Nat /\ output[s] \in Nat /\ sent[s] \in Nat /\ produced[s] \in Nat
      BY BoundsAssumption DEF SessionInv, NothingLost, TypeOK
    <3> QED
      BY <1>1, <2>4, <3>1 DEF NothingLost
  <2>7. SessionInv(s)'
    BY <1>1, <1>2, <2>4, <2>5, <2>6 DEF SessionInv, Unborn, Drained, KilledIsForgotten
  <2> QED
    BY <2>2, <2>3, <2>7, OtherSessionsKept
<1>5. CASE ShellExits(s)
  <2>1. TypeOK'
    BY <1>5 DEF ShellExits, TypeOK
  <2>2. \A u \in Sessions \ {s} : SessionLeft(u)
    BY <1>1, <1>2, <1>5 DEF ShellExits, SessionLeft, TypeOK
  <2>3. child[s] = "running" /\ child'[s] = "exited" /\ UNCHANGED <<job, ptyOut, produced>>
    BY <1>5 DEF ShellExits, TypeOK
  <2>4. SessionInv(s)'
    BY <1>1, <1>2, <2>3 DEF SessionInv, Unborn, NothingLost, Drained, KilledIsForgotten
  <2> QED
    BY <2>1, <2>2, <2>4, OtherSessionsKept
<1>6. CASE ShellStartsJob(s)
  <2>1. TypeOK'
    BY <1>6 DEF ShellStartsJob, TypeOK
  <2>2. \A u \in Sessions \ {s} : SessionLeft(u)
    BY <1>1, <1>2, <1>6 DEF ShellStartsJob, SessionLeft, TypeOK
  <2>3. child[s] = "running" /\ UNCHANGED <<child, ptyOut, produced>>
    BY <1>6 DEF ShellStartsJob
  <2>4. Started(s) /\ reader[s]
    BY <2>3 DEF SessionInv, Unborn, Drained, Started
  <2>5. SessionInv(s)'
    BY <1>1, <1>2, <2>3, <2>4
    DEF SessionInv, Unborn, NothingLost, Drained, KilledIsForgotten, Started
  <2> QED
    BY <2>1, <2>2, <2>5, OtherSessionsKept
<1>7. CASE JobEnds(s)
  <2>1. TypeOK'
    BY <1>7 DEF JobEnds, TypeOK
  <2>2. \A u \in Sessions \ {s} : SessionLeft(u)
    BY <1>1, <1>2, <1>7 DEF JobEnds, SessionLeft, TypeOK
  <2>3. ~job'[s] /\ UNCHANGED <<child, ptyOut, produced>>
    BY <1>7 DEF JobEnds, TypeOK
  <2>4. SessionInv(s)'
    BY <1>1, <1>2, <2>3 DEF SessionInv, Unborn, NothingLost, Drained, KilledIsForgotten
  <2> QED
    BY <2>1, <2>2, <2>4, OtherSessionsKept
<1> QED
  BY <1>3, <1>4, <1>5, <1>6, <1>7

-----------------------------------------------------------------------------
(* The theorems about TerminalSession.                                     *)

LEMMA NextTerminal == TerminalInv /\ [Next]_vars => TerminalInv'
<1> SUFFICES ASSUME TerminalInv, [Next]_vars  PROVE TerminalInv'
  OBVIOUS
<1>1. CASE UNCHANGED vars
  <2>1. TypeOK'
    BY <1>1 DEF vars, TerminalInv, TypeOK
  <2>2. \A u \in Sessions : SessionLeft(u)
    BY <1>1 DEF vars, SessionLeft, Connected
  <2> QED
    BY <2>1, <2>2, AllSessionsKept
<1> QED
  BY <1>1, StartKeeps, HandlerKeeps, SupervisorKeeps, OutputKeeps, ShellKeeps DEF Next

\* The inductive invariant of the terminals holds in every reachable state.
THEOREM TerminalInvariant == Spec => []TerminalInv
BY InitTerminal, NextTerminal, PTL DEF Spec

\* Every state of the terminals is well typed, and every channel and every
\* PTY buffer stays within its capacity.
THEOREM TerminalTypeCorrect == Spec => []TypeOK
<1>1. TerminalInv => TypeOK
  BY DEF TerminalInv
<1> QED
  BY <1>1, TerminalInvariant, PTL

\* The forwarding task of a session, which outlives supervisor, shell and
\* reader thread, ends only when the peer has all the shell ever wrote.
THEOREM TerminalOutputDelivered == Spec => []OutputDelivered
<1>1. TerminalInv => OutputDelivered
  <2> SUFFICES ASSUME TerminalInv, NEW s \in Sessions, Started(s), ~forwarder[s]
               PROVE  sent[s] = produced[s]
    BY DEF OutputDelivered
  <2>1. output[s] = 0 /\ ptyOut[s] = 0
    BY DEF TerminalInv, SessionInv, Drained
  <2> QED
    BY <2>1, BoundsAssumption DEF TerminalInv, SessionInv, NothingLost, TypeOK
<1> QED
  BY <1>1, TerminalInvariant, PTL

\* No supervisor kills a shell whose session a map still has: a session that
\* replaces another is never mistaken for it.
THEOREM TerminalShellLives == Spec => RegisteredShellLives
<1>1. TerminalInv /\ [Next]_vars => [\A s \in Sessions : Connected(s) => child'[s] # "killed"]_vars
  <2> SUFFICES ASSUME TerminalInv, Next, NEW s \in Sessions, Connected(s)
               PROVE  child'[s] # "killed"
    OBVIOUS
  <2>1. /\ child[s] \notin {"killed", "unborn"} /\ supervisor[s] \notin {"killing", "unborn"}
        /\ TypeOK
    BY DEF TerminalInv, SessionInv, KilledIsForgotten, Unborn
  <2>2. ASSUME NEW r \in Resources, NEW u \in Sessions, StartTerminal(r, u)
        PROVE  child'[s] # "killed"
    BY <2>1, <2>2 DEF StartTerminal, TypeOK
  <2>3. ASSUME NEW u \in Sessions, Supervisor(u)  PROVE child'[s] # "killed"
    BY <2>1, <2>3 DEF Supervisor, SupervisorTakesInput, SupervisorWrites, SupervisorCloses,
                      SupervisorKills, SupervisorResizes, SupervisorPolls, TypeOK
  <2>4. ASSUME NEW u \in Sessions, Reader(u) \/ Forwarder(u)  PROVE child'[s] # "killed"
    BY <2>1, <2>4 DEF Reader, ReaderReads, ReaderEnds, Forwarder, ForwarderSends, ForwarderEnds
  <2>5. ASSUME NEW u \in Sessions,
               \/ ShellReads(u) \/ ShellWrites(u) \/ ShellExits(u)
               \/ ShellStartsJob(u) \/ JobEnds(u)
        PROVE  child'[s] # "killed"
    BY <2>1, <2>5 DEF ShellReads, ShellWrites, ShellExits, ShellStartsJob, JobEnds, TypeOK
  <2>6. ASSUME NEW r \in Resources, StopTerminal(r) \/ TerminalInput(r) \/ TerminalResize(r)
        PROVE  child'[s] # "killed"
    BY <2>1, <2>6 DEF StopTerminal, TerminalInput, TerminalResize
  <2> QED
    BY <2>2, <2>3, <2>4, <2>5, <2>6 DEF Next
<1> QED
  BY <1>1, TerminalInvariant, PTL DEF Spec, RegisteredShellLives

-----------------------------------------------------------------------------
(* Screen captures: what a report changes, and the initial state.          *)

Reports == {"Starting", "Active", "Frame", "Error", "Stopped"}

\* A report adds itself to what was reported.
Says(what) ==
    /\ told' \in Seq(Reports)
    /\ \A w : Reported(w)' <=> (Reported(w) \/ w = what)

SaysNothing ==
    /\ told' \in Seq(Reports)
    /\ \A w : Reported(w)' <=> Reported(w)

LEMMA TellSays ==
    ASSUME told \in Seq(Reports), NEW what \in Reports, Tell(what)
    PROVE  Says(what)
<1>1. told' = Append(told, what)
  BY DEF Tell
<1>2. /\ told' \in Seq(Reports)
      /\ Len(told') = Len(told) + 1
      /\ \A i \in 1 .. Len(told) : told'[i] = told[i]
      /\ told'[Len(told) + 1] = what
  BY <1>1, AppendProperties
<1>3. DOMAIN told = 1 .. Len(told) /\ Len(told) \in Nat /\ DOMAIN told' = 1 .. Len(told) + 1
  BY <1>2
<1>4. \A w : Reported(w)' <=> (Reported(w) \/ w = what)
  <2> TAKE w
  <2>1. ASSUME Reported(w)'  PROVE Reported(w) \/ w = what
    <3>1. PICK i \in DOMAIN told' : told'[i] = w
      BY <2>1 DEF Reported
    <3>2. i \in DOMAIN told \/ i = Len(told) + 1
      BY <1>3, <3>1
    <3> QED
      BY <1>2, <1>3, <3>1, <3>2 DEF Reported
  <2>2. ASSUME Reported(w) \/ w = what  PROVE Reported(w)'
    <3>1. CASE w = what
      <4>1. Len(told) + 1 \in DOMAIN told'
        BY <1>3
      <4> QED
        BY <1>2, <3>1, <4>1 DEF Reported
    <3>2. CASE Reported(w)
      <4>1. PICK i \in DOMAIN told : told[i] = w
        BY <3>2 DEF Reported
      <4>2. i \in DOMAIN told' /\ told'[i] = w
        BY <1>2, <1>3, <4>1
      <4> QED
        BY <4>2 DEF Reported
    <3> QED
      BY <2>2, <3>1, <3>2
  <2> QED
    BY <2>1, <2>2
<1> QED
  BY <1>2, <1>4 DEF Says

LEMMA SilenceSays == told \in Seq(Reports) /\ told' = told => SaysNothing
BY DEF SaysNothing, Reported

LEMMA FrameSays ==
    ASSUME told \in Seq(Reports), told' = Recorded("Frame")
    PROVE  (told' = told /\ SaysNothing) \/ (Tell("Frame") /\ Says("Frame"))
<1>1. told' = told \/ Tell("Frame")
  BY DEF Recorded, Tell
<1>2. "Frame" \in Reports
  BY DEF Reports
<1> QED
  BY <1>1, <1>2, TellSays, SilenceSays

LEMMA InitCapture == CaptureInit => CaptureInv
<1> SUFFICES ASSUME CaptureInit  PROVE CaptureInv
  OBVIOUS
<1>1. told = <<>> /\ task = "none" /\ loop = "none" /\ callback = FALSE /\ first = TRUE
  BY DEF CaptureInit
<1>2. \A w : ~Reported(w)
  BY <1>1 DEF Reported
<1>3. CaptureTypeOK
  <2>1. 0 \in 0 .. MaxBusErrors
    BY CaptureAssumption
  <2>2. {stop_flag, arrived, callback, first, watch, closed} \subseteq BOOLEAN
    BY DEF CaptureInit
  <2>3. told \in Seq({"Starting", "Active", "Frame", "Error", "Stopped"})
    BY <1>1
  <2> QED
    BY <2>1, <2>2, <2>3 DEF CaptureInit, CaptureTypeOK
<1>4. TaskReports /\ LoopReports
  BY <1>1, <1>2 DEF TaskReports, LoopReports, Dark, Attempt
<1> QED
  BY <1>3, <1>4 DEF CaptureInv

\* Starting, on every backend.
LEMMA StartingKeeps ==
    ASSUME CaptureInv,
           StartCapture \/ TaskStarts \/ PortalAnswers \/ PipelineBuilt \/ PortalFails \/ FallBack \/ OpenFails \/ StreamRuns
    PROVE  CaptureInv'
<1> USE CaptureAssumption DEF CaptureInv
<1>0. told \in Seq(Reports) /\ {"Starting", "Active", "Frame", "Error", "Stopped"} \subseteq Reports
  BY DEF CaptureTypeOK, Reports
<1>1. CASE StartCapture
  <2>1. SaysNothing \/ Says("Error")
    BY <1>0, <1>1, TellSays, SilenceSays DEF StartCapture, environment
  <2>2. CaptureTypeOK'
    BY <1>1, <2>1 DEF StartCapture, environment, CaptureTypeOK, Says, SaysNothing, Reports
  <2>3. TaskReports'
    BY <1>1, <2>1 DEF StartCapture, environment, TaskReports, LoopReports, Dark, Attempt, CaptureTypeOK, Says, SaysNothing
  <2>4. LoopReports'
    BY <1>1, <2>1 DEF StartCapture, environment, LoopReports, Dark, CaptureTypeOK, Says, SaysNothing, TaskReports, Attempt
  <2> QED
    BY <2>2, <2>3, <2>4
<1>2. CASE TaskStarts
  <2>1. Says("Starting")
    BY <1>0, <1>2, TellSays, SilenceSays DEF TaskStarts, environment
  <2>2. CaptureTypeOK'
    BY <1>2, <2>1 DEF TaskStarts, environment, CaptureTypeOK, Says, SaysNothing, Reports
  <2>3. TaskReports'
    BY <1>2, <2>1 DEF TaskStarts, environment, TaskReports, LoopReports, Dark, Attempt, CaptureTypeOK, Says, SaysNothing
  <2>4. LoopReports'
    BY <1>2, <2>1 DEF TaskStarts, environment, LoopReports, Dark, CaptureTypeOK, Says, SaysNothing, TaskReports, Attempt
  <2> QED
    BY <2>2, <2>3, <2>4
<1>3. CASE PortalAnswers
  <2>1. SaysNothing
    BY <1>0, <1>3, TellSays, SilenceSays DEF PortalAnswers, environment
  <2>2. CaptureTypeOK'
    BY <1>3, <2>1 DEF PortalAnswers, environment, CaptureTypeOK, Says, SaysNothing, Reports
  <2>3. TaskReports'
    BY <1>3, <2>1 DEF PortalAnswers, environment, TaskReports, LoopReports, Dark, Attempt, CaptureTypeOK, Says, SaysNothing
  <2>4. LoopReports'
    BY <1>3, <2>1 DEF PortalAnswers, environment, LoopReports, Dark, CaptureTypeOK, Says, SaysNothing, TaskReports, Attempt
  <2> QED
    BY <2>2, <2>3, <2>4
<1>4. CASE PipelineBuilt
  <2>1. SaysNothing
    BY <1>0, <1>4, TellSays, SilenceSays DEF PipelineBuilt, environment
  <2>2. CaptureTypeOK'
    BY <1>4, <2>1 DEF PipelineBuilt, environment, CaptureTypeOK, Says, SaysNothing, Reports
  <2>3. TaskReports'
    BY <1>4, <2>1 DEF PipelineBuilt, environment, TaskReports, LoopReports, Dark, Attempt, CaptureTypeOK, Says, SaysNothing
  <2>4. LoopReports'
    BY <1>4, <2>1 DEF PipelineBuilt, environment, LoopReports, Dark, CaptureTypeOK, Says, SaysNothing, TaskReports, Attempt
  <2> QED
    BY <2>2, <2>3, <2>4
<1>5. CASE PortalFails
  <2>1. Says("Error")
    BY <1>0, <1>5, TellSays, SilenceSays DEF PortalFails, environment
  <2>2. CaptureTypeOK'
    BY <1>5, <2>1 DEF PortalFails, environment, CaptureTypeOK, Says, SaysNothing, Reports
  <2>3. TaskReports'
    BY <1>5, <2>1 DEF PortalFails, environment, TaskReports, LoopReports, Dark, Attempt, CaptureTypeOK, Says, SaysNothing
  <2>4. LoopReports'
    BY <1>5, <2>1 DEF PortalFails, environment, LoopReports, Dark, CaptureTypeOK, Says, SaysNothing, TaskReports, Attempt
  <2> QED
    BY <2>2, <2>3, <2>4
<1>6. CASE FallBack
  <2>1. Says("Starting")
    BY <1>0, <1>6, TellSays, SilenceSays DEF FallBack, environment
  <2>2. CaptureTypeOK'
    BY <1>6, <2>1 DEF FallBack, environment, CaptureTypeOK, Says, SaysNothing, Reports
  <2>3. TaskReports'
    BY <1>6, <2>1 DEF FallBack, environment, TaskReports, LoopReports, Dark, Attempt, CaptureTypeOK, Says, SaysNothing
  <2>4. LoopReports'
    BY <1>6, <2>1 DEF FallBack, environment, LoopReports, Dark, CaptureTypeOK, Says, SaysNothing, TaskReports, Attempt
  <2> QED
    BY <2>2, <2>3, <2>4
<1>7. CASE OpenFails
  <2>1. Says("Error")
    BY <1>0, <1>7, TellSays, SilenceSays DEF OpenFails, environment
  <2>2. CaptureTypeOK'
    BY <1>7, <2>1 DEF OpenFails, environment, CaptureTypeOK, Says, SaysNothing, Reports
  <2>3. TaskReports'
    BY <1>7, <2>1 DEF OpenFails, environment, TaskReports, LoopReports, Dark, Attempt, CaptureTypeOK, Says, SaysNothing
  <2>4. LoopReports'
    BY <1>7, <2>1 DEF OpenFails, environment, LoopReports, Dark, CaptureTypeOK, Says, SaysNothing, TaskReports, Attempt
  <2> QED
    BY <2>2, <2>3, <2>4
<1>8. CASE StreamRuns
  <2>1. SaysNothing
    BY <1>0, <1>8, TellSays, SilenceSays DEF StreamRuns, environment
  <2>2. CaptureTypeOK'
    BY <1>8, <2>1 DEF StreamRuns, environment, CaptureTypeOK, Says, SaysNothing, Reports
  <2>3. TaskReports'
    BY <1>8, <2>1 DEF StreamRuns, environment, TaskReports, LoopReports, Dark, Attempt, CaptureTypeOK, Says, SaysNothing
  <2>4. LoopReports'
    BY <1>8, <2>1 DEF StreamRuns, environment, LoopReports, Dark, CaptureTypeOK, Says, SaysNothing, TaskReports, Attempt
  <2> QED
    BY <2>2, <2>3, <2>4
<1> QED
  BY <1>1, <1>2, <1>3, <1>4, <1>5, <1>6, <1>7, <1>8

\* The frame callback.
LEMMA CallbackKeeps ==
    ASSUME CaptureInv,
           FrameCallback \/ DeliverFrame \/ CallbackStops \/ CallbackFails \/ ScreenGone
    PROVE  CaptureInv'
<1> USE CaptureAssumption DEF CaptureInv
<1>0. told \in Seq(Reports) /\ {"Starting", "Active", "Frame", "Error", "Stopped"} \subseteq Reports
  BY DEF CaptureTypeOK, Reports
<1>1. CASE FrameCallback
  <2>1. (~first /\ SaysNothing) \/ (first /\ Says("Active"))
    BY <1>0, <1>1, TellSays, SilenceSays DEF FrameCallback, Tell, environment, IsFirst
  <2>2. CaptureTypeOK'
    BY <1>1, <2>1 DEF FrameCallback, environment, CaptureTypeOK, Says, SaysNothing, Reports
  <2>3. TaskReports'
    BY <1>1, <2>1 DEF FrameCallback, environment, TaskReports, LoopReports, Dark, Attempt, CaptureTypeOK, Says, SaysNothing, IsFirst
  <2>4. LoopReports'
    BY <1>1, <2>1 DEF FrameCallback, environment, LoopReports, Dark, CaptureTypeOK, Says, SaysNothing, TaskReports, Attempt
  <2> QED
    BY <2>2, <2>3, <2>4
<1>2. CASE DeliverFrame
  <2>1. SaysNothing \/ Says("Frame")
    BY <1>0, <1>2, TellSays, SilenceSays, FrameSays DEF DeliverFrame, environment
  <2>2. CaptureTypeOK'
    BY <1>2, <2>1 DEF DeliverFrame, environment, CaptureTypeOK, Says, SaysNothing, Reports
  <2>3. TaskReports'
    BY <1>2, <2>1 DEF DeliverFrame, environment, TaskReports, LoopReports, Dark, Attempt, CaptureTypeOK, Says, SaysNothing
  <2>4. LoopReports'
    BY <1>2, <2>1 DEF DeliverFrame, environment, LoopReports, Dark, CaptureTypeOK, Says, SaysNothing, TaskReports, Attempt
  <2> QED
    BY <2>2, <2>3, <2>4
<1>3. CASE CallbackStops
  <2>1. SaysNothing
    BY <1>0, <1>3, TellSays, SilenceSays DEF CallbackStops, environment
  <2>2. CaptureTypeOK'
    BY <1>3, <2>1 DEF CallbackStops, environment, CaptureTypeOK, Says, SaysNothing, Reports
  <2>3. TaskReports'
    BY <1>3, <2>1 DEF CallbackStops, environment, TaskReports, LoopReports, Dark, Attempt, CaptureTypeOK, Says, SaysNothing
  <2>4. LoopReports'
    BY <1>3, <2>1 DEF CallbackStops, environment, LoopReports, Dark, CaptureTypeOK, Says, SaysNothing, TaskReports, Attempt
  <2> QED
    BY <2>2, <2>3, <2>4
<1>4. CASE CallbackFails
  <2>1. Says("Error")
    BY <1>0, <1>4, TellSays, SilenceSays DEF CallbackFails, environment
  <2>2. CaptureTypeOK'
    BY <1>4, <2>1 DEF CallbackFails, environment, CaptureTypeOK, Says, SaysNothing, Reports
  <2>3. TaskReports'
    BY <1>4, <2>1 DEF CallbackFails, environment, TaskReports, LoopReports, Dark, Attempt, CaptureTypeOK, Says, SaysNothing
  <2>4. LoopReports'
    BY <1>4, <2>1 DEF CallbackFails, environment, LoopReports, Dark, CaptureTypeOK, Says, SaysNothing, TaskReports, Attempt
  <2> QED
    BY <2>2, <2>3, <2>4
<1>5. CASE ScreenGone
  <2>1. Says("Stopped")
    BY <1>0, <1>5, TellSays, SilenceSays DEF ScreenGone, environment
  <2>2. CaptureTypeOK'
    BY <1>5, <2>1 DEF ScreenGone, environment, CaptureTypeOK, Says, SaysNothing, Reports
  <2>3. TaskReports'
    BY <1>5, <2>1 DEF ScreenGone, environment, TaskReports, LoopReports, Dark, Attempt, CaptureTypeOK, Says, SaysNothing
  <2>4. LoopReports'
    BY <1>5, <2>1 DEF ScreenGone, environment, LoopReports, Dark, CaptureTypeOK, Says, SaysNothing, TaskReports, Attempt
  <2> QED
    BY <2>2, <2>3, <2>4
<1> QED
  BY <1>1, <1>2, <1>3, <1>4, <1>5

\* Stopping.
LEMMA StoppingKeeps ==
    ASSUME CaptureInv,
           PollSeesStop \/ StreamStops \/ SessionCloses \/ TaskLeaves
    PROVE  CaptureInv'
<1> USE CaptureAssumption DEF CaptureInv
<1>0. told \in Seq(Reports) /\ {"Starting", "Active", "Frame", "Error", "Stopped"} \subseteq Reports
  BY DEF CaptureTypeOK, Reports
<1>1. CASE PollSeesStop
  <2>1. SaysNothing
    BY <1>0, <1>1, TellSays, SilenceSays DEF PollSeesStop, environment
  <2>2. CaptureTypeOK'
    BY <1>1, <2>1 DEF PollSeesStop, environment, CaptureTypeOK, Says, SaysNothing, Reports
  <2>3. TaskReports'
    BY <1>1, <2>1 DEF PollSeesStop, environment, TaskReports, LoopReports, Dark, Attempt, CaptureTypeOK, Says, SaysNothing, StopSeen
  <2>4. LoopReports'
    BY <1>1, <2>1 DEF PollSeesStop, environment, LoopReports, Dark, CaptureTypeOK, Says, SaysNothing, TaskReports, Attempt
  <2> QED
    BY <2>2, <2>3, <2>4
<1>2. CASE StreamStops
  <2>1. (task' = "closing" /\ SaysNothing) \/ (task' = "leaving" /\ Says("Stopped"))
    BY <1>0, <1>2, TellSays, SilenceSays DEF StreamStops, environment
  <2>2. CaptureTypeOK'
    BY <1>2, <2>1 DEF StreamStops, environment, CaptureTypeOK, Says, SaysNothing, Reports
  <2>3. TaskReports'
    BY <1>2, <2>1 DEF StreamStops, environment, TaskReports, LoopReports, Dark, Attempt, CaptureTypeOK, Says, SaysNothing
  <2>4. LoopReports'
    BY <1>2, <2>1 DEF StreamStops, environment, LoopReports, Dark, CaptureTypeOK, Says, SaysNothing, TaskReports, Attempt
  <2> QED
    BY <2>2, <2>3, <2>4
<1>3. CASE SessionCloses
  <2>1. Says("Stopped")
    BY <1>0, <1>3, TellSays, SilenceSays DEF SessionCloses, environment
  <2>2. CaptureTypeOK'
    BY <1>3, <2>1 DEF SessionCloses, environment, CaptureTypeOK, Says, SaysNothing, Reports
  <2>3. TaskReports'
    BY <1>3, <2>1 DEF SessionCloses, environment, TaskReports, LoopReports, Dark, Attempt, CaptureTypeOK, Says, SaysNothing
  <2>4. LoopReports'
    BY <1>3, <2>1 DEF SessionCloses, environment, LoopReports, Dark, CaptureTypeOK, Says, SaysNothing, TaskReports, Attempt
  <2> QED
    BY <2>2, <2>3, <2>4
<1>4. CASE TaskLeaves
  <2>1. SaysNothing
    BY <1>0, <1>4, TellSays, SilenceSays DEF TaskLeaves, environment
  <2>2. CaptureTypeOK'
    BY <1>4, <2>1 DEF TaskLeaves, environment, CaptureTypeOK, Says, SaysNothing, Reports
  <2>3. TaskReports'
    BY <1>4, <2>1 DEF TaskLeaves, environment, TaskReports, LoopReports, Dark, Attempt, CaptureTypeOK, Says, SaysNothing
  <2>4. LoopReports'
    BY <1>4, <2>1 DEF TaskLeaves, environment, LoopReports, Dark, CaptureTypeOK, Says, SaysNothing, TaskReports, Attempt
  <2> QED
    BY <2>2, <2>3, <2>4
<1> QED
  BY <1>1, <1>2, <1>3, <1>4

\* The loop that takes pictures.
LEMMA LoopKeeps ==
    ASSUME CaptureInv,
           LoopStarts \/ LoopFindsScreen \/ LoopChecks \/ LoopCaptures
    PROVE  CaptureInv'
<1> USE CaptureAssumption DEF CaptureInv
<1>0. told \in Seq(Reports) /\ {"Starting", "Active", "Frame", "Error", "Stopped"} \subseteq Reports
  BY DEF CaptureTypeOK, Reports
<1>1. CASE LoopStarts
  <2>1. Says("Starting")
    BY <1>0, <1>1, TellSays, SilenceSays DEF LoopStarts, environment
  <2>2. CaptureTypeOK'
    BY <1>1, <2>1 DEF LoopStarts, environment, CaptureTypeOK, Says, SaysNothing, Reports
  <2>3. TaskReports'
    BY <1>1, <2>1 DEF LoopStarts, environment, TaskReports, LoopReports, Dark, Attempt, CaptureTypeOK, Says, SaysNothing
  <2>4. LoopReports'
    BY <1>1, <2>1 DEF LoopStarts, environment, LoopReports, Dark, CaptureTypeOK, Says, SaysNothing, TaskReports, Attempt
  <2> QED
    BY <2>2, <2>3, <2>4
<1>2. CASE LoopFindsScreen
  <2>1. (loop' = "checking" /\ Says("Active")) \/ (loop' = "ended" /\ Says("Error"))
    BY <1>0, <1>2, TellSays, SilenceSays DEF LoopFindsScreen, environment
  <2>2. CaptureTypeOK'
    BY <1>2, <2>1 DEF LoopFindsScreen, environment, CaptureTypeOK, Says, SaysNothing, Reports
  <2>3. TaskReports'
    BY <1>2, <2>1 DEF LoopFindsScreen, environment, TaskReports, LoopReports, Dark, Attempt, CaptureTypeOK, Says, SaysNothing
  <2>4. LoopReports'
    BY <1>2, <2>1 DEF LoopFindsScreen, environment, LoopReports, Dark, CaptureTypeOK, Says, SaysNothing, TaskReports, Attempt
  <2> QED
    BY <2>2, <2>3, <2>4
<1>3. CASE LoopChecks
  <2>1. (loop' = "capturing" /\ SaysNothing) \/ (loop' = "ended" /\ Says("Stopped"))
    BY <1>0, <1>3, TellSays, SilenceSays DEF LoopChecks, environment
  <2>2. CaptureTypeOK'
    BY <1>3, <2>1 DEF LoopChecks, environment, CaptureTypeOK, Says, SaysNothing, Reports
  <2>3. TaskReports'
    BY <1>3, <2>1 DEF LoopChecks, environment, TaskReports, LoopReports, Dark, Attempt, CaptureTypeOK, Says, SaysNothing, StopSeen
  <2>4. LoopReports'
    BY <1>3, <2>1 DEF LoopChecks, environment, LoopReports, Dark, CaptureTypeOK, Says, SaysNothing, TaskReports, Attempt
  <2> QED
    BY <2>2, <2>3, <2>4
<1>4. CASE LoopCaptures
  <2>1. SaysNothing \/ Says("Frame")
    BY <1>0, <1>4, TellSays, SilenceSays, FrameSays DEF LoopCaptures, environment
  <2>2. CaptureTypeOK'
    BY <1>4, <2>1 DEF LoopCaptures, environment, CaptureTypeOK, Says, SaysNothing, Reports
  <2>3. TaskReports'
    BY <1>4, <2>1 DEF LoopCaptures, environment, TaskReports, LoopReports, Dark, Attempt, CaptureTypeOK, Says, SaysNothing
  <2>4. LoopReports'
    BY <1>4, <2>1 DEF LoopCaptures, environment, LoopReports, Dark, CaptureTypeOK, Says, SaysNothing, TaskReports, Attempt
  <2> QED
    BY <2>2, <2>3, <2>4
<1> QED
  BY <1>1, <1>2, <1>3, <1>4

\* The receiver, the platform and the bus.
LEMMA ReceiverKeeps ==
    ASSUME CaptureInv,
           SetStopFlag \/ FrameArrives \/ ScreenCloses \/ BusError
    PROVE  CaptureInv'
<1> USE CaptureAssumption DEF CaptureInv
<1>0. told \in Seq(Reports) /\ {"Starting", "Active", "Frame", "Error", "Stopped"} \subseteq Reports
  BY DEF CaptureTypeOK, Reports
<1>1. CASE SetStopFlag
  <2>1. SaysNothing
    BY <1>0, <1>1, TellSays, SilenceSays DEF SetStopFlag, environment
  <2>2. CaptureTypeOK'
    BY <1>1, <2>1 DEF SetStopFlag, environment, CaptureTypeOK, Says, SaysNothing, Reports
  <2>3. TaskReports'
    BY <1>1, <2>1 DEF SetStopFlag, environment, TaskReports, LoopReports, Dark, Attempt, CaptureTypeOK, Says, SaysNothing
  <2>4. LoopReports'
    BY <1>1, <2>1 DEF SetStopFlag, environment, LoopReports, Dark, CaptureTypeOK, Says, SaysNothing, TaskReports, Attempt
  <2> QED
    BY <2>2, <2>3, <2>4
<1>2. CASE FrameArrives
  <2>1. SaysNothing
    BY <1>0, <1>2, TellSays, SilenceSays DEF FrameArrives, environment
  <2>2. CaptureTypeOK'
    BY <1>2, <2>1 DEF FrameArrives, environment, CaptureTypeOK, Says, SaysNothing, Reports
  <2>3. TaskReports'
    BY <1>2, <2>1 DEF FrameArrives, environment, TaskReports, LoopReports, Dark, Attempt, CaptureTypeOK, Says, SaysNothing
  <2>4. LoopReports'
    BY <1>2, <2>1 DEF FrameArrives, environment, LoopReports, Dark, CaptureTypeOK, Says, SaysNothing, TaskReports, Attempt
  <2> QED
    BY <2>2, <2>3, <2>4
<1>3. CASE ScreenCloses
  <2>1. SaysNothing
    BY <1>0, <1>3, TellSays, SilenceSays DEF ScreenCloses, environment
  <2>2. CaptureTypeOK'
    BY <1>3, <2>1 DEF ScreenCloses, environment, CaptureTypeOK, Says, SaysNothing, Reports
  <2>3. TaskReports'
    BY <1>3, <2>1 DEF ScreenCloses, environment, TaskReports, LoopReports, Dark, Attempt, CaptureTypeOK, Says, SaysNothing
  <2>4. LoopReports'
    BY <1>3, <2>1 DEF ScreenCloses, environment, LoopReports, Dark, CaptureTypeOK, Says, SaysNothing, TaskReports, Attempt
  <2> QED
    BY <2>2, <2>3, <2>4
<1>4. CASE BusError
  <2>1. Says("Error")
    BY <1>0, <1>4, TellSays, SilenceSays DEF BusError, environment
  <2>2. CaptureTypeOK'
    <3>1. busErrors' \in 0 .. MaxBusErrors
      <4>1. /\ busErrors' = busErrors + 1 /\ busErrors < MaxBusErrors
            /\ MaxBusErrors \in Nat /\ busErrors \in 0 .. MaxBusErrors
        BY <1>4 DEF BusError, CaptureTypeOK
      <4> QED
        BY <4>1
    <3> QED
      BY <1>4, <2>1, <3>1 DEF BusError, CaptureTypeOK, Says, Reports
  <2>3. TaskReports'
    BY <1>4, <2>1 DEF BusError, environment, TaskReports, LoopReports, Dark, Attempt, CaptureTypeOK, Says, SaysNothing
  <2>4. LoopReports'
    BY <1>4, <2>1 DEF BusError, environment, LoopReports, Dark, CaptureTypeOK, Says, SaysNothing, TaskReports, Attempt
  <2> QED
    BY <2>2, <2>3, <2>4
<1> QED
  BY <1>1, <1>2, <1>3, <1>4

LEMMA NextCapture == CaptureInv /\ [CaptureNext]_captureVars => CaptureInv'
<1> SUFFICES ASSUME CaptureInv, [CaptureNext]_captureVars  PROVE CaptureInv'
  OBVIOUS
<1>1. CASE UNCHANGED captureVars
  BY <1>1 DEF captureVars, CaptureInv, CaptureTypeOK, TaskReports, LoopReports, Dark, Attempt, Reported
<1>2. CASE CaptureNext
  BY <1>2, StartingKeeps, CallbackKeeps, StoppingKeeps, LoopKeeps, ReceiverKeeps
  DEF CaptureNext, CaptureTask, Callback, CaptureLoop, Platform
<1> QED
  BY <1>1, <1>2

-----------------------------------------------------------------------------
(* Screen captures: each step is one of the contract, or unseen.           *)

LEMMA ContractHears ==
    ASSUME NEW what \in Reports, Tell(what), UNCHANGED <<stop_flag, closed>>,
           \/ what = "Error"
           \/ what = "Starting" /\ Dark
           \/ what = "Active" /\ Reported("Starting") /\ Dark
           \/ what = "Frame" /\ Reported("Active") /\ ~Reported("Stopped")
           \/ what = "Stopped" /\ Reported("Starting") /\ ~Reported("Stopped") /\ (stop_flag \/ closed)
    PROVE  Contracted!Next
<1>1. Contracted!MayHear(what)
  BY DEF Contracted!MayHear, Contracted!Heard, Reported, Dark
<1>2. told' = Append(told, what)
  BY DEF Tell
<1>3. Contracted!Hear
  BY <1>1, <1>2 DEF Contracted!Hear, Reports
<1> QED
  BY <1>3 DEF Contracted!Next

LEMMA ContractStep ==
    ASSUME CaptureInv, [CaptureNext]_captureVars
    PROVE  [Contracted!Next]_(Contracted!vars)
<1> DEFINE Unseen == UNCHANGED <<told, stop_flag, closed>>
<1>0. Unseen => UNCHANGED Contracted!vars
  BY DEF Contracted!vars
<1> HIDE DEF Unseen
<1>1. {"Starting", "Active", "Frame", "Error", "Stopped"} \subseteq Reports
  BY DEF Reports
<1>2. CASE UNCHANGED captureVars
  BY <1>0, <1>2 DEF captureVars, Unseen
<1>3. CASE PortalAnswers \/ PipelineBuilt \/ StreamRuns \/ FrameArrives
             \/ CallbackStops \/ PollSeesStop \/ TaskLeaves
  <2>1. Unseen
    BY <1>3 DEF PortalAnswers, PipelineBuilt, StreamRuns, FrameArrives, CallbackStops,
                PollSeesStop, TaskLeaves, environment, Unseen
  <2> QED
    BY <1>0, <2>1
<1>4. CASE SetStopFlag \/ ScreenCloses
  <2>1. told' = told /\ (stop_flag' \/ closed')
    BY <1>4 DEF SetStopFlag, ScreenCloses
  <2>2. Contracted!Allow
    BY <2>1 DEF Contracted!Allow
  <2> QED
    BY <2>2 DEF Contracted!Next
<1>5. CASE StartCapture
  <2>1. Unseen \/ (Tell("Error") /\ UNCHANGED <<stop_flag, closed>>)
    BY <1>5 DEF StartCapture, environment, Unseen
  <2> QED
    BY <1>0, <1>1, <2>1, ContractHears
<1>6. CASE PortalFails \/ OpenFails \/ CallbackFails \/ BusError
  <2>1. Tell("Error") /\ UNCHANGED <<stop_flag, closed>>
    BY <1>6 DEF PortalFails, OpenFails, CallbackFails, BusError, environment
  <2> QED
    BY <1>1, <2>1, ContractHears
<1>7. CASE TaskStarts \/ FallBack \/ LoopStarts
  <2>1. Tell("Starting") /\ UNCHANGED <<stop_flag, closed>>
    BY <1>7 DEF TaskStarts, FallBack, LoopStarts, environment
  <2>2. Dark
    BY <1>7 DEF CaptureInv, TaskReports, LoopReports, Attempt, TaskStarts, FallBack, LoopStarts
  <2> QED
    BY <1>1, <2>1, <2>2, ContractHears
<1>8. CASE FrameCallback
  <2>1. UNCHANGED <<stop_flag, closed>> /\ (Unseen \/ (first /\ Tell("Active")))
    BY <1>8 DEF FrameCallback, IsFirst, Tell, Unseen
  <2>2. /\ Reported("Starting") /\ ~Reported("Stopped")
        /\ Reported("Active") <=> ~first
    BY <1>8 DEF FrameCallback, CaptureInv, TaskReports
  <2> QED
    BY <1>0, <1>1, <2>1, <2>2, ContractHears DEF Dark
<1>9. CASE DeliverFrame \/ LoopCaptures
  <2>1. /\ UNCHANGED <<stop_flag, closed>>
        /\ told' = told \/ told' = Recorded("Frame")
    BY <1>9 DEF DeliverFrame, LoopCaptures, environment
  <2>2. Unseen \/ Tell("Frame")
    BY <2>1 DEF Recorded, Tell, Unseen
  <2>3. Reported("Active") /\ ~Reported("Stopped")
    BY <1>9 DEF DeliverFrame, LoopCaptures, CaptureInv, CaptureTypeOK, TaskReports, LoopReports
  <2> QED
    BY <1>0, <1>1, <2>1, <2>2, <2>3, ContractHears
<1>10. CASE LoopFindsScreen
  <2>1. UNCHANGED <<stop_flag, closed>> /\ (Tell("Active") \/ Tell("Error"))
    BY <1>10 DEF LoopFindsScreen, environment
  <2>2. Reported("Starting") /\ Dark
    BY <1>10 DEF LoopFindsScreen, CaptureInv, LoopReports
  <2> QED
    BY <1>1, <2>1, <2>2, ContractHears
<1>11. CASE LoopChecks \/ StreamStops \/ SessionCloses \/ ScreenGone
  <2>1. /\ UNCHANGED <<stop_flag, closed>>
        /\ Unseen \/ (Tell("Stopped") /\ (stop_flag \/ closed))
    BY <1>11 DEF LoopChecks, StopSeen, StreamStops, SessionCloses, ScreenGone, environment,
                 CaptureInv, TaskReports, Unseen
  <2>2. Reported("Starting") /\ ~Reported("Stopped")
    BY <1>11 DEF LoopChecks, StreamStops, SessionCloses, ScreenGone, CaptureInv,
                 TaskReports, LoopReports
  <2> QED
    BY <1>0, <1>1, <2>1, <2>2, ContractHears
<1> QED
  BY <1>2, <1>3, <1>4, <1>5, <1>6, <1>7, <1>8, <1>9, <1>10, <1>11
  DEF CaptureNext, CaptureTask, Callback, CaptureLoop, Platform

-----------------------------------------------------------------------------
(* The theorems about DesktopCapture, and about both kinds of sessions.    *)

\* The inductive invariant of a capture holds in every reachable state.
THEOREM CaptureInvariant == CaptureSpec => []CaptureInv
BY InitCapture, NextCapture, PTL DEF CaptureSpec

\* Every state of a capture is well typed; the attempt that fell back to
\* screenshots delivers no frame of its own.
THEOREM CaptureTypeCorrect == CaptureSpec => []CaptureTypeOK
<1>1. CaptureInv => CaptureTypeOK
  BY DEF CaptureInv
<1> QED
  BY <1>1, CaptureInvariant, PTL

\* On every backend the callbacks report what CaptureContract allows, in its
\* order, whatever failed before and whoever sets the stop flag when.
THEOREM CaptureRefines == CaptureSpec => HonoursCapture
<1>1. CaptureInit => Contracted!Init
  BY DEF CaptureInit, Contracted!Init
<1>2. CaptureInv /\ [CaptureNext]_captureVars => [Contracted!Next]_(Contracted!vars)
  BY ContractStep
<1> QED
  BY <1>1, <1>2, CaptureInvariant, PTL DEF CaptureSpec, HonoursCapture, Contracted!Spec

\* Terminals and captures share nothing: each behaves as it does alone.
LEMMA SessionsHaveBoth == SessionsSpec => Spec /\ CaptureSpec
<1>1. SessionsInit => Init /\ CaptureInit
  BY DEF SessionsInit
<1>2. [SessionsNext]_<<vars, captureVars, kind>> => [Next]_vars /\ [CaptureNext]_captureVars
  BY DEF SessionsNext, TerminalStep, DesktopStep
<1> QED
  BY <1>1, <1>2, PTL DEF SessionsSpec, Spec, CaptureSpec

\* Every state of what a peer starts and stops on a node is well typed.
THEOREM SessionsTypeCorrect == SessionsSpec => []TypesOK
<1>1. TypeOK /\ CaptureTypeOK => TypesOK
  BY DEF TypesOK
<1> QED
  BY <1>1, SessionsHaveBoth, TerminalTypeCorrect, CaptureTypeCorrect, PTL

=============================================================================
