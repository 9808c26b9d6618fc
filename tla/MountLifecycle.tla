--------------------------- MODULE MountLifecycle ---------------------------
(***************************************************************************)
(* Mounting a peer's folder (web-davserver/src/lib.rs): mount_resource,    *)
(* unmount_resource and unmount_all, called by several threads of the      *)
(* application, the server each mount starts, and the threads that tell    *)
(* the operating system.  macOS and Windows keep a table of mapped drives; *)
(* on Linux there is none, and gio is told a location without the secret   *)
(* of the mount to end.                                                    *)
(***************************************************************************)
EXTENDS Integers, FiniteSets

CONSTANTS
    Callers,    \* threads of the application that mount and unmount
    Resources,  \* resources of peers
    Ports,      \* the ports free_port probes (8001 .. 8999)
    MaxServers, \* bound on the calls that start a server
    None

ASSUME BoundsAssumption ==
    /\ MaxServers \in Nat
    /\ Ports \subseteq Nat
    /\ None \notin 1 .. MaxServers /\ None \notin Ports /\ None \notin Resources

\* The server, handle and secret of each call, in the order they are made.
Servers == 1 .. MaxServers

VARIABLES
    mounts,        \* mounts[r]: the server whose handle is kept for r, or None
    mount_uris,    \* mount_uris[p]: the server whose URIs are kept for port p
    mapped_drives, \* mapped_drives[p]: the server whose drive is kept for p
    call,          \* call[c]: how far caller c is in mount_resource
    server,        \* server[s]: the server thread, its resource and port
    stopping,      \* servers whose handle was told to stop
    mounting,      \* mounting[s]: the thread of os_mount(mount = true)
    unmounting,    \* unmounting[s]: the thread of os_mount(mount = false)
    volumes,       \* servers whose files the operating system has mounted
    linux,         \* whether this is Linux
    untracked,     \* history: servers whose volume nothing will surely unmount
    taken,         \* ports that other programs hold
    overlapped     \* history: resources with two calls under way at once

vars == <<mounts, mount_uris, mapped_drives, call, server, stopping, mounting,
          unmounting, volumes, linux, untracked, taken, overlapped>>

os == <<mapped_drives, mounting, unmounting, volumes, linux, untracked>>

\* Ports a listener can bind: held by no server of this process and no other.
Bound(p) == \E s \in Servers : server[s].state = "running" /\ server[s].port = p
FreePorts == {p \in Ports \ taken : ~Bound(p)}
FirstFree(p) == p \in FreePorts /\ \A q \in FreePorts : p <= q

-----------------------------------------------------------------------------
(* mount_resource.                                                         *)

\* The table is locked for the lookup alone.  A call for a resource that has
\* a mount returns its port and changes nothing.
FoundNever(r) == FALSE
Found(r) == mounts[r] # None

\* Bound: no more calls than servers are left for.
ServerLeft ==
    Cardinality({c \in Callers : call[c].step = "probing"})
      < Cardinality({s \in Servers : server[s].state = "unborn"})

MountLooksUp(c, r) ==
    /\ call[c].step = "idle"
    /\ ~Found(r)
    /\ ServerLeft
    /\ call' = [call EXCEPT ![c] = [step |-> "probing", resource |-> r, server |-> None]]
    /\ overlapped' = IF \E d \in Callers : call[d].resource = r
                     THEN overlapped \cup {r}
                     ELSE overlapped
    /\ UNCHANGED <<mounts, mount_uris, server, stopping, os, taken>>

\* A port is probed, its URIs are remembered and the server's thread starts.
MountPicksPort(c, s, p) ==
    /\ call[c].step = "probing"
    /\ server[s].state = "unborn" /\ \A t \in 1 .. s - 1 : server[t].state # "unborn"
    /\ FirstFree(p)
    /\ mount_uris' = [mount_uris EXCEPT ![p] = s]
    /\ server' = [server EXCEPT ![s] = [state |-> "starting",
                                        resource |-> call[c].resource, port |-> p]]
    /\ call' = [call EXCEPT ![c] =
                 [step |-> "waiting", resource |-> call[c].resource, server |-> s]]
    /\ UNCHANGED <<mounts, stopping, os, overlapped, taken>>

Idle == [step |-> "idle", resource |-> None, server |-> None]

MountFindsNoPort(c) ==
    /\ call[c].step = "probing"
    /\ FreePorts = {}
    /\ call' = [call EXCEPT ![c] = Idle]
    /\ UNCHANGED <<mounts, mount_uris, server, stopping, os, overlapped, taken>>

\* The server answers with its handle, or that it could not bind: the port was
\* taken since it was probed, by a server of this process or another program.
ServerBinds(s) ==
    /\ server[s].state = "starting"
    /\ ~Bound(server[s].port)
    /\ server' = [server EXCEPT ![s].state = "running"]
    /\ UNCHANGED <<mounts, mount_uris, call, stopping, os, overlapped, taken>>

ServerCannotBind(s) ==
    /\ server[s].state = "starting"
    /\ server' = [server EXCEPT ![s].state = "failed"]
    /\ UNCHANGED <<mounts, mount_uris, call, stopping, os, overlapped, taken>>

\* ready_rx.recv: Some(handle), None, or no answer yet.
ReadyAnyway(s) == server[s].state \in {"running", "failed"}
Ready(s) == server[s].state = "running"
NotReady(s) == server[s].state = "failed"

\* The handle is kept, and replaces one that another call has kept meanwhile.
Kept(r, s) == [mounts EXCEPT ![r] = s]

MountKeepsHandle(c) ==
    LET s == call[c].server
    IN  /\ call[c].step = "waiting"
        /\ Ready(s)
        /\ mounts' = Kept(call[c].resource, s)
        /\ mounting' = [mounting EXCEPT ![s] = "sleeping"]
        /\ call' = [call EXCEPT ![c] = Idle]
        /\ UNCHANGED <<mount_uris, mapped_drives, server, stopping, unmounting,
                       volumes, linux, untracked, overlapped, taken>>

MountGivesUp(c) ==
    /\ call[c].step = "waiting"
    /\ NotReady(call[c].server)
    /\ call' = [call EXCEPT ![c] = Idle]
    /\ UNCHANGED <<mounts, mount_uris, server, stopping, os, overlapped, taken>>

-----------------------------------------------------------------------------
(* unmount_resource and unmount_all.                                       *)

\* The handles leave the table, and each gets a thread that stops its server
\* and one that tells the operating system.
Handles(R) == {mounts[r] : r \in R}
StoppedByAll(R) == Handles(Resources)
StoppedByNone(R) == {}
StoppedBy(R) == Handles(R)

Unmount(R) ==
    /\ mounts' = [r \in Resources |-> IF r \in R THEN None ELSE mounts[r]]
    /\ stopping' = stopping \cup StoppedBy(R)
    /\ unmounting' = [s \in Servers |->
                         IF s \in Handles(R) THEN "started" ELSE unmounting[s]]
    /\ UNCHANGED <<mount_uris, mapped_drives, call, server, mounting, volumes,
                   linux, untracked, overlapped, taken>>

Mounted == {r \in Resources : Found(r)}

UnmountResource(r) == r \in Mounted /\ Unmount({r})
UnmountAll == Mounted # {} /\ Unmount(Mounted)

ServerStops(s) ==
    /\ s \in stopping
    /\ server[s].state = "running"
    /\ server' = [server EXCEPT ![s].state = "stopped"]
    /\ UNCHANGED <<mounts, mount_uris, call, stopping, os, overlapped, taken>>

-----------------------------------------------------------------------------
(* os_mount.                                                               *)

\* After 500 ms the thread runs the mount command, which fails when nothing
\* serves the location any more, and may fail otherwise ...
OsMounts(s) ==
    /\ mounting[s] = "sleeping"
    /\ server[s].state = "running"
    /\ volumes' = volumes \cup {s}
    /\ mounting' = [mounting EXCEPT ![s] = "mounted"]
    /\ UNCHANGED <<mounts, mount_uris, mapped_drives, call, server, stopping,
                   unmounting, linux, untracked, overlapped, taken>>

OsCannotMount(s) ==
    /\ mounting[s] = "sleeping"
    /\ mounting' = [mounting EXCEPT ![s] = "ended"]
    /\ UNCHANGED <<mounts, mount_uris, mapped_drives, call, server, stopping,
                   unmounting, volumes, linux, untracked, overlapped, taken>>

\* ... and remembers the drive, over one that another server left on the port.
\* What it remembers once the unmount has looked, nothing will look up.
Replaced(s) == {t \in Servers \ {s} : mapped_drives[server[s].port] = t}
Overtaken(s) == {t \in {s} : unmounting[t] = "ended"}

OsRemembers(s) ==
    /\ mounting[s] = "mounted"
    /\ ~linux
    /\ mapped_drives' = [mapped_drives EXCEPT ![server[s].port] = s]
    /\ untracked' = untracked \cup Replaced(s) \cup Overtaken(s)
    /\ mounting' = [mounting EXCEPT ![s] = "ended"]
    /\ UNCHANGED <<mounts, mount_uris, call, server, stopping, unmounting,
                   volumes, linux, overlapped, taken>>

\* Linux remembers nothing, nor does macOS when its script prints no path.
OsRemembersNothing(s) ==
    /\ mounting[s] = "mounted"
    /\ untracked' = untracked \cup {s}
    /\ mounting' = [mounting EXCEPT ![s] = "ended"]
    /\ UNCHANGED <<mounts, mount_uris, mapped_drives, call, server, stopping,
                   unmounting, volumes, linux, overlapped, taken>>

\* An unmount does not sleep.  It forgets the URIs of the port ...
OsForgets(s) ==
    /\ unmounting[s] = "started"
    /\ mount_uris' = [mount_uris EXCEPT ![server[s].port] = None]
    /\ unmounting' = [unmounting EXCEPT ![s] = "forgotten"]
    /\ UNCHANGED <<mounts, mapped_drives, call, server, stopping, mounting,
                   volumes, linux, untracked, overlapped, taken>>

\* ... and the drive remembered for the port, if there is one, for which it
\* runs a command whose result it ignores: a volume in use may stay.
DriveOfNone(s) == None
DriveOf(s) == mapped_drives[server[s].port]

OsUnmounts(s) ==
    /\ unmounting[s] = "forgotten"
    /\ ~linux
    /\ mapped_drives' = [mapped_drives EXCEPT ![server[s].port] = None]
    /\ \/ volumes' = volumes \ {DriveOf(s)} /\ UNCHANGED untracked
       \/ untracked' = untracked \cup (volumes \cap {DriveOf(s)}) /\ UNCHANGED volumes
    /\ unmounting' = [unmounting EXCEPT ![s] = "ended"]
    /\ UNCHANGED <<mounts, mount_uris, call, server, stopping, mounting, linux,
                   overlapped, taken>>

\* gio finds a volume of the port by a location without its secret, or none.
GioUnmounts(s) ==
    /\ unmounting[s] = "forgotten"
    /\ linux
    /\ \/ UNCHANGED volumes
       \/ \E v \in volumes :
             server[v].port = server[s].port /\ volumes' = volumes \ {v}
    /\ unmounting' = [unmounting EXCEPT ![s] = "ended"]
    /\ UNCHANGED <<mounts, mount_uris, mapped_drives, call, server, stopping,
                   mounting, linux, untracked, overlapped, taken>>

-----------------------------------------------------------------------------
Init ==
    /\ mounts = [r \in Resources |-> None]
    /\ mount_uris = [p \in Ports |-> None]
    /\ mapped_drives = [p \in Ports |-> None]
    /\ call = [c \in Callers |-> Idle]
    /\ server = [s \in Servers |->
                   [state |-> "unborn", resource |-> None, port |-> None]]
    /\ stopping = {}
    /\ mounting = [s \in Servers |-> "none"]
    /\ unmounting = [s \in Servers |-> "none"]
    /\ volumes = {}
    /\ linux \in BOOLEAN
    /\ untracked = {}
    /\ taken \in SUBSET Ports
    /\ overlapped = {}

Probe(c) == MountFindsNoPort(c) \/ \E s \in Servers, p \in Ports : MountPicksPort(c, s, p)
Answered(c) == MountKeepsHandle(c) \/ MountGivesUp(c)
StartServer(s) == ServerBinds(s) \/ ServerCannotBind(s)
OsMountThread(s) ==
    OsMounts(s) \/ OsCannotMount(s) \/ OsRemembers(s) \/ OsRemembersNothing(s)
OsUnmountThread(s) == OsForgets(s) \/ OsUnmounts(s) \/ GioUnmounts(s)

Next ==
    \/ \E c \in Callers, r \in Resources : MountLooksUp(c, r)
    \/ \E c \in Callers : Probe(c)
    \/ \E c \in Callers : Answered(c)
    \/ \E s \in Servers : StartServer(s)
    \/ \E r \in Resources : UnmountResource(r)
    \/ UnmountAll
    \/ \E s \in Servers : ServerStops(s)
    \/ \E s \in Servers : OsMountThread(s)
    \/ \E s \in Servers : OsUnmountThread(s)

\* Threads run, and the commands they start end; nothing is assumed of the
\* application.
Fairness ==
    /\ \A c \in Callers : WF_vars(Probe(c)) /\ WF_vars(Answered(c))
    /\ \A s \in Servers : /\ WF_vars(StartServer(s)) /\ WF_vars(ServerStops(s))
                          /\ WF_vars(OsMountThread(s)) /\ WF_vars(OsUnmountThread(s))

Spec == Init /\ [][Next]_vars /\ Fairness

-----------------------------------------------------------------------------
(* Properties.                                                             *)

\* Types of the variables.
TypeOK ==
    /\ mounts \in [Resources -> Servers \cup {None}]
    /\ mount_uris \in [Ports -> Servers \cup {None}]
    /\ mapped_drives \in [Ports -> Servers \cup {None}]
    /\ call \in [Callers -> [step : {"idle", "probing", "waiting"},
                             resource : Resources \cup {None},
                             server : Servers \cup {None}]]
    /\ server \in [Servers -> [state : {"unborn", "starting", "running", "failed", "stopped"},
                               resource : Resources \cup {None}, port : Ports \cup {None}]]
    /\ stopping \subseteq Servers
    /\ mounting \in [Servers -> {"none", "sleeping", "mounted", "ended"}]
    /\ unmounting \in [Servers -> {"none", "started", "forgotten", "ended"}]
    /\ volumes \subseteq Servers
    /\ linux \in BOOLEAN
    /\ untracked \subseteq Servers
    /\ taken \subseteq Ports
    /\ overlapped \subseteq Resources

\* The port mount_resource returns is served: the server of a resource in the
\* table runs, for that resource, and has not been told to stop.
MountedIsServed ==
    \A r \in Mounted : /\ server[mounts[r]].state = "running"
                       /\ server[mounts[r]].resource = r
                       /\ mounts[r] \notin stopping

\* A server that runs can be stopped: its handle is in the table, on its way
\* there, or used.  Only calls for one resource that overlap can lose one.
HandleKept ==
    \A s \in Servers : server[s].state = "running" =>
        \/ s \in stopping
        \/ mounts[server[s].resource] = s
        \/ \E c \in Callers : call[c].server = s
        \/ server[s].resource \in overlapped

\* Whatever a caller unmounts is served no more.
UnmountStops == \A s \in Servers :
    unmounting[s] # "none" ~> server[s].state = "stopped"

\* Whatever a caller unmounts is unmounted by the operating system and stays
\* so, though the mount may only now be under way, with three exceptions: the
\* command failed; another mount on the same port remembered its drive over
\* this one; the drive was remembered too late, when the unmount had looked
\* for it, or not at all.
DriveUnmounted == \A s \in Servers :
    unmounting[s] = "started" ~> [](s \notin volumes) \/ s \in untracked

=============================================================================
