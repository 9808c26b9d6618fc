------------------------ MODULE MountLifecycleProofs ------------------------
(***************************************************************************)
(* Proofs about MountLifecycle: its types, and that the port of a mounted  *)
(* resource is served, for any number of callers, resources, ports and     *)
(* servers.                                                                *)
(***************************************************************************)
EXTENDS MountLifecycle, TLAPS

\* A caller that waits has the one server it started, which no table and no
\* other caller knows of yet.
Waits(c) == call[c].step = "waiting"

WaitsForItsOwn(c) ==
    LET s == call[c].server
    IN  /\ s \in Servers /\ call[c].resource \in Resources
        /\ server[s].resource = call[c].resource
        /\ server[s].state \in {"starting", "running", "failed"}
        /\ s \notin stopping
        /\ \A r \in Resources : mounts[r] # s
        /\ \A d \in Callers : Waits(d) /\ call[d].server = s => d = c

Waiters == \A c \in Callers : Waits(c) => WaitsForItsOwn(c)

\* A call under way is for a resource; what was told to stop has run.
Probers == \A c \in Callers : call[c].step = "probing" => call[c].resource \in Resources
StoppingRan == \A s \in stopping : server[s].state \in {"running", "stopped"}

MountInv == TypeOK /\ MountedIsServed /\ Waiters /\ Probers /\ StoppingRan

protocol == <<mounts, call, server, stopping>>

-----------------------------------------------------------------------------
\* What leaves the table, the calls and the servers alone keeps the rest.
LEMMA Untouched ==
    ASSUME MountInv, TypeOK', UNCHANGED protocol
    PROVE  MountInv'
  BY DEF MountInv, MountedIsServed, Mounted, Found, Waiters, Waits, WaitsForItsOwn,
         Probers, StoppingRan, protocol

\* The threads of os_mount work on tables of their own.
LEMMA OsThreadsPreserve ==
    ASSUME MountInv, NEW s \in Servers, OsMountThread(s) \/ OsUnmountThread(s)
    PROVE  MountInv'
<1> USE DEF MountInv, TypeOK
<1>1. CASE OsMounts(s)
  BY <1>1, Untouched DEF OsMounts, protocol
<1>2. CASE OsCannotMount(s)
  BY <1>2, Untouched DEF OsCannotMount, protocol
<1>3. CASE OsRemembers(s)
  <2>1. Replaced(s) \cup Overtaken(s) \subseteq Servers
    BY DEF Replaced, Overtaken
  <2> QED
    BY <1>3, <2>1, Untouched DEF OsRemembers, protocol
<1>4. CASE OsForgets(s)
  BY <1>4, Untouched DEF OsForgets, protocol
<1>5. CASE OsUnmounts(s)
  BY <1>5, Untouched DEF OsUnmounts, protocol
<1>6. CASE OsRemembersNothing(s)
  BY <1>6, Untouched DEF OsRemembersNothing, protocol
<1>7. CASE GioUnmounts(s)
  BY <1>7, Untouched DEF GioUnmounts, protocol
<1> QED
  BY <1>1, <1>2, <1>3, <1>4, <1>5, <1>6, <1>7 DEF OsMountThread, OsUnmountThread

-----------------------------------------------------------------------------
\* mount_resource up to the start of the server.
LEMMA LookUpPreserves ==
    ASSUME MountInv, NEW c \in Callers, NEW r \in Resources, MountLooksUp(c, r)
    PROVE  MountInv'
<1> USE DEF MountInv, MountLooksUp, os
<1>1. TypeOK'
  BY DEF TypeOK
<1>2. /\ call'[c].step = "probing" /\ call'[c].resource = r
      /\ \A d \in Callers \ {c} : call'[d] = call[d]
  BY DEF TypeOK
<1>3. MountedIsServed'
  BY DEF MountedIsServed, Mounted, Found
<1>4. Waiters'
  BY <1>2 DEF Waiters, Waits, WaitsForItsOwn
<1>5. Probers' /\ StoppingRan'
  BY <1>2 DEF Probers, StoppingRan
<1> QED
  BY <1>1, <1>3, <1>4, <1>5

LEMMA PickPreserves ==
    ASSUME MountInv, NEW c \in Callers, NEW s \in Servers, NEW p \in Ports,
           MountPicksPort(c, s, p)
    PROVE  MountInv'
<1>1. call[c].resource \in Resources /\ server[s].state = "unborn"
  BY DEF MountInv, Probers, MountPicksPort
<1>2. TypeOK'
  BY <1>1 DEF MountInv, TypeOK, MountPicksPort, os
<1>3. /\ call'[c].step = "waiting" /\ call'[c].server = s
      /\ call'[c].resource = call[c].resource
      /\ \A d \in Callers \ {c} : call'[d] = call[d]
  BY DEF MountInv, TypeOK, MountPicksPort
<1>4. /\ server'[s].state = "starting" /\ server'[s].resource = call[c].resource
      /\ \A t \in Servers \ {s} : server'[t] = server[t]
      /\ UNCHANGED <<mounts, stopping>>
  BY DEF MountInv, TypeOK, MountPicksPort
<1>5. s # None
  BY BoundsAssumption DEF Servers
<1>6. /\ s \notin stopping /\ \A r \in Resources : mounts[r] # s
      /\ \A d \in Callers : Waits(d) => call[d].server # s
  BY <1>1, <1>5 DEF MountInv, StoppingRan, MountedIsServed, Mounted, Found, Waiters,
                    WaitsForItsOwn
<1>7. MountedIsServed'
  BY <1>4, <1>6 DEF MountInv, TypeOK, MountedIsServed, Mounted, Found
<1>8. Waiters'
  <2> SUFFICES ASSUME NEW d \in Callers, Waits(d)'  PROVE WaitsForItsOwn(d)'
    BY DEF Waiters
  <2>1. CASE d = c
    BY <2>1, <1>1, <1>3, <1>4, <1>6 DEF Waits, WaitsForItsOwn
  <2>2. CASE d # c
    <3>1. Waits(d) /\ WaitsForItsOwn(d) /\ call'[d] = call[d] /\ call[d].server # s
      BY <2>2, <1>3, <1>6 DEF MountInv, Waiters, Waits
    <3> QED
      BY <3>1, <2>2, <1>3, <1>4 DEF Waits, WaitsForItsOwn
  <2> QED
    BY <2>1, <2>2
<1>9. Probers' /\ StoppingRan'
  BY <1>3, <1>4, <1>6 DEF MountInv, TypeOK, Probers, StoppingRan
<1> QED
  BY <1>2, <1>7, <1>8, <1>9 DEF MountInv

\* A call that ends without a server.
LEMMA EndPreserves ==
    ASSUME MountInv, NEW c \in Callers, MountFindsNoPort(c) \/ MountGivesUp(c)
    PROVE  MountInv'
<1> USE DEF MountInv
<1>1. /\ call' = [call EXCEPT ![c] = Idle]
      /\ UNCHANGED <<mounts, mount_uris, server, stopping, os, overlapped, taken>>
  BY DEF MountFindsNoPort, MountGivesUp
<1>2. TypeOK'
  BY <1>1 DEF TypeOK, Idle, os
<1>3. call'[c].step = "idle" /\ \A d \in Callers \ {c} : call'[d] = call[d]
  BY <1>1 DEF TypeOK, Idle
<1>4. MountedIsServed' /\ StoppingRan'
  BY <1>1 DEF MountedIsServed, Mounted, Found, StoppingRan
<1>5. Waiters' /\ Probers'
  BY <1>1, <1>3 DEF Waiters, Waits, WaitsForItsOwn, Probers
<1> QED
  BY <1>2, <1>4, <1>5

-----------------------------------------------------------------------------
\* The server answers.
LEMMA StartPreserves ==
    ASSUME MountInv, NEW s \in Servers, StartServer(s)
    PROVE  MountInv'
<1>1. PICK answer \in {"running", "failed"} :
        /\ server[s].state = "starting"
        /\ server' = [server EXCEPT ![s].state = answer]
        /\ UNCHANGED <<mounts, mount_uris, call, stopping, os, overlapped, taken>>
  BY DEF StartServer, ServerBinds, ServerCannotBind
<1>2. server' \in [Servers -> [state : {"unborn", "starting", "running", "failed", "stopped"},
                               resource : Resources \cup {None}, port : Ports \cup {None}]]
  BY <1>1, SMTT(30) DEF MountInv, TypeOK
<1>3. TypeOK'
  BY <1>1, <1>2 DEF MountInv, TypeOK, os
<1>4. /\ server'[s].state \in {"running", "failed"}
      /\ server'[s].resource = server[s].resource
      /\ \A t \in Servers \ {s} : server'[t] = server[t]
  BY <1>1 DEF MountInv, TypeOK
<1>5. s \notin stopping /\ \A r \in Mounted : mounts[r] # s
  BY <1>1 DEF MountInv, StoppingRan, MountedIsServed
<1>6. MountedIsServed'
  BY <1>1, <1>4, <1>5 DEF MountInv, TypeOK, MountedIsServed, Mounted, Found
<1>7. StoppingRan'
  BY <1>1, <1>4, <1>5 DEF MountInv, TypeOK, StoppingRan
<1>8. Waiters' /\ Probers'
  BY <1>1, <1>4 DEF MountInv, TypeOK, Waiters, Waits, WaitsForItsOwn, Probers
<1> QED
  BY <1>3, <1>6, <1>7, <1>8 DEF MountInv

\* The handle enters the table: it is that of the caller's own server, so no
\* other caller waits for it and nobody has stopped it.
LEMMA KeepPreserves ==
    ASSUME MountInv, NEW c \in Callers, MountKeepsHandle(c)
    PROVE  MountInv'
<1> DEFINE s == call[c].server
           r == call[c].resource
<1> USE DEF MountInv, MountKeepsHandle
<1>1. WaitsForItsOwn(c) /\ s \in Servers /\ r \in Resources /\ server[s].state = "running"
  BY DEF Waiters, Waits, WaitsForItsOwn, Ready
<1>2. TypeOK'
  BY <1>1 DEF TypeOK, Kept, Idle
<1>3. mounts'[r] = s /\ \A q \in Resources \ {r} : mounts'[q] = mounts[q]
  BY <1>1 DEF TypeOK, Kept
<1>4. call'[c].step = "idle" /\ \A d \in Callers \ {c} : call'[d] = call[d]
  BY DEF TypeOK, Idle
<1>5. MountedIsServed'
  BY <1>1, <1>3 DEF TypeOK, MountedIsServed, Mounted, Found, WaitsForItsOwn
<1>6. Waiters'
  <2> SUFFICES ASSUME NEW d \in Callers, Waits(d)'  PROVE WaitsForItsOwn(d)'
    BY DEF Waiters
  <2>1. d # c /\ Waits(d) /\ WaitsForItsOwn(d) /\ call'[d] = call[d] /\ call[d].server # s
    BY <1>1, <1>4 DEF Waiters, Waits, WaitsForItsOwn
  <2> QED
    BY <2>1, <1>3, <1>4 DEF Waits, WaitsForItsOwn
<1>7. Probers' /\ StoppingRan'
  BY <1>4 DEF Probers, StoppingRan
<1> QED
  BY <1>2, <1>5, <1>6, <1>7

-----------------------------------------------------------------------------
\* Unmounting: two resources never share a server, so the handles that stay in
\* the table are not among those that leave it.
LEMMA UnmountPreserves ==
    ASSUME MountInv, NEW R \in SUBSET Mounted, Unmount(R)
    PROVE  MountInv'
<1> USE DEF MountInv, Unmount
<1>1. \A q \in R : /\ q \in Resources /\ mounts[q] \in Servers
                   /\ server[mounts[q]].state = "running"
                   /\ server[mounts[q]].resource = q
  BY DEF TypeOK, MountedIsServed, Mounted, Found
<1>2. StoppedBy(R) \subseteq Servers
  BY <1>1 DEF StoppedBy, Handles
<1>3. TypeOK'
  BY <1>2 DEF TypeOK
<1>4. \A q \in Resources : mounts'[q] # None => q \notin R /\ mounts'[q] = mounts[q]
  BY DEF TypeOK
<1>5. \A q \in Resources \ R : mounts[q] # None => mounts[q] \notin StoppedBy(R)
  BY <1>1 DEF TypeOK, MountedIsServed, Mounted, Found, StoppedBy, Handles
<1>6. MountedIsServed'
  BY <1>4, <1>5 DEF MountedIsServed, Mounted, Found
<1>7. StoppingRan'
  BY <1>1 DEF StoppingRan, StoppedBy, Handles
<1>8. Waiters'
  <2> SUFFICES ASSUME NEW c \in Callers, Waits(c)'  PROVE WaitsForItsOwn(c)'
    BY DEF Waiters
  <2>1. Waits(c) /\ WaitsForItsOwn(c) /\ call[c].server \in Servers
    BY DEF Waiters, Waits, WaitsForItsOwn
  <2>2. call[c].server \notin StoppedBy(R)
    BY <2>1, <1>1 DEF WaitsForItsOwn, StoppedBy, Handles
  <2>3. \A q \in Resources : mounts'[q] # call[c].server
    BY <2>1, <1>4, BoundsAssumption DEF WaitsForItsOwn, Servers
  <2> QED
    BY <2>1, <2>2, <2>3 DEF Waits, WaitsForItsOwn
<1>9. Probers'
  BY DEF Probers
<1> QED
  BY <1>3, <1>6, <1>7, <1>8, <1>9

\* A server ends only when it was told to, and is then in no table.
LEMMA StopPreserves ==
    ASSUME MountInv, NEW s \in Servers, ServerStops(s)
    PROVE  MountInv'
<1> USE DEF MountInv, ServerStops
<1>1. TypeOK'
  <2>1. server' \in [Servers -> [state : {"unborn", "starting", "running", "failed", "stopped"},
                                 resource : Resources \cup {None}, port : Ports \cup {None}]]
    BY SMTT(30) DEF TypeOK
  <2> QED
    BY <2>1 DEF TypeOK, os
<1>2. /\ server'[s].state = "stopped" /\ server'[s].resource = server[s].resource
      /\ \A t \in Servers \ {s} : server'[t] = server[t]
  BY DEF TypeOK
<1>3. MountedIsServed' /\ StoppingRan'
  BY <1>2 DEF TypeOK, MountedIsServed, Mounted, Found, StoppingRan
<1>4. Waiters' /\ Probers'
  BY <1>2 DEF Waiters, Waits, WaitsForItsOwn, Probers
<1> QED
  BY <1>1, <1>3, <1>4

-----------------------------------------------------------------------------
LEMMA InitInv == Init => MountInv
<1> SUFFICES ASSUME Init  PROVE MountInv
  OBVIOUS
<1>1. TypeOK
  BY DEF Init, TypeOK, Idle
<1>2. MountedIsServed /\ Waiters /\ Probers /\ StoppingRan
  BY DEF Init, Idle, MountedIsServed, Mounted, Found, Waiters, Waits, Probers, StoppingRan
<1> QED
  BY <1>1, <1>2 DEF MountInv

LEMMA NextInv == MountInv /\ [Next]_vars => MountInv'
<1> SUFFICES ASSUME MountInv, [Next]_vars  PROVE MountInv'
  OBVIOUS
<1>1. CASE UNCHANGED vars
  <2>1. TypeOK'
    BY <1>1 DEF MountInv, TypeOK, vars
  <2> QED
    BY <2>1, <1>1, Untouched DEF vars, protocol
<1>2. ASSUME NEW c \in Callers, NEW r \in Resources, MountLooksUp(c, r)  PROVE MountInv'
  BY <1>2, LookUpPreserves
<1>3. ASSUME NEW c \in Callers, Probe(c)  PROVE MountInv'
  BY <1>3, PickPreserves, EndPreserves DEF Probe
<1>4. ASSUME NEW c \in Callers, Answered(c)  PROVE MountInv'
  BY <1>4, KeepPreserves, EndPreserves DEF Answered
<1>5. ASSUME NEW s \in Servers, StartServer(s)  PROVE MountInv'
  BY <1>5, StartPreserves
<1>6. ASSUME NEW r \in Resources, UnmountResource(r)  PROVE MountInv'
  BY <1>6, UnmountPreserves DEF UnmountResource
<1>7. CASE UnmountAll
  BY <1>7, UnmountPreserves DEF UnmountAll
<1>8. ASSUME NEW s \in Servers, ServerStops(s)  PROVE MountInv'
  BY <1>8, StopPreserves
<1>9. ASSUME NEW s \in Servers, OsMountThread(s) \/ OsUnmountThread(s)  PROVE MountInv'
  BY <1>9, OsThreadsPreserve
<1> QED
  BY <1>1, <1>2, <1>3, <1>4, <1>5, <1>6, <1>7, <1>8, <1>9 DEF Next

\* MountInv holds in every state.
THEOREM InvariantHolds == Spec => []MountInv
  BY InitInv, NextInv, PTL DEF Spec

\* Every state of every instance is well typed.
THEOREM TypeCorrect == Spec => []TypeOK
<1>1. MountInv => TypeOK
  BY DEF MountInv
<1> QED
  BY <1>1, InvariantHolds, PTL

\* The port that mount_resource returns for a resource in the table is served,
\* however many threads mount and unmount, and whatever fails to bind.
THEOREM PortIsServed == Spec => []MountedIsServed
<1>1. MountInv => MountedIsServed
  BY DEF MountInv
<1> QED
  BY <1>1, InvariantHolds, PTL

-----------------------------------------------------------------------------
(* No handle is lost: the inductive invariant.                             *)

\* Only a call that waits has a server, only one under way has a resource.
CallsFit ==
    \A c \in Callers : /\ call[c].step # "waiting" => call[c].server = None
                       /\ call[c].step = "idle" => call[c].resource = None

Busy(c) == call[c].resource # None

\* Calls for one resource that are under way at once are remembered, ...
OverlapsSeen ==
    \A c, d \in Callers :
        c # d /\ Busy(c) /\ call[c].resource = call[d].resource
            => call[c].resource \in overlapped

\* ... so that a resource gets a mount during a call for it only if two were.
LateMountOverlaps ==
    \A c \in Callers :
        Busy(c) /\ mounts[call[c].resource] # None => call[c].resource \in overlapped

\* The caller that started a server waits until the server has answered.
StartingHasCaller ==
    \A s \in Servers : server[s].state = "starting" => \E c \in Callers : call[c].server = s

\* A server is for the resource of the call that started it.
ServersFit ==
    \A s \in Servers : server[s].state # "unborn" => server[s].resource \in Resources

HandleInv ==
    /\ MountInv
    /\ CallsFit /\ ServersFit /\ OverlapsSeen /\ LateMountOverlaps /\ StartingHasCaller
    /\ HandleKept

\* Steps that leave the table of mounts and the calls alone, and bring no server
\* to life.
LEMMA HandlesLeftAlone ==
    ASSUME HandleInv, MountInv', UNCHANGED <<mounts, call, overlapped>>,
           stopping \subseteq stopping',
           \A s \in Servers :
              /\ server'[s].state = "starting" => server[s].state = "starting"
              /\ server'[s].state = "running" => server[s].state = "running"
              /\ server'[s].state # "unborn" =>
                    server[s].state # "unborn" /\ server'[s].resource = server[s].resource
    PROVE  HandleInv'
<1>1. CallsFit' /\ ServersFit' /\ OverlapsSeen' /\ LateMountOverlaps'
  BY DEF HandleInv, CallsFit, ServersFit, OverlapsSeen, LateMountOverlaps, Busy
<1>2. StartingHasCaller'
  BY DEF HandleInv, StartingHasCaller
<1>3. HandleKept'
  BY DEF HandleInv, HandleKept
<1> QED
  BY <1>1, <1>2, <1>3 DEF HandleInv

\* The threads of os_mount, and servers that end or cannot bind.
LEMMA EndsKeepHandles ==
    ASSUME HandleInv, MountInv', NEW s \in Servers,
           OsMountThread(s) \/ OsUnmountThread(s) \/ ServerStops(s) \/ ServerCannotBind(s)
    PROVE  HandleInv'
<1>1. CASE OsMountThread(s) \/ OsUnmountThread(s)
  <2>1. UNCHANGED <<mounts, call, overlapped, stopping, server>>
    BY <1>1 DEF OsMountThread, OsMounts, OsCannotMount, OsRemembers,
                OsRemembersNothing, OsUnmountThread, OsForgets, OsUnmounts, GioUnmounts
  <2> QED
    BY <2>1, HandlesLeftAlone
<1>2. CASE ServerStops(s) \/ ServerCannotBind(s)
  <2>1. /\ UNCHANGED <<mounts, call, overlapped, stopping>>
        /\ server'[s].state \in {"stopped", "failed"}
        /\ server[s].state # "unborn" /\ server'[s].resource = server[s].resource
        /\ \A t \in Servers \ {s} : server'[t] = server[t]
    BY <1>2 DEF ServerStops, ServerCannotBind, HandleInv, MountInv, TypeOK
  <2>2. \A t \in Servers : t = s \/ t \in Servers \ {s}
    OBVIOUS
  <2> QED
    BY <2>1, <2>2, HandlesLeftAlone
<1> QED
  BY <1>1, <1>2

\* A server that starts to run still has the caller that started it.
LEMMA BindKeepsHandle ==
    ASSUME HandleInv, MountInv', NEW s \in Servers, ServerBinds(s)
    PROVE  HandleInv'
<1>1. /\ UNCHANGED <<mounts, call, overlapped, stopping>>
      /\ server[s].state = "starting"
      /\ server'[s].state = "running" /\ server'[s].resource = server[s].resource
      /\ \A t \in Servers \ {s} : server'[t] = server[t]
  BY DEF ServerBinds, HandleInv, MountInv, TypeOK
<1>2. CallsFit' /\ ServersFit' /\ OverlapsSeen' /\ LateMountOverlaps'
  BY <1>1 DEF HandleInv, CallsFit, ServersFit, OverlapsSeen, LateMountOverlaps, Busy
<1>3. StartingHasCaller'
  BY <1>1 DEF HandleInv, StartingHasCaller
<1>4. HandleKept'
  <2> SUFFICES ASSUME NEW t \in Servers, server'[t].state = "running"
               PROVE  \/ t \in stopping'
                      \/ mounts'[server'[t].resource] = t
                      \/ \E c \in Callers : call'[c].server = t
                      \/ server'[t].resource \in overlapped'
    BY DEF HandleKept
  <2>1. CASE t = s
    BY <1>1, <2>1 DEF HandleInv, StartingHasCaller
  <2>2. CASE t # s
    BY <1>1, <2>2 DEF HandleInv, HandleKept
  <2> QED
    BY <2>1, <2>2
<1> QED
  BY <1>2, <1>3, <1>4 DEF HandleInv

\* A call begins: it is seen to overlap if another is for its resource.
LEMMA LookUpKeepsHandles ==
    ASSUME HandleInv, MountInv', NEW c \in Callers, NEW r \in Resources, MountLooksUp(c, r)
    PROVE  HandleInv'
<1>1. /\ call[c].server = None /\ mounts[r] = None
      /\ call'[c] = [step |-> "probing", resource |-> r, server |-> None]
      /\ \A d \in Callers \ {c} : call'[d] = call[d]
      /\ UNCHANGED <<mounts, server, stopping>>
      /\ overlapped \subseteq overlapped'
  BY DEF MountLooksUp, Found, HandleInv, MountInv, TypeOK, CallsFit
<1>2. \A d \in Callers : call[d].resource = r => r \in overlapped'
  BY DEF MountLooksUp
<1>3. CallsFit' /\ ServersFit'
  BY <1>1 DEF HandleInv, CallsFit, ServersFit
<1>4. OverlapsSeen'
  <2> SUFFICES ASSUME NEW d \in Callers, NEW e \in Callers, d # e, Busy(d)',
                      call'[d].resource = call'[e].resource
               PROVE  call'[d].resource \in overlapped'
    BY DEF OverlapsSeen
  <2>1. CASE d = c
    BY <1>1, <1>2, <2>1
  <2>2. CASE e = c
    BY <1>1, <1>2, <2>2
  <2>3. CASE d # c /\ e # c
    BY <1>1, <2>3 DEF HandleInv, OverlapsSeen, Busy
  <2> QED
    BY <2>1, <2>2, <2>3
<1>5. LateMountOverlaps'
  <2> SUFFICES ASSUME NEW d \in Callers, Busy(d)', mounts'[call'[d].resource] # None
               PROVE  call'[d].resource \in overlapped'
    BY DEF LateMountOverlaps
  <2>1. d # c
    BY <1>1
  <2> QED
    BY <1>1, <2>1 DEF HandleInv, LateMountOverlaps, Busy
<1>6. \A s \in Servers, d \in Callers : call[d].server = s => call'[d].server = s
  BY <1>1, BoundsAssumption DEF Servers
<1>7. StartingHasCaller' /\ HandleKept'
  BY <1>1, <1>6 DEF HandleInv, StartingHasCaller, HandleKept
<1> QED
  BY <1>3, <1>4, <1>5, <1>7 DEF HandleInv

\* A server is started by a caller, which waits for it.
LEMMA PickKeepsHandles ==
    ASSUME HandleInv, MountInv', NEW c \in Callers, NEW s \in Servers, NEW p \in Ports,
           MountPicksPort(c, s, p)
    PROVE  HandleInv'
<1>1. /\ call[c].server = None
      /\ call'[c] = [step |-> "waiting", resource |-> call[c].resource, server |-> s]
      /\ \A d \in Callers \ {c} : call'[d] = call[d]
      /\ server'[s].state = "starting" /\ server'[s].resource = call[c].resource
      /\ \A t \in Servers \ {s} : server'[t] = server[t]
      /\ UNCHANGED <<mounts, stopping, overlapped>>
  BY DEF MountPicksPort, HandleInv, MountInv, TypeOK, CallsFit
<1>2. \A d \in Callers : call'[d].resource = call[d].resource
  BY <1>1
<1>3. CallsFit' /\ ServersFit'
  <2>1. call[c].resource \in Resources
    BY DEF MountPicksPort, HandleInv, MountInv, Probers
  <2> QED
    BY <1>1, <2>1 DEF HandleInv, CallsFit, ServersFit
<1>4. OverlapsSeen' /\ LateMountOverlaps'
  BY <1>1, <1>2 DEF HandleInv, OverlapsSeen, LateMountOverlaps, Busy
<1>5. \A t \in Servers, d \in Callers : call[d].server = t => call'[d].server = t
  BY <1>1, BoundsAssumption DEF Servers
<1>6. StartingHasCaller' /\ HandleKept'
  BY <1>1, <1>5 DEF HandleInv, StartingHasCaller, HandleKept
<1> QED
  BY <1>3, <1>4, <1>6 DEF HandleInv

\* A call that ends without a server, or without one that runs, loses none.
LEMMA EndKeepsHandles ==
    ASSUME HandleInv, MountInv', NEW c \in Callers, MountFindsNoPort(c) \/ MountGivesUp(c)
    PROVE  HandleInv'
<1>1. /\ call'[c] = Idle
      /\ \A d \in Callers \ {c} : call'[d] = call[d]
      /\ UNCHANGED <<mounts, server, stopping, overlapped>>
  BY DEF MountFindsNoPort, MountGivesUp, HandleInv, MountInv, TypeOK
<1>2. call[c].server = None \/ server[call[c].server].state = "failed"
  BY DEF MountFindsNoPort, MountGivesUp, NotReady, HandleInv, CallsFit
<1>3. \A t \in Servers : server[t].state # "failed" => call[c].server # t
  BY <1>2, BoundsAssumption DEF Servers
<1>4. CallsFit' /\ ServersFit' /\ OverlapsSeen' /\ LateMountOverlaps'
  BY <1>1 DEF HandleInv, CallsFit, ServersFit, OverlapsSeen, LateMountOverlaps, Busy, Idle
<1>5. StartingHasCaller' /\ HandleKept'
  BY <1>1, <1>3 DEF HandleInv, StartingHasCaller, HandleKept
<1> QED
  BY <1>4, <1>5 DEF HandleInv

\* A handle enters the table.  Only another call for the resource can have put
\* one there that it replaces.
LEMMA KeepKeepsHandles ==
    ASSUME HandleInv, MountInv', NEW c \in Callers, MountKeepsHandle(c)
    PROVE  HandleInv'
<1> DEFINE s == call[c].server
           r == call[c].resource
<1>1. /\ WaitsForItsOwn(c) /\ s \in Servers /\ r \in Resources
      /\ server[s].state = "running" /\ server[s].resource = r
  BY DEF MountKeepsHandle, HandleInv, MountInv, Waiters, Waits, WaitsForItsOwn, Ready
<1>2. /\ mounts'[r] = s /\ \A q \in Resources \ {r} : mounts'[q] = mounts[q]
      /\ call'[c] = Idle /\ \A d \in Callers \ {c} : call'[d] = call[d]
      /\ UNCHANGED <<server, stopping, overlapped>>
  BY <1>1 DEF MountKeepsHandle, Kept, HandleInv, MountInv, TypeOK
<1>3. Busy(c) /\ (mounts[r] # None => r \in overlapped)
  BY <1>1, BoundsAssumption DEF HandleInv, LateMountOverlaps, Busy
<1>4. CallsFit' /\ ServersFit' /\ OverlapsSeen'
  BY <1>2 DEF HandleInv, CallsFit, ServersFit, OverlapsSeen, Busy, Idle
<1>5. LateMountOverlaps'
  <2> SUFFICES ASSUME NEW d \in Callers, Busy(d)', mounts'[call'[d].resource] # None
               PROVE  call'[d].resource \in overlapped'
    BY DEF LateMountOverlaps
  <2>1. d # c /\ call'[d] = call[d]
    BY <1>2 DEF Busy, Idle
  <2>2. CASE call[d].resource = r
    BY <1>2, <1>3, <2>1, <2>2 DEF HandleInv, OverlapsSeen, Busy
  <2>3. CASE call[d].resource # r
    <3>1. call[d].resource \in Resources \ {r}
      BY <2>1, <2>3 DEF Busy, HandleInv, MountInv, TypeOK
    <3> QED
      BY <1>2, <2>1, <3>1 DEF HandleInv, LateMountOverlaps, Busy
  <2> QED
    BY <2>2, <2>3
<1>6. StartingHasCaller'
  <2> SUFFICES ASSUME NEW t \in Servers, server'[t].state = "starting"
               PROVE  \E d \in Callers : call'[d].server = t
    BY DEF StartingHasCaller
  <2>1. PICK d \in Callers : call[d].server = t
    BY <1>2 DEF HandleInv, StartingHasCaller
  <2>2. d # c
    BY <1>1, <1>2, <2>1
  <2> QED
    BY <1>2, <2>1, <2>2
<1>7. HandleKept'
  <2> SUFFICES ASSUME NEW t \in Servers, server'[t].state = "running"
               PROVE  \/ t \in stopping'
                      \/ mounts'[server'[t].resource] = t
                      \/ \E d \in Callers : call'[d].server = t
                      \/ server'[t].resource \in overlapped'
    BY DEF HandleKept
  <2>1. CASE t = s
    BY <1>1, <1>2, <2>1
  <2>2. CASE t # s
    <3>1. \/ t \in stopping
          \/ mounts[server[t].resource] = t
          \/ \E d \in Callers : call[d].server = t
          \/ server[t].resource \in overlapped
      BY <1>2 DEF HandleInv, HandleKept
    <3>2. CASE t \in stopping \/ server[t].resource \in overlapped
      BY <1>2, <3>2
    <3>3. CASE \E d \in Callers : call[d].server = t
      BY <1>2, <2>2, <3>3
    <3>4. CASE mounts[server[t].resource] = t
      <4>1. CASE server[t].resource = r
        BY <1>2, <1>3, <3>4, <4>1, BoundsAssumption DEF Servers
      <4>2. CASE server[t].resource \in Resources \ {r}
        BY <1>2, <3>4, <4>2
      <4> QED
        BY <1>2, <4>1, <4>2 DEF HandleInv, ServersFit
    <3> QED
      BY <3>1, <3>2, <3>3, <3>4
  <2> QED
    BY <2>1, <2>2
<1> QED
  BY <1>4, <1>5, <1>6, <1>7 DEF HandleInv

\* Handles leave the table for the set of servers that were told to stop.
LEMMA UnmountKeepsHandles ==
    ASSUME HandleInv, MountInv', NEW R \in SUBSET Mounted, Unmount(R)
    PROVE  HandleInv'
<1>1. /\ \A q \in Resources : mounts'[q] = IF q \in R THEN None ELSE mounts[q]
      /\ stopping' = stopping \cup Handles(R)
      /\ UNCHANGED <<call, server, overlapped>>
  BY DEF Unmount, StoppedBy
<1>2. CallsFit' /\ ServersFit' /\ OverlapsSeen' /\ StartingHasCaller'
  BY <1>1 DEF HandleInv, CallsFit, ServersFit, OverlapsSeen, Busy, StartingHasCaller
<1>3. \A c \in Callers : Busy(c) => call[c].resource \in Resources
  BY DEF HandleInv, MountInv, TypeOK, Busy
<1>4. LateMountOverlaps'
  BY <1>1, <1>3 DEF HandleInv, LateMountOverlaps, Busy
<1>5. HandleKept'
  BY <1>1 DEF HandleInv, HandleKept, ServersFit, Handles
<1> QED
  BY <1>2, <1>4, <1>5 DEF HandleInv

LEMMA InitHandles == Init => HandleInv
<1> SUFFICES ASSUME Init  PROVE HandleInv
  OBVIOUS
<1>1. CallsFit /\ ServersFit /\ OverlapsSeen /\ LateMountOverlaps /\ StartingHasCaller /\ HandleKept
  BY DEF Init, Idle, CallsFit, ServersFit, OverlapsSeen, LateMountOverlaps, Busy,
         StartingHasCaller, HandleKept
<1> QED
  BY <1>1, InitInv DEF HandleInv

LEMMA NextHandles == HandleInv /\ [Next]_vars => HandleInv'
<1> SUFFICES ASSUME HandleInv, [Next]_vars  PROVE HandleInv'
  OBVIOUS
<1>0. MountInv'
  BY NextInv DEF HandleInv
<1>1. CASE UNCHANGED vars
  <2>1. UNCHANGED <<mounts, call, overlapped, stopping, server>>
    BY <1>1 DEF vars
  <2> QED
    BY <1>0, <2>1, HandlesLeftAlone
<1>2. ASSUME NEW c \in Callers, NEW r \in Resources, MountLooksUp(c, r)  PROVE HandleInv'
  BY <1>0, <1>2, LookUpKeepsHandles
<1>3. ASSUME NEW c \in Callers, Probe(c)  PROVE HandleInv'
  BY <1>0, <1>3, PickKeepsHandles, EndKeepsHandles DEF Probe
<1>4. ASSUME NEW c \in Callers, Answered(c)  PROVE HandleInv'
  BY <1>0, <1>4, KeepKeepsHandles, EndKeepsHandles DEF Answered
<1>5. ASSUME NEW s \in Servers, StartServer(s)  PROVE HandleInv'
  BY <1>0, <1>5, BindKeepsHandle, EndsKeepHandles DEF StartServer
<1>6. ASSUME NEW r \in Resources, UnmountResource(r)  PROVE HandleInv'
  BY <1>0, <1>6, UnmountKeepsHandles DEF UnmountResource
<1>7. CASE UnmountAll
  BY <1>0, <1>7, UnmountKeepsHandles DEF UnmountAll
<1>8. ASSUME NEW s \in Servers, ServerStops(s) \/ OsMountThread(s) \/ OsUnmountThread(s)
      PROVE  HandleInv'
  BY <1>0, <1>8, EndsKeepHandles
<1> QED
  BY <1>1, <1>2, <1>3, <1>4, <1>5, <1>6, <1>7, <1>8 DEF Next

\* A running server can always be stopped, unless two calls for its resource
\* were under way at once: only then does a handle replace another in the
\* table of mounts.
THEOREM NoHandleLost == Spec => []HandleKept
<1>1. HandleInv => HandleKept
  BY DEF HandleInv
<1> QED
  BY <1>1, InitHandles, NextHandles, PTL DEF Spec

=============================================================================
