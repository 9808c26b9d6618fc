------------------------------ MODULE WebProxy ------------------------------
(***************************************************************************)
(* HTTP requests a node makes for a peer: the two tasks the handler of     *)
(* p2p-handlers/src/web_proxy.rs spawns for each request, one that follows *)
(* redirects and reads the response (node-functions/src/web_proxy.rs), and *)
(* one that forwards its events to the peer.                               *)
(*                                                                         *)
(* A block of a body is what fits one message (60000 bytes); blocks are    *)
(* numbered in the order the origin server sends them.                     *)
(***************************************************************************)
EXTENDS Integers, Sequences, NetGuard

CONSTANTS
    Requests,     \* request ids
    MaxRedirects, \* MAX_REDIRECTS (10)
    EventCap,     \* capacity of the channel between the two tasks (1024)
    MaxBody,      \* bound on the blocks of a body
    Started, BadGateway, ErrorText, Completed \* what a peer is told beside the body

ASSUME WebAssumption ==
    /\ {MaxRedirects, MaxBody} \subseteq Nat
    /\ EventCap \in Nat \ {0}
    /\ {Started, BadGateway, ErrorText, Completed} \cap 1 .. MaxBody = {}
    /\ Started \notin {BadGateway, Completed}

VARIABLES
    fetch,     \* fetch[r]: the executing task: where it is, the redirects it
               \* followed, the request it makes, the client's addresses
    events,    \* events[r]: the channel to the forwarding task
    sending,   \* sending[r]: messages the forwarding task has yet to send
    answer,    \* answer[r]: what the peer was sent
    body,      \* body[r]: what the origin sent, read by the task, how it ended
    hops       \* history: hops[r]: the requests tried, with what came of each

webVars == <<fetch, events, sending, answer, body, hops>>

\* POST stands for every other method; the peer sends a body with it.
Methods == {"GET", "POST"}
HasBody(method) == method = "POST"

-----------------------------------------------------------------------------
(* The executing task.                                                     *)

\* A URL that does not parse is an error at once.
HttpRequest(r, method) ==
    /\ fetch[r].at = "none"
    /\ \E at \in {"resolving", "failing"} :
          fetch' = [fetch EXCEPT ![r] =
              [at |-> at, redirects |-> 0, method |-> method, body |-> HasBody(method), addrs |-> {}]]
    /\ UNCHANGED <<events, sending, answer, body, hops>>

At(r, at) == fetch' = [fetch EXCEPT ![r].at = at]

\* client_for: the client of a hop knows the addresses that were let through,
\* and resolves nothing again.
Resolve(r, resolved) ==
    LET addrs == ResolveAllowed(resolved, AllowsLocalNetwork(r))
    IN  /\ fetch[r].at = "resolving"
        /\ fetch' = [fetch EXCEPT ![r].at = IF addrs = {} THEN "failing" ELSE "requesting",
                                  ![r].addrs = addrs]
        /\ UNCHANGED <<events, sending, answer, body, hops>>

Made(r, addr, reply) ==
    hops' = [hops EXCEPT ![r] = Append(@,
        [local |-> IsLocalTarget(addr), method |-> fetch[r].method, body |-> fetch[r].body, reply |-> reply])]

\* 307 and 308 repeat the request; any other redirection makes it a GET.
BodyRepeated(request, reply) ==
    [request EXCEPT !.at = "resolving", !.redirects = @ + 1,
                    !.method = IF reply = "repeat" THEN @ ELSE "GET"]
Redirected(request, reply) ==
    [request EXCEPT !.at = "resolving", !.redirects = @ + 1,
                    !.method = IF reply = "repeat" THEN @ ELSE "GET",
                    !.body = @ /\ reply = "repeat"]

NoHopLeft(r) == fetch[r].redirects = MaxRedirects

\* One request and the head of its response, which may name another place.
Exchange(r, addr, reply) ==
    /\ fetch[r].at = "requesting"
    /\ addr \in fetch[r].addrs
    /\ Made(r, addr, reply)
    /\ \/ reply = "final" /\ At(r, "starting")
       \/ reply = "failed" /\ At(r, "failing")
       \/ /\ reply \in {"repeat", "see other"}
          /\ ~NoHopLeft(r)
          /\ fetch' = [fetch EXCEPT ![r] = Redirected(@, reply)]
       \/ /\ reply \in {"repeat", "see other"}
          /\ NoHopLeft(r)
          /\ At(r, "failing")
    /\ UNCHANGED <<events, sending, answer, body>>

\* An event for the forwarding task, once the channel has room.
Emit(r, event) ==
    /\ Len(events[r]) < EventCap
    /\ events' = [events EXCEPT ![r] = Append(@, event)]

EmitError(r) ==
    /\ fetch[r].at = "failing"
    /\ Emit(r, <<BadGateway, ErrorText, Completed>>)
    /\ At(r, "ended")
    /\ UNCHANGED <<sending, answer, body, hops>>

EmitStart(r) ==
    /\ fetch[r].at = "starting"
    /\ Emit(r, <<Started>>)
    /\ At(r, "reading")
    /\ UNCHANGED <<sending, answer, body, hops>>

\* What a chunk becomes: as many messages as it has blocks.
Slices(first, last) == [i \in 1 .. last - first + 1 |-> first + i - 1]

\* A chunk is one or more of the blocks that have arrived.
EmitChunk(r, last) ==
    /\ fetch[r].at = "reading"
    /\ last \in body[r].read + 1 .. body[r].sent
    /\ Emit(r, Slices(body[r].read + 1, last))
    /\ body' = [body EXCEPT ![r].read = last]
    /\ UNCHANGED <<fetch, sending, answer, hops>>

\* A body that breaks off, its last blocks unread, ends the loop like its end.
BodyOverEarly(r) == body[r].over # "open"
BodyOver(r) ==
    \/ body[r].over = "broken"
    \/ body[r].over = "finished" /\ body[r].read = body[r].sent

EmitComplete(r) ==
    /\ fetch[r].at = "reading"
    /\ BodyOver(r)
    /\ Emit(r, <<Completed>>)
    /\ At(r, "ended")
    /\ UNCHANGED <<sending, answer, body, hops>>

-----------------------------------------------------------------------------
(* The forwarding task.                                                    *)

Receive(r) ==
    /\ sending[r] = <<>>
    /\ events[r] # <<>>
    /\ sending' = [sending EXCEPT ![r] = Head(events[r])]
    /\ events' = [events EXCEPT ![r] = Tail(@)]
    /\ UNCHANGED <<fetch, answer, body, hops>>

SendMsg(r) ==
    /\ sending[r] # <<>>
    /\ answer' = [answer EXCEPT ![r] = Append(@, Head(sending[r]))]
    /\ sending' = [sending EXCEPT ![r] = Tail(@)]
    /\ UNCHANGED <<fetch, events, body, hops>>

-----------------------------------------------------------------------------
(* The origin server, once the head of its response was read.              *)

OriginSends(r) ==
    /\ fetch[r].at \in {"starting", "reading"}
    /\ body[r].over = "open"
    /\ body[r].sent < MaxBody
    /\ body' = [body EXCEPT ![r].sent = @ + 1]
    /\ UNCHANGED <<fetch, events, sending, answer, hops>>

OriginEnds(r, how) ==
    /\ fetch[r].at \in {"starting", "reading"}
    /\ body[r].over = "open"
    /\ body' = [body EXCEPT ![r].over = how]
    /\ UNCHANGED <<fetch, events, sending, answer, hops>>

-----------------------------------------------------------------------------
WebInit ==
    /\ fetch = [r \in Requests |->
          [at |-> "none", redirects |-> 0, method |-> "GET", body |-> FALSE, addrs |-> {}]]
    /\ events = [r \in Requests |-> <<>>]
    /\ sending = [r \in Requests |-> <<>>]
    /\ answer = [r \in Requests |-> <<>>]
    /\ body = [r \in Requests |-> [sent |-> 0, read |-> 0, over |-> "open"]]
    /\ hops = [r \in Requests |-> <<>>]

Executing(r) ==
    \/ \E resolved \in SUBSET Addresses : Resolve(r, resolved)
    \/ EmitError(r)
    \/ EmitStart(r)
    \/ \E last \in 1 .. MaxBody : EmitChunk(r, last)
    \/ EmitComplete(r)

Forwarding(r) == Receive(r) \/ SendMsg(r)

WebNext ==
    \E r \in Requests :
        \/ \E method \in Methods : HttpRequest(r, method)
        \/ \E addr \in Addresses, reply \in {"final", "failed", "repeat", "see other"} :
              Exchange(r, addr, reply)
        \/ Executing(r)
        \/ Forwarding(r)
        \/ OriginSends(r)
        \/ \E how \in {"finished", "broken"} : OriginEnds(r, how)

\* Names are resolved, by the resolver's timeout at the latest, and both tasks
\* run.  An origin need neither answer nor end its body: no timeout is set.
WebFairness == \A r \in Requests : WF_webVars(Executing(r)) /\ WF_webVars(Forwarding(r))

WebSpec == WebInit /\ [][WebNext]_webVars /\ WebFairness

-----------------------------------------------------------------------------
(* Properties.                                                             *)

Reply == {"final", "failed", "repeat", "see other"}
Message == (1 .. MaxBody) \cup {Started, BadGateway, ErrorText, Completed}

\* Types of the variables; the channel stays within its capacity and a request
\* within its redirects.
WebTypeOK ==
    /\ fetch \in [Requests ->
          [at : {"none", "resolving", "requesting", "failing", "starting", "reading", "ended"},
           redirects : 0 .. MaxRedirects, method : Methods, body : BOOLEAN,
           addrs : SUBSET Addresses]]
    /\ events \in [Requests -> Seq(Seq(Message))]
    /\ sending \in [Requests -> Seq(Message)]
    /\ answer \in [Requests -> Seq(Message)]
    /\ body \in [Requests ->
          [sent : 0 .. MaxBody, read : 0 .. MaxBody, over : {"open", "finished", "broken"}]]
    /\ hops \in [Requests ->
          Seq([local : BOOLEAN, method : Methods, body : BOOLEAN, reply : Reply])]
    /\ \A r \in Requests : Len(events[r]) <= EventCap /\ Len(hops[r]) <= MaxRedirects + 1

\* The redirects of one request add up: a later hop carries the method and
\* the body of the first exactly if every reply between them said to repeat
\* it, and is a GET without a body from the first other redirect on.
RedirectsCompose ==
    \A r \in Requests : \A j \in 1 .. Len(hops[r]) :
        IF \A i \in 1 .. j - 1 : hops[r][i].reply = "repeat"
        THEN hops[r][j].method = hops[r][1].method /\ hops[r][j].body = hops[r][1].body
        ELSE hops[r][j].method = "GET" /\ ~hops[r][j].body

\* No hop reaches an address of a local network unless the resource allows it.
HopsAllowed ==
    \A r \in Requests : \A i \in 1 .. Len(hops[r]) :
        AllowsLocalNetwork(r) \/ ~hops[r][i].local

\* The answer to a request that failed, as far as it was sent, is a refusal.
Failure == <<BadGateway, ErrorText, Completed>>
Answered(r) ==
    IF answer[r] \in {SubSeq(Failure, 1, k) : k \in 1 .. Len(Failure)}
    THEN <<BadGateway>> ELSE answer[r]

\* A peer may rely on a response as it does on a relayed connection: a start,
\* the body in order, whole unless it broke off, and one completion after it.
Response == INSTANCE RelayContract WITH
    Streams <- Requests, MaxDown <- MaxBody,
    Accepted <- Started, Refused <- BadGateway, Closed <- Completed,
    heard <- [r \in Requests |-> Answered(r)],
    told <- [r \in Requests |-> body[r].sent],
    over <- [r \in Requests |-> body[r].over]

HonoursResponse == Response!Spec

\* Every request is completed, unless an origin stays silent for ever.
ResponseCompletes ==
    \A r \in Requests : fetch[r].at # "none" ~>
        \/ answer[r] # <<>> /\ answer[r][Len(answer[r])] = Completed
        \/ [](fetch[r].at = "requesting")
        \/ [](fetch[r].at = "reading" /\ body[r].over = "open")

=============================================================================
