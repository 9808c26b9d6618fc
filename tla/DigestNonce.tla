----------------------------- MODULE DigestNonce ----------------------------
(***************************************************************************)
(* The challenges of the WebDAV server's digest authentication             *)
(* (web-davserver/src/auth.rs) and a client that sends several requests at *)
(* once.  All requests carry a correct digest; a request arrives without   *)
(* one, with a nonce and its counter, or with a nonce alone (a client that *)
(* does not use qop).  A request may arrive again after it was answered.   *)
(***************************************************************************)
EXTENDS Integers, Sequences

CONSTANTS
    Requests,   \* the requests of the client
    MaxNonces,  \* bound on the nonces minted
    None,       \* no nonce, or no state for it
    NonceTTL,   \* lifetime of a challenge (300 s)
    MaxTime,    \* bound on the clock
    MaxRepeats  \* bound on the requests that arrive again

ASSUME BoundsAssumption ==
    /\ NonceTTL \in Nat \ {0}
    /\ {MaxNonces, MaxTime, MaxRepeats} \subseteq Nat
    /\ None \notin Nat
    /\ None \notin [issued : Nat, highest_nc : Nat]

VARIABLES
    now,            \* the clock
    issued_nonces,  \* issued_nonces[n]: NonceState of n, or None
    minted,         \* number of nonces issue_nonce has returned so far
    request,        \* request[r]: what the client knows of request r
    challenge,      \* the client's current nonce, and the last counter sent
    headers,        \* every Authorization header sent
    repeats,        \* number of headers that arrived again
    accepted        \* history: accepted[n]: the counters accepted with n

vars == <<now, issued_nonces, minted, request, challenge, headers, repeats, accepted>>

\* A nonce is a fresh UUID; they are numbered in the order they are minted.
Nonces == 1 .. MaxNonces

NonceState == [issued : Nat, highest_nc : Nat]

\* A header without a counter has nc = 0; u64 counters start at 1.
Header == [nonce : Nonces, nc : Nat]

-----------------------------------------------------------------------------
(* The server.                                                             *)

\* map.retain: what has outlived its time is forgotten.
Retain(map) ==
    [n \in Nonces |->
        IF map[n] # None /\ now - map[n].issued < NonceTTL THEN map[n] ELSE None]

FirstState == [issued |-> now, highest_nc |-> 0]

\* issue_nonce mints n.
IssuedAnother(map, n) == [Retain(map) EXCEPT ![n + 1] = FirstState]

Issued(map, n) == [Retain(map) EXCEPT ![n] = FirstState]

\* accept_nonce says yes: a counter above all it has seen, or, without a
\* counter, a nonce it still knows.
FreshOrEqual(map, h) ==
    /\ Retain(map)[h.nonce] # None
    /\ h.nc = 0 \/ h.nc >= Retain(map)[h.nonce].highest_nc

Fresh(map, h) ==
    /\ Retain(map)[h.nonce] # None
    /\ h.nc = 0 \/ h.nc > Retain(map)[h.nonce].highest_nc

\* What it leaves behind: the counter is remembered, a nonce without is spent.
Spent(map, h) ==
    IF h.nc = 0 THEN [Retain(map) EXCEPT ![h.nonce] = None]
                ELSE [Retain(map) EXCEPT ![h.nonce].highest_nc = h.nc]

\* Requests r with a header: validate_digest, and a new challenge when it fails.
Accept(h) ==
    /\ Fresh(issued_nonces, h)
    /\ issued_nonces' = Spent(issued_nonces, h)
    /\ accepted' = [accepted EXCEPT ![h.nonce] = Append(@, h.nc)]
    /\ UNCHANGED minted

Challenge(n) ==
    /\ n = minted + 1
    /\ minted' = n
    /\ issued_nonces' = Issued(issued_nonces, n)
    /\ UNCHANGED accepted

RefuseWithTheSame(h, n) ==
    ~Fresh(issued_nonces, h) /\ n = h.nonce /\ UNCHANGED <<minted, issued_nonces, accepted>>
Refuse(h, n) == ~Fresh(issued_nonces, h) /\ Challenge(n)

-----------------------------------------------------------------------------
(* The client.                                                             *)

\* A request goes out with the current nonce and the next counter, with the
\* nonce alone, or without a header as long as there is no challenge.
Send(r, counting) ==
    /\ request[r].state = "new"
    /\ IF challenge.nonce = None
       THEN /\ request' = [request EXCEPT ![r].state = "bare"]
            /\ UNCHANGED <<challenge, headers>>
       ELSE LET nc == IF counting THEN challenge.last + 1 ELSE 0
                h == [nonce |-> challenge.nonce, nc |-> nc]
            IN  /\ request' = [request EXCEPT ![r] = [state |-> "sent", header |-> h]]
                /\ challenge' = IF counting THEN [challenge EXCEPT !.last = nc] ELSE challenge
                /\ headers' = headers \cup {h}
    /\ UNCHANGED <<now, issued_nonces, minted, repeats, accepted>>

\* The server answers a request: no header or a stale one earns a challenge.
ServeBare(r, n) ==
    /\ request[r].state = "bare"
    /\ Challenge(n)
    /\ request' = [request EXCEPT ![r] = [state |-> "challenged",
                                          header |-> [nonce |-> n, nc |-> 0]]]
    /\ UNCHANGED <<now, challenge, headers, repeats>>

ServeRefused(r, n) ==
    /\ request[r].state = "sent"
    /\ Refuse(request[r].header, n)
    /\ request' = [request EXCEPT ![r] = [state |-> "challenged",
                                          header |-> [nonce |-> n, nc |-> 0]]]
    /\ UNCHANGED <<now, challenge, headers, repeats>>

ServeAccepted(r) ==
    /\ request[r].state = "sent"
    /\ Accept(request[r].header)
    /\ request' = [request EXCEPT ![r].state = "served"]
    /\ UNCHANGED <<now, challenge, headers, repeats>>

\* A header sent before arrives again, by a retry or a broken connection.
ServeAgain(h) ==
    /\ repeats < MaxRepeats
    /\ repeats' = repeats + 1
    /\ Accept(h) \/ \E n \in Nonces : Refuse(h, n)
    /\ UNCHANGED <<now, request, challenge, headers>>

\* A 401 gives the client a new nonce, and the request is sent again.
Retry(r) ==
    /\ request[r].state = "challenged"
    /\ challenge' = [nonce |-> request[r].header.nonce, last |-> 0]
    /\ request' = [request EXCEPT ![r].state = "new"]
    /\ UNCHANGED <<now, issued_nonces, minted, headers, repeats, accepted>>

Tick ==
    /\ now < MaxTime
    /\ now' = now + 1
    /\ UNCHANGED <<issued_nonces, minted, request, challenge, headers, repeats, accepted>>

-----------------------------------------------------------------------------
NoHeader == [nonce |-> None, nc |-> 0]

Init ==
    /\ now = 0
    /\ issued_nonces = [n \in Nonces |-> None]
    /\ minted = 0
    /\ request = [r \in Requests |-> [state |-> "new", header |-> NoHeader]]
    /\ challenge = [nonce |-> None, last |-> 0]
    /\ headers = {}
    /\ repeats = 0
    /\ accepted = [n \in Nonces |-> <<>>]

ServeSent(r) == ServeAccepted(r) \/ \E n \in Nonces : ServeRefused(r, n)
ServeFirst(r) == \E n \in Nonces : ServeBare(r, n)
SendAny(r) == \E counting \in BOOLEAN : Send(r, counting)

Next ==
    \/ \E r \in Requests : SendAny(r)
    \/ \E r \in Requests : ServeFirst(r)
    \/ \E r \in Requests : ServeSent(r)
    \/ \E h \in headers : ServeAgain(h)
    \/ \E r \in Requests : Retry(r)
    \/ Tick

\* Client and server keep going; headers need not arrive twice, and the clock
\* need not move.
Fairness ==
    \A r \in Requests :
        WF_vars(SendAny(r)) /\ WF_vars(ServeFirst(r)) /\ WF_vars(ServeSent(r)) /\ WF_vars(Retry(r))

Spec == Init /\ [][Next]_vars /\ Fairness

-----------------------------------------------------------------------------
(* Properties.                                                             *)

\* Only minted nonces have a state or were accepted.
ServerTypes ==
    /\ issued_nonces \in [Nonces -> NonceState \cup {None}]
    /\ minted \in 0 .. MaxNonces
    /\ accepted \in [Nonces -> Seq(Nat)]
    /\ \A n \in Nonces : n > minted => issued_nonces[n] = None /\ accepted[n] = <<>>

Request ==
    [state : {"new", "bare", "served"}, header : Header \cup {NoHeader}]
      \cup [state : {"sent", "challenged"}, header : Header]

ClientTypes ==
    /\ now \in 0 .. MaxTime
    /\ request \in [Requests -> Request]
    /\ challenge \in [nonce : Nonces \cup {None}, last : Nat]
    /\ headers \subseteq Header
    /\ repeats \in 0 .. MaxRepeats

\* Types of the variables: what the server remembers is a nonce it returned,
\* and a request that waits for its answer, or carries a challenge, has one.
TypeOK == ServerTypes /\ ClientTypes

\* "a captured header must not authenticate twice": the counters accepted
\* with a nonce only grow, and a nonce accepted without one ends there.
AcceptedOnce ==
    \A n \in Nonces : \A i, j \in 1 .. Len(accepted[n]) :
        i < j => accepted[n][i] # 0 /\ (accepted[n][j] = 0 \/ accepted[n][i] < accepted[n][j])

\* Requests in flight together may overtake each other, or outlive their
\* nonce, and are then refused; the new challenge gets every one through.
RequestServed == \A r \in Requests : request[r].state = "new" ~> request[r].state = "served"

=============================================================================
