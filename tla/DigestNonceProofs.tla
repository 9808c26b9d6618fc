-------------------------- MODULE DigestNonceProofs --------------------------
(***************************************************************************)
(* The digest challenges accept no header twice, for any number of         *)
(* requests, nonces, repetitions and ticks of the clock.                   *)
(***************************************************************************)
EXTENDS DigestNonce, TLAPS

\* What makes AcceptedOnce inductive: as long as a nonce is known, every
\* counter accepted with it is at most the one remembered, and it was never
\* accepted without a counter, which would have removed it.
CountersRemembered ==
    \A n \in Nonces : issued_nonces[n] # None =>
        \A i \in 1 .. Len(accepted[n]) : accepted[n][i] \in 1 .. issued_nonces[n].highest_nc

ServerInv == ServerTypes /\ CountersRemembered /\ AcceptedOnce

-----------------------------------------------------------------------------
(* The server's operations.                                                *)

LEMMA RetainKeeps ==
    ASSUME ServerTypes
    PROVE  /\ Retain(issued_nonces) \in [Nonces -> NonceState \cup {None}]
           /\ \A n \in Nonces : Retain(issued_nonces)[n] \in {issued_nonces[n], None}
BY DEF ServerTypes, Retain

\* Accepting a header remembers its counter, or forgets the nonce.
LEMMA SpentKeeps ==
    ASSUME ServerTypes, NEW h \in Header, Fresh(issued_nonces, h)
    PROVE  /\ Spent(issued_nonces, h) \in [Nonces -> NonceState \cup {None}]
           /\ issued_nonces[h.nonce] # None
           /\ h.nc = 0 => Spent(issued_nonces, h)[h.nonce] = None
           /\ h.nc # 0 => /\ Spent(issued_nonces, h)[h.nonce] # None
                          /\ Spent(issued_nonces, h)[h.nonce].highest_nc = h.nc
                          /\ h.nc > issued_nonces[h.nonce].highest_nc
           /\ \A n \in Nonces : n # h.nonce =>
                Spent(issued_nonces, h)[n] \in {issued_nonces[n], None}
<1> DEFINE kept == Retain(issued_nonces)
<1>1. h.nonce \in Nonces /\ h.nc \in Nat
  BY DEF Header
<1>2. /\ kept \in [Nonces -> NonceState \cup {None}]
      /\ \A n \in Nonces : kept[n] \in {issued_nonces[n], None}
  BY RetainKeeps
<1>3. kept[h.nonce] # None /\ (h.nc = 0 \/ h.nc > kept[h.nonce].highest_nc)
  BY DEF Fresh
<1> HIDE DEF kept
<1>4. kept[h.nonce] = issued_nonces[h.nonce] /\ kept[h.nonce] \in NonceState
  BY <1>1, <1>2, <1>3
<1>5. CASE h.nc = 0
  <2>1. Spent(issued_nonces, h) = [kept EXCEPT ![h.nonce] = None]
    BY <1>5 DEF Spent, kept
  <2> QED
    BY <1>1, <1>2, <1>3, <1>4, <1>5, <2>1
<1>6. CASE h.nc # 0
  <2> DEFINE raised == [kept[h.nonce] EXCEPT !.highest_nc = h.nc]
  <2>1. Spent(issued_nonces, h) = [kept EXCEPT ![h.nonce] = raised]
    BY <1>6 DEF Spent, kept
  <2>2. raised \in NonceState /\ raised.highest_nc = h.nc
    BY <1>1, <1>4 DEF NonceState
  <2>3. raised # None
    BY <2>2, BoundsAssumption DEF NonceState
  <2> HIDE DEF raised
  <2> QED
    BY <1>1, <1>2, <1>3, <1>4, <1>6, <2>1, <2>2, <2>3
<1> QED
  BY <1>5, <1>6

LEMMA AcceptKeeps ==
    ASSUME ServerInv, NEW h \in Header, Accept(h)
    PROVE  ServerInv'
<1> DEFINE k == h.nonce
<1> USE DEF ServerInv
<1>1. k \in Nonces /\ h.nc \in Nat
  BY DEF Header
<1>2. Fresh(issued_nonces, h) /\ issued_nonces' = Spent(issued_nonces, h) /\ UNCHANGED minted
  BY DEF Accept
<1>3. /\ accepted' \in [Nonces -> Seq(Nat)]
      /\ accepted'[k] = Append(accepted[k], h.nc)
      /\ \A n \in Nonces : n # k => accepted'[n] = accepted[n]
  BY <1>1 DEF Accept, ServerTypes
<1>4. issued_nonces[k] # None /\ issued_nonces[k] \in NonceState
  BY <1>1, <1>2, SpentKeeps DEF ServerTypes
<1>5. accepted[k] \in Seq(Nat)
  BY <1>1 DEF ServerTypes
<1>6. /\ Len(accepted'[k]) = Len(accepted[k]) + 1
      /\ accepted'[k][Len(accepted[k]) + 1] = h.nc
      /\ \A i \in 1 .. Len(accepted[k]) : accepted'[k][i] = accepted[k][i]
  BY <1>1, <1>3, <1>5
<1>7. \A i \in 1 .. Len(accepted[k]) : accepted[k][i] \in 1 .. issued_nonces[k].highest_nc
  BY <1>1, <1>4 DEF CountersRemembered
<1>8. ServerTypes'
  <2>1. issued_nonces' \in [Nonces -> NonceState \cup {None}]
    BY <1>2, SpentKeeps
  <2>2. k <= minted
    BY <1>1, <1>4 DEF ServerTypes, Nonces
  <2>3. ASSUME NEW n \in Nonces, n > minted
        PROVE  issued_nonces'[n] = None /\ accepted'[n] = <<>>
    <3>1. n # k
      BY <2>2, <2>3, <1>1 DEF Nonces, ServerTypes
    <3> QED
      BY <1>2, <1>3, <2>3, <3>1, SpentKeeps DEF ServerTypes
  <2> QED
    BY <1>2, <1>3, <2>1, <2>3 DEF ServerTypes
<1>9. CountersRemembered'
  <2> SUFFICES ASSUME NEW n \in Nonces, issued_nonces'[n] # None,
                      NEW i \in 1 .. Len(accepted'[n])
               PROVE  accepted'[n][i] \in 1 .. issued_nonces'[n].highest_nc
    BY DEF CountersRemembered
  <2>1. CASE n # k
    <3>1. issued_nonces'[n] = issued_nonces[n] /\ accepted'[n] = accepted[n]
      BY <1>2, <1>3, <2>1, SpentKeeps
    <3> QED
      BY <3>1 DEF CountersRemembered
  <2>2. CASE n = k
    <3>1. h.nc # 0 /\ issued_nonces'[k].highest_nc = h.nc /\ h.nc > issued_nonces[k].highest_nc
      BY <1>2, <2>2, SpentKeeps
    <3>2. issued_nonces[k].highest_nc \in Nat /\ Len(accepted[k]) \in Nat
      BY <1>4, <1>5 DEF NonceState
    <3>3. CASE i = Len(accepted[k]) + 1
      BY <1>1, <1>6, <2>2, <3>1, <3>3
    <3>4. CASE i \in 1 .. Len(accepted[k])
      BY <1>1, <1>6, <1>7, <2>2, <3>1, <3>2, <3>4
    <3> QED
      BY <1>6, <2>2, <3>2, <3>3, <3>4
  <2> QED
    BY <2>1, <2>2
<1>10. AcceptedOnce'
  <2> SUFFICES ASSUME NEW n \in Nonces,
                      NEW i \in 1 .. Len(accepted'[n]), NEW j \in 1 .. Len(accepted'[n]), i < j
               PROVE  /\ accepted'[n][i] # 0
                      /\ accepted'[n][j] = 0 \/ accepted'[n][i] < accepted'[n][j]
    BY DEF AcceptedOnce
  <2>1. CASE n # k
    <3>1. accepted'[n] = accepted[n]
      BY <1>3, <2>1
    <3> QED
      BY <3>1 DEF AcceptedOnce
  <2>2. CASE n = k
    <3>1. Len(accepted[k]) \in Nat /\ issued_nonces[k].highest_nc \in Nat
      BY <1>4, <1>5 DEF NonceState
    <3>2. i \in 1 .. Len(accepted[k])
      BY <1>6, <2>2, <3>1
    <3>3. CASE j = Len(accepted[k]) + 1
      <4>1. h.nc = 0 \/ h.nc > issued_nonces[k].highest_nc
        BY <1>2, SpentKeeps
      <4>2. accepted[k][i] \in 1 .. issued_nonces[k].highest_nc
        BY <1>7, <3>2
      <4>3. accepted'[n][j] = h.nc /\ accepted'[n][i] = accepted[k][i]
        BY <1>6, <2>2, <3>2, <3>3
      <4> QED
        BY <1>1, <3>1, <4>1, <4>2, <4>3
    <3>4. CASE j \in 1 .. Len(accepted[k])
      BY <1>6, <2>2, <3>2, <3>4 DEF AcceptedOnce
    <3> QED
      BY <1>6, <2>2, <3>1, <3>3, <3>4
  <2> QED
    BY <2>1, <2>2
<1> QED
  BY <1>8, <1>9, <1>10

LEMMA ChallengeKeeps ==
    ASSUME ServerInv, ClientTypes, NEW n \in Nonces, Challenge(n)
    PROVE  ServerInv'
<1> USE DEF ServerInv
<1>1. n = minted + 1 /\ minted' = n /\ minted \in 0 .. MaxNonces /\ UNCHANGED accepted
  BY DEF Challenge, ServerTypes
<1>2. issued_nonces' = [Retain(issued_nonces) EXCEPT ![n] = FirstState]
  BY DEF Challenge, Issued
<1>3. FirstState \in NonceState
  BY BoundsAssumption DEF FirstState, NonceState, ClientTypes
<1>4. accepted[n] = <<>>
  BY <1>1 DEF ServerTypes, Nonces
<1>5. /\ issued_nonces' \in [Nonces -> NonceState \cup {None}]
      /\ \A k \in Nonces : k # n => issued_nonces'[k] \in {issued_nonces[k], None}
  BY <1>2, <1>3, RetainKeeps
<1>6. ServerTypes'
  <2>1. ASSUME NEW k \in Nonces, k > n
        PROVE  issued_nonces'[k] = None /\ accepted'[k] = <<>>
    BY <1>1, <1>5, <2>1 DEF ServerTypes, Nonces
  <2>2. n \in 1 .. MaxNonces /\ MaxNonces \in Nat
    BY BoundsAssumption DEF Nonces
  <2>3. minted' \in 0 .. MaxNonces
    BY <1>1, <2>2
  <2> QED
    BY <1>1, <1>5, <2>1, <2>3 DEF ServerTypes
<1>7. CountersRemembered'
  <2> SUFFICES ASSUME NEW k \in Nonces, issued_nonces'[k] # None,
                      NEW i \in 1 .. Len(accepted[k])
               PROVE  accepted[k][i] \in 1 .. issued_nonces'[k].highest_nc
    BY <1>1 DEF CountersRemembered
  <2>1. k # n
    BY <1>4
  <2>2. issued_nonces'[k] = issued_nonces[k]
    BY <1>5, <2>1
  <2> QED
    BY <2>2 DEF CountersRemembered
<1>8. AcceptedOnce'
  BY <1>1 DEF AcceptedOnce
<1> QED
  BY <1>6, <1>7, <1>8

LEMMA ServerStutter ==
    ASSUME ServerInv, UNCHANGED <<issued_nonces, minted, accepted>>
    PROVE  ServerInv'
BY DEF ServerInv, ServerTypes, CountersRemembered, AcceptedOnce

-----------------------------------------------------------------------------
(* The client's steps.                                                     *)

LEMMA HeaderHasNonce ==
    /\ NoHeader \notin Header
    /\ \A n \in Nonces : [nonce |-> n, nc |-> 0] \in Header
    /\ None \notin Nonces
<1>1. None \notin Nonces
  BY BoundsAssumption DEF Nonces
<1> QED
  BY <1>1 DEF NoHeader, Header

LEMMA SendKeeps ==
    ASSUME ClientTypes, NEW r \in Requests, NEW counting \in BOOLEAN, Send(r, counting)
    PROVE  ClientTypes'
<1>1. CASE challenge.nonce = None
  <2> DEFINE bare == [request[r] EXCEPT !.state = "bare"]
  <2>1. request' = [request EXCEPT ![r] = bare] /\ UNCHANGED <<now, challenge, headers, repeats>>
    BY <1>1 DEF Send
  <2>2. request[r] \in Request /\ request[r].state = "new"
    BY DEF Send, ClientTypes
  <2>3. bare \in Request
    BY <2>2 DEF Request
  <2> HIDE DEF bare
  <2> QED
    BY <2>1, <2>3 DEF ClientTypes
<1>2. CASE challenge.nonce # None
  <2> DEFINE nc == IF counting THEN challenge.last + 1 ELSE 0
             h == [nonce |-> challenge.nonce, nc |-> nc]
             c == IF counting THEN [challenge EXCEPT !.last = nc] ELSE challenge
             s == [state |-> "sent", header |-> h]
  <2>1. /\ request' = [request EXCEPT ![r] = s]
        /\ challenge' = c
        /\ headers' = headers \cup {h}
        /\ UNCHANGED <<now, repeats>>
    BY <1>2 DEF Send
  <2>2. challenge \in [nonce : Nonces \cup {None}, last : Nat]
    BY DEF ClientTypes
  <2>3. nc \in Nat /\ challenge.nonce \in Nonces
    BY <1>2, <2>2
  <2> HIDE DEF nc
  <2>4. h \in Header /\ c \in [nonce : Nonces \cup {None}, last : Nat]
    BY <2>2, <2>3 DEF Header
  <2> HIDE DEF h, c
  <2>5. s \in Request
    BY <2>4 DEF Request
  <2> HIDE DEF s
  <2> QED
    BY <2>1, <2>4, <2>5 DEF ClientTypes
<1> QED
  BY <1>1, <1>2

LEMMA ChallengedKeeps ==
    ASSUME ClientTypes, NEW r \in Requests, NEW n \in Nonces,
           request' = [request EXCEPT ![r] = [state |-> "challenged",
                                              header |-> [nonce |-> n, nc |-> 0]]],
           UNCHANGED <<now, challenge, headers, repeats>>
    PROVE  ClientTypes'
<1>1. [state |-> "challenged", header |-> [nonce |-> n, nc |-> 0]] \in Request
  BY HeaderHasNonce DEF Request
<1> QED
  BY <1>1 DEF ClientTypes

LEMMA ServedKeeps ==
    ASSUME ClientTypes, NEW r \in Requests,
           request' = [request EXCEPT ![r].state = "served"],
           UNCHANGED <<now, challenge, headers, repeats>>
    PROVE  ClientTypes'
<1> DEFINE served == [request[r] EXCEPT !.state = "served"]
<1>1. request[r] \in Request
  BY DEF ClientTypes
<1>2. served \in Request
  BY <1>1 DEF Request
<1>3. request' = [request EXCEPT ![r] = served]
  OBVIOUS
<1> HIDE DEF served
<1> QED
  BY <1>2, <1>3 DEF ClientTypes

LEMMA RetryKeeps ==
    ASSUME ClientTypes, NEW r \in Requests, Retry(r)
    PROVE  ClientTypes'
<1> DEFINE new == [request[r] EXCEPT !.state = "new"]
           c == [nonce |-> request[r].header.nonce, last |-> 0]
<1>1. request[r] \in Request /\ request[r].state = "challenged"
  BY DEF ClientTypes, Retry
<1>2. request[r].header \in Header
  BY <1>1 DEF Request
<1>3. new \in Request
  BY <1>1 DEF Request
<1>4. c \in [nonce : Nonces \cup {None}, last : Nat]
  BY <1>2 DEF Header
<1>5. request' = [request EXCEPT ![r] = new] /\ challenge' = c
  BY DEF Retry
<1> HIDE DEF new, c
<1> QED
  BY <1>3, <1>4, <1>5 DEF ClientTypes, Retry

-----------------------------------------------------------------------------
(* The theorems.                                                           *)

Inv == ServerInv /\ ClientTypes

LEMMA Initially == Init => Inv
<1> SUFFICES ASSUME Init PROVE Inv
  OBVIOUS
<1>1. ServerInv
  BY BoundsAssumption DEF Init, ServerInv, ServerTypes, CountersRemembered, AcceptedOnce
<1>2. [state |-> "new", header |-> NoHeader] \in Request
  BY DEF Request
<1>3. ClientTypes
  BY <1>2, BoundsAssumption DEF Init, ClientTypes
<1> QED
  BY <1>1, <1>3 DEF Inv

LEMMA Inductive == Inv /\ [Next]_vars => Inv'
<1> SUFFICES ASSUME Inv, [Next]_vars PROVE Inv'
  OBVIOUS
<1> USE DEF Inv
<1>1. ASSUME NEW r \in Requests, SendAny(r)
      PROVE  Inv'
  BY <1>1, SendKeeps, ServerStutter DEF SendAny, Send
<1>2. ASSUME NEW r \in Requests, NEW n \in Nonces, ServeBare(r, n)
      PROVE  Inv'
  BY <1>2, ChallengedKeeps, ChallengeKeeps DEF ServeBare
<1>3. ASSUME NEW r \in Requests, NEW n \in Nonces, ServeRefused(r, n)
      PROVE  Inv'
  BY <1>3, ChallengedKeeps, ChallengeKeeps DEF ServeRefused, Refuse
<1>4. ASSUME NEW r \in Requests, ServeAccepted(r)
      PROVE  Inv'
  <2>1. request[r] \in Request /\ request[r].state = "sent"
    BY <1>4 DEF ClientTypes, ServeAccepted
  <2>2. request[r].header \in Header
    BY <2>1 DEF Request
  <2> QED
    BY <1>4, <2>2, AcceptKeeps, ServedKeeps DEF ServeAccepted
<1>5. ASSUME NEW h \in headers, ServeAgain(h)
      PROVE  Inv'
  <2>1. h \in Header
    BY <1>5 DEF ClientTypes
  <2>2. ServerInv'
    BY <1>5, <2>1, AcceptKeeps, ChallengeKeeps DEF ServeAgain, Refuse
  <2>3. ClientTypes'
    BY <1>5, BoundsAssumption DEF ServeAgain, ClientTypes
  <2> QED
    BY <2>2, <2>3
<1>6. ASSUME NEW r \in Requests, Retry(r)
      PROVE  Inv'
  BY <1>6, RetryKeeps, ServerStutter DEF Retry
<1>7. CASE Tick
  <2>1. ClientTypes'
    BY <1>7, BoundsAssumption DEF Tick, ClientTypes
  <2> QED
    BY <1>7, <2>1, ServerStutter DEF Tick
<1>8. CASE UNCHANGED vars
  BY <1>8, ServerStutter DEF vars, ClientTypes
<1> QED
  BY <1>1, <1>2, <1>3, <1>4, <1>5, <1>6, <1>7, <1>8 DEF Next, ServeFirst, ServeSent

\* The server knows and accepts only nonces it has minted, and a request that
\* waits for its answer has a header, in every reachable state.
THEOREM TypeCorrect == Spec => []TypeOK
<1>1. Inv => TypeOK
  BY DEF Inv, ServerInv, TypeOK
<1> QED
  BY <1>1, Initially, Inductive, PTL DEF Spec

\* No header authenticates twice: the counters accepted with one nonce
\* strictly grow, and an acceptance without a counter is its last.
THEOREM NoReplay == Spec => []AcceptedOnce
<1>1. Inv => AcceptedOnce
  BY DEF Inv, ServerInv
<1> QED
  BY <1>1, Initially, Inductive, PTL DEF Spec

=============================================================================
