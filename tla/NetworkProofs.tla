---------------------------- MODULE NetworkProofs ---------------------------
(***************************************************************************)
(* Theorems about the two components that reach into the network for a     *)
(* peer, and about MCNetwork, which composes them.                         *)
(*                                                                         *)
(* About SocksRelay, for any number of streams, any capacities of the two  *)
(* channels, any amount of data and any addresses: its types, the order    *)
(* and completeness of what is relayed upstream, the contract a peer sees  *)
(* downstream, and the network policy.                                     *)
(*                                                                         *)
(* About WebProxy, for any number of requests, any bound on their          *)
(* redirects and bodies, any capacity of the channel between the two tasks *)
(* and any addresses: its types, the composition of redirects, the network *)
(* policy, and the contract a peer sees.                                   *)
(***************************************************************************)
EXTENDS MCNetwork, SequenceTheorems, TLAPS

-----------------------------------------------------------------------------
(* SocksRelay: the inductive invariant, stream by stream.                  *)

\* The reading and the writing task exist from the connection on.
Phases(s) ==
    /\ task[s] \in {"none", "connecting"} => writer[s] = "none" /\ target[s] = "open"
    /\ task[s] \in {"answering", "relaying"} => writer[s] # "none"
    /\ writer[s] = "none" <=> reader[s] = "none"
    /\ writer[s] = "none" => written[s] = <<>>

\* The map has a stream from its request until the peer closes it or the
\* relaying task has cleaned up.
Registered(s) ==
    /\ s \in active_socks_streams => s \notin peerClosed
    /\ s \in active_socks_streams \cup peerClosed => task[s] # "none"
    /\ task[s] \in {"connecting", "answering", "relaying", "cleaning"} =>
          s \in active_socks_streams \cup peerClosed

\* The receiver of the queue is alive, or was when it lost its data.
Relayed(s) ==
    \/ task[s] \in {"none", "connecting", "answering", "relaying"}
    \/ task[s] = "cleaning" /\ writer[s] # "none"

Arriving(s) == {Upstream(s)[i] : i \in 1 .. Len(Upstream(s))}

\* What was written and what is queued is in order, and every block the peer
\* sent is among it or was refused.
InOrder(s) ==
    /\ \A i, j \in 1 .. Len(Upstream(s)) : i < j => Upstream(s)[i] < Upstream(s)[j]
    /\ \A i \in 1 .. Len(Upstream(s)) : Upstream(s)[i] <= up[s]
    /\ \A k \in dropped[s] : k <= up[s]

Accounted(s) ==
    Relayed(s) /\ target[s] # "broken" => Arriving(s) = 1 .. up[s] \ dropped[s]

\* A writing task ends with an empty queue, and towards a target that is there
\* only once the stream has left the map.
WriterDone(s) ==
    writer[s] = "ended" =>
        /\ queue[s] = <<>>
        /\ target[s] # "broken" /\ task[s] # "done" => s \notin active_socks_streams

UpstreamInv(s) == InOrder(s) /\ Accounted(s) /\ WriterDone(s)

\* The blocks read are numbered without a gap: those in the channel follow
\* those the peer was sent.
Answers(s) ==
    /\ task[s] \in {"none", "connecting", "answering"} => toPeer[s] = <<>>
    /\ task[s] = "relaying" =>
          /\ toPeer[s] # <<>>
          /\ toPeer[s][1] = Accepted
          /\ \A i \in 2 .. Len(toPeer[s]) : toPeer[s][i] = i - 1

ReadInOrder(s) ==
    /\ taken[s] <= down[s]
    /\ Len(chan[s]) <= taken[s]
    /\ \A i \in 1 .. Len(chan[s]) : chan[s][i] = taken[s] - Len(chan[s]) + i
    /\ task[s] \in {"none", "connecting"} => taken[s] = 0
    /\ task[s] = "answering" => Len(chan[s]) = taken[s]
    /\ task[s] = "relaying" => Len(toPeer[s]) - 1 + Len(chan[s]) = taken[s]

\* A reading task ends when the target did, after all it sent unless the
\* connection broke.
ReaderDone(s) ==
    reader[s] = "ended" =>
        target[s] = "broken" \/ (target[s] = "finished" /\ taken[s] = down[s])

DownstreamInv(s) == Answers(s) /\ ReadInOrder(s) /\ ReaderDone(s)

\* Every address a connection was made to was let through.
Allowed(s) == \A addr \in contacted[s] : AllowsLocalNetwork(s) \/ ~IsLocalTarget(addr)

StreamInv(s) ==
    Phases(s) /\ Registered(s) /\ UpstreamInv(s) /\ DownstreamInv(s) /\ Allowed(s)

RelayInv == TypeOK /\ \A s \in Streams : StreamInv(s)

-----------------------------------------------------------------------------
(* Sequences of blocks.                                                    *)

\* Writing the first block of the queue moves it within what arrives.
LEMMA WritingKeepsUpstream ==
    ASSUME NEW S, NEW w \in Seq(S), NEW q \in Seq(S), q # <<>>
    PROVE  Append(w, Head(q)) \o Tail(q) = w \o q
<1>1. /\ Head(q) \in S /\ Tail(q) \in Seq(S) /\ Len(Tail(q)) = Len(q) - 1
      /\ \A i \in 1 .. Len(Tail(q)) : Tail(q)[i] = q[i + 1]
  BY HeadTailProperties
<1>2. /\ Append(w, Head(q)) \in Seq(S) /\ Len(Append(w, Head(q))) = Len(w) + 1
      /\ \A i \in 1 .. Len(w) : Append(w, Head(q))[i] = w[i]
      /\ Append(w, Head(q))[Len(w) + 1] = Head(q)
  BY <1>1, AppendProperties
<1>3. Len(w) \in Nat /\ Len(q) \in Nat \ {0} /\ Head(q) = q[1]
  BY LenProperties, EmptySeq
<1> DEFINE v == Append(w, Head(q))
           t == Tail(q)
<1>4. /\ v \o t \in Seq(S) /\ Len(v \o t) = Len(v) + Len(t)
      /\ \A i \in 1 .. Len(v) + Len(t) : (v \o t)[i] = IF i <= Len(v) THEN v[i] ELSE t[i - Len(v)]
  BY <1>1, <1>2, ConcatProperties
<1>5. /\ w \o q \in Seq(S) /\ Len(w \o q) = Len(w) + Len(q)
      /\ \A i \in 1 .. Len(w) + Len(q) : (w \o q)[i] = IF i <= Len(w) THEN w[i] ELSE q[i - Len(w)]
  BY ConcatProperties
<1>6. v \in Seq(S) /\ t \in Seq(S) /\ Len(v) = Len(w) + 1 /\ Len(t) = Len(q) - 1
      /\ (\A i \in 1 .. Len(w) : v[i] = w[i]) /\ v[Len(w) + 1] = q[1]
      /\ \A i \in 1 .. Len(t) : t[i] = q[i + 1]
  BY <1>1, <1>2, <1>3
<1> HIDE DEF v, t
<1>7. ASSUME NEW i \in 1 .. Len(v \o t)  PROVE (v \o t)[i] = (w \o q)[i]
  <2>1. CASE i <= Len(w)
    BY <2>1, <1>3, <1>4, <1>5, <1>6
  <2>2. CASE i = Len(w) + 1
    BY <2>2, <1>3, <1>4, <1>5, <1>6
  <2>3. CASE i > Len(w) + 1
    <3> DEFINE j == i - (Len(w) + 1)
    <3>1. j \in 1 .. Len(t) /\ j + 1 = i - Len(w) /\ i \in 1 .. Len(w) + Len(q)
      BY <2>3, <1>3, <1>4, <1>6
    <3>2. (v \o t)[i] = t[j]
      BY <2>3, <1>3, <1>4, <1>6
    <3>3. (w \o q)[i] = q[j + 1]
      BY <2>3, <3>1, <1>3, <1>5
    <3> HIDE DEF j
    <3> QED
      BY <3>1, <3>2, <3>3, <1>6
  <2> QED
    BY <2>1, <2>2, <2>3, <1>3, <1>4, <1>6
<1>8. Len(v \o t) = Len(w \o q)
  BY <1>3, <1>4, <1>5, <1>6
<1>9. v \o t = w \o q
  BY <1>4, <1>5, <1>7, <1>8, SeqEqual
<1> QED
  BY <1>9 DEF v, t

\* A block that joins the queue joins what arrives, at its end.
LEMMA QueueingExtendsUpstream ==
    ASSUME NEW S, NEW w \in Seq(S), NEW q \in Seq(S), NEW e \in S
    PROVE  /\ w \o Append(q, e) = Append(w \o q, e)
           /\ w \o q \in Seq(S)
<1>1. Append(q, e) = q \o <<e>> /\ <<e>> \in Seq(S)
  BY AppendIsConcat
<1>2. w \o q \in Seq(S)
  BY ConcatProperties
<1>3. Append(w \o q, e) = (w \o q) \o <<e>>
  BY <1>2, AppendIsConcat
<1>4. (w \o q) \o <<e>> = w \o (q \o <<e>>)
  BY <1>1, ConcatAssociative
<1> QED
  BY <1>1, <1>2, <1>3, <1>4

-----------------------------------------------------------------------------
(* Initial states, and the streams a step is not about.                    *)

LEMMA InitRelay == Init => RelayInv
<1> SUFFICES ASSUME Init  PROVE RelayInv
  OBVIOUS
<1>1. TypeOK
  BY BoundsAssumption DEF Init, TypeOK
<1>2. ASSUME NEW s \in Streams  PROVE StreamInv(s)
  <2>1. Upstream(s) = <<>>
    BY EmptySeq, ConcatEmptySeq DEF Init, Upstream
  <2>2. UpstreamInv(s)
    BY <2>1 DEF Init, UpstreamInv, InOrder, Accounted, Arriving, WriterDone
  <2> QED
    BY <2>2 DEF Init, StreamInv, Phases, Registered, DownstreamInv, Answers, ReadInOrder,
                ReaderDone, Allowed
<1> QED
  BY <1>1, <1>2 DEF RelayInv

\* What a step leaves of a stream.
Untouched(u) ==
    /\ u \in active_socks_streams' <=> u \in active_socks_streams
    /\ u \in peerClosed' <=> u \in peerClosed
    /\ queue'[u] = queue[u] /\ task'[u] = task[u]
    /\ reader'[u] = reader[u] /\ writer'[u] = writer[u]
    /\ chan'[u] = chan[u] /\ toPeer'[u] = toPeer[u]
    /\ up'[u] = up[u] /\ dropped'[u] = dropped[u] /\ written'[u] = written[u]
    /\ down'[u] = down[u] /\ taken'[u] = taken[u]
    /\ target'[u] = target[u] /\ contacted'[u] = contacted[u]

\* A step that leaves what arrives alone keeps the upstream part, as long as it
\* revives nothing.
LEMMA UpstreamKept ==
    ASSUME NEW u \in Streams, StreamInv(u),
           queue'[u] = queue[u], written'[u] = written[u],
           up'[u] = up[u], dropped'[u] = dropped[u],
           Relayed(u)' => Relayed(u),
           task[u] = "done" => task'[u] = "done",
           writer'[u] = "ended" => writer[u] = "ended",
           (u \in active_socks_streams)' /\ writer[u] = "ended" => u \in active_socks_streams,
           target'[u] # "broken" => target[u] # "broken"
    PROVE  UpstreamInv(u)'
<1>1. Upstream(u)' = Upstream(u)
  BY DEF Upstream
<1> QED
  BY <1>1 DEF StreamInv, UpstreamInv, InOrder, Accounted, Arriving, WriterDone

LEMMA OthersKept ==
    ASSUME RelayInv, TypeOK', NEW s \in Streams, StreamInv(s)',
           \A u \in Streams \ {s} : Untouched(u)
    PROVE  RelayInv'
<1>1. ASSUME NEW u \in Streams, u # s  PROVE StreamInv(u)'
  <2>1. StreamInv(u) /\ Untouched(u)
    BY <1>1 DEF RelayInv
  <2>2. UpstreamInv(u)'
    BY <2>1, UpstreamKept DEF Untouched, Relayed
  <2>3. Phases(u)' /\ Registered(u)' /\ Allowed(u)'
    BY <2>1 DEF StreamInv, Untouched, Phases, Registered, Allowed
  <2>4. DownstreamInv(u)'
    BY <2>1, ZenonT(40) DEF StreamInv, Untouched, DownstreamInv, Answers, ReadInOrder, ReaderDone
  <2> QED
    BY <2>2, <2>3, <2>4 DEF StreamInv
<1> QED
  BY <1>1 DEF RelayInv

-----------------------------------------------------------------------------
(* The message handler.                                                    *)

LEMMA RequestKeeps ==
    ASSUME RelayInv, NEW s \in Streams, SocksConnectRequest(s)
    PROVE  RelayInv'
<1> USE DEF RelayInv, SocksConnectRequest, Register, peer, ends
<1>1. TypeOK'
  BY DEF TypeOK
<1>2. \A u \in Streams \ {s} : Untouched(u)
  BY DEF TypeOK, Untouched
<1>3. task'[s] = "connecting"
  BY DEF TypeOK
<1>4. Phases(s)' /\ Registered(s)' /\ Allowed(s)'
  BY <1>3 DEF StreamInv, Phases, Registered, Allowed
<1>5. UpstreamInv(s)'
  BY <1>3, UpstreamKept DEF Relayed, StreamInv, Phases
<1>6. DownstreamInv(s)'
  BY <1>3 DEF StreamInv, DownstreamInv, Answers, ReadInOrder, ReaderDone
<1> QED
  BY <1>1, <1>2, <1>4, <1>5, <1>6, OthersKept DEF StreamInv

\* A block that is queued arrives after all the others, one that is refused
\* does not arrive at all.
LEMMA QueuedInOrder ==
    ASSUME NEW s \in Streams, NEW k \in Nat, Upstream(s) \in Seq(Nat),
           InOrder(s), up[s] \in Nat, up'[s] = k, k = up[s] + 1, UNCHANGED dropped,
           dropped[s] \subseteq Nat,
           Upstream(s)' = Append(Upstream(s), k)
    PROVE  InOrder(s)' /\ Arriving(s)' = Arriving(s) \cup {k}
<1> DEFINE a == Upstream(s)
           n == Len(a)
<1>1. /\ Len(a') = n + 1
      /\ \A i \in 1 .. n : a'[i] = a[i]
      /\ a'[n + 1] = k
  BY AppendProperties
<1>2. n \in Nat /\ \A i \in 1 .. n : a[i] \in Nat /\ a[i] <= up[s]
  BY LenProperties, ElementOfSeq DEF InOrder
<1>3. /\ \A i, j \in 1 .. n : i < j => a[i] < a[j]
      /\ \A i \in dropped[s] : i <= up[s] /\ i \in Nat
  BY DEF InOrder
<1> HIDE DEF a, n
<1>4. ASSUME NEW i \in 1 .. n + 1, NEW j \in 1 .. n + 1, i < j  PROVE a'[i] < a'[j]
  <2>1. CASE j = n + 1
    BY <1>1, <1>2, <1>4, <2>1, SMTT(30)
  <2>2. CASE j # n + 1
    BY <1>1, <1>2, <1>3, <1>4, <2>2
  <2> QED
    BY <2>1, <2>2
<1>5. \A i \in 1 .. n + 1 : i = n + 1 \/ i \in 1 .. n
  BY <1>2
<1>6. (\A i \in 1 .. n + 1 : a'[i] <= k) /\ \A i \in dropped'[s] : i <= k
  <2>1. \A i \in 1 .. n : a'[i] <= k
    BY <1>1, <1>2, SMTT(30)
  <2>2. \A i \in 1 .. n + 1 : a'[i] <= k
    BY <1>1, <1>5, <2>1
  <2>3. \A i \in dropped'[s] : i <= k
    BY <1>3
  <2> QED
    BY <2>2, <2>3
<1>7. InOrder(s)'
  BY <1>1, <1>4, <1>6 DEF InOrder, a
<1>8. Arriving(s)' = {a'[i] : i \in 1 .. n + 1} /\ Arriving(s) = {a[i] : i \in 1 .. n}
  BY <1>1 DEF Arriving, a, n
<1>9. {a'[i] : i \in 1 .. n + 1} = {a[i] : i \in 1 .. n} \cup {k}
  <2>1. \A i \in 1 .. n + 1 : a'[i] \in {a[j] : j \in 1 .. n} \cup {k}
    BY <1>1, <1>5
  <2>2. \A j \in 1 .. n : j \in 1 .. n + 1 /\ a[j] = a'[j]
    BY <1>1, <1>2
  <2>3. n + 1 \in 1 .. n + 1
    BY <1>2
  <2> QED
    BY <1>1, <2>1, <2>2, <2>3
<1> QED
  BY <1>7, <1>8, <1>9

\* Blocks that do not arrive leave the order alone.
LEMMA LateInOrder ==
    ASSUME NEW s \in Streams, NEW k \in Nat, Upstream(s) \in Seq(Nat),
           InOrder(s), up[s] \in Nat, up'[s] = k, k = up[s] + 1,
           dropped[s] \subseteq Nat, dropped'[s] \subseteq dropped[s] \cup {k},
           Upstream(s)' = Upstream(s)
    PROVE  InOrder(s)'
<1>1. \A i \in 1 .. Len(Upstream(s)) : Upstream(s)[i] \in Nat /\ Upstream(s)[i] <= up[s]
  BY ElementOfSeq DEF InOrder
<1>2. \A i \in dropped'[s] : i <= k
  BY DEF InOrder
<1>3. \A i \in 1 .. Len(Upstream(s)) : Upstream(s)[i] <= k
  BY <1>1
<1> QED
  BY <1>2, <1>3 DEF InOrder

\* A block from the peer is queued, or refused, or too late to matter.
LEMMA DataKeeps ==
    ASSUME RelayInv, NEW s \in Streams, SocksData(s)
    PROVE  RelayInv'
<1> USE DEF RelayInv
<1> DEFINE k == up[s] + 1
<1>1. /\ task[s] # "none" /\ s \notin peerClosed
      /\ UNCHANGED <<active_socks_streams, task, reader, writer, chan, toPeer,
                     peerClosed, written, ends>>
      /\ up[s] < MaxUp /\ up' = [up EXCEPT ![s] = k]
  BY DEF SocksData
<1>2. /\ up[s] \in Nat /\ k \in Nat /\ k \in 1 .. MaxUp /\ up'[s] = k
      /\ up' \in [Streams -> 0 .. MaxUp]
      /\ 1 .. MaxUp \subseteq Nat
  BY <1>1, BoundsAssumption, SMTT(30) DEF TypeOK
<1>3. \/ /\ s \in active_socks_streams
         /\ Len(queue[s]) < QueueCap /\ ReceiverAlive(s)
         /\ queue' = [queue EXCEPT ![s] = Append(@, k)]
         /\ UNCHANGED dropped
      \/ /\ s \in active_socks_streams
         /\ dropped' = [dropped EXCEPT ![s] = @ \cup {k}]
         /\ UNCHANGED queue
      \/ s \notin active_socks_streams /\ UNCHANGED <<queue, dropped>>
  BY DEF SocksData, QueueHasRoom
<1> HIDE DEF k
<1>4. /\ written[s] \in Seq(1 .. MaxUp) /\ queue[s] \in Seq(1 .. MaxUp)
      /\ dropped[s] \in SUBSET (1 .. MaxUp) /\ dropped[s] \subseteq Nat
      /\ queue \in [Streams -> Seq(1 .. MaxUp)] /\ dropped \in [Streams -> SUBSET (1 .. MaxUp)]
      /\ \A u \in Streams : Len(queue[u]) \in Nat /\ Len(queue[u]) <= QueueCap
  BY <1>2, LenProperties DEF TypeOK
<1>5. TypeOK'
  <2>1. queue' \in [Streams -> Seq(1 .. MaxUp)] /\ \A u \in Streams : Len(queue'[u]) <= QueueCap
    <3>1. Append(queue[s], k) \in Seq(1 .. MaxUp) /\ Len(Append(queue[s], k)) = Len(queue[s]) + 1
      BY <1>2, <1>4, AppendProperties
    <3>2. CASE Len(queue[s]) < QueueCap /\ queue' = [queue EXCEPT ![s] = Append(@, k)]
      BY <1>4, <3>1, <3>2, BoundsAssumption
    <3>3. CASE UNCHANGED queue
      BY <1>4, <3>3
    <3> QED
      BY <1>3, <3>2, <3>3
  <2>2. dropped' \in [Streams -> SUBSET (1 .. MaxUp)]
    BY <1>2, <1>3, <1>4, ZenonT(40)
  <2> QED
    BY <1>1, <1>2, <2>1, <2>2 DEF TypeOK, ends
<1>6. \A u \in Streams \ {s} : Untouched(u)
  BY <1>1, <1>3 DEF TypeOK, Untouched, ends
<1>7. Phases(s)' /\ Registered(s)' /\ Allowed(s)' /\ DownstreamInv(s)'
  BY <1>1 DEF StreamInv, Phases, Registered, Allowed, DownstreamInv, Answers, ReadInOrder,
              ReaderDone, ends
<1>8. /\ InOrder(s) /\ WriterDone(s) /\ Phases(s) /\ Registered(s)
      /\ Relayed(s) /\ target[s] # "broken" => Arriving(s) = 1 .. up[s] \ dropped[s]
  BY DEF StreamInv, UpstreamInv, Accounted
<1>9. Upstream(s) \in Seq(Nat)
  BY <1>2, <1>4, QueueingExtendsUpstream, SeqMonotonic DEF Upstream
<1>10. /\ Relayed(s)' <=> Relayed(s)
       /\ target'[s] = target[s] /\ task'[s] = task[s] /\ writer'[s] = writer[s]
  BY <1>1 DEF Relayed, ends
<1>11. UpstreamInv(s)'
  <2>1. CASE /\ s \in active_socks_streams /\ ReceiverAlive(s)
             /\ queue' = [queue EXCEPT ![s] = Append(@, k)]
             /\ UNCHANGED dropped
    <3>1. Upstream(s)' = Append(Upstream(s), k)
      <4>1. queue'[s] = Append(queue[s], k) /\ written'[s] = written[s]
        BY <1>1, <1>4, <2>1
      <4>2. written[s] \o Append(queue[s], k) = Append(written[s] \o queue[s], k)
        <5> DEFINE w == written[s]
                   q == queue[s]
        <5>1. k \in 1 .. MaxUp /\ w \in Seq(1 .. MaxUp) /\ q \in Seq(1 .. MaxUp)
          BY <1>2, <1>4
        <5> HIDE DEF w, q
        <5>2. w \o Append(q, k) = Append(w \o q, k)
          BY <5>1, QueueingExtendsUpstream
        <5> QED
          BY <5>2 DEF w, q
      <4> QED
        BY <4>1, <4>2 DEF Upstream
    <3>2. InOrder(s)' /\ Arriving(s)' = Arriving(s) \cup {k}
      BY <1>2, <1>4, <1>8, <1>9, <2>1, <3>1, QueuedInOrder DEF k
    <3>3. k \notin dropped[s]
      BY <1>2, <1>4, <1>8 DEF InOrder, k
    <3>4. (1 .. up[s] \ dropped[s]) \cup {k} = 1 .. k \ dropped[s]
      BY <1>2, <3>3 DEF k
    <3>5. Accounted(s)'
      BY <1>2, <1>8, <1>10, <2>1, <3>2, <3>4 DEF Accounted
    <3>6. writer[s] # "ended"
      BY <1>8, <2>1 DEF ReceiverAlive, Phases
    <3> QED
      BY <1>10, <3>2, <3>5, <3>6 DEF UpstreamInv, WriterDone
  <2>2. CASE /\ s \in active_socks_streams
             /\ dropped' = [dropped EXCEPT ![s] = @ \cup {k}]
             /\ UNCHANGED queue
    <3>1. dropped'[s] = dropped[s] \cup {k}
      BY <1>4, <2>2
    <3>2. Upstream(s)' = Upstream(s) /\ Arriving(s)' = Arriving(s)
      BY <1>1, <2>2 DEF Upstream, Arriving
    <3>3. InOrder(s)'
      BY <1>2, <1>4, <1>8, <1>9, <3>1, <3>2, LateInOrder DEF k
    <3>4. 1 .. k \ (dropped[s] \cup {k}) = 1 .. up[s] \ dropped[s]
      BY <1>2 DEF k
    <3>5. Accounted(s)'
      BY <1>2, <1>8, <1>10, <3>1, <3>2, <3>4 DEF Accounted
    <3> QED
      BY <1>1, <1>8, <1>10, <2>2, <3>3, <3>5 DEF UpstreamInv, WriterDone
  <2>3. CASE s \notin active_socks_streams /\ UNCHANGED <<queue, dropped>>
    <3>1. ~Relayed(s)
      BY <1>1, <1>8, <2>3 DEF Registered, Relayed, TypeOK
    <3>2. Upstream(s)' = Upstream(s)
      BY <1>1, <2>3 DEF Upstream
    <3>3. InOrder(s)'
      BY <1>2, <1>4, <1>8, <1>9, <2>3, <3>2, LateInOrder DEF k
    <3> QED
      BY <1>1, <1>8, <1>10, <2>3, <3>1, <3>3 DEF UpstreamInv, Accounted, WriterDone
  <2> QED
    BY <1>3, <2>1, <2>2, <2>3
<1> QED
  BY <1>5, <1>6, <1>7, <1>11, OthersKept DEF StreamInv

LEMMA CloseKeeps ==
    ASSUME RelayInv, NEW s \in Streams, SocksClose(s)
    PROVE  RelayInv'
<1> USE DEF RelayInv, SocksClose, ends
<1>1. TypeOK'
  BY DEF TypeOK
<1>2. \A u \in Streams \ {s} : Untouched(u)
  BY DEF Untouched
<1>3. Phases(s)' /\ Registered(s)' /\ Allowed(s)' /\ DownstreamInv(s)'
  BY DEF StreamInv, Phases, Registered, Allowed, DownstreamInv, Answers, ReadInOrder, ReaderDone
<1>4. UpstreamInv(s)'
  BY UpstreamKept DEF Relayed
<1> QED
  BY <1>1, <1>2, <1>3, <1>4, OthersKept DEF StreamInv

-----------------------------------------------------------------------------
(* The relaying task.                                                      *)

\* A queue that loses what it holds leaves what was written in order.
LEMMA EmptiedInOrder ==
    ASSUME NEW s \in Streams, InOrder(s), written[s] \in Seq(Nat), queue[s] \in Seq(Nat),
           queue'[s] = <<>>, written'[s] = written[s],
           up'[s] = up[s], dropped'[s] = dropped[s]
    PROVE  InOrder(s)'
<1> DEFINE w == written[s]
           q == queue[s]
<1>1. w \in Seq(Nat) /\ q \in Seq(Nat) /\ Len(w) \in Nat /\ Len(q) \in Nat
  BY LenProperties
<1>2. Upstream(s) = w \o q
  BY DEF Upstream
<1>3. Upstream(s)' = w
  BY <1>1, ConcatEmptySeq DEF Upstream
<1> HIDE DEF w, q
<1>4. /\ Len(w \o q) = Len(w) + Len(q)
      /\ \A i \in 1 .. Len(w) + Len(q) : (w \o q)[i] = IF i <= Len(w) THEN w[i] ELSE q[i - Len(w)]
  BY <1>1, ConcatProperties
<1>5. \A i \in 1 .. Len(w) : i \in 1 .. Len(Upstream(s)) /\ Upstream(s)[i] = w[i]
  BY <1>1, <1>2, <1>4
<1> QED
  BY <1>3, <1>5 DEF InOrder

\* The connection was refused: nothing is relayed.
LEMMA FailureKeeps ==
    ASSUME RelayInv, NEW s \in Streams, ConnectFails(s)
    PROVE  RelayInv'
<1> USE DEF RelayInv, ConnectFails, AnswerFailure, Tell, peer, ends
<1>1. TypeOK'
  <2>1. Append(toPeer[s], Refused) \in Seq((1 .. MaxDown) \cup {Accepted, Refused, Closed})
    BY AppendProperties DEF TypeOK
  <2>2. toPeer' \in [Streams -> Seq((1 .. MaxDown) \cup {Accepted, Refused, Closed})]
    BY <2>1 DEF TypeOK
  <2>3. /\ queue' \in [Streams -> Seq(1 .. MaxUp)]
        /\ \A u \in Streams : Len(queue'[u]) <= QueueCap
    BY BoundsAssumption DEF TypeOK
  <2> QED
    BY <2>2, <2>3 DEF TypeOK
<1>2. \A u \in Streams \ {s} : Untouched(u)
  BY DEF TypeOK, Untouched
<1>3. task'[s] = "cleaning" /\ task[s] = "connecting" /\ writer[s] = "none" /\ queue'[s] = <<>>
  BY DEF TypeOK, StreamInv, Phases
<1>4. Phases(s)' /\ Registered(s)' /\ Allowed(s)'
  BY <1>3 DEF StreamInv, Phases, Registered, Allowed
<1>5. UpstreamInv(s)'
  <2>1. written[s] \in Seq(Nat) /\ queue[s] \in Seq(Nat)
    BY BoundsAssumption, SeqMonotonic DEF TypeOK
  <2>2. InOrder(s)'
    BY <1>3, <2>1, EmptiedInOrder DEF StreamInv, UpstreamInv
  <2> QED
    BY <1>3, <2>2 DEF UpstreamInv, Accounted, Relayed, WriterDone
<1>6. DownstreamInv(s)'
  BY <1>3 DEF StreamInv, DownstreamInv, Answers, ReadInOrder, ReaderDone
<1> QED
  BY <1>1, <1>2, <1>4, <1>5, <1>6, OthersKept DEF StreamInv

\* A connection goes to an address that was let through.
LEMMA SuccessKeeps ==
    ASSUME RelayInv, NEW s \in Streams, NEW resolved \in SUBSET Addresses,
           NEW addr \in Addresses, ConnectSucceeds(s, resolved, addr)
    PROVE  RelayInv'
<1> USE DEF RelayInv, ConnectSucceeds, peer
<1>1. TypeOK'
  BY DEF TypeOK
<1>2. \A u \in Streams \ {s} : Untouched(u)
  BY DEF TypeOK, Untouched
<1>3. /\ task[s] = "connecting" /\ task'[s] = "answering"
      /\ writer[s] = "none" /\ writer'[s] = "running" /\ reader'[s] = "running"
  BY DEF TypeOK, StreamInv, Phases
<1>4. Phases(s)' /\ Registered(s)'
  BY <1>3 DEF StreamInv, Phases, Registered
<1>5. Allowed(s)'
  <2>1. contacted'[s] = contacted[s] \cup {addr}
    BY DEF TypeOK
  <2>2. AllowsLocalNetwork(s) \/ ~IsLocalTarget(addr)
    BY DEF ResolveAllowed
  <2> QED
    BY <2>1, <2>2 DEF StreamInv, Allowed
<1>6. UpstreamInv(s)'
  BY <1>3, UpstreamKept DEF Relayed
<1>7. DownstreamInv(s)'
  <2>1. taken[s] = 0 /\ Len(chan[s]) <= 0 /\ Len(chan[s]) \in Nat
    BY <1>3, LenProperties DEF TypeOK, StreamInv, DownstreamInv, ReadInOrder
  <2>2. Answers(s)' /\ ReaderDone(s)'
    BY <1>3 DEF StreamInv, DownstreamInv, Answers, ReaderDone
  <2>3. ReadInOrder(s)'
    <3>1. ReadInOrder(s) /\ UNCHANGED <<chan, taken, down>> /\ Len(chan[s]) = taken[s]
      BY <2>1 DEF StreamInv, DownstreamInv
    <3> QED
      BY <1>3, <3>1 DEF ReadInOrder
  <2> QED
    BY <2>2, <2>3 DEF DownstreamInv
<1> QED
  BY <1>1, <1>2, <1>4, <1>5, <1>6, <1>7, OthersKept DEF StreamInv

LEMMA AnswerKeeps ==
    ASSUME RelayInv, NEW s \in Streams, AnswerPeer(s)
    PROVE  RelayInv'
<1> USE DEF RelayInv, AnswerPeer, Tell, peer, ends
<1>1. TypeOK'
  <2>1. Append(toPeer[s], Accepted) \in Seq((1 .. MaxDown) \cup {Accepted, Refused, Closed})
    BY AppendProperties DEF TypeOK
  <2> QED
    BY <2>1 DEF TypeOK
<1>2. \A u \in Streams \ {s} : Untouched(u)
  BY DEF TypeOK, Untouched
<1>3. task[s] = "answering" /\ task'[s] = "relaying"
  BY DEF TypeOK
<1>4. Phases(s)' /\ Registered(s)' /\ Allowed(s)'
  BY <1>3 DEF StreamInv, Phases, Registered, Allowed
<1>5. UpstreamInv(s)'
  BY <1>3, UpstreamKept DEF Relayed
<1>6. DownstreamInv(s)'
  <2>1. toPeer[s] = <<>> /\ Len(chan[s]) = taken[s]
    BY <1>3 DEF StreamInv, DownstreamInv, Answers, ReadInOrder
  <2>2. toPeer'[s] = <<Accepted>>
    BY <2>1 DEF TypeOK
  <2>3. Answers(s)'
    BY <1>3, <2>2 DEF Answers
  <2>4. ReadInOrder(s)'
    BY <1>3, <2>1, <2>2 DEF StreamInv, DownstreamInv, ReadInOrder, TypeOK
  <2> QED
    BY <2>3, <2>4 DEF StreamInv, DownstreamInv, ReaderDone
<1> QED
  BY <1>1, <1>2, <1>4, <1>5, <1>6, OthersKept DEF StreamInv

\* The block a peer is sent next follows the one it was sent last.
LEMMA NextBlock ==
    ASSUME TypeOK, NEW s \in Streams, ReadInOrder(s), task[s] = "relaying", chan[s] # <<>>
    PROVE  /\ Head(chan[s]) = Len(toPeer[s])
           /\ Len(toPeer[s]) \in Nat /\ Len(toPeer[s]) <= taken[s]
           /\ Head(chan[s]) \in 1 .. MaxDown
           /\ Len(chan[s]) \in Nat \ {0}
           /\ Tail(chan[s]) \in Seq(1 .. MaxDown)
           /\ Len(Tail(chan[s])) = Len(chan[s]) - 1
           /\ \A i \in 1 .. Len(Tail(chan[s])) : Tail(chan[s])[i] = chan[s][i + 1]
<1> DEFINE c == chan[s]
<1>1. c \in Seq(1 .. MaxDown) /\ c # <<>> /\ taken[s] \in Nat
  BY BoundsAssumption DEF TypeOK
<1>2. /\ taken[s] = Len(toPeer[s]) - 1 + Len(c)
      /\ Len(c) <= taken[s]
      /\ \A i \in 1 .. Len(c) : c[i] = taken[s] - Len(c) + i
  BY DEF ReadInOrder
<1>3. toPeer[s] \in Seq((1 .. MaxDown) \cup {Accepted, Refused, Closed})
  BY DEF TypeOK
<1>4. Len(toPeer[s]) \in Nat
  BY <1>3, LenProperties
<1> HIDE DEF c
<1>5. /\ Head(c) \in 1 .. MaxDown /\ Tail(c) \in Seq(1 .. MaxDown)
      /\ Len(Tail(c)) = Len(c) - 1
      /\ \A i \in 1 .. Len(Tail(c)) : Tail(c)[i] = c[i + 1]
  BY <1>1, HeadTailProperties
<1>6. Len(c) \in Nat \ {0} /\ Head(c) = c[1]
  BY <1>1, LenProperties, EmptySeq
<1>7. Head(c) = Len(toPeer[s]) /\ Len(toPeer[s]) <= taken[s]
  BY <1>1, <1>2, <1>4, <1>6
<1> QED
  BY <1>4, <1>5, <1>6, <1>7 DEF c

LEMMA RelayKeeps ==
    ASSUME RelayInv, NEW s \in Streams, RelayToPeer(s)
    PROVE  RelayInv'
<1> USE DEF RelayInv, RelayToPeer, Tell, peer, ends
<1> DEFINE n == Len(toPeer[s])
<1>1. /\ TypeOK /\ task[s] = "relaying" /\ task' = task /\ chan[s] # <<>>
      /\ Answers(s) /\ ReadInOrder(s)
  BY DEF StreamInv, DownstreamInv
<1>2. /\ Head(chan[s]) = n /\ n \in Nat /\ n <= taken[s]
      /\ Head(chan[s]) \in 1 .. MaxDown
      /\ Len(chan[s]) \in Nat \ {0}
      /\ Tail(chan[s]) \in Seq(1 .. MaxDown)
      /\ Len(Tail(chan[s])) = Len(chan[s]) - 1
      /\ \A i \in 1 .. Len(Tail(chan[s])) : Tail(chan[s])[i] = chan[s][i + 1]
  BY <1>1, NextBlock
<1>3. /\ toPeer[s] \in Seq((1 .. MaxDown) \cup {Accepted, Refused, Closed})
      /\ toPeer'[s] = Append(toPeer[s], Head(chan[s])) /\ chan'[s] = Tail(chan[s])
  BY DEF TypeOK
<1>4. /\ toPeer'[s] \in Seq((1 .. MaxDown) \cup {Accepted, Refused, Closed})
      /\ Len(toPeer'[s]) = n + 1 /\ toPeer'[s][n + 1] = n
      /\ \A i \in 1 .. n : toPeer'[s][i] = toPeer[s][i]
  BY <1>2, <1>3, AppendProperties
<1>5. TypeOK'
  <2>1. toPeer' \in [Streams -> Seq((1 .. MaxDown) \cup {Accepted, Refused, Closed})]
    BY <1>3, <1>4 DEF TypeOK
  <2>2. chan' \in [Streams -> Seq(1 .. MaxDown)]
    BY <1>2 DEF TypeOK
  <2>3. ASSUME NEW u \in Streams  PROVE Len(chan'[u]) <= ChanCap
    BY <1>2, BoundsAssumption DEF TypeOK
  <2> QED
    BY <2>1, <2>2, <2>3 DEF TypeOK
<1>6. \A u \in Streams \ {s} : Untouched(u)
  BY DEF TypeOK, Untouched
<1>7. Phases(s)' /\ Registered(s)' /\ Allowed(s)'
  BY DEF StreamInv, Phases, Registered, Allowed
<1>8. UpstreamInv(s)'
  BY UpstreamKept DEF Relayed
<1>9. DownstreamInv(s)'
  <2>1. n # 0
    BY <1>1, <1>3, EmptySeq DEF Answers
  <2>2. Answers(s)'
    <3>1. toPeer'[s][1] = Accepted
      BY <1>1, <1>2, <1>4, <2>1 DEF Answers
    <3>2. ASSUME NEW i \in 2 .. n + 1  PROVE toPeer'[s][i] = i - 1
      <4>1. CASE i = n + 1
        BY <1>2, <1>4, <4>1
      <4>2. CASE i # n + 1
        BY <1>1, <1>2, <1>4, <4>2 DEF Answers
      <4> QED
        BY <4>1, <4>2
    <3>3. toPeer'[s] # <<>>
      BY <1>2, <1>4, EmptySeq
    <3> QED
      BY <1>1, <1>4, <3>1, <3>2, <3>3 DEF Answers
  <2>3. ReadInOrder(s)'
    <3> DEFINE c == chan[s]
               d == chan'[s]
               m == Len(c)
    <3>1. taken[s] \in Nat /\ down[s] \in Nat /\ taken'[s] = taken[s] /\ down'[s] = down[s]
      BY BoundsAssumption DEF TypeOK
    <3>2. m \in Nat \ {0} /\ Len(d) = m - 1 /\ \A i \in 1 .. Len(d) : d[i] = c[i + 1]
      BY <1>2, <1>3
    <3>3. /\ taken[s] <= down[s] /\ m <= taken[s] /\ n - 1 + m = taken[s]
          /\ \A i \in 1 .. m : c[i] = taken[s] - m + i
      BY <1>1 DEF ReadInOrder
    <3> HIDE DEF c, d, m
    <3>4. \A i \in 1 .. Len(d) : i + 1 \in 1 .. m
      BY <3>2
    <3>5. ASSUME NEW i \in 1 .. Len(d)  PROVE d[i] = taken[s] - Len(d) + i
      <4>1. d[i] = c[i + 1] /\ i + 1 \in 1 .. m
        BY <3>2, <3>4
      <4>2. d[i] = taken[s] - m + (i + 1)
        BY <3>3, <4>1
      <4>3. Len(d) = m - 1 /\ m \in Nat /\ taken[s] \in Nat
        BY <3>1, <3>2
      <4>4. i \in Int
        BY <4>3
      <4>5. taken[s] - m + (i + 1) = taken[s] - Len(d) + i
        BY <4>3, <4>4, SMTT(30)
      <4> QED
        BY <4>2, <4>5
    <3>6. Len(d) <= taken[s] /\ n + 1 - 1 + Len(d) = taken[s]
      BY <1>2, <3>1, <3>2, <3>3
    <3>7. task'[s] = "relaying" /\ Len(toPeer'[s]) = n + 1
      BY <1>1, <1>4
    <3>8. Len(toPeer'[s]) - 1 + Len(d) = taken[s]
      BY <3>6, <3>7
    <3>9. taken'[s] <= down'[s]
      BY <3>1, <3>3
    <3> QED
      BY <3>1, <3>5, <3>6, <3>7, <3>8, <3>9 DEF ReadInOrder, d
  <2> QED
    BY <2>2, <2>3 DEF StreamInv, DownstreamInv, ReaderDone
<1> QED
  BY <1>5, <1>6, <1>7, <1>8, <1>9, OthersKept DEF StreamInv

LEMMA EndKeeps ==
    ASSUME RelayInv, NEW s \in Streams, RelayEnds(s)
    PROVE  RelayInv'
<1> USE DEF RelayInv, RelayEnds, Tell, peer, ends
<1>1. TypeOK'
  <2>1. Append(toPeer[s], Closed) \in Seq((1 .. MaxDown) \cup {Accepted, Refused, Closed})
    BY AppendProperties DEF TypeOK
  <2> QED
    BY <2>1 DEF TypeOK
<1>2. \A u \in Streams \ {s} : Untouched(u)
  BY DEF TypeOK, Untouched
<1>3. task[s] = "relaying" /\ task'[s] = "cleaning"
  BY DEF TypeOK
<1>4. Phases(s)' /\ Registered(s)' /\ Allowed(s)'
  BY <1>3 DEF StreamInv, Phases, Registered, Allowed
<1>5. UpstreamInv(s)'
  BY <1>3, UpstreamKept DEF Relayed
<1>6. DownstreamInv(s)'
  BY <1>3 DEF StreamInv, DownstreamInv, Answers, ReadInOrder, ReaderDone
<1> QED
  BY <1>1, <1>2, <1>4, <1>5, <1>6, OthersKept DEF StreamInv

LEMMA CleanUpKeeps ==
    ASSUME RelayInv, NEW s \in Streams, CleanUp(s)
    PROVE  RelayInv'
<1> USE DEF RelayInv, CleanUp, Forget, peer, ends
<1>1. TypeOK'
  BY DEF TypeOK
<1>2. \A u \in Streams \ {s} : Untouched(u)
  BY DEF TypeOK, Untouched
<1>3. task[s] = "cleaning" /\ task'[s] = "done" /\ s \notin active_socks_streams'
  BY DEF TypeOK
<1>4. Phases(s)' /\ Registered(s)' /\ Allowed(s)'
  BY <1>3 DEF StreamInv, Phases, Registered, Allowed
<1>5. UpstreamInv(s)'
  BY <1>3, UpstreamKept DEF Relayed
<1>6. DownstreamInv(s)'
  BY <1>3 DEF StreamInv, DownstreamInv, Answers, ReadInOrder, ReaderDone
<1> QED
  BY <1>1, <1>2, <1>4, <1>5, <1>6, OthersKept DEF StreamInv

-----------------------------------------------------------------------------
(* The reading and the writing task, and the target.                       *)

LEMMA ReadKeeps ==
    ASSUME RelayInv, NEW s \in Streams, ReaderReads(s)
    PROVE  RelayInv'
<1> USE DEF RelayInv, ReaderReads, peer
<1> DEFINE k == taken[s] + 1
           c == chan[s]
           d == chan'[s]
           m == Len(c)
<1>1. /\ taken[s] \in Nat /\ down[s] \in Nat /\ k \in 1 .. MaxDown
      /\ taken'[s] = k /\ down'[s] = down[s] /\ taken[s] < down[s]
  BY BoundsAssumption DEF TypeOK
<1>2. c \in Seq(1 .. MaxDown) /\ d = Append(c, k)
  BY DEF TypeOK
<1>3. writer[s] # "none" /\ reader[s] = "running"
  BY DEF StreamInv, Phases
<1> HIDE DEF k, c, d, m
<1>4. /\ d \in Seq(1 .. MaxDown) /\ m \in Nat /\ Len(d) = m + 1
      /\ (\A i \in 1 .. m : d[i] = c[i]) /\ d[m + 1] = k
  BY <1>1, <1>2, AppendProperties, LenProperties DEF m
<1>5. TypeOK'
  <2>1. chan' \in [Streams -> Seq(1 .. MaxDown)]
    BY <1>4 DEF TypeOK, d
  <2>2. taken' \in [Streams -> 0 .. MaxDown]
    BY <1>1 DEF TypeOK, k
  <2>3. ASSUME NEW u \in Streams  PROVE Len(chan'[u]) <= ChanCap
    <3>1. CASE u = s
      BY <3>1, <1>4, BoundsAssumption DEF d, m, c
    <3>2. CASE u # s
      BY <3>2 DEF TypeOK
    <3> QED
      BY <3>1, <3>2
  <2> QED
    BY <2>1, <2>2, <2>3 DEF TypeOK
<1>6. \A u \in Streams \ {s} : Untouched(u)
  BY DEF TypeOK, Untouched
<1>7. Phases(s)' /\ Registered(s)' /\ Allowed(s)'
  BY DEF StreamInv, Phases, Registered, Allowed
<1>8. UpstreamInv(s)'
  BY UpstreamKept DEF Relayed
<1>9. DownstreamInv(s)'
  <2>1. Answers(s)' /\ ReaderDone(s)'
    BY <1>3 DEF StreamInv, DownstreamInv, Answers, ReaderDone
  <2>2. ReadInOrder(s)'
    <3>1. /\ m <= taken[s] /\ \A i \in 1 .. m : c[i] = taken[s] - m + i
          /\ task[s] \notin {"none", "connecting"}
          /\ task[s] = "answering" => m = taken[s]
          /\ task[s] = "relaying" => Len(toPeer[s]) - 1 + m = taken[s]
      BY <1>3 DEF StreamInv, Phases, DownstreamInv, ReadInOrder, m, c
    <3>2. ASSUME NEW i \in 1 .. m + 1  PROVE d[i] = k - (m + 1) + i
      <4>1. CASE i = m + 1
        BY <1>1, <1>4, <4>1 DEF k
      <4>2. CASE i # m + 1
        BY <1>1, <1>4, <3>1, <4>2 DEF k
      <4> QED
        BY <4>1, <4>2
    <3>3. k <= down[s] /\ m + 1 <= k
      BY <1>1, <1>4, <3>1 DEF k
    <3>4. Len(toPeer[s]) \in Nat
      BY LenProperties DEF TypeOK
    <3>5. /\ task[s] = "answering" => m + 1 = k
          /\ task[s] = "relaying" => Len(toPeer[s]) - 1 + (m + 1) = k
      <4> DEFINE l == Len(toPeer[s])
      <4>1. l \in Nat /\ (task[s] = "relaying" => l - 1 + m = taken[s])
        BY <3>1, <3>4
      <4> HIDE DEF l
      <4>2. task[s] = "relaying" => l - 1 + (m + 1) = taken[s] + 1
        BY <1>1, <1>4, <4>1
      <4> QED
        BY <3>1, <4>2 DEF k, l
    <3>6. task' = task /\ toPeer' = toPeer
      OBVIOUS
    <3> QED
      BY <1>1, <1>4, <3>1, <3>2, <3>3, <3>5, <3>6 DEF ReadInOrder, d
  <2> QED
    BY <2>1, <2>2 DEF DownstreamInv
<1> QED
  BY <1>5, <1>6, <1>7, <1>8, <1>9, OthersKept DEF StreamInv

LEMMA ReadEndKeeps ==
    ASSUME RelayInv, NEW s \in Streams, ReaderEnds(s)
    PROVE  RelayInv'
<1> USE DEF RelayInv, ReaderEnds, peer, ends
<1>1. TypeOK'
  BY DEF TypeOK
<1>2. \A u \in Streams \ {s} : Untouched(u)
  BY DEF TypeOK, Untouched
<1>3. reader[s] = "running" /\ reader'[s] = "ended"
  BY DEF TypeOK
<1>4. Phases(s)' /\ Registered(s)' /\ Allowed(s)'
  BY <1>3 DEF StreamInv, Phases, Registered, Allowed
<1>5. UpstreamInv(s)'
  BY UpstreamKept DEF Relayed
<1>6. DownstreamInv(s)'
  BY <1>3 DEF StreamInv, DownstreamInv, Answers, ReadInOrder, ReaderDone
<1> QED
  BY <1>1, <1>2, <1>4, <1>5, <1>6, OthersKept DEF StreamInv

LEMMA WriteKeeps ==
    ASSUME RelayInv, NEW s \in Streams, WriterWrites(s)
    PROVE  RelayInv'
<1> USE DEF RelayInv, WriterWrites, peer, ends
<1> DEFINE w == written[s]
           q == queue[s]
<1>1. /\ w \in Seq(1 .. MaxUp) /\ q \in Seq(1 .. MaxUp) /\ q # <<>>
      /\ written'[s] = Append(w, Head(q)) /\ queue'[s] = Tail(q)
      /\ Upstream(s) = w \o q /\ Len(q) <= QueueCap
  BY DEF TypeOK, Upstream
<1> HIDE DEF w, q
<1>2. /\ Head(q) \in 1 .. MaxUp /\ Tail(q) \in Seq(1 .. MaxUp)
      /\ Len(q) \in Nat /\ Len(Tail(q)) = Len(q) - 1
  BY <1>1, HeadTailProperties, LenProperties
<1>3. Append(w, Head(q)) \in Seq(1 .. MaxUp)
  BY <1>1, <1>2, AppendProperties
<1>4. Append(w, Head(q)) \o Tail(q) = w \o q
  BY <1>1, WritingKeepsUpstream
<1>5. Upstream(s)' = Upstream(s)
  BY <1>1, <1>4 DEF Upstream
<1>6. TypeOK'
  <2>1. queue' \in [Streams -> Seq(1 .. MaxUp)]
    BY <1>2 DEF TypeOK, q
  <2>2. written' \in [Streams -> Seq(1 .. MaxUp)]
    BY <1>3 DEF TypeOK, q, w
  <2>3. ASSUME NEW u \in Streams  PROVE Len(queue'[u]) <= QueueCap
    <3>1. CASE u = s
      BY <3>1, <1>1, <1>2, BoundsAssumption
    <3>2. CASE u # s
      BY <3>2 DEF TypeOK
    <3> QED
      BY <3>1, <3>2
  <2> QED
    BY <2>1, <2>2, <2>3 DEF TypeOK
<1>7. \A u \in Streams \ {s} : Untouched(u)
  BY DEF TypeOK, Untouched
<1>8. writer[s] = "running" /\ reader[s] # "none"
  BY DEF StreamInv, Phases
<1>9. Phases(s)' /\ Registered(s)' /\ Allowed(s)' /\ DownstreamInv(s)'
  BY <1>8 DEF StreamInv, Phases, Registered, Allowed, DownstreamInv, Answers, ReadInOrder,
              ReaderDone
<1>10. UpstreamInv(s)'
  BY <1>5, <1>8 DEF StreamInv, UpstreamInv, InOrder, Accounted, Relayed, Arriving, WriterDone
<1> QED
  BY <1>6, <1>7, <1>9, <1>10, OthersKept DEF StreamInv

\* A queue is given up with data in it only once the target is gone.
LEMMA WriteEndKeeps ==
    ASSUME RelayInv, NEW s \in Streams, WriterEnds(s)
    PROVE  RelayInv'
<1> USE DEF RelayInv, WriterEnds, peer, ends
<1>1. TypeOK'
  <2>1. /\ queue' \in [Streams -> Seq(1 .. MaxUp)]
        /\ \A u \in Streams : Len(queue'[u]) <= QueueCap
    BY BoundsAssumption DEF TypeOK
  <2> QED
    BY <2>1 DEF TypeOK
<1>2. \A u \in Streams \ {s} : Untouched(u)
  BY DEF TypeOK, Untouched
<1>3. /\ writer[s] = "running" /\ writer'[s] = "ended" /\ queue'[s] = <<>>
      /\ (s \notin active_socks_streams /\ queue[s] = <<>>) \/ target[s] = "broken"
  BY DEF TypeOK, QueueEnded
<1>4. Phases(s)' /\ Registered(s)' /\ Allowed(s)' /\ DownstreamInv(s)'
  BY <1>3 DEF StreamInv, Phases, Registered, Allowed, DownstreamInv, Answers, ReadInOrder,
              ReaderDone
<1>5. UpstreamInv(s)'
  <2>1. written[s] \in Seq(Nat) /\ queue[s] \in Seq(Nat)
    BY BoundsAssumption, SeqMonotonic DEF TypeOK
  <2>2. InOrder(s)'
    BY <1>3, <2>1, EmptiedInOrder DEF StreamInv, UpstreamInv
  <2>3. Accounted(s)'
    <3>1. CASE queue[s] = <<>>
      <4>1. Upstream(s)' = Upstream(s)
        BY <1>3, <3>1 DEF Upstream
      <4> QED
        BY <1>3, <4>1 DEF StreamInv, UpstreamInv, Accounted, Arriving, Relayed
    <3>2. CASE target[s] = "broken"
      BY <3>2 DEF Accounted
    <3> QED
      BY <1>3, <3>1, <3>2
  <2> QED
    BY <1>3, <2>2, <2>3 DEF UpstreamInv, WriterDone
<1> QED
  BY <1>1, <1>2, <1>4, <1>5, OthersKept DEF StreamInv

LEMMA TargetSendKeeps ==
    ASSUME RelayInv, NEW s \in Streams, TargetSends(s)
    PROVE  RelayInv'
<1> USE DEF RelayInv, TargetSends, peer
<1>1. TypeOK'
  <2>1. down' \in [Streams -> 0 .. MaxDown]
    BY BoundsAssumption DEF TypeOK
  <2> QED
    BY <2>1 DEF TypeOK
<1>2. \A u \in Streams \ {s} : Untouched(u)
  BY DEF TypeOK, Untouched
<1>3. /\ down'[s] = down[s] + 1 /\ down[s] \in Nat /\ taken[s] \in Nat
      /\ target[s] = "open"
  BY BoundsAssumption DEF TypeOK
<1>4. Phases(s)' /\ Registered(s)' /\ Allowed(s)'
  BY DEF StreamInv, Phases, Registered, Allowed
<1>5. UpstreamInv(s)'
  BY UpstreamKept DEF Relayed
<1>6. DownstreamInv(s)'
  <2>1. Answers(s)'
    BY DEF StreamInv, DownstreamInv, Answers
  <2>2. ReadInOrder(s) /\ UNCHANGED <<task, chan, toPeer, taken>>
    BY DEF StreamInv, DownstreamInv
  <2>3. taken[s] <= down'[s]
    BY <1>3, <2>2 DEF ReadInOrder
  <2>4. ReadInOrder(s)'
    BY <2>2, <2>3 DEF ReadInOrder
  <2>5. ReaderDone(s)'
    BY <1>3 DEF StreamInv, DownstreamInv, ReaderDone
  <2> QED
    BY <2>1, <2>4, <2>5 DEF DownstreamInv
<1> QED
  BY <1>1, <1>2, <1>4, <1>5, <1>6, OthersKept DEF StreamInv

LEMMA TargetEndKeeps ==
    ASSUME RelayInv, NEW s \in Streams, NEW how \in {"finished", "broken"}, TargetEnds(s, how)
    PROVE  RelayInv'
<1> USE DEF RelayInv, TargetEnds, peer
<1>1. TypeOK'
  BY DEF TypeOK
<1>2. \A u \in Streams \ {s} : Untouched(u)
  BY DEF TypeOK, Untouched
<1>3. target'[s] = how /\ writer[s] # "none" /\ target[s] # "broken"
      /\ (target[s] = "finished" => how = "broken")
  BY DEF TypeOK
<1>4. Phases(s)' /\ Registered(s)' /\ Allowed(s)'
  BY <1>3 DEF StreamInv, Phases, Registered, Allowed
<1>5. UpstreamInv(s)'
  BY <1>3, UpstreamKept DEF Relayed
<1>6. DownstreamInv(s)'
  BY <1>3 DEF StreamInv, DownstreamInv, Answers, ReadInOrder, ReaderDone
<1> QED
  BY <1>1, <1>2, <1>4, <1>5, <1>6, OthersKept DEF StreamInv

-----------------------------------------------------------------------------
(* The theorems.                                                           *)

LEMMA NextRelay == RelayInv /\ [Next]_vars => RelayInv'
<1> SUFFICES ASSUME RelayInv, [Next]_vars  PROVE RelayInv'
  OBVIOUS
<1>1. ASSUME NEW s \in Streams, SocksConnectRequest(s) \/ SocksData(s) \/ SocksClose(s)
      PROVE  RelayInv'
  BY <1>1, RequestKeeps, DataKeeps, CloseKeeps
<1>2. ASSUME NEW s \in Streams, Connect(s)  PROVE RelayInv'
  BY <1>2, FailureKeeps, SuccessKeeps DEF Connect
<1>3. ASSUME NEW s \in Streams, Relaying(s)  PROVE RelayInv'
  BY <1>3, AnswerKeeps, RelayKeeps, EndKeeps, CleanUpKeeps DEF Relaying
<1>4. ASSUME NEW s \in Streams, Reading(s)  PROVE RelayInv'
  BY <1>4, ReadKeeps, ReadEndKeeps DEF Reading
<1>5. ASSUME NEW s \in Streams, WriterWrites(s) \/ WriterEnds(s)  PROVE RelayInv'
  BY <1>5, WriteKeeps, WriteEndKeeps
<1>6. ASSUME NEW s \in Streams,
             TargetSends(s) \/ \E how \in {"finished", "broken"} : TargetEnds(s, how)
      PROVE  RelayInv'
  BY <1>6, TargetSendKeeps, TargetEndKeeps
<1>7. CASE UNCHANGED vars
  <2>1. TypeOK'
    BY <1>7 DEF RelayInv, TypeOK, vars, peer, ends
  <2>2. ASSUME NEW u \in Streams  PROVE StreamInv(u)'
    <3>1. StreamInv(u)
      BY DEF RelayInv
    <3>2. Untouched(u)
      BY <1>7 DEF Untouched, vars, peer, ends
    <3>3. UpstreamInv(u)'
      BY <3>1, <3>2, UpstreamKept DEF Untouched, Relayed
    <3> QED
      BY <3>1, <3>2, <3>3 DEF StreamInv, Untouched, Phases, Registered, Allowed,
                              DownstreamInv, Answers, ReadInOrder, ReaderDone
  <2> QED
    BY <2>1, <2>2 DEF RelayInv
<1> QED
  BY <1>1, <1>2, <1>3, <1>4, <1>5, <1>6, <1>7 DEF Next

\* The inductive invariant of the relay holds in every reachable state.
THEOREM RelayInvariant == Spec => []RelayInv
BY InitRelay, NextRelay, PTL DEF Spec

\* Every state of the relay is well typed, and neither the channel of the
\* handler nor that of the reading task ever holds more than its capacity.
THEOREM RelayTypeCorrect == Spec => []TypeOK
<1>1. RelayInv => TypeOK
  BY DEF RelayInv
<1> QED
  BY <1>1, RelayInvariant, PTL

\* The target gets the peer's blocks in the order the peer sent them, and none
\* is missing but those try_send found no room for.
THEOREM UpstreamCorrect == Spec => []UpstreamInOrder
<1>1. RelayInv => UpstreamInOrder
  <2> SUFFICES ASSUME RelayInv, NEW s \in Streams
               PROVE  /\ \A i, j \in 1 .. Len(Upstream(s)) :
                            i < j => Upstream(s)[i] < Upstream(s)[j]
                      /\ task[s] \in {"connecting", "answering", "relaying"}
                            /\ target[s] # "broken"
                           => Arriving(s) = 1 .. up[s] \ dropped[s]
    BY DEF UpstreamInOrder, Arriving
  <2> QED
    BY DEF RelayInv, StreamInv, UpstreamInv, InOrder, Accounted, Relayed
<1> QED
  BY <1>1, RelayInvariant, PTL

\* Dropping the sender never cuts data short: recv hands the writing task what
\* is queued before it reports the end.
THEOREM CloseWaitsForData == Spec => []CloseAfterData
<1>1. RelayInv => CloseAfterData
  <2> SUFFICES ASSUME RelayInv, NEW s \in Streams,
                      writer[s] = "ended", target[s] # "broken", task[s] # "done"
               PROVE  {written[s][i] : i \in 1 .. Len(written[s])} = 1 .. up[s] \ dropped[s]
    BY DEF CloseAfterData
  <2>1. queue[s] = <<>>
    BY DEF RelayInv, StreamInv, UpstreamInv, WriterDone
  <2>2. Upstream(s) = written[s]
    BY <2>1, ConcatEmptySeq DEF Upstream, RelayInv, TypeOK
  <2>3. Relayed(s)
    BY DEF RelayInv, StreamInv, Phases, Relayed, TypeOK
  <2> QED
    BY <2>2, <2>3 DEF RelayInv, StreamInv, UpstreamInv, Accounted, Arriving
<1> QED
  BY <1>1, RelayInvariant, PTL

\* No connection is made to an address of a local network for a resource that
\* does not allow it, whatever the name resolved to.
RelayAllowed ==
    \A s \in Streams : \A addr \in contacted[s] : AllowsLocalNetwork(s) \/ ~IsLocalTarget(addr)

LEMMA RelayAllowedHolds == Spec => []RelayAllowed
<1>1. RelayInv => RelayAllowed
  BY DEF RelayInv, StreamInv, Allowed, RelayAllowed
<1> QED
  BY <1>1, RelayInvariant, PTL

-----------------------------------------------------------------------------
(* The relay implements the contract a peer relies on.                     *)

\* What a relaying task has sent so far leaves the stream open.
LEMMA StillOpen ==
    ASSUME RelayInv, NEW s \in Streams, task[s] = "relaying"
    PROVE  /\ Contract!Open(s)
           /\ Len(toPeer[s]) \in Nat \ {0}
           /\ Len(toPeer[s]) - 1 + Len(chan[s]) = taken[s]
           /\ Len(chan[s]) \in Nat /\ taken[s] \in Nat /\ taken[s] <= down[s] /\ down[s] \in Nat
<1> DEFINE p == toPeer[s]
           n == Len(p)
<1>1. /\ p \in Seq((1 .. MaxDown) \cup {Accepted, Refused, Closed})
      /\ p # <<>> /\ p[1] = Accepted /\ \A i \in 2 .. n : p[i] = i - 1
  BY DEF RelayInv, TypeOK, StreamInv, DownstreamInv, Answers
<1>2. /\ n - 1 + Len(chan[s]) = taken[s] /\ taken[s] <= down[s]
      /\ taken[s] \in Nat /\ down[s] \in Nat /\ taken[s] <= MaxDown
  BY BoundsAssumption DEF RelayInv, TypeOK, StreamInv, DownstreamInv, ReadInOrder
<1>3. Len(chan[s]) \in Nat
  BY LenProperties DEF RelayInv, TypeOK
<1> HIDE DEF p, n
<1>4. n \in Nat \ {0}
  BY <1>1, LenProperties, EmptySeq DEF n
<1>5. p[n] \notin {Refused, Closed}
  <2>1. CASE n = 1
    BY <1>1, <2>1, BoundsAssumption
  <2>2. CASE n # 1
    <3>1. n \in 2 .. n /\ n - 1 \in 1 .. MaxDown
      BY <1>2, <1>3, <1>4, <2>2, BoundsAssumption
    <3>2. p[n] \in 1 .. MaxDown
      BY <1>1, <3>1
    <3> QED
      BY <3>2, BoundsAssumption
  <2> QED
    BY <2>1, <2>2
<1> QED
  BY <1>1, <1>2, <1>3, <1>4, <1>5 DEF p, n, Contract!Open

\* A peer that opens a stream is answered once, is sent what the target sent,
\* in order and without a gap, and is told of the end once, after all of it:
\* the relaying, reading and writing tasks together implement RelayContract.
THEOREM RelayRefines == Spec => HonoursContract
<1>1. Init => Contract!Init
  BY DEF Init, Contract!Init
<1>2. RelayInv /\ [Next]_vars => [Contract!Next]_(Contract!vars)
  <2> SUFFICES ASSUME RelayInv, [Next]_vars
               PROVE  Contract!Next \/ UNCHANGED <<toPeer, down, target>>
    BY DEF Contract!vars
  <2>1. ASSUME NEW s \in Streams, SocksConnectRequest(s) \/ SocksData(s) \/ SocksClose(s)
        PROVE  UNCHANGED <<toPeer, down, target>>
    BY <2>1 DEF SocksConnectRequest, SocksData, SocksClose, ends
  <2>2. ASSUME NEW s \in Streams, ConnectFails(s)  PROVE Contract!Answer(s)
    BY <2>2 DEF ConnectFails, AnswerFailure, Tell, ends, Contract!Answer, Contract!Tell,
                RelayInv, StreamInv, DownstreamInv, Answers
  <2>3. ASSUME NEW s \in Streams, NEW resolved, NEW addr, ConnectSucceeds(s, resolved, addr)
        PROVE  UNCHANGED <<toPeer, down, target>>
    BY <2>3 DEF ConnectSucceeds
  <2>4. ASSUME NEW s \in Streams, AnswerPeer(s)  PROVE Contract!Answer(s)
    BY <2>4 DEF AnswerPeer, Tell, ends, Contract!Answer, Contract!Tell,
                RelayInv, StreamInv, DownstreamInv, Answers
  <2>5. ASSUME NEW s \in Streams, RelayToPeer(s)  PROVE Contract!Relay(s)
    <3>1. /\ Contract!Open(s) /\ Len(toPeer[s]) \in Nat \ {0}
          /\ taken[s] <= down[s] /\ taken[s] \in Nat /\ down[s] \in Nat
      BY <2>5, StillOpen DEF RelayToPeer
    <3>2. Head(chan[s]) = Len(toPeer[s]) /\ Len(toPeer[s]) <= taken[s]
      BY <2>5, NextBlock DEF RelayToPeer, RelayInv, StreamInv, DownstreamInv
    <3>3. Contract!Delivered(s) < down[s] /\ Contract!Delivered(s) + 1 = Head(chan[s])
      BY <3>1, <3>2 DEF Contract!Delivered
    <3> QED
      BY <2>5, <3>1, <3>3 DEF RelayToPeer, Tell, ends, Contract!Relay, Contract!Tell
  <2>6. ASSUME NEW s \in Streams, RelayEnds(s)  PROVE Contract!Close(s)
    <3>1. /\ Contract!Open(s) /\ Len(toPeer[s]) \in Nat \ {0}
          /\ Len(toPeer[s]) - 1 + Len(chan[s]) = taken[s]
      BY <2>6, StillOpen DEF RelayEnds
    <3>2. target[s] = "broken" \/ (target[s] = "finished" /\ taken[s] = down[s])
      BY <2>6 DEF RelayEnds, SourceEnded, RelayInv, StreamInv, DownstreamInv, ReaderDone
    <3>3. Contract!Delivered(s) = taken[s]
      BY <2>6, <3>1, EmptySeq DEF RelayEnds, SourceEnded, Contract!Delivered
    <3> QED
      BY <2>6, <3>1, <3>2, <3>3 DEF RelayEnds, Tell, ends, Contract!Close, Contract!Tell
  <2>7. ASSUME NEW s \in Streams,
               CleanUp(s) \/ Reading(s) \/ WriterWrites(s) \/ WriterEnds(s)
        PROVE  UNCHANGED <<toPeer, down, target>>
    BY <2>7 DEF CleanUp, Reading, ReaderReads, ReaderEnds, WriterWrites, WriterEnds, ends
  <2>8. ASSUME NEW s \in Streams, TargetSends(s)  PROVE Contract!TargetSends(s)
    BY <2>8 DEF TargetSends, Contract!TargetSends
  <2>9. ASSUME NEW s \in Streams, NEW how \in {"finished", "broken"}, TargetEnds(s, how)
        PROVE  Contract!TargetEnds(s)
    BY <2>9 DEF TargetEnds, Contract!TargetEnds
  <2>10. CASE UNCHANGED vars
    BY <2>10 DEF vars, ends
  <2> QED
    BY <2>1, <2>2, <2>3, <2>4, <2>5, <2>6, <2>7, <2>8, <2>9, <2>10
    DEF Next, Connect, Relaying, Contract!Next
<1> QED
  BY <1>1, <1>2, RelayInvariant, PTL DEF Spec, HonoursContract, Contract!Spec

-----------------------------------------------------------------------------
(* WebProxy: the inductive invariant, request by request.                  *)

\* A hop was made for each redirect that was followed, and one more once the
\* request is over.
HopPerRedirect(r) ==
    /\ fetch[r].at = "none" => hops[r] = <<>>
    /\ fetch[r].at \in {"resolving", "requesting"} => Len(hops[r]) = fetch[r].redirects
    /\ Len(hops[r]) <= fetch[r].redirects + 1

\* The j-th request of the chain h carries method and body as the replies
\* before it say.
Follows(h, j, method, withBody) ==
    IF \A i \in 1 .. j - 1 : h[i].reply = "repeat"
    THEN method = h[1].method /\ withBody = h[1].body
    ELSE method = "GET" /\ ~withBody

Composed(r) ==
    /\ \A j \in 1 .. Len(hops[r]) : Follows(hops[r], j, hops[r][j].method, hops[r][j].body)
    /\ fetch[r].at \in {"resolving", "requesting"} /\ hops[r] # <<>> =>
          Follows(hops[r], Len(hops[r]) + 1, fetch[r].method, fetch[r].body)

\* The client's addresses were let through, and the hops went to such.
Vetted(r) ==
    /\ \A addr \in fetch[r].addrs : AllowsLocalNetwork(r) \/ ~IsLocalTarget(addr)
    /\ \A i \in 1 .. Len(hops[r]) : AllowsLocalNetwork(r) \/ ~hops[r][i].local

\* The origin sends a body only for a response that was started, and the task
\* ends only after it or before any.
BodyInv(r) ==
    /\ body[r].read <= body[r].sent
    /\ fetch[r].at \notin {"starting", "reading", "ended"} => body[r].over = "open"
    /\ fetch[r].at \notin {"starting", "reading"} /\ body[r].over = "open" => body[r].sent = 0
    /\ fetch[r].at = "starting" => body[r].read = 0
    /\ fetch[r].at = "ended" => body[r].over = "open" \/ BodyOver(r)

\* The messages of a response: its start, the blocks of its body as far as
\* they were read, its completion.
Nth(r) == [n \in Nat |-> IF n = 0 THEN Started ELSE IF n <= body[r].read THEN n ELSE Completed]

\* What was sent and is being sent, then the events in the channel, are the
\* first so many messages, without a gap: event i starts with message f[i].
Numbered(out, evs, total, nth) ==
    /\ \A i \in 1 .. Len(out) : out[i] = nth[i - 1]
    /\ \E f \in [1 .. Len(evs) + 1 -> 0 .. total] :
          /\ f[1] = Len(out)
          /\ f[Len(evs) + 1] = total
          /\ \A i \in 1 .. Len(evs) :
                /\ f[i + 1] = f[i] + Len(evs[i])
                /\ \A k \in 1 .. Len(evs[i]) : evs[i][k] = nth[f[i] + k - 1]

Out(r) == answer[r] \o sending[r]

\* Nothing is emitted before the response starts or the request fails.
Silent(r) == answer[r] = <<>> /\ sending[r] = <<>> /\ events[r] = <<>>

Refusing(r) ==
    \/ answer[r] = <<>> /\ sending[r] = <<>> /\ events[r] = <<Failure>>
    \/ Out(r) = Failure /\ events[r] = <<>>

Forwarded(r) ==
    /\ fetch[r].at \notin {"reading", "ended"} => Silent(r)
    /\ fetch[r].at = "reading" => Numbered(Out(r), events[r], body[r].read + 1, Nth(r))
    /\ fetch[r].at = "ended" =>
          IF body[r].over = "open" THEN Refusing(r)
          ELSE Numbered(Out(r), events[r], body[r].read + 2, Nth(r))

RequestInv(r) ==
    HopPerRedirect(r) /\ Composed(r) /\ Vetted(r) /\ BodyInv(r) /\ Forwarded(r)

WebInv == WebTypeOK /\ \A r \in Requests : RequestInv(r)

-----------------------------------------------------------------------------
(* Numbered sequences of events.                                           *)

\* Taking the first event of the channel keeps the numbering.
LEMMA ReceivingKeepsNumbers ==
    ASSUME NEW M, NEW out \in Seq(M), NEW evs \in Seq(Seq(M)), evs # <<>>,
           NEW total \in Nat, NEW nth, Numbered(out, evs, total, nth)
    PROVE  Numbered(out \o Head(evs), Tail(evs), total, nth)
<1> DEFINE n == Len(evs)
           e == Head(evs)
           t == Tail(evs)
           l == Len(out)
<1>1. /\ e \in Seq(M) /\ t \in Seq(Seq(M)) /\ Len(t) = n - 1
      /\ \A i \in 1 .. Len(t) : t[i] = evs[i + 1]
  BY HeadTailProperties
<1>2. n \in Nat \ {0} /\ e = evs[1]
  BY LenProperties, EmptySeq
<1>3. l \in Nat /\ Len(e) \in Nat
  BY <1>1, LenProperties
<1>4. PICK f \in [1 .. n + 1 -> 0 .. total] :
          /\ f[1] = l
          /\ f[n + 1] = total
          /\ \A i \in 1 .. n :
                /\ f[i + 1] = f[i] + Len(evs[i])
                /\ \A k \in 1 .. Len(evs[i]) : evs[i][k] = nth[f[i] + k - 1]
  BY DEF Numbered
<1>5. \A i \in 1 .. l : out[i] = nth[i - 1]
  BY DEF Numbered
<1>6. /\ out \o e \in Seq(M) /\ Len(out \o e) = l + Len(e)
      /\ \A i \in 1 .. l + Len(e) : (out \o e)[i] = IF i <= l THEN out[i] ELSE e[i - l]
  BY <1>1, ConcatProperties
<1> DEFINE g == [i \in 1 .. n |-> f[i + 1]]
<1> HIDE DEF n, e, t, l
<1>7. \A i \in 1 .. n : i + 1 \in 1 .. n + 1
  BY <1>2
<1>8. g \in [1 .. n -> 0 .. total] /\ \A i \in 1 .. n : g[i] = f[i + 1]
  BY <1>7
<1>9. f[2] = l + Len(e)
  BY <1>2, <1>4
<1>10. g[1] = Len(out \o e) /\ g[n] = total
  BY <1>2, <1>4, <1>6, <1>8, <1>9
<1> HIDE DEF g
<1>11. ASSUME NEW i \in 1 .. Len(t)
       PROVE  /\ g[i + 1] = g[i] + Len(t[i])
              /\ \A k \in 1 .. Len(t[i]) : t[i][k] = nth[g[i] + k - 1]
  <2>1. i \in 1 .. n /\ i + 1 \in 1 .. n
    BY <1>1, <1>2
  <2>2. g[i] = f[i + 1] /\ g[i + 1] = f[i + 1 + 1] /\ t[i] = evs[i + 1]
    BY <1>1, <1>8, <2>1
  <2> QED
    BY <1>4, <2>1, <2>2
<1>12. ASSUME NEW i \in 1 .. Len(out \o e)  PROVE (out \o e)[i] = nth[i - 1]
  <2>1. CASE i <= l
    BY <1>3, <1>5, <1>6, <2>1
  <2>2. CASE i > l
    <3> DEFINE k == i - l
    <3>1. k \in 1 .. Len(e) /\ i \in 1 .. l + Len(e) /\ ~(i <= l)
      BY <1>3, <1>6, <2>2
    <3>2. (out \o e)[i] = e[k]
      BY <1>6, <3>1
    <3>3. l + k - 1 = i - 1
      BY <1>3, <1>6
    <3> HIDE DEF k
    <3>4. e[k] = nth[l + k - 1]
      BY <1>2, <1>4, <3>1, SMTT(30)
    <3> QED
      BY <3>2, <3>3, <3>4
  <2> QED
    BY <1>3, <1>6, <2>1, <2>2
<1>13. Len(t) + 1 = n
  BY <1>1, <1>2
<1>14. Numbered(out \o e, t, total, nth)
  BY <1>8, <1>10, <1>11, <1>12, <1>13 DEF Numbered
<1> QED
  BY <1>14 DEF e, t

\* So does an event that carries the next messages.
LEMMA EmittingKeepsNumbers ==
    ASSUME NEW M, NEW out \in Seq(M), NEW evs \in Seq(Seq(M)), NEW e \in Seq(M),
           NEW total \in Nat, NEW nth, NEW next, Numbered(out, evs, total, nth),
           \A k \in 0 .. total - 1 : next[k] = nth[k],
           \A k \in 1 .. Len(e) : e[k] = next[total + k - 1]
    PROVE  Numbered(out, Append(evs, e), total + Len(e), next)
<1> DEFINE n == Len(evs)
           l == Len(e)
           a == Append(evs, e)
<1>1. n \in Nat /\ l \in Nat /\ Len(out) \in Nat
  BY LenProperties
<1>2. /\ a \in Seq(Seq(M)) /\ Len(a) = n + 1 /\ a[n + 1] = e
      /\ \A i \in 1 .. n : a[i] = evs[i]
  BY AppendProperties
<1>3. PICK f \in [1 .. n + 1 -> 0 .. total] :
          /\ f[1] = Len(out)
          /\ f[n + 1] = total
          /\ \A i \in 1 .. n :
                /\ f[i + 1] = f[i] + Len(evs[i])
                /\ \A k \in 1 .. Len(evs[i]) : evs[i][k] = nth[f[i] + k - 1]
  BY DEF Numbered
<1>4. \A i \in 1 .. Len(out) : out[i] = nth[i - 1]
  BY DEF Numbered
<1>5. \A i \in 1 .. n : Len(evs[i]) \in Nat
  BY ElementOfSeq, LenProperties
<1> DEFINE g == [i \in 1 .. n + 2 |-> IF i <= n + 1 THEN f[i] ELSE total + l]
<1> HIDE DEF n, l, a
<1>6. /\ g \in [1 .. n + 2 -> 0 .. total + l]
      /\ g[n + 2] = total + l
      /\ \A i \in 1 .. n + 1 : g[i] = f[i]
  <2>1. \A i \in 1 .. n + 2 : i <= n + 1 => i \in 1 .. n + 1
    BY <1>1
  <2>2. \A i \in 1 .. n + 1 : f[i] \in 0 .. total + l
    BY <1>1
  <2>3. total + l \in 0 .. total + l
    BY <1>1
  <2>4. g \in [1 .. n + 2 -> 0 .. total + l]
    BY <2>1, <2>2, <2>3
  <2>5. g[n + 2] = total + l
    BY <1>1
  <2>6. \A i \in 1 .. n + 1 : g[i] = f[i]
    BY <1>1
  <2> QED
    BY <2>4, <2>5, <2>6
<1> HIDE DEF g
<1>7. g[1] = Len(out)
  BY <1>1, <1>3, <1>6
<1>8. ASSUME NEW i \in 1 .. n + 1
      PROVE  /\ g[i + 1] = g[i] + Len(a[i])
             /\ \A k \in 1 .. Len(a[i]) : a[i][k] = next[g[i] + k - 1]
  <2>1. CASE i = n + 1
    <3>1. a[i] = e /\ g[i] = total /\ g[i + 1] = total + l
      BY <1>1, <1>2, <1>3, <1>6, <2>1
    <3> QED
      BY <3>1 DEF l
  <2>2. CASE i # n + 1
    <3>1. i \in 1 .. n /\ i + 1 \in 1 .. n + 1
      BY <1>1, <2>2
    <3>2. a[i] = evs[i] /\ g[i] = f[i] /\ g[i + 1] = f[i + 1] /\ f[i + 1] = f[i] + Len(evs[i])
      BY <1>2, <1>3, <1>6, <3>1
    <3>3. ASSUME NEW k \in 1 .. Len(evs[i])  PROVE evs[i][k] = next[f[i] + k - 1]
      <4>1. evs[i][k] = nth[f[i] + k - 1]
        BY <1>3, <3>1
      <4>2. f[i] \in 0 .. total /\ f[i + 1] \in 0 .. total
        BY <3>1
      <4>3. f[i] + k - 1 \in 0 .. total - 1
        BY <1>5, <3>1, <3>2, <4>2, SMTT(30)
      <4> QED
        BY <4>1, <4>3
    <3> QED
      BY <3>2, <3>3
  <2> QED
    BY <2>1, <2>2
<1>9. ASSUME NEW i \in 1 .. Len(out)  PROVE out[i] = next[i - 1]
  <2>1. Len(out) <= total
    BY <1>1, <1>3
  <2>2. i - 1 \in 0 .. total - 1
    BY <1>1, <2>1
  <2> QED
    BY <1>4, <2>2
<1>10. Len(a) + 1 = n + 2 /\ Len(a) = n + 1
  BY <1>1, <1>2
<1>11. Numbered(out, a, total + l, next)
  <2>1. g \in [1 .. Len(a) + 1 -> 0 .. total + l] /\ g[Len(a) + 1] = total + l
    BY <1>6, <1>10
  <2>2. \A i \in 1 .. Len(a) : /\ g[i + 1] = g[i] + Len(a[i])
                              /\ \A k \in 1 .. Len(a[i]) : a[i][k] = next[g[i] + k - 1]
    BY <1>8, <1>10
  <2> QED
    BY <1>7, <1>9, <2>1, <2>2 DEF Numbered
<1> QED
  BY <1>11 DEF a, l

-----------------------------------------------------------------------------
(* Initial states, and the requests a step is not about.                   *)

FetchState ==
    [at : {"none", "resolving", "requesting", "failing", "starting", "reading", "ended"},
     redirects : 0 .. MaxRedirects, method : Methods, body : BOOLEAN, addrs : SUBSET Addresses]
BodyState == [sent : 0 .. MaxBody, read : 0 .. MaxBody, over : {"open", "finished", "broken"}]
Hop == [local : BOOLEAN, method : Methods, body : BOOLEAN, reply : Reply]

\* The types, request by request.
RequestType(r) ==
    /\ fetch[r] \in FetchState
    /\ events[r] \in Seq(Seq(Message))
    /\ sending[r] \in Seq(Message)
    /\ answer[r] \in Seq(Message)
    /\ body[r] \in BodyState
    /\ hops[r] \in Seq(Hop)
    /\ Len(events[r]) <= EventCap
    /\ Len(hops[r]) <= MaxRedirects + 1

LEMMA TypesByRequest ==
    ASSUME WebTypeOK, NEW r \in Requests  PROVE RequestType(r)
BY DEF WebTypeOK, RequestType, FetchState, BodyState, Hop

LEMMA InitWeb == WebInit => WebInv
<1> SUFFICES ASSUME WebInit  PROVE WebInv
  OBVIOUS
<1>1. WebTypeOK
  BY WebAssumption DEF WebInit, WebTypeOK, Methods
<1>2. ASSUME NEW r \in Requests  PROVE RequestInv(r)
  BY WebAssumption DEF WebInit, RequestInv, HopPerRedirect, Composed, Vetted, BodyInv, Forwarded, Silent
<1> QED
  BY <1>1, <1>2 DEF WebInv

\* What a step leaves of a request.
RequestLeft(u) ==
    /\ fetch'[u] = fetch[u] /\ events'[u] = events[u] /\ sending'[u] = sending[u]
    /\ answer'[u] = answer[u] /\ body'[u] = body[u] /\ hops'[u] = hops[u]

LEMMA OtherRequestsKept ==
    ASSUME WebInv, WebTypeOK', NEW r \in Requests, RequestInv(r)',
           \A u \in Requests \ {r} : RequestLeft(u)
    PROVE  WebInv'
<1>1. ASSUME NEW u \in Requests, u # r  PROVE RequestInv(u)'
  <2>1. RequestInv(u) /\ RequestLeft(u)
    BY <1>1 DEF WebInv
  <2>2. HopPerRedirect(u)' /\ Composed(u)' /\ Vetted(u)' /\ BodyInv(u)'
    BY <2>1 DEF RequestLeft, RequestInv, HopPerRedirect, Composed, Vetted, BodyInv, BodyOver
  <2>3. Nth(u)' = Nth(u) /\ Out(u)' = Out(u)
    BY <2>1 DEF RequestLeft, Nth, Out
  <2>4. Forwarded(u)'
    BY <2>1, <2>3 DEF RequestLeft, RequestInv, Forwarded, Silent, Refusing
  <2> QED
    BY <2>2, <2>4 DEF RequestInv
<1> QED
  BY <1>1 DEF WebInv

\* A step that changes nothing but the state of r.
Replaces(r, f, e, d, a, b, h) ==
    /\ fetch' = [fetch EXCEPT ![r] = f] /\ events' = [events EXCEPT ![r] = e]
    /\ sending' = [sending EXCEPT ![r] = d] /\ answer' = [answer EXCEPT ![r] = a]
    /\ body' = [body EXCEPT ![r] = b] /\ hops' = [hops EXCEPT ![r] = h]

\* A step that replaces what it changes of r by values of their types.
LEMMA TypesKept ==
    ASSUME WebTypeOK, NEW r \in Requests,
           NEW f \in FetchState, NEW e \in Seq(Seq(Message)), NEW d \in Seq(Message),
           NEW a \in Seq(Message), NEW b \in BodyState, NEW h \in Seq(Hop),
           Len(e) <= EventCap, Len(h) <= MaxRedirects + 1,
           Replaces(r, f, e, d, a, b, h)
    PROVE  /\ WebTypeOK'
           /\ fetch'[r] = f /\ events'[r] = e /\ sending'[r] = d
           /\ answer'[r] = a /\ body'[r] = b /\ hops'[r] = h
           /\ \A u \in Requests \ {r} : RequestLeft(u)
<1> USE DEF Replaces
<1>1. /\ fetch \in [Requests -> FetchState] /\ events \in [Requests -> Seq(Seq(Message))]
      /\ sending \in [Requests -> Seq(Message)] /\ answer \in [Requests -> Seq(Message)]
      /\ body \in [Requests -> BodyState] /\ hops \in [Requests -> Seq(Hop)]
      /\ \A u \in Requests : Len(events[u]) <= EventCap /\ Len(hops[u]) <= MaxRedirects + 1
  BY DEF WebTypeOK, FetchState, BodyState, Hop
<1>2. /\ fetch' \in [Requests -> FetchState] /\ events' \in [Requests -> Seq(Seq(Message))]
      /\ sending' \in [Requests -> Seq(Message)] /\ answer' \in [Requests -> Seq(Message)]
      /\ body' \in [Requests -> BodyState] /\ hops' \in [Requests -> Seq(Hop)]
  BY <1>1
<1>3. /\ fetch'[r] = f /\ events'[r] = e /\ sending'[r] = d
      /\ answer'[r] = a /\ body'[r] = b /\ hops'[r] = h
  BY <1>1
<1>4. \A u \in Requests \ {r} : RequestLeft(u)
  BY <1>1 DEF RequestLeft
<1>5. \A u \in Requests : Len(events'[u]) <= EventCap /\ Len(hops'[u]) <= MaxRedirects + 1
  BY <1>1, <1>3, <1>4 DEF RequestLeft
<1>6. WebTypeOK'
  BY <1>2, <1>5 DEF WebTypeOK, FetchState, BodyState, Hop
<1> QED
  BY <1>3, <1>4, <1>6

\* What a step leaves alone is unchanged at r too.
LEMMA SameAtRequest ==
    ASSUME WebTypeOK, NEW r \in Requests
    PROVE  /\ fetch = [fetch EXCEPT ![r] = fetch[r]] /\ events = [events EXCEPT ![r] = events[r]]
           /\ sending = [sending EXCEPT ![r] = sending[r]]
           /\ answer = [answer EXCEPT ![r] = answer[r]]
           /\ body = [body EXCEPT ![r] = body[r]] /\ hops = [hops EXCEPT ![r] = hops[r]]
BY DEF WebTypeOK

\* A step of a request that makes no hop keeps the chain of its hops.
LEMMA ChainKept ==
    ASSUME NEW r \in Requests, RequestInv(r), hops'[r] = hops[r],
           fetch'[r].redirects = fetch[r].redirects, fetch'[r].method = fetch[r].method,
           fetch'[r].body = fetch[r].body, fetch'[r].addrs = fetch[r].addrs,
           fetch'[r].at # "none",
           fetch'[r].at \in {"resolving", "requesting"} => fetch[r].at \in {"resolving", "requesting"}
    PROVE  HopPerRedirect(r)' /\ Composed(r)' /\ Vetted(r)'
BY DEF RequestInv, HopPerRedirect, Composed, Vetted

-----------------------------------------------------------------------------
(* The executing task, up to the response.                                 *)

\* Moving on from one place of the executing task to another.
LEMMA Moved ==
    ASSUME WebTypeOK, NEW r \in Requests,
           NEW at \in {"failing", "starting", "reading", "ended"}, At(r, at)
    PROVE  \E f \in FetchState :
              /\ fetch' = [fetch EXCEPT ![r] = f] /\ f.at = at
              /\ f.redirects = fetch[r].redirects /\ f.method = fetch[r].method
              /\ f.body = fetch[r].body /\ f.addrs = fetch[r].addrs
<1> DEFINE f == [fetch[r] EXCEPT !.at = at]
<1>1. fetch[r] \in FetchState /\ fetch \in [Requests -> FetchState]
  BY DEF WebTypeOK, FetchState
<1>2. f \in FetchState /\ f.at = at
  BY <1>1 DEF FetchState
<1>3. /\ f.redirects = fetch[r].redirects /\ f.method = fetch[r].method
      /\ f.body = fetch[r].body /\ f.addrs = fetch[r].addrs
  BY <1>1 DEF FetchState
<1>4. fetch' = [fetch EXCEPT ![r] = f]
  BY DEF At
<1> HIDE DEF f
<1> QED
  BY <1>2, <1>3, <1>4

LEMMA HttpRequestKeeps ==
    ASSUME WebInv, NEW r \in Requests, NEW method \in Methods, HttpRequest(r, method)
    PROVE  WebInv'
<1>1. WebTypeOK /\ RequestInv(r) /\ RequestType(r) /\ fetch[r].at = "none"
  BY TypesByRequest DEF WebInv, HttpRequest
<1>2. PICK at \in {"resolving", "failing"} : fetch' = [fetch EXCEPT ![r] =
          [at |-> at, redirects |-> 0, method |-> method, body |-> HasBody(method), addrs |-> {}]]
  BY DEF HttpRequest
<1> DEFINE f == [at |-> at, redirects |-> 0, method |-> method, body |-> HasBody(method), addrs |-> {}]
<1>3. f \in FetchState
  BY WebAssumption DEF FetchState, HasBody
<1>4. f.at = at /\ f.redirects = 0 /\ f.addrs = {}
  OBVIOUS
<1>5. fetch' = [fetch EXCEPT ![r] = f]
  BY <1>2
<1> HIDE DEF f
<1>6. /\ WebTypeOK' /\ \A u \in Requests \ {r} : RequestLeft(u)
      /\ fetch'[r] = f /\ events'[r] = events[r] /\ sending'[r] = sending[r]
      /\ answer'[r] = answer[r] /\ body'[r] = body[r] /\ hops'[r] = hops[r]
  <2>1. Replaces(r, f, events[r], sending[r], answer[r], body[r], hops[r])
    BY <1>1, <1>5, SameAtRequest DEF HttpRequest, Replaces
  <2> QED
    BY <1>1, <1>3, <1>5, <2>1, TypesKept DEF RequestType
<1>7. hops[r] = <<>> /\ hops[r] \in Seq(Hop)
  BY <1>1 DEF RequestInv, HopPerRedirect, RequestType
<1>8. HopPerRedirect(r)' /\ Composed(r)' /\ Vetted(r)'
  BY <1>4, <1>6, <1>7 DEF HopPerRedirect, Composed, Vetted
<1>9. BodyInv(r)' /\ Forwarded(r)'
  BY <1>1, <1>4, <1>6 DEF RequestInv, BodyInv, BodyOver, Forwarded, Silent
<1> QED
  BY <1>6, <1>8, <1>9, OtherRequestsKept DEF RequestInv

\* The client of a hop knows only addresses that were let through.
LEMMA ResolveKeeps ==
    ASSUME WebInv, NEW r \in Requests, NEW resolved \in SUBSET Addresses, Resolve(r, resolved)
    PROVE  WebInv'
<1> DEFINE addrs == ResolveAllowed(resolved, AllowsLocalNetwork(r))
           at == IF addrs = {} THEN "failing" ELSE "requesting"
           f == [fetch[r] EXCEPT !.at = at, !.addrs = addrs]
<1>1. WebTypeOK /\ RequestInv(r) /\ RequestType(r) /\ fetch[r].at = "resolving"
  BY TypesByRequest DEF WebInv, Resolve
<1>2. addrs \in SUBSET Addresses /\ \A a \in addrs : AllowsLocalNetwork(r) \/ ~IsLocalTarget(a)
  BY DEF ResolveAllowed
<1>3. at \in {"failing", "requesting"}
  OBVIOUS
<1>4. fetch \in [Requests -> FetchState]
  BY <1>1 DEF WebTypeOK, FetchState
<1>5. fetch' = [fetch EXCEPT ![r] = f]
  BY <1>4 DEF Resolve
<1> HIDE DEF addrs, at
<1>6. f \in FetchState /\ f.at = at /\ f.addrs = addrs
      /\ f.redirects = fetch[r].redirects /\ f.method = fetch[r].method /\ f.body = fetch[r].body
  BY <1>1, <1>2, <1>3 DEF FetchState, RequestType
<1> HIDE DEF f
<1>7. /\ WebTypeOK' /\ \A u \in Requests \ {r} : RequestLeft(u)
      /\ fetch'[r] = f /\ events'[r] = events[r] /\ sending'[r] = sending[r]
      /\ answer'[r] = answer[r] /\ body'[r] = body[r] /\ hops'[r] = hops[r]
  <2>1. Replaces(r, f, events[r], sending[r], answer[r], body[r], hops[r])
    BY <1>1, <1>5, SameAtRequest DEF Resolve, Replaces
  <2> QED
    BY <1>1, <1>5, <1>6, <2>1, TypesKept DEF RequestType
<1>8. HopPerRedirect(r)' /\ Composed(r)'
  BY <1>1, <1>3, <1>6, <1>7 DEF RequestInv, HopPerRedirect, Composed
<1>9. Vetted(r)'
  BY <1>1, <1>2, <1>6, <1>7 DEF RequestInv, Vetted
<1>10. BodyInv(r)' /\ Forwarded(r)'
  BY <1>1, <1>3, <1>6, <1>7 DEF RequestInv, BodyInv, BodyOver, Forwarded, Silent
<1> QED
  BY <1>7, <1>8, <1>9, <1>10, OtherRequestsKept DEF RequestInv

\* The next hop carries what the replies to the ones before leave of the
\* request, and goes to an address that was let through.
LEMMA HopAdded ==
    ASSUME WebTypeOK, NEW r \in Requests, RequestInv(r), fetch[r].at = "requesting",
           NEW addr \in fetch[r].addrs, NEW reply \in Reply, Made(r, addr, reply)
    PROVE  LET h == Append(hops[r], [local |-> IsLocalTarget(addr), method |-> fetch[r].method,
                                     body |-> fetch[r].body, reply |-> reply])
           IN  /\ hops' = [hops EXCEPT ![r] = h] /\ h \in Seq(Hop)
               /\ Len(h) = fetch[r].redirects + 1 /\ Len(h) <= MaxRedirects + 1 /\ h # <<>>
               /\ \A j \in 1 .. Len(h) : Follows(h, j, h[j].method, h[j].body)
               /\ \A i \in 1 .. Len(h) : AllowsLocalNetwork(r) \/ ~h[i].local
               /\ h[Len(h)].reply = reply
               /\ Follows(h, Len(h), fetch[r].method, fetch[r].body)
<1> DEFINE hop == [local |-> IsLocalTarget(addr), method |-> fetch[r].method,
                   body |-> fetch[r].body, reply |-> reply]
           o == hops[r]
           n == Len(o)
           h == Append(o, hop)
<1>1. /\ o \in Seq(Hop) /\ fetch[r] \in FetchState /\ fetch[r].redirects \in 0 .. MaxRedirects
      /\ fetch[r].method \in Methods /\ fetch[r].body \in BOOLEAN
  BY TypesByRequest DEF RequestType, FetchState
<1>2. hop \in Hop
  BY <1>1 DEF Hop, IsLocalTarget
<1>3. /\ hop.method = fetch[r].method /\ hop.body = fetch[r].body /\ hop.reply = reply
      /\ hop.local = IsLocalTarget(addr)
  OBVIOUS
<1>4. /\ n = fetch[r].redirects
      /\ \A j \in 1 .. n : Follows(o, j, o[j].method, o[j].body)
      /\ o # <<>> => Follows(o, n + 1, fetch[r].method, fetch[r].body)
      /\ \A i \in 1 .. n : AllowsLocalNetwork(r) \/ ~o[i].local
      /\ AllowsLocalNetwork(r) \/ ~IsLocalTarget(addr)
  BY DEF RequestInv, HopPerRedirect, Composed, Vetted
<1>5. hops' = [hops EXCEPT ![r] = h]
  BY DEF Made
<1> HIDE DEF hop, o
<1>6. /\ h \in Seq(Hop) /\ Len(h) = n + 1 /\ h[n + 1] = hop /\ \A i \in 1 .. n : h[i] = o[i]
  BY <1>1, <1>2, AppendProperties
<1>7. n \in Nat /\ (o # <<>> <=> n # 0)
  BY <1>1, LenProperties, EmptySeq
<1> HIDE DEF h, n
<1>8. Follows(h, n + 1, fetch[r].method, fetch[r].body)
  <2>1. CASE n = 0
    BY <1>3, <1>6, <2>1 DEF Follows
  <2>2. CASE n # 0
    <3>1. \A i \in 1 .. n : h[i] = o[i]
      BY <1>6
    <3>2. 1 \in 1 .. n
      BY <1>7, <2>2
    <3>3. Follows(o, n + 1, fetch[r].method, fetch[r].body)
      BY <1>4, <1>7, <2>2
    <3>4. (n + 1) - 1 = n
      BY <1>7
    <3> QED
      BY <3>1, <3>2, <3>3, <3>4 DEF Follows
  <2> QED
    BY <2>1, <2>2
<1>9. ASSUME NEW j \in 1 .. n  PROVE Follows(h, j, h[j].method, h[j].body)
  <2>1. /\ \A i \in 1 .. j - 1 : h[i] = o[i]
        /\ h[1] = o[1] /\ h[j] = o[j]
    BY <1>6, <1>7
  <2>2. Follows(o, j, o[j].method, o[j].body)
    BY <1>4
  <2> QED
    BY <2>1, <2>2 DEF Follows
<1>10. \A j \in 1 .. n + 1 : j = n + 1 \/ j \in 1 .. n
  BY <1>7
<1>11. \A j \in 1 .. Len(h) : Follows(h, j, h[j].method, h[j].body)
  BY <1>3, <1>6, <1>8, <1>9, <1>10
<1>12. \A i \in 1 .. Len(h) : AllowsLocalNetwork(r) \/ ~h[i].local
  BY <1>3, <1>4, <1>6, <1>10
<1>13. Len(h) = fetch[r].redirects + 1 /\ Len(h) <= MaxRedirects + 1 /\ h # <<>>
  BY <1>1, <1>4, <1>6, <1>7, EmptySeq, WebAssumption, SMTT(30)
<1> QED
  BY <1>3, <1>5, <1>6, <1>8, <1>11, <1>12, <1>13 DEF h, o, hop

LEMMA ExchangeKeeps ==
    ASSUME WebInv, NEW r \in Requests, NEW addr \in Addresses, NEW reply \in Reply,
           Exchange(r, addr, reply)
    PROVE  WebInv'
<1>1. /\ WebTypeOK /\ RequestInv(r) /\ RequestType(r) /\ fetch[r].at = "requesting"
      /\ fetch[r] \in FetchState
  BY TypesByRequest DEF WebInv, Exchange, RequestType
<1> DEFINE h == Append(hops[r], [local |-> IsLocalTarget(addr), method |-> fetch[r].method,
                                 body |-> fetch[r].body, reply |-> reply])
           n == Len(h)
<1>2. /\ hops' = [hops EXCEPT ![r] = h] /\ h \in Seq(Hop)
      /\ n = fetch[r].redirects + 1 /\ n <= MaxRedirects + 1 /\ h # <<>>
      /\ \A j \in 1 .. n : Follows(h, j, h[j].method, h[j].body)
      /\ \A i \in 1 .. n : AllowsLocalNetwork(r) \/ ~h[i].local
      /\ h[n].reply = reply
      /\ Follows(h, n, fetch[r].method, fetch[r].body)
  BY <1>1, HopAdded DEF Exchange
<1> HIDE DEF h
<1>3. n \in Nat \ {0}
  BY <1>2, LenProperties, EmptySeq
<1>4. PICK f \in FetchState :
          /\ fetch' = [fetch EXCEPT ![r] = f] /\ f.addrs = fetch[r].addrs
          /\ \/ f.at \in {"starting", "failing"} /\ f.redirects = fetch[r].redirects
             \/ /\ f.at = "resolving" /\ f.redirects = n
                /\ Follows(h, n + 1, f.method, f.body)
  <2>1. CASE At(r, "starting") \/ At(r, "failing")
    BY <1>1, <2>1, Moved
  <2>2. CASE /\ reply \in {"repeat", "see other"} /\ ~NoHopLeft(r)
             /\ fetch' = [fetch EXCEPT ![r] = Redirected(@, reply)]
    <3> DEFINE s == fetch[r]
               f == Redirected(s, reply)
    <3>1. /\ s.at = "requesting" /\ s.redirects \in 0 .. MaxRedirects /\ s.redirects # MaxRedirects
          /\ s.method \in Methods /\ s.body \in BOOLEAN /\ s \in FetchState
      BY <1>1, <2>2 DEF NoHopLeft, FetchState
    <3> HIDE DEF s
    <3>2. /\ f.at = "resolving" /\ f.redirects = s.redirects + 1 /\ f.addrs = s.addrs
          /\ f.method = IF reply = "repeat" THEN s.method ELSE "GET"
          /\ f.body = (s.body /\ reply = "repeat")
      BY <3>1 DEF Redirected, FetchState
    <3>3. f \in FetchState
      <4>1. s.redirects + 1 \in 0 .. MaxRedirects
        BY <3>1, WebAssumption
      <4>2. "GET" \in Methods /\ (s.body /\ reply = "repeat") \in BOOLEAN
        BY DEF Methods
      <4>3. (IF reply = "repeat" THEN s.method ELSE "GET") \in Methods
        BY <3>1, <4>2
      <4> QED
        BY <3>1, <4>1, <4>2, <4>3 DEF Redirected, FetchState
    <3> HIDE DEF f
    <3>4. Follows(h, n + 1, f.method, f.body)
      <4>1. (n + 1) - 1 = n /\ 1 .. n = (1 .. n - 1) \cup {n}
        BY <1>3
      <4>2. Follows(h, n, s.method, s.body)
        BY <1>2 DEF s
      <4>3. CASE reply = "repeat"
        <5>1. f.method = s.method /\ f.body = s.body
          BY <3>1, <3>2, <4>3
        <5>2. (\A i \in 1 .. n : h[i].reply = "repeat") <=> \A i \in 1 .. n - 1 : h[i].reply = "repeat"
          BY <1>2, <4>1, <4>3
        <5> QED
          BY <4>1, <4>2, <5>1, <5>2 DEF Follows
      <4>4. CASE reply # "repeat"
        BY <1>2, <1>3, <3>2, <4>1, <4>4 DEF Follows
      <4> QED
        BY <4>3, <4>4
    <3>5. fetch' = [fetch EXCEPT ![r] = f]
      BY <2>2 DEF f, s
    <3> QED
      BY <1>2, <3>2, <3>3, <3>4, <3>5 DEF s
  <2> QED
    BY <2>1, <2>2 DEF Exchange
<1>5. /\ WebTypeOK' /\ \A u \in Requests \ {r} : RequestLeft(u)
      /\ fetch'[r] = f /\ events'[r] = events[r] /\ sending'[r] = sending[r]
      /\ answer'[r] = answer[r] /\ body'[r] = body[r] /\ hops'[r] = h
  <2>1. Replaces(r, f, events[r], sending[r], answer[r], body[r], h)
    BY <1>1, <1>2, <1>4, SameAtRequest DEF Exchange, Replaces
  <2> QED
    BY <1>1, <1>2, <2>1, TypesKept DEF RequestType
<1>6. HopPerRedirect(r)'
  BY <1>2, <1>3, <1>4, <1>5 DEF HopPerRedirect, FetchState
<1>7. Composed(r)'
  BY <1>2, <1>4, <1>5 DEF Composed
<1>8. Vetted(r)'
  BY <1>1, <1>2, <1>4, <1>5 DEF RequestInv, Vetted
<1>9. f.at \in {"starting", "failing", "resolving"}
  BY <1>4
<1>10. BodyInv(r)'
  <2>1. body[r].over = "open" /\ body[r].sent = 0 /\ body[r].read = 0
    BY <1>1 DEF RequestInv, BodyInv, RequestType, BodyState
  <2> QED
    BY <1>5, <1>9, <2>1 DEF BodyInv
<1>11. Forwarded(r)'
  BY <1>1, <1>5, <1>9 DEF RequestInv, Forwarded, Silent
<1> QED
  BY <1>5, <1>6, <1>7, <1>8, <1>10, <1>11, OtherRequestsKept DEF RequestInv

-----------------------------------------------------------------------------
(* The executing task, once it tells the peer something.                   *)

LEMMA NothingNumbered ==
    ASSUME NEW nth  PROVE Numbered(<<>>, <<>>, 0, nth)
<1> DEFINE f == [i \in 1 .. 1 |-> 0]
<1>1. f \in [1 .. Len(<<>>) + 1 -> 0 .. 0] /\ f[1] = Len(<<>>) /\ f[Len(<<>>) + 1] = 0
  OBVIOUS
<1> HIDE DEF f
<1>2. Len(<<>>) = 0
  OBVIOUS
<1> QED
  BY <1>1, <1>2 DEF Numbered

\* A step that emits an event, and moves the task on to f and the body to b.
Emitting(r, event, f, b) ==
    /\ Emit(r, event)
    /\ fetch' = [fetch EXCEPT ![r] = f]
    /\ f.redirects = fetch[r].redirects /\ f.method = fetch[r].method
    /\ f.body = fetch[r].body /\ f.addrs = fetch[r].addrs
    /\ body' = [body EXCEPT ![r] = b]
    /\ UNCHANGED <<sending, answer, hops>>

\* An event the channel has room for, with the place the task moves on to.
LEMMA Emitted ==
    ASSUME WebInv, NEW r \in Requests, NEW event \in Seq(Message),
           NEW f \in FetchState, f.at \in {"reading", "ended"}, NEW b \in BodyState,
           Emitting(r, event, f, b)
    PROVE  /\ WebTypeOK' /\ \A u \in Requests \ {r} : RequestLeft(u)
           /\ fetch'[r] = f /\ events'[r] = Append(events[r], event) /\ sending'[r] = sending[r]
           /\ answer'[r] = answer[r] /\ body'[r] = b /\ hops'[r] = hops[r]
           /\ HopPerRedirect(r)' /\ Composed(r)' /\ Vetted(r)'
<1> USE DEF Emitting
<1> DEFINE e == events[r]
           a == Append(e, event)
<1>1. WebTypeOK /\ RequestInv(r) /\ RequestType(r) /\ e \in Seq(Seq(Message)) /\ Len(e) < EventCap
  BY TypesByRequest DEF WebInv, RequestType, Emit
<1>2. events' = [events EXCEPT ![r] = a]
  BY DEF Emit
<1> HIDE DEF e
<1>3. a \in Seq(Seq(Message)) /\ Len(a) = Len(e) + 1 /\ Len(e) \in Nat
  BY <1>1, AppendProperties, LenProperties
<1> HIDE DEF a
<1>4. Len(a) <= EventCap
  BY <1>1, <1>3, WebAssumption
<1>5. Replaces(r, f, a, sending[r], answer[r], b, hops[r])
  BY <1>1, <1>2, SameAtRequest DEF Replaces
<1>6. /\ WebTypeOK' /\ \A u \in Requests \ {r} : RequestLeft(u)
      /\ fetch'[r] = f /\ events'[r] = a /\ sending'[r] = sending[r]
      /\ answer'[r] = answer[r] /\ body'[r] = b /\ hops'[r] = hops[r]
  BY <1>1, <1>3, <1>4, <1>5, TypesKept DEF RequestType
<1>7. HopPerRedirect(r)' /\ Composed(r)' /\ Vetted(r)'
  BY <1>1, <1>6, ChainKept
<1> QED
  BY <1>6, <1>7 DEF a, e

LEMMA EmitErrorKeeps ==
    ASSUME WebInv, NEW r \in Requests, EmitError(r)
    PROVE  WebInv'
<1>1. /\ WebTypeOK /\ RequestInv(r) /\ RequestType(r) /\ fetch[r].at = "failing"
      /\ body[r] \in BodyState
  BY TypesByRequest DEF WebInv, EmitError, RequestType
<1>2. PICK f \in FetchState :
          /\ fetch' = [fetch EXCEPT ![r] = f] /\ f.at = "ended"
          /\ f.redirects = fetch[r].redirects /\ f.method = fetch[r].method
          /\ f.body = fetch[r].body /\ f.addrs = fetch[r].addrs
  BY <1>1, Moved DEF EmitError
<1>3. Failure \in Seq(Message)
  BY DEF Failure, Message
<1>4. Emit(r, Failure) /\ body' = [body EXCEPT ![r] = body[r]]
  BY <1>1, SameAtRequest DEF EmitError, Failure
<1>5. /\ WebTypeOK' /\ \A u \in Requests \ {r} : RequestLeft(u)
      /\ fetch'[r] = f /\ events'[r] = Append(events[r], Failure) /\ sending'[r] = sending[r]
      /\ answer'[r] = answer[r] /\ body'[r] = body[r]
      /\ HopPerRedirect(r)' /\ Composed(r)' /\ Vetted(r)'
  <2>1. Emitting(r, Failure, f, body[r])
    BY <1>1, <1>2, <1>3, <1>4 DEF EmitError, Emitting
  <2> QED
    BY <1>1, <1>2, <1>3, <1>4, <2>1, Emitted DEF WebInv
<1>6. Silent(r) /\ body[r].over = "open" /\ body[r].sent = 0 /\ body[r].read <= body[r].sent
  BY <1>1 DEF RequestInv, BodyInv, Forwarded
<1>7. BodyInv(r)'
  BY <1>2, <1>5, <1>6 DEF BodyInv
<1>8. events'[r] = <<Failure>>
  BY <1>5, <1>6 DEF Silent
<1>9. Forwarded(r)'
  BY <1>2, <1>5, <1>6, <1>8 DEF Forwarded, Refusing, Silent
<1> QED
  BY <1>5, <1>7, <1>9, OtherRequestsKept DEF RequestInv

LEMMA EmitStartKeeps ==
    ASSUME WebInv, NEW r \in Requests, EmitStart(r)
    PROVE  WebInv'
<1>1. /\ WebTypeOK /\ RequestInv(r) /\ RequestType(r) /\ fetch[r].at = "starting"
      /\ body[r] \in BodyState
  BY TypesByRequest DEF WebInv, EmitStart, RequestType
<1>2. PICK f \in FetchState :
          /\ fetch' = [fetch EXCEPT ![r] = f] /\ f.at = "reading"
          /\ f.redirects = fetch[r].redirects /\ f.method = fetch[r].method
          /\ f.body = fetch[r].body /\ f.addrs = fetch[r].addrs
  BY <1>1, Moved DEF EmitStart
<1> DEFINE e == <<Started>>
<1>3. e \in Seq(Message) /\ Len(e) = 1 /\ e[1] = Started
  BY DEF Message
<1>4. Emit(r, e) /\ body' = [body EXCEPT ![r] = body[r]]
  BY <1>1, SameAtRequest DEF EmitStart
<1> HIDE DEF e
<1>5. /\ WebTypeOK' /\ \A u \in Requests \ {r} : RequestLeft(u)
      /\ fetch'[r] = f /\ events'[r] = Append(events[r], e) /\ sending'[r] = sending[r]
      /\ answer'[r] = answer[r] /\ body'[r] = body[r]
      /\ HopPerRedirect(r)' /\ Composed(r)' /\ Vetted(r)'
  <2>1. Emitting(r, e, f, body[r])
    BY <1>1, <1>2, <1>3, <1>4 DEF EmitStart, Emitting
  <2> QED
    BY <1>1, <1>2, <1>3, <1>4, <2>1, Emitted DEF WebInv
<1>6. Silent(r) /\ body[r].read = 0 /\ body[r].read <= body[r].sent
  BY <1>1 DEF RequestInv, BodyInv, Forwarded
<1>7. BodyInv(r)'
  BY <1>2, <1>5, <1>6 DEF BodyInv
<1>8. Out(r)' = <<>> /\ events[r] = <<>> /\ <<>> \in Seq(Message) /\ <<>> \in Seq(Seq(Message))
  BY <1>5, <1>6 DEF Silent, Out
<1> DEFINE nth == Nth(r)'
<1>9. nth[0] = Started
  BY DEF Nth
<1> HIDE DEF nth
<1>10. Numbered(<<>>, Append(<<>>, e), 0 + Len(e), nth)
  <2>1. \A k \in 1 .. Len(e) : e[k] = nth[0 + k - 1]
    BY <1>3, <1>9
  <2> QED
    BY <1>3, <1>8, <2>1, NothingNumbered, EmittingKeepsNumbers
<1>11. Numbered(Out(r)', events'[r], 1, nth)
  BY <1>3, <1>5, <1>8, <1>10
<1>12. Forwarded(r)'
  BY <1>2, <1>5, <1>6, <1>11 DEF Forwarded, nth
<1> QED
  BY <1>5, <1>7, <1>12, OtherRequestsKept DEF RequestInv

\* A chunk is cut into messages that carry on where the one before ended.
LEMMA EmitChunkKeeps ==
    ASSUME WebInv, NEW r \in Requests, NEW last \in 1 .. MaxBody, EmitChunk(r, last)
    PROVE  WebInv'
<1> DEFINE read == body[r].read
           e == Slices(read + 1, last)
           b == [body[r] EXCEPT !.read = last]
<1>1. /\ WebTypeOK /\ RequestInv(r) /\ RequestType(r) /\ fetch[r].at = "reading"
      /\ body[r] \in BodyState /\ fetch[r] \in FetchState
  BY TypesByRequest DEF WebInv, EmitChunk, RequestType
<1>2. /\ read \in Nat /\ last \in Nat /\ last \in read + 1 .. body[r].sent /\ body[r].sent \in 0 .. MaxBody
  BY <1>1, WebAssumption DEF EmitChunk, BodyState
<1>3. b \in BodyState /\ b.read = last /\ b.sent = body[r].sent /\ b.over = body[r].over
  BY <1>1, <1>2, WebAssumption DEF BodyState
<1>4. /\ e = [i \in 1 .. last - read |-> read + i]
      /\ \A i \in 1 .. last - read : read + i \in 1 .. MaxBody
      /\ last - read \in Nat
  <2>1. last - (read + 1) + 1 = last - read /\ last - read \in Nat
    BY <1>2
  <2>2. \A i \in 1 .. last - read : read + 1 + i - 1 = read + i /\ read + i \in 1 .. MaxBody
    BY <1>2, WebAssumption
  <2> QED
    BY <2>1, <2>2 DEF Slices
<1>5. e \in Seq(Message) /\ Len(e) = last - read /\ \A k \in 1 .. Len(e) : e[k] = read + k
  BY <1>4 DEF Message
<1>6. Emit(r, e) /\ body' = [body EXCEPT ![r] = b]
  BY DEF EmitChunk
<1>7. fetch' = [fetch EXCEPT ![r] = fetch[r]]
  BY <1>1, SameAtRequest DEF EmitChunk
<1> HIDE DEF e, b
<1>8. /\ WebTypeOK' /\ \A u \in Requests \ {r} : RequestLeft(u)
      /\ fetch'[r] = fetch[r] /\ events'[r] = Append(events[r], e) /\ sending'[r] = sending[r]
      /\ answer'[r] = answer[r] /\ body'[r] = b
      /\ HopPerRedirect(r)' /\ Composed(r)' /\ Vetted(r)'
  <2>1. Emitting(r, e, fetch[r], b)
    BY <1>1, <1>3, <1>5, <1>6, <1>7 DEF EmitChunk, Emitting
  <2> QED
    BY <1>1, <1>3, <1>5, <1>6, <1>7, <2>1, Emitted DEF WebInv
<1>9. BodyInv(r)'
  BY <1>1, <1>2, <1>3, <1>8 DEF RequestInv, BodyInv
<1> DEFINE nth == Nth(r)
           next == Nth(r)'
<1>10. /\ \A k \in 0 .. (read + 1) - 1 : next[k] = nth[k]
       /\ \A k \in 1 .. Len(e) : e[k] = next[(read + 1) + k - 1]
  <2>1. body'[r].read = last
    BY <1>3, <1>8
  <2>2. \A n \in Nat : n # 0 /\ n <= last => next[n] = n
    BY <2>1 DEF Nth
  <2>3. \A n \in Nat : n # 0 /\ n <= read => nth[n] = n
    BY DEF Nth
  <2>4. next[0] = Started /\ nth[0] = Started
    BY DEF Nth
  <2> HIDE DEF next, nth
  <2>5. ASSUME NEW k \in 0 .. (read + 1) - 1  PROVE next[k] = nth[k]
    BY <1>2, <2>2, <2>3, <2>4
  <2>6. ASSUME NEW k \in 1 .. Len(e)  PROVE e[k] = next[(read + 1) + k - 1]
    <3>1. e[k] = read + k /\ (read + 1) + k - 1 = read + k
      BY <1>2, <1>5
    <3>2. read + k \in Nat /\ read + k # 0 /\ read + k <= last
      BY <1>2, <1>5
    <3> QED
      BY <2>2, <3>1, <3>2
  <2> QED
    BY <2>5, <2>6
<1>11. Out(r)' = Out(r) /\ Out(r) \in Seq(Message)
  BY <1>1, <1>8, ConcatProperties DEF Out, RequestType
<1>12. Numbered(Out(r), events[r], read + 1, nth)
  BY <1>1 DEF RequestInv, Forwarded
<1> HIDE DEF nth, next, read
<1>13. Numbered(Out(r), Append(events[r], e), (read + 1) + Len(e), next)
  <2>1. read + 1 \in Nat /\ events[r] \in Seq(Seq(Message))
    BY <1>1, <1>2 DEF RequestType
  <2> QED
    BY <1>5, <1>10, <1>11, <1>12, <2>1, EmittingKeepsNumbers
<1>14. (read + 1) + Len(e) = last + 1
  BY <1>2, <1>5
<1>15. Forwarded(r)'
  BY <1>1, <1>3, <1>8, <1>11, <1>13, <1>14 DEF Forwarded, next
<1> QED
  BY <1>8, <1>9, <1>15, OtherRequestsKept DEF RequestInv

LEMMA EmitCompleteKeeps ==
    ASSUME WebInv, NEW r \in Requests, EmitComplete(r)
    PROVE  WebInv'
<1>1. /\ WebTypeOK /\ RequestInv(r) /\ RequestType(r) /\ fetch[r].at = "reading"
      /\ body[r] \in BodyState /\ body[r].read \in Nat
  BY TypesByRequest, WebAssumption DEF WebInv, EmitComplete, RequestType, BodyState
<1>2. PICK f \in FetchState :
          /\ fetch' = [fetch EXCEPT ![r] = f] /\ f.at = "ended"
          /\ f.redirects = fetch[r].redirects /\ f.method = fetch[r].method
          /\ f.body = fetch[r].body /\ f.addrs = fetch[r].addrs
  BY <1>1, Moved DEF EmitComplete
<1> DEFINE e == <<Completed>>
           read == body[r].read
<1>3. e \in Seq(Message) /\ Len(e) = 1 /\ e[1] = Completed
  BY DEF Message
<1>4. Emit(r, e) /\ body' = [body EXCEPT ![r] = body[r]]
  BY <1>1, SameAtRequest DEF EmitComplete
<1> HIDE DEF e
<1>5. /\ WebTypeOK' /\ \A u \in Requests \ {r} : RequestLeft(u)
      /\ fetch'[r] = f /\ events'[r] = Append(events[r], e) /\ sending'[r] = sending[r]
      /\ answer'[r] = answer[r] /\ body'[r] = body[r]
      /\ HopPerRedirect(r)' /\ Composed(r)' /\ Vetted(r)'
  <2>1. Emitting(r, e, f, body[r])
    BY <1>1, <1>2, <1>3, <1>4 DEF EmitComplete, Emitting
  <2> QED
    BY <1>1, <1>2, <1>3, <1>4, <2>1, Emitted DEF WebInv
<1>6. BodyOver(r) /\ body[r].over # "open"
  BY DEF EmitComplete, BodyOver
<1>7. BodyInv(r)'
  BY <1>1, <1>2, <1>5, <1>6 DEF RequestInv, BodyInv, BodyOver
<1> DEFINE nth == Nth(r)
<1>8. nth[read + 1] = Completed /\ Nth(r)' = nth
  BY <1>1, <1>5 DEF Nth
<1>9. Out(r)' = Out(r) /\ Out(r) \in Seq(Message)
  BY <1>1, <1>5, ConcatProperties DEF Out, RequestType
<1>10. Numbered(Out(r), events[r], read + 1, nth)
  BY <1>1 DEF RequestInv, Forwarded
<1> HIDE DEF nth, read
<1>11. Numbered(Out(r), Append(events[r], e), (read + 1) + Len(e), nth)
  <2>1. read + 1 \in Nat /\ events[r] \in Seq(Seq(Message))
    BY <1>1 DEF RequestType, read
  <2>2. \A k \in 1 .. Len(e) : e[k] = nth[(read + 1) + k - 1]
    BY <1>1, <1>3, <1>8 DEF read
  <2> QED
    BY <1>3, <1>9, <1>10, <2>1, <2>2, EmittingKeepsNumbers
<1>12. (read + 1) + Len(e) = read + 2
  BY <1>1, <1>3 DEF read
<1>13. Forwarded(r)'
  BY <1>2, <1>5, <1>6, <1>8, <1>9, <1>11, <1>12 DEF Forwarded, read
<1> QED
  BY <1>5, <1>7, <1>13, OtherRequestsKept DEF RequestInv

-----------------------------------------------------------------------------
(* The forwarding task and the origin server.                              *)

LEMMA ReceiveKeeps ==
    ASSUME WebInv, NEW r \in Requests, Receive(r)
    PROVE  WebInv'
<1> DEFINE e == Head(events[r])
           t == Tail(events[r])
<1>1. /\ WebTypeOK /\ RequestInv(r) /\ RequestType(r) /\ sending[r] = <<>> /\ events[r] # <<>>
  BY TypesByRequest DEF WebInv, Receive
<1>2. /\ e \in Seq(Message) /\ t \in Seq(Seq(Message)) /\ Len(t) = Len(events[r]) - 1
      /\ Len(events[r]) \in Nat
  BY <1>1, HeadTailProperties, LenProperties DEF RequestType
<1>3. Len(t) <= EventCap
  BY <1>1, <1>2, WebAssumption DEF RequestType
<1>4. Replaces(r, fetch[r], t, e, answer[r], body[r], hops[r])
  BY <1>1, SameAtRequest DEF Receive, Replaces
<1> HIDE DEF e, t
<1>5. /\ WebTypeOK' /\ \A u \in Requests \ {r} : RequestLeft(u)
      /\ fetch'[r] = fetch[r] /\ events'[r] = t /\ sending'[r] = e
      /\ answer'[r] = answer[r] /\ body'[r] = body[r] /\ hops'[r] = hops[r]
  BY <1>1, <1>2, <1>3, <1>4, TypesKept, SMTT(30) DEF RequestType
<1>6. HopPerRedirect(r)' /\ Composed(r)' /\ Vetted(r)' /\ BodyInv(r)'
  BY <1>1, <1>5 DEF RequestInv, HopPerRedirect, Composed, Vetted, BodyInv, BodyOver
<1>7. Out(r) = answer[r] /\ Out(r)' = answer[r] \o e /\ Nth(r)' = Nth(r)
  BY <1>1, <1>5, ConcatEmptySeq DEF Out, RequestType, Nth
<1>8. ~Silent(r)
  BY <1>1 DEF Silent
<1>9. ASSUME NEW total \in Nat, Numbered(Out(r), events[r], total, Nth(r))
      PROVE  Numbered(Out(r)', events'[r], total, Nth(r)')
  <2>1. answer[r] \in Seq(Message) /\ events[r] \in Seq(Seq(Message)) /\ events[r] # <<>>
    BY <1>1 DEF RequestType
  <2>2. Numbered(answer[r] \o e, t, total, Nth(r))
    BY <1>7, <1>9, <2>1, ReceivingKeepsNumbers DEF e, t
  <2> QED
    BY <1>5, <1>7, <2>2
<1>10. ASSUME Refusing(r)  PROVE Refusing(r)'
  <2>1. answer[r] = <<>> /\ events[r] = <<Failure>>
    BY <1>1, <1>10 DEF Refusing
  <2>2. e = Failure /\ t = <<>>
    BY <2>1 DEF e, t
  <2>3. Out(r)' = Failure
    BY <1>2, <1>7, <2>1, <2>2, ConcatEmptySeq
  <2> QED
    BY <1>5, <2>2, <2>3 DEF Refusing
<1>11. body[r].read \in Nat
  BY <1>1, WebAssumption DEF RequestType, BodyState
<1>12. Forwarded(r)'
  <2>1. fetch[r].at \in {"reading", "ended"}
    BY <1>1, <1>8 DEF RequestInv, Forwarded
  <2>2. CASE fetch[r].at = "reading"
    BY <1>1, <1>5, <1>9, <1>11, <2>2 DEF RequestInv, Forwarded
  <2>3. CASE fetch[r].at = "ended" /\ body[r].over = "open"
    BY <1>1, <1>5, <1>10, <2>3 DEF RequestInv, Forwarded
  <2>4. CASE fetch[r].at = "ended" /\ body[r].over # "open"
    BY <1>1, <1>5, <1>9, <1>11, <2>4 DEF RequestInv, Forwarded
  <2> QED
    BY <2>1, <2>2, <2>3, <2>4
<1> QED
  BY <1>5, <1>6, <1>12, OtherRequestsKept DEF RequestInv

\* Sending a message moves it within what was taken from the channel.
LEMMA SendKeeps ==
    ASSUME WebInv, NEW r \in Requests, SendMsg(r)
    PROVE  WebInv' /\ Out(r)' = Out(r) /\ answer'[r] = Append(answer[r], Head(sending[r]))
<1> DEFINE d == sending[r]
           a == answer[r]
<1>1. /\ WebTypeOK /\ RequestInv(r) /\ RequestType(r) /\ d # <<>>
      /\ d \in Seq(Message) /\ a \in Seq(Message)
  BY TypesByRequest DEF WebInv, SendMsg, RequestType
<1>2. Replaces(r, fetch[r], events[r], Tail(d), Append(a, Head(d)), body[r], hops[r])
  BY <1>1, SameAtRequest DEF SendMsg, Replaces
<1> HIDE DEF d, a
<1>3. Head(d) \in Message /\ Tail(d) \in Seq(Message)
  BY <1>1, HeadTailProperties
<1>4. Append(a, Head(d)) \in Seq(Message)
  BY <1>1, <1>3, AppendProperties
<1>5. /\ WebTypeOK' /\ \A u \in Requests \ {r} : RequestLeft(u)
      /\ fetch'[r] = fetch[r] /\ events'[r] = events[r] /\ sending'[r] = Tail(d)
      /\ answer'[r] = Append(a, Head(d)) /\ body'[r] = body[r] /\ hops'[r] = hops[r]
  <2>1. /\ fetch[r] \in FetchState /\ events[r] \in Seq(Seq(Message)) /\ body[r] \in BodyState
        /\ hops[r] \in Seq(Hop) /\ Len(events[r]) <= EventCap /\ Len(hops[r]) <= MaxRedirects + 1
    BY <1>1 DEF RequestType
  <2> DEFINE x == Append(a, Head(d))
             y == Tail(d)
  <2>2. /\ x \in Seq(Message) /\ y \in Seq(Message)
        /\ Replaces(r, fetch[r], events[r], y, x, body[r], hops[r])
    BY <1>2, <1>3, <1>4
  <2> HIDE DEF x, y
  <2>3. /\ WebTypeOK' /\ \A u \in Requests \ {r} : RequestLeft(u)
        /\ fetch'[r] = fetch[r] /\ events'[r] = events[r] /\ sending'[r] = y
        /\ answer'[r] = x /\ body'[r] = body[r] /\ hops'[r] = hops[r]
    BY <1>1, <2>1, <2>2, TypesKept
  <2> QED
    BY <2>3 DEF x, y
<1>6. Append(a, Head(d)) \o Tail(d) = a \o d
  BY <1>1, WritingKeepsUpstream
<1>7. Out(r)' = Out(r) /\ Nth(r)' = Nth(r)
  BY <1>5, <1>6 DEF Out, Nth, a, d
<1>8. HopPerRedirect(r)' /\ Composed(r)' /\ Vetted(r)' /\ BodyInv(r)'
  BY <1>1, <1>5 DEF RequestInv, HopPerRedirect, Composed, Vetted, BodyInv, BodyOver
<1>9. ~Silent(r) /\ (Refusing(r) => Out(r) = Failure /\ events[r] = <<>>)
  BY <1>1 DEF Silent, Refusing, d
<1>10. Forwarded(r)'
  BY <1>1, <1>5, <1>7, <1>9 DEF RequestInv, Forwarded, Refusing
<1> QED
  BY <1>5, <1>7, <1>8, <1>10, OtherRequestsKept DEF RequestInv, a, d

\* What the origin does to the body leaves what was told of it alone.
LEMMA OriginKeeps ==
    ASSUME WebInv, NEW r \in Requests,
           OriginSends(r) \/ \E how \in {"finished", "broken"} : OriginEnds(r, how)
    PROVE  WebInv'
<1>1. /\ WebTypeOK /\ RequestInv(r) /\ RequestType(r) /\ fetch[r].at \in {"starting", "reading"}
      /\ body[r].over = "open" /\ body[r] \in BodyState
      /\ UNCHANGED <<fetch, events, sending, answer, hops>>
  BY TypesByRequest DEF WebInv, RequestType, OriginSends, OriginEnds
<1>2. body[r].read \in Nat /\ body[r].sent \in Nat
  BY <1>1, WebAssumption DEF BodyState
<1>3. PICK b \in BodyState :
          /\ body' = [body EXCEPT ![r] = b]
          /\ b.read = body[r].read /\ body[r].sent <= b.sent
  <2>1. CASE OriginSends(r)
    <3> DEFINE b == [body[r] EXCEPT !.sent = body[r].sent + 1]
    <3>1. body' = [body EXCEPT ![r] = b]
      BY <2>1 DEF OriginSends
    <3>2. b \in BodyState /\ b.read = body[r].read /\ body[r].sent <= b.sent
      BY <1>1, <1>2, <2>1, WebAssumption DEF OriginSends, BodyState
    <3> QED
      BY <3>1, <3>2
  <2>2. ASSUME NEW how \in {"finished", "broken"}, OriginEnds(r, how)
        PROVE  \E b \in BodyState :
                  /\ body' = [body EXCEPT ![r] = b]
                  /\ b.read = body[r].read /\ body[r].sent <= b.sent
    <3> DEFINE b == [body[r] EXCEPT !.over = how]
    <3>1. body' = [body EXCEPT ![r] = b]
      BY <2>2 DEF OriginEnds
    <3>2. b \in BodyState /\ b.read = body[r].read /\ body[r].sent <= b.sent
      BY <1>1, <1>2 DEF BodyState
    <3> QED
      BY <3>1, <3>2
  <2> QED
    BY <2>1, <2>2
<1>4. Replaces(r, fetch[r], events[r], sending[r], answer[r], b, hops[r])
  BY <1>1, <1>3, SameAtRequest DEF Replaces
<1>5. /\ WebTypeOK' /\ \A u \in Requests \ {r} : RequestLeft(u)
      /\ fetch'[r] = fetch[r] /\ events'[r] = events[r] /\ sending'[r] = sending[r]
      /\ answer'[r] = answer[r] /\ body'[r] = b /\ hops'[r] = hops[r]
  BY <1>1, <1>4, TypesKept DEF RequestType
<1>6. HopPerRedirect(r)' /\ Composed(r)' /\ Vetted(r)'
  BY <1>1, <1>5 DEF RequestInv, HopPerRedirect, Composed, Vetted
<1>7. body[r].read <= b.sent
  BY <1>1, <1>2, <1>3, WebAssumption DEF RequestInv, BodyInv, BodyState
<1>8. BodyInv(r)'
  BY <1>1, <1>3, <1>5, <1>7 DEF RequestInv, BodyInv
<1>9. Nth(r)' = Nth(r) /\ Out(r)' = Out(r)
  BY <1>3, <1>5 DEF Nth, Out
<1>10. Forwarded(r)'
  BY <1>1, <1>3, <1>5, <1>9 DEF RequestInv, Forwarded, Silent
<1> QED
  BY <1>5, <1>6, <1>8, <1>10, OtherRequestsKept DEF RequestInv

-----------------------------------------------------------------------------
(* The theorems about WebProxy.                                            *)

LEMMA NextWeb == WebInv /\ [WebNext]_webVars => WebInv'
<1> SUFFICES ASSUME WebInv, [WebNext]_webVars  PROVE WebInv'
  OBVIOUS
<1>1. ASSUME NEW r \in Requests, \E method \in Methods : HttpRequest(r, method)
      PROVE  WebInv'
  BY <1>1, HttpRequestKeeps
<1>2. ASSUME NEW r \in Requests, NEW addr \in Addresses, NEW reply \in Reply,
             Exchange(r, addr, reply)
      PROVE  WebInv'
  BY <1>2, ExchangeKeeps
<1>3. ASSUME NEW r \in Requests, Executing(r)  PROVE WebInv'
  BY <1>3, ResolveKeeps, EmitErrorKeeps, EmitStartKeeps, EmitChunkKeeps, EmitCompleteKeeps
  DEF Executing
<1>4. ASSUME NEW r \in Requests, Forwarding(r)  PROVE WebInv'
  BY <1>4, ReceiveKeeps, SendKeeps DEF Forwarding
<1>5. ASSUME NEW r \in Requests,
             OriginSends(r) \/ \E how \in {"finished", "broken"} : OriginEnds(r, how)
      PROVE  WebInv'
  BY <1>5, OriginKeeps
<1>6. CASE UNCHANGED webVars
  <2>1. WebTypeOK'
    BY <1>6 DEF webVars, WebInv, WebTypeOK
  <2>2. ASSUME NEW u \in Requests  PROVE RequestInv(u)'
    <3>1. RequestInv(u)
      BY DEF WebInv
    <3>2. Nth(u)' = Nth(u) /\ Out(u)' = Out(u)
      BY <1>6 DEF webVars, Nth, Out
    <3> QED
      BY <1>6, <3>1, <3>2 DEF webVars, RequestInv, HopPerRedirect, Composed, Vetted, BodyInv,
                              BodyOver, Forwarded, Silent, Refusing
  <2> QED
    BY <2>1, <2>2 DEF WebInv
<1> QED
  BY <1>1, <1>2, <1>3, <1>4, <1>5, <1>6 DEF WebNext, Reply

\* The inductive invariant of the HTTP proxy holds in every reachable state.
THEOREM WebInvariant == WebSpec => []WebInv
BY InitWeb, NextWeb, PTL DEF WebSpec

\* Every state of the proxy is well typed: no request makes more hops than its
\* redirects allow, and the channel between its tasks stays within its capacity.
THEOREM WebTypeCorrect == WebSpec => []WebTypeOK
<1>1. WebInv => WebTypeOK
  BY DEF WebInv
<1> QED
  BY <1>1, WebInvariant, PTL

\* However many redirects a request follows, in whatever order they repeat it
\* or turn it into a GET, its last hop carries what all of them together say.
THEOREM WebRedirects == WebSpec => []RedirectsCompose
<1>1. WebInv => RedirectsCompose
  BY DEF WebInv, RequestInv, Composed, Follows, RedirectsCompose
<1> QED
  BY <1>1, WebInvariant, PTL

\* No hop goes to an address of a local network for a resource that does not
\* allow it, wherever the replies redirect it and whatever names resolve to.
THEOREM WebAllowed == WebSpec => []HopsAllowed
<1>1. WebInv => HopsAllowed
  BY DEF WebInv, RequestInv, Vetted, HopsAllowed
<1> QED
  BY <1>1, WebInvariant, PTL

-----------------------------------------------------------------------------
(* The proxy implements the contract a peer relies on.                     *)

\* A response is being sent, not a refusal.
Responding(r) ==
    fetch[r].at = "reading" \/ (fetch[r].at = "ended" /\ body[r].over # "open")

\* What a peer was sent of a refusal is a part of it from its beginning.
LEMMA PartOfFailure ==
    ASSUME NEW a \in Seq(Message), NEW t \in Seq(Message), a \o t = Failure, a # <<>>
    PROVE  a \in {SubSeq(Failure, 1, k) : k \in 1 .. Len(Failure)}
<1> DEFINE k == Len(a)
           s == SubSeq(Failure, 1, k)
<1>1. Failure \in Seq(Message) /\ Len(Failure) = 3
  BY DEF Failure, Message
<1>2. /\ Len(a) \in Nat \ {0} /\ Len(t) \in Nat /\ Len(Failure) = Len(a) + Len(t)
      /\ \A i \in 1 .. Len(a) : Failure[i] = a[i]
  BY LenProperties, EmptySeq, ConcatProperties
<1> DEFINE m == Len(Failure)
           l == Len(t)
<1>3. k \in 1 .. Len(Failure)
  <2>1. k \in Nat \ {0} /\ l \in Nat /\ m = k + l
    BY <1>2
  <2> HIDE DEF k, l, m
  <2>2. k \in 1 .. m
    BY <2>1
  <2> QED
    BY <2>2 DEF m
<1>4. s \in Seq(Message) /\ Len(s) = k /\ \A i \in 1 .. k : s[i] = Failure[i]
  BY <1>1, <1>2, <1>3, SubSeqProperties
<1>5. a = s
  BY <1>2, <1>4, SeqEqual
<1> QED
  BY <1>3, <1>5

\* The messages of a response sent so far, and the one to be sent next.
LEMMA ResponseSoFar ==
    ASSUME WebInv, NEW r \in Requests, Responding(r)
    PROVE  /\ answer[r] \in Seq(Message) /\ Len(answer[r]) \in Nat
           /\ \A i \in 1 .. Len(answer[r]) : answer[r][i] = Nth(r)[i - 1]
           /\ sending[r] # <<>> =>
                 /\ Head(sending[r]) = Nth(r)[Len(answer[r])]
                 /\ fetch[r].at = "reading" => Len(answer[r]) <= body[r].read
                 /\ Len(answer[r]) <= body[r].read + 1
<1> DEFINE a == answer[r]
           d == sending[r]
           n == Len(a)
           total == IF fetch[r].at = "reading" THEN body[r].read + 1 ELSE body[r].read + 2
<1>1. /\ RequestInv(r) /\ a \in Seq(Message) /\ d \in Seq(Message)
      /\ body[r] \in BodyState /\ body[r].read \in Nat
  BY TypesByRequest, WebAssumption DEF WebInv, RequestType, BodyState
<1>2. total \in Nat /\ Numbered(Out(r), events[r], total, Nth(r)) /\ Out(r) = a \o d
  BY <1>1 DEF RequestInv, Forwarded, Responding, Out
<1> HIDE DEF a, d, total
<1>3. /\ Len(a) \in Nat /\ Len(d) \in Nat /\ Len(a \o d) = Len(a) + Len(d)
      /\ \A i \in 1 .. Len(a) + Len(d) : (a \o d)[i] = IF i <= Len(a) THEN a[i] ELSE d[i - Len(a)]
  BY <1>1, LenProperties, ConcatProperties
<1>4. \A i \in 1 .. Len(a) + Len(d) : (a \o d)[i] = Nth(r)[i - 1]
  BY <1>2, <1>3 DEF Numbered
<1>5. Len(a) + Len(d) <= total
  <2>1. PICK f \in [1 .. Len(events[r]) + 1 -> 0 .. total] : f[1] = Len(a \o d)
    BY <1>2 DEF Numbered
  <2>2. Len(events[r]) \in Nat
    BY TypesByRequest, LenProperties DEF WebInv, RequestType
  <2>3. f[1] \in 0 .. total
    BY <2>2
  <2> QED
    BY <1>2, <1>3, <2>1, <2>3
<1>6. \A i \in 1 .. n : a[i] = Nth(r)[i - 1]
  BY <1>3, <1>4
<1>7. ASSUME d # <<>>
      PROVE  Head(d) = Nth(r)[n] /\ n + 1 <= total
  <2>1. Len(d) # 0 /\ Head(d) = d[1]
    BY <1>1, <1>7, EmptySeq, HeadTailProperties
  <2>2. (a \o d)[n + 1] = d[1] /\ (a \o d)[n + 1] = Nth(r)[n]
    <3>1. n + 1 \in 1 .. Len(a) + Len(d) /\ ~(n + 1 <= Len(a)) /\ n + 1 - Len(a) = 1
      BY <1>3, <2>1
    <3>2. n + 1 - 1 = n
      BY <1>3
    <3> QED
      BY <1>3, <1>4, <3>1, <3>2
  <2> QED
    BY <1>2, <1>3, <1>5, <2>1, <2>2
<1>8. n \in Nat
  BY <1>3
<1> HIDE DEF n
<1>9. d # <<>> =>
        /\ fetch[r].at = "reading" => n <= body[r].read
        /\ n <= body[r].read + 1
  BY <1>1, <1>2, <1>7, <1>8, SMTT(30) DEF total
<1> QED
  BY <1>1, <1>6, <1>7, <1>8, <1>9 DEF a, d, n

\* A peer is told of a response as it was sent, and of a failure as a refusal.
HeardOf(r) ==
    /\ answer[r] = <<>> => Answered(r) = <<>>
    /\ Responding(r) => Answered(r) = answer[r]
    /\ answer[r] # <<>> /\ ~Responding(r) => Answered(r) = <<BadGateway>>

LEMMA AnsweredIs ==
    ASSUME WebInv, NEW r \in Requests  PROVE HeardOf(r)
<1> DEFINE parts == {SubSeq(Failure, 1, k) : k \in 1 .. Len(Failure)}
<1>1. Failure \in Seq(Message) /\ Len(Failure) = 3 /\ Failure[1] = BadGateway
  BY DEF Failure, Message
<1>2. ASSUME NEW p \in parts  PROVE p # <<>> /\ p[1] = BadGateway
  <2>1. PICK k \in 1 .. Len(Failure) : p = SubSeq(Failure, 1, k)
    OBVIOUS
  <2>2. Len(p) = k /\ p[1] = Failure[1]
    BY <1>1, <2>1, SubSeqProperties
  <2> QED
    BY <1>1, <2>1, <2>2, EmptySeq
<1>3. Answered(r) = IF answer[r] \in parts THEN <<BadGateway>> ELSE answer[r]
  BY DEF Answered
<1> HIDE DEF parts
<1>4. answer[r] = <<>> => Answered(r) = <<>>
  BY <1>2, <1>3
<1>5. ASSUME Responding(r)  PROVE Answered(r) = answer[r]
  <2>1. CASE answer[r] = <<>>
    BY <1>4, <2>1
  <2>2. CASE answer[r] # <<>>
    <3>1. /\ answer[r] \in Seq(Message) /\ Len(answer[r]) \in Nat
          /\ \A i \in 1 .. Len(answer[r]) : answer[r][i] = Nth(r)[i - 1]
      BY <1>5, ResponseSoFar
    <3>2. 1 \in 1 .. Len(answer[r])
      BY <2>2, <3>1, EmptySeq
    <3>3. answer[r][1] = Started
      BY <3>1, <3>2 DEF Nth
    <3> QED
      BY <1>2, <1>3, <3>3, WebAssumption
  <2> QED
    BY <2>1, <2>2
<1>6. ASSUME answer[r] # <<>>, ~Responding(r)
      PROVE  Answered(r) = <<BadGateway>>
  <2>1. /\ RequestInv(r) /\ answer[r] \in Seq(Message) /\ sending[r] \in Seq(Message)
        /\ fetch[r] \in FetchState
    BY TypesByRequest DEF WebInv, RequestType
  <2>2. fetch[r].at = "ended" /\ Refusing(r)
    BY <1>6, <2>1 DEF RequestInv, Forwarded, Silent, Responding, FetchState
  <2>3. answer[r] \o sending[r] = Failure
    BY <1>6, <2>2 DEF Refusing, Out
  <2>4. answer[r] \in parts
    BY <1>6, <2>1, <2>3, PartOfFailure DEF parts
  <2> QED
    BY <1>3, <2>2, <2>4
<1> QED
  BY <1>4, <1>5, <1>6 DEF HeardOf

LEMMA AnsweredNext == WebInv' => (\A r \in Requests : HeardOf(r))'
<1>1. WebInv => \A r \in Requests : HeardOf(r)
  BY AnsweredIs
<1> QED
  BY <1>1, PTL

\* The next message of a response is the next step of the contract.
LEMMA SendingResponds ==
    ASSUME WebInv, WebInv', NEW r \in Requests, SendMsg(r), Responding(r)
    PROVE  Response!Answer(r) \/ Response!Relay(r) \/ Response!Close(r)
<1> DEFINE a == answer[r]
           n == Len(a)
           m == Head(sending[r])
           read == body[r].read
<1>1. /\ answer' = [answer EXCEPT ![r] = Append(a, m)] /\ UNCHANGED <<fetch, body>>
      /\ sending[r] # <<>> /\ answer \in [Requests -> Seq(Message)]
  BY DEF SendMsg, WebInv, WebTypeOK
<1>2. /\ a \in Seq(Message) /\ n \in Nat
      /\ \A i \in 1 .. n : a[i] = Nth(r)[i - 1]
      /\ m = Nth(r)[n] /\ n <= read + 1
      /\ fetch[r].at = "reading" => n <= read
  BY <1>1, ResponseSoFar
<1>3. /\ RequestInv(r) /\ body[r] \in BodyState /\ read \in 0 .. MaxBody
      /\ body[r].sent \in 0 .. MaxBody /\ read <= body[r].sent
  BY TypesByRequest DEF WebInv, RequestType, BodyState, RequestInv, BodyInv
<1>4. Answered(r) = a
  BY AnsweredIs DEF HeardOf
<1>5. answer'[r] = Append(a, m)
  BY <1>1
<1>6. Answered(r)' = Append(a, m)
  <2>1. Responding(r)'
    BY <1>1 DEF Responding
  <2> QED
    BY <1>5, <2>1, AnsweredNext DEF HeardOf
<1>7. ASSUME NEW u \in Requests, u # r  PROVE Answered(u)' = Answered(u)
  BY <1>1, <1>7 DEF Answered
<1> DEFINE heard == [u \in Requests |-> Answered(u)]
           after == [u \in Requests |-> Answered(u)']
<1>8. /\ heard[r] = a
      /\ after = [heard EXCEPT ![r] = Append(@, m)]
  BY <1>4, <1>6, <1>7
<1>9. Response!Tell(r, m)
  BY <1>1, <1>8 DEF Response!Tell
<1>10. Response!Delivered(r) = n - 1
  BY <1>4 DEF Response!Delivered
<1> HIDE DEF a, n, m, read
<1>11. CASE n = 0
  <2>1. m = Started
    BY <1>2, <1>11 DEF Nth
  <2>2. heard[r] = <<>>
    BY <1>2, <1>8, <1>11, EmptySeq DEF n
  <2> QED
    BY <1>9, <2>1, <2>2 DEF Response!Answer
<1>12. CASE n # 0
  <2>1. a[n] = Nth(r)[n - 1] /\ n - 1 \in Nat /\ n - 1 <= read
    BY <1>2, <1>3, <1>12, WebAssumption
  <2>2. a[n] = Started \/ a[n] \in 1 .. MaxBody
    BY <1>2, <1>3, <2>1, WebAssumption DEF Nth, read
  <2>3. a[n] \notin {BadGateway, Completed}
    BY <2>2, WebAssumption
  <2>4. Response!Open(r)
    <3>1. heard[r] # <<>>
      BY <1>2, <1>8, <1>12, EmptySeq DEF n
    <3> QED
      BY <1>8, <2>3, <3>1 DEF Response!Open, n
  <2>5. CASE n <= read
    <3>1. m = n
      BY <1>2, <1>12, <2>5 DEF Nth, read
    <3>2. n - 1 < body[r].sent /\ n - 1 + 1 = n
      BY <1>2, <1>3, <1>12, <2>5, WebAssumption
    <3> QED
      BY <1>9, <1>10, <2>4, <3>1, <3>2 DEF Response!Relay
  <2>6. CASE ~(n <= read)
    <3>1. n = read + 1 /\ fetch[r].at = "ended"
      BY <1>2, <1>3, <2>6, WebAssumption DEF Responding
    <3>2. m = Completed
      BY <1>2, <1>12, <2>6 DEF Nth, read
    <3>3. BodyOver(r) /\ n - 1 = read
      BY <1>3, <3>1, WebAssumption DEF RequestInv, BodyInv, Responding
    <3>4. body[r].over = "broken" \/ (body[r].over = "finished" /\ n - 1 = body[r].sent)
      BY <3>3 DEF BodyOver, read
    <3> QED
      BY <1>9, <1>10, <2>4, <3>2, <3>4 DEF Response!Close
  <2> QED
    BY <2>5, <2>6
<1> QED
  BY <1>11, <1>12

\* The first message of a refusal answers; the others add nothing.
LEMMA SendingRefuses ==
    ASSUME WebInv, WebInv', NEW r \in Requests, SendMsg(r), ~Responding(r)
    PROVE  Response!Answer(r) \/ UNCHANGED Response!vars
<1>1. /\ UNCHANGED <<fetch, body>> /\ answer \in [Requests -> Seq(Message)]
      /\ answer' = [answer EXCEPT ![r] = Append(@, Head(sending[r]))]
  BY DEF SendMsg, WebInv, WebTypeOK
<1>2. answer'[r] # <<>>
  <2> DEFINE a == answer[r]
             m == Head(sending[r])
  <2>1. a \in Seq(Message) /\ answer'[r] = Append(a, m)
    BY <1>1
  <2> HIDE DEF a, m
  <2>2. Append(a, m) # <<>>
    BY <2>1
  <2> QED
    BY <2>1, <2>2
<1>3. Answered(r)' = <<BadGateway>>
  <2>1. ~Responding(r)'
    BY <1>1 DEF Responding
  <2> QED
    BY <1>2, <2>1, AnsweredNext DEF HeardOf
<1>4. \A u \in Requests \ {r} : Answered(u)' = Answered(u)
  BY <1>1 DEF Answered
<1>5. UNCHANGED <<[u \in Requests |-> body[u].sent], [u \in Requests |-> body[u].over]>>
  BY <1>1
<1> DEFINE heard == [u \in Requests |-> Answered(u)]
           after == [u \in Requests |-> Answered(u)']
<1>6. CASE answer[r] = <<>>
  <2>1. heard[r] = <<>>
    BY <1>6, AnsweredIs DEF HeardOf
  <2>2. Append(heard[r], BadGateway) = <<BadGateway>>
    BY <2>1
  <2>3. after = [heard EXCEPT ![r] = <<BadGateway>>]
    BY <1>3, <1>4
  <2>4. after = [heard EXCEPT ![r] = Append(@, BadGateway)]
    BY <2>2, <2>3
  <2> QED
    BY <1>5, <2>1, <2>4 DEF Response!Answer, Response!Tell
<1>7. CASE answer[r] # <<>>
  <2>1. Answered(r) = <<BadGateway>>
    BY <1>7, AnsweredIs DEF HeardOf
  <2>2. after = heard
    BY <1>3, <1>4, <2>1
  <2> QED
    BY <1>5, <2>2 DEF Response!vars
<1> QED
  BY <1>6, <1>7

\* However the two tasks interleave, a peer that makes a request is told of a
\* response or of a failure once, of the body in order and without a gap, and
\* of the end once, after all of it: together they implement RelayContract.
THEOREM WebRefines == WebSpec => HonoursResponse
<1>1. WebInit => Response!Init
  <2> SUFFICES ASSUME WebInit  PROVE Response!Init
    OBVIOUS
  <2>1. WebInv
    BY InitWeb
  <2>2. ASSUME NEW r \in Requests  PROVE Answered(r) = <<>>
    BY <2>1, AnsweredIs DEF HeardOf, WebInit
  <2> QED
    BY <2>2 DEF WebInit, Response!Init
<1>2. WebInv /\ WebInv' /\ [WebNext]_webVars => [Response!Next]_(Response!vars)
  <2> SUFFICES ASSUME WebInv, WebInv', [WebNext]_webVars
               PROVE  Response!Next \/ UNCHANGED Response!vars
    OBVIOUS
  <2>1. ASSUME UNCHANGED answer, \A u \in Requests : body'[u].sent = body[u].sent,
               \A u \in Requests : body'[u].over = body[u].over
        PROVE  UNCHANGED Response!vars
    BY <2>1 DEF Response!vars, Answered
  <2>2. ASSUME NEW r \in Requests, NEW method, HttpRequest(r, method)
        PROVE  UNCHANGED Response!vars
    BY <2>1, <2>2 DEF HttpRequest
  <2>3. ASSUME NEW r \in Requests, NEW addr, NEW reply, Exchange(r, addr, reply)
        PROVE  UNCHANGED Response!vars
    BY <2>1, <2>3 DEF Exchange
  <2>4. ASSUME NEW r \in Requests, Executing(r)  PROVE UNCHANGED Response!vars
    <3>1. CASE \E last \in 1 .. MaxBody : EmitChunk(r, last)
      <4>1. body \in [Requests -> BodyState]
        BY DEF WebInv, WebTypeOK, BodyState
      <4>2. PICK last : body' = [body EXCEPT ![r].read = last]
        BY <3>1 DEF EmitChunk
      <4>3. \A u \in Requests : body'[u].sent = body[u].sent /\ body'[u].over = body[u].over
        BY <4>1, <4>2 DEF BodyState
      <4> QED
        BY <2>1, <3>1, <4>3 DEF EmitChunk
    <3> QED
      BY <2>1, <2>4, <3>1 DEF Executing, Resolve, EmitError, EmitStart, EmitComplete
  <2>5. ASSUME NEW r \in Requests, Receive(r)  PROVE UNCHANGED Response!vars
    BY <2>1, <2>5 DEF Receive
  <2>6. ASSUME NEW r \in Requests, SendMsg(r)  PROVE Response!Next \/ UNCHANGED Response!vars
    BY <2>6, SendingResponds, SendingRefuses DEF Response!Next
  <2>7. ASSUME NEW r \in Requests, OriginSends(r)  PROVE Response!TargetSends(r)
    <3> DEFINE told == [u \in Requests |-> body[u].sent]
               over == [u \in Requests |-> body[u].over]
    <3>1. body \in [Requests -> BodyState] /\ body' = [body EXCEPT ![r].sent = @ + 1]
      BY <2>7 DEF OriginSends, WebInv, WebTypeOK, BodyState
    <3>2. told' = [told EXCEPT ![r] = @ + 1] /\ over' = over
      BY <3>1 DEF BodyState
    <3>3. [u \in Requests |-> Answered(u)]' = [u \in Requests |-> Answered(u)]
      BY <2>7 DEF OriginSends, Answered
    <3>4. over[r] = "open" /\ told[r] < MaxBody
      BY <2>7 DEF OriginSends
    <3> QED
      BY <3>2, <3>3, <3>4 DEF Response!TargetSends
  <2>8. ASSUME NEW r \in Requests, NEW how \in {"finished", "broken"}, OriginEnds(r, how)
        PROVE  Response!TargetEnds(r)
    <3> DEFINE told == [u \in Requests |-> body[u].sent]
               over == [u \in Requests |-> body[u].over]
    <3>1. body \in [Requests -> BodyState] /\ body' = [body EXCEPT ![r].over = how]
      BY <2>8 DEF OriginEnds, WebInv, WebTypeOK, BodyState
    <3>2. over' = [over EXCEPT ![r] = how] /\ told' = told
      BY <3>1 DEF BodyState
    <3>3. [u \in Requests |-> Answered(u)]' = [u \in Requests |-> Answered(u)]
      BY <2>8 DEF OriginEnds, Answered
    <3>4. over[r] # "broken"
      BY <2>8 DEF OriginEnds
    <3> QED
      BY <3>2, <3>3, <3>4 DEF Response!TargetEnds
  <2>9. CASE UNCHANGED webVars
    BY <2>1, <2>9 DEF webVars
  <2> QED
    BY <2>2, <2>3, <2>4, <2>5, <2>6, <2>7, <2>8, <2>9
    DEF WebNext, Forwarding, Response!Next
<1> QED
  BY <1>1, <1>2, WebInvariant, PTL DEF WebSpec, HonoursResponse, Response!Spec

-----------------------------------------------------------------------------
(* The two together.                                                       *)

\* A behaviour of the network is one of the relay and one of the proxy.
LEMMA NetworkHasBoth == NetworkSpec => Spec /\ WebSpec
<1>1. NetworkInit => Init /\ WebInit
  BY DEF NetworkInit
<1>2. [NetworkNext]_<<vars, webVars, inUse>> => [Next]_vars /\ [WebNext]_webVars
  BY DEF NetworkNext, RelayStep, WebStep
<1> QED
  BY <1>1, <1>2, PTL DEF NetworkSpec, Spec, WebSpec

\* Every state of the network functions is well typed.
THEOREM NetworkTypeCorrect == NetworkSpec => []TypesOK
<1>1. TypeOK /\ WebTypeOK => TypesOK
  BY DEF TypesOK
<1> QED
  BY <1>1, NetworkHasBoth, RelayTypeCorrect, WebTypeCorrect, PTL

\* One policy covers both ways out: neither a relayed connection nor any hop of
\* an HTTP request goes to a local network the resource was not given.
THEOREM NetworkPolicyHolds == NetworkSpec => []OnlyAllowedContacted
<1>1. RelayAllowed /\ HopsAllowed => OnlyAllowedContacted
  BY DEF RelayAllowed, OnlyAllowedContacted
<1> QED
  BY <1>1, NetworkHasBoth, RelayAllowedHolds, WebAllowed, PTL

=============================================================================
