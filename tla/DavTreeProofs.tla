---------------------------- MODULE DavTreeProofs ---------------------------
(***************************************************************************)
(* Proofs about DavTree: that the table of pending requests holds exactly  *)
(* the operations that wait, and that the file manager is shown nothing    *)
(* but what the peer had, for any number of operations, any paths, any     *)
(* lifetime of the caches and any changes by others.                       *)
(***************************************************************************)
EXTENDS DavTree, SequenceTheorems, TLAPS

-----------------------------------------------------------------------------
(* The inductive invariant.                                                *)

Trees == [Paths -> EntryType \cup {None}]
Answers == {None} \cup EntryType \cup SUBSET (Paths \X EntryType)
Times == 0 .. MaxTime
Looks == {"list", "stat"}

Request == [id : Ops, call : Calls]
Reply == [id : Ops, result : Answers \cup BOOLEAN]

Operation ==
    [state : {"new", "waiting", "ok", "failed", "cancelled"}, call : Calls \cup {NoCall},
     answer : Answers, asked : Times, stored : Times, returned : Times]

VariableTypes ==
    /\ tree \in Trees
    /\ requests \in Seq(Request)
    /\ replies \in Seq(Reply)
    /\ pending \subseteq Ops
    /\ mailbox \in [Ops -> Reply \cup {None}]
    /\ op \in [Ops -> Operation]
    /\ dir_cache \in [Directories -> CachedAnswer("list") \cup {None}]
    /\ meta_cache \in [Paths -> CachedAnswer("stat") \cup {None}]
    /\ now \in Times
    /\ edits \in 0 .. MaxEdits
    /\ lost \in BOOLEAN
    /\ past \in [Times -> SUBSET Trees]

\* By the trees of a history, the peer had this at a moment between the two, or
\* told it then because it could not read all of it.
WasTrue(trees, errors, kind, path, answer, from, until) ==
    \E i \in from .. until : \E t \in trees[i] :
        answer \in Tellable(kind, path, t, <<i, kind, path>> \in errors)

\* A request is the call of an operation that made it.
Asked(r) == op[r.id].state # "new" /\ r.call = op[r.id].call

\* A reply is to such a call, and says what the peer had since it was asked.
Right(r) ==
    LET s == op[r.id]
    IN  /\ s.state # "new"
        /\ s.call.kind \in Looks => WasTrue(past, unread, s.call.kind, s.call.path, r.result, s.asked, now)

\* What is cached for a path was true of that path when it was stored.
Sound(kind, path, entry) ==
    LET stored == entry.expires - CacheTime
    IN  entry # None =>
          /\ stored <= now
          /\ WasTrue(past, unread, kind, path, entry.data, entry.asked, stored)

\* An operation that returned what it looked for was told the truth.
Shown(s) ==
    s.state \in {"ok", "failed"} /\ s.call.kind \in Looks /\ s.call.path \notin Junk =>
        /\ WasTrue(past, unread, s.call.kind, s.call.path, s.answer, s.asked, s.stored)
        /\ s.returned < s.stored + CacheTime

\* An operation that was called has a call, one that returned an answer of the
\* kind it was called for.
Proper(s) ==
    /\ s.state # "new" => s.call \in Calls
    /\ s.state \in {"new", "waiting"} => s.answer = None
    /\ s.answer # None => s.answer \in AnswerOf(s.call.kind)
    /\ s.asked <= now /\ s.stored <= now

RequestsAsked == \A i \in DOMAIN requests : Asked(requests[i])
RepliesRight == \A i \in DOMAIN replies : Right(replies[i])
MailRight ==
    \A o \in Ops : mailbox[o] # None =>
        mailbox[o].id = o /\ op[o].state = "waiting" /\ Right(mailbox[o])
CachesSound ==
    /\ \A d \in Directories : Sound("list", d, dir_cache[d])
    /\ \A p \in Paths : Sound("stat", p, meta_cache[p])
OpsProper == \A o \in Ops : Proper(op[o]) /\ Shown(op[o])

TreeInv ==
    /\ VariableTypes
    /\ RequestsAsked
    /\ RepliesRight
    /\ MailRight
    /\ CachesSound
    /\ OpsProper
    /\ PendingIsWaiting
-----------------------------------------------------------------------------
(* The model's operators.                                                  *)

LEMMA QueueRest ==
    ASSUME NEW S, NEW q \in Seq(S), q # <<>>
    PROVE  /\ Head(q) \in S /\ 1 \in DOMAIN q /\ Head(q) = q[1]
           /\ Tail(q) \in Seq(S)
           /\ \A i \in DOMAIN Tail(q) : i + 1 \in DOMAIN q /\ Tail(q)[i] = q[i + 1]
<1>1. Len(q) \in Nat /\ Len(q) # 0 /\ DOMAIN q = 1 .. Len(q)
  BY EmptySeq
<1>2. Tail(q) \in Seq(S) /\ Len(Tail(q)) = Len(q) - 1
  BY HeadTailProperties
<1>3. \A i \in 1 .. Len(Tail(q)) : Tail(q)[i] = q[i + 1]
  BY HeadTailProperties
<1>4. Head(q) \in S /\ Head(q) = q[1]
  BY <1>1
<1>5. DOMAIN Tail(q) = 1 .. Len(Tail(q))
  BY <1>2
<1> QED
  BY <1>1, <1>2, <1>3, <1>4, <1>5

LEMMA QueueMore ==
    ASSUME NEW S, NEW q \in Seq(S), NEW x \in S
    PROVE  /\ Append(q, x) \in Seq(S)
           /\ \A i \in DOMAIN Append(q, x) : (i \in DOMAIN q /\ Append(q, x)[i] = q[i])
                                               \/ Append(q, x)[i] = x
<1>1. Len(q) \in Nat /\ DOMAIN q = 1 .. Len(q)
  OBVIOUS
<1>2. Append(q, x) \in Seq(S) /\ Len(Append(q, x)) = Len(q) + 1
  BY AppendProperties
<1>3. DOMAIN Append(q, x) = 1 .. Len(q) + 1
  BY <1>2
<1>4. /\ \A i \in 1 .. Len(q) : Append(q, x)[i] = q[i]
      /\ Append(q, x)[Len(q) + 1] = x
  BY AppendProperties
<1>5. \A i \in 1 .. Len(q) + 1 : i \in 1 .. Len(q) \/ i = Len(q) + 1
  BY <1>1
<1> QED
  BY <1>1, <1>2, <1>3, <1>4, <1>5

\* What the peer has at a path is what an answer of the kind may hold.
LEMMA TruthType ==
    ASSUME NEW t \in Trees, NEW c \in Calls, c.kind \in Looks
    PROVE  /\ Truth(c.kind, c.path, t) \in Answers
           /\ Truth(c.kind, c.path, t) # None => Truth(c.kind, c.path, t) \in AnswerOf(c.kind)
           /\ c.kind = "list" => c.path \in Directories
           /\ c.kind = "stat" => c.path \in Paths
<1>1. /\ c.kind = "list" => c.path \in Directories
      /\ c.kind = "stat" => c.path \in Paths
  BY TreeAssumption DEF Call, Looks
<1>2. CASE c.kind = "list"
  <2>1. Listing(t, c.path) \subseteq Paths \X EntryType
    BY DEF Listing, Children, Trees
  <2> QED
    BY <1>1, <1>2, <2>1 DEF Truth, AnswerOf, Answers
<1>3. CASE c.kind = "stat"
  BY <1>1, <1>3 DEF Truth, AnswerOf, Answers, Trees
<1> QED
  BY <1>2, <1>3 DEF Looks

\* So is what it tells.
LEMMA TellableType ==
    ASSUME NEW t \in Trees, NEW c \in Calls, c.kind \in Looks, NEW failed,
           NEW answer \in Tellable(c.kind, c.path, t, failed)
    PROVE  /\ answer \in Answers /\ (answer # None => answer \in AnswerOf(c.kind))
           /\ c.kind = "list" => answer \subseteq Listing(t, c.path)
<1>1. CASE answer = Truth(c.kind, c.path, t)
  BY <1>1, TruthType DEF Truth
<1>2. CASE c.kind = "list" /\ answer \in SUBSET Listing(t, c.path)
  <2>1. Listing(t, c.path) \subseteq Paths \X EntryType
    BY DEF Listing, Children, Trees
  <2> QED
    BY <1>2, <2>1 DEF Answers, AnswerOf
<1>3. CASE c.kind = "stat" /\ answer = None
  BY <1>3 DEF Answers
<1> QED
  BY <1>1, <1>2, <1>3 DEF Tellable, Looks

\* An entry that a listing names is the one the peer had.
LEMMA ListingTells ==
    ASSUME NEW t \in Trees, NEW dir, NEW p, NEW e, <<p, e>> \in Listing(t, dir)
    PROVE  p \in Paths /\ e = t[p] /\ e \in EntryType
BY DEF Listing, Children, Trees

LEMMA RemovedType == ASSUME NEW t \in Trees, NEW p \in Paths PROVE Removed(t, p) \in Trees
BY DEF Removed, Trees

LEMMA WithDirectoryType ==
    ASSUME NEW t \in Trees, NEW dir \in Directories PROVE WithDirectory(t, dir) \in Trees
BY DEF WithDirectory, Trees, EntryType

LEMMA EffectType ==
    ASSUME tree \in Trees, NEW c \in Calls
    PROVE  /\ Effect(c) \in Trees
           /\ c.kind \in Looks => Effect(c) = tree
           /\ Result(c) \in Answers \cup BOOLEAN
<1>1. /\ c.kind \in {"list", "stat", "mkdir", "remove", "rename"}
      /\ c.kind \in {"mkdir", "remove", "rename"} => c.path \in Paths
      /\ c.kind = "rename" => c.to \in Paths
  BY TreeAssumption DEF Call
<1>2. CASE c.kind \in Looks
  <2>1. Effect(c) = tree
    BY <1>2 DEF Effect, Looks
  <2>2. Result(c) = Truth(c.kind, c.path, tree)
    BY <1>2 DEF Result, Mutations, Looks
  <2> QED
    BY <1>2, <2>1, <2>2, TruthType
<1>3. CASE c.kind = "mkdir"
  <2>1. Effect(c) \in {tree, [tree EXCEPT ![c.path] = "Directory"]}
    BY <1>3 DEF Effect
  <2>2. Effect(c) \in Trees
    BY <2>1 DEF Trees, EntryType
  <2>3. Result(c) \in BOOLEAN
    BY <1>3 DEF Result, Succeeds, Mutations, CanCreate
  <2> QED
    BY <1>3, <2>2, <2>3 DEF Looks
<1>4. CASE c.kind = "remove"
  <2>1. Effect(c) \in {tree, Removed(tree, c.path)}
    BY <1>4 DEF Effect
  <2>2. Effect(c) \in Trees
    BY <1>1, <1>4, <2>1, RemovedType
  <2>3. Result(c) \in BOOLEAN
    BY <1>4 DEF Result, Succeeds, Mutations
  <2> QED
    BY <1>4, <2>2, <2>3 DEF Looks
<1>5. CASE c.kind = "rename"
  <2> DEFINE t == WithDirectory(tree, Parent[c.to])
  <2>1. t \in Trees
    BY <1>1, <1>5, TreeAssumption, WithDirectoryType
  <2> HIDE DEF t
  <2>2. Effect(c) \in {t, Renamed(t, c.path, c.to)}
    BY <1>5 DEF Effect, t
  <2>3. Renamed(t, c.path, c.to) \in Trees
    BY <1>1, <1>5, <2>1 DEF Renamed, Trees
  <2>4. Result(c) \in BOOLEAN
    BY <1>5 DEF Result, Succeeds, Mutations, CanRename
  <2> QED
    BY <1>5, <2>1, <2>2, <2>3, <2>4 DEF Looks
<1> QED
  BY <1>1, <1>2, <1>3, <1>4, <1>5 DEF Looks

-----------------------------------------------------------------------------
(* What was true stays true: the history only grows, and a call that was    *)
(* made stays the call of its operation.                                    *)

HistoryGrows ==
    /\ now' \in Times /\ now <= now'
    /\ past' \in [Times -> SUBSET Trees]
    /\ \A i \in 0 .. now : past[i] \subseteq past'[i]
    /\ unread \subseteq unread'

CallKept(o) ==
    op[o].state # "new" =>
        op'[o].state # "new" /\ op'[o].call = op[o].call /\ op'[o].asked = op[o].asked

CallsKept == \A o \in Ops : CallKept(o)

LEMMA TruthKept ==
    ASSUME TreeInv, HistoryGrows, NEW kind, NEW path, NEW answer,
           NEW from \in Nat, NEW until \in Int, NEW end \in Int,
           until <= now, until <= end, WasTrue(past, unread, kind, path, answer, from, until)
    PROVE  WasTrue(past', unread', kind, path, answer, from, end)
<1>1. PICK i \in from .. until :
        \E t \in past[i] : answer \in Tellable(kind, path, t, <<i, kind, path>> \in unread)
  BY DEF WasTrue
<1>2. PICK t \in past[i] : answer \in Tellable(kind, path, t, <<i, kind, path>> \in unread)
  BY <1>1
<1>3. now \in Nat
  BY DEF TreeInv, VariableTypes, Times
<1>4. i \in from .. end /\ i \in 0 .. now
  BY <1>3
<1>5. t \in past'[i]
  BY <1>4 DEF HistoryGrows
<1>6. answer \in Tellable(kind, path, t, <<i, kind, path>> \in unread')
  BY <1>2 DEF HistoryGrows, Tellable
<1> QED
  BY <1>4, <1>5, <1>6 DEF WasTrue

LEMMA RightKept ==
    ASSUME TreeInv, HistoryGrows, CallsKept, NEW r \in Reply, Right(r)
    PROVE  Right(r)'
<1>1. r.id \in Ops
  BY DEF Reply
<1>2. /\ op[r.id].state # "new" /\ op'[r.id].state # "new"
      /\ op'[r.id].call = op[r.id].call /\ op'[r.id].asked = op[r.id].asked
  BY <1>1 DEF Right, CallsKept, CallKept
<1>3. op[r.id].asked \in Nat /\ now \in Int /\ now' \in Int /\ now <= now'
  BY <1>1 DEF TreeInv, VariableTypes, Operation, HistoryGrows, Times
<1>4. ASSUME op[r.id].call.kind \in Looks
      PROVE  WasTrue(past', unread', op[r.id].call.kind, op[r.id].call.path, r.result,
                     op[r.id].asked, now')
  BY <1>3, <1>4, TruthKept DEF Right
<1> QED
  BY <1>2, <1>4 DEF Right

LEMMA AskedKept ==
    ASSUME CallsKept, NEW r \in Request, Asked(r)
    PROVE  Asked(r)'
BY DEF CallsKept, CallKept, Asked, Request

LEMMA SoundKept ==
    ASSUME TreeInv, HistoryGrows, NEW kind, NEW path,
           NEW entry \in CachedAnswer(kind) \cup {None}, Sound(kind, path, entry)
    PROVE  Sound(kind, path, entry)'
<1> SUFFICES ASSUME entry # None
             PROVE  /\ entry.expires - CacheTime <= now'
                    /\ WasTrue(past', unread', kind, path, entry.data, entry.asked,
                               entry.expires - CacheTime)
  BY DEF Sound
<1>1. entry.asked \in Nat /\ entry.expires - CacheTime \in Int
  BY BoundsAssumption DEF CachedAnswer
<1>2. now \in Int /\ now' \in Int /\ now <= now'
  BY DEF TreeInv, VariableTypes, HistoryGrows, Times
<1>3. /\ entry.expires - CacheTime <= now
      /\ WasTrue(past, unread, kind, path, entry.data, entry.asked, entry.expires - CacheTime)
  BY DEF Sound
<1> DEFINE stored == entry.expires - CacheTime
<1> HIDE DEF stored
<1>4. WasTrue(past', unread', kind, path, entry.data, entry.asked, stored)
  BY <1>1, <1>3, TruthKept DEF stored
<1> QED
  BY <1>1, <1>2, <1>3, <1>4 DEF stored

\* An operation whose record does not change is as proper and right as it was.
LEMMA OperationKept ==
    ASSUME TreeInv, HistoryGrows, NEW s \in Operation, Proper(s), Shown(s)
    PROVE  Proper(s)' /\ Shown(s)'
<1>1. /\ s.asked \in Nat /\ s.stored \in Int
      /\ now \in Int /\ now' \in Int /\ now <= now'
  BY DEF TreeInv, VariableTypes, Operation, HistoryGrows, Times
<1>2. Proper(s)'
  BY <1>1 DEF Proper
<1>3. s.stored <= now
  BY DEF Proper
<1>4. ASSUME s.state \in {"ok", "failed"}, s.call.kind \in Looks, s.call.path \notin Junk
      PROVE  WasTrue(past', unread', s.call.kind, s.call.path, s.answer, s.asked, s.stored)
  BY <1>1, <1>3, <1>4, TruthKept DEF Shown
<1>5. Shown(s)'
  BY <1>4 DEF Shown
<1> QED
  BY <1>2, <1>5

LEMMA RequestsKept ==
    ASSUME TreeInv, CallsKept, UNCHANGED requests
    PROVE  RequestsAsked'
BY AskedKept, ElementOfSeq DEF TreeInv, VariableTypes, RequestsAsked

LEMMA RepliesKept ==
    ASSUME TreeInv, HistoryGrows, CallsKept, UNCHANGED replies
    PROVE  RepliesRight'
<1>1. \A i \in DOMAIN replies : replies[i] \in Reply /\ Right(replies[i])
  BY ElementOfSeq DEF TreeInv, VariableTypes, RepliesRight
<1>2. \A i \in DOMAIN replies : Right(replies[i])'
  BY <1>1, RightKept
<1> QED
  BY <1>2 DEF RepliesRight

\* An entry of a cache that stays is as sound as it was, and so is none.
LEMMA EntriesKept ==
    ASSUME TreeInv, HistoryGrows
    PROVE  /\ \A dir \in Directories :
                dir_cache'[dir] \in {dir_cache[dir], None} => Sound("list", dir, dir_cache[dir])'
           /\ \A p \in Paths :
                meta_cache'[p] \in {meta_cache[p], None} => Sound("stat", p, meta_cache[p])'
<1>1. ASSUME NEW dir \in Directories, dir_cache'[dir] \in {dir_cache[dir], None}
      PROVE  Sound("list", dir, dir_cache[dir])'
  <2>1. PICK e : e = dir_cache[dir]
    OBVIOUS
  <2>2. e \in CachedAnswer("list") \cup {None} /\ Sound("list", dir, e)
    BY <2>1 DEF TreeInv, VariableTypes, CachesSound
  <2>3. Sound("list", dir, e)'
    BY <2>2, SoundKept
  <2> QED
    BY <1>1, <2>1, <2>3 DEF Sound
<1>2. ASSUME NEW p \in Paths, meta_cache'[p] \in {meta_cache[p], None}
      PROVE  Sound("stat", p, meta_cache[p])'
  <2>1. PICK e : e = meta_cache[p]
    OBVIOUS
  <2>2. e \in CachedAnswer("stat") \cup {None} /\ Sound("stat", p, e)
    BY <2>1 DEF TreeInv, VariableTypes, CachesSound
  <2>3. Sound("stat", p, e)'
    BY <2>2, SoundKept
  <2> QED
    BY <1>2, <2>1, <2>3 DEF Sound
<1> QED
  BY <1>1, <1>2

LEMMA CachesKept ==
    ASSUME TreeInv, HistoryGrows, UNCHANGED caches
    PROVE  CachesSound'
BY EntriesKept DEF CachesSound, caches

LEMMA OthersOpKept ==
    ASSUME TreeInv, HistoryGrows, NEW u \in Ops, op'[u] = op[u]
    PROVE  (Proper(op[u]) /\ Shown(op[u]))'
<1>1. PICK s : s = op[u]
  OBVIOUS
<1>2. s \in Operation /\ Proper(s) /\ Shown(s)
  BY <1>1 DEF TreeInv, VariableTypes, OpsProper
<1>3. Proper(s)' /\ Shown(s)'
  BY <1>2, OperationKept
<1> QED
  BY <1>1, <1>3 DEF Proper, Shown

LEMMA OthersMailKept ==
    ASSUME TreeInv, HistoryGrows, CallsKept, NEW u \in Ops,
           mailbox'[u] = mailbox[u], op'[u].state = op[u].state
    PROVE  (mailbox[u] # None =>
              mailbox[u].id = u /\ op[u].state = "waiting" /\ Right(mailbox[u]))'
<1>1. PICK r : r = mailbox[u]
  OBVIOUS
<1>2. r # None => r \in Reply /\ r.id = u /\ op[u].state = "waiting" /\ Right(r)
  BY <1>1 DEF TreeInv, VariableTypes, MailRight
<1>3. r # None => Right(r)'
  BY <1>2, RightKept
<1> QED
  BY <1>1, <1>2, <1>3 DEF Right

LEMMA MailKept ==
    ASSUME TreeInv, HistoryGrows, UNCHANGED <<op, mailbox>>
    PROVE  MailRight'
<1>1. CallsKept
  BY DEF CallsKept, CallKept
<1> QED
  BY <1>1, OthersMailKept DEF MailRight

LEMMA OpsKept ==
    ASSUME TreeInv, HistoryGrows, UNCHANGED op
    PROVE  OpsProper'
BY OthersOpKept DEF OpsProper

LEMMA SamePast == ASSUME TreeInv, UNCHANGED <<now, past, unread>> PROVE HistoryGrows
BY DEF HistoryGrows, TreeInv, VariableTypes, Times

\* One operation goes on, with a record that is proper and right.
LEMMA OneOpMoves ==
    ASSUME TreeInv, UNCHANGED <<now, past, unread>>, NEW o \in Ops, NEW s \in Operation,
           op' = [op EXCEPT ![o] = s], Proper(s), Shown(s),
           op[o].state # "new" =>
               s.state # "new" /\ s.call = op[o].call /\ s.asked = op[o].asked
    PROVE  /\ HistoryGrows /\ CallsKept /\ OpsProper'
           /\ op' \in [Ops -> Operation] /\ op'[o] = s
           /\ \A u \in Ops \ {o} : op'[u] = op[u]
<1>1. HistoryGrows
  BY DEF HistoryGrows, TreeInv, VariableTypes, Times
<1>2. op \in [Ops -> Operation]
  BY DEF TreeInv, VariableTypes
<1>3. /\ op' \in [Ops -> Operation] /\ op'[o] = s
      /\ \A u \in Ops \ {o} : op'[u] = op[u]
  BY <1>2
<1>4. CallsKept
  BY <1>3 DEF CallsKept, CallKept
<1>5. Proper(s)' /\ Shown(s)'
  BY <1>1, OperationKept
<1>6. (Proper(op[o]) /\ Shown(op[o]))'
  BY <1>3, <1>5 DEF Proper, Shown
<1>7. \A u \in Ops \ {o} : (Proper(op[u]) /\ Shown(op[u]))'
  BY <1>1, <1>3, OthersOpKept
<1>8. OpsProper'
  BY <1>6, <1>7 DEF OpsProper
<1> QED
  BY <1>1, <1>3, <1>4, <1>8

\* The mailboxes when one operation goes on whose own is empty.
LEMMA OneMailEmpty ==
    ASSUME TreeInv, HistoryGrows, CallsKept, NEW o \in Ops, mailbox'[o] = None,
           \A u \in Ops \ {o} : mailbox'[u] = mailbox[u] /\ op'[u] = op[u]
    PROVE  MailRight'
<1>1. \A u \in Ops \ {o} :
        (mailbox[u] # None =>
            mailbox[u].id = u /\ op[u].state = "waiting" /\ Right(mailbox[u]))'
  BY OthersMailKept
<1> QED
  BY <1>1 DEF MailRight

\* An operation that is called had nothing in its mailbox, and no answer.
LEMMA NewOperation ==
    ASSUME TreeInv, NEW o \in Ops, op[o].state = "new"
    PROVE  /\ mailbox[o] = None /\ o \notin pending
           /\ op[o] \in Operation /\ op[o].answer = None
           /\ now \in Nat /\ now \in Times /\ op[o].asked <= now /\ op[o].stored <= now
BY DEF TreeInv, VariableTypes, MailRight, OpsProper, Proper, PendingIsWaiting, Times

-----------------------------------------------------------------------------
(* The bridge is called.                                                   *)

LEMMA CallJunkPreserves ==
    ASSUME TreeInv, NEW o \in Ops, NEW c \in Calls, CallJunk(o, c)
    PROVE  TreeInv'
<1> DEFINE s == [op[o] EXCEPT !.state = IF c.kind \in Mutations THEN "ok" ELSE "failed",
                              !.call = c]
<1>1. /\ op[o].state = "new" /\ c.path \in Junk /\ op' = [op EXCEPT ![o] = s]
      /\ UNCHANGED <<requests, replies, pending, mailbox, caches, now, lost, peer>>
  BY DEF CallJunk, Called
<1>2. /\ mailbox[o] = None /\ o \notin pending
      /\ op[o] \in Operation /\ op[o].answer = None
      /\ op[o].asked <= now /\ op[o].stored <= now
  BY <1>1, NewOperation
<1>3. /\ s \in Operation /\ s.state \in {"ok", "failed"} /\ s.call = c /\ s.answer = None
      /\ s.asked = op[o].asked /\ s.stored = op[o].stored
  BY <1>2 DEF Operation
<1> HIDE DEF s
<1>4. Proper(s) /\ Shown(s)
  BY <1>1, <1>2, <1>3 DEF Proper, Shown
<1>5. UNCHANGED <<now, past, unread>>
  BY <1>1 DEF peer
<1>6. /\ HistoryGrows /\ CallsKept /\ OpsProper'
      /\ op' \in [Ops -> Operation] /\ op'[o] = s
      /\ \A u \in Ops \ {o} : op'[u] = op[u]
  BY <1>1, <1>3, <1>4, <1>5, OneOpMoves
<1>7. VariableTypes'
  BY <1>1, <1>6 DEF TreeInv, VariableTypes, caches, peer
<1>8. RequestsAsked' /\ RepliesRight' /\ CachesSound'
  BY <1>1, <1>6, RequestsKept, RepliesKept, CachesKept
<1>9. MailRight'
  BY <1>1, <1>2, <1>6, OneMailEmpty
<1>10. PendingIsWaiting'
  BY <1>1, <1>2, <1>3, <1>6 DEF TreeInv, PendingIsWaiting
<1> QED
  BY <1>6, <1>7, <1>8, <1>9, <1>10 DEF TreeInv

\* A listing or an entry is answered from the cache.
LEMMA CallCachedPreserves ==
    ASSUME TreeInv, NEW o \in Ops, NEW c \in Calls, CallCached(o, c)
    PROVE  TreeInv'
<1> DEFINE entry == CacheOf(c)
           s == [state |-> "ok", call |-> c, answer |-> entry.data, asked |-> entry.asked,
                 stored |-> entry.expires - CacheTime, returned |-> now]
<1>1. /\ op[o].state = "new" /\ c.kind \in Looks /\ Valid(entry) /\ op' = [op EXCEPT ![o] = s]
      /\ UNCHANGED <<requests, replies, pending, mailbox, caches, now, lost, peer>>
  BY DEF CallCached, Called, Looks
<1>2. mailbox[o] = None /\ o \notin pending /\ now \in Nat /\ now \in Times
  BY <1>1, NewOperation
<1>3. /\ entry \in CachedAnswer(c.kind) /\ Sound(c.kind, c.path, entry)
      /\ entry # None /\ entry.expires > now
  <2>1. /\ c.kind = "list" => c.path \in Directories
        /\ c.kind = "stat" => c.path \in Paths
    BY TreeAssumption DEF Call
  <2>2. CASE c.kind = "list"
    BY <1>1, <2>1, <2>2 DEF CacheOf, Valid, TreeInv, VariableTypes, CachesSound
  <2>3. CASE c.kind = "stat"
    BY <1>1, <2>1, <2>3 DEF CacheOf, Valid, TreeInv, VariableTypes, CachesSound
  <2> QED
    BY <1>1, <2>2, <2>3 DEF Looks
<1> HIDE DEF entry
<1>4. /\ entry.data \in AnswerOf(c.kind) /\ entry.expires \in Nat /\ entry.asked \in 0 .. MaxTime
      /\ entry.expires - CacheTime <= now
      /\ WasTrue(past, unread, c.kind, c.path, entry.data, entry.asked, entry.expires - CacheTime)
  BY <1>3 DEF CachedAnswer, Sound
<1>5. /\ entry.expires - CacheTime \in Times /\ entry.asked <= now
      /\ now < (entry.expires - CacheTime) + CacheTime
  <2>1. PICK i \in entry.asked .. entry.expires - CacheTime : TRUE
    BY <1>4 DEF WasTrue
  <2> QED
    BY <1>2, <1>3, <1>4, <2>1, BoundsAssumption DEF Times
<1>6. entry.data \in Answers
  BY <1>4 DEF AnswerOf, Answers
<1>7. s \in Operation
  BY <1>2, <1>4, <1>5, <1>6 DEF Operation, Times
<1>8. Proper(s) /\ Shown(s)
  BY <1>1, <1>4, <1>5 DEF Proper, Shown
<1>9. s.state = "ok"
  OBVIOUS
<1> HIDE DEF s
<1>10. UNCHANGED <<now, past, unread>>
  BY <1>1 DEF peer
<1>11. /\ HistoryGrows /\ CallsKept /\ OpsProper'
       /\ op' \in [Ops -> Operation] /\ op'[o] = s
       /\ \A u \in Ops \ {o} : op'[u] = op[u]
  BY <1>1, <1>7, <1>8, <1>10, OneOpMoves
<1>12. VariableTypes'
  BY <1>1, <1>11 DEF TreeInv, VariableTypes, caches, peer
<1>13. RequestsAsked' /\ RepliesRight' /\ CachesSound'
  BY <1>1, <1>11, RequestsKept, RepliesKept, CachesKept
<1>14. MailRight'
  BY <1>1, <1>2, <1>11, OneMailEmpty
<1>15. PendingIsWaiting'
  BY <1>1, <1>2, <1>9, <1>11 DEF TreeInv, PendingIsWaiting
<1> QED
  BY <1>11, <1>12, <1>13, <1>14, <1>15 DEF TreeInv

\* The peer is asked.
LEMMA CallPeerPreserves ==
    ASSUME TreeInv, NEW o \in Ops, NEW c \in Calls, CallPeer(o, c)
    PROVE  TreeInv'
<1> DEFINE s == [op[o] EXCEPT !.state = "waiting", !.call = c, !.asked = now]
           r == [id |-> o, call |-> c]
<1>1. /\ op[o].state = "new" /\ Forget(c) /\ pending' = pending \cup {o}
      /\ requests' = Append(requests, r) /\ op' = [op EXCEPT ![o] = s]
      /\ UNCHANGED <<replies, mailbox, now, lost, peer>>
  BY DEF CallPeer, Called, Registered
<1>2. /\ mailbox[o] = None /\ op[o] \in Operation /\ op[o].answer = None
      /\ now \in Nat /\ now \in Times /\ op[o].stored <= now
  BY <1>1, NewOperation
<1>3. /\ s \in Operation /\ s.state = "waiting" /\ s.call = c /\ s.answer = None
      /\ s.asked = now /\ s.stored = op[o].stored
  BY <1>2 DEF Operation
<1> HIDE DEF s
<1>4. Proper(s) /\ Shown(s)
  BY <1>2, <1>3 DEF Proper, Shown
<1>5. UNCHANGED <<now, past, unread>>
  BY <1>1 DEF peer
<1>6. /\ HistoryGrows /\ CallsKept /\ OpsProper'
      /\ op' \in [Ops -> Operation] /\ op'[o] = s
      /\ \A u \in Ops \ {o} : op'[u] = op[u]
  BY <1>1, <1>3, <1>4, <1>5, OneOpMoves
<1>7. r \in Request
  BY DEF Request
<1>8. /\ requests' \in Seq(Request)
      /\ \A i \in DOMAIN requests' : (i \in DOMAIN requests /\ requests'[i] = requests[i])
                                       \/ requests'[i] = r
  BY <1>1, <1>7, QueueMore DEF TreeInv, VariableTypes
<1>9. RequestsAsked'
  <2>1. r.id = o /\ r.call = c
    OBVIOUS
  <2> HIDE DEF r
  <2>2. Asked(r)'
    BY <1>3, <1>6, <2>1 DEF Asked
  <2>3. \A i \in DOMAIN requests : requests[i] \in Request /\ Asked(requests[i])
    BY ElementOfSeq DEF TreeInv, VariableTypes, RequestsAsked
  <2>4. \A x \in Request : Asked(x) => Asked(x)'
    BY <1>6, AskedKept
  <2>5. ASSUME NEW i \in DOMAIN requests'  PROVE Asked(requests[i])'
    <3>1. PICK x : x = requests'[i]
      OBVIOUS
    <3>2. Asked(x)'
      BY <1>8, <2>2, <2>3, <2>4, <3>1
    <3> QED
      BY <3>1, <3>2 DEF Asked
  <2> QED
    BY <2>5 DEF RequestsAsked
<1> HIDE DEF r
<1>10. /\ dir_cache' \in [Directories -> CachedAnswer("list") \cup {None}]
       /\ meta_cache' \in [Paths -> CachedAnswer("stat") \cup {None}]
       /\ \A dir \in Directories : dir_cache'[dir] \in {dir_cache[dir], None}
       /\ \A p \in Paths : meta_cache'[p] \in {meta_cache[p], None}
  BY <1>1 DEF Forget, TreeInv, VariableTypes
<1>11. CachesSound'
  BY <1>6, <1>10, EntriesKept DEF CachesSound
<1>12. pending' \subseteq Ops
  BY <1>1 DEF TreeInv, VariableTypes
<1>13. VariableTypes'
  BY <1>1, <1>6, <1>8, <1>10, <1>12 DEF TreeInv, VariableTypes, peer
<1>14. RepliesRight' /\ MailRight'
  BY <1>1, <1>2, <1>6, RepliesKept, OneMailEmpty
<1>15. PendingIsWaiting'
  BY <1>1, <1>3, <1>6 DEF TreeInv, PendingIsWaiting
<1> QED
  BY <1>6, <1>9, <1>11, <1>13, <1>14, <1>15 DEF TreeInv

-----------------------------------------------------------------------------
(* Replies and what the operations make of them.                           *)

LEMMA FeedPreserves == ASSUME TreeInv, FeedResponse PROVE TreeInv'
<1>1. /\ replies # <<>> /\ replies' = Tail(replies)
      /\ mailbox' = IF Head(replies).id \in pending
                    THEN [mailbox EXCEPT ![Head(replies).id] = Head(replies)] ELSE mailbox
      /\ UNCHANGED <<requests, pending, op, caches, now, lost, peer>>
  BY DEF FeedResponse, Routable
<1>2. /\ Head(replies) \in Reply /\ 1 \in DOMAIN replies /\ Head(replies) = replies[1]
      /\ replies' \in Seq(Reply)
      /\ \A i \in DOMAIN replies' : i + 1 \in DOMAIN replies /\ replies'[i] = replies[i + 1]
  BY <1>1, QueueRest DEF TreeInv, VariableTypes
<1>3. PICK r \in Reply : r = Head(replies)
  BY <1>2
<1>4. HistoryGrows /\ CallsKept
  BY <1>1 DEF HistoryGrows, CallsKept, CallKept, TreeInv, VariableTypes, Times, peer
<1>5. \A x \in Reply : Right(x) => Right(x)'
  BY <1>4, RightKept
<1>6. \A i \in DOMAIN replies : replies[i] \in Reply /\ Right(replies[i])
  BY ElementOfSeq DEF TreeInv, VariableTypes, RepliesRight
<1>7. RepliesRight'
  <2>1. ASSUME NEW i \in DOMAIN replies'  PROVE Right(replies[i])'
    <3>1. PICK x : x = replies'[i]
      OBVIOUS
    <3>2. Right(x)'
      BY <1>2, <1>5, <1>6, <3>1
    <3> QED
      BY <3>1, <3>2 DEF Right
  <2> QED
    BY <2>1 DEF RepliesRight
<1>8. Right(r)'
  BY <1>2, <1>3, <1>5, <1>6
<1>9. mailbox \in [Ops -> Reply \cup {None}]
  BY DEF TreeInv, VariableTypes
<1>10. /\ mailbox' \in [Ops -> Reply \cup {None}]
       /\ \A u \in Ops : \/ mailbox'[u] = mailbox[u]
                         \/ mailbox'[u] = r /\ u = r.id /\ u \in pending
  <2>1. mailbox' = IF r.id \in pending THEN [mailbox EXCEPT ![r.id] = r] ELSE mailbox
    BY <1>1, <1>3
  <2> QED
    BY <1>3, <1>9, <2>1
<1>11. MailRight'
  <2>1. ASSUME NEW u \in Ops
        PROVE  (mailbox[u] # None =>
                  mailbox[u].id = u /\ op[u].state = "waiting" /\ Right(mailbox[u]))'
    <3>1. CASE mailbox'[u] = mailbox[u]
      BY <1>1, <1>4, <3>1, OthersMailKept
    <3>2. CASE mailbox'[u] = r /\ u = r.id /\ u \in pending
      <4>1. op'[u].state = "waiting"
        BY <1>1, <3>2 DEF TreeInv, PendingIsWaiting
      <4>2. Right(mailbox[u])'
        BY <1>8, <3>2 DEF Right
      <4> QED
        BY <3>2, <4>1, <4>2
    <3> QED
      BY <1>10, <3>1, <3>2
  <2> QED
    BY <2>1 DEF MailRight
<1>12. VariableTypes'
  BY <1>1, <1>2, <1>10 DEF TreeInv, VariableTypes, caches, peer
<1>13. RequestsAsked' /\ CachesSound' /\ OpsProper'
  BY <1>1, <1>4, RequestsKept, CachesKept, OpsKept
<1>14. PendingIsWaiting'
  BY <1>1 DEF TreeInv, PendingIsWaiting
<1> QED
  BY <1>7, <1>11, <1>12, <1>13, <1>14 DEF TreeInv
\* An operation that waits has nothing but what it was called for and asked.
LEMMA WaitingOperation ==
    ASSUME TreeInv, NEW o \in Ops, op[o].state = "waiting"
    PROVE  /\ op[o] \in Operation /\ op[o].answer = None /\ op[o].call \in Calls
           /\ now \in Nat /\ now \in Times /\ op[o].asked \in Nat
           /\ op[o].asked <= now /\ op[o].stored <= now
           /\ mailbox[o] # None => mailbox[o] \in Reply /\ mailbox[o].id = o /\ Right(mailbox[o])
BY DEF TreeInv, VariableTypes, MailRight, OpsProper, Proper, Operation, Times

\* It stops waiting, with a record that is proper and right, and is forgotten.
LEMMA OneOpStops ==
    ASSUME TreeInv, NEW o \in Ops, op[o].state = "waiting",
           NEW s \in Operation, s.state \in {"ok", "failed", "cancelled"},
           s.call = op[o].call, s.asked = op[o].asked, Proper(s), Shown(s),
           op' = [op EXCEPT ![o] = s], pending' = Dropped(o),
           mailbox' = [mailbox EXCEPT ![o] = None],
           UNCHANGED <<requests, replies, now, lost, peer>>,
           dir_cache' \in [Directories -> CachedAnswer("list") \cup {None}],
           meta_cache' \in [Paths -> CachedAnswer("stat") \cup {None}],
           CachesSound'
    PROVE  TreeInv'
<1>1. UNCHANGED <<now, past, unread>>
  BY DEF peer
<1>2. /\ HistoryGrows /\ CallsKept /\ OpsProper'
      /\ op' \in [Ops -> Operation] /\ op'[o] = s
      /\ \A u \in Ops \ {o} : op'[u] = op[u]
  BY <1>1, OneOpMoves
<1>3. mailbox \in [Ops -> Reply \cup {None}] /\ pending \subseteq Ops
  BY DEF TreeInv, VariableTypes
<1>4. /\ mailbox' \in [Ops -> Reply \cup {None}] /\ pending' \subseteq Ops
      /\ mailbox'[o] = None /\ \A u \in Ops \ {o} : mailbox'[u] = mailbox[u]
  BY <1>3 DEF Dropped
<1>5. VariableTypes'
  BY <1>2, <1>4 DEF TreeInv, VariableTypes, peer
<1>6. RequestsAsked' /\ RepliesRight' /\ MailRight'
  BY <1>2, <1>4, RequestsKept, RepliesKept, OneMailEmpty
<1>7. PendingIsWaiting'
  BY <1>2 DEF TreeInv, PendingIsWaiting, Dropped
<1> QED
  BY <1>2, <1>5, <1>6, <1>7 DEF TreeInv

\* What is cached at the moment it arrives is sound from then on.
LEMMA CachedIsSound ==
    ASSUME TreeInv, HistoryGrows, UNCHANGED now, NEW kind, NEW path, NEW data \in AnswerOf(kind),
           NEW asked \in Nat, asked <= now,
           WasTrue(past, unread, kind, path, data, asked, now),
           NEW entry, entry = Cached(data, asked)
    PROVE  entry \in CachedAnswer(kind) /\ Sound(kind, path, entry)'
<1>1. now \in Nat /\ now <= MaxTime /\ MaxTime \in Nat /\ CacheTime \in Nat
  BY BoundsAssumption DEF TreeInv, VariableTypes, Times
<1>2. /\ entry.data = data /\ entry.asked = asked /\ entry.expires = now + CacheTime
      /\ entry.expires - CacheTime = now
  BY <1>1 DEF Cached
<1>3. entry \in CachedAnswer(kind)
  BY <1>1 DEF Cached, CachedAnswer
<1>4. WasTrue(past', unread', kind, path, data, asked, now)
  BY <1>1, TruthKept
<1>5. Sound(kind, path, entry)'
  BY <1>1, <1>2, <1>4 DEF Sound
<1> QED
  BY <1>3, <1>5

LEMMA EntriesArrivePreserves ==
    ASSUME TreeInv, NEW o \in Ops, Resume(o), EntriesArrive(o, mailbox[o].result)
    PROVE  TreeInv'
<1>1. PICK c : c = op[o].call
  OBVIOUS
<1>2. PICK asked : asked = op[o].asked
  OBVIOUS
<1>3. PICK listing : listing = mailbox[o].result
  OBVIOUS
<1> DEFINE named(p) == \E e \in EntryType : <<p, e>> \in listing
           entry(p) == CHOOSE e \in EntryType : <<p, e>> \in listing
           s == [state |-> "ok", call |-> c, answer |-> listing,
                 asked |-> asked, stored |-> now, returned |-> now]
<1>4. /\ op[o].state = "waiting" /\ mailbox[o] # None /\ c.kind = "list"
      /\ dir_cache' = [dir_cache EXCEPT ![c.path] = Cached(listing, asked)]
      /\ meta_cache' = [p \in Paths |-> IF named(p) THEN Cached(entry(p), asked)
                                        ELSE meta_cache[p]]
      /\ op' = [op EXCEPT ![o] = s]
      /\ pending' = Dropped(o) /\ mailbox' = [mailbox EXCEPT ![o] = None]
      /\ UNCHANGED <<requests, replies, now, lost, peer>>
  BY <1>1, <1>2, <1>3 DEF Resume, EntriesArrive, Return
<1>5. /\ c \in Calls /\ now \in Nat /\ now \in Times /\ asked \in Nat /\ asked <= now
      /\ Right(mailbox[o]) /\ mailbox[o].id = o
      /\ asked \in Times
  BY <1>1, <1>2, <1>4, WaitingOperation DEF Operation
<1>6. c.path \in Directories
  BY <1>4, <1>5, TreeAssumption DEF Call
<1>7. WasTrue(past, unread, "list", c.path, listing, asked, now)
  BY <1>1, <1>2, <1>3, <1>4, <1>5 DEF Right, Looks
<1>8. PICK i \in asked .. now : \E t \in past[i] :
        listing \in Tellable("list", c.path, t, <<i, "list", c.path>> \in unread)
  BY <1>7 DEF WasTrue
<1>9. PICK t \in past[i] :
        listing \in Tellable("list", c.path, t, <<i, "list", c.path>> \in unread)
  BY <1>8
<1>10. t \in Trees /\ listing \subseteq Listing(t, c.path)
  <2>1. i \in Times
    BY <1>5, <1>8, BoundsAssumption DEF Times
  <2>2. t \in Trees
    BY <1>9, <2>1 DEF TreeInv, VariableTypes
  <2> QED
    BY <1>4, <1>5, <1>9, <2>2, TellableType DEF Looks
<1>11. listing \in Answers /\ listing \in AnswerOf("list")
  <2>1. listing \subseteq Paths \X EntryType
    BY <1>10, ListingTells DEF Listing, Children, Trees
  <2> QED
    BY <2>1 DEF Answers, AnswerOf
<1>12. s \in Operation /\ s.state = "ok" /\ s.call = c /\ s.asked = asked
  BY <1>5, <1>11 DEF Operation
<1>13. Proper(s) /\ Shown(s)
  BY <1>4, <1>5, <1>7, <1>11, BoundsAssumption DEF Proper, Shown
<1> HIDE DEF s
<1>14. HistoryGrows
  BY <1>4, SamePast DEF peer
<1>15. /\ dir_cache' \in [Directories -> CachedAnswer("list") \cup {None}]
       /\ \A dir \in Directories : Sound("list", dir, dir_cache[dir])'
  <2>1. PICK e : e = Cached(listing, asked)
    OBVIOUS
  <2>2. e \in CachedAnswer("list") /\ Sound("list", c.path, e)'
    BY <1>4, <1>5, <1>7, <1>11, <1>14, <2>1, CachedIsSound
  <2>3. /\ dir_cache' \in [Directories -> CachedAnswer("list") \cup {None}]
        /\ dir_cache'[c.path] = e
        /\ \A dir \in Directories \ {c.path} : dir_cache'[dir] = dir_cache[dir]
    BY <1>4, <1>6, <2>1, <2>2 DEF TreeInv, VariableTypes
  <2>4. Sound("list", c.path, dir_cache[c.path])'
    BY <2>2, <2>3 DEF Sound
  <2>5. \A dir \in Directories \ {c.path} : Sound("list", dir, dir_cache[dir])'
    BY <1>14, <2>3, EntriesKept
  <2> QED
    BY <2>3, <2>4, <2>5
<1>16. ASSUME NEW p \in Paths
       PROVE  /\ meta_cache'[p] \in CachedAnswer("stat") \cup {None}
              /\ Sound("stat", p, meta_cache[p])'
  <2>1. CASE named(p)
    <3>1. PICK x \in EntryType : <<p, x>> \in listing
      BY <2>1
    <3>2. PICK e : e = entry(p)
      OBVIOUS
    <3>3. e \in EntryType /\ <<p, e>> \in listing
      BY <3>1, <3>2
    <3>4. e = Truth("stat", p, t) /\ e \in AnswerOf("stat")
      BY <1>10, <3>3, ListingTells DEF Truth, AnswerOf
    <3>5. WasTrue(past, unread, "stat", p, e, asked, now)
      BY <1>8, <1>9, <3>4 DEF WasTrue, Tellable
    <3>6. PICK kept : kept = Cached(e, asked)
      OBVIOUS
    <3>7. kept \in CachedAnswer("stat") /\ Sound("stat", p, kept)'
      BY <1>4, <1>5, <1>14, <3>4, <3>5, <3>6, CachedIsSound
    <3>8. meta_cache'[p] = kept
      BY <1>4, <2>1, <3>2, <3>6
    <3> QED
      BY <3>7, <3>8 DEF Sound
  <2>2. CASE ~named(p)
    <3>1. meta_cache'[p] = meta_cache[p]
      BY <1>4, <2>2
    <3> QED
      BY <1>14, <3>1, EntriesKept DEF TreeInv, VariableTypes
  <2> QED
    BY <2>1, <2>2
<1>17. meta_cache' \in [Paths -> CachedAnswer("stat") \cup {None}]
  <2>1. meta_cache' = [p \in Paths |-> meta_cache'[p]]
    BY <1>4
  <2> QED
    BY <1>16, <2>1
<1>18. CachesSound'
  BY <1>15, <1>16 DEF CachesSound
<1> QED
  BY <1>1, <1>2, <1>4, <1>12, <1>13, <1>15, <1>17, <1>18, OneOpStops
LEMMA MetadataArrivesPreserves ==
    ASSUME TreeInv, NEW o \in Ops, Resume(o), MetadataArrives(o, mailbox[o].result)
    PROVE  TreeInv'
<1>1. PICK c : c = op[o].call
  OBVIOUS
<1>2. PICK asked : asked = op[o].asked
  OBVIOUS
<1>3. PICK entry : entry = mailbox[o].result
  OBVIOUS
<1> DEFINE s == [state |-> IF entry = None THEN "failed" ELSE "ok", call |-> c,
                 answer |-> entry, asked |-> asked, stored |-> now, returned |-> now]
<1>4. /\ op[o].state = "waiting" /\ mailbox[o] # None /\ c.kind = "stat"
      /\ meta_cache' = IF entry = None THEN meta_cache
                       ELSE [meta_cache EXCEPT ![c.path] = Cached(entry, asked)]
      /\ dir_cache' = dir_cache
      /\ op' = [op EXCEPT ![o] = s]
      /\ pending' = Dropped(o) /\ mailbox' = [mailbox EXCEPT ![o] = None]
      /\ UNCHANGED <<requests, replies, now, lost, peer>>
  BY <1>1, <1>2, <1>3 DEF Resume, MetadataArrives, Return
<1>5. /\ c \in Calls /\ now \in Nat /\ now \in Times /\ asked \in Nat /\ asked <= now
      /\ Right(mailbox[o]) /\ mailbox[o].id = o
      /\ asked \in Times
  BY <1>1, <1>2, <1>4, WaitingOperation DEF Operation
<1>6. c.path \in Paths
  BY <1>4, <1>5, TreeAssumption DEF Call
<1>7. WasTrue(past, unread, "stat", c.path, entry, asked, now)
  BY <1>1, <1>2, <1>3, <1>4, <1>5 DEF Right, Looks
<1>8. PICK i \in asked .. now : \E t \in past[i] :
        entry \in Tellable("stat", c.path, t, <<i, "stat", c.path>> \in unread)
  BY <1>7 DEF WasTrue
<1>9. PICK t \in past[i] :
        entry \in Tellable("stat", c.path, t, <<i, "stat", c.path>> \in unread)
  BY <1>8
<1>10. t \in Trees
  <2>1. i \in Times
    BY <1>5, <1>8, BoundsAssumption DEF Times
  <2> QED
    BY <1>9, <2>1 DEF TreeInv, VariableTypes
<1>11. entry \in Answers /\ (entry # None => entry \in AnswerOf("stat"))
  BY <1>4, <1>5, <1>9, <1>10, TellableType DEF Looks
<1>12. s \in Operation /\ s.state \in {"ok", "failed"} /\ s.call = c /\ s.asked = asked
  BY <1>5, <1>11 DEF Operation
<1>13. Proper(s) /\ Shown(s)
  BY <1>4, <1>5, <1>7, <1>11, BoundsAssumption DEF Proper, Shown
<1> HIDE DEF s
<1>14. HistoryGrows
  BY <1>4, SamePast DEF peer
<1>15. ASSUME entry # None
       PROVE  /\ meta_cache' \in [Paths -> CachedAnswer("stat") \cup {None}]
              /\ \A p \in Paths : Sound("stat", p, meta_cache[p])'
  <2>1. PICK e : e = Cached(entry, asked)
    OBVIOUS
  <2>2. e \in CachedAnswer("stat") /\ Sound("stat", c.path, e)'
    BY <1>4, <1>5, <1>7, <1>11, <1>14, <1>15, <2>1, CachedIsSound
  <2>3. /\ meta_cache' \in [Paths -> CachedAnswer("stat") \cup {None}]
        /\ meta_cache'[c.path] = e
        /\ \A p \in Paths \ {c.path} : meta_cache'[p] = meta_cache[p]
    BY <1>4, <1>6, <1>15, <2>1, <2>2 DEF TreeInv, VariableTypes
  <2>4. Sound("stat", c.path, meta_cache[c.path])'
    BY <2>2, <2>3 DEF Sound
  <2>5. \A p \in Paths \ {c.path} : Sound("stat", p, meta_cache[p])'
    BY <1>14, <2>3, EntriesKept
  <2> QED
    BY <2>3, <2>4, <2>5
<1>16. CASE entry = None
  <2>1. UNCHANGED caches
    BY <1>4, <1>16 DEF caches
  <2>2. CachesSound'
    BY <1>14, <2>1, CachesKept
  <2>3. /\ dir_cache' \in [Directories -> CachedAnswer("list") \cup {None}]
        /\ meta_cache' \in [Paths -> CachedAnswer("stat") \cup {None}]
    BY <2>1 DEF caches, TreeInv, VariableTypes
  <2> QED
    BY <1>1, <1>2, <1>4, <1>12, <1>13, <2>2, <2>3, OneOpStops
<1>17. CASE entry # None
  <2>1. dir_cache' \in [Directories -> CachedAnswer("list") \cup {None}]
    BY <1>4 DEF TreeInv, VariableTypes
  <2>2. \A dir \in Directories : Sound("list", dir, dir_cache[dir])'
    BY <1>4, <1>14, EntriesKept
  <2>3. CachesSound'
    BY <1>15, <1>17, <2>2 DEF CachesSound
  <2> QED
    BY <1>1, <1>2, <1>4, <1>12, <1>13, <1>15, <1>17, <2>1, <2>3, OneOpStops
<1> QED
  BY <1>16, <1>17

LEMMA MutationArrivesPreserves ==
    ASSUME TreeInv, NEW o \in Ops, Resume(o), MutationArrives(o, mailbox[o].result)
    PROVE  TreeInv'
<1>1. PICK state \in {"ok", "failed"} :
        state = IF mailbox[o].result THEN "ok" ELSE "failed"
  OBVIOUS
<1> DEFINE s == [state |-> state, call |-> op[o].call, answer |-> None,
                 asked |-> op[o].asked, stored |-> now, returned |-> now]
<1>2. /\ op[o].state = "waiting" /\ op[o].call.kind \in Mutations
      /\ op' = [op EXCEPT ![o] = s]
      /\ pending' = Dropped(o) /\ mailbox' = [mailbox EXCEPT ![o] = None]
      /\ UNCHANGED <<requests, replies, now, lost, peer>> /\ UNCHANGED caches
  BY <1>1 DEF Resume, MutationArrives, Return
<1>3. /\ op[o] \in Operation /\ op[o].call \in Calls /\ now \in Times /\ op[o].asked <= now
      /\ now \in Nat
  BY <1>2, WaitingOperation
<1>4. s \in Operation /\ s.state \in {"ok", "failed"}
  BY <1>3 DEF Operation, Answers
<1>5. Proper(s) /\ Shown(s)
  BY <1>2, <1>3 DEF Proper, Shown, Mutations, Looks
<1>6. s.call = op[o].call /\ s.asked = op[o].asked
  OBVIOUS
<1> HIDE DEF s
<1>7. HistoryGrows
  BY <1>2, SamePast DEF peer
<1>8. /\ CachesSound'
      /\ dir_cache' \in [Directories -> CachedAnswer("list") \cup {None}]
      /\ meta_cache' \in [Paths -> CachedAnswer("stat") \cup {None}]
  BY <1>2, <1>7, CachesKept DEF caches, TreeInv, VariableTypes
<1> QED
  BY <1>2, <1>4, <1>5, <1>6, <1>8, OneOpStops

LEMMA ResumePreserves == ASSUME TreeInv, NEW o \in Ops, Resume(o) PROVE TreeInv'
BY EntriesArrivePreserves, MetadataArrivesPreserves, MutationArrivesPreserves DEF Resume

LEMMA CancelPreserves == ASSUME TreeInv, NEW o \in Ops, Cancel(o) PROVE TreeInv'
<1> DEFINE s == [op[o] EXCEPT !.state = "cancelled"]
<1>1. /\ op[o].state = "waiting" /\ op' = [op EXCEPT ![o] = s]
      /\ pending' = Dropped(o) /\ mailbox' = [mailbox EXCEPT ![o] = None]
      /\ UNCHANGED <<requests, replies, now, lost, peer>> /\ UNCHANGED caches
  BY DEF Cancel
<1>2. /\ op[o] \in Operation /\ op[o].answer = None /\ op[o].call \in Calls
      /\ op[o].asked <= now /\ op[o].stored <= now
  BY <1>1, WaitingOperation
<1>3. /\ s \in Operation /\ s.state = "cancelled" /\ s.call = op[o].call
      /\ s.answer = None /\ s.asked = op[o].asked /\ s.stored = op[o].stored
  BY <1>2 DEF Operation
<1> HIDE DEF s
<1>4. Proper(s) /\ Shown(s)
  BY <1>2, <1>3 DEF Proper, Shown
<1>5. HistoryGrows
  BY <1>1, SamePast DEF peer
<1>6. /\ CachesSound'
      /\ dir_cache' \in [Directories -> CachedAnswer("list") \cup {None}]
      /\ meta_cache' \in [Paths -> CachedAnswer("stat") \cup {None}]
  BY <1>1, <1>5, CachesKept DEF caches, TreeInv, VariableTypes
<1> QED
  BY <1>1, <1>3, <1>4, <1>6, OneOpStops

LEMMA ClearPreserves == ASSUME TreeInv, ClearCaches PROVE TreeInv'
<1>1. UNCHANGED <<requests, replies, pending, mailbox, op, now, lost, peer>>
  BY DEF ClearCaches
<1>2. HistoryGrows /\ CallsKept
  BY <1>1, SamePast DEF peer, CallsKept, CallKept
<1>3. /\ dir_cache' \in [Directories -> CachedAnswer("list") \cup {None}]
      /\ meta_cache' \in [Paths -> CachedAnswer("stat") \cup {None}]
      /\ \A dir \in Directories : dir_cache'[dir] = None
      /\ \A p \in Paths : meta_cache'[p] = None
  BY DEF ClearCaches
<1>4. CachesSound'
  BY <1>2, <1>3, EntriesKept DEF CachesSound
<1>5. VariableTypes'
  BY <1>1, <1>3 DEF TreeInv, VariableTypes, peer
<1>6. RequestsAsked' /\ RepliesRight' /\ MailRight' /\ OpsProper'
  BY <1>1, <1>2, RequestsKept, RepliesKept, MailKept, OpsKept
<1>7. PendingIsWaiting'
  BY <1>1 DEF TreeInv, PendingIsWaiting
<1> QED
  BY <1>4, <1>5, <1>6, <1>7 DEF TreeInv

-----------------------------------------------------------------------------
(* The peer and the environment.                                           *)

\* A tree that the peer has now is remembered.
LEMMA RememberGrows ==
    ASSUME TreeInv, tree' \in Trees, Remember(tree'), now' = now, unread \subseteq unread'
    PROVE  HistoryGrows /\ tree' \in past'[now']
BY DEF TreeInv, VariableTypes, HistoryGrows, Remember, Times

LEMMA PeerAnswersPreserves == ASSUME TreeInv, PeerAnswers PROVE TreeInv'
<1>1. /\ requests # <<>> /\ requests' = Tail(requests)
      /\ tree' = Effect(Head(requests).call) /\ Remember(tree')
      /\ UNCHANGED <<pending, mailbox, op, caches, now, edits, lost>>
      /\ unread \subseteq unread'
  BY DEF PeerAnswers, ReadFails
<1>2. /\ Head(requests) \in Request /\ 1 \in DOMAIN requests /\ Head(requests) = requests[1]
      /\ requests' \in Seq(Request)
      /\ \A i \in DOMAIN requests' : i + 1 \in DOMAIN requests /\ requests'[i] = requests[i + 1]
  BY <1>1, QueueRest DEF TreeInv, VariableTypes
<1>3. PICK r \in Request : r = Head(requests)
  BY <1>2
<1>4. Asked(r) /\ r.id \in Ops /\ r.call \in Calls
  BY <1>2, <1>3 DEF TreeInv, RequestsAsked, Request
<1>5. /\ Effect(r.call) \in Trees /\ Result(r.call) \in Answers \cup BOOLEAN
      /\ r.call.kind \in Looks => Effect(r.call) = tree
  BY <1>4, EffectType DEF TreeInv, VariableTypes
<1>17. PICK result :
        /\ replies' = Append(replies, [id |-> r.id, result |-> result])
        /\ \/ result = Result(r.call)
           \/ /\ r.call.kind \notin Mutations
              /\ <<now, r.call.kind, r.call.path>> \in unread'
              /\ result \in Tellable(r.call.kind, r.call.path, tree, TRUE)
  BY <1>3 DEF PeerAnswers, ReadFails
<1>18. r.call.kind \notin Mutations => r.call.kind \in Looks
  BY <1>4, TreeAssumption DEF Call, Mutations, Looks
<1>19. result \in Answers \cup BOOLEAN
  BY <1>4, <1>5, <1>17, <1>18, TellableType DEF TreeInv, VariableTypes
<1>6. PICK answer \in Reply : answer = [id |-> r.id, result |-> result]
  BY <1>4, <1>19 DEF Reply
<1>7. tree' \in Trees
  BY <1>1, <1>3, <1>5
<1>8. HistoryGrows /\ tree' \in past'[now'] /\ now' = now
  BY <1>1, <1>7, RememberGrows
<1>9. CallsKept
  BY <1>1 DEF CallsKept, CallKept
<1>10. Right(answer)'
  <2>1. /\ answer.id = r.id /\ answer.result = result
        /\ op[r.id].state # "new" /\ op[r.id].call = r.call /\ op'[r.id] = op[r.id]
    BY <1>1, <1>4, <1>6 DEF Asked
  <2>2. op[r.id].asked \in Nat /\ op[r.id].asked <= now /\ now \in Nat
    BY <1>4 DEF TreeInv, VariableTypes, Operation, OpsProper, Proper, Times
  <2>3. ASSUME r.call.kind \in Looks
        PROVE  WasTrue(past', unread', r.call.kind, r.call.path, answer.result, op[r.id].asked, now')
    <3>1. result \in Tellable(r.call.kind, r.call.path, tree',
                             <<now', r.call.kind, r.call.path>> \in unread')
      <4>1. Result(r.call) = Truth(r.call.kind, r.call.path, tree) /\ tree' = tree
        BY <1>1, <1>3, <1>5, <2>3 DEF Result, Mutations, Looks
      <4> QED
        BY <1>8, <1>17, <4>1 DEF Tellable
    <3>2. now' \in op[r.id].asked .. now'
      BY <1>8, <2>2
    <3> QED
      BY <1>8, <2>1, <3>1, <3>2 DEF WasTrue
  <2> QED
    BY <2>1, <2>3 DEF Right
<1>11. /\ replies' \in Seq(Reply)
       /\ \A i \in DOMAIN replies' : (i \in DOMAIN replies /\ replies'[i] = replies[i])
                                       \/ replies'[i] = answer
  BY <1>6, <1>17, QueueMore DEF TreeInv, VariableTypes
<1>12. RepliesRight'
  <2>1. \A x \in Reply : Right(x) => Right(x)'
    BY <1>8, <1>9, RightKept
  <2>2. \A i \in DOMAIN replies : replies[i] \in Reply /\ Right(replies[i])
    BY ElementOfSeq DEF TreeInv, VariableTypes, RepliesRight
  <2>3. ASSUME NEW i \in DOMAIN replies'  PROVE Right(replies[i])'
    <3>1. PICK x : x = replies'[i]
      OBVIOUS
    <3>2. Right(x)'
      BY <1>10, <1>11, <2>1, <2>2, <3>1
    <3> QED
      BY <3>1, <3>2 DEF Right
  <2> QED
    BY <2>3 DEF RepliesRight
<1>13. RequestsAsked'
  <2>1. \A i \in DOMAIN requests : requests[i] \in Request /\ Asked(requests[i])
    BY ElementOfSeq DEF TreeInv, VariableTypes, RequestsAsked
  <2>2. \A i \in DOMAIN requests' : op[requests'[i].id].state # "new"
                                      /\ requests'[i].call = op[requests'[i].id].call
    BY <1>2, <2>1 DEF Asked
  <2> QED
    BY <1>1, <2>2 DEF RequestsAsked, Asked
<1>14. VariableTypes'
  BY <1>1, <1>2, <1>7, <1>8, <1>11 DEF TreeInv, VariableTypes, HistoryGrows, caches
<1>15. MailRight' /\ CachesSound' /\ OpsProper'
  BY <1>1, <1>8, MailKept, CachesKept, OpsKept
<1>16. PendingIsWaiting'
  BY <1>1 DEF TreeInv, PendingIsWaiting
<1> QED
  BY <1>12, <1>13, <1>14, <1>15, <1>16 DEF TreeInv

\* A step that only grows the history keeps the rest.
LEMMA QuietStep ==
    ASSUME TreeInv, HistoryGrows, VariableTypes',
           UNCHANGED <<requests, replies, pending, mailbox, op, caches>>
    PROVE  TreeInv'
<1>1. CallsKept
  BY DEF CallsKept, CallKept
<1>2. RequestsAsked' /\ RepliesRight' /\ MailRight' /\ CachesSound' /\ OpsProper'
  BY <1>1, RequestsKept, RepliesKept, MailKept, CachesKept, OpsKept
<1>3. PendingIsWaiting'
  BY DEF TreeInv, PendingIsWaiting
<1> QED
  BY <1>2, <1>3 DEF TreeInv

LEMMA OthersEditPreserves == ASSUME TreeInv, NEW p \in Paths, OthersEdit(p) PROVE TreeInv'
<1>1. /\ edits < MaxEdits /\ edits' = edits + 1
      /\ UNCHANGED <<requests, replies, pending, mailbox, op, caches, now, lost, unread>>
      /\ Remember(tree')
  BY DEF OthersEdit
<1>2. tree \in Trees
  BY DEF TreeInv, VariableTypes
<1>3. tree' \in Trees
  <2>1. CASE \E e \in EntryType : tree' = [tree EXCEPT ![p] = e]
    BY <1>2, <2>1 DEF Trees
  <2>2. CASE tree' = Removed(tree, p)
    BY <1>2, <2>2, RemovedType
  <2> QED
    BY <2>1, <2>2 DEF OthersEdit
<1>4. HistoryGrows
  BY <1>1, <1>3, RememberGrows
<1>5. edits' \in 0 .. MaxEdits
  BY <1>1, BoundsAssumption DEF TreeInv, VariableTypes
<1>6. VariableTypes'
  BY <1>1, <1>3, <1>4, <1>5 DEF TreeInv, VariableTypes, HistoryGrows, caches
<1> QED
  BY <1>1, <1>4, <1>6, QuietStep

LEMMA TickPreserves == ASSUME TreeInv, Tick PROVE TreeInv'
<1>1. /\ now < MaxTime /\ now' = now + 1 /\ past' = [past EXCEPT ![now + 1] = {tree}]
      /\ UNCHANGED <<tree, requests, replies, pending, mailbox, op, caches, edits, lost, unread>>
  BY DEF Tick
<1>2. /\ now \in 0 .. MaxTime /\ MaxTime \in Nat /\ tree \in Trees
      /\ past \in [Times -> SUBSET Trees]
  BY BoundsAssumption DEF TreeInv, VariableTypes, Times
<1>3. HistoryGrows
  <2>1. now' \in Times /\ now <= now' /\ \A i \in 0 .. now : i # now + 1
    BY <1>1, <1>2 DEF Times
  <2>2. past' \in [Times -> SUBSET Trees]
    BY <1>1, <1>2
  <2>3. \A i \in 0 .. now : i \in Times
    BY <1>2 DEF Times
  <2>4. \A i \in 0 .. now : past'[i] = past[i]
    BY <1>1, <1>2, <2>1, <2>3
  <2> QED
    BY <1>1, <2>1, <2>2, <2>4 DEF HistoryGrows
<1>4. VariableTypes'
  BY <1>1, <1>3 DEF TreeInv, VariableTypes, HistoryGrows, caches
<1> QED
  BY <1>1, <1>3, <1>4, QuietStep

LEMMA DisconnectPreserves == ASSUME TreeInv, Disconnect PROVE TreeInv'
<1>1. /\ requests' = <<>> /\ replies' = <<>> /\ lost' = TRUE
      /\ UNCHANGED <<pending, mailbox, op, caches, now, peer>>
  BY DEF Disconnect
<1>2. HistoryGrows
  BY <1>1, SamePast DEF peer
<1>3. VariableTypes' /\ RequestsAsked' /\ RepliesRight'
  BY <1>1 DEF TreeInv, VariableTypes, RequestsAsked, RepliesRight, caches, peer
<1>4. MailRight' /\ CachesSound' /\ OpsProper'
  BY <1>1, <1>2, MailKept, CachesKept, OpsKept
<1>5. PendingIsWaiting'
  BY <1>1 DEF TreeInv, PendingIsWaiting
<1> QED
  BY <1>3, <1>4, <1>5 DEF TreeInv

-----------------------------------------------------------------------------
(* The theorems.                                                           *)

LEMMA TreeInit == Init => TreeInv
<1> SUFFICES ASSUME Init PROVE TreeInv
  OBVIOUS
<1>1. NewOp \in Operation
  BY BoundsAssumption DEF NewOp, Operation, Answers, Times
<1>2. /\ NewOp.state = "new" /\ NewOp.answer = None /\ NewOp.asked = 0 /\ NewOp.stored = 0
  BY DEF NewOp
<1>3. now = 0 /\ \A o \in Ops : op[o] = NewOp
  BY DEF Init
<1>4. VariableTypes
  <2> MaxTime \in Nat /\ MaxEdits \in Nat
    BY BoundsAssumption
  <2>1. now \in Times /\ edits \in 0 .. MaxEdits /\ tree \in Trees
    BY TreeAssumption DEF Init, Times, Trees
  <2>2. past \in [Times -> SUBSET Trees]
    BY <2>1 DEF Init, Times
  <2>3. op \in [Ops -> Operation]
    BY <1>1 DEF Init
  <2>4. /\ mailbox \in [Ops -> Reply \cup {None}]
        /\ dir_cache \in [Directories -> CachedAnswer("list") \cup {None}]
        /\ meta_cache \in [Paths -> CachedAnswer("stat") \cup {None}]
    BY DEF Init
  <2>5. /\ lost \in BOOLEAN
        /\ requests = <<>> /\ replies = <<>> /\ pending = {}
        /\ unread = {}
    BY DEF Init
  <2> QED
    BY <2>1, <2>2, <2>3, <2>4, <2>5 DEF VariableTypes
<1>5. RequestsAsked /\ RepliesRight /\ MailRight /\ CachesSound
  BY DEF Init, RequestsAsked, RepliesRight, MailRight, CachesSound, Sound
<1>6. OpsProper
  <2>1. Proper(NewOp) /\ Shown(NewOp)
    BY <1>2, <1>3 DEF Proper, Shown
  <2> QED
    BY <1>3, <2>1 DEF OpsProper
<1>7. PendingIsWaiting
  BY <1>2 DEF Init, PendingIsWaiting
<1> QED
  BY <1>4, <1>5, <1>6, <1>7 DEF TreeInv

LEMMA TreeNext == TreeInv /\ [Next]_vars => TreeInv'
<1> SUFFICES ASSUME TreeInv, [Next]_vars PROVE TreeInv'
  OBVIOUS
<1>1. CASE UNCHANGED vars
  <2>1. HistoryGrows
    BY <1>1, SamePast DEF vars
  <2>2. VariableTypes'
    BY <1>1 DEF vars, TreeInv, VariableTypes
  <2> QED
    BY <1>1, <2>1, <2>2, QuietStep DEF vars, caches
<1>2. CASE Next
  BY <1>2, CallJunkPreserves, CallCachedPreserves, CallPeerPreserves, ResumePreserves,
     CancelPreserves, FeedPreserves, ClearPreserves, PeerAnswersPreserves,
     OthersEditPreserves, DisconnectPreserves, TickPreserves DEF Next
<1> QED
  BY <1>1, <1>2

\* The inductive invariant holds in every reachable state.
THEOREM TreeInvariant == Spec => []TreeInv
BY TreeInit, TreeNext, PTL DEF Spec

\* Every state of the bridge and the peer is well typed, and an operation has a
\* reply only while it waits.
THEOREM TreeTypeCorrect == Spec => []TypeOK
<1>1. TreeInv => TypeOK
  <2> SUFFICES ASSUME TreeInv PROVE TypeOK
    OBVIOUS
  <2>1. \A o \in Ops : op[o].state \in {"new", "waiting", "ok", "failed", "cancelled"}
    BY DEF TreeInv, VariableTypes, Operation
  <2>2. \A o \in Ops : op[o].answer # None => op[o].answer \in AnswerOf(op[o].call.kind)
    BY DEF TreeInv, OpsProper, Proper
  <2>3. \A o \in Ops : mailbox[o] # None => mailbox[o].id = o /\ op[o].state = "waiting"
    BY DEF TreeInv, MailRight
  <2>4. /\ \A x \in Directories : dir_cache[x] # None => dir_cache[x] \in CachedAnswer("list")
        /\ \A p \in Paths : meta_cache[p] # None => meta_cache[p] \in CachedAnswer("stat")
    BY DEF TreeInv, VariableTypes
  <2> QED
    BY <2>1, <2>2, <2>3, <2>4 DEF TypeOK, TreeInv, VariableTypes, Trees, Times
<1> QED
  BY <1>1, TreeInvariant, PTL

\* The table of pending requests (PENDING and its guards) holds exactly the
\* operations that wait, however they end.
THEOREM PendingCorrect == Spec => []PendingIsWaiting
<1>1. TreeInv => PendingIsWaiting
  BY DEF TreeInv
<1> QED
  BY <1>1, TreeInvariant, PTL

\* What an operation shows the file manager, from a reply or from a cache, is
\* what the peer had after the request was sent, stored less than CacheTime ago.
THEOREM AnswersCorrect == Spec => []AnswersWereTrue
<1>1. TreeInv => AnswersWereTrue
  BY DEF TreeInv, OpsProper, Shown, Looks, WasTrue, AnswersWereTrue
<1> QED
  BY <1>1, TreeInvariant, PTL


=============================================================================
