------------------------- MODULE SharedFoldersProofs ------------------------
(***************************************************************************)
(* Proofs about what a node shares from its disk: that the paths and       *)
(* parents a peer is told lead back to the entries the handler acted on,   *)
(* and that links and names with a drive are all that leads out of the     *)
(* shares (SharePaths), for any shares, links, names and requests; and     *)
(* that a comparison of folders (SyncFolder) is right about every file     *)
(* nobody changed, for any files, resources and interleaving of the scans. *)
(***************************************************************************)
EXTENDS MCSharedFolders, SequenceTheorems, WellFoundedInduction, TLAPS

-----------------------------------------------------------------------------
(* Local paths.                                                            *)

LocalPath == Seq(LocalNames)
Shared == [name : LocalNames, path : LocalPath]

\* A set of numbers that is not empty has a least one.
LEMMA LeastNumber ==
    ASSUME NEW T, T \subseteq Nat, T # {}
    PROVE  \E i \in T : \A j \in T : i <= j
<1> DEFINE R == OpToRel(<, Nat)
<1>1. IsWellFoundedOn(R, Nat)
  BY NatLessThanWellFounded
<1>2. \A i, j \in Nat : <<i, j>> \in R <=> i < j
  BY DEF OpToRel
<1> HIDE DEF R
<1>3. PICK i \in T : \A j \in T : ~(<<j, i>> \in R)
  BY <1>1, WFMin
<1>4. ASSUME NEW j \in T  PROVE i <= j
  <2>1. i \in Nat /\ j \in Nat
    OBVIOUS
  <2>2. ~(j < i)
    BY <1>2, <1>3, <2>1
  <2> QED
    BY <2>1, <2>2
<1> QED
  BY <1>4

LEMMA FrontType ==
    ASSUME NEW S, NEW s \in Seq(S), s # <<>>
    PROVE  /\ Front(s) \in Seq(S) /\ Len(Front(s)) = Len(s) - 1
           /\ \A i \in 1 .. Len(s) - 1 : Front(s)[i] = s[i]
<1>1. Len(s) \in Nat \ {0} /\ \A i \in 1 .. Len(s) : s[i] \in S
  BY EmptySeq, ElementOfSeq
<1> DEFINE n == Len(s) - 1
           u == SubSeq(s, 1, n)
<1>2. n \in Nat /\ \A i \in 1 .. n : s[i] \in S
  BY <1>1
<1> HIDE DEF n
<1>3. /\ u \in Seq(S) /\ Len(u) = IF 1 <= n THEN n - 1 + 1 ELSE 0
      /\ \A i \in 1 .. n - 1 + 1 : u[i] = s[1 + i - 1]
  BY <1>2, SubSeqProperties
<1> HIDE DEF u
<1>4. Len(u) = n /\ \A i \in 1 .. n : u[i] = s[i]
  <2>1. n - 1 + 1 = n /\ \A i \in 1 .. n : 1 + i - 1 = i
    BY <1>2
  <2> QED
    BY <1>2, <1>3, <2>1
<1> QED
  BY <1>3, <1>4 DEF n, u, Front

LEMMA FrontOfConcat ==
    ASSUME NEW S, NEW s \in Seq(S), NEW t \in Seq(S), t # <<>>
    PROVE  Front(s \o t) = s \o Front(t)
<1>1. /\ Len(s) \in Nat /\ Len(t) \in Nat \ {0}
      /\ s \o t \in Seq(S) /\ Len(s \o t) = Len(s) + Len(t)
      /\ \A i \in 1 .. Len(s) + Len(t) : (s \o t)[i] = IF i <= Len(s) THEN s[i] ELSE t[i - Len(s)]
  BY EmptySeq, ConcatProperties
<1>2. s \o t # <<>>
  BY <1>1
<1>3. /\ Front(s \o t) \in Seq(S) /\ Len(Front(s \o t)) = Len(s) + Len(t) - 1
      /\ \A i \in 1 .. Len(s) + Len(t) - 1 : Front(s \o t)[i] = (s \o t)[i]
  <2> DEFINE w == s \o t
  <2>1. w \in Seq(S) /\ w # <<>> /\ Len(w) = Len(s) + Len(t)
    BY <1>1, <1>2
  <2> HIDE DEF w
  <2>2. /\ Front(w) \in Seq(S) /\ Len(Front(w)) = Len(w) - 1
        /\ \A i \in 1 .. Len(w) - 1 : Front(w)[i] = w[i]
    BY <2>1, FrontType
  <2> QED
    BY <2>1, <2>2 DEF w
<1>4. /\ Front(t) \in Seq(S) /\ Len(Front(t)) = Len(t) - 1
      /\ \A i \in 1 .. Len(t) - 1 : Front(t)[i] = t[i]
  BY FrontType
<1>5. /\ s \o Front(t) \in Seq(S) /\ Len(s \o Front(t)) = Len(s) + Len(t) - 1
      /\ \A i \in 1 .. Len(s) + Len(t) - 1 :
            (s \o Front(t))[i] = IF i <= Len(s) THEN s[i] ELSE Front(t)[i - Len(s)]
  <2> DEFINE u == Front(t)
  <2>1. u \in Seq(S) /\ Len(u) = Len(t) - 1
    BY <1>4
  <2> HIDE DEF u
  <2>2. /\ s \o u \in Seq(S) /\ Len(s \o u) = Len(s) + Len(u)
        /\ \A i \in 1 .. Len(s) + Len(u) : (s \o u)[i] = IF i <= Len(s) THEN s[i] ELSE u[i - Len(s)]
    BY <2>1, ConcatProperties
  <2>3. Len(s) + Len(u) = Len(s) + Len(t) - 1
    BY <1>1, <2>1
  <2> QED
    BY <2>2, <2>3 DEF u
<1>6. \A i \in 1 .. Len(s) + Len(t) - 1 : Front(s \o t)[i] = (s \o Front(t))[i]
  <2> SUFFICES ASSUME NEW i \in 1 .. Len(s) + Len(t) - 1
               PROVE  Front(s \o t)[i] = (s \o Front(t))[i]
    OBVIOUS
  <2>1. i \in Int /\ i \in 1 .. Len(s) + Len(t)
    BY <1>1
  <2>2. CASE i <= Len(s)
    BY <1>1, <1>3, <1>5, <2>1, <2>2
  <2>3. CASE ~(i <= Len(s))
    <3>1. i - Len(s) \in 1 .. Len(t) - 1
      BY <1>1, <2>1, <2>3
    <3> QED
      BY <1>1, <1>3, <1>4, <1>5, <2>1, <2>3, <3>1
  <2> QED
    BY <2>2, <2>3
<1> QED
  BY <1>3, <1>5, <1>6, SeqEqual

LEMMA AppendToConcat ==
    ASSUME NEW S, NEW s \in Seq(S), NEW t \in Seq(S), NEW x \in S
    PROVE  s \o Append(t, x) = Append(s \o t, x)
<1>1. <<x>> \in Seq(S) /\ s \o t \in Seq(S)
  BY ConcatProperties
<1>2. s \o (t \o <<x>>) = (s \o t) \o <<x>>
  BY <1>1, ConcatAssociative
<1>3. Append(t, x) = t \o <<x>> /\ Append(s \o t, x) = (s \o t) \o <<x>>
  BY <1>1, AppendIsConcat
<1> QED
  BY <1>2, <1>3

\* What begins with a path is under it, and the rest is below it.
LEMMA ConcatIsUnder ==
    ASSUME NEW S, NEW s \in Seq(S), NEW t \in Seq(S)
    PROVE  IsUnder(s, s \o t) /\ Below(s, s \o t) = t
<1>1. /\ Len(s) \in Nat /\ Len(t) \in Nat
      /\ s \o t \in Seq(S) /\ Len(s \o t) = Len(s) + Len(t)
      /\ \A i \in 1 .. Len(s) + Len(t) : (s \o t)[i] = IF i <= Len(s) THEN s[i] ELSE t[i - Len(s)]
  BY ConcatProperties
<1>2. \A i \in 1 .. Len(s) + Len(t) : (s \o t)[i] \in S
  BY <1>1, ElementOfSeq
<1>3. SubSeq(s \o t, 1, Len(s)) = s
  <2> DEFINE u == SubSeq(s \o t, 1, Len(s))
  <2>1. \A i \in 1 .. Len(s) : (s \o t)[i] \in S
    BY <1>1, <1>2
  <2>2. /\ u \in Seq(S) /\ Len(u) = Len(s)
        /\ \A i \in 1 .. Len(s) : u[i] = (s \o t)[1 + i - 1]
    BY <1>1, <2>1, SubSeqProperties
  <2> HIDE DEF u
  <2>3. \A i \in 1 .. Len(s) : u[i] = s[i]
    BY <1>1, <2>2
  <2> QED
    BY <2>2, <2>3, SeqEqual DEF u
<1>4. SubSeq(s \o t, Len(s) + 1, Len(s) + Len(t)) = t
  <2> DEFINE u == SubSeq(s \o t, Len(s) + 1, Len(s) + Len(t))
  <2>1. \A i \in Len(s) + 1 .. Len(s) + Len(t) : (s \o t)[i] \in S
    BY <1>1, <1>2
  <2>2. /\ u \in Seq(S) /\ Len(u) = Len(t)
        /\ \A i \in 1 .. Len(t) : u[i] = (s \o t)[(Len(s) + 1) + i - 1]
    <3>1. Len(s) + 1 \in Int /\ Len(s) + Len(t) \in Int
      BY <1>1
    <3>2. /\ u \in Seq(S)
          /\ Len(u) = IF Len(s) + 1 <= Len(s) + Len(t)
                      THEN (Len(s) + Len(t)) - (Len(s) + 1) + 1 ELSE 0
          /\ \A i \in 1 .. (Len(s) + Len(t)) - (Len(s) + 1) + 1 :
                u[i] = (s \o t)[(Len(s) + 1) + i - 1]
      BY <2>1, <3>1, SubSeqProperties
    <3> HIDE DEF u
    <3> QED
      BY <1>1, <3>2
  <2> HIDE DEF u
  <2>3. \A i \in 1 .. Len(t) : u[i] = t[i]
    <3> SUFFICES ASSUME NEW i \in 1 .. Len(t) PROVE u[i] = t[i]
      OBVIOUS
    <3>1. (Len(s) + 1) + i - 1 = Len(s) + i /\ Len(s) + i \in 1 .. Len(s) + Len(t)
          /\ ~(Len(s) + i <= Len(s)) /\ (Len(s) + i) - Len(s) = i
      BY <1>1
    <3> QED
      BY <1>1, <2>2, <3>1
  <2> QED
    BY <2>2, <2>3, SeqEqual DEF u
<1> QED
  BY <1>1, <1>3, <1>4 DEF IsUnder, Below

\* And the other way round.
LEMMA UnderIsConcat ==
    ASSUME NEW S, NEW s \in Seq(S), NEW t \in Seq(S), IsUnder(s, t)
    PROVE  Below(s, t) \in Seq(S) /\ t = s \o Below(s, t)
<1>1. /\ Len(s) \in Nat /\ Len(t) \in Nat /\ Len(s) <= Len(t)
      /\ \A i \in 1 .. Len(t) : t[i] \in S
  BY ElementOfSeq DEF IsUnder
<1> DEFINE u == Below(s, t)
<1>2. /\ u \in Seq(S) /\ Len(u) = Len(t) - Len(s)
      /\ \A i \in 1 .. Len(t) - Len(s) : u[i] = t[Len(s) + i]
  <2>1. \A i \in Len(s) + 1 .. Len(t) : t[i] \in S
    BY <1>1
  <2>2. /\ u \in Seq(S)
        /\ Len(u) = IF Len(s) + 1 <= Len(t) THEN Len(t) - (Len(s) + 1) + 1 ELSE 0
        /\ \A i \in 1 .. Len(t) - (Len(s) + 1) + 1 : u[i] = t[(Len(s) + 1) + i - 1]
    BY <1>1, <2>1, SubSeqProperties DEF Below
  <2> HIDE DEF u
  <2>3. /\ Len(t) - (Len(s) + 1) + 1 = Len(t) - Len(s)
        /\ ~(Len(s) + 1 <= Len(t)) => Len(t) - Len(s) = 0
        /\ \A i \in 1 .. Len(t) - Len(s) : (Len(s) + 1) + i - 1 = Len(s) + i
    BY <1>1
  <2>4. Len(u) = Len(t) - Len(s)
    BY <2>2, <2>3
  <2>5. \A i \in 1 .. Len(t) - Len(s) : u[i] = t[(Len(s) + 1) + i - 1]
    BY <2>2, <2>3
  <2> QED
    BY <2>2, <2>3, <2>4, <2>5
<1>3. \A i \in 1 .. Len(s) : t[i] = s[i]
  <2>1. \A i \in 1 .. Len(s) : t[i] \in S
    BY <1>1
  <2>2. \A i \in 1 .. Len(s) - 1 + 1 : SubSeq(t, 1, Len(s))[i] = t[1 + i - 1]
    BY <1>1, <2>1, SubSeqProperties
  <2>3. Len(s) - 1 + 1 = Len(s) /\ \A i \in 1 .. Len(s) : 1 + i - 1 = i
    BY <1>1
  <2> QED
    BY <2>2, <2>3 DEF IsUnder
<1> HIDE DEF u
<1>4. /\ s \o u \in Seq(S) /\ Len(s \o u) = Len(s) + Len(u)
      /\ \A i \in 1 .. Len(s) + Len(u) : (s \o u)[i] = IF i <= Len(s) THEN s[i] ELSE u[i - Len(s)]
  BY <1>2, ConcatProperties
<1>5. Len(s) + Len(u) = Len(t)
  BY <1>1, <1>2
<1>6. \A i \in 1 .. Len(t) : t[i] = (s \o u)[i]
  <2> SUFFICES ASSUME NEW i \in 1 .. Len(t) PROVE t[i] = (s \o u)[i]
    OBVIOUS
  <2>1. CASE i <= Len(s)
    BY <1>1, <1>3, <1>4, <1>5, <2>1
  <2>2. CASE ~(i <= Len(s))
    <3>1. i - Len(s) \in 1 .. Len(t) - Len(s) /\ Len(s) + (i - Len(s)) = i
      BY <1>1, <2>2
    <3> QED
      BY <1>2, <1>4, <1>5, <2>2, <3>1
  <2> QED
    BY <2>1, <2>2
<1> QED
  BY <1>2, <1>4, <1>5, <1>6, SeqEqual DEF u

LEMMA UnderTransitive ==
    ASSUME NEW S, NEW s \in Seq(S), NEW t \in Seq(S), NEW u \in Seq(S),
           IsUnder(s, t), IsUnder(t, u)
    PROVE  IsUnder(s, u)
<1>1. PICK x \in Seq(S) : t = s \o x
  BY UnderIsConcat
<1>2. PICK y \in Seq(S) : u = t \o y
  BY UnderIsConcat
<1>3. x \o y \in Seq(S) /\ u = s \o (x \o y)
  BY <1>1, <1>2, ConcatProperties, ConcatAssociative
<1>4. PICK z : z = x \o y
  OBVIOUS
<1> QED
  BY <1>3, <1>4, ConcatIsUnder
-----------------------------------------------------------------------------
(* Resolving a path.                                                       *)

VirtualPath == Seq(Entries \cup {Up})

Place(base, rest, prefix) ==
    [is |-> "at", local |-> base \o rest, base |-> base, prefix |-> prefix]

\* A path leads to a directory of a share in a way that any other path with the
\* same prefix does.
LeadsTo(path, base, rest, prefix) ==
    /\ resolve_in(path) = Place(base, rest, prefix)
    /\ path = prefix \o rest
    /\ \E i \in DOMAIN shares : shares[i].path = base
    /\ \A other \in Seq(Entries) : resolve_in(prefix \o other) = Place(base, other, prefix)

LEMMA SharesTyped ==
    ASSUME shares \in ShareLists
    PROVE  /\ shares \in Seq(Shared) /\ Len(shares) \in Nat /\ DOMAIN shares = 1 .. Len(shares)
           /\ \A i \in DOMAIN shares : shares[i] \in Shared
<1>1. shares \in Seq(Shared)
  BY SharesAssumption DEF Shared, LocalPath
<1>2. Len(shares) \in Nat /\ DOMAIN shares = 1 .. Len(shares)
  BY <1>1
<1> QED
  BY <1>1, <1>2, ElementOfSeq

\* A path without Up is one of entries.
LEMMA SandboxedPath ==
    ASSUME NEW rest \in VirtualPath, NEW base, NEW prefix
    PROVE  /\ Sandboxed(base, rest, prefix).is = "at" =>
                rest \in Seq(Entries) /\ Sandboxed(base, rest, prefix) = Place(base, rest, prefix)
           /\ rest \in Seq(Entries) => Sandboxed(base, rest, prefix) = Place(base, rest, prefix)
<1>1. /\ Len(rest) \in Nat /\ DOMAIN rest = 1 .. Len(rest) /\ rest = [i \in 1 .. Len(rest) |-> rest[i]]
      /\ \A i \in DOMAIN rest : rest[i] \in Entries \cup {Up}
  BY ElementOfSeq DEF VirtualPath
<1>2. ASSUME ~\E i \in DOMAIN rest : rest[i] = Up  PROVE rest \in Seq(Entries)
  <2>1. rest \in [1 .. Len(rest) -> Entries]
    BY <1>1, <1>2
  <2> QED
    BY <1>1, <2>1, SeqDef
<1>3. ASSUME rest \in Seq(Entries)  PROVE ~\E i \in DOMAIN rest : rest[i] = Up
  BY <1>1, <1>3, ElementOfSeq, SharesAssumption
<1> QED
  BY <1>2, <1>3 DEF Sandboxed, Nowhere, Place

LEMMA EntriesArePaths ==
    ASSUME NEW s \in Seq(Entries)
    PROVE  s \in VirtualPath /\ s \in LocalPath
  BY SharesAssumption, SeqMonotonic DEF VirtualPath, LocalPath

LEMMA FirstAndRest ==
    ASSUME NEW S, NEW x \in S, NEW s \in Seq(S)
    PROVE  /\ <<x>> \o s \in Seq(S) /\ <<x>> \o s # <<>>
           /\ (<<x>> \o s)[1] = x /\ Tail(<<x>> \o s) = s
<1>1. <<x>> \in Seq(S) /\ Len(<<x>>) = 1 /\ <<x>>[1] = x /\ Len(s) \in Nat
  OBVIOUS
<1> DEFINE t == <<x>> \o s
<1>2. /\ t \in Seq(S) /\ Len(t) = 1 + Len(s)
      /\ \A i \in 1 .. 1 + Len(s) : t[i] = IF i <= 1 THEN <<x>>[i] ELSE s[i - 1]
  BY <1>1, ConcatProperties
<1> HIDE DEF t
<1>3. t # <<>> /\ t[1] = x /\ \A i \in 1 .. Len(s) : t[i + 1] = s[i]
  <2>1. \A i \in 1 .. Len(s) : i + 1 \in 1 .. 1 + Len(s) /\ ~(i + 1 <= 1) /\ (i + 1) - 1 = i
    BY <1>1
  <2> QED
    BY <1>1, <1>2, <2>1
<1>4. /\ Tail(t) \in Seq(S) /\ Len(Tail(t)) = Len(s)
      /\ \A i \in 1 .. Len(s) : Tail(t)[i] = t[i + 1]
  BY <1>1, <1>2, <1>3, HeadTailProperties
<1>5. Tail(t) = s
  BY <1>3, <1>4, SeqEqual
<1> QED
  BY <1>2, <1>3, <1>5 DEF t

LEMMA FirstAndTail ==
    ASSUME NEW S, NEW s \in Seq(S), s # <<>>
    PROVE  s[1] \in S /\ Tail(s) \in Seq(S) /\ s = <<s[1]>> \o Tail(s)
<1>1. /\ Len(s) \in Nat \ {0} /\ \A i \in 1 .. Len(s) : s[i] \in S
  BY EmptySeq, ElementOfSeq
<1>2. /\ Tail(s) \in Seq(S) /\ Len(Tail(s)) = Len(s) - 1
      /\ \A i \in 1 .. Len(s) - 1 : Tail(s)[i] = s[i + 1]
  BY <1>1, HeadTailProperties
<1>3. <<s[1]>> \in Seq(S) /\ Len(<<s[1]>>) = 1 /\ <<s[1]>>[1] = s[1]
  BY <1>1
<1> DEFINE r == Tail(s)
           h == <<s[1]>>
<1> HIDE DEF r, h
<1>4. /\ h \o r \in Seq(S) /\ Len(h \o r) = Len(s)
      /\ \A i \in 1 .. Len(s) : (h \o r)[i] = IF i <= 1 THEN h[i] ELSE r[i - 1]
  <2>1. 1 + Len(r) = Len(s)
    BY <1>1, <1>2 DEF r
  <2> QED
    BY <1>2, <1>3, <2>1, ConcatProperties DEF r, h
<1>5. \A i \in 1 .. Len(s) : (h \o r)[i] = s[i]
  <2> SUFFICES ASSUME NEW i \in 1 .. Len(s) PROVE (h \o r)[i] = s[i]
    OBVIOUS
  <2>1. CASE i <= 1
    BY <1>1, <1>3, <1>4, <2>1 DEF h
  <2>2. CASE ~(i <= 1)
    <3>1. i - 1 \in 1 .. Len(s) - 1 /\ (i - 1) + 1 = i
      BY <1>1, <2>2
    <3> QED
      BY <1>2, <1>4, <2>2, <3>1 DEF r
  <2> QED
    BY <2>1, <2>2
<1>6. h \o r = s
  BY <1>4, <1>5, SeqEqual
<1> QED
  BY <1>1, <1>2, <1>6 DEF h, r

\* The folder of a share is found by its name.
LEMMA NamedIsShare ==
    ASSUME shares \in ShareLists, NEW name, Named(name) # {}
    PROVE  LET base == CHOOSE base \in Named(name) : TRUE
           IN  base \in LocalPath /\ \E i \in DOMAIN shares : shares[i].path = base
<1>1. \A base \in Named(name) : \E i \in DOMAIN shares : shares[i].path = base
  BY DEF Named
<1> QED
  BY <1>1, SharesTyped DEF Shared

LEMMA NamedIsThere ==
    ASSUME shares \in ShareLists, NEW i \in DOMAIN shares
    PROVE  Named(shares[i].name) # {}
<1> DEFINE T == {j \in DOMAIN shares : shares[j].name = shares[i].name}
<1>1. T \subseteq Nat /\ i \in T
  BY SharesTyped
<1>2. PICK j \in T : \A k \in T : j <= k
  BY <1>1, LeastNumber
<1>3. shares[j].path \in Named(shares[i].name)
  BY <1>2 DEF Named
<1> QED
  BY <1>3

LEMMA ResolvedPath ==
    ASSUME shares \in ShareLists, NEW path \in VirtualPath, resolve_in(path).is = "at"
    PROVE  \E base \in LocalPath, rest \in Seq(Entries), prefix \in VirtualPath :
              LeadsTo(path, base, rest, prefix)
<1>1. CASE Len(shares) = 1
  <2> DEFINE base == shares[1].path
  <2>1. 1 \in DOMAIN shares /\ base \in LocalPath /\ shares # <<>>
    <3>1. 1 \in DOMAIN shares /\ shares[1] \in Shared
      BY <1>1, SharesTyped
    <3>2. shares # <<>>
      BY <1>1, EmptySeq
    <3> QED
      BY <3>1, <3>2 DEF Shared
  <2>2. \A x : resolve_in(x) = Sandboxed(base, x, <<>>)
    BY <1>1, <2>1 DEF resolve_in
  <2>3. path \in Seq(Entries) /\ resolve_in(path) = Place(base, path, <<>>)
    BY <2>2, SandboxedPath
  <2>4. \A other \in Seq(Entries) : resolve_in(<<>> \o other) = Place(base, other, <<>>)
    BY <2>2, SandboxedPath, EntriesArePaths, ConcatEmptySeq
  <2>5. path = <<>> \o path
    BY <2>3, ConcatEmptySeq
  <2>6. <<>> \in VirtualPath
    BY DEF VirtualPath
  <2> QED
    BY <2>1, <2>3, <2>4, <2>5, <2>6 DEF LeadsTo
<1>2. CASE Len(shares) > 1
  <2> DEFINE name == path[1]
             there == CHOOSE base \in Named(name) : TRUE
             rest == Tail(path)
  <2>1. shares # <<>> /\ Len(shares) # 1
    BY <1>2, SharesTyped, EmptySeq
  <2>2. path # <<>>
    BY <1>2, <2>1 DEF resolve_in
  <2>3. \A x : x # <<>> => resolve_in(x) = IF Named(x[1]) = {} THEN Nowhere
                             ELSE Sandboxed(CHOOSE base \in Named(x[1]) : TRUE, Tail(x), <<x[1]>>)
    BY <1>2, <2>1 DEF resolve_in
  <2>4. Named(name) # {} /\ resolve_in(path) = Sandboxed(there, rest, <<name>>)
    <3>1. resolve_in(path) = IF Named(name) = {} THEN Nowhere
                             ELSE Sandboxed(there, rest, <<name>>)
      BY <2>2, <2>3
    <3>2. resolve_in(path) # Nowhere
      BY DEF Nowhere
    <3> QED
      BY <3>1, <3>2
  <2>5. name \in Entries \cup {Up} /\ rest \in VirtualPath /\ path = <<name>> \o rest
    BY <2>2, FirstAndTail DEF VirtualPath
  <2>6. there \in LocalPath /\ \E i \in DOMAIN shares : shares[i].path = there
    BY <2>4, NamedIsShare
  <2> HIDE DEF name, rest
  <2>7. \A x : x # <<>> /\ x[1] = name => resolve_in(x) = Sandboxed(there, Tail(x), <<name>>)
    BY <2>3, <2>4
  <2> HIDE DEF there
  <2>8. rest \in Seq(Entries) /\ resolve_in(path) = Place(there, rest, <<name>>)
    BY <2>4, <2>5, SandboxedPath
  <2>9. ASSUME NEW other \in Seq(Entries)
        PROVE  resolve_in(<<name>> \o other) = Place(there, other, <<name>>)
    <3>1. other \in VirtualPath
      BY EntriesArePaths
    <3> DEFINE x == <<name>> \o other
    <3>2. x # <<>> /\ x[1] = name /\ Tail(x) = other
      BY <2>5, <3>1, FirstAndRest DEF VirtualPath
    <3> HIDE DEF x
    <3>3. resolve_in(x) = Sandboxed(there, other, <<name>>)
      BY <2>7, <3>2
    <3> QED
      BY <3>1, <3>3, SandboxedPath DEF x
  <2>10. <<name>> \in VirtualPath
    BY <2>5 DEF VirtualPath
  <2> QED
    BY <2>5, <2>6, <2>8, <2>9, <2>10 DEF LeadsTo
<1>3. CASE Len(shares) = 0
  <2>1. shares = <<>>
    BY <1>3, SharesTyped, EmptySeq
  <2> QED
    BY <2>1 DEF resolve_in, Nowhere
<1> QED
  BY <1>1, <1>2, <1>3, SharesTyped

-----------------------------------------------------------------------------
(* The inductive invariant: what the last answer says is so.               *)

LinksTyped ==
    /\ links \subseteq [at : LocalPath, to : LocalPath] /\ targets \subseteq LocalPath
    /\ \A l \in links : l.to \in targets

SharesInv ==
    /\ shares \in ShareLists
    /\ tree \subseteq LocalPath
    /\ LinksTyped
    /\ answer.path \in VirtualPath
    /\ ListedIsFound
    /\ ParentIsFound

LEMMA ResolveKept ==
    ASSUME UNCHANGED shares
    PROVE  \A path : resolve_in(path)' = resolve_in(path)
  BY DEF resolve_in, Named

\* The parent of an entry leads to the directory the entry is in.
LEMMA ParentLeadsBack ==
    ASSUME NEW path, NEW base \in LocalPath, NEW rest \in Seq(Entries), NEW prefix,
           LeadsTo(path, base, rest, prefix)
    PROVE  LET at == resolve_in(path)
               above == resolve_in(virtual_parent(at))
           IN  /\ above.is = "at"
               /\ above.local = IF at.local = at.base THEN at.base ELSE Front(at.local)
<1> DEFINE at == resolve_in(path)
<1>1. at.local = base \o rest /\ at.base = base /\ at.prefix = prefix
  BY DEF LeadsTo, Place
<1>2. rest \in LocalPath /\ (base \o rest = base <=> rest = <<>>)
  BY EntriesArePaths, ConcatEqualIffEmpty DEF LocalPath
<1>3. \A other \in Seq(Entries) : /\ resolve_in(prefix \o other).is = "at"
                                  /\ resolve_in(prefix \o other).local = base \o other
  BY DEF LeadsTo, Place
<1> HIDE DEF at
<1>4. CASE rest = <<>>
  <2>1. virtual_parent(at) = prefix \o <<>>
    BY <1>1, <1>2, <1>4 DEF virtual_parent
  <2>2. base \o <<>> = base
    BY ConcatEmptySeq DEF LocalPath
  <2>3. resolve_in(virtual_parent(at)).is = "at" /\ resolve_in(virtual_parent(at)).local = base
    <3>1. <<>> \in Seq(Entries)
      OBVIOUS
    <3> QED
      BY <1>3, <2>1, <2>2, <3>1
  <2> QED
    BY <1>1, <1>2, <1>4, <2>3 DEF at
<1>5. CASE rest # <<>>
  <2>1. Front(base \o rest) = base \o Front(rest) /\ Front(rest) \in Seq(Entries)
    BY <1>2, <1>5, FrontOfConcat, FrontType DEF LocalPath
  <2>2. Front(rest) \in LocalPath
    BY <2>1, EntriesArePaths
  <2>3. Below(base, base \o Front(rest)) = Front(rest)
    BY <2>2, ConcatIsUnder DEF LocalPath
  <2>4. virtual_parent(at) = prefix \o Front(rest)
    BY <1>1, <1>2, <1>5, <2>1, <2>3 DEF virtual_parent
  <2> QED
    BY <1>1, <1>2, <1>3, <1>5, <2>1, <2>4 DEF at
<1> QED
  BY <1>4, <1>5

\* An entry is found under the path of its directory.
LEMMA ChildIsFound ==
    ASSUME NEW path \in VirtualPath, NEW base \in LocalPath, NEW rest \in Seq(Entries),
           NEW prefix \in VirtualPath, LeadsTo(path, base, rest, prefix), NEW name \in Entries
    PROVE  /\ resolve_in(Append(path, name)).is = "at"
           /\ resolve_in(Append(path, name)).local = Append(resolve_in(path).local, name)
<1>1. rest \in VirtualPath /\ rest \in LocalPath /\ name \in LocalNames
  BY EntriesArePaths, SharesAssumption
<1>2. Append(rest, name) \in Seq(Entries)
  OBVIOUS
<1>3. Append(path, name) = prefix \o Append(rest, name)
  <2>1. path = prefix \o rest
    BY DEF LeadsTo
  <2>2. name \in Entries \cup {Up}
    OBVIOUS
  <2> QED
    <3>1. PICK names : names = Entries \cup {Up}
      OBVIOUS
    <3>2. prefix \in Seq(names) /\ rest \in Seq(names) /\ name \in names
      BY <1>1, <2>2, <3>1 DEF VirtualPath
    <3>3. prefix \o Append(rest, name) = Append(prefix \o rest, name)
      BY <3>2, AppendToConcat
    <3> QED
      BY <2>1, <3>3
<1>4. base \o Append(rest, name) = Append(base \o rest, name)
  BY <1>1, AppendToConcat DEF LocalPath
<1>5. resolve_in(Append(path, name)) = Place(base, Append(rest, name), prefix)
  BY <1>2, <1>3 DEF LeadsTo
<1>6. resolve_in(path).local = base \o rest
  BY DEF LeadsTo, Place
<1> QED
  BY <1>4, <1>5, <1>6 DEF Place

\* An answer that lists nothing, and names the parent of its entry or none.
LEMMA ParentAnswered ==
    ASSUME SharesInv, UNCHANGED shares, NEW path \in VirtualPath,
           answer'.path = path, answer'.names = {},
           \/ answer'.parents = {}
           \/ /\ resolve_in(path).is = "at"
              /\ answer'.parents = {virtual_parent(resolve_in(path))}
    PROVE  ListedIsFound' /\ ParentIsFound'
<1>1. \A x : resolve_in(x)' = resolve_in(x)
  BY ResolveKept
<1>2. ASSUME NEW parent \in answer'.parents
      PROVE  /\ resolve_in(parent).is = "at"
             /\ resolve_in(parent).local =
                    IF resolve_in(path).local = resolve_in(path).base
                    THEN resolve_in(path).base ELSE Front(resolve_in(path).local)
  <2>1. resolve_in(path).is = "at" /\ parent = virtual_parent(resolve_in(path))
    BY <1>2
  <2>2. PICK base \in LocalPath, rest \in Seq(Entries), prefix \in VirtualPath :
            LeadsTo(path, base, rest, prefix)
    BY <2>1, ResolvedPath DEF SharesInv
  <2> QED
    BY <2>1, <2>2, ParentLeadsBack
<1>3. ParentIsFound'
  BY <1>1, <1>2 DEF ParentIsFound
<1> QED
  BY <1>3 DEF ListedIsFound

-----------------------------------------------------------------------------
(* The requests.                                                           *)

LEMMA EntriesPreserve ==
    ASSUME SharesInv, NEW path \in VirtualPaths, RequestEntries(path)
    PROVE  SharesInv' /\ UNCHANGED <<tree, links>>
<1> DEFINE at == resolve_in(path)
<1>1. /\ UNCHANGED <<shares, tree, links, targets>>
      /\ answer'.path = path /\ answer'.parents = {}
      /\ answer'.names = CASE at.is = "root" -> at.names
                           [] at.is = "at" -> {e \in Entries : Append(DirectoryAt(at.local), e) \in tree}
                           [] OTHER -> {}
  BY DEF RequestEntries, Answer
<1>2. path \in VirtualPath
  BY SharesAssumption DEF VirtualPath
<1>3. \A x : resolve_in(x)' = resolve_in(x)
  BY <1>1, ResolveKept
<1>4. ASSUME NEW name \in answer'.names
      PROVE  /\ resolve_in(Append(path, name)).is = "at"
             /\ at.is = "at" => resolve_in(Append(path, name)).local = Append(at.local, name)
  <2>1. CASE at.is = "root"
    <3>1. /\ shares # <<>> /\ Len(shares) > 1 /\ path = <<>>
          /\ at.names = {shares[i].name : i \in DOMAIN shares}
      <4>1. at # Nowhere /\ \A base, rest, prefix : at # Sandboxed(base, rest, prefix)
        BY <2>1 DEF Nowhere, Sandboxed
      <4>2. shares # <<>> /\ Len(shares) # 1
        <5>1. shares = <<>> => at = Nowhere
          BY EmptySeq DEF resolve_in
        <5>2. Len(shares) = 1 /\ shares # <<>> => at = Sandboxed(shares[1].path, path, <<>>)
          BY DEF resolve_in
        <5> QED
          BY <4>1, <5>1, <5>2
      <4>3. Len(shares) > 1
        BY <4>2, SharesTyped, EmptySeq DEF SharesInv
      <4> QED
        BY <4>1, <4>2, <4>3 DEF resolve_in
    <3>2. PICK i \in DOMAIN shares : name = shares[i].name
      BY <1>1, <1>4, <2>1, <3>1
    <3>3. Named(name) # {}
      BY <3>2, NamedIsThere DEF SharesInv
    <3>4. Append(path, name) = <<name>> /\ <<name>> # <<>> /\ <<name>>[1] = name
          /\ Tail(<<name>>) = <<>>
      BY <3>1
    <3>5. resolve_in(<<name>>) = Sandboxed(CHOOSE base \in Named(name) : TRUE, <<>>, <<name>>)
      BY <3>1, <3>3, <3>4 DEF resolve_in
    <3>6. <<>> \in VirtualPath /\ <<>> \in Seq(Entries)
      BY DEF VirtualPath
    <3>7. resolve_in(<<name>>).is = "at"
      <4>1. PICK there : there = CHOOSE base \in Named(name) : TRUE
        OBVIOUS
      <4>2. resolve_in(<<name>>) = Place(there, <<>>, <<name>>)
        BY <3>5, <3>6, <4>1, SandboxedPath
      <4> QED
        BY <4>2 DEF Place
    <3> QED
      BY <2>1, <3>4, <3>7
  <2>2. CASE at.is = "at"
    <3>1. PICK base \in LocalPath, rest \in Seq(Entries), prefix \in VirtualPath :
            LeadsTo(path, base, rest, prefix)
      BY <1>2, <2>2, ResolvedPath DEF SharesInv
    <3>2. name \in Entries
      BY <1>1, <1>4, <2>2
    <3> QED
      BY <1>2, <3>1, <3>2, ChildIsFound
  <2> QED
    BY <1>1, <1>4, <2>1, <2>2
<1>5. ListedIsFound'
  BY <1>1, <1>3, <1>4 DEF ListedIsFound
<1>6. ParentIsFound'
  BY <1>1 DEF ParentIsFound
<1> QED
  BY <1>1, <1>2, <1>5, <1>6 DEF SharesInv, LinksTyped

\* What the other requests answer, whatever they do to the tree.
LEMMA RequestAnswered ==
    ASSUME SharesInv, NEW path \in VirtualPaths, NEW parents, NEW ok,
           Answer(path, parents, {}, ok), tree' \subseteq LocalPath,
           links' \subseteq [at : LocalPath, to : LocalPath], \A l \in links' : l.to \in targets,
           \/ parents = {}
           \/ resolve_in(path).is = "at" /\ parents = {virtual_parent(resolve_in(path))}
    PROVE  SharesInv'
<1>1. path \in VirtualPath
  BY SharesAssumption DEF VirtualPath
<1>2. /\ answer'.path = path /\ answer'.names = {} /\ answer'.parents = parents
      /\ UNCHANGED <<shares, targets>>
  BY DEF Answer
<1>3. ListedIsFound' /\ ParentIsFound'
  BY <1>1, <1>2, ParentAnswered
<1>4. LinksTyped'
  BY <1>2 DEF SharesInv, LinksTyped
<1> QED
  BY <1>1, <1>2, <1>3, <1>4 DEF SharesInv

\* The same of a request that moves and removes no link.
LEMMA PathsAnswered ==
    ASSUME SharesInv, NEW path \in VirtualPaths, NEW parents, NEW ok,
           Answer(path, parents, {}, ok), tree' \subseteq LocalPath, UNCHANGED links,
           \/ parents = {}
           \/ resolve_in(path).is = "at" /\ parents = {virtual_parent(resolve_in(path))}
    PROVE  SharesInv'
<1>1. links' \subseteq [at : LocalPath, to : LocalPath] /\ \A l \in links' : l.to \in targets
  BY DEF SharesInv, LinksTyped
<1> QED
  BY <1>1, RequestAnswered

InShares(q) == \E i \in DOMAIN shares : IsUnder(shares[i].path, q)

\* What is above the directory of a share is there, or is itself in reach.
AncestorsThere ==
    \A i \in DOMAIN shares : \A k \in 0 .. Len(shares[i].path) - 1 :
        SubSeq(shares[i].path, 1, k) \in tree \/ InReach(SubSeq(shares[i].path, 1, k))

OutsideKept == \A q \in Changed : InReach(q)

\* A path is in reach with what is under it.
WhollyInReach(path) ==
    /\ path \in LocalPath
    /\ \A q \in LocalPath : IsUnder(path, q) => InReach(q)

LEMMA UnderItself == ASSUME NEW q \in LocalPath PROVE IsUnder(q, q)
<1>1. <<>> \in LocalPath /\ q \o <<>> = q
  BY ConcatEmptySeq DEF LocalPath
<1>2. IsUnder(q, q \o <<>>)
  BY <1>1, ConcatIsUnder DEF LocalPath
<1> QED
  BY <1>1, <1>2

LEMMA InReachItself == ASSUME NEW q, WhollyInReach(q) PROVE InReach(q)
  BY UnderItself DEF WhollyInReach

\* A place is in a share, and so is what is under it.
LEMMA PlaceIsShared ==
    ASSUME shares \in ShareLists, NEW path \in VirtualPath, resolve_in(path).is = "at"
    PROVE  WhollyInReach(resolve_in(path).local)
<1>1. PICK base \in LocalPath, rest \in Seq(Entries), prefix \in VirtualPath :
        LeadsTo(path, base, rest, prefix)
  BY ResolvedPath
<1>2. rest \in LocalPath
  BY EntriesArePaths
<1>3. PICK local : local = base \o rest
  OBVIOUS
<1>4. local \in LocalPath /\ IsUnder(base, local)
  BY <1>2, <1>3, ConcatProperties, ConcatIsUnder DEF LocalPath
<1>5. \A q \in LocalPath : IsUnder(local, q) => IsUnder(base, q)
  BY <1>4, UnderTransitive DEF LocalPath
<1>6. resolve_in(path).local = local /\ \E i \in DOMAIN shares : shares[i].path = base
  BY <1>1, <1>3 DEF LeadsTo, Place
<1> QED
  BY <1>4, <1>5, <1>6 DEF WhollyInReach, InReach

\* A path that leads through a link leads to where a link led at first.
LEMMA FollowedOnce ==
    ASSUME SharesInv, NEW path \in LocalPath, NEW above \in BOOLEAN
    PROVE  /\ Followed(path, above) \in LocalPath
           /\ \/ Followed(path, above) = path
              \/ \E t \in targets : IsUnder(t, Followed(path, above))
<1> DEFINE on == {l \in links : IsUnder(l.at, path) /\ (above => l.at # path)}
           link == CHOOSE l \in on : TRUE
<1>1. Followed(path, above) = IF on = {} THEN path ELSE link.to \o Below(link.at, path)
  BY DEF Followed
<1>2. CASE on = {}
  BY <1>1, <1>2
<1>3. CASE on # {}
  <2>1. link \in links /\ IsUnder(link.at, path)
    BY <1>3
  <2> HIDE DEF link, on
  <2>2. link.at \in LocalPath /\ link.to \in LocalPath /\ link.to \in targets
    BY <2>1 DEF SharesInv, LinksTyped
  <2>3. PICK below : below = Below(link.at, path)
    OBVIOUS
  <2>4. below \in LocalPath
    BY <2>1, <2>2, <2>3, UnderIsConcat DEF LocalPath
  <2>5. link.to \o below \in LocalPath /\ IsUnder(link.to, link.to \o below)
    BY <2>2, <2>4, ConcatProperties, ConcatIsUnder DEF LocalPath
  <2> QED
    BY <1>1, <1>3, <2>2, <2>3, <2>5
<1> QED
  BY <1>2, <1>3

LEMMA FollowedLinks ==
    ASSUME SharesInv, NEW path \in LocalPath, NEW above \in BOOLEAN
    PROVE  /\ AllFollowed(path, above) \in LocalPath
           /\ \/ AllFollowed(path, above) = path
              \/ \E t \in targets : IsUnder(t, AllFollowed(path, above))
<1>1. PICK once : once = Followed(path, above)
  OBVIOUS
<1>2. PICK twice : twice = Followed(once, above)
  OBVIOUS
<1>3. PICK thrice : thrice = Followed(twice, above)
  OBVIOUS
<1>4. once \in LocalPath /\ (once = path \/ \E t \in targets : IsUnder(t, once))
  BY <1>1, FollowedOnce
<1>5. twice \in LocalPath /\ (twice = once \/ \E t \in targets : IsUnder(t, twice))
  BY <1>2, <1>4, FollowedOnce
<1>6. thrice \in LocalPath /\ (thrice = twice \/ \E t \in targets : IsUnder(t, thrice))
  BY <1>3, <1>5, FollowedOnce
<1>7. AllFollowed(path, above) = thrice
  BY <1>1, <1>2, <1>3 DEF AllFollowed
<1> QED
  BY <1>4, <1>5, <1>6, <1>7

\* What is under a target is in reach.
LEMMA TargetInReach ==
    ASSUME SharesInv, NEW path \in LocalPath, NEW t \in targets, IsUnder(t, path)
    PROVE  WhollyInReach(path)
<1>1. t \in LocalPath
  BY DEF SharesInv, LinksTyped
<1>2. \A q \in LocalPath : IsUnder(path, q) => IsUnder(t, q)
  BY <1>1, UnderTransitive DEF LocalPath
<1> QED
  BY <1>2 DEF WhollyInReach, InReach

\* And so is the entry or the directory that a path in reach leads to.
LEMMA LedInReach ==
    ASSUME SharesInv, NEW path, WhollyInReach(path), NEW above \in BOOLEAN
    PROVE  WhollyInReach(AllFollowed(path, above))
<1>1. path \in LocalPath
  BY DEF WhollyInReach
<1>2. PICK led : led = AllFollowed(path, above)
  OBVIOUS
<1>3. led \in LocalPath /\ (led = path \/ \E t \in targets : IsUnder(t, led))
  BY <1>1, <1>2, FollowedLinks
<1> QED
  BY <1>2, <1>3, TargetInReach

LEMMA EntryInReach ==
    ASSUME SharesInv, NEW path \in VirtualPaths, resolve_in(path).is = "at"
    PROVE  WhollyInReach(EntryAt(resolve_in(path).local))
<1>1. path \in VirtualPath
  BY SharesAssumption DEF VirtualPath
<1>2. WhollyInReach(resolve_in(path).local)
  BY <1>1, PlaceIsShared DEF SharesInv
<1> QED
  BY <1>2, LedInReach DEF EntryAt

\* Nothing is changed.
LEMMA NothingChanged == ASSUME UNCHANGED <<tree, links>> PROVE OutsideKept
  BY DEF OutsideKept, Changed

LEMMA RefusePreserves ==
    ASSUME SharesInv, NEW path \in VirtualPaths, NEW parents, Refuse(path, parents),
           \/ parents = {}
           \/ resolve_in(path).is = "at" /\ parents = {virtual_parent(resolve_in(path))}
    PROVE  SharesInv' /\ OutsideKept
<1>1. tree' \subseteq LocalPath /\ UNCHANGED <<tree, links>> /\ Answer(path, parents, {}, FALSE)
  BY DEF Refuse, SharesInv
<1>2. SharesInv'
  BY <1>1, PathsAnswered
<1> QED
  BY <1>1, <1>2, NothingChanged

LEMMA MetadataPreserves ==
    ASSUME SharesInv, NEW path \in VirtualPaths, RequestMetadata(path)
    PROVE  SharesInv' /\ OutsideKept
<1>1. PICK ok : Answer(path, {}, {}, ok) /\ UNCHANGED <<tree, links>>
  BY DEF RequestMetadata
<1>2. tree' \subseteq LocalPath
  BY <1>1 DEF SharesInv
<1>3. SharesInv'
  BY <1>1, <1>2, PathsAnswered
<1> QED
  BY <1>1, <1>3, NothingChanged

LEMMA CreatePreserves ==
    ASSUME SharesInv, NEW path \in VirtualPaths, NEW name \in Entries \cup DriveNames \cup {Up},
           CreateDirectoryRequest(path, name)
    PROVE  SharesInv' /\ OutsideKept
<1> DEFINE at == resolve_in(path)
           target == Pushed(at.local, name)
<1>1. CASE Refuse(path, {})
  BY <1>1, RefusePreserves
<1>2. CASE /\ at.is = "at" /\ name # Up /\ tree' = tree \cup {target} /\ UNCHANGED links
           /\ Answer(path, {}, {}, TRUE)
  <2>1. path \in VirtualPath /\ name \in LocalNames
    BY <1>2, SharesAssumption DEF VirtualPath
  <2>2. WhollyInReach(at.local)
    BY <1>2, <2>1, PlaceIsShared DEF SharesInv
  <2>3. target \in LocalPath /\ InReach(target)
    <3>1. CASE name \in DriveNames
      <4>1. <<name>> \in LocalPath
        BY <2>1 DEF LocalPath
      <4>2. IsUnder(<<name>>, <<name>>)
        BY <4>1, UnderItself
      <4> QED
        BY <3>1, <4>1, <4>2 DEF InReach, Pushed
    <3>2. CASE name \notin DriveNames
      <4>1. PICK local : local = at.local
        OBVIOUS
      <4>2. PICK beside : beside = Append(local, name)
        OBVIOUS
      <4>3. beside \in LocalPath /\ IsUnder(local, beside)
        <5>1. local \in LocalPath /\ <<name>> \in LocalPath /\ beside = local \o <<name>>
          BY <2>1, <2>2, <4>1, <4>2, AppendIsConcat DEF LocalPath, WhollyInReach
        <5>2. IsUnder(local, local \o <<name>>) /\ local \o <<name>> \in LocalPath
          BY <5>1, ConcatIsUnder, ConcatProperties DEF LocalPath
        <5> QED
          BY <5>1, <5>2
      <4>4. \A q \in LocalPath : IsUnder(beside, q) => IsUnder(local, q)
        BY <2>2, <4>1, <4>3, UnderTransitive DEF LocalPath, WhollyInReach
      <4>5. WhollyInReach(beside)
        BY <2>2, <4>1, <4>3, <4>4 DEF WhollyInReach
      <4>6. WhollyInReach(EntryAt(beside))
        BY <4>5, LedInReach DEF EntryAt
      <4>7. target = EntryAt(beside)
        BY <3>2, <4>1, <4>2 DEF Pushed
      <4>8. InReach(EntryAt(beside)) /\ EntryAt(beside) \in LocalPath
        <5>1. PICK entry : entry = EntryAt(beside)
          OBVIOUS
        <5> QED
          BY <4>6, <5>1, InReachItself DEF WhollyInReach
      <4> QED
        BY <4>7, <4>8
    <3> QED
      BY <3>1, <3>2
  <2> HIDE DEF target
  <2>4. tree' \subseteq LocalPath
    BY <1>2, <2>3 DEF SharesInv
  <2>5. SharesInv'
    BY <1>2, <2>4, PathsAnswered
  <2>6. OutsideKept
    BY <1>2, <2>3 DEF OutsideKept, Changed
  <2> QED
    BY <2>5, <2>6
<1> QED
  BY <1>1, <1>2 DEF CreateDirectoryRequest

LEMMA DeletePreserves ==
    ASSUME SharesInv, NEW path \in VirtualPaths, DeleteEntryRequest(path)
    PROVE  SharesInv' /\ OutsideKept
<1> DEFINE at == resolve_in(path)
<1>1. CASE Refuse(path, {})
  BY <1>1, RefusePreserves
<1>2. CASE \E entry, ok :
           /\ entry = EntryAt(at.local) /\ at.is = "at"
           /\ tree' = {q \in tree : ~IsUnder(entry, q)}
           /\ links' = {l \in links : ~IsUnder(entry, l.at)}
           /\ Answer(path, {virtual_parent(at)}, {}, ok)
  <2>1. PICK entry, ok :
           /\ entry = EntryAt(at.local) /\ at.is = "at"
           /\ tree' = {q \in tree : ~IsUnder(entry, q)}
           /\ links' = {l \in links : ~IsUnder(entry, l.at)}
           /\ Answer(path, {virtual_parent(at)}, {}, ok)
    BY <1>2
  <2>2. WhollyInReach(entry)
    BY <2>1, EntryInReach
  <2>3. /\ tree' \subseteq LocalPath
        /\ links' \subseteq [at : LocalPath, to : LocalPath] /\ \A l \in links' : l.to \in targets
    BY <2>1 DEF SharesInv, LinksTyped
  <2>4. SharesInv'
    BY <2>1, <2>3, RequestAnswered
  <2>5. \A q \in tree : q \in LocalPath
    BY DEF SharesInv
  <2>6. \A l \in links : l.at \in LocalPath
    BY DEF SharesInv, LinksTyped
  <2>7. ASSUME NEW q \in Changed  PROVE InReach(q)
    <3>1. \/ q \in tree /\ IsUnder(entry, q)
          \/ \E l \in links : q = l.at /\ IsUnder(entry, l.at)
      BY <2>1, <2>7 DEF Changed
    <3> QED
      BY <2>2, <2>5, <2>6, <3>1 DEF WhollyInReach
  <2> QED
    BY <2>4, <2>7 DEF OutsideKept
<1> QED
  BY <1>1, <1>2 DEF DeleteEntryRequest

LEMMA PermissionsPreserve ==
    ASSUME SharesInv, NEW path \in VirtualPaths, SetPermissionsRequest(path)
    PROVE  SharesInv' /\ OutsideKept
<1> DEFINE at == resolve_in(path)
<1>1. CASE Refuse(path, {})
  BY <1>1, RefusePreserves
<1>2. CASE \E ok : /\ at.is = "at" /\ UNCHANGED <<tree, links>>
                   /\ Answer(path, {virtual_parent(at)}, {}, ok)
  <2>1. tree' \subseteq LocalPath
    BY <1>2 DEF SharesInv
  <2>2. SharesInv'
    BY <1>2, <2>1, PathsAnswered
  <2> QED
    BY <1>2, <2>2, NothingChanged
<1> QED
  BY <1>1, <1>2 DEF SetPermissionsRequest

\* What is above a place is in a share, or above the directory of its share.
LEMMA AboveAPlace ==
    ASSUME shares \in ShareLists, NEW path \in VirtualPath, resolve_in(path).is = "at",
           NEW k \in 0 .. Len(resolve_in(path).local) - 1
    PROVE  LET q == SubSeq(resolve_in(path).local, 1, k)
           IN  /\ q \in LocalPath
               /\ \/ InShares(q)
                  \/ \E i \in DOMAIN shares : \E j \in 0 .. Len(shares[i].path) - 1 :
                        q = SubSeq(shares[i].path, 1, j)
<1>1. PICK base \in LocalPath, rest \in Seq(Entries), prefix \in VirtualPath :
        LeadsTo(path, base, rest, prefix)
  BY ResolvedPath
<1>2. rest \in LocalPath
  BY EntriesArePaths
<1>3. PICK local : local = base \o rest
  OBVIOUS
<1>4. /\ resolve_in(path).local = local
      /\ \E i \in DOMAIN shares : shares[i].path = base
  BY <1>1, <1>3 DEF LeadsTo, Place
<1>5. /\ local \in LocalPath /\ Len(base) \in Nat /\ Len(rest) \in Nat
      /\ Len(local) = Len(base) + Len(rest)
      /\ \A i \in 1 .. Len(base) : local[i] = base[i]
      /\ \A i \in 1 .. Len(local) : local[i] \in LocalNames
  <2>1. /\ local \in LocalPath /\ Len(local) = Len(base) + Len(rest)
        /\ \A i \in 1 .. Len(base) + Len(rest) :
              local[i] = IF i <= Len(base) THEN base[i] ELSE rest[i - Len(base)]
    BY <1>2, <1>3, ConcatProperties DEF LocalPath
  <2>2. Len(base) \in Nat /\ Len(rest) \in Nat
    BY <1>2 DEF LocalPath
  <2>3. \A i \in 1 .. Len(local) : local[i] \in LocalNames
    BY <2>1, ElementOfSeq DEF LocalPath
  <2> QED
    BY <2>1, <2>2, <2>3
<1>6. k \in Nat /\ k < Len(local)
  BY <1>4, <1>5
<1> DEFINE q == SubSeq(local, 1, k)
<1>7. /\ q \in LocalPath /\ Len(q) = k /\ \A i \in 1 .. k : q[i] = local[i]
  <2>1. \A i \in 1 .. k : local[i] \in LocalNames
    BY <1>5, <1>6
  <2>2. /\ q \in Seq(LocalNames) /\ Len(q) = IF 1 <= k THEN k - 1 + 1 ELSE 0
        /\ \A i \in 1 .. k - 1 + 1 : q[i] = local[1 + i - 1]
    BY <1>6, <2>1, SubSeqProperties
  <2> HIDE DEF q
  <2>3. k - 1 + 1 = k /\ \A i \in 1 .. k : 1 + i - 1 = i
    BY <1>6
  <2> QED
    BY <1>6, <2>2, <2>3 DEF LocalPath
<1>8. CASE k >= Len(base)
  <2> HIDE DEF q
  <2>1. SubSeq(q, 1, Len(base)) = base
    <3> DEFINE b == SubSeq(q, 1, Len(base))
    <3>1. \A i \in 1 .. Len(base) : q[i] = base[i] /\ q[i] \in LocalNames
      BY <1>5, <1>6, <1>7, <1>8
    <3>2. /\ b \in Seq(LocalNames) /\ Len(b) = IF 1 <= Len(base) THEN Len(base) - 1 + 1 ELSE 0
          /\ \A i \in 1 .. Len(base) - 1 + 1 : b[i] = q[1 + i - 1]
      BY <1>5, <3>1, SubSeqProperties
    <3> HIDE DEF b
    <3>3. Len(base) - 1 + 1 = Len(base) /\ \A i \in 1 .. Len(base) : 1 + i - 1 = i
      BY <1>5
    <3>4. Len(b) = Len(base) /\ \A i \in 1 .. Len(base) : b[i] = base[i]
      BY <1>5, <3>1, <3>2, <3>3, SMTT(30)
    <3> QED
      BY <3>2, <3>4, SeqEqual DEF b, LocalPath
  <2>2. IsUnder(base, q)
    BY <1>7, <1>8, <2>1 DEF IsUnder
  <2> QED
    BY <1>4, <1>7, <2>2 DEF q, InShares
<1>9. CASE k < Len(base)
  <2>1. q = SubSeq(base, 1, k)
    <3> DEFINE b == SubSeq(base, 1, k)
    <3>1. \A i \in 1 .. k : base[i] = local[i] /\ base[i] \in LocalNames
      BY <1>5, <1>6, <1>9
    <3>2. /\ b \in Seq(LocalNames) /\ Len(b) = IF 1 <= k THEN k - 1 + 1 ELSE 0
          /\ \A i \in 1 .. k - 1 + 1 : b[i] = base[1 + i - 1]
      BY <1>6, <3>1, SubSeqProperties
    <3> HIDE DEF b, q
    <3>3. k - 1 + 1 = k /\ \A i \in 1 .. k : 1 + i - 1 = i
      BY <1>6
    <3>4. Len(b) = k /\ \A i \in 1 .. k : b[i] = q[i]
      BY <1>6, <1>7, <3>1, <3>2, <3>3
    <3>5. b = q
      BY <1>7, <3>2, <3>4, SeqEqual DEF LocalPath
    <3> QED
      BY <3>5 DEF b
  <2>2. k \in 0 .. Len(base) - 1
    BY <1>5, <1>6, <1>9
  <2> QED
    BY <1>4, <1>7, <2>1, <2>2
<1> QED
  BY <1>5, <1>6, <1>8, <1>9, SMTT(30)

\* What create_dir_all makes above a place is in reach, as long as what is above
\* the shares is there.
LEMMA DirectoriesMade ==
    ASSUME SharesInv, NEW path \in VirtualPath, resolve_in(path).is = "at"
    PROVE  LET made == WithDirectories(resolve_in(path).local)
           IN  /\ made \subseteq LocalPath /\ tree \subseteq made
               /\ AncestorsThere => \A q \in made : q \in tree \/ InReach(q)
<1> DEFINE local == resolve_in(path).local
           above == {SubSeq(local, 1, k) : k \in 0 .. Len(local) - 1}
           made == WithDirectories(local)
<1>1. tree \subseteq LocalPath /\ shares \in ShareLists
  BY DEF SharesInv
<1>2. CASE made = tree
  BY <1>1, <1>2
<1>3. CASE made = tree \cup {DirectoryAt(q) : q \in above}
  <2>1. ASSUME NEW q \in above
        PROVE  /\ DirectoryAt(q) \in LocalPath
               /\ AncestorsThere => DirectoryAt(q) \in tree \/ InReach(DirectoryAt(q))
    <3>1. PICK k \in 0 .. Len(local) - 1 : q = SubSeq(local, 1, k)
      BY <2>1
    <3>2. /\ q \in LocalPath
          /\ \/ InShares(q)
             \/ \E i \in DOMAIN shares : \E j \in 0 .. Len(shares[i].path) - 1 :
                   q = SubSeq(shares[i].path, 1, j)
      BY <1>1, <3>1, AboveAPlace
    <3>3. AncestorsThere => q \in tree \/ InReach(q)
      BY <3>2 DEF AncestorsThere, InReach, InShares
    <3>4. PICK led : led = DirectoryAt(q)
      OBVIOUS
    <3>5. led \in LocalPath /\ (led = q \/ \E t \in targets : IsUnder(t, led))
      BY <3>2, <3>4, FollowedLinks DEF DirectoryAt
    <3>6. led # q => InReach(led)
      BY <3>5, TargetInReach, InReachItself
    <3> QED
      BY <3>3, <3>4, <3>5, <3>6
  <2> HIDE DEF above
  <2> QED
    BY <1>1, <1>3, <2>1
<1>4. made = tree \/ made = tree \cup {DirectoryAt(q) : q \in above}
  BY DEF WithDirectories
<1> QED
  BY <1>2, <1>3, <1>4

\* What moves comes to lie in reach, and so does what it leaves and replaces.
LEMMA MovedInReach ==
    ASSUME SharesInv, NEW made \in SUBSET LocalPath,
           NEW from, WhollyInReach(from), NEW to, WhollyInReach(to)
    PROVE  /\ Moved(made, from, to) \subseteq LocalPath
           /\ \A q \in Moved(made, from, to) : q \in made \/ InReach(q)
           /\ \A q \in made : q \in Moved(made, from, to) \/ InReach(q)
           /\ MovedLinks(from, to) \subseteq [at : LocalPath, to : LocalPath]
           /\ \A l \in MovedLinks(from, to) : l.to \in targets
           /\ \A l \in MovedLinks(from, to) : l \in links \/ InReach(l.at)
           /\ \A l \in links : l \in MovedLinks(from, to) \/ InReach(l.at)
<1>1. from \in LocalPath /\ to \in LocalPath
  BY DEF WhollyInReach
<1>2. ASSUME NEW q \in LocalPath, IsUnder(from, q)
      PROVE  /\ to \o Below(from, q) \in LocalPath
             /\ InReach(to \o Below(from, q)) /\ InReach(q)
  <2>1. PICK below : below = Below(from, q)
    OBVIOUS
  <2>2. below \in LocalPath
    BY <1>1, <1>2, <2>1, UnderIsConcat DEF LocalPath
  <2>3. to \o below \in LocalPath /\ IsUnder(to, to \o below)
    BY <1>1, <2>2, ConcatProperties, ConcatIsUnder DEF LocalPath
  <2>4. InReach(to \o below)
    BY <2>3 DEF WhollyInReach
  <2> QED
    BY <1>2, <2>1, <2>3, <2>4 DEF WhollyInReach
<1>3. /\ Moved(made, from, to) \subseteq LocalPath
      /\ \A q \in Moved(made, from, to) : q \in made \/ InReach(q)
      /\ \A q \in made : q \in Moved(made, from, to) \/ InReach(q)
  BY <1>2 DEF Moved
<1>4. \A l \in links : l \in [at : LocalPath, to : LocalPath] /\ l.to \in targets
  BY DEF SharesInv, LinksTyped
<1>5. ASSUME NEW l \in MovedLinks(from, to)
      PROVE  /\ l \in [at : LocalPath, to : LocalPath] /\ l.to \in targets
             /\ l \in links \/ InReach(l.at)
  <2>1. CASE l \in links
    BY <1>4, <2>1
  <2>2. CASE l \notin links
    <3>1. PICK k \in links : IsUnder(from, k.at) /\ l = [k EXCEPT !.at = to \o Below(from, k.at)]
      BY <2>2 DEF MovedLinks
    <3>2. k \in [at : LocalPath, to : LocalPath] /\ k.to \in targets
      BY <1>4
    <3>3. PICK place : place = to \o Below(from, k.at)
      OBVIOUS
    <3>4. place \in LocalPath /\ InReach(place)
      BY <1>2, <3>1, <3>2, <3>3
    <3>5. l = [k EXCEPT !.at = place]
      BY <3>1, <3>3
    <3>6. l.at = place /\ l.to = k.to /\ l \in [at : LocalPath, to : LocalPath]
      BY <3>2, <3>4, <3>5
    <3> QED
      BY <3>2, <3>4, <3>6
  <2> QED
    BY <2>1, <2>2
<1>6. ASSUME NEW l \in links  PROVE l \in MovedLinks(from, to) \/ InReach(l.at)
  <2>1. CASE IsUnder(from, l.at)
    BY <1>2, <1>4, <2>1
  <2>2. CASE l.at = to
    BY <2>2, InReachItself
  <2>3. CASE ~IsUnder(from, l.at) /\ l.at # to
    BY <2>3 DEF MovedLinks
  <2> QED
    BY <2>1, <2>2, <2>3
<1> QED
  BY <1>3, <1>5, <1>6

\* create_dir_all, then rename.
LEMMA RenamePreserves ==
    ASSUME SharesInv, NEW path \in VirtualPaths, NEW new_path \in VirtualPaths,
           RenameEntryRequest(path, new_path)
    PROVE  SharesInv' /\ (AncestorsThere => OutsideKept)
<1> DEFINE at == resolve_in(path)
           to == resolve_in(new_path)
<1>1. CASE Refuse(path, {})
  BY <1>1, RefusePreserves
<1>2. CASE at.is = "at" /\ Refuse(path, {virtual_parent(at)})
  BY <1>2, RefusePreserves
<1>3. CASE \E made, entry, place, ok :
           /\ at.is = "at" /\ to.is = "at"
           /\ made = WithDirectories(to.local)
           /\ entry = EntryAt(at.local) /\ place = EntryAt(to.local)
           /\ tree' = IF ok THEN Moved(made, entry, place) ELSE made
           /\ links' = IF ok THEN MovedLinks(entry, place) ELSE links
           /\ Answer(path, {virtual_parent(at)}, {}, ok)
  <2>1. PICK made, entry, place, ok :
           /\ at.is = "at" /\ to.is = "at"
           /\ made = WithDirectories(to.local)
           /\ entry = EntryAt(at.local) /\ place = EntryAt(to.local)
           /\ tree' = IF ok THEN Moved(made, entry, place) ELSE made
           /\ links' = IF ok THEN MovedLinks(entry, place) ELSE links
           /\ Answer(path, {virtual_parent(at)}, {}, ok)
    BY <1>3
  <2>2. new_path \in VirtualPath
    BY SharesAssumption DEF VirtualPath
  <2>3. WhollyInReach(entry) /\ WhollyInReach(place)
    BY <2>1, EntryInReach
  <2>4. /\ made \subseteq LocalPath /\ tree \subseteq made
        /\ AncestorsThere => \A q \in made : q \in tree \/ InReach(q)
    BY <2>1, <2>2, DirectoriesMade
  <2>5. \A l \in links : l \in [at : LocalPath, to : LocalPath] /\ l.to \in targets
    BY DEF SharesInv, LinksTyped
  <2>6. /\ Moved(made, entry, place) \subseteq LocalPath
        /\ \A q \in Moved(made, entry, place) : q \in made \/ InReach(q)
        /\ \A q \in made : q \in Moved(made, entry, place) \/ InReach(q)
        /\ MovedLinks(entry, place) \subseteq [at : LocalPath, to : LocalPath]
        /\ \A l \in MovedLinks(entry, place) : l.to \in targets
        /\ \A l \in MovedLinks(entry, place) : l \in links \/ InReach(l.at)
        /\ \A l \in links : l \in MovedLinks(entry, place) \/ InReach(l.at)
    BY <2>3, <2>4, MovedInReach
  <2>7. /\ tree' \subseteq LocalPath
        /\ \A q \in tree' : q \in made \/ InReach(q)
        /\ \A q \in made : q \in tree' \/ InReach(q)
    BY <2>1, <2>4, <2>6
  <2>8. /\ links' \subseteq [at : LocalPath, to : LocalPath] /\ \A l \in links' : l.to \in targets
        /\ \A l \in links' : l \in links \/ InReach(l.at)
        /\ \A l \in links : l \in links' \/ InReach(l.at)
    BY <2>1, <2>5, <2>6
  <2>9. SharesInv'
    BY <2>1, <2>7, <2>8, RequestAnswered
  <2>10. ASSUME AncestorsThere, NEW q \in Changed  PROVE InReach(q)
    <3>1. \/ q \in tree /\ q \notin tree'
          \/ q \in tree' /\ q \notin tree
          \/ \E l \in links : l \notin links' /\ q = l.at
          \/ \E l \in links' : l \notin links /\ q = l.at
      BY <2>10 DEF Changed
    <3> QED
      BY <2>4, <2>7, <2>8, <2>10, <3>1
  <2> QED
    BY <2>9, <2>10 DEF OutsideKept
<1> QED
  BY <1>1, <1>2, <1>3 DEF RenameEntryRequest

-----------------------------------------------------------------------------
(* The theorems about SharePaths.                                          *)

LEMMA SharesStart == SharesInit => SharesInv
<1> SUFFICES ASSUME SharesInit PROVE SharesInv
  OBVIOUS
<1>1. PICK there \in InitialTrees :
        tree = there.paths /\ links = there.links /\ targets = {l.to : l \in there.links}
  BY DEF SharesInit
<1>2. /\ there.paths \subseteq LocalPath
      /\ \A l \in there.links : l \in [at : LocalPath, to : LocalPath]
  BY SharesAssumption DEF LocalPath
<1>3. /\ shares \in ShareLists
      /\ answer.path = <<>> /\ answer.parents = {} /\ answer.names = {}
  BY DEF SharesInit
<1>4. answer.path \in VirtualPath
  BY <1>3 DEF VirtualPath
<1>5. LinksTyped
  BY <1>1, <1>2 DEF LinksTyped
<1> QED
  BY <1>1, <1>2, <1>3, <1>4, <1>5 DEF SharesInv, ListedIsFound, ParentIsFound

LEMMA SharesStutter == ASSUME SharesInv, UNCHANGED shareVars PROVE SharesInv'
<1>1. \A x : resolve_in(x)' = resolve_in(x)
  BY ResolveKept DEF shareVars
<1>2. UNCHANGED <<shares, tree, links, targets, answer>>
  BY DEF shareVars
<1>3. ListedIsFound'
  BY <1>1, <1>2 DEF SharesInv, ListedIsFound
<1>4. ParentIsFound'
  BY <1>1, <1>2 DEF SharesInv, ParentIsFound
<1> QED
  BY <1>2, <1>3, <1>4 DEF SharesInv, LinksTyped

\* A request keeps what is out of reach, once what is above the shares is there.
LEMMA RequestPreserves ==
    ASSUME SharesInv, SharesNext
    PROVE  SharesInv' /\ (AncestorsThere => OutsideKept)
<1>1. ASSUME NEW path \in VirtualPaths, RequestEntries(path)
      PROVE  SharesInv' /\ OutsideKept
  BY <1>1, EntriesPreserve, NothingChanged
<1> QED
  BY <1>1, MetadataPreserves, CreatePreserves, DeletePreserves, RenamePreserves,
     PermissionsPreserve DEF SharesNext

LEMMA SharesPreserved == SharesInv /\ [SharesNext]_shareVars => SharesInv'
<1> SUFFICES ASSUME SharesInv, [SharesNext]_shareVars PROVE SharesInv'
  OBVIOUS
<1> QED
  BY RequestPreserves, SharesStutter

\* Every request is answered.
LEMMA SomeAnswer ==
    ASSUME SharesNext
    PROVE  answer'.changed = Changed /\ UNCHANGED <<shares, targets>>
<1> DEFINE Told == answer'.changed = Changed /\ UNCHANGED <<shares, targets>>
<1>1. \A path, parents, names, ok : Answer(path, parents, names, ok) => Told
  BY DEF Answer
<1> HIDE DEF Told
<1> SUFFICES Told
  BY DEF Told
<1>2. \A path, parents : Refuse(path, parents) => Told
  BY <1>1 DEF Refuse
<1>3. PICK path \in VirtualPaths :
        \/ RequestEntries(path) \/ RequestMetadata(path)
        \/ \E name \in Entries \cup DriveNames \cup {Up} : CreateDirectoryRequest(path, name)
        \/ DeleteEntryRequest(path)
        \/ \E new_path \in VirtualPaths : RenameEntryRequest(path, new_path)
        \/ SetPermissionsRequest(path)
  BY DEF SharesNext
<1>4. CASE RequestEntries(path) \/ RequestMetadata(path) \/ SetPermissionsRequest(path)
  BY <1>1, <1>2, <1>4 DEF RequestEntries, RequestMetadata, SetPermissionsRequest
<1>5. CASE \E name \in Entries \cup DriveNames \cup {Up} : CreateDirectoryRequest(path, name)
  BY <1>1, <1>2, <1>5 DEF CreateDirectoryRequest
<1>6. CASE DeleteEntryRequest(path)
  BY <1>1, <1>2, <1>6 DEF DeleteEntryRequest
<1>7. CASE \E new_path \in VirtualPaths : RenameEntryRequest(path, new_path)
  BY <1>1, <1>2, <1>7 DEF RenameEntryRequest
<1> QED
  BY <1>3, <1>4, <1>5, <1>6, <1>7

LEMMA OutsideStep ==
    ASSUME SharesInv, AncestorsThere, ChangesInReach, [SharesNext]_shareVars
    PROVE  AncestorsThere' /\ ChangesInReach'
<1>1. UNCHANGED <<shares, targets>>
  BY SomeAnswer DEF shareVars
<1>2. \A q : InReach(q)' <=> InReach(q)
  BY <1>1 DEF InReach
<1>3. OutsideKept
  BY RequestPreserves, NothingChanged DEF shareVars
<1>4. AncestorsThere'
  BY <1>1, <1>2, <1>3 DEF AncestorsThere, OutsideKept, Changed
<1>5. CASE UNCHANGED shareVars
  BY <1>2, <1>4, <1>5 DEF shareVars, ChangesInReach
<1>6. CASE SharesNext
  BY <1>2, <1>3, <1>4, <1>6, SomeAnswer DEF OutsideKept, ChangesInReach
<1> QED
  BY <1>5, <1>6

\* Every name in a listing, and the parent every answer names, resolves for the
\* peer to the directory the handler meant, whatever is shared.
THEOREM NamesLeadBack == SharesSpec => [](ListedIsFound /\ ParentIsFound)
<1>1. SharesInv => ListedIsFound /\ ParentIsFound
  BY DEF SharesInv
<1> QED
  BY <1>1, SharesStart, SharesPreserved, PTL DEF SharesSpec

\* The directories above those of the shares are there when the node starts.
SharesHaveParents ==
    \A list \in ShareLists, there \in InitialTrees : \A i \in DOMAIN list :
        \A k \in 0 .. Len(list[i].path) - 1 : SubSeq(list[i].path, 1, k) \in there.paths

\* Then a peer also changes nothing but what is in a share, what is where a link
\* led at the start, and other drives, where the system has them.  Without,
\* create_dir_all of a renaming makes what is missing above a share.
THEOREM SharesLeadBack ==
    ASSUME SharesHaveParents
    PROVE  SharesSpec => []PathsLeadBack
<1> DEFINE I == SharesInv /\ AncestorsThere /\ ChangesInReach
<1>1. SharesInit => I
  <2> SUFFICES ASSUME SharesInit PROVE I
    OBVIOUS
  <2>1. PICK there \in InitialTrees : tree = there.paths
    BY DEF SharesInit
  <2>2. AncestorsThere
    BY <2>1 DEF SharesInit, SharesHaveParents, AncestorsThere
  <2>3. ChangesInReach
    BY DEF SharesInit, ChangesInReach
  <2> QED
    BY <2>2, <2>3, SharesStart
<1>2. I /\ [SharesNext]_shareVars => I'
  <2> SUFFICES ASSUME I, [SharesNext]_shareVars PROVE I'
    OBVIOUS
  <2> QED
    BY SharesPreserved, OutsideStep
<1>3. I => PathsLeadBack
  BY DEF SharesInv, PathsLeadBack
<1> HIDE DEF I
<1> QED
  BY <1>1, <1>2, <1>3, PTL DEF SharesSpec

-----------------------------------------------------------------------------
(* Folder synchronisation: what a scan lists of the files nobody changes.  *)

Entry == [hash : Contents \cup {Unopened}, size : Nat]
FileLists == UNION {[found -> Entry] : found \in SUBSET Files}

ScanState ==
    [at : {"idle", "walking", "measured", "reading", "done"}, index : Nat,
     todo : SUBSET Files, files : FileLists, file : Files \cup {<<>>}, size : Nat,
     held : Contents, linked : BOOLEAN, hash : Contents]

SyncTypes ==
    /\ resources \in [Sides -> ResourceLists]
    /\ disk \in [Sides -> [Dirs -> [Files -> Contents \cup {Absent}]]]
    /\ scan \in [Sides -> ScanState]
    /\ states = [n \in Sides |-> states[n]]

\* The file under a path of the i-th resource, and its name in the histories.
FileAt(n, i, p) == disk[n][resources[n][i].dir][p]
Key(n, i, p) == <<n, resources[n][i].dir, p>>
Seen(n, i, p) == resources[n][i].dir \in Dirs /\ ~Ignored(resources[n][i], p)

Beginning(hash, content) ==
    Len(hash) <= Len(content) /\ \A k \in 1 .. Len(hash) : hash[k] = content[k]

Right(n, i, p, entry) ==
    /\ entry.size = Len(FileAt(n, i, p))
    /\ entry.hash = Unopened \/ Beginning(entry.hash, FileAt(n, i, p))
    /\ Key(n, i, p) \notin unread => entry.hash = FileAt(n, i, p)

Due(n, i, p, remaining) ==
    Seen(n, i, p) /\ p \notin remaining /\ FileAt(n, i, p) # Absent

\* A list has every file of the i-th resource but the remaining ones and those
\* that were not found or read, and what it says of those that nobody changed is
\* right.
Correct(n, i, files, remaining) ==
    /\ files \in FileLists
    /\ \A p \in Files : Key(n, i, p) \notin edited =>
          /\ p \in DOMAIN files => /\ Due(n, i, p, remaining)
                                   /\ Right(n, i, p, files[p])
          /\ Due(n, i, p, remaining) /\ Key(n, i, p) \notin unread => p \in DOMAIN files

InFile(s) == s.at \in {"measured", "reading"}
Remaining(s) == s.todo \cup (IF InFile(s) THEN {s.file} ELSE {})

\* Where a scan is: its list is right but for what remains, and so is what it
\* measured and read of the file it is at.
ScanRight(n, s) ==
    /\ s.at # "reading" => s.hash = <<>>
    /\ s.at = "walking" \/ InFile(s) =>
          /\ s.index \in 1 .. Len(resources[n])
          /\ Correct(n, s.index, s.files, Remaining(s))
          /\ s.todo # {} => resources[n][s.index].dir \in Dirs
    /\ InFile(s) =>
          /\ s.file \in Files \ s.todo
          /\ Seen(n, s.index, s.file)
          /\ Key(n, s.index, s.file) \notin edited =>
                /\ FileAt(n, s.index, s.file) # Absent
                /\ s.size = Len(FileAt(n, s.index, s.file))
                /\ s.at = "reading" => /\ s.held = FileAt(n, s.index, s.file)
                                       /\ Beginning(s.hash, s.held)

\* The resources a scan has finished.
Finished(n, s) ==
    IF s.at = "idle" THEN 0 ELSE IF s.at = "done" THEN Len(resources[n]) ELSE s.index - 1

IsLast(n, i, k) == \A j \in i + 1 .. k : resources[n][j].name # resources[n][i].name

\* Every folder has the list of the last of the first k resources of its name.
FoundRight(n, k, found) ==
    /\ DOMAIN found = {resources[n][i].name : i \in 1 .. k}
    /\ \A i \in 1 .. k :
          IsLast(n, i, k) => Correct(n, i, found[resources[n][i].name], {})

SyncInv ==
    /\ SyncTypes
    /\ \A n \in Sides : /\ ScanRight(n, scan[n])
                        /\ FoundRight(n, Finished(n, scan[n]), states[n])

LEMMA ContentType ==
    ASSUME NEW c \in Contents
    PROVE  /\ c \in Seq(Blocks) /\ Len(c) \in 0 .. MaxBlocks
           /\ c \in [1 .. Len(c) -> Blocks]
           /\ c # Absent /\ c # Unopened
<1>1. PICK n \in 0 .. MaxBlocks : c \in [1 .. n -> Blocks]
  BY DEF Contents
<1>2. c \in Seq(Blocks) /\ Len(c) = n
  BY <1>1, SyncAssumption
<1> QED
  BY <1>1, <1>2, SyncAssumption

LEMMA ContentOfLength ==
    ASSUME NEW n \in 0 .. MaxBlocks, NEW c \in [1 .. n -> Blocks]
    PROVE  c \in Contents
BY DEF Contents

LEMMA EmptyContent == <<>> \in Contents /\ <<>> \in FileLists
<1>1. <<>> \in [1 .. 0 -> Blocks]
  OBVIOUS
<1>2. 0 \in 0 .. MaxBlocks
  BY SyncAssumption
<1>3. <<>> \in [{} -> Entry]
  OBVIOUS
<1> QED
  BY <1>1, <1>2, <1>3, ContentOfLength DEF FileLists

LEMMA BeginningIsAll ==
    ASSUME NEW c \in Contents, NEW h \in Contents, Beginning(h, c), Len(h) >= Len(c)
    PROVE  h = c
<1>1. /\ c \in Seq(Blocks) /\ h \in Seq(Blocks) /\ Len(c) \in Nat /\ Len(h) \in Nat
      /\ c \in [1 .. Len(c) -> Blocks] /\ h \in [1 .. Len(h) -> Blocks]
  BY ContentType, SyncAssumption
<1>2. Len(h) <= Len(c) /\ \A k \in 1 .. Len(h) : h[k] = c[k]
  BY DEF Beginning
<1>3. PICK i \in Nat, k \in Nat : i = Len(h) /\ k = Len(c)
  BY <1>1
<1>4. Len(h) = Len(c)
  <2>1. i <= k /\ i >= k
    BY <1>2, <1>3
  <2> QED
    BY <1>3, <2>1
<1> QED
  BY <1>1, <1>2, <1>4

\* A block that is read continues what was read before.
LEMMA BlockContinues ==
    ASSUME NEW c \in Contents, NEW h \in Contents, ~(Len(h) >= Len(c))
    PROVE  /\ Append(h, c[Len(h) + 1]) \in Contents
           /\ Beginning(h, c) => Beginning(Append(h, c[Len(h) + 1]), c)
<1> DEFINE n == Len(h)
           m == Len(c)
           b == c[n + 1]
           g == Append(h, b)
<1>1. /\ h \in Seq(Blocks) /\ n \in Nat /\ m \in 0 .. MaxBlocks /\ MaxBlocks \in Nat
      /\ c \in [1 .. m -> Blocks]
  BY ContentType, SyncAssumption
<1>2. n + 1 \in 1 .. m /\ n + 1 \in 0 .. MaxBlocks /\ n + 1 <= m
  BY <1>1
<1>3. b \in Blocks
  BY <1>1, <1>2
<1>4. /\ g \in Seq(Blocks) /\ Len(g) = n + 1
      /\ \A k \in 1 .. n : g[k] = h[k]
      /\ g[n + 1] = b
  BY <1>1, <1>3, AppendProperties
<1>5. g \in Contents
  <2>1. g \in [1 .. n + 1 -> Blocks]
    BY <1>4, LenProperties
  <2> QED
    BY <1>2, <2>1, ContentOfLength
<1>6. ASSUME Beginning(h, c)  PROVE Beginning(g, c)
  <2>1. \A k \in 1 .. n : h[k] = c[k]
    BY <1>6 DEF Beginning
  <2>2. \A k \in 1 .. n + 1 : k \in 1 .. n \/ k = n + 1
    BY <1>1
  <2>3. \A k \in 1 .. n + 1 : g[k] = c[k]
    BY <1>4, <2>1, <2>2
  <2> QED
    BY <1>2, <1>4, <2>3 DEF Beginning
<1> QED
  BY <1>5, <1>6

LEMMA ListOfResources ==
    ASSUME SyncTypes, NEW n \in Sides
    PROVE  Len(resources[n]) \in Nat /\ DOMAIN resources[n] = 1 .. Len(resources[n])
<1>1. resources[n] \in ResourceLists
  BY DEF SyncTypes
<1>2. PICK S : resources[n] \in Seq(S)
  BY <1>1, SyncAssumption
<1> QED
  BY <1>2, LenProperties

LEMMA FileTyped ==
    ASSUME SyncTypes, NEW n \in Sides, NEW i, NEW p \in Files, resources[n][i].dir \in Dirs
    PROVE  FileAt(n, i, p) \in Contents \cup {Absent}
BY DEF SyncTypes, FileAt

\* What a step never takes back: the histories grow, and a file that is not in
\* the history stays as it is.
Onward ==
    /\ resources' = resources /\ wanted' = wanted
    /\ edited \subseteq edited' /\ unread \subseteq unread'
    /\ \A n \in Sides, d \in Dirs, p \in Files :
          <<n, d, p>> \notin edited' => disk'[n][d][p] = disk[n][d][p]

LEMMA CorrectKept ==
    ASSUME SyncTypes, Onward, NEW n \in Sides, NEW i, NEW files, NEW remaining,
           Correct(n, i, files, remaining)
    PROVE  Correct(n, i, files, remaining)'
<1> SUFFICES ASSUME NEW p \in Files, Key(n, i, p)' \notin edited'
             PROVE  /\ p \in DOMAIN files => /\ Due(n, i, p, remaining)'
                                             /\ Right(n, i, p, files[p])'
                    /\ Due(n, i, p, remaining)' /\ Key(n, i, p)' \notin unread' =>
                          p \in DOMAIN files
  BY DEF Correct
<1>1. Key(n, i, p)' = Key(n, i, p) /\ (Seen(n, i, p)' <=> Seen(n, i, p))
  BY DEF Onward, Key, Seen
<1>2. Key(n, i, p) \notin edited
  BY <1>1 DEF Onward
<1>3. Seen(n, i, p) => FileAt(n, i, p)' = FileAt(n, i, p)
  BY <1>1 DEF Onward, Key, Seen, FileAt
<1>4. /\ p \in DOMAIN files => Due(n, i, p, remaining) /\ Right(n, i, p, files[p])
      /\ Due(n, i, p, remaining) /\ Key(n, i, p) \notin unread => p \in DOMAIN files
  BY <1>2 DEF Correct
<1>5. Due(n, i, p, remaining)' <=> Due(n, i, p, remaining)
  BY <1>1, <1>3 DEF Due
<1>6. ASSUME p \in DOMAIN files  PROVE Right(n, i, p, files[p])'
  BY <1>1, <1>3, <1>4, <1>6 DEF Right, Onward, Due
<1>7. Key(n, i, p)' \notin unread' => Key(n, i, p) \notin unread
  BY <1>1 DEF Onward
<1> QED
  BY <1>4, <1>5, <1>6, <1>7

LEMMA FoundKept ==
    ASSUME SyncTypes, Onward, NEW n \in Sides, NEW k, NEW found, FoundRight(n, k, found)
    PROVE  FoundRight(n, k, found)'
<1>1. resources' = resources
  BY DEF Onward
<1>2. ASSUME NEW i \in 1 .. k, IsLast(n, i, k)'
      PROVE  Correct(n, i, found[resources[n][i].name], {})'
  <2>1. IsLast(n, i, k)
    BY <1>1, <1>2 DEF IsLast
  <2>2. PICK files : files = found[resources[n][i].name]
    OBVIOUS
  <2>3. Correct(n, i, files, {})
    BY <2>1, <2>2 DEF FoundRight
  <2>4. Correct(n, i, files, {})'
    BY <2>3, CorrectKept
  <2>5. files = found[resources'[n][i].name]
    BY <1>1, <2>2
  <2> QED
    BY <2>4, <2>5
<1>3. DOMAIN found = {resources'[n][i].name : i \in 1 .. k}
  BY <1>1 DEF FoundRight
<1> QED
  BY <1>2, <1>3 DEF FoundRight

LEMMA ScanKept ==
    ASSUME SyncTypes, Onward, NEW n \in Sides, NEW s \in ScanState, ScanRight(n, s)
    PROVE  ScanRight(n, s)'
<1>1. ASSUME s.at = "walking" \/ InFile(s)
      PROVE  /\ s.index \in 1 .. Len(resources'[n])
             /\ Correct(n, s.index, s.files, Remaining(s))'
             /\ s.todo # {} => resources'[n][s.index].dir \in Dirs
  <2>1. Correct(n, s.index, s.files, Remaining(s))
    BY <1>1 DEF ScanRight
  <2>2. Correct(n, s.index, s.files, Remaining(s))'
    BY <2>1, CorrectKept
  <2> QED
    BY <1>1, <2>2 DEF ScanRight, Onward
<1>2. ASSUME InFile(s)
      PROVE  /\ s.file \in Files \ s.todo
             /\ Seen(n, s.index, s.file)'
             /\ Key(n, s.index, s.file)' \notin edited' =>
                   /\ FileAt(n, s.index, s.file)' # Absent
                   /\ s.size = Len(FileAt(n, s.index, s.file)')
                   /\ s.at = "reading" => /\ s.held = FileAt(n, s.index, s.file)'
                                          /\ Beginning(s.hash, s.held)
  <2>1. s.file \in Files \ s.todo /\ Seen(n, s.index, s.file)
    BY <1>2 DEF ScanRight
  <2>2. /\ Key(n, s.index, s.file)' = Key(n, s.index, s.file)
        /\ Seen(n, s.index, s.file)'
    BY <2>1 DEF Onward, Key, Seen
  <2>3. ASSUME Key(n, s.index, s.file)' \notin edited'
        PROVE  /\ FileAt(n, s.index, s.file)' = FileAt(n, s.index, s.file)
               /\ Key(n, s.index, s.file) \notin edited
    BY <2>1, <2>2, <2>3 DEF Onward, Key, Seen, FileAt
  <2> QED
    BY <1>2, <2>1, <2>2, <2>3 DEF ScanRight
<1> QED
  BY <1>1, <1>2 DEF ScanRight, InFile, Remaining

LEMMA Stays ==
    ASSUME UNCHANGED <<resources, disk, wanted, edited>>, unread \subseteq unread'
    PROVE  Onward
BY DEF Onward

\* The scan of one node and what others do to its disk leave the other alone.
LEMMA SideStep ==
    ASSUME SyncInv, Onward, SyncTypes', NEW n \in Sides,
           \A m \in Sides \ {n} : scan'[m] = scan[m] /\ states'[m] = states[m],
           ScanRight(n, scan[n])', FoundRight(n, Finished(n, scan[n]), states[n])'
    PROVE  SyncInv'
<1>1. ASSUME NEW m \in Sides, m # n
      PROVE  ScanRight(m, scan[m])' /\ FoundRight(m, Finished(m, scan[m]), states[m])'
  <2>1. PICK s \in ScanState : s = scan[m]
    BY DEF SyncInv, SyncTypes
  <2>2. PICK found : found = states[m]
    OBVIOUS
  <2>3. PICK k : k = Finished(m, s)
    OBVIOUS
  <2>4. ScanRight(m, s)' /\ FoundRight(m, k, found)'
    BY <2>1, <2>2, <2>3, ScanKept, FoundKept DEF SyncInv
  <2>5. scan'[m] = s /\ states'[m] = found /\ Finished(m, s)' = k
    BY <1>1, <2>1, <2>2, <2>3 DEF Onward, Finished
  <2> QED
    BY <2>4, <2>5
<1> QED
  BY <1>1 DEF SyncInv

\* A step of a scan that finishes no folder.
LEMMA ScanStep ==
    ASSUME SyncInv, UNCHANGED <<resources, disk, wanted, states, edited>>,
           unread \subseteq unread', NEW n \in Sides, NEW t \in ScanState,
           scan' = [scan EXCEPT ![n] = t],
           ScanRight(n, t)', Finished(n, t) = Finished(n, scan[n])
    PROVE  SyncInv'
<1>1. Onward
  BY Stays
<1>2. scan'[n] = t /\ \A m \in Sides \ {n} : scan'[m] = scan[m]
  BY DEF SyncInv, SyncTypes
<1>3. SyncTypes'
  BY DEF SyncInv, SyncTypes
<1>4. PICK k : k = Finished(n, scan[n])
  OBVIOUS
<1>5. PICK found : found = states[n]
  OBVIOUS
<1>6. FoundRight(n, k, found)'
  BY <1>1, <1>4, <1>5, FoundKept DEF SyncInv
<1>7. Finished(n, scan[n])' = k /\ states'[n] = found
  BY <1>2, <1>4, <1>5 DEF Finished
<1> QED
  BY <1>1, <1>2, <1>3, <1>6, <1>7, SideStep

LEMMA WalkRight ==
    ASSUME SyncTypes, NEW n \in Sides, NEW i \in 1 .. Len(resources[n]) + 1
    PROVE  /\ Walk(n, i) \in ScanState /\ ScanRight(n, Walk(n, i))
           /\ Finished(n, Walk(n, i)) = i - 1
<1>1. PICK t : t = Walk(n, i)
  OBVIOUS
<1>2. Len(resources[n]) \in Nat
  BY ListOfResources
<1>3. CASE i > Len(resources[n])
  <2>1. t = [Idle EXCEPT !.at = "done"]
    BY <1>1, <1>3 DEF Walk
  <2>2. t.at = "done" /\ t.hash = <<>> /\ t \in ScanState
    BY <2>1, EmptyContent DEF Idle, ScanState
  <2>3. i - 1 = Len(resources[n])
    BY <1>2, <1>3
  <2> QED
    BY <1>1, <2>2, <2>3 DEF ScanRight, InFile, Finished
<1>4. CASE ~(i > Len(resources[n]))
  <2>1. t = [Idle EXCEPT !.at = "walking", !.index = i,
                         !.todo = IF resources[n][i].dir \in Dirs THEN Files ELSE {}]
    BY <1>1, <1>4 DEF Walk
  <2>2. i \in Nat /\ i \in 1 .. Len(resources[n])
    BY <1>2, <1>4
  <2>3. /\ t.at = "walking" /\ t.index = i /\ t.files = <<>> /\ t.hash = <<>>
        /\ t.todo = IF resources[n][i].dir \in Dirs THEN Files ELSE {}
        /\ t \in ScanState
    BY <2>1, <2>2, EmptyContent DEF Idle, ScanState
  <2>4. DOMAIN <<>> = {}
    OBVIOUS
  <2>5. Correct(n, i, <<>>, t.todo)
    BY <2>3, <2>4, EmptyContent DEF Correct, Due, Seen
  <2>6. ~InFile(t) /\ Remaining(t) = t.todo
    BY <2>3 DEF InFile, Remaining
  <2>7. ScanRight(n, t)
    BY <2>2, <2>3, <2>5, <2>6 DEF ScanRight
  <2> QED
    BY <1>1, <2>3, <2>7 DEF Finished
<1> QED
  BY <1>3, <1>4

LEMMA StartKeepsRight ==
    ASSUME SyncInv, NEW n \in Sides, StartScan(n)
    PROVE  SyncInv'
<1>1. SyncTypes /\ 1 \in 1 .. Len(resources[n]) + 1
  BY ListOfResources DEF SyncInv
<1>2. PICK t : t = Walk(n, 1)
  OBVIOUS
<1>3. t \in ScanState /\ ScanRight(n, t) /\ Finished(n, t) = 0
  BY <1>1, <1>2, WalkRight
<1>4. Finished(n, scan[n]) = 0
  BY DEF StartScan, At, Finished
<1>5. /\ UNCHANGED <<resources, disk, wanted, states, edited>> /\ unread \subseteq unread'
      /\ scan' = [scan EXCEPT ![n] = t]
  BY <1>2 DEF StartScan
<1>6. ScanRight(n, t)'
  BY <1>1, <1>3, <1>5, Stays, ScanKept
<1> QED
  BY <1>3, <1>4, <1>5, <1>6, ScanStep

LEMMA VisitKeepsRight ==
    ASSUME SyncInv, NEW n \in Sides, NEW p \in Files, Visit(n, p)
    PROVE  SyncInv'
<1>1. PICK s \in ScanState : s = scan[n]
  BY DEF SyncInv, SyncTypes
<1> DEFINE i == s.index
<1>2. /\ SyncTypes /\ ScanRight(n, s) /\ s.at = "walking" /\ p \in s.todo
  BY <1>1 DEF SyncInv, Visit, At
<1>3. /\ i \in 1 .. Len(resources[n]) /\ resources[n][i].dir \in Dirs
      /\ Correct(n, i, s.files, s.todo) /\ s.hash = <<>>
  BY <1>2 DEF ScanRight, InFile, Remaining
<1>4. FileAt(n, i, p) = disk[n][Directory(n)][p]
  BY <1>1 DEF FileAt, Directory
<1>5. FileAt(n, i, p) \in Contents \cup {Absent}
  BY <1>2, <1>3, FileTyped
<1> DEFINE passed == [s EXCEPT !.todo = @ \ {p}]
           measured == [passed EXCEPT !.at = "measured", !.file = p, !.size = Len(FileAt(n, i, p))]
           found == ~Ignored(resources[n][i], p) /\ FileAt(n, i, p) # Absent
<1>6. UNCHANGED <<resources, disk, wanted, states, edited>> /\ unread \subseteq unread'
  BY DEF Visit, Unreadable
<1>7. CASE /\ scan' = [scan EXCEPT ![n] = passed]
           /\ found => Key(n, i, p) \in unread'
  <2>1. PICK u : u = passed
    OBVIOUS
  <2>2. /\ u \in ScanState /\ u.at = "walking" /\ u.index = i /\ u.files = s.files
        /\ u.todo = s.todo \ {p} /\ u.hash = s.hash
    BY <1>2, <2>1 DEF ScanState
  <2>3. Correct(n, i, s.files, s.todo \ {p})'
    <3>1. Correct(n, i, s.files, s.todo)'
      <4>1. PICK todo : todo = s.todo
        OBVIOUS
      <4>2. Correct(n, i, s.files, todo)'
        BY <1>2, <1>3, <1>6, <4>1, Stays, CorrectKept
      <4> QED
        BY <4>1, <4>2
    <3>2. (Key(n, i, p) \notin unread => ~found)'
      BY <1>6, <1>7 DEF Key, FileAt
    <3> QED
      BY <3>1, <3>2 DEF Correct, Due, Seen
  <2>4. ~InFile(u) /\ Remaining(u) = u.todo
    BY <2>2 DEF InFile, Remaining
  <2>5. ScanRight(n, u)'
    <3>1. Correct(n, i, u.files, u.todo)'
      BY <2>2, <2>3
    <3>2. resources' = resources
      BY <1>6
    <3> QED
      BY <1>3, <2>2, <2>4, <3>1, <3>2 DEF ScanRight, InFile, Remaining
  <2>6. Finished(n, u) = Finished(n, scan[n])
    BY <1>1, <1>2, <2>2 DEF Finished
  <2>7. scan' = [scan EXCEPT ![n] = u]
    BY <1>7, <2>1
  <2> QED
    BY <1>6, <2>2, <2>5, <2>6, <2>7, ScanStep
<1>8. CASE found /\ scan' = [scan EXCEPT ![n] = measured]
  <2>1. PICK u : u = measured
    OBVIOUS
  <2>2. Len(FileAt(n, i, p)) \in Nat
    BY <1>5, <1>8, ContentType, SyncAssumption
  <2>3. /\ u \in ScanState /\ u.at = "measured" /\ u.index = i /\ u.files = s.files
        /\ u.todo = s.todo \ {p} /\ u.hash = s.hash /\ u.file = p
        /\ u.size = Len(FileAt(n, i, p))
    BY <1>2, <2>1, <2>2 DEF ScanState
  <2>4. InFile(u) /\ Remaining(u) = s.todo
    BY <1>2, <2>3 DEF InFile, Remaining
  <2>5. Seen(n, i, p)
    BY <1>3, <1>8 DEF Seen
  <2>6. ScanRight(n, u)
    BY <1>3, <1>8, <2>3, <2>4, <2>5 DEF ScanRight
  <2>7. Finished(n, u) = Finished(n, scan[n])
    BY <1>1, <1>2, <2>3 DEF Finished
  <2>8. scan' = [scan EXCEPT ![n] = u] /\ ScanRight(n, u)'
    BY <1>2, <1>6, <1>8, <2>1, <2>3, <2>6, Stays, ScanKept
  <2> QED
    BY <1>6, <2>3, <2>7, <2>8, ScanStep
<1>9. \/ found /\ scan' = [scan EXCEPT ![n] = measured]
      \/ /\ scan' = [scan EXCEPT ![n] = passed]
         /\ found => Key(n, i, p) \in unread'
  <2>1. [scan[n] EXCEPT !.todo = @ \ {p}] = passed /\ passed.index = i
    BY <1>1 DEF ScanState
  <2>2. Unreadable(n, p) => Key(n, i, p) \in unread'
    BY <1>1 DEF Unreadable, Key, Directory
  <2> QED
    BY <1>4, <2>1, <2>2 DEF Visit
<1> QED
  BY <1>7, <1>8, <1>9

\* A file enters the list with what was measured and read of it.
LEMMA ListedRight ==
    ASSUME SyncTypes, UNCHANGED <<resources, disk, wanted, edited>>, unread \subseteq unread',
           NEW n \in Sides, NEW s \in ScanState, ScanRight(n, s), InFile(s),
           NEW hash \in Contents \cup {Unopened},
           Key(n, s.index, s.file) \notin edited =>
              /\ hash = Unopened \/ Beginning(hash, FileAt(n, s.index, s.file))
              /\ Key(n, s.index, s.file) \notin unread' => hash = FileAt(n, s.index, s.file)
    PROVE  /\ Listed(s, hash) \in ScanState /\ ScanRight(n, Listed(s, hash))'
           /\ Finished(n, Listed(s, hash)) = Finished(n, s)
<1> DEFINE i == s.index
           f == s.file
<1>1. /\ f \in Files \ s.todo /\ Seen(n, i, f) /\ i \in 1 .. Len(resources[n])
      /\ Correct(n, i, s.files, Remaining(s))
      /\ Key(n, i, f) \notin edited => FileAt(n, i, f) # Absent /\ s.size = Len(FileAt(n, i, f))
      /\ s.todo # {} => resources[n][i].dir \in Dirs
  BY DEF ScanRight
<1>2. Remaining(s) = s.todo \cup {f}
  BY DEF Remaining
<1>3. s.size \in Nat /\ s.files \in FileLists
  BY DEF ScanState
<1>4. PICK entry \in Entry : entry = [hash |-> hash, size |-> s.size]
  BY <1>3 DEF Entry
<1>5. entry.hash = hash /\ entry.size = s.size
  BY <1>4
<1>6. PICK files : files = [p \in DOMAIN s.files \cup {f} |-> IF p = f THEN entry ELSE s.files[p]]
  OBVIOUS
<1>7. PICK found \in SUBSET Files : s.files \in [found -> Entry]
  BY <1>3 DEF FileLists
<1>8. /\ DOMAIN files = DOMAIN s.files \cup {f} /\ files[f] = entry
      /\ \A p \in DOMAIN s.files : p # f => files[p] = s.files[p]
  BY <1>6
<1>9. files \in FileLists
  <2>1. found \cup {f} \in SUBSET Files /\ DOMAIN s.files = found
    BY <1>1, <1>7
  <2>2. files \in [found \cup {f} -> Entry]
    BY <1>4, <1>6, <1>7, <2>1
  <2> QED
    BY <2>1, <2>2 DEF FileLists
<1>10. PICK t : t = Listed(s, hash)
  OBVIOUS
<1>11. /\ t.at = "walking" /\ t.index = i /\ t.todo = s.todo /\ t.files = files
       /\ t.hash = <<>> /\ t \in ScanState
  <2>1. t = [s EXCEPT !.at = "walking", !.file = <<>>, !.size = 0, !.held = <<>>,
                      !.linked = FALSE, !.hash = <<>>, !.files = files]
    BY <1>4, <1>6, <1>10 DEF Listed
  <2> QED
    BY <1>9, <2>1, EmptyContent DEF ScanState
<1>12. ~InFile(t) /\ Remaining(t) = s.todo
  BY <1>11 DEF InFile, Remaining
<1>13. Onward
  BY Stays
<1>14. Correct(n, i, s.files, Remaining(s))'
  <2>1. PICK r : r = Remaining(s)
    OBVIOUS
  <2>2. Correct(n, i, s.files, r)'
    BY <1>1, <1>13, <2>1, CorrectKept
  <2> QED
    BY <2>1, <2>2 DEF Remaining, InFile
<1>15. Seen(n, i, f)' /\ \A p : Key(n, i, p)' = Key(n, i, p) /\ FileAt(n, i, p)' = FileAt(n, i, p)
  BY <1>1 DEF Seen, Key, FileAt
<1>16. Correct(n, i, files, s.todo)'
  <2> SUFFICES ASSUME NEW p \in Files, Key(n, i, p)' \notin edited'
               PROVE  /\ p \in DOMAIN files => Due(n, i, p, s.todo)' /\ Right(n, i, p, files[p])'
                      /\ Due(n, i, p, s.todo)' /\ Key(n, i, p)' \notin unread' => p \in DOMAIN files
    BY <1>9 DEF Correct
  <2>1. CASE p = f
    <3>1. Key(n, i, f) \notin edited
      BY <1>15, <2>1
    <3>2. FileAt(n, i, f)' # Absent /\ Seen(n, i, f)' /\ f \notin s.todo
      BY <1>1, <1>15, <3>1
    <3>3. Right(n, i, f, entry)'
      BY <1>1, <1>5, <1>15, <3>1 DEF Right
    <3> QED
      BY <1>8, <2>1, <3>2, <3>3 DEF Due
  <2>2. CASE p # f
    <3>1. /\ p \in DOMAIN s.files =>
                Due(n, i, p, Remaining(s))' /\ Right(n, i, p, s.files[p])'
          /\ Due(n, i, p, Remaining(s))' /\ Key(n, i, p)' \notin unread' => p \in DOMAIN s.files
      BY <1>14 DEF Correct, Remaining, InFile
    <3>2. p \in DOMAIN files <=> p \in DOMAIN s.files
      BY <1>8, <2>2
    <3>3. ASSUME p \in DOMAIN files  PROVE Right(n, i, p, files[p])'
      BY <1>8, <2>2, <3>1, <3>2, <3>3
    <3>4. Due(n, i, p, Remaining(s))' <=> Due(n, i, p, s.todo)'
      BY <1>2, <2>2 DEF Due
    <3> QED
      BY <3>1, <3>2, <3>3, <3>4
  <2> QED
    BY <2>1, <2>2
<1>17. ScanRight(n, t)'
  BY <1>1, <1>11, <1>12, <1>16 DEF ScanRight, InFile, Remaining
<1>18. Finished(n, t) = Finished(n, s)
  BY <1>11 DEF Finished, InFile
<1> QED
  BY <1>10, <1>11, <1>17, <1>18

LEMMA OpenKeepsRight ==
    ASSUME SyncInv, NEW n \in Sides, Open(n)
    PROVE  SyncInv'
<1>1. PICK s \in ScanState : s = scan[n]
  BY DEF SyncInv, SyncTypes
<1> DEFINE i == s.index
<1>2. /\ SyncTypes /\ ScanRight(n, s) /\ s.at = "measured" /\ s.hash = <<>>
  BY <1>1 DEF SyncInv, Open, At, ScanRight
<1>3. /\ i \in 1 .. Len(resources[n]) /\ Seen(n, i, s.file) /\ s.file \in Files /\ InFile(s)
  BY <1>2 DEF ScanRight, InFile
<1>4. FileAt(n, i, s.file) = disk[n][Directory(n)][s.file]
  BY <1>1 DEF FileAt, Directory
<1>5. FileAt(n, i, s.file) \in Contents \cup {Absent}
  BY <1>2, <1>3, FileTyped DEF Seen
<1>6. UNCHANGED <<resources, disk, wanted, states, edited>>
  BY DEF Open
<1>7. CASE /\ FileAt(n, i, s.file) # Absent /\ UNCHANGED unread
           /\ scan' = [scan EXCEPT ![n].at = "reading", ![n].held = FileAt(n, i, s.file),
                                   ![n].linked = TRUE]
  <2>1. PICK c \in Contents : c = FileAt(n, i, s.file)
    BY <1>5, <1>7
  <2>2. PICK t : t = [s EXCEPT !.at = "reading", !.held = c, !.linked = TRUE]
    OBVIOUS
  <2>3. /\ t \in ScanState /\ t.at = "reading" /\ t.index = i /\ t.todo = s.todo
        /\ t.files = s.files /\ t.file = s.file /\ t.size = s.size /\ t.held = c /\ t.hash = <<>>
    BY <1>2, <2>1, <2>2 DEF ScanState
  <2>4. InFile(t) /\ Remaining(t) = Remaining(s)
    BY <1>3, <2>3 DEF InFile, Remaining
  <2>5. Beginning(<<>>, c)
    <3>1. Len(c) \in Nat /\ Len(<<>>) = 0
      BY ContentType, SyncAssumption
    <3> QED
      BY <3>1 DEF Beginning
  <2>6. ScanRight(n, t)
    BY <1>2, <1>3, <2>1, <2>3, <2>4, <2>5 DEF ScanRight
  <2>7. Finished(n, t) = Finished(n, scan[n])
    BY <1>1, <1>2, <2>3 DEF Finished
  <2>8. scan' = [scan EXCEPT ![n] = t]
    BY <1>1, <1>2, <1>7, <2>1, <2>2 DEF SyncTypes
  <2>9. ScanRight(n, t)'
    BY <1>2, <1>6, <1>7, <2>3, <2>6, Stays, ScanKept
  <2> QED
    BY <1>6, <1>7, <2>3, <2>7, <2>8, <2>9, ScanStep
<1>8. CASE scan' = [scan EXCEPT ![n] = Listed(@, Unopened)] /\ Unreadable(n, s.file)
  <2>1. PICK t : t = Listed(s, Unopened)
    OBVIOUS
  <2>2. unread' = unread \cup {Key(n, i, s.file)}
    BY <1>1, <1>8 DEF Unreadable, Key, Directory
  <2>3. t \in ScanState /\ ScanRight(n, t)' /\ Finished(n, t) = Finished(n, s)
    BY <1>2, <1>3, <1>6, <2>1, <2>2, ListedRight
  <2>4. scan' = [scan EXCEPT ![n] = t]
    BY <1>1, <1>8, <2>1
  <2> QED
    BY <1>1, <1>6, <2>2, <2>3, <2>4, ScanStep
<1> QED
  BY <1>1, <1>4, <1>7, <1>8 DEF Open

LEMMA ReadKeepsRight ==
    ASSUME SyncInv, NEW n \in Sides, ReadBlock(n)
    PROVE  SyncInv'
<1>1. PICK s \in ScanState : s = scan[n]
  BY DEF SyncInv, SyncTypes
<1>2. /\ SyncTypes /\ ScanRight(n, s) /\ s.at = "reading" /\ InFile(s)
  BY <1>1 DEF SyncInv, ReadBlock, At, InFile
<1>3. s.hash \in Contents /\ s.held \in Contents /\ ~(Len(s.hash) >= Len(s.held))
  BY <1>1 DEF ScanState, ReadBlock, AtEnd
<1>4. PICK hash : hash = Append(s.hash, s.held[Len(s.hash) + 1])
  OBVIOUS
<1>5. hash \in Contents /\ (Beginning(s.hash, s.held) => Beginning(hash, s.held))
  BY <1>3, <1>4, BlockContinues
<1>6. PICK t : t = [s EXCEPT !.hash = hash]
  OBVIOUS
<1>7. /\ t \in ScanState /\ t.at = "reading" /\ t.index = s.index /\ t.todo = s.todo
      /\ t.files = s.files /\ t.file = s.file /\ t.size = s.size /\ t.held = s.held
      /\ t.hash = hash
  BY <1>2, <1>5, <1>6 DEF ScanState
<1>8. InFile(t) /\ Remaining(t) = Remaining(s)
  BY <1>2, <1>7 DEF InFile, Remaining
<1>9. ScanRight(n, t)
  BY <1>2, <1>5, <1>7, <1>8 DEF ScanRight
<1>10. Finished(n, t) = Finished(n, scan[n])
  BY <1>1, <1>2, <1>7 DEF Finished
<1>11. UNCHANGED <<resources, disk, wanted, states, edited, unread>>
  BY DEF ReadBlock
<1>12. scan' = [scan EXCEPT ![n] = t]
  BY <1>1, <1>2, <1>4, <1>6 DEF SyncTypes, ReadBlock
<1>13. ScanRight(n, t)'
  BY <1>2, <1>7, <1>9, <1>11, Stays, ScanKept
<1> QED
  BY <1>7, <1>10, <1>11, <1>12, <1>13, ScanStep

LEMMA HashKeepsRight ==
    ASSUME SyncInv, NEW n \in Sides, HashFile(n)
    PROVE  SyncInv'
<1>1. PICK s \in ScanState : s = scan[n]
  BY DEF SyncInv, SyncTypes
<1> DEFINE i == s.index
<1>2. /\ SyncTypes /\ ScanRight(n, s) /\ s.at = "reading" /\ InFile(s)
  BY <1>1 DEF SyncInv, HashFile, At, InFile
<1>3. s.hash \in Contents /\ s.held \in Contents
  BY DEF ScanState
<1>4. UNCHANGED <<resources, disk, wanted, states, edited>>
  BY DEF HashFile
<1>5. \/ Len(s.hash) >= Len(s.held) /\ UNCHANGED unread
      \/ unread' = unread \cup {Key(n, i, s.file)}
  BY <1>1 DEF HashFile, AtEnd, Unreadable, Key, Directory
<1>6. unread \subseteq unread'
  BY <1>5
<1>7. ASSUME Key(n, i, s.file) \notin edited
      PROVE  /\ Beginning(s.hash, FileAt(n, i, s.file))
             /\ Key(n, i, s.file) \notin unread' => s.hash = FileAt(n, i, s.file)
  <2>1. s.held = FileAt(n, i, s.file) /\ Beginning(s.hash, s.held)
    BY <1>2, <1>7 DEF ScanRight
  <2>2. Key(n, i, s.file) \notin unread' => s.hash = s.held
    BY <1>3, <1>5, <2>1, BeginningIsAll
  <2> QED
    BY <2>1, <2>2
<1>8. PICK t : t = Listed(s, s.hash)
  OBVIOUS
<1>9. t \in ScanState /\ ScanRight(n, t)' /\ Finished(n, t) = Finished(n, s)
  BY <1>2, <1>3, <1>4, <1>6, <1>7, <1>8, ListedRight
<1>10. scan' = [scan EXCEPT ![n] = t]
  BY <1>1, <1>8 DEF HashFile
<1> QED
  BY <1>1, <1>4, <1>6, <1>9, <1>10, ScanStep

\* The list that is complete replaces what an earlier resource of its name had.
LEMMA InsertRight ==
    ASSUME NEW n \in Sides, NEW i \in Nat, i >= 1, NEW found, FoundRight(n, i - 1, found),
           NEW files, Correct(n, i, files, {})
    PROVE  FoundRight(n, i, Insert(found, resources[n][i].name, files))
<1> DEFINE name == resources[n][i].name
<1>1. PICK after : after = Insert(found, name, files)
  OBVIOUS
<1>2. /\ DOMAIN after = DOMAIN found \cup {name} /\ after[name] = files
      /\ \A f \in DOMAIN found : f # name => after[f] = found[f]
  BY <1>1 DEF Insert
<1>3. /\ i \in 1 .. i /\ i - 1 \in Nat
      /\ \A j : j \in 1 .. i <=> j \in 1 .. i - 1 \/ j = i
  OBVIOUS
<1>4. DOMAIN after = {resources[n][j].name : j \in 1 .. i}
  BY <1>2, <1>3 DEF FoundRight
<1>5. ASSUME NEW j \in 1 .. i, IsLast(n, j, i)
      PROVE  Correct(n, j, after[resources[n][j].name], {})
  <2>1. CASE j = i
    BY <1>2, <2>1
  <2>2. CASE j # i
    <3>1. j \in 1 .. i - 1 /\ i \in j + 1 .. i
      BY <2>2
    <3>2. resources[n][j].name # name
      BY <1>5, <3>1 DEF IsLast
    <3>3. \A k \in j + 1 .. i - 1 : k \in j + 1 .. i
      BY <3>1
    <3>4. IsLast(n, j, i - 1)
      BY <1>5, <3>3 DEF IsLast
    <3>5. /\ resources[n][j].name \in DOMAIN found
          /\ Correct(n, j, found[resources[n][j].name], {})
      BY <3>1, <3>4 DEF FoundRight
    <3> QED
      BY <1>2, <3>2, <3>5
  <2> QED
    BY <2>1, <2>2
<1> QED
  BY <1>1, <1>4, <1>5 DEF FoundRight

LEMMA FinishKeepsRight ==
    ASSUME SyncInv, NEW n \in Sides, FinishFolder(n)
    PROVE  SyncInv'
<1>1. PICK s \in ScanState : s = scan[n]
  BY DEF SyncInv, SyncTypes
<1>2. PICK i : i = s.index
  OBVIOUS
<1>3. /\ SyncTypes /\ ScanRight(n, s) /\ s.at = "walking" /\ s.todo = {}
      /\ FoundRight(n, Finished(n, s), states[n])
  BY <1>1 DEF SyncInv, FinishFolder, At
<1>4. /\ i \in 1 .. Len(resources[n]) /\ Correct(n, i, s.files, {})
      /\ FoundRight(n, i - 1, states[n])
  BY <1>2, <1>3 DEF ScanRight, InFile, Remaining, Finished
<1>5. Len(resources[n]) \in Nat
  BY <1>3, ListOfResources
<1>6. i \in Nat /\ i >= 1 /\ i + 1 \in 1 .. Len(resources[n]) + 1 /\ i + 1 - 1 = i
  BY <1>4, <1>5
<1>7. PICK t : t = Walk(n, i + 1)
  OBVIOUS
<1>8. t \in ScanState /\ ScanRight(n, t) /\ Finished(n, t) = i
  BY <1>3, <1>6, <1>7, WalkRight
<1>9. PICK found : found = Insert(states[n], resources[n][i].name, s.files)
  OBVIOUS
<1>10. FoundRight(n, i, found)
  BY <1>4, <1>6, <1>9, InsertRight
<1>11. UNCHANGED <<resources, disk, wanted, edited, unread>>
  BY DEF FinishFolder
<1>12. Onward
  BY <1>11, Stays
<1>13. ScanRight(n, t)' /\ FoundRight(n, i, found)'
  BY <1>3, <1>8, <1>10, <1>12, ScanKept, FoundKept
<1>14. scan' = [scan EXCEPT ![n] = t] /\ states' = [states EXCEPT ![n] = found]
  BY <1>1, <1>2, <1>7, <1>9 DEF FinishFolder
<1>15. scan'[n] = t /\ \A m \in Sides \ {n} : scan'[m] = scan[m]
  BY <1>3, <1>14 DEF SyncTypes
<1>16. /\ states'[n] = found /\ states' = [m \in Sides |-> states'[m]]
       /\ \A m \in Sides \ {n} : states'[m] = states[m]
  BY <1>3, <1>14 DEF SyncTypes
<1>17. SyncTypes'
  BY <1>3, <1>8, <1>11, <1>14, <1>16 DEF SyncTypes
<1>18. Finished(n, scan[n])' = i
  BY <1>8, <1>11, <1>15 DEF Finished
<1> QED
  BY <1>12, <1>13, <1>15, <1>16, <1>17, <1>18, SideStep

\* Whoever changes a file, the histories know, also while it is read.
LEMMA EditKeepsRight ==
    ASSUME SyncInv, NEW n \in Sides, NEW d \in Dirs, NEW p \in Files,
           NEW content \in NewContents, Edit(n, d, p, content)
    PROVE  SyncInv'
<1>1. PICK s \in ScanState : s = scan[n]
  BY DEF SyncInv, SyncTypes
<1>2. SyncTypes /\ ScanRight(n, s) /\ FoundRight(n, Finished(n, s), states[n])
  BY <1>1 DEF SyncInv
<1>3. content \in Contents \cup {Absent}
  BY SyncAssumption
<1>4. /\ UNCHANGED <<resources, wanted, states, unread>>
      /\ disk' = [disk EXCEPT ![n][d][p] = content] /\ edited' = edited \cup {<<n, d, p>>}
  BY DEF Edit
<1>5. /\ disk' \in [Sides -> [Dirs -> [Files -> Contents \cup {Absent}]]]
      /\ \A m \in Sides, e \in Dirs, q \in Files :
            <<m, e, q>> # <<n, d, p>> => disk'[m][e][q] = disk[m][e][q]
  BY <1>2, <1>3, <1>4 DEF SyncTypes
<1>6. Onward
  BY <1>4, <1>5 DEF Onward
<1>7. ScanRight(n, s)'
  BY <1>2, <1>6, ScanKept
<1>8. PICK k, found : k = Finished(n, s) /\ found = states[n]
  OBVIOUS
<1>9. FoundRight(n, k, found)'
  BY <1>2, <1>6, <1>8, FoundKept
<1>10. ASSUME NEW t \in ScanState, ScanRight(n, t)', t.at = s.at, t.index = s.index,
              scan' = [scan EXCEPT ![n] = t]
       PROVE  SyncInv'
  <2>1. scan'[n] = t /\ \A m \in Sides \ {n} : scan'[m] = scan[m]
    BY <1>2, <1>10 DEF SyncTypes
  <2>2. SyncTypes'
    BY <1>2, <1>4, <1>5, <1>10 DEF SyncTypes
  <2>3. Finished(n, scan[n])' = k /\ states'[n] = found
    BY <1>4, <1>8, <1>10, <2>1 DEF Finished
  <2> QED
    BY <1>4, <1>6, <1>9, <1>10, <2>1, <2>2, <2>3, SideStep
<1>11. CASE scan' = scan
  <2>1. scan' = [scan EXCEPT ![n] = s]
    BY <1>1, <1>2, <1>11 DEF SyncTypes
  <2> QED
    BY <1>7, <1>10, <2>1
<1>12. CASE scan' = [scan EXCEPT ![n].linked = FALSE]
  <2>1. PICK t : t = [s EXCEPT !.linked = FALSE]
    OBVIOUS
  <2>2. /\ t \in ScanState /\ t.at = s.at /\ t.index = s.index /\ t.todo = s.todo
        /\ t.files = s.files /\ t.file = s.file /\ t.size = s.size /\ t.held = s.held
        /\ t.hash = s.hash
    BY <2>1 DEF ScanState
  <2>3. ScanRight(n, t)'
    BY <1>7, <2>2 DEF ScanRight, InFile, Remaining
  <2>4. scan' = [scan EXCEPT ![n] = t]
    BY <1>1, <1>2, <1>12, <2>1 DEF SyncTypes
  <2> QED
    BY <1>10, <2>2, <2>3, <2>4
<1>13. CASE /\ Holds(n, d, p) /\ content # Absent
            /\ scan' = [scan EXCEPT ![n].held = content]
  <2>1. PICK t : t = [s EXCEPT !.held = content]
    OBVIOUS
  <2>2. /\ t \in ScanState /\ t.at = s.at /\ t.index = s.index /\ t.todo = s.todo
        /\ t.files = s.files /\ t.file = s.file /\ t.size = s.size
        /\ t.hash = s.hash
    BY <1>3, <1>13, <2>1 DEF ScanState
  <2>3. Key(n, s.index, s.file)' \in edited'
    BY <1>1, <1>4, <1>13 DEF Holds, Directory, Key
  <2>4. ScanRight(n, t)'
    BY <1>7, <2>2, <2>3 DEF ScanRight, InFile, Remaining
  <2>5. scan' = [scan EXCEPT ![n] = t]
    BY <1>1, <1>2, <1>13, <2>1 DEF SyncTypes
  <2> QED
    BY <1>10, <2>2, <2>4, <2>5
<1> QED
  BY <1>11, <1>12, <1>13 DEF Edit

LEMMA SyncStart == SyncInit => SyncInv
<1> SUFFICES ASSUME SyncInit  PROVE SyncInv
  OBVIOUS
<1>1. /\ resources \in [Sides -> ResourceLists]
      /\ disk \in [Sides -> [Dirs -> [Files -> Contents \cup {Absent}]]]
  BY SyncAssumption DEF SyncInit
<1>2. /\ Idle \in ScanState /\ Idle.at = "idle" /\ Idle.hash = <<>>
  BY EmptyContent DEF Idle, ScanState
<1>3. SyncTypes
  BY <1>1, <1>2 DEF SyncInit, SyncTypes
<1>4. ASSUME NEW n \in Sides
      PROVE  ScanRight(n, scan[n]) /\ FoundRight(n, Finished(n, scan[n]), states[n])
  <2>1. scan[n] = Idle /\ states[n] = <<>>
    BY DEF SyncInit
  <2>2. Finished(n, scan[n]) = 0 /\ ScanRight(n, scan[n])
    BY <1>2, <2>1 DEF Finished, ScanRight, InFile
  <2>3. DOMAIN <<>> = {} /\ 1 .. 0 = {}
    OBVIOUS
  <2> QED
    BY <2>1, <2>2, <2>3 DEF FoundRight
<1> QED
  BY <1>3, <1>4 DEF SyncInv

LEMMA SyncPreserved == SyncInv /\ [SyncNext]_syncVars => SyncInv'
<1> SUFFICES ASSUME SyncInv, [SyncNext]_syncVars PROVE SyncInv'
  OBVIOUS
<1>1. CASE UNCHANGED syncVars
  <2>1. Onward
    BY <1>1, Stays DEF syncVars
  <2>2. SyncTypes'
    BY <1>1 DEF syncVars, SyncInv, SyncTypes
  <2>3. Asking \in Sides
    BY SyncAssumption
  <2>4. PICK s \in ScanState : s = scan[Asking]
    BY <2>3 DEF SyncInv, SyncTypes
  <2>5. PICK k, found : k = Finished(Asking, s) /\ found = states[Asking]
    OBVIOUS
  <2>6. ScanRight(Asking, s)' /\ FoundRight(Asking, k, found)'
    BY <2>1, <2>3, <2>4, <2>5, ScanKept, FoundKept DEF SyncInv
  <2>7. scan'[Asking] = s /\ states'[Asking] = found /\ Finished(Asking, s)' = k
    BY <1>1, <2>4, <2>5 DEF syncVars, Finished
  <2>8. ScanRight(Asking, scan[Asking])'
        /\ FoundRight(Asking, Finished(Asking, scan[Asking]), states[Asking])'
    BY <2>6, <2>7
  <2>9. \A m \in Sides \ {Asking} : scan'[m] = scan[m] /\ states'[m] = states[m]
    BY <1>1 DEF syncVars
  <2> QED
    BY <2>1, <2>2, <2>3, <2>8, <2>9, SideStep
<1>2. CASE \E n \in Sides : Scanning(n)
  BY <1>2, StartKeepsRight, VisitKeepsRight, OpenKeepsRight, ReadKeepsRight,
     HashKeepsRight, FinishKeepsRight DEF Scanning
<1>3. CASE \E n \in Sides, d \in Dirs, p \in Files, content \in NewContents :
              Edit(n, d, p, content)
  BY <1>3, EditKeepsRight
<1> QED
  BY <1>1, <1>2, <1>3 DEF SyncNext

\* What the comparison has of one node.
Told(n, f) ==
    IF f \in DOMAIN states[n] /\ (n = Peer => f \in wanted) THEN states[n][f] ELSE <<>>

LEMMA LastOfName ==
    ASSUME SyncTypes, NEW n \in Sides, NEW f, NEW k \in DOMAIN resources[n],
           resources[n][k].name = f
    PROVE  \E i \in DOMAIN resources[n] :
              /\ resources[n][i].name = f /\ Lasting(n, f) = {i}
              /\ IsLast(n, i, Len(resources[n]))
<1> DEFINE len == Len(resources[n])
           named == {i \in DOMAIN resources[n] : resources[n][i].name = f}
           after == {len - i : i \in named}
<1>1. len \in Nat /\ DOMAIN resources[n] = 1 .. len
  BY ListOfResources
<1>2. after \subseteq Nat /\ after # {}
  <2>1. k \in named /\ named \subseteq 1 .. len
    BY <1>1
  <2>2. \A i \in 1 .. len : len - i \in Nat
    BY <1>1
  <2> HIDE DEF named, len
  <2>3. \A i \in named : len - i \in Nat
    BY <2>1, <2>2
  <2> QED
    BY <2>1, <2>3
<1>3. PICK least \in after : \A j \in after : least <= j
  BY <1>2, LeastNumber
<1>4. PICK i \in named : least = len - i
  BY <1>3
<1>5. \A j \in named : j <= i
  <2> SUFFICES ASSUME NEW j \in named  PROVE j <= i
    OBVIOUS
  <2>1. len - i <= len - j
    BY <1>3, <1>4
  <2>2. i \in 1 .. len /\ j \in 1 .. len
    BY <1>1
  <2> QED
    BY <1>1, <2>1, <2>2
<1>6. named \subseteq 1 .. len
  BY <1>1
<1>7. Lasting(n, f) = {x \in named : \A j \in named : j <= x}
  BY DEF Lasting
<1>8. Lasting(n, f) = {i}
  <2>1. \A x \in named : (\A j \in named : j <= x) => x = i
    <3> SUFFICES ASSUME NEW x \in named, \A j \in named : j <= x  PROVE x = i
      OBVIOUS
    <3>1. x <= i /\ i <= x /\ x \in 1 .. len /\ i \in 1 .. len
      BY <1>4, <1>5, <1>6
    <3> QED
      BY <1>1, <3>1
  <2> QED
    BY <1>5, <1>7, <2>1
<1>9. IsLast(n, i, len)
  <2> SUFFICES ASSUME NEW j \in i + 1 .. len  PROVE resources[n][j].name # f
    BY DEF IsLast
  <2>1. i \in 1 .. len
    BY <1>6
  <2>2. j \in 1 .. len /\ ~(j <= i)
    BY <1>1, <2>1
  <2> QED
    BY <1>1, <1>5, <2>2
<1> QED
  BY <1>8, <1>9

\* A finished scan tells the truth about a file nobody changed.
LEMMA ToldIsThere ==
    ASSUME SyncInv, NEW n \in Sides, At(n, "done"), NEW f, NEW p \in Files,
           ~Names(edited, n, f, p)
    PROVE  LET truth == There(n, f, p)
               told == Told(n, f)
           IN  /\ truth \in Contents \cup {Absent}
               /\ p \in DOMAIN told => truth # Absent
               /\ truth # Absent /\ ~Names(unread, n, f, p) => p \in DOMAIN told
               /\ p \in DOMAIN told =>
                     /\ told[p].hash \in Contents \cup {Unopened}
                     /\ told[p].size = Len(truth)
                     /\ told[p].hash = Unopened \/ Beginning(told[p].hash, truth)
                     /\ ~Names(unread, n, f, p) => told[p].hash = truth
<1> DEFINE len == Len(resources[n])
           hidden == n = Peer /\ f \notin wanted
<1>1. SyncTypes /\ FoundRight(n, len, states[n])
  BY DEF SyncInv, At, Finished
<1>2. len \in Nat /\ DOMAIN resources[n] = 1 .. len
  BY <1>1, ListOfResources
<1>3. DOMAIN states[n] = {resources[n][i].name : i \in 1 .. len}
  BY <1>1 DEF FoundRight
<1>4. DOMAIN <<>> = {}
  OBVIOUS
<1>5. CASE hidden \/ f \notin DOMAIN states[n]
  <2>1. Told(n, f) = <<>>
    BY <1>5 DEF Told
  <2>2. There(n, f, p) = Absent
    <3>1. CASE hidden
      BY <3>1 DEF There
    <3>2. CASE f \notin DOMAIN states[n]
      <4>1. Lasting(n, f) = {}
        BY <1>2, <1>3, <3>2 DEF Lasting
      <4> QED
        BY <4>1 DEF There
    <3> QED
      BY <1>5, <3>1, <3>2
  <2> QED
    BY <1>4, <2>1, <2>2
<1>6. CASE ~hidden /\ f \in DOMAIN states[n]
  <2>1. PICK k \in DOMAIN resources[n] : resources[n][k].name = f
    BY <1>2, <1>3, <1>6
  <2>2. PICK i \in DOMAIN resources[n] :
              /\ resources[n][i].name = f /\ Lasting(n, f) = {i}
              /\ IsLast(n, i, len)
    BY <1>1, <2>1, LastOfName
  <2>3. PICK files : files = Told(n, f)
    OBVIOUS
  <2>4. files = states[n][f]
    BY <1>6, <2>3 DEF Told
  <2>5. Correct(n, i, files, {})
    BY <1>1, <1>2, <2>2, <2>4 DEF FoundRight
  <2>6. Key(n, i, p) \notin edited /\ (Names(unread, n, f, p) <=> Key(n, i, p) \in unread)
    BY <2>2 DEF Names, Key
  <2>7. There(n, f, p) = IF Seen(n, i, p) THEN FileAt(n, i, p) ELSE Absent
    <3>1. CASE Seen(n, i, p)
      <4>1. {x \in Lasting(n, f) : resources[n][x].dir \in Dirs /\ ~Ignored(resources[n][x], p)} = {i}
        BY <2>2, <3>1 DEF Seen
      <4>2. (CHOOSE x \in {i} : TRUE) = i
        OBVIOUS
      <4> QED
        BY <1>6, <3>1, <4>1, <4>2, SMTT(30) DEF There, FileAt
    <3>2. CASE ~Seen(n, i, p)
      <4>1. {x \in Lasting(n, f) : resources[n][x].dir \in Dirs /\ ~Ignored(resources[n][x], p)} = {}
        BY <2>2, <3>2 DEF Seen
      <4> QED
        BY <3>2, <4>1 DEF There
    <3> QED
      BY <3>1, <3>2
  <2>8. PICK truth : truth = There(n, f, p)
    OBVIOUS
  <2>9. truth \in Contents \cup {Absent}
    BY <1>1, <2>7, <2>8, FileTyped DEF Seen
  <2>10. /\ p \in DOMAIN files => /\ Seen(n, i, p) /\ FileAt(n, i, p) # Absent
                                  /\ Right(n, i, p, files[p])
         /\ Seen(n, i, p) /\ FileAt(n, i, p) # Absent /\ Key(n, i, p) \notin unread =>
               p \in DOMAIN files
    BY <2>5, <2>6 DEF Correct, Due
  <2>11. /\ p \in DOMAIN files => truth # Absent
         /\ truth # Absent /\ ~Names(unread, n, f, p) => p \in DOMAIN files
    BY <2>6, <2>7, <2>8, <2>10
  <2>12. ASSUME p \in DOMAIN files
         PROVE  /\ files[p].hash \in Contents \cup {Unopened}
                /\ files[p].size = Len(truth)
                /\ files[p].hash = Unopened \/ Beginning(files[p].hash, truth)
                /\ ~Names(unread, n, f, p) => files[p].hash = truth
    <3>1. PICK found \in SUBSET Files : files \in [found -> Entry]
      BY <2>5 DEF Correct, FileLists
    <3>2. files[p] \in Entry
      BY <2>12, <3>1
    <3>3. truth = FileAt(n, i, p)
      BY <2>7, <2>8, <2>10, <2>12
    <3> QED
      BY <2>6, <2>10, <2>12, <3>2, <3>3 DEF Entry, Right
  <2> QED
    BY <2>3, <2>8, <2>9, <2>11, <2>12
<1> QED
  BY <1>5, <1>6

\* The comparison has one item for a path that either node told of.
LEMMA OneItem ==
    ASSUME NEW f \in DOMAIN states[Asking], NEW p, Asking # Peer
    PROVE  LET items == compute_sync_diff(states[Asking], SyncStateResponse)
               mine == Told(Asking, f)
               theirs == Told(Peer, f)
           IN  {item.difference : item \in {x \in items : x.folder = f /\ x.path = p}}
                   = IF p \in DOMAIN mine \cup DOMAIN theirs
                     THEN {Difference(mine, theirs, p)} ELSE {}
<1> DEFINE remote == SyncStateResponse
           Theirs(g) == IF g \in DOMAIN remote THEN remote[g] ELSE <<>>
           Item(g, q) == [folder |-> g, path |-> q,
                          difference |-> Difference(states[Asking][g], Theirs(g), q)]
           Items(g) == {Item(g, q) : q \in DOMAIN states[Asking][g] \cup DOMAIN Theirs(g)}
           items == compute_sync_diff(states[Asking], remote)
           about == {x \in items : x.folder = f /\ x.path = p}
<1>1. items = UNION {Items(g) : g \in DOMAIN states[Asking]}
  BY DEF compute_sync_diff
<1>2. Told(Asking, f) = states[Asking][f]
  BY DEF Told
<1>3. Told(Peer, f) = Theirs(f)
  BY DEF Told, SyncStateResponse
<1>4. \A g, q : Item(g, q).folder = g /\ Item(g, q).path = q
               /\ Item(g, q).difference = Difference(states[Asking][g], Theirs(g), q)
  OBVIOUS
<1> HIDE DEF Item, Theirs, remote, items
<1>5. \A x : x \in items <=>
          \E g \in DOMAIN states[Asking] :
              \E q \in DOMAIN states[Asking][g] \cup DOMAIN Theirs(g) : x = Item(g, q)
  BY <1>1
<1>6. \A x : x \in about <=>
          /\ p \in DOMAIN states[Asking][f] \cup DOMAIN Theirs(f)
          /\ x = Item(f, p)
  BY <1>4, <1>5
<1>7. {x.difference : x \in about}
        = IF p \in DOMAIN states[Asking][f] \cup DOMAIN Theirs(f)
          THEN {Item(f, p).difference} ELSE {}
  BY <1>6
<1> QED
  BY <1>2, <1>3, <1>4, <1>7 DEF items, remote

LEMMA VerdictsAreTrue == SyncInv => VerdictsTrue
<1> SUFFICES ASSUME SyncInv, \A n \in Sides : At(n, "done"),
                    NEW f \in {r.name : r \in {resources[Asking][i] : i \in DOMAIN resources[Asking]}},
                    NEW p \in Files,
                    \A n \in Sides : ~Names(edited, n, f, p)
             PROVE  LET items == compute_sync_diff(states[Asking], SyncStateResponse)
                        listed == {item.difference : item \in {x \in items : x.folder = f /\ x.path = p}}
                        bad == {n \in Sides : Names(unread, n, f, p)}
                    IN  /\ bad = {} =>
                              listed = IF There(Asking, f, p) = Absent /\ There(Peer, f, p) = Absent
                                       THEN {} ELSE {Verdict(f, p)}
                        /\ bad # Sides /\ "Identical" \in listed => Verdict(f, p) = "Identical"
  BY DEF VerdictsTrue
<1> DEFINE bad == {n \in Sides : Names(unread, n, f, p)}
<1>1. Asking \in Sides /\ Peer \in Sides /\ Asking # Peer /\ Sides = {Asking, Peer}
  BY SyncAssumption
<1>2. f \in DOMAIN states[Asking]
  <2>1. SyncTypes /\ FoundRight(Asking, Len(resources[Asking]), states[Asking])
    BY <1>1 DEF SyncInv, At, Finished
  <2>2. DOMAIN resources[Asking] = 1 .. Len(resources[Asking])
    BY <1>1, <2>1, ListOfResources
  <2> QED
    BY <2>1, <2>2 DEF FoundRight
<1>3. PICK here, away, mine, theirs, listed :
          /\ here = There(Asking, f, p) /\ away = There(Peer, f, p)
          /\ mine = Told(Asking, f) /\ theirs = Told(Peer, f)
          /\ listed = LET items == compute_sync_diff(states[Asking], SyncStateResponse)
                      IN  {item.difference : item \in {x \in items : x.folder = f /\ x.path = p}}
  OBVIOUS
<1>4. listed = IF p \in DOMAIN mine \cup DOMAIN theirs THEN {Difference(mine, theirs, p)} ELSE {}
  BY <1>1, <1>2, <1>3, OneItem
<1>5. /\ here \in Contents \cup {Absent} /\ (p \in DOMAIN mine => here # Absent)
      /\ here # Absent /\ Asking \notin bad => p \in DOMAIN mine
      /\ p \in DOMAIN mine =>
            /\ mine[p].hash \in Contents \cup {Unopened}
            /\ mine[p].size = Len(here)
            /\ mine[p].hash = Unopened \/ Beginning(mine[p].hash, here)
            /\ Asking \notin bad => mine[p].hash = here
  BY <1>1, <1>3, ToldIsThere
<1>6. /\ away \in Contents \cup {Absent} /\ (p \in DOMAIN theirs => away # Absent)
      /\ away # Absent /\ Peer \notin bad => p \in DOMAIN theirs
      /\ p \in DOMAIN theirs =>
            /\ theirs[p].hash \in Contents \cup {Unopened}
            /\ theirs[p].size = Len(away)
            /\ theirs[p].hash = Unopened \/ Beginning(theirs[p].hash, away)
            /\ Peer \notin bad => theirs[p].hash = away
  BY <1>1, <1>3, ToldIsThere
<1>7. /\ here = away /\ here # Absent => Verdict(f, p) = "Identical"
      /\ here # away /\ here = Absent => Verdict(f, p) = "RemoteOnly"
      /\ here # away /\ away = Absent => Verdict(f, p) = "LocalOnly"
      /\ here # away /\ here # Absent /\ away # Absent => Verdict(f, p) = "Modified"
  BY <1>3 DEF Verdict
<1>8. /\ p \notin DOMAIN mine /\ p \in DOMAIN theirs => Difference(mine, theirs, p) = "RemoteOnly"
      /\ p \in DOMAIN mine /\ p \notin DOMAIN theirs => Difference(mine, theirs, p) = "LocalOnly"
      /\ p \in DOMAIN mine /\ p \in DOMAIN theirs =>
            Difference(mine, theirs, p) = IF Agree(mine[p], theirs[p]) THEN "Identical" ELSE "Modified"
  BY DEF Difference
<1>9. ASSUME bad = {}
      PROVE  listed = IF here = Absent /\ away = Absent THEN {} ELSE {Verdict(f, p)}
  <2>1. (p \in DOMAIN mine <=> here # Absent) /\ (p \in DOMAIN theirs <=> away # Absent)
    BY <1>1, <1>5, <1>6, <1>9
  <2>2. CASE here = Absent \/ away = Absent
    BY <1>4, <1>7, <1>8, <2>1, <2>2
  <2>3. CASE here # Absent /\ away # Absent
    <3>1. Agree(mine[p], theirs[p]) <=> here = away
      BY <1>1, <1>5, <1>6, <1>9, <2>1, <2>3 DEF Agree
    <3> QED
      BY <1>4, <1>7, <1>8, <2>1, <2>3, <3>1
  <2> QED
    BY <2>2, <2>3
<1>10. ASSUME bad # Sides, "Identical" \in listed
       PROVE  Verdict(f, p) = "Identical"
  <2>1. /\ Difference(mine, theirs, p) = "Identical"
        /\ p \in DOMAIN mine \/ p \in DOMAIN theirs
    BY <1>4, <1>10
  <2>2. /\ p \in DOMAIN mine /\ p \in DOMAIN theirs /\ Agree(mine[p], theirs[p])
        /\ here # Absent /\ away # Absent
    BY <1>5, <1>6, <1>8, <2>1
  <2>3. here \in Contents /\ away \in Contents /\ p \in DOMAIN mine /\ p \in DOMAIN theirs
    BY <1>5, <1>6, <2>2
  <2>4. Len(here) = Len(away) /\ mine[p].hash = theirs[p].hash
    BY <1>5, <1>6, <2>2, <2>3 DEF Agree
  <2>5. Len(here) \in Nat /\ Len(away) \in Nat /\ here # Unopened /\ away # Unopened
    BY <2>3, ContentType, SyncAssumption
  <2>6. CASE Asking \notin bad
    <3>1. mine[p].hash = here /\ Beginning(here, away)
      BY <1>5, <1>6, <2>3, <2>4, <2>5, <2>6
    <3>2. here = away
      BY <2>3, <2>4, <2>5, <3>1, BeginningIsAll
    <3> QED
      BY <1>7, <2>2, <3>2
  <2>7. CASE Peer \notin bad
    <3>1. theirs[p].hash = away /\ Beginning(away, here)
      BY <1>5, <1>6, <2>3, <2>4, <2>5, <2>7
    <3>2. here = away
      BY <2>3, <2>4, <2>5, <3>1, BeginningIsAll
    <3> QED
      BY <1>7, <2>2, <3>2
  <2>8. Asking \notin bad \/ Peer \notin bad
    BY <1>1, <1>10
  <2> QED
    BY <2>6, <2>7, <2>8
<1> QED
  BY <1>3, <1>9, <1>10

\* However the scans of the two nodes and the changes of others interleave, the
\* comparison says what the disks say of every file nobody changed and both found
\* and read, and of one that only one node found and read never falsely that it
\* is identical.
THEOREM SyncVerdicts == SyncSpec => []VerdictsTrue
<1>1. SyncInit => SyncInv
  BY SyncStart
<1>2. SyncInv /\ [SyncNext]_syncVars => SyncInv'
  BY SyncPreserved
<1> QED
  BY <1>1, <1>2, VerdictsAreTrue, PTL DEF SyncSpec

\* Both hold of whatever uses the two together.
LEMMA FoldersHaveBoth == FoldersSpec => SyncSpec /\ SharesSpec
<1>1. FoldersInit => SyncInit /\ SharesInit
  BY DEF FoldersInit
<1>2. [FoldersNext]_<<syncVars, shareVars, use>> => [SyncNext]_syncVars /\ [SharesNext]_shareVars
  BY DEF FoldersNext, SyncStep, SharesStep
<1> QED
  BY <1>1, <1>2, PTL DEF FoldersSpec, SyncSpec, SharesSpec

\* A node that shares directories and synchronises folders leads its peers back
\* and compares rightly.
THEOREM FoldersCorrect ==
    ASSUME SharesHaveParents
    PROVE  FoldersSpec => [](VerdictsTrue /\ PathsLeadBack)
BY FoldersHaveBoth, SyncVerdicts, SharesLeadBack, PTL

=============================================================================
