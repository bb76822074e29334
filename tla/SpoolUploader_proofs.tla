------------------------- MODULE SpoolUploader_proofs -------------------------
(***************************************************************************)
(* What is proved about the edge uploader: the fold that merges recordings *)
(* gives the groups the documentation describes, nothing leaves the spool  *)
(* but for a reason, and retries make no duplicate, for any recordings,    *)
(* limits, failures and crashes.                                           *)
(***************************************************************************)
EXTENDS SpoolUploader, FiniteSetTheorems, SequenceTheorems, WellFoundedInduction,
        TLAPS

-----------------------------------------------------------------------------
(* Recordings in the order of their start.                                 *)

Times == Nat \cup {NoTime}

LEMMA RecordingHasTimes ==
    ASSUME NEW c \in Clips
    PROVE  /\ c \in Nat /\ Start(c) \in Nat /\ End(c) \in Times
           /\ End(c) # NoTime => End(c) \in Nat /\ End(c) >= Start(c)
  BY GroupingAssumption DEF Start, End, Times

LEMMA OrderIsStrict ==
    \A c, d, e \in Clips :
        /\ ~Earlier(c, c)
        /\ Earlier(c, d) => ~Earlier(d, c) /\ Start(c) <= Start(d)
        /\ Earlier(c, d) /\ Earlier(d, e) => Earlier(c, e)
        /\ c # d => Earlier(c, d) \/ Earlier(d, c)
  BY RecordingHasTimes DEF Earlier

LEMMA FiniteClips == \A S \in SUBSET Clips : IsFiniteSet(S)
  BY GroupingAssumption, FS_Subset

\* Among sets of recordings there is a smallest one.
LEMMA SmallestSet ==
    ASSUME NEW T, T \subseteq SUBSET Clips, T # {}
    PROVE  \E X \in T : \A Y \in T : ~(Y \subseteq X /\ Y # X)
  <1>1. IsWellFoundedOn(StrictSubsetOrdering(Clips), FiniteSubsetsOf(Clips))
    BY FS_StrictSubsetOrderingWellFounded
  <1>2. T \subseteq FiniteSubsetsOf(Clips)
    BY FiniteClips DEF FiniteSubsetsOf
  <1>3. PICK X \in T : \A Y \in T : ~ (<<Y, X>> \in StrictSubsetOrdering(Clips))
    BY <1>1, <1>2, WFMin
  <1>4. \A Y \in T : Y \subseteq X /\ Y # X => <<Y, X>> \in StrictSubsetOrdering(Clips)
    BY DEF StrictSubsetOrdering
  <1>5. ASSUME NEW Y \in T, Y \subseteq X, Y # X
        PROVE  FALSE
    BY <1>3, <1>4, <1>5
  <1> QED
    BY <1>5

\* A set of recordings that has one has a latest one.
LEMMA LatestIsThere ==
    ASSUME NEW S \in SUBSET Clips, S # {}
    PROVE  \E c \in S : \A d \in S \ {c} : Earlier(d, c)
  <1> DEFINE Later(c) == {d \in S : Earlier(c, d)}
             T == {Later(c) : c \in S}
  <1>1. T \subseteq SUBSET Clips /\ T # {}
    OBVIOUS
  <1> HIDE DEF T
  <1>2. PICK X \in T : \A Y \in T : ~(Y \subseteq X /\ Y # X)
    BY <1>1, SmallestSet
  <1>3. PICK c \in S : X = Later(c)
    BY <1>2 DEF T
  <1>4. \A d \in S : ~Earlier(c, d)
    <2> SUFFICES ASSUME NEW d \in S, Earlier(c, d) PROVE FALSE
      OBVIOUS
    <2>1. Later(d) \in T
      BY Zenon DEF T
    <2>2. Later(d) \subseteq Later(c)
      BY OrderIsStrict
    <2>3. d \in Later(c) /\ d \notin Later(d)
      BY OrderIsStrict
    <2> QED
      BY <2>1, <2>2, <2>3, <1>2, <1>3
  <1> QED
    BY <1>4, OrderIsStrict

-----------------------------------------------------------------------------
(* A set of recordings can be put in order, so ByStart is its sequence.    *)

Ascending(s) == \A i, j \in DOMAIN s : i < j => Earlier(s[i], s[j])

InOrder(s, S) ==
    /\ s \in [1 .. Cardinality(S) -> S]
    /\ \A c \in S : \E i \in DOMAIN s : s[i] = c
    /\ Ascending(s)

LEMMA OneMore ==
    ASSUME NEW S \in SUBSET Clips, NEW c \in S, \A d \in S \ {c} : Earlier(d, c),
           NEW s, InOrder(s, S \ {c})
    PROVE  \E t : InOrder(t, S)
  <1> DEFINE n == Cardinality(S \ {c})
             t == [i \in 1 .. n + 1 |-> IF i = n + 1 THEN c ELSE s[i]]
  <1>1. n \in Nat /\ Cardinality(S) = n + 1
    <2>1. IsFiniteSet(S) /\ IsFiniteSet(S \ {c})
      BY FiniteClips
    <2> QED
      BY <2>1, FS_RemoveElement, FS_CardinalityType
  <1>2. s \in [1 .. n -> S \ {c}]
    BY DEF InOrder
  <1>3. \A d \in S \ {c} : \E i \in 1 .. n : s[i] = d
    BY <1>2 DEF InOrder
  <1>4. \A i, j \in 1 .. n : i < j => Earlier(s[i], s[j])
    BY <1>2 DEF InOrder, Ascending
  <1> HIDE DEF n
  <1>5. t \in [1 .. n + 1 -> S]
    BY <1>1, <1>2
  <1>6. \A d \in S : \E i \in 1 .. n + 1 : t[i] = d
    <2>1. t[n + 1] = c
      BY <1>1
    <2>2. \A i \in 1 .. n : t[i] = s[i] /\ i \in 1 .. n + 1
      BY <1>1
    <2>3. n + 1 \in 1 .. n + 1
      BY <1>1
    <2> QED
      BY <2>1, <2>2, <2>3, <1>3
  <1>7. ASSUME NEW i \in 1 .. n + 1, NEW j \in 1 .. n + 1, i < j
        PROVE  Earlier(t[i], t[j])
    <2>1. i \in 1 .. n /\ t[i] = s[i]
      BY <1>1, <1>7
    <2>2. CASE j = n + 1
      <3>1. s[i] \in S \ {c} /\ t[j] = c
        BY <2>1, <2>2, <1>2
      <3> QED
        BY <2>1, <3>1
    <2>3. CASE j # n + 1
      <3>1. j \in 1 .. n /\ t[j] = s[j]
        BY <1>1, <2>3
      <3> QED
        BY <2>1, <3>1, <1>4, <1>7
    <2> QED
      BY <2>2, <2>3
  <1>8. InOrder(t, S)
    <2>1. DOMAIN t = 1 .. n + 1
      OBVIOUS
    <2> HIDE DEF t
    <2> QED
      BY <2>1, <1>1, <1>5, <1>6, <1>7 DEF InOrder, Ascending
  <1> QED
    BY <1>8

LEMMA OrderExists ==
    ASSUME NEW S \in SUBSET Clips
    PROVE  \E s : InOrder(s, S)
  <1> DEFINE T == {X \in SUBSET Clips : ~ \E s : InOrder(s, X)}
  <1> SUFFICES ASSUME T # {} PROVE FALSE
    OBVIOUS
  <1>1. T \subseteq SUBSET Clips
    OBVIOUS
  <1> HIDE DEF T
  <1>2. PICK X \in T : \A Y \in T : ~(Y \subseteq X /\ Y # X)
    BY <1>1, SmallestSet
  <1>3. X # {}
    <2>1. Cardinality({}) = 0
      BY FS_EmptySet
    <2>2. InOrder(<<>>, {})
      BY <2>1 DEF InOrder, Ascending
    <2> QED
      BY <2>2 DEF T
  <1>4. PICK c \in X : \A d \in X \ {c} : Earlier(d, c)
    BY <1>3, <1>1, LatestIsThere
  <1>5. X \ {c} \notin T
    BY <1>2, <1>4, <1>1
  <1>6. PICK s : InOrder(s, X \ {c})
    BY <1>5, <1>1 DEF T
  <1>7. \E t : InOrder(t, X)
    BY <1>4, <1>6, <1>1, OneMore
  <1> QED
    BY <1>7 DEF T

LEMMA ByStartSorts ==
    ASSUME NEW S \in SUBSET Clips
    PROVE  /\ ByStart(S) \in Seq(S) /\ Len(ByStart(S)) \in Nat
           /\ DOMAIN ByStart(S) = 1 .. Len(ByStart(S))
           /\ Range(ByStart(S)) = S
           /\ Ascending(ByStart(S))
  <1> DEFINE D == 1 .. Cardinality(S)
  <1>1. IsFiniteSet(S) /\ Cardinality(S) \in Nat /\ IsFiniteSet(D) /\ Cardinality(D) = Cardinality(S)
    <2>1. IsFiniteSet(S) /\ Cardinality(S) \in Nat
      BY FiniteClips, FS_CardinalityType
    <2>2. IsFiniteSet(D) /\ Cardinality(D) = IF 1 > Cardinality(S) THEN 0 ELSE Cardinality(S) - 1 + 1
      BY <2>1, FS_Interval
    <2> QED
      BY <2>1, <2>2
  <1>2. PICK s : InOrder(s, S)
    BY OrderExists
  <1>3. s \in SetToSeqs(S) /\ Ascending(s)
    <2>1. s \in [D -> S] /\ \A i, j \in D : i < j => Earlier(s[i], s[j])
      BY <1>2 DEF InOrder, Ascending
    <2>2. \A i, j \in D : i # j => s[i] # s[j]
      <3> SUFFICES ASSUME NEW i \in D, NEW j \in D, i < j PROVE s[i] # s[j]
        BY <1>1
      <3> QED
        BY <2>1, OrderIsStrict
    <2> QED
      BY <2>1, <2>2, <1>2 DEF SetToSeqs, InOrder
  <1>4. ByStart(S) \in SetToSeqs(S) /\ Ascending(ByStart(S))
    BY <1>3 DEF ByStart, Ascending
  <1> DEFINE b == ByStart(S)
  <1> HIDE DEF b
  <1>5. b \in [D -> S] /\ \A i, j \in D : i # j => b[i] # b[j]
    BY <1>4 DEF SetToSeqs, b
  <1>6. b \in Seq(S) /\ Len(b) = Cardinality(S) /\ DOMAIN b = 1 .. Len(b)
    BY <1>1, <1>5
  <1>7. Range(b) = S
    <2>1. b \in Injection(D, S)
      BY <1>5 DEF Injection, IsInjective
    <2>2. b \in Surjection(D, S)
      BY <2>1, <1>1, FS_Injection
    <2> QED
      BY <2>2, <1>5 DEF Surjection, Range
  <1> QED
    BY <1>1, <1>4, <1>6, <1>7 DEF b

-----------------------------------------------------------------------------
(* The fold, clip by clip.                                                 *)

\* A set of numbers that has 0, and the next of each it has, has all to n.
LEMMA UpTo ==
    ASSUME NEW n \in Nat, NEW A, 0 \in A, \A k \in 0 .. n - 1 : k \in A => k + 1 \in A
    PROVE  0 .. n \subseteq A
  <1> DEFINE T == (0 .. n) \ A
  <1> SUFFICES ASSUME T # {} PROVE FALSE
    OBVIOUS
  <1> DEFINE Upto(k) == 0 .. k
             I == {Upto(k) : k \in T}
  <1>1. IsWellFoundedOn(StrictSubsetOrdering(Nat), FiniteSubsetsOf(Nat))
    BY FS_StrictSubsetOrderingWellFounded
  <1>2. I \subseteq FiniteSubsetsOf(Nat) /\ I # {}
    <2>1. \A k \in T : Upto(k) \in SUBSET Nat /\ IsFiniteSet(Upto(k))
      BY FS_Interval
    <2> QED
      BY <2>1 DEF FiniteSubsetsOf
  <1> HIDE DEF I
  <1>3. PICK X \in I : \A Y \in I : ~ (<<Y, X>> \in StrictSubsetOrdering(Nat))
    BY <1>1, <1>2, WFMin
  <1>4. PICK k \in T : X = Upto(k)
    BY <1>3 DEF I
  <1>5. k \in 1 .. n /\ k \notin A
    OBVIOUS
  <1>6. ASSUME k - 1 \in T PROVE FALSE
    <2>1. Upto(k - 1) \in I
      BY <1>6, Zenon DEF I
    <2>2. <<Upto(k - 1), Upto(k)>> \in StrictSubsetOrdering(Nat)
      BY <1>5 DEF StrictSubsetOrdering
    <2> QED
      BY <2>1, <2>2, <1>3, <1>4
  <1> QED
    BY <1>5, <1>6

\* What iter is in the definition of FoldLeft, for the first n clips.
IsIter(g, clips, n) ==
    g = [s \in SUBSET (1 .. n) |->
            IF s = {} THEN <<>> ELSE AddClip(g[s \ {Max(s)}], clips[Max(s)])]

LEMMA MaxIs ==
    ASSUME NEW S \in SUBSET Nat, NEW n \in S, \A k \in S : k <= n
    PROVE  Max(S) = n
  <1>1. \A m \in S : (\A k \in S : m >= k) => m = n
    OBVIOUS
  <1> QED
    BY <1>1 DEF Max

LEMMA IterGrows ==
    ASSUME NEW clips, NEW n \in Nat, NEW g, IsIter(g, clips, n)
    PROVE  \E h : IsIter(h, clips, n + 1)
  <1> DEFINE h == [s \in SUBSET (1 .. n + 1) |->
                      IF n + 1 \in s THEN AddClip(g[s \ {n + 1}], clips[n + 1]) ELSE g[s]]
  <1>1. ASSUME NEW s \in SUBSET (1 .. n + 1)
        PROVE  h[s] = IF s = {} THEN <<>> ELSE AddClip(h[s \ {Max(s)}], clips[Max(s)])
    <2>1. CASE n + 1 \in s
      <3>1. Max(s) = n + 1
        BY <2>1, MaxIs
      <3>2. s \ {n + 1} \in SUBSET (1 .. n + 1) /\ n + 1 \notin s \ {n + 1}
        OBVIOUS
      <3>3. h[s \ {n + 1}] = g[s \ {n + 1}]
        BY <3>2
      <3> QED
        BY <2>1, <3>1, <3>3
    <2>2. CASE n + 1 \notin s
      <3>1. s \in SUBSET (1 .. n)
        BY <2>2
      <3>2. h[s] = g[s]
        BY <2>2
      <3>3. CASE s # {}
        <4>1. s \ {Max(s)} \in SUBSET (1 .. n + 1) /\ n + 1 \notin s \ {Max(s)}
          BY <2>2
        <4>2. h[s \ {Max(s)}] = g[s \ {Max(s)}]
          BY <4>1
        <4> QED
          BY <3>1, <3>2, <3>3, <4>2 DEF IsIter
      <3> QED
        BY <3>1, <3>2, <3>3 DEF IsIter
    <2> QED
      BY <2>1, <2>2
  <1> HIDE DEF h
  <1>2. h = [s \in SUBSET (1 .. n + 1) |-> h[s]]
    BY DEF h
  <1>3. IsIter(h, clips, n + 1)
    BY <1>1, <1>2 DEF IsIter
  <1> QED
    BY <1>3

LEMMA IterExists ==
    ASSUME NEW clips, NEW n \in Nat
    PROVE  \E g : IsIter(g, clips, n)
  <1> DEFINE A == {k \in 0 .. n : \E g : IsIter(g, clips, k)}
  <1>1. 0 \in A
    <2>1. IsIter([s \in SUBSET (1 .. 0) |-> <<>>], clips, 0)
      <3>1. \A s \in SUBSET (1 .. 0) : s = {}
        OBVIOUS
      <3> QED
        BY <3>1 DEF IsIter
    <2> QED
      BY <2>1
  <1>2. ASSUME NEW k \in 0 .. n - 1, k \in A
        PROVE  k + 1 \in A
    <2>1. PICK g : IsIter(g, clips, k)
      BY <1>2
    <2>2. \E h : IsIter(h, clips, k + 1)
      BY <2>1, IterGrows
    <2> QED
      BY <2>2
  <1> HIDE DEF A
  <1>3. n \in A
    BY <1>1, <1>2, UpTo
  <1> QED
    BY <1>3 DEF A

\* The lists of groups that the loop goes through.
Merging(m, clips) ==
    /\ m[0] = <<>>
    /\ \A k \in 1 .. Len(clips) : m[k] = AddClip(m[k - 1], clips[k])

LEMMA FoldIsMerging ==
    ASSUME NEW clips \in Seq(Clips)
    PROVE  \E m : Merging(m, clips) /\ FoldLeft(AddClip, <<>>, clips) = m[Len(clips)]
  <1> DEFINE n == Len(clips)
  <1>1. n \in Nat /\ DOMAIN clips = 1 .. n
    OBVIOUS
  <1> HIDE DEF n
  <1>2. FoldLeft(AddClip, <<>>, clips) = (CHOOSE g : IsIter(g, clips, n))[1 .. n]
    BY <1>1 DEF FoldLeft, MapThenFoldSet, IsIter
  <1>3. PICK g : IsIter(g, clips, n) /\ FoldLeft(AddClip, <<>>, clips) = g[1 .. n]
    BY <1>1, <1>2, IterExists
  <1> DEFINE m == [k \in 0 .. n |-> g[1 .. k]]
  <1>4. m[0] = <<>>
    <2>1. 1 .. 0 = {} /\ 0 \in 0 .. n
      BY <1>1
    <2> QED
      BY <1>1, <1>3, <2>1 DEF IsIter
  <1>5. ASSUME NEW k \in 1 .. n
        PROVE  m[k] = AddClip(m[k - 1], clips[k])
    <2>1. 1 .. k \in SUBSET (1 .. n) /\ 1 .. k # {} /\ (1 .. k) \ {k} = 1 .. k - 1
      BY <1>1
    <2>2. Max(1 .. k) = k
      BY <1>1, MaxIs
    <2>3. g[1 .. k] = AddClip(g[1 .. k - 1], clips[k])
      BY <1>3, <2>1, <2>2 DEF IsIter
    <2>4. m[k] = g[1 .. k] /\ m[k - 1] = g[1 .. k - 1]
      BY <1>1
    <2> QED
      BY <2>3, <2>4
  <1>6. m[n] = g[1 .. n]
    BY <1>1
  <1> HIDE DEF m
  <1> QED
    BY <1>3, <1>4, <1>5, <1>6 DEF Merging, n

-----------------------------------------------------------------------------
(* What the loop makes of the clips of one channel.  run[k] is the place of *)
(* the first clip of the group that the k-th clip is put into.              *)

Lists == Seq(Seq(Clips) \ {<<>>})

LEMMA PieceIs ==
    ASSUME NEW clips \in Seq(Clips), NEW a \in 1 .. Len(clips), NEW b \in a .. Len(clips)
    PROVE  /\ SubSeq(clips, a, b) \in Seq(Clips) \ {<<>>}
           /\ Len(SubSeq(clips, a, b)) = b - a + 1
           /\ \A i \in 1 .. b - a + 1 : SubSeq(clips, a, b)[i] = clips[a + i - 1]
           /\ Head(SubSeq(clips, a, b)) = clips[a]
           /\ Last(SubSeq(clips, a, b)) = clips[b]
           /\ Range(SubSeq(clips, a, b)) = {clips[i] : i \in a .. b}
  <1> DEFINE g == SubSeq(clips, a, b)
  <1>1. /\ g \in Seq(Clips) /\ Len(g) = b - a + 1
        /\ \A i \in 1 .. b - a + 1 : g[i] = clips[a + i - 1]
    <2>1. a \in Int /\ b \in Int /\ \A i \in a .. b : clips[i] \in Clips
      OBVIOUS
    <2> QED
      BY <2>1, SubSeqProperties
  <1> HIDE DEF g
  <1>2. g # <<>> /\ b - a + 1 \in Nat \ {0}
    BY <1>1
  <1>3. Head(g) = clips[a]
    BY <1>1, <1>2
  <1>4. Last(g) = clips[b]
    BY <1>1, <1>2 DEF Last
  <1>5. Range(g) = {clips[i] : i \in a .. b}
    <2>1. Range(g) = {g[i] : i \in 1 .. b - a + 1}
      <3>1. DOMAIN g = 1 .. b - a + 1
        BY <1>1
      <3> QED
        BY <3>1 DEF Range
    <2>2. \A i \in 1 .. b - a + 1 : a + i - 1 \in a .. b
      OBVIOUS
    <2>3. \A i \in a .. b : i - a + 1 \in 1 .. b - a + 1 /\ g[i - a + 1] = clips[i]
      BY <1>1
    <2>4. \A i \in 1 .. b - a + 1 : g[i] \in {clips[j] : j \in a .. b}
      BY <1>1, <2>2
    <2>5. \A i \in a .. b : clips[i] \in {g[j] : j \in 1 .. b - a + 1}
      BY <2>3
    <2> QED
      BY <2>1, <2>4, <2>5
  <1> QED
    BY <1>1, <1>2, <1>3, <1>4, <1>5 DEF g

LEMMA PieceGrows ==
    ASSUME NEW clips \in Seq(Clips), NEW a \in 1 .. Len(clips), NEW b \in a .. Len(clips),
           b < Len(clips)
    PROVE  Append(SubSeq(clips, a, b), clips[b + 1]) = SubSeq(clips, a, b + 1)
  <1> DEFINE g == SubSeq(clips, a, b)
             h == SubSeq(clips, a, b + 1)
  <1>1. /\ g \in Seq(Clips) /\ Len(g) = b - a + 1
        /\ \A i \in 1 .. b - a + 1 : g[i] = clips[a + i - 1]
    BY PieceIs
  <1>2. /\ h \in Seq(Clips) /\ Len(h) = b - a + 2
        /\ \A i \in 1 .. b - a + 2 : h[i] = clips[a + i - 1]
    <2>1. b + 1 \in a .. Len(clips) /\ (b + 1) - a + 1 = b - a + 2
      OBVIOUS
    <2> QED
      BY <2>1, PieceIs
  <1> HIDE DEF g, h
  <1>3. clips[b + 1] \in Clips
    OBVIOUS
  <1>4. /\ Append(g, clips[b + 1]) \in Seq(Clips)
        /\ Len(Append(g, clips[b + 1])) = b - a + 2
        /\ \A i \in 1 .. b - a + 1 : Append(g, clips[b + 1])[i] = g[i]
        /\ Append(g, clips[b + 1])[b - a + 2] = clips[b + 1]
    BY <1>1, <1>3, SMTT(30)
  <1>5. \A i \in 1 .. b - a + 2 : Append(g, clips[b + 1])[i] = h[i]
    <2> TAKE i \in 1 .. b - a + 2
    <2>1. CASE i = b - a + 2
      BY <2>1, <1>2, <1>4
    <2>2. CASE i # b - a + 2
      <3>1. i \in 1 .. b - a + 1
        BY <2>2
      <3> QED
        BY <3>1, <1>1, <1>2, <1>4
    <2> QED
      BY <2>1, <2>2
  <1>6. Append(g, clips[b + 1]) = h
    BY <1>2, <1>4, <1>5, SeqEqual
  <1> QED
    BY <1>6 DEF g, h

LEMMA PieceOfOne ==
    ASSUME NEW clips \in Seq(Clips), NEW a \in 1 .. Len(clips)
    PROVE  SubSeq(clips, a, a) = <<clips[a]>> /\ Len(<<clips[a]>>) = 1
  <1> DEFINE g == SubSeq(clips, a, a)
  <1>1. a \in a .. Len(clips) /\ a - a + 1 = 1 /\ clips[a] \in Clips
    OBVIOUS
  <1>2. g \in Seq(Clips) /\ Len(g) = 1 /\ g[1] = clips[a]
    <2>1. /\ SubSeq(clips, a, a) \in Seq(Clips)
          /\ Len(SubSeq(clips, a, a)) = IF a <= a THEN a - a + 1 ELSE 0
          /\ \A i \in 1 .. a - a + 1 : SubSeq(clips, a, a)[i] = clips[a + i - 1]
      <3>1. a \in Int /\ \A i \in a .. a : clips[i] \in Clips
        BY <1>1
      <3> QED
        BY <3>1, SubSeqProperties
    <2> QED
      BY <2>1
  <1> HIDE DEF g
  <1>3. /\ <<clips[a]>> \in Seq(Clips) /\ Len(<<clips[a]>>) = 1
        /\ \A i \in 1 .. Len(g) : g[i] = <<clips[a]>>[i]
    BY <1>1, <1>2
  <1>4. g = <<clips[a]>>
    BY <1>2, <1>3, SeqEqual
  <1> QED
    BY <1>3, <1>4 DEF g

\* A clip joins the last group or opens one; the groups before it stay.
LEMMA AddClipIs ==
    ASSUME NEW groups \in Lists, NEW c \in Clips
    PROVE  /\ AddClip(groups, c) \in Lists /\ AddClip(groups, c) # <<>>
           /\ IF groups # <<>> /\ Joins(c, Last(groups))
              THEN /\ Len(AddClip(groups, c)) = Len(groups)
                   /\ Last(AddClip(groups, c)) = Append(Last(groups), c)
                   /\ \A i \in 1 .. Len(groups) - 1 : AddClip(groups, c)[i] = groups[i]
              ELSE /\ Len(AddClip(groups, c)) = Len(groups) + 1
                   /\ Last(AddClip(groups, c)) = <<c>>
                   /\ \A i \in 1 .. Len(groups) : AddClip(groups, c)[i] = groups[i]
  <1> DEFINE G == Seq(Clips) \ {<<>>}
  <1>1. CASE groups # <<>> /\ Joins(c, Last(groups))
    <2> DEFINE front == Front(groups)
               last  == Append(Last(groups), c)
    <2>1. Len(groups) \in Nat \ {0} /\ Last(groups) \in G
      BY <1>1 DEF Lists, Last
    <2>2. last \in G
      BY <2>1
    <2>3. /\ front \in Seq(G) /\ Len(front) = Len(groups) - 1
          /\ \A i \in 1 .. Len(groups) - 1 : front[i] = groups[i]
      <3>1. \A i \in 1 .. Len(groups) - 1 : groups[i] \in G
        BY DEF Lists
      <3> DEFINE n == Len(groups) - 1
      <3>2. 1 \in Int /\ n \in Nat /\ n - 1 + 1 = n
        BY <2>1
      <3> HIDE DEF n, G
      <3>3. /\ SubSeq(groups, 1, n) \in Seq(G)
            /\ Len(SubSeq(groups, 1, n)) = IF 1 <= n THEN n - 1 + 1 ELSE 0
            /\ \A i \in 1 .. n - 1 + 1 : SubSeq(groups, 1, n)[i] = groups[1 + i - 1]
        <4>1. \A i \in 1 .. n : groups[i] \in G
          BY <3>1 DEF n
        <4> QED
          BY <3>2, <4>1, SubSeqProperties
      <3>4. front = SubSeq(groups, 1, n)
        BY DEF Front, n
      <3>5. front \in Seq(G) /\ Len(front) = n /\ \A i \in 1 .. n : front[i] = groups[i]
        BY <3>2, <3>3, <3>4
      <3> QED
        BY <3>5 DEF n
    <2> HIDE DEF front, last
    <2>4. /\ Append(front, last) \in Seq(G)
          /\ Append(front, last) # <<>> /\ Len(Append(front, last)) = Len(groups)
          /\ Append(front, last)[Len(groups)] = last
          /\ \A i \in 1 .. Len(groups) - 1 : Append(front, last)[i] = groups[i]
      BY <2>1, <2>2, <2>3, AppendProperties
    <2>5. AddClip(groups, c) = Append(front, last)
      BY <1>1 DEF AddClip, front, last
    <2> QED
      BY <1>1, <2>4, <2>5 DEF Lists, Last, last
  <1>2. CASE ~(groups # <<>> /\ Joins(c, Last(groups)))
    <2>1. AddClip(groups, c) = Append(groups, <<c>>)
      BY <1>2 DEF AddClip
    <2>2. <<c>> \in G /\ groups \in Seq(G) /\ Len(groups) \in Nat
      BY DEF Lists
    <2>3. /\ Append(groups, <<c>>) \in Seq(G)
          /\ Append(groups, <<c>>) # <<>> /\ Len(Append(groups, <<c>>)) = Len(groups) + 1
          /\ Append(groups, <<c>>)[Len(groups) + 1] = <<c>>
          /\ \A i \in 1 .. Len(groups) : Append(groups, <<c>>)[i] = groups[i]
      BY <2>2, AppendProperties
    <2> QED
      BY <1>2, <2>1, <2>3 DEF Lists, Last
  <1> QED
    BY <1>1, <1>2

-----------------------------------------------------------------------------
\* The run of a clip is that of the clip before it if it may join, else its own.
AreRuns(run, clips) ==
    /\ run \in [1 .. Len(clips) -> 1 .. Len(clips)]
    /\ \A k \in 1 .. Len(clips) :
          run[k] = IF k > 1 /\ Joins(clips[k], SubSeq(clips, run[k - 1], k - 1))
                   THEN run[k - 1] ELSE k

Closed(run, k) == {p \in 1 .. k - 1 : run[p + 1] = p + 1}

Pieces(run, clips, P) == {SubSeq(clips, run[p], p) : p \in P}

\* After k clips the last group is the run of the k-th one, and those before it
\* are the runs that are closed.
Knows(m, run, clips, k) ==
    /\ m[k] \in Lists /\ m[k] # <<>>
    /\ run[k] \in 1 .. k
    /\ Last(m[k]) = SubSeq(clips, run[k], k)
    /\ {m[k][i] : i \in 1 .. Len(m[k]) - 1} = Pieces(run, clips, Closed(run, k))

RunOf(m, k) == k + 1 - Len(Last(m[k]))

LEMMA FirstClip ==
    ASSUME NEW clips \in Seq(Clips), clips # <<>>, NEW m, Merging(m, clips),
           NEW run, run = [k \in 1 .. Len(clips) |-> RunOf(m, k)]
    PROVE  Knows(m, run, clips, 1) /\ run[1] = 1
  <1>1. Len(clips) \in Nat \ {0} /\ clips[1] \in Clips
    OBVIOUS
  <1>2. m[1] = AddClip(<<>>, clips[1])
    BY <1>1 DEF Merging
  <1>3. m[1] \in Lists /\ m[1] # <<>> /\ Len(m[1]) = 1 /\ Last(m[1]) = <<clips[1]>>
    <2> DEFINE none == <<>>
    <2>1. none \in Lists /\ Len(none) = 0 /\ ~(none # <<>>)
      BY DEF Lists
    <2> HIDE DEF none
    <2>2. /\ AddClip(none, clips[1]) \in Lists /\ AddClip(none, clips[1]) # <<>>
          /\ Len(AddClip(none, clips[1])) = Len(none) + 1
          /\ Last(AddClip(none, clips[1])) = <<clips[1]>>
      BY <2>1, <1>1, AddClipIs
    <2> QED
      BY <2>1, <2>2, <1>2 DEF none
  <1>4. SubSeq(clips, 1, 1) = <<clips[1]>> /\ Len(<<clips[1]>>) = 1
    BY <1>1, PieceOfOne
  <1>5. run[1] = 1
    <2>1. run[1] = RunOf(m, 1)
      BY <1>1
    <2>2. RunOf(m, 1) = 1 + 1 - Len(<<clips[1]>>)
      BY <1>3 DEF RunOf
    <2> QED
      BY <2>1, <2>2, <1>4
  <1>6. 1 .. Len(m[1]) - 1 = {} /\ Closed(run, 1) = {}
    BY <1>3 DEF Closed
  <1> QED
    BY <1>3, <1>4, <1>5, <1>6 DEF Knows, Pieces

LEMMA NextClip ==
    ASSUME NEW clips \in Seq(Clips), NEW m, Merging(m, clips),
           NEW run, run = [k \in 1 .. Len(clips) |-> RunOf(m, k)],
           NEW k \in 1 .. Len(clips) - 1, Knows(m, run, clips, k)
    PROVE  /\ Knows(m, run, clips, k + 1)
           /\ run[k + 1] = IF Joins(clips[k + 1], SubSeq(clips, run[k], k))
                           THEN run[k] ELSE k + 1
  <1> DEFINE c    == clips[k + 1]
             last == SubSeq(clips, run[k], k)
             l    == Len(m[k])
  <1>1. c \in Clips /\ m[k + 1] = AddClip(m[k], c)
    <2>1. k + 1 \in 1 .. Len(clips) /\ (k + 1) - 1 = k
      OBVIOUS
    <2> QED
      BY <2>1 DEF Merging
  <1>2. /\ m[k] \in Lists /\ m[k] # <<>> /\ l \in Nat \ {0}
        /\ run[k] \in 1 .. k /\ Last(m[k]) = last /\ m[k][l] = last
    BY DEF Knows, Lists, Last
  <1>3. /\ Len(last) = k - run[k] + 1
        /\ Append(last, c) = SubSeq(clips, run[k], k + 1)
    <2>1. run[k] \in 1 .. Len(clips) /\ k \in run[k] .. Len(clips) /\ k < Len(clips)
      BY <1>2
    <2> QED
      BY <2>1, PieceIs, PieceGrows
  <1>4. run[k + 1] = k + 2 - Len(Last(m[k + 1]))
    BY DEF RunOf
  <1>5. Closed(run, k + 1) = IF run[k + 1] = k + 1 THEN Closed(run, k) \cup {k} ELSE Closed(run, k)
    BY DEF Closed
  <1>6. m[k + 1] \in Lists /\ m[k + 1] # <<>>
    BY <1>1, <1>2, AddClipIs
  <1> HIDE DEF c, last, l
  <1>7. CASE Joins(c, last)
    <2>1. /\ Len(m[k + 1]) = l /\ Last(m[k + 1]) = Append(last, c)
          /\ \A i \in 1 .. l - 1 : m[k + 1][i] = m[k][i]
      <3>1. Joins(c, Last(m[k]))
        BY <1>2, <1>7
      <3>2. /\ Len(AddClip(m[k], c)) = Len(m[k])
            /\ Last(AddClip(m[k], c)) = Append(Last(m[k]), c)
            /\ \A i \in 1 .. Len(m[k]) - 1 : AddClip(m[k], c)[i] = m[k][i]
        BY <1>1, <1>2, <3>1, AddClipIs
      <3> QED
        BY <1>1, <1>2, <3>2 DEF l
    <2>2. last \in Seq(Clips)
      BY <1>2, PieceIs DEF last
    <2>3. run[k + 1] = run[k]
      BY <1>1, <1>2, <1>3, <1>4, <2>1, <2>2
    <2>4. Closed(run, k + 1) = Closed(run, k)
      BY <1>2, <1>5, <2>3
    <2>5. {m[k + 1][i] : i \in 1 .. Len(m[k + 1]) - 1}
             = Pieces(run, clips, Closed(run, k + 1))
      <3>1. {m[k + 1][i] : i \in 1 .. l - 1} = {m[k][i] : i \in 1 .. l - 1}
        BY <2>1
      <3> QED
        BY <2>1, <2>4, <3>1 DEF Knows, l
    <2>6. Last(m[k + 1]) = SubSeq(clips, run[k + 1], k + 1)
      BY <1>3, <2>1, <2>3
    <2>7. run[k + 1] \in 1 .. k + 1
      BY <1>2, <2>3
    <2>8. Knows(m, run, clips, k + 1)
      BY <1>6, <2>5, <2>6, <2>7 DEF Knows
    <2> QED
      BY <1>7, <2>3, <2>8 DEF c, last
  <1>8. CASE ~Joins(c, last)
    <2>1. /\ Len(m[k + 1]) = l + 1 /\ Last(m[k + 1]) = <<c>>
          /\ \A i \in 1 .. l : m[k + 1][i] = m[k][i]
      <3>1. ~Joins(c, Last(m[k]))
        BY <1>2, <1>8
      <3>2. /\ Len(AddClip(m[k], c)) = Len(m[k]) + 1
            /\ Last(AddClip(m[k], c)) = <<c>>
            /\ \A i \in 1 .. Len(m[k]) : AddClip(m[k], c)[i] = m[k][i]
        BY <1>1, <1>2, <3>1, AddClipIs
      <3> QED
        BY <1>1, <3>2 DEF l
    <2>2. run[k + 1] = k + 1
      BY <1>4, <2>1
    <2>3. Closed(run, k + 1) = Closed(run, k) \cup {k}
      BY <1>5, <2>2
    <2>4. {m[k + 1][i] : i \in 1 .. l} = {m[k][i] : i \in 1 .. l - 1} \cup {last}
      <3>1. {m[k + 1][i] : i \in 1 .. l} = {m[k][i] : i \in 1 .. l}
        BY <2>1
      <3>2. {m[k][i] : i \in 1 .. l} = {m[k][i] : i \in 1 .. l - 1} \cup {m[k][l]}
        <4>1. 1 .. l = (1 .. l - 1) \cup {l}
          BY <1>2
        <4> QED
          BY <4>1
      <3> QED
        BY <1>2, <3>1, <3>2
    <2>5. Pieces(run, clips, Closed(run, k + 1))
             = Pieces(run, clips, Closed(run, k)) \cup {last}
      BY <2>3 DEF Pieces, last
    <2>6. Len(m[k + 1]) - 1 = l
      BY <1>2, <2>1
    <2>7. SubSeq(clips, k + 1, k + 1) = <<c>>
      BY PieceOfOne DEF c
    <2>8. {m[k + 1][i] : i \in 1 .. Len(m[k + 1]) - 1} = Pieces(run, clips, Closed(run, k + 1))
      BY <2>4, <2>5, <2>6 DEF Knows, l
    <2>9. Last(m[k + 1]) = SubSeq(clips, run[k + 1], k + 1)
      BY <2>1, <2>2, <2>7
    <2>10. run[k + 1] \in 1 .. k + 1
      BY <2>2
    <2>11. Knows(m, run, clips, k + 1)
      BY <1>6, <2>8, <2>9, <2>10 DEF Knows
    <2> QED
      BY <1>8, <2>2, <2>11 DEF c, last
  <1> QED
    BY <1>7, <1>8

\* The merge of a channel's clips is the runs, each up to the clip that ends it.
LEMMA MergedIsRuns ==
    ASSUME NEW clips \in Seq(Clips), clips # <<>>
    PROVE  \E run : /\ AreRuns(run, clips)
                    /\ Merged(clips) = Pieces(run, clips, Closed(run, Len(clips))
                                                             \cup {Len(clips)})
  <1> DEFINE n == Len(clips)
  <1>1. n \in Nat \ {0}
    OBVIOUS
  <1>2. PICK m : Merging(m, clips) /\ FoldLeft(AddClip, <<>>, clips) = m[n]
    BY FoldIsMerging
  <1> DEFINE run == [k \in 1 .. n |-> RunOf(m, k)]
             A   == {k \in 0 .. n - 1 : /\ Knows(m, run, clips, k + 1)
                                        /\ run[k + 1] =
                                              IF k > 0 /\ Joins(clips[k + 1],
                                                                SubSeq(clips, run[k], k))
                                              THEN run[k] ELSE k + 1}
  <1> HIDE DEF run
  <1>3. 0 \in A
    BY <1>1, <1>2, FirstClip DEF run
  <1>4. ASSUME NEW k \in 0 .. n - 2, k \in A
        PROVE  k + 1 \in A
    <2>1. Knows(m, run, clips, k + 1)
      BY <1>4
    <2>2. k + 1 \in 1 .. Len(clips) - 1
      BY <1>1
    <2>3. /\ Knows(m, run, clips, (k + 1) + 1)
          /\ run[(k + 1) + 1] =
                IF Joins(clips[(k + 1) + 1], SubSeq(clips, run[k + 1], k + 1))
                THEN run[k + 1] ELSE (k + 1) + 1
      BY <1>2, <2>1, <2>2, NextClip DEF run
    <2> QED
      BY <2>2, <2>3
  <1> HIDE DEF A
  <1>5. 0 .. n - 1 \subseteq A
    <2>1. n - 1 \in Nat /\ (n - 1) - 1 = n - 2
      BY <1>1
    <2> QED
      BY <2>1, <1>3, <1>4, UpTo
  <1>6. ASSUME NEW k \in 1 .. n
        PROVE  /\ Knows(m, run, clips, k)
               /\ run[k] = IF k > 1 /\ Joins(clips[k], SubSeq(clips, run[k - 1], k - 1))
                           THEN run[k - 1] ELSE k
    <2>1. k - 1 \in A /\ (k - 1) + 1 = k /\ (k > 1 <=> k - 1 > 0)
      BY <1>1, <1>5
    <2> QED
      BY <2>1 DEF A
  <1>7. AreRuns(run, clips)
    <2>1. \A k \in 1 .. n : run[k] \in 1 .. n
      BY <1>1, <1>6 DEF Knows
    <2>2. run \in [1 .. n -> 1 .. n]
      BY <2>1 DEF run
    <2> QED
      BY <2>2, <1>6 DEF AreRuns
  <1>8. Merged(clips) = Pieces(run, clips, Closed(run, n) \cup {n})
    <2> DEFINE groups == m[n]
    <2>1. Knows(m, run, clips, n)
      BY <1>1, <1>6
    <2>2. /\ DOMAIN groups = 1 .. Len(groups) /\ Len(groups) \in Nat \ {0}
          /\ groups[Len(groups)] = SubSeq(clips, run[n], n)
          /\ {groups[i] : i \in 1 .. Len(groups) - 1} = Pieces(run, clips, Closed(run, n))
      BY <2>1 DEF Knows, Lists, Last
    <2>3. Range(groups) = {groups[i] : i \in 1 .. Len(groups) - 1} \cup {groups[Len(groups)]}
      <3>1. 1 .. Len(groups) = (1 .. Len(groups) - 1) \cup {Len(groups)}
        BY <2>2
      <3> QED
        BY <2>2, <3>1 DEF Range
    <2>4. Merged(clips) = Range(groups)
      BY <1>2 DEF Merged
    <2> QED
      BY <2>2, <2>3, <2>4 DEF Pieces
  <1> QED
    BY <1>7, <1>8

-----------------------------------------------------------------------------
(* What follows of the runs.                                               *)

Ends(run, clips) == Closed(run, Len(clips)) \cup {Len(clips)}

\* A run does not begin after its clip, and all clips from there have that run.
LEMMA RunsHold ==
    ASSUME NEW clips \in Seq(Clips), NEW run, AreRuns(run, clips),
           NEW k \in 1 .. Len(clips)
    PROVE  run[k] \in 1 .. k /\ \A j \in run[k] .. k : run[j] = run[k]
  <1> DEFINE n == Len(clips)
             A == {i \in 0 .. n : i > 0 => /\ run[i] \in 1 .. i
                                           /\ \A j \in run[i] .. i : run[j] = run[i]}
  <1>1. n \in Nat
    OBVIOUS
  <1>2. 0 \in A
    BY <1>1
  <1>3. ASSUME NEW i \in 0 .. n - 1, i \in A
        PROVE  i + 1 \in A
    <2>1. i + 1 \in 1 .. n /\ (i + 1) - 1 = i
      BY <1>1
    <2>2. run[i + 1] = IF i + 1 > 1 /\ Joins(clips[i + 1], SubSeq(clips, run[i], i))
                       THEN run[i] ELSE i + 1
      BY <2>1 DEF AreRuns
    <2>3. CASE run[i + 1] = i + 1
      BY <2>1, <2>3
    <2>4. CASE run[i + 1] # i + 1
      <3>1. i > 0 /\ run[i + 1] = run[i]
        BY <2>1, <2>2, <2>4
      <3>2. run[i] \in 1 .. i /\ \A j \in run[i] .. i : run[j] = run[i]
        BY <1>3, <3>1
      <3>3. \A j \in run[i] .. i + 1 : run[j] = run[i]
        BY <3>1, <3>2
      <3> QED
        BY <2>1, <3>1, <3>2, <3>3
    <2> QED
      BY <2>3, <2>4
  <1> HIDE DEF A
  <1>4. k \in A
    BY <1>1, <1>2, <1>3, UpTo
  <1> QED
    BY <1>4 DEF A

\* In a run every clip may join those before it.
LEMMA RunsJoin ==
    ASSUME NEW clips \in Seq(Clips), NEW run, AreRuns(run, clips),
           NEW k \in 1 .. Len(clips), NEW j \in run[k] + 1 .. k
    PROVE  Joins(clips[j], SubSeq(clips, run[k], j - 1))
  <1>1. run[k] \in 1 .. k /\ run[j] = run[k] /\ run[j - 1] = run[k]
    BY RunsHold
  <1>2. j \in 1 .. Len(clips) /\ run[j] # j
    BY <1>1
  <1>3. run[j] = IF j > 1 /\ Joins(clips[j], SubSeq(clips, run[j - 1], j - 1))
                 THEN run[j - 1] ELSE j
    BY <1>2 DEF AreRuns
  <1> QED
    BY <1>1, <1>2, <1>3

\* The clip after one that ends a run may not join it.
LEMMA RunsAreLong ==
    ASSUME NEW clips \in Seq(Clips), NEW run, AreRuns(run, clips),
           NEW q \in Ends(run, clips), q < Len(clips)
    PROVE  ~Joins(clips[q + 1], SubSeq(clips, run[q], q))
  <1>1. q \in 1 .. Len(clips) - 1 /\ run[q + 1] = q + 1
    BY DEF Ends, Closed
  <1>2. run[q] \in 1 .. q
    BY <1>1, RunsHold
  <1>3. q + 1 \in 1 .. Len(clips) /\ (q + 1) - 1 = q /\ q + 1 > 1
    BY <1>1
  <1>4. run[q + 1] = IF Joins(clips[q + 1], SubSeq(clips, run[q], q))
                     THEN run[q] ELSE q + 1
    BY <1>3 DEF AreRuns
  <1> QED
    BY <1>1, <1>2, <1>4

\* Every clip is in a run that ends, and in one only.
LEMMA RunsEnd ==
    ASSUME NEW clips \in Seq(Clips), NEW run, AreRuns(run, clips),
           NEW p \in 1 .. Len(clips)
    PROVE  \E q \in Ends(run, clips) : p \in run[q] .. q
  <1> DEFINE n == Len(clips)
             A == {i \in 0 .. n : i >= p =>
                      \E q \in p .. i : /\ run[q] = run[p]
                                        /\ q # i => run[q + 1] = q + 1}
  <1>1. n \in Nat
    OBVIOUS
  <1>2. 0 \in A
    BY <1>1
  <1>3. ASSUME NEW i \in 0 .. n - 1, i \in A
        PROVE  i + 1 \in A
    <2>1. i + 1 \in 1 .. n /\ (i + 1) - 1 = i
      BY <1>1
    <2> SUFFICES ASSUME i + 1 >= p
                 PROVE  \E q \in p .. i + 1 : /\ run[q] = run[p]
                                              /\ q # i + 1 => run[q + 1] = q + 1
      BY <2>1
    <2>2. CASE i + 1 = p
      BY <2>2
    <2>3. CASE i >= p
      <3>1. PICK q \in p .. i : run[q] = run[p] /\ (q # i => run[q + 1] = q + 1)
        BY <1>3, <2>3
      <3>2. run[i + 1] \in {run[i], i + 1}
        BY <2>1 DEF AreRuns
      <3>3. CASE q # i \/ run[i + 1] = i + 1
        <4>1. q \in p .. i + 1 /\ run[q + 1] = q + 1
          BY <3>1, <3>3
        <4> QED
          BY <3>1, <4>1
      <3>4. CASE q = i /\ run[i + 1] = run[i]
        BY <2>1, <2>3, <3>1, <3>4
      <3> QED
        BY <3>2, <3>3, <3>4
    <2> QED
      BY <2>2, <2>3
  <1> HIDE DEF A
  <1>4. n \in A
    <2>1. 0 .. n \subseteq A
      BY <1>1, <1>2, <1>3, UpTo
    <2> QED
      BY <1>1, <2>1
  <1>5. PICK q \in p .. n : run[q] = run[p] /\ (q # n => run[q + 1] = q + 1)
    BY <1>4 DEF A
  <1>6. q \in Ends(run, clips)
    BY <1>5 DEF Ends, Closed
  <1>7. p \in run[q] .. q
    BY <1>5, RunsHold
  <1> QED
    BY <1>6, <1>7

LEMMA RunsApart ==
    ASSUME NEW clips \in Seq(Clips), NEW run, AreRuns(run, clips),
           NEW q \in Ends(run, clips), NEW r \in Ends(run, clips),
           NEW p \in run[q] .. q, p \in run[r] .. r
    PROVE  q = r
  <1>1. ASSUME NEW a \in Ends(run, clips), NEW b \in Ends(run, clips), a < b,
               p \in run[a] .. a, p \in run[b] .. b
        PROVE  FALSE
    <2>1. a \in 1 .. Len(clips) - 1 /\ b \in 1 .. Len(clips) /\ run[a + 1] = a + 1
      BY <1>1 DEF Ends, Closed
    <2>2. run[a] \in 1 .. a /\ run[b] \in 1 .. b
      BY <2>1, RunsHold
    <2>3. run[p] = run[a] /\ run[p] = run[b]
      BY <1>1, <2>1, RunsHold
    <2>4. a + 1 \in run[b] .. b
      BY <1>1, <2>1, <2>2, <2>3
    <2>5. run[a + 1] = run[b]
      BY <2>1, <2>4, RunsHold
    <2> QED
      BY <2>1, <2>2, <2>3, <2>5
  <1>2. q \in Int /\ r \in Int
    BY DEF Ends, Closed
  <1> QED
    BY <1>1, <1>2

\* The clips of a run have ended when a later one of it begins.
LEMMA RunsAreInTime ==
    ASSUME NEW clips \in Seq(Clips), NEW run, AreRuns(run, clips),
           NEW k \in 1 .. Len(clips), NEW j \in run[k] .. k - 1
    PROVE  End(clips[j]) # NoTime /\ End(clips[j]) <= Start(clips[k])
  <1> DEFINE n == Len(clips)
             InTime(i) == \A x \in run[i] .. i - 1 : /\ End(clips[x]) # NoTime
                                                     /\ End(clips[x]) <= Start(clips[i])
             A == {i \in 0 .. n : i > 0 => InTime(i)}
  <1>1. n \in Nat
    OBVIOUS
  <1>2. 0 \in A
    BY <1>1
  <1>3. ASSUME NEW i \in 0 .. n - 1, i \in A
        PROVE  i + 1 \in A
    <2>1. i + 1 \in 1 .. n /\ (i + 1) - 1 = i
      BY <1>1
    <2> SUFFICES ASSUME NEW x \in run[i + 1] .. i
                 PROVE  /\ End(clips[x]) # NoTime
                        /\ End(clips[x]) <= Start(clips[i + 1])
      BY <2>1
    <2>2. run[i + 1] \in 1 .. i /\ i \in 1 .. n /\ run[i] = run[i + 1]
      BY <2>1, RunsHold
    <2>3. Joins(clips[i + 1], SubSeq(clips, run[i + 1], i))
      <3>1. i + 1 \in run[i + 1] + 1 .. i + 1
        BY <2>2
      <3> QED
        BY <2>1, <3>1, RunsJoin
    <2>4. Last(SubSeq(clips, run[i + 1], i)) = clips[i]
      BY <2>2, PieceIs
    <2>5. End(clips[i]) # NoTime /\ Start(clips[i + 1]) - End(clips[i]) \in 0 .. MergeGap
      BY <2>3, <2>4 DEF Joins, Follows, GroupEnd
    <2>6. clips[i] \in Clips /\ clips[i + 1] \in Clips /\ clips[x] \in Clips
      BY <2>1, <2>2
    <2>7. /\ End(clips[i]) \in Nat /\ Start(clips[i + 1]) \in Nat /\ Start(clips[i]) \in Nat
          /\ Start(clips[i]) <= End(clips[i]) /\ End(clips[i]) <= Start(clips[i + 1])
      <3>1. /\ End(clips[i]) \in Nat /\ Start(clips[i + 1]) \in Nat
            /\ Start(clips[i]) \in Nat /\ Start(clips[i]) <= End(clips[i])
        BY <2>5, <2>6, RecordingHasTimes
      <3> QED
        BY <2>5, <3>1, GroupingAssumption
    <2>8. CASE x = i
      BY <2>5, <2>7, <2>8
    <2>9. CASE x # i
      <3>1. x \in run[i] .. i - 1
        BY <2>2, <2>9
      <3>2. End(clips[x]) # NoTime /\ End(clips[x]) <= Start(clips[i])
        BY <1>3, <2>2, <3>1
      <3>3. End(clips[x]) \in Nat
        BY <2>6, <3>2, RecordingHasTimes
      <3> QED
        BY <2>7, <3>2, <3>3
    <2> QED
      BY <2>8, <2>9
  <1> HIDE DEF A
  <1>4. k \in A
    BY <1>1, <1>2, <1>3, UpTo, SMTT(30)
  <1> QED
    BY <1>4 DEF A

-----------------------------------------------------------------------------
(* The groups of a poll.                                                   *)

\* What a group made of some of S is.
GroupIsRight(S, g) ==
    /\ g \in Seq(S) \ {<<>>}
    /\ \A i, j \in DOMAIN g : i # j => g[i] # g[j]
    /\ \A i \in 1 .. Len(g) - 1 :
          Neighbours(S, g[i], g[i + 1]) /\ Joins(g[i + 1], SubSeq(g, 1, i))
    /\ \A c \in S : Neighbours(S, Last(g), c) => ~Joins(c, g)
    /\ IsShort(g) => \A c \in Range(g) : IsShort(<<c>>)

\* The groups are right, and are a partition of T.
GroupsAre(S, T, groups) ==
    /\ \A g \in groups : GroupIsRight(S, g) /\ Range(g) \subseteq T
    /\ \A c \in T : \E g \in groups : c \in Range(g)
    /\ \A g, h \in groups : \A c \in Range(g) : c \in Range(h) => g = h

OnChannel(S, d) == {c \in S : Channel(c) = Channel(d)}

\* Places in the order of a channel are the order of its clips.
LEMMA NeighboursAreNext ==
    ASSUME NEW S \in SUBSET Clips, NEW d \in S,
           NEW clips \in Seq(Clips), Range(clips) = OnChannel(S, d), Ascending(clips),
           NEW i \in 1 .. Len(clips), NEW j \in 1 .. Len(clips)
    PROVE  Neighbours(S, clips[i], clips[j]) <=> j = i + 1
  <1>1. \A k \in 1 .. Len(clips) : clips[k] \in S /\ Channel(clips[k]) = Channel(d)
    BY DEF Range, OnChannel
  <1>2. \A k, l \in 1 .. Len(clips) : Earlier(clips[k], clips[l]) <=> k < l
    <2> TAKE k, l \in 1 .. Len(clips)
    <2>1. clips[k] \in Clips /\ clips[l] \in Clips
      BY <1>1
    <2>2. k < l => Earlier(clips[k], clips[l])
      BY DEF Ascending
    <2>3. l < k => Earlier(clips[l], clips[k])
      BY DEF Ascending
    <2> QED
      BY <2>1, <2>2, <2>3, OrderIsStrict
  <1>3. \A e \in S : Channel(e) = Channel(d) => \E k \in 1 .. Len(clips) : e = clips[k]
    BY DEF Range, OnChannel
  <1>4. ASSUME j = i + 1 PROVE Neighbours(S, clips[i], clips[j])
    <2>1. ASSUME NEW e \in S, Channel(e) = Channel(clips[i]),
                 Earlier(clips[i], e), Earlier(e, clips[j])
          PROVE  FALSE
      <3>1. PICK k \in 1 .. Len(clips) : e = clips[k]
        BY <1>1, <1>3, <2>1
      <3>2. i < k /\ k < j
        BY <1>2, <2>1, <3>1
      <3> QED
        BY <1>4, <3>2
    <2> QED
      BY <1>1, <1>2, <1>4, <2>1 DEF Neighbours
  <1>5. ASSUME Neighbours(S, clips[i], clips[j]) PROVE j = i + 1
    <2>1. i < j
      BY <1>2, <1>5 DEF Neighbours
    <2>2. ASSUME i + 1 < j PROVE FALSE
      <3>1. i + 1 \in 1 .. Len(clips)
        BY <2>2
      <3> QED
        BY <1>1, <1>2, <1>5, <2>2, <3>1 DEF Neighbours
    <2> QED
      BY <2>1, <2>2
  <1> QED
    BY <1>4, <1>5

\* A run that ends is a group.
LEMMA RunsAreGroups ==
    ASSUME NEW S \in SUBSET Clips, NEW d \in S,
           NEW clips \in Seq(Clips), Range(clips) = OnChannel(S, d), Ascending(clips),
           NEW run, AreRuns(run, clips), NEW q \in Ends(run, clips), q \in 1 .. Len(clips)
    PROVE  /\ GroupIsRight(S, SubSeq(clips, run[q], q))
           /\ Range(SubSeq(clips, run[q], q)) \subseteq OnChannel(S, d)
  <1> DEFINE a == run[q]
             g == SubSeq(clips, a, q)
             n == q - a + 1
  <1>1. a \in 1 .. q /\ a \in 1 .. Len(clips) /\ q \in a .. Len(clips) /\ n \in Nat \ {0}
    BY RunsHold
  <1>2. /\ g \in Seq(Clips) \ {<<>>} /\ Len(g) = n
        /\ \A i \in 1 .. n : g[i] = clips[a + i - 1]
        /\ Head(g) = clips[a] /\ Last(g) = clips[q]
        /\ Range(g) = {clips[i] : i \in a .. q}
    BY <1>1, PieceIs, SMTT(30)
  <1>3. \A k \in 1 .. Len(clips) :
           /\ clips[k] \in S /\ clips[k] \in OnChannel(S, d) /\ clips[k] \in Clips
    BY DEF Range, OnChannel
  <1>4. \A i \in 1 .. n : a + i - 1 \in 1 .. Len(clips)
    BY <1>1
  <1>5. \A c \in S : Channel(c) = Channel(d) => \E k \in 1 .. Len(clips) : c = clips[k]
    BY DEF Range, OnChannel
  <1> HIDE DEF g
  <1>6. Range(g) \subseteq OnChannel(S, d)
    <2>1. \A i \in a .. q : i \in 1 .. Len(clips)
      BY <1>1
    <2> QED
      BY <1>2, <1>3, <2>1
  <1>7. g \in Seq(S) \ {<<>>} /\ DOMAIN g = 1 .. n
    <2>1. \A i \in 1 .. n : g[i] \in S
      BY <1>2, <1>3, <1>4
    <2>2. DOMAIN g = 1 .. n
      BY <1>2
    <2> QED
      BY <1>1, <1>2, <2>1, <2>2, SeqOfRange, SeqMonotonic, <1>6 DEF OnChannel
  <1>8. ASSUME NEW i \in 1 .. n, NEW j \in 1 .. n, i # j
        PROVE  g[i] # g[j]
    <2>1. ASSUME NEW k \in 1 .. Len(clips), NEW l \in 1 .. Len(clips), k < l
          PROVE  clips[k] # clips[l]
      <3>1. Earlier(clips[k], clips[l])
        BY <2>1 DEF Ascending
      <3> QED
        BY <1>3, <3>1, OrderIsStrict
    <2>2. /\ a + i - 1 \in 1 .. Len(clips) /\ a + j - 1 \in 1 .. Len(clips)
          /\ a + i - 1 < a + j - 1 \/ a + j - 1 < a + i - 1
      BY <1>1, <1>4, <1>8
    <2>3. g[i] = clips[a + i - 1] /\ g[j] = clips[a + j - 1]
      BY <1>2, <1>8
    <2>4. clips[a + i - 1] # clips[a + j - 1]
      <3>1. CASE a + i - 1 < a + j - 1
        BY <2>1, <2>2, <3>1
      <3>2. CASE a + j - 1 < a + i - 1
        BY <2>1, <2>2, <3>2
      <3> QED
        BY <2>2, <3>1, <3>2
    <2> QED
      BY <2>3, <2>4
  <1>9. ASSUME NEW i \in 1 .. n - 1
        PROVE  Neighbours(S, g[i], g[i + 1]) /\ Joins(g[i + 1], SubSeq(g, 1, i))
    <2>1. /\ i \in 1 .. n /\ i + 1 \in 1 .. n /\ a + i \in a + 1 .. q
          /\ a + i - 1 \in 1 .. Len(clips) /\ a + i \in 1 .. Len(clips)
          /\ a + i = (a + i - 1) + 1
      BY <1>1, SMTT(30)
    <2>2. g[i] = clips[a + i - 1] /\ g[i + 1] = clips[a + i]
      <3>1. g[i + 1] = clips[a + (i + 1) - 1]
        BY <1>2, <2>1
      <3>2. a + (i + 1) - 1 = a + i
        BY <1>1
      <3> QED
        BY <1>2, <2>1, <3>1, <3>2
    <2>3. Neighbours(S, g[i], g[i + 1])
      BY <2>1, <2>2, NeighboursAreNext
    <2>4. Joins(clips[a + i], SubSeq(clips, a, a + i - 1))
      <3>1. a + i \in run[q] + 1 .. q /\ (a + i) - 1 = a + i - 1
        BY <2>1
      <3> QED
        BY <3>1, RunsJoin
    <2>5. SubSeq(g, 1, i) = SubSeq(clips, a, a + i - 1)
      <3> DEFINE e == a + i - 1
                 u == SubSeq(g, 1, i)
                 v == SubSeq(clips, a, e)
      <3>1. e \in a .. Len(clips) /\ e - a + 1 = i /\ e - 1 \in Int
        BY <1>1, <2>1, SMTT(30)
      <3>2. i \in Nat \ {0} /\ \A k \in 1 .. i : k \in 1 .. n /\ 1 + k - 1 = k
        BY <1>1
      <3>3. /\ u \in Seq(Clips) /\ Len(u) = IF 1 <= i THEN i - 1 + 1 ELSE 0
            /\ \A k \in 1 .. i - 1 + 1 : u[k] = g[1 + k - 1]
        <4>1. \A k \in 1 .. i : g[k] \in Clips
          BY <1>2, <3>2, ElementOfSeq
        <4> QED
          BY <4>1, SubSeqProperties
      <3> HIDE DEF e, u, v
      <3>4. /\ v \in Seq(Clips) /\ Len(v) = i
            /\ \A k \in 1 .. i : v[k] = clips[a + k - 1]
        <4>1. /\ v \in Seq(Clips) /\ Len(v) = e - a + 1
              /\ \A k \in 1 .. e - a + 1 : v[k] = clips[a + k - 1]
          BY <1>1, <3>1, PieceIs, SMTT(30) DEF v
        <4> QED
          BY <3>1, <4>1
      <3>5. Len(u) = i /\ \A k \in 1 .. i : u[k] = g[k]
        BY <3>3, <3>2
      <3>6. Len(u) = i /\ \A k \in 1 .. i : u[k] = v[k]
        BY <1>2, <3>3, <3>4, <3>2, <3>5
      <3>7. u = v
        BY <3>3, <3>4, <3>6, SeqEqual
      <3> QED
        BY <3>7 DEF u, v, e
    <2> QED
      BY <2>2, <2>3, <2>4, <2>5
  <1>10. ASSUME NEW c \in S, Neighbours(S, Last(g), c)
         PROVE  ~Joins(c, g)
    <2>1. Channel(c) = Channel(d)
      BY <1>2, <1>3, <1>10 DEF Neighbours, OnChannel
    <2>2. PICK k \in 1 .. Len(clips) : c = clips[k]
      BY <1>5, <2>1
    <2>3. k = q + 1
      BY <1>2, <1>10, <2>2, NeighboursAreNext
    <2> QED
      BY <2>2, <2>3, RunsAreLong DEF g
  <1>11. ASSUME IsShort(g), NEW c \in Range(g)
         PROVE  IsShort(<<c>>)
    <2>1. PICK i \in a .. q : c = clips[i]
      BY <1>2
    <2>2. /\ End(clips[q]) # NoTime
          /\ End(clips[q]) - Start(clips[a]) < MinDuration
      BY <1>2, <1>11 DEF IsShort, GroupEnd, GroupStart
    <2>3. clips[a] \in Clips /\ clips[q] \in Clips /\ c \in Clips
      BY <1>1, <1>3, <2>1
    <2>4. Start(clips[a]) <= Start(c)
      <3>1. CASE i = a
        BY <2>1, <2>3, <3>1, RecordingHasTimes
      <3>2. CASE i # a
        <4>1. Earlier(clips[a], c)
          BY <1>1, <2>1, <3>2 DEF Ascending
        <4> QED
          BY <2>3, <4>1, OrderIsStrict
      <3> QED
        BY <3>1, <3>2
    <2>5. End(c) # NoTime /\ End(c) <= End(clips[q])
      <3>1. CASE i = q
        BY <2>1, <2>2, <2>3, <3>1, RecordingHasTimes
      <3>2. CASE i # q
        <4>1. i \in run[q] .. q - 1
          BY <1>1, <3>2
        <4>2. End(c) # NoTime /\ End(c) <= Start(clips[q])
          BY <2>1, <4>1, RunsAreInTime
        <4> QED
          BY <2>2, <2>3, <4>2, RecordingHasTimes
      <3> QED
        BY <3>1, <3>2
    <2>6. End(c) - Start(c) < MinDuration
      <3>1. /\ Start(c) \in Nat /\ End(c) \in Nat /\ Start(clips[a]) \in Nat
            /\ End(clips[q]) \in Nat /\ MinDuration \in Nat
        BY <2>2, <2>3, <2>5, RecordingHasTimes, GroupingAssumption
      <3> QED
        BY <2>2, <2>4, <2>5, <3>1
    <2>7. Head(<<c>>) = c /\ Last(<<c>>) = c
      BY <2>3 DEF Last
    <2> QED
      BY <2>5, <2>6, <2>7 DEF IsShort, GroupEnd, GroupStart
  <1> QED
    BY <1>2, <1>6, <1>7, <1>8, <1>9, <1>10, <1>11 DEF GroupIsRight, g

LEMMA MergedIsRight ==
    ASSUME NEW S \in SUBSET Clips, NEW d \in S
    PROVE  GroupsAre(S, OnChannel(S, d), Merged(ByStart(OnChannel(S, d))))
  <1> DEFINE T == OnChannel(S, d)
             clips == ByStart(T)
  <1>1. T \in SUBSET Clips /\ T \subseteq S /\ d \in T
    BY DEF OnChannel
  <1>2. /\ clips \in Seq(T) /\ Len(clips) \in Nat /\ DOMAIN clips = 1 .. Len(clips)
        /\ Range(clips) = T /\ Ascending(clips)
    BY <1>1, ByStartSorts
  <1> HIDE DEF clips, T
  <1>3. clips \in Seq(Clips) /\ clips # <<>> /\ Len(clips) \in 1 .. Len(clips)
    <2>1. clips \in Seq(Clips)
      BY <1>1, <1>2, SeqMonotonic
    <2>2. PICK i \in 1 .. Len(clips) : clips[i] = d
      BY <1>1, <1>2 DEF Range
    <2>3. Len(clips) \in 1 .. Len(clips)
      BY <1>2, <2>2
    <2> QED
      BY <2>1, <2>3
  <1>4. PICK run : /\ AreRuns(run, clips)
                   /\ Merged(clips) = Pieces(run, clips, Ends(run, clips))
    BY <1>3, MergedIsRuns DEF Ends
  <1>5. \A q \in Ends(run, clips) : q \in 1 .. Len(clips)
    BY <1>3 DEF Ends, Closed
  <1> DEFINE Group(q) == SubSeq(clips, run[q], q)
  <1>6. \A q \in Ends(run, clips) : GroupIsRight(S, Group(q)) /\ Range(Group(q)) \subseteq T
    BY <1>2, <1>3, <1>4, <1>5, RunsAreGroups DEF T
  <1>7. \A q \in Ends(run, clips) : Range(Group(q)) = {clips[i] : i \in run[q] .. q}
    <2> TAKE q \in Ends(run, clips)
    <2>1. run[q] \in 1 .. q
      BY <1>3, <1>4, <1>5, RunsHold
    <2>2. run[q] \in 1 .. Len(clips) /\ q \in run[q] .. Len(clips)
      BY <1>5, <2>1
    <2> QED
      BY <1>3, <2>2, PieceIs
  <1>8. \A g \in Merged(clips) : GroupIsRight(S, g) /\ Range(g) \subseteq T
    BY <1>4, <1>6 DEF Pieces
  <1>9. ASSUME NEW c \in T
        PROVE  \E g \in Merged(clips) : c \in Range(g)
    <2>1. PICK p \in 1 .. Len(clips) : clips[p] = c
      BY <1>2 DEF Range
    <2>2. PICK q \in Ends(run, clips) : p \in run[q] .. q
      BY <1>3, <1>4, RunsEnd
    <2>3. c \in Range(Group(q))
      BY <1>7, <2>1, <2>2
    <2> QED
      BY <1>4, <2>3 DEF Pieces
  <1>10. ASSUME NEW g \in Merged(clips), NEW h \in Merged(clips),
                NEW c \in Range(g), c \in Range(h)
         PROVE  g = h
    <2>1. PICK q \in Ends(run, clips) : g = Group(q)
      BY <1>4 DEF Pieces
    <2>2. PICK r \in Ends(run, clips) : h = Group(r)
      BY <1>4 DEF Pieces
    <2>3. PICK p \in run[q] .. q : c = clips[p]
      BY <1>7, <1>10, <2>1
    <2>4. PICK o \in run[r] .. r : c = clips[o]
      BY <1>7, <1>10, <2>2
    <2>5. p \in 1 .. Len(clips) /\ o \in 1 .. Len(clips)
      <3>1. run[q] \in 1 .. q /\ run[r] \in 1 .. r
        BY <1>3, <1>4, <1>5, RunsHold
      <3> QED
        BY <1>5, <2>3, <2>4, <3>1
    <2>6. p = o
      <3>1. clips[p] \in Clips
        BY <1>3, <2>5
      <3>2. ~Earlier(clips[p], clips[o]) /\ ~Earlier(clips[o], clips[p])
        BY <2>3, <2>4, <3>1, OrderIsStrict
      <3>3. ~(p < o) /\ ~(o < p)
        BY <1>2, <2>5, <3>2 DEF Ascending
      <3> QED
        BY <2>5, <3>3
    <2>7. q = r
      BY <1>3, <1>4, <2>3, <2>4, <2>6, RunsApart
    <2> QED
      BY <2>1, <2>2, <2>7
  <1> QED
    BY <1>8, <1>9, <1>10 DEF GroupsAre, clips, T

\* The groups of all channels.
LEMMA GroupsAreRightOnes ==
    ASSUME NEW S \in SUBSET Clips
    PROVE  GroupsAre(S, S, Groups(S))
  <1> DEFINE M(d) == Merged(ByStart(OnChannel(S, d)))
  <1>1. \A g : g \in Groups(S) <=> \E d \in S : g \in M(d)
    BY DEF Groups, ByChannel, OnChannel
  <1>2. \A d \in S : GroupsAre(S, OnChannel(S, d), M(d))
    BY MergedIsRight
  <1>3. \A c, d \in S : Channel(c) = Channel(d) => M(c) = M(d)
    <2> SUFFICES ASSUME NEW c \in S, NEW d \in S, Channel(c) = Channel(d)
                 PROVE  M(c) = M(d)
      OBVIOUS
    <2>1. OnChannel(S, c) = OnChannel(S, d)
      BY DEF OnChannel
    <2> QED
      BY <2>1
  <1> HIDE DEF M
  <1>4. \A d \in S : d \in OnChannel(S, d) /\ OnChannel(S, d) \subseteq S
    BY DEF OnChannel
  <1>5. \A g \in Groups(S) : GroupIsRight(S, g) /\ Range(g) \subseteq S
    BY <1>1, <1>2, <1>4 DEF GroupsAre
  <1>6. \A c \in S : \E g \in Groups(S) : c \in Range(g)
    BY <1>1, <1>2, <1>4 DEF GroupsAre
  <1>7. ASSUME NEW g \in Groups(S), NEW h \in Groups(S), NEW c \in Range(g), c \in Range(h)
        PROVE  g = h
    <2>1. PICK d \in S : g \in M(d)
      BY <1>1
    <2>2. PICK e \in S : h \in M(e)
      BY <1>1
    <2>3. c \in OnChannel(S, d) /\ c \in OnChannel(S, e)
      BY <1>2, <1>7, <2>1, <2>2 DEF GroupsAre
    <2>4. M(d) = M(e)
      BY <1>3, <2>3 DEF OnChannel
    <2> QED
      BY <1>2, <1>7, <2>1, <2>2, <2>4 DEF GroupsAre
  <1> QED
    BY <1>5, <1>6, <1>7 DEF GroupsAre

\* What the loop computes is the merge the documentation describes: runs of
\* neighbours within the gap and the span, as long as they can be
\* (group_completed_audio_clips), whatever recordings there are.
THEOREM MergeIsRight == \A S \in SUBSET Clips : IsGrouping(S, Groups(S))
  <1> SUFFICES ASSUME NEW S \in SUBSET Clips PROVE IsGrouping(S, Groups(S))
    OBVIOUS
  <1>1. GroupsAre(S, S, Groups(S))
    BY GroupsAreRightOnes
  <1>2. ASSUME NEW c \in S
        PROVE  Cardinality({g \in Groups(S) : c \in Range(g)}) = 1
    <2>1. PICK g \in Groups(S) : c \in Range(g)
      BY <1>1 DEF GroupsAre
    <2>2. {h \in Groups(S) : c \in Range(h)} = {g}
      BY <1>1, <2>1 DEF GroupsAre
    <2> QED
      BY <2>2, FS_Singleton
  <1> QED
    BY <1>1, <1>2 DEF IsGrouping, GroupsAre, GroupIsRight

-----------------------------------------------------------------------------
(* The inductive invariant.                                                *)

Fates   == {"unrecorded", "spooled"} \cup Reasons
Daemons == [pc : {"idle", "discover", "hold", "upload"}, aged : SUBSET Clips,
            groups : SUBSET Seq(Clips), removing : Seq(Clips), reason : Reasons]

\* Why a recording may leave the spool, when R was recorded and B uploaded.
Justified(c, reason, R, B) ==
    /\ reason = "sent"  => c \in UNION B
    /\ reason = "short" => IsShort(<<c>>)
    /\ reason = "burst" => c \in Burst(R)
    /\ reason = "pruned" => Cardinality({d \in R : Earlier(c, d)}) >= MaxRetained

NoRepeats(s) == \A i, j \in DOMAIN s : i # j => s[i] # s[j]

\* The groups of a poll share no file with each other or with what is removed.
GroupsInv ==
    /\ \A g \in uploader.groups :
          /\ NoRepeats(g)
          /\ IsShort(g) => \A c \in Range(g) : IsShort(<<c>>)
          /\ \A c \in Range(g) : c \notin Range(uploader.removing)
    /\ \A g, h \in uploader.groups : \A c \in Range(g) : c \in Range(h) => g = h

\* What is removed is removed once, and for the reason that is noted.
RemovingInv ==
    /\ uploader.pc \in {"idle", "discover"} => uploader.groups = {} /\ uploader.removing = <<>>
    /\ NoRepeats(uploader.removing)
    /\ \A c \in Range(uploader.removing) : Justified(c, uploader.reason, Recorded, bucket)

\* Without troubles what was uploaded has left the spool or is about to.
SentInv ==
    troubles = 0 =>
        /\ NoDuplicateAudio
        /\ \A c \in UNION bucket :
              \/ spool[c] = "sent"
              \/ c \in Range(uploader.removing) /\ uploader.reason = "sent"

SpoolInv ==
    /\ TypeOK /\ uploader \in Daemons
    /\ GroupsInv /\ RemovingInv /\ NothingLost /\ GroupsAreRight /\ SentInv

-----------------------------------------------------------------------------
LEMMA NoFiles ==
    /\ <<>> \in Seq(Clips) /\ Range(<<>>) = {} /\ NoRepeats(<<>>)
    /\ \A s \in Seq(Clips) : s # <<>> => Range(s) # {} /\ Range(s) \subseteq Clips
  <1>1. \A s \in Seq(Clips) : DOMAIN s = 1 .. Len(s) /\ \A i \in DOMAIN s : s[i] \in Clips
    OBVIOUS
  <1>2. <<>> \in Seq(Clips) /\ \A s \in Seq(Clips) : s = <<>> <=> Len(s) = 0
    BY EmptySeq
  <1> DEFINE none == <<>>
  <1>3. none \in Seq(Clips) /\ DOMAIN none = {}
    BY EmptySeq
  <1>4. Range(none) = {} /\ NoRepeats(none)
    BY <1>3 DEF Range, NoRepeats
  <1>5. ASSUME NEW s \in Seq(Clips), s # <<>>
        PROVE  Range(s) # {} /\ Range(s) \subseteq Clips
    <2>1. 1 \in DOMAIN s
      BY <1>5
    <2> QED
      BY <1>1, <2>1 DEF Range
  <1> QED
    BY <1>3, <1>4, <1>5

LEMMA ChannelsAreFinite ==
    ASSUME NEW S \in SUBSET Clips
    PROVE  IsFiniteSet({Channel(d) : d \in S})
  <1> DEFINE T == {Channel(d) : d \in S}
             f == [d \in S |-> Channel(d)]
  <1>1. f \in [S -> T] /\ \A t \in T : \E d \in S : f[d] = t
    OBVIOUS
  <1> HIDE DEF f, T
  <1>2. f \in Surjection(S, T)
    BY <1>1 DEF Surjection
  <1>3. IsFiniteSet(S)
    BY FiniteClips
  <1> QED
    BY <1>2, <1>3, FS_Surjection DEF T

\* A burst stays one, whatever else is recorded.
LEMMA BurstGrows ==
    ASSUME NEW S \in SUBSET Clips, NEW R \in SUBSET Clips, S \subseteq R
    PROVE  Burst(S) \subseteq Burst(R)
  <1> DEFINE Same(X, c) == {e \in X : Start(e) \div Second = Start(c) \div Second}
             On(X, c) == {Channel(d) : d \in Same(X, c)}
  <1>1. ASSUME NEW c \in S, Cardinality(On(S, c)) > MaxChannels
        PROVE  Cardinality(On(R, c)) > MaxChannels
    <2>1. On(S, c) \subseteq On(R, c)
      OBVIOUS
    <2>2. Same(R, c) \in SUBSET Clips
      OBVIOUS
    <2> HIDE DEF Same
    <2>3. IsFiniteSet(On(R, c))
      BY <2>2, ChannelsAreFinite
    <2> HIDE DEF On
    <2>4. /\ IsFiniteSet(On(S, c)) /\ Cardinality(On(S, c)) <= Cardinality(On(R, c))
          /\ Cardinality(On(S, c)) \in Nat /\ Cardinality(On(R, c)) \in Nat
      BY <2>1, <2>3, FS_Subset, FS_CardinalityType
    <2> QED
      BY <1>1, <2>4, SpoolAssumption
  <1> QED
    BY <1>1 DEF Burst

LEMMA JustifiedGrows ==
    ASSUME NEW c \in Clips, NEW reason, NEW R \in SUBSET Clips, NEW S \in SUBSET Clips,
           R \subseteq S, NEW B, NEW C, B \subseteq C, Justified(c, reason, R, B)
    PROVE  Justified(c, reason, S, C)
  <1>1. reason = "sent" => c \in UNION C
    BY DEF Justified
  <1>2. reason = "burst" => c \in Burst(S)
    BY BurstGrows DEF Justified
  <1>3. ASSUME reason = "pruned"
        PROVE  Cardinality({d \in S : Earlier(c, d)}) >= MaxRetained
    <2> DEFINE Newer(X) == {d \in X : Earlier(c, d)}
    <2>1. Newer(R) \subseteq Newer(S) /\ Newer(S) \in SUBSET Clips
      OBVIOUS
    <2>2. Cardinality(Newer(R)) >= MaxRetained
      BY <1>3 DEF Justified
    <2> HIDE DEF Newer
    <2>3. IsFiniteSet(Newer(S))
      BY <2>1, FiniteClips
    <2>4. /\ Cardinality(Newer(R)) <= Cardinality(Newer(S))
          /\ Cardinality(Newer(R)) \in Nat /\ Cardinality(Newer(S)) \in Nat
      BY <2>1, <2>3, FS_Subset, FS_CardinalityType
    <2> QED
      BY <2>2, <2>4, SpoolAssumption DEF Newer
  <1> QED
    BY <1>1, <1>2, <1>3 DEF Justified

LEMMA LostIsUnjustified ==
    NothingLost <=> \A c \in Clips : Justified(c, spool[c], Recorded, bucket)
  BY DEF NothingLost, Justified

LEMMA InitInv == Init => SpoolInv
  <1> SUFFICES ASSUME Init PROVE SpoolInv
    OBVIOUS
  <1> USE DEF Init
  <1>1. uploader \in Daemons /\ uploader.pc = "idle" /\ uploader.groups = {}
        /\ uploader.removing = <<>> /\ uploader.aged = {} /\ uploader.reason \in Reasons
    BY NoFiles DEF Idle, Daemons, Reasons
  <1>2. TypeOK
    BY <1>1, NoFiles, SpoolAssumption DEF TypeOK
  <1>3. GroupsInv /\ RemovingInv /\ GroupsAreRight
    BY <1>1, NoFiles DEF GroupsInv, RemovingInv, GroupsAreRight
  <1>4. NothingLost /\ SentInv
    BY DEF NothingLost, SentInv, NoDuplicateAudio
  <1> QED
    BY <1>1, <1>2, <1>3, <1>4 DEF SpoolInv

\* Every recording is in the spool, was never recorded, or left it.
LEMMA SpoolSets ==
    Spooled \subseteq Recorded /\ Recorded \subseteq Clips
  BY DEF Spooled, Recorded

LEMMA RecordStep ==
    ASSUME SpoolInv, NEW c \in Clips, Record(c)
    PROVE  SpoolInv'
  <1> USE DEF Record
  <1>1. /\ Spooled' = Spooled \cup {c} /\ Recorded' = Recorded \cup {c}
        /\ \A d \in Clips : spool'[d] = IF d = c THEN "spooled" ELSE spool[d]
        /\ spool' \in [Clips -> Fates] /\ spool[c] = "unrecorded"
    BY DEF SpoolInv, TypeOK, Spooled, Recorded, Fates
  <1>2. TypeOK'
    BY <1>1 DEF SpoolInv, TypeOK, Fates
  <1>3. (uploader \in Daemons)' /\ GroupsInv' /\ GroupsAreRight'
    BY DEF SpoolInv, GroupsInv, GroupsAreRight, Daemons
  <1>4. Recorded \in SUBSET Clips /\ Recorded' \in SUBSET Clips /\ Recorded \subseteq Recorded'
    BY <1>1, SpoolSets
  <1>5. RemovingInv'
    <2>1. \A d \in Range(uploader.removing) :
             d \in Clips /\ Justified(d, uploader.reason, Recorded, bucket)
      BY DEF SpoolInv, RemovingInv, TypeOK, Spooled
    <2>2. \A d \in Range(uploader.removing) : Justified(d, uploader.reason, Recorded', bucket)
      BY <1>4, <2>1, JustifiedGrows
    <2> QED
      BY <2>2 DEF SpoolInv, RemovingInv, Justified
  <1>6. NothingLost'
    <2>1. ASSUME NEW d \in Clips PROVE Justified(d, spool'[d], Recorded', bucket)
      <3>1. CASE d = c
        BY <1>1, <3>1 DEF Justified
      <3>2. CASE d # c
        <4>1. Justified(d, spool[d], Recorded, bucket)
          BY LostIsUnjustified DEF SpoolInv
        <4> QED
          BY <1>1, <1>4, <3>2, <4>1, JustifiedGrows
      <3> QED
        BY <3>1, <3>2
    <2> QED
      BY <2>1 DEF NothingLost, Justified
  <1>7. SentInv'
    <2>1. \A d \in UNION bucket : d \in Clips
      BY DEF SpoolInv, TypeOK
    <2> QED
      BY <1>1, <2>1 DEF SpoolInv, SentInv, NoDuplicateAudio
  <1> QED
    BY <1>2, <1>3, <1>5, <1>6, <1>7 DEF SpoolInv

LEMMA AgeStep ==
    ASSUME SpoolInv, NEW c \in Clips, Age(c)
    PROVE  SpoolInv'
  <1> USE DEF Age
  <1>1. Spooled' = Spooled /\ Recorded' = Recorded
    BY DEF Spooled, Recorded
  <1>2. TypeOK' /\ (uploader \in Daemons)'
    BY <1>1 DEF SpoolInv, TypeOK, Daemons
  <1>3. GroupsInv' /\ GroupsAreRight'
    BY DEF SpoolInv, GroupsInv, GroupsAreRight
  <1>4. RemovingInv' /\ NothingLost'
    BY <1>1 DEF SpoolInv, RemovingInv, Justified, NothingLost
  <1>5. SentInv'
    BY DEF SpoolInv, SentInv, NoDuplicateAudio
  <1> QED
    BY <1>2, <1>3, <1>4, <1>5 DEF SpoolInv

\* A daemon that finishes or is restarted knows nothing.
LEMMA IdleAgain ==
    ASSUME SpoolInv, uploader' = Idle, UNCHANGED <<spool, stable, bucket, failures>>,
           troubles' \in 0 .. MaxTroubles, SentInv'
    PROVE  SpoolInv'
  <1>1. /\ Idle \in Daemons /\ Idle.pc = "idle" /\ Idle.groups = {}
        /\ Idle.removing = <<>> /\ Idle.aged = {} /\ Idle.reason \in Reasons
    BY NoFiles DEF Idle, Daemons, Reasons
  <1>2. Spooled' = Spooled /\ Recorded' = Recorded
    BY DEF Spooled, Recorded
  <1>3. TypeOK'
    BY <1>1, <1>2, NoFiles DEF SpoolInv, TypeOK
  <1>4. GroupsInv' /\ RemovingInv' /\ GroupsAreRight'
    BY <1>1, NoFiles DEF GroupsInv, RemovingInv, GroupsAreRight
  <1>5. NothingLost'
    BY <1>2 DEF SpoolInv, NothingLost
  <1> QED
    BY <1>1, <1>3, <1>4, <1>5 DEF SpoolInv

LEMMA FinishStep == ASSUME SpoolInv, Finish PROVE SpoolInv'
  <1>1. SentInv'
    <2>1. \A c \in Range(<<>>) : FALSE
      BY NoFiles
    <2> QED
      BY <2>1 DEF Finish, SpoolInv, SentInv, NoDuplicateAudio
  <1> QED
    BY <1>1, IdleAgain DEF Finish, SpoolInv, TypeOK

LEMMA CrashStep == ASSUME SpoolInv, Crash PROVE SpoolInv'
  <1>1. troubles' \in 0 .. MaxTroubles /\ troubles' # 0
    BY SpoolAssumption DEF Crash, SpoolInv, TypeOK
  <1>2. SentInv'
    BY <1>1 DEF SentInv
  <1> QED
    BY <1>1, <1>2, IdleAgain DEF Crash

\* A group in hand, and what becomes of the daemon when it is done with it.
LEMMA GroupInHand ==
    ASSUME SpoolInv, NEW g, InHand(g)
    PROVE  /\ g \in uploader.groups /\ uploader.pc = "upload" /\ uploader.removing = <<>>
           /\ g \in Seq(Clips) /\ g # <<>> /\ NoRepeats(g)
           /\ Range(g) # {} /\ Range(g) \subseteq Spooled /\ Range(g) \subseteq Clips
  <1>1. g \in uploader.groups /\ uploader.pc = "upload" /\ uploader.removing = <<>>
    BY DEF InHand
  <1>2. g \in Seq(Clips) /\ g # <<>> /\ NoRepeats(g) /\ Range(g) \subseteq Spooled
    BY <1>1 DEF SpoolInv, Daemons, TypeOK, GroupsInv
  <1> QED
    BY <1>1, <1>2, NoFiles

LEMMA DoneIs ==
    ASSUME SpoolInv, NEW g, InHand(g), NEW reason \in Reasons, Done(g, reason)
    PROVE  /\ uploader' \in Daemons /\ uploader'.pc = "upload"
           /\ uploader'.groups = uploader.groups \ {g} /\ uploader'.removing = g
           /\ uploader'.reason = reason /\ uploader'.aged = uploader.aged
  <1>1. uploader \in Daemons /\ g \in Seq(Clips) /\ uploader.pc = "upload"
    BY GroupInHand DEF SpoolInv
  <1>2. uploader' = [pc |-> uploader.pc, aged |-> uploader.aged,
                     groups |-> uploader.groups \ {g}, removing |-> g, reason |-> reason]
    BY <1>1 DEF Done, Daemons
  <1> QED
    BY <1>1, <1>2 DEF Daemons

\* The files of a group that is done are removed for a reason.
LEMMA DoneStep ==
    ASSUME SpoolInv, NEW g, InHand(g), NEW reason \in Reasons, Done(g, reason),
           UNCHANGED <<spool, stable, failures, troubles>>,
           bucket \subseteq bucket', \A x \in bucket' \ bucket : x = Range(g),
           \A c \in Range(g) : Justified(c, reason, Recorded, bucket'),
           SentInv'
    PROVE  SpoolInv'
  <1>1. /\ uploader' \in Daemons /\ uploader'.pc = "upload"
        /\ uploader'.groups = uploader.groups \ {g} /\ uploader'.removing = g
        /\ uploader'.reason = reason /\ uploader'.aged = uploader.aged
    BY DoneIs
  <1>2. /\ g \in uploader.groups /\ NoRepeats(g)
        /\ Range(g) # {} /\ Range(g) \subseteq Spooled /\ Range(g) \subseteq Clips
    BY GroupInHand
  <1>3. Spooled' = Spooled /\ Recorded' = Recorded
    BY DEF Spooled, Recorded
  <1>4. TypeOK'
    <2>1. \A object \in bucket' : object # {} /\ object \subseteq Clips
      BY <1>2 DEF SpoolInv, TypeOK
    <2> QED
      BY <1>1, <1>2, <1>3, <2>1 DEF SpoolInv, TypeOK
  <1>5. GroupsInv'
    BY <1>1, <1>2 DEF SpoolInv, GroupsInv
  <1>6. RemovingInv'
    BY <1>1, <1>2, <1>3 DEF RemovingInv, Justified
  <1>7. NothingLost'
    <2>1. ASSUME NEW c \in Clips PROVE Justified(c, spool[c], Recorded, bucket')
      <3>1. Justified(c, spool[c], Recorded, bucket)
        BY LostIsUnjustified DEF SpoolInv
      <3> QED
        BY <3>1, SpoolSets, JustifiedGrows
    <2> QED
      BY <1>3, <2>1 DEF NothingLost, Justified
  <1>8. GroupsAreRight'
    BY <1>1 DEF GroupsAreRight
  <1> QED
    BY <1>1, <1>4, <1>5, <1>6, <1>7, <1>8 DEF SpoolInv

LEMMA DiscardShortStep ==
    ASSUME SpoolInv, NEW g, DiscardShort(g)
    PROVE  SpoolInv'
  <1>1. InHand(g) /\ IsShort(g) /\ Done(g, "short") /\ "short" \in Reasons
        /\ UNCHANGED <<spool, stable, bucket, failures, troubles>>
    BY DEF DiscardShort, Reasons
  <1>2. \A c \in Range(g) : Justified(c, "short", Recorded, bucket)
    BY <1>1 DEF InHand, SpoolInv, GroupsInv, Justified
  <1>3. SentInv'
    <2>1. \A c \in Range(uploader.removing) : FALSE
      BY <1>1, NoFiles DEF InHand
    <2> QED
      BY <1>1, <2>1 DEF SpoolInv, SentInv, NoDuplicateAudio
  <1> QED
    BY <1>1, <1>2, <1>3, DoneStep

LEMMA QuarantineStep ==
    ASSUME SpoolInv, NEW g, Quarantine(g)
    PROVE  SpoolInv'
  <1>1. InHand(g) /\ Done(g, "failed") /\ "failed" \in Reasons
        /\ UNCHANGED <<spool, stable, bucket, failures, troubles>>
    BY DEF Quarantine, Reasons
  <1>2. \A c \in Range(g) : Justified(c, "failed", Recorded, bucket)
    BY DEF Justified
  <1>3. SentInv'
    <2>1. \A c \in Range(uploader.removing) : FALSE
      BY <1>1, NoFiles DEF InHand
    <2> QED
      BY <1>1, <2>1 DEF SpoolInv, SentInv, NoDuplicateAudio
  <1> QED
    BY <1>1, <1>2, <1>3, DoneStep

LEMMA UploadStep ==
    ASSUME SpoolInv, NEW g, Upload(g)
    PROVE  SpoolInv'
  <1>1. InHand(g) /\ Done(g, "sent") /\ "sent" \in Reasons
        /\ bucket' = bucket \cup {Range(g)}
        /\ UNCHANGED <<spool, stable, failures, troubles>>
    BY DEF Upload, Reasons
  <1>2. \A c \in Range(g) : Justified(c, "sent", Recorded, bucket')
    BY <1>1 DEF Justified
  <1>3. SentInv'
    <2> SUFFICES ASSUME troubles = 0
                 PROVE  /\ NoDuplicateAudio'
                        /\ \A c \in UNION bucket' :
                              \/ spool[c] = "sent"
                              \/ c \in Range(uploader'.removing) /\ uploader'.reason = "sent"
      BY <1>1 DEF SentInv
    <2>1. uploader'.removing = g /\ uploader'.reason = "sent"
      BY <1>1, DoneIs
    <2>2. uploader.removing = <<>> /\ Range(g) \subseteq Spooled
      BY <1>1, GroupInHand
    <2>3. \A c \in UNION bucket : spool[c] = "sent"
      BY <2>2, NoFiles DEF SpoolInv, SentInv
    <2>4. \A x \in bucket : x \cap Range(g) = {}
      BY <2>2, <2>3 DEF Spooled
    <2>5. NoDuplicateAudio'
      BY <1>1, <2>4 DEF SpoolInv, SentInv, NoDuplicateAudio
    <2> QED
      BY <1>1, <2>1, <2>3, <2>5
  <1> QED
    BY <1>1, <1>2, <1>3, DoneStep

\* The files of a group stay in the spool, whatever became of the upload.
LEMMA KeptStep ==
    ASSUME SpoolInv, NEW g, InHand(g), Kept(g), UNCHANGED <<spool, stable>>,
           failures' \in 0 .. MaxFailures, troubles' \in 0 .. MaxTroubles,
           bucket \subseteq bucket', \A x \in bucket' \ bucket : x = Range(g),
           bucket' # bucket => troubles' # 0, troubles' = 0 => troubles = 0
    PROVE  SpoolInv'
  <1>1. /\ uploader' \in Daemons /\ uploader'.pc = "upload"
        /\ uploader'.groups = uploader.groups \ {g} /\ uploader'.removing = uploader.removing
        /\ uploader'.reason = uploader.reason /\ uploader'.aged = uploader.aged
    <2>1. uploader' = [pc |-> uploader.pc, aged |-> uploader.aged,
                       groups |-> uploader.groups \ {g}, removing |-> uploader.removing,
                       reason |-> uploader.reason]
      BY DEF SpoolInv, Kept, Daemons
    <2> QED
      BY <2>1, GroupInHand DEF SpoolInv, Daemons
  <1>2. /\ g \in uploader.groups /\ Range(g) # {} /\ Range(g) \subseteq Clips
        /\ uploader.removing = <<>>
    BY GroupInHand
  <1>3. Spooled' = Spooled /\ Recorded' = Recorded
    BY DEF Spooled, Recorded
  <1>4. TypeOK'
    <2>1. \A object \in bucket' : object # {} /\ object \subseteq Clips
      BY <1>2 DEF SpoolInv, TypeOK
    <2> QED
      BY <1>1, <1>3, <2>1 DEF SpoolInv, TypeOK
  <1>5. GroupsInv'
    BY <1>1 DEF SpoolInv, GroupsInv
  <1>6. RemovingInv'
    BY <1>1, <1>2, NoFiles DEF RemovingInv
  <1>7. NothingLost'
    <2>1. ASSUME NEW c \in Clips PROVE Justified(c, spool[c], Recorded, bucket')
      <3>1. Justified(c, spool[c], Recorded, bucket)
        BY LostIsUnjustified DEF SpoolInv
      <3> QED
        BY <3>1, SpoolSets, JustifiedGrows
    <2> QED
      BY <1>3, <2>1 DEF NothingLost, Justified
  <1>8. GroupsAreRight' /\ SentInv'
    BY <1>1 DEF GroupsAreRight, SpoolInv, SentInv, NoDuplicateAudio
  <1> QED
    BY <1>1, <1>4, <1>5, <1>6, <1>7, <1>8 DEF SpoolInv

LEMMA UploadFailsStep ==
    ASSUME SpoolInv, NEW g, UploadFails(g)
    PROVE  SpoolInv'
  <1>1. failures' \in 0 .. MaxFailures /\ troubles \in 0 .. MaxTroubles
    BY SpoolAssumption DEF UploadFails, SpoolInv, TypeOK
  <1> QED
    BY <1>1, KeptStep DEF UploadFails

LEMMA UploadUnansweredStep ==
    ASSUME SpoolInv, NEW g, UploadUnanswered(g)
    PROVE  SpoolInv'
  <1>1. /\ failures \in 0 .. MaxFailures
        /\ troubles' \in 0 .. MaxTroubles /\ troubles' # 0
    BY SpoolAssumption DEF UploadUnanswered, SpoolInv, TypeOK
  <1> QED
    BY <1>1, KeptStep DEF UploadUnanswered

\* What is left to remove once the first file is gone.
LEMMA FirstIsGone ==
    ASSUME NEW s \in Seq(Clips), s # <<>>, NoRepeats(s)
    PROVE  /\ Head(s) \in Range(s) /\ Tail(s) \in Seq(Clips)
           /\ Range(Tail(s)) = Range(s) \ {Head(s)} /\ NoRepeats(Tail(s))
  <1> DEFINE t == Tail(s)
             n == Len(s)
  <1>1. n \in Nat \ {0} /\ DOMAIN s = 1 .. n /\ Head(s) = s[1]
    BY EmptySeq
  <1>2. t \in Seq(Clips) /\ Len(t) = n - 1 /\ \A i \in 1 .. n - 1 : t[i] = s[i + 1]
    BY HeadTailProperties
  <1>3. DOMAIN t = 1 .. n - 1
    BY <1>2
  <1> HIDE DEF t, n
  <1>4. \A i \in 1 .. n - 1 : i + 1 \in 1 .. n
    BY <1>1
  <1>5. \A i \in 1 .. n : i # 1 => i - 1 \in 1 .. n - 1 /\ (i - 1) + 1 = i
    BY <1>1
  <1>6. \A i, j \in 1 .. n : i # j => s[i] # s[j]
    BY <1>1 DEF NoRepeats
  <1>7. Range(t) = Range(s) \ {Head(s)}
    <2>1. ASSUME NEW i \in 1 .. n - 1 PROVE t[i] \in Range(s) \ {Head(s)}
      <3>1. i + 1 \in 1 .. n /\ i + 1 # 1 /\ 1 \in 1 .. n
        BY <1>1, <1>4
      <3> QED
        BY <1>1, <1>2, <1>6, <3>1, SMTT(30) DEF Range
    <2>2. ASSUME NEW i \in 1 .. n, s[i] # s[1] PROVE s[i] \in Range(t)
      <3>1. i # 1
        BY <2>2
      <3>2. i - 1 \in 1 .. n - 1 /\ t[i - 1] = s[i]
        BY <1>2, <1>5, <3>1
      <3> QED
        BY <1>3, <3>2 DEF Range
    <2> QED
      BY <1>1, <1>3, <2>1, <2>2 DEF Range
  <1>8. NoRepeats(t)
    <2>1. \A i, j \in 1 .. n - 1 : i # j => i + 1 # j + 1
      BY <1>1
    <2> QED
      BY <1>2, <1>3, <1>4, <1>6, <2>1 DEF NoRepeats
  <1>9. Head(s) \in Range(s)
    <2>1. 1 \in 1 .. n
      BY <1>1
    <2> QED
      BY <1>1, <2>1 DEF Range
  <1> QED
    BY <1>2, <1>7, <1>8, <1>9 DEF t

LEMMA RemoveFileStep == ASSUME SpoolInv, RemoveFile PROVE SpoolInv'
  <1> DEFINE c == Head(uploader.removing)
  <1>1. /\ c \in Range(uploader.removing) /\ Tail(uploader.removing) \in Seq(Clips)
        /\ Range(Tail(uploader.removing)) = Range(uploader.removing) \ {c}
        /\ NoRepeats(Tail(uploader.removing))
    BY FirstIsGone DEF RemoveFile, SpoolInv, Daemons, RemovingInv
  <1>2. /\ uploader' \in Daemons /\ uploader'.pc = uploader.pc
        /\ uploader'.groups = uploader.groups
        /\ uploader'.removing = Tail(uploader.removing)
        /\ uploader'.reason = uploader.reason /\ uploader'.aged = uploader.aged
    <2>1. uploader' = [pc |-> uploader.pc, aged |-> uploader.aged,
                       groups |-> uploader.groups, removing |-> Tail(uploader.removing),
                       reason |-> uploader.reason]
      BY DEF SpoolInv, RemoveFile, Daemons
    <2> QED
      BY <1>1, <2>1 DEF SpoolInv, Daemons
  <1>3. c \in Clips /\ spool[c] = "spooled" /\ uploader.reason \in Reasons
    BY <1>1 DEF SpoolInv, TypeOK, Spooled
  <1> HIDE DEF c
  <1>4. /\ spool' \in [Clips -> Fates]
        /\ \A d \in Clips : spool'[d] = IF d = c THEN uploader.reason ELSE spool[d]
    BY <1>3 DEF RemoveFile, c, SpoolInv, TypeOK, Fates
  <1>5. Spooled' = Spooled \ {c} /\ Recorded' = Recorded
    BY <1>3, <1>4 DEF Spooled, Recorded, Reasons
  <1>6. UNCHANGED <<stable, bucket, failures, troubles>>
    BY DEF RemoveFile
  <1>7. TypeOK'
    <2>1. \A g \in uploader.groups : c \notin Range(g)
      BY <1>1 DEF SpoolInv, GroupsInv
    <2> QED
      BY <1>1, <1>2, <1>4, <1>5, <1>6, <2>1 DEF SpoolInv, TypeOK, Fates
  <1>8. GroupsInv' /\ GroupsAreRight'
    BY <1>1, <1>2 DEF SpoolInv, GroupsInv, GroupsAreRight
  <1>9. RemovingInv'
    <2>1. uploader'.pc \notin {"idle", "discover"}
      BY <1>2 DEF SpoolInv, RemovingInv, RemoveFile
    <2> QED
      BY <1>1, <1>2, <1>5, <1>6, <2>1 DEF SpoolInv, RemovingInv, Justified
  <1>10. NothingLost'
    <2>1. Justified(c, uploader.reason, Recorded, bucket)
      BY <1>1 DEF SpoolInv, RemovingInv
    <2>2. \A d \in Clips : Justified(d, spool[d], Recorded, bucket)
      BY LostIsUnjustified DEF SpoolInv
    <2>3. \A d \in Clips : Justified(d, spool'[d], Recorded, bucket)
      BY <1>4, <2>1, <2>2
    <2> QED
      BY <1>5, <1>6, <2>3 DEF NothingLost, Justified
  <1>11. SentInv'
    <2>1. \A d \in UNION bucket : d \in Clips
      BY DEF SpoolInv, TypeOK
    <2> QED
      BY <1>1, <1>2, <1>3, <1>4, <1>6, <2>1 DEF SpoolInv, SentInv, NoDuplicateAudio
  <1> QED
    BY <1>2, <1>7, <1>8, <1>9, <1>10, <1>11 DEF SpoolInv

LEMMA HoldStep == ASSUME SpoolInv, Hold PROVE SpoolInv'
  <1>1. /\ uploader' \in Daemons /\ uploader'.pc = "upload"
        /\ uploader'.groups \subseteq uploader.groups
        /\ uploader'.removing = uploader.removing
        /\ uploader'.reason = uploader.reason /\ uploader'.aged = uploader.aged
    <2>1. uploader' = [pc |-> "upload", aged |-> uploader.aged,
                       groups |-> {g \in uploader.groups : ~Held(g)},
                       removing |-> uploader.removing, reason |-> uploader.reason]
      BY DEF SpoolInv, Hold, Daemons
    <2> QED
      BY <2>1 DEF SpoolInv, Daemons
  <1>2. UNCHANGED <<spool, stable, bucket, failures, troubles>>
    BY DEF Hold
  <1>3. Spooled' = Spooled /\ Recorded' = Recorded
    BY <1>2 DEF Spooled, Recorded
  <1>4. TypeOK'
    BY <1>1, <1>2, <1>3 DEF SpoolInv, TypeOK
  <1>5. GroupsInv' /\ GroupsAreRight'
    BY <1>1 DEF SpoolInv, GroupsInv, GroupsAreRight
  <1>6. RemovingInv' /\ NothingLost'
    BY <1>1, <1>2, <1>3 DEF SpoolInv, RemovingInv, Justified, NothingLost
  <1>7. SentInv'
    BY <1>1, <1>2 DEF SpoolInv, SentInv, NoDuplicateAudio
  <1> QED
    BY <1>1, <1>4, <1>5, <1>6, <1>7 DEF SpoolInv

\* What is pruned had enough newer recordings when it went.
LEMMA PrunedIsJustified ==
    ASSUME NEW aged \in SUBSET Recorded, NEW c \in Pruned(aged)
    PROVE  Justified(c, "pruned", Recorded, bucket)
  <1> DEFINE whole == aged \ Empty
             newer == {d \in whole : Earlier(c, d)}
             known == {d \in Recorded : Earlier(c, d)}
  <1>1. c \in whole /\ ~(Cardinality(newer) < MaxRetained)
    BY DEF Pruned, Newest
  <1>2. newer \subseteq known /\ known \in SUBSET Clips
    BY SpoolSets
  <1> HIDE DEF newer, known
  <1>3. IsFiniteSet(known)
    BY <1>2, FiniteClips
  <1>4. /\ Cardinality(newer) <= Cardinality(known)
        /\ Cardinality(newer) \in Nat /\ Cardinality(known) \in Nat
    BY <1>2, <1>3, FS_Subset, FS_CardinalityType
  <1>5. Cardinality(known) >= MaxRetained
    BY <1>1, <1>4, SpoolAssumption
  <1> QED
    BY <1>5 DEF Justified, known

LEMMA SweepStep == ASSUME SpoolInv, Sweep PROVE SpoolInv'
  <1> DEFINE aged == stable \cap Spooled
  <1>1. /\ aged \subseteq Spooled /\ aged \subseteq stable /\ aged \in SUBSET Recorded
        /\ aged \subseteq Clips
    BY SpoolSets
  <1>2. /\ uploader.pc = "idle"
        /\ spool' = [c \in Clips |-> IF c \in Quarantined(aged) THEN "failed"
                                     ELSE IF c \in Pruned(aged) THEN "pruned"
                                     ELSE spool[c]]
        /\ uploader' = [Idle EXCEPT !.pc = "discover", !.aged = aged]
        /\ UNCHANGED <<stable, bucket, failures, troubles>>
    BY DEF Sweep
  <1>3. Quarantined(aged) \subseteq aged /\ Pruned(aged) \subseteq aged
    BY DEF Quarantined, Pruned
  <1> HIDE DEF aged
  <1>4. /\ uploader' \in Daemons /\ uploader'.pc = "discover" /\ uploader'.aged = aged
        /\ uploader'.groups = {} /\ uploader'.removing = <<>> /\ uploader'.reason \in Reasons
    BY <1>1, <1>2, NoFiles DEF Idle, Daemons, Reasons
  <1>5. /\ spool' \in [Clips -> Fates]
        /\ \A c \in Clips : spool'[c] = spool[c] \/ c \in aged
    BY <1>2, <1>3 DEF SpoolInv, TypeOK, Fates, Reasons
  <1>6. Recorded' = Recorded
    <2>1. \A c \in Clips : spool'[c] # "unrecorded" <=> spool[c] # "unrecorded"
      BY <1>1, <1>2, <1>3 DEF Spooled
    <2> QED
      BY <2>1 DEF Recorded
  <1>7. TypeOK'
    BY <1>1, <1>2, <1>4, <1>5, NoFiles DEF SpoolInv, TypeOK, Fates
  <1>8. GroupsInv' /\ RemovingInv' /\ GroupsAreRight'
    BY <1>4, NoFiles DEF GroupsInv, RemovingInv, GroupsAreRight
  <1>9. NothingLost'
    <2>1. ASSUME NEW c \in Clips PROVE Justified(c, spool'[c], Recorded, bucket)
      <3>1. CASE c \in Quarantined(aged)
        BY <1>2, <3>1 DEF Justified
      <3>2. CASE c \notin Quarantined(aged) /\ c \in Pruned(aged)
        <4>1. Justified(c, "pruned", Recorded, bucket)
          BY <1>1, <3>2, PrunedIsJustified
        <4> QED
          BY <1>2, <3>2, <4>1
      <3>3. CASE c \notin Quarantined(aged) /\ c \notin Pruned(aged)
        BY <1>2, <3>3, LostIsUnjustified DEF SpoolInv
      <3> QED
        BY <3>1, <3>2, <3>3
    <2> QED
      BY <1>2, <1>6, <2>1 DEF NothingLost, Justified
  <1>10. SentInv'
    <2> SUFFICES ASSUME troubles = 0
                 PROVE  NoDuplicateAudio /\ \A c \in UNION bucket : spool'[c] = "sent"
      BY <1>2 DEF SentInv, NoDuplicateAudio
    <2>1. uploader.removing = <<>>
      BY <1>2 DEF SpoolInv, RemovingInv
    <2>2. \A c \in UNION bucket : c \in Clips /\ spool[c] = "sent"
      BY <2>1, NoFiles DEF SpoolInv, SentInv, TypeOK
    <2> QED
      BY <1>1, <1>5, <2>2 DEF SpoolInv, SentInv, Spooled
  <1> QED
    BY <1>4, <1>7, <1>8, <1>9, <1>10 DEF SpoolInv

LEMMA ReverseKeeps ==
    ASSUME NEW S \in SUBSET Clips
    PROVE  /\ Reverse(ByStart(S)) \in Seq(Clips) /\ Range(Reverse(ByStart(S))) = S
           /\ NoRepeats(Reverse(ByStart(S)))
  <1> DEFINE s == ByStart(S)
             n == Len(s)
             r == Reverse(s)
  <1>1. s \in Seq(S) /\ n \in Nat /\ DOMAIN s = 1 .. n /\ Range(s) = S /\ Ascending(s)
    BY ByStartSorts
  <1>2. \A i \in 1 .. n : s[i] \in S
    BY <1>1 DEF Range
  <1>3. DOMAIN r = 1 .. n /\ \A i \in 1 .. n : r[i] = s[(n - i) + 1]
    BY DEF Reverse
  <1>4. r = [i \in 1 .. n |-> s[(n - i) + 1]]
    BY DEF Reverse
  <1> HIDE DEF s, r, n
  <1>5. \A i \in 1 .. n : (n - i) + 1 \in 1 .. n /\ (n - ((n - i) + 1)) + 1 = i
    BY <1>1
  <1>6. r \in [1 .. n -> Clips]
    BY <1>2, <1>4, <1>5
  <1>7. r \in Seq(Clips)
    BY <1>1, <1>6
  <1>8. Range(r) = S
    <2>1. \A i \in 1 .. n : r[i] \in S
      BY <1>2, <1>3, <1>5
    <2>2. \A i \in 1 .. n : r[(n - i) + 1] = s[i]
      BY <1>3, <1>5
    <2>3. \A c \in S : \E i \in 1 .. n : s[i] = c
      BY <1>1 DEF Range
    <2>4. \A c \in S : c \in Range(r)
      BY <1>3, <1>5, <2>2, <2>3 DEF Range
    <2> QED
      BY <1>3, <2>1, <2>4 DEF Range
  <1>9. NoRepeats(r)
    <2>1. ASSUME NEW i \in 1 .. n, NEW j \in 1 .. n, i < j
          PROVE  s[i] # s[j]
      <3>1. Earlier(s[i], s[j]) /\ s[i] \in Clips
        BY <1>1, <1>2, <2>1 DEF Ascending
      <3> QED
        BY <3>1, OrderIsStrict
    <2>2. \A i, j \in 1 .. n : i # j => s[i] # s[j]
      BY <1>1, <2>1
    <2>3. \A i, j \in 1 .. n : i # j => (n - i) + 1 # (n - j) + 1
      BY <1>1
    <2> QED
      BY <1>3, <1>5, <2>2, <2>3 DEF NoRepeats
  <1> QED
    BY <1>7, <1>8, <1>9 DEF r, s

LEMMA DiscoverStep == ASSUME SpoolInv, Discover PROVE SpoolInv'
  <1> DEFINE found == Discovered
             burst == Burst(found)
             kept  == found \ burst
             files == Reverse(ByStart(burst))
  <1>1. found \subseteq Spooled /\ burst \subseteq found
    BY DEF Discovered, Newest, Burst
  <1>2. /\ uploader.pc = "discover"
        /\ uploader' = [uploader EXCEPT !.pc = "hold", !.groups = Groups(kept),
                                        !.removing = files, !.reason = "burst"]
        /\ UNCHANGED <<spool, stable, bucket, failures, troubles>>
    BY DEF Discover
  <1>3. uploader' = [pc |-> "hold", aged |-> uploader.aged, groups |-> Groups(kept),
                     removing |-> files, reason |-> "burst"]
    BY <1>2 DEF SpoolInv, Daemons
  <1> HIDE DEF found
  <1>4. burst \in SUBSET Clips /\ kept \in SUBSET Clips /\ kept \cap burst = {}
        /\ burst \subseteq Spooled /\ kept \subseteq Spooled
    BY <1>1 DEF Spooled
  <1>5. burst \subseteq Burst(Recorded)
    BY <1>1, SpoolSets, BurstGrows
  <1> HIDE DEF burst
  <1>6. files \in Seq(Clips) /\ Range(files) = burst /\ NoRepeats(files)
    BY <1>4, ReverseKeeps
  <1>7. GroupsAre(kept, kept, Groups(kept)) /\ IsGrouping(kept, Groups(kept))
    BY <1>4, GroupsAreRightOnes, MergeIsRight
  <1>8. /\ \A g \in Groups(kept) : g \in Seq(kept) /\ g # <<>> /\ NoRepeats(g)
        /\ \A g \in Groups(kept) : Range(g) \subseteq kept
        /\ \A g \in Groups(kept) : IsShort(g) => \A c \in Range(g) : IsShort(<<c>>)
        /\ \A c \in kept : \E g \in Groups(kept) : c \in Range(g)
        /\ \A g, h \in Groups(kept) : \A c \in Range(g) : c \in Range(h) => g = h
    BY <1>7 DEF GroupsAre, GroupIsRight, NoRepeats
  <1> HIDE DEF kept, files
  <1>9. \A g \in Groups(kept) : g \in Seq(Clips)
    BY <1>4, <1>8, SeqMonotonic
  <1>10. uploader' \in Daemons
    BY <1>3, <1>6, <1>9 DEF SpoolInv, Daemons, Reasons
  <1>11. Spooled' = Spooled /\ Recorded' = Recorded
    BY <1>2 DEF Spooled, Recorded
  <1>12. TypeOK'
    BY <1>2, <1>3, <1>4, <1>6, <1>8, <1>11 DEF SpoolInv, TypeOK, Reasons
  <1>13. GroupsInv'
    <2>1. \A g \in Groups(kept) : \A c \in Range(g) : c \notin burst
      BY <1>4, <1>8
    <2> QED
      BY <1>3, <1>6, <1>8, <2>1 DEF GroupsInv
  <1>14. RemovingInv'
    BY <1>3, <1>5, <1>6, <1>11 DEF RemovingInv, Justified
  <1>15. NothingLost'
    BY <1>2, <1>11 DEF SpoolInv, NothingLost
  <1>16. GroupsAreRight'
    <2>1. kept = UNION {Range(g) : g \in Groups(kept)}
      BY <1>8
    <2> QED
      BY <1>3, <1>7, <2>1 DEF GroupsAreRight
  <1>17. SentInv'
    <2> SUFFICES ASSUME troubles = 0
                 PROVE  NoDuplicateAudio /\ \A c \in UNION bucket : spool[c] = "sent"
      BY <1>2 DEF SentInv, NoDuplicateAudio
    <2>1. uploader.removing = <<>>
      BY <1>2 DEF SpoolInv, RemovingInv
    <2> QED
      BY <2>1, NoFiles DEF SpoolInv, SentInv
  <1> QED
    BY <1>10, <1>12, <1>13, <1>14, <1>15, <1>16, <1>17 DEF SpoolInv

LEMMA SpoolInvStep == SpoolInv /\ [Next]_vars => SpoolInv'
  <1> SUFFICES ASSUME SpoolInv, [Next]_vars PROVE SpoolInv'
    OBVIOUS
  <1>1. ASSUME NEW c \in Clips, Record(c) \/ Age(c) PROVE SpoolInv'
    BY <1>1, RecordStep, AgeStep
  <1>2. CASE Sweep
    BY <1>2, SweepStep
  <1>3. CASE Discover
    BY <1>3, DiscoverStep
  <1>4. CASE RemoveFile
    BY <1>4, RemoveFileStep
  <1>5. CASE Hold
    BY <1>5, HoldStep
  <1>6. CASE Finish
    BY <1>6, FinishStep
  <1>7. ASSUME NEW g \in uploader.groups, Settle(g) PROVE SpoolInv'
    BY <1>7, DiscardShortStep, QuarantineStep, UploadStep, UploadFailsStep,
       UploadUnansweredStep DEF Settle
  <1>8. CASE Crash
    BY <1>8, CrashStep
  <1>9. CASE UNCHANGED vars
    <2>1. TypeOK' /\ (uploader \in Daemons)' /\ GroupsInv' /\ GroupsAreRight'
      BY <1>9 DEF vars, SpoolInv, TypeOK, Spooled, Daemons, GroupsInv, GroupsAreRight
    <2>2. Recorded' = Recorded
      BY <1>9 DEF vars, Recorded
    <2>3. RemovingInv' /\ NothingLost'
      BY <1>9, <2>2 DEF vars, SpoolInv, RemovingInv, Justified, NothingLost
    <2>4. SentInv'
      BY <1>9 DEF vars, SpoolInv, SentInv, NoDuplicateAudio
    <2> QED
      BY <2>1, <2>3, <2>4 DEF SpoolInv
  <1> QED
    BY <1>1, <1>2, <1>3, <1>4, <1>5, <1>6, <1>7, <1>8, <1>9 DEF Next, Step

\* Types, the reasons why recordings leave, the groups of a poll and what was sent,
\* together: no step of the receiver or the daemon, no failure and no crash breaks them.
THEOREM SpoolInvariant == Spec => []SpoolInv
  <1> QED
    BY InitInv, SpoolInvStep, PTL DEF Spec

\* Recordings leave the spool uploaded or for a reason the code gives, and the
\* groups of a poll are the merge the documentation describes: across crashes,
\* failed uploads and lost answers (drain_once).
THEOREM DeliveryRight == Spec => []DeliveryIsRight
  <1>1. SpoolInv => DeliveryIsRight
    BY DEF SpoolInv, DeliveryIsRight
  <1> QED
    BY SpoolInvariant, <1>1, PTL

\* Uploads that fail before the object lands are retried without making a
\* duplicate, whatever else is recorded in between and however it regroups.
THEOREM RetriesRight == Spec => []RetriesMakeNoDuplicate
  <1>1. SpoolInv => RetriesMakeNoDuplicate
    BY DEF SpoolInv, SentInv, RetriesMakeNoDuplicate
  <1> QED
    BY SpoolInvariant, <1>1, PTL
=============================================================================
