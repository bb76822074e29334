---------------------- MODULE TranscriptionQueue_proofs ----------------------
(***************************************************************************)
(* Proofs about the queue of uploaded clips, for any clips, channels and   *)
(* limits, and any number of presign requests, stars, crashes and failed   *)
(* requests.                                                               *)
(***************************************************************************)
EXTENDS TranscriptionQueue, FiniteSetTheorems, SequenceTheorems, TLAPS

-----------------------------------------------------------------------------
(* What a sequence of writes makes of the rows of a clip.                  *)

\* A row is there in the end if it is put and not deleted after that, or if it is
\* there now and never deleted.
AfterWrites(S, todo) ==
    {r \in RowNames :
        \/ \E i \in DOMAIN todo :
              /\ todo[i] = Put(r)
              /\ \A j \in DOMAIN todo : j > i => todo[j] # Del(r)
        \/ r \in S /\ \A i \in DOMAIN todo : todo[i] # Del(r)}

\* One request after the other.
LEMMA ConcatWrites ==
    ASSUME NEW S, NEW s \in Seq(Writes), NEW t \in Seq(Writes)
    PROVE  AfterWrites(S, s \o t) = AfterWrites(AfterWrites(S, s), t)
<1> DEFINE st == s \o t
<1>1. /\ st \in Seq(Writes)
      /\ Len(st) = Len(s) + Len(t)
      /\ \A i \in 1 .. Len(s) : st[i] = s[i]
      /\ \A i \in 1 .. Len(t) : st[Len(s) + i] = t[i]
      /\ DOMAIN st = 1 .. Len(st) /\ DOMAIN s = 1 .. Len(s) /\ DOMAIN t = 1 .. Len(t)
      /\ Len(s) \in Nat /\ Len(t) \in Nat
  OBVIOUS
<1> HIDE DEF st
<1>2. \A i \in 1 .. Len(st) : i \in 1 .. Len(s) \/ \E j \in 1 .. Len(t) : i = Len(s) + j
  <2> TAKE i \in 1 .. Len(st)
  <2>1. CASE i > Len(s)
    <3>1. i - Len(s) \in 1 .. Len(t) /\ i = Len(s) + (i - Len(s))
      BY <1>1, <2>1
    <3> QED
      BY <3>1
  <2> QED
    BY <1>1, <2>1
<1>3. ASSUME NEW r
      PROVE  (\A i \in 1 .. Len(st) : st[i] # Del(r))
               <=> /\ \A i \in 1 .. Len(s) : s[i] # Del(r)
                   /\ \A i \in 1 .. Len(t) : t[i] # Del(r)
  BY <1>1, <1>2
<1>4. ASSUME NEW r
      PROVE  (\E i \in 1 .. Len(st) :
                /\ st[i] = Put(r)
                /\ \A j \in 1 .. Len(st) : j > i => st[j] # Del(r))
               <=> \/ \E i \in 1 .. Len(t) :
                        /\ t[i] = Put(r)
                        /\ \A j \in 1 .. Len(t) : j > i => t[j] # Del(r)
                   \/ /\ \E i \in 1 .. Len(s) :
                           /\ s[i] = Put(r)
                           /\ \A j \in 1 .. Len(s) : j > i => s[j] # Del(r)
                      /\ \A i \in 1 .. Len(t) : t[i] # Del(r)
  <2>1. ASSUME NEW i \in 1 .. Len(st), st[i] = Put(r),
               \A j \in 1 .. Len(st) : j > i => st[j] # Del(r)
        PROVE  \/ \E k \in 1 .. Len(t) :
                        /\ t[k] = Put(r)
                        /\ \A j \in 1 .. Len(t) : j > k => t[j] # Del(r)
               \/ /\ \E k \in 1 .. Len(s) :
                           /\ s[k] = Put(r)
                           /\ \A j \in 1 .. Len(s) : j > k => s[j] # Del(r)
                  /\ \A k \in 1 .. Len(t) : t[k] # Del(r)
    <3>1. CASE i \in 1 .. Len(s)
      <4>1. \A j \in 1 .. Len(s) : j > i => s[j] # Del(r)
        BY <1>1, <2>1
      <4>2. \A k \in 1 .. Len(t) : t[k] # Del(r)
        <5> TAKE k \in 1 .. Len(t)
        <5>1. Len(s) + k \in 1 .. Len(st) /\ Len(s) + k > i /\ st[Len(s) + k] = t[k]
          BY <1>1, <3>1
        <5> QED
          BY <2>1, <5>1
      <4> QED
        BY <1>1, <2>1, <3>1, <4>1, <4>2
    <3>2. ASSUME NEW k \in 1 .. Len(t), i = Len(s) + k
          PROVE  t[k] = Put(r) /\ \A j \in 1 .. Len(t) : j > k => t[j] # Del(r)
      <4>1. t[k] = Put(r)
        BY <1>1, <2>1, <3>2
      <4>2. ASSUME NEW j \in 1 .. Len(t), j > k PROVE t[j] # Del(r)
        <5>1. Len(s) + j \in 1 .. Len(st) /\ Len(s) + j > i /\ st[Len(s) + j] = t[j]
          BY <1>1, <3>2, <4>2
        <5> QED
          BY <2>1, <5>1
      <4> QED
        BY <4>1, <4>2
    <3> QED
      BY <1>2, <3>1, <3>2
  <2>2. ASSUME NEW k \in 1 .. Len(t), t[k] = Put(r),
               \A j \in 1 .. Len(t) : j > k => t[j] # Del(r)
        PROVE  \E i \in 1 .. Len(st) :
                /\ st[i] = Put(r)
                /\ \A j \in 1 .. Len(st) : j > i => st[j] # Del(r)
    <3>1. Len(s) + k \in 1 .. Len(st) /\ st[Len(s) + k] = Put(r)
      BY <1>1, <2>2
    <3>2. ASSUME NEW j \in 1 .. Len(st), j > Len(s) + k PROVE st[j] # Del(r)
      <4>1. j - Len(s) \in 1 .. Len(t) /\ j - Len(s) > k /\ j = Len(s) + (j - Len(s))
        BY <1>1, <3>2
      <4> QED
        BY <1>1, <2>2, <4>1
    <3> QED
      BY <3>1, <3>2
  <2>3. ASSUME NEW k \in 1 .. Len(s), s[k] = Put(r),
               \A j \in 1 .. Len(s) : j > k => s[j] # Del(r),
               \A j \in 1 .. Len(t) : t[j] # Del(r)
        PROVE  \E i \in 1 .. Len(st) :
                /\ st[i] = Put(r)
                /\ \A j \in 1 .. Len(st) : j > i => st[j] # Del(r)
    <3>1. k \in 1 .. Len(st) /\ st[k] = Put(r)
      BY <1>1, <2>3
    <3>2. ASSUME NEW j \in 1 .. Len(st), j > k PROVE st[j] # Del(r)
      BY <1>1, <1>2, <2>3, <3>2, ZenonT(60)
    <3> QED
      BY <3>1, <3>2
  <2> QED
    BY <2>1, <2>2, <2>3
<1>5. ASSUME NEW r \in RowNames
      PROVE  r \in AfterWrites(S, st) <=> r \in AfterWrites(AfterWrites(S, s), t)
  <2>1. DOMAIN st = 1 .. Len(st) /\ DOMAIN s = 1 .. Len(s) /\ DOMAIN t = 1 .. Len(t)
    BY <1>1
  <2>2. ASSUME NEW T, NEW u, NEW n, DOMAIN u = 1 .. n
        PROVE  r \in AfterWrites(T, u)
                 <=> \/ \E i \in 1 .. n :
                           /\ u[i] = Put(r)
                           /\ \A j \in 1 .. n : j > i => u[j] # Del(r)
                     \/ r \in T /\ \A i \in 1 .. n : u[i] # Del(r)
    BY <2>2, Zenon DEF AfterWrites
  <2> HIDE DEF AfterWrites
  <2>3. r \in AfterWrites(S, st)
          <=> \/ \E i \in 1 .. Len(st) :
                    /\ st[i] = Put(r)
                    /\ \A j \in 1 .. Len(st) : j > i => st[j] # Del(r)
              \/ r \in S /\ \A i \in 1 .. Len(st) : st[i] # Del(r)
    BY <2>1, <2>2, Zenon
  <2>4. r \in AfterWrites(S, s)
          <=> \/ \E i \in 1 .. Len(s) :
                    /\ s[i] = Put(r)
                    /\ \A j \in 1 .. Len(s) : j > i => s[j] # Del(r)
              \/ r \in S /\ \A i \in 1 .. Len(s) : s[i] # Del(r)
    BY <2>1, <2>2, Zenon
  <2>5. r \in AfterWrites(AfterWrites(S, s), t)
          <=> \/ \E i \in 1 .. Len(t) :
                    /\ t[i] = Put(r)
                    /\ \A j \in 1 .. Len(t) : j > i => t[j] # Del(r)
              \/ r \in AfterWrites(S, s) /\ \A i \in 1 .. Len(t) : t[i] # Del(r)
    BY <2>1, <2>2, Zenon
  <2> QED
    BY <2>3, <2>4, <2>5, <1>3, <1>4, Zenon
<1>6. AfterWrites(S, st) = AfterWrites(AfterWrites(S, s), t)
  BY <1>5 DEF AfterWrites
<1> QED
  BY <1>6 DEF st

LEMMA NoWritesLeft ==
    ASSUME NEW S \in SUBSET RowNames PROVE AfterWrites(S, <<>>) = S
  BY DEF AfterWrites

LEMMA OneWrite ==
    ASSUME NEW S \in SUBSET RowNames, NEW r \in RowNames
    PROVE  /\ AfterWrites(S, <<Put(r)>>) = S \cup {r}
           /\ AfterWrites(S, <<Del(r)>>) = S \ {r}
           /\ AfterWrites(S, <<PutItem>>) = S
           /\ AfterWrites(S, <<RecordEvent>>) = S
           /\ {Put(r), Del(r), PutItem, RecordEvent} \subseteq Writes
<1>1. \A x, y : /\ Put(x) = Put(y) <=> x = y
                /\ Del(x) = Del(y) <=> x = y
                /\ Put(x) # Del(y)
                /\ PutItem # Del(x) /\ PutItem # Put(x)
                /\ RecordEvent # Del(x) /\ RecordEvent # Put(x)
  BY DEF Put, Del, PutItem, RecordEvent
<1>2. \A w : DOMAIN <<w>> = {1} /\ <<w>>[1] = w
  OBVIOUS
<1>3. AfterWrites(S, <<Put(r)>>) = S \cup {r}
  BY <1>1, <1>2 DEF AfterWrites
<1>4. AfterWrites(S, <<Del(r)>>) = S \ {r}
  BY <1>1, <1>2 DEF AfterWrites
<1>5. AfterWrites(S, <<PutItem>>) = S /\ AfterWrites(S, <<RecordEvent>>) = S
  BY <1>1, <1>2 DEF AfterWrites
<1> QED
  BY <1>3, <1>4, <1>5 DEF Writes

LEMMA AfterWritesType == ASSUME NEW S, NEW todo PROVE AfterWrites(S, todo) \in SUBSET RowNames
  BY DEF AfterWrites

\* The next request, and then the others.
LEMMA NextWrite ==
    ASSUME NEW S, NEW todo \in Seq(Writes), todo # <<>>
    PROVE  AfterWrites(S, todo) = AfterWrites(AfterWrites(S, <<Head(todo)>>), Tail(todo))
<1>1. <<Head(todo)>> \in Seq(Writes) /\ Tail(todo) \in Seq(Writes)
      /\ todo = <<Head(todo)>> \o Tail(todo)
  OBVIOUS
<1>2. AfterWrites(S, <<Head(todo)>> \o Tail(todo))
        = AfterWrites(AfterWrites(S, <<Head(todo)>>), Tail(todo))
  BY <1>1, ConcatWrites, Zenon
<1> QED
  BY <1>1, <1>2, Zenon

LEMMA TwoWrites ==
    ASSUME NEW S \in SUBSET RowNames, NEW x \in RowNames, NEW y \in RowNames
    PROVE  /\ AfterWrites(S, <<Put(x), Put(y)>>) = S \cup {x, y}
           /\ AfterWrites(S, <<Del(x), Del(y)>>) = S \ {x, y}
           /\ <<Put(x), Put(y)>> \in Seq(Writes) /\ <<Del(x), Del(y)>> \in Seq(Writes)
<1>1. {Put(x), Put(y), Del(x), Del(y)} \subseteq Writes
  BY OneWrite, ZenonT(60)
<1>2. \A a, b \in Writes : /\ <<a>> \in Seq(Writes) /\ <<a, b>> \in Seq(Writes)
                          /\ Head(<<a, b>>) = a /\ Tail(<<a, b>>) = <<b>>
                          /\ <<a, b>> # <<>>
  OBVIOUS
<1>3. ASSUME NEW a \in Writes, NEW b \in Writes
      PROVE  AfterWrites(S, <<a, b>>) = AfterWrites(AfterWrites(S, <<a>>), <<b>>)
  <2> DEFINE ab == <<a, b>>
  <2>1. ab \in Seq(Writes) /\ ab # <<>> /\ Head(ab) = a /\ Tail(ab) = <<b>>
    BY <1>2
  <2> HIDE DEF ab
  <2>2. AfterWrites(S, ab) = AfterWrites(AfterWrites(S, <<Head(ab)>>), Tail(ab))
    BY <2>1, NextWrite, Zenon
  <2>3. AfterWrites(S, ab) = AfterWrites(AfterWrites(S, <<a>>), <<b>>)
    BY <2>1, <2>2, Zenon
  <2> QED
    BY <2>3 DEF ab
<1>4. AfterWrites(S, <<Put(x), Put(y)>>) = S \cup {x, y}
  <2>1. AfterWrites(S \cup {x}, <<Put(y)>>) = (S \cup {x}) \cup {y}
    BY OneWrite
  <2>2. AfterWrites(S, <<Put(x)>>) = S \cup {x}
    BY OneWrite
  <2>3. AfterWrites(S, <<Put(x), Put(y)>>) = (S \cup {x}) \cup {y}
    BY <1>1, <1>3, <2>1, <2>2
  <2> QED
    BY <2>3
<1>5. AfterWrites(S, <<Del(x), Del(y)>>) = S \ {x, y}
  <2>1. AfterWrites(S \ {x}, <<Del(y)>>) = (S \ {x}) \ {y}
    BY OneWrite
  <2>2. AfterWrites(S, <<Del(x)>>) = S \ {x}
    BY OneWrite
  <2>3. AfterWrites(S, <<Del(x), Del(y)>>) = (S \ {x}) \ {y}
    BY <1>1, <1>3, <2>1, <2>2
  <2> QED
    BY <2>3
<1> QED
  BY <1>1, <1>2, <1>4, <1>5

LEMMA WhenWrites ==
    ASSUME NEW S \in SUBSET RowNames, NEW c \in BOOLEAN, NEW w \in Seq(Writes)
    PROVE  /\ When(c, w) \in Seq(Writes)
           /\ AfterWrites(S, When(c, w)) = IF c THEN AfterWrites(S, w) ELSE S
  BY NoWritesLeft DEF When

NamedRows ==
    {<<"public", "all">>, <<"public", "channel">>, <<"public", "quarantined">>,
     <<"featured", "all">>, <<"featured", "channel">>}

LEMMA RowNamesAre ==
    /\ NamedRows \subseteq RowNames
    /\ \A s \in Statuses : StatusRow(s) \in RowNames /\ QueueRow(s) \in RowNames
    /\ \A s \in Statuses : StatusRow(s) \notin NamedRows /\ QueueRow(s) \notin NamedRows
    /\ \A s, t \in Statuses : StatusRow(s) # QueueRow(t)
  BY DEF RowNames, NamedRows, StatusRow, QueueRow, PublicRows, QualityRow, FeaturedRows

\* What is put and deleted for the public listing.
LEMMA PublicWrites ==
    ASSUME NEW S \in SUBSET RowNames
    PROVE  /\ DeleteTranscribed \o DeleteFeatured \in Seq(Writes)
           /\ AfterWrites(S, DeleteTranscribed \o DeleteFeatured) = S \ NamedRows
           /\ AfterWrites(S, <<Del(QualityRow)>>) = S \ {QualityRow}
           /\ <<Del(QualityRow)>> \in Seq(Writes)
           /\ \A q, f \in BOOLEAN :
                LET w == <<Put(<<"public", "all">>), Put(<<"public", "channel">>)>>
                           \o When(q, <<Put(QualityRow)>>)
                           \o (IF f THEN PutFeatured ELSE DeleteFeatured)
                IN  /\ w \in Seq(Writes)
                    /\ AfterWrites(S, w)
                         = LET T == S \cup PublicRows \cup (IF q THEN {QualityRow} ELSE {})
                           IN  IF f THEN T \cup FeaturedRows ELSE T \ FeaturedRows
<1> DEFINE Both == <<Put(<<"public", "all">>), Put(<<"public", "channel">>)>>
           Gone == <<Del(<<"public", "all">>), Del(<<"public", "channel">>)>>
           Quality == <<Put(QualityRow)>>
           NoQuality == <<Del(QualityRow)>>
<1>0. NamedRows \subseteq RowNames
  BY RowNamesAre
<1>1. ASSUME NEW T \in SUBSET RowNames
      PROVE  /\ AfterWrites(T, Both) = T \cup PublicRows
             /\ AfterWrites(T, Gone) = T \ PublicRows
             /\ Both \in Seq(Writes) /\ Gone \in Seq(Writes)
  <2>1. <<"public", "all">> \in RowNames /\ <<"public", "channel">> \in RowNames
    BY <1>0 DEF NamedRows
  <2>2. /\ AfterWrites(T, Both) = T \cup {<<"public", "all">>, <<"public", "channel">>}
        /\ AfterWrites(T, Gone) = T \ {<<"public", "all">>, <<"public", "channel">>}
        /\ Both \in Seq(Writes) /\ Gone \in Seq(Writes)
    <3>1. \A x, y \in RowNames :
            /\ AfterWrites(T, <<Put(x), Put(y)>>) = T \cup {x, y}
            /\ AfterWrites(T, <<Del(x), Del(y)>>) = T \ {x, y}
            /\ <<Put(x), Put(y)>> \in Seq(Writes) /\ <<Del(x), Del(y)>> \in Seq(Writes)
      BY TwoWrites
    <3> QED
      BY <2>1, <3>1, Zenon
  <2> QED
    BY <2>2 DEF PublicRows
<1>2. ASSUME NEW T \in SUBSET RowNames
      PROVE  /\ AfterWrites(T, PutFeatured) = T \cup FeaturedRows
             /\ AfterWrites(T, DeleteFeatured) = T \ FeaturedRows
             /\ PutFeatured \in Seq(Writes) /\ DeleteFeatured \in Seq(Writes)
  <2>1. <<"featured", "all">> \in RowNames /\ <<"featured", "channel">> \in RowNames
    BY <1>0 DEF NamedRows
  <2>2. /\ AfterWrites(T, PutFeatured) = T \cup {<<"featured", "all">>, <<"featured", "channel">>}
        /\ AfterWrites(T, DeleteFeatured) = T \ {<<"featured", "all">>, <<"featured", "channel">>}
        /\ PutFeatured \in Seq(Writes) /\ DeleteFeatured \in Seq(Writes)
    BY <2>1, TwoWrites, ZenonT(60) DEF PutFeatured, DeleteFeatured
  <2> QED
    BY <2>2 DEF FeaturedRows
<1>3. ASSUME NEW T \in SUBSET RowNames
      PROVE  /\ AfterWrites(T, Quality) = T \cup {QualityRow}
             /\ AfterWrites(T, NoQuality) = T \ {QualityRow}
             /\ Quality \in Seq(Writes) /\ NoQuality \in Seq(Writes)
  <2>1. QualityRow \in RowNames
    BY <1>0 DEF NamedRows, QualityRow
  <2>2. Put(QualityRow) \in Writes /\ Del(QualityRow) \in Writes
    BY <2>1, OneWrite
  <2> QED
    BY <2>1, <2>2, OneWrite
<1>4. PublicRows \subseteq RowNames /\ QualityRow \in RowNames /\ FeaturedRows \subseteq RowNames
  BY <1>0 DEF NamedRows, PublicRows, QualityRow, FeaturedRows
<1>5. DeleteTranscribed = Gone \o NoQuality
  BY DEF DeleteTranscribed
<1> HIDE DEF Both, Gone, Quality, NoQuality
<1>6. /\ DeleteTranscribed \in Seq(Writes)
      /\ AfterWrites(S, DeleteTranscribed) = (S \ PublicRows) \ {QualityRow}
  <2>1. S \ PublicRows \in SUBSET RowNames
    OBVIOUS
  <2>2. AfterWrites(S, Gone) = S \ PublicRows /\ Gone \in Seq(Writes)
    BY <1>1
  <2>3. AfterWrites(S \ PublicRows, NoQuality) = (S \ PublicRows) \ {QualityRow}
        /\ NoQuality \in Seq(Writes)
    BY <1>3, <2>1
  <2>4. Gone \o NoQuality \in Seq(Writes)
    BY <2>2, <2>3
  <2>5. AfterWrites(S, Gone \o NoQuality) = AfterWrites(AfterWrites(S, Gone), NoQuality)
    <3>1. Gone \in Seq(Writes) /\ NoQuality \in Seq(Writes)
      BY <2>2, <2>3
    <3> QED
      BY <3>1, ConcatWrites, Zenon
  <2> QED
    BY <1>5, <2>2, <2>3, <2>4, <2>5, Zenon
<1>7. /\ DeleteTranscribed \o DeleteFeatured \in Seq(Writes)
      /\ AfterWrites(S, DeleteTranscribed \o DeleteFeatured) = S \ NamedRows
  <2> DEFINE T == (S \ PublicRows) \ {QualityRow}
  <2>1. AfterWrites(T, DeleteFeatured) = T \ FeaturedRows /\ DeleteFeatured \in Seq(Writes)
    BY <1>2
  <2>2. T \ FeaturedRows = S \ NamedRows
    BY DEF NamedRows, PublicRows, FeaturedRows, QualityRow
  <2>3. DeleteTranscribed \o DeleteFeatured \in Seq(Writes)
    BY <1>6, <2>1
  <2>4. AfterWrites(S, DeleteTranscribed \o DeleteFeatured)
          = AfterWrites(AfterWrites(S, DeleteTranscribed), DeleteFeatured)
    <3>1. DeleteTranscribed \in Seq(Writes) /\ DeleteFeatured \in Seq(Writes)
      BY <1>6, <2>1
    <3> QED
      BY <3>1, ConcatWrites, Zenon
  <2> QED
    BY <1>6, <2>1, <2>2, <2>3, <2>4, Zenon
<1>8. ASSUME NEW q \in BOOLEAN, NEW f \in BOOLEAN
      PROVE  LET w == Both \o When(q, Quality) \o (IF f THEN PutFeatured ELSE DeleteFeatured)
             IN  /\ w \in Seq(Writes)
                 /\ AfterWrites(S, w)
                      = LET T == S \cup PublicRows \cup (IF q THEN {QualityRow} ELSE {})
                        IN  IF f THEN T \cup FeaturedRows ELSE T \ FeaturedRows
  <2> DEFINE P == S \cup PublicRows
             T == P \cup (IF q THEN {QualityRow} ELSE {})
             U == IF f THEN T \cup FeaturedRows ELSE T \ FeaturedRows
             quality == When(q, Quality)
             star == IF f THEN PutFeatured ELSE DeleteFeatured
  <2>1. P \in SUBSET RowNames /\ T \in SUBSET RowNames
    BY <1>4
  <2>2. AfterWrites(S, Both) = P /\ Both \in Seq(Writes)
    BY <1>1
  <2>3. AfterWrites(P, quality) = T /\ quality \in Seq(Writes)
    <3>1. Quality \in Seq(Writes) /\ AfterWrites(P, Quality) = P \cup {QualityRow}
      BY <1>3, <2>1
    <3>2. /\ When(q, Quality) \in Seq(Writes)
          /\ AfterWrites(P, When(q, Quality)) = IF q THEN AfterWrites(P, Quality) ELSE P
      BY <2>1, <3>1, WhenWrites
    <3> QED
      BY <3>1, <3>2
  <2>4. AfterWrites(T, star) = U /\ star \in Seq(Writes)
    BY <1>2, <2>1
  <2> HIDE DEF P, T, U, quality, star
  <2>5. Both \o quality \in Seq(Writes) /\ AfterWrites(S, Both \o quality) = T
    <3>1. Both \o quality \in Seq(Writes)
      BY <2>2, <2>3
    <3>2. AfterWrites(S, Both \o quality) = AfterWrites(AfterWrites(S, Both), quality)
      BY <2>2, <2>3, ConcatWrites, Zenon
    <3> QED
      BY <2>2, <2>3, <3>1, <3>2, Zenon
  <2>6. Both \o quality \o star \in Seq(Writes) /\ AfterWrites(S, Both \o quality \o star) = U
    <3>1. Both \o quality \o star \in Seq(Writes)
      BY <2>4, <2>5
    <3>2. AfterWrites(S, Both \o quality \o star)
            = AfterWrites(AfterWrites(S, Both \o quality), star)
      BY <2>4, <2>5, ConcatWrites, Zenon
    <3> QED
      BY <2>4, <2>5, <3>1, <3>2, Zenon
  <2> QED
    BY <2>6 DEF P, T, U, quality, star
<1> QED
  BY <1>3, <1>7, <1>8 DEF Both, Quality, NoQuality

\* _put_state turns the rows of a clip's old state item into those of the new one.
LEMMA PutStateRight ==
    ASSUME NEW was \in Items \cup {NoItem}, NEW item \in Items
    PROVE  LET todo == Append(PutState(item, was.status), RecordEvent)
           IN  /\ todo \in Seq(Writes) /\ todo # <<>>
               /\ Head(todo) = PutItem /\ PutItem \in Range(todo)
               /\ AfterWrites(RowsOf(was), todo) = RowsOf(item)
<1> DEFINE old == was.status
           new == item.status
           OldRows == {StatusRow(old), QueueRow(old)}
           NewRows == {StatusRow(new), QueueRow(new)}
           P1 == <<PutItem>>
           P2 == When(old \notin {"none", new}, <<Del(StatusRow(old)), Del(QueueRow(old))>>)
           P3 == When(new \in BacklogStatuses, <<Put(StatusRow(new)), Put(QueueRow(new))>>)
           P4 == When(old = "transcribed" /\ new # "transcribed",
                      DeleteTranscribed \o DeleteFeatured)
           P5 == When(old = "transcribed", <<Del(QualityRow)>>)
           P6 == When(new = "transcribed",
                      <<Put(<<"public", "all">>), Put(<<"public", "channel">>)>>
                        \o When(item.quarantined, <<Put(QualityRow)>>)
                        \o (IF item.featured THEN PutFeatured ELSE DeleteFeatured))
           P7 == <<RecordEvent>>
           S1 == RowsOf(was)
           S2 == IF old \notin {"none", new} THEN S1 \ OldRows ELSE S1
           S3 == IF new \in BacklogStatuses THEN S2 \cup NewRows ELSE S2
           S4 == IF old = "transcribed" /\ new # "transcribed" THEN S3 \ NamedRows ELSE S3
           S5 == IF old = "transcribed" THEN S4 \ {QualityRow} ELSE S4
           Shown == S5 \cup PublicRows \cup (IF item.quarantined THEN {QualityRow} ELSE {})
           S6 == IF new = "transcribed"
                 THEN IF item.featured THEN Shown \cup FeaturedRows ELSE Shown \ FeaturedRows
                 ELSE S5
<1>1. /\ old \in Statuses \cup {"none"} /\ new \in Statuses
      /\ item.quarantined \in BOOLEAN /\ item.featured \in BOOLEAN
      /\ was.quarantined \in BOOLEAN /\ was.featured \in BOOLEAN
      /\ old = "none" => was = NoItem
  <2>1. new \in Statuses /\ item.quarantined \in BOOLEAN /\ item.featured \in BOOLEAN
    BY Zenon DEF Items
  <2>2. CASE was \in Items
    <3>1. was.status \in Statuses /\ was.quarantined \in BOOLEAN /\ was.featured \in BOOLEAN
      BY <2>2, Zenon DEF Items
    <3>2. was.status # "none"
      BY <3>1 DEF Statuses, BacklogStatuses
    <3> QED
      BY <2>1, <3>1, <3>2
  <2>3. CASE was = NoItem
    BY <2>1, <2>3 DEF NoItem
  <2> QED
    BY <2>2, <2>3
<1>2. /\ NewRows \subseteq RowNames /\ NamedRows \subseteq RowNames /\ QualityRow \in RowNames
      /\ PublicRows \subseteq RowNames /\ FeaturedRows \subseteq RowNames
      /\ old # "none" => OldRows \subseteq RowNames
  BY <1>1, RowNamesAre DEF NamedRows, PublicRows, FeaturedRows, QualityRow
<1>3. S1 \in SUBSET RowNames
  BY <1>1, <1>2 DEF RowsOf, Statuses, BacklogStatuses
<1>4. /\ S2 \in SUBSET RowNames /\ S3 \in SUBSET RowNames /\ S4 \in SUBSET RowNames
      /\ S5 \in SUBSET RowNames /\ Shown \in SUBSET RowNames /\ S6 \in SUBSET RowNames
  <2> HIDE DEF S1, NewRows, OldRows
  <2> QED
    BY <1>2, <1>3
<1>5. S6 = RowsOf(item)
  <2>1. \A s, t \in Statuses : /\ StatusRow(s) = StatusRow(t) <=> s = t
                               /\ QueueRow(s) = QueueRow(t) <=> s = t
                               /\ StatusRow(s) # QueueRow(t)
                               /\ StatusRow(s) \notin NamedRows /\ QueueRow(s) \notin NamedRows
    BY DEF StatusRow, QueueRow, NamedRows
  <2>2. NamedRows = PublicRows \cup {QualityRow} \cup FeaturedRows
    BY DEF NamedRows, PublicRows, FeaturedRows, QualityRow
  <2>3. /\ QualityRow \notin PublicRows \cup FeaturedRows
        /\ PublicRows \cap FeaturedRows = {}
    BY DEF PublicRows, FeaturedRows, QualityRow
  <2>4. CASE new = "transcribed"
    <3>1. S4 \subseteq NamedRows
      <4>1. CASE old = "transcribed"
        BY <1>1, <2>2, <2>4, <4>1 DEF RowsOf, BacklogStatuses
      <4>2. CASE old # "transcribed"
        BY <1>1, <2>4, <4>2 DEF RowsOf, BacklogStatuses, Statuses, NoItem
      <4> QED
        BY <4>1, <4>2
    <3>2. QualityRow \notin S5
      <4>1. CASE old = "transcribed"
        BY <4>1
      <4>2. CASE old # "transcribed"
        BY <1>1, <2>1, <2>2, <2>4, <4>2 DEF RowsOf, BacklogStatuses, Statuses, NoItem
      <4> QED
        BY <4>1, <4>2
    <3> HIDE DEF S4
    <3>3. S5 \subseteq NamedRows
      BY <3>1
    <3> HIDE DEF S5
    <3> QED
      BY <2>2, <2>3, <2>4, <3>2, <3>3 DEF RowsOf, BacklogStatuses
  <2>5. CASE new \in BacklogStatuses
    <3>1. S6 = S5 /\ new # "transcribed"
      BY <2>5 DEF BacklogStatuses
    <3>2. CASE old = "transcribed"
      <4>1. S1 \subseteq NamedRows /\ old \notin {"none", new} /\ new \in Statuses
        BY <1>1, <2>2, <2>5, <3>2 DEF RowsOf, BacklogStatuses
      <4>2. S5 = (((S1 \ OldRows) \cup NewRows) \ NamedRows) \ {QualityRow}
        BY <2>5, <3>2, <4>1 DEF BacklogStatuses
      <4>3. NewRows \cap NamedRows = {} /\ QualityRow \in NamedRows
        BY <2>1, <2>2, <4>1
      <4> HIDE DEF S1, S5, NewRows, OldRows
      <4>4. S5 = NewRows
        BY <4>1, <4>2, <4>3
      <4> QED
        BY <2>5, <3>1, <4>4 DEF RowsOf, NewRows
    <3>3. CASE old # "transcribed"
      BY <1>1, <2>1, <2>5, <3>1, <3>3, ZenonT(60) DEF RowsOf, BacklogStatuses, Statuses, NoItem
    <3> QED
      BY <3>2, <3>3
  <2>6. CASE new = "empty"
    <3>1. CASE old = "transcribed"
      BY <1>1, <2>1, <2>2, <2>6, <3>1 DEF RowsOf, BacklogStatuses, Statuses
    <3>2. CASE old # "transcribed"
      BY <1>1, <2>1, <2>6, <3>2 DEF RowsOf, BacklogStatuses, Statuses, NoItem
    <3> QED
      BY <3>1, <3>2
  <2> QED
    BY <1>1, <2>4, <2>5, <2>6 DEF Statuses
<1>6. P1 \in Seq(Writes) /\ AfterWrites(S1, P1) = S1
  <2>1. PutItem \in Writes /\ AfterWrites(S1, <<PutItem>>) = S1
    BY <1>2, <1>3, OneWrite
  <2> QED
    BY <2>1
<1>7. P2 \in Seq(Writes) /\ AfterWrites(S1, P2) = S2
  <2> HIDE DEF S1
  <2>1. CASE old \notin {"none", new}
    BY <1>1, <1>2, <1>3, <2>1, TwoWrites DEF When
  <2>2. CASE old \in {"none", new}
    BY <1>3, <2>2, NoWritesLeft DEF When
  <2> QED
    BY <2>1, <2>2
<1>8. P3 \in Seq(Writes) /\ AfterWrites(S2, P3) = S3
  <2> HIDE DEF S2
  <2>1. CASE new \in BacklogStatuses
    BY <1>2, <1>4, <2>1, TwoWrites, ZenonT(60) DEF When
  <2>2. CASE new \notin BacklogStatuses
    BY <1>4, <2>2, NoWritesLeft DEF When
  <2> QED
    BY <2>1, <2>2
<1>9. P4 \in Seq(Writes) /\ AfterWrites(S3, P4) = S4
  <2> HIDE DEF S3
  <2>1. CASE old = "transcribed" /\ new # "transcribed"
    BY <1>4, <2>1, PublicWrites DEF When
  <2>2. CASE ~(old = "transcribed" /\ new # "transcribed")
    BY <1>4, <2>2, NoWritesLeft DEF When
  <2> QED
    BY <2>1, <2>2
<1>10. P5 \in Seq(Writes) /\ AfterWrites(S4, P5) = S5
  <2> HIDE DEF S4
  <2>1. CASE old = "transcribed"
    BY <1>4, <2>1, PublicWrites DEF When
  <2>2. CASE old # "transcribed"
    BY <1>4, <2>2, NoWritesLeft DEF When
  <2> QED
    BY <2>1, <2>2
<1>11. P6 \in Seq(Writes) /\ AfterWrites(S5, P6) = S6
  <2> HIDE DEF S5
  <2>1. CASE new = "transcribed"
    BY <1>1, <1>4, <2>1, PublicWrites DEF When
  <2>2. CASE new # "transcribed"
    BY <1>4, <2>2, NoWritesLeft DEF When
  <2> QED
    BY <2>1, <2>2
<1>12. P7 \in Seq(Writes) /\ AfterWrites(S6, P7) = S6
  <2> HIDE DEF S6
  <2>1. RecordEvent \in Writes /\ AfterWrites(S6, <<RecordEvent>>) = S6
    BY <1>2, <1>4, OneWrite
  <2> QED
    BY <2>1
<1> DEFINE todo == Append(PutState(item, was.status), RecordEvent)
<1>13. todo = P1 \o P2 \o P3 \o P4 \o P5 \o P6 \o P7
  <2>1. PutState(item, was.status) = P1 \o P2 \o P3 \o P4 \o P5 \o P6
    BY DEF PutState
  <2> HIDE DEF P1, P2, P3, P4, P5, P6
  <2>2. P1 \o P2 \o P3 \o P4 \o P5 \o P6 \in Seq(Writes)
    <3>1. P1 \o P2 \o P3 \in Seq(Writes)
      BY <1>6, <1>7, <1>8, ConcatProperties
    <3>2. P1 \o P2 \o P3 \o P4 \in Seq(Writes)
      BY <1>9, <3>1, ConcatProperties
    <3>3. P1 \o P2 \o P3 \o P4 \o P5 \in Seq(Writes)
      BY <1>10, <3>2, ConcatProperties
    <3> QED
      BY <1>11, <3>3, ConcatProperties
  <2> QED
    BY <2>1, <2>2, AppendIsConcat, SMTT(60)
<1> HIDE DEF P1, P2, P3, P4, P5, P6, P7, S1, S2, S3, S4, S5, S6, Shown
<1>14. /\ P1 \o P2 \in Seq(Writes)
       /\ P1 \o P2 \o P3 \in Seq(Writes)
       /\ P1 \o P2 \o P3 \o P4 \in Seq(Writes)
       /\ P1 \o P2 \o P3 \o P4 \o P5 \in Seq(Writes)
       /\ P1 \o P2 \o P3 \o P4 \o P5 \o P6 \in Seq(Writes)
       /\ P1 \o P2 \o P3 \o P4 \o P5 \o P6 \o P7 \in Seq(Writes)
       /\ P2 \in Seq(Writes) /\ P3 \in Seq(Writes) /\ P4 \in Seq(Writes)
       /\ P5 \in Seq(Writes) /\ P6 \in Seq(Writes) /\ P7 \in Seq(Writes) /\ P1 \in Seq(Writes)
  BY <1>6, <1>7, <1>8, <1>9, <1>10, <1>11, <1>12
<1>15. AfterWrites(S1, P1 \o P2) = S2
  <2>1. AfterWrites(S1, P1 \o P2) = AfterWrites(AfterWrites(S1, P1), P2)
    <3>1. P1 \in Seq(Writes) /\ P2 \in Seq(Writes)
      BY <1>14
    <3> QED
      BY <3>1, ConcatWrites, Zenon
  <2> QED
    BY <1>6, <1>7, <2>1, Zenon
<1>16. AfterWrites(S1, P1 \o P2 \o P3) = S3
  <2>1. AfterWrites(S1, P1 \o P2 \o P3) = AfterWrites(AfterWrites(S1, P1 \o P2), P3)
    <3>1. P1 \o P2 \in Seq(Writes) /\ P3 \in Seq(Writes)
      BY <1>14
    <3> QED
      BY <3>1, ConcatWrites, Zenon
  <2> QED
    BY <1>8, <1>15, <2>1, Zenon
<1>17. AfterWrites(S1, P1 \o P2 \o P3 \o P4) = S4
  <2>1. AfterWrites(S1, P1 \o P2 \o P3 \o P4) = AfterWrites(AfterWrites(S1, P1 \o P2 \o P3), P4)
    <3>1. P1 \o P2 \o P3 \in Seq(Writes) /\ P4 \in Seq(Writes)
      BY <1>14
    <3> QED
      BY <3>1, ConcatWrites, Zenon
  <2> QED
    BY <1>9, <1>16, <2>1, Zenon
<1>18. AfterWrites(S1, P1 \o P2 \o P3 \o P4 \o P5) = S5
  <2>1. AfterWrites(S1, P1 \o P2 \o P3 \o P4 \o P5)
          = AfterWrites(AfterWrites(S1, P1 \o P2 \o P3 \o P4), P5)
    <3>1. P1 \o P2 \o P3 \o P4 \in Seq(Writes) /\ P5 \in Seq(Writes)
      BY <1>14
    <3> QED
      BY <3>1, ConcatWrites, Zenon
  <2> QED
    BY <1>10, <1>17, <2>1, Zenon
<1>19. AfterWrites(S1, P1 \o P2 \o P3 \o P4 \o P5 \o P6) = S6
  <2>1. AfterWrites(S1, P1 \o P2 \o P3 \o P4 \o P5 \o P6)
          = AfterWrites(AfterWrites(S1, P1 \o P2 \o P3 \o P4 \o P5), P6)
    <3>1. P1 \o P2 \o P3 \o P4 \o P5 \in Seq(Writes) /\ P6 \in Seq(Writes)
      BY <1>14
    <3> QED
      BY <3>1, ConcatWrites, Zenon
  <2> QED
    BY <1>11, <1>18, <2>1, Zenon
<1>20. AfterWrites(S1, P1 \o P2 \o P3 \o P4 \o P5 \o P6 \o P7) = S6
  <2>1. AfterWrites(S1, P1 \o P2 \o P3 \o P4 \o P5 \o P6 \o P7)
          = AfterWrites(AfterWrites(S1, P1 \o P2 \o P3 \o P4 \o P5 \o P6), P7)
    <3>1. P1 \o P2 \o P3 \o P4 \o P5 \o P6 \in Seq(Writes) /\ P7 \in Seq(Writes)
      BY <1>14
    <3> QED
      BY <3>1, ConcatWrites, Zenon
  <2> QED
    BY <1>12, <1>19, <2>1, Zenon
<1>21. todo # <<>> /\ Head(todo) = PutItem /\ PutItem \in Range(todo)
  <2>1. \A v, w \in Seq(Writes) : v # <<>> => v \o w # <<>> /\ (v \o w)[1] = v[1]
    BY ConcatProperties
  <2>2. P1 # <<>> /\ P1[1] = PutItem
    BY DEF P1
  <2> DEFINE begins(v) == v # <<>> /\ v[1] = PutItem
  <2>3. \A v, w \in Seq(Writes) : begins(v) => begins(v \o w)
    BY <2>1
  <2> HIDE DEF begins
  <2>4. begins(P1)
    BY <2>2 DEF begins
  <2>5. begins(P1 \o P2 \o P3 \o P4)
    BY <1>14, <2>3, <2>4, Zenon
  <2>6. begins(P1 \o P2 \o P3 \o P4 \o P5 \o P6 \o P7)
    BY <1>14, <2>3, <2>5, Zenon
  <2>7. todo \in Seq(Writes) /\ todo # <<>> /\ todo[1] = PutItem
    BY <1>13, <1>14, <2>6, Zenon DEF begins
  <2> HIDE DEF todo
  <2>8. 1 \in DOMAIN todo
    BY <2>7
  <2> QED
    BY <2>7, <2>8 DEF Range
<1> QED
  BY <1>5, <1>13, <1>14, <1>20, <1>21, Zenon DEF S1

-----------------------------------------------------------------------------
(* The shape of the state.                                                 *)

Actors == [key : Keys \cup {0}, item : Items \cup {NoItem}, todo : Seq(Writes)]

Operators == [pc : {"idle", "found", "writing"}, star : BOOLEAN, key : Keys \cup {0},
              item : Items \cup {NoItem}, todo : Seq(Writes)]

Workers == [pc : {"poll", "claim", "claiming", "fetch", "settle", "settling"},
            batch : Seq(Keys), old : SUBSET Keys, verdict : Items \cup {NoItem},
            key : Keys \cup {0}, item : Items \cup {NoItem}, todo : Seq(Writes)]

Shapes ==
    /\ state \in [Keys -> Items \cup {NoItem}]
    /\ rows \subseteq RowNames \X Keys
    /\ api \in Actors /\ worker \in Workers /\ operator \in Operators
    /\ presigns \in [Keys -> 0 .. MaxPresigns]

\* The worker works on the head of its batch; it has requests to make only while
\* it marks a clip, and then it writes a proper item.
WorkerShape ==
    /\ worker.pc # "poll" => worker.batch # <<>>
    /\ worker.pc \in {"claiming", "settling"} =>
          worker.key = Clip /\ worker.todo # <<>> /\ worker.item \in Items
    /\ worker.pc \notin {"claiming", "settling"} => worker.key = 0 /\ worker.todo = <<>>
    /\ worker.pc = "settle" => worker.verdict \in Items
    /\ Len(worker.batch) <= Limit

ApiShape ==
    /\ api.key # 0 => api.todo # <<>> /\ api.item \in Items
    /\ api.key = 0 => api.todo = <<>>

OperatorShape ==
    /\ operator.pc \in {"found", "writing"} => operator.key # 0
    /\ operator.pc = "writing" => operator.todo # <<>> /\ operator.item \in Items
    /\ operator.pc # "writing" => operator.todo = <<>>

\* Nothing is known of a clip that has no state item, but to the presign request
\* that is about to write it.
NothingComesFirst ==
    \A k \in Keys : state[k] = NoItem =>
        /\ RowsIn(k, RowNames) = {}
        /\ k \notin Range(worker.batch)
        /\ operator.key # k
        /\ api.key = k => Head(api.todo) = PutItem

Bookkeeping ==
    /\ worker.old \subseteq expired
    /\ answered \subseteq Keys /\ uploaded \subseteq answered /\ expired \subseteq Keys
    /\ stars \in 0 .. MaxStars
    /\ crashes \in 0 .. MaxCrashes /\ faults \in 0 .. MaxFaults

TypeInv ==
    /\ Shapes /\ WorkerShape /\ ApiShape /\ OperatorShape
    /\ NothingComesFirst /\ Bookkeeping

LEMMA TypesHold == TypeInv => TypeOK
  BY DEF TypeInv, TypeOK, Shapes, WorkerShape, Bookkeeping, Actors, Workers, Operators

LEMMA TypeInit == Init => TypeInv
<1> SUFFICES ASSUME Init PROVE TypeInv
  OBVIOUS
<1> USE ParametersAssumption
<1>1. <<>> \in Seq(Writes) /\ <<>> \in Seq(Keys) /\ Len(<<>>) = 0 /\ Range(<<>>) = {}
  BY DEF Range
<1>2. 0 \notin Keys
  OBVIOUS
<1>3. Shapes
  BY <1>1 DEF Init, Shapes, Actors, Workers, Operators, IdleApi, IdleWorker, IdleOperator,
              NoWrites
<1>4. WorkerShape /\ ApiShape /\ OperatorShape
  BY <1>1 DEF Init, WorkerShape, ApiShape, OperatorShape, IdleApi, IdleWorker,
              IdleOperator, NoWrites
<1>5. NothingComesFirst
  BY <1>1, <1>2 DEF Init, NothingComesFirst, IdleApi, IdleWorker, IdleOperator, NoWrites,
                    RowsIn
<1>6. Bookkeeping
  BY DEF Init, Bookkeeping, IdleWorker
<1> QED
  BY <1>3, <1>4, <1>5, <1>6 DEF TypeInv

-----------------------------------------------------------------------------
(* What a poll finds.                                                      *)

LEMMA PolledFinite == IsFiniteSet(Polled)
<1>1. Polled \subseteq {"pending", "waiting_upload", "processing", "error"}
  BY DEF Polled
<1>2. IsFiniteSet({"pending", "waiting_upload", "processing", "error"})
  <2>1. /\ IsFiniteSet({"pending"})
        /\ {"pending", "waiting_upload"} = {"pending"} \cup {"waiting_upload"}
        /\ {"pending", "waiting_upload", "processing"}
             = {"pending", "waiting_upload"} \cup {"processing"}
        /\ {"pending", "waiting_upload", "processing", "error"}
             = {"pending", "waiting_upload", "processing"} \cup {"error"}
    BY FS_Singleton
  <2>2. IsFiniteSet({"pending", "waiting_upload"})
    BY <2>1, FS_AddElement
  <2>3. IsFiniteSet({"pending", "waiting_upload", "processing"})
    BY <2>1, <2>2, FS_AddElement
  <2> QED
    BY <2>1, <2>3, FS_AddElement
<1> QED
  BY <1>1, <1>2, FS_Subset

LEMMA FoundFinite == IsFiniteSet(Found)
<1> DEFINE Records == [key : Keys, row : Polled]
           f == [p \in Keys \X Polled |-> [key |-> p[1], row |-> p[2]]]
<1>1. IsFiniteSet(Keys \X Polled)
  BY PolledFinite, FS_Product, ParametersAssumption
<1>2. f \in Surjection(Keys \X Polled, Records)
  <2>1. ASSUME NEW r \in Records PROVE \E p \in Keys \X Polled : f[p] = r
    <3>1. <<r.key, r.row>> \in Keys \X Polled /\ f[<<r.key, r.row>>] = r
      OBVIOUS
    <3> QED
      BY <3>1, Zenon
  <2>2. f \in [Keys \X Polled -> Records]
    OBVIOUS
  <2> HIDE DEF f, Records
  <2> QED
    BY <2>1, <2>2 DEF Surjection
<1>3. IsFiniteSet(Records)
  BY <1>1, <1>2, FS_Surjection
<1>4. Found \in SUBSET Records
  BY DEF Found
<1> QED
  BY <1>3, <1>4, FS_Subset

\* What a poll that takes these records has in its batch.
LEMMA BatchOf ==
    ASSUME NEW ready \in First(ReadySlots(Waiting), Ready),
           NEW waiting \in First(Limit - Cardinality(ready), Waiting),
           ready \cup waiting # {},
           NEW batch \in ByAge(ready \cup waiting)
    PROVE  /\ batch \in Seq(Keys) /\ batch # <<>> /\ Len(batch) <= Limit
           /\ \A k \in Range(batch) : \E r \in Found : r.key = k
           /\ Range(batch) = {r.key : r \in ready \cup waiting}
           /\ Cardinality(ready) \in Nat /\ Cardinality(waiting) \in Nat
           /\ Cardinality(ready) <= ReadySlots(Waiting)
<1> DEFINE records == ready \cup waiting
<1>1. ready \subseteq Found /\ waiting \subseteq Found
  BY DEF First, Ready, Waiting
<1>2. IsFiniteSet(ready) /\ IsFiniteSet(waiting)
  BY <1>1, FoundFinite, FS_Subset
<1>3. /\ Cardinality(ready) \in Nat /\ Cardinality(waiting) \in Nat
      /\ IsFiniteSet(records) /\ Cardinality(records) \in Nat
      /\ Cardinality(records) <= Cardinality(ready) + Cardinality(waiting)
  <2>1. IsFiniteSet(ready \cap waiting)
    BY <1>2, FS_Intersection
  <2>2. /\ Cardinality(ready) \in Nat /\ Cardinality(waiting) \in Nat
        /\ Cardinality(ready \cap waiting) \in Nat
    BY <1>2, <2>1, FS_CardinalityType
  <2>3. /\ IsFiniteSet(records)
        /\ Cardinality(records)
             = Cardinality(ready) + Cardinality(waiting) - Cardinality(ready \cap waiting)
    BY <1>2, FS_Union
  <2>4. Cardinality(records) \in Nat
    BY <2>3, FS_CardinalityType
  <2> QED
    BY <2>2, <2>3, <2>4
<1>4. /\ Cardinality(ready) <= ReadySlots(Waiting)
      /\ Cardinality(waiting) <= Limit - Cardinality(ready)
  BY DEF First
<1>5. Cardinality(records) <= Limit
  BY <1>3, <1>4, ParametersAssumption
<1>6. batch \in [1 .. Cardinality(records) -> {r.key : r \in records}]
  BY DEF ByAge
<1>7. Cardinality(records) # 0
  BY <1>3, FS_EmptySet
<1>8. {r.key : r \in records} \subseteq Keys
  BY <1>1 DEF Found
<1> HIDE DEF records
<1>9. batch \in Seq(Keys) /\ Len(batch) = Cardinality(records) /\ batch # <<>>
      /\ DOMAIN batch = 1 .. Cardinality(records)
  BY <1>3, <1>6, <1>7, <1>8
<1>10. Range(batch) \subseteq {r.key : r \in records}
  BY <1>6 DEF Range
<1>11. ASSUME NEW k \in {r.key : r \in records} PROVE k \in Range(batch)
  <2> DEFINE I == {i \in DOMAIN batch : batch[i] = k}
             R == {r \in records : r.key = k}
  <2>1. Cardinality(I) = Cardinality(R)
    BY <1>11 DEF ByAge, records
  <2>2. R # {} /\ R \subseteq records
    BY <1>11
  <2>3. IsFiniteSet(R) /\ IsFiniteSet(I)
    <3>1. IsFiniteSet(R)
      BY <1>3, <2>2, FS_Subset
    <3>2. I \subseteq 1 .. Cardinality(records)
      BY <1>9
    <3>3. IsFiniteSet(1 .. Cardinality(records))
      BY <1>3, FS_Interval
    <3> HIDE DEF I
    <3> QED
      BY <3>1, <3>2, <3>3, FS_Subset
  <2>4. I # {}
    <3> HIDE DEF I, R
    <3> QED
      BY <2>1, <2>2, <2>3, FS_EmptySet
  <2> QED
    BY <2>4 DEF Range
<1>12. records \subseteq Found
  BY <1>1 DEF records
<1> QED
  BY <1>3, <1>4, <1>5, <1>9, <1>10, <1>11, <1>12 DEF records

-----------------------------------------------------------------------------
(* What one request does to the table.                                     *)

LEMMA NoItemIsNone ==
    /\ NoItem \notin Items /\ NoItem.status = "none"
    /\ \A was \in Items \cup {NoItem} :
          /\ was.quarantined \in BOOLEAN /\ was.featured \in BOOLEAN
          /\ was = [status |-> was.status, quarantined |-> was.quarantined,
                    featured |-> was.featured]
<1>1. NoItem.status = "none" /\ NoItem.quarantined \in BOOLEAN /\ NoItem.featured \in BOOLEAN
  BY DEF NoItem
<1>2. NoItem \notin Items
  BY <1>1 DEF Items, Statuses, BacklogStatuses
<1>3. NoItem = [status |-> NoItem.status, quarantined |-> NoItem.quarantined,
                featured |-> NoItem.featured]
  BY DEF NoItem
<1>4. ASSUME NEW was \in Items
      PROVE  /\ was.quarantined \in BOOLEAN /\ was.featured \in BOOLEAN
             /\ was = [status |-> was.status, quarantined |-> was.quarantined,
                       featured |-> was.featured]
  BY Zenon DEF Items
<1> QED
  BY <1>1, <1>2, <1>3, <1>4, Zenon

LEMMA WriteKinds ==
    \A w \in Writes :
       \/ w = PutItem /\ w.op = "item"
       \/ w = RecordEvent /\ w.op = "event"
       \/ \E r \in RowNames : w = Put(r) /\ w.op = "put" /\ w.row = r
       \/ \E r \in RowNames : w = Del(r) /\ w.op = "del" /\ w.row = r
  BY DEF Writes, Put, Del, PutItem, RecordEvent

LEMMA RequestEffect ==
    ASSUME NEW actor, actor.key \in Keys, actor.item \in Items,
           actor.todo \in Seq(Writes), Request(actor), Shapes
    PROVE  /\ actor.todo # <<>> /\ Head(actor.todo) \in Writes
           /\ state' = [state EXCEPT ![actor.key] =
                           IF Head(actor.todo) = PutItem THEN actor.item ELSE @]
           /\ state' \in [Keys -> Items \cup {NoItem}]
           /\ rows' \subseteq RowNames \X Keys
           /\ {r \in RowNames : <<r, actor.key>> \in rows'}
                = AfterWrites(RowsIn(actor.key, RowNames), <<Head(actor.todo)>>)
           /\ \A k \in Keys : k # actor.key =>
                 /\ state'[k] = state[k]
                 /\ RowsIn(k, RowNames)' = RowsIn(k, RowNames)
<1> DEFINE w == Head(actor.todo)
           k0 == actor.key
           S == RowsIn(k0, RowNames)
<1>1. actor.todo # <<>> /\ w \in Writes
  BY DEF Request
<1>2. /\ state' = IF w.op = "item" THEN [state EXCEPT ![k0] = actor.item] ELSE state
      /\ rows' = CASE w.op = "put" -> rows \cup {<<w.row, k0>>}
                   [] w.op = "del" -> rows \ {<<w.row, k0>>}
                   [] OTHER        -> rows
  BY DEF Request
<1>3. /\ state \in [Keys -> Items \cup {NoItem}] /\ rows \subseteq RowNames \X Keys
      /\ k0 \in Keys /\ actor.item \in Items
  BY DEF Shapes
<1>4. S \in SUBSET RowNames
  BY DEF RowsIn
<1> HIDE DEF w, k0
<1>5. CASE w = PutItem /\ w.op = "item"
  <2>1. rows' = rows /\ state' = [state EXCEPT ![k0] = actor.item]
    BY <1>2, <1>5
  <2>2. AfterWrites(S, <<w>>) = S
    BY <1>4, <1>5, OneWrite, RowNamesAre DEF NamedRows
  <2> QED
    BY <1>1, <1>3, <1>5, <2>1, <2>2 DEF RowsIn, w, k0
<1>6. CASE w = RecordEvent /\ w.op = "event"
  <2>1. rows' = rows /\ state' = state
    BY <1>2, <1>6
  <2>2. AfterWrites(S, <<w>>) = S
    BY <1>4, <1>6, OneWrite, RowNamesAre DEF NamedRows
  <2>3. w # PutItem
    BY <1>6 DEF PutItem, RecordEvent
  <2> QED
    BY <1>1, <1>3, <2>1, <2>2, <2>3 DEF RowsIn, w, k0
<1>7. ASSUME NEW r \in RowNames, w = Put(r), w.op = "put", w.row = r
      PROVE  /\ state' = state /\ rows' = rows \cup {<<r, k0>>} /\ w # PutItem
             /\ AfterWrites(S, <<w>>) = S \cup {r}
  <2>1. state' = state /\ rows' = rows \cup {<<r, k0>>}
    BY <1>2, <1>7
  <2>2. w # PutItem
    BY <1>7 DEF Put, PutItem
  <2> HIDE DEF S
  <2>3. AfterWrites(S, <<Put(r)>>) = S \cup {r}
    BY <1>4, OneWrite
  <2> QED
    BY <1>7, <2>1, <2>2, <2>3
<1>8. ASSUME NEW r \in RowNames, w = Del(r), w.op = "del", w.row = r
      PROVE  /\ state' = state /\ rows' = rows \ {<<r, k0>>} /\ w # PutItem
             /\ AfterWrites(S, <<w>>) = S \ {r}
  <2>1. state' = state /\ rows' = rows \ {<<r, k0>>}
    BY <1>2, <1>8
  <2>2. w # PutItem
    BY <1>8 DEF Del, PutItem
  <2> HIDE DEF S
  <2>3. AfterWrites(S, <<Del(r)>>) = S \ {r}
    BY <1>4, OneWrite
  <2> QED
    BY <1>8, <2>1, <2>2, <2>3
<1>9. CASE \/ \E r \in RowNames : w = Put(r) /\ w.op = "put" /\ w.row = r
           \/ \E r \in RowNames : w = Del(r) /\ w.op = "del" /\ w.row = r
  <2>1. PICK r \in RowNames :
            \/ /\ rows' = rows \cup {<<r, k0>>} /\ AfterWrites(S, <<w>>) = S \cup {r}
               /\ state' = state /\ w # PutItem
            \/ /\ rows' = rows \ {<<r, k0>>} /\ AfterWrites(S, <<w>>) = S \ {r}
               /\ state' = state /\ w # PutItem
    BY <1>7, <1>8, <1>9
  <2>3. \A k \in Keys : k # k0 => RowsIn(k, RowNames)' = RowsIn(k, RowNames)
    BY <2>1 DEF RowsIn
  <2>4. /\ rows' \subseteq RowNames \X Keys
        /\ {x \in RowNames : <<x, k0>> \in rows'} = AfterWrites(S, <<w>>)
    BY <1>3, <2>1 DEF RowsIn
  <2> QED
    BY <1>1, <1>3, <2>1, <2>3, <2>4 DEF w, k0
<1> QED
  BY <1>1, <1>5, <1>6, <1>9, WriteKinds

\* A mark's requests, and the item it will write.
LEMMA MarkWrites ==
    ASSUME NEW was \in Items \cup {NoItem}, NEW item \in Items
    PROVE  LET todo == Append(PutState(item, was.status), RecordEvent)
           IN  todo \in Seq(Writes) /\ todo # <<>> /\ Head(todo) = PutItem
  BY PutStateRight, Zenon

LEMMA ItemsMade ==
    ASSUME NEW was \in Items \cup {NoItem}
    PROVE  /\ \A s \in Statuses : [was EXCEPT !.status = s] \in Items
           /\ was \in Items => \A star \in BOOLEAN : [was EXCEPT !.featured = star] \in Items
           /\ \A verdict \in Items :
                [was EXCEPT !.status = verdict.status,
                            !.quarantined = IF verdict.status = "transcribed"
                                            THEN verdict.quarantined ELSE @] \in Items
<1> DEFINE wasFields == [status |-> was.status, quarantined |-> was.quarantined,
                         featured |-> was.featured]
<1>1. /\ was = wasFields /\ was.quarantined \in BOOLEAN /\ was.featured \in BOOLEAN
  BY NoItemIsNone
<1>4. ASSUME NEW s \in Statuses PROVE [was EXCEPT !.status = s] \in Items
  <2>1. [was EXCEPT !.status = s]
          = [status |-> s, quarantined |-> was.quarantined, featured |-> was.featured]
    BY <1>1
  <2> QED
    BY <1>1, <2>1, Zenon DEF Items
<1>5. ASSUME was \in Items, NEW star \in BOOLEAN
      PROVE  [was EXCEPT !.featured = star] \in Items
  <2>1. was.status \in Statuses
    BY <1>5, Zenon DEF Items
  <2>2. [was EXCEPT !.featured = star]
          = [status |-> was.status, quarantined |-> was.quarantined, featured |-> star]
    BY <1>1
  <2> QED
    BY <1>1, <2>1, <2>2, Zenon DEF Items
<1>6. ASSUME NEW verdict \in Items
      PROVE  [was EXCEPT !.status = verdict.status,
                         !.quarantined = IF verdict.status = "transcribed"
                                         THEN verdict.quarantined ELSE @] \in Items
  <2> DEFINE q == IF verdict.status = "transcribed" THEN verdict.quarantined
                                                    ELSE was.quarantined
  <2>1. verdict.status \in Statuses /\ verdict.quarantined \in BOOLEAN
    BY Zenon DEF Items
  <2>2. [was EXCEPT !.status = verdict.status,
                    !.quarantined = IF verdict.status = "transcribed"
                                    THEN verdict.quarantined ELSE @]
          = [status |-> verdict.status, quarantined |-> q, featured |-> was.featured]
    <3> DEFINE first == [was EXCEPT !.status = verdict.status]
    <3>1. [was EXCEPT !.status = verdict.status,
                      !.quarantined = IF verdict.status = "transcribed"
                                      THEN verdict.quarantined ELSE @]
            = [first EXCEPT !.quarantined = q]
      BY <1>1
    <3>2. first = [status |-> verdict.status, quarantined |-> was.quarantined,
                   featured |-> was.featured]
      BY <1>1
    <3> HIDE DEF first, q
    <3> QED
      BY <3>1, <3>2
  <2>3. q \in BOOLEAN
    BY <1>1, <2>1, Zenon
  <2> HIDE DEF q
  <2> QED
    BY <1>1, <2>1, <2>2, <2>3, Zenon DEF Items
<1> QED
  BY <1>4, <1>5, <1>6, Zenon

-----------------------------------------------------------------------------
(* The shape is kept, one lemma per action that writes or that picks clips.  *)

LEMMA TailIsShorter ==
    ASSUME NEW S, NEW q \in Seq(S), q # <<>>
    PROVE  /\ Head(q) \in S /\ Head(q) \in Range(q) /\ Tail(q) \in Seq(S)
           /\ Range(Tail(q)) \subseteq Range(q) /\ Len(Tail(q)) = Len(q) - 1
           /\ Len(q) \in Nat \ {0} /\ (Len(q) # 1 => Tail(q) # <<>>)
           /\ (Len(q) = 1 => Tail(q) = <<>>)
<1>1. Len(q) \in Nat \ {0} /\ Head(q) = q[1] /\ 1 \in DOMAIN q
  OBVIOUS
<1>2. Tail(q) \in Seq(S) /\ Len(Tail(q)) = Len(q) - 1
  OBVIOUS
<1>3. \A i \in 1 .. Len(Tail(q)) : Tail(q)[i] = q[i + 1] /\ i + 1 \in DOMAIN q
  OBVIOUS
<1>4. DOMAIN Tail(q) = 1 .. Len(Tail(q))
  OBVIOUS
<1>5. Range(Tail(q)) \subseteq Range(q)
  <2>1. ASSUME NEW i \in DOMAIN Tail(q) PROVE Tail(q)[i] \in Range(q)
    BY <1>3, <1>4 DEF Range
  <2> QED
    BY <2>1 DEF Range
<1>6. Head(q) \in Range(q)
  BY <1>1 DEF Range
<1>7. (Len(q) # 1 => Tail(q) # <<>>) /\ (Len(q) = 1 => Tail(q) = <<>>)
  BY <1>1, <1>2
<1> QED
  BY <1>1, <1>2, <1>5, <1>6, <1>7

LEMMA RangeIsHeadAndTail ==
    ASSUME NEW S, NEW q \in Seq(S), q # <<>>
    PROVE  Range(q) \subseteq {Head(q)} \cup Range(Tail(q))
<1>1. Len(q) \in Nat \ {0} /\ Head(q) = q[1] /\ DOMAIN q = 1 .. Len(q)
  OBVIOUS
<1>2. /\ DOMAIN Tail(q) = 1 .. Len(q) - 1
      /\ \A i \in 1 .. Len(q) - 1 : Tail(q)[i] = q[i + 1]
  OBVIOUS
<1>3. ASSUME NEW i \in DOMAIN q, i # 1 PROVE q[i] \in Range(Tail(q))
  <2>1. i - 1 \in 1 .. Len(q) - 1 /\ (i - 1) + 1 = i
    BY <1>1, <1>3
  <2>2. i - 1 \in DOMAIN Tail(q) /\ Tail(q)[i - 1] = q[i]
    BY <1>2, <2>1
  <2> QED
    BY <2>2 DEF Range
<1> QED
  BY <1>1, <1>3 DEF Range

LEMMA PollKeepsShape == TypeInv /\ Poll => TypeInv'
<1> SUFFICES ASSUME TypeInv, Poll PROVE TypeInv'
  OBVIOUS
<1>0. PICK ready \in First(ReadySlots(Waiting), Ready) :
         \E waiting \in First(Limit - Cardinality(ready), Waiting) :
         \E batch \in ByAge(ready \cup waiting) :
            /\ ready \cup waiting # {}
            /\ worker' = [IdleWorker EXCEPT !.pc = "claim", !.batch = batch,
                                            !.old = Range(batch) \cap expired]
  BY DEF Poll
<1>01. PICK waiting \in First(Limit - Cardinality(ready), Waiting) :
         \E batch \in ByAge(ready \cup waiting) :
            /\ ready \cup waiting # {}
            /\ worker' = [IdleWorker EXCEPT !.pc = "claim", !.batch = batch,
                                            !.old = Range(batch) \cap expired]
  BY <1>0
<1>1. PICK batch \in ByAge(ready \cup waiting) :
         /\ ready \cup waiting # {}
         /\ worker' = [IdleWorker EXCEPT !.pc = "claim", !.batch = batch,
                                         !.old = Range(batch) \cap expired]
  BY <1>01
<1>2. UNCHANGED <<table, api, operator, world, bounds>>
  BY DEF Poll
<1>3. /\ batch \in Seq(Keys) /\ batch # <<>> /\ Len(batch) <= Limit
      /\ \A k \in Range(batch) : \E r \in Found : r.key = k
  <2> HIDE DEF IdleWorker
  <2> QED
    BY <1>1, BatchOf
<1>4. worker' = [pc |-> "claim", batch |-> batch, old |-> Range(batch) \cap expired,
                 verdict |-> NoItem, key |-> 0, item |-> NoItem, todo |-> <<>>]
  BY <1>1 DEF IdleWorker
<1>5. Shapes' /\ Bookkeeping'
  BY <1>2, <1>3, <1>4 DEF TypeInv, Shapes, Workers, Bookkeeping, table, world, bounds
<1>6. WorkerShape' /\ ApiShape' /\ OperatorShape'
  BY <1>2, <1>3, <1>4 DEF TypeInv, WorkerShape, ApiShape, OperatorShape
<1>7. NothingComesFirst'
  <2> SUFFICES ASSUME NEW k \in Keys, state[k] = NoItem PROVE k \notin Range(worker'.batch)
    BY <1>2 DEF TypeInv, NothingComesFirst, RowsIn, table
  <2>1. ASSUME NEW r \in Found PROVE r.key # k
    <3>1. state[r.key].status \in Polled
      BY DEF Found
    <3> QED
      BY <3>1, NoItemIsNone DEF Polled
  <2> QED
    BY <1>3, <1>4, <2>1
<1> QED
  BY <1>5, <1>6, <1>7 DEF TypeInv

\* Claiming or settling a clip starts with the write of its item.
LEMMA MarkKeepsShape ==
    ASSUME TypeInv, NEW item \in Items, NEW pc \in {"claiming", "settling"},
           worker.pc # "poll", Mark(item, pc),
           UNCHANGED <<table, api, operator, world, bounds>>
    PROVE  TypeInv'
<1> DEFINE todo == Append(PutState(item, state[Clip].status), RecordEvent)
<1>1. /\ worker \in Workers /\ worker.batch \in Seq(Keys) /\ worker.batch # <<>>
      /\ state \in [Keys -> Items \cup {NoItem}]
  BY DEF TypeInv, Shapes, WorkerShape, Workers
<1>2. Clip \in Keys
  BY <1>1, TailIsShorter DEF Clip
<1>3. todo \in Seq(Writes) /\ todo # <<>>
  BY <1>1, <1>2, MarkWrites
<1> HIDE DEF todo
<1>4. /\ worker' = [worker EXCEPT !.pc = pc, !.key = Clip, !.item = item, !.todo = todo]
      /\ worker' \in Workers
  <2>1. worker' = [worker EXCEPT !.pc = pc, !.key = Clip, !.item = item, !.todo = todo]
    BY DEF Mark, todo
  <2> QED
    BY <1>1, <1>2, <1>3, <2>1 DEF Workers
<1>5. /\ worker'.batch = worker.batch /\ worker'.key = Clip /\ worker'.item = item
      /\ worker'.todo = todo /\ worker'.pc = pc /\ worker'.old = worker.old
  BY <1>1, <1>4 DEF Workers
<1>6. Clip' = Clip
  BY <1>5 DEF Clip
<1>7. Shapes' /\ Bookkeeping'
  BY <1>4, <1>5 DEF TypeInv, Shapes, Bookkeeping, table, world, bounds
<1>8. WorkerShape' /\ ApiShape' /\ OperatorShape'
  BY <1>3, <1>5, <1>6 DEF TypeInv, WorkerShape, ApiShape, OperatorShape
<1>9. NothingComesFirst'
  BY <1>5 DEF TypeInv, NothingComesFirst, RowsIn, table
<1> QED
  BY <1>7, <1>8, <1>9 DEF TypeInv

LEMMA ClaimKeepsShape == TypeInv /\ Claim => TypeInv'
<1> SUFFICES ASSUME TypeInv, Claim PROVE TypeInv'
  OBVIOUS
<1>1. Clip \in Keys /\ state[Clip] \in Items \cup {NoItem} /\ worker.pc # "poll"
  BY TailIsShorter DEF Claim, TypeInv, Shapes, Workers, WorkerShape, Clip
<1>2. [state[Clip] EXCEPT !.status = "processing"] \in Items
  <2>1. "processing" \in Statuses
    BY DEF Statuses, BacklogStatuses
  <2> QED
    BY <1>1, <2>1, ItemsMade
<1> QED
  BY <1>1, <1>2, MarkKeepsShape DEF Claim

LEMMA SettleKeepsShape == TypeInv /\ Settle => TypeInv'
<1> SUFFICES ASSUME TypeInv, Settle PROVE TypeInv'
  OBVIOUS
<1>1. /\ Clip \in Keys /\ state[Clip] \in Items \cup {NoItem} /\ worker.pc # "poll"
      /\ worker.verdict \in Items
  BY TailIsShorter DEF Settle, TypeInv, Shapes, Workers, WorkerShape, Clip
<1>2. [state[Clip] EXCEPT
         !.status = worker.verdict.status,
         !.quarantined = IF worker.verdict.status = "transcribed"
                         THEN worker.verdict.quarantined ELSE @] \in Items
  BY <1>1, ItemsMade
<1> QED
  BY <1>1, <1>2, MarkKeepsShape DEF Settle

LEMMA OutcomesAreItems ==
    Outcomes \cup {Verdict("error"), Verdict("waiting_upload")} \subseteq Items
<1>1. {"transcribed", "empty", "error", "waiting_upload"} \subseteq Statuses
  BY DEF Statuses, BacklogStatuses
<1>2. ASSUME NEW s \in Statuses PROVE Verdict(s) \in Items
  BY ItemsMade DEF Verdict
<1>3. ASSUME NEW q \in BOOLEAN
      PROVE  [status |-> "transcribed", quarantined |-> q, featured |-> FALSE] \in Items
  <2>1. "transcribed" \in Statuses
    BY <1>1
  <2>2. \A f \in BOOLEAN :
           [status |-> "transcribed", quarantined |-> q, featured |-> f] \in Items
    BY <2>1, Zenon DEF Items
  <2> QED
    BY <2>2, Zenon
<1> QED
  BY <1>1, <1>2, <1>3 DEF Outcomes

LEMMA FetchKeepsShape == TypeInv /\ Fetch => TypeInv'
<1> SUFFICES ASSUME TypeInv, Fetch PROVE TypeInv'
  OBVIOUS
<1>1. PICK verdict \in Items : worker' = [worker EXCEPT !.pc = "settle", !.verdict = verdict]
  BY OutcomesAreItems DEF Fetch
<1>2. worker.pc = "fetch" /\ UNCHANGED <<table, api, operator, world, bounds>>
  BY DEF Fetch
<1>3. worker \in Workers /\ worker' \in Workers
  BY <1>1 DEF TypeInv, Shapes, Workers
<1>4. /\ worker'.batch = worker.batch /\ worker'.key = worker.key /\ worker'.pc = "settle"
      /\ worker'.todo = worker.todo /\ worker'.verdict = verdict /\ worker'.old = worker.old
  BY <1>1, <1>3 DEF Workers
<1>5. Shapes' /\ Bookkeeping'
  BY <1>2, <1>3, <1>4 DEF TypeInv, Shapes, Bookkeeping, table, world, bounds
<1>6. WorkerShape' /\ ApiShape' /\ OperatorShape'
  BY <1>2, <1>4 DEF TypeInv, WorkerShape, ApiShape, OperatorShape
<1>7. NothingComesFirst'
  BY <1>2, <1>4 DEF TypeInv, NothingComesFirst, RowsIn, table
<1> QED
  BY <1>5, <1>6, <1>7 DEF TypeInv

LEMMA WriteComesFirst ==
    ASSUME TypeInv, NEW actor, actor.key \in Keys, actor.item \in Items,
           actor.todo \in Seq(Writes), Request(actor),
           state[actor.key] = NoItem => Head(actor.todo) = PutItem
    PROVE  \A k \in Keys : state'[k] = NoItem =>
             /\ state[k] = NoItem /\ k # actor.key /\ RowsIn(k, RowNames)' = {}
<1> SUFFICES ASSUME NEW k \in Keys, state'[k] = NoItem
             PROVE  /\ state[k] = NoItem /\ k # actor.key /\ RowsIn(k, RowNames)' = {}
  OBVIOUS
<1>1. /\ state \in [Keys -> Items \cup {NoItem}]
      /\ state' = [state EXCEPT ![actor.key] =
                      IF Head(actor.todo) = PutItem THEN actor.item ELSE @]
      /\ \A j \in Keys : j # actor.key =>
            state'[j] = state[j] /\ RowsIn(j, RowNames)' = RowsIn(j, RowNames)
  BY RequestEffect DEF TypeInv, Shapes
<1>2. k # actor.key
  <2> SUFFICES ASSUME k = actor.key PROVE FALSE
    OBVIOUS
  <2>1. state'[k] = IF Head(actor.todo) = PutItem THEN actor.item ELSE state[k]
    BY <1>1
  <2> QED
    BY <2>1, NoItemIsNone
<1>3. state[k] = NoItem /\ RowsIn(k, RowNames)' = RowsIn(k, RowNames)
  BY <1>1, <1>2
<1>4. RowsIn(k, RowNames) = {}
  BY <1>3 DEF TypeInv, NothingComesFirst
<1> QED
  BY <1>2, <1>3, <1>4

LEMMA ApiWritesKeepsShape == TypeInv /\ ApiWrites => TypeInv'
<1> SUFFICES ASSUME TypeInv, ApiWrites PROVE TypeInv'
  OBVIOUS
<1>1. /\ Request(api) /\ UNCHANGED <<worker, operator, uploaded, expired, bounds>>
      /\ api' = IF Len(api.todo) = 1 THEN IdleApi ELSE [api EXCEPT !.todo = Tail(@)]
      /\ answered' = IF Len(api.todo) = 1 THEN answered \cup {api.key} ELSE answered
  BY DEF ApiWrites
<1>2. api.todo # <<>> /\ api \in Actors
  BY <1>1 DEF Request, TypeInv, Shapes
<1>3. api.key \in Keys /\ api.item \in Items /\ api.todo \in Seq(Writes)
  BY <1>2 DEF TypeInv, ApiShape, Actors
<1>4. state[api.key] = NoItem => Head(api.todo) = PutItem
  BY <1>3 DEF TypeInv, NothingComesFirst
<1>5. \A k \in Keys : state'[k] = NoItem =>
             /\ state[k] = NoItem /\ k # api.key /\ RowsIn(k, RowNames)' = {}
  BY <1>1, <1>3, <1>4, WriteComesFirst
<1>6. state' \in [Keys -> Items \cup {NoItem}] /\ rows' \subseteq RowNames \X Keys
  BY <1>1, <1>3, RequestEffect DEF TypeInv
<1>7. /\ api' \in Actors
      /\ api'.key # 0 => api'.key = api.key /\ api'.item = api.item /\ api'.todo # <<>>
      /\ api'.key = 0 => api'.todo = <<>>
  <2>1. CASE Len(api.todo) = 1
    BY <1>1, <2>1 DEF IdleApi, NoWrites, Actors
  <2>2. CASE Len(api.todo) # 1
    <3>1. Tail(api.todo) \in Seq(Writes) /\ Tail(api.todo) # <<>>
      BY <1>2, <1>3, <2>2, TailIsShorter
    <3>2. api' = [key |-> api.key, item |-> api.item, todo |-> Tail(api.todo)]
      BY <1>1, <1>2, <2>2 DEF Actors
    <3>3. api.key # 0
      BY <1>3, ParametersAssumption
    <3> QED
      BY <1>2, <3>1, <3>2, <3>3 DEF Actors
  <2> QED
    BY <2>1, <2>2
<1>8. Shapes' /\ Bookkeeping'
  BY <1>1, <1>3, <1>6, <1>7 DEF TypeInv, Shapes, Bookkeeping, bounds
<1>9. WorkerShape' /\ ApiShape' /\ OperatorShape'
  BY <1>1, <1>3, <1>7 DEF TypeInv, WorkerShape, ApiShape, OperatorShape, Clip
<1>10. NothingComesFirst'
  <2> SUFFICES ASSUME NEW k \in Keys, state'[k] = NoItem
               PROVE  /\ RowsIn(k, RowNames)' = {} /\ k \notin Range(worker'.batch)
                      /\ operator'.key # k /\ api'.key # k
    BY DEF NothingComesFirst
  <2>1. state[k] = NoItem /\ k # api.key /\ RowsIn(k, RowNames)' = {} /\ k # 0
    BY <1>5, ParametersAssumption
  <2> QED
    BY <1>1, <1>7, <2>1 DEF TypeInv, NothingComesFirst
<1> QED
  BY <1>8, <1>9, <1>10 DEF TypeInv

\* What the worker keeps when its last request is made.
LEMMA WorkerMovesOn ==
    ASSUME TypeInv, WorkerWrites
    PROVE  /\ worker.pc \in {"claiming", "settling"} /\ worker.todo # <<>>
           /\ worker.key = Clip /\ Clip \in Keys /\ Clip \in Range(worker.batch)
           /\ worker.todo \in Seq(Writes)
           /\ \/ /\ Len(worker.todo) # 1
                 /\ worker' = [worker EXCEPT !.todo = Tail(@)]
                 /\ Tail(worker.todo) \in Seq(Writes) /\ Tail(worker.todo) # <<>>
              \/ /\ Len(worker.todo) = 1 /\ worker'.key = 0 /\ worker'.todo = <<>>
                 /\ worker'.pc \in {"poll", "claim", "fetch"}
           /\ worker' \in Workers
           /\ Range(worker'.batch) \subseteq Range(worker.batch)
           /\ worker'.pc # "poll" => worker'.batch # <<>>
           /\ Len(worker'.batch) <= Limit /\ worker'.old \subseteq worker.old
<1>1. worker.todo # <<>> /\ worker \in Workers
  BY DEF WorkerWrites, Request, TypeInv, Shapes
<1>2. /\ worker.pc \in {"claiming", "settling"} /\ worker.key = Clip
      /\ worker.batch \in Seq(Keys) /\ worker.batch # <<>> /\ Len(worker.batch) <= Limit
      /\ worker.todo \in Seq(Writes)
  BY <1>1 DEF TypeInv, WorkerShape, Workers
<1>3. Clip \in Keys /\ Clip \in Range(worker.batch)
  BY <1>2, TailIsShorter DEF Clip
<1>4. CASE Len(worker.todo) # 1
  <2>1. Tail(worker.todo) \in Seq(Writes) /\ Tail(worker.todo) # <<>>
    BY <1>1, <1>2, <1>4, TailIsShorter
  <2>2. worker' = [worker EXCEPT !.todo = Tail(@)]
    BY <1>4 DEF WorkerWrites
  <2>3. /\ worker' \in Workers /\ worker'.batch = worker.batch /\ worker'.old = worker.old
    BY <1>1, <2>1, <2>2 DEF Workers
  <2> QED
    BY <1>1, <1>2, <1>3, <1>4, <2>1, <2>2, <2>3
<1>5. CASE Len(worker.todo) = 1
  <2>1. worker' = AfterMark
    BY <1>5 DEF WorkerWrites
  <2>2. CASE worker.pc = "claiming"
    <3>1. worker' = [worker EXCEPT !.pc = "fetch", !.key = 0, !.item = NoItem, !.todo = <<>>]
      BY <2>1, <2>2 DEF AfterMark
    <3>2. worker' = [pc |-> "fetch", batch |-> worker.batch, old |-> worker.old,
                     verdict |-> worker.verdict, key |-> 0, item |-> NoItem, todo |-> <<>>]
      BY <1>1, <3>1 DEF Workers
    <3>3. <<>> \in Seq(Writes)
      OBVIOUS
    <3>4. worker' \in Workers
      BY <1>1, <3>2, <3>3 DEF Workers
    <3> QED
      BY <1>1, <1>2, <1>3, <1>5, <3>2, <3>4
  <2>3. CASE worker.pc # "claiming" /\ Len(worker.batch) = 1
    <3>1. worker' = IdleWorker
      BY <2>1, <2>3 DEF AfterMark
    <3>2. /\ worker' \in Workers /\ worker'.batch = <<>> /\ worker'.old = {}
          /\ worker'.key = 0 /\ worker'.todo = <<>> /\ worker'.pc = "poll"
      BY <3>1 DEF Workers, IdleWorker
    <3> QED
      BY <1>1, <1>2, <1>3, <1>5, <3>2, ParametersAssumption DEF Range
  <2>4. CASE worker.pc # "claiming" /\ Len(worker.batch) # 1
    <3>1. worker' = [pc |-> "claim", batch |-> Tail(worker.batch), old |-> worker.old,
                     verdict |-> NoItem, key |-> 0, item |-> NoItem, todo |-> <<>>]
      BY <2>1, <2>4 DEF AfterMark, IdleWorker
    <3>2. /\ Tail(worker.batch) \in Seq(Keys) /\ Tail(worker.batch) # <<>>
          /\ Range(Tail(worker.batch)) \subseteq Range(worker.batch)
          /\ Len(Tail(worker.batch)) <= Limit
      BY <1>2, <2>4, TailIsShorter, ParametersAssumption
    <3>3. worker' \in Workers
      BY <1>1, <3>1, <3>2 DEF Workers
    <3> QED
      BY <1>1, <1>2, <1>3, <1>5, <3>1, <3>2, <3>3
  <2> QED
    BY <2>2, <2>3, <2>4
<1> QED
  BY <1>4, <1>5

LEMMA WorkerWritesKeepsShape == TypeInv /\ WorkerWrites => TypeInv'
<1> SUFFICES ASSUME TypeInv, WorkerWrites PROVE TypeInv'
  OBVIOUS
<1>1. Request(worker) /\ UNCHANGED <<api, operator, world, bounds>>
  BY DEF WorkerWrites
<1>2. /\ worker.pc \in {"claiming", "settling"} /\ worker.key = Clip /\ Clip \in Keys
      /\ Clip \in Range(worker.batch) /\ worker.item \in Items /\ worker.todo \in Seq(Writes)
  BY WorkerMovesOn DEF TypeInv, WorkerShape
<1>3. state[worker.key] = NoItem => Head(worker.todo) = PutItem
  BY <1>2 DEF TypeInv, NothingComesFirst
<1>4. \A k \in Keys : state'[k] = NoItem =>
             /\ state[k] = NoItem /\ k # worker.key /\ RowsIn(k, RowNames)' = {}
  BY <1>1, <1>2, <1>3, WriteComesFirst
<1>5. state' \in [Keys -> Items \cup {NoItem}] /\ rows' \subseteq RowNames \X Keys
  BY <1>1, <1>2, RequestEffect DEF TypeInv
<1>6. /\ worker' \in Workers /\ Range(worker'.batch) \subseteq Range(worker.batch)
      /\ worker'.old \subseteq worker.old
  BY WorkerMovesOn
<1>7. Shapes' /\ Bookkeeping'
  BY <1>1, <1>5, <1>6 DEF TypeInv, Shapes, Bookkeeping, world, bounds
<1>8. WorkerShape'
  <2>1. CASE /\ Len(worker.todo) # 1
             /\ worker' = [worker EXCEPT !.todo = Tail(@)]
             /\ Tail(worker.todo) \in Seq(Writes) /\ Tail(worker.todo) # <<>>
    <3>1. worker \in Workers
      BY DEF TypeInv, Shapes
    <3>2. /\ worker'.pc = worker.pc /\ worker'.batch = worker.batch /\ worker'.todo # <<>>
          /\ worker'.key = worker.key /\ worker'.item = worker.item
      BY <2>1, <3>1 DEF Workers
    <3> QED
      BY <1>2, <3>2 DEF TypeInv, WorkerShape, Clip
  <2>2. CASE worker'.key = 0 /\ worker'.todo = <<>> /\ worker'.pc \in {"poll", "claim", "fetch"}
    BY <2>2, WorkerMovesOn DEF WorkerShape
  <2> QED
    BY <2>1, <2>2, WorkerMovesOn
<1>9. ApiShape' /\ OperatorShape'
  BY <1>1 DEF TypeInv, ApiShape, OperatorShape
<1>10. NothingComesFirst'
  <2> SUFFICES ASSUME NEW k \in Keys, state'[k] = NoItem
               PROVE  /\ RowsIn(k, RowNames)' = {} /\ k \notin Range(worker'.batch)
                      /\ operator'.key # k /\ (api'.key = k => Head(api'.todo) = PutItem)
    BY DEF NothingComesFirst
  <2>1. state[k] = NoItem /\ RowsIn(k, RowNames)' = {}
    BY <1>4
  <2> QED
    BY <1>1, <1>6, <2>1 DEF TypeInv, NothingComesFirst
<1> QED
  BY <1>7, <1>8, <1>9, <1>10 DEF TypeInv

LEMMA OperatorWritesKeepsShape == TypeInv /\ OperatorWrites => TypeInv'
<1> SUFFICES ASSUME TypeInv, OperatorWrites PROVE TypeInv'
  OBVIOUS
<1>1. /\ Request(operator) /\ UNCHANGED <<api, worker, world, bounds>>
      /\ operator' = IF Len(operator.todo) = 1 THEN IdleOperator
                     ELSE [operator EXCEPT !.todo = Tail(@)]
  BY DEF OperatorWrites
<1>2. operator.todo # <<>> /\ operator \in Operators
  BY <1>1 DEF Request, TypeInv, Shapes
<1>3. /\ operator.pc = "writing" /\ operator.key \in Keys /\ operator.item \in Items
      /\ operator.todo \in Seq(Writes)
  BY <1>2 DEF TypeInv, OperatorShape, Operators
<1>4. state[operator.key] # NoItem
  BY <1>3 DEF TypeInv, NothingComesFirst
<1>5. \A k \in Keys : state'[k] = NoItem =>
             /\ state[k] = NoItem /\ k # operator.key /\ RowsIn(k, RowNames)' = {}
  BY <1>1, <1>3, <1>4, WriteComesFirst
<1>6. state' \in [Keys -> Items \cup {NoItem}] /\ rows' \subseteq RowNames \X Keys
  BY <1>1, <1>3, RequestEffect DEF TypeInv
<1>7. /\ operator' \in Operators
      /\ operator'.key \in {0, operator.key}
      /\ OperatorShape'
  <2>1. CASE Len(operator.todo) = 1
    BY <1>1, <2>1 DEF IdleOperator, Operators, OperatorShape
  <2>2. CASE Len(operator.todo) # 1
    <3>1. Tail(operator.todo) \in Seq(Writes) /\ Tail(operator.todo) # <<>>
      BY <1>2, <1>3, <2>2, TailIsShorter
    <3>2. operator' = [operator EXCEPT !.todo = Tail(@)]
      BY <1>1, <2>2
    <3>3. /\ operator' \in Operators /\ operator'.pc = operator.pc
          /\ operator'.key = operator.key /\ operator'.item = operator.item
          /\ operator'.todo # <<>>
      BY <1>2, <3>1, <3>2 DEF Operators
    <3> QED
      BY <1>3, <3>3 DEF TypeInv, OperatorShape
  <2> QED
    BY <2>1, <2>2
<1>8. Shapes' /\ Bookkeeping'
  BY <1>1, <1>6, <1>7 DEF TypeInv, Shapes, Bookkeeping, world, bounds
<1>9. WorkerShape' /\ ApiShape'
  BY <1>1 DEF TypeInv, WorkerShape, ApiShape, Clip
<1>10. NothingComesFirst'
  <2> SUFFICES ASSUME NEW k \in Keys, state'[k] = NoItem
               PROVE  /\ RowsIn(k, RowNames)' = {} /\ k \notin Range(worker'.batch)
                      /\ operator'.key # k /\ (api'.key = k => Head(api'.todo) = PutItem)
    BY DEF NothingComesFirst
  <2>1. state[k] = NoItem /\ k # operator.key /\ RowsIn(k, RowNames)' = {} /\ k # 0
    BY <1>5, ParametersAssumption
  <2> QED
    BY <1>1, <1>7, <2>1 DEF TypeInv, NothingComesFirst
<1> QED
  BY <1>7, <1>8, <1>9, <1>10 DEF TypeInv

\* The item and the requests of a presign request for a clip that is still pending.
PendingItem == [status |-> "pending", quarantined |-> FALSE, featured |-> FALSE]

LEMMA PendingIsItem == PendingItem \in Items
<1>1. "pending" \in Statuses
  BY DEF Statuses, BacklogStatuses
<1>2. \A q, f \in BOOLEAN : [status |-> "pending", quarantined |-> q, featured |-> f] \in Items
  BY <1>1, Zenon DEF Items
<1> QED
  BY <1>2, Zenon DEF PendingItem

LEMMA PresignKeepsShape ==
    ASSUME TypeInv, NEW k \in Keys, Presign(k) PROVE TypeInv'
<1> DEFINE todo == Append(PutState(PendingItem, state[k].status), RecordEvent)
<1>1. /\ api = IdleApi /\ presigns[k] < MaxPresigns
      /\ presigns' = [presigns EXCEPT ![k] = @ + 1]
      /\ api' = IF state[k].status \in {"none", "pending"}
                THEN [key |-> k, item |-> PendingItem, todo |-> todo] ELSE IdleApi
      /\ answered' = IF state[k].status \in {"none", "pending"}
                     THEN answered ELSE answered \cup {k}
      /\ UNCHANGED <<table, worker, operator, uploaded, expired, stars, crashes, faults>>
  BY DEF Presign, PendingItem
<1>2. state[k] \in Items \cup {NoItem}
  BY DEF TypeInv, Shapes
<1>3. todo \in Seq(Writes) /\ todo # <<>> /\ Head(todo) = PutItem
  BY <1>2, MarkWrites, PendingIsItem
<1> HIDE DEF todo
<1>4. api' \in Actors /\ ApiShape' /\ (api'.key # 0 => Head(api'.todo) = PutItem)
  <2>1. CASE state[k].status \in {"none", "pending"}
    <3>1. api' = [key |-> k, item |-> PendingItem, todo |-> todo] /\ k # 0
      BY <1>1, <2>1, ParametersAssumption
    <3> QED
      BY <1>3, <3>1, PendingIsItem DEF Actors, ApiShape
  <2>2. CASE state[k].status \notin {"none", "pending"}
    <3>1. api' = [key |-> 0, item |-> NoItem, todo |-> <<>>]
      BY <1>1, <2>2 DEF IdleApi, NoWrites
    <3>2. <<>> \in Seq(Writes)
      OBVIOUS
    <3> QED
      BY <3>1, <3>2 DEF Actors, ApiShape
  <2> QED
    BY <2>1, <2>2
<1>5. presigns' \in [Keys -> 0 .. MaxPresigns]
  BY <1>1, ParametersAssumption DEF TypeInv, Shapes
<1>6. Shapes' /\ Bookkeeping'
  BY <1>1, <1>4, <1>5 DEF TypeInv, Shapes, Bookkeeping, table
<1>7. WorkerShape' /\ OperatorShape'
  BY <1>1 DEF TypeInv, WorkerShape, OperatorShape, Clip
<1>8. NothingComesFirst'
  BY <1>1, <1>4, ParametersAssumption DEF TypeInv, NothingComesFirst, RowsIn, table
<1> QED
  BY <1>4, <1>6, <1>7, <1>8 DEF TypeInv

LEMMA FindClipKeepsShape ==
    ASSUME TypeInv, NEW k \in Keys, NEW star \in BOOLEAN, FindClip(k, star) PROVE TypeInv'
<1>1. /\ stars < MaxStars /\ stars' = stars + 1
      /\ <<<<"public", "channel">>, k>> \in rows
      /\ UNCHANGED <<table, api, worker, world, presigns, crashes, faults>>
      /\ operator' = [IdleOperator EXCEPT !.pc = "found", !.key = k, !.star = star]
  BY DEF FindClip
<1>2. operator' = [pc |-> "found", star |-> star, key |-> k, item |-> NoItem, todo |-> <<>>]
  BY <1>1 DEF IdleOperator
<1>3. <<>> \in Seq(Writes) /\ k # 0
  BY ParametersAssumption
<1>4. operator' \in Operators /\ OperatorShape'
  <2>1. operator' \in Operators
    BY <1>2, <1>3, Zenon DEF Operators
  <2> QED
    BY <1>2, <1>3, <2>1 DEF OperatorShape
<1>5. Shapes' /\ Bookkeeping'
  BY <1>1, <1>4, ParametersAssumption DEF TypeInv, Shapes, Bookkeeping, table, world
<1>6. WorkerShape' /\ ApiShape'
  BY <1>1 DEF TypeInv, WorkerShape, ApiShape, Clip
<1>7. NothingComesFirst'
  <2>1. state[k] # NoItem
    <3>1. <<"public", "channel">> \in RowsIn(k, RowNames)
      BY <1>1, RowNamesAre DEF RowsIn, NamedRows
    <3> QED
      BY <3>1 DEF TypeInv, NothingComesFirst
  <2>2. operator'.key = k
    BY <1>2
  <2> QED
    BY <1>1, <2>1, <2>2 DEF TypeInv, NothingComesFirst, RowsIn, table
<1> QED
  BY <1>4, <1>5, <1>6, <1>7 DEF TypeInv

LEMMA StarKeepsShape == TypeInv /\ Star => TypeInv'
<1> SUFFICES ASSUME TypeInv, Star PROVE TypeInv'
  OBVIOUS
<1> DEFINE item == [state[operator.key] EXCEPT !.featured = operator.star]
           todo == Append(PutState(item, "transcribed"), RecordEvent)
<1>1. /\ operator.pc = "found" /\ UNCHANGED <<table, api, worker, world, bounds>>
      /\ operator' = [operator EXCEPT !.pc = "writing", !.item = item, !.todo = todo]
  BY DEF Star
<1>2. operator \in Operators /\ operator.key \in Keys
  BY <1>1 DEF TypeInv, Shapes, OperatorShape, Operators
<1>3. state[operator.key] \in Items /\ operator.star \in BOOLEAN
  <2>1. state[operator.key] \in Items \cup {NoItem} /\ state[operator.key] # NoItem
    BY <1>2 DEF TypeInv, Shapes, NothingComesFirst
  <2> QED
    BY <1>2, <2>1, Zenon DEF Operators
<1>4. item \in Items
  BY <1>3, ItemsMade, Zenon
<1> HIDE DEF item
<1>5. todo \in Seq(Writes) /\ todo # <<>>
  <2>1. [item EXCEPT !.status = "transcribed"] \in Items
    BY <1>4, ItemsMade DEF Statuses
  <2>2. [item EXCEPT !.status = "transcribed"].status = "transcribed"
    BY <1>4, NoItemIsNone
  <2> QED
    BY <1>4, <2>1, <2>2, MarkWrites
<1> HIDE DEF todo
<1>6. /\ operator' \in Operators /\ operator'.key = operator.key /\ OperatorShape'
  <2>1. operator' = [pc |-> "writing", star |-> operator.star, key |-> operator.key,
                     item |-> item, todo |-> todo]
    BY <1>1, <1>2 DEF Operators
  <2>2. operator' \in Operators
    BY <1>2, <1>3, <1>4, <1>5, <2>1, Zenon DEF Operators
  <2> QED
    BY <1>2, <1>4, <1>5, <2>1, <2>2, ParametersAssumption DEF OperatorShape
<1>7. Shapes' /\ Bookkeeping'
  BY <1>1, <1>6 DEF TypeInv, Shapes, Bookkeeping, table, world, bounds
<1>8. WorkerShape' /\ ApiShape'
  BY <1>1 DEF TypeInv, WorkerShape, ApiShape, Clip
<1>9. NothingComesFirst'
  BY <1>1, <1>6 DEF TypeInv, NothingComesFirst, RowsIn, table
<1> QED
  BY <1>6, <1>7, <1>8, <1>9 DEF TypeInv

LEMMA ResetKeepsShape == TypeInv /\ (WorkerFault \/ WorkerCrash \/ ApiCrash) => TypeInv'
<1> SUFFICES ASSUME TypeInv, WorkerFault \/ WorkerCrash \/ ApiCrash PROVE TypeInv'
  OBVIOUS
<1>1. UNCHANGED <<table, operator, world, presigns, stars>>
  BY DEF WorkerFault, WorkerCrash, ApiCrash
<1>2. crashes' \in 0 .. MaxCrashes /\ faults' \in 0 .. MaxFaults
  BY ParametersAssumption DEF WorkerFault, WorkerCrash, ApiCrash, TypeInv, Bookkeeping
<1>3. <<>> \in Seq(Writes) /\ <<>> \in Seq(Keys)
  OBVIOUS
<1>4. /\ api' \in Actors /\ ApiShape' /\ api'.key \in {0, api.key}
      /\ api'.key # 0 => api' = api
  <2>1. CASE api' = api
    BY <2>1 DEF TypeInv, Shapes, ApiShape
  <2>2. CASE api' = IdleApi
    BY <2>2, <1>3 DEF Actors, ApiShape, IdleApi, NoWrites
  <2> QED
    BY <2>1, <2>2 DEF WorkerFault, WorkerCrash, ApiCrash
<1>5. /\ worker' \in Workers /\ WorkerShape' /\ Range(worker'.batch) \subseteq Range(worker.batch)
      /\ worker'.old \subseteq worker.old
  <2>1. CASE worker' = worker
    BY <2>1 DEF TypeInv, Shapes, WorkerShape, Clip
  <2>2. CASE worker' = IdleWorker
    <3>1. worker' = [pc |-> "poll", batch |-> <<>>, old |-> {}, verdict |-> NoItem,
                     key |-> 0, item |-> NoItem, todo |-> <<>>]
      BY <2>2 DEF IdleWorker
    <3>2. worker' \in Workers
      BY <1>3, <3>1 DEF Workers
    <3> QED
      BY <3>1, <3>2, ParametersAssumption DEF WorkerShape, Range
  <2>3. CASE WorkerFault /\ Settling
    <3>1. worker' = [worker EXCEPT !.pc = "settle", !.key = 0, !.item = NoItem,
                                   !.todo = <<>>, !.verdict = Verdict("error")]
      BY <2>3 DEF WorkerFault
    <3>2. worker \in Workers
      BY DEF TypeInv, Shapes
    <3>3. worker' = [pc |-> "settle", batch |-> worker.batch, old |-> worker.old,
                     verdict |-> Verdict("error"), key |-> 0, item |-> NoItem, todo |-> <<>>]
      BY <3>1, <3>2 DEF Workers
    <3>4. Verdict("error") \in Items /\ worker.batch # <<>> /\ Len(worker.batch) <= Limit
      BY <2>3, OutcomesAreItems DEF Settling, TypeInv, WorkerShape
    <3>5. worker' \in Workers
      BY <1>3, <3>2, <3>3, <3>4 DEF Workers
    <3> QED
      BY <3>3, <3>4, <3>5 DEF WorkerShape
  <2> QED
    BY <2>1, <2>2, <2>3 DEF WorkerFault, WorkerCrash, ApiCrash
<1>6. Shapes' /\ Bookkeeping'
  BY <1>1, <1>2, <1>4, <1>5 DEF TypeInv, Shapes, Bookkeeping, table, world
<1>7. OperatorShape'
  BY <1>1 DEF TypeInv, OperatorShape
<1>8. NothingComesFirst'
  <2> SUFFICES ASSUME NEW k \in Keys, state'[k] = NoItem
               PROVE  /\ RowsIn(k, RowNames)' = {} /\ k \notin Range(worker'.batch)
                      /\ operator'.key # k /\ (api'.key = k => Head(api'.todo) = PutItem)
    BY DEF NothingComesFirst
  <2>1. state[k] = NoItem /\ RowsIn(k, RowNames)' = RowsIn(k, RowNames) /\ k # 0
    BY <1>1, ParametersAssumption DEF table, RowsIn
  <2> QED
    BY <1>1, <1>4, <1>5, <2>1 DEF TypeInv, NothingComesFirst
<1> QED
  BY <1>4, <1>5, <1>6, <1>7, <1>8 DEF TypeInv

LEMMA TypeStep == TypeInv /\ [Next]_vars => TypeInv'
<1> SUFFICES ASSUME TypeInv, [Next]_vars PROVE TypeInv'
  OBVIOUS
<1>1. ASSUME NEW k \in Keys, Upload(k) \/ Expire(k) PROVE TypeInv'
  BY <1>1 DEF Upload, Expire, TypeInv, Shapes, WorkerShape, ApiShape, OperatorShape,
              NothingComesFirst, Bookkeeping, RowsIn, Clip, table, bounds
<1>2. CASE UNCHANGED vars
  BY <1>2 DEF vars, table, world, bounds, TypeInv, Shapes, WorkerShape, ApiShape,
              OperatorShape, NothingComesFirst, Bookkeeping, RowsIn, Clip
<1> QED
  BY <1>1, <1>2, PollKeepsShape, ClaimKeepsShape, SettleKeepsShape, FetchKeepsShape,
     ApiWritesKeepsShape, WorkerWritesKeepsShape, OperatorWritesKeepsShape,
     PresignKeepsShape, FindClipKeepsShape, StarKeepsShape, ResetKeepsShape
     DEF Next, Work

\* Every variable has the shape the code gives it; in particular a batch has at most
\* --limit clips and an actor's requests are those of one _put_state call.
THEOREM QueueTypes == Spec => []TypeOK
<1>1. Spec => []TypeInv
  BY TypeInit, TypeStep, PTL DEF Spec
<1> QED
  BY <1>1, TypesHold, PTL

-----------------------------------------------------------------------------
(* A clip presigned once, that no crash, fault or star has hit.             *)

FirstWrites ==
    <<PutItem, Put(StatusRow("pending")), Put(QueueRow("pending")), RecordEvent>>

PendingRows == <<Put(StatusRow("pending")), Put(QueueRow("pending")), RecordEvent>>

LastRow == <<Put(QueueRow("pending")), RecordEvent>>

\* The API is still writing the clip's first rows, and nobody else has seen it.
Registering(k) ==
    /\ api.key = k /\ api.item = PendingItem
    /\ k \notin Range(worker.batch)
    /\ \/ /\ api.todo = FirstWrites
          /\ state[k] = NoItem /\ RowsIn(k, RowNames) = {}
       \/ /\ api.todo = PendingRows
          /\ state[k] = PendingItem /\ RowsIn(k, RowNames) = {}
       \/ /\ api.todo = LastRow
          /\ state[k] = PendingItem /\ RowsIn(k, RowNames) = {StatusRow("pending")}

\* The worker is writing it: its requests will bring the rows to those of the item.
BeingMarked(k) ==
    /\ AfterWrites(RowsIn(k, RowNames), worker.todo) = RowsOf(worker.item)
    /\ PutItem \in Range(worker.todo) \/ state[k] = worker.item

Sound(k) ==
    /\ operator.key # k
    /\ \/ Registering(k)
       \/ /\ api.key = k => api.todo = <<RecordEvent>>
          /\ worker.key = k => BeingMarked(k)
          /\ worker.key # k => RowsRight(k)

\* A clip that was never presigned is unknown.
Unregistered(k) == presigns[k] = 0 => state[k] = NoItem /\ api.key # k

SoundBut(D) == \A k \in Keys \ D : presigns[k] = 1 => Sound(k)

ContainmentInv ==
    /\ TypeInv
    /\ \A k \in Keys : Unregistered(k)
    /\ \E D \in SUBSET Keys : Cardinality(D) <= crashes + faults + stars /\ SoundBut(D)

LEMMA FourWrites ==
    ASSUME NEW a \in Writes, NEW b \in Writes, NEW c \in Writes, NEW d \in Writes
    PROVE  Append(<<a>> \o <<>> \o <<b, c>> \o <<>> \o <<>> \o <<>>, d) = <<a, b, c, d>>
<1> DEFINE s == Append(<<a>> \o <<>> \o <<b, c>> \o <<>> \o <<>> \o <<>>, d)
           t == <<a, b, c, d>>
<1>1. s \in Seq(Writes) /\ t \in Seq(Writes) /\ Len(s) = 4 /\ Len(t) = 4
  OBVIOUS
<1>2. s[1] = a /\ s[2] = b /\ s[3] = c /\ s[4] = d
  OBVIOUS
<1>3. t[1] = a /\ t[2] = b /\ t[3] = c /\ t[4] = d
  OBVIOUS
<1> HIDE DEF s, t
<1>4. \A i \in 1 .. 4 : s[i] = t[i]
  BY <1>2, <1>3
<1>5. s = t
  BY <1>1, <1>4, SeqEqual
<1> QED
  BY <1>5 DEF s, t

LEMMA PendingRowsAre ==
    /\ Append(PutState(PendingItem, "none"), RecordEvent) = FirstWrites
    /\ Len(FirstWrites) = 4 /\ Head(FirstWrites) = PutItem /\ Tail(FirstWrites) = PendingRows
    /\ Len(PendingRows) = 3 /\ Head(PendingRows) = Put(StatusRow("pending"))
    /\ Tail(PendingRows) = LastRow
    /\ Len(LastRow) = 2 /\ Head(LastRow) = Put(QueueRow("pending"))
    /\ Tail(LastRow) = <<RecordEvent>>
    /\ StatusRow("pending") \in RowNames /\ QueueRow("pending") \in RowNames
    /\ RowsOf(PendingItem) = {StatusRow("pending"), QueueRow("pending")}
    /\ RowsOf(NoItem) = {}
<1>1. StatusRow("pending") \in RowNames /\ QueueRow("pending") \in RowNames
  BY RowNamesAre DEF Statuses, BacklogStatuses
<1>2. RowsOf(PendingItem) = {StatusRow("pending"), QueueRow("pending")} /\ RowsOf(NoItem) = {}
  BY DEF RowsOf, PendingItem, NoItem, BacklogStatuses
<1>3. \A a, b, c, d :
         /\ Len(<<a, b, c, d>>) = 4 /\ Head(<<a, b, c, d>>) = a
         /\ Tail(<<a, b, c, d>>) = <<b, c, d>>
  OBVIOUS
<1>4. \A b, c, d : /\ Len(<<b, c, d>>) = 3 /\ Head(<<b, c, d>>) = b
                   /\ Tail(<<b, c, d>>) = <<c, d>>
  OBVIOUS
<1>5. \A c, d : /\ Len(<<c, d>>) = 2 /\ Head(<<c, d>>) = c /\ Tail(<<c, d>>) = <<d>>
  OBVIOUS
<1>6. Append(PutState(PendingItem, "none"), RecordEvent) = FirstWrites
  <2> DEFINE rest == <<Put(StatusRow("pending")), Put(QueueRow("pending"))>>
  <2>1. PutState(PendingItem, "none") = <<PutItem>> \o <<>> \o rest \o <<>> \o <<>> \o <<>>
    BY DEF PutState, PendingItem, When, BacklogStatuses
  <2>2. /\ PutItem \in Writes /\ Put(StatusRow("pending")) \in Writes
        /\ Put(QueueRow("pending")) \in Writes /\ RecordEvent \in Writes
    BY <1>1, OneWrite
  <2>3. Append(<<PutItem>> \o <<>> \o rest \o <<>> \o <<>> \o <<>>, RecordEvent) = FirstWrites
    BY <2>2, FourWrites, Zenon DEF FirstWrites
  <2> QED
    BY <2>1, <2>3, Zenon
<1>7. Len(FirstWrites) = 4 /\ Head(FirstWrites) = PutItem /\ Tail(FirstWrites) = PendingRows
  BY <1>3, ZenonT(60) DEF FirstWrites, PendingRows
<1>8. /\ Len(PendingRows) = 3 /\ Head(PendingRows) = Put(StatusRow("pending"))
      /\ Tail(PendingRows) = LastRow
  BY <1>4, Zenon DEF PendingRows, LastRow
<1>9. /\ Len(LastRow) = 2 /\ Head(LastRow) = Put(QueueRow("pending"))
      /\ Tail(LastRow) = <<RecordEvent>>
  BY <1>5, Zenon DEF LastRow
<1> QED
  BY <1>1, <1>2, <1>6, <1>7, <1>8, <1>9, Zenon

LEMMA ContainmentInit == Init => ContainmentInv
<1> SUFFICES ASSUME Init PROVE ContainmentInv
  OBVIOUS
<1>1. TypeInv
  BY TypeInit
<1>2. \A k \in Keys : Unregistered(k)
  BY ParametersAssumption DEF Init, Unregistered, IdleApi, NoWrites
<1>3. Cardinality({}) <= crashes + faults + stars /\ SoundBut({})
  BY FS_EmptySet DEF Init, SoundBut
<1> QED
  BY <1>1, <1>2, <1>3 DEF ContainmentInv

-----------------------------------------------------------------------------
(* What each step does to a sound clip.                                    *)

LEMMA SoundPresign ==
    ASSUME TypeInv, NEW k \in Keys, Unregistered(k), presigns[k] = 1 => Sound(k),
           NEW j \in Keys, Presign(j), presigns'[k] = 1
    PROVE  Sound(k)'
<1>1. /\ api = IdleApi /\ UNCHANGED <<table, worker, operator>>
      /\ presigns' = [presigns EXCEPT ![j] = @ + 1]
      /\ api' = IF state[j].status \in {"none", "pending"}
                THEN [key |-> j, item |-> PendingItem,
                      todo |-> Append(PutState(PendingItem, state[j].status), RecordEvent)]
                ELSE IdleApi
  BY DEF Presign, PendingItem
<1>2. api.key = 0 /\ k # 0 /\ UNCHANGED <<state, rows>>
  BY <1>1, ParametersAssumption DEF IdleApi, NoWrites, table
<1>3. CASE j = k
  <2>1. presigns[k] = 0
    BY <1>1, <1>3 DEF TypeInv, Shapes
  <2>2. state[k] = NoItem
    BY <2>1 DEF Unregistered
  <2>3. RowsIn(k, RowNames) = {} /\ k \notin Range(worker.batch) /\ operator.key # k
    BY <2>2 DEF TypeInv, NothingComesFirst
  <2>4. api' = [key |-> k, item |-> PendingItem, todo |-> FirstWrites]
    BY <1>1, <1>3, <2>2, NoItemIsNone, PendingRowsAre
  <2>5. Registering(k)'
    <3>1. /\ api'.key = k /\ api'.item = PendingItem /\ api'.todo = FirstWrites
          /\ state'[k] = NoItem /\ k \notin Range(worker'.batch)
      BY <1>1, <1>2, <2>2, <2>3, <2>4
    <3>2. RowsIn(k, RowNames)' = {}
      BY <1>2, <2>3 DEF RowsIn
    <3> QED
      BY <3>1, <3>2, Zenon DEF Registering
  <2> QED
    BY <1>1, <2>3, <2>5 DEF Sound
<1>4. CASE j # k
  <2>1. Sound(k) /\ api'.key # k
    BY <1>1, <1>2, <1>4 DEF TypeInv, Shapes, IdleApi, NoWrites
  <2>2. (worker.key = k => BeingMarked(k)) /\ (worker.key # k => RowsRight(k)) /\ operator.key # k
    BY <1>2, <2>1 DEF Sound, Registering
  <2> QED
    BY <1>1, <1>2, <2>1, <2>2 DEF Sound, BeingMarked, RowsRight, RowsIn
<1> QED
  BY <1>3, <1>4

LEMMA SoundApiWrites ==
    ASSUME TypeInv, NEW k \in Keys, Sound(k), ApiWrites
    PROVE  Sound(k)'
<1>1. /\ Request(api) /\ UNCHANGED <<worker, operator>>
      /\ api' = IF Len(api.todo) = 1 THEN IdleApi ELSE [api EXCEPT !.todo = Tail(@)]
  BY DEF ApiWrites
<1>2. /\ api.todo # <<>> /\ api \in Actors /\ api.key \in Keys /\ api.item \in Items
      /\ api.todo \in Seq(Writes) /\ k # 0
  BY <1>1, ParametersAssumption DEF Request, TypeInv, Shapes, ApiShape, Actors
<1>3. CASE api.key # k
  <2>1. state'[k] = state[k] /\ RowsIn(k, RowNames)' = RowsIn(k, RowNames)
    BY <1>1, <1>2, <1>3, RequestEffect DEF TypeInv
  <2>2. api'.key # k
    BY <1>1, <1>2, <1>3 DEF IdleApi, NoWrites, Actors
  <2>3. operator.key # k /\ (worker.key = k => BeingMarked(k)) /\ (worker.key # k => RowsRight(k))
    BY <1>3 DEF Sound, Registering
  <2> QED
    BY <1>1, <2>1, <2>2, <2>3 DEF Sound, BeingMarked, RowsRight
<1>4. CASE api.key = k
  <2>1. /\ state' = [state EXCEPT ![k] = IF Head(api.todo) = PutItem THEN api.item ELSE @]
        /\ RowsIn(k, RowNames)' = AfterWrites(RowsIn(k, RowNames), <<Head(api.todo)>>)
    <3>1. /\ state' = [state EXCEPT ![api.key] = IF Head(api.todo) = PutItem
                                                 THEN api.item ELSE @]
          /\ {r \in RowNames : <<r, api.key>> \in rows'}
               = AfterWrites(RowsIn(api.key, RowNames), <<Head(api.todo)>>)
      BY <1>1, <1>2, RequestEffect DEF TypeInv
    <3> QED
      BY <1>4, <3>1 DEF RowsIn
  <2>2. state \in [Keys -> Items \cup {NoItem}] /\ RowsIn(k, RowNames) \in SUBSET RowNames
    BY DEF TypeInv, Shapes, RowsIn
  <2>3. \A r \in RowNames : Put(r) # PutItem /\ RecordEvent # PutItem
    BY DEF Put, PutItem, RecordEvent
  <2>4. CASE Registering(k)
    <3>1. Len(api.todo) # 1
      <4>1. api.todo \in {FirstWrites, PendingRows, LastRow}
        BY <2>4, Zenon DEF Registering
      <4>2. Len(FirstWrites) # 1 /\ Len(PendingRows) # 1 /\ Len(LastRow) # 1
        BY PendingRowsAre
      <4> QED
        BY <4>1, <4>2
    <3>2. api' = [key |-> k, item |-> api.item, todo |-> Tail(api.todo)]
      BY <1>1, <1>2, <1>4, <3>1 DEF Actors
    <3>3. /\ operator'.key # k /\ worker' = worker /\ k \notin Range(worker.batch)
          /\ api.item = PendingItem
      BY <1>1, <2>4 DEF Sound, Registering
    <3>4. worker.key # k
      <4>1. worker.key # 0 => worker.key \in Range(worker.batch)
        BY TailIsShorter DEF TypeInv, Shapes, WorkerShape, Workers, Clip
      <4> QED
        BY <1>2, <3>3, <4>1
    <3>5. CASE /\ api.todo = FirstWrites
               /\ state[k] = NoItem /\ RowsIn(k, RowNames) = {}
      <4>1. /\ Head(api.todo) = PutItem /\ Tail(api.todo) = PendingRows
        BY <3>5, PendingRowsAre
      <4>2. state'[k] = PendingItem /\ RowsIn(k, RowNames)' = {}
        <5>1. AfterWrites({}, <<PutItem>>) = {}
          BY OneWrite, PendingRowsAre
        <5> QED
          BY <2>1, <2>2, <3>3, <3>5, <4>1, <5>1
      <4>3. Registering(k)'
        BY <3>2, <3>3, <4>1, <4>2 DEF Registering
      <4> QED
        BY <3>3, <4>3 DEF Sound
    <3>6. CASE /\ api.todo = PendingRows
               /\ state[k] = PendingItem /\ RowsIn(k, RowNames) = {}
      <4>1. /\ Head(api.todo) = Put(StatusRow("pending")) /\ Tail(api.todo) = LastRow
            /\ Head(api.todo) # PutItem
        BY <2>3, <3>6, PendingRowsAre
      <4>2. state'[k] = PendingItem /\ RowsIn(k, RowNames)' = {StatusRow("pending")}
        <5>1. AfterWrites({}, <<Put(StatusRow("pending"))>>) = {} \cup {StatusRow("pending")}
          <6>1. {} \in SUBSET RowNames /\ StatusRow("pending") \in RowNames
            BY PendingRowsAre
          <6> QED
            BY <6>1, OneWrite, Zenon
        <5> QED
          BY <2>1, <2>2, <3>6, <4>1, <5>1
      <4>3. Registering(k)'
        BY <3>2, <3>3, <4>1, <4>2 DEF Registering
      <4> QED
        BY <3>3, <4>3 DEF Sound
    <3>7. CASE /\ api.todo = LastRow
               /\ state[k] = PendingItem /\ RowsIn(k, RowNames) = {StatusRow("pending")}
      <4>1. /\ Head(api.todo) = Put(QueueRow("pending")) /\ Tail(api.todo) = <<RecordEvent>>
            /\ Head(api.todo) # PutItem
        BY <2>3, <3>7, PendingRowsAre
      <4>2. state'[k] = PendingItem
            /\ RowsIn(k, RowNames)' = {StatusRow("pending"), QueueRow("pending")}
        <5>1. AfterWrites({StatusRow("pending")}, <<Put(QueueRow("pending"))>>)
                = {StatusRow("pending")} \cup {QueueRow("pending")}
          <6>1. {StatusRow("pending")} \in SUBSET RowNames /\ QueueRow("pending") \in RowNames
            BY PendingRowsAre
          <6> QED
            BY <6>1, OneWrite, Zenon
        <5> QED
          BY <2>1, <2>2, <3>7, <4>1, <5>1
      <4>3. RowsRight(k)'
        BY <4>2, PendingRowsAre DEF RowsRight
      <4> QED
        BY <3>2, <3>3, <3>4, <4>1, <4>3 DEF Sound
    <3> QED
      BY <2>4, <3>5, <3>6, <3>7 DEF Registering
  <2>5. CASE ~Registering(k)
    <3>1. /\ api.todo = <<RecordEvent>> /\ operator.key # k
          /\ worker.key = k => BeingMarked(k)
          /\ worker.key # k => RowsRight(k)
      BY <1>4, <2>5 DEF Sound
    <3>2. state'[k] = state[k] /\ RowsIn(k, RowNames)' = RowsIn(k, RowNames)
      <4>1. Head(api.todo) = RecordEvent /\ RecordEvent # PutItem
        BY <2>3, <3>1, PendingRowsAre
      <4>2. AfterWrites(RowsIn(k, RowNames), <<RecordEvent>>) = RowsIn(k, RowNames)
        BY <2>2, OneWrite, PendingRowsAre
      <4> QED
        BY <2>1, <2>2, <4>1, <4>2
    <3>3. api'.key # k
      BY <1>1, <1>2, <3>1 DEF IdleApi, NoWrites
    <3> QED
      BY <1>1, <3>1, <3>2, <3>3 DEF Sound, BeingMarked, RowsRight
  <2> QED
    BY <2>4, <2>5
<1> QED
  BY <1>3, <1>4

LEMMA SoundPoll ==
    ASSUME TypeInv, NEW k \in Keys, Sound(k), Poll
    PROVE  Sound(k)'
<1>0. PICK ready \in First(ReadySlots(Waiting), Ready) :
         \E waiting \in First(Limit - Cardinality(ready), Waiting) :
         \E batch \in ByAge(ready \cup waiting) :
            /\ ready \cup waiting # {}
            /\ worker' = [IdleWorker EXCEPT !.pc = "claim", !.batch = batch,
                                            !.old = Range(batch) \cap expired]
  BY DEF Poll
<1>01. PICK waiting \in First(Limit - Cardinality(ready), Waiting) :
         \E batch \in ByAge(ready \cup waiting) :
            /\ ready \cup waiting # {}
            /\ worker' = [IdleWorker EXCEPT !.pc = "claim", !.batch = batch,
                                            !.old = Range(batch) \cap expired]
  BY <1>0
<1>1. PICK batch \in ByAge(ready \cup waiting) :
         /\ ready \cup waiting # {}
         /\ worker' = [IdleWorker EXCEPT !.pc = "claim", !.batch = batch,
                                         !.old = Range(batch) \cap expired]
  BY <1>01
<1>2. /\ worker.pc = "poll" /\ UNCHANGED <<state, rows, api, operator>>
  BY DEF Poll, table
<1>3. \A j \in Range(batch) : \E r \in Found : r.key = j
  BY <1>1, BatchOf
<1>4. worker'.batch = batch /\ worker'.key = 0 /\ worker.key = 0 /\ k # 0
  BY <1>1, <1>2, ParametersAssumption DEF IdleWorker, TypeInv, WorkerShape
<1>5. CASE Registering(k)
  <2>1. RowsIn(k, RowNames) \subseteq {StatusRow("pending")}
    BY <1>5 DEF Registering
  <2>2. ASSUME NEW r \in Found PROVE r.key # k
    <3>1. r.row \in Polled /\ r.key \in Queried(r.row)
      BY DEF Found
    <3>2. <<QueueRow(r.row), r.key>> \in rows
      BY <3>1 DEF Queried, Oldest
    <3>3. r.row \in Statuses /\ "pending" \in Statuses
      BY <3>1 DEF Polled, Statuses, BacklogStatuses
    <3>4. QueueRow(r.row) \in RowNames /\ QueueRow(r.row) # StatusRow("pending")
      BY <3>3, RowNamesAre
    <3> QED
      BY <2>1, <3>2, <3>4 DEF RowsIn
  <2>3. k \notin Range(worker'.batch)
    BY <1>3, <1>4, <2>2
  <2>4. Registering(k)'
    BY <1>2, <1>5, <2>3 DEF Registering, RowsIn
  <2> QED
    BY <1>2, <2>4 DEF Sound
<1>6. CASE ~Registering(k)
  <2>1. (api.key = k => api.todo = <<RecordEvent>>) /\ RowsRight(k) /\ operator.key # k
    BY <1>4, <1>6 DEF Sound
  <2>2. RowsRight(k)'
    BY <1>2, <2>1 DEF RowsRight, RowsIn
  <2> QED
    BY <1>2, <1>4, <2>1, <2>2 DEF Sound
<1> QED
  BY <1>5, <1>6

LEMMA SoundMark ==
    ASSUME TypeInv, NEW k \in Keys, Sound(k), NEW item \in Items,
           NEW pc \in {"claiming", "settling"},
           worker.pc \in {"claim", "settle"}, Mark(item, pc),
           UNCHANGED <<table, api, operator, world, bounds>>
    PROVE  Sound(k)'
<1> DEFINE todo == Append(PutState(item, state[Clip].status), RecordEvent)
<1>1. /\ worker \in Workers /\ worker.batch \in Seq(Keys) /\ worker.batch # <<>>
      /\ state \in [Keys -> Items \cup {NoItem}] /\ worker.key = 0 /\ k # 0
  BY ParametersAssumption DEF TypeInv, Shapes, WorkerShape, Workers
<1>2. Clip \in Keys /\ Clip \in Range(worker.batch)
  BY <1>1, TailIsShorter DEF Clip
<1>3. worker' = [worker EXCEPT !.pc = pc, !.key = Clip, !.item = item, !.todo = todo]
  BY DEF Mark
<1>4. /\ worker'.batch = worker.batch /\ worker'.key = Clip /\ worker'.item = item
      /\ worker'.todo = todo
  <2> HIDE DEF todo
  <2> QED
    BY <1>1, <1>3 DEF Workers
<1>5. UNCHANGED <<state, rows, api, operator>>
  BY DEF table
<1>6. CASE Registering(k)
  <2>1. Registering(k)'
    BY <1>4, <1>5, <1>6 DEF Registering, RowsIn
  <2> QED
    BY <1>5, <2>1 DEF Sound
<1>7. CASE ~Registering(k)
  <2>1. (api.key = k => api.todo = <<RecordEvent>>) /\ RowsRight(k) /\ operator.key # k
    BY <1>1, <1>7 DEF Sound
  <2>2. CASE Clip = k
    <3>1. RowsIn(k, RowNames) = RowsOf(state[k]) /\ state[k] \in Items \cup {NoItem}
      BY <1>1, <2>1 DEF RowsRight
    <3>2. AfterWrites(RowsOf(state[k]), todo) = RowsOf(item) /\ PutItem \in Range(todo)
      <4>1. LET t == Append(PutState(item, state[k].status), RecordEvent)
            IN  PutItem \in Range(t) /\ AfterWrites(RowsOf(state[k]), t) = RowsOf(item)
        BY <3>1, PutStateRight, Zenon
      <4> QED
        BY <2>2, <4>1, Zenon
    <3> HIDE DEF todo
    <3>3. RowsIn(k, RowNames)' = RowsOf(state[k])
      BY <1>5, <3>1 DEF RowsIn
    <3>4. BeingMarked(k)'
      BY <1>4, <3>2, <3>3 DEF BeingMarked
    <3> QED
      BY <1>4, <1>5, <2>1, <2>2, <3>4 DEF Sound
  <2>3. CASE Clip # k
    <3>1. RowsRight(k)'
      BY <1>5, <2>1 DEF RowsRight, RowsIn
    <3> QED
      BY <1>4, <1>5, <2>1, <2>3, <3>1 DEF Sound
  <2> QED
    BY <2>2, <2>3
<1> QED
  BY <1>6, <1>7

LEMMA SoundClaimOrSettle ==
    ASSUME TypeInv, NEW k \in Keys, Sound(k), Claim \/ Settle
    PROVE  Sound(k)'
<1>1. Clip \in Keys /\ state[Clip] \in Items \cup {NoItem}
  BY TailIsShorter DEF Claim, Settle, TypeInv, Shapes, Workers, WorkerShape, Clip
<1>2. CASE Claim
  <2>1. [state[Clip] EXCEPT !.status = "processing"] \in Items
    <3>1. "processing" \in Statuses
      BY DEF Statuses, BacklogStatuses
    <3> QED
      BY <1>1, <3>1, ItemsMade
  <2> QED
    BY <1>2, <2>1, SoundMark DEF Claim
<1>3. CASE Settle
  <2>1. worker.verdict \in Items
    BY <1>3 DEF Settle, TypeInv, WorkerShape
  <2>2. [state[Clip] EXCEPT
         !.status = worker.verdict.status,
         !.quarantined = IF worker.verdict.status = "transcribed"
                         THEN worker.verdict.quarantined ELSE @] \in Items
    BY <1>1, <2>1, ItemsMade
  <2> QED
    BY <1>3, <2>2, SoundMark DEF Settle
<1> QED
  BY <1>2, <1>3

\* The steps after which the worker has the same clips or fewer, and writes none,
\* and those of others that touch neither the table nor the two actors.
LEMMA SoundElsewhere ==
    ASSUME TypeInv, NEW k \in Keys, Sound(k), UNCHANGED table,
           worker'.key = 0 \/ UNCHANGED worker,
           worker'.key = 0 => worker.key # k /\ Range(worker'.batch) \subseteq Range(worker.batch),
           api' = api \/ (api' = IdleApi /\ api.key # k),
           operator'.key # k
    PROVE  Sound(k)'
<1>1. UNCHANGED <<state, rows>> /\ k # 0
  BY ParametersAssumption DEF table
<1>2. worker' = worker \/ (worker'.key # k /\ worker.key # k)
  BY <1>1
<1>3. Range(worker'.batch) \subseteq Range(worker.batch)
  BY <1>1
<1>4. CASE Registering(k)
  <2>1. api' = api
    BY <1>4 DEF Registering
  <2>2. k \notin Range(worker'.batch)
    BY <1>3, <1>4 DEF Registering
  <2>3. Registering(k)'
    BY <1>1, <1>4, <2>1, <2>2 DEF Registering, RowsIn
  <2> QED
    BY <2>3 DEF Sound
<1>5. CASE ~Registering(k)
  <2>1. /\ api.key = k => api.todo = <<RecordEvent>>
        /\ worker.key = k => BeingMarked(k)
        /\ worker.key # k => RowsRight(k)
    BY <1>5 DEF Sound
  <2>2. api'.key = k => api'.todo = <<RecordEvent>>
    BY <1>1, <2>1 DEF IdleApi, NoWrites
  <2>3. worker'.key = k => BeingMarked(k)'
    BY <1>1, <1>2, <2>1 DEF BeingMarked, RowsIn
  <2>4. worker'.key # k => RowsRight(k)'
    BY <1>1, <1>2, <2>1 DEF RowsRight, RowsIn
  <2> QED
    BY <2>2, <2>3, <2>4 DEF Sound
<1> QED
  BY <1>4, <1>5

LEMMA SoundWorkerWrites ==
    ASSUME TypeInv, NEW k \in Keys, Sound(k), WorkerWrites
    PROVE  Sound(k)'
<1>1. /\ Request(worker) /\ UNCHANGED <<api, operator>> /\ k # 0
      /\ worker.item \in Items /\ worker.todo \in Seq(Writes) /\ worker.todo # <<>>
      /\ worker.key = Clip /\ Clip \in Keys /\ Clip \in Range(worker.batch)
      /\ Range(worker'.batch) \subseteq Range(worker.batch) /\ worker \in Workers
  BY WorkerMovesOn, ParametersAssumption DEF WorkerWrites, TypeInv, WorkerShape, Shapes
<1>2. \/ /\ worker'.key = worker.key /\ worker'.item = worker.item
         /\ worker'.todo = Tail(worker.todo)
      \/ worker'.key = 0 /\ Tail(worker.todo) = <<>>
  <2>1. Len(worker.todo) = 1 => Tail(worker.todo) = <<>>
    BY <1>1, TailIsShorter
  <2> QED
    BY <1>1, <2>1, WorkerMovesOn DEF Workers
<1>3. CASE worker.key # k
  <2>1. state'[k] = state[k] /\ RowsIn(k, RowNames)' = RowsIn(k, RowNames)
    BY <1>1, <1>3, RequestEffect DEF TypeInv
  <2>2. worker'.key # k
    BY <1>1, <1>2, <1>3
  <2>3. CASE Registering(k)
    <3>1. Registering(k)'
      BY <1>1, <2>1, <2>3 DEF Registering
    <3> QED
      BY <1>1, <3>1 DEF Sound
  <2>4. CASE ~Registering(k)
    BY <1>1, <1>3, <2>1, <2>2, <2>4 DEF Sound, RowsRight
  <2> QED
    BY <2>3, <2>4
<1>4. CASE worker.key = k
  <2>1. BeingMarked(k) /\ (api.key = k => api.todo = <<RecordEvent>>) /\ operator.key # k
    BY <1>1, <1>4 DEF Sound, Registering
  <2>2. /\ state' = [state EXCEPT ![k] = IF Head(worker.todo) = PutItem THEN worker.item ELSE @]
        /\ RowsIn(k, RowNames)' = AfterWrites(RowsIn(k, RowNames), <<Head(worker.todo)>>)
    <3>1. /\ state' = [state EXCEPT ![worker.key] = IF Head(worker.todo) = PutItem
                                                    THEN worker.item ELSE @]
          /\ {r \in RowNames : <<r, worker.key>> \in rows'}
               = AfterWrites(RowsIn(worker.key, RowNames), <<Head(worker.todo)>>)
      BY <1>1, RequestEffect DEF TypeInv
    <3> QED
      BY <1>4, <3>1 DEF RowsIn
  <2>3. AfterWrites(RowsIn(k, RowNames)', Tail(worker.todo)) = RowsOf(worker.item)
    <3>1. AfterWrites(RowsIn(k, RowNames), worker.todo)
            = AfterWrites(AfterWrites(RowsIn(k, RowNames), <<Head(worker.todo)>>),
                          Tail(worker.todo))
      BY <1>1, NextWrite, Zenon
    <3> QED
      BY <2>1, <2>2, <3>1 DEF BeingMarked
  <2>4. PutItem \in Range(Tail(worker.todo)) \/ state'[k] = worker.item
    <3>1. state'[k] = IF Head(worker.todo) = PutItem THEN worker.item ELSE state[k]
      BY <2>2 DEF TypeInv, Shapes
    <3>2. Range(worker.todo) \subseteq {Head(worker.todo)} \cup Range(Tail(worker.todo))
      BY <1>1, RangeIsHeadAndTail
    <3> QED
      BY <2>1, <3>1, <3>2 DEF BeingMarked
  <2>5. CASE /\ worker'.key = worker.key /\ worker'.item = worker.item
             /\ worker'.todo = Tail(worker.todo)
    <3>1. BeingMarked(k)'
      BY <2>3, <2>4, <2>5 DEF BeingMarked
    <3> QED
      BY <1>1, <1>4, <2>1, <2>5, <3>1 DEF Sound
  <2>6. CASE worker'.key = 0 /\ Tail(worker.todo) = <<>>
    <3>1. RowsIn(k, RowNames)' \in SUBSET RowNames /\ Range(<<>>) = {}
      BY DEF RowsIn, Range
    <3>2. AfterWrites(RowsIn(k, RowNames)', <<>>) = RowsIn(k, RowNames)'
      BY <3>1, NoWritesLeft
    <3>3. RowsIn(k, RowNames)' = RowsOf(worker.item) /\ state'[k] = worker.item
      BY <2>3, <2>4, <2>6, <3>1, <3>2
    <3>4. RowsRight(k)'
      BY <3>3 DEF RowsRight
    <3> QED
      BY <1>1, <2>1, <2>6, <3>4 DEF Sound
  <2> QED
    BY <1>2, <2>5, <2>6
<1> QED
  BY <1>3, <1>4

LEMMA SoundOperatorWrites ==
    ASSUME TypeInv, NEW k \in Keys, Sound(k), OperatorWrites
    PROVE  Sound(k)'
<1>1. /\ Request(operator) /\ UNCHANGED <<api, worker>> /\ k # 0
      /\ operator' = IF Len(operator.todo) = 1 THEN IdleOperator
                     ELSE [operator EXCEPT !.todo = Tail(@)]
  BY ParametersAssumption DEF OperatorWrites
<1>2. /\ operator.key \in Keys /\ operator.item \in Items /\ operator.todo \in Seq(Writes)
      /\ operator \in Operators /\ operator.key # k
  BY <1>1 DEF Request, TypeInv, Shapes, OperatorShape, Operators, Sound
<1>3. state'[k] = state[k] /\ RowsIn(k, RowNames)' = RowsIn(k, RowNames)
  BY <1>1, <1>2, RequestEffect DEF TypeInv
<1>4. operator'.key # k
  BY <1>1, <1>2 DEF IdleOperator, Operators
<1>5. CASE Registering(k)
  <2>1. Registering(k)'
    BY <1>1, <1>3, <1>5 DEF Registering
  <2> QED
    BY <1>4, <2>1 DEF Sound
<1>6. CASE ~Registering(k)
  BY <1>1, <1>3, <1>4, <1>6 DEF Sound, RowsRight, BeingMarked
<1> QED
  BY <1>5, <1>6

-----------------------------------------------------------------------------
(* A step that may hit a clip adds it to those that are hurt.               *)

LEMMA OneMore ==
    ASSUME NEW D \in SUBSET Keys, NEW x, NEW n \in Nat, Cardinality(D) <= n
    PROVE  /\ (D \cup {x}) \cap Keys \in SUBSET Keys
           /\ Cardinality((D \cup {x}) \cap Keys) <= n + 1
<1>1. IsFiniteSet(D)
  BY ParametersAssumption, FS_Subset
<1>2. /\ IsFiniteSet(D \cup {x}) /\ Cardinality(D) \in Nat
      /\ Cardinality(D \cup {x}) <= Cardinality(D) + 1
  <2>1. Cardinality(D) \in Nat
    BY <1>1, FS_CardinalityType
  <2>2. /\ IsFiniteSet(D \cup {x})
        /\ Cardinality(D \cup {x}) = IF x \in D THEN Cardinality(D) ELSE Cardinality(D) + 1
    BY <1>1, FS_AddElement
  <2> QED
    BY <2>1, <2>2
<1>3. /\ Cardinality((D \cup {x}) \cap Keys) <= Cardinality(D \cup {x})
      /\ IsFiniteSet((D \cup {x}) \cap Keys)
  BY <1>2, FS_Intersection
<1>4. Cardinality((D \cup {x}) \cap Keys) \in Nat /\ Cardinality(D \cup {x}) \in Nat
  BY <1>2, <1>3, FS_CardinalityType
<1> QED
  BY <1>2, <1>3, <1>4

LEMMA UnregisteredStep ==
    ASSUME TypeInv, TypeInv', NEW k \in Keys, Unregistered(k), [Next]_vars
    PROVE  Unregistered(k)'
<1> SUFFICES ASSUME presigns'[k] = 0 PROVE state'[k] = NoItem /\ api'.key # k
  BY DEF Unregistered
<1> USE ParametersAssumption
<1>1. presigns[k] = 0
  <2>1. presigns \in [Keys -> 0 .. MaxPresigns]
    BY DEF TypeInv, Shapes
  <2>2. ASSUME NEW j \in Keys, Presign(j) PROVE presigns[k] = 0
    <3>1. presigns' = [presigns EXCEPT ![j] = @ + 1]
      BY <2>2 DEF Presign
    <3> QED
      BY <2>1, <3>1
  <2>3. CASE ~\E j \in Keys : Presign(j)
    <3>1. presigns' = presigns
      BY <2>3 DEF vars, bounds, Next, Work, Upload, Expire, ApiWrites, Poll, Claim, Fetch,
                  Settle, WorkerWrites, WorkerFault, WorkerCrash, ApiCrash, FindClip, Star,
                  OperatorWrites
    <3> QED
      BY <3>1
  <2> QED
    BY <2>2, <2>3
<1>2. /\ state[k] = NoItem /\ api.key # k /\ k # 0
      /\ k \notin Range(worker.batch) /\ operator.key # k
  BY <1>1 DEF Unregistered, TypeInv, NothingComesFirst
<1>3. ASSUME NEW j \in Keys, Presign(j) PROVE state'[k] = NoItem /\ api'.key # k
  <2>1. j # k
    BY <1>1, <1>3 DEF Presign, TypeInv, Shapes
  <2> QED
    BY <1>2, <1>3, <2>1 DEF Presign, IdleApi, NoWrites, table
<1>4. CASE ApiWrites
  <2>1. /\ api.key \in Keys /\ api.item \in Items /\ api.todo \in Seq(Writes) /\ api \in Actors
    BY <1>4 DEF ApiWrites, Request, TypeInv, Shapes, ApiShape, Actors
  <2>2. state'[k] = state[k]
    BY <1>2, <1>4, <2>1, RequestEffect DEF ApiWrites, TypeInv
  <2>3. api'.key # k
    BY <1>2, <1>4, <2>1 DEF ApiWrites, IdleApi, NoWrites, Actors
  <2> QED
    BY <1>2, <2>2, <2>3
<1>5. CASE WorkerWrites
  <2>1. /\ worker.key \in Keys /\ worker.item \in Items /\ worker.todo \in Seq(Writes)
        /\ worker.key # k
    BY <1>2, <1>5, WorkerMovesOn DEF TypeInv, WorkerShape
  <2>2. state'[k] = state[k]
    BY <1>5, <2>1, RequestEffect DEF WorkerWrites, TypeInv
  <2> QED
    BY <1>2, <1>5, <2>2 DEF WorkerWrites
<1>6. CASE OperatorWrites
  <2>1. /\ operator.key \in Keys /\ operator.item \in Items /\ operator.todo \in Seq(Writes)
    BY <1>6 DEF OperatorWrites, Request, TypeInv, Shapes, OperatorShape, Operators
  <2>2. state'[k] = state[k]
    BY <1>2, <1>6, <2>1, RequestEffect DEF OperatorWrites, TypeInv
  <2> QED
    BY <1>2, <1>6, <2>2 DEF OperatorWrites
<1>7. CASE UNCHANGED table /\ (api' = api \/ api' = IdleApi)
  BY <1>2, <1>7 DEF table, IdleApi, NoWrites
<1>8. CASE \/ \E j \in Keys : Upload(j) \/ Expire(j)
           \/ Poll \/ Claim \/ Fetch \/ Settle \/ WorkerFault \/ WorkerCrash \/ ApiCrash
           \/ \E j \in Keys, star \in BOOLEAN : FindClip(j, star)
           \/ Star \/ UNCHANGED vars
  <2>1. UNCHANGED table /\ (api' = api \/ api' = IdleApi)
    BY <1>8 DEF Upload, Expire, Poll, Claim, Fetch, Settle, WorkerFault, WorkerCrash,
                ApiCrash, FindClip, Star, vars
  <2> QED
    BY <1>7, <2>1
<1> QED
  BY <1>3, <1>4, <1>5, <1>6, <1>8 DEF Next, Work

\* All steps but crashes, failed requests and stars leave a sound clip sound.
LEMMA SoundStep ==
    ASSUME TypeInv, NEW D \in SUBSET Keys, SoundBut(D), \A k \in Keys : Unregistered(k),
           \/ \E j \in Keys : Presign(j) \/ Upload(j) \/ Expire(j)
           \/ ApiWrites \/ Work \/ Star \/ OperatorWrites \/ UNCHANGED vars
    PROVE  SoundBut(D)'
<1> SUFFICES ASSUME NEW k \in Keys \ D, presigns'[k] = 1 PROVE Sound(k)'
  BY DEF SoundBut
<1>1. ASSUME NEW j \in Keys, Presign(j) PROVE Sound(k)'
  BY <1>1, SoundPresign DEF SoundBut
<1>2. CASE ~\E j \in Keys : Presign(j)
  <2>1. presigns' = presigns
    BY <1>2 DEF Upload, Expire, ApiWrites, Work, Poll, Claim, Fetch, Settle, WorkerWrites,
                Star, OperatorWrites, vars, bounds
  <2>2. Sound(k)
    BY <2>1 DEF SoundBut
  <2>3. CASE (\E j \in Keys : Upload(j) \/ Expire(j)) \/ UNCHANGED vars
    <3>1. UNCHANGED <<state, rows, api, worker, operator>>
      BY <2>3 DEF Upload, Expire, vars, table
    <3> QED
      BY <2>2, <3>1 DEF Sound, Registering, BeingMarked, RowsRight, RowsIn
  <2>4. CASE Fetch
    <3>1. /\ UNCHANGED <<table, api, operator>> /\ worker.pc = "fetch"
          /\ worker.key = 0 /\ k # 0 /\ worker \in Workers
      BY <2>4, ParametersAssumption DEF Fetch, TypeInv, WorkerShape, Shapes
    <3>2. worker'.key = 0 /\ worker'.batch = worker.batch
      BY <2>4, <3>1 DEF Fetch, Workers
    <3> QED
      BY <2>2, <3>1, <3>2, SoundElsewhere DEF Sound
  <2>5. CASE Star
    <3>1. /\ UNCHANGED <<table, api, worker>> /\ operator \in Operators /\ k # 0
      BY <2>5, ParametersAssumption DEF Star, TypeInv, Shapes
    <3>2. operator'.key = operator.key
      BY <2>5, <3>1 DEF Star, Operators
    <3>3. UNCHANGED <<state, rows, api, worker>> /\ operator'.key # k
      BY <2>2, <3>1, <3>2 DEF table, Sound
    <3> QED
      BY <2>2, <3>3 DEF Sound, Registering, BeingMarked, RowsRight, RowsIn
  <2> QED
    BY <1>2, <2>2, <2>3, <2>4, <2>5, SoundApiWrites, SoundPoll, SoundClaimOrSettle,
       SoundWorkerWrites, SoundOperatorWrites DEF Work
<1> QED
  BY <1>1, <1>2

LEMMA ContainmentStep == ContainmentInv /\ [Next]_vars => ContainmentInv'
<1> SUFFICES ASSUME ContainmentInv, [Next]_vars PROVE ContainmentInv'
  OBVIOUS
<1>1. TypeInv /\ TypeInv'
  BY TypeStep DEF ContainmentInv
<1>2. \A k \in Keys : Unregistered(k)'
  BY <1>1, UnregisteredStep DEF ContainmentInv
<1>3. PICK D \in SUBSET Keys : Cardinality(D) <= crashes + faults + stars /\ SoundBut(D)
  BY DEF ContainmentInv
<1>4. crashes \in Nat /\ faults \in Nat /\ stars \in Nat
  BY <1>1, ParametersAssumption DEF TypeInv, Bookkeeping
<1>5. CASE \/ \E j \in Keys : Presign(j) \/ Upload(j) \/ Expire(j)
           \/ ApiWrites \/ Work \/ Star \/ OperatorWrites \/ UNCHANGED vars
  <2>1. SoundBut(D)'
    BY <1>1, <1>3, <1>5, SoundStep DEF ContainmentInv
  <2>2. crashes' = crashes /\ faults' = faults /\ stars' = stars
    BY <1>5 DEF Presign, Upload, Expire, ApiWrites, Work, Poll, Claim, Fetch, Settle,
                WorkerWrites, Star, OperatorWrites, vars, bounds
  <2> QED
    BY <1>1, <1>2, <1>3, <2>1, <2>2 DEF ContainmentInv
<1>6. ASSUME NEW x, NEW E, E = (D \cup {x}) \cap Keys,
             crashes' + faults' + stars' = crashes + faults + stars + 1, SoundBut(E)'
      PROVE  ContainmentInv'
  <2>1. E \in SUBSET Keys /\ Cardinality(E) <= crashes' + faults' + stars'
    <3> DEFINE n == crashes + faults + stars
    <3>1. n \in Nat
      BY <1>4
    <3> HIDE DEF n
    <3>2. E \in SUBSET Keys /\ Cardinality(E) <= n + 1
      <4>1. Cardinality(D) <= n
        BY <1>3 DEF n
      <4> QED
        BY <1>6, <3>1, <4>1, OneMore
    <3> QED
      BY <1>6, <3>2 DEF n
  <2> QED
    BY <1>1, <1>2, <1>6, <2>1 DEF ContainmentInv
<1>7. CASE WorkerFault \/ WorkerCrash
  <2>0. PICK x : x = worker.key
    OBVIOUS
  <2> DEFINE E == (D \cup {x}) \cap Keys
  <2>1. /\ UNCHANGED <<table, api, operator, presigns>>
        /\ crashes' + faults' + stars' = crashes + faults + stars + 1
    BY <1>4, <1>7 DEF WorkerFault, WorkerCrash
  <2>2. worker'.key = 0 /\ Range(worker'.batch) \subseteq Range(worker.batch)
    <3>1. worker \in Workers
      BY <1>1 DEF TypeInv, Shapes
    <3>2. CASE worker' = IdleWorker
      BY <3>2 DEF IdleWorker, Range
    <3>3. CASE worker' = [worker EXCEPT !.pc = "settle", !.key = 0, !.item = NoItem,
                                        !.todo = <<>>, !.verdict = Verdict("error")]
      <4>1. worker'.key = 0 /\ worker'.batch = worker.batch
        BY <3>1, <3>3 DEF Workers
      <4> QED
        BY <4>1
    <3> QED
      BY <1>7, <3>2, <3>3 DEF WorkerFault, WorkerCrash
  <2>3. ASSUME NEW k \in Keys \ E, presigns'[k] = 1 PROVE Sound(k)'
    <3>1. Sound(k) /\ worker.key # k
      BY <1>3, <2>0, <2>1, <2>3 DEF SoundBut
    <3> QED
      BY <1>1, <2>1, <2>2, <3>1, SoundElsewhere DEF Sound
  <2>4. SoundBut(E)'
    BY <2>3 DEF SoundBut
  <2> QED
    BY <1>6, <2>1, <2>4
<1>8. CASE ApiCrash
  <2>0. PICK x : x = api.key
    OBVIOUS
  <2> DEFINE E == (D \cup {x}) \cap Keys
  <2>1. /\ UNCHANGED <<table, worker, operator, presigns>> /\ api' = IdleApi
        /\ crashes' + faults' + stars' = crashes + faults + stars + 1
    BY <1>4, <1>8 DEF ApiCrash
  <2>2. ASSUME NEW k \in Keys \ E, presigns'[k] = 1 PROVE Sound(k)'
    <3>1. Sound(k) /\ api.key # k /\ k # 0
      BY <1>3, <2>0, <2>1, <2>2, ParametersAssumption DEF SoundBut
    <3>2. UNCHANGED <<state, rows, worker, operator>> /\ api'.key # k
      BY <2>1, <3>1 DEF table, IdleApi, NoWrites
    <3> QED
      BY <3>1, <3>2 DEF Sound, Registering, BeingMarked, RowsRight, RowsIn
  <2>3. SoundBut(E)'
    BY <2>2 DEF SoundBut
  <2> QED
    BY <1>6, <2>1, <2>3
<1>9. ASSUME NEW j \in Keys, NEW star \in BOOLEAN, FindClip(j, star) PROVE ContainmentInv'
  <2> DEFINE E == (D \cup {j}) \cap Keys
  <2>1. /\ UNCHANGED <<table, api, worker, presigns>>
        /\ crashes' + faults' + stars' = crashes + faults + stars + 1
        /\ operator'.key = j
    BY <1>4, <1>9 DEF FindClip, IdleOperator
  <2>2. ASSUME NEW k \in Keys \ E, presigns'[k] = 1 PROVE Sound(k)'
    <3>1. Sound(k) /\ j # k
      BY <1>3, <2>1, <2>2 DEF SoundBut
    <3>2. UNCHANGED <<state, rows, api, worker>> /\ operator'.key # k
      BY <2>1, <3>1 DEF table
    <3> QED
      BY <3>1, <3>2 DEF Sound, Registering, BeingMarked, RowsRight, RowsIn
  <2>3. SoundBut(E)'
    BY <2>2 DEF SoundBut
  <2> QED
    BY <1>6, <2>1, <2>3
<1> QED
  BY <1>5, <1>7, <1>8, <1>9 DEF Next

\* What a sound clip promises.
LEMMA SoundIsRight ==
    ASSUME TypeInv, NEW k \in Keys, Unregistered(k), presigns[k] = 1 => Sound(k),
           presigns[k] <= 1, Resting(k)
    PROVE  RowsRight(k)
<1>1. CASE presigns[k] = 0
  <2>1. state[k] = NoItem /\ RowsIn(k, RowNames) = {}
    BY <1>1 DEF Unregistered, TypeInv, NothingComesFirst
  <2> QED
    BY <2>1, PendingRowsAre DEF RowsRight
<1>2. CASE presigns[k] # 0
  <2>1. Sound(k)
    BY <1>2, ParametersAssumption DEF TypeInv, Shapes
  <2>2. k # 0 /\ (worker.key = k => worker.todo = <<>>) /\ (api.key = k => api.todo = <<>>)
    BY ParametersAssumption DEF Resting
  <2>3. api.key # k /\ worker.key # k
    BY <2>2 DEF TypeInv, ApiShape, WorkerShape
  <2> QED
    BY <2>1, <2>3 DEF Sound, Registering
<1> QED
  BY <1>1, <1>2

\* However the API, the worker and the operator interleave, a crash, a failed request
\* or a star costs at most one clip, of those presigned once, the right rows.
THEOREM DamageContained == Spec => []DamageIsContained
<1>1. ContainmentInv => DamageIsContained
  <2> SUFFICES ASSUME ContainmentInv PROVE DamageIsContained
    OBVIOUS
  <2> DEFINE Wrong == {k \in Keys : presigns[k] <= 1 /\ Resting(k) /\ ~RowsRight(k)}
  <2>1. PICK D \in SUBSET Keys : Cardinality(D) <= crashes + faults + stars /\ SoundBut(D)
    BY DEF ContainmentInv
  <2>2. Wrong \in SUBSET D
    BY <2>1, SoundIsRight DEF ContainmentInv, SoundBut
  <2>3. IsFiniteSet(D)
    BY ParametersAssumption, FS_Subset
  <2>4. Cardinality(Wrong) <= Cardinality(D) /\ IsFiniteSet(Wrong)
    <3> HIDE DEF Wrong
    <3> QED
      BY <2>2, <2>3, FS_Subset
  <2>5. Cardinality(Wrong) \in Nat /\ Cardinality(D) \in Nat
    <3> HIDE DEF Wrong
    <3> QED
      BY <2>3, <2>4, FS_CardinalityType
  <2>6. crashes + faults + stars \in Nat
    BY ParametersAssumption DEF ContainmentInv, TypeInv, Bookkeeping
  <2>7. Cardinality(Wrong) <= crashes + faults + stars
    <3> HIDE DEF Wrong
    <3> QED
      BY <2>1, <2>4, <2>5, <2>6
  <2> QED
    BY <2>7 DEF DamageIsContained
<1>2. Spec => []ContainmentInv
  BY ContainmentInit, ContainmentStep, PTL DEF Spec
<1> QED
  BY <1>1, <1>2, PTL

\* Where nothing of the kind happens, a clip presigned once that nobody is writing has
\* exactly the rows that its state item calls for (_put_state).
THEOREM UndisturbedRows ==
    Spec => [](crashes + faults + stars = 0 =>
                 \A k \in Keys : presigns[k] <= 1 /\ Resting(k) => RowsRight(k))
<1> DEFINE Right == crashes + faults + stars = 0 =>
                      \A k \in Keys : presigns[k] <= 1 /\ Resting(k) => RowsRight(k)
<1>1. ContainmentInv => Right
  <2> SUFFICES ASSUME ContainmentInv, NEW k \in Keys, Resting(k), presigns[k] <= 1,
                      crashes + faults + stars = 0
               PROVE  RowsRight(k)
    OBVIOUS
  <2>1. PICK D \in SUBSET Keys : Cardinality(D) <= 0 /\ SoundBut(D)
    BY DEF ContainmentInv
  <2>2. IsFiniteSet(D)
    BY ParametersAssumption, FS_Subset
  <2>3. D = {}
    BY <2>1, <2>2, FS_CardinalityType, FS_EmptySet
  <2> QED
    BY <2>1, <2>3, SoundIsRight DEF ContainmentInv, SoundBut
<1>2. Spec => []ContainmentInv
  BY ContainmentInit, ContainmentStep, PTL DEF Spec
<1> QED
  BY <1>1, <1>2, PTL

-----------------------------------------------------------------------------
(* What a clip goes through while an operator may star it.                 *)

\* In these requests every x is followed by a y.
Answered(todo, x, y) ==
    \A i \in DOMAIN todo : todo[i] = x => \E j \in DOMAIN todo : j > i /\ todo[j] = y

\* The rows that queue, list and count a clip.
PublicRowsOf(item) == RowsOf(item) \ FeaturedRows

\* Two actors may make these requests in any order: a row that should be there is there or
\* put, and put again by whoever deletes it; one that should not be is gone or deleted, and
\* deleted again by whoever puts it.
Converging(S, T, a, b) ==
    \A r \in RowNames \ FeaturedRows :
       /\ r \in T =>
             /\ Answered(a, Del(r), Put(r)) /\ Answered(b, Del(r), Put(r))
             /\ r \in S \/ Put(r) \in Range(a) \/ Put(r) \in Range(b)
       /\ r \notin T =>
             /\ Answered(a, Put(r), Del(r)) /\ Answered(b, Put(r), Del(r))
             /\ r \notin S \/ Del(r) \in Range(a) \/ Del(r) \in Range(b)

WritesOf(actor, k) == IF actor.key = k THEN actor.todo ELSE <<>>

ChannelRow == <<"public", "channel">>

Once(k, batch) == \A i, j \in DOMAIN batch : batch[i] = k /\ batch[j] = k => i = j

\* Before its transcript is written: no operator can find the clip, the worker holds it once
\* at most, and its public row is not put before the item says that it is transcribed.
Hidden(k) ==
    /\ Sound(k)
    /\ state[k].status # "transcribed" /\ ChannelRow \notin RowsIn(k, RowNames)
    /\ Once(k, worker.batch)
    /\ worker.key = k =>
          IF worker.item.status = "transcribed"
          THEN worker.pc = "settling" /\ Head(worker.todo) = PutItem
          ELSE Put(ChannelRow) \notin Range(worker.todo)

\* From then on it stays transcribed, no poll takes it again, and whatever worker and
\* operator have still to write converges.
Listed(k) ==
    /\ state[k].status = "transcribed"
    /\ api.key = k => api.todo = <<RecordEvent>>
    /\ k \in Range(worker.batch) =>
          worker.pc = "settling" /\ Clip = k /\ k \notin Range(Tail(worker.batch))
    /\ \A actor \in {worker, operator} :
          (actor.key = k /\ actor.todo # <<>>) =>
             /\ actor.item.status = "transcribed"
             /\ actor.item.quarantined = state[k].quarantined
    /\ Converging(RowsIn(k, RowNames), PublicRowsOf(state[k]),
                  WritesOf(worker, k), WritesOf(operator, k))

StarInv ==
    /\ TypeInv
    /\ \A k \in Keys : Unregistered(k)
    /\ (crashes = 0 /\ faults = 0) =>
          \A k \in Keys : presigns[k] = 1 => Hidden(k) \/ Listed(k)

LEMMA PutIsNoDel == \A x, y : /\ Put(x) # Del(y) /\ (Put(x) = Put(y) => x = y)
                              /\ (Del(x) = Del(y) => x = y)
                              /\ PutItem # Put(x) /\ PutItem # Del(x)
                              /\ RecordEvent # Put(x) /\ RecordEvent # Del(x)
  BY DEF Put, Del, PutItem, RecordEvent

LEMMA OnceInTail ==
    ASSUME NEW k, NEW batch \in Seq(Keys), batch # <<>>, Once(k, batch)
    PROVE  /\ Once(k, Tail(batch)) /\ Once(k, <<>>)
           /\ Head(batch) = k => k \notin Range(Tail(batch))
<1>1. /\ DOMAIN Tail(batch) = 1 .. Len(batch) - 1 /\ Head(batch) = batch[1]
      /\ \A i \in 1 .. Len(batch) - 1 :
            Tail(batch)[i] = batch[i + 1] /\ i + 1 \in DOMAIN batch /\ i + 1 # 1
      /\ 1 \in DOMAIN batch
  OBVIOUS
<1>2. ASSUME NEW i \in DOMAIN Tail(batch), NEW j \in DOMAIN Tail(batch),
             Tail(batch)[i] = k, Tail(batch)[j] = k
      PROVE  i = j
  <2>1. i + 1 = j + 1 /\ i \in Int /\ j \in Int
    BY <1>1, <1>2 DEF Once
  <2> QED
    BY <2>1
<1>3. Head(batch) = k => k \notin Range(Tail(batch))
  BY <1>1 DEF Once, Range
<1> QED
  BY <1>2, <1>3 DEF Once

\* What remains of answered requests is answered, and so is the one that was made.
LEMMA AnsweredNext ==
    ASSUME NEW todo \in Seq(Writes), todo # <<>>, NEW x, NEW y, Answered(todo, x, y)
    PROVE  /\ Answered(Tail(todo), x, y)
           /\ Head(todo) = x => y \in Range(Tail(todo))
<1>1. /\ DOMAIN todo = 1 .. Len(todo) /\ Len(todo) \in Nat \ {0} /\ Head(todo) = todo[1]
      /\ DOMAIN Tail(todo) = 1 .. Len(todo) - 1
      /\ \A i \in 1 .. Len(todo) - 1 : Tail(todo)[i] = todo[i + 1] /\ i + 1 \in DOMAIN todo
  OBVIOUS
<1>2. ASSUME NEW i \in DOMAIN todo, todo[i] = x
      PROVE  \E j \in DOMAIN Tail(todo) : j + 1 > i /\ Tail(todo)[j] = y
  <2>1. PICK j \in DOMAIN todo : j > i /\ todo[j] = y
    BY <1>2 DEF Answered
  <2>2. j - 1 \in DOMAIN Tail(todo) /\ (j - 1) + 1 = j
    BY <1>1, <2>1
  <2>3. Tail(todo)[j - 1] = y
    BY <1>1, <2>1, <2>2
  <2> QED
    BY <2>1, <2>2, <2>3
<1>3. ASSUME NEW i \in DOMAIN Tail(todo), Tail(todo)[i] = x
      PROVE  \E j \in DOMAIN Tail(todo) : j > i /\ Tail(todo)[j] = y
  <2>1. i + 1 \in DOMAIN todo /\ todo[i + 1] = x /\ i \in Nat
    BY <1>1, <1>3
  <2>2. PICK j \in DOMAIN Tail(todo) : j + 1 > i + 1 /\ Tail(todo)[j] = y
    BY <1>2, <2>1
  <2> QED
    BY <1>1, <2>1, <2>2
<1>4. Head(todo) = x => y \in Range(Tail(todo))
  <2>1. 1 \in DOMAIN todo
    BY <1>1
  <2> QED
    BY <1>1, <1>2, <2>1 DEF Range
<1> QED
  BY <1>3, <1>4 DEF Answered

\* Requests that lead to certain rows, from whichever rows, answer each other.
LEMMA ResultIsAnswered ==
    ASSUME NEW S, NEW todo \in Seq(Writes), NEW r \in RowNames
    PROVE  /\ r \in AfterWrites(S, todo) =>
                 Answered(todo, Del(r), Put(r)) /\ (r \in S \/ Put(r) \in Range(todo))
           /\ r \notin AfterWrites(S, todo) =>
                 Answered(todo, Put(r), Del(r)) /\ (r \notin S \/ Del(r) \in Range(todo))
<1>1. DOMAIN todo = 1 .. Len(todo) /\ Len(todo) \in Nat
  OBVIOUS
<1>2. CASE r \in AfterWrites(S, todo)
  <2>1. ASSUME NEW i \in DOMAIN todo, todo[i] = Put(r),
               \A j \in DOMAIN todo : j > i => todo[j] # Del(r)
        PROVE  Answered(todo, Del(r), Put(r))
    <3>1. ASSUME NEW j \in DOMAIN todo, todo[j] = Del(r) PROVE i > j
      <4>1. j # i /\ ~(j > i)
        BY <2>1, <3>1, PutIsNoDel
      <4> QED
        BY <1>1, <4>1
    <3> QED
      BY <2>1, <3>1 DEF Answered
  <2>2. \/ \E i \in DOMAIN todo :
              /\ todo[i] = Put(r)
              /\ \A j \in DOMAIN todo : j > i => todo[j] # Del(r)
        \/ r \in S /\ \A i \in DOMAIN todo : todo[i] # Del(r)
    BY <1>2 DEF AfterWrites
  <2>3. (\A i \in DOMAIN todo : todo[i] # Del(r)) => Answered(todo, Del(r), Put(r))
    BY DEF Answered
  <2> QED
    BY <1>2, <2>1, <2>2, <2>3 DEF Range
<1>3. CASE r \notin AfterWrites(S, todo)
  <2>1. /\ \A i \in DOMAIN todo : todo[i] = Put(r) =>
              \E j \in DOMAIN todo : j > i /\ todo[j] = Del(r)
        /\ r \notin S \/ \E i \in DOMAIN todo : todo[i] = Del(r)
    BY <1>3 DEF AfterWrites
  <2> QED
    BY <1>3, <2>1 DEF Answered, Range
<1> QED
  BY <1>2, <1>3

LEMMA NoRequests == /\ \A x, y : Answered(<<>>, x, y)
                    /\ \A x : x \notin Range(<<>>)
  BY DEF Answered, Range

\* The requests of a mark converge, ...
LEMMA ConvergingStart ==
    ASSUME NEW S, NEW T, NEW todo \in Seq(Writes),
           AfterWrites(S, todo) \ FeaturedRows = T
    PROVE  Converging(S, T, todo, <<>>)
<1> SUFFICES ASSUME NEW r \in RowNames \ FeaturedRows
             PROVE  /\ r \in T =>
                          /\ Answered(todo, Del(r), Put(r)) /\ Answered(<<>>, Del(r), Put(r))
                          /\ r \in S \/ Put(r) \in Range(todo) \/ Put(r) \in Range(<<>>)
                    /\ r \notin T =>
                          /\ Answered(todo, Put(r), Del(r)) /\ Answered(<<>>, Put(r), Del(r))
                          /\ r \notin S \/ Del(r) \in Range(todo) \/ Del(r) \in Range(<<>>)
  BY DEF Converging
<1>1. r \in T <=> r \in AfterWrites(S, todo)
  OBVIOUS
<1> QED
  BY <1>1, ResultIsAnswered, NoRequests

\* ... still do when another actor begins requests that lead to the same rows, ...
LEMMA ConvergingMore ==
    ASSUME NEW S, NEW T, NEW a, NEW X, NEW todo \in Seq(Writes), Converging(S, T, a, <<>>),
           AfterWrites(X, todo) \ FeaturedRows = T
    PROVE  Converging(S, T, a, todo)
<1> SUFFICES ASSUME NEW r \in RowNames \ FeaturedRows
             PROVE  /\ r \in T =>
                          /\ Answered(a, Del(r), Put(r)) /\ Answered(todo, Del(r), Put(r))
                          /\ r \in S \/ Put(r) \in Range(a) \/ Put(r) \in Range(todo)
                    /\ r \notin T =>
                          /\ Answered(a, Put(r), Del(r)) /\ Answered(todo, Put(r), Del(r))
                          /\ r \notin S \/ Del(r) \in Range(a) \/ Del(r) \in Range(todo)
  BY DEF Converging
<1>1. r \in T <=> r \in AfterWrites(X, todo)
  OBVIOUS
<1>2. /\ r \in T => /\ Answered(a, Del(r), Put(r))
                    /\ r \in S \/ Put(r) \in Range(a)
      /\ r \notin T => /\ Answered(a, Put(r), Del(r))
                       /\ r \notin S \/ Del(r) \in Range(a)
  BY NoRequests DEF Converging
<1> QED
  BY <1>1, <1>2, ResultIsAnswered

LEMMA ConvergingSwap ==
    ASSUME NEW S, NEW T, NEW a, NEW b, Converging(S, T, a, b) PROVE Converging(S, T, b, a)
  BY DEF Converging

\* ... after each request of either, ...
LEMMA ConvergingStep ==
    ASSUME NEW S \in SUBSET RowNames, NEW T, NEW a \in Seq(Writes), a # <<>>, NEW b,
           Converging(S, T, a, b)
    PROVE  Converging(AfterWrites(S, <<Head(a)>>), T, Tail(a), b)
<1> DEFINE w == Head(a)
           U == AfterWrites(S, <<w>>)
<1>1. w \in Writes
  OBVIOUS
<1>2. /\ \A r : w = Put(r) => U = S \cup {r}
      /\ \A r : w = Del(r) => U = S \ {r}
      /\ w \in {PutItem, RecordEvent} => U = S
  <2>1. \A r : /\ Put(r) \in Writes => r \in RowNames
               /\ Del(r) \in Writes => r \in RowNames
    BY PutIsNoDel DEF Writes
  <2>2. \A r \in RowNames : /\ AfterWrites(S, <<Put(r)>>) = S \cup {r}
                            /\ AfterWrites(S, <<Del(r)>>) = S \ {r}
                            /\ AfterWrites(S, <<PutItem>>) = S
                            /\ AfterWrites(S, <<RecordEvent>>) = S
    BY OneWrite
  <2>3. \E r \in RowNames : TRUE
    BY RowNamesAre DEF NamedRows
  <2> HIDE DEF w
  <2> QED
    BY <1>1, <2>1, <2>2, <2>3, Zenon
<1>3. \/ w \in {PutItem, RecordEvent}
      \/ \E r \in RowNames : w = Put(r)
      \/ \E r \in RowNames : w = Del(r)
  BY <1>1 DEF Writes
<1>4. Range(a) \subseteq {w} \cup Range(Tail(a))
  BY RangeIsHeadAndTail
<1>5. \A x, y : Answered(a, x, y) =>
         Answered(Tail(a), x, y) /\ (w = x => y \in Range(Tail(a)))
  BY AnsweredNext
<1> HIDE DEF w, U
<1> SUFFICES ASSUME NEW r \in RowNames \ FeaturedRows
             PROVE  /\ r \in T =>
                          /\ Answered(Tail(a), Del(r), Put(r)) /\ Answered(b, Del(r), Put(r))
                          /\ r \in U \/ Put(r) \in Range(Tail(a)) \/ Put(r) \in Range(b)
                    /\ r \notin T =>
                          /\ Answered(Tail(a), Put(r), Del(r)) /\ Answered(b, Put(r), Del(r))
                          /\ r \notin U \/ Del(r) \in Range(Tail(a)) \/ Del(r) \in Range(b)
  BY DEF Converging, U, w
<1> DEFINE Effect == /\ w = Put(r) => r \in U
                     /\ w = Del(r) => r \notin U
                     /\ (w # Put(r) /\ w # Del(r)) => (r \in U <=> r \in S)
<1>6. Effect
  <2>1. CASE w \in {PutItem, RecordEvent}
    BY <1>2, <2>1, PutIsNoDel
  <2>2. ASSUME NEW q \in RowNames, w = Put(q) PROVE Effect
    BY <1>2, <2>2, PutIsNoDel
  <2>3. ASSUME NEW q \in RowNames, w = Del(q) PROVE Effect
    BY <1>2, <2>3, PutIsNoDel
  <2> QED
    BY <1>3, <2>1, <2>2, <2>3
<1>7. CASE r \in T
  <2>1. /\ Answered(a, Del(r), Put(r)) /\ Answered(b, Del(r), Put(r))
        /\ r \in S \/ Put(r) \in Range(a) \/ Put(r) \in Range(b)
    BY <1>7 DEF Converging
  <2>2. Answered(Tail(a), Del(r), Put(r)) /\ (w = Del(r) => Put(r) \in Range(Tail(a)))
    BY <1>5, <2>1
  <2>3. r \in U \/ Put(r) \in Range(Tail(a)) \/ Put(r) \in Range(b)
    BY <1>4, <1>6, <2>1, <2>2
  <2> QED
    BY <1>7, <2>1, <2>2, <2>3
<1>8. CASE r \notin T
  <2>1. /\ Answered(a, Put(r), Del(r)) /\ Answered(b, Put(r), Del(r))
        /\ r \notin S \/ Del(r) \in Range(a) \/ Del(r) \in Range(b)
    BY <1>8 DEF Converging
  <2>2. Answered(Tail(a), Put(r), Del(r)) /\ (w = Put(r) => Del(r) \in Range(Tail(a)))
    BY <1>5, <2>1
  <2>3. r \notin U \/ Del(r) \in Range(Tail(a)) \/ Del(r) \in Range(b)
    BY <1>4, <1>6, <2>1, <2>2
  <2> QED
    BY <1>8, <2>1, <2>2, <2>3
<1> QED
  BY <1>7, <1>8

\* ... until both have made them all, and the rows are those.
LEMMA ConvergingEnd ==
    ASSUME NEW S \in SUBSET RowNames, NEW T, T \subseteq RowNames \ FeaturedRows,
           Converging(S, T, <<>>, <<>>)
    PROVE  S \ FeaturedRows = T
<1>1. \A r \in RowNames \ FeaturedRows : r \in S <=> r \in T
  BY NoRequests DEF Converging
<1> QED
  BY <1>1

-----------------------------------------------------------------------------
(* Before the transcript is written.                                       *)

LEMMA PublicRowsAre ==
    /\ \A item \in Items \cup {NoItem} : PublicRowsOf(item) \subseteq RowNames \ FeaturedRows
    /\ \A x, y : (/\ x.status = "transcribed" /\ y.status = "transcribed"
                  /\ x.quarantined = y.quarantined) => PublicRowsOf(x) = PublicRowsOf(y)
    /\ ChannelRow \in RowNames \ FeaturedRows
<1>1. ASSUME NEW item \in Items \cup {NoItem} PROVE RowsOf(item) \subseteq RowNames
  <2>1. CASE item = NoItem
    BY <2>1, PendingRowsAre
  <2>2. CASE item \in Items
    <3>1. item.status \in Statuses
      BY <2>2, Zenon DEF Items
    <3> QED
      BY <3>1 DEF RowsOf, RowNames
  <2> QED
    BY <2>1, <2>2
<1>2. ASSUME NEW x, NEW y, x.status = "transcribed", y.status = "transcribed",
             x.quarantined = y.quarantined
      PROVE  PublicRowsOf(x) = PublicRowsOf(y)
  <2> DEFINE Shown(q) == PublicRows \cup (IF q THEN {QualityRow} ELSE {})
  <2>1. ASSUME NEW z, z.status = "transcribed"
        PROVE  PublicRowsOf(z) = Shown(z.quarantined) \ FeaturedRows
    <3>1. RowsOf(z) = Shown(z.quarantined) \cup (IF z.featured THEN FeaturedRows ELSE {})
      BY <2>1 DEF RowsOf, BacklogStatuses
    <3> QED
      BY <3>1 DEF PublicRowsOf
  <2> HIDE DEF Shown
  <2> QED
    BY <1>2, <2>1
<1>3. ChannelRow \in RowNames \ FeaturedRows
  BY RowNamesAre DEF ChannelRow, NamedRows, FeaturedRows
<1> QED
  BY <1>1, <1>2, <1>3 DEF PublicRowsOf

\* _put_state lists a clip only when it is transcribed.
LEMMA OnlyTranscribedListed ==
    ASSUME NEW was \in Items \cup {NoItem}, NEW item \in Items, item.status # "transcribed"
    PROVE  Put(ChannelRow) \notin Range(Append(PutState(item, was.status), RecordEvent))
<1> DEFINE old == was.status
           new == item.status
           Unlisted == {w \in Writes : w # Put(ChannelRow)}
           P1 == <<PutItem>>
           P2 == When(old \notin {"none", new}, <<Del(StatusRow(old)), Del(QueueRow(old))>>)
           P3 == When(new \in BacklogStatuses, <<Put(StatusRow(new)), Put(QueueRow(new))>>)
           P4 == When(old = "transcribed" /\ new # "transcribed",
                      DeleteTranscribed \o DeleteFeatured)
           P5 == When(old = "transcribed", <<Del(QualityRow)>>)
           P6 == When(new = "transcribed",
                      <<Put(<<"public", "all">>), Put(<<"public", "channel">>)>>
                        \o When(item.quarantined, <<Put(QualityRow)>>)
                        \o (IF item.featured THEN PutFeatured ELSE DeleteFeatured))
<1>1. /\ new \in Statuses /\ (old \in Statuses \/ old = "none")
  <2>1. \A x \in Items : x.status \in Statuses
    BY Zenon DEF Items
  <2> QED
    BY <2>1, NoItemIsNone
<1>2. /\ \A r \in RowNames : Del(r) \in Unlisted
      /\ \A s \in Statuses : Put(StatusRow(s)) \in Unlisted /\ Put(QueueRow(s)) \in Unlisted
      /\ PutItem \in Unlisted /\ RecordEvent \in Unlisted
  <2>1. ChannelRow \in NamedRows
    BY DEF ChannelRow, NamedRows
  <2>2. \A r \in RowNames : {Put(r), Del(r), PutItem, RecordEvent} \subseteq Writes
    BY OneWrite
  <2> QED
    BY <2>1, <2>2, PutIsNoDel, RowNamesAre
<1> HIDE DEF Unlisted
<1>3. <<>> \in Seq(Unlisted)
  OBVIOUS
<1>4. P1 \in Seq(Unlisted) /\ P2 \in Seq(Unlisted) /\ P3 \in Seq(Unlisted)
  <2>1. old \notin {"none", new} => Del(StatusRow(old)) \in Unlisted /\ Del(QueueRow(old)) \in Unlisted
    BY <1>1, <1>2, RowNamesAre
  <2>2. \A x, y \in Unlisted : <<x>> \in Seq(Unlisted) /\ <<x, y>> \in Seq(Unlisted)
    OBVIOUS
  <2> QED
    BY <1>1, <1>2, <1>3, <2>1, <2>2 DEF When
<1>5. P4 \in Seq(Unlisted) /\ P5 \in Seq(Unlisted)
  <2>1. \A r \in NamedRows : Del(r) \in Unlisted
    BY <1>2, RowNamesAre
  <2>2. \A x, y, z \in Unlisted :
           <<x>> \in Seq(Unlisted) /\ <<x, y>> \in Seq(Unlisted) /\ <<x, y>> \o <<z>> \in Seq(Unlisted)
    OBVIOUS
  <2>3. Del(QualityRow) \in Unlisted
    BY <2>1 DEF NamedRows, QualityRow
  <2>4. DeleteTranscribed \in Seq(Unlisted) /\ DeleteFeatured \in Seq(Unlisted)
    BY <2>1, <2>2, <2>3 DEF DeleteTranscribed, DeleteFeatured, NamedRows
  <2>5. DeleteTranscribed \o DeleteFeatured \in Seq(Unlisted)
    BY <2>4, ConcatProperties
  <2> QED
    BY <1>3, <2>2, <2>3, <2>5 DEF When
<1>6. P6 \in Seq(Unlisted)
  BY <1>3 DEF When
<1>7. PutState(item, old) = P1 \o P2 \o P3 \o P4 \o P5 \o P6
  BY DEF PutState
<1> HIDE DEF P1, P2, P3, P4, P5, P6
<1>8. P1 \o P2 \o P3 \o P4 \o P5 \o P6 \in Seq(Unlisted)
  <2>1. P1 \o P2 \o P3 \in Seq(Unlisted)
    BY <1>4, ConcatProperties
  <2>2. P1 \o P2 \o P3 \o P4 \o P5 \in Seq(Unlisted)
    BY <1>5, <2>1, ConcatProperties
  <2> QED
    BY <1>6, <2>2, ConcatProperties
<1>9. Append(PutState(item, old), RecordEvent) \in Seq(Unlisted)
  BY <1>2, <1>7, <1>8
<1>10. \A s \in Seq(Unlisted) : Put(ChannelRow) \notin Range(s)
  <2>1. \A s \in Seq(Unlisted) : \A i \in DOMAIN s : s[i] \in Unlisted
    OBVIOUS
  <2> QED
    BY <2>1 DEF Unlisted, Range
<1> QED
  BY <1>9, <1>10

\* A poll finds a sound clip in one queue at most, and takes it once.
LEMMA FoundOnce ==
    ASSUME TypeInv, NEW k \in Keys, Sound(k), worker.key # k,
           NEW r \in Found, NEW q \in Found, r.key = k, q.key = k
    PROVE  r = q
<1>1. ASSUME NEW x \in Found, x.key = k
      PROVE  x.row \in Statuses /\ QueueRow(x.row) \in RowsIn(k, RowNames)
  <2>1. x.row \in Polled /\ x.key \in Queried(x.row)
    BY DEF Found
  <2>2. <<QueueRow(x.row), k>> \in rows
    BY <1>1, <2>1 DEF Queried, Oldest
  <2>3. x.row \in Statuses
    BY <2>1 DEF Polled, Statuses, BacklogStatuses
  <2> QED
    BY <2>2, <2>3, RowNamesAre DEF RowsIn
<1>2. \A s, t \in Statuses : (QueueRow(s) = QueueRow(t) => s = t) /\ QueueRow(s) # StatusRow(t)
                             /\ QueueRow(s) \notin NamedRows
  BY DEF QueueRow, StatusRow, NamedRows
<1>3. ~Registering(k)
  <2>1. RowsIn(k, RowNames) \subseteq {StatusRow("pending")} => r = q
    BY <1>1, <1>2 DEF Statuses, BacklogStatuses
  <2>2. "pending" \in Statuses
    BY DEF Statuses, BacklogStatuses
  <2>3. ~(RowsIn(k, RowNames) \subseteq {StatusRow("pending")})
    BY <1>1, <1>2, <2>2
  <2> QED
    BY <2>3 DEF Registering
<1>4. RowsIn(k, RowNames) = RowsOf(state[k])
  BY <1>3 DEF Sound, RowsRight
<1>5. ASSUME NEW s \in Statuses, QueueRow(s) \in RowsOf(state[k]) PROVE s = state[k].status
  <2>1. PublicRows \cup {QualityRow} \cup FeaturedRows = NamedRows
    BY DEF PublicRows, QualityRow, FeaturedRows, NamedRows
  <2>2. QueueRow(s) \notin PublicRows \cup {QualityRow} \cup FeaturedRows
    BY <1>2, <2>1
  <2>3. state[k].status \in BacklogStatuses
    BY <1>5, <2>2 DEF RowsOf
  <2> QED
    BY <1>2, <1>5, <2>3 DEF RowsOf, Statuses
<1>6. r.row = q.row
  BY <1>1, <1>4, <1>5
<1>7. r \in [key : Keys, row : Polled] /\ q \in [key : Keys, row : Polled]
  BY DEF Found
<1> QED
  BY <1>6, <1>7

LEMMA TakenOnce ==
    ASSUME TypeInv, NEW k \in Keys, worker.key # k, Sound(k), Poll
    PROVE  worker'.key = 0 /\ Once(k, worker'.batch)
<1>0. PICK ready \in First(ReadySlots(Waiting), Ready) :
         \E waiting \in First(Limit - Cardinality(ready), Waiting) :
         \E batch \in ByAge(ready \cup waiting) :
            /\ ready \cup waiting # {}
            /\ worker' = [IdleWorker EXCEPT !.pc = "claim", !.batch = batch,
                                            !.old = Range(batch) \cap expired]
  BY DEF Poll
<1>01. PICK waiting \in First(Limit - Cardinality(ready), Waiting) :
         \E batch \in ByAge(ready \cup waiting) :
            /\ ready \cup waiting # {}
            /\ worker' = [IdleWorker EXCEPT !.pc = "claim", !.batch = batch,
                                            !.old = Range(batch) \cap expired]
  BY <1>0
<1>1. PICK batch \in ByAge(ready \cup waiting) :
         /\ ready \cup waiting # {}
         /\ worker' = [IdleWorker EXCEPT !.pc = "claim", !.batch = batch,
                                         !.old = Range(batch) \cap expired]
  BY <1>01
<1> DEFINE records == ready \cup waiting
<1>2. worker'.batch = batch /\ worker'.key = 0
  BY <1>1 DEF IdleWorker
<1>3. records \subseteq Found
  BY DEF First, Ready, Waiting
<1>4. batch \in Seq(Keys) /\ Range(batch) = {r.key : r \in records}
  BY <1>1, BatchOf
<1>5. ASSUME NEW i \in DOMAIN batch, NEW j \in DOMAIN batch, batch[i] = k, batch[j] = k
      PROVE  i = j
  <2> DEFINE I == {h \in DOMAIN batch : batch[h] = k}
             R == {r \in records : r.key = k}
  <2>1. k \in {r.key : r \in records}
    BY <1>4, <1>5 DEF Range
  <2>2. PICK r \in records : r.key = k
    BY <2>1
  <2>3. R = {r}
    BY <1>3, <2>2, FoundOnce
  <2>4. Cardinality(R) = 1
    BY <2>3, FS_Singleton
  <2>5. Cardinality(I) = Cardinality(R)
    BY <2>1 DEF ByAge
  <2>6. IsFiniteSet(I)
    <3>1. DOMAIN batch = 1 .. Len(batch) /\ Len(batch) \in Nat
      BY <1>4
    <3>2. IsFiniteSet(DOMAIN batch)
      BY <3>1, FS_Interval
    <3>3. I \in SUBSET DOMAIN batch
      OBVIOUS
    <3> HIDE DEF I
    <3> QED
      BY <3>2, <3>3, FS_Subset
  <2>7. i \in I /\ j \in I
    BY <1>5
  <2> HIDE DEF I, R
  <2>8. \E x : I = {x}
    BY <2>4, <2>5, <2>6, FS_Singleton
  <2> QED
    BY <2>7, <2>8
<1> QED
  BY <1>2, <1>5 DEF Once

\* Other actors' steps, and those by which the worker lets go of the clips it has done.
LEMMA HiddenElsewhere ==
    ASSUME TypeInv, NEW k \in Keys, Hidden(k), Sound(k)',
           state'[k] = state[k], RowsIn(k, RowNames)' = RowsIn(k, RowNames),
           \/ UNCHANGED worker
           \/ /\ worker'.key # k
              /\ \/ worker'.batch \in {worker.batch, <<>>}
                 \/ worker.batch # <<>> /\ worker'.batch = Tail(worker.batch)
    PROVE  Hidden(k)'
<1>1. worker.batch \in Seq(Keys)
  BY DEF TypeInv, Shapes, Workers
<1>2. Once(k, worker'.batch)
  <2>1. Once(k, worker.batch)
    BY DEF Hidden
  <2>2. Once(k, <<>>)
    BY DEF Once
  <2>3. worker.batch # <<>> => Once(k, Tail(worker.batch))
    BY <1>1, <2>1, OnceInTail
  <2> QED
    BY <2>1, <2>2, <2>3
<1>3. UNCHANGED worker \/ worker'.key # k
  OBVIOUS
<1> QED
  BY <1>2, <1>3 DEF Hidden

LEMMA HiddenApiWrites ==
    ASSUME TypeInv, NEW k \in Keys, Hidden(k), Sound(k)', ApiWrites
    PROVE  Hidden(k)'
<1>1. /\ Request(api) /\ UNCHANGED worker
      /\ api.todo # <<>> /\ api \in Actors /\ api.key \in Keys /\ api.item \in Items
      /\ api.todo \in Seq(Writes) /\ k # 0
  BY ParametersAssumption DEF ApiWrites, Request, TypeInv, Shapes, ApiShape, Actors
<1>2. CASE api.key # k
  <2>1. state'[k] = state[k] /\ RowsIn(k, RowNames)' = RowsIn(k, RowNames)
    BY <1>1, <1>2, RequestEffect DEF TypeInv
  <2> QED
    BY <1>1, <2>1, HiddenElsewhere
<1>3. CASE api.key = k
  <2>1. /\ state'[k] = IF Head(api.todo) = PutItem THEN api.item ELSE state[k]
        /\ RowsIn(k, RowNames)' = AfterWrites(RowsIn(k, RowNames), <<Head(api.todo)>>)
    <3>1. /\ state' = [state EXCEPT ![api.key] = IF Head(api.todo) = PutItem
                                                 THEN api.item ELSE @]
          /\ {r \in RowNames : <<r, api.key>> \in rows'}
               = AfterWrites(RowsIn(api.key, RowNames), <<Head(api.todo)>>)
      BY <1>1, RequestEffect DEF TypeInv
    <3> QED
      BY <1>3, <3>1 DEF RowsIn, TypeInv, Shapes
  <2>2. /\ state[k].status # "transcribed" /\ ChannelRow \notin RowsIn(k, RowNames)
    BY DEF Hidden
  <2>3. /\ Head(api.todo) \in {PutItem, Put(StatusRow("pending")), Put(QueueRow("pending")),
                               RecordEvent}
        /\ Head(api.todo) = PutItem => api.item = PendingItem
    <3>1. CASE Registering(k)
      BY <3>1, PendingRowsAre DEF Registering
    <3>2. CASE api.todo = <<RecordEvent>>
      <4>1. Head(api.todo) = RecordEvent
        BY <3>2
      <4> QED
        BY <4>1 DEF RecordEvent, PutItem
    <3> QED
      BY <1>3, <3>1, <3>2 DEF Hidden, Sound
  <2>4. state'[k].status # "transcribed"
    BY <2>1, <2>2, <2>3 DEF PendingItem
  <2>5. ChannelRow \notin RowsIn(k, RowNames)'
    <3>1. Put(ChannelRow) # Head(api.todo)
      <4>1. ChannelRow # StatusRow("pending") /\ ChannelRow # QueueRow("pending")
        BY DEF ChannelRow, StatusRow, QueueRow
      <4> QED
        BY <2>3, <4>1, PutIsNoDel
    <3>2. \A w : \A i \in DOMAIN <<w>> : <<w>>[i] = w
      OBVIOUS
    <3> QED
      BY <2>1, <2>2, <3>1, <3>2 DEF AfterWrites
  <2> QED
    BY <1>1, <2>4, <2>5 DEF Hidden
<1> QED
  BY <1>2, <1>3

LEMMA HiddenMark ==
    ASSUME TypeInv, NEW k \in Keys, Hidden(k), Sound(k)', NEW item \in Items,
           NEW pc \in {"claiming", "settling"},
           worker.pc \in {"claim", "settle"}, Mark(item, pc), UNCHANGED table,
           item.status = "transcribed" => pc = "settling"
    PROVE  Hidden(k)'
<1> DEFINE todo == Append(PutState(item, state[Clip].status), RecordEvent)
<1>1. /\ worker \in Workers /\ worker.batch \in Seq(Keys) /\ worker.batch # <<>>
      /\ state \in [Keys -> Items \cup {NoItem}]
  BY DEF TypeInv, Shapes, WorkerShape, Workers
<1>2. Clip \in Keys
  BY <1>1, TailIsShorter DEF Clip
<1>3. worker' = [worker EXCEPT !.pc = pc, !.key = Clip, !.item = item, !.todo = todo]
  BY DEF Mark
<1>4. /\ Head(todo) = PutItem
      /\ item.status # "transcribed" => Put(ChannelRow) \notin Range(todo)
  BY <1>1, <1>2, MarkWrites, OnlyTranscribedListed, Zenon
<1> HIDE DEF todo
<1>5. /\ worker'.batch = worker.batch /\ worker'.key = Clip /\ worker'.item = item
      /\ worker'.todo = todo /\ worker'.pc = pc
  BY <1>1, <1>3 DEF Workers
<1>6. UNCHANGED <<state, rows>>
  BY DEF table
<1>7. RowsIn(k, RowNames)' = RowsIn(k, RowNames)
  BY <1>6 DEF RowsIn
<1>8. /\ state'[k].status # "transcribed" /\ ChannelRow \notin RowsIn(k, RowNames)'
      /\ Once(k, worker'.batch)
  BY <1>5, <1>6, <1>7 DEF Hidden
<1>9. worker'.key = k =>
          IF worker'.item.status = "transcribed"
          THEN worker'.pc = "settling" /\ Head(worker'.todo) = PutItem
          ELSE Put(ChannelRow) \notin Range(worker'.todo)
  BY <1>4, <1>5
<1> QED
  BY <1>8, <1>9 DEF Hidden

\* Where the worker goes when it has made its last request.
LEMMA WorkerLetsGo ==
    ASSUME TypeInv, WorkerWrites
    PROVE  \/ /\ worker'.key = worker.key /\ worker'.item = worker.item
              /\ worker'.todo = Tail(worker.todo) /\ worker'.pc = worker.pc
              /\ worker'.batch = worker.batch
           \/ /\ worker'.key = 0 /\ worker'.todo = <<>> /\ Tail(worker.todo) = <<>>
              /\ worker.pc = "settling" => worker'.batch \in {<<>>, Tail(worker.batch)}
              /\ worker.pc = "claiming" => worker'.batch = worker.batch
<1>1. worker \in Workers /\ worker.todo \in Seq(Writes) /\ worker.todo # <<>>
      /\ worker.pc \in {"claiming", "settling"}
  BY WorkerMovesOn DEF TypeInv, Shapes
<1>2. CASE Len(worker.todo) # 1
  <2>1. worker' = [worker EXCEPT !.todo = Tail(@)]
    BY <1>2 DEF WorkerWrites
  <2> QED
    BY <1>1, <2>1 DEF Workers
<1>3. CASE Len(worker.todo) = 1
  <2>1. worker' = AfterMark /\ Tail(worker.todo) = <<>>
    BY <1>1, <1>3, TailIsShorter DEF WorkerWrites
  <2>2. CASE worker.pc = "claiming"
    <3>1. worker' = [worker EXCEPT !.pc = "fetch", !.key = 0, !.item = NoItem, !.todo = <<>>]
      BY <2>1, <2>2 DEF AfterMark
    <3> QED
      BY <1>1, <2>1, <2>2, <3>1 DEF Workers
  <2>3. CASE worker.pc = "settling"
    <3>1. worker' = IF Len(worker.batch) = 1 THEN IdleWorker
                    ELSE [IdleWorker EXCEPT !.pc = "claim", !.batch = Tail(worker.batch),
                                            !.old = worker.old]
      BY <2>1, <2>3 DEF AfterMark
    <3> QED
      BY <2>1, <2>3, <3>1 DEF IdleWorker
  <2> QED
    BY <1>1, <2>2, <2>3
<1> QED
  BY <1>2, <1>3

\* The worker's next request for the clip it writes.
LEMMA WorkerRequest ==
    ASSUME TypeInv, WorkerWrites, NEW k \in Keys, worker.key = k
    PROVE  /\ worker.todo \in Seq(Writes) /\ worker.todo # <<>> /\ worker.item \in Items
           /\ worker.batch \in Seq(Keys) /\ worker.batch # <<>> /\ Clip = k
           /\ k \in Range(worker.batch) /\ worker.pc \in {"claiming", "settling"}
           /\ state'[k] = IF Head(worker.todo) = PutItem THEN worker.item ELSE state[k]
           /\ RowsIn(k, RowNames)' = AfterWrites(RowsIn(k, RowNames), <<Head(worker.todo)>>)
           /\ WritesOf(worker, k) = worker.todo /\ WritesOf(worker', k) = Tail(worker.todo)
<1>1. /\ Request(worker) /\ worker.item \in Items /\ worker.todo \in Seq(Writes)
      /\ worker.todo # <<>> /\ Clip = k /\ worker.pc \in {"claiming", "settling"}
      /\ k \in Range(worker.batch) /\ worker.batch \in Seq(Keys) /\ worker.batch # <<>>
  BY WorkerMovesOn DEF WorkerWrites, TypeInv, WorkerShape, Shapes, Workers
<1>2. /\ state' = [state EXCEPT ![k] = IF Head(worker.todo) = PutItem THEN worker.item ELSE @]
      /\ {r \in RowNames : <<r, k>> \in rows'}
           = AfterWrites(RowsIn(k, RowNames), <<Head(worker.todo)>>)
  BY <1>1, RequestEffect DEF TypeInv
<1>3. WritesOf(worker, k) = worker.todo /\ WritesOf(worker', k) = Tail(worker.todo)
  <2>1. k # 0
    BY ParametersAssumption
  <2> QED
    BY <2>1, WorkerLetsGo DEF WritesOf
<1> QED
  BY <1>1, <1>2, <1>3 DEF RowsIn, TypeInv, Shapes

LEMMA HiddenWorkerWrites ==
    ASSUME TypeInv, TypeInv', NEW k \in Keys, Hidden(k), Sound(k)', WorkerWrites
    PROVE  Hidden(k)' \/ Listed(k)'
<1>1. Request(worker) /\ UNCHANGED <<api, operator>> /\ k # 0
  BY ParametersAssumption DEF WorkerWrites
<1>2. \/ UNCHANGED <<worker.key, worker.batch>>
      \/ worker'.key = 0 /\ worker'.batch \in {<<>>, worker.batch, Tail(worker.batch)}
  BY WorkerLetsGo, WorkerMovesOn
<1>3. worker.batch # <<>> /\ worker.batch \in Seq(Keys) /\ worker' \in Workers
  BY WorkerMovesOn DEF TypeInv, Shapes, WorkerShape, Workers
<1>4. CASE worker.key # k
  <2>1. worker.key \in Keys /\ worker.item \in Items /\ worker.todo \in Seq(Writes)
    BY WorkerMovesOn DEF TypeInv, WorkerShape
  <2>2. state'[k] = state[k] /\ RowsIn(k, RowNames)' = RowsIn(k, RowNames)
    BY <1>1, <1>4, <2>1, RequestEffect DEF TypeInv
  <2>3. worker'.key # k
    BY <1>1, <1>2, <1>4
  <2> QED
    BY <1>2, <1>3, <2>2, <2>3, HiddenElsewhere
<1>5. CASE worker.key = k /\ worker.item.status # "transcribed"
  <2>1. /\ state'[k] = IF Head(worker.todo) = PutItem THEN worker.item ELSE state[k]
        /\ RowsIn(k, RowNames)' = AfterWrites(RowsIn(k, RowNames), <<Head(worker.todo)>>)
        /\ worker.todo \in Seq(Writes) /\ worker.todo # <<>>
    BY <1>5, WorkerRequest
  <2>2. /\ Put(ChannelRow) \notin Range(worker.todo)
        /\ state[k].status # "transcribed" /\ ChannelRow \notin RowsIn(k, RowNames)
    BY <1>5 DEF Hidden
  <2>3. Put(ChannelRow) # Head(worker.todo) /\ Put(ChannelRow) \notin Range(Tail(worker.todo))
    BY <2>1, <2>2, TailIsShorter
  <2>4. state'[k].status # "transcribed"
    BY <1>5, <2>1, <2>2
  <2>5. ChannelRow \notin RowsIn(k, RowNames)'
    <3>1. \A w : \A i \in DOMAIN <<w>> : <<w>>[i] = w
      OBVIOUS
    <3> QED
      BY <2>1, <2>2, <2>3, <3>1 DEF AfterWrites
  <2>6. CASE worker'.key = k
    <3>1. worker'.batch = worker.batch /\ worker'.item = worker.item
          /\ worker'.todo = Tail(worker.todo)
      BY <1>1, <2>6, WorkerLetsGo
    <3> QED
      BY <1>5, <2>3, <2>4, <2>5, <3>1 DEF Hidden
  <2>7. CASE worker'.key # k
    <3>1. worker'.batch \in {<<>>, worker.batch, Tail(worker.batch)}
      BY <1>2
    <3>2. Once(k, worker'.batch)
      <4>1. Once(k, worker.batch)
        BY DEF Hidden
      <4>2. Once(k, Tail(worker.batch)) /\ Once(k, <<>>)
        BY <1>3, <4>1, OnceInTail
      <4> QED
        BY <3>1, <4>1, <4>2
    <3> QED
      BY <2>4, <2>5, <2>7, <3>2 DEF Hidden
  <2> QED
    BY <2>6, <2>7
<1>6. CASE worker.key = k /\ worker.item.status = "transcribed"
  <2>1. /\ worker.todo \in Seq(Writes) /\ worker.todo # <<>> /\ worker.item \in Items
        /\ Clip = k /\ Head(worker.todo) = PutItem /\ worker.pc = "settling"
        /\ state'[k] = worker.item
        /\ RowsIn(k, RowNames)' = AfterWrites(RowsIn(k, RowNames), <<Head(worker.todo)>>)
        /\ WritesOf(worker', k) = Tail(worker.todo)
    BY <1>6, WorkerRequest DEF Hidden
  <2>2. /\ operator.key # k /\ (api.key = k => api.todo = <<RecordEvent>>)
        /\ AfterWrites(RowsIn(k, RowNames), worker.todo) = RowsOf(worker.item)
    <3>1. k \in Range(worker.batch)
      BY <1>6, WorkerRequest
    <3> QED
      BY <1>6, <3>1 DEF Hidden, Sound, Registering, BeingMarked
  <2>3. k \notin Range(Tail(worker.batch))
    BY <1>3, <2>1, OnceInTail DEF Hidden, Clip
  <2>4. Converging(RowsIn(k, RowNames), PublicRowsOf(worker.item), worker.todo, <<>>)
    <3>1. AfterWrites(RowsIn(k, RowNames), worker.todo) \ FeaturedRows
            = PublicRowsOf(worker.item)
      BY <2>2 DEF PublicRowsOf
    <3> QED
      BY <2>1, <3>1, ConvergingStart
  <2>5. Converging(RowsIn(k, RowNames)', PublicRowsOf(worker.item), Tail(worker.todo), <<>>)
    <3>1. RowsIn(k, RowNames) \in SUBSET RowNames
      BY DEF RowsIn
    <3>2. Converging(AfterWrites(RowsIn(k, RowNames), <<Head(worker.todo)>>),
                     PublicRowsOf(worker.item), Tail(worker.todo), <<>>)
      BY <2>1, <2>4, <3>1, ConvergingStep
    <3> QED
      BY <2>1, <3>2
  <2>6. WritesOf(operator', k) = <<>>
    BY <1>1, <2>2 DEF WritesOf
  <2>7. k \in Range(worker'.batch) =>
          worker'.pc = "settling" /\ Clip' = k /\ k \notin Range(Tail(worker'.batch))
    <3>1. CASE worker'.batch = worker.batch /\ worker'.pc = worker.pc
      BY <2>1, <2>3, <3>1 DEF Clip
    <3>2. CASE worker'.batch \in {<<>>, Tail(worker.batch)}
      BY <2>3, <3>2, NoRequests
    <3> QED
      BY <2>1, <3>1, <3>2, WorkerLetsGo
  <2>8. worker'.key = k => worker'.item = worker.item
    BY <1>1, WorkerLetsGo
  <2> QED
    BY <1>1, <1>6, <2>1, <2>2, <2>5, <2>6, <2>7, <2>8 DEF Listed
<1> QED
  BY <1>4, <1>5, <1>6

-----------------------------------------------------------------------------
(* Once the transcript is written.                                         *)

LEMMA ListedElsewhere ==
    ASSUME NEW k \in Keys, Listed(k),
           state'[k] = state[k], RowsIn(k, RowNames)' = RowsIn(k, RowNames),
           api'.key = k => api'.todo = <<RecordEvent>>,
           \/ UNCHANGED worker
           \/ worker.key # k /\ worker'.key # k /\ k \notin Range(worker'.batch),
           \/ UNCHANGED operator
           \/ /\ operator.key = k => operator.todo = <<>>
              /\ operator'.key = k => operator'.todo = <<>>
    PROVE  Listed(k)'
<1>1. state'[k].status = "transcribed"
  BY DEF Listed
<1>2. k \in Range(worker'.batch) =>
          worker'.pc = "settling" /\ Clip' = k /\ k \notin Range(Tail(worker'.batch))
  BY DEF Listed, Clip
<1>3. WritesOf(worker', k) = WritesOf(worker, k) /\ WritesOf(operator', k) = WritesOf(operator, k)
  BY DEF WritesOf
<1>4. Converging(RowsIn(k, RowNames)', PublicRowsOf(state'[k]),
                 WritesOf(worker', k), WritesOf(operator', k))
  BY <1>3 DEF Listed
<1>5. /\ (worker'.key = k /\ worker'.todo # <<>>) =>
             /\ worker'.item.status = "transcribed"
             /\ worker'.item.quarantined = state'[k].quarantined
      /\ (operator'.key = k /\ operator'.todo # <<>>) =>
             /\ operator'.item.status = "transcribed"
             /\ operator'.item.quarantined = state'[k].quarantined
  BY DEF Listed
<1> QED
  BY <1>1, <1>2, <1>4, <1>5 DEF Listed

LEMMA ListedApiWrites ==
    ASSUME TypeInv, NEW k \in Keys, Listed(k), ApiWrites
    PROVE  Listed(k)'
<1>1. /\ Request(api) /\ UNCHANGED <<worker, operator>>
      /\ api' = IF Len(api.todo) = 1 THEN IdleApi ELSE [api EXCEPT !.todo = Tail(@)]
      /\ api.todo # <<>> /\ api \in Actors /\ api.key \in Keys /\ api.item \in Items
      /\ api.todo \in Seq(Writes) /\ k # 0
  BY ParametersAssumption DEF ApiWrites, Request, TypeInv, Shapes, ApiShape, Actors
<1>2. CASE api.key # k
  <2>1. state'[k] = state[k] /\ RowsIn(k, RowNames)' = RowsIn(k, RowNames)
    BY <1>1, <1>2, RequestEffect DEF TypeInv
  <2>2. api'.key # k
    BY <1>1, <1>2 DEF IdleApi, NoWrites, Actors
  <2> QED
    BY <1>1, <2>1, <2>2, ListedElsewhere
<1>3. CASE api.key = k
  <2>1. api.todo = <<RecordEvent>>
    BY <1>3 DEF Listed
  <2>2. Head(api.todo) = RecordEvent /\ Len(api.todo) = 1 /\ RecordEvent # PutItem
    BY <2>1 DEF RecordEvent, PutItem
  <2>3. api'.key # k
    BY <1>1, <2>2 DEF IdleApi, NoWrites
  <2>4. /\ state' = [state EXCEPT ![api.key] = IF Head(api.todo) = PutItem
                                               THEN api.item ELSE @]
        /\ {r \in RowNames : <<r, api.key>> \in rows'}
             = AfterWrites(RowsIn(api.key, RowNames), <<Head(api.todo)>>)
    BY <1>1, RequestEffect DEF TypeInv
  <2>5. AfterWrites(RowsIn(k, RowNames), <<RecordEvent>>) = RowsIn(k, RowNames)
    BY OneWrite, PendingRowsAre DEF RowsIn
  <2>6. state'[k] = state[k] /\ RowsIn(k, RowNames)' = RowsIn(k, RowNames)
    BY <1>3, <2>2, <2>4, <2>5 DEF RowsIn, TypeInv, Shapes
  <2> QED
    BY <1>1, <2>3, <2>6, ListedElsewhere
<1> QED
  BY <1>2, <1>3

LEMMA ListedWorker ==
    ASSUME TypeInv, NEW k \in Keys, Listed(k), Poll \/ Claim \/ Fetch \/ Settle
    PROVE  Listed(k)'
<1>1. /\ UNCHANGED <<state, rows, api, operator>> /\ k # 0
      /\ worker.key = 0 /\ worker.pc # "settling" /\ worker \in Workers
  BY ParametersAssumption DEF Poll, Claim, Fetch, Settle, table, TypeInv, WorkerShape, Shapes
<1>2. k \notin Range(worker.batch)
  BY <1>1 DEF Listed
<1>3. CASE Poll
  <2>1. PICK ready \in First(ReadySlots(Waiting), Ready) :
           \E waiting \in First(Limit - Cardinality(ready), Waiting) :
           \E batch \in ByAge(ready \cup waiting) :
              /\ ready \cup waiting # {}
              /\ worker' = [IdleWorker EXCEPT !.pc = "claim", !.batch = batch,
                                              !.old = Range(batch) \cap expired]
    BY <1>3 DEF Poll
  <2>2. PICK waiting \in First(Limit - Cardinality(ready), Waiting) :
           \E batch \in ByAge(ready \cup waiting) :
              /\ ready \cup waiting # {}
              /\ worker' = [IdleWorker EXCEPT !.pc = "claim", !.batch = batch,
                                              !.old = Range(batch) \cap expired]
    BY <2>1
  <2>3. PICK batch \in ByAge(ready \cup waiting) :
           /\ ready \cup waiting # {}
           /\ worker' = [IdleWorker EXCEPT !.pc = "claim", !.batch = batch,
                                           !.old = Range(batch) \cap expired]
    BY <2>2
  <2>4. worker'.batch = batch /\ worker'.key = 0
    BY <2>3 DEF IdleWorker
  <2>5. \A j \in Range(batch) : \E r \in Found : r.key = j
    BY <2>3, BatchOf
  <2>6. ASSUME NEW r \in Found PROVE r.key # k
    <3>1. state[r.key].status \in Polled
      BY DEF Found
    <3> QED
      BY <3>1 DEF Polled, Listed
  <2> QED
    BY <1>1, <2>4, <2>5, <2>6, ListedElsewhere DEF RowsIn, Listed
<1>4. CASE Fetch
  <2>1. worker'.key = worker.key /\ worker'.batch = worker.batch
    BY <1>1, <1>4 DEF Fetch, Workers
  <2> QED
    BY <1>1, <1>2, <2>1, ListedElsewhere DEF RowsIn, Listed
<1>5. ASSUME NEW item, NEW pc, Mark(item, pc), worker.pc # "poll" PROVE Listed(k)'
  <2>1. worker'.key = Clip /\ worker'.batch = worker.batch
    BY <1>1, <1>5 DEF Mark, Workers
  <2>2. Clip \in Range(worker.batch)
    BY <1>1, <1>5, TailIsShorter DEF Clip, TypeInv, WorkerShape, Workers
  <2> QED
    BY <1>1, <1>2, <2>1, <2>2, ListedElsewhere DEF RowsIn, Listed
<1>6. CASE Claim \/ Settle
  BY <1>5, <1>6 DEF Claim, Settle
<1> QED
  BY <1>3, <1>4, <1>6

LEMMA ListedWorkerWrites ==
    ASSUME TypeInv, TypeInv', NEW k \in Keys, Listed(k), WorkerWrites
    PROVE  Listed(k)'
<1>1. /\ Request(worker) /\ UNCHANGED <<api, operator>> /\ k # 0
      /\ worker.key = Clip /\ Range(worker'.batch) \subseteq Range(worker.batch)
      /\ worker'.key \in {0, worker.key}
  BY ParametersAssumption, WorkerMovesOn, WorkerLetsGo DEF WorkerWrites
<1>2. CASE worker.key # k
  <2>1. worker.key \in Keys /\ worker.item \in Items /\ worker.todo \in Seq(Writes)
    BY WorkerMovesOn DEF TypeInv, WorkerShape
  <2>2. state'[k] = state[k] /\ RowsIn(k, RowNames)' = RowsIn(k, RowNames)
    BY <1>1, <1>2, <2>1, RequestEffect DEF TypeInv
  <2>3. worker'.key # k /\ k \notin Range(worker'.batch)
    BY <1>1, <1>2 DEF Listed
  <2> QED
    BY <1>1, <1>2, <2>2, <2>3, ListedElsewhere DEF Listed
<1>3. CASE worker.key = k
  <2>1. /\ worker.todo \in Seq(Writes) /\ worker.todo # <<>> /\ k \in Range(worker.batch)
        /\ state'[k] = IF Head(worker.todo) = PutItem THEN worker.item ELSE state[k]
        /\ RowsIn(k, RowNames)' = AfterWrites(RowsIn(k, RowNames), <<Head(worker.todo)>>)
        /\ WritesOf(worker, k) = worker.todo /\ WritesOf(worker', k) = Tail(worker.todo)
    BY <1>3, WorkerRequest
  <2>2. /\ worker.pc = "settling" /\ Clip = k /\ k \notin Range(Tail(worker.batch))
        /\ worker.item.status = "transcribed"
        /\ worker.item.quarantined = state[k].quarantined /\ state[k].status = "transcribed"
        /\ Converging(RowsIn(k, RowNames), PublicRowsOf(state[k]), worker.todo,
                      WritesOf(operator, k))
    BY <1>3, <2>1 DEF Listed
  <2>3. /\ state'[k].status = "transcribed" /\ state'[k].quarantined = state[k].quarantined
        /\ PublicRowsOf(state'[k]) = PublicRowsOf(state[k])
    BY <2>1, <2>2, PublicRowsAre
  <2>4. Converging(RowsIn(k, RowNames)', PublicRowsOf(state'[k]), WritesOf(worker', k),
                   WritesOf(operator', k))
    <3>1. RowsIn(k, RowNames) \in SUBSET RowNames
      BY DEF RowsIn
    <3>2. Converging(AfterWrites(RowsIn(k, RowNames), <<Head(worker.todo)>>),
                     PublicRowsOf(state[k]), Tail(worker.todo), WritesOf(operator, k))
      BY <2>1, <2>2, <3>1, ConvergingStep
    <3> QED
      BY <1>1, <2>1, <2>3, <3>2
  <2>5. k \in Range(worker'.batch) =>
          worker'.pc = "settling" /\ Clip' = k /\ k \notin Range(Tail(worker'.batch))
    <3>1. CASE worker'.batch = worker.batch /\ worker'.pc = worker.pc
      BY <2>2, <3>1 DEF Clip
    <3>2. CASE worker'.batch \in {<<>>, Tail(worker.batch)}
      BY <2>2, <3>2, NoRequests
    <3> QED
      BY <2>2, <3>1, <3>2, WorkerLetsGo
  <2>6. worker'.key = k => worker'.item = worker.item
    BY <1>1, WorkerLetsGo
  <2> QED
    BY <1>1, <2>2, <2>3, <2>4, <2>5, <2>6 DEF Listed
<1> QED
  BY <1>2, <1>3

LEMMA ListedStar ==
    ASSUME TypeInv, NEW k \in Keys, Listed(k), Star
    PROVE  Listed(k)'
<1> DEFINE item == [state[operator.key] EXCEPT !.featured = operator.star]
           todo == Append(PutState(item, "transcribed"), RecordEvent)
<1>1. /\ UNCHANGED <<state, rows, api, worker>> /\ operator \in Operators
      /\ operator.pc = "found" /\ operator.todo = <<>>
      /\ operator' = [operator EXCEPT !.pc = "writing", !.item = item, !.todo = todo]
  BY DEF Star, table, TypeInv, Shapes, OperatorShape
<1> HIDE DEF todo
<1>2. operator'.key = operator.key /\ operator'.item = item /\ operator'.todo = todo
  BY <1>1 DEF Operators
<1>3. CASE operator.key # k
  BY <1>1, <1>2, <1>3, ListedElsewhere DEF RowsIn, Listed
<1>4. CASE operator.key = k
  <2>1. /\ state[k].status = "transcribed" /\ state[k] \in Items /\ operator.star \in BOOLEAN
    <3>1. state[k] \in Items \cup {NoItem} /\ state[k] # NoItem
      BY <1>4 DEF TypeInv, Shapes, NothingComesFirst
    <3> QED
      BY <1>1, <3>1 DEF Listed, Operators
  <2>2. item \in Items /\ item.status = state[k].status /\ item.quarantined = state[k].quarantined
    <3>1. item \in Items
      BY <1>4, <2>1, ItemsMade
    <3>2. state[k] = [status |-> state[k].status, quarantined |-> state[k].quarantined,
                      featured |-> state[k].featured]
      BY <2>1, NoItemIsNone
    <3>3. item = [status |-> state[k].status, quarantined |-> state[k].quarantined,
                  featured |-> operator.star]
      BY <1>4, <3>2
    <3> QED
      BY <3>1, <3>3
  <2> HIDE DEF item
  <2>3. todo \in Seq(Writes) /\ AfterWrites(RowsOf(state[k]), todo) = RowsOf(item)
    BY <2>1, <2>2, PutStateRight DEF todo
  <2>4. PublicRowsOf(item) = PublicRowsOf(state[k])
    BY <2>1, <2>2, PublicRowsAre
  <2>5. AfterWrites(RowsOf(state[k]), todo) \ FeaturedRows = PublicRowsOf(state[k])
    BY <2>3, <2>4 DEF PublicRowsOf
  <2>6. Converging(RowsIn(k, RowNames), PublicRowsOf(state[k]), WritesOf(worker, k), <<>>)
    BY <1>1, <1>4 DEF Listed, WritesOf
  <2>7. Converging(RowsIn(k, RowNames), PublicRowsOf(state[k]), WritesOf(worker, k), todo)
    BY <2>3, <2>5, <2>6, ConvergingMore
  <2>8. Converging(RowsIn(k, RowNames)', PublicRowsOf(state'[k]), WritesOf(worker', k),
                   WritesOf(operator', k))
    BY <1>1, <1>2, <1>4, <2>7 DEF WritesOf, RowsIn
  <2>9. k \in Range(worker'.batch) =>
          worker'.pc = "settling" /\ Clip' = k /\ k \notin Range(Tail(worker'.batch))
    BY <1>1 DEF Listed, Clip
  <2> QED
    BY <1>1, <1>2, <2>1, <2>2, <2>8, <2>9 DEF Listed
<1> QED
  BY <1>3, <1>4

LEMMA ListedOperatorWrites ==
    ASSUME TypeInv, NEW k \in Keys, Listed(k), OperatorWrites
    PROVE  Listed(k)'
<1>1. /\ Request(operator) /\ UNCHANGED <<api, worker>> /\ k # 0
      /\ operator' = IF Len(operator.todo) = 1 THEN IdleOperator
                     ELSE [operator EXCEPT !.todo = Tail(@)]
  BY ParametersAssumption DEF OperatorWrites
<1>2. /\ operator.key \in Keys /\ operator.item \in Items /\ operator.todo \in Seq(Writes)
      /\ operator \in Operators /\ operator.todo # <<>>
  BY <1>1 DEF Request, TypeInv, Shapes, OperatorShape, Operators
<1>3. \/ operator'.key = 0 /\ operator'.todo = <<>> /\ Tail(operator.todo) = <<>>
      \/ /\ operator'.key = operator.key /\ operator'.item = operator.item
         /\ operator'.todo = Tail(operator.todo)
  <2>1. CASE Len(operator.todo) = 1
    BY <1>1, <1>2, <2>1, TailIsShorter DEF IdleOperator
  <2>2. CASE Len(operator.todo) # 1
    BY <1>1, <1>2, <2>2 DEF Operators
  <2> QED
    BY <2>1, <2>2
<1>4. /\ state' = [state EXCEPT ![operator.key] = IF Head(operator.todo) = PutItem
                                                  THEN operator.item ELSE @]
      /\ {r \in RowNames : <<r, operator.key>> \in rows'}
           = AfterWrites(RowsIn(operator.key, RowNames), <<Head(operator.todo)>>)
      /\ operator.key # k => /\ state'[k] = state[k]
                             /\ RowsIn(k, RowNames)' = RowsIn(k, RowNames)
  BY <1>1, <1>2, RequestEffect DEF TypeInv
<1>5. CASE operator.key # k
  BY <1>1, <1>3, <1>4, <1>5, ListedElsewhere DEF Listed
<1>6. CASE operator.key = k
  <2>1. /\ state'[k] = IF Head(operator.todo) = PutItem THEN operator.item ELSE state[k]
        /\ RowsIn(k, RowNames)' = AfterWrites(RowsIn(k, RowNames), <<Head(operator.todo)>>)
    BY <1>4, <1>6 DEF RowsIn, TypeInv, Shapes
  <2>2. /\ operator.item.status = "transcribed" /\ state[k].status = "transcribed"
        /\ operator.item.quarantined = state[k].quarantined
        /\ Converging(RowsIn(k, RowNames), PublicRowsOf(state[k]), WritesOf(worker, k),
                      operator.todo)
    BY <1>2, <1>6 DEF Listed, WritesOf
  <2>3. /\ state'[k].status = "transcribed" /\ state'[k].quarantined = state[k].quarantined
        /\ PublicRowsOf(state'[k]) = PublicRowsOf(state[k])
    BY <2>1, <2>2, PublicRowsAre
  <2>4. Converging(RowsIn(k, RowNames)', PublicRowsOf(state[k]), WritesOf(worker, k),
                   Tail(operator.todo))
    <3>1. RowsIn(k, RowNames) \in SUBSET RowNames
      BY DEF RowsIn
    <3>2. Converging(RowsIn(k, RowNames), PublicRowsOf(state[k]), operator.todo,
                     WritesOf(worker, k))
      BY <2>2, ConvergingSwap
    <3>3. Converging(AfterWrites(RowsIn(k, RowNames), <<Head(operator.todo)>>),
                     PublicRowsOf(state[k]), Tail(operator.todo), WritesOf(worker, k))
      BY <1>2, <3>1, <3>2, ConvergingStep
    <3> QED
      BY <2>1, <3>3, ConvergingSwap
  <2>5. WritesOf(worker', k) = WritesOf(worker, k) /\ WritesOf(operator', k) = Tail(operator.todo)
    BY <1>1, <1>3, <1>6 DEF WritesOf
  <2>6. k \in Range(worker'.batch) =>
          worker'.pc = "settling" /\ Clip' = k /\ k \notin Range(Tail(worker'.batch))
    BY <1>1 DEF Listed, Clip
  <2>7. operator'.key = k => operator'.item = operator.item
    BY <1>1, <1>3
  <2>8. (worker'.key = k /\ worker'.todo # <<>>) =>
             /\ worker'.item.status = "transcribed"
             /\ worker'.item.quarantined = state'[k].quarantined
    BY <1>1, <2>3 DEF Listed
  <2> QED
    BY <1>1, <2>2, <2>3, <2>4, <2>5, <2>6, <2>7, <2>8 DEF Listed
<1> QED
  BY <1>5, <1>6

-----------------------------------------------------------------------------
(* Both together.                                                          *)

LEMMA StarInit == Init => StarInv
<1> SUFFICES ASSUME Init PROVE StarInv
  OBVIOUS
<1>1. TypeInv /\ \A k \in Keys : Unregistered(k)
  BY ContainmentInit DEF ContainmentInv
<1>2. \A k \in Keys : presigns[k] # 1
  BY DEF Init
<1> QED
  BY <1>1, <1>2 DEF StarInv

LEMMA HiddenStep ==
    ASSUME TypeInv, TypeInv', \A j \in Keys : Unregistered(j),
           NEW k \in Keys, Hidden(k), presigns[k] = 1, presigns'[k] = 1, [Next]_vars,
           ~(WorkerFault \/ WorkerCrash \/ ApiCrash)
    PROVE  Hidden(k)' \/ Listed(k)'
<1>1. CASE \/ \E j \in Keys : Presign(j) \/ Upload(j) \/ Expire(j)
           \/ ApiWrites \/ Work \/ Star \/ OperatorWrites \/ UNCHANGED vars
  <2>1. Sound(k)'
    <3> DEFINE D == Keys \ {k}
    <3>1. SoundBut(D) /\ D \in SUBSET Keys
      BY DEF SoundBut, Hidden
    <3>2. SoundBut(D)'
      BY <1>1, <3>1, SoundStep
    <3> QED
      BY <3>2 DEF SoundBut
  <2>2. CASE \/ \E j \in Keys : Presign(j) \/ Upload(j) \/ Expire(j)
             \/ Star \/ UNCHANGED vars
    <3>1. UNCHANGED <<state, rows, worker>>
      BY <2>2 DEF Presign, Upload, Expire, Star, vars, table
    <3> QED
      BY <2>1, <3>1, HiddenElsewhere DEF RowsIn
  <2>3. CASE Poll
    <3>1. worker.key # k /\ k # 0 /\ UNCHANGED <<state, rows>>
      BY <2>3, ParametersAssumption DEF Poll, table, TypeInv, WorkerShape
    <3>2. worker'.key = 0 /\ Once(k, worker'.batch)
      BY <2>3, <3>1, TakenOnce DEF Hidden
    <3> QED
      BY <2>1, <3>1, <3>2 DEF Hidden, RowsIn
  <2>4. CASE Fetch
    <3>1. /\ UNCHANGED table /\ worker.key = 0 /\ k # 0 /\ worker \in Workers
      BY <2>4, ParametersAssumption DEF Fetch, TypeInv, WorkerShape, Shapes
    <3>2. worker'.key = 0 /\ worker'.batch = worker.batch
      BY <2>4, <3>1 DEF Fetch, Workers
    <3> QED
      BY <2>1, <3>1, <3>2, HiddenElsewhere DEF RowsIn, table
  <2>5. CASE Claim \/ Settle
    <3>1. Clip \in Keys /\ state[Clip] \in Items \cup {NoItem}
      BY <2>5, TailIsShorter DEF Claim, Settle, TypeInv, Shapes, Workers, WorkerShape, Clip
    <3>2. CASE Claim
      <4> DEFINE item == [state[Clip] EXCEPT !.status = "processing"]
      <4>1. item \in Items
        BY <3>1, ItemsMade DEF Statuses, BacklogStatuses
      <4>2. item.status # "transcribed"
        BY <3>1, NoItemIsNone
      <4> HIDE DEF item
      <4>3. Mark(item, "claiming") /\ UNCHANGED table /\ worker.pc = "claim"
        BY <3>2 DEF Claim, item
      <4> QED
        BY <2>1, <4>1, <4>2, <4>3, HiddenMark
    <3>3. CASE Settle
      <4> DEFINE item == [state[Clip] EXCEPT
                            !.status = worker.verdict.status,
                            !.quarantined = IF worker.verdict.status = "transcribed"
                                            THEN worker.verdict.quarantined ELSE @]
      <4>1. worker.verdict \in Items
        BY <3>3 DEF Settle, TypeInv, WorkerShape
      <4>2. item \in Items
        BY <3>1, <4>1, ItemsMade
      <4> HIDE DEF item
      <4>3. Mark(item, "settling") /\ UNCHANGED table /\ worker.pc = "settle"
        BY <3>3 DEF Settle, item
      <4> QED
        BY <2>1, <4>2, <4>3, HiddenMark
    <3> QED
      BY <2>5, <3>2, <3>3
  <2>6. CASE OperatorWrites
    <3>1. /\ Request(operator) /\ UNCHANGED worker /\ operator.key # k
          /\ operator.key \in Keys /\ operator.item \in Items /\ operator.todo \in Seq(Writes)
      BY <2>6 DEF OperatorWrites, Request, TypeInv, Shapes, OperatorShape, Operators, Hidden,
                  Sound
    <3>2. state'[k] = state[k] /\ RowsIn(k, RowNames)' = RowsIn(k, RowNames)
      BY <3>1, RequestEffect DEF TypeInv
    <3> QED
      BY <2>1, <3>1, <3>2, HiddenElsewhere
  <2> QED
    BY <1>1, <2>1, <2>2, <2>3, <2>4, <2>5, <2>6, HiddenApiWrites, HiddenWorkerWrites DEF Work
<1>2. ASSUME NEW j \in Keys, NEW star \in BOOLEAN, FindClip(j, star)
      PROVE  Hidden(k)'
  <2>1. /\ UNCHANGED <<table, api, worker>> /\ operator'.key = j
        /\ <<ChannelRow, j>> \in rows
    BY <1>2 DEF FindClip, IdleOperator, ChannelRow
  <2>2. j # k
    BY <2>1, PublicRowsAre DEF Hidden, RowsIn
  <2>3. Sound(k)'
    <3>1. /\ Sound(k) /\ api' = api /\ worker' = worker /\ state' = state /\ rows' = rows
          /\ operator'.key # k
      BY <2>1, <2>2 DEF Hidden, table
    <3> QED
      BY <3>1 DEF Sound, Registering, BeingMarked, RowsRight, RowsIn
  <2> QED
    BY <2>1, <2>3, HiddenElsewhere DEF RowsIn, table
<1> QED
  BY <1>1, <1>2 DEF Next

LEMMA ListedStep ==
    ASSUME TypeInv, TypeInv', \A j \in Keys : Unregistered(j),
           NEW k \in Keys, Listed(k), presigns[k] = 1, presigns'[k] = 1, [Next]_vars,
           ~(WorkerFault \/ WorkerCrash \/ ApiCrash)
    PROVE  Listed(k)'
<1>1. ASSUME NEW j \in Keys, Presign(j) PROVE Listed(k)'
  <2>1. j # k
    BY <1>1 DEF Presign, TypeInv, Shapes
  <2>2. UNCHANGED <<state, rows, worker, operator>> /\ api'.key # k
    BY <1>1, <2>1, ParametersAssumption DEF Presign, table, IdleApi, NoWrites
  <2> QED
    BY <2>2, ListedElsewhere DEF RowsIn
<1>2. CASE (\E j \in Keys : Upload(j) \/ Expire(j)) \/ UNCHANGED vars
  <2>1. UNCHANGED <<state, rows, api, worker, operator>>
    BY <1>2 DEF Upload, Expire, vars, table
  <2> QED
    BY <2>1, ListedElsewhere DEF RowsIn, Listed
<1>3. ASSUME NEW j \in Keys, NEW star \in BOOLEAN, FindClip(j, star)
      PROVE  Listed(k)'
  <2>1. /\ UNCHANGED <<state, rows, api, worker>>
        /\ operator.todo = <<>> /\ operator'.todo = <<>>
    BY <1>3 DEF FindClip, IdleOperator, table
  <2> QED
    BY <2>1, ListedElsewhere DEF RowsIn, Listed
<1> QED
  BY <1>1, <1>2, <1>3, ListedApiWrites, ListedWorker, ListedWorkerWrites, ListedStar,
     ListedOperatorWrites DEF Next, Work

LEMMA HeldIsInBatch ==
    ASSUME TypeInv PROVE worker.key # 0 => worker.key \in Range(worker.batch)
<1> SUFFICES ASSUME worker.key # 0 PROVE worker.key \in Range(worker.batch)
  OBVIOUS
<1>1. worker.batch \in Seq(Keys)
  BY DEF TypeInv, Shapes, Workers
<1>2. worker.key = Head(worker.batch) /\ worker.batch # <<>>
  BY DEF TypeInv, WorkerShape, Clip
<1> QED
  BY <1>1, <1>2, TailIsShorter

LEMMA StarStep == StarInv /\ [Next]_vars => StarInv'
<1> SUFFICES ASSUME StarInv, [Next]_vars PROVE StarInv'
  OBVIOUS
<1>1. TypeInv /\ TypeInv'
  BY TypeStep DEF StarInv
<1>2. \A k \in Keys : Unregistered(k) /\ Unregistered(k)'
  BY <1>1, UnregisteredStep DEF StarInv
<1>3. crashes \in Nat /\ faults \in Nat
  BY <1>1, ParametersAssumption DEF TypeInv, Bookkeeping
<1>4. ASSUME crashes' = 0, faults' = 0, NEW k \in Keys, presigns'[k] = 1
      PROVE  Hidden(k)' \/ Listed(k)'
  <2>1. ~(WorkerFault \/ WorkerCrash \/ ApiCrash)
    BY <1>3, <1>4 DEF WorkerFault, WorkerCrash, ApiCrash
  <2>2. crashes = 0 /\ faults = 0
    BY <1>4, <2>1 DEF Next, Work, Presign, Upload, Expire, ApiWrites, Poll, Claim, Fetch,
                      Settle, WorkerWrites, FindClip, Star, OperatorWrites, vars, bounds
  <2>3. CASE presigns[k] = 1
    BY <1>1, <1>2, <1>4, <2>1, <2>2, <2>3, HiddenStep, ListedStep DEF StarInv
  <2>4. CASE presigns[k] # 1
    <3>1. PICK j \in Keys : Presign(j)
      BY <1>4, <2>1, <2>4 DEF Next, Work, Upload, Expire, ApiWrites, Poll, Claim, Fetch,
                              Settle, WorkerWrites, FindClip, Star, OperatorWrites, vars, bounds
    <3>2. j = k /\ presigns[k] = 0
      BY <1>1, <1>4, <2>4, <3>1, ParametersAssumption DEF Presign, TypeInv, Shapes
    <3>3. Sound(k)'
      BY <1>1, <1>2, <1>4, <2>4, <3>1, SoundPresign
    <3>4. /\ state[k] = NoItem /\ RowsIn(k, RowNames) = {} /\ k \notin Range(worker.batch)
          /\ UNCHANGED <<state, rows, worker>>
      BY <1>1, <1>2, <3>1, <3>2 DEF Unregistered, TypeInv, NothingComesFirst, Presign, table
    <3>5. Once(k, worker.batch)
      BY <3>4 DEF Once, Range
    <3>6. worker.key # k
      <4>1. worker.key # 0 => worker.key \in Range(worker.batch)
        BY <1>1, HeldIsInBatch
      <4> QED
        BY <3>4, <4>1, ParametersAssumption
    <3>7. RowsIn(k, RowNames)' = {} /\ state'[k].status # "transcribed"
      BY <3>4, NoItemIsNone DEF RowsIn
    <3> QED
      BY <3>3, <3>4, <3>5, <3>6, <3>7 DEF Hidden
  <2> QED
    BY <2>3, <2>4
<1> QED
  BY <1>1, <1>2, <1>4 DEF StarInv

\* However the API, the worker and an operator who stars what he sees interleave, as long as
\* nothing fails: when nobody is writing a clip that was presigned once, the rows that queue,
\* list and count it are those its state item calls for, and all of them if nobody starred.
THEOREM RowsAreRightAlways == Spec => []RowsAreRight
<1>1. StarInv => TypeOK /\ ((crashes = 0 /\ faults = 0) =>
        \A k \in Keys : (presigns[k] <= 1 /\ Resting(k)) => PublicRowsRight(k))
  <2> SUFFICES ASSUME StarInv, crashes = 0, faults = 0, NEW k \in Keys, presigns[k] <= 1,
                      Resting(k)
               PROVE  PublicRowsRight(k)
    BY TypesHold DEF StarInv
  <2>1. TypeInv /\ Unregistered(k)
    BY DEF StarInv
  <2>2. RowsIn(k, RowNames \ FeaturedRows) = RowsIn(k, RowNames) \ FeaturedRows
    BY DEF RowsIn
  <2>3. CASE presigns[k] = 1 => Hidden(k)
    <3>1. RowsRight(k)
      BY <2>1, <2>3, SoundIsRight DEF Hidden
    <3> QED
      BY <2>2, <3>1 DEF RowsRight, PublicRowsRight
  <2>4. CASE Listed(k)
    <3>1. WritesOf(worker, k) = <<>> /\ WritesOf(operator, k) = <<>>
      BY DEF Resting, WritesOf
    <3>2. Converging(RowsIn(k, RowNames), PublicRowsOf(state[k]), <<>>, <<>>)
      BY <2>4, <3>1 DEF Listed
    <3>3. RowsIn(k, RowNames) \in SUBSET RowNames /\ state[k] \in Items \cup {NoItem}
      BY <2>1 DEF RowsIn, TypeInv, Shapes
    <3>4. RowsIn(k, RowNames) \ FeaturedRows = PublicRowsOf(state[k])
      BY <3>2, <3>3, PublicRowsAre, ConvergingEnd
    <3> QED
      BY <2>2, <3>4 DEF PublicRowsRight, PublicRowsOf
  <2> QED
    BY <2>3, <2>4 DEF StarInv
<1>2. Spec => []StarInv
  BY StarInit, StarStep, PTL DEF Spec
<1> DEFINE Quiet == crashes + faults + stars = 0 =>
                      \A k \in Keys : presigns[k] <= 1 /\ Resting(k) => RowsRight(k)
<1>3. Spec => []Quiet
  BY UndisturbedRows
<1>4. TypeOK /\ ((crashes = 0 /\ faults = 0) =>
        \A k \in Keys : (presigns[k] <= 1 /\ Resting(k)) => PublicRowsRight(k))
      /\ Quiet => RowsAreRight
  BY DEF RowsAreRight
<1> QED
  BY <1>1, <1>2, <1>3, <1>4, PTL

-----------------------------------------------------------------------------
(* What a poll takes.                                                      *)

LEMMA PollTakes ==
    ASSUME NEW ready \in First(ReadySlots(Waiting), Ready),
           NEW waiting \in First(Limit - Cardinality(ready), Waiting),
           ready \cup waiting # {},
           NEW batch \in ByAge(ready \cup waiting),
           worker'.batch = batch
    PROVE  LET chosen == Range(worker'.batch)
           IN  /\ Ready # {} => \E r \in Ready : r.key \in chosen
               /\ (Waiting # {} /\ Limit > 1) => \E r \in Waiting : r.key \in chosen
               /\ \A r, q \in Ready :
                     (r.key < q.key /\ q.key \in chosen) => r.key \in chosen
<1> DEFINE chosen == Range(worker'.batch)
<1>1. /\ chosen = {r.key : r \in ready \cup waiting}
      /\ Cardinality(ready) \in Nat /\ Cardinality(waiting) \in Nat
      /\ Cardinality(ready) <= ReadySlots(Waiting)
  BY BatchOf
<1>2. Limit \in Nat \ {0} /\ Keys \subseteq Nat
  BY ParametersAssumption
<1>3. /\ ready \subseteq Ready /\ waiting \subseteq Waiting
      /\ ready # Ready => Cardinality(ready) = ReadySlots(Waiting)
      /\ waiting # Waiting => Cardinality(waiting) = Limit - Cardinality(ready)
      /\ \A r \in ready, q \in Ready \ ready : r.key <= q.key
  BY DEF First
<1>4. Ready # {} => ready # {}
  <2> SUFFICES ASSUME Ready # {}, ready = {} PROVE FALSE
    OBVIOUS
  <2>1. Cardinality(ready) = 0
    BY FS_EmptySet
  <2>2. ReadySlots(Waiting) = 0
    BY <1>3, <2>1
  <2> QED
    BY <1>2, <2>2 DEF ReadySlots
<1>5. (Waiting # {} /\ Limit > 1) => waiting # {}
  <2> SUFFICES ASSUME Waiting # {}, Limit > 1, waiting = {} PROVE FALSE
    OBVIOUS
  <2>1. Cardinality(waiting) = 0
    BY FS_EmptySet
  <2>2. Limit - Cardinality(ready) = 0
    BY <1>3, <2>1
  <2>3. Cardinality(ready) <= Limit - 1
    BY <1>1, <1>2 DEF ReadySlots
  <2> QED
    BY <1>1, <1>2, <2>2, <2>3
<1>6. ASSUME NEW r \in Ready, NEW q \in Ready, r.key < q.key, q.key \in chosen
      PROVE  r.key \in chosen
  <2>1. PICK p \in ready \cup waiting : p.key = q.key
    BY <1>1, <1>6
  <2>2. p \in ready
    <3>1. p \in Found
      BY <1>3 DEF Ready, Waiting
    <3>2. p \in Ready
      BY <2>1, <3>1 DEF Ready
    <3> QED
      BY <1>3, <3>2 DEF Waiting
  <2>3. r.key \in Nat /\ p.key \in Nat
    BY <1>2, <1>3, <2>2 DEF Ready, Found
  <2>4. CASE r \in ready
    BY <1>1, <2>4
  <2>5. CASE r \notin ready
    BY <1>3, <1>6, <2>1, <2>2, <2>3, <2>5
  <2> QED
    BY <2>4, <2>5
<1> HIDE DEF chosen
<1>7. Ready # {} => \E r \in Ready : r.key \in chosen
  BY <1>1, <1>3, <1>4
<1>8. (Waiting # {} /\ Limit > 1) => \E r \in Waiting : r.key \in chosen
  BY <1>1, <1>3, <1>5
<1> QED
  BY <1>6, <1>7, <1>8 DEF chosen

\* Whatever the limit and the queue: a poll takes a ready clip if there is one, and one
\* that waits for its upload if there is one and room for two, and it takes the oldest
\* of the ready ones (_fair_pending_records).
THEOREM PollsAreFair == Spec => PollIsFair
<1>1. ASSUME Poll PROVE FairPoll
  <2>1. PICK ready \in First(ReadySlots(Waiting), Ready) :
         \E waiting \in First(Limit - Cardinality(ready), Waiting) :
         \E batch \in ByAge(ready \cup waiting) :
            /\ ready \cup waiting # {}
            /\ worker' = [IdleWorker EXCEPT !.pc = "claim", !.batch = batch,
                                            !.old = Range(batch) \cap expired]
    BY <1>1 DEF Poll
  <2>2. PICK waiting \in First(Limit - Cardinality(ready), Waiting) :
         \E batch \in ByAge(ready \cup waiting) :
            /\ ready \cup waiting # {}
            /\ worker' = [IdleWorker EXCEPT !.pc = "claim", !.batch = batch,
                                            !.old = Range(batch) \cap expired]
    BY <2>1
  <2>3. PICK batch \in ByAge(ready \cup waiting) :
         /\ ready \cup waiting # {}
         /\ worker' = [IdleWorker EXCEPT !.pc = "claim", !.batch = batch,
                                         !.old = Range(batch) \cap expired]
    BY <2>2
  <2>4. worker'.batch = batch
    BY <2>3 DEF IdleWorker
  <2> QED
    BY <2>3, <2>4, PollTakes, Zenon DEF FairPoll
<1>2. FairPoll
  BY <1>1 DEF FairPoll
<1> QED
  BY <1>2, PTL DEF Spec, PollIsFair
=============================================================================
